------------------------- MODULE MCGovernedActivity -------------------------
(***************************************************************************)
(* Small instances of GovernedActivity.                                    *)
(***************************************************************************)
EXTENDS GovernedActivity, TLC

CONSTANTS c1, c2, c3, dPlain, dLow, dRejected

MCAttempts == Calls \X (1 .. MaxAttempts)

\* A third call goes to a worker that may not execute.
MCProfile == [c \in Calls |-> IF c = c3 THEN "govern" ELSE "execute"]

In(tool, d, force, override) ==
    [tool |-> tool, decision |-> d, force |-> force,
     override_safety |-> override]

\* Two calls racing for one decision, with and without force.
RaceInputs == {In("execute_decision", dPlain, f, FALSE) : f \in BOOLEAN}

\* Every gate, the override and the other tools.
ExecuteInputs ==
    {In("execute_decision", d, FALSE, o) :
        d \in Decisions, o \in BOOLEAN}

CallSymmetry == Permutations(Calls \ {c3})

=============================================================================
