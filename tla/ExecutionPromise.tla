-------------------------- MODULE ExecutionPromise --------------------------
(***************************************************************************)
(* What execute_decision promises a durable workflow, without sessions,    *)
(* retries, workers or timeouts: a call is asked for, has an effect or     *)
(* not, and gets an outcome that tells the truth about the effect.         *)
(* GovernedActivity implements it (the operator Promise there).            *)
(***************************************************************************)

CONSTANTS
    Calls,
    Inputs,     \* [tool, decision, force, override_safety] records
    Effects,    \* possible webhook requests: [by, decision, forced], where
                \* by[1] is the call
    NotAsked,   \* the input of a call nobody has made
    Pending,    \* the outcome of a call that has none
    Outcomes    \* [kind, detail, overridden] records

VARIABLES
    asked,      \* the input of each call
    effects,    \* the webhook requests sent
    outcome     \* what each call was told

promiseVars == <<asked, effects, outcome>>

By(c) == {x \in effects : x.by[1] = c}

On(d) == {x \in effects : x.decision = d}

Init ==
    /\ asked = [c \in Calls |-> NotAsked]
    /\ effects = {}
    /\ outcome = [c \in Calls |-> Pending]

Ask(c, in) ==
    /\ asked[c] = NotAsked
    /\ asked' = [asked EXCEPT ![c] = in]
    /\ UNCHANGED <<effects, outcome>>

\* An outcome that leaves nothing in doubt.
Conclusive(o) ==
    \/ o.kind \in {"receipt", "profile_denied"}
    \/ o.kind = "denial" /\ o.detail # "unnamed"

\* The webhook gets a request.  Without force it is the decision's first, and
\* nobody has been told yet how the call ended; with force it may be another.
\* A call that ended in doubt may still have its effect.
Execute(c, x) ==
    /\ asked[c] # NotAsked
    /\ asked[c].tool = "execute_decision"
    /\ x \notin effects
    /\ x.by[1] = c
    /\ x.decision = asked[c].decision
    /\ x.forced = asked[c].force
    /\ ~x.forced => /\ On(x.decision) = {}
                    /\ ~Conclusive(outcome[c])
    /\ effects' = effects \cup {x}
    /\ UNCHANGED <<asked, outcome>>

\* A receipt is given for an effect of the call itself, an idempotency denial
\* for an effect of anybody, the other denials and the profile's refusal for
\* no effect of the call.
Truthful(c, o) ==
    /\ o.kind = "receipt" => By(c) # {}
    /\ o.kind = "denial" /\ o.detail = "idempotency" =>
           On(asked[c].decision) # {}
    /\ \/ o.kind = "profile_denied"
       \/ o.kind = "denial" /\ o.detail \in {"confidence", "risk_floor"}
       => By(c) = {}

Answer(c, o) ==
    /\ asked[c] # NotAsked
    /\ outcome[c] = Pending
    /\ o # Pending
    /\ Truthful(c, o)
    /\ outcome' = [outcome EXCEPT ![c] = o]
    /\ UNCHANGED <<asked, effects>>

Next ==
    \E c \in Calls :
        \/ \E in \in Inputs : Ask(c, in)
        \/ \E x \in Effects : Execute(c, x)
        \/ \E o \in Outcomes : Answer(c, o)

Spec == Init /\ [][Next]_promiseVars

=============================================================================
