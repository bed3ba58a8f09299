------------------------- MODULE MCDecisionJournal -------------------------
(***************************************************************************)
(* Small instances of DecisionJournal.                                     *)
(***************************************************************************)
EXTENDS DecisionJournal

MCCalls == 1 .. MaxRecords

MCAttempts == Calls \X (1 .. MaxAttempts)

MCProfile == [c \in Calls |-> "govern"]

MCInputs == {LogDecisionInput(d) : d \in Decisions}

=============================================================================
