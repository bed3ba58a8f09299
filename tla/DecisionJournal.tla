-------------------------- MODULE DecisionJournal --------------------------
(***************************************************************************)
(* recipes/durable_decision_memory.py: a workflow that is a journal.  Each *)
(* record signal starts a handler of its own, which logs the decision      *)
(* through an activity and then appends an entry; a close signal ends the  *)
(* workflow.  Its calls of GovernedActivity are the numbers of the record  *)
(* signals, in the order in which they arrive.                             *)
(***************************************************************************)
EXTENDS GovernedActivity, SequencesExt

CONSTANT MaxRecords     \* bound on the record signals sent to the journal

ASSUME JournalAssumption ==
    /\ MaxRecords \in Nat
    /\ 1 .. MaxRecords \subseteq Calls
    /\ [tool : {"log_decision"}, decision : Decisions,
        force : {FALSE}, override_safety : {FALSE}] \subseteq Inputs

VARIABLES
    arrived,    \* the number of record signals that have arrived
    entries,    \* _entries: the numbers of the signals journaled, in order
    closed,     \* _closed
    journal     \* "open", "returned" or "failed"

journalVars == <<arrived, entries, closed, journal>>
allJournalVars == <<vars, journalVars>>

LogDecisionInput(d) == [tool |-> "log_decision", decision |-> d,
                        force |-> FALSE, override_safety |-> FALSE]

Signals == 1 .. MaxRecords

Journaled == ToSet(entries)

JInit ==
    /\ Init
    /\ arrived = 0
    /\ entries = <<>>
    /\ closed = FALSE
    /\ journal = "open"

\* The record signal: its handler runs up to the await of its activity.
RecordSignal(d) ==
    /\ journal = "open"
    /\ arrived < MaxRecords
    /\ arrived' = arrived + 1
    /\ Schedule(arrived + 1, LogDecisionInput(d))
    /\ UNCHANGED <<entries, closed, journal>>

\* Mutant: a handler that has journaled its decision goes round again.
HandlerResumes_Again(n) == journal = "open" /\ Completed(n) /\ Len(entries) <= MaxRecords

HandlerResumes(n) == journal = "open" /\ Completed(n) /\ n \notin Journaled

\* Mutant: only the handler of the latest signal is kept.
AppendEntry_Latest(n) ==
    /\ n = arrived
    /\ HandlerResumes(n)
    /\ result[n].kind = "payload"
    /\ entries' = Append(entries, n)
    /\ UNCHANGED <<vars, arrived, closed, journal>>

\* The handler resumes when its own activity completes, whatever the handlers
\* of earlier signals are still waiting for.
AppendEntry(n) ==
    /\ HandlerResumes(n)
    /\ result[n].kind = "payload"
    /\ entries' = Append(entries, n)
    /\ UNCHANGED <<vars, arrived, closed, journal>>

\* A failure of the activity leaves the handler and fails the workflow.
HandlerRaised(n) ==
    /\ HandlerResumes(n)
    /\ result[n].kind # "payload"
    /\ journal' = "failed"
    /\ UNCHANGED <<vars, arrived, entries, closed>>

CloseSignal ==
    /\ journal = "open"
    /\ ~closed
    /\ closed' = TRUE
    /\ UNCHANGED <<vars, arrived, entries, journal>>

\* run() waits for the close signal and for nothing else.
Return ==
    /\ journal = "open"
    /\ closed
    /\ journal' = "returned"
    /\ UNCHANGED <<vars, arrived, entries, closed>>

Handler(n) == AppendEntry(n) \/ HandlerRaised(n)

\* The server starts no attempt for a workflow that has ended; those under
\* way go on.
JProgress ==
    /\ \/ journal = "open" /\ \E n \in Calls : Server(n)
       \/ \E a \in Attempts : Attempt(a) \/ Wire(a)
    /\ UNCHANGED journalVars

JNext ==
    \/ \E d \in Decisions : RecordSignal(d)
    \/ \E n \in Signals : Handler(n)
    \/ CloseSignal
    \/ Return
    \/ JProgress

JSpec == JInit /\ [][JNext]_allJournalVars

\* Workers, sessions, the engine and the workflow's own tasks make progress;
\* nobody has to send a signal.
JFairSpec ==
    /\ JSpec
    /\ \A a \in Attempts :
          /\ WF_allJournalVars(Establish(a) /\ UNCHANGED journalVars)
          /\ WF_allJournalVars((Refuse(a) \/ Send(a)) /\ UNCHANGED journalVars)
          /\ WF_allJournalVars(EngineCall(a) /\ UNCHANGED journalVars)
          /\ WF_allJournalVars(Receive(a) /\ UNCHANGED journalVars)
          /\ WF_allJournalVars(LoseContact(a) /\ UNCHANGED journalVars)
          /\ WF_allJournalVars(Close(a) /\ UNCHANGED journalVars)
    /\ \A n \in Signals :
          /\ WF_allJournalVars(journal = "open" /\ Server(n) /\ UNCHANGED journalVars)
          /\ WF_allJournalVars(Handler(n))
    /\ WF_allJournalVars(Return)

-----------------------------------------------------------------------------
(* What must hold                                                          *)

\* The journal's variables keep to the values the workflow can give them.
JTypeOK ==
    /\ TypeOK
    /\ arrived \in 0 .. MaxRecords
    /\ entries \in Seq(Signals)
    /\ closed \in BOOLEAN
    /\ journal \in {"open", "returned", "failed"}

\* Every journal entry, which queries and the summary show, stands for a
\* record in the engine's decision memory that an attempt of its own signal's
\* activity wrote, however often that was retried; and no signal is journaled
\* twice.
EntriesAreOnRecord ==
    /\ \A i, j \in DOMAIN entries : entries[i] = entries[j] => i = j
    /\ \A n \in Journaled :
          \E rec \in logged :
              rec.by[1] = n /\ rec.decision = input[n].decision

\* Every decision sent to a journal is journaled, unless the journal is closed
\* or an activity's failure has ended it.
RecordsAreJournaled ==
    \A n \in Signals :
        arrived >= n ~> n \in Journaled \/ closed \/ journal = "failed"

-----------------------------------------------------------------------------
(* What the documentation says and the code does not do                    *)

\* durable_decision_memory.py: "Signals are processed one at a time in arrival
\* order, so the journal's ordering is the order of record".  Each handler
\* appends when its own activity completes.
JournalInArrivalOrder ==
    \A i, j \in DOMAIN entries : i < j => entries[i] < entries[j]

=============================================================================
