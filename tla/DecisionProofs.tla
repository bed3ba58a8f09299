--------------------------- MODULE DecisionProofs ---------------------------
(***************************************************************************)
(* What TLAPS proves of DecisionWorkflows, for any number of runs of each  *)
(* recipe, any decisions, surfaces, number of attempts and faults.         *)
(***************************************************************************)
EXTENDS DecisionWorkflows, GovernedActivityProofs, SequenceTheorems

-----------------------------------------------------------------------------
(* The inductive invariant                                                 *)

Started(r) == at[r] # "start"

Steps == [tool : PlanTools \cup {"workflow_started"},
          status : {"ok", "refused_by_profile"}]

Reports == [returned : BOOLEAN, executed : BOOLEAN, delivered : BOOLEAN,
            deduplicated : BOOLEAN]

\* Types of the runs' variables, and what a run that has been started has.
RunsAreTyped ==
    /\ action \in [Runs -> Decisions \cup {"none"}]
    /\ surface \in [Agents -> Surfaces \cup {"none"}]
    /\ at \in [Runs -> PlanTools \cup {"start", "returned", "failed"}]
    /\ rows \in [AuditAttempts -> [logged : SUBSET LoggedRecord,
                                   delivered : SUBSET Decisions]]
    /\ told \in [Runs -> Reports]
    /\ trail \in [Runs -> Seq(Steps)]
    /\ \A r \in Runs : Started(r) =>
          action[r] \in Decisions /\ (r \in Agents => surface[r] \in Surfaces)

\* A call belongs to a run that has been started, asks what its plan says, and
\* is advertised to it.
CallsFollowPlans ==
    \A c \in Calls : Scheduled(c) =>
        /\ Started(c[2])
        /\ input[c] = DecisionInput(c[1], action[c[2]])
        /\ Advertised(c[2], c[1], surface[c[2]])

\* What a step of run r's trail says is so.
IsSo(r, step) ==
    /\ step = Entry("log_decision", "ok")[1] =>
           RecordedBy(<<"log_decision", r>>) # {}
    /\ step = Entry("execute_decision", "ok")[1] =>
           SentBy(<<"execute_decision", r>>) # {}
    /\ step.status = "refused_by_profile" =>
           /\ <<step.tool, r>> \in Calls
           /\ ~Advertised(r, step.tool, surface[r])

TrueSteps(r) == {step \in Steps : IsSo(r, step)}

TrailsTellWhatIsSo ==
    \A r \in Runs :
        /\ trail[r] \in Seq(TrueSteps(r))
        /\ ~Started(r) => trail[r] = <<>>

\* A run that says the delivery is its own has sent the webhook request.
OwnersHaveSent ==
    \A r \in Runs : told[r].executed /\ ~told[r].deduplicated =>
        SentBy(<<"execute_decision", r>>) # {}

\* The rows an audit attempt was answered with show what run r did.
RowsShow(a, r) ==
    /\ \E rec \in rows[a].logged : rec.by[1] = <<"log_decision", r>>
    /\ action[r] \in rows[a].delivered

\* An audited run has written its record before it executes, and executed
\* before it asks for the audit rows, and so the answer shows both.
AuditComesLast(r) ==
    /\ at[r] = "execute_decision" => RecordedBy(<<"log_decision", r>>) # {}
    /\ Scheduled(<<"query_data", r>>) =>
           /\ RecordedBy(<<"log_decision", r>>) # {}
           /\ action[r] \in delivered
    /\ \A n \in 1 .. MaxAttempts :
           request[<<<<"query_data", r>>, n>>] = "handled" =>
               RowsShow(<<<<"query_data", r>>, n>>, r)
    /\ at[r] = "returned" =>
           /\ Completed(<<"query_data", r>>)
           /\ result[<<"query_data", r>>].kind = "payload"

AuditsComeLast == \A r \in Audited : AuditComesLast(r)

DInv ==
    /\ IInv
    /\ AttemptsInOrder
    /\ AnswersAreTheLastAttempts
    /\ RunsAreTyped
    /\ CallsFollowPlans
    /\ TrailsTellWhatIsSo
    /\ OwnersHaveSent
    /\ AuditsComeLast

-----------------------------------------------------------------------------
(* Plans                                                                   *)

\* A plan is short, its tools are calls of the run, and an audited run's is
\* known.
LEMMA PlanFacts ==
    ASSUME NEW r \in Runs
    PROVE  /\ Len(Plan(r)) \in 2 .. 4
           /\ \A k \in 1 .. Len(Plan(r)) :
                 Plan(r)[k] \in PlanTools /\ <<Plan(r)[k], r>> \in Calls
           /\ r \in Audited =>
                 Plan(r) = <<"log_decision", "execute_decision", "query_data">>
<1>1. r \in Durable \cup Dedup \cup Audited \cup Agents
  BY DEF Runs
<1>2. CASE r \in Agents
  BY <1>2, DecisionAssumption DEF Plan, AGENT_PLAN, PlanTools, Runs
<1>3. CASE r \in Audited
  BY <1>3, DecisionAssumption DEF Plan, PlanTools, Runs
<1>4. CASE r \in Durable \cup Dedup
  BY <1>4, DecisionAssumption DEF Plan, PlanTools, Runs
<1> QED
  BY <1>1, <1>2, <1>3, <1>4

LEMMA PlansAreSequences ==
    ASSUME NEW r \in Runs
    PROVE  DOMAIN Plan(r) = 1 .. Len(Plan(r))
<1>1. Plan(r) \in Seq(PlanTools)
  <2>1. \A a, b, c, d \in PlanTools :
            /\ <<a, b>> \in Seq(PlanTools)
            /\ <<a, b, c>> \in Seq(PlanTools)
            /\ <<a, b, c, d>> \in Seq(PlanTools)
    OBVIOUS
  <2>2. {"recommend", "plan_decision", "log_decision", "execute_decision",
         "query_data"} = PlanTools
    BY DEF PlanTools
  <2> QED
    BY <2>1, <2>2, DecisionAssumption DEF Plan, AGENT_PLAN, Runs
<1> QED
  BY <1>1, LenProperties

LEMMA SmallSetsHaveAMinimum ==
    ASSUME NEW S \in SUBSET (1 .. 5), S # {}
    PROVE  \E m \in S : \A k \in S : m <= k
<1>1. CASE 1 \in S
  BY <1>1
<1>2. CASE 1 \notin S /\ 2 \in S
  BY <1>2
<1>3. CASE 1 \notin S /\ 2 \notin S /\ 3 \in S
  BY <1>3
<1>4. CASE 1 \notin S /\ 2 \notin S /\ 3 \notin S /\ 4 \in S
  BY <1>4
<1>5. CASE S = {5}
  BY <1>5
<1>6. 1 \in S \/ 2 \in S \/ 3 \in S \/ 4 \in S \/ S = {5}
  <2>1. \A k \in S : k = 1 \/ k = 2 \/ k = 3 \/ k = 4 \/ k = 5
    OBVIOUS
  <2> QED
    BY <2>1
<1> QED
  BY <1>1, <1>2, <1>3, <1>4, <1>5, <1>6

\* The next tool of the plan is the first that is advertised.
LEMMA NextIsFirstAdvertised ==
    ASSUME NEW r \in Runs, NEW n \in 0 .. Len(Plan(r)), NEW profile
    PROVE  LET m == NextAdvertised(r, n, profile) IN
           /\ m \in (n + 1) .. (Len(Plan(r)) + 1)
           /\ m <= Len(Plan(r)) => Advertised(r, Plan(r)[m], profile)
           /\ \A k \in (n + 1) .. (m - 1) : ~Advertised(r, Plan(r)[k], profile)
<1> DEFINE last == Len(Plan(r))
           S == {k \in (n + 1) .. last : Advertised(r, Plan(r)[k], profile)}
                    \cup {last + 1}
<1>1. last \in 2 .. 4 /\ n \in Nat
  BY PlanFacts
<1> HIDE DEF last
<1>2. S \subseteq 1 .. 5 /\ last + 1 \in S
  BY <1>1
<1>3. \E m \in S : \A k \in S : m <= k
  BY <1>2, SmallSetsHaveAMinimum
<1>4. NextAdvertised(r, n, profile) = Min(S)
  BY DEF NextAdvertised, last
<1>5. Min(S) \in S /\ \A k \in S : Min(S) <= k
  BY <1>3 DEF Min
<1>6. LET m == NextAdvertised(r, n, profile) IN
      /\ m \in (n + 1) .. (last + 1)
      /\ m <= last => Advertised(r, Plan(r)[m], profile)
      /\ \A k \in (n + 1) .. (m - 1) : ~Advertised(r, Plan(r)[k], profile)
  <2> DEFINE m == NextAdvertised(r, n, profile)
  <2>1. m \in S /\ \A k \in S : m <= k
    BY <1>4, <1>5
  <2> HIDE DEF m
  <2>2. m \in (n + 1) .. (last + 1) /\ m <= last + 1
    BY <1>1, <2>1, n \in 0 .. last DEF last
  <2>3. m <= last => Advertised(r, Plan(r)[m], profile)
    BY <1>1, <2>1, <2>2
  <2>4. \A k \in (n + 1) .. (m - 1) : ~Advertised(r, Plan(r)[k], profile)
    BY <1>1, <2>1, <2>2
  <2> QED
    BY <2>2, <2>3, <2>4 DEF m
<1> QED
  BY <1>6 DEF last

-----------------------------------------------------------------------------
(* A run that goes on                                                      *)

\* Run r goes on behind step n of its plan: it has just been started, or the
\* call it was waiting for has answered what it wanted.
GoesOn(r, n, entry, profile) ==
    /\ Proceed(r, n, entry, action'[r], profile)
    /\ rows' = rows
    /\ action'[r] \in Decisions
    /\ r \in Agents => profile = surface'[r] /\ profile \in Surfaces
    /\ action' \in [Runs -> Decisions \cup {"none"}]
    /\ surface' \in [Agents -> Surfaces \cup {"none"}]
    /\ \A q \in Runs \ {r} : action'[q] = action[q]
    /\ \A q \in Agents \ {r} : surface'[q] = surface[q]
    /\ \/ n = 0 /\ ~Started(r)
       \/ /\ n \in 1 .. Len(Plan(r))
          /\ UNCHANGED <<action, surface>>
          /\ Awaits(Plan(r)[n], r)
          /\ Outcome(Plan(r)[n], r).kind = Wanted(Plan(r)[n])

\* What the run does next: it makes one call that is advertised to it, or
\* returns at the end of its plan.
LEMMA GoesOnToACall ==
    ASSUME DInv, NEW r \in Runs, NEW n, NEW entry, NEW profile,
           GoesOn(r, n, entry, profile)
    PROVE  /\ n \in 0 .. Len(Plan(r))
           /\ \/ \E k \in (n + 1) .. Len(Plan(r)) :
                    /\ at' = [at EXCEPT ![r] = Plan(r)[k]]
                    /\ Schedule(<<Plan(r)[k], r>>,
                                DecisionInput(Plan(r)[k], action'[r]))
                    /\ Advertised(r, Plan(r)[k], surface'[r])
                    /\ r \notin Agents => k = n + 1
                    /\ told' = told
              \/ /\ at' = [at EXCEPT ![r] = "returned"]
                 /\ told' = [told EXCEPT ![r] = ReportOf(r)]
                 /\ UNCHANGED vars
                 /\ r \notin Agents => n = Len(Plan(r))
<1> DEFINE m == NextAdvertised(r, n, profile)
<1>1. n \in 0 .. Len(Plan(r)) /\ Len(Plan(r)) \in Nat
  BY PlanFacts DEF GoesOn
<1>2. /\ m \in (n + 1) .. (Len(Plan(r)) + 1)
      /\ m <= Len(Plan(r)) => Advertised(r, Plan(r)[m], profile)
      /\ \A k \in (n + 1) .. (m - 1) : ~Advertised(r, Plan(r)[k], profile)
  BY <1>1, NextIsFirstAdvertised
<1>3. r \notin Agents => m = n + 1
  <2>1. ASSUME r \notin Agents, m # n + 1
        PROVE  FALSE
    <3> HIDE DEF m
    <3>1. n + 1 \in (n + 1) .. (m - 1)
      BY <1>1, <1>2, <2>1
    <3> QED
      BY <1>2, <2>1, <3>1 DEF Advertised
  <2> QED
    BY <2>1
<1>4. \/ /\ m <= Len(Plan(r))
         /\ at' = [at EXCEPT ![r] = Plan(r)[m]]
         /\ Schedule(<<Plan(r)[m], r>>, DecisionInput(Plan(r)[m], action'[r]))
         /\ UNCHANGED told
      \/ /\ m > Len(Plan(r))
         /\ at' = [at EXCEPT ![r] = "returned"]
         /\ told' = [told EXCEPT ![r] = ReportOf(r)]
         /\ UNCHANGED vars
  BY DEF GoesOn, Proceed
<1>5. Advertised(r, Plan(r)[m], profile) => Advertised(r, Plan(r)[m], surface'[r])
  BY DEF GoesOn, Advertised
<1> HIDE DEF m
<1>6. CASE /\ m <= Len(Plan(r))
           /\ at' = [at EXCEPT ![r] = Plan(r)[m]]
           /\ Schedule(<<Plan(r)[m], r>>, DecisionInput(Plan(r)[m], action'[r]))
           /\ UNCHANGED told
  <2>1. m \in (n + 1) .. Len(Plan(r))
    BY <1>1, <1>2, <1>6
  <2>2. Advertised(r, Plan(r)[m], surface'[r])
    BY <1>2, <1>5, <1>6
  <2> QED
    BY <1>1, <1>3, <1>6, <2>1, <2>2
<1>7. CASE /\ m > Len(Plan(r))
           /\ at' = [at EXCEPT ![r] = "returned"]
           /\ told' = [told EXCEPT ![r] = ReportOf(r)]
           /\ UNCHANGED vars
  <2>1. r \notin Agents => n = Len(Plan(r))
    BY <1>1, <1>3, <1>7
  <2> QED
    BY <1>1, <1>7, <2>1
<1> QED
  BY <1>4, <1>6, <1>7

\* Such a step is one of the activities.
LEMMA GoesOnIsActivityStep ==
    ASSUME DInv, NEW r \in Runs, NEW n, NEW entry, NEW profile,
           GoesOn(r, n, entry, profile)
    PROVE  /\ [Next]_vars
           /\ CallsAdvance
           /\ UNCHANGED <<logged, delivered, dispatches, request, result>>
<1>1. ASSUME NEW k \in 1 .. Len(Plan(r)),
             Schedule(<<Plan(r)[k], r>>, DecisionInput(Plan(r)[k], action'[r]))
      PROVE  /\ [Next]_vars
             /\ CallsAdvance
             /\ UNCHANGED <<logged, delivered, dispatches, request, result>>
  <2>1. <<Plan(r)[k], r>> \in Calls /\ Plan(r)[k] \in PlanTools
    BY PlanFacts
  <2>2. DecisionInput(Plan(r)[k], action'[r]) \in Inputs
    BY <2>1, DecisionAssumption DEF DecisionInput, GoesOn
  <2>3. request' = request
    BY <1>1 DEF Schedule, wireVars
  <2> QED
    BY <1>1, <2>1, <2>2, <2>3, ScheduleMakesOneCall DEF DInv, IInv, Next
<1>2. CASE UNCHANGED vars
  BY <1>2, StandingStill DEF vars, engineVars, serverVars, wireVars
<1>3. \A n1 \in 0 .. Len(Plan(r)) : \A k \in (n1 + 1) .. Len(Plan(r)) :
          k \in 1 .. Len(Plan(r))
  BY PlanFacts
<1> QED
  BY <1>1, <1>2, <1>3, GoesOnToACall

\* What was so stays so, of a run whose surface stays what it is.
LEMMA TruthStays ==
    ASSUME CallsAdvance, NEW r, r \in Agents => surface'[r] = surface[r]
    PROVE  TrueSteps(r) \subseteq TrueSteps(r)'
<1> SUFFICES ASSUME NEW step \in Steps, IsSo(r, step)
             PROVE  IsSo(r, step)'
  BY DEF TrueSteps
<1> QED
  BY DEF CallsAdvance, IsSo, RecordedBy, SentBy, Advertised, Entry

\* What it writes into its trail is so.
LEMMA GoesOnToTheTrail ==
    ASSUME DInv, NEW r \in Runs, NEW n, NEW profile,
           NEW entry \in Seq(TrueSteps(r)'), GoesOn(r, n, entry, profile)
    PROVE  TrailsTellWhatIsSo' /\ trail' \in [Runs -> Seq(Steps)]
<1> DEFINE m == NextAdvertised(r, n, profile)
           T == TrueSteps(r)'
           refused == [k \in 1 .. m - n - 1 |->
                          [tool |-> Plan(r)[n + k], status |-> "refused_by_profile"]]
<1>1. n \in 0 .. Len(Plan(r)) /\ Len(Plan(r)) \in Nat
  BY PlanFacts, GoesOnToACall
<1>2. /\ m \in (n + 1) .. (Len(Plan(r)) + 1)
      /\ \A k \in (n + 1) .. (m - 1) : ~Advertised(r, Plan(r)[k], profile)
  BY <1>1, NextIsFirstAdvertised
<1>3. refused \in Seq(T)
  <2> HIDE DEF m
  <2>1. m - n - 1 \in Nat
    BY <1>1, <1>2
  <2>2. ASSUME NEW k \in 1 .. m - n - 1
        PROVE  [tool |-> Plan(r)[n + k], status |-> "refused_by_profile"] \in T
    <3> DEFINE step == [tool |-> Plan(r)[n + k], status |-> "refused_by_profile"]
    <3>1. n + k \in 1 .. Len(Plan(r)) /\ n + k \in (n + 1) .. (m - 1)
      BY <1>1, <1>2, <2>2
    <3>2. /\ step.tool \in PlanTools /\ <<step.tool, r>> \in Calls
          /\ ~Advertised(r, step.tool, profile)
      BY <1>2, <3>1, PlanFacts
    <3>3. ~Advertised(r, step.tool, surface'[r])
      BY <3>2 DEF Advertised, GoesOn
    <3>4. step \in Steps
      BY <3>2 DEF Steps
    <3>5. step.status # "ok"
      OBVIOUS
    <3>6. Entry("log_decision", "ok")[1].status = "ok"
          /\ Entry("execute_decision", "ok")[1].status = "ok"
      BY DEF Entry
    <3>7. IsSo(r, step)'
      BY <3>2, <3>3, <3>5, <3>6 DEF IsSo
    <3> QED
      BY <3>4, <3>7 DEF TrueSteps
  <2> QED
    BY <2>1, <2>2
<1>4. trail[r] \in Seq(T)
  <2>1. CASE Started(r)
    <3>1. r \in Agents => surface'[r] = surface[r]
      BY <2>1 DEF GoesOn
    <3> QED
      BY <3>1, GoesOnIsActivityStep, TruthStays, SeqMonotonic
         DEF DInv, TrailsTellWhatIsSo
  <2>2. CASE ~Started(r)
    BY <2>2 DEF DInv, TrailsTellWhatIsSo
  <2> QED
    BY <2>1, <2>2
<1>5. trail[r] \o (entry \o refused) \in Seq(T)
  BY <1>3, <1>4, ConcatProperties
<1>6. /\ trail' = IF KeepsATrail(r)
                  THEN [trail EXCEPT ![r] = @ \o (entry \o refused)]
                  ELSE trail
  BY DEF GoesOn, Proceed, Recorded
<1>7. trail'[r] \in Seq(T) /\ \A q \in Runs \ {r} : trail'[q] = trail[q]
  BY <1>4, <1>5, <1>6 DEF DInv, RunsAreTyped
<1>8. \A q \in Runs \ {r} : trail'[q] \in Seq(TrueSteps(q)')
  <2> TAKE q \in Runs \ {r}
  <2>1. q \in Agents => surface'[q] = surface[q]
    BY DEF GoesOn
  <2> QED
    BY <1>7, <2>1, GoesOnIsActivityStep, TruthStays, SeqMonotonic
       DEF DInv, TrailsTellWhatIsSo
<1>9. Started(r)' /\ \A q \in Runs \ {r} : Started(q)' <=> Started(q)
  <2>1. \A k \in 1 .. Len(Plan(r)) : Plan(r)[k] # "start"
    BY PlanFacts DEF PlanTools
  <2>2. \A k \in (n + 1) .. Len(Plan(r)) : k \in 1 .. Len(Plan(r))
    BY <1>1
  <2>3. \E place : place # "start" /\ at' = [at EXCEPT ![r] = place]
    <3>1. CASE at' = [at EXCEPT ![r] = "returned"]
      BY <3>1
    <3>2. ASSUME NEW k \in (n + 1) .. Len(Plan(r)), at' = [at EXCEPT ![r] = Plan(r)[k]]
          PROVE  \E place : place # "start" /\ at' = [at EXCEPT ![r] = place]
      BY <2>1, <2>2, <3>2
    <3> QED
      BY <3>1, <3>2, GoesOnToACall
  <2> QED
    BY <2>3 DEF Started, DInv, RunsAreTyped
<1>10. TrailsTellWhatIsSo'
  BY <1>7, <1>8, <1>9 DEF DInv, TrailsTellWhatIsSo
<1>11. T \subseteq Steps /\ \A q \in Runs \ {r} : trail'[q] \in Seq(Steps)
  BY <1>7 DEF TrueSteps, DInv, RunsAreTyped
<1>12. trail' \in [Runs -> Seq(Steps)]
  <2>1. trail'[r] \in Seq(Steps)
    BY <1>7, <1>11, SeqMonotonic
  <2>2. DOMAIN trail' = Runs /\ trail' = [q \in Runs |-> trail'[q]]
    BY <1>6 DEF DInv, RunsAreTyped
  <2> QED
    BY <1>11, <2>1, <2>2
<1> QED
  BY <1>10, <1>12

\* What an answered call of the run's plan leaves behind.
LEMMA AnswersAreSo ==
    ASSUME DInv, NEW r \in Runs
    PROVE  /\ result[<<"log_decision", r>>].kind = "payload" =>
                  RecordedBy(<<"log_decision", r>>) # {}
           /\ result[<<"execute_decision", r>>].kind = "receipt" =>
                  /\ SentBy(<<"execute_decision", r>>) # {}
                  /\ action[r] \in delivered
<1> USE DEF DInv, IInv
<1>1. /\ <<"log_decision", r>> \in Calls /\ <<"execute_decision", r>> \in Calls
  BY DecisionAssumption
<1>2. ASSUME result[<<"log_decision", r>>].kind = "payload"
      PROVE  RecordedBy(<<"log_decision", r>>) # {}
  <2>1. Answered(result[<<"log_decision", r>>])
    BY <1>2 DEF Answered
  <2>2. Scheduled(<<"log_decision", r>>)
    BY <1>1, <2>1 DEF AnswersAreTheLastAttempts, Completed, Scheduled
  <2>3. input[<<"log_decision", r>>] = DecisionInput("log_decision", action[r])
    BY <1>1, <2>2 DEF CallsFollowPlans
  <2>4. input[<<"log_decision", r>>].tool = "log_decision"
    BY <2>3 DEF DecisionInput
  <2> QED
    BY <1>1, <1>2, <2>4, PayloadsAreOnRecord DEF RecordedBy
<1>3. ASSUME result[<<"execute_decision", r>>].kind = "receipt"
      PROVE  /\ SentBy(<<"execute_decision", r>>) # {}
             /\ action[r] \in delivered
  <2>1. PICK x \in dispatches : x.by[1] = <<"execute_decision", r>>
    BY <1>1, <1>3 DEF OutcomesAreBacked, Backed, SentBy
  <2>2. /\ x.decision = input[<<"execute_decision", r>>].decision
        /\ Scheduled(<<"execute_decision", r>>)
    BY <2>1 DEF SentAsAsked, CallsStartClean
  <2>3. /\ input[<<"execute_decision", r>>] = DecisionInput("execute_decision", action[r])
        /\ Started(r)
    BY <1>1, <2>2 DEF CallsFollowPlans
  <2>4. action[r] \in delivered
    BY <2>1, <2>2, <2>3 DEF DeliveredIsSent, SentFor, RunsAreTyped, DecisionInput
  <2> QED
    BY <2>1, <2>4 DEF SentBy
<1> QED
  BY <1>2, <1>3

\* The invariant holds behind such a step.
LEMMA GoesOnKeepsPlans ==
    ASSUME DInv, NEW r \in Runs, NEW n, NEW profile,
           NEW entry \in Seq(TrueSteps(r)'), GoesOn(r, n, entry, profile)
    PROVE  RunsAreTyped' /\ CallsFollowPlans' /\ OwnersHaveSent'
<1> USE DEF DInv
<1>1. /\ n \in 0 .. Len(Plan(r))
      /\ \A k \in (n + 1) .. Len(Plan(r)) :
            /\ k \in 1 .. Len(Plan(r))
            /\ Plan(r)[k] \in PlanTools /\ <<Plan(r)[k], r>> \in Calls
            /\ Plan(r)[k] # "start"
  <2>1. n \in 0 .. Len(Plan(r)) /\ Len(Plan(r)) \in Nat
    BY GoesOnToACall, PlanFacts
  <2>2. \A k \in (n + 1) .. Len(Plan(r)) : k \in 1 .. Len(Plan(r))
    BY <2>1
  <2>3. \A tool \in PlanTools : tool # "start"
    BY DEF PlanTools
  <2> QED
    BY <2>1, <2>2, <2>3, PlanFacts
<1>2. \E place \in PlanTools \cup {"returned"} :
          place # "start" /\ at' = [at EXCEPT ![r] = place]
  <2>1. CASE at' = [at EXCEPT ![r] = "returned"]
    BY <2>1
  <2>2. ASSUME NEW k \in (n + 1) .. Len(Plan(r)), at' = [at EXCEPT ![r] = Plan(r)[k]]
        PROVE  \E place \in PlanTools \cup {"returned"} :
                   place # "start" /\ at' = [at EXCEPT ![r] = place]
    BY <1>1, <2>2
  <2> QED
    BY <2>1, <2>2, GoesOnToACall
<1>3. /\ at' \in [Runs -> PlanTools \cup {"start", "returned", "failed"}]
      /\ Started(r)' /\ \A q \in Runs \ {r} : Started(q)' <=> Started(q)
  BY <1>2 DEF RunsAreTyped, Started
<1>4. told' = told \/ told' = [told EXCEPT ![r] = ReportOf(r)]
  BY GoesOnToACall
<1>5. ReportOf(r) \in Reports
  BY DEF ReportOf, Reports
<1>6. RunsAreTyped'
  <2>1. ASSUME NEW q \in Runs, Started(q)'
        PROVE  action'[q] \in Decisions /\ (q \in Agents => surface'[q] \in Surfaces)
    <3>1. CASE q = r
      <4>1. action'[r] \in Decisions /\ (r \in Agents => surface'[r] \in Surfaces)
        BY DEF GoesOn
      <4> QED
        BY <3>1, <4>1
    <3>2. CASE q # r
      <4>1. action'[q] = action[q] /\ (q \in Agents => surface'[q] = surface[q])
        BY <3>2 DEF GoesOn
      <4>2. Started(q)
        BY <1>3, <2>1, <3>2
      <4> QED
        BY <4>1, <4>2 DEF RunsAreTyped
    <3> QED
      BY <3>1, <3>2
  <2>2. told' \in [Runs -> Reports]
    BY <1>4, <1>5 DEF RunsAreTyped
  <2>3. /\ action' \in [Runs -> Decisions \cup {"none"}]
        /\ surface' \in [Agents -> Surfaces \cup {"none"}]
        /\ rows' = rows
    BY DEF GoesOn
  <2> QED
    BY <1>3, <2>1, <2>2, <2>3, GoesOnToTheTrail DEF RunsAreTyped
<1>7. CallsFollowPlans'
  <2> SUFFICES ASSUME NEW c \in Calls, Scheduled(c)'
               PROVE  /\ Started(c[2])'
                      /\ input'[c] = DecisionInput(c[1], action'[c[2]])
                      /\ Advertised(c[2], c[1], surface'[c[2]])
    BY DEF CallsFollowPlans
  <2>1. c[2] \in Runs
    BY DecisionAssumption
  <2>2. CASE Scheduled(c)
    <3>1. /\ Started(c[2]) /\ input'[c] = DecisionInput(c[1], action[c[2]])
          /\ Advertised(c[2], c[1], surface[c[2]])
      BY <2>2, GoesOnIsActivityStep DEF CallsFollowPlans, CallsAdvance
    <3>2. action'[c[2]] = action[c[2]] /\ (c[2] \in Agents => surface'[c[2]] = surface[c[2]])
      BY <2>1, <3>1 DEF GoesOn
    <3>3. Started(c[2])'
      BY <1>3, <2>1, <3>1
    <3> QED
      BY <3>1, <3>2, <3>3 DEF Advertised
  <2>3. CASE ~Scheduled(c)
    <3>1. PICK k \in (n + 1) .. Len(Plan(r)) :
             /\ Schedule(<<Plan(r)[k], r>>, DecisionInput(Plan(r)[k], action'[r]))
             /\ Advertised(r, Plan(r)[k], surface'[r])
      <4>1. ~UNCHANGED vars
        BY <2>3, StandingStill
      <4> QED
        BY <4>1, GoesOnToACall
    <3>2. /\ c = <<Plan(r)[k], r>>
          /\ input'[c] = DecisionInput(Plan(r)[k], action'[r])
      BY <1>1, <2>3, <3>1, ScheduleMakesOneCall DEF IInv
    <3> QED
      BY <1>3, <3>1, <3>2
  <2> QED
    BY <2>2, <2>3
<1>8. OwnersHaveSent'
  <2>1. dispatches' = dispatches
    BY GoesOnIsActivityStep
  <2>2. SentBy(<<"execute_decision", r>>) # {} \/ ~ReportOf(r).executed
    BY AnswersAreSo DEF ReportOf, Outcome
  <2>3. \A c : SentBy(c)' = SentBy(c)
    BY <2>1 DEF SentBy
  <2>4. ASSUME NEW q \in Runs
        PROVE  told'[q] = told[q] \/ (q = r /\ told'[q] = ReportOf(r))
    BY <1>4 DEF RunsAreTyped
  <2>5. ASSUME NEW q \in Runs, told'[q].executed, ~told'[q].deduplicated
        PROVE  SentBy(<<"execute_decision", q>>) # {}
    <3>1. CASE told'[q] = told[q]
      BY <2>5, <3>1 DEF OwnersHaveSent
    <3>2. CASE q = r /\ told'[q] = ReportOf(r)
      BY <2>2, <2>5, <3>2
    <3> QED
      BY <2>4, <3>1, <3>2
  <2> HIDE DEF DInv
  <2> QED
    BY <2>3, <2>5 DEF OwnersHaveSent
<1> QED
  BY <1>6, <1>7, <1>8

LEMMA GoesOnKeepsAudits ==
    ASSUME DInv, NEW r \in Runs, NEW n, NEW entry, NEW profile,
           GoesOn(r, n, entry, profile)
    PROVE  AuditsComeLast'
<1> USE DEF DInv
<1>1. /\ CallsAdvance
      /\ UNCHANGED <<logged, delivered, dispatches, request, result, rows>>
  BY GoesOnIsActivityStep DEF GoesOn
<1>2. ASSUME NEW q \in Audited, NEW k \in 1 .. MaxAttempts
      PROVE  <<"query_data", q>> \in Calls /\ <<<<"query_data", q>>, k>> \in Attempts
  BY DecisionAssumption DEF Attempts
<1>3. ASSUME NEW q \in Audited, q # r
      PROVE  /\ at'[q] = at[q] /\ action'[q] = action[q]
             /\ Scheduled(<<"query_data", q>>)' => Scheduled(<<"query_data", q>>)
  <2>1. q \in Runs /\ <<"query_data", q>> \in Calls
    BY <1>3, DecisionAssumption DEF Runs
  <2>2. action'[q] = action[q]
    BY <1>3, <2>1 DEF GoesOn
  <2>3. at'[q] = at[q]
    <3>1. \E place : at' = [at EXCEPT ![r] = place]
      BY GoesOnToACall
    <3> QED
      BY <1>3, <2>1, <3>1 DEF RunsAreTyped
  <2>4. ASSUME NEW k \in (n + 1) .. Len(Plan(r)),
               Schedule(<<Plan(r)[k], r>>, DecisionInput(Plan(r)[k], action'[r]))
        PROVE  Scheduled(<<"query_data", q>>)' => Scheduled(<<"query_data", q>>)
    BY <1>3, <2>4 DEF Schedule, Scheduled
  <2>5. UNCHANGED vars => (Scheduled(<<"query_data", q>>)' => Scheduled(<<"query_data", q>>))
    BY StandingStill
  <2> QED
    BY <2>2, <2>3, <2>4, <2>5, GoesOnToACall
<1>4. ASSUME NEW q \in Audited, q # r
      PROVE  AuditComesLast(q)'
  <2>1. /\ at'[q] = at[q] /\ action'[q] = action[q]
        /\ Scheduled(<<"query_data", q>>)' => Scheduled(<<"query_data", q>>)
    BY <1>3, <1>4
  <2>2. /\ Completed(<<"query_data", q>>) => Completed(<<"query_data", q>>)'
        /\ \A c : RecordedBy(c)' = RecordedBy(c)
        /\ \A a : RowsShow(a, q)' <=> RowsShow(a, q)
    BY <1>1, <1>2, <1>4, <2>1, DecisionAssumption
       DEF CallsAdvance, RecordedBy, RowsShow
  <2> QED
    BY <1>1, <1>4, <2>1, <2>2 DEF AuditsComeLast, AuditComesLast
<1>5. ASSUME r \in Audited
      PROVE  AuditComesLast(r)'
  <2>1. /\ Plan(r) = <<"log_decision", "execute_decision", "query_data">>
        /\ Len(Plan(r)) = 3 /\ r \notin Agents
        /\ <<"query_data", r>> \in Calls
    BY <1>5, PlanFacts, DecisionAssumption
  <2>2. /\ n \in 0 .. 3
        /\ \/ /\ n < 3 /\ at'[r] = Plan(r)[n + 1]
              /\ Schedule(<<Plan(r)[n + 1], r>>,
                          DecisionInput(Plan(r)[n + 1], action'[r]))
           \/ n = 3 /\ at'[r] = "returned" /\ UNCHANGED vars
    <3>1. at \in [Runs -> PlanTools \cup {"start", "returned", "failed"}]
      BY DEF RunsAreTyped
    <3>2. n \in 0 .. 3
      BY <2>1, GoesOnToACall
    <3>3. \/ \E k \in (n + 1) .. 3 :
                /\ at' = [at EXCEPT ![r] = Plan(r)[k]]
                /\ Schedule(<<Plan(r)[k], r>>, DecisionInput(Plan(r)[k], action'[r]))
                /\ k = n + 1
          \/ at' = [at EXCEPT ![r] = "returned"] /\ UNCHANGED vars /\ n = 3
      BY <2>1, GoesOnToACall
    <3>4. CASE at' = [at EXCEPT ![r] = "returned"] /\ UNCHANGED vars /\ n = 3
      BY <3>1, <3>4
    <3>5. CASE \E k \in (n + 1) .. 3 :
                   /\ at' = [at EXCEPT ![r] = Plan(r)[k]]
                   /\ Schedule(<<Plan(r)[k], r>>, DecisionInput(Plan(r)[k], action'[r]))
                   /\ k = n + 1
      <4>1. n + 1 \in (n + 1) .. 3 => n < 3
        BY <3>2
      <4> QED
        BY <3>1, <3>2, <3>5, <4>1
    <3> QED
      BY <3>3, <3>4, <3>5
  <2>3. \A k \in 1 .. MaxAttempts :
            request'[<<<<"query_data", r>>, k>>] = "handled" =>
                Scheduled(<<"query_data", r>>) /\ Started(r)
    BY <1>1, <1>2, <1>5, <2>1 DEF IInv, CallsStartClean, CallsFollowPlans
  <2>4. \A c : RecordedBy(c)' = RecordedBy(c)
    BY <1>1 DEF RecordedBy
  <2>5. ASSUME NEW k \in 1 .. MaxAttempts,
               request'[<<<<"query_data", r>>, k>>] = "handled"
        PROVE  RowsShow(<<<<"query_data", r>>, k>>, r)'
    <3>1. Started(r)
      BY <2>3, <2>5
    <3>2. action' = action
      BY <3>1, PlanFacts DEF GoesOn
    <3>3. RowsShow(<<<<"query_data", r>>, k>>, r)
      <4>1. request[<<<<"query_data", r>>, k>>] = "handled"
        BY <1>1, <2>5
      <4> QED
        BY <1>5, <4>1 DEF AuditsComeLast, AuditComesLast
    <3> QED
      BY <1>1, <3>2, <3>3 DEF RowsShow
  <2>6. at'[r] = "execute_decision" => RecordedBy(<<"log_decision", r>>) # {}
    <3> SUFFICES ASSUME at'[r] = "execute_decision"
                 PROVE  RecordedBy(<<"log_decision", r>>) # {}
      OBVIOUS
    <3>1. n = 1
      <4>1. n \in 0 .. 3 /\ at'[r] = IF n = 3 THEN "returned" ELSE Plan(r)[n + 1]
        BY <2>2
      <4>2. /\ Plan(r)[1] = "log_decision" /\ Plan(r)[2] = "execute_decision"
            /\ Plan(r)[3] = "query_data"
        BY <2>1
      <4>3. n = 0 \/ n = 1 \/ n = 2 \/ n = 3
        BY <4>1
      <4> QED
        BY <4>1, <4>2, <4>3
    <3>2. Outcome("log_decision", r).kind = "payload"
      BY <2>1, <3>1 DEF GoesOn, Wanted
    <3> QED
      BY <3>2, AnswersAreSo DEF Outcome
  <2>7. Scheduled(<<"query_data", r>>)' =>
            /\ RecordedBy(<<"log_decision", r>>) # {}
            /\ action'[r] \in delivered
    <3>1. CASE Scheduled(<<"query_data", r>>)
      <4>1. Started(r)
        BY <2>1, <3>1 DEF CallsFollowPlans
      <4>2. action' = action
        BY <4>1, PlanFacts DEF GoesOn
      <4> QED
        BY <1>5, <3>1, <4>2 DEF AuditsComeLast, AuditComesLast
    <3>2. CASE n = 2
      <4>1. /\ at[r] = "execute_decision" /\ action' = action
            /\ result[<<"execute_decision", r>>].kind = "receipt"
        BY <2>1, <3>2 DEF GoesOn, Outcome, Wanted, Awaits
      <4> QED
        BY <1>5, <4>1, AnswersAreSo DEF AuditsComeLast, AuditComesLast
    <3>3. CASE n # 2 /\ ~Scheduled(<<"query_data", r>>)
      <4>1. \E tool : tool # "query_data" /\
               (UNCHANGED vars \/ \E in : Schedule(<<tool, r>>, in))
        <5>1. n = 0 \/ n = 1 \/ n = 3
          BY <2>2, <3>3
        <5>2. ASSUME n = 0 \/ n = 1
              PROVE  Plan(r)[n + 1] # "query_data"
          BY <2>1, <5>2
        <5> QED
          BY <2>2, <5>1, <5>2
      <4>2. ~Scheduled(<<"query_data", r>>)'
        <5>1. CASE UNCHANGED vars
          BY <3>3, <5>1, StandingStill
        <5>2. ASSUME NEW tool, NEW in, tool # "query_data", Schedule(<<tool, r>>, in)
              PROVE  ~Scheduled(<<"query_data", r>>)'
          BY <2>1, <3>3, <5>2 DEF Schedule, Scheduled, IInv, TypeOK
        <5> QED
          BY <4>1, <5>1, <5>2
      <4> QED
        BY <4>2
    <3> QED
      BY <3>1, <3>2, <3>3
  <2>8. at'[r] = "returned" =>
            /\ Completed(<<"query_data", r>>)'
            /\ result'[<<"query_data", r>>].kind = "payload"
    BY <1>1, <2>1, <2>2 DEF GoesOn, Outcome, Wanted, Awaits, Completed, CallsAdvance
  <2> QED
    BY <1>1, <2>4, <2>5, <2>6, <2>7, <2>8 DEF AuditComesLast
<1> QED
  BY <1>4, <1>5 DEF AuditsComeLast

-----------------------------------------------------------------------------
(* The invariant is inductive                                              *)

LEMMA DInvariantInit == DInit => DInv
<1> SUFFICES ASSUME DInit
             PROVE  DInv
  OBVIOUS
<1>1. IInv /\ AttemptsInOrder /\ AnswersAreTheLastAttempts
  BY InvariantInit, AnswersInit DEF DInit
<1>2. /\ \A c \in Calls : ~Scheduled(c)
      /\ \A a \in Attempts : request[a] = "unsent"
  BY DEF DInit, Init, Scheduled
<1>3. RunsAreTyped /\ \A r \in Runs : ~Started(r)
  BY DEF DInit, RunsAreTyped, Started, NoRows, NotTold, Reports
<1>4. CallsFollowPlans
  BY <1>2 DEF CallsFollowPlans
<1>5. TrailsTellWhatIsSo /\ OwnersHaveSent
  BY DEF DInit, TrailsTellWhatIsSo, OwnersHaveSent, NotTold
<1>6. AuditsComeLast
  <2>1. \A r \in Audited : /\ r \in Runs /\ <<"query_data", r>> \in Calls
                           /\ \A n \in 1 .. MaxAttempts :
                                 <<<<"query_data", r>>, n>> \in Attempts
    BY DecisionAssumption DEF Attempts, Runs
  <2>2. \A r \in Runs : at[r] = "start"
    BY DEF DInit
  <2> QED
    BY <1>2, <2>1, <2>2 DEF AuditsComeLast, AuditComesLast
<1> QED
  BY <1>1, <1>3, <1>4, <1>5, <1>6 DEF DInv

\* A client that starts a run sets it going from the head of its plan.
LEMMA StartGoesOn ==
    ASSUME DInv, NEW r \in Runs, Start(r), rows' = rows
    PROVE  \E profile, entry : entry \in Seq(TrueSteps(r)') /\ GoesOn(r, 0, entry, profile)
<1> DEFINE entry == IF r \in Audited THEN Entry("workflow_started", "ok") ELSE <<>>
<1>1. PICK d \in Decisions, profile \in Surfaces :
         /\ action' = [action EXCEPT ![r] = d]
         /\ surface' = IF r \in Agents THEN [surface EXCEPT ![r] = profile]
                                       ELSE surface
         /\ Proceed(r, 0, entry, d, profile)
  BY DEF Start
<1>2. ~Started(r)
  BY DEF Start, Started
<1>3. GoesOn(r, 0, entry, profile)
  BY <1>1, <1>2 DEF GoesOn, DInv, RunsAreTyped
<1>4. [tool |-> "workflow_started", status |-> "ok"] \in TrueSteps(r)'
  BY DEF TrueSteps, Steps, IsSo, Entry
<1>5. entry \in Seq(TrueSteps(r)')
  BY <1>4 DEF Entry
<1> QED
  BY <1>3, <1>5

\* A run whose call has answered what it wanted goes on behind that call, and
\* what it writes into the trail of it is so.
LEMMA ResumeGoesOn ==
    ASSUME DInv, NEW r \in Runs, Resume(r), rows' = rows
    PROVE  \E n, profile, entry :
               entry \in Seq(TrueSteps(r)') /\ GoesOn(r, n, entry, profile)
<1> DEFINE profile == IF r \in Agents THEN surface[r] ELSE AnySurface
<1>1. PICK n \in DOMAIN Plan(r) :
         /\ Awaits(Plan(r)[n], r)
         /\ Outcome(Plan(r)[n], r).kind = Wanted(Plan(r)[n])
         /\ Proceed(r, n, Entry(Plan(r)[n], "ok"), action[r], profile)
  BY DEF Resume
<1>2. n \in 1 .. Len(Plan(r)) /\ Plan(r)[n] \in PlanTools
  BY <1>1, PlanFacts, PlansAreSequences
<1>3. UNCHANGED <<action, surface>>
  BY DEF Resume
<1>4. Started(r)
  BY <1>1, <1>2 DEF Awaits, Started, PlanTools
<1>5. GoesOn(r, n, Entry(Plan(r)[n], "ok"), profile)
  BY <1>1, <1>2, <1>3, <1>4 DEF GoesOn, DInv, RunsAreTyped
<1>6. [tool |-> Plan(r)[n], status |-> "ok"] \in TrueSteps(r)'
  <2> DEFINE step == [tool |-> Plan(r)[n], status |-> "ok"]
  <2>1. step \in Steps
    BY <1>2 DEF Steps
  <2>2. IsSo(r, step)
    <3>1. ASSUME step = Entry("log_decision", "ok")[1]
          PROVE  RecordedBy(<<"log_decision", r>>) # {}
      <4>1. Plan(r)[n] = "log_decision"
        BY <3>1 DEF Entry
      <4> QED
        BY <1>1, <4>1, AnswersAreSo DEF Outcome, Wanted
    <3>2. ASSUME step = Entry("execute_decision", "ok")[1]
          PROVE  SentBy(<<"execute_decision", r>>) # {}
      <4>1. Plan(r)[n] = "execute_decision"
        BY <3>2 DEF Entry
      <4> QED
        BY <1>1, <4>1, AnswersAreSo DEF Outcome, Wanted
    <3> QED
      BY <3>1, <3>2 DEF IsSo
  <2>3. CallsAdvance
    BY <1>5, GoesOnIsActivityStep
  <2> QED
    BY <1>3, <2>1, <2>2, <2>3, TruthStays DEF TrueSteps
<1>7. Entry(Plan(r)[n], "ok") \in Seq(TrueSteps(r)')
  BY <1>6 DEF Entry
<1> QED
  BY <1>5, <1>7

\* A run that ends with a denial or a failure leaves everything else alone.
LEMMA EndingStep ==
    ASSUME DInv, NEW r \in Runs, Deduplicated(r) \/ Raised(r), rows' = rows
    PROVE  /\ RunsAreTyped' /\ CallsFollowPlans' /\ TrailsTellWhatIsSo'
           /\ OwnersHaveSent' /\ AuditsComeLast'
<1> USE DEF DInv
<1>1. UNCHANGED <<vars, action, surface, trail, rows>>
  BY DEF Deduplicated, Raised
<1>2. /\ \A c : (Scheduled(c)' <=> Scheduled(c)) /\ (Completed(c)' <=> Completed(c))
      /\ \A c : RecordedBy(c)' = RecordedBy(c) /\ SentBy(c)' = SentBy(c)
      /\ UNCHANGED <<input, request, result, delivered>>
  BY <1>1 DEF vars, serverVars, engineVars, wireVars, Scheduled, Completed,
              RecordedBy, SentBy
<1>3. \E place \in {"returned", "failed"} :
         /\ at' = [at EXCEPT ![r] = place]
         /\ place = "returned" => r \in Dedup
  BY DEF Deduplicated, Raised, AlreadyDelivered
<1>4. at[r] # "start"
  BY DEF Deduplicated, Raised, AlreadyDelivered, Awaits, PlanTools
<1>5. \A q \in Runs : Started(q)' <=> Started(q)
  BY <1>3, <1>4 DEF RunsAreTyped, Started
<1>6. told' = told \/ told' = [told EXCEPT ![r] =
          [returned |-> TRUE, executed |-> TRUE, delivered |-> TRUE,
           deduplicated |-> TRUE]]
  BY DEF Deduplicated, Raised
<1>7. RunsAreTyped'
  <2>1. told' \in [Runs -> Reports]
    <3>1. [returned |-> TRUE, executed |-> TRUE, delivered |-> TRUE,
           deduplicated |-> TRUE] \in Reports
      BY DEF Reports
    <3> QED
      BY <1>6, <3>1 DEF RunsAreTyped
  <2>2. at' \in [Runs -> PlanTools \cup {"start", "returned", "failed"}]
    BY <1>3 DEF RunsAreTyped
  <2> QED
    BY <1>1, <1>5, <2>1, <2>2 DEF RunsAreTyped
<1>8. CallsFollowPlans'
  <2>1. \A c \in Calls : c[2] \in Runs
    BY DecisionAssumption
  <2> QED
    BY <1>1, <1>2, <1>5, <2>1 DEF CallsFollowPlans, Advertised
<1>9. TrailsTellWhatIsSo'
  <2> SUFFICES ASSUME NEW q \in Runs
               PROVE  trail[q] \in Seq(TrueSteps(q)')
    BY <1>1, <1>5 DEF TrailsTellWhatIsSo
  <2>1. CallsAdvance
    BY <1>1, StandingStill
  <2> QED
    BY <1>1, <2>1, TruthStays, SeqMonotonic DEF TrailsTellWhatIsSo
<1>10. OwnersHaveSent'
  <2>1. \A q \in Runs : told'[q].executed /\ ~told'[q].deduplicated =>
            told'[q] = told[q]
    BY <1>6 DEF RunsAreTyped
  <2> QED
    BY <1>2, <2>1 DEF OwnersHaveSent
<1>11. AuditsComeLast'
  <2> SUFFICES ASSUME NEW q \in Audited
               PROVE  AuditComesLast(q)'
    BY DEF AuditsComeLast
  <2>1. q \in Runs /\ q \notin Dedup
    BY DecisionAssumption DEF Runs
  <2>2. at'[q] \in {"execute_decision", "returned"} => at'[q] = at[q]
    BY <1>3, <2>1 DEF RunsAreTyped
  <2>3. \A a : RowsShow(a, q)' <=> RowsShow(a, q)
    BY <1>1 DEF RowsShow
  <2> QED
    BY <1>1, <1>2, <2>2, <2>3 DEF AuditsComeLast, AuditComesLast
<1> QED
  BY <1>7, <1>8, <1>9, <1>10, <1>11

\* Neither does what happens while every run waits, but for the engine's
\* answers to the audits.
LEMMA WaitingStep ==
    ASSUME DInv, UNCHANGED <<action, surface, at, trail, told>>, CallsAdvance,
           \A c \in Calls : Scheduled(c)' <=> Scheduled(c)
    PROVE  CallsFollowPlans' /\ TrailsTellWhatIsSo' /\ OwnersHaveSent'
<1> USE DEF DInv
<1>1. \A r : Started(r)' <=> Started(r)
  BY DEF Started
<1>2. CallsFollowPlans'
  BY <1>1 DEF CallsFollowPlans, CallsAdvance, Advertised
<1>3. TrailsTellWhatIsSo'
  <2> SUFFICES ASSUME NEW r \in Runs
               PROVE  trail[r] \in Seq(TrueSteps(r)')
    BY <1>1 DEF TrailsTellWhatIsSo
  <2> QED
    BY TruthStays, SeqMonotonic DEF TrailsTellWhatIsSo
<1>4. OwnersHaveSent'
  BY DEF OwnersHaveSent, SentBy, CallsAdvance
<1> QED
  BY <1>2, <1>3, <1>4

\* The engine answers an audit from what the run has done.
LEMMA AuditsStayLast ==
    ASSUME DInv, TypeOK', UNCHANGED <<action, surface, at, trail, told>>,
           CallsAdvance, delivered \subseteq delivered',
           \A c \in Calls : Scheduled(c)' <=> Scheduled(c),
           \A a \in AuditAttempts :
               \/ request'[a] = "handled" => request[a] = "handled" /\ rows'[a] = rows[a]
               \/ /\ Scheduled(a[1])
                  /\ rows'[a] = [logged |-> logged, delivered |-> delivered]
    PROVE  AuditsComeLast'
<1> USE DEF DInv
<1> SUFFICES ASSUME NEW r \in Audited
             PROVE  AuditComesLast(r)'
  BY DEF AuditsComeLast
<1>1. /\ <<"query_data", r>> \in Calls
      /\ \A n \in 1 .. MaxAttempts : <<<<"query_data", r>>, n>> \in AuditAttempts
  BY DecisionAssumption DEF Attempts, AuditAttempts
<1>2. \A c : RecordedBy(c) # {} => RecordedBy(c)' # {}
  BY DEF RecordedBy, CallsAdvance
<1>3. ASSUME NEW n \in 1 .. MaxAttempts,
             request'[<<<<"query_data", r>>, n>>] = "handled"
      PROVE  RowsShow(<<<<"query_data", r>>, n>>, r)'
  <2> DEFINE a == <<<<"query_data", r>>, n>>
  <2>1. CASE request[a] = "handled" /\ rows'[a] = rows[a]
    BY <2>1 DEF AuditsComeLast, AuditComesLast, RowsShow
  <2>2. CASE /\ Scheduled(a[1])
             /\ rows'[a] = [logged |-> logged, delivered |-> delivered]
    <3>1. RecordedBy(<<"log_decision", r>>) # {} /\ action[r] \in delivered
      BY <2>2 DEF AuditsComeLast, AuditComesLast
    <3> QED
      BY <2>2, <3>1 DEF RowsShow, RecordedBy
  <2> QED
    BY <1>1, <1>3, <2>1, <2>2
<1>4. Completed(<<"query_data", r>>) =>
          /\ Completed(<<"query_data", r>>)'
          /\ result'[<<"query_data", r>>] = result[<<"query_data", r>>]
  BY <1>1 DEF CallsAdvance
<1>5. Scheduled(<<"query_data", r>>)' <=> Scheduled(<<"query_data", r>>)
  BY <1>1
<1> QED
  BY <1>2, <1>3, <1>4, <1>5 DEF AuditsComeLast, AuditComesLast

LEMMA DStepIsActivityStep ==
    ASSUME DInv, [DNext]_allVars
    PROVE  [Next]_vars
<1>1. ASSUME NEW r \in Runs, Run(r)
      PROVE  [Next]_vars
  BY <1>1, StartGoesOn, ResumeGoesOn, GoesOnIsActivityStep
     DEF Run, Deduplicated, Raised
<1>2. CASE DProgress
  <2>1. AuditAttempts \subseteq Attempts
    BY DEF AuditAttempts
  <2> QED
    BY <1>2, <2>1 DEF DProgress, Audit, Next, Progress, Wire
<1>3. CASE UNCHANGED allVars
  BY <1>3 DEF allVars
<1> QED
  BY <1>1, <1>2, <1>3 DEF DNext

LEMMA DInvariantStep == DInv /\ [DNext]_allVars => DInv'
<1> SUFFICES ASSUME DInv, [DNext]_allVars
             PROVE  DInv'
  OBVIOUS
<1> USE DEF DInv
<1>1. [Next]_vars
  BY DStepIsActivityStep
<1>2. IInv' /\ AttemptsInOrder' /\ AnswersAreTheLastAttempts'
  BY <1>1, InvariantStep, AnswersStep DEF IInv
<1>3. ASSUME NEW r \in Runs, Run(r)
      PROVE  DInv'
  <2>1. CASE Start(r) \/ Resume(r)
    <3>1. PICK n, profile, entry :
             entry \in Seq(TrueSteps(r)') /\ GoesOn(r, n, entry, profile)
      BY <1>3, <2>1, StartGoesOn, ResumeGoesOn DEF Run
    <3> QED
      BY <1>2, <3>1, GoesOnKeepsPlans, GoesOnToTheTrail, GoesOnKeepsAudits
  <2>2. CASE Deduplicated(r) \/ Raised(r)
    BY <1>2, <1>3, <2>2, EndingStep DEF Run
  <2> QED
    BY <1>3, <2>1, <2>2 DEF Run
<1>4. ASSUME UNCHANGED <<action, surface, at, trail, told>>, CallsAdvance,
             \A c \in Calls : Scheduled(c)' <=> Scheduled(c),
             rows' \in [AuditAttempts -> [logged : SUBSET LoggedRecord,
                                          delivered : SUBSET Decisions]],
             \A a \in AuditAttempts :
                 \/ request'[a] = "handled" =>
                        request[a] = "handled" /\ rows'[a] = rows[a]
                 \/ /\ Scheduled(a[1])
                    /\ rows'[a] = [logged |-> logged, delivered |-> delivered]
      PROVE  DInv'
  <2>1. RunsAreTyped'
    BY <1>4 DEF RunsAreTyped, Started
  <2>2. delivered \subseteq delivered'
    <3>1. dispatches \subseteq dispatches'
      BY <1>4 DEF CallsAdvance
    <3>2. delivered \subseteq Decisions
      BY DEF IInv, TypeOK, EngineTypeOK
    <3> QED
      BY <1>2, <3>1, <3>2 DEF IInv, DeliveredIsSent, SentFor
  <2> QED
    BY <1>2, <1>4, <2>1, <2>2, WaitingStep, AuditsStayLast DEF IInv
<1>5. CASE DProgress
  <2>1. AuditAttempts \subseteq Attempts
    BY DEF AuditAttempts
  <2>2. Progress
    BY <1>5, <2>1 DEF DProgress, Audit, Progress, Wire
  <2>3. CallsAdvance /\ \A c \in Calls : Scheduled(c)' <=> Scheduled(c)
    BY <2>2, ProgressMakesNoCall DEF IInv
  <2>4. CASE /\ \/ \E c \in Calls : Server(c)
                \/ \E a \in Attempts : Attempt(a) \/ LoseRequest(a)
                \/ \E a \in Attempts \ AuditAttempts : EngineCall(a)
             /\ UNCHANGED rows
    <3>1. \A b \in AuditAttempts : request'[b] = "handled" => request[b] = "handled"
      <4>1. CASE UNCHANGED request
        BY <4>1
      <4>2. ASSUME NEW a \in Attempts, NEW p \in {"inflight", "lost"},
                   request' = [request EXCEPT ![a] = p]
            PROVE  \A b \in AuditAttempts : request'[b] = "handled" => request[b] = "handled"
        BY <2>1, <4>2 DEF IInv, TypeOK
      <4>3. ASSUME NEW a \in Attempts \ AuditAttempts, EngineCall(a)
            PROVE  \A b \in AuditAttempts : request'[b] = "handled" => request[b] = "handled"
        BY <2>1, <4>3 DEF IInv, TypeOK, EngineCall
      <4>4. ASSUME NEW a \in Attempts, Attempt(a)
            PROVE  \/ UNCHANGED request
                   \/ \E p \in {"inflight", "lost"} : request' = [request EXCEPT ![a] = p]
        BY <4>4 DEF Attempt, Establish, EstablishFails, CancelledWhileOpening,
           AbortOpen, Refuse, Send, Receive, LoseContact, Close, CloseFails,
           CancelledInCall, Crash, wireVars
      <4> QED
        BY <2>4, <4>1, <4>2, <4>3, <4>4
           DEF Server, Poll, StartToCloseTimeout, LoseRequest, wireVars
    <3> QED
      BY <1>4, <1>5, <2>3, <2>4, <3>1 DEF DProgress, RunsAreTyped
  <2>5. ASSUME NEW a \in AuditAttempts, Audit(a)
        PROVE  DInv'
    <3>1. /\ rows' = [rows EXCEPT ![a] = [logged |-> logged, delivered |-> delivered]]
          /\ request' = [request EXCEPT ![a] = "handled"]
          /\ request[a] = "inflight"
      BY <2>5 DEF Audit, EngineCall
    <3>2. Scheduled(a[1])
      BY <2>1, <3>1, ActiveIsScheduled DEF IInv
    <3>3. logged \subseteq LoggedRecord /\ delivered \subseteq Decisions
      BY DEF IInv, TypeOK, EngineTypeOK
    <3>4. rows' \in [AuditAttempts -> [logged : SUBSET LoggedRecord,
                                       delivered : SUBSET Decisions]]
      BY <3>1, <3>3 DEF RunsAreTyped
    <3>5. \A b \in AuditAttempts :
              \/ request'[b] = "handled" =>
                     request[b] = "handled" /\ rows'[b] = rows[b]
              \/ /\ Scheduled(b[1])
                 /\ rows'[b] = [logged |-> logged, delivered |-> delivered]
      BY <2>1, <3>1, <3>2 DEF IInv, TypeOK, RunsAreTyped
    <3> QED
      BY <1>4, <1>5, <2>3, <3>4, <3>5 DEF DProgress
  <2> QED
    BY <1>5, <2>4, <2>5 DEF DProgress
<1>6. CASE UNCHANGED allVars
  <2>1. UNCHANGED <<action, surface, at, trail, rows, told, request>>
    BY <1>6 DEF allVars, workflowVars, vars, wireVars
  <2>2. CallsAdvance /\ \A c \in Calls : Scheduled(c)' <=> Scheduled(c)
    BY <1>6, StandingStill DEF allVars
  <2> QED
    BY <1>4, <2>1, <2>2 DEF RunsAreTyped
<1> QED
  BY <1>3, <1>5, <1>6 DEF DNext

THEOREM DInvariance == DSpec => []DInv
<1> QED
  BY DInvariantInit, DInvariantStep, PTL DEF DSpec

\* All the runs with their activities are a behaviour of GovernedActivity, so
\* what is proved of calls holds of theirs.
THEOREM DecisionsImplementActivities == DSpec => Spec
<1>1. DInit => Init
  BY DEF DInit
<1>2. DInv /\ [DNext]_allVars => [Next]_vars
  BY DStepIsActivityStep
<1> QED
  BY <1>1, <1>2, DInvariance, PTL DEF DSpec, Spec

-----------------------------------------------------------------------------
(* What follows from it                                                    *)

\* However many runs are started for one decision, and whichever of their
\* attempts are lost, late or repeated, at most one of them tells its client
\* that the delivery is its own, and it is right.
THEOREM DeliveriesHaveOneOwner == DSpec => []OneRunOwnsTheDelivery
<1>1. DInv => OneRunOwnsTheDelivery
  <2> SUFFICES ASSUME DInv
               PROVE  OneRunOwnsTheDelivery
    OBVIOUS
  <2> USE DEF DInv, IInv
  <2>1. ASSUME NEW r \in Runs, Told(r), ~told[r].deduplicated
        PROVE  \E x \in SentFor(action[r]) :
                   x.by[1] = <<"execute_decision", r>> /\ ~x.forced
    <3>1. PICK x \in dispatches : x.by[1] = <<"execute_decision", r>>
      BY <2>1 DEF Told, OwnersHaveSent, SentBy
    <3>2. <<"execute_decision", r>> \in Calls
      BY DecisionAssumption
    <3>3. /\ x.decision = input[<<"execute_decision", r>>].decision
          /\ x.forced = input[<<"execute_decision", r>>].force
          /\ Scheduled(<<"execute_decision", r>>)
      BY <3>1 DEF SentAsAsked, CallsStartClean
    <3>4. input[<<"execute_decision", r>>] =
              DecisionInput("execute_decision", action[r])
      BY <3>2, <3>3 DEF CallsFollowPlans
    <3>5. x.decision = action[r] /\ ~x.forced
      BY <3>3, <3>4 DEF DecisionInput
    <3> QED
      BY <3>1, <3>5 DEF SentFor
  <2>2. ASSUME NEW r \in Runs, Told(r), ~told[r].deduplicated,
               NEW q \in Runs \ {r}, action[q] = action[r], Told(q)
        PROVE  told[q].deduplicated
    <3> SUFFICES ASSUME ~told[q].deduplicated
                 PROVE  FALSE
      OBVIOUS
    <3>1. PICK x \in SentFor(action[r]) :
             x.by[1] = <<"execute_decision", r>> /\ ~x.forced
      BY <2>1, <2>2
    <3>2. PICK y \in SentFor(action[q]) :
             y.by[1] = <<"execute_decision", q>> /\ ~y.forced
      BY <2>1, <2>2
    <3>3. x.by[1] # y.by[1]
      BY <3>1, <3>2
    <3> QED
      BY <2>2, <3>1, <3>2, <3>3 DEF AtMostOneUnforced, SentFor
  <2> QED
    BY <2>1, <2>2 DEF OneRunOwnsTheDelivery
<1> QED
  BY <1>1, DInvariance, PTL

\* A trail or report tells nothing but what has happened, and an agent has no
\* effect its surface does not advertise.
THEOREM TrailsAreBacked == DSpec => []TrailIsBacked
<1>1. DInv => TrailIsBacked
  <2> SUFFICES ASSUME DInv
               PROVE  TrailIsBacked
    OBVIOUS
  <2> USE DEF DInv, IInv
  <2>1. ASSUME NEW r \in Runs, NEW i \in DOMAIN trail[r]
        PROVE  trail[r][i] \in TrueSteps(r)
    BY <2>1, LenProperties, ElementOfSeq DEF TrailsTellWhatIsSo
  <2>2. ASSUME NEW r \in Runs, NEW step \in TrueSteps(r),
               step.status = "refused_by_profile", NEW n \in 1 .. MaxAttempts
        PROVE  request[<<<<step.tool, r>>, n>>] = "unsent"
    <3>1. <<step.tool, r>> \in Calls /\ ~Advertised(r, step.tool, surface[r])
      BY <2>2 DEF TrueSteps, IsSo
    <3>2. ~Scheduled(<<step.tool, r>>)
      BY <3>1 DEF CallsFollowPlans
    <3>3. <<<<step.tool, r>>, n>> \in Attempts
      BY <3>1 DEF Attempts
    <3> QED
      BY <3>2, <3>3 DEF CallsStartClean
  <2>3. ASSUME NEW x \in dispatches \cup logged, x.by[1][2] \in Agents
        PROVE  x.by[1][1] \in NamedTools(surface[x.by[1][2]])
    <3>1. x.by[1] \in Calls /\ Scheduled(x.by[1])
      BY RequestersAreAttempts DEF TypeOK, CallsStartClean
    <3>2. x.by[1][1] \in PlanTools
      BY <3>1, DecisionAssumption
    <3>3. is_tool_allowed_for_profile(x.by[1][1], surface[x.by[1][2]])
      BY <2>3, <3>1 DEF CallsFollowPlans, Advertised
    <3> QED
      BY <3>2, <3>3 DEF is_tool_allowed_for_profile, NamedTools, PlanTools,
         EXECUTE_TOOLS, GOVERN_TOOLS, OBSERVE_TOOLS
  <2>4. ASSUME NEW r \in Runs, NEW step \in TrueSteps(r)
        PROVE  /\ step = Entry("log_decision", "ok")[1] =>
                      \E rec \in logged : rec.by[1] = <<"log_decision", r>>
               /\ step = Entry("execute_decision", "ok")[1] =>
                      \E x \in dispatches : x.by[1] = <<"execute_decision", r>>
    BY DEF TrueSteps, IsSo, RecordedBy, SentBy
  <2> QED
    BY <2>1, <2>2, <2>3, <2>4 DEF TrailIsBacked
<1> QED
  BY <1>1, DInvariance, PTL

\* The audit rows an audited run hands back with its trail are those of its
\* last attempt, asked for when everything it tells of had been done.
THEOREM AuditsConfirmTrails == DSpec => []AuditConfirmsTheTrail
<1>1. DInv => AuditConfirmsTheTrail
  <2> SUFFICES ASSUME DInv, NEW r \in Audited, at[r] = "returned"
               PROVE  LET a == <<<<"query_data", r>>, current[<<"query_data", r>>]>>
                      IN  RowsShow(a, r)
    BY DEF AuditConfirmsTheTrail, RowsShow
  <2> USE DEF DInv, IInv
  <2>1. <<"query_data", r>> \in Calls
    BY DecisionAssumption
  <2>2. Answered(result[<<"query_data", r>>])
    BY DEF AuditsComeLast, AuditComesLast, Answered
  <2>3. /\ Completed(<<"query_data", r>>)
        /\ request[<<<<"query_data", r>>, current[<<"query_data", r>>]>>] = "handled"
    BY <2>1, <2>2 DEF AnswersAreTheLastAttempts
  <2>4. current[<<"query_data", r>>] \in 1 .. MaxAttempts
    BY <2>1, <2>3 DEF CallsStartClean, Scheduled, Completed
  <2> QED
    BY <2>3, <2>4 DEF AuditsComeLast, AuditComesLast
<1> QED
  BY <1>1, DInvariance, PTL

=============================================================================
