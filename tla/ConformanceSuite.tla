-------------------------- MODULE ConformanceSuite --------------------------
(***************************************************************************)
(* demo/conformance: twelve scenarios, run one after the other against an  *)
(* engine, each on a plan of its own, and the verdict on the engine.  The  *)
(* engine may have any set of Defects, and calls may fail on the way.      *)
(* pydantic_ai_algenta.conformance has the same suite once more, in code   *)
(* of its own.                                                             *)
(*                                                                         *)
(* An answer is [status, code, state, facts]: the HTTP status, the named   *)
(* error code, the lifecycle state or approval status it reports, and what *)
(* of the things a scenario looks for its body has.                        *)
(***************************************************************************)
EXTENDS Integers, Sequences, FiniteSets

CONSTANTS
    Suites,         \* "demo", "pydantic-ai"
    Defects,        \* what may be wrong with the engine
    MaxDefects,     \* at a time
    MaxLostCalls    \* calls that end in an exception

KnownDefects ==
    {"no_nonce", "unnamed_codes", "executes_unapproved", "executes_again",
     "any_nonce", "any_hash", "approves_again", "approve_forgets",
     "no_receipt", "foreign_receipt", "stale_digest", "advances_anyway"}

ASSUME ConformanceAssumption == Defects \subseteq KnownDefects

VARIABLES
    suite,
    defects,        \* of the engine under test
    plan,           \* the scenario's plan: [lifecycle, executions]
    heard,          \* the answers of the scenario, so far
    results,        \* of the scenarios that have been run: [outcome, plan]
    lost,
    exit            \* the exit code, -1 before the end

suiteVars == <<suite, defects, plan, heard, results, lost, exit>>

-----------------------------------------------------------------------------

SCENARIOS ==
    <<"read_only_recommendation", "execution_denied_by_policy",
      "execution_paused_for_approval", "approval_granted_then_execute",
      "approval_rejected", "duplicate_execution_prevented",
      "reused_challenge_rejected", "modified_plan_hash_rejected",
      "upstream_timeout_typed_retryable", "execution_receipt_versioned",
      "audit_export_hash_verifies", "replay_is_deterministic">>

NotExercisable ==
    {"execution_paused_for_approval", "upstream_timeout_typed_retryable",
     "replay_is_deterministic"}

ReceiptChecks ==
    {"receipt_version", "execution_id_distinct", "plan_hash_bound",
     "approval_state", "trace_adopted", "idempotency_echoed", "status_executed"}

_fresh_plan == <<"case", "run", "plan">>

\* The calls of a scenario, when none of them makes it stop.
CallsOf(key) ==
    CASE key = "read_only_recommendation"      -> _fresh_plan
      [] key = "execution_denied_by_policy"    -> _fresh_plan \o <<"execute">>
      [] key = "approval_granted_then_execute" ->
            _fresh_plan \o <<"approve", "execute">>
      [] key = "approval_rejected" ->
            _fresh_plan \o <<"approve_wrong_nonce", "read_case">>
      [] key = "duplicate_execution_prevented" ->
            _fresh_plan \o <<"approve", "execute", "execute">>
      [] key = "reused_challenge_rejected" ->
            _fresh_plan \o <<"approve", "approve">>
      [] key = "modified_plan_hash_rejected" ->
            _fresh_plan \o <<"approve_wrong_hash">>
      [] key = "execution_receipt_versioned" ->
            _fresh_plan \o <<"approve", "execute_traced">>
      [] key = "audit_export_hash_verifies"    -> <<"export">>

\* The scenarios of pydantic_ai_algenta make the same calls and look for the
\* same in the answers, but do not read the case after a rejected approval.
PydanticCallsOf(key) ==
    IF key = "approval_rejected" THEN _fresh_plan \o <<"approve_wrong_nonce">>
    ELSE CallsOf(key)

Created(answer) == answer.status \in {200, 201}

\* The asserts of _fresh_plan.
PlanFailed(h) ==
    \/ Len(h) >= 1 /\ ~Created(h[1])
    \/ Len(h) >= 2 /\ ~(Created(h[2]) \/ h[2].status = 202)
    \/ Len(h) >= 3 /\ ~(Created(h[3]) /\ {"plan_hash", "nonce"} \subseteq h[3].facts)

\* A scenario that fails before its last call.
StopsEarly(key, h) ==
    \/ key # "audit_export_hash_verifies" /\ PlanFailed(h)
    \/ /\ key = "approval_granted_then_execute"
       /\ Len(h) = 4
       /\ ~(h[4].status = 200 /\ h[4].state = "approved")

\* Mutant: the first execution and the code of the second are enough.
Holds_NoSecond(key, h) ==
    CASE key = "read_only_recommendation" ->
            h[3].state = "proposed" /\ "long_hash" \in h[3].facts
      [] key = "execution_denied_by_policy" ->
            h[4].status = 409 /\ h[4].code = "plan_not_approved"
      [] key = "approval_granted_then_execute" ->
            h[5].status = 200 /\ h[5].state = "executed" /\ h[5].facts # {}
      [] key = "approval_rejected" -> h[4].status = 403 /\ h[4].code = "invalid_nonce"
      [] key = "duplicate_execution_prevented" -> h[5].status = 200
      [] key = "reused_challenge_rejected" ->
            /\ h[4].status = 200 /\ h[5].status >= 400
            /\ h[5].code = "plan_not_approvable"
      [] key = "modified_plan_hash_rejected" ->
            h[4].status = 403 /\ h[4].code = "plan_hash_mismatch"
      [] key = "execution_receipt_versioned" ->
            h[5].status = 200 /\ ReceiptChecks \subseteq h[5].facts
      [] key = "audit_export_hash_verifies" ->
            h[1].status = 200 /\ {"digest", "digest_matches"} \subseteq h[1].facts

\* What s1 ... s11 assert of all the answers.
Holds(key, h) ==
    CASE key = "read_only_recommendation" ->
            h[3].state = "proposed" /\ "long_hash" \in h[3].facts
      [] key = "execution_denied_by_policy" ->
            h[4].status = 409 /\ h[4].code = "plan_not_approved"
      [] key = "approval_granted_then_execute" ->
            h[5].status = 200 /\ h[5].state = "executed" /\ h[5].facts # {}
      [] key = "approval_rejected" -> h[4].status = 403 /\ h[4].code = "invalid_nonce"
      [] key = "duplicate_execution_prevented" ->
            /\ h[5].status = 200 /\ h[6].status = 409
            /\ h[6].code = "plan_not_approved"
      [] key = "reused_challenge_rejected" ->
            /\ h[4].status = 200 /\ h[5].status >= 400
            /\ h[5].code = "plan_not_approvable"
      [] key = "modified_plan_hash_rejected" ->
            h[4].status = 403 /\ h[4].code = "plan_hash_mismatch"
      [] key = "execution_receipt_versioned" ->
            h[5].status = 200 /\ ReceiptChecks \subseteq h[5].facts
      [] key = "audit_export_hash_verifies" ->
            h[1].status = 200 /\ {"digest", "digest_matches"} \subseteq h[1].facts

-----------------------------------------------------------------------------

(***************************************************************************)
(* The engine, as the suite uses it: a plan is proposed, approved with its *)
(* hash and its nonce, and executed once.  A defect makes it do, or say,   *)
(* something else.                                                         *)
(***************************************************************************)
Unproposed == [lifecycle |-> "none", executions |-> 0]

Ok(status, state, facts) ==
    [status |-> status, code |-> "", state |-> state, facts |-> facts]

Named(code) == IF "unnamed_codes" \in defects THEN "" ELSE code

Refused(status, code) ==
    [status |-> status, code |-> Named(code), state |-> "", facts |-> {}]

Approve(p, call) ==
    CASE call = "approve_wrong_hash" /\ "any_hash" \notin defects ->
            Refused(403, "plan_hash_mismatch")
      [] /\ ~(call = "approve_wrong_hash" /\ "any_hash" \notin defects)
         /\ p.lifecycle # "proposed"
         /\ ~("approves_again" \in defects /\ p.lifecycle = "approved") ->
            Refused(409, "plan_not_approvable")
      [] /\ call = "approve_wrong_nonce"
         /\ p.lifecycle = "proposed"
         /\ "any_nonce" \notin defects -> Refused(403, "invalid_nonce")
      [] OTHER -> Ok(200, "approved", {})

Receipt(call) ==
    CASE "no_receipt" \in defects -> {}
      [] "no_receipt" \notin defects /\ "foreign_receipt" \in defects ->
            ReceiptChecks \ {"plan_hash_bound"}
      [] OTHER -> IF call = "execute_traced" THEN ReceiptChecks
                  ELSE ReceiptChecks \ {"trace_adopted", "idempotency_echoed"}

Execute(p, call) ==
    IF \/ p.lifecycle = "approved"
       \/ "executes_unapproved" \in defects /\ p.lifecycle = "proposed"
       \/ "executes_again" \in defects /\ p.lifecycle = "executed"
    THEN Ok(200, "executed", Receipt(call))
    ELSE Refused(409, "plan_not_approved")

\* To a call on a plan that is in state p.
Answer(p, call) ==
    CASE call \in {"case", "run"} -> Ok(201, "", {})
      [] call = "plan" ->
            Ok(201, "proposed", {"long_hash", "plan_hash"} \cup
                                (IF "no_nonce" \in defects THEN {} ELSE {"nonce"}))
      [] call \in {"approve", "approve_wrong_nonce", "approve_wrong_hash"} -> Approve(p, call)
      [] call \in {"execute", "execute_traced"} -> Execute(p, call)
      [] call = "read_case" -> Ok(200, "", {})
      [] call = "export" ->
            Ok(200, "", {"digest"} \cup (IF "stale_digest" \in defects THEN {}
                                         ELSE {"digest_matches"}))

\* What the engine does.  One that "advances_anyway" does what it refuses.
Done(p, call) ==
    LET granted == Answer(p, call).status = 200 \/ "advances_anyway" \in defects
    IN CASE call = "plan" -> [p EXCEPT !.lifecycle = "proposed"]
         [] call \in {"approve", "approve_wrong_nonce", "approve_wrong_hash"} ->
               IF granted /\ "approve_forgets" \notin defects
               THEN [p EXCEPT !.lifecycle = "approved"] ELSE p
         [] call \in {"execute", "execute_traced"} ->
               IF granted
               THEN [lifecycle |-> "executed", executions |-> p.executions + 1]
               ELSE p
         [] OTHER -> p

-----------------------------------------------------------------------------

ConfInit ==
    /\ suite \in Suites
    /\ defects \in {d \in SUBSET Defects : Cardinality(d) <= MaxDefects}
    /\ plan = Unproposed
    /\ heard = <<>>
    /\ results = <<>>
    /\ lost = 0
    /\ exit = -1

key == SCENARIOS[Len(results) + 1]

Underway == exit = -1 /\ Len(results) < Len(SCENARIOS)

Exercising == Underway /\ key \notin NotExercisable

Recorded(outcome, left) ==
    /\ results' = Append(results, [outcome |-> outcome, plan |-> left])
    /\ plan' = Unproposed
    /\ heard' = <<>>

\* main: ALGENTA_BASE_URL or ALGENTA_API_KEY is not set.
NotConfigured ==
    /\ exit = -1 /\ results = <<>> /\ heard = <<>>
    /\ exit' = 2
    /\ UNCHANGED <<suite, defects, plan, heard, results, lost>>

\* run: a scenario that cannot be exercised is BLOCKED.
Blocked ==
    /\ Underway /\ key \in NotExercisable
    /\ Recorded("BLOCKED", plan)
    /\ UNCHANGED <<suite, defects, lost, exit>>

Calls == IF suite = "demo" THEN CallsOf(key) ELSE PydanticCallsOf(key)

ToCall == ~StopsEarly(key, heard) /\ Len(heard) < Len(Calls)

NextCall == Calls[Len(heard) + 1]

\* Adapter.call: the engine's answer comes back.
Call ==
    /\ Exercising /\ ToCall
    /\ heard' = Append(heard, Answer(plan, NextCall))
    /\ plan' = Done(plan, NextCall)
    /\ UNCHANGED <<suite, defects, results, lost, exit>>

\* Mutant: a call that raises leaves the scenario blocked.
OnException_Blocked == "BLOCKED"

\* run: a crash is a failure, never a skip.
OnException == "FAIL"

\* Adapter.call raises, whether the engine has handled the request or not.
CallRaises ==
    /\ Exercising /\ ToCall
    /\ lost < MaxLostCalls
    /\ lost' = lost + 1
    /\ \E left \in {plan, Done(plan, NextCall)} :
          Recorded(OnException, left)
    /\ UNCHANGED <<suite, defects, exit>>

\* run: what the scenario returns, or its assert raises.
Judged ==
    /\ Exercising /\ ~ToCall
    /\ Recorded(IF ~StopsEarly(key, heard) /\ Holds(key, heard) THEN "PASS" ELSE "FAIL",
                plan)
    /\ UNCHANGED <<suite, defects, lost, exit>>

Reported ==
    /\ exit = -1 /\ Len(results) = Len(SCENARIOS)
    /\ exit' = IF \E i \in DOMAIN results : results[i].outcome = "FAIL" THEN 1 ELSE 0
    /\ UNCHANGED <<suite, defects, plan, heard, results, lost>>

ConfNext == NotConfigured \/ Blocked \/ Call \/ CallRaises \/ Judged \/ Reported

ConfSpec == ConfInit /\ [][ConfNext]_suiteVars

-----------------------------------------------------------------------------

\* The gate passes an engine if and only if nothing is wrong with it that a
\* caller can see, and the run lost no call: no two defects hide each other,
\* and nothing that was not exercised counts as a pass.
GateIsSound ==
    exit \in {0, 1} =>
        (exit = 0 <=> defects \subseteq {"advances_anyway"} /\ lost = 0)

\* What scenarios.py expects of the plan a passed scenario leaves behind.
ExpectedOf(k) ==
    CASE k \in {"read_only_recommendation", "execution_denied_by_policy",
                "approval_rejected", "modified_plan_hash_rejected"} ->
            {[lifecycle |-> "proposed", executions |-> 0]}
      [] k = "reused_challenge_rejected" -> {[lifecycle |-> "approved", executions |-> 0]}
      [] k = "audit_export_hash_verifies" -> {Unproposed}
      [] OTHER -> {[lifecycle |-> "executed", executions |-> 1]}

\* A scenario passes only where the engine has also done what the scenario
\* expects: a plan refused by name has not moved, an executed one has been
\* executed once.
PassIsEarned ==
    \A i \in DOMAIN results :
        results[i].outcome = "PASS" /\ "advances_anyway" \notin defects =>
            results[i].plan \in ExpectedOf(SCENARIOS[i])

\* scenarios.py:98, runner.py:191: approval_rejected passes only where the plan
\* has not advanced.  Not so: what the suite reads of the case it never looks at.
RefusalMovesNothing ==
    \A i \in DOMAIN results :
        results[i].outcome = "PASS" /\ SCENARIOS[i] = "approval_rejected" =>
            results[i].plan.lifecycle = "proposed"

=============================================================================
