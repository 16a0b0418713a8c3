---------------------------- MODULE StageExecution ----------------------------
(***************************************************************************)
(* What the execution of one Stage promises its caller, the Workflow       *)
(* engine: it answers once, it reports a technical error only after its     *)
(* retry budget is spent (or when the answer cannot be reduced), and        *)
(* after the death of a worker, or when the engine executes the Stage again, *)
(* the budget is whole.                                                    *)
(***************************************************************************)
EXTENDS Integers

CONSTANTS Limits,       \* values of stage_retries; Unlimited is one
          MaxRestarts   \* bound: workers that die while the Stage runs

Unlimited == -1

VARIABLES limit, phase, outcome, spent, restarts
execution == <<limit, phase, outcome, spent, restarts>>

Outcome == {"pass", "fail", "error"}
Begun == limit \in Limits /\ phase = "running" /\ outcome = "error" /\ spent = 0 /\ restarts = 0

Retry ==
  /\ phase = "running"
  /\ limit # Unlimited => spent < limit
  /\ spent' = IF limit = Unlimited THEN spent ELSE spent + 1
  /\ UNCHANGED <<limit, phase, outcome, restarts>>

Answer ==
  /\ phase = "running"
  /\ phase' \in {"reducing", "failing"}
  /\ phase' = "failing" => limit # Unlimited /\ spent = limit
  /\ UNCHANGED <<limit, outcome, spent, restarts>>

Return ==
  /\ \/ phase = "reducing" /\ outcome' \in Outcome
     \/ phase = "failing" /\ outcome' = "error"
  /\ phase' = "returned"
  /\ UNCHANGED <<limit, spent, restarts>>

Raise ==
  /\ phase \in {"running", "reducing", "failing"}
  /\ phase' = "raised"
  /\ UNCHANGED <<limit, outcome, spent, restarts>>

Restart ==
  /\ phase \in {"running", "reducing", "failing"}
  /\ restarts < MaxRestarts
  /\ restarts' = restarts + 1
  /\ phase' = "running" /\ outcome' = "error" /\ spent' = 0
  /\ UNCHANGED limit

Again ==
  /\ phase = "returned"
  /\ phase' = "running" /\ outcome' = "error" /\ spent' = 0
  /\ UNCHANGED <<limit, restarts>>

Next == Retry \/ Answer \/ Return \/ Raise \/ Restart \/ Again
Ended == phase \in {"returned", "raised"}

Safety == Begun /\ [][Next]_execution
Spec == Safety /\ (limit # Unlimited => WF_execution(Retry \/ Answer \/ Return \/ Raise))
=============================================================================
