------------------------------- MODULE Workflows -------------------------------
(* Workflows and child Workflows for the runs of FlowEngine. *)
EXTENDS Sequences, Integers

Text == {"", "next", "done", "stop", "plan", "e1", "r1", "e2", "r2", "t1", "t2",
         "t9", "n1", "sub", "x", "rx", "h", "a", "b", "tail", "last", "e", "r", "work",
         "check", "final", "b b", "b_b"}
(* _safe_name: every other character becomes "_". *)
Safe == [l \in Text |-> IF l = "b b" THEN "b_b" ELSE l]

Stage(l) ==
  [local |-> l, review |-> FALSE, maxFailures |-> 0, failSoft |-> FALSE,
   canFail |-> FALSE, session |-> FALSE, pass |-> "next", fail |-> "stop",
   targets |-> {}, yields |-> {}, task |-> "", completes |-> FALSE]
Producer(l, flows) == [Stage(l) EXCEPT !.yields = flows]
Handoff(l, stages) == [Stage(l) EXCEPT !.targets = stages]
Gate(l, onFail)    == [Stage(l) EXCEPT !.canFail = TRUE, !.fail = onFail]
Review(l, onFail, n) ==
  [Gate(l, onFail) EXCEPT !.review = TRUE, !.maxFailures = n, !.failSoft = TRUE]
For(t, stage)      == [stage EXCEPT !.task = t]
Completing(t, stage) == [stage EXCEPT !.task = t, !.completes = TRUE]
Talking(stage)     == [stage EXCEPT !.session = TRUE]

(* Child Workflows no careful producer returns: a task that is not there, none at  *)
(* all, a route out of the group, a Stage that may be passed by, one that completes  *)
(* whichever task is current.                                                  *)
LooseFlows == {"ghost", "orphan", "astray", "skip", "early"}
LooseTasks == [f \in LooseFlows |-> IF f = "orphan" THEN <<>> ELSE <<"t1">>]
LooseStages == [f \in LooseFlows |->
  CASE f = "ghost"  -> <<For("t9", Stage("e")), Completing("t1", Stage("r"))>>
    [] f = "orphan" -> <<Completing("", Stage("r"))>>
    [] f = "astray" -> <<Completing("t1", [Stage("r") EXCEPT !.pass = "plan"])>>
    [] f = "skip"   -> <<Handoff("h", {"r", "b"}), Completing("t1", Stage("r")), Gate("b", "b")>>
    [] f = "early"  -> <<Completing("", Gate("x", "x")), Completing("t1", Stage("r"))>>]
LooseWorkflow == <<Producer("plan", LooseFlows), [Gate("last", "next") EXCEPT !.pass = "done"]>>

(* What PlanStage._plan_child_stages makes of a plan of two tasks, a Workflow that *)
(* another producer might return, with a producer in it, whose children review a   *)
(* task, hand off and leave by done, and careless ones.  A Review of the whole      *)
(* sends a failed run back to the plan.                                        *)
Careless == {"ghost", "orphan", "astray", "skip"}
PlanWorkflow == <<[Producer("plan", {"two", "outer"} \cup Careless) EXCEPT !.pass = "tail"],
                  [Review("tail", "plan", 1) EXCEPT !.pass = "done"]>>
PlanFlows == {"two", "outer", "inner", "bare"} \cup Careless
PlanTasks == [f \in PlanFlows |->
  CASE f = "two" -> <<"t1", "t2">> [] f = "outer" -> <<"t1">>
    [] f = "inner" -> <<"n1">>     [] f = "bare" -> <<>>
    [] OTHER -> LooseTasks[f]]
PlanStages == [f \in PlanFlows |->
  CASE f = "two"   -> <<For("t1", Talking(Stage("e1"))),
                        Completing("t1", Review("r1", "e1", 1)),
                        For("t2", Stage("e2")), Completing("t2", Review("r2", "e2", 1))>>
    [] f = "outer" -> <<For("t1", Talking(Producer("sub", {"inner", "bare"}))),
                        Completing("t1", Review("r1", "sub", 2))>>
    [] f = "inner" -> <<For("n1", Talking(Stage("x"))),
                        [Completing("n1", Review("rx", "x", 1)) EXCEPT !.pass = "done"]>>
    [] f = "bare"  -> <<Handoff("h", {"a", "b b"}), [Stage("a") EXCEPT !.pass = "done"],
                        Stage("b b")>>
    [] OTHER -> LooseStages[f]]

(* Reviews of one Stage that send a failed run back to it; nothing is produced. *)
ReviewedWorkflow == <<Stage("work"), Review("check", "work", 2),
                      [Review("final", "work", 2) EXCEPT !.failSoft = FALSE]>>
===============================================================================
