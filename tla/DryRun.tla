-------------------------------- MODULE DryRun --------------------------------
(***************************************************************************)
(* The closure matrix of a Workflow (tool/workflow_dryrun.py): for every      *)
(* Stage that can be reached, the engine is run with results that reach it,   *)
(* let it fail, and pass from there on.  The Workflow is called closed if      *)
(* every such run completes, or stops where the failure should stop it.        *)
(*                                                                         *)
(* A Stage is its position; the children of a producer are Stages like any other     *)
(* one.  The engine steps as in FlowEngine, without tasks or crashes.        *)
(***************************************************************************)
EXTENDS Integers, Sequences, SequencesExt

CONSTANTS
  DryStages,     \* number of Stages
  Candidate,      \* the Workflows that are tried
  MaxSteps    \* --max-steps

Stage == 1 .. DryStages
ToNext == 0
ToStop == -1
ToDone == -2
Target == Stage \cup {ToNext, ToStop, ToDone}

(* soft: a Review with a finite error_policy; max: its max_failures, 0 if none; *)
(* targets: of a handoff, empty for any other Stage.                          *)
Definition == [pass : Target, fail : Target, soft : BOOLEAN, max : Nat, targets : Seq(Stage)]

ASSUME DryRunAssumption ==
  /\ DryStages \in Nat \ {0} /\ MaxSteps \in Nat /\ MaxSteps >= DryStages
  /\ \A w \in Candidate : w \in [Stage -> Definition]

VARIABLES
  workflow,   \* the Workflow
  cases,      \* MatrixCases not yet begun
  trial,      \* the one that runs
  engine,     \* FlowEngine and MockStageExecutor of that case
  closed      \* every case so far did as expected

dryVars == <<workflow, cases, trial, engine, closed>>

IsHandoff(d) == d.targets # <<>>

(* resolve_stage_target *)
StageTarget(d, status) ==
  CASE status = "error" -> IF d.soft THEN ToNext ELSE ToStop
    [] status = "fail"  -> d.fail
    [] OTHER            -> d.pass

--------------------------------------------------------------------------
(* _reachable_scenario: breadth first, along paths that visit no Stage twice.  *)
NoScenario == [script |-> [s \in Stage |-> <<>>], pick |-> [s \in Stage |-> 0]]
FirstPath == [at |-> 1, seen |-> {}, scenario |-> NoScenario]

(* The Stage a target leads to, 0 if none. *)
Leads(s, target) ==
  CASE target = ToNext    -> IF s < DryStages THEN s + 1 ELSE 0
    [] target \in Stage -> target
    [] OTHER            -> 0

MutantTook(sc, s, status) == sc
Took(sc, s, status) == IF status = "pass" THEN sc ELSE [sc EXCEPT !.script[s] = Append(@, status)]
Edges(w, p) ==
  LET To(target, sc) == [at |-> Leads(p.at, target), seen |-> p.seen \cup {p.at}, scenario |-> sc]
      d == w[p.at] IN
  IF IsHandoff(d)
  THEN [i \in 1 .. Len(d.targets) |-> To(d.targets[i], [p.scenario EXCEPT !.pick[p.at] = d.targets[i]])]
  ELSE <<To(StageTarget(d, "pass"), Took(p.scenario, p.at, "pass")),
         To(StageTarget(d, "fail"), Took(p.scenario, p.at, "fail"))>>

Unvisited(p) == p.at # 0 /\ p.at \notin p.seen
Extensions(w, p) ==
  FlattenSeq([i \in 1 .. Len(Edges(w, p)) |-> IF Unvisited(Edges(w, p)[i]) THEN <<Edges(w, p)[i]>> ELSE <<>>])

(* The paths in the order in which the queue yields them, by their length. *)
Levels(w) ==
  LET level[k \in 0 .. DryStages - 1] ==
        IF k = 0 THEN <<FirstPath>>
        ELSE FlattenSeq([i \in 1 .. Len(level[k - 1]) |-> Extensions(w, level[k - 1][i])])
  IN level
Paths(w) == LET levels == Levels(w) IN FlattenSeq([k \in 1 .. DryStages |-> levels[k - 1]])

Reaching(paths, s) == {i \in 1 .. Len(paths) : paths[i].at = s}

--------------------------------------------------------------------------
(* _matrix_cases *)
Case(s, status, scenario, expected) ==
  [stage |-> s, status |-> status, scenario |-> scenario, expected |-> expected]
HappyPath == Case(0, "pass", NoScenario, TRUE)

Failing(w, s, status, sc) ==
  LET stops == StageTarget(w[s], status) = ToStop IN
  Case(s, status, [sc EXCEPT !.script[s] = @ \o (IF stops THEN <<status>> ELSE <<status, "pass">>)],
       ~stops)

MatrixCases(w) ==
  LET paths == Paths(w)
      Of(s) == IF Reaching(paths, s) = {} THEN <<>>
               ELSE LET reach == paths[Min(Reaching(paths, s))].scenario
                    IN <<Failing(w, s, "fail", reach), Failing(w, s, "error", reach)>>
  IN <<HappyPath>> \o FlattenSeq([s \in Stage |-> Of(s)])

NewEngine == [at |-> 1, calls |-> 0, asked |-> [s \in Stage |-> 0], failures |-> [s \in Stage |-> 0],
              outcome |-> "runs", trace |-> {}]

DryFrom(w) ==
  /\ workflow = w
  /\ cases = MatrixCases(w)
  /\ trial = HappyPath /\ engine = [NewEngine EXCEPT !.outcome = "none"] /\ closed = TRUE
DryInit == \E w \in Candidate : DryFrom(w)

BeginCase ==
  /\ engine.outcome = "none" /\ cases # <<>>
  /\ trial' = Head(cases) /\ cases' = Tail(cases)
  /\ engine' = NewEngine
  /\ UNCHANGED <<workflow, closed>>

--------------------------------------------------------------------------
(* FlowEngine.run with the MockStageExecutor. *)
Current == workflow[engine.at]
AtStage == engine.outcome = "runs" /\ engine.at <= DryStages

(* Scenario._pick: the last value is repeated. *)
Scripted(s) ==
  LET values == trial.scenario.script[s] IN
  IF values = <<>> THEN "pass"
  ELSE values[IF engine.asked[s] < Len(values) THEN engine.asked[s] + 1 ELSE Len(values)]
Chosen(s) ==
  IF trial.scenario.pick[s] = 0 THEN Last(workflow[s].targets) ELSE trial.scenario.pick[s]

Goes(e, target) ==
  CASE target = ToStop  -> [e EXCEPT !.outcome = "stopped"]
    [] target = ToDone  -> [e EXCEPT !.outcome = "completed"]
    [] target = ToNext  -> [e EXCEPT !.at = @ + 1]
    [] OTHER          -> [e EXCEPT !.at = target]

Exhausted(s) == workflow[s].max > 0 /\ engine.failures[s] >= workflow[s].max

Bypass ==
  /\ AtStage /\ Exhausted(engine.at)
  /\ engine' = Goes([engine EXCEPT !.failures[engine.at] = 0], StageTarget(Current, "pass"))
  /\ UNCHANGED <<workflow, cases, trial, closed>>

RunStage ==
  /\ AtStage /\ ~Exhausted(engine.at) /\ engine.calls < MaxSteps
  /\ LET s == engine.at
         status == Scripted(s)
         asked == [engine EXCEPT !.calls = @ + 1, !.asked[s] = @ + 1,
                                 !.trace = @ \cup {<<s, status>>},
                                 !.failures[s] = CASE status = "pass" -> 0
                                                   [] status = "fail" /\ Current.max > 0 -> @ + 1
                                                   [] OTHER -> @]
     IN engine' = Goes(asked, IF IsHandoff(Current) /\ status = "pass" THEN Chosen(s)
                              ELSE StageTarget(Current, status))
  /\ UNCHANGED <<workflow, cases, trial, closed>>

(* DryRunLimit *)
HitLimit ==
  /\ AtStage /\ ~Exhausted(engine.at) /\ engine.calls = MaxSteps
  /\ engine' = [engine EXCEPT !.outcome = "limit"]
  /\ UNCHANGED <<workflow, cases, trial, closed>>

FinishAtEnd ==
  /\ engine.outcome = "runs" /\ engine.at > DryStages
  /\ engine' = [engine EXCEPT !.outcome = "completed"]
  /\ UNCHANGED <<workflow, cases, trial, closed>>

EndCase ==
  /\ engine.outcome \in {"stopped", "completed", "limit"}
  /\ closed' = (closed /\ engine.outcome # "limit" /\ (engine.outcome = "completed") = trial.expected)
  /\ engine' = [NewEngine EXCEPT !.outcome = "none"]
  /\ UNCHANGED <<workflow, cases, trial>>

DryNext == BeginCase \/ Bypass \/ RunStage \/ HitLimit \/ FinishAtEnd \/ EndCase

--------------------------------------------------------------------------
(* The Stages some results lead to: the first one, and the successors of members. *)
Successors(w, s) ==
  {Leads(s, t) : t \in IF IsHandoff(w[s]) THEN ToSet(w[s].targets)
                       ELSE {w[s].pass, w[s].fail}} \ {0}
Within(w) ==   \* so many steps
  LET found[k \in 0 .. DryStages] ==
        IF k = 0 THEN {1} ELSE found[k - 1] \cup UNION {Successors(w, s) : s \in found[k - 1]}
  IN found
Reachable(w) == Within(w)[DryStages]

(* The Stages from which a run that only passes completes, in so many steps. *)
Completes(w, s) == w[s].pass = ToDone \/ (w[s].pass = ToNext /\ s = DryStages)
PassingIn(w) ==
  LET out[k \in 0 .. DryStages] ==
        IF k = 0 THEN {s \in Stage : Completes(w, s)}
        ELSE out[k - 1] \cup {s \in Stage : Leads(s, w[s].pass) \in out[k - 1]}
  IN out
PassesOut(w) == PassingIn(w)[DryStages]

DryTypeOK ==
  /\ workflow \in Candidate /\ closed \in BOOLEAN
  /\ trial.stage \in 0 .. DryStages /\ engine.at \in 1 .. DryStages + 1 /\ engine.calls \in 0 .. MaxSteps

(* The matrix has a case for just the Stages some results lead to; a case that    *)
(* ended did run its Stage with the result it is named for; and a Workflow        *)
(* without handoffs that is called closed completes, from every Stage that can be  *)
(* reached, once all Stages pass (workflow_dryrun.py:320-503).                   *)
Tried == {cases[i].stage : i \in 1 .. Len(cases)}
MatrixSound ==
  /\ DryTypeOK
  /\ trial = HappyPath /\ engine.outcome = "none" => Tried \cup {0} = Reachable(workflow) \cup {0}
  /\ engine.outcome \in {"stopped", "completed"} /\ trial.stage # 0 =>
       <<trial.stage, trial.status>> \in engine.trace
  /\ cases = <<>> /\ engine.outcome = "none" /\ closed /\ (\A s \in Stage : ~IsHandoff(workflow[s])) =>
       Reachable(workflow) \subseteq PassesOut(workflow)
===============================================================================
