------------------------------- MODULE MCProgress ------------------------------
(***************************************************************************)
(* What must end, side by side: a behavior picks one of four processes that      *)
(* share no state, is fair to it, and the others stay where they begin.          *)
(***************************************************************************)
EXTENDS ScriptList, ProcessRunner

VARIABLES
  process,    \* the one that steps
  mem, disk, pc, result, previous, crashes, verdicts   \* of FlowEngine

(* Reviews that send a run back, which no cycle limit ends, not interrupted, and  *)
(* child Workflows that no careful producer returns, with a worker that dies.      *)
Given == INSTANCE Workflows
CONSTANT NoFlow
Reviews == INSTANCE FlowEngine WITH
  Label <- Given!Text, SafeName <- Given!Safe, Workflow <- Given!ReviewedWorkflow,
  FlowId <- Given!LooseFlows, FlowTasks <- Given!LooseTasks, FlowStages <- Given!LooseStages,
  MaxCycles <- -1, CycleCap <- 8, MaxCrashes <- 0
Loose == INSTANCE FlowEngine WITH
  Label <- Given!Text, SafeName <- Given!Safe, Workflow <- Given!LooseWorkflow,
  FlowId <- Given!LooseFlows, FlowTasks <- Given!LooseTasks, FlowStages <- Given!LooseStages,
  MaxCycles <- 3, CycleCap <- 3, MaxCrashes <- 2

engineVars == <<mem, disk, pc, result, previous, crashes, verdicts>>
processVars == <<process, engineVars, listVars, pipeVars>>

Init ==
  /\ process \in {"reviews", "loose", "list", "pipe"}
  /\ ListInit /\ PipeInit
  /\ IF process = "loose" THEN Loose!Init ELSE Reviews!Init

Next ==
  \/ process = "reviews" /\ Reviews!Next /\ UNCHANGED <<process, listVars, pipeVars>>
  \/ process = "loose"   /\ Loose!Next /\ UNCHANGED <<process, listVars, pipeVars>>
  \/ process = "list"    /\ ListNext /\ UNCHANGED <<process, engineVars, pipeVars>>
  \/ process = "pipe"    /\ PipeNext /\ UNCHANGED <<process, engineVars, listVars>>

(* Fair to the process that steps. *)
Spec ==
  /\ Init /\ [][Next]_processVars
  /\ process = "reviews" => Reviews!Fairness
  /\ process = "loose" => Loose!Fairness
  /\ process = "list" => ListFairness
  /\ process = "pipe" => PipeFairness

(* The reviewer is not invoked once it has failed the work max_failures times,     *)
(* these budgets alone end a run of Reviews, and a run of Stages that no careful    *)
(* producer returns ends too (flow_engine.py:49-266).                             *)
RunsEnd ==
  /\ Reviews!ReviewerStopsAtMaxFailures
  /\ process = "reviews" => Reviews!RunEnds
  /\ process = "loose" => Loose!RunEnds
================================================================================
