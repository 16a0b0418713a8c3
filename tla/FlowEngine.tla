------------------------------ MODULE FlowEngine ------------------------------
(***************************************************************************)
(* The durable Workflow state machine (runner/workflow/flow_engine.py),    *)
(* with the state changes its Stages cause through the executor and the    *)
(* result reducers, the points at which StateStore.save makes them         *)
(* durable, and a worker that may die between any two of them.             *)
(*                                                                         *)
(* mem is the worker's RunState, disk the state.json it last saved.  One   *)
(* Stage is three steps: Enter (bypass a Review, or begin the Stage),      *)
(* FinishStage (the executor saved the outcome) and Settle (record, route  *)
(* and commit).  A crash between two of them loses what mem alone holds.   *)
(***************************************************************************)
EXTENDS DynamicExpansion

CONSTANTS
  MaxCycles,   \* config.max_cycles, or Unlimited
  CycleCap,    \* bound: an unlimited run counts its cycles up to here
  MaxCrashes   \* bound: worker deaths and operator resumes in a behavior

Unlimited == -1

ASSUME BoundAssumption ==
  MaxCycles \in Nat \cup {Unlimited} /\ CycleCap \in Nat /\ MaxCrashes \in Nat

VARIABLES
  mem,       \* RunState of the worker
  disk,      \* RunState in state.json
  pc,        \* where the engine is
  result,    \* StageResult being settled
  previous,  \* the result the next Stage is given
  crashes,   \* how often the run was interrupted
  verdicts   \* history: committed FAIL verdicts of a Review since its last PASS

vars == <<mem, disk, pc, result, previous, crashes, verdicts>>

PC == {"loop", "executing", "settle", "stopped", "failed", "finished", "down"}
StageResult == [status : {"pass", "fail", "error"}, flow : FlowId \cup {NoFlow},
                target : Name, bypassed : BOOLEAN]
NoResult == [status |-> "pass", flow |-> NoFlow, target |-> Nothing, bypassed |-> FALSE]
NoPrevious == [stage |-> Nothing, status |-> ""]

Current == mem.workflow[mem.position + 1]

Init ==
  /\ mem = [cycle |-> 1, current |-> 0, tasks |-> <<>>, completed |-> FALSE,
            stage |-> "active", position |-> 0,
            workflow |-> [i \in 1 .. Len(Workflow) |->
                            Instantiate(Workflow[i], 0, {}, Nothing)],
            groups |-> {}, taskGroups |-> {}, expansions |-> 0,
            sessions |-> {}, failures |-> {}, previous |-> NoPrevious]
  /\ disk = mem
  /\ pc = "loop"
  /\ result = NoResult
  /\ previous = NoPrevious
  /\ crashes = 0
  /\ verdicts = {}

--------------------------------------------------------------------------
(* The loop head of FlowEngine.run. *)
MoreStages == pc = "loop" /\ ~mem.completed /\ mem.position < Len(mem.workflow)
CyclesLeft == MaxCycles = Unlimited \/ mem.cycle <= MaxCycles

Save == disk' = mem'

ExhaustCycles ==
  /\ MoreStages /\ ~CyclesLeft
  /\ mem' = [mem EXCEPT !.stage = "max_cycles_exhausted"]
  /\ Save
  /\ pc' = "stopped"
  /\ UNCHANGED <<result, previous, crashes, verdicts>>

(* finish_run: the maps that serve only an active run are dropped. *)
FinishRun(s) ==
  [s EXCEPT !.previous = NoPrevious, !.sessions = {}, !.failures = {},
            !.groups = {}, !.taskGroups = {}, !.completed = TRUE,
            !.stage = "completed"]

MutantFinishUnchecked ==
  /\ pc = "loop" /\ ~mem.completed /\ mem.position >= Len(mem.workflow)
  /\ mem' = FinishRun(mem)
  /\ Save
  /\ pc' = "finished"
  /\ UNCHANGED <<result, previous, crashes, verdicts>>
FinishAtEnd ==
  /\ pc = "loop" /\ ~mem.completed /\ mem.position >= Len(mem.workflow)
  /\ \/ /\ AllTasksCompleted(mem)
        /\ mem' = FinishRun(mem)
        /\ Save
        /\ pc' = "finished"
     \/ /\ ~AllTasksCompleted(mem)      \* ConfigurationError
        /\ pc' = "failed"
        /\ UNCHANGED <<mem, disk>>
  /\ UNCHANGED <<result, previous, crashes, verdicts>>

ReturnCompleted ==
  /\ pc = "loop" /\ mem.completed
  /\ pc' = "finished"
  /\ UNCHANGED <<mem, disk, result, previous, crashes, verdicts>>

--------------------------------------------------------------------------
(* Review counters are kept per Review and current task. *)
Scope(s) ==
  IF s.current < Len(s.tasks) THEN s.tasks[s.current + 1].id ELSE Nothing
ReviewKey(s, d) == [review |-> d.name, scope |-> Scope(s)]
Counted(d) == d.review /\ d.maxFailures > 0

MutantBypassLate(s, d) ==
  Counted(d) /\ Count(s.failures, ReviewKey(s, d)) > d.maxFailures
MustBypass(s, d) ==
  Counted(d) /\ Count(s.failures, ReviewKey(s, d)) >= d.maxFailures

UnknownTask ==
  /\ MoreStages /\ CyclesLeft
  /\ ~BindingKnown(mem, Current)         \* ConfigurationError
  /\ pc' = "failed"
  /\ UNCHANGED <<mem, disk, result, previous, crashes, verdicts>>

(* _review_bypass_result: set_stage saves the state without the counter. *)
BypassReview ==
  /\ MoreStages /\ CyclesLeft /\ BindingKnown(mem, Current)
  /\ LET s == Activate(mem, Current) IN
     /\ MustBypass(s, Current)
     /\ mem' = [s EXCEPT !.failures = Without(@, ReviewKey(s, Current)),
                         !.stage = "active"]
  /\ Save
  /\ result' = [NoResult EXCEPT !.bypassed = TRUE]
  /\ pc' = "settle"
  /\ UNCHANGED <<previous, crashes, verdicts>>

(* StageExecutor.run starts: a Stage that has a run_state saves it. *)
BeginStage ==
  /\ MoreStages /\ CyclesLeft /\ BindingKnown(mem, Current)
  /\ LET s == Activate(mem, Current) IN
     /\ ~MustBypass(s, Current)
     /\ \/ mem' = [s EXCEPT !.stage = "active"] /\ Save
        \/ mem' = s /\ UNCHANGED disk
  /\ pc' = "executing"
  /\ UNCHANGED <<result, previous, crashes, verdicts>>

(* A model answered in the Stage's own session, or the executor dropped it. *)
RememberSession ==
  /\ pc = "executing" /\ Current.session
  /\ mem' = [mem EXCEPT !.sessions = @ \cup {Current.name}]
  /\ Save
  /\ UNCHANGED <<pc, result, previous, crashes, verdicts>>

RotateSession ==
  /\ pc = "executing" /\ Current.session
  /\ mem' = [mem EXCEPT !.sessions = @ \ {Current.name}]
  /\ Save
  /\ UNCHANGED <<pc, result, previous, crashes, verdicts>>

(* What a Stage may return once the executor stops retrying it.  A Handoff    *)
(* that passes names one of its targets, a producer returns a child Workflow. *)
Passes(d) ==
  IF d.targets # {} THEN {[NoResult EXCEPT !.target = t] : t \in d.targets}
  ELSE IF d.yields # {} THEN {[NoResult EXCEPT !.flow = f] : f \in d.yields}
  ELSE {NoResult}
Outcomes(d) ==
  {[NoResult EXCEPT !.status = "error"]} \cup Passes(d)
    \cup {r \in {[NoResult EXCEPT !.status = "fail"]} : d.canFail}

FinishStage ==
  /\ pc = "executing"
  /\ result' \in Outcomes(Current)
  /\ UNCHANGED mem /\ Save
  /\ pc' = "settle"
  /\ UNCHANGED <<previous, crashes, verdicts>>

(* ConfigurationError or RunnerError: what mem alone holds is lost. *)
Raise ==
  /\ pc' = "failed"
  /\ result' = NoResult
  /\ UNCHANGED <<mem, disk, previous, crashes, verdicts>>

(* A ConfigurationError is not retried. *)
FailStage == pc = "executing" /\ Raise

--------------------------------------------------------------------------
(* Settling: everything from _record_review_result to the last save. *)
RecordReview(s, d, r) ==
  IF r.bypassed \/ ~Counted(d) THEN s
  ELSE CASE r.status = "pass" -> [s EXCEPT !.failures = Without(@, ReviewKey(s, d))]
         [] r.status = "fail" -> [s EXCEPT !.failures = Bump(@, ReviewKey(s, d))]
         [] OTHER -> s

MutantRecordedForgets == RecordReview(mem, Current, result)
Recorded ==
  [RecordReview(mem, Current, result) EXCEPT
     !.previous = [stage |-> Current.name, status |-> result.status]]

RecordVerdict ==
  verdicts' = IF ~Counted(Current) THEN verdicts
              ELSE CASE result.status = "pass" -> Without(verdicts, Current.name)
                     [] result.status = "fail" -> Bump(verdicts, Current.name)
                     [] OTHER -> verdicts

MutantBypassFails(d, r) ==
  IF r.status = "pass" /\ ~r.bypassed THEN d.pass ELSE d.fail
StageTarget(d, r) ==
  CASE r.status = "error" -> IF d.review /\ d.failSoft THEN GoNext ELSE GoStop
    [] r.status = "pass" /\ d.targets # {} -> r.target
    [] r.status = "pass" /\ d.targets = {} -> d.pass
    [] OTHER -> d.fail

DynamicTarget(d, t) ==
  CASE t = GoDone /\ d.name.group # 0 -> d.groupContinue
    [] t = GoNext /\ d.continue # Nothing -> d.continue
    [] OTHER -> t

Target == StageTarget(Current, result)
Expands == result.status = "pass" /\ result.flow # NoFlow

(* finish_task completes whatever task is current. *)
CompletesTask ==
  /\ Current.completes
  /\ \/ result.status = "pass"
     \/ result.status = "error" /\ Current.review /\ Target = GoNext
NoTaskToFinish == CompletesTask /\ Recorded.current >= Len(Recorded.tasks)

FinishTask(s) ==
  LET id == s.tasks[s.current + 1].id IN
  [s EXCEPT !.tasks[s.current + 1].status = "completed",
            !.failures = {e \in @ : e.key.scope # id},
            !.current = @ + 1]

TaskSettled == IF CompletesTask THEN FinishTask(Recorded) ELSE Recorded

(* A target behind the Stage, or the Stage itself, opens a new cycle. *)
NextCycle(c) == IF MaxCycles = Unlimited /\ c >= CycleCap THEN c ELSE c + 1

(* _reindex keeps the last of two Stages with one name. *)
LastIndex(w, n) ==
  CHOOSE i \in DOMAIN w : w[i].name = n /\ \A j \in DOMAIN w : w[j].name = n => j <= i

MutantRouteToItself(s, target) ==
  LET p == LastIndex(s.workflow, target) - 1 IN
  [s EXCEPT !.position = p,
            !.cycle = IF p < s.position THEN NextCycle(@) ELSE @,
            !.stage = "active"]
Route(s, target) ==
  LET p == LastIndex(s.workflow, target) - 1 IN
  [s EXCEPT !.position = p,
            !.cycle = IF p <= s.position THEN NextCycle(@) ELSE @,
            !.stage = "active"]

Commit(s, where) ==
  /\ mem' = s
  /\ Save
  /\ pc' = where
  /\ previous' = [stage |-> Current.name, status |-> result.status]
  /\ result' = NoResult
  /\ RecordVerdict
  /\ UNCHANGED crashes

ExpandChildren ==
  /\ pc = "settle" /\ Expands /\ FlowAccepted(result.flow)
  /\ Commit([Expand(Recorded, Current, result.flow, Target) EXCEPT
               !.position = mem.position + 1], "loop")

RejectExpansion ==
  /\ pc = "settle" /\ Expands /\ ~FlowAccepted(result.flow)
  /\ Raise

SettleWithoutTask ==
  /\ pc = "settle" /\ ~Expands /\ NoTaskToFinish
  /\ Raise

Settled(target) ==
  /\ pc = "settle" /\ ~Expands /\ ~NoTaskToFinish
  /\ DynamicTarget(Current, Target) = target

SettleStop == Settled(GoStop) /\ Commit(TaskSettled, "stopped")

SettleDone ==
  /\ Settled(GoDone)
  /\ IF AllTasksCompleted(TaskSettled)
       THEN Commit(FinishRun(TaskSettled), "loop")
       ELSE Raise

SettleNext ==
  /\ Settled(GoNext)
  /\ Commit([TaskSettled EXCEPT !.position = @ + 1], "loop")

SettleRoute ==
  /\ Settled(DynamicTarget(Current, Target))
  /\ DynamicTarget(Current, Target) \notin Keywords
  /\ Commit(Route(TaskSettled, DynamicTarget(Current, Target)), "loop")

--------------------------------------------------------------------------
(* The worker dies; what it had not saved is gone. *)
Crash ==
  /\ pc \in {"loop", "executing", "settle"} /\ crashes < MaxCrashes
  /\ crashes' = crashes + 1
  /\ mem' = disk
  /\ pc' = "down"
  /\ result' = NoResult
  /\ UNCHANGED <<disk, previous, verdicts>>

(* normalize_state: leave a completed task for the first pending one. *)
Pending(s) == {i \in DOMAIN s.tasks : s.tasks[i].status # "completed"}
FirstPending(s) ==
  IF Pending(s) = {} THEN Len(s.tasks)
  ELSE (CHOOSE i \in Pending(s) : \A j \in Pending(s) : i <= j) - 1
Normalize(s) ==
  LET current == Least(s.current, Len(s.tasks)) IN
  [s EXCEPT
    !.completed = @ /\ s.stage = "completed",
    !.current = IF current < Len(s.tasks)
                     /\ s.tasks[current + 1].status = "completed"
                THEN FirstPending(s) ELSE current]

(* RunState.validate and _validate_resume_state: what a resume insists on. *)
KnownTarget(s, t) == t \in Keywords \cup Names(s.workflow)
Resumable(s) ==
  /\ s.current <= Len(s.tasks)
  /\ s.completed => AllTasksCompleted(s)
  /\ s.position <= Len(s.workflow)
  /\ Cardinality(Names(s.workflow)) = Len(s.workflow)
  /\ \A i \in DOMAIN s.workflow :
       LET d == s.workflow[i] IN
       /\ KnownTarget(s, d.pass) /\ KnownTarget(s, d.fail)
       /\ d.targets \subseteq Names(s.workflow) \ {d.name}
       /\ BindingKnown(s, d)
  /\ s.sessions \subseteq Names(s.workflow)

Resume ==
  /\ Resumable(disk)
  /\ mem' = Normalize(disk)
  /\ Save
  /\ pc' = "loop"
  /\ previous' = disk.previous
  /\ UNCHANGED <<result, verdicts>>

(* The Supervisor resumes a worker that died; an operator, a run that ended. *)
ResumeAfterCrash == pc = "down" /\ Resume /\ UNCHANGED crashes

ResumeByOperator ==
  /\ pc \in {"stopped", "failed", "finished"} /\ crashes < MaxCrashes
  /\ crashes' = crashes + 1
  /\ Resume

RefuseResume ==
  /\ pc = "down" /\ ~Resumable(disk)
  /\ pc' = "failed"
  /\ UNCHANGED <<mem, disk, result, previous, crashes, verdicts>>

Terminated == pc \in {"stopped", "failed", "finished"} /\ UNCHANGED vars

Enter == ExhaustCycles \/ FinishAtEnd \/ ReturnCompleted \/ UnknownTask
           \/ BypassReview \/ BeginStage
Settle == ExpandChildren \/ RejectExpansion \/ SettleWithoutTask \/ SettleStop \/ SettleDone
            \/ SettleNext \/ SettleRoute
Execute == RememberSession \/ RotateSession \/ FinishStage \/ FailStage
Recover == ResumeAfterCrash \/ ResumeByOperator \/ RefuseResume

Next == Enter \/ Execute \/ Settle \/ Crash \/ Recover \/ Terminated

Spec == Init /\ [][Next]_vars

(* Nothing in the engine waits for another process: a step that can be taken *)
(* is taken, and the Supervisor restarts a worker that died.  A Stage ends    *)
(* (timeouts bound its calls) whatever it does to its session meanwhile.      *)
Fairness ==
  /\ WF_vars(Enter) /\ WF_vars(FinishStage) /\ WF_vars(Settle)
  /\ WF_vars(ResumeAfterCrash \/ RefuseResume)

FairSpec == Spec /\ Fairness

--------------------------------------------------------------------------
(* Every variable has its type; position and counters are naturals. *)
TypeOK ==
  /\ mem \in RunState /\ disk \in RunState
  /\ pc \in PC
  /\ result \in StageResult
  /\ previous \in [stage : Name, status : {"", "pass", "fail", "error"}]
  /\ crashes \in Nat
  /\ verdicts \subseteq [key : Name, count : Nat]

(* Every target a Stage can be routed to is a Stage of the same Workflow or a *)
(* keyword, in memory and on disk: the engine's position lookup cannot fail   *)
(* and a resume's validate_routes accepts every saved Workflow, however often *)
(* producers were expanded and superseded (flow_engine.py:243-266).           *)
RoutesResolve ==
  \A s \in {mem, disk} : \A d \in Stages(s.workflow) :
    RouteTargets(d) \subseteq Keywords \cup Names(s.workflow)

(* A run that is, or is saved as, completed has no task left to do:           *)
(* state.json with completed set and a pending task would be refused by       *)
(* RunState.validate for ever after (run_state.py:156).                       *)
CompletedHasNoPendingTask ==
  /\ mem.completed => AllTasksCompleted(mem)
  /\ disk.completed => AllTasksCompleted(disk)

(* Whatever the engine saved, at any of its save points, a resume accepts:    *)
(* positions, names, routes, task bindings and sessions agree, so a worker    *)
(* that dies anywhere can be restarted (workflow_runner.py:93-130).  Not so    *)
(* once a result had a child of a task it does not contain, which nothing     *)
(* checks and which keeps the bare name (dynamic_expansion.py:286).           *)
Misbound(s) == \E d \in Stages(s.workflow) : d.task # Nothing /\ d.task.group = 0
SavedStateResumable == Resumable(disk) \/ Misbound(disk)

(* A superseded expansion leaves nothing behind, at whatever depth: every      *)
(* group, counter and task that is saved belongs to a Stage that exists        *)
(* (dynamic_expansion.py:125-154).                                            *)
NoStaleChildren == ~disk.completed => NothingStale(disk)

(* A Review of a task is given at most max_failures FAIL verdicts before it   *)
(* passes or is bypassed (flow_engine.py:172-241); every interruption of the  *)
(* run may grant it one budget more, because the counter is cleared on disk   *)
(* before the bypass it stands for is routed.  A Review bound to no task has  *)
(* a budget for every task that happens to be current when it runs, and one   *)
(* that a route leads back to after its task was finished starts anew.        *)
VerdictBudget ==
  \A k \in DOMAIN disk.workflow :
    Counted(disk.workflow[k]) /\ disk.workflow[k].task # Nothing =>
      Count(verdicts, disk.workflow[k].name)
        <= disk.workflow[k].maxFailures * (1 + crashes)

(* As documented (README.md:56): the reviewer is not invoked once it has      *)
(* failed the work max_failures times, whatever was interrupted meanwhile.    *)
ReviewerStopsAtMaxFailures ==
  [][pc = "loop" /\ pc' = "executing" /\ Counted(Current)
       => Count(verdicts, Current.name) < Current.maxFailures]_vars

(* After a resume the next Stage is given the result it would have been given *)
(* without the crash (_remember_previous, _restore_previous).                 *)
ResumeRepeatsInput ==
  pc = "loop" /\ ~mem.completed => previous = disk.previous /\ previous = mem.previous

(* A task is completed only by a Stage bound to it. *)
OnlyOwnStageCompletesTask ==
  [][\A i \in DOMAIN mem.tasks :
       mem.tasks[i].status = "pending" /\ i \in DOMAIN mem'.tasks
         /\ mem'.tasks[i] = [mem.tasks[i] EXCEPT !.status = "completed"]
       => pc = "settle" /\ Current.task = mem.tasks[i].id]_vars

(* A commit that does not move forward counts a cycle: max_cycles sees every  *)
(* way a Workflow can loop (flow_engine.py:243-251).                          *)
BackwardMovesCount ==
  [][pc = "settle" /\ pc' = "loop" /\ ~mem'.completed
       => mem'.position > mem.position \/ mem'.cycle = NextCycle(mem.cycle)]_vars

(* The run ends: every loop of the Workflow runs out of cycles or of Review   *)
(* failures, and no interruption leaves it hanging.                           *)
RunEnds == <>[](pc \in {"stopped", "failed", "finished"})

--------------------------------------------------------------------------
(* The inductive invariant behind TypeOK, RoutesResolve and                  *)
(* CompletedHasNoPendingTask.                                                *)

(* Between Enter and Settle the run is at a Stage, and a Handoff that passed *)
(* chose one of its targets.                                                 *)
AtStage ==
  /\ ~mem.completed
  /\ mem.position < Len(mem.workflow)
HandoffChose ==
  result.status = "pass" /\ Current.targets # {} => result.target \in Current.targets

IndInv ==
  /\ TypeOK
  /\ StateInv(mem) /\ StateInv(disk)
  /\ pc \in {"executing", "settle"} => AtStage
  /\ pc = "settle" => HandoffChose
=============================================================================
