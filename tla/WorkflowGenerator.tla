--------------------------- MODULE WorkflowGenerator ---------------------------
(***************************************************************************)
(* The AI Workflow Builder: the requests and polls of the UI server           *)
(* (ui/workflow_builder_state.py), the Builder process it starts for a job     *)
(* (workflow_builder/run.py) and the Runner that the Builder starts            *)
(* (workflow_builder/runner_control.py).  They share active.json and, in the   *)
(* directory of each job, status.json, which all of them read, change and       *)
(* write back, and cancel.request.                                          *)
(*                                                                         *)
(* _builder_lock makes the requests follow each other; the poll of a status    *)
(* takes no lock.                                                           *)
(***************************************************************************)
EXTENDS Integers, FiniteSets

CONSTANTS
  MaxJobs,     \* bound: jobs generated
  MaxCancels,  \* bound: cancellations requested
  MaxDeaths    \* bound: Builder processes that die without writing a status

ASSUME GeneratorAssumption == MaxJobs \in Nat /\ MaxCancels \in Nat /\ MaxDeaths \in Nat

VARIABLES
  active,           \* active.json: a job, or 0
  dir,              \* jobs whose directory exists
  status,           \* status.json of each job
  cancel, stop,     \* jobs with a cancel.request, with a stop.request
  builder, runner,  \* phase of each job's Builder process and of its Runner
  at, job, read,    \* the request of the UI: where it is, its job, the status it read
  poll, polled,     \* the poll of a status: its job, the status it read
  jobs, cancels, deaths

ui == <<at, job, read>>
polling == <<poll, polled>>
counts == <<jobs, cancels, deaths>>
vars == <<active, dir, status, cancel, stop, builder, runner, ui, polling, counts>>

Job == 1 .. MaxJobs
Going == {"queued", "running", "cancelling"}
Terminal == {"ready", "failed", "cancelled"}
NoStatus == [state |-> "none", pid |-> FALSE, old |-> FALSE, cleared |-> FALSE]
Status == [state : {"none"} \cup Going \cup Terminal, pid : BOOLEAN, old : BOOLEAN, cleared : BOOLEAN]
Working(j) == builder[j] \in {"started", "preparing", "waiting", "validating"}
Alive(j) == Working(j) \/ builder[j] = "written"

Init ==
  /\ active = 0 /\ dir = {} /\ status = [j \in Job |-> NoStatus]
  /\ cancel = {} /\ stop = {}
  /\ builder = [j \in Job |-> "none"] /\ runner = [j \in Job |-> "none"]
  /\ at = "idle" /\ job = 0 /\ read = NoStatus
  /\ poll = 0 /\ polled = NoStatus
  /\ jobs = 0 /\ cancels = 0 /\ deaths = 0

--------------------------------------------------------------------------
(* Every write of a status says when: it is not old. *)
Write(j, s) ==
  /\ status' = [status EXCEPT ![j] = [s EXCEPT !.old = FALSE]]
  /\ dir' = dir \cup {j}

RemoveJob(j) ==
  /\ dir' = dir \ {j}
  /\ status' = [status EXCEPT ![j] = NoStatus]
  /\ cancel' = cancel \ {j} /\ stop' = stop \ {j}

(* studio_generate_status *)
MutantStaleRunning(j, s) == s.state \in {"queued", "running"} /\ s.old /\ (s.pid => ~Alive(j))
Stale(j, s) == s.state \in Going /\ s.old /\ (s.pid => ~Alive(j))
Settled(s) == [s EXCEPT !.state = IF @ = "cancelling" THEN "cancelled" ELSE "failed"]
Checked(j, s) == LET t == IF Stale(j, s) THEN Settled(s) ELSE s
                 IN IF t.state \in Terminal THEN [t EXCEPT !.cleared = TRUE] ELSE t

BeginPoll ==
  /\ poll = 0
  /\ \E j \in dir : status[j] # NoStatus /\ poll' = j /\ polled' = status[j]
  /\ UNCHANGED <<active, dir, status, cancel, stop, builder, runner, ui, counts>>

(* What is written is the copy that was read before. *)
EndPoll ==
  /\ poll # 0
  /\ IF Checked(poll, polled) # polled
     THEN Write(poll, Checked(poll, polled))
     ELSE UNCHANGED <<status, dir>>
  /\ poll' = 0 /\ polled' = NoStatus
  /\ UNCHANGED <<active, cancel, stop, builder, runner, ui, counts>>

--------------------------------------------------------------------------
(* studio_generate_workflow.  A job that is there already is returned, unless   *)
(* it was cancelled.                                                        *)
Leftover == \A j \in Job : j = active => Checked(j, status[j]).state = "cancelled"
Generate ==
  /\ at = "idle" /\ jobs < MaxJobs
  /\ Leftover
  /\ jobs' = jobs + 1
  /\ dir' = {jobs'}                          \* every other directory is removed
  /\ status' = [j \in Job |-> IF j = jobs' THEN [NoStatus EXCEPT !.state = "queued"] ELSE NoStatus]
  /\ cancel' = {} /\ stop' = {}
  /\ active' = jobs'
  /\ at' = "popen" /\ job' = jobs'
  /\ read' = status'[jobs']
  /\ UNCHANGED <<builder, runner, polling, cancels, deaths>>

Popen ==
  /\ at = "popen"
  /\ \/ /\ builder' = [builder EXCEPT ![job] = "started"]
        /\ at' = "pid"
        /\ UNCHANGED <<status, dir>>
     \/ /\ Write(job, [read EXCEPT !.state = "failed"])
        /\ at' = "idle"
        /\ UNCHANGED builder
  /\ UNCHANGED <<active, cancel, stop, runner, job, read, polling, counts>>

(* The status of before, with the process id: the Builder may have written      *)
(* another one meanwhile.                                                   *)
RecordPid ==
  /\ at = "pid"
  /\ Write(job, [read EXCEPT !.pid = TRUE])
  /\ at' = "idle"
  /\ UNCHANGED <<active, cancel, stop, builder, runner, job, read, polling, counts>>

(* studio_generate_cancel *)
BeginCancel ==
  /\ at = "idle" /\ cancels < MaxCancels
  /\ \E j \in dir :
       /\ status[j].state \in Going
       /\ job' = j /\ read' = status[j]
       /\ cancel' = cancel \cup {j} /\ stop' = stop \cup {j}
  /\ at' = "cancel"
  /\ cancels' = cancels + 1
  /\ UNCHANGED <<active, dir, status, builder, runner, polling, jobs, deaths>>

EndCancel ==
  /\ at = "cancel"
  /\ Write(job, [read EXCEPT !.state = "cancelling"])
  /\ at' = "idle"
  /\ UNCHANGED <<active, cancel, stop, builder, runner, job, read, polling, counts>>

(* studio_generate_discard *)
MutantDiscardable(j) == TRUE
Discardable(j) == status[j].state \notin Going
Discard ==
  /\ at = "idle"
  /\ \E j \in dir :
       /\ Discardable(j)
       /\ RemoveJob(j)
       /\ active' = IF active = j THEN 0 ELSE active
  /\ UNCHANGED <<builder, runner, ui, polling, counts>>

(* studio_generate_active forgets a job that was cancelled. *)
ForgetCancelled ==
  /\ at = "idle" /\ active # 0
  /\ Checked(active, status[active]).state = "cancelled"
  /\ RemoveJob(active)
  /\ active' = 0
  /\ UNCHANGED <<builder, runner, ui, polling, counts>>

(* studio_generate_save: the draft is to be validated and published, and the    *)
(* job removed.  _builder_validate_draft raises a NameError instead: it names    *)
(* subprocess, which the file does not import.                              *)
BeginSave ==
  /\ at = "idle"
  /\ \E j \in dir : status[j].state = "ready" /\ job' = j
  /\ at' = "save"
  /\ UNCHANGED <<active, dir, status, cancel, stop, builder, runner, read, polling, counts>>

EndSave ==
  /\ at = "save"
  /\ at' = "idle"
  /\ UNCHANGED <<active, dir, status, cancel, stop, builder, runner, job, read, polling, counts>>

--------------------------------------------------------------------------
(* The Builder: build of run.py.  Its own writes keep what the others wrote      *)
(* besides the state.                                                       *)
BuilderWrites(j, s) == Write(j, [status[j] EXCEPT !.state = s, !.pid = TRUE])
Becomes(j, phase) == builder' = [builder EXCEPT ![j] = phase]

Prepare(j) ==
  /\ builder[j] = "started"
  /\ BuilderWrites(j, "running") /\ Becomes(j, "preparing")
  /\ UNCHANGED <<active, cancel, stop, runner, ui, polling, counts>>

(* run_runner.  The Supervisor clears a stop request as it starts. *)
StartRunner(j) ==
  /\ builder[j] = "preparing"
  /\ BuilderWrites(j, "running") /\ Becomes(j, "waiting")
  /\ runner' = [runner EXCEPT ![j] = "running"]
  /\ stop' = stop \ {j}
  /\ UNCHANGED <<active, cancel, ui, polling, counts>>

RunnerEnds(j) ==
  /\ runner[j] = "running"
  /\ \E code \in {0, 1, 130} :
       /\ code = 130 => j \in stop
       /\ runner' = [runner EXCEPT ![j] = IF code = 0 THEN "done" ELSE
                                          IF code = 1 THEN "failed" ELSE "stopped"]
  /\ stop' = stop \ {j}
  /\ UNCHANGED <<active, dir, status, cancel, builder, ui, polling, counts>>

(* The loop saw the request before the end of the Runner: it stops, terminates   *)
(* or kills it, and main writes the outcome.                                 *)
TakeCancel(j) ==
  /\ builder[j] = "waiting" /\ j \in cancel /\ runner[j] = "running"
  /\ BuilderWrites(j, "cancelled") /\ Becomes(j, "written")
  /\ runner' = [runner EXCEPT ![j] = "stopped"]
  /\ stop' = stop \cup {j}
  /\ UNCHANGED <<active, cancel, ui, polling, counts>>

SeeRunnerEnd(j) ==
  /\ builder[j] = "waiting" /\ runner[j] # "running"
  /\ \/ runner[j] = "done" /\ BuilderWrites(j, "running") /\ Becomes(j, "validating")
     \/ runner[j] = "failed" /\ BuilderWrites(j, "failed") /\ Becomes(j, "written")
     \/ runner[j] = "stopped" /\ BuilderWrites(j, "cancelled") /\ Becomes(j, "written")
  /\ UNCHANGED <<active, cancel, stop, runner, ui, polling, counts>>

ValidateDraft(j) ==
  /\ builder[j] = "validating"
  /\ \E s \in {"ready", "failed"} : BuilderWrites(j, s)
  /\ Becomes(j, "written")
  /\ UNCHANGED <<active, cancel, stop, runner, ui, polling, counts>>

BuilderExits(j) ==
  /\ builder[j] = "written"
  /\ Becomes(j, "over")
  /\ UNCHANGED <<active, dir, status, cancel, stop, runner, ui, polling, counts>>

BuilderDies(j) ==
  /\ Working(j) /\ deaths < MaxDeaths
  /\ deaths' = deaths + 1
  /\ Becomes(j, "dead")
  /\ UNCHANGED <<active, dir, status, cancel, stop, runner, ui, polling, jobs, cancels>>

BuilderStep(j) == \/ Prepare(j) \/ StartRunner(j) \/ RunnerEnds(j) \/ TakeCancel(j)
                  \/ SeeRunnerEnd(j) \/ ValidateDraft(j) \/ BuilderExits(j)

(* Half a minute passed since the status was written: more than a request of    *)
(* the UI, or the start of a Builder, takes.                                *)
Age ==
  /\ at \notin {"popen", "pid", "cancel"}
  /\ \E j \in dir :
       /\ status[j] # NoStatus /\ ~status[j].old /\ builder[j] # "started"
       /\ status' = [status EXCEPT ![j].old = TRUE]
  /\ UNCHANGED <<active, dir, cancel, stop, builder, runner, ui, polling, counts>>

Serve == Popen \/ RecordPid \/ EndCancel \/ EndSave
Next == \/ BeginPoll \/ EndPoll
        \/ Generate \/ BeginCancel \/ Discard \/ ForgetCancelled \/ BeginSave \/ Serve
        \/ \E j \in Job : BuilderStep(j) \/ BuilderDies(j)
        \/ Age

(* Requests and processes go on, time passes, and a page that shows a job polls  *)
(* it: a poll that would change the status is not put off for ever.            *)
Spec ==
  /\ Init /\ [][Next]_vars
  /\ WF_vars(Serve) /\ WF_vars(Age) /\ WF_vars(EndPoll)
  /\ \A j \in Job : WF_vars(BuilderStep(j))
  /\ SF_vars(BeginPoll /\ \E j \in Job : polled' = status[j] /\ Checked(j, polled') # polled')

--------------------------------------------------------------------------
TypeOK ==
  /\ active \in 0 .. MaxJobs /\ dir \subseteq Job /\ status \in [Job -> Status]
  /\ cancel \subseteq Job /\ stop \subseteq Job
  /\ builder \in [Job -> {"none", "started", "preparing", "waiting", "validating", "written",
                          "over", "dead"}]
  /\ runner \in [Job -> {"none", "running", "done", "failed", "stopped"}]
  /\ at \in {"idle", "popen", "pid", "cancel", "save"}
  /\ job \in 0 .. MaxJobs /\ read \in Status /\ poll \in 0 .. MaxJobs /\ polled \in Status

(* "Exactly one Generator job may exist at a time ... active.json does": the     *)
(* job of a Builder at work is the active one, its directory is there, and no     *)
(* final status was put over it (workflow_builder_state.py:143-160, 286-310).   *)
BuilderIsActive ==
  /\ TypeOK
  /\ \A j \in Job : Working(j) =>
       active = j /\ j \in dir /\ status[j].state \notin Terminal

(* A job ends: whatever the order of the writes, one that is queued, running or   *)
(* being cancelled comes to an end (workflow_builder_state.py:292-306).          *)
JobEnds == \A j \in Job : (active = j /\ status[j].state \in Going)
                            ~> ~(active = j /\ status[j].state \in Going)

(* run.py:373: "Draft ready. Review it and Save to create the Workflow.": a Save  *)
(* of a draft that is ready publishes it, and so ends its job                 *)
(* (workflow_builder_state.py:336-358).                                      *)
SaveCreatesWorkflow == [][at = "save" /\ at' = "idle" => job \notin dir']_vars
=============================================================================
