------------------------------- MODULE RunLaunch -------------------------------
(***************************************************************************)
(* One launch after another of one project: the Supervisor that restarts   *)
(* its Worker (runner/runtime/supervisor.py), the retries inside a Worker  *)
(* (runner/api.py), what a Worker binds before it runs                     *)
(* (runner/workflow_runner.py), and the files it leaves: state.json and    *)
(* its backup (runner/runtime/run_state.py), the frozen Workflow and the   *)
(* frozen AI-validator prompt (runner/resources.py).                       *)
(*                                                                         *)
(* RunLock decides who may launch; here launches follow one another.  A    *)
(* run is a number, its RunState a count of the saves it has seen.         *)
(***************************************************************************)
EXTENDS Naturals, Sequences

CONSTANTS
  Command,        \* command lines: [mode, workflow, prompt, file]
  WorkflowText,   \* contents of a Workflow, which is its fingerprint too
  Prompt,         \* contents of an AI-validator prompt
  None,           \* an absent file
  BackupMayFail,  \* whether writing the backup may raise OSError
  MaxProgress,    \* saves a run needs to complete
  MaxLaunches,    \* bound: launches in a behavior
  MaxCrashes,     \* bound: Workers that die or hang
  MaxErrors,      \* bound: transient and unexpected errors in Workers
  MaxLosses       \* bound: state.json deleted from outside

ASSUME CommandAssumption ==
  Command \subseteq [mode : {"new", "resume", "force"}, workflow : WorkflowText,
                     prompt : Prompt, file : BOOLEAN]
ASSUME NoneAssumption == None \notin WorkflowText \cup Prompt
ASSUME BoundsAssumption ==
  /\ {MaxProgress, MaxLaunches, MaxCrashes, MaxErrors, MaxLosses} \subseteq Nat
  /\ BackupMayFail \in BOOLEAN

VARIABLES
  state, backup,     \* state.json and its copy in the temp directory
  snapshot,          \* workflow.snapshot.json
  frozen,            \* resources/ai-validator-prompt.txt
  stop,              \* whether stop.request exists
  sup, command,      \* the Supervisor, and the arguments of its next Worker
  pc, mode, bound, mem, code,  \* the Worker: step, mode, inputs, RunState, exit
  outcome,           \* how the last launch ended
  begun,             \* history: begun[r] is what run r was started with
  saved,             \* history: saved[r] is the progress state.json had of run r
  own, first, asked,  \* history of the launch: the run it has, the first one
                      \* that is new, whether a stop was asked for
  launches, crashes, errors, losses

files  == <<state, backup, snapshot, frozen>>
worker == <<pc, mode, bound, mem, code>>
trace  == <<begun, saved, own, first, asked>>
counts == <<launches, crashes, errors, losses>>
vars   == <<files, stop, sup, command, worker, outcome, trace, counts>>

NoState == [run |-> 0, workflow |-> None, progress |-> 0]
Unbound == [workflow |-> None, prompt |-> None]
Steps   == {"resources", "snapshot", "state", "finalize", "backup", "running"}

Init ==
  /\ state = NoState /\ backup = NoState /\ snapshot = None /\ frozen = None
  /\ stop = FALSE
  /\ sup = "idle" /\ command \in Command
  /\ pc = "off" /\ mode = "new" /\ bound = Unbound /\ mem = NoState /\ code = "none"
  /\ outcome = "none"
  /\ begun = <<>> /\ saved = <<>> /\ own = 0 /\ first = 1
  /\ asked = FALSE
  /\ launches = 0 /\ crashes = 0 /\ errors = 0 /\ losses = 0

--------------------------------------------------------------------------
(* The Supervisor. *)
Launch ==
  /\ sup = "idle" /\ launches < MaxLaunches
  /\ launches' = launches + 1
  /\ command' \in Command
  /\ sup' = "starting"
  /\ own' = 0 /\ first' = Len(begun) + 1
  /\ asked' = FALSE
  /\ UNCHANGED <<files, stop, worker, outcome, begun, saved, crashes, errors, losses>>

Spawn ==
  /\ sup' = "waiting"
  /\ pc' = "resources" /\ mode' = command.mode
  /\ bound' = Unbound /\ mem' = NoState /\ code' = "none"
  /\ UNCHANGED <<files, command, outcome, trace, counts>>

(* supervise_cli clears a stop request left over, then starts a Worker. *)
Starting == sup = "starting" /\ stop' = FALSE /\ Spawn
Restart == sup = "backoff" /\ UNCHANGED stop /\ Spawn

Finished(how) ==
  /\ sup' = "idle" /\ outcome' = how
  /\ pc' = "off"
  /\ UNCHANGED <<files, mode, bound, mem, code, command, trace, counts>>

(* Exit codes 0, 1 and 130 end a launch; any other resumes what was saved. *)
MutantFinalCodes == {"ok"}
FinalCodes == {"ok", "failed"}
MutantRestartMode == command.mode
RestartMode == "resume"

ReapFinal ==
  /\ sup = "waiting" /\ pc = "exited" /\ (code \in FinalCodes \/ state = NoState)
  /\ UNCHANGED stop
  /\ Finished(code)

ReapCrash ==
  /\ sup = "waiting" /\ pc = "exited" /\ code \notin FinalCodes /\ state # NoState
  /\ command' = [command EXCEPT !.mode = RestartMode]
  /\ sup' = "backoff" /\ pc' = "off"
  /\ UNCHANGED <<files, stop, mode, bound, mem, code, outcome, trace, counts>>

(* A request is seen while the Worker runs and while a restart is delayed; an *)
(* exit that is there already comes first.                                    *)
MutantStop ==
  /\ stop /\ sup = "backoff"
  /\ stop' = FALSE
  /\ Finished("stopped")
Stop ==
  /\ stop
  /\ \/ sup = "waiting" /\ pc # "exited"
     \/ sup = "backoff"
  /\ stop' = FALSE
  /\ Finished("stopped")

RequestStop ==
  /\ ~stop
  /\ stop' = TRUE
  /\ asked' = (asked \/ sup # "idle")
  /\ UNCHANGED <<files, sup, command, worker, outcome, begun, saved, own, first, counts>>

--------------------------------------------------------------------------
(* The Worker: WorkflowRunner.__init__ step by step, then the run. *)
Fresh == mode \in {"new", "force"}
Exit(c) == pc' = "exited" /\ code' = c
WorkerStep(from) == sup = "waiting" /\ pc = from /\ UNCHANGED <<stop, sup, command, outcome>>

(* A prompt given as a file is frozen; one given as text, or none, leaves the *)
(* frozen file alone.  A resume takes the frozen file if there is one.        *)
BindResources ==
  /\ WorkerStep("resources")
  /\ IF Fresh
       THEN /\ frozen' = IF command.file THEN command.prompt ELSE frozen
            /\ bound' = [bound EXCEPT !.prompt = command.prompt]
       ELSE /\ UNCHANGED frozen
            /\ bound' = [bound EXCEPT !.prompt =
                           IF frozen # None THEN frozen ELSE command.prompt]
  /\ pc' = "snapshot"
  /\ UNCHANGED <<state, backup, snapshot, mode, mem, code, trace, counts>>

BindSnapshot ==
  /\ WorkerStep("snapshot")
  /\ \/ /\ Fresh
        /\ snapshot' = command.workflow
        /\ bound' = [bound EXCEPT !.workflow = command.workflow]
        /\ pc' = "state" /\ UNCHANGED code
     \/ /\ ~Fresh /\ snapshot # None
        /\ bound' = [bound EXCEPT !.workflow = snapshot]
        /\ pc' = "state" /\ UNCHANGED <<snapshot, code>>
     \/ /\ ~Fresh /\ snapshot = None       \* "resume workflow snapshot not found"
        /\ Exit("failed") /\ UNCHANGED <<snapshot, bound>>
  /\ UNCHANGED <<state, backup, frozen, mode, mem, trace, counts>>

NewState(r) == [run |-> r, workflow |-> bound.workflow, progress |-> 0]

(* "state exists; use --resume or --force-new" *)
RefuseNew ==
  /\ WorkerStep("state") /\ mode = "new" /\ state # NoState
  /\ Exit("failed")
  /\ UNCHANGED <<files, mode, bound, mem, trace, counts>>

CreateState ==
  /\ WorkerStep("state") /\ (mode = "new" => state = NoState) /\ Fresh
  /\ mem' = NewState(Len(begun) + 1)
  /\ begun' = Append(begun, bound) /\ saved' = Append(saved, 0)
  /\ pc' = "finalize"
  /\ UNCHANGED <<files, mode, bound, code, own, first, asked, counts>>

(* The backup is read, and copied back, when state.json cannot be loaded. *)
MutantLoaded == IF backup # NoState THEN backup ELSE state
Loaded == IF state # NoState THEN state ELSE backup

MutantSameFingerprint(s) == TRUE
SameFingerprint(s) == s.workflow = bound.workflow

LoadState ==
  /\ WorkerStep("state") /\ mode = "resume"
  /\ state' = Loaded
  /\ IF Loaded # NoState /\ SameFingerprint(Loaded)
       THEN /\ mem' = Loaded /\ pc' = "running" /\ UNCHANGED code
            /\ own' = IF own = 0 THEN Loaded.run ELSE own
       ELSE Exit("failed") /\ UNCHANGED <<mem, own>>
  /\ UNCHANGED <<backup, snapshot, frozen, mode, bound, begun, saved, first, asked, counts>>

(* StateStore.save replaces state.json, then the backup. *)
SavePrimary(s) ==
  /\ state' = s /\ mem' = s
  /\ saved' = [saved EXCEPT ![s.run] = s.progress]
  /\ pc' = "backup"

FirstSave ==
  /\ WorkerStep("finalize")
  /\ SavePrimary(mem)
  /\ own' = IF own = 0 THEN mem.run ELSE own
  /\ UNCHANGED <<backup, snapshot, frozen, mode, bound, code, begun, first, asked, counts>>

MutantSaved == IF backup.run = mem.run THEN backup ELSE mem
Saved == mem

SaveBackup ==
  /\ WorkerStep("backup")
  /\ \/ backup' = Saved
     \/ BackupMayFail /\ UNCHANGED backup     \* OSError is logged
  /\ pc' = "running"
  /\ UNCHANGED <<state, snapshot, frozen, mode, bound, mem, code, trace, counts>>

Advance ==
  /\ WorkerStep("running") /\ mem.progress < MaxProgress
  /\ SavePrimary([mem EXCEPT !.progress = @ + 1])
  /\ UNCHANGED <<backup, snapshot, frozen, mode, bound, code, begun, own, first, asked, counts>>

(* The run returns: completed, or stopped by its Workflow or by an error that *)
(* retrying cannot fix.                                                       *)
Return ==
  /\ WorkerStep("running")
  /\ \/ mem.progress = MaxProgress /\ Exit("ok")
     \/ Exit("failed")
  /\ UNCHANGED <<files, mode, bound, mem, trace, counts>>

(* api.run: after a transient or unexpected error it resumes what is saved.   *)
Recover ==
  /\ pc \in Steps /\ WorkerStep(pc) /\ errors < MaxErrors
  /\ errors' = errors + 1
  /\ mode' = IF state # NoState THEN "resume" ELSE "new"
  /\ bound' = Unbound /\ mem' = NoState
  /\ pc' = "resources"
  /\ UNCHANGED <<files, code, trace, launches, crashes, losses>>

(* The Worker dies, or is killed because its heartbeat stopped. *)
Crash ==
  /\ pc \in Steps /\ WorkerStep(pc) /\ crashes < MaxCrashes
  /\ crashes' = crashes + 1
  /\ Exit("crashed")
  /\ UNCHANGED <<files, mode, bound, mem, trace, launches, errors, losses>>

(* The agent works in the project and may delete its state.json. *)
LosePrimary ==
  /\ state # NoState /\ losses < MaxLosses
  /\ losses' = losses + 1
  /\ state' = NoState
  /\ UNCHANGED <<backup, snapshot, frozen, stop, sup, command, worker, outcome, trace,
                 launches, crashes, errors>>

Supervise == Starting \/ Restart \/ ReapFinal \/ ReapCrash \/ Stop
Work == BindResources \/ BindSnapshot \/ RefuseNew \/ CreateState \/ LoadState \/ FirstSave
          \/ SaveBackup \/ Advance \/ Return

AllLaunched == sup = "idle" /\ launches = MaxLaunches /\ UNCHANGED vars

Next == Launch \/ Supervise \/ RequestStop \/ Work \/ Recover \/ Crash \/ LosePrimary
          \/ AllLaunched

Spec == Init /\ [][Next]_vars

(* The Supervisor polls for ever and backs off for a bounded time; nothing    *)
(* bounds how long a Worker runs.                                             *)
SupervisedSpec == Spec /\ WF_vars(Supervise)

--------------------------------------------------------------------------
SavedState == [run : 0 .. Len(begun), workflow : WorkflowText \cup {None}, progress : Nat]
Inputs == [workflow : WorkflowText \cup {None}, prompt : Prompt \cup {None}]
FilesTyped ==
  /\ state \in SavedState /\ backup \in SavedState /\ mem \in SavedState
  /\ snapshot \in WorkflowText \cup {None} /\ frozen \in Prompt \cup {None}
  /\ bound \in Inputs /\ begun \in Seq(Inputs) /\ saved \in Seq(Nat)
ControlTyped ==
  /\ sup \in {"idle", "starting", "waiting", "backoff"}
  /\ command \in [mode : {"new", "resume", "force"}, workflow : WorkflowText,
                  prompt : Prompt, file : BOOLEAN]
  /\ pc \in Steps \cup {"off", "exited"} /\ mode \in {"new", "resume", "force"}
  /\ code \in {"none", "ok", "failed", "crashed"}
  /\ outcome \in {"none", "ok", "failed", "crashed", "stopped"}
FlagsTyped == stop \in BOOLEAN /\ asked \in BOOLEAN
CountsTyped == {own, first, launches, crashes, errors, losses} \subseteq Nat

(* The files hold saved states and inputs, and the two processes are at one of *)
(* their steps.                                                                *)
TypeOK == FilesTyped /\ ControlTyped /\ FlagsTyped /\ CountsTyped

(* A Worker only ever runs a saved run with the Workflow the run was started  *)
(* with, whichever Workflow later launches named and froze                    *)
(* (workflow_runner.py:77-91).                                                *)
RunKeepsWorkflow ==
  pc \in {"finalize", "backup", "running"} => bound.workflow = begun[mem.run].workflow

(* Why: every saved state carries the fingerprint its run was started with,   *)
(* and a Worker past its binding is bound to what it runs.                    *)
Kept(s) == s # NoState => s.run \in DOMAIN begun /\ s.workflow = begun[s.run].workflow
RunInv ==
  /\ TypeOK
  /\ Len(saved) = Len(begun)
  /\ Kept(state) /\ Kept(backup) /\ Kept(mem)
  /\ pc \in {"finalize", "backup", "running"} =>
       mem.run \in DOMAIN begun /\ bound.workflow = mem.workflow

(* As long as state.json is not destroyed from outside, it holds the newest   *)
(* run and the newest progress that were ever saved: no restart and no backup *)
(* rolls a run back (docs/design/STATE_EVENTS.md:11).                         *)
NoRollback ==
  losses = 0 /\ state # NoState =>
    /\ state.progress = saved[state.run]
    /\ backup.run <= state.run

(* A backup that is restored lacks at most one save for every Worker that was *)
(* interrupted between the two writes of a save (run_state.py:251-275): by an *)
(* error, a crash or a stop, which ends its launch.                           *)
RestoredIsRecent ==
  state # NoState => saved[state.run] + 1 <= state.progress + launches + crashes + errors

(* Once a launch has a run, every Worker it starts later runs the same run, and  *)
(* judges one that was started with a prompt file by that prompt                *)
(* ("Active Runs and later Resume use those frozen inputs",                     *)
(* docs/user/API_REFERENCE.md:51; supervisor.py:162-164).                       *)
RestartContinuesRun ==
  /\ losses = 0 /\ pc \in {"backup", "running"} => mem.run = own
  /\ pc = "running" /\ mem.run >= first /\ command.file =>
       bound.prompt = begun[mem.run].prompt

(* A launch is stopped only by a request made for it; and a request that is there *)
(* while a Worker runs or a restart is delayed ends the launch, however long the  *)
(* Worker would run (supervisor.py:187-236).  One made before the launch clears    *)
(* the file at its start is dropped with it.                                    *)
StopHonoured ==
  /\ [](outcome = "stopped" /\ sup = "idle" => asked)
  /\ stop /\ sup \in {"waiting", "backoff"} ~> sup = "idle"

(* As long as Workers step, or crash finitely often, every launch ends: a     *)
(* Worker that returned is not restarted, and one that crashed runs on from   *)
(* what it saved.                                                             *)
EveryLaunchEnds == WF_vars(Work) => []<>(sup = "idle")
===============================================================================
