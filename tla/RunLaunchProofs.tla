---------------------------- MODULE RunLaunchProofs ----------------------------
(* Theorems about RunLaunch, for every set of command lines, every number of  *)
(* launches, and every loss, error and crash the bounds allow.                *)
EXTENDS RunLaunch, SequenceTheorems, TLAPS

--------------------------------------------------------------------------
(* Starting a run adds it to the history and leaves the older runs there.     *)
LEMMA AppendKeeps ==
  ASSUME NEW S, NEW s \in Seq(S), NEW x \in S
  PROVE  /\ Append(s, x) \in Seq(S)
         /\ Len(Append(s, x)) = Len(s) + 1
         /\ DOMAIN s \subseteq DOMAIN Append(s, x)
         /\ Len(s) + 1 \in DOMAIN Append(s, x)
         /\ \A i \in DOMAIN s : Append(s, x)[i] = s[i]
         /\ Append(s, x)[Len(s) + 1] = x
BY AppendProperties, LenProperties

(* Types of what does not depend on the history of runs. *)
LEMMA InitTyped == Init => ControlTyped /\ FlagsTyped /\ CountsTyped
<1> SUFFICES ASSUME Init PROVE ControlTyped /\ FlagsTyped /\ CountsTyped
  OBVIOUS
<1>1. ControlTyped
  BY CommandAssumption DEF Init, ControlTyped
<1>2. FlagsTyped
  BY DEF Init, FlagsTyped
<1>3. CountsTyped
  BY DEF Init, CountsTyped
<1> QED
  BY <1>1, <1>2, <1>3

(* The two processes stay at their steps. *)
LEMMA NextControlTyped == ControlTyped /\ [Next]_vars => ControlTyped'
<1> SUFFICES ASSUME ControlTyped, [Next]_vars PROVE ControlTyped'
  OBVIOUS
<1> USE DEF ControlTyped, worker, Steps
<1>1. CASE Launch \/ RequestStop
  BY <1>1, CommandAssumption DEF Launch, RequestStop
<1>2. CASE Supervise
  BY <1>2 DEF Supervise, Starting, Restart, Spawn, ReapFinal, Finished, ReapCrash, RestartMode,
              Stop
<1>3. CASE Work
  BY <1>3 DEF Work, WorkerStep, Exit, BindResources, BindSnapshot, RefuseNew, CreateState,
              LoadState, FirstSave, SavePrimary, SaveBackup, Advance, Return
<1>4. CASE Recover \/ Crash \/ LosePrimary
  BY <1>4 DEF Recover, Crash, LosePrimary, WorkerStep, Exit
<1>5. CASE AllLaunched \/ UNCHANGED vars
  BY <1>5 DEF AllLaunched, vars
<1> QED
  BY <1>1, <1>2, <1>3, <1>4, <1>5 DEF Next

(* Flags stay flags. *)
LEMMA NextFlagsTyped == FlagsTyped /\ [Next]_vars => FlagsTyped'
<1> SUFFICES ASSUME FlagsTyped, [Next]_vars PROVE FlagsTyped'
  OBVIOUS
<1> USE DEF FlagsTyped, trace
<1>1. CASE Launch \/ RequestStop
  BY <1>1 DEF Launch, RequestStop
<1>2. CASE Supervise
  BY <1>2 DEF Supervise, Starting, Restart, Spawn, ReapFinal, Finished, ReapCrash, Stop
<1>3. CASE Work
  BY <1>3 DEF Work, WorkerStep, BindResources, BindSnapshot, RefuseNew, CreateState,
              LoadState, FirstSave, SaveBackup, Advance, Return
<1>4. CASE Recover \/ Crash \/ LosePrimary
  BY <1>4 DEF Recover, Crash, LosePrimary, WorkerStep
<1>5. CASE AllLaunched \/ UNCHANGED vars
  BY <1>5 DEF AllLaunched, vars
<1> QED
  BY <1>1, <1>2, <1>3, <1>4, <1>5 DEF Next

(* Counters stay counters; a launch has a run only when one was loaded or     *)
(* saved.                                                                     *)
LEMMA NextCountsTyped == FilesTyped /\ CountsTyped /\ [Next]_vars => CountsTyped'
<1> SUFFICES ASSUME FilesTyped, CountsTyped, [Next]_vars PROVE CountsTyped'
  OBVIOUS
<1> USE DEF CountsTyped, trace, counts
<1>1. /\ state.run \in Nat /\ backup.run \in Nat /\ mem.run \in Nat
      /\ Len(begun) \in Nat
  BY LenProperties DEF FilesTyped, SavedState
<1>2. CASE Launch \/ RequestStop
  BY <1>1, <1>2 DEF Launch, RequestStop
<1>3. CASE Supervise
  BY <1>3 DEF Supervise, Starting, Restart, Spawn, ReapFinal, Finished, ReapCrash, Stop
<1>4. CASE LoadState \/ FirstSave
  BY <1>1, <1>4 DEF LoadState, Loaded, FirstSave
<1>5. CASE Work /\ ~LoadState /\ ~FirstSave
  BY <1>5 DEF Work, WorkerStep, BindResources, BindSnapshot, RefuseNew, CreateState,
              SaveBackup, Advance, Return
<1>6. CASE Recover \/ Crash \/ LosePrimary
  BY <1>6 DEF Recover, Crash, LosePrimary, WorkerStep
<1>7. CASE AllLaunched \/ UNCHANGED vars
  BY <1>7 DEF AllLaunched, vars
<1> QED
  BY <1>2, <1>3, <1>4, <1>5, <1>6, <1>7 DEF Next

--------------------------------------------------------------------------
(* What is saved, and what the Worker runs. *)
RunsTyped ==
  /\ FilesTyped
  /\ Len(saved) = Len(begun)
  /\ Kept(state) /\ Kept(backup) /\ Kept(mem)
  /\ pc \in {"finalize", "backup", "running"} =>
       mem.run \in DOMAIN begun /\ bound.workflow = mem.workflow

(* At first nothing is saved and nothing runs. *)
LEMMA InitRuns == Init => RunsTyped
BY DEF Init, RunsTyped, FilesTyped, SavedState, Inputs, NoState, Unbound, Kept

(* A step that changes neither a file nor the history keeps what is saved, as *)
(* long as the Worker does not come to run.                                   *)
LEMMA SameRuns ==
  ASSUME RunsTyped, UNCHANGED <<state, backup, begun, saved>>,
         snapshot' \in WorkflowText \cup {None}, frozen' \in Prompt \cup {None},
         bound' \in Inputs, mem' \in {mem, NoState},
         pc' \notin {"finalize", "backup", "running"}
  PROVE  RunsTyped'
BY DEF RunsTyped, FilesTyped, SavedState, NoState, Kept

(* The Supervisor and an operator touch no saved state and no history of runs. *)
LEMMA SuperviseRuns ==
  RunsTyped /\ (Launch \/ Supervise \/ RequestStop \/ AllLaunched \/ UNCHANGED vars)
    => RunsTyped'
<1> SUFFICES ASSUME RunsTyped, Launch \/ Supervise \/ RequestStop \/ AllLaunched \/ UNCHANGED vars
             PROVE  RunsTyped'
  OBVIOUS
<1>1. CASE Launch \/ RequestStop \/ AllLaunched \/ UNCHANGED vars
  <2>1. UNCHANGED <<files, worker, begun, saved>>
    BY <1>1 DEF Launch, RequestStop, AllLaunched, vars, trace
  <2> QED
    BY <2>1 DEF RunsTyped, FilesTyped, SavedState, Kept, files, worker
<1>2. CASE Supervise
  <2>1. /\ UNCHANGED <<files, begun, saved>>
        /\ bound' \in {bound, Unbound} /\ mem' \in {mem, NoState}
        /\ pc' \notin {"finalize", "backup", "running"}
    BY <1>2 DEF Supervise, Starting, Restart, Spawn, ReapFinal, Finished, ReapCrash, Stop, trace
  <2>2. Unbound \in Inputs
    BY DEF Unbound, Inputs
  <2> QED
    BY <2>1, <2>2, SameRuns DEF RunsTyped, FilesTyped, files
<1> QED
  BY <1>1, <1>2

(* Saving replaces the newest progress of the run the Worker has. *)
LEMMA SavePrimaryRuns ==
  ASSUME RunsTyped, pc \in {"finalize", "running"}, NEW n \in Nat,
         SavePrimary([mem EXCEPT !.progress = n]),
         UNCHANGED <<backup, snapshot, frozen, bound, begun>>
  PROVE  RunsTyped'
<1> DEFINE s == [mem EXCEPT !.progress = n]
<1>1. /\ mem \in SavedState /\ mem.run \in DOMAIN begun /\ bound.workflow = mem.workflow
      /\ Kept(mem)
  BY DEF RunsTyped, FilesTyped
<1>2. s \in SavedState /\ s.run = mem.run /\ s.workflow = mem.workflow /\ s.progress = n
  BY <1>1 DEF SavedState
<1>3. mem # NoState
  BY <1>1, LenProperties DEF NoState, RunsTyped, FilesTyped
<1>4. Kept(s)
  BY <1>1, <1>2, <1>3 DEF Kept
<1> HIDE DEF s
<1>5. state' = s /\ mem' = s /\ pc' = "backup" /\ saved' = [saved EXCEPT ![mem.run] = n]
  BY <1>2 DEF SavePrimary, s
<1>6. saved' \in Seq(Nat) /\ Len(saved') = Len(saved)
  BY <1>1, <1>5, ExceptSeq, LenProperties DEF RunsTyped, FilesTyped
<1> QED
  BY <1>1, <1>2, <1>4, <1>5, <1>6 DEF RunsTyped, FilesTyped, SavedState, Kept

(* A new run joins the history. *)
LEMMA CreateRuns == RunsTyped /\ CreateState => RunsTyped'
<1> SUFFICES ASSUME RunsTyped, CreateState PROVE RunsTyped'
  OBVIOUS
<1> DEFINE r == Len(begun) + 1
<1>1. /\ begun' = Append(begun, bound) /\ saved' = Append(saved, 0)
      /\ mem' = [run |-> r, workflow |-> bound.workflow, progress |-> 0]
      /\ UNCHANGED <<bound, state, backup, snapshot, frozen>>
  BY DEF CreateState, NewState, files
<1>2. /\ begun' \in Seq(Inputs) /\ Len(begun') = r /\ DOMAIN begun \subseteq DOMAIN begun'
      /\ r \in DOMAIN begun' /\ begun'[r] = bound
      /\ \A i \in DOMAIN begun : begun'[i] = begun[i]
  BY <1>1, AppendKeeps DEF RunsTyped, FilesTyped
<1>3. saved' \in Seq(Nat) /\ Len(saved') = Len(saved) + 1
  BY <1>1, AppendKeeps DEF RunsTyped, FilesTyped
<1>4. Len(begun) \in Nat
  BY LenProperties DEF RunsTyped, FilesTyped
<1>5. Kept(state)' /\ Kept(backup)' /\ Kept(mem)'
  BY <1>1, <1>2 DEF Kept, RunsTyped
<1>6. FilesTyped'
  BY <1>1, <1>2, <1>3, <1>4 DEF RunsTyped, FilesTyped, SavedState, Inputs
<1> QED
  BY <1>1, <1>2, <1>3, <1>5, <1>6 DEF RunsTyped

(* What a Worker does to the files keeps it. *)
LEMMA WorkRuns == RunsTyped /\ ControlTyped /\ Work => RunsTyped'
<1> SUFFICES ASSUME RunsTyped, ControlTyped, Work PROVE RunsTyped'
  OBVIOUS
<1>1. CASE BindResources
  <2>1. /\ frozen' \in Prompt \cup {None} /\ bound' \in Inputs
        /\ UNCHANGED <<state, backup, snapshot, mem, begun, saved>> /\ pc' = "snapshot"
    BY <1>1 DEF BindResources, RunsTyped, FilesTyped, ControlTyped, Inputs, trace
  <2> QED
    BY <2>1, SameRuns DEF RunsTyped, FilesTyped
<1>2. CASE BindSnapshot
  <2>1. /\ snapshot' \in WorkflowText \cup {None} /\ bound' \in Inputs
        /\ UNCHANGED <<state, backup, frozen, mem, begun, saved>> /\ pc' \in {"state", "exited"}
    BY <1>2 DEF BindSnapshot, Exit, RunsTyped, FilesTyped, ControlTyped, Inputs, trace
  <2> QED
    BY <2>1, SameRuns DEF RunsTyped, FilesTyped
<1>3. CASE RefuseNew \/ Return
  <2>1. UNCHANGED <<files, bound, mem, begun, saved>> /\ pc' = "exited"
    BY <1>3 DEF RefuseNew, Return, Exit, trace
  <2> QED
    BY <2>1, SameRuns DEF RunsTyped, FilesTyped, files
<1>4. CASE CreateState
  BY <1>4, CreateRuns
<1>5. CASE LoadState
  <2>1. /\ state' \in {state, backup}
        /\ UNCHANGED <<backup, snapshot, frozen, bound, begun, saved>>
        /\ \/ mem' = mem /\ pc' = "exited"
           \/ mem' = state' /\ state' # NoState /\ state'.workflow = bound.workflow
    BY <1>5 DEF LoadState, Loaded, SameFingerprint, Exit
  <2> QED
    BY <2>1 DEF RunsTyped, FilesTyped, SavedState, Kept
<1>6. CASE FirstSave
  <2>1. mem = [mem EXCEPT !.progress = mem.progress] /\ mem.progress \in Nat
    BY DEF RunsTyped, FilesTyped, SavedState
  <2>2. SavePrimary([mem EXCEPT !.progress = mem.progress])
    BY <1>6, <2>1 DEF FirstSave
  <2> QED
    BY <1>6, <2>1, <2>2, SavePrimaryRuns DEF FirstSave, WorkerStep
<1>7. CASE SaveBackup
  BY <1>7 DEF SaveBackup, Saved, WorkerStep, RunsTyped, FilesTyped, SavedState, Kept, trace
<1>8. CASE Advance
  <2>1. mem.progress + 1 \in Nat
    BY DEF RunsTyped, FilesTyped, SavedState
  <2> QED
    BY <1>8, <2>1, SavePrimaryRuns DEF Advance, WorkerStep
<1> QED
  BY <1>1, <1>2, <1>3, <1>4, <1>5, <1>6, <1>7, <1>8 DEF Work

(* Errors, crashes and a destroyed state.json keep it. *)
LEMMA FailureRuns == RunsTyped /\ (Recover \/ Crash \/ LosePrimary) => RunsTyped'
<1> SUFFICES ASSUME RunsTyped, Recover \/ Crash \/ LosePrimary PROVE RunsTyped'
  OBVIOUS
<1>1. CASE Recover \/ Crash
  <2>1. /\ UNCHANGED <<files, begun, saved>>
        /\ bound' \in {bound, Unbound} /\ mem' \in {mem, NoState}
        /\ pc' \notin {"finalize", "backup", "running"}
    BY <1>1 DEF Recover, Crash, Exit, trace
  <2>2. Unbound \in Inputs
    BY DEF Unbound, Inputs
  <2> QED
    BY <2>1, <2>2, SameRuns DEF RunsTyped, FilesTyped, files
<1>2. CASE LosePrimary
  BY <1>2 DEF LosePrimary, worker, trace, NoState, RunsTyped, FilesTyped, SavedState, Kept
<1> QED
  BY <1>1, <1>2

--------------------------------------------------------------------------
(* The inductive invariant of launching. *)
THEOREM LaunchInvariant == Spec => []RunInv
<1>1. RunInv <=> RunsTyped /\ ControlTyped /\ FlagsTyped /\ CountsTyped
  BY DEF RunInv, RunsTyped, TypeOK
<1>2. Init => RunInv
  BY InitTyped, InitRuns, <1>1
<1>3. RunsTyped /\ ControlTyped /\ [Next]_vars => RunsTyped'
  BY SuperviseRuns, WorkRuns, FailureRuns DEF Next
<1>4. RunsTyped => FilesTyped
  BY DEF RunsTyped
<1> DEFINE Inv == RunsTyped /\ ControlTyped /\ FlagsTyped /\ CountsTyped
<1>5. Init => Inv
  BY <1>1, <1>2
<1>6. Inv /\ [Next]_vars => Inv'
  BY <1>3, <1>4, NextControlTyped, NextFlagsTyped, NextCountsTyped
<1>7. Inv => RunInv
  BY <1>1
<1> HIDE DEF Inv
<1> QED
  BY <1>5, <1>6, <1>7, PTL DEF Spec

(* The files and the two processes keep their types. *)
THEOREM LaunchTypeCorrect == Spec => []TypeOK
<1>1. RunInv => TypeOK
  BY DEF RunInv
<1> QED
  BY LaunchInvariant, <1>1, PTL

(* Whatever is launched, refused, forced, crashed, restored from the backup or *)
(* lost in between, a Worker runs a saved run only with the Workflow that run  *)
(* was started with.                                                           *)
THEOREM WorkflowIsKept == Spec => []RunKeepsWorkflow
<1>1. RunInv => RunKeepsWorkflow
  <2> SUFFICES ASSUME RunInv, pc \in {"finalize", "backup", "running"}
               PROVE  bound.workflow = begun[mem.run].workflow
    BY DEF RunKeepsWorkflow
  <2>1. mem # NoState
    BY DEF RunInv, NoState
  <2> QED
    BY <2>1 DEF RunInv, Kept
<1> QED
  BY LaunchInvariant, <1>1, PTL

--------------------------------------------------------------------------
(* Why no run is rolled back: a backup never knows more than state.json, and a *)
(* Worker that saves either runs what is saved or the newest run there is.     *)
Newest ==
  /\ state = NoState => backup = NoState
  /\ state # NoState => state.progress = saved[state.run] /\ backup.run <= state.run
  /\ pc \in {"backup", "running"} => mem = state
  /\ pc = "finalize" => mem.run = Len(begun)

(* What is known of the saved runs. *)
LEMMA RunNumbers ==
  ASSUME RunInv
  PROVE  /\ Len(begun) \in Nat /\ DOMAIN begun = 1 .. Len(begun)
         /\ DOMAIN saved = 1 .. Len(begun) /\ saved \in Seq(Nat)
         /\ \A s \in {state, backup, mem} :
              s \in SavedState /\ s.run \in Nat /\ s.run <= Len(begun)
                /\ (s # NoState => s.run \in 1 .. Len(begun))
         /\ pc \in {"finalize", "backup", "running"} =>
              mem.run \in 1 .. Len(begun) /\ mem # NoState
<1>1. /\ Len(begun) \in Nat /\ DOMAIN begun = 1 .. Len(begun)
      /\ DOMAIN saved = 1 .. Len(begun) /\ saved \in Seq(Nat)
  BY LenProperties DEF RunInv, TypeOK, FilesTyped
<1> QED
  BY <1>1 DEF RunInv, TypeOK, FilesTyped, SavedState, Kept, NoState

(* Saving keeps it, whichever of the two saves it is. *)
LEMMA SaveNewest ==
  ASSUME RunInv, Newest, pc \in {"finalize", "running"}, NEW s,
         s.run = mem.run, s.progress \in Nat, s # NoState, SavePrimary(s), UNCHANGED backup
  PROVE  Newest'
<1>1. /\ state' = s /\ mem' = s /\ pc' = "backup"
      /\ saved' = [saved EXCEPT ![s.run] = s.progress]
  BY DEF SavePrimary
<1>2. mem.run \in DOMAIN saved /\ mem.run \in Nat /\ backup.run \in Nat
  BY RunNumbers
<1>3. saved'[s.run] = s.progress
  BY <1>1, <1>2
<1>4. backup.run <= mem.run
  <2>1. CASE pc = "finalize"
    BY <2>1, RunNumbers DEF Newest
  <2>2. CASE pc = "running"
    BY <2>2, RunNumbers DEF Newest
  <2> QED
    BY <2>1, <2>2
<1> QED
  BY <1>1, <1>3, <1>4 DEF Newest

(* As long as nobody deletes state.json, every step keeps it. *)
LEMMA StepNewest == RunInv /\ Newest /\ [Next]_vars => Newest' \/ losses' # losses
<1> SUFFICES ASSUME RunInv, Newest, [Next]_vars, losses' = losses PROVE Newest'
  OBVIOUS
<1>1. CASE Launch \/ RequestStop \/ AllLaunched \/ UNCHANGED vars
  <2>1. UNCHANGED <<state, backup, mem, pc, begun, saved>>
    BY <1>1 DEF Launch, RequestStop, AllLaunched, vars, files, worker, trace
  <2> QED
    BY <2>1 DEF Newest
<1>2. CASE Supervise \/ Recover \/ Crash
  <2>1. UNCHANGED <<state, backup, begun, saved>> /\ pc' \notin {"finalize", "backup", "running"}
    BY <1>2 DEF Supervise, Starting, Restart, Spawn, ReapFinal, Finished, ReapCrash, Stop,
                Recover, Crash, Exit, files, trace
  <2> QED
    BY <2>1 DEF Newest
<1>3. CASE LosePrimary
  <2>1. losses' = losses + 1 /\ losses \in Nat
    BY <1>3 DEF LosePrimary, RunInv, TypeOK, CountsTyped
  <2> QED
    BY <2>1
<1>4. CASE BindResources \/ BindSnapshot \/ RefuseNew \/ Return
  <2>1. UNCHANGED <<state, backup, begun, saved>> /\ pc' \notin {"finalize", "backup", "running"}
    BY <1>4 DEF BindResources, BindSnapshot, RefuseNew, Return, Exit, files, trace
  <2> QED
    BY <2>1 DEF Newest
<1>5. CASE CreateState
  <2>1. /\ mem'.run = Len(begun') /\ pc' = "finalize" /\ UNCHANGED <<state, backup>>
        /\ saved' = Append(saved, 0)
    <3>1. Len(begun') = Len(begun) + 1
      BY <1>5, AppendKeeps DEF CreateState, RunInv, TypeOK, FilesTyped
    <3> QED
      BY <1>5, <3>1 DEF CreateState, NewState, files
  <2>2. state # NoState => saved'[state.run] = saved[state.run]
    <3>1. state # NoState => state.run \in DOMAIN saved
      BY RunNumbers
    <3> QED
      BY <2>1, <3>1, AppendKeeps, RunNumbers
  <2> QED
    BY <2>1, <2>2 DEF Newest
<1>6. CASE LoadState
  BY <1>6 DEF LoadState, Loaded, Exit, Newest
<1>7. CASE FirstSave
  <2>1. pc = "finalize" /\ SavePrimary(mem) /\ UNCHANGED backup
    BY <1>7 DEF FirstSave, WorkerStep
  <2>2. mem.progress \in Nat /\ mem # NoState
    BY <2>1, RunNumbers DEF SavedState
  <2> QED
    BY <2>1, <2>2, SaveNewest
<1>8. CASE SaveBackup
  <2>1. /\ pc = "backup" /\ pc' = "running" /\ backup' \in {mem, backup}
        /\ UNCHANGED <<state, mem, saved>>
    BY <1>8 DEF SaveBackup, Saved, WorkerStep, trace
  <2>2. state # NoState /\ mem = state /\ state.run \in Nat
    BY <2>1, RunNumbers DEF Newest
  <2> QED
    BY <2>1, <2>2 DEF Newest
<1>9. CASE Advance
  <2> DEFINE s == [mem EXCEPT !.progress = @ + 1]
  <2>1. pc = "running" /\ SavePrimary(s) /\ UNCHANGED backup
    BY <1>9 DEF Advance, WorkerStep
  <2>2. mem \in SavedState /\ mem.run # 0
    BY <2>1, RunNumbers
  <2>3. s.run = mem.run /\ s.progress \in Nat /\ s # NoState
    BY <2>2 DEF SavedState, NoState
  <2> HIDE DEF s
  <2> QED
    BY <2>1, <2>3, SaveNewest
<1> QED
  BY <1>1, <1>2, <1>3, <1>4, <1>5, <1>6, <1>7, <1>8, <1>9 DEF Next, Work

(* Whatever is launched, interrupted, resumed and written to the backup, as long  *)
(* as nobody deletes state.json it holds the newest progress of the newest run    *)
(* (run_state.py:251-275), for any number of launches, crashes and errors.        *)
THEOREM RunIsNotRolledBack == Spec => []NoRollback
<1> DEFINE Inv == losses = 0 => Newest
<1>1. Init => Inv
  BY DEF Init, Newest, NoState
<1>2. RunInv /\ Inv /\ [Next]_vars => Inv'
  <2>1. RunInv /\ [Next]_vars /\ losses' = 0 => losses = 0
    BY DEF RunInv, TypeOK, CountsTyped, Next, vars, counts, Launch, Supervise, Starting, Restart,
           Spawn, ReapFinal, Finished, ReapCrash, Stop, RequestStop, AllLaunched, Work,
           BindResources, BindSnapshot, RefuseNew, CreateState, LoadState, FirstSave, SaveBackup,
           Advance, Return, Recover, Crash, LosePrimary
  <2> QED
    BY <2>1, StepNewest
<1>3. Inv => NoRollback
  BY DEF Newest, NoRollback
<1> HIDE DEF Inv
<1> QED
  BY <1>1, <1>2, <1>3, LaunchInvariant, PTL DEF Spec

--------------------------------------------------------------------------
(* Why a restart continues the run of its launch: once the launch has a run,  *)
(* that run is what is saved, and every Worker it starts later resumes.       *)
OwnInv ==
  /\ sup # "waiting" => pc = "off"
  /\ sup = "starting" => own = 0
  /\ sup = "backoff" => command.mode = "resume"
  /\ pc = "finalize" => Fresh
  /\ losses = 0 =>
       /\ own # 0 => state # NoState /\ state.run = own
       /\ own # 0 /\ pc \in {"resources", "snapshot", "state", "finalize"} => mode = "resume"
       /\ pc \in {"backup", "running"} => own # 0 /\ mem.run = own

(* Why it is judged by the prompt it was started with: every run of the launch *)
(* was started with the prompt of its command, and a prompt given as a file is *)
(* the frozen one from then on.                                                *)
PromptInv ==
  /\ \A r \in DOMAIN begun : r >= first => begun[r].prompt = command.prompt
  /\ command.file /\ Len(begun) >= first => frozen = command.prompt
  /\ pc \in {"snapshot", "state"} /\ Fresh =>
       bound.prompt = command.prompt /\ (command.file => frozen = command.prompt)
  /\ pc \in {"snapshot", "state"} /\ ~Fresh /\ command.file /\ Len(begun) >= first =>
       bound.prompt = command.prompt
  /\ pc \in {"finalize", "backup", "running"} /\ mem.run >= first /\ command.file =>
       bound.prompt = command.prompt

(* No step brings a lost state.json back into the count of losses. *)
LEMMA LossesStay ==
  ASSUME RunInv, [Next]_vars, losses' = 0
  PROVE  losses = 0
BY DEF RunInv, TypeOK, CountsTyped, Next, vars, counts, Launch, Supervise, Starting, Restart,
       Spawn, ReapFinal, Finished, ReapCrash, Stop, RequestStop, AllLaunched, Work,
       BindResources, BindSnapshot, RefuseNew, CreateState, LoadState, FirstSave, SaveBackup,
       Advance, Return, Recover, Crash, LosePrimary

(* Every step keeps OwnInv: a launch gets its run from what its Worker saves  *)
(* first or loads first.                                                      *)
LEMMA NextOwnInv ==
  ASSUME RunInv, losses = 0 => Newest, OwnInv, [Next]_vars
  PROVE  OwnInv'
<1>1. losses' = 0 => losses = 0
  BY LossesStay
<1>2. CASE Launch \/ RequestStop \/ AllLaunched \/ UNCHANGED vars
  <2>1. /\ UNCHANGED <<state, mem, pc, mode>>
        /\ \/ UNCHANGED <<sup, command, own>>
           \/ sup' = "starting" /\ sup = "idle" /\ own' = 0
    BY <1>2 DEF Launch, RequestStop, AllLaunched, vars, files, worker, trace
  <2> QED
    BY <1>1, <2>1 DEF OwnInv, Fresh
<1>3. CASE Supervise
  <2>1. CASE Starting \/ Restart
    <3>1. /\ sup' = "waiting" /\ pc' = "resources" /\ mode' = command.mode
          /\ UNCHANGED <<state, own>> /\ sup \in {"starting", "backoff"}
      BY <2>1 DEF Starting, Restart, Spawn, files, trace
    <3> QED
      BY <1>1, <3>1 DEF OwnInv
  <2>2. CASE ReapFinal \/ ReapCrash \/ Stop
    <3>1. /\ pc' = "off" /\ UNCHANGED <<state, own>>
          /\ sup' = "idle" \/ (sup' = "backoff" /\ command' = [command EXCEPT !.mode = "resume"])
      BY <2>2 DEF ReapFinal, ReapCrash, Stop, Finished, RestartMode, files, trace
    <3>2. [command EXCEPT !.mode = "resume"].mode = "resume"
      BY DEF RunInv, TypeOK, ControlTyped
    <3> QED
      BY <1>1, <3>1, <3>2 DEF OwnInv
  <2> QED
    BY <1>3, <2>1, <2>2 DEF Supervise
<1>4. CASE BindResources \/ BindSnapshot \/ RefuseNew \/ Return \/ Crash
  <2>1. /\ UNCHANGED <<state, sup, mode, own>> /\ sup = "waiting"
        /\ \/ pc \in {"resources", "snapshot"} /\ pc' \in {"snapshot", "state"}
           \/ pc' = "exited"
    BY <1>4 DEF BindResources, BindSnapshot, RefuseNew, Return, Crash, Exit, WorkerStep, files, trace
  <2> QED
    BY <1>1, <2>1 DEF OwnInv
<1>5. CASE CreateState
  <2>1. /\ UNCHANGED <<state, sup, mode, own>> /\ sup = "waiting" /\ pc = "state"
        /\ pc' = "finalize" /\ Fresh
    BY <1>5 DEF CreateState, WorkerStep, files
  <2> QED
    BY <1>1, <2>1 DEF OwnInv, Fresh
<1>6. CASE LoadState
  <2>1. /\ UNCHANGED <<sup, mode>> /\ sup = "waiting" /\ state' = Loaded
        /\ \/ pc' = "exited" /\ UNCHANGED own
           \/ /\ pc' = "running" /\ mem' = Loaded /\ Loaded # NoState
              /\ own' = IF own = 0 THEN Loaded.run ELSE own
    BY <1>6 DEF LoadState, WorkerStep, Exit
  <2>2. losses = 0 => Loaded = state
    BY DEF Loaded, Newest
  <2>3. Loaded # NoState => Loaded.run # 0
    BY RunNumbers DEF Loaded
  <2> QED
    BY <1>1, <2>1, <2>2, <2>3 DEF OwnInv
<1>7. CASE FirstSave
  <2>1. /\ UNCHANGED <<sup, mode>> /\ sup = "waiting" /\ pc = "finalize" /\ pc' = "backup"
        /\ state' = mem /\ mem' = mem /\ own' = IF own = 0 THEN mem.run ELSE own
    BY <1>7 DEF FirstSave, SavePrimary, WorkerStep
  <2>2. mem # NoState /\ mem.run # 0
    BY <2>1, RunNumbers
  <2>3. losses = 0 => own = 0
    BY <2>1 DEF OwnInv, Fresh
  <2> QED
    BY <1>1, <2>1, <2>2, <2>3 DEF OwnInv
<1>8. CASE SaveBackup
  <2>1. /\ UNCHANGED <<state, mem, sup, mode, own>> /\ sup = "waiting" /\ pc = "backup"
        /\ pc' = "running"
    BY <1>8 DEF SaveBackup, WorkerStep, trace
  <2> QED
    BY <1>1, <2>1 DEF OwnInv
<1>9. CASE Advance
  <2> DEFINE s == [mem EXCEPT !.progress = @ + 1]
  <2>1. /\ UNCHANGED <<sup, mode, own>> /\ sup = "waiting" /\ pc = "running" /\ pc' = "backup"
        /\ state' = s /\ mem' = s
    BY <1>9 DEF Advance, SavePrimary, WorkerStep
  <2>2. mem \in SavedState /\ mem.run # 0
    BY <2>1, RunNumbers
  <2>3. s.run = mem.run /\ s # NoState
    BY <2>2 DEF SavedState, NoState
  <2> HIDE DEF s
  <2> QED
    BY <1>1, <2>1, <2>3 DEF OwnInv
<1>10. CASE Recover
  <2>1. /\ UNCHANGED <<state, sup, own>> /\ sup = "waiting" /\ pc' = "resources"
        /\ mode' = IF state # NoState THEN "resume" ELSE "new"
    BY <1>10 DEF Recover, WorkerStep, files, trace
  <2> QED
    BY <1>1, <2>1 DEF OwnInv
<1>11. CASE LosePrimary
  <2>1. /\ UNCHANGED <<mem, sup, command, pc, mode, own>> /\ losses' = losses + 1 /\ losses \in Nat
    BY <1>11 DEF LosePrimary, worker, trace, RunInv, TypeOK, CountsTyped
  <2> QED
    BY <2>1 DEF OwnInv, Fresh
<1> QED
  BY <1>2, <1>3, <1>4, <1>5, <1>6, <1>7, <1>8, <1>9, <1>10, <1>11 DEF Next, Work

(* Every step keeps PromptInv, whatever is lost in between. *)
LEMMA NextPromptInv ==
  ASSUME RunInv, OwnInv, PromptInv, [Next]_vars
  PROVE  PromptInv'
<1> USE DEF PromptInv
<1>0. /\ Len(begun) \in Nat /\ DOMAIN begun = 1 .. Len(begun) /\ begun \in Seq(Inputs)
      /\ bound \in Inputs /\ first \in Nat
      /\ command \in [mode : {"new", "resume", "force"}, workflow : WorkflowText,
                      prompt : Prompt, file : BOOLEAN]
  BY RunNumbers DEF RunInv, TypeOK, FilesTyped, ControlTyped, CountsTyped
<1>1. CASE Launch
  <2>1. first' = Len(begun) + 1 /\ UNCHANGED <<frozen, bound, mem, mode, pc, begun>> /\ sup # "waiting"
    BY <1>1 DEF Launch, files, worker
  <2> QED
    BY <1>0, <2>1 DEF OwnInv
<1>2. CASE RequestStop \/ AllLaunched \/ LosePrimary \/ UNCHANGED vars
  <2>1. UNCHANGED <<frozen, bound, mem, mode, pc, begun, first, command>>
    BY <1>2 DEF RequestStop, AllLaunched, LosePrimary, vars, files, worker, trace
  <2> QED
    BY <2>1 DEF Fresh
<1>3. CASE Supervise \/ Recover \/ Crash \/ RefuseNew \/ Return
  <2>1. /\ UNCHANGED <<frozen, begun, first>> /\ pc' \in {"resources", "off", "exited"}
        /\ command' \in {command, [command EXCEPT !.mode = "resume"]}
    BY <1>3 DEF Supervise, Starting, Restart, Spawn, ReapFinal, ReapCrash, Stop, Finished,
                RestartMode, Recover, Crash, RefuseNew, Return, WorkerStep, Exit, files, trace
  <2>2. command'.prompt = command.prompt /\ command'.file = command.file
    BY <1>0, <2>1
  <2> QED
    BY <2>1, <2>2
<1>4. CASE BindResources
  <2>1. /\ UNCHANGED <<begun, first, command, mode>> /\ pc' = "snapshot"
        /\ Fresh => frozen' = (IF command.file THEN command.prompt ELSE frozen)
                      /\ bound'.prompt = command.prompt
        /\ ~Fresh => UNCHANGED frozen
                      /\ bound'.prompt = (IF frozen # None THEN frozen ELSE command.prompt)
    BY <1>0, <1>4 DEF BindResources, WorkerStep, Inputs, trace
  <2> QED
    BY <1>0, <2>1, NoneAssumption DEF Fresh
<1>5. CASE BindSnapshot
  <2>1. /\ UNCHANGED <<frozen, begun, first, command, mode>> /\ bound'.prompt = bound.prompt
        /\ pc = "snapshot" /\ pc' \in {"state", "exited"}
    BY <1>0, <1>5 DEF BindSnapshot, WorkerStep, Exit, Inputs, trace
  <2> QED
    BY <2>1 DEF Fresh
<1>6. CASE CreateState
  <2>1. /\ UNCHANGED <<frozen, first, command, mode, bound>> /\ pc = "state" /\ pc' = "finalize"
        /\ Fresh /\ begun' = Append(begun, bound) /\ mem'.run = Len(begun) + 1
    BY <1>6 DEF CreateState, WorkerStep, NewState, files
  <2>2. /\ Len(begun') = Len(begun) + 1 /\ begun'[Len(begun) + 1] = bound
        /\ \A i \in DOMAIN begun : begun'[i] = begun[i]
        /\ DOMAIN begun' = DOMAIN begun \cup {Len(begun) + 1}
    BY <1>0, <2>1, AppendProperties
  <2>3. bound.prompt = command.prompt /\ (command.file => frozen = command.prompt)
    BY <2>1
  <2> QED
    BY <2>1, <2>2, <2>3
<1>7. CASE LoadState
  <2>1. /\ UNCHANGED <<frozen, begun, first, command, mode, bound>> /\ pc = "state"
        /\ mode = "resume"
        /\ pc' = "exited" \/ (pc' = "running" /\ mem' = Loaded)
    BY <1>7 DEF LoadState, WorkerStep, Exit
  <2>2. Loaded.run \in Nat /\ Loaded.run <= Len(begun)
    BY RunNumbers DEF Loaded
  <2> QED
    BY <1>0, <2>1, <2>2 DEF Fresh
<1>8. CASE FirstSave \/ SaveBackup \/ Advance
  <2>1. /\ UNCHANGED <<frozen, begun, first, command, mode, bound>>
        /\ pc \in {"finalize", "backup", "running"} /\ pc' \in {"backup", "running"}
        /\ mem'.run = mem.run
    BY <1>8 DEF FirstSave, SaveBackup, Advance, SavePrimary, WorkerStep, RunInv, TypeOK, FilesTyped,
                SavedState, trace
  <2> QED
    BY <2>1
<1> QED
  BY <1>1, <1>2, <1>3, <1>4, <1>5, <1>6, <1>7, <1>8 DEF Next, Work

(* For every number of launches, kinds of commands, crashes and errors: once a *)
(* launch has a run, every Worker it starts runs that one (as long as nobody   *)
(* deletes state.json) and judges it by the prompt it was started with (even   *)
(* then).                                                                      *)
THEOREM RestartKeepsTheRun == Spec => []RestartContinuesRun
<1> DEFINE Inv == (losses = 0 => Newest) /\ OwnInv /\ PromptInv
<1>1. Init => Inv
  <2> SUFFICES ASSUME Init PROVE Inv
    OBVIOUS
  <2>1. (losses = 0 => Newest) /\ OwnInv
    BY DEF Init, Newest, OwnInv, NoState
  <2>2. PromptInv
    BY DEF Init, PromptInv
  <2> QED
    BY <2>1, <2>2
<1>2. RunInv /\ Inv /\ [Next]_vars => Inv'
  BY LossesStay, StepNewest, NextOwnInv, NextPromptInv
<1>3. RunInv /\ Inv => RestartContinuesRun
  <2> SUFFICES ASSUME RunInv, Inv PROVE RestartContinuesRun
    OBVIOUS
  <2>1. losses = 0 /\ pc \in {"backup", "running"} => mem.run = own
    BY DEF OwnInv
  <2>2. pc = "running" /\ mem.run >= first => begun[mem.run].prompt = command.prompt
    BY RunNumbers DEF PromptInv
  <2>3. pc = "running" /\ mem.run >= first /\ command.file => bound.prompt = command.prompt
    BY DEF PromptInv
  <2> QED
    BY <2>1, <2>2, <2>3 DEF RestartContinuesRun
<1> HIDE DEF Inv
<1> QED
  BY <1>1, <1>2, <1>3, LaunchInvariant, PTL DEF Spec

--------------------------------------------------------------------------
(* Why a restored backup is recent: a save makes the backup lag by one, the    *)
(* backup that follows brings it up to date, and between the two only an error, *)
(* a crash or the end of the launch can come.                                  *)
Interrupts == launches + crashes + errors
Slack == IF pc = "backup" \/ sup = "idle" THEN 0 ELSE 1

(* state.json and its backup never know more than was saved, and the backup    *)
(* never more than the state of the same run.                                  *)
OrderInv ==
  /\ sup # "idle" => launches >= 1
  /\ sup # "waiting" => pc = "off"
  /\ \A s \in {state, backup} : s # NoState => s.progress <= saved[s.run] /\ launches >= 1
  /\ state.run = backup.run /\ state # NoState => backup.progress <= state.progress
  /\ pc \in {"finalize", "backup", "running"} => mem.progress <= saved[mem.run]
  /\ pc \in {"finalize", "backup"} => mem.progress = saved[mem.run]
  /\ pc \in {"finalize", "backup", "running"} /\ backup.run = mem.run =>
       backup.progress <= mem.progress
  /\ pc = "finalize" => mem.progress = 0
  /\ pc = "backup" => state \in {mem, NoState}

LagInv ==
  /\ state # NoState => saved[state.run] + 1 <= state.progress + Interrupts
  /\ backup # NoState => saved[backup.run] + Slack <= backup.progress + Interrupts

(* One more interruption pays for one more save. *)
LEMMA SlackIsPaid ==
  ASSUME NEW i \in Nat, NEW j \in Nat, NEW a \in {0, 1}, NEW b \in {0, 1},
         j >= i, b = 1 /\ a = 0 => j > i
  PROVE  i + b <= j + a
OBVIOUS

(* A step that keeps the files, the history and what runs keeps both, as long  *)
(* as a save whose backup is missing is paid for.                              *)
LEMMA SameLag ==
  ASSUME RunInv, OrderInv, LagInv, UNCHANGED <<backup, saved>>, state' \in {state, NoState},
         pc' \notin {"finalize", "backup", "running"},
         {launches', crashes', errors'} \subseteq Nat,
         launches' >= launches, Interrupts' >= Interrupts,
         sup' # "idle" => launches' >= 1, sup' # "waiting" => pc' = "off",
         sup' # "idle" /\ (sup = "idle" \/ pc = "backup") => Interrupts' > Interrupts
  PROVE  OrderInv' /\ LagInv'
<1>1. /\ {launches, crashes, errors} \subseteq Nat
      /\ state \in SavedState /\ backup \in SavedState
      /\ state # NoState => saved[state.run] \in Nat
      /\ backup # NoState => saved[backup.run] \in Nat
  BY RunNumbers, ElementOfSeq DEF RunInv, TypeOK, FilesTyped, CountsTyped
<1>2. OrderInv'
  BY <1>1 DEF OrderInv, SavedState, NoState
<1>3. LagInv'
  <2>1. Interrupts \in Nat /\ Interrupts' \in Nat /\ Slack \in {0, 1}
    BY <1>1 DEF Interrupts, Slack
  <2>2. Slack' \in {0, 1} /\ Interrupts + Slack' <= Interrupts' + Slack
    <3>1. Slack' \in {0, 1} /\ (Slack' = 1 /\ Slack = 0 => Interrupts' > Interrupts)
      BY DEF Slack
    <3> QED
      BY <2>1, <3>1, SlackIsPaid
  <2>3. state # NoState => saved[state.run] + 1 <= state.progress + Interrupts'
    <3> SUFFICES ASSUME state # NoState
                 PROVE  saved[state.run] + 1 <= state.progress + Interrupts'
      OBVIOUS
    <3>1. saved[state.run] + 1 <= state.progress + Interrupts
      BY DEF LagInv
    <3>2. saved[state.run] \in Nat /\ state.progress \in Nat
      BY <1>1 DEF SavedState
    <3> QED
      BY <2>1, <3>1, <3>2
  <2>4. backup # NoState => saved[backup.run] + Slack' <= backup.progress + Interrupts'
    <3> SUFFICES ASSUME backup # NoState
                 PROVE  saved[backup.run] + Slack' <= backup.progress + Interrupts'
      OBVIOUS
    <3>1. saved[backup.run] + Slack <= backup.progress + Interrupts
      BY DEF LagInv
    <3>2. saved[backup.run] \in Nat /\ backup.progress \in Nat
      BY <1>1 DEF SavedState
    <3> QED
      BY <2>1, <2>2, <3>1, <3>2
  <2> QED
    BY <2>3, <2>4 DEF LagInv
<1> QED
  BY <1>2, <1>3

(* Saving the progress of the run the Worker has makes the backup lag by at    *)
(* most one more.                                                              *)
LEMMA SaveLag ==
  ASSUME RunInv, OrderInv, LagInv, sup = "waiting", pc \in {"finalize", "running"}, NEW s,
         s \in SavedState, s.run = mem.run, s # NoState,
         \/ s.progress = mem.progress /\ pc = "finalize"
         \/ s.progress = mem.progress + 1 /\ pc = "running",
         SavePrimary(s), UNCHANGED <<backup, sup, launches, crashes, errors>>
  PROVE  OrderInv' /\ LagInv'
<1>1. /\ {launches, crashes, errors} \subseteq Nat
      /\ mem \in SavedState /\ backup \in SavedState /\ saved \in Seq(Nat)
      /\ mem.run \in DOMAIN saved
      /\ backup # NoState => backup.run \in DOMAIN saved
  BY RunNumbers DEF RunInv, TypeOK, FilesTyped, CountsTyped
<1>2. /\ saved[mem.run] \in Nat
      /\ backup # NoState => saved[backup.run] \in Nat
      /\ launches >= 1
  BY <1>1, ElementOfSeq DEF OrderInv
<1>3. /\ state' = s /\ mem' = s /\ pc' = "backup"
      /\ saved' = [saved EXCEPT ![s.run] = s.progress]
  BY DEF SavePrimary
<1>4. /\ s.progress \in Nat /\ saved'[s.run] = s.progress
      /\ backup # NoState /\ backup.run # s.run => saved'[backup.run] = saved[backup.run]
      /\ backup.progress \in Nat /\ mem.progress \in Nat
  BY <1>1, <1>3 DEF SavedState
<1>5. mem.progress <= s.progress /\ s.progress <= saved[mem.run] + 1
  <2>1. mem.progress <= saved[mem.run]
    BY DEF OrderInv
  <2>2. s.progress \in {mem.progress, mem.progress + 1}
    OBVIOUS
  <2> QED
    BY <1>2, <1>4, <2>1, <2>2
<1>6. backup.run = s.run => backup.progress <= s.progress
  BY <1>1, <1>4, <1>5, SMTT(30) DEF OrderInv
<1>7. OrderInv'
  BY <1>1, <1>2, <1>3, <1>4, <1>5, <1>6 DEF OrderInv
<1>8. Slack = 1 /\ Slack' = 0 /\ Interrupts' = Interrupts /\ Interrupts \in Nat /\ Interrupts >= 1
  BY <1>1, <1>2, <1>3 DEF Slack, Interrupts
<1>9. state' # NoState => saved'[state'.run] + 1 <= state'.progress + Interrupts'
  BY <1>3, <1>4, <1>8
<1>10. backup' # NoState => saved'[backup'.run] + Slack' <= backup'.progress + Interrupts'
  <2> SUFFICES ASSUME backup # NoState
               PROVE  saved'[backup.run] <= backup.progress + Interrupts
    <3>1. backup' = backup /\ (backup # NoState => saved'[backup.run] \in Nat)
      BY <1>2, <1>4
    <3> QED
      BY <1>4, <1>8, <3>1
  <2>1. saved[backup.run] + 1 <= backup.progress + Interrupts
    BY <1>8 DEF LagInv
  <2>2. CASE backup.run # s.run
    BY <1>2, <1>4, <1>8, <2>1, <2>2
  <2>3. CASE backup.run = s.run
    BY <1>2, <1>4, <1>5, <1>8, <2>1, <2>3
  <2> QED
    BY <2>2, <2>3
<1> QED
  BY <1>7, <1>9, <1>10 DEF LagInv

(* If the backup is always written, every step keeps both. *)
LEMMA NextLagInv ==
  ASSUME ~BackupMayFail, RunInv, OrderInv, LagInv, [Next]_vars
  PROVE  OrderInv' /\ LagInv'
<1>0. /\ launches \in Nat /\ crashes \in Nat /\ errors \in Nat
      /\ state \in SavedState /\ backup \in SavedState /\ mem \in SavedState /\ saved \in Seq(Nat)
      /\ \A s \in {state, backup, mem} : s # NoState => s.run \in DOMAIN saved /\ saved[s.run] \in Nat
      /\ pc \in {"finalize", "backup", "running"} => mem # NoState
  BY RunNumbers, ElementOfSeq DEF RunInv, TypeOK, FilesTyped, CountsTyped
<1> USE DEF Interrupts
<1>1. CASE UNCHANGED vars \/ RequestStop \/ AllLaunched
  <2>1. UNCHANGED <<state, backup, mem, saved, pc, sup, launches, crashes, errors>>
    BY <1>1 DEF vars, RequestStop, AllLaunched, files, worker, trace, counts
  <2> QED
    BY <2>1 DEF OrderInv, LagInv, Slack
<1>2. CASE Launch
  <2>1. /\ UNCHANGED <<state, backup, saved, crashes, errors, pc>> /\ launches' = launches + 1
        /\ sup = "idle" /\ sup' = "starting"
    BY <1>2 DEF Launch, files, worker
  <2>2. pc = "off"
    BY <2>1 DEF OrderInv
  <2> QED
    BY <1>0, <2>1, <2>2, SameLag
<1>3. CASE Supervise
  <2>1. /\ UNCHANGED <<state, backup, saved, launches, crashes, errors>>
        /\ sup # "idle" /\ pc' \in {"resources", "off"}
        /\ sup' # "waiting" => pc' = "off"
        /\ sup' # "idle" => pc # "backup"
    BY <1>3 DEF Supervise, Starting, Restart, Spawn, ReapFinal, ReapCrash, Stop, Finished, files,
                trace, counts, OrderInv
  <2>2. launches >= 1
    BY <2>1 DEF OrderInv
  <2> QED
    BY <1>0, <2>1, <2>2, SameLag
<1>4. CASE Recover \/ Crash
  <2>1. /\ UNCHANGED <<state, backup, saved, launches, sup>> /\ sup = "waiting"
        /\ pc' \in {"resources", "exited"}
        /\ (crashes' = crashes + 1 /\ errors' = errors) \/ (crashes' = crashes /\ errors' = errors + 1)
    BY <1>4 DEF Recover, Crash, WorkerStep, Exit, files, trace
  <2>2. launches >= 1
    BY <2>1 DEF OrderInv
  <2>3. {launches', crashes', errors'} \subseteq Nat /\ Interrupts' > Interrupts
    BY <1>0, <2>1
  <2>4. Interrupts' >= Interrupts /\ launches' >= launches
    BY <1>0, <2>1
  <2> HIDE DEF Interrupts
  <2> QED
    BY <1>0, <2>1, <2>2, <2>3, <2>4, SameLag
<1>5. CASE LosePrimary
  <2>1. /\ UNCHANGED <<backup, mem, saved, pc, sup, launches, crashes, errors>> /\ state' = NoState
    BY <1>5 DEF LosePrimary, worker, trace
  <2> QED
    BY <2>1 DEF OrderInv, LagInv, Slack
<1>6. CASE BindResources \/ BindSnapshot \/ RefuseNew \/ Return
  <2>1. /\ UNCHANGED <<state, backup, saved, launches, crashes, errors, sup>> /\ sup = "waiting"
        /\ pc' \in {"snapshot", "state", "exited"} /\ pc # "backup"
    BY <1>6 DEF BindResources, BindSnapshot, RefuseNew, Return, WorkerStep, Exit, files, trace,
                counts
  <2>2. launches >= 1
    BY <2>1 DEF OrderInv
  <2> QED
    BY <1>0, <2>1, <2>2, SameLag
<1>7. CASE CreateState
  <2> DEFINE r == Len(begun) + 1
  <2>1. /\ UNCHANGED <<state, backup, sup, launches, crashes, errors>> /\ sup = "waiting"
        /\ pc = "state" /\ pc' = "finalize"
        /\ mem'.run = r /\ mem'.progress = 0 /\ saved' = Append(saved, 0)
    BY <1>7 DEF CreateState, WorkerStep, NewState, files, counts
  <2>2. /\ saved'[r] = 0 /\ \A i \in DOMAIN saved : saved'[i] = saved[i]
        /\ backup.run < r
    BY <1>0, <2>1, RunNumbers, AppendKeeps, LenProperties DEF RunInv
  <2>3. backup.run \in Nat /\ r \in Nat
    BY RunNumbers
  <2> HIDE DEF r
  <2>4. backup.run # mem'.run
    BY <2>1, <2>2, <2>3
  <2>5. /\ state # NoState => saved'[state.run] = saved[state.run]
        /\ backup # NoState => saved'[backup.run] = saved[backup.run]
    BY <1>0, <2>2
  <2>6. OrderInv'
    <3>1. \A x \in {state', backup'} :
            x # NoState => x.progress <= saved'[x.run] /\ launches' >= 1
      BY <2>1, <2>5 DEF OrderInv
    <3>2. mem'.progress <= saved'[mem'.run] /\ mem'.progress = saved'[mem'.run]
      <4>1. saved'[mem'.run] = 0 /\ mem'.progress = 0
        BY <2>1, <2>2
      <4> QED
        BY <4>1
    <3> QED
      BY <2>1, <2>4, <3>1, <3>2 DEF OrderInv
  <2>7. LagInv'
    BY <2>1, <2>5 DEF LagInv, Slack
  <2> QED
    BY <2>6, <2>7
<1>8. CASE LoadState
  <2>1. /\ UNCHANGED <<backup, saved, sup, launches, crashes, errors>> /\ sup = "waiting"
        /\ pc = "state" /\ state' = Loaded
        /\ \/ pc' = "exited"
           \/ pc' = "running" /\ mem' = Loaded /\ Loaded # NoState
    BY <1>8 DEF LoadState, WorkerStep, Exit, counts
  <2>2. Slack = 1 /\ Slack' = 1
    BY <2>1 DEF Slack
  <2>3. CASE state # NoState
    <3>1. Loaded = state
      BY <2>3 DEF Loaded
    <3> QED
      BY <2>1, <2>2, <2>3, <3>1 DEF OrderInv, LagInv
  <2>4. CASE state = NoState
    <3>1. Loaded = backup /\ backup.progress \in Nat
      BY <1>0, <2>4 DEF Loaded, SavedState
    <3> QED
      BY <1>0, <2>1, <2>2, <3>1, SMTT(30) DEF OrderInv, LagInv
  <2> QED
    BY <2>3, <2>4
<1>9. CASE FirstSave
  <2>1. /\ sup = "waiting" /\ pc = "finalize" /\ SavePrimary(mem)
        /\ UNCHANGED <<backup, sup, launches, crashes, errors>>
    BY <1>9 DEF FirstSave, WorkerStep, counts
  <2> QED
    BY <1>0, <2>1, SaveLag
<1>10. CASE SaveBackup
  <2>1. /\ UNCHANGED <<state, mem, saved, sup, launches, crashes, errors>> /\ sup = "waiting"
        /\ pc = "backup" /\ pc' = "running" /\ backup' = mem
    BY <1>10 DEF SaveBackup, Saved, WorkerStep, trace, counts
  <2>2. launches >= 1 /\ saved[mem.run] = mem.progress /\ mem.progress \in Nat
    BY <1>0, <2>1 DEF OrderInv, SavedState
  <2>3. state # NoState /\ state.run = mem.run => mem.progress <= state.progress
    BY <2>1, <2>2 DEF OrderInv
  <2>4. OrderInv'
    BY <2>1, <2>2, <2>3 DEF OrderInv
  <2>5. Slack' = 1 /\ Interrupts \in Nat /\ Interrupts >= 1
    BY <1>0, <2>1, <2>2 DEF Slack
  <2>6. LagInv'
    BY <2>1, <2>2, <2>5 DEF LagInv
  <2> QED
    BY <2>4, <2>6
<1>11. CASE Advance
  <2> DEFINE s == [mem EXCEPT !.progress = mem.progress + 1]
  <2>1. /\ sup = "waiting" /\ pc = "running" /\ SavePrimary(s)
        /\ UNCHANGED <<backup, sup, launches, crashes, errors>>
    BY <1>11 DEF Advance, WorkerStep, counts
  <2>2. s \in SavedState /\ s.run = mem.run /\ s.progress = mem.progress + 1
    <3>1. mem.progress + 1 \in Nat
      BY <1>0 DEF SavedState
    <3> QED
      BY <1>0, <3>1 DEF SavedState
  <2>3. s # NoState
    BY <1>0, <2>1, <2>2, RunNumbers DEF NoState
  <2> HIDE DEF s
  <2> QED
    BY <2>1, <2>2, <2>3, SaveLag
<1> QED
  BY <1>1, <1>2, <1>3, <1>4, <1>5, <1>6, <1>7, <1>8, <1>9, <1>10, <1>11 DEF Next, Work

(* If every backup is written, a backup that is restored lacks at most one save *)
(* for each launch, crash and error there has been, however often state.json is *)
(* deleted.  (One that OSError kept from being written may lack any number.)    *)
THEOREM RestoredBackupIsRecent ==
  ASSUME ~BackupMayFail
  PROVE  Spec => []RestoredIsRecent
<1> DEFINE Inv == OrderInv /\ LagInv
<1>1. Init => Inv
  <2> SUFFICES ASSUME Init PROVE Inv
    OBVIOUS
  <2> QED
    BY DEF Init, OrderInv, LagInv
<1>2. RunInv /\ Inv /\ [Next]_vars => Inv'
  BY NextLagInv
<1>3. RunInv /\ Inv => RestoredIsRecent
  <2> SUFFICES ASSUME RunInv, Inv, state # NoState
               PROVE  saved[state.run] + 1 <= state.progress + launches + crashes + errors
    BY DEF RestoredIsRecent
  <2>1. saved[state.run] \in Nat /\ state.progress \in Nat /\ {launches, crashes, errors} \subseteq Nat
    BY RunNumbers, ElementOfSeq DEF SavedState, RunInv, TypeOK, CountsTyped
  <2> QED
    BY <2>1 DEF LagInv, Interrupts
<1> HIDE DEF Inv
<1> QED
  BY <1>1, <1>2, <1>3, LaunchInvariant, PTL DEF Spec
=============================================================================
