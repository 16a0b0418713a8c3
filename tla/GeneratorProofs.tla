---------------------------- MODULE GeneratorProofs ----------------------------
(* Theorems about generated Workflows and checks of them: whatever polls,         *)
(* requests and the Builder's own writes put over each other, a Builder at work   *)
(* keeps its job (WorkflowGenerator); and what the closure matrix says of a       *)
(* Workflow is so (DryRun).  The inductions over the naturals are those of          *)
(* WorkflowTextProofs.                                                            *)
EXTENDS WorkflowGenerator, DryRun, WorkflowTextProofs

(***************************************************************************)
(* WorkflowGenerator: the job of a Builder at work is the active one.         *)
(***************************************************************************)

Queued == [NoStatus EXCEPT !.state = "queued"]

(* What a Builder at work can rely on.  A status that is old, or a copy that was  *)
(* read when it was, has the process id, so that a poll finds the Builder alive;  *)
(* the id is missing only while the request that started the Builder has yet to   *)
(* record it, and a request to cancel has read it.                               *)
BuilderOK(j) ==
  Working(j) =>
    /\ active = j /\ j \in dir /\ status[j].state \in Going
    /\ status[j].pid \/ (at = "pid" /\ job = j /\ ~status[j].old)
    /\ at = "cancel" /\ job = j => read.pid
    /\ poll = j => polled.state \in Going /\ (polled.old => polled.pid)

(* A request that starts a Builder: nothing happened to its job yet. *)
StartOK ==
  /\ at \in {"popen", "pid"} => active = job /\ read = Queued
  /\ at = "popen" =>
       /\ job \in dir /\ builder[job] = "none" /\ status[job] = Queued
       /\ poll = job => polled = Queued
  /\ at \in {"popen", "pid", "cancel", "save"} => job \in Job

(* Nobody knows of a job that is not there yet. *)
NumbersOK ==
  /\ jobs \in 0 .. MaxJobs /\ poll <= jobs
  /\ \A j \in dir : j <= jobs
  /\ at \in {"popen", "pid", "cancel", "save"} => job <= jobs
  /\ \A j \in Job : j > jobs => builder[j] = "none"

GeneratorInv == TypeOK /\ StartOK /\ NumbersOK /\ \A j \in Job : BuilderOK(j)

--------------------------------------------------------------------------
LEMMA StatusFacts ==
  /\ NoStatus \in Status /\ Queued \in Status /\ Queued.state = "queued" /\ Queued.pid = FALSE /\ Queued.old = FALSE
  /\ \A s \in Status : [s EXCEPT !.old = FALSE] \in Status
  /\ \A s \in Status : \A j : Checked(j, s) \in Status
  /\ \A s \in Status : s.state \in {"none"} \cup Going \cup Terminal /\ s.pid \in BOOLEAN /\ s.old \in BOOLEAN
<1>1. NoStatus \in Status /\ Queued \in Status /\ Queued.state = "queued" /\ Queued.pid = FALSE /\ Queued.old = FALSE
  BY DEF NoStatus, Queued, Status, Going
<1>2. \A s \in Status : [s EXCEPT !.old = FALSE] \in Status
  BY DEF Status
<1>3. ASSUME NEW s \in Status, NEW j
      PROVE  Checked(j, s) \in Status
  <2>1. Settled(s) \in Status
    BY DEF Status, Settled, Terminal
  <2>2. PICK t : t = IF Stale(j, s) THEN Settled(s) ELSE s
    OBVIOUS
  <2>3. t \in Status
    BY <2>1, <2>2
  <2>4. Checked(j, s) = IF t.state \in Terminal THEN [t EXCEPT !.cleared = TRUE] ELSE t
    BY <2>2 DEF Checked
  <2> QED
    BY <2>3, <2>4 DEF Status
<1>4. \A s \in Status : s.state \in {"none"} \cup Going \cup Terminal /\ s.pid \in BOOLEAN /\ s.old \in BOOLEAN
  BY DEF Status
<1> QED
  BY <1>1, <1>2, <1>3, <1>4

LEMMA StateFacts ==
  Going \cap Terminal = {} /\ {"queued", "running", "cancelling"} \subseteq Going
  /\ {"ready", "failed", "cancelled"} \subseteq Terminal /\ "cancelled" \notin Going /\ "none" \notin Going
BY DEF Going, Terminal

(* A status that is going and, if it is old, of a Builder that is alive, is left  *)
(* alone by a poll.                                                             *)
LEMMA CheckedStays ==
  ASSUME NEW j, NEW s \in Status, s.state \in Going, s.old => s.pid /\ Working(j)
  PROVE  Checked(j, s) = s
<1>1. ~Stale(j, s)
  BY DEF Stale, Alive
<1> QED
  BY <1>1, StateFacts DEF Checked

LEMMA GeneratorInit == Init => GeneratorInv
BY StatusFacts, GeneratorAssumption
   DEF Init, GeneratorInv, TypeOK, StartOK, NumbersOK, BuilderOK, Working, Job

--------------------------------------------------------------------------
(* What a write of the status of j keeps. *)
LEMMA WriteTypes ==
  ASSUME TypeOK, NEW j \in Job, NEW s \in Status, Write(j, s)
  PROVE  /\ status' \in [Job -> Status] /\ dir' \subseteq Job
         /\ status'[j] = [s EXCEPT !.old = FALSE] /\ dir' = dir \cup {j}
         /\ \A i \in Job : i # j => status'[i] = status[i]
BY StatusFacts DEF Write, TypeOK

LEMMA PollsKeep == GeneratorInv /\ (BeginPoll \/ EndPoll) => GeneratorInv'
<1> SUFFICES ASSUME GeneratorInv, BeginPoll \/ EndPoll PROVE GeneratorInv'
  OBVIOUS
<1> USE DEF ui, counts, polling
<1>1. CASE BeginPoll
  <2>1. PICK j \in dir : poll' = j /\ polled' = status[j]
    BY <1>1 DEF BeginPoll
  <2>2. UNCHANGED <<active, dir, status, cancel, stop, builder, runner, ui, counts>>
    BY <1>1 DEF BeginPoll
  <2>3. TypeOK'
    BY <2>1, <2>2 DEF GeneratorInv, TypeOK, Job
  <2>4. StartOK' /\ NumbersOK'
    BY <2>1, <2>2 DEF GeneratorInv, StartOK, NumbersOK
  <2>5. ASSUME NEW i \in Job
        PROVE  BuilderOK(i)'
    BY <2>1, <2>2 DEF GeneratorInv, BuilderOK, Working
  <2> QED
    BY <2>3, <2>4, <2>5 DEF GeneratorInv
<1>2. CASE EndPoll
  <2>1. /\ UNCHANGED <<active, cancel, stop, builder, runner, ui, counts>> /\ poll # 0
        /\ poll' = 0 /\ polled' = NoStatus /\ poll \in Job
    BY <1>2, GeneratorAssumption DEF EndPoll, GeneratorInv, TypeOK, Job
  <2>2. CASE Checked(poll, polled) = polled
    <3>1. UNCHANGED <<status, dir>>
      BY <1>2, <2>2 DEF EndPoll
    <3>2. TypeOK'
      BY <2>1, <3>1, StatusFacts, GeneratorAssumption DEF GeneratorInv, TypeOK
    <3>3. StartOK' /\ NumbersOK'
      BY <2>1, <3>1, GeneratorAssumption DEF GeneratorInv, StartOK, NumbersOK, Job
    <3>4. ASSUME NEW i \in Job
          PROVE  BuilderOK(i)'
      BY <2>1, <3>1 DEF GeneratorInv, BuilderOK, Working, Job
    <3> QED
      BY <3>2, <3>3, <3>4 DEF GeneratorInv
  <2>3. CASE Checked(poll, polled) # polled
    <3>1. Write(poll, Checked(poll, polled)) /\ Checked(poll, polled) \in Status /\ polled \in Status
      BY <1>2, <2>3, StatusFacts DEF EndPoll, GeneratorInv, TypeOK
    <3>2. /\ status' \in [Job -> Status] /\ dir' \subseteq Job /\ dir' = dir \cup {poll}
          /\ \A i \in Job : i # poll => status'[i] = status[i]
      BY <2>1, <3>1, WriteTypes DEF GeneratorInv
    <3>3. ~Working(poll)
      BY <2>1, <2>3, <3>1, CheckedStays DEF GeneratorInv, BuilderOK
    <3>4. at = "popen" => poll # job
      BY <2>3, <3>1, CheckedStays, StatusFacts, StateFacts DEF GeneratorInv, StartOK
    <3>5. TypeOK'
      BY <2>1, <3>2, StatusFacts, GeneratorAssumption DEF GeneratorInv, TypeOK
    <3>6. StartOK' /\ NumbersOK'
      BY <2>1, <3>2, <3>4, GeneratorAssumption DEF GeneratorInv, StartOK, NumbersOK, Job
    <3>7. ASSUME NEW i \in Job
          PROVE  BuilderOK(i)'
      <4>1. CASE i = poll
        BY <2>1, <3>3, <4>1 DEF BuilderOK, Working
      <4>2. CASE i # poll
        BY <2>1, <3>2, <4>2 DEF GeneratorInv, BuilderOK, Working, Job
      <4> QED
        BY <4>1, <4>2
    <3> QED
      BY <3>5, <3>6, <3>7 DEF GeneratorInv
  <2> QED
    BY <2>2, <2>3
<1> QED
  BY <1>1, <1>2

(* When a new job may be generated, or the active one is forgotten, no Builder    *)
(* is at work.                                                                  *)
LEMMA NobodyWorks ==
  ASSUME GeneratorInv, at = "idle", Leftover
  PROVE  \A j \in Job : ~Working(j)
<1> SUFFICES ASSUME NEW j \in Job, Working(j)
             PROVE  FALSE
  OBVIOUS
<1>1. active = j /\ status[j].state \in Going /\ status[j].pid /\ status[j] \in Status
  BY DEF GeneratorInv, BuilderOK, TypeOK
<1>2. Checked(j, status[j]) = status[j]
  BY <1>1, CheckedStays
<1> QED
  BY <1>1, <1>2, StateFacts DEF Leftover

LEMMA GenerateKeeps == GeneratorInv /\ Generate => GeneratorInv'
<1> SUFFICES ASSUME GeneratorInv, Generate PROVE GeneratorInv'
  OBVIOUS
<1> USE DEF ui, counts, polling
<1>1. /\ jobs' = jobs + 1 /\ jobs < MaxJobs /\ dir' = {jobs'}
      /\ status' = [j \in Job |-> IF j = jobs' THEN Queued ELSE NoStatus]
      /\ cancel' = {} /\ stop' = {} /\ active' = jobs' /\ at' = "popen" /\ job' = jobs'
      /\ read' = status'[jobs']
      /\ UNCHANGED <<builder, runner, polling, cancels, deaths>>
  BY DEF Generate, Queued
<1>2. \A j \in Job : ~Working(j)
  BY NobodyWorks DEF Generate
<1>3. jobs \in 0 .. MaxJobs /\ jobs' \in Job /\ jobs' > jobs /\ poll <= jobs /\ poll \in 0 .. MaxJobs
  BY <1>1, GeneratorAssumption DEF GeneratorInv, TypeOK, NumbersOK, Job
<1>4. status'[jobs'] = Queued /\ read' = Queued /\ builder[jobs'] = "none" /\ poll # jobs'
  BY <1>1, <1>3, GeneratorAssumption DEF GeneratorInv, NumbersOK, Job
<1>5. status' \in [Job -> Status]
  BY <1>1, StatusFacts
<1>6. TypeOK'
  BY <1>1, <1>3, <1>4, <1>5, StatusFacts DEF GeneratorInv, TypeOK, Job
<1>7. StartOK'
  BY <1>1, <1>3, <1>4 DEF StartOK
<1>8. NumbersOK'
  BY <1>1, <1>3, GeneratorAssumption DEF GeneratorInv, NumbersOK, Job
<1>9. \A j \in Job : BuilderOK(j)'
  BY <1>1, <1>2 DEF BuilderOK, Working
<1> QED
  BY <1>6, <1>7, <1>8, <1>9 DEF GeneratorInv

LEMMA PopenKeeps == GeneratorInv /\ Popen => GeneratorInv'
<1> SUFFICES ASSUME GeneratorInv, Popen PROVE GeneratorInv'
  OBVIOUS
<1> USE DEF ui, counts, polling
<1>1. /\ at = "popen" /\ UNCHANGED <<active, cancel, stop, runner, job, read, polling, counts>>
      /\ job \in Job /\ job \in dir /\ active = job /\ status[job] = Queued /\ builder[job] = "none" /\ read = Queued
      /\ poll = job => polled = Queued
  BY DEF Popen, GeneratorInv, StartOK
<1>2. \A i \in Job : i # job => ~Working(i)
  BY <1>1 DEF GeneratorInv, BuilderOK
<1>3. CASE builder' = [builder EXCEPT ![job] = "started"] /\ at' = "pid" /\ UNCHANGED <<status, dir>>
  <2>1. TypeOK' /\ StartOK' /\ NumbersOK'
    BY <1>1, <1>3 DEF GeneratorInv, TypeOK, StartOK, NumbersOK
  <2>2. ASSUME NEW i \in Job
        PROVE  BuilderOK(i)'
    <3>1. CASE i = job
      BY <1>1, <1>3, <3>1, StatusFacts, StateFacts DEF BuilderOK
    <3>2. CASE i # job
      BY <1>2, <1>3, <3>2 DEF GeneratorInv, TypeOK, BuilderOK, Working
    <3> QED
      BY <3>1, <3>2
  <2> QED
    BY <2>1, <2>2 DEF GeneratorInv
<1>4. CASE Write(job, [read EXCEPT !.state = "failed"]) /\ at' = "idle" /\ UNCHANGED builder
  <2>1. [read EXCEPT !.state = "failed"] \in Status
    BY <1>1, StatusFacts DEF Status, Terminal
  <2>2. /\ status' \in [Job -> Status] /\ dir' \subseteq Job /\ dir' = dir \cup {job}
    BY <1>1, <1>4, <2>1, WriteTypes DEF GeneratorInv
  <2>3. TypeOK' /\ StartOK' /\ NumbersOK'
    BY <1>1, <1>4, <2>2 DEF GeneratorInv, TypeOK, StartOK, NumbersOK
  <2>4. \A i \in Job : BuilderOK(i)'
    BY <1>1, <1>2, <1>4 DEF BuilderOK, Working
  <2> QED
    BY <2>3, <2>4 DEF GeneratorInv
<1> QED
  BY <1>3, <1>4 DEF Popen

LEMMA RecordPidKeeps == GeneratorInv /\ RecordPid => GeneratorInv'
<1> SUFFICES ASSUME GeneratorInv, RecordPid PROVE GeneratorInv'
  OBVIOUS
<1> USE DEF ui, counts, polling
<1>1. /\ at = "pid" /\ at' = "idle" /\ UNCHANGED <<active, cancel, stop, builder, runner, job, read, polling, counts>>
      /\ job \in Job /\ read = Queued /\ job <= jobs /\ Write(job, [read EXCEPT !.pid = TRUE])
  BY DEF RecordPid, GeneratorInv, StartOK, NumbersOK
<1>2. [read EXCEPT !.pid = TRUE] \in Status
  BY <1>1, StatusFacts DEF Status
<1>3. /\ status' \in [Job -> Status] /\ dir' \subseteq Job /\ dir' = dir \cup {job}
      /\ status'[job] = [[read EXCEPT !.pid = TRUE] EXCEPT !.old = FALSE]
      /\ \A i \in Job : i # job => status'[i] = status[i]
  BY <1>1, <1>2, WriteTypes DEF GeneratorInv
<1>4. status'[job].state \in Going /\ status'[job].pid
  BY <1>1, <1>3, StateFacts DEF Queued, NoStatus
<1>5. TypeOK' /\ StartOK' /\ NumbersOK'
  BY <1>1, <1>3 DEF GeneratorInv, TypeOK, StartOK, NumbersOK
<1>6. \A i \in Job : BuilderOK(i)'
  BY <1>1, <1>3, <1>4 DEF GeneratorInv, BuilderOK, Working
<1> QED
  BY <1>5, <1>6 DEF GeneratorInv

LEMMA CancelKeeps == GeneratorInv /\ (BeginCancel \/ EndCancel) => GeneratorInv'
<1> SUFFICES ASSUME GeneratorInv, BeginCancel \/ EndCancel PROVE GeneratorInv'
  OBVIOUS
<1> USE DEF ui, counts, polling
<1>1. CASE BeginCancel
  <2>1. PICK j \in dir : /\ job' = j /\ read' = status[j]
                         /\ cancel' = cancel \cup {j} /\ stop' = stop \cup {j}
    BY <1>1 DEF BeginCancel
  <2>2. /\ at = "idle" /\ at' = "cancel" /\ j \in Job
        /\ UNCHANGED <<active, dir, status, builder, runner, polling, jobs, deaths>>
    BY <1>1 DEF BeginCancel, GeneratorInv, TypeOK
  <2>3. TypeOK' /\ StartOK' /\ NumbersOK'
    BY <2>1, <2>2 DEF GeneratorInv, TypeOK, StartOK, NumbersOK, Job
  <2>4. \A i \in Job : BuilderOK(i)'
    BY <2>1, <2>2 DEF GeneratorInv, BuilderOK, Working
  <2> QED
    BY <2>3, <2>4 DEF GeneratorInv
<1>2. CASE EndCancel
  <2>1. /\ at = "cancel" /\ at' = "idle" /\ job \in Job /\ job <= jobs
        /\ Write(job, [read EXCEPT !.state = "cancelling"]) /\ read \in Status
        /\ UNCHANGED <<active, cancel, stop, builder, runner, job, read, polling, counts>>
    BY <1>2 DEF EndCancel, GeneratorInv, TypeOK, StartOK, NumbersOK
  <2>2. [read EXCEPT !.state = "cancelling"] \in Status
    BY <2>1 DEF Status, Going
  <2>3. /\ status' \in [Job -> Status] /\ dir' \subseteq Job /\ dir' = dir \cup {job}
        /\ status'[job] = [[read EXCEPT !.state = "cancelling"] EXCEPT !.old = FALSE]
        /\ \A i \in Job : i # job => status'[i] = status[i]
    BY <2>1, <2>2, WriteTypes DEF GeneratorInv
  <2>4. status'[job].state \in Going /\ status'[job].pid = read.pid
    BY <2>1, <2>3, StateFacts DEF Status
  <2>5. TypeOK' /\ StartOK' /\ NumbersOK'
    BY <2>1, <2>3 DEF GeneratorInv, TypeOK, StartOK, NumbersOK
  <2>6. \A i \in Job : BuilderOK(i)'
    BY <2>1, <2>3, <2>4 DEF GeneratorInv, BuilderOK, Working
  <2> QED
    BY <2>5, <2>6 DEF GeneratorInv
<1> QED
  BY <1>1, <1>2

LEMMA RemoveKeeps ==
  ASSUME GeneratorInv, at = "idle", NEW j \in Job, ~Working(j), RemoveJob(j),
         active' = (IF active = j THEN 0 ELSE active),
         UNCHANGED <<builder, runner, ui, polling, counts>>
  PROVE  GeneratorInv'
<1> USE DEF ui, counts, polling
<1>1. TypeOK'
  BY StatusFacts, GeneratorAssumption DEF GeneratorInv, TypeOK, RemoveJob
<1>2. StartOK' /\ NumbersOK'
  BY DEF GeneratorInv, StartOK, NumbersOK, RemoveJob
<1>3. \A i \in Job : BuilderOK(i)'
  BY DEF GeneratorInv, BuilderOK, Working, RemoveJob, TypeOK
<1> QED
  BY <1>1, <1>2, <1>3 DEF GeneratorInv

LEMMA RemovalsKeep == GeneratorInv /\ (Discard \/ ForgetCancelled) => GeneratorInv'
<1> SUFFICES ASSUME GeneratorInv, Discard \/ ForgetCancelled PROVE GeneratorInv'
  OBVIOUS
<1>1. CASE Discard
  <2>1. PICK j \in dir : Discardable(j) /\ RemoveJob(j) /\ active' = IF active = j THEN 0 ELSE active
    BY <1>1 DEF Discard
  <2>2. j \in Job /\ ~Working(j)
    BY <2>1 DEF GeneratorInv, TypeOK, BuilderOK, Discardable
  <2> QED
    BY <1>1, <2>1, <2>2, RemoveKeeps DEF Discard
<1>2. CASE ForgetCancelled
  <2>1. active \in Job /\ Leftover
    BY <1>2, GeneratorAssumption DEF ForgetCancelled, Leftover, GeneratorInv, TypeOK, Job
  <2>2. ~Working(active)
    BY <1>2, <2>1, NobodyWorks DEF ForgetCancelled
  <2> QED
    BY <1>2, <2>1, <2>2, RemoveKeeps DEF ForgetCancelled
<1> QED
  BY <1>1, <1>2

LEMMA SaveKeeps == GeneratorInv /\ (BeginSave \/ EndSave) => GeneratorInv'
<1> SUFFICES ASSUME GeneratorInv, BeginSave \/ EndSave PROVE GeneratorInv'
  OBVIOUS
<1> USE DEF ui, counts, polling
<1>1. /\ UNCHANGED <<active, dir, status, cancel, stop, builder, runner, read, polling, counts>>
      /\ at \in {"idle", "save"} /\ at' \in {"idle", "save"} /\ job' \in 0 .. MaxJobs
      /\ at' = "save" => job' \in Job /\ job' <= jobs
  BY GeneratorAssumption DEF BeginSave, EndSave, GeneratorInv, TypeOK, NumbersOK, StartOK, Job
<1>2. TypeOK' /\ StartOK' /\ NumbersOK'
  BY <1>1 DEF GeneratorInv, TypeOK, StartOK, NumbersOK
<1>3. \A i \in Job : BuilderOK(i)'
  BY <1>1 DEF GeneratorInv, BuilderOK, Working
<1> QED
  BY <1>2, <1>3 DEF GeneratorInv

--------------------------------------------------------------------------
(* A Builder that writes its status, and either works on or is done. *)
LEMMA BuilderWritesKeep ==
  ASSUME GeneratorInv, NEW j \in Job, Working(j), NEW s \in Going \cup Terminal, NEW phase,
         phase \in {"preparing", "waiting", "validating", "written"},
         s \in Going \/ phase = "written",
         BuilderWrites(j, s), Becomes(j, phase),
         cancel' = cancel, stop' \subseteq stop \cup {j},
         runner' \in [Job -> {"none", "running", "done", "failed", "stopped"}],
         UNCHANGED <<active, ui, polling, counts>>
  PROVE  GeneratorInv'
<1> USE DEF ui, counts, polling
<1>1. j \in dir /\ active = j /\ status[j] \in Status
  BY DEF GeneratorInv, BuilderOK, TypeOK
<1>2. PICK w : w = [status[j] EXCEPT !.state = s, !.pid = TRUE]
  OBVIOUS
<1>3. w \in Status /\ Write(j, w) /\ w.state = s /\ w.pid = TRUE
  BY <1>1, <1>2 DEF Status, BuilderWrites
<1>4. /\ status' \in [Job -> Status] /\ dir' \subseteq Job /\ dir' = dir
      /\ status'[j] = [w EXCEPT !.old = FALSE]
      /\ \A i \in Job : i # j => status'[i] = status[i]
  BY <1>1, <1>3, WriteTypes DEF GeneratorInv
<1>5. status'[j].state = s /\ status'[j].pid = TRUE
  BY <1>3, <1>4 DEF Status
<1>6. builder' = [builder EXCEPT ![j] = phase]
  BY DEF Becomes
<1>7. TypeOK'
  BY <1>4, <1>6 DEF GeneratorInv, TypeOK
<1>8. at # "popen"
  BY <1>1 DEF GeneratorInv, StartOK, Working
<1>9. StartOK' /\ NumbersOK'
  BY <1>4, <1>6, <1>8 DEF GeneratorInv, StartOK, NumbersOK, TypeOK, Working
<1>10. ASSUME NEW i \in Job
       PROVE  BuilderOK(i)'
  <2>1. CASE i # j
    BY <1>4, <1>6, <2>1 DEF GeneratorInv, BuilderOK, Working, TypeOK
  <2>2. CASE i = j
    <3>1. BuilderOK(j)
      BY DEF GeneratorInv
    <3>2. builder'[j] = phase
      BY <1>6 DEF GeneratorInv, TypeOK
    <3>3. Working(j)' => s \in Going
      BY <3>2 DEF Working
    <3> QED
      BY <1>1, <1>4, <1>5, <2>2, <3>1, <3>3 DEF BuilderOK
  <2> QED
    BY <2>1, <2>2
<1> QED
  BY <1>7, <1>9, <1>10 DEF GeneratorInv

(* A step that leaves the statuses, and starts no Builder. *)
LEMMA QuietKeeps ==
  ASSUME GeneratorInv, NEW j \in Job, TypeOK', NumbersOK',
         \A i \in Job : Working(i)' => Working(i), builder[j] # "none",
         \A i \in Job : i # j => builder'[i] = builder[i],
         UNCHANGED <<active, dir, status, ui, polling>>
  PROVE  GeneratorInv'
<1>1. StartOK'
  BY DEF GeneratorInv, StartOK, ui, polling
<1>2. \A i \in Job : BuilderOK(i)'
  BY DEF GeneratorInv, BuilderOK, ui, polling
<1> QED
  BY <1>1, <1>2 DEF GeneratorInv

LEMMA BuilderKeeps ==
  ASSUME GeneratorInv, NEW j \in Job, BuilderStep(j) \/ BuilderDies(j)
  PROVE  GeneratorInv'
<1>0. runner \in [Job -> {"none", "running", "done", "failed", "stopped"}]
  BY DEF GeneratorInv, TypeOK
<1>1. CASE Prepare(j)
  BY <1>0, <1>1, BuilderWritesKeep, StateFacts DEF Prepare, Working
<1>2. CASE StartRunner(j)
  BY <1>0, <1>2, BuilderWritesKeep, StateFacts DEF StartRunner, Working
<1>3. CASE RunnerEnds(j)
  <2>1. UNCHANGED <<active, dir, status, cancel, builder, ui, polling, counts>> /\ stop' = stop \ {j}
    BY <1>3 DEF RunnerEnds
  <2>2. runner' \in [Job -> {"none", "running", "done", "failed", "stopped"}]
    BY <1>0, <1>3 DEF RunnerEnds
  <2>3. TypeOK' /\ StartOK' /\ NumbersOK'
    BY <2>1, <2>2 DEF GeneratorInv, TypeOK, StartOK, NumbersOK, ui, polling, counts
  <2>4. \A i \in Job : BuilderOK(i)'
    BY <2>1 DEF GeneratorInv, BuilderOK, Working, ui, polling
  <2> QED
    BY <2>3, <2>4 DEF GeneratorInv
<1>4. CASE TakeCancel(j)
  BY <1>0, <1>4, BuilderWritesKeep, StateFacts DEF TakeCancel, Working
<1>5. CASE SeeRunnerEnd(j)
  BY <1>0, <1>5, BuilderWritesKeep, StateFacts DEF SeeRunnerEnd, Working
<1>6. CASE ValidateDraft(j)
  BY <1>0, <1>6, BuilderWritesKeep, StateFacts DEF ValidateDraft, Working
<1>7. CASE BuilderExits(j) \/ BuilderDies(j)
  <2>1. PICK phase \in {"over", "dead"} : builder' = [builder EXCEPT ![j] = phase]
    BY <1>7 DEF BuilderExits, BuilderDies, Becomes
  <2>2. UNCHANGED <<active, dir, status, cancel, stop, runner, ui, polling, jobs>> /\ builder[j] # "none"
    BY <1>7 DEF BuilderExits, BuilderDies, counts, Working
  <2>3. TypeOK' /\ NumbersOK'
    BY <2>1, <2>2 DEF GeneratorInv, TypeOK, NumbersOK, ui, polling
  <2>4. /\ \A i \in Job : Working(i)' => Working(i)
        /\ \A i \in Job : i # j => builder'[i] = builder[i]
    BY <2>1 DEF Working, GeneratorInv, TypeOK
  <2> QED
    BY <2>2, <2>3, <2>4, QuietKeeps
<1> QED
  BY <1>1, <1>2, <1>3, <1>4, <1>5, <1>6, <1>7 DEF BuilderStep

LEMMA AgeKeeps == GeneratorInv /\ Age => GeneratorInv'
<1> SUFFICES ASSUME GeneratorInv, Age PROVE GeneratorInv'
  OBVIOUS
<1> USE DEF ui, counts, polling
<1>1. PICK j \in dir : status' = [status EXCEPT ![j].old = TRUE]
  BY DEF Age
<1>2. /\ UNCHANGED <<active, dir, cancel, stop, builder, runner, ui, polling, counts>>
      /\ at \notin {"popen", "pid", "cancel"} /\ j \in Job /\ status[j] \in Status
  BY DEF Age, GeneratorInv, TypeOK
<1>3. status'[j] = [status[j] EXCEPT !.old = TRUE] /\ \A i \in Job : i # j => status'[i] = status[i]
  BY <1>1, <1>2 DEF GeneratorInv, TypeOK
<1>4. status'[j] \in Status /\ status'[j].state = status[j].state /\ status'[j].pid = status[j].pid
  BY <1>2, <1>3 DEF Status
<1>5. status' \in [Job -> Status]
  BY <1>1, <1>2, <1>3, <1>4 DEF GeneratorInv, TypeOK
<1>6. TypeOK' /\ StartOK' /\ NumbersOK'
  BY <1>2, <1>5 DEF GeneratorInv, TypeOK, StartOK, NumbersOK
<1>7. \A i \in Job : BuilderOK(i)'
  BY <1>2, <1>3, <1>4 DEF GeneratorInv, BuilderOK, Working
<1> QED
  BY <1>6, <1>7 DEF GeneratorInv

--------------------------------------------------------------------------
LEMMA GeneratorNext == GeneratorInv /\ [Next]_vars => GeneratorInv'
<1> SUFFICES ASSUME GeneratorInv, [Next]_vars PROVE GeneratorInv'
  OBVIOUS
<1>1. CASE UNCHANGED vars
  BY <1>1 DEF vars, ui, polling, counts, GeneratorInv, TypeOK, StartOK, NumbersOK, BuilderOK, Working
<1>2. CASE Next
  BY <1>2, PollsKeep, GenerateKeeps, PopenKeeps, RecordPidKeeps, CancelKeeps, RemovalsKeep, SaveKeeps,
     BuilderKeeps, AgeKeeps DEF Next, Serve
<1> QED
  BY <1>1, <1>2

(* For any number of jobs, cancellations and Builders that die. *)
LEMMA GeneratorInvariant == Spec => []GeneratorInv
BY GeneratorInit, GeneratorNext, PTL DEF Spec

(* The job of a Builder at work is the active one, its directory is there, and no *)
(* final status was put over it: polls that write back what they read before, and *)
(* requests that do, never do it under a Builder at work                          *)
(* (workflow_builder_state.py:143-160, 286-310).                                 *)
THEOREM WorkingJobIsActive == Spec => []BuilderIsActive
<1>1. GeneratorInv => BuilderIsActive
  BY StateFacts DEF GeneratorInv, BuilderOK, BuilderIsActive
<1> QED
  BY <1>1, GeneratorInvariant, PTL

(***************************************************************************)
(* DryRun: the search finds what can be reached, each of its cases runs as it *)
(* is named, and a Workflow that is called closed completes.                 *)
(***************************************************************************)
--------------------------------------------------------------------------
(* FlattenSeq puts the elements of its sequences one behind the other: it has each    *)
(* of them, and before an element those of the sequences before.              *)
InOrder(all, ss, n) ==
  /\ \A a \in 1 .. n : \A b \in 1 .. Len(ss[a]) : \E i \in 1 .. Len(all) : all[i] = ss[a][b]
  /\ \A i \in 1 .. Len(all) : \E a \in 1 .. n : \E b \in 1 .. Len(ss[a]) :
       /\ all[i] = ss[a][b]
       /\ \A c \in 1 .. a - 1 : \A d \in 1 .. Len(ss[c]) :
            \E j \in 1 .. i - 1 : all[j] = ss[c][d]
LEMMA FlattensInOrder ==
  ASSUME NEW E, NEW n \in Nat, NEW ss \in [1 .. n -> Seq(E)]
  PROVE  FlattenSeq(ss) \in Seq(E) /\ InOrder(FlattenSeq(ss), ss, n)
<1> DEFINE flatten[i \in 1 .. Len(ss)] == IF i = 1 THEN ss[i] ELSE flatten[i - 1] \o ss[i]
           In(t, m) == \A a \in 1 .. m : \A b \in 1 .. Len(ss[a]) : \E i \in 1 .. Len(t) : t[i] = ss[a][b]
           From(t, m) == \A i \in 1 .. Len(t) : \E a \in 1 .. m : \E b \in 1 .. Len(ss[a]) :
                           /\ t[i] = ss[a][b]
                           /\ \A c \in 1 .. a - 1 : \A d \in 1 .. Len(ss[c]) :
                                \E j \in 1 .. i - 1 : t[j] = ss[c][d]
<1>0. ss \in Seq(Seq(E)) /\ Len(ss) = n
  OBVIOUS
<1>1. CASE n = 0
  <2>1. ss = <<>> /\ FlattenSeq(ss) = <<>>
    BY <1>0, <1>1 DEF FlattenSeq
  <2>2. <<>> \in Seq(E) /\ Len(<<>>) = 0
    OBVIOUS
  <2>3. (\A a \in 1 .. n : FALSE) /\ (\A i \in 1 .. 0 : FALSE)
    BY <1>1
  <2> QED
    BY <2>1, <2>2, <2>3 DEF InOrder
<1>2. CASE n # 0
  <2> DEFINE g == [k \in Nat |-> [s \in Seq(E) |-> s \o (IF k + 1 \in 1 .. n THEN ss[k + 1] ELSE <<>>)]]
  <2>1. PICK f \in [0 .. n - 1 -> Seq(E)] :
          f[0] = ss[1] /\ \A k \in 1 .. n - 1 : f[k] = g[k][f[k - 1]]
    <3>1. g \in [Nat -> [Seq(E) -> Seq(E)]]
      OBVIOUS
    <3>2. ss[1] \in Seq(E) /\ n - 1 \in Nat
      BY <1>2
    <3> HIDE DEF g
    <3>3. Chains(Seq(E), ss[1], g, n - 1) # {}
      BY <3>1, <3>2, Iterates
    <3> QED
      BY <3>3 DEF Chains
  <2>0. ASSUME NEW k \in Nat, k + 1 \in 1 .. n, NEW s \in Seq(E) PROVE g[k][s] = s \o ss[k + 1]
    BY <2>0
  <2> HIDE DEF g
  <2> DEFINE h == [i \in 1 .. Len(ss) |-> f[i - 1]]
  <2>2. h = [i \in 1 .. Len(ss) |-> IF i = 1 THEN ss[i] ELSE h[i - 1] \o ss[i]]
    <3>1. ASSUME NEW i \in 1 .. n, i # 1 PROVE f[i - 1] = h[i - 1] \o ss[i]
      <4>1. i - 1 \in 1 .. n - 1 /\ i - 2 \in 0 .. n - 1 /\ i - 1 \in 1 .. Len(ss)
        BY <1>0, <3>1
      <4>2. f[i - 1] = g[i - 1][f[(i - 1) - 1]]
        BY <2>1, <4>1
      <4>3. h[i - 1] = f[i - 2] /\ f[i - 2] \in Seq(E) /\ (i - 1) - 1 = i - 2 /\ (i - 1) + 1 = i
        BY <4>1
      <4>4. g[i - 1][f[i - 2]] = f[i - 2] \o ss[(i - 1) + 1]
        <5>1. i - 1 \in Nat /\ (i - 1) + 1 \in 1 .. n /\ f[i - 2] \in Seq(E)
          BY <4>1, <4>3
        <5> QED
          BY <2>0, <5>1
      <4> QED
        BY <4>2, <4>3, <4>4
    <3>2. f[0] = ss[1]
      BY <2>1
    <3>4. h = [i \in 1 .. Len(ss) |-> f[i - 1]]
      OBVIOUS
    <3> HIDE DEF h
    <3>3. \A i \in 1 .. Len(ss) : f[i - 1] = IF i = 1 THEN ss[i] ELSE h[i - 1] \o ss[i]
      <4> SUFFICES ASSUME NEW i \in 1 .. n PROVE f[i - 1] = IF i = 1 THEN ss[i] ELSE h[i - 1] \o ss[i]
        BY <1>0
      <4>1. CASE i = 1
        BY <3>2, <4>1
      <4>2. CASE i # 1
        BY <3>1, <4>2
      <4> QED
        BY <4>1, <4>2
    <3> QED
      BY <3>3, <3>4
  <2>3. flatten = [i \in 1 .. Len(ss) |-> IF i = 1 THEN ss[i] ELSE flatten[i - 1] \o ss[i]]
    <3> HIDE DEF h
    <3> QED
      BY <2>2
  <2>4. FlattenSeq(ss) = flatten[n]
    BY <1>0, <1>2 DEF FlattenSeq
  <2> HIDE DEF flatten
  <2>5. flatten[1] = ss[1] /\ \A i \in 1 .. n - 1 : flatten[i + 1] = flatten[i] \o ss[i + 1]
    <3>1. \A i \in 1 .. n - 1 : i + 1 \in 1 .. Len(ss) /\ i + 1 # 1 /\ (i + 1) - 1 = i
      BY <1>0
    <3>2. 1 \in 1 .. Len(ss)
      BY <1>0, <1>2
    <3> QED
      BY <2>3, <3>1, <3>2
  <2> DEFINE Q(i) == flatten[i] \in Seq(E) /\ In(flatten[i], i) /\ From(flatten[i], i)
             T == {k \in Nat : k + 1 <= n => Q(k + 1)}
  <2>6. 0 \in T
    <3>1. flatten[1] = ss[1] /\ ss[1] \in Seq(E)
      BY <1>2, <2>5
    <3>2. \A a \in 1 .. 1 : a = 1
      OBVIOUS
    <3>3. In(ss[1], 1)
      BY <3>2
    <3>4. From(ss[1], 1)
      <4>1. \A c \in 1 .. 1 - 1 : FALSE
        OBVIOUS
      <4>2. 1 \in 1 .. 1
        OBVIOUS
      <4> QED
        BY <4>1, <4>2
    <3>5. Q(1)
      BY <3>1, <3>3, <3>4
    <3> HIDE DEF Q
    <3> QED
      BY <3>5
  <2>7. ASSUME NEW k \in Nat, k \in T PROVE k + 1 \in T
    <3> SUFFICES ASSUME (k + 1) + 1 <= n PROVE Q((k + 1) + 1)
      <4> HIDE DEF Q
      <4> QED
        OBVIOUS
    <3> DEFINE m == k + 1
               s == flatten[m]
               t == ss[m + 1]
    <3>1. m \in 1 .. n - 1 /\ m + 1 \in 1 .. n
      OBVIOUS
    <3>2. s \in Seq(E) /\ In(s, m) /\ From(s, m)
      BY <2>7, <3>1
    <3>3. t \in Seq(E)
      BY <3>1
    <3>4. flatten[m + 1] = s \o t
      BY <2>5, <3>1
    <3> HIDE DEF m, s, t
    <3>5. /\ s \o t \in Seq(E) /\ Len(s \o t) = Len(s) + Len(t)
          /\ Len(s) \in Nat /\ Len(t) \in Nat
          /\ \A i \in 1 .. Len(s) : (s \o t)[i] = s[i]
          /\ \A i \in 1 .. Len(t) : (s \o t)[Len(s) + i] = t[i]
      BY <3>2, <3>3
    <3>6. In(s \o t, m + 1)
      <4> SUFFICES ASSUME NEW a \in 1 .. m + 1, NEW b \in 1 .. Len(ss[a])
                   PROVE  \E i \in 1 .. Len(s \o t) : (s \o t)[i] = ss[a][b]
        OBVIOUS
      <4>1. CASE a = m + 1
        <5>1. b \in 1 .. Len(t) /\ ss[a] = t
          BY <4>1 DEF t
        <5>2. Len(s) + b \in 1 .. Len(s \o t)
          BY <3>5, <5>1
        <5> QED
          BY <3>5, <5>1, <5>2
      <4>2. CASE a # m + 1
        <5>1. a \in 1 .. m
          BY <3>1, <4>2
        <5>2. PICK i \in 1 .. Len(s) : s[i] = ss[a][b]
          BY <3>2, <5>1
        <5> QED
          BY <3>5, <5>2
      <4> QED
        BY <4>1, <4>2
    <3>7. From(s \o t, m + 1)
      <4> SUFFICES ASSUME NEW i \in 1 .. Len(s \o t)
                   PROVE  \E a \in 1 .. m + 1 : \E b \in 1 .. Len(ss[a]) :
                            /\ (s \o t)[i] = ss[a][b]
                            /\ \A c \in 1 .. a - 1 : \A d \in 1 .. Len(ss[c]) :
                                 \E j \in 1 .. i - 1 : (s \o t)[j] = ss[c][d]
        OBVIOUS
      <4>1. CASE i <= Len(s)
        <5>1. i \in 1 .. Len(s) /\ \A j \in 1 .. i - 1 : j \in 1 .. Len(s)
          BY <3>5, <4>1
        <5>2. PICK a \in 1 .. m : \E b \in 1 .. Len(ss[a]) :
                 /\ s[i] = ss[a][b]
                 /\ \A c \in 1 .. a - 1 : \A d \in 1 .. Len(ss[c]) : \E j \in 1 .. i - 1 : s[j] = ss[c][d]
          BY <3>2, <5>1
        <5>3. \A j \in 1 .. i - 1 : (s \o t)[j] = s[j]
          BY <3>5, <5>1
        <5>4. (s \o t)[i] = s[i] /\ a \in 1 .. m + 1
          BY <3>1, <3>5, <5>1
        <5>5. ASSUME NEW c \in 1 .. a - 1, NEW d \in 1 .. Len(ss[c])
              PROVE  \E j \in 1 .. i - 1 : (s \o t)[j] = ss[c][d]
          <6>1. PICK j \in 1 .. i - 1 : s[j] = ss[c][d]
            BY <5>2
          <6> QED
            BY <5>3, <6>1
        <5>6. PICK b \in 1 .. Len(ss[a]) : (s \o t)[i] = ss[a][b]
          BY <5>2, <5>4
        <5> QED
          BY <5>4, <5>5, <5>6
      <4>2. CASE ~(i <= Len(s))
        <5>1. i - Len(s) \in 1 .. Len(t) /\ Len(s) + (i - Len(s)) = i
          BY <3>5, <4>2
        <5>2. (s \o t)[i] = t[i - Len(s)] /\ t = ss[m + 1] /\ m + 1 \in 1 .. m + 1
          BY <3>1, <3>5, <5>1 DEF t
        <5>3. ASSUME NEW c \in 1 .. (m + 1) - 1, NEW d \in 1 .. Len(ss[c])
              PROVE  \E j \in 1 .. i - 1 : (s \o t)[j] = ss[c][d]
          <6>1. c \in 1 .. m
            BY <3>1
          <6>2. PICK j \in 1 .. Len(s) : s[j] = ss[c][d]
            BY <3>2, <6>1
          <6>3. j \in 1 .. i - 1
            BY <3>5, <4>2
          <6> QED
            BY <3>5, <6>2, <6>3
        <5> QED
          BY <5>1, <5>2, <5>3
      <4> QED
        BY <4>1, <4>2
    <3> HIDE DEF In, From
    <3>8. Q(m + 1)
      BY <3>4, <3>5, <3>6, <3>7
    <3> QED
      BY <3>8 DEF m
  <2>8. Nat \subseteq T
    <3> HIDE DEF T
    <3> QED
      BY <2>6, <2>7, AllNaturals
  <2>9. Q(n)
    <3>1. n - 1 \in T /\ (n - 1) + 1 = n
      <4> HIDE DEF T
      <4> QED
        BY <1>2, <2>8
    <3> HIDE DEF Q
    <3> QED
      BY <3>1
  <2> DEFINE all == FlattenSeq(ss)
  <2>10. all \in Seq(E) /\ In(all, n) /\ From(all, n)
    <3> HIDE DEF flatten, In, From
    <3> QED
      BY <2>4, <2>9
  <2> HIDE DEF all
  <2>11. InOrder(all, ss, n)
    BY <2>10 DEF InOrder
  <2> QED
    BY <2>10, <2>11 DEF all
<1> QED
  BY <1>1, <1>2
LEMMA GrownSince ==
  ASSUME NEW n \in Nat, NEW F, \A m \in 0 .. n - 1 : F[m] \subseteq F[m + 1],
         NEW j \in Nat, NEW k \in 0 .. n, j <= k
  PROVE  F[j] \subseteq F[k]
<1> DEFINE T == {m \in Nat : j + m <= n => F[j] \subseteq F[j + m]}
<1>1. 0 \in T
  OBVIOUS
<1>2. ASSUME NEW m \in Nat, m \in T PROVE m + 1 \in T
  <2> SUFFICES ASSUME j + (m + 1) <= n PROVE F[j] \subseteq F[j + (m + 1)]
    OBVIOUS
  <2>1. j + m \in 0 .. n - 1 /\ j + (m + 1) = (j + m) + 1 /\ j + m <= n
    OBVIOUS
  <2>2. F[j + m] \subseteq F[j + (m + 1)]
    BY <2>1
  <2> QED
    BY <1>2, <2>1, <2>2
<1>3. Nat \subseteq T
  <2> HIDE DEF T
  <2> QED
    BY <1>1, <1>2, AllNaturals
<1>4. k - j \in Nat /\ j + (k - j) = k /\ k <= n
  OBVIOUS
<1>5. k - j \in T
  BY <1>3, <1>4
<1> QED
  BY <1>4, <1>5

(* A growing family of subsets of a set of n that does not grow again once it stood    *)
(* still has stood still before n.                                          *)
LEMMA GrowthEnds ==
  ASSUME NEW S, IsFiniteSet(S), NEW n \in Nat \ {0}, Cardinality(S) = n,
         NEW F \in [0 .. n -> SUBSET S], F[0] # {} \/ F[0] = F[1],
         \A k \in 0 .. n - 1 : F[k] \subseteq F[k + 1],
         \A k \in 0 .. n - 2 : F[k] = F[k + 1] => F[k + 1] = F[k + 2]
  PROVE  F[n - 1] = F[n]
<1>1. \A k \in 0 .. n : IsFiniteSet(F[k]) /\ Cardinality(F[k]) \in Nat /\ Cardinality(F[k]) <= n
  <2> SUFFICES ASSUME NEW k \in 0 .. n
               PROVE  IsFiniteSet(F[k]) /\ Cardinality(F[k]) \in Nat /\ Cardinality(F[k]) <= n
    OBVIOUS
  <2>1. F[k] \in SUBSET S
    OBVIOUS
  <2>2. IsFiniteSet(F[k]) /\ Cardinality(F[k]) <= n
    BY <2>1, FS_Subset
  <2> QED
    BY <2>2, FS_CardinalityType
<1>2. \E k \in 0 .. n - 1 : F[k] = F[k + 1]
  <2> SUFFICES ASSUME \A k \in 0 .. n - 1 : F[k] # F[k + 1] PROVE FALSE
    OBVIOUS
  <2> DEFINE T == {k \in Nat : k <= n => Cardinality(F[k]) >= k + 1}
  <2>1. 0 \in T
    <3>1. 0 \in 0 .. n /\ 0 \in 0 .. n - 1 /\ 0 + 1 = 1
      OBVIOUS
    <3>2. F[0] # F[0 + 1]
      BY <3>1
    <3>3. F[0] # {}
      BY <3>1, <3>2
    <3>4. Cardinality(F[0]) # 0
      BY <1>1, <3>1, <3>3, FS_EmptySet
    <3> QED
      BY <1>1, <3>1, <3>4
  <2>2. ASSUME NEW k \in Nat, k \in T PROVE k + 1 \in T
    <3> SUFFICES ASSUME k + 1 <= n PROVE Cardinality(F[k + 1]) >= (k + 1) + 1
      OBVIOUS
    <3>1. k \in 0 .. n - 1 /\ k \in 0 .. n /\ k + 1 \in 0 .. n
      OBVIOUS
    <3>2. Cardinality(F[k]) >= k + 1
      BY <2>2, <3>1
    <3>3. F[k] \in SUBSET F[k + 1] /\ F[k] # F[k + 1]
      BY <3>1
    <3>4. IsFiniteSet(F[k + 1])
      BY <1>1, <3>1
    <3>5. Cardinality(F[k]) <= Cardinality(F[k + 1]) /\ Cardinality(F[k]) # Cardinality(F[k + 1])
      BY <3>3, <3>4, FS_Subset
    <3>6. Cardinality(F[k]) \in Nat /\ Cardinality(F[k + 1]) \in Nat
      BY <1>1, <3>1
    <3> QED
      BY <3>2, <3>5, <3>6
  <2>3. Nat \subseteq T
    <3> HIDE DEF T
    <3> QED
      BY <2>1, <2>2, AllNaturals
  <2>4. Cardinality(F[n]) >= n + 1
    BY <2>3
  <2> QED
    BY <1>1, <2>4
<1>3. PICK k \in 0 .. n - 1 : F[k] = F[k + 1]
  BY <1>2
<1> DEFINE T == {j \in Nat : k + j <= n - 1 => F[k + j] = F[(k + j) + 1]}
<1>4. 0 \in T
  BY <1>3
<1>5. ASSUME NEW j \in Nat, j \in T PROVE j + 1 \in T
  <2> SUFFICES ASSUME k + (j + 1) <= n - 1 PROVE F[k + (j + 1)] = F[(k + (j + 1)) + 1]
    OBVIOUS
  <2>1. k + j \in 0 .. n - 2 /\ k + (j + 1) = (k + j) + 1 /\ (k + (j + 1)) + 1 = (k + j) + 2
    OBVIOUS
  <2>2. F[k + j] = F[(k + j) + 1]
    BY <1>5, <2>1
  <2> QED
    BY <2>1, <2>2
<1>6. Nat \subseteq T
  <2> HIDE DEF T
  <2> QED
    BY <1>4, <1>5, AllNaturals
<1>7. (n - 1) - k \in Nat /\ k + ((n - 1) - k) = n - 1 /\ (n - 1) + 1 = n
  OBVIOUS
<1>8. (n - 1) - k \in T
  BY <1>6, <1>7
<1> QED
  BY <1>7, <1>8

--------------------------------------------------------------------------
(* The levels of the search. *)

Scenarios == [script : [Stage -> Seq({"fail"})], pick : [Stage -> 0 .. DryStages]]
PathOf == [at : Stage, seen : SUBSET Stage, scenario : Scenarios]
NextPaths(w, level) == FlattenSeq([i \in 1 .. Len(level) |-> Extensions(w, level[i])])

(* Facts about the constants. *)
LEMMA StagesCounted == /\ DryStages \in Nat \ {0} /\ 1 \in Stage /\ 0 \notin Stage /\ DryStages \in Stage
                       /\ IsFiniteSet(Stage) /\ Cardinality(Stage) = DryStages
                       /\ MaxSteps \in Nat /\ MaxSteps >= DryStages
<1>1. DryStages \in Nat \ {0} /\ MaxSteps \in Nat /\ MaxSteps >= DryStages
  BY DryRunAssumption
<1>2. 1 \in Int /\ DryStages \in Int /\ 1 <= DryStages
  BY <1>1
<1>3. IsFiniteSet(1 .. DryStages) /\ Cardinality(1 .. DryStages) = DryStages - 1 + 1
  BY <1>1, <1>2, FS_Interval
<1> QED
  BY <1>1, <1>2, <1>3 DEF Stage

(* A target leads to a Stage, or nowhere. *)
LEMMA LeadsTyped == ASSUME NEW s \in Stage, NEW t \in Target PROVE Leads(s, t) \in Stage \cup {0}
BY StagesCounted DEF Leads, Target, ToNext, Stage
(* x goes one edge further than p. *)
Extends(w, p, x) ==
  LET d == w[p.at] IN
  /\ x.at \in Stage /\ x.seen = p.seen \cup {p.at} /\ x.at \notin x.seen
  /\ IF IsHandoff(d)
     THEN /\ \E i \in 1 .. Len(d.targets) : d.targets[i] = x.at
          /\ x.scenario = [p.scenario EXCEPT !.pick[p.at] = x.at]
     ELSE \/ x.at = Leads(p.at, d.pass) /\ x.scenario = p.scenario
          \/ /\ x.at = Leads(p.at, d.fail)
             /\ x.scenario = [p.scenario EXCEPT !.script[p.at] = Append(@, "fail")]
In(seq, x) == \E i \in 1 .. Len(seq) : seq[i] = x

Edged(p, y, sc) == [at |-> y, seen |-> p.seen \cup {p.at}, scenario |-> sc]
LEMMA EdgesAre ==
  ASSUME NEW w \in [Stage -> Definition], NEW p \in PathOf
  PROVE  /\ IsHandoff(w[p.at]) =>
              Edges(w, p) = [i \in 1 .. Len(w[p.at].targets) |->
                Edged(p, w[p.at].targets[i], [p.scenario EXCEPT !.pick[p.at] = w[p.at].targets[i]])]
         /\ ~IsHandoff(w[p.at]) =>
              Edges(w, p) = <<Edged(p, Leads(p.at, w[p.at].pass), p.scenario),
                              Edged(p, Leads(p.at, w[p.at].fail),
                                    [p.scenario EXCEPT !.script[p.at] = Append(@, "fail")])>>
<1>1. p.at \in Stage /\ w[p.at] \in Definition
  BY DEF PathOf
<1>2. CASE IsHandoff(w[p.at])
  <2>1. \A i \in 1 .. Len(w[p.at].targets) : Leads(p.at, w[p.at].targets[i]) = w[p.at].targets[i]
    <3> SUFFICES ASSUME NEW i \in 1 .. Len(w[p.at].targets) PROVE Leads(p.at, w[p.at].targets[i]) = w[p.at].targets[i]
      OBVIOUS
    <3>1. w[p.at].targets[i] \in Stage
      BY <1>1 DEF Definition
    <3> QED
      BY <3>1, StagesCounted DEF Leads, ToNext, Target, Stage
  <2> QED
    BY <1>2, <2>1 DEF Edges, Edged
<1>3. CASE ~IsHandoff(w[p.at])
  <2>1. Took(p.scenario, p.at, "pass") = p.scenario
    BY DEF Took
  <2>2. Took(p.scenario, p.at, "fail") = [p.scenario EXCEPT !.script[p.at] = Append(@, "fail")]
    BY DEF Took
  <2>3. StageTarget(w[p.at], "pass") = w[p.at].pass /\ StageTarget(w[p.at], "fail") = w[p.at].fail
    BY DEF StageTarget
  <2> QED
    BY <1>3, <2>1, <2>2, <2>3 DEF Edges, Edged
<1> QED
  BY <1>2, <1>3

(* Each unvisited edge of a path extends it, and every extension is such an edge. *)
LEMMA EdgesTyped ==
  ASSUME NEW w \in [Stage -> Definition], NEW p \in PathOf
  PROVE  /\ Edges(w, p) \in Seq([at : Stage \cup {0}, seen : SUBSET Stage, scenario : Scenarios])
         /\ \A e \in 1 .. Len(Edges(w, p)) : Unvisited(Edges(w, p)[e]) =>
              Edges(w, p)[e] \in PathOf /\ Extends(w, p, Edges(w, p)[e])
         /\ \A x \in PathOf : Extends(w, p, x) =>
              \E e \in 1 .. Len(Edges(w, p)) : Edges(w, p)[e] = x /\ Unvisited(x)
<1> DEFINE d == w[p.at]
           Loose == [at : Stage \cup {0}, seen : SUBSET Stage, scenario : Scenarios]
<1>1. p.at \in Stage /\ d \in Definition /\ p.seen \cup {p.at} \in SUBSET Stage /\ p.scenario \in Scenarios
  BY DEF PathOf
<1>2. d.pass \in Target /\ d.fail \in Target /\ d.targets \in Seq(Stage)
  BY <1>1 DEF Definition
<1>3. ASSUME NEW x \in Loose
      PROVE  Unvisited(x) /\ x.seen = p.seen \cup {p.at} => x \in PathOf /\ x.at \in Stage /\ x.at \notin x.seen
  BY <1>3 DEF Unvisited, PathOf
<1>4. ASSUME NEW x \in PathOf PROVE x.at \in Stage /\ x.at \notin x.seen => Unvisited(x)
  BY <1>4, StagesCounted DEF Unvisited
<1>5. ASSUME NEW x \in PathOf PROVE x = [at |-> x.at, seen |-> x.seen, scenario |-> x.scenario]
  BY <1>5 DEF PathOf
<1>6. CASE IsHandoff(d)
  <2> DEFINE picked(i) == [p.scenario EXCEPT !.pick[p.at] = d.targets[i]]
  <2>1. Edges(w, p) = [i \in 1 .. Len(d.targets) |-> Edged(p, d.targets[i], picked(i))]
    BY <1>6, EdgesAre
  <2>2. Len(d.targets) \in Nat /\ Len(Edges(w, p)) = Len(d.targets)
    BY <1>2, <2>1
  <2>3. ASSUME NEW i \in 1 .. Len(d.targets)
        PROVE  d.targets[i] \in Stage /\ picked(i) \in Scenarios /\ Edged(p, d.targets[i], picked(i)) \in Loose
    <3>1. d.targets[i] \in Stage
      BY <1>2
    <3>2. picked(i) \in Scenarios
      <4>1. d.targets[i] \in 0 .. DryStages
        BY <3>1, StagesCounted DEF Stage
      <4> QED
        BY <1>1, <4>1 DEF Scenarios
    <3> QED
      BY <1>1, <3>1, <3>2 DEF Edged
  <2>4. \A i \in 1 .. Len(d.targets) : Unvisited(Edged(p, d.targets[i], picked(i))) =>
          /\ Edged(p, d.targets[i], picked(i)) \in PathOf
          /\ Extends(w, p, Edged(p, d.targets[i], picked(i)))
    <3> SUFFICES ASSUME NEW i \in 1 .. Len(d.targets), Unvisited(Edged(p, d.targets[i], picked(i)))
                 PROVE  /\ Edged(p, d.targets[i], picked(i)) \in PathOf
                        /\ Extends(w, p, Edged(p, d.targets[i], picked(i)))
      OBVIOUS
    <3> DEFINE x == Edged(p, d.targets[i], picked(i))
    <3>1. x.at = d.targets[i] /\ x.seen = p.seen \cup {p.at} /\ x.scenario = picked(i)
      BY DEF Edged
    <3>2. x \in PathOf /\ x.at \in Stage /\ x.at \notin x.seen
      BY <1>3, <2>3, <3>1
    <3> QED
      BY <1>6, <3>1, <3>2 DEF Extends
  <2>5. ASSUME NEW x \in PathOf, Extends(w, p, x)
        PROVE  \E e \in 1 .. Len(Edges(w, p)) : Edges(w, p)[e] = x /\ Unvisited(x)
    <3>1. PICK i \in 1 .. Len(d.targets) : d.targets[i] = x.at
      BY <1>6, <2>5 DEF Extends
    <3>2. x.seen = p.seen \cup {p.at} /\ x.scenario = picked(i)
      BY <1>6, <2>5, <3>1 DEF Extends
    <3>3. x = Edged(p, d.targets[i], picked(i))
      BY <1>5, <3>1, <3>2 DEF Edged
    <3>4. Unvisited(x)
      BY <1>4, <2>5 DEF Extends
    <3> QED
      BY <2>1, <2>2, <3>3, <3>4
  <2>6. Edges(w, p) \in Seq(Loose)
    <3> HIDE DEF Loose, picked
    <3> QED
      BY <2>1, <2>2, <2>3
  <2>7. ASSUME NEW e \in 1 .. Len(Edges(w, p)), Unvisited(Edges(w, p)[e])
        PROVE  Edges(w, p)[e] \in PathOf /\ Extends(w, p, Edges(w, p)[e])
    <3>1. e \in 1 .. Len(d.targets) /\ Edges(w, p)[e] = Edged(p, d.targets[e], picked(e))
      BY <2>1, <2>2
    <3> QED
      BY <2>4, <2>7, <3>1
  <2> QED
    BY <2>5, <2>6, <2>7
<1>7. CASE ~IsHandoff(d)
  <2> DEFINE failed == [p.scenario EXCEPT !.script[p.at] = Append(@, "fail")]
             x1 == Edged(p, Leads(p.at, d.pass), p.scenario)
             x2 == Edged(p, Leads(p.at, d.fail), failed)
  <2>1. Edges(w, p) = <<x1, x2>>
    BY <1>7, EdgesAre
  <2>2. failed \in Scenarios
    <3>1. p.scenario.script[p.at] \in Seq({"fail"})
      BY <1>1 DEF Scenarios
    <3>2. Append(p.scenario.script[p.at], "fail") \in Seq({"fail"})
      BY <3>1
    <3> QED
      BY <1>1, <3>2 DEF Scenarios
  <2>3. Leads(p.at, d.pass) \in Stage \cup {0} /\ Leads(p.at, d.fail) \in Stage \cup {0}
    BY <1>1, <1>2, LeadsTyped
  <2>4. x1 \in Loose /\ x2 \in Loose
    BY <1>1, <2>2, <2>3 DEF Edged
  <2>5. /\ x1.at = Leads(p.at, d.pass) /\ x1.seen = p.seen \cup {p.at} /\ x1.scenario = p.scenario
        /\ x2.at = Leads(p.at, d.fail) /\ x2.seen = p.seen \cup {p.at} /\ x2.scenario = failed
    BY DEF Edged
  <2>6. Unvisited(x1) => x1 \in PathOf /\ Extends(w, p, x1)
    <3> HIDE DEF x1, x2
    <3> QED
      BY <1>3, <1>7, <2>4, <2>5 DEF Extends
  <2>7. Unvisited(x2) => x2 \in PathOf /\ Extends(w, p, x2)
    <3> HIDE DEF x1, x2
    <3> QED
      BY <1>3, <1>7, <2>4, <2>5 DEF Extends
  <2>8. ASSUME NEW x \in PathOf, Extends(w, p, x) PROVE (x = x1 \/ x = x2) /\ Unvisited(x)
    <3>1. /\ x.seen = p.seen \cup {p.at}
          /\ \/ x.at = Leads(p.at, d.pass) /\ x.scenario = p.scenario
             \/ x.at = Leads(p.at, d.fail) /\ x.scenario = failed
      BY <1>7, <2>8 DEF Extends
    <3>2. x = x1 \/ x = x2
      BY <1>5, <3>1 DEF Edged
    <3>3. Unvisited(x)
      BY <1>4, <2>8 DEF Extends
    <3> QED
      BY <3>2, <3>3
  <2> HIDE DEF x1, x2
  <2>9. Len(Edges(w, p)) = 2 /\ Edges(w, p)[1] = x1 /\ Edges(w, p)[2] = x2 /\ Edges(w, p) \in Seq(Loose)
    BY <2>1, <2>4
  <2> QED
    BY <2>6, <2>7, <2>8, <2>9
<1> QED
  BY <1>6, <1>7

(* Extensions lists just those. *)
LEMMA ExtensionsAre ==
  ASSUME NEW w \in [Stage -> Definition], NEW p \in PathOf
  PROVE  /\ Extensions(w, p) \in Seq(PathOf)
         /\ \A i \in 1 .. Len(Extensions(w, p)) : Extends(w, p, Extensions(w, p)[i])
         /\ \A x \in PathOf : Extends(w, p, x) => In(Extensions(w, p), x)
<1> DEFINE n == Len(Edges(w, p))
           ss == [i \in 1 .. n |-> IF Unvisited(Edges(w, p)[i]) THEN <<Edges(w, p)[i]>> ELSE <<>>]
<1>1. n \in Nat
  BY EdgesTyped
<1>2. ss \in [1 .. n -> Seq(PathOf)]
  <2> SUFFICES ASSUME NEW i \in 1 .. n
               PROVE  (IF Unvisited(Edges(w, p)[i]) THEN <<Edges(w, p)[i]>> ELSE <<>>) \in Seq(PathOf)
    OBVIOUS
  <2>1. Unvisited(Edges(w, p)[i]) => Edges(w, p)[i] \in PathOf
    BY EdgesTyped
  <2> QED
    BY <2>1
<1>3. Extensions(w, p) = FlattenSeq(ss)
  BY DEF Extensions
<1> DEFINE all == FlattenSeq(ss)
<1>4. /\ all \in Seq(PathOf)
      /\ \A a \in 1 .. n : \A b \in 1 .. Len(ss[a]) : \E i \in 1 .. Len(all) : all[i] = ss[a][b]
      /\ \A i \in 1 .. Len(all) : \E a \in 1 .. n : \E b \in 1 .. Len(ss[a]) : all[i] = ss[a][b]
  <2> HIDE DEF n, ss
  <2>1. FlattenSeq(ss) \in Seq(PathOf) /\ InOrder(FlattenSeq(ss), ss, n)
    BY <1>1, <1>2, FlattensInOrder
  <2> QED
    BY <2>1 DEF InOrder
<1>5. \A a \in 1 .. n : \A b \in 1 .. Len(ss[a]) :
        b = 1 /\ Unvisited(Edges(w, p)[a]) /\ ss[a][b] = Edges(w, p)[a]
  <2> SUFFICES ASSUME NEW a \in 1 .. n, NEW b \in 1 .. Len(ss[a])
               PROVE  b = 1 /\ Unvisited(Edges(w, p)[a]) /\ ss[a][b] = Edges(w, p)[a]
    OBVIOUS
  <2>1. CASE Unvisited(Edges(w, p)[a])
    <3>1. ss[a] = <<Edges(w, p)[a]>>
      BY <2>1
    <3>2. Len(ss[a]) = 1 /\ b = 1
      BY <3>1
    <3> QED
      BY <2>1, <3>1, <3>2
  <2>2. CASE ~Unvisited(Edges(w, p)[a])
    <3>1. ss[a] = <<>> /\ Len(<<>>) = 0
      BY <2>2
    <3> QED
      BY <3>1
  <2> QED
    BY <2>1, <2>2
<1>6. ASSUME NEW i \in 1 .. Len(all) PROVE Extends(w, p, all[i])
  <2>1. PICK a \in 1 .. n : \E b \in 1 .. Len(ss[a]) : all[i] = ss[a][b]
    BY <1>4
  <2>2. Unvisited(Edges(w, p)[a]) /\ all[i] = Edges(w, p)[a]
    BY <1>5, <2>1
  <2> QED
    BY <2>2, EdgesTyped
<1>7. ASSUME NEW x \in PathOf, Extends(w, p, x) PROVE \E i \in 1 .. Len(all) : all[i] = x
  <2>1. PICK e \in 1 .. n : Edges(w, p)[e] = x /\ Unvisited(x)
    BY <1>7, EdgesTyped
  <2>2. ss[e] = <<x>>
    BY <2>1
  <2>3. 1 \in 1 .. Len(ss[e]) /\ ss[e][1] = x
    BY <2>2
  <2>4. PICK i \in 1 .. Len(all) : all[i] = ss[e][1]
    BY <1>4, <2>3
  <2> QED
    BY <2>3, <2>4
<1> HIDE DEF all, ss, n
<1> QED
  BY <1>3, <1>4, <1>6, <1>7 DEF all, In

(* The next level has just the extensions of the paths of this one. *)
LEMMA NextPathsAre ==
  ASSUME NEW w \in [Stage -> Definition], NEW level \in Seq(PathOf)
  PROVE  /\ NextPaths(w, level) \in Seq(PathOf)
         /\ \A x : In(NextPaths(w, level), x) <=> x \in PathOf /\ \E p \in PathOf : In(level, p) /\ Extends(w, p, x)
<1> DEFINE n == Len(level)
           ss == [i \in 1 .. n |-> Extensions(w, level[i])]
           all == FlattenSeq(ss)
<1>1. n \in Nat /\ \A i \in 1 .. n : level[i] \in PathOf
  OBVIOUS
<1>2. ss \in [1 .. n -> Seq(PathOf)]
  BY <1>1, ExtensionsAre
<1>3. /\ all \in Seq(PathOf)
      /\ \A a \in 1 .. n : \A b \in 1 .. Len(ss[a]) : \E i \in 1 .. Len(all) : all[i] = ss[a][b]
      /\ \A i \in 1 .. Len(all) : \E a \in 1 .. n : \E b \in 1 .. Len(ss[a]) : all[i] = ss[a][b]
  <2> HIDE DEF n, ss
  <2>1. FlattenSeq(ss) \in Seq(PathOf) /\ InOrder(FlattenSeq(ss), ss, n)
    BY <1>1, <1>2, FlattensInOrder
  <2> QED
    BY <2>1 DEF InOrder
<1>4. NextPaths(w, level) = all
  BY DEF NextPaths
<1> HIDE DEF all
<1>5. ASSUME NEW x, In(all, x) PROVE x \in PathOf /\ \E p \in PathOf : In(level, p) /\ Extends(w, p, x)
  <2>1. PICK i \in 1 .. Len(all) : all[i] = x
    BY <1>5 DEF In
  <2>2. PICK a \in 1 .. n : \E b \in 1 .. Len(ss[a]) : all[i] = ss[a][b]
    BY <1>3, <2>1
  <2>3. ss[a] = Extensions(w, level[a]) /\ level[a] \in PathOf /\ In(level, level[a])
    BY <1>1 DEF In
  <2>4. Extends(w, level[a], x)
    BY <2>1, <2>2, <2>3, ExtensionsAre
  <2> QED
    BY <1>3, <2>1, <2>3, <2>4
<1>6. ASSUME NEW x \in PathOf, NEW p \in PathOf, In(level, p), Extends(w, p, x) PROVE In(all, x)
  <2>1. PICK a \in 1 .. n : level[a] = p
    BY <1>6 DEF In
  <2>2. ss[a] = Extensions(w, p)
    BY <2>1
  <2>3. PICK b \in 1 .. Len(ss[a]) : ss[a][b] = x
    <3>1. In(Extensions(w, p), x)
      BY <1>6, ExtensionsAre
    <3> QED
      BY <2>2, <3>1 DEF In
  <2> QED
    BY <1>3, <2>3 DEF In
<1> QED
  BY <1>3, <1>4, <1>5, <1>6

(* Levels is what its recursive definition says. *)
LEMMA LevelsAre ==
  ASSUME NEW w \in [Stage -> Definition]
  PROVE  /\ Levels(w) \in [0 .. DryStages - 1 -> Seq(PathOf)]
         /\ Levels(w)[0] = <<FirstPath>> /\ FirstPath \in PathOf
         /\ \A k \in 1 .. DryStages - 1 : Levels(w)[k] = NextPaths(w, Levels(w)[k - 1])
<1> DEFINE g == [k \in Nat |-> [s \in Seq(PathOf) |-> NextPaths(w, s)]]
           n == DryStages - 1
           level[k \in 0 .. DryStages - 1] ==
             IF k = 0 THEN <<FirstPath>>
             ELSE FlattenSeq([i \in 1 .. Len(level[k - 1]) |-> Extensions(w, level[k - 1][i])])
<1>1. n \in Nat
  BY StagesCounted
<1>2. FirstPath \in PathOf
  <2>1. [s \in Stage |-> <<>>] \in [Stage -> Seq({"fail"})] /\ [s \in Stage |-> 0] \in [Stage -> 0 .. DryStages]
    BY StagesCounted
  <2> QED
    BY <2>1, StagesCounted DEF FirstPath, NoScenario, PathOf, Scenarios
<1>3. g \in [Nat -> [Seq(PathOf) -> Seq(PathOf)]]
  BY NextPathsAre
<1>4. Chains(Seq(PathOf), <<FirstPath>>, g, n) # {}
  <2> HIDE DEF g, n
  <2>1. <<FirstPath>> \in Seq(PathOf)
    BY <1>2
  <2> QED
    BY <1>1, <1>3, <2>1, Iterates
<1>5. PICK f \in [0 .. n -> Seq(PathOf)] :
        f[0] = <<FirstPath>> /\ \A k \in 1 .. n : f[k] = g[k][f[k - 1]]
  BY <1>4 DEF Chains
<1>6. \A k \in 1 .. n : f[k] = NextPaths(w, f[k - 1])
  <2> SUFFICES ASSUME NEW k \in 1 .. n PROVE f[k] = NextPaths(w, f[k - 1])
    OBVIOUS
  <2>1. f[k - 1] \in Seq(PathOf) /\ k \in Nat
    BY <1>1
  <2> QED
    BY <1>5, <2>1
<1>7. f = [k \in 0 .. DryStages - 1 |->
            IF k = 0 THEN <<FirstPath>>
            ELSE FlattenSeq([i \in 1 .. Len(f[k - 1]) |-> Extensions(w, f[k - 1][i])])]
  <2>1. \A k \in 0 .. n : k # 0 => k \in 1 .. n
    BY <1>1
  <2>2. \A k \in 0 .. n : f[k] = IF k = 0 THEN <<FirstPath>> ELSE NextPaths(w, f[k - 1])
    BY <1>5, <1>6, <2>1
  <2>3. f = [k \in 0 .. n |-> IF k = 0 THEN <<FirstPath>> ELSE NextPaths(w, f[k - 1])]
    BY <2>2
  <2> QED
    BY <2>3 DEF NextPaths
<1>8. level = [k \in 0 .. DryStages - 1 |->
                IF k = 0 THEN <<FirstPath>>
                ELSE FlattenSeq([i \in 1 .. Len(level[k - 1]) |-> Extensions(w, level[k - 1][i])])]
  BY <1>7
<1>9. Levels(w) = level
  BY DEF Levels
<1> HIDE DEF level, g
<1>10. level[0] = <<FirstPath>> /\ \A k \in 1 .. n : level[k] = NextPaths(w, level[k - 1])
  <2>1. level = [k \in 0 .. n |-> IF k = 0 THEN <<FirstPath>> ELSE NextPaths(w, level[k - 1])]
    BY <1>8 DEF NextPaths
  <2>2. 0 \in 0 .. n /\ \A k \in 1 .. n : k \in 0 .. n /\ k # 0
    BY <1>1
  <2> HIDE DEF n
  <2> QED
    BY <2>1, <2>2
<1> DEFINE T == {k \in Nat : k <= n => level[k] \in Seq(PathOf)}
<1>11. 0 \in T
  <2>1. <<FirstPath>> \in Seq(PathOf)
    BY <1>2
  <2> HIDE DEF n
  <2> QED
    BY <1>10, <2>1
<1>12. ASSUME NEW k \in Nat, k \in T PROVE k + 1 \in T
  <2> SUFFICES ASSUME k + 1 <= n PROVE level[k + 1] \in Seq(PathOf)
    OBVIOUS
  <2>1. k + 1 \in 1 .. n /\ (k + 1) - 1 = k /\ level[k] \in Seq(PathOf)
    BY <1>1, <1>12
  <2>2. level[k + 1] = NextPaths(w, level[k])
    BY <1>10, <2>1
  <2> QED
    BY <2>1, <2>2, NextPathsAre
<1>13. Nat \subseteq T
  <2> HIDE DEF T
  <2> QED
    BY <1>11, <1>12, AllNaturals
<1>14. \A k \in 0 .. n : level[k] \in Seq(PathOf)
  BY <1>1, <1>13
<1>15. level = [k \in 0 .. n |-> level[k]]
  BY <1>8
<1> QED
  BY <1>2, <1>9, <1>10, <1>14, <1>15

(* The paths of a level, by those of the one before. *)
LEMMA LevelGoesOn ==
  ASSUME NEW w \in [Stage -> Definition]
  PROVE  /\ \A x : In(Levels(w)[0], x) <=> x = FirstPath
         /\ \A k \in 0 .. DryStages - 1 : \A x : In(Levels(w)[k], x) => x \in PathOf
         /\ \A k \in 1 .. DryStages - 1 : \A x :
              In(Levels(w)[k], x) <=> x \in PathOf /\ \E p \in PathOf : In(Levels(w)[k - 1], p) /\ Extends(w, p, x)
<1>1. \A x : In(Levels(w)[0], x) <=> x = FirstPath
  <2>1. Len(<<FirstPath>>) = 1 /\ <<FirstPath>>[1] = FirstPath /\ 1 \in 1 .. 1
    OBVIOUS
  <2>2. Levels(w)[0] = <<FirstPath>>
    BY LevelsAre
  <2> QED
    BY <2>1, <2>2 DEF In
<1>2. ASSUME NEW k \in 0 .. DryStages - 1, NEW x, In(Levels(w)[k], x) PROVE x \in PathOf
  <2>1. Levels(w)[k] \in Seq(PathOf)
    BY LevelsAre
  <2> QED
    BY <1>2, <2>1 DEF In
<1>3. ASSUME NEW k \in 1 .. DryStages - 1, NEW x
      PROVE  In(Levels(w)[k], x) <=> x \in PathOf /\ \E p \in PathOf : In(Levels(w)[k - 1], p) /\ Extends(w, p, x)
  <2>1. Levels(w)[k] = NextPaths(w, Levels(w)[k - 1])
    BY LevelsAre
  <2>2. k - 1 \in 0 .. DryStages - 1
    BY StagesCounted
  <2>3. Levels(w)[k - 1] \in Seq(PathOf)
    BY <2>2, LevelsAre
  <2> QED
    BY <2>1, <2>3, NextPathsAre
<1> QED
  BY <1>1, <1>2, <1>3

(* A path and the Stages along it.  What its scenario says of a Stage leads to the next one. *)
Hop(w, s, y, sc) ==
  IF IsHandoff(w[s]) THEN sc.pick[s] = y /\ sc.script[s] = <<>>
  ELSE \/ sc.script[s] = <<>> /\ y = Leads(s, w[s].pass)
       \/ sc.script[s] = <<"fail">> /\ y = Leads(s, w[s].fail)
Along(w, q, sc) ==
  /\ q \in Seq(Stage) /\ Len(q) \in 1 .. DryStages /\ q[1] = 1
  /\ \A i, j \in 1 .. Len(q) : q[i] = q[j] => i = j
  /\ \A i \in 1 .. Len(q) - 1 : Hop(w, q[i], q[i + 1], sc)
Trail(w, q, p) ==
  /\ Along(w, q, p.scenario) /\ q[Len(q)] = p.at
  /\ p.seen = {q[i] : i \in 1 .. Len(q) - 1}
  /\ \A s \in Stage : s \notin p.seen => p.scenario.script[s] = <<>> /\ p.scenario.pick[s] = 0

(* A path that extends another one follows its trail, and one edge more. *)
LEMMA TrailGoesOn ==
  ASSUME NEW w \in [Stage -> Definition], NEW p \in PathOf, NEW x \in PathOf, Extends(w, p, x),
         NEW q, Trail(w, q, p), Len(q) < DryStages
  PROVE  Trail(w, Append(q, x.at), x) /\ Len(Append(q, x.at)) = Len(q) + 1
<1> DEFINE r == Append(q, x.at)
           n == Len(q)
<1>1. q \in Seq(Stage) /\ n \in Nat /\ n >= 1 /\ n < DryStages /\ x.at \in Stage /\ p.at \in Stage
  BY StagesCounted DEF Trail, Along, PathOf
<1>2. /\ r \in Seq(Stage) /\ Len(r) = n + 1 /\ r[n + 1] = x.at
      /\ \A i \in 1 .. n : r[i] = q[i]
  BY <1>1
<1>3. /\ q[1] = 1 /\ q[n] = p.at /\ p.seen = {q[i] : i \in 1 .. n - 1}
      /\ \A i, j \in 1 .. n : q[i] = q[j] => i = j
      /\ \A i \in 1 .. n - 1 : Hop(w, q[i], q[i + 1], p.scenario)
      /\ \A s \in Stage : s \notin p.seen => p.scenario.script[s] = <<>> /\ p.scenario.pick[s] = 0
  BY DEF Trail, Along
<1>4. x.seen = p.seen \cup {p.at} /\ x.at \notin x.seen
  BY DEF Extends
<1>5. x.seen = {q[i] : i \in 1 .. n}
  <2>1. \A i \in 1 .. n : i \in 1 .. n - 1 \/ i = n
    BY <1>1
  <2>2. n \in 1 .. n /\ \A i \in 1 .. n - 1 : i \in 1 .. n
    BY <1>1
  <2> HIDE DEF n
  <2> QED
    BY <1>3, <1>4, <2>1, <2>2
<1>6. p.scenario \in Scenarios /\ x.scenario \in Scenarios
  BY DEF PathOf
<1>7. p.at \notin p.seen
  <2>1. \A i \in 1 .. n - 1 : i \in 1 .. n /\ n \in 1 .. n /\ i # n
    BY <1>1
  <2> HIDE DEF n
  <2> QED
    BY <1>3, <2>1
<1>8. p.scenario.script[p.at] = <<>> /\ p.scenario.pick[p.at] = 0
  BY <1>1, <1>3, <1>7
<1>9. /\ \A s \in Stage : s # p.at => /\ x.scenario.script[s] = p.scenario.script[s]
                                      /\ x.scenario.pick[s] = p.scenario.pick[s]
      /\ Hop(w, p.at, x.at, x.scenario)
  <2>1. /\ p.scenario.script \in [Stage -> Seq({"fail"})]
        /\ p.scenario.pick \in [Stage -> 0 .. DryStages]
    BY <1>6 DEF Scenarios
  <2>2. CASE IsHandoff(w[p.at])
    <3>1. x.scenario = [p.scenario EXCEPT !.pick[p.at] = x.at]
      BY <2>2 DEF Extends
    <3>2. x.scenario.script = p.scenario.script /\ x.scenario.pick = [p.scenario.pick EXCEPT ![p.at] = x.at]
      BY <1>6, <3>1 DEF Scenarios
    <3> QED
      BY <1>1, <1>8, <2>1, <2>2, <3>2 DEF Hop
  <2>3. CASE ~IsHandoff(w[p.at]) /\ x.at = Leads(p.at, w[p.at].pass) /\ x.scenario = p.scenario
    BY <1>8, <2>3 DEF Hop
  <2>4. CASE /\ ~IsHandoff(w[p.at]) /\ x.at = Leads(p.at, w[p.at].fail)
             /\ x.scenario = [p.scenario EXCEPT !.script[p.at] = Append(@, "fail")]
    <3>1. /\ x.scenario.pick = p.scenario.pick
          /\ x.scenario.script = [p.scenario.script EXCEPT ![p.at] = Append(p.scenario.script[p.at], "fail")]
      BY <1>6, <2>4 DEF Scenarios
    <3>2. Append(p.scenario.script[p.at], "fail") = <<"fail">>
      BY <1>8
    <3>3. x.scenario.script[p.at] = <<"fail">>
      BY <1>1, <2>1, <3>1, <3>2
    <3> QED
      BY <1>1, <2>1, <2>4, <3>1, <3>3 DEF Hop
  <2> QED
    BY <2>2, <2>3, <2>4 DEF Extends
<1>10. ASSUME NEW i \in 1 .. n PROVE Hop(w, r[i], r[i + 1], x.scenario)
  <2>1. CASE i = n
    <3>1. r[i] = p.at /\ r[i + 1] = x.at
      BY <1>1, <1>2, <1>3, <2>1
    <3> QED
      BY <1>9, <3>1
  <2>2. CASE i # n
    <3>1. i \in 1 .. n - 1 /\ i + 1 \in 1 .. n
      BY <1>1, <2>2
    <3>2. r[i] = q[i] /\ r[i + 1] = q[i + 1] /\ q[i] \in Stage
      BY <1>1, <1>2, <3>1
    <3>3. q[i] # p.at
      <4>1. q[i] \in p.seen
        BY <1>3, <3>1
      <4> QED
        BY <1>7, <4>1
    <3>4. Hop(w, q[i], q[i + 1], p.scenario)
      BY <1>3, <3>1
    <3> QED
      BY <1>9, <3>2, <3>3, <3>4 DEF Hop
  <2> QED
    BY <2>1, <2>2
<1>11. \A i, j \in 1 .. n + 1 : r[i] = r[j] => i = j
  <2>1. \A i \in 1 .. n : r[i] # x.at
    BY <1>2, <1>4, <1>5
  <2>2. \A i \in 1 .. n + 1 : i \in 1 .. n \/ i = n + 1
    BY <1>1
  <2> HIDE DEF r, n
  <2> QED
    BY <1>2, <1>3, <2>1, <2>2
<1>12. \A s \in Stage : s \notin x.seen => x.scenario.script[s] = <<>> /\ x.scenario.pick[s] = 0
  BY <1>3, <1>4, <1>9
<1>13. Len(r) - 1 = n /\ Len(r) \in 1 .. DryStages /\ 1 \in 1 .. n
  BY <1>1, <1>2, StagesCounted
<1>14. r[1] = 1 /\ r[Len(r)] = x.at
  BY <1>2, <1>3, <1>13
<1>15. x.seen = {r[i] : i \in 1 .. Len(r) - 1}
  <2> HIDE DEF r, n
  <2> QED
    BY <1>2, <1>5, <1>13
<1>16. Along(w, r, x.scenario)
  <2> HIDE DEF r, n
  <2> QED
    BY <1>2, <1>10, <1>11, <1>13, <1>14 DEF Along
<1> HIDE DEF r
<1> QED
  BY <1>2, <1>12, <1>14, <1>15, <1>16 DEF Trail, r

(* Every path has a trail of its length. *)
LEMMA TrailsToAll ==
  ASSUME NEW w \in [Stage -> Definition], NEW k \in 0 .. DryStages - 1, NEW x, In(Levels(w)[k], x)
  PROVE  \E q : Trail(w, q, x) /\ Len(q) = k + 1
<1> DEFINE T == {m \in Nat : m <= DryStages - 1 =>
                   \A y : In(Levels(w)[m], y) => \E q : Trail(w, q, y) /\ Len(q) = m + 1}
<1>1. 0 \in T
  <2> DEFINE q == <<1>>
  <2>1. q \in Seq(Stage) /\ Len(q) = 1 /\ q[1] = 1 /\ Len(q) - 1 = 0
    BY StagesCounted
  <2>2. /\ FirstPath.at = 1 /\ FirstPath.seen = {}
        /\ \A s \in Stage : FirstPath.scenario.script[s] = <<>> /\ FirstPath.scenario.pick[s] = 0
    BY DEF FirstPath, NoScenario
  <2> HIDE DEF q
  <2>3. /\ \A i \in 1 .. Len(q) : i = 1
        /\ \A i \in 1 .. Len(q) - 1 : FALSE
        /\ Len(q) \in 1 .. DryStages
    BY <2>1, StagesCounted
  <2>4. Along(w, q, FirstPath.scenario)
    BY <2>1, <2>3 DEF Along
  <2>5. FirstPath.seen = {q[i] : i \in 1 .. Len(q) - 1}
    BY <2>2, <2>3
  <2>6. Trail(w, q, FirstPath)
    BY <2>1, <2>2, <2>4, <2>5 DEF Trail
  <2>7. \A y : In(Levels(w)[0], y) => y = FirstPath
    BY LevelGoesOn
  <2> QED
    BY <2>1, <2>6, <2>7
<1>2. ASSUME NEW m \in Nat, m \in T PROVE m + 1 \in T
  <2> SUFFICES ASSUME m + 1 <= DryStages - 1, NEW y, In(Levels(w)[m + 1], y)
               PROVE  \E q : Trail(w, q, y) /\ Len(q) = (m + 1) + 1
    OBVIOUS
  <2>1. m + 1 \in 1 .. DryStages - 1 /\ (m + 1) - 1 = m /\ m <= DryStages - 1
    BY StagesCounted
  <2>2. PICK p \in PathOf : In(Levels(w)[m], p) /\ Extends(w, p, y)
    BY <2>1, LevelGoesOn
  <2>3. y \in PathOf
    BY <2>1, LevelGoesOn
  <2>4. PICK q : Trail(w, q, p) /\ Len(q) = m + 1
    BY <1>2, <2>1, <2>2
  <2>5. Len(q) < DryStages
    BY <2>4, StagesCounted
  <2>6. Trail(w, Append(q, y.at), y) /\ Len(Append(q, y.at)) = Len(q) + 1
    BY <2>2, <2>3, <2>4, <2>5, TrailGoesOn
  <2> QED
    BY <2>4, <2>6
<1>3. Nat \subseteq T
  <2> HIDE DEF T
  <2> QED
    BY <1>1, <1>2, AllNaturals
<1>4. k \in Nat /\ k <= DryStages - 1
  BY StagesCounted
<1> QED
  BY <1>3, <1>4

(* Whatever Stage a path has seen ends a shorter one. *)
LEMMA SeenEarlier ==
  ASSUME NEW w \in [Stage -> Definition], NEW k \in 0 .. DryStages - 1, NEW x, In(Levels(w)[k], x),
         NEW s \in x.seen
  PROVE  \E j \in 0 .. k - 1 : \E p : In(Levels(w)[j], p) /\ p.at = s
<1> DEFINE Earlier(m, r) == \E j \in 0 .. m - 1 : \E p : In(Levels(w)[j], p) /\ p.at = r
           T == {m \in Nat : m <= DryStages - 1 => \A y : In(Levels(w)[m], y) => \A r \in y.seen : Earlier(m, r)}
<1>1. 0 \in T
  <2>1. \A y : In(Levels(w)[0], y) => y.seen = {}
    BY LevelGoesOn DEF FirstPath
  <2> QED
    BY <2>1
<1>2. ASSUME NEW m \in Nat, m \in T PROVE m + 1 \in T
  <2> SUFFICES ASSUME m + 1 <= DryStages - 1, NEW y, In(Levels(w)[m + 1], y), NEW r \in y.seen
               PROVE  Earlier(m + 1, r)
    OBVIOUS
  <2>1. m + 1 \in 1 .. DryStages - 1 /\ (m + 1) - 1 = m /\ m <= DryStages - 1
    BY StagesCounted
  <2>2. PICK p \in PathOf : In(Levels(w)[m], p) /\ Extends(w, p, y)
    BY <2>1, LevelGoesOn
  <2>3. CASE r = p.at
    BY <2>1, <2>2, <2>3
  <2>4. CASE r \in p.seen
    <3>1. Earlier(m, r)
      BY <1>2, <2>1, <2>2, <2>4
    <3>2. \A j \in 0 .. m - 1 : j \in 0 .. (m + 1) - 1
      OBVIOUS
    <3> QED
      BY <3>1, <3>2
  <2>5. r = p.at \/ r \in p.seen
    BY <2>2 DEF Extends
  <2> QED
    BY <2>3, <2>4, <2>5
<1>3. Nat \subseteq T
  <2> HIDE DEF T
  <2> QED
    BY <1>1, <1>2, AllNaturals
<1>4. k \in Nat /\ k <= DryStages - 1
  BY StagesCounted
<1> QED
  BY <1>3, <1>4

--------------------------------------------------------------------------
(* Which Stages the search finds: those some results lead to. *)

(* Successors are Stages. *)
LEMMA SuccessorsTyped ==
  ASSUME NEW w \in [Stage -> Definition], NEW s \in Stage PROVE Successors(w, s) \subseteq Stage
<1>1. w[s] \in Definition
  OBVIOUS
<1>2. (IF IsHandoff(w[s]) THEN ToSet(w[s].targets) ELSE {w[s].pass, w[s].fail}) \subseteq Target
  BY <1>1 DEF Definition, ToSet, Target
<1> QED
  BY <1>2, LeadsTyped DEF Successors

(* Within is what its recursive definition says. *)
LEMMA WithinIs ==
  ASSUME NEW w \in [Stage -> Definition]
  PROVE  /\ Within(w) \in [0 .. DryStages -> SUBSET Stage] /\ Within(w)[0] = {1}
         /\ \A k \in 1 .. DryStages :
              Within(w)[k] = Within(w)[k - 1] \cup UNION {Successors(w, s) : s \in Within(w)[k - 1]}
<1> DEFINE More(S) == S \cup UNION {Successors(w, s) : s \in S}
           g == [k \in Nat |-> [S \in SUBSET Stage |-> More(S)]]
           found[k \in 0 .. DryStages] ==
             IF k = 0 THEN {1} ELSE found[k - 1] \cup UNION {Successors(w, s) : s \in found[k - 1]}
<1>1. g \in [Nat -> [SUBSET Stage -> SUBSET Stage]]
  <2>1. \A S \in SUBSET Stage : More(S) \in SUBSET Stage
    BY SuccessorsTyped
  <2> HIDE DEF More
  <2> QED
    BY <2>1
<1>2. Chains(SUBSET Stage, {1}, g, DryStages) # {}
  <2> HIDE DEF g
  <2>1. {1} \in SUBSET Stage /\ DryStages \in Nat
    BY StagesCounted
  <2> QED
    BY <1>1, <2>1, Iterates
<1>3. PICK f \in [0 .. DryStages -> SUBSET Stage] :
        f[0] = {1} /\ \A k \in 1 .. DryStages : f[k] = g[k][f[k - 1]]
  BY <1>2 DEF Chains
<1>4. \A k \in 1 .. DryStages : f[k] = More(f[k - 1])
  <2> SUFFICES ASSUME NEW k \in 1 .. DryStages PROVE f[k] = More(f[k - 1])
    OBVIOUS
  <2>1. k - 1 \in 0 .. DryStages /\ k \in Nat
    BY StagesCounted
  <2>2. f[k - 1] \in SUBSET Stage
    BY <2>1
  <2>3. g[k][f[k - 1]] = More(f[k - 1])
    BY <2>1, <2>2
  <2> QED
    BY <1>3, <2>3
<1>5. f = [k \in 0 .. DryStages |-> IF k = 0 THEN {1} ELSE More(f[k - 1])]
  <2>1. \A k \in 0 .. DryStages : k # 0 => k \in 1 .. DryStages
    BY StagesCounted
  <2>2. \A k \in 0 .. DryStages : f[k] = IF k = 0 THEN {1} ELSE More(f[k - 1])
    BY <1>3, <1>4, <2>1
  <2> HIDE DEF More
  <2> QED
    BY <2>2
<1>6. found = [k \in 0 .. DryStages |-> IF k = 0 THEN {1} ELSE More(found[k - 1])]
  BY <1>5
<1>7. Within(w) = found
  BY DEF Within
<1> HIDE DEF found
<1>8. found[0] = {1} /\ \A k \in 1 .. DryStages : found[k] = More(found[k - 1])
  <2>1. 0 \in 0 .. DryStages /\ \A k \in 1 .. DryStages : k \in 0 .. DryStages /\ k # 0
    BY StagesCounted
  <2> HIDE DEF More
  <2> QED
    BY <1>6, <2>1
<1> DEFINE T == {k \in Nat : k <= DryStages => found[k] \in SUBSET Stage}
<1>9. 0 \in T
  BY <1>8, StagesCounted
<1>10. ASSUME NEW k \in Nat, k \in T PROVE k + 1 \in T
  <2> SUFFICES ASSUME k + 1 <= DryStages PROVE found[k + 1] \in SUBSET Stage
    OBVIOUS
  <2>1. k + 1 \in 1 .. DryStages /\ (k + 1) - 1 = k /\ found[k] \in SUBSET Stage
    BY <1>10, StagesCounted
  <2>2. found[k + 1] = More(found[k])
    BY <1>8, <2>1
  <2> QED
    BY <2>1, <2>2, SuccessorsTyped
<1>11. Nat \subseteq T
  <2> HIDE DEF T
  <2> QED
    BY <1>9, <1>10, AllNaturals
<1>12. \A k \in 0 .. DryStages : found[k] \in SUBSET Stage
  BY <1>11, StagesCounted
<1>13. found = [k \in 0 .. DryStages |-> found[k]]
  BY <1>6
<1> QED
  BY <1>7, <1>8, <1>12, <1>13

(* A path can be extended to each successor it has not visited. *)
LEMMA GoesFurther ==
  ASSUME NEW w \in [Stage -> Definition], NEW p \in PathOf, NEW s \in Successors(w, p.at),
         s \notin p.seen \cup {p.at}
  PROVE  \E x \in PathOf : Extends(w, p, x) /\ x.at = s
<1> DEFINE d == w[p.at]
           seen == p.seen \cup {p.at}
<1>1. p.at \in Stage /\ d \in Definition /\ seen \in SUBSET Stage /\ p.scenario \in Scenarios /\ s \in Stage
  BY SuccessorsTyped DEF PathOf
<1>2. \A sc \in Scenarios : Edged(p, s, sc) \in PathOf
  BY <1>1 DEF Edged, PathOf
<1>3. \A sc : Edged(p, s, sc).at = s /\ Edged(p, s, sc).seen = seen /\ Edged(p, s, sc).scenario = sc
  BY DEF Edged
<1>4. CASE IsHandoff(d)
  <2> DEFINE sc == [p.scenario EXCEPT !.pick[p.at] = s]
  <2>1. PICK t \in ToSet(d.targets) : s = Leads(p.at, t)
    BY <1>4 DEF Successors
  <2>2. PICK i \in 1 .. Len(d.targets) : d.targets[i] = t
    BY <1>1, <2>1 DEF ToSet, Definition
  <2>3. t \in Stage
    BY <1>1, <2>2 DEF Definition
  <2>4. s = t
    BY <2>1, <2>3, StagesCounted DEF Leads, ToNext
  <2>5. s \in 0 .. DryStages
    BY <1>1, StagesCounted DEF Stage
  <2>6. sc \in Scenarios
    BY <1>1, <2>5 DEF Scenarios
  <2>7. Extends(w, p, Edged(p, s, sc))
    BY <1>1, <1>3, <1>4, <2>2, <2>4 DEF Extends
  <2> QED
    BY <1>2, <1>3, <2>6, <2>7
<1>5. CASE ~IsHandoff(d)
  <2>1. s = Leads(p.at, d.pass) \/ s = Leads(p.at, d.fail)
    BY <1>5 DEF Successors
  <2>2. CASE s = Leads(p.at, d.pass)
    <3>1. Extends(w, p, Edged(p, s, p.scenario))
      BY <1>1, <1>3, <1>5, <2>2 DEF Extends
    <3> QED
      BY <1>1, <1>2, <1>3, <3>1
  <2>3. CASE s = Leads(p.at, d.fail)
    <3> DEFINE sc == [p.scenario EXCEPT !.script[p.at] = Append(@, "fail")]
    <3>1. p.scenario.script[p.at] \in Seq({"fail"})
      BY <1>1 DEF Scenarios
    <3>2. Append(p.scenario.script[p.at], "fail") \in Seq({"fail"})
      BY <3>1
    <3>3. sc \in Scenarios
      BY <1>1, <3>2 DEF Scenarios
    <3>4. Extends(w, p, Edged(p, s, sc))
      BY <1>1, <1>3, <1>5, <2>3 DEF Extends
    <3> QED
      BY <1>2, <1>3, <3>3, <3>4
  <2> QED
    BY <2>1, <2>2, <2>3
<1> QED
  BY <1>4, <1>5

(* The other way round: an edge leads to a successor. *)
LEMMA EdgeToSuccessor ==
  ASSUME NEW w \in [Stage -> Definition], NEW p \in PathOf, NEW x, Extends(w, p, x)
  PROVE  x.at \in Successors(w, p.at)
<1> DEFINE d == w[p.at]
<1>1. p.at \in Stage /\ d \in Definition /\ x.at \in Stage /\ x.at # 0
  BY StagesCounted DEF PathOf, Extends
<1>2. CASE IsHandoff(d)
  <2>1. PICK i \in 1 .. Len(d.targets) : d.targets[i] = x.at
    BY <1>2 DEF Extends
  <2>2. x.at \in ToSet(d.targets)
    <3>1. d.targets \in Seq(Stage)
      BY <1>1 DEF Definition
    <3>2. i \in DOMAIN d.targets
      BY <3>1
    <3> QED
      BY <2>1, <3>2 DEF ToSet
  <2>3. Leads(p.at, x.at) = x.at
    BY <1>1, StagesCounted DEF Leads, ToNext
  <2> QED
    BY <1>1, <1>2, <2>2, <2>3 DEF Successors
<1>3. CASE ~IsHandoff(d)
  <2>1. x.at = Leads(p.at, d.pass) \/ x.at = Leads(p.at, d.fail)
    BY <1>3 DEF Extends
  <2> QED
    BY <1>1, <1>3, <2>1 DEF Successors
<1> QED
  BY <1>2, <1>3

(* More steps lead to no fewer Stages. *)
LEMMA WithinGrows ==
  ASSUME NEW w \in [Stage -> Definition], NEW j \in Nat, NEW k \in 0 .. DryStages, j <= k
  PROVE  Within(w)[j] \subseteq Within(w)[k]
<1>1. \A m \in 0 .. DryStages - 1 : m + 1 \in 1 .. DryStages /\ (m + 1) - 1 = m
  BY StagesCounted
<1>2. \A m \in 0 .. DryStages - 1 : Within(w)[m] \subseteq Within(w)[m + 1]
  BY <1>1, WithinIs
<1> QED
  BY <1>2, StagesCounted, GrownSince

(* A path of k steps ends where k results lead. *)
LEMMA PathsStayWithin ==
  ASSUME NEW w \in [Stage -> Definition], NEW k \in 0 .. DryStages - 1, NEW x, In(Levels(w)[k], x)
  PROVE  x.at \in Within(w)[k]
<1> DEFINE T == {m \in Nat : m <= DryStages - 1 => \A y : In(Levels(w)[m], y) => y.at \in Within(w)[m]}
<1>1. 0 \in T
  BY LevelGoesOn, WithinIs DEF FirstPath
<1>2. ASSUME NEW m \in Nat, m \in T PROVE m + 1 \in T
  <2> SUFFICES ASSUME m + 1 <= DryStages - 1, NEW y, In(Levels(w)[m + 1], y) PROVE y.at \in Within(w)[m + 1]
    OBVIOUS
  <2>1. m + 1 \in 1 .. DryStages - 1 /\ m + 1 \in 1 .. DryStages /\ (m + 1) - 1 = m /\ m <= DryStages - 1
    BY StagesCounted
  <2>2. PICK p \in PathOf : In(Levels(w)[m], p) /\ Extends(w, p, y)
    BY <2>1, LevelGoesOn
  <2>3. p.at \in Within(w)[m]
    BY <1>2, <2>1, <2>2
  <2>4. y.at \in Successors(w, p.at)
    BY <2>2, EdgeToSuccessor
  <2>5. Within(w)[m + 1] = Within(w)[m] \cup UNION {Successors(w, s) : s \in Within(w)[m]}
    BY <2>1, WithinIs
  <2> QED
    BY <2>3, <2>4, <2>5
<1>3. Nat \subseteq T
  <2> HIDE DEF T
  <2> QED
    BY <1>1, <1>2, AllNaturals
<1>4. k \in Nat /\ k <= DryStages - 1
  BY StagesCounted
<1> QED
  BY <1>3, <1>4

(* A Stage that is found in k steps, and not before, ends a path of k steps. *)
LEMMA PathToNew ==
  ASSUME NEW w \in [Stage -> Definition], NEW k \in 0 .. DryStages - 1, NEW s \in Within(w)[k],
         k # 0 => s \notin Within(w)[k - 1]
  PROVE  \E x : In(Levels(w)[k], x) /\ x.at = s
<1> DEFINE Fresh(m, r) == r \in Within(w)[m] /\ (m # 0 => r \notin Within(w)[m - 1])
           Old(m) == IF m = 0 THEN {} ELSE Within(w)[m - 1]
           T == {m \in Nat : m <= DryStages - 1 =>
                   \A r : Fresh(m, r) => \E x : In(Levels(w)[m], x) /\ x.at = r /\ x.seen \subseteq Old(m)}
<1>1. 0 \in T
  <2>1. In(Levels(w)[0], FirstPath) /\ Within(w)[0] = {1} /\ FirstPath.at = 1 /\ FirstPath.seen = {}
    BY LevelGoesOn, WithinIs DEF FirstPath
  <2> QED
    BY <2>1
<1>2. ASSUME NEW m \in Nat, m \in T PROVE m + 1 \in T
  <2> SUFFICES ASSUME m + 1 <= DryStages - 1, NEW r, Fresh(m + 1, r)
               PROVE  \E x : In(Levels(w)[m + 1], x) /\ x.at = r /\ x.seen \subseteq Old(m + 1)
    OBVIOUS
  <2>1. /\ m + 1 \in 1 .. DryStages - 1 /\ m + 1 \in 1 .. DryStages /\ (m + 1) - 1 = m
        /\ m <= DryStages - 1 /\ m \in 0 .. DryStages
    BY StagesCounted
  <2>2. r \in Within(w)[m + 1] /\ r \notin Within(w)[m]
    BY <2>1
  <2>3. Within(w)[m + 1] = Within(w)[m] \cup UNION {Successors(w, u) : u \in Within(w)[m]}
    BY <2>1, WithinIs
  <2>4. PICK u \in Within(w)[m] : r \in Successors(w, u)
    BY <2>2, <2>3
  <2>5. Fresh(m, u)
    <3> SUFFICES ASSUME m # 0, u \in Within(w)[m - 1] PROVE FALSE
      OBVIOUS
    <3>1. m \in 1 .. DryStages
      BY <2>1
    <3>2. Within(w)[m] = Within(w)[m - 1] \cup UNION {Successors(w, v) : v \in Within(w)[m - 1]}
      BY <3>1, WithinIs
    <3> QED
      BY <2>2, <2>4, <3>2
  <2>6. PICK p : In(Levels(w)[m], p) /\ p.at = u /\ p.seen \subseteq Old(m)
    BY <1>2, <2>1, <2>5
  <2>7. p \in PathOf
    BY <2>1, <2>6, LevelGoesOn
  <2>8. Old(m) \subseteq Within(w)[m]
    <3>1. CASE m = 0
      BY <3>1
    <3>2. CASE m # 0
      <4>1. m - 1 \in Nat /\ m - 1 <= m
        BY <3>2
      <4>2. Within(w)[m - 1] \subseteq Within(w)[m]
        BY <2>1, <4>1, WithinGrows
      <4> QED
        BY <3>2, <4>2
    <3> QED
      BY <3>1, <3>2
  <2>9. r \notin p.seen \cup {p.at}
    BY <2>2, <2>4, <2>6, <2>8
  <2>10. PICK x \in PathOf : Extends(w, p, x) /\ x.at = r
    BY <2>4, <2>6, <2>7, <2>9, GoesFurther
  <2>11. In(Levels(w)[m + 1], x)
    BY <2>1, <2>6, <2>7, <2>10, LevelGoesOn
  <2>12. x.seen \subseteq Within(w)[m]
    BY <2>4, <2>6, <2>8, <2>10 DEF Extends
  <2>13. Old(m + 1) = Within(w)[m]
    BY <2>1
  <2> QED
    BY <2>10, <2>11, <2>12, <2>13
<1>3. Nat \subseteq T
  <2> HIDE DEF T
  <2> QED
    BY <1>1, <1>2, AllNaturals
<1>4. k \in Nat /\ k <= DryStages - 1
  BY StagesCounted
<1>5. k \in T /\ Fresh(k, s)
  BY <1>3, <1>4
<1> QED
  BY <1>4, <1>5

(* The search finds just the Stages that some results lead to. *)
LEMMA SearchFindsAll ==
  ASSUME NEW w \in [Stage -> Definition], NEW s
  PROVE  s \in Reachable(w) <=> \E k \in 0 .. DryStages - 1 : \E x : In(Levels(w)[k], x) /\ x.at = s
<1>1. ASSUME NEW k \in 0 .. DryStages - 1, NEW x, In(Levels(w)[k], x), x.at = s PROVE s \in Reachable(w)
  <2>1. s \in Within(w)[k]
    BY <1>1, PathsStayWithin
  <2>2. k \in Nat /\ DryStages \in 0 .. DryStages /\ k <= DryStages
    BY StagesCounted
  <2>3. Within(w)[k] \subseteq Within(w)[DryStages]
    BY <2>2, WithinGrows
  <2> QED
    BY <2>1, <2>3 DEF Reachable
<1>2. ASSUME s \in Reachable(w)
      PROVE  \E k \in 0 .. DryStages - 1 : \E x : In(Levels(w)[k], x) /\ x.at = s
  <2> DEFINE F == Within(w)
             n == DryStages
  <2>1. F[n - 1] = F[n]
    <3>1. F \in [0 .. n -> SUBSET Stage] /\ F[0] # {}
      BY WithinIs
    <3>2. \A k \in 0 .. n - 1 : k + 1 \in 1 .. n /\ (k + 1) - 1 = k
      BY StagesCounted
    <3>3. \A k \in 0 .. n - 1 : F[k + 1] = F[k] \cup UNION {Successors(w, u) : u \in F[k]}
      BY <3>2, WithinIs
    <3>4. \A k \in 0 .. n - 2 : k \in 0 .. n - 1 /\ k + 1 \in 0 .. n - 1 /\ (k + 1) + 1 = k + 2
      BY StagesCounted
    <3>5. \A k \in 0 .. n - 2 : F[k + 2] = F[k + 1] \cup UNION {Successors(w, u) : u \in F[k + 1]}
      <4> SUFFICES ASSUME NEW k \in 0 .. n - 2
                   PROVE  F[k + 2] = F[k + 1] \cup UNION {Successors(w, u) : u \in F[k + 1]}
        OBVIOUS
      <4>1. F[(k + 1) + 1] = F[k + 1] \cup UNION {Successors(w, u) : u \in F[k + 1]}
        BY <3>3, <3>4
      <4> QED
        BY <3>4, <4>1
    <3>6. \A k \in 0 .. n - 1 : F[k] \subseteq F[k + 1]
      BY <3>3
    <3>7. \A k \in 0 .. n - 2 : F[k] = F[k + 1] => F[k + 1] = F[k + 2]
      BY <3>3, <3>4, <3>5
    <3> HIDE DEF F, n
    <3>8. n \in Nat \ {0} /\ IsFiniteSet(Stage) /\ Cardinality(Stage) = n
      BY StagesCounted DEF n
    <3> QED
      BY <3>1, <3>6, <3>7, <3>8, GrowthEnds
  <2> DEFINE T == {k \in Nat : k <= n - 1 /\ s \in F[k]}
  <2>2. n - 1 \in T
    BY <1>2, <2>1, StagesCounted DEF Reachable
  <2>3. PICK k \in T : \A j \in T : k <= j
    <3>1. T \in SUBSET Nat /\ T # {}
      BY <2>2
    <3> HIDE DEF T
    <3> QED
      BY <3>1, LeastOf
  <2>4. k \in 0 .. n - 1 /\ s \in Within(w)[k]
    BY StagesCounted
  <2>5. k # 0 => s \notin Within(w)[k - 1]
    <3> SUFFICES ASSUME k # 0, s \in Within(w)[k - 1] PROVE FALSE
      OBVIOUS
    <3>1. k - 1 \in T
      <4>1. k \in Nat /\ k - 1 \in Nat /\ k - 1 <= n - 1
        BY <2>4, StagesCounted
      <4> QED
        BY <4>1
    <3> HIDE DEF T
    <3> QED
      BY <2>3, <2>4, <3>1
  <2> QED
    BY <2>4, <2>5, PathToNew
<1> QED
  BY <1>1, <1>2
--------------------------------------------------------------------------
(* From where a run that only passes completes. *)

(* PassingIn is what its recursive definition says. *)
LEMMA PassingInIs ==
  ASSUME NEW w \in [Stage -> Definition]
  PROVE  /\ PassingIn(w) \in [0 .. DryStages -> SUBSET Stage]
         /\ PassingIn(w)[0] = {s \in Stage : Completes(w, s)}
         /\ \A k \in 1 .. DryStages :
              PassingIn(w)[k] = PassingIn(w)[k - 1] \cup {s \in Stage : Leads(s, w[s].pass) \in PassingIn(w)[k - 1]}
<1> DEFINE More(S) == S \cup {s \in Stage : Leads(s, w[s].pass) \in S}
           Finals == {s \in Stage : Completes(w, s)}
           g == [k \in Nat |-> [S \in SUBSET Stage |-> More(S)]]
           out[k \in 0 .. DryStages] == IF k = 0 THEN Finals ELSE More(out[k - 1])
<1>1. g \in [Nat -> [SUBSET Stage -> SUBSET Stage]]
  OBVIOUS
<1>2. Chains(SUBSET Stage, Finals, g, DryStages) # {}
  <2>1. Finals \in SUBSET Stage /\ DryStages \in Nat
    BY StagesCounted
  <2> HIDE DEF g, Finals
  <2> QED
    BY <1>1, <2>1, Iterates
<1>3. PICK f \in [0 .. DryStages -> SUBSET Stage] :
        f[0] = Finals /\ \A k \in 1 .. DryStages : f[k] = g[k][f[k - 1]]
  BY <1>2 DEF Chains
<1>4. \A k \in 1 .. DryStages : f[k] = More(f[k - 1])
  <2> SUFFICES ASSUME NEW k \in 1 .. DryStages PROVE f[k] = More(f[k - 1])
    OBVIOUS
  <2>1. k - 1 \in 0 .. DryStages /\ k \in Nat
    BY StagesCounted
  <2>2. f[k - 1] \in SUBSET Stage
    BY <2>1
  <2>3. g[k][f[k - 1]] = More(f[k - 1])
    BY <2>1, <2>2
  <2> QED
    BY <1>3, <2>3
<1>5. f = [k \in 0 .. DryStages |-> IF k = 0 THEN Finals ELSE More(f[k - 1])]
  <2>1. \A k \in 0 .. DryStages : k # 0 => k \in 1 .. DryStages
    BY StagesCounted
  <2>2. \A k \in 0 .. DryStages : f[k] = IF k = 0 THEN Finals ELSE More(f[k - 1])
    BY <1>3, <1>4, <2>1
  <2> HIDE DEF More, Finals
  <2> QED
    BY <2>2
<1>6. out = [k \in 0 .. DryStages |-> IF k = 0 THEN Finals ELSE More(out[k - 1])]
  <2> HIDE DEF More, Finals
  <2> QED
    BY <1>5
<1>7. PassingIn(w) = out
  BY DEF PassingIn
<1> HIDE DEF out
<1>8. out[0] = Finals /\ \A k \in 1 .. DryStages : out[k] = More(out[k - 1])
  <2>1. 0 \in 0 .. DryStages /\ \A k \in 1 .. DryStages : k \in 0 .. DryStages /\ k # 0
    BY StagesCounted
  <2> HIDE DEF More, Finals
  <2> QED
    BY <1>6, <2>1
<1> DEFINE T == {k \in Nat : k <= DryStages => out[k] \in SUBSET Stage}
<1>9. 0 \in T
  BY <1>8
<1>10. ASSUME NEW k \in Nat, k \in T PROVE k + 1 \in T
  <2> SUFFICES ASSUME k + 1 <= DryStages PROVE out[k + 1] \in SUBSET Stage
    OBVIOUS
  <2>1. k + 1 \in 1 .. DryStages /\ (k + 1) - 1 = k /\ out[k] \in SUBSET Stage
    BY <1>10, StagesCounted
  <2>2. out[k + 1] = More(out[k])
    BY <1>8, <2>1
  <2> QED
    BY <2>1, <2>2
<1>11. Nat \subseteq T
  <2> HIDE DEF T
  <2> QED
    BY <1>9, <1>10, AllNaturals
<1>12. \A k \in 0 .. DryStages : out[k] \in SUBSET Stage
  BY <1>11, StagesCounted
<1>13. out = [k \in 0 .. DryStages |-> out[k]]
  BY <1>6
<1> QED
  BY <1>7, <1>8, <1>12, <1>13

(* It completes right there, or from where the Stage leads: N steps are enough for N     *)
(* Stages.                                                                  *)
LEMMA PassesOutIs ==
  ASSUME NEW w \in [Stage -> Definition], NEW s \in Stage
  PROVE  s \in PassesOut(w) <=> Completes(w, s) \/ Leads(s, w[s].pass) \in PassesOut(w)
<1> DEFINE F == PassingIn(w)
           n == DryStages
           More(S) == S \cup {r \in Stage : Leads(r, w[r].pass) \in S}
<1>1. F \in [0 .. n -> SUBSET Stage] /\ F[0] = {r \in Stage : Completes(w, r)}
  BY PassingInIs
<1>2. \A k \in 0 .. n - 1 : F[k + 1] = More(F[k])
  <2>1. \A k \in 0 .. n - 1 : k + 1 \in 1 .. n /\ (k + 1) - 1 = k
    BY StagesCounted
  <2> QED
    BY <2>1, PassingInIs
<1>3. n \in Nat \ {0}
  BY StagesCounted
<1>4. \A k \in 0 .. n - 1 : F[k] \subseteq F[k + 1]
  BY <1>2
<1>5. F[n - 1] = F[n]
  <2>1. F[0] # {} \/ F[0] = F[1]
    <3> SUFFICES ASSUME F[0] = {} PROVE F[1] = {}
      OBVIOUS
    <3>1. 0 \in 0 .. n - 1 /\ 0 + 1 = 1
      BY <1>3
    <3>2. F[1] = More(F[0])
      BY <1>2, <3>1
    <3> QED
      BY <3>2
  <2>2. \A k \in 0 .. n - 2 : F[k] = F[k + 1] => F[k + 1] = F[k + 2]
    <3> SUFFICES ASSUME NEW k \in 0 .. n - 2, F[k] = F[k + 1] PROVE F[k + 1] = F[k + 2]
      OBVIOUS
    <3>1. k \in 0 .. n - 1 /\ k + 1 \in 0 .. n - 1 /\ (k + 1) + 1 = k + 2
      BY <1>3
    <3>2. F[k + 1] = More(F[k]) /\ F[(k + 1) + 1] = More(F[k + 1])
      BY <1>2, <3>1
    <3> HIDE DEF More, F
    <3> QED
      BY <3>1, <3>2
  <2>3. IsFiniteSet(Stage) /\ Cardinality(Stage) = n
    BY StagesCounted
  <2>4. F \in [0 .. n -> SUBSET Stage]
    BY <1>1
  <2> HIDE DEF F, n, More
  <2> QED
    BY <1>3, <1>4, <2>1, <2>2, <2>3, <2>4, GrowthEnds
<1>6. F[n] = PassesOut(w)
  BY DEF PassesOut
<1>7. \A k \in Nat : k <= n => F[k] \subseteq F[n]
  <2> SUFFICES ASSUME NEW k \in Nat, k <= n PROVE F[k] \subseteq F[n]
    OBVIOUS
  <2>1. n \in 0 .. n /\ n \in Nat
    BY <1>3
  <2> HIDE DEF F, n
  <2> QED
    BY <1>4, <2>1, GrownSince
<1>8. ASSUME Completes(w, s) PROVE s \in F[n]
  <2>1. s \in F[0]
    BY <1>1, <1>8
  <2> HIDE DEF F, n
  <2> QED
    BY <1>3, <1>7, <2>1
<1>9. ASSUME Leads(s, w[s].pass) \in F[n] PROVE s \in F[n]
  <2>1. n - 1 \in 0 .. n - 1 /\ (n - 1) + 1 = n
    BY <1>3
  <2>2. F[n] = More(F[n - 1])
    BY <1>2, <2>1
  <2> QED
    BY <1>5, <1>9, <2>2
<1>10. ASSUME s \in F[n] PROVE Completes(w, s) \/ Leads(s, w[s].pass) \in F[n]
  <2> DEFINE T == {k \in Nat : k <= n /\ s \in F[k]}
  <2>1. PICK k \in T : \A j \in T : k <= j
    <3>1. n \in T /\ T \in SUBSET Nat
      BY <1>3, <1>10
    <3> HIDE DEF T
    <3> QED
      BY <3>1, LeastOf
  <2>2. k \in Nat /\ k <= n /\ s \in F[k]
    OBVIOUS
  <2>3. CASE k = 0
    BY <1>1, <2>2, <2>3
  <2>4. CASE k # 0
    <3>1. k - 1 \in 0 .. n - 1 /\ k - 1 \in Nat /\ k - 1 <= n /\ (k - 1) + 1 = k /\ ~(k <= k - 1)
      BY <1>3, <2>2, <2>4
    <3>2. s \notin F[k - 1]
      <4>1. k - 1 \notin T
        <5> HIDE DEF T
        <5> QED
          BY <2>1, <3>1
      <4> QED
        BY <3>1, <4>1
    <3>3. F[k] = More(F[k - 1])
      BY <1>2, <3>1
    <3>4. Leads(s, w[s].pass) \in F[k - 1]
      BY <2>2, <3>2, <3>3
    <3> HIDE DEF F, n
    <3> QED
      BY <1>7, <3>1, <3>4
  <2> QED
    BY <2>3, <2>4
<1> QED
  BY <1>6, <1>8, <1>9, <1>10
--------------------------------------------------------------------------
(* The cases. *)

(* Paths has the paths of all levels, those of a level behind those of the levels before. *)
LEMMA PathsAre ==
  ASSUME NEW w \in [Stage -> Definition]
  PROVE  /\ Paths(w) \in Seq(PathOf)
         /\ \A k \in 0 .. DryStages - 1 : \A x : In(Levels(w)[k], x) => In(Paths(w), x)
         /\ \A i \in 1 .. Len(Paths(w)) : \E k \in 0 .. DryStages - 1 :
              /\ In(Levels(w)[k], Paths(w)[i])
              /\ \A c \in 0 .. k - 1 : \A y : In(Levels(w)[c], y) => \E j \in 1 .. i - 1 : Paths(w)[j] = y
<1> DEFINE n == DryStages
           ss == [k \in 1 .. n |-> Levels(w)[k - 1]]
           all == Paths(w)
<1>1. n \in Nat \ {0} /\ \A k \in 1 .. n : k - 1 \in 0 .. n - 1
  BY StagesCounted
<1>2. \A k \in 1 .. n : ss[k] = Levels(w)[k - 1] /\ ss[k] \in Seq(PathOf)
  BY <1>1, LevelsAre
<1>3. ss \in [1 .. n -> Seq(PathOf)]
  BY <1>2
<1>4. all \in Seq(PathOf) /\ InOrder(all, ss, n)
  <2>1. all = FlattenSeq(ss)
    BY DEF Paths
  <2> HIDE DEF ss, n, all
  <2> QED
    BY <1>1, <1>3, <2>1, FlattensInOrder
<1> HIDE DEF ss, all
<1>5. ASSUME NEW k \in 0 .. n - 1, NEW x, In(Levels(w)[k], x) PROVE In(all, x)
  <2>1. k + 1 \in 1 .. n /\ (k + 1) - 1 = k
    BY <1>1
  <2>2. PICK b \in 1 .. Len(ss[k + 1]) : ss[k + 1][b] = x
    BY <1>2, <1>5, <2>1 DEF In
  <2> QED
    BY <1>4, <2>1, <2>2 DEF InOrder, In
<1>6. ASSUME NEW i \in 1 .. Len(all)
      PROVE  \E k \in 0 .. n - 1 : /\ In(Levels(w)[k], all[i])
                                   /\ \A c \in 0 .. k - 1 : \A y : In(Levels(w)[c], y) => \E j \in 1 .. i - 1 : all[j] = y
  <2>1. PICK a \in 1 .. n : \E b \in 1 .. Len(ss[a]) :
           /\ all[i] = ss[a][b]
           /\ \A c \in 1 .. a - 1 : \A d \in 1 .. Len(ss[c]) : \E j \in 1 .. i - 1 : all[j] = ss[c][d]
    BY <1>4 DEF InOrder
  <2>2. a - 1 \in 0 .. n - 1 /\ In(Levels(w)[a - 1], all[i])
    BY <1>1, <1>2, <2>1 DEF In
  <2>3. ASSUME NEW c \in 0 .. (a - 1) - 1, NEW y, In(Levels(w)[c], y) PROVE \E j \in 1 .. i - 1 : all[j] = y
    <3>1. c + 1 \in 1 .. a - 1 /\ c + 1 \in 1 .. n /\ (c + 1) - 1 = c
      BY <1>1
    <3>2. PICK d \in 1 .. Len(ss[c + 1]) : ss[c + 1][d] = y
      BY <1>2, <2>3, <3>1 DEF In
    <3> QED
      BY <2>1, <3>1, <3>2
  <2> QED
    BY <2>2, <2>3
<1> QED
  BY <1>4, <1>5, <1>6 DEF all

(* The path whose scenario the cases of a Stage begin with: none is shorter. *)
FirstSpot(w, s) == Paths(w)[Min(Reaching(Paths(w), s))]
LEMMA FirstIs ==
  ASSUME NEW w \in [Stage -> Definition], NEW s \in Stage
  PROVE  /\ Reaching(Paths(w), s) # {} <=> s \in Reachable(w)
         /\ s \in Reachable(w) => \E k \in 0 .. DryStages - 1 :
              /\ In(Levels(w)[k], FirstSpot(w, s)) /\ FirstSpot(w, s).at = s
              /\ \A c \in 0 .. k - 1 : \A y : In(Levels(w)[c], y) => y.at # s
<1> DEFINE R == Reaching(Paths(w), s)
<1>1. R \subseteq 1 .. Len(Paths(w)) /\ Len(Paths(w)) \in Nat
  BY PathsAre DEF Reaching
<1>2. ASSUME R # {} PROVE s \in Reachable(w)
  <2>1. PICK i \in 1 .. Len(Paths(w)) : Paths(w)[i].at = s
    BY <1>2 DEF Reaching
  <2>2. PICK k \in 0 .. DryStages - 1 : In(Levels(w)[k], Paths(w)[i])
    BY PathsAre
  <2> QED
    BY <2>1, <2>2, SearchFindsAll
<1>3. ASSUME s \in Reachable(w) PROVE R # {}
  <2>1. PICK k \in 0 .. DryStages - 1 : \E x : In(Levels(w)[k], x) /\ x.at = s
    BY <1>3, SearchFindsAll
  <2>2. PICK x : In(Levels(w)[k], x) /\ x.at = s
    BY <2>1
  <2>3. In(Paths(w), x)
    BY <2>2, PathsAre
  <2> QED
    BY <2>2, <2>3 DEF In, Reaching
<1>4. ASSUME R # {}
      PROVE  \E k \in 0 .. DryStages - 1 :
               /\ In(Levels(w)[k], FirstSpot(w, s)) /\ FirstSpot(w, s).at = s
               /\ \A c \in 0 .. k - 1 : \A y : In(Levels(w)[c], y) => y.at # s
  <2> DEFINE i == Min(R)
  <2>1. i \in R /\ \A j \in R : i <= j
    <3>1. R \in SUBSET Nat
      BY <1>1
    <3> HIDE DEF R
    <3> QED
      BY <1>4, <3>1, MinIs
  <2>2. i \in 1 .. Len(Paths(w)) /\ FirstSpot(w, s) = Paths(w)[i] /\ Paths(w)[i].at = s
    BY <2>1 DEF Reaching, FirstSpot
  <2> HIDE DEF i
  <2>3. PICK k \in 0 .. DryStages - 1 :
          /\ In(Levels(w)[k], Paths(w)[i])
          /\ \A c \in 0 .. k - 1 : \A y : In(Levels(w)[c], y) => \E j \in 1 .. i - 1 : Paths(w)[j] = y
    BY <2>2, PathsAre
  <2>4. ASSUME NEW c \in 0 .. k - 1, NEW y, In(Levels(w)[c], y), y.at = s PROVE FALSE
    <3>1. PICK j \in 1 .. i - 1 : Paths(w)[j] = y
      BY <2>3, <2>4
    <3>2. j \in 1 .. Len(Paths(w)) /\ ~(i <= j)
      BY <1>1, <2>2
    <3>3. j \in R
      BY <2>4, <3>1, <3>2 DEF Reaching
    <3> HIDE DEF R
    <3> QED
      BY <2>1, <3>2, <3>3
  <2> QED
    BY <2>2, <2>3, <2>4
<1> QED
  BY <1>2, <1>3, <1>4
Statuses == {"pass", "fail", "error"}
Scripts == [script : [Stage -> Seq(Statuses)], pick : [Stage -> 0 .. DryStages]]
CaseOf == [stage : 0 .. DryStages, status : Statuses, scenario : Scripts, expected : BOOLEAN]

(* What a case with a Stage says: along its scenario the engine comes to that Stage,    *)
(* which then has the result it is named for, and passes afterwards unless it stops.     *)
Named(w, c) ==
  /\ c.stage \in Stage /\ c.status \in {"fail", "error"}
  /\ c.expected = (StageTarget(w[c.stage], c.status) # ToStop)
  /\ c.scenario.script[c.stage] = IF c.expected THEN <<c.status, "pass">> ELSE <<c.status>>
  /\ \E q : Along(w, q, c.scenario) /\ q[Len(q)] = c.stage
CaseOK(w, c) == c \in CaseOf /\ (c = HappyPath \/ Named(w, c))

(* What a path scripts is a script. *)
LEMMA ScenarioIsScript == Scenarios \subseteq Scripts
<1> SUFFICES ASSUME NEW sc \in Scenarios PROVE sc \in Scripts
  OBVIOUS
<1>1. ASSUME NEW t \in Seq({"fail"}) PROVE t \in Seq(Statuses)
  <2>1. t \in [1 .. Len(t) -> {"fail"}] /\ Len(t) \in Nat
    OBVIOUS
  <2>2. t \in [1 .. Len(t) -> Statuses]
    BY <2>1 DEF Statuses
  <2> QED
    BY <2>1, <2>2, SeqDef
<1>2. sc.script \in [Stage -> Seq(Statuses)]
  BY <1>1 DEF Scenarios
<1> QED
  BY <1>2 DEF Scenarios, Scripts

(* The failing case at the end of a path says what it should. *)
LEMMA FailingIs ==
  ASSUME NEW w \in [Stage -> Definition], NEW result \in {"fail", "error"}, NEW x \in PathOf,
         NEW q, Trail(w, q, x)
  PROVE  LET c == Failing(w, x.at, result, x.scenario) IN
         /\ CaseOK(w, c) /\ Named(w, c) /\ c.stage = x.at /\ c.status = result
         /\ \A s \in Stage : s # x.at => c.scenario.script[s] = x.scenario.script[s]
<1> DEFINE s == x.at
           c == Failing(w, s, result, x.scenario)
           stops == StageTarget(w[s], result) = ToStop
           told == IF stops THEN <<result>> ELSE <<result, "pass">>
<1>1. s \in Stage /\ x.scenario \in Scenarios /\ x.scenario \in Scripts
  BY ScenarioIsScript DEF PathOf
<1>2. s \notin x.seen
  <2>1. /\ q[Len(q)] = s /\ x.seen = {q[i] : i \in 1 .. Len(q) - 1} /\ Len(q) \in Nat /\ Len(q) >= 1
        /\ \A i, j \in 1 .. Len(q) : q[i] = q[j] => i = j
    BY StagesCounted DEF Trail, Along
  <2>2. \A i \in 1 .. Len(q) - 1 : i \in 1 .. Len(q) /\ Len(q) \in 1 .. Len(q) /\ i # Len(q)
    BY <2>1
  <2> QED
    BY <2>1, <2>2
<1>3. x.scenario.script[s] = <<>>
  BY <1>1, <1>2 DEF Trail
<1>4. told \in Seq(Statuses) /\ x.scenario.script[s] \o told = told
  <2>1. <<result>> \in Seq(Statuses) /\ <<result, "pass">> \in Seq(Statuses)
    BY DEF Statuses
  <2>2. told \in Seq(Statuses)
    <3>1. CASE stops
      BY <2>1, <3>1
    <3>2. CASE ~stops
      BY <2>1, <3>2
    <3> QED
      BY <3>1, <3>2
  <2>3. <<>> \o told = told
    <3> HIDE DEF told
    <3> QED
      BY <2>2
  <2> QED
    BY <1>3, <2>2, <2>3
<1> DEFINE sc == [x.scenario EXCEPT !.script[s] = told]
<1>5. c = [stage |-> s, status |-> result, scenario |-> sc, expected |-> ~stops]
  <2>1. [x.scenario EXCEPT !.script[s] = @ \o told] = sc
    BY <1>4
  <2> QED
    BY <2>1 DEF Failing, Case
<1>6. /\ sc \in Scripts /\ sc.pick = x.scenario.pick
      /\ sc.script = [x.scenario.script EXCEPT ![s] = told]
  <2> HIDE DEF told
  <2> QED
    BY <1>1, <1>4 DEF Scripts
<1>7. sc.script[s] = told /\ \A r \in Stage : r # s => sc.script[r] = x.scenario.script[r]
  <2>1. x.scenario.script \in [Stage -> Seq(Statuses)]
    BY <1>1 DEF Scripts
  <2> HIDE DEF told, sc
  <2> QED
    BY <1>1, <1>6, <2>1
<1> HIDE DEF sc
<1>8. Along(w, q, sc)
  <2>1. /\ q \in Seq(Stage) /\ Len(q) \in Nat /\ q[Len(q)] = s
        /\ \A i, j \in 1 .. Len(q) : q[i] = q[j] => i = j
    BY StagesCounted DEF Trail, Along
  <2>2. ASSUME NEW i \in 1 .. Len(q) - 1 PROVE Hop(w, q[i], q[i + 1], sc)
    <3>1. q[i] \in Stage /\ q[i] # s
      <4>1. i \in 1 .. Len(q) /\ Len(q) \in 1 .. Len(q) /\ i # Len(q)
        BY <2>1
      <4> QED
        BY <2>1, <4>1
    <3>2. Hop(w, q[i], q[i + 1], x.scenario)
      BY DEF Trail, Along
    <3> QED
      BY <1>6, <1>7, <3>1, <3>2 DEF Hop
  <2> QED
    BY <2>2 DEF Trail, Along
<1>9. q[Len(q)] = s
  BY DEF Trail
<1>10. c \in CaseOf
  BY <1>1, <1>5, <1>6, StagesCounted DEF CaseOf, Statuses, Stage
<1>11. /\ c.stage = s /\ c.status = result /\ c.scenario = sc /\ c.expected = ~stops
  BY <1>5
<1> HIDE DEF c
<1>12. Named(w, c)
  BY <1>1, <1>7, <1>8, <1>9, <1>11 DEF Named
<1> QED
  BY <1>7, <1>10, <1>11, <1>12 DEF CaseOK, c

(* The happy path is a case, of no Stage. *)
LEMMA HappyIs == HappyPath \in CaseOf /\ HappyPath.stage = 0
<1>1. NoScenario.script = [s \in Stage |-> <<>>] /\ NoScenario.pick = [s \in Stage |-> 0]
  BY DEF NoScenario
<1>2. [s \in Stage |-> <<>>] \in [Stage -> Seq(Statuses)] /\ [s \in Stage |-> 0] \in [Stage -> 0 .. DryStages]
  BY StagesCounted
<1>3. NoScenario \in Scripts
  BY <1>2 DEF NoScenario, Scripts
<1> QED
  BY <1>3, StagesCounted DEF HappyPath, Case, CaseOf, Statuses

(* The cases: the happy path, and behind it cases of reachable Stages, among them the failure of each. *)
LEMMA MatrixIs ==
  ASSUME NEW w \in [Stage -> Definition]
  PROVE  /\ \E rest \in Seq(CaseOf) :
              /\ MatrixCases(w) = <<HappyPath>> \o rest
              /\ \A i \in 1 .. Len(rest) : /\ Named(w, rest[i]) /\ rest[i].stage \in Reachable(w)
              /\ \A s \in Stage \cap Reachable(w) : In(rest, Failing(w, s, "fail", FirstSpot(w, s).scenario))
<1> DEFINE paths == Paths(w)
           Of(s) == IF Reaching(paths, s) = {} THEN <<>>
                    ELSE LET reach == paths[Min(Reaching(paths, s))].scenario
                         IN <<Failing(w, s, "fail", reach), Failing(w, s, "error", reach)>>
           ss == [s \in Stage |-> Of(s)]
           rest == FlattenSeq(ss)
           a(s) == Failing(w, s, "fail", FirstSpot(w, s).scenario)
           b(s) == Failing(w, s, "error", FirstSpot(w, s).scenario)
<1>1. MatrixCases(w) = <<HappyPath>> \o rest
  BY DEF MatrixCases
<1>2. ASSUME NEW s \in Stage
      PROVE  /\ s \notin Reachable(w) => Of(s) = <<>>
             /\ s \in Reachable(w) => Of(s) = <<a(s), b(s)>>
  <2>1. Reaching(paths, s) # {} <=> s \in Reachable(w)
    BY FirstIs
  <2> QED
    BY <2>1 DEF FirstSpot
<1>3. ASSUME NEW s \in Stage, s \in Reachable(w)
      PROVE  /\ a(s) \in CaseOf /\ Named(w, a(s)) /\ a(s).stage = s
             /\ b(s) \in CaseOf /\ Named(w, b(s)) /\ b(s).stage = s
  <2>1. PICK k \in 0 .. DryStages - 1 : In(Levels(w)[k], FirstSpot(w, s)) /\ FirstSpot(w, s).at = s
    BY <1>3, FirstIs
  <2>2. FirstSpot(w, s) \in PathOf
    BY <2>1, LevelGoesOn
  <2>3. PICK q : Trail(w, q, FirstSpot(w, s))
    BY <2>1, TrailsToAll
  <2>4. CaseOK(w, a(s)) /\ Named(w, a(s)) /\ a(s).stage = s
    BY <2>1, <2>2, <2>3, FailingIs
  <2>5. CaseOK(w, b(s)) /\ Named(w, b(s)) /\ b(s).stage = s
    BY <2>1, <2>2, <2>3, FailingIs
  <2> QED
    BY <2>4, <2>5 DEF CaseOK
<1> HIDE DEF a, b, Of
<1>4. ASSUME NEW s \in Stage
      PROVE  /\ Of(s) \in Seq(CaseOf)
             /\ \A i \in 1 .. Len(Of(s)) : Named(w, Of(s)[i]) /\ Of(s)[i].stage \in Reachable(w)
             /\ s \in Reachable(w) => In(Of(s), a(s))
  <2>1. CASE s \in Reachable(w)
    <3>1. Of(s) = <<a(s), b(s)>>
      BY <1>2, <2>1
    <3>2. Len(<<a(s), b(s)>>) = 2 /\ <<a(s), b(s)>>[1] = a(s) /\ <<a(s), b(s)>>[2] = b(s)
      OBVIOUS
    <3>3. \A i \in 1 .. 2 : i = 1 \/ i = 2
      OBVIOUS
    <3>4. Of(s) \in Seq(CaseOf)
      BY <1>3, <2>1, <3>1
    <3>5. In(Of(s), a(s))
      BY <3>1, <3>2 DEF In
    <3>6. \A i \in 1 .. Len(Of(s)) : Of(s)[i] = a(s) \/ Of(s)[i] = b(s)
      BY <3>1, <3>2, <3>3
    <3> QED
      BY <1>3, <2>1, <3>4, <3>5, <3>6
  <2>2. CASE s \notin Reachable(w)
    <3>1. Of(s) = <<>> /\ Len(<<>>) = 0
      BY <1>2, <2>2
    <3> QED
      BY <2>2, <3>1
  <2> QED
    BY <2>1, <2>2
<1>5. ss \in [1 .. DryStages -> Seq(CaseOf)] /\ \A s \in 1 .. DryStages : ss[s] = Of(s)
  BY <1>4 DEF Stage
<1>6. rest \in Seq(CaseOf) /\ InOrder(rest, ss, DryStages)
  <2> HIDE DEF ss
  <2> QED
    BY <1>5, StagesCounted, FlattensInOrder
<1> HIDE DEF rest, ss
<1>7. ASSUME NEW i \in 1 .. Len(rest) PROVE Named(w, rest[i]) /\ rest[i].stage \in Reachable(w)
  <2>1. PICK s \in 1 .. DryStages : \E j \in 1 .. Len(ss[s]) : rest[i] = ss[s][j]
    BY <1>6 DEF InOrder
  <2>2. s \in Stage /\ ss[s] = Of(s)
    BY <1>5 DEF Stage
  <2> QED
    BY <1>4, <2>1, <2>2
<1>8. ASSUME NEW s \in Stage, s \in Reachable(w) PROVE In(rest, a(s))
  <2>1. In(Of(s), a(s))
    BY <1>4, <1>8
  <2>2. s \in 1 .. DryStages /\ ss[s] = Of(s)
    BY <1>5 DEF Stage
  <2>3. PICK j \in 1 .. Len(ss[s]) : ss[s][j] = a(s)
    BY <2>1, <2>2 DEF In
  <2>4. PICK i \in 1 .. Len(rest) : rest[i] = ss[s][j]
    BY <1>6, <2>2, <2>3 DEF InOrder
  <2> QED
    BY <2>3, <2>4 DEF In
<1> QED
  BY <1>1, <1>6, <1>7, <1>8 DEF a
--------------------------------------------------------------------------
(* A case as the engine runs it. *)

EngineOf == [at : 1 .. DryStages + 1, calls : 0 .. MaxSteps, asked : [Stage -> Nat], failures : [Stage -> Nat],
             outcome : {"none", "runs", "stopped", "completed", "limit"}, trace : SUBSET (Stage \X Statuses)]

(* Where a case starts. *)
LEMMA NewEngineTyped ==
  /\ NewEngine \in EngineOf /\ [NewEngine EXCEPT !.outcome = "none"] \in EngineOf
  /\ NewEngine.outcome = "runs" /\ NewEngine.at = 1 /\ NewEngine.calls = 0
  /\ \A s \in Stage : NewEngine.asked[s] = 0 /\ NewEngine.failures[s] = 0
<1>1. [s \in Stage |-> 0] \in [Stage -> Nat]
  OBVIOUS
<1>2. 1 \in 1 .. DryStages + 1 /\ 0 \in 0 .. MaxSteps
  BY StagesCounted
<1>3. NewEngine \in EngineOf
  BY <1>1, <1>2 DEF NewEngine, EngineOf
<1>4. [NewEngine EXCEPT !.outcome = "none"] \in EngineOf
  BY <1>3 DEF EngineOf
<1> QED
  BY <1>3, <1>4 DEF NewEngine

(* What the target of a result does to the engine. *)
After(g, s, t) ==
  \/ g.outcome = "stopped" /\ t = ToStop
  \/ g.outcome = "completed" /\ t = ToDone
  \/ g.outcome = "runs" /\ g.at \in Stage /\ g.at = Leads(s, t)
  \/ g.outcome = "runs" /\ g.at = DryStages + 1 /\ t = ToNext /\ s = DryStages
Gone(e, g, t) ==
  /\ g \in EngineOf /\ g.calls = e.calls /\ g.asked = e.asked /\ g.failures = e.failures /\ g.trace = e.trace
  /\ After(g, e.at, t)
LEMMA GoesIs ==
  ASSUME NEW e \in EngineOf, e.at \in Stage, e.outcome = "runs", NEW t \in Target
  PROVE  Gone(e, Goes(e, t), t)
<1>0. /\ ToNext = 0 /\ ToStop = -1 /\ ToDone = -2 /\ e.at \in Nat /\ e.at >= 1 /\ e.at <= DryStages
      /\ Stage = 1 .. DryStages /\ DryStages \in Nat
  BY StagesCounted DEF ToNext, ToStop, ToDone, Stage
<1>1. CASE t = ToStop
  <2>1. Goes(e, t) = [e EXCEPT !.outcome = "stopped"]
    BY <1>0, <1>1 DEF Goes
  <2> QED
    BY <1>1, <2>1 DEF Gone, After, EngineOf
<1>2. CASE t = ToDone
  <2>1. Goes(e, t) = [e EXCEPT !.outcome = "completed"]
    BY <1>0, <1>2 DEF Goes
  <2> QED
    BY <1>2, <2>1 DEF Gone, After, EngineOf
<1>3. CASE t = ToNext
  <2>1. Goes(e, t) = [e EXCEPT !.at = e.at + 1]
    BY <1>0, <1>3 DEF Goes
  <2>2. e.at + 1 \in 1 .. DryStages + 1 /\ (e.at # DryStages => e.at + 1 \in Stage /\ e.at < DryStages)
    BY <1>0
  <2>3. [e EXCEPT !.at = e.at + 1] \in EngineOf
    BY <2>2 DEF EngineOf
  <2>4. e.at < DryStages => Leads(e.at, t) = e.at + 1
    BY <1>0, <1>3 DEF Leads
  <2> QED
    BY <1>3, <2>1, <2>2, <2>3, <2>4 DEF Gone, After, EngineOf
<1>4. CASE t \in Stage
  <2>1. t # ToNext /\ t # ToStop /\ t # ToDone /\ t \in 1 .. DryStages + 1
    BY <1>0, <1>4
  <2>2. Goes(e, t) = [e EXCEPT !.at = t]
    BY <2>1 DEF Goes
  <2>3. [e EXCEPT !.at = t] \in EngineOf
    BY <2>1 DEF EngineOf
  <2>4. Leads(e.at, t) = t
    BY <1>4, <2>1 DEF Leads
  <2> QED
    BY <1>4, <2>2, <2>3, <2>4 DEF Gone, After, EngineOf
<1> QED
  BY <1>1, <1>2, <1>3, <1>4 DEF Target

(* Every result has a target. *)
LEMMA TargetsTyped ==
  ASSUME NEW w \in [Stage -> Definition], NEW s \in Stage, NEW result \in Statuses
  PROVE  StageTarget(w[s], result) \in Target
<1>1. w[s].pass \in Target /\ w[s].fail \in Target /\ ToNext \in Target /\ ToStop \in Target
  BY DEF Definition, Target
<1> QED
  BY <1>1 DEF StageTarget

DryTyped ==
  /\ workflow \in Candidate /\ workflow \in [Stage -> Definition] /\ closed \in BOOLEAN
  /\ CaseOK(workflow, trial) /\ cases \in Seq(CaseOf) /\ (\A i \in 1 .. Len(cases) : CaseOK(workflow, cases[i]))
  /\ engine \in EngineOf

(* The result the script holds for a Stage: the first time its first one, afterwards its *)
(* last one.                                                                *)
LEMMA ScriptedIs ==
  ASSUME DryTyped, NEW s \in Stage
  PROVE  /\ Scripted(s) \in Statuses
         /\ trial.scenario.script[s] = <<>> => Scripted(s) = "pass"
         /\ \A result : trial.scenario.script[s] = <<result>> => Scripted(s) = result
         /\ \A result : trial.scenario.script[s] = <<result, "pass">> =>
              /\ engine.asked[s] = 0 => Scripted(s) = result
              /\ engine.asked[s] >= 1 => Scripted(s) = "pass"
<1> DEFINE values == trial.scenario.script[s]
           n == engine.asked[s]
           i == IF n < Len(values) THEN n + 1 ELSE Len(values)
<1>1. values \in Seq(Statuses) /\ n \in Nat
  BY DEF DryTyped, CaseOK, CaseOf, Scripts, EngineOf
<1>2. Scripted(s) = IF values = <<>> THEN "pass" ELSE values[i]
  BY DEF Scripted
<1> HIDE DEF values, n
<1>3. values # <<>> => i \in 1 .. Len(values)
  BY <1>1
<1>4. Scripted(s) \in Statuses
  <2> HIDE DEF i
  <2> QED
    BY <1>1, <1>2, <1>3 DEF Statuses
<1>5. ASSUME NEW result, values = <<result>> PROVE Scripted(s) = result
  <2>1. Len(values) = 1 /\ values # <<>> /\ values[1] = result
    BY <1>5
  <2>2. i = 1
    BY <1>1, <2>1
  <2> QED
    BY <1>2, <2>1, <2>2
<1>6. ASSUME NEW result, values = <<result, "pass">>
      PROVE  /\ n = 0 => Scripted(s) = result
             /\ n >= 1 => Scripted(s) = "pass"
  <2>1. Len(values) = 2 /\ values # <<>> /\ values[1] = result /\ values[2] = "pass"
    BY <1>6
  <2>2. (n = 0 => i = 1) /\ (n >= 1 => i = 2)
    BY <1>1, <2>1
  <2> HIDE DEF i
  <2> QED
    BY <1>2, <2>1, <2>2
<1> QED
  BY <1>2, <1>4, <1>5, <1>6 DEF values, n

(* A step of the engine, by what it does. *)
Unchanged == workflow' = workflow /\ cases' = cases /\ trial' = trial /\ closed' = closed
RanAs(s, result, t) ==
  /\ s \in Stage /\ engine.at = s /\ engine.outcome = "runs" /\ t \in Target /\ result \in Statuses /\ Unchanged
  /\ engine' \in EngineOf /\ engine'.calls = engine.calls + 1 /\ engine'.trace = engine.trace \cup {<<s, result>>}
  /\ engine'.asked[s] = engine.asked[s] + 1
  /\ \A r \in Stage : r # s => engine'.asked[r] = engine.asked[r] /\ engine'.failures[r] = engine.failures[r]
  /\ After(engine', s, t)
TargetOf(s) ==
  IF IsHandoff(workflow[s]) /\ Scripted(s) = "pass" THEN Chosen(s) ELSE StageTarget(workflow[s], Scripted(s))

(* RunStage asks the Stage, and goes on from its result. *)
LEMMA RunStageIs ==
  ASSUME DryTyped, RunStage
  PROVE  RanAs(engine.at, Scripted(engine.at), TargetOf(engine.at))
<1> DEFINE s == engine.at
           result == Scripted(s)
           t == TargetOf(s)
           failures == [engine.failures EXCEPT ![s] = CASE result = "pass" -> 0
                                                        [] result = "fail" /\ Current.max > 0 -> @ + 1
                                                        [] OTHER -> @]
           e == [engine EXCEPT !.calls = @ + 1, !.asked = [engine.asked EXCEPT ![s] = @ + 1],
                               !.trace = @ \cup {<<s, result>>}, !.failures = failures]
<1>1. /\ s \in Stage /\ engine.outcome = "runs" /\ engine.calls < MaxSteps /\ engine \in EngineOf
      /\ workflow \in [Stage -> Definition] /\ engine.calls \in Nat
  BY StagesCounted DEF RunStage, AtStage, DryTyped, EngineOf, Stage
<1>2. result \in Statuses
  BY <1>1, ScriptedIs
<1>3. failures \in [Stage -> Nat] /\ \A r \in Stage : r # s => failures[r] = engine.failures[r]
  <2>1. engine.failures \in [Stage -> Nat] /\ engine.failures[s] + 1 \in Nat
    BY <1>1 DEF EngineOf
  <2> QED
    BY <1>1, <2>1
<1>4. engine' = Goes(e, t) /\ Unchanged
  BY DEF RunStage, TargetOf, Current, Unchanged
<1> HIDE DEF failures
<1>5. [engine.asked EXCEPT ![s] = @ + 1] \in [Stage -> Nat]
  <2>1. engine.asked \in [Stage -> Nat] /\ engine.asked[s] + 1 \in Nat
    BY <1>1 DEF EngineOf
  <2> QED
    BY <1>1, <2>1
<1>6. engine.calls + 1 \in 0 .. MaxSteps /\ <<s, result>> \in Stage \X Statuses
  BY <1>1, <1>2, StagesCounted
<1> HIDE DEF result, t
<1>7. /\ e \in EngineOf /\ e.at = s /\ e.outcome = "runs" /\ e.calls = engine.calls + 1
      /\ e.trace = engine.trace \cup {<<s, result>>} /\ e.failures = failures
      /\ e.asked = [engine.asked EXCEPT ![s] = @ + 1]
  BY <1>1, <1>3, <1>5, <1>6 DEF EngineOf
<1>8. t \in Target
  <2>1. StageTarget(workflow[s], result) \in Target
    BY <1>1, <1>2, TargetsTyped
  <2>2. ASSUME IsHandoff(workflow[s]) PROVE Chosen(s) \in Target
    <3>1. workflow[s].targets \in Seq(Stage) /\ workflow[s].targets # <<>>
      BY <1>1, <2>2 DEF Definition, IsHandoff
    <3>2. Last(workflow[s].targets) \in Stage
      BY <3>1 DEF Last
    <3>3. trial.scenario.pick[s] \in 0 .. DryStages
      BY <1>1 DEF DryTyped, CaseOK, CaseOf, Scripts
    <3>4. trial.scenario.pick[s] # 0 => trial.scenario.pick[s] \in Stage
      BY <3>3, StagesCounted DEF Stage
    <3> QED
      BY <3>2, <3>4 DEF Chosen, Target
  <2> QED
    BY <2>1, <2>2 DEF TargetOf, t, result
<1> HIDE DEF e
<1>9. Gone(e, Goes(e, t), t)
  BY <1>1, <1>7, <1>8, GoesIs
<1>10. engine.asked \in [Stage -> Nat]
  BY <1>1 DEF EngineOf
<1> HIDE DEF s
<1>11. RanAs(s, result, t)
  BY <1>1, <1>2, <1>3, <1>4, <1>7, <1>8, <1>9, <1>10 DEF RanAs, Gone, s, result
<1> QED
  BY <1>11 DEF s, result, t

PassedBy(s) ==
  /\ s \in Stage /\ engine.at = s /\ engine.outcome = "runs" /\ Unchanged
  /\ engine.failures[s] # 0
  /\ engine' \in EngineOf /\ engine'.calls = engine.calls /\ engine'.trace = engine.trace
  /\ engine'.asked = engine.asked
  /\ After(engine', s, workflow[s].pass)
LEMMA BypassIs == ASSUME DryTyped, Bypass PROVE PassedBy(engine.at)
<1> DEFINE s == engine.at
           e == [engine EXCEPT !.failures = [engine.failures EXCEPT ![s] = 0]]
           t == workflow[s].pass
<1>1. /\ s \in Stage /\ engine.outcome = "runs" /\ engine \in EngineOf
      /\ workflow \in [Stage -> Definition]
  BY StagesCounted DEF Bypass, AtStage, DryTyped, EngineOf, Stage
<1>2. engine.failures[s] # 0
  BY <1>1 DEF Bypass, Exhausted, Definition
<1>3. t \in Target /\ StageTarget(workflow[s], "pass") = t
  BY <1>1 DEF Definition, StageTarget
<1>4. engine' = Goes(e, t) /\ Unchanged
  BY <1>3 DEF Bypass, Current, Unchanged
<1>5. [engine.failures EXCEPT ![s] = 0] \in [Stage -> Nat]
  BY <1>1 DEF EngineOf
<1>6. /\ e \in EngineOf /\ e.at = s /\ e.outcome = "runs" /\ e.calls = engine.calls
      /\ e.trace = engine.trace /\ e.asked = engine.asked
  BY <1>1, <1>5 DEF EngineOf
<1> HIDE DEF e
<1>7. Gone(e, Goes(e, t), t)
  BY <1>1, <1>3, <1>6, GoesIs
<1> QED
  BY <1>1, <1>2, <1>4, <1>6, <1>7 DEF PassedBy, Gone

(* Types: of the first state ... *)
LEMMA DryStartsTyped == ASSUME DryInit PROVE DryTyped
<1>1. PICK w \in Candidate : DryFrom(w)
  BY DEF DryInit
<1>2. w \in [Stage -> Definition] /\ workflow = w /\ trial = HappyPath /\ closed = TRUE
  BY <1>1, DryRunAssumption DEF DryFrom
<1>3. PICK rest \in Seq(CaseOf) : /\ MatrixCases(w) = <<HappyPath>> \o rest
                                  /\ \A i \in 1 .. Len(rest) : Named(w, rest[i])
  BY <1>2, MatrixIs
<1>4. cases = <<HappyPath>> \o rest /\ HappyPath \in CaseOf
  BY <1>1, <1>3, HappyIs DEF DryFrom
<1>5. /\ cases \in Seq(CaseOf) /\ cases[1] = HappyPath
      /\ \A i \in 1 .. Len(cases) : i # 1 => i - 1 \in 1 .. Len(rest) /\ cases[i] = rest[i - 1]
  BY <1>4
<1>6. ASSUME NEW i \in 1 .. Len(cases) PROVE CaseOK(w, cases[i])
  <2>1. cases[i] \in CaseOf
    BY <1>5
  <2>2. cases[i] = HappyPath \/ Named(w, cases[i])
    BY <1>3, <1>5
  <2> QED
    BY <2>1, <2>2 DEF CaseOK
<1>7. engine \in EngineOf
  BY <1>1, NewEngineTyped DEF DryFrom
<1> QED
  BY <1>2, <1>4, <1>5, <1>6, <1>7 DEF DryTyped, CaseOK

(* The next case. *)
LEMMA BeginIs ==
  ASSUME DryTyped, BeginCase
  PROVE  /\ trial' = cases[1] /\ Len(cases) \in Nat /\ Len(cases) >= 1
         /\ cases' \in Seq(CaseOf) /\ Len(cases') = Len(cases) - 1
         /\ \A i \in 1 .. Len(cases') : i + 1 \in 1 .. Len(cases) /\ cases'[i] = cases[i + 1]
BY DEF DryTyped, BeginCase

(* ... and of every step. *)
LEMMA DryStaysTyped == ASSUME DryTyped, [DryNext]_dryVars PROVE DryTyped'
<1>1. CASE BeginCase
  <2>1. /\ trial' = cases[1] /\ 1 \in 1 .. Len(cases) /\ cases' \in Seq(CaseOf)
        /\ \A i \in 1 .. Len(cases') : i + 1 \in 1 .. Len(cases) /\ cases'[i] = cases[i + 1]
    BY <1>1, BeginIs
  <2>2. engine' \in EngineOf /\ workflow' = workflow /\ closed' = closed
    BY <1>1, NewEngineTyped DEF BeginCase
  <2> QED
    BY <2>1, <2>2 DEF DryTyped
<1>2. CASE Bypass
  <2>1. engine' \in EngineOf /\ Unchanged
    BY <1>2, BypassIs DEF PassedBy
  <2> QED
    BY <2>1 DEF DryTyped, Unchanged
<1>3. CASE RunStage
  <2>1. engine' \in EngineOf /\ Unchanged
    BY <1>3, RunStageIs DEF RanAs
  <2> QED
    BY <2>1 DEF DryTyped, Unchanged
<1>4. CASE HitLimit
  <2>1. engine' \in EngineOf
    BY <1>4 DEF HitLimit, DryTyped, EngineOf
  <2> QED
    BY <1>4, <2>1 DEF DryTyped, HitLimit
<1>5. CASE FinishAtEnd
  <2>1. engine' \in EngineOf
    BY <1>5 DEF FinishAtEnd, DryTyped, EngineOf
  <2> QED
    BY <1>5, <2>1 DEF DryTyped, FinishAtEnd
<1>6. CASE EndCase
  <2>1. engine' \in EngineOf
    BY <1>6, NewEngineTyped DEF EndCase
  <2>2. closed' \in BOOLEAN
    BY <1>6 DEF EndCase
  <2> QED
    BY <1>6, <2>1, <2>2 DEF DryTyped, EndCase
<1>7. CASE UNCHANGED dryVars
  BY <1>7 DEF DryTyped, dryVars
<1> QED
  BY <1>1, <1>2, <1>3, <1>4, <1>5, <1>6, <1>7 DEF DryNext

(* The cases are those of MatrixCases, the happy path first and just once. *)
CasesInOrder ==
  IF trial = HappyPath
  THEN cases = MatrixCases(workflow) \/ <<HappyPath>> \o cases = MatrixCases(workflow)
  ELSE \A i \in 1 .. Len(cases) : cases[i] # HappyPath
LEMMA OrderStays ==
  ASSUME DryTyped, CasesInOrder, [DryNext]_dryVars
  PROVE  CasesInOrder'
<1>1. CASE BeginCase
  <2>0. PICK rest \in Seq(CaseOf) : /\ MatrixCases(workflow) = <<HappyPath>> \o rest
                                    /\ \A i \in 1 .. Len(rest) : Named(workflow, rest[i])
    BY MatrixIs DEF DryTyped
  <2>1. \A i \in 1 .. Len(rest) : rest[i] # HappyPath
    BY <2>0, HappyIs, StagesCounted DEF Named
  <2>2. /\ trial' = cases[1] /\ Len(cases) \in Nat /\ Len(cases) >= 1
        /\ cases' \in Seq(CaseOf) /\ Len(cases') = Len(cases) - 1
        /\ \A i \in 1 .. Len(cases') : i + 1 \in 1 .. Len(cases) /\ cases'[i] = cases[i + 1]
    BY <1>1, BeginIs
  <2>3. workflow' = workflow
    BY <1>1 DEF BeginCase
  <2>4. ASSUME \A i \in 1 .. Len(cases) : cases[i] # HappyPath PROVE CasesInOrder'
    <3>1. 1 \in 1 .. Len(cases)
      BY <2>2
    <3> QED
      BY <2>2, <2>4, <3>1 DEF CasesInOrder
  <2>5. CASE trial = HappyPath
    <3>1. CASE cases = MatrixCases(workflow)
      <4>1. HappyPath \in CaseOf
        BY HappyIs
      <4>2. cases = <<HappyPath>> \o rest
        BY <2>0, <3>1
      <4>3. cases[1] = HappyPath /\ Len(cases) = Len(rest) + 1 /\ \A i \in 1 .. Len(rest) : cases[i + 1] = rest[i]
        BY <4>1, <4>2
      <4>4. cases' = rest
        BY <2>2, <4>3
      <4> QED
        BY <2>0, <2>2, <2>3, <4>3, <4>4 DEF CasesInOrder
    <3>2. CASE <<HappyPath>> \o cases = MatrixCases(workflow)
      <4>1. <<HappyPath>> \o cases = <<HappyPath>> \o rest /\ cases \in Seq(CaseOf) /\ HappyPath \in CaseOf
        BY <2>0, <3>2, HappyIs DEF DryTyped
      <4>2. cases = rest
        <5> DEFINE a == <<HappyPath>> \o cases
                   b == <<HappyPath>> \o rest
        <5>1. /\ Len(a) = Len(cases) + 1 /\ \A i \in 1 .. Len(cases) : a[i + 1] = cases[i]
              /\ Len(b) = Len(rest) + 1 /\ \A i \in 1 .. Len(rest) : b[i + 1] = rest[i]
          BY <4>1
        <5>2. a = b
          BY <4>1
        <5> HIDE DEF a, b
        <5>3. Len(cases) = Len(rest) /\ \A i \in 1 .. Len(cases) : cases[i] = rest[i]
          BY <4>1, <5>1, <5>2
        <5> QED
          BY <4>1, <5>3
      <4> QED
        BY <2>1, <2>4, <4>2
    <3> QED
      BY <2>5, <3>1, <3>2 DEF CasesInOrder
  <2>6. CASE trial # HappyPath
    BY <2>4, <2>6 DEF CasesInOrder
  <2> QED
    BY <2>5, <2>6
<1>2. CASE UNCHANGED <<workflow, cases, trial>>
  BY <1>2 DEF CasesInOrder
<1>3. BeginCase \/ UNCHANGED <<workflow, cases, trial>>
  BY DEF DryNext, Bypass, RunStage, HitLimit, FinishAtEnd, EndCase, dryVars
<1> QED
  BY <1>1, <1>2, <1>3

(* Up to its Stage, a case runs along its scenario; from there on, as long as nothing but *)
(* passing is asked of the Stages that do not complete by themselves, the run that       *)
(* completes shows that the Stage after it does.                                      *)
PassOnly(w) == \A s \in Stage : ~IsHandoff(w[s])
Begin(w, c) == IF c.stage = 0 THEN 1 ELSE Leads(c.stage, StageTarget(w[c.stage], c.status))
Clean(w, c) == \A s \in Stage : s # c.stage /\ c.scenario.script[s] # <<>> => s \in PassesOut(w)
CaseIsSo(w, c) == c.expected /\ Clean(w, c) /\ Begin(w, c) # 0 => Begin(w, c) \in PassesOut(w)

OnWay(w, c, e) ==
  \E q : \E j \in 1 .. Len(q) :
    /\ Along(w, q, c.scenario) /\ q[Len(q)] = c.stage
    /\ e.outcome = "runs" /\ e.at = q[j] /\ e.calls = j - 1
    /\ \A s \in Stage : (\A i \in 1 .. j - 1 : q[i] # s) => e.asked[s] = 0 /\ e.failures[s] = 0
Came(c, e) == c.stage # 0 => <<c.stage, c.status>> \in e.trace /\ e.asked[c.stage] >= 1
Links(w, c, e) ==
  /\ PassOnly(w) /\ c.expected /\ Clean(w, c) /\ Begin(w, c) # 0
  /\ \/ e.outcome = "completed"
     \/ e.outcome = "runs" /\ (e.at \in Stage => e.at \in PassesOut(w))
  => Begin(w, c) \in PassesOut(w)
RunsItsCase ==
  engine.outcome # "none" =>
    OnWay(workflow, trial, engine) \/ (Came(trial, engine) /\ Links(workflow, trial, engine))

(* A case that begins is on its way, or, the happy path, is there already. *)
LEMMA CaseStarts == ASSUME DryTyped, BeginCase PROVE RunsItsCase'
<1>1. /\ engine' = NewEngine /\ workflow' = workflow /\ CaseOK(workflow, trial')
  <2>1. trial' = cases[1] /\ 1 \in 1 .. Len(cases)
    BY BeginIs
  <2> QED
    BY <2>1 DEF DryTyped, BeginCase
<1>2. CASE trial' = HappyPath
  <2>1. trial'.stage = 0 /\ Begin(workflow, trial') = 1
    BY <1>2, HappyIs DEF Begin
  <2>2. Came(trial', engine')
    BY <2>1 DEF Came
  <2>3. Links(workflow, trial', engine')
    BY <1>1, <2>1, NewEngineTyped, StagesCounted DEF Links
  <2> QED
    BY <1>1, <2>2, <2>3 DEF RunsItsCase
<1>3. CASE Named(workflow, trial')
  <2>1. PICK q : Along(workflow, q, trial'.scenario) /\ q[Len(q)] = trial'.stage
    BY <1>3 DEF Named
  <2>2. q[1] = 1 /\ 1 \in 1 .. Len(q)
    BY <2>1, StagesCounted DEF Along
  <2>3. OnWay(workflow, trial', engine')
    BY <1>1, <2>1, <2>2, NewEngineTyped DEF OnWay
  <2> QED
    BY <1>1, <2>3 DEF RunsItsCase
<1> QED
  BY <1>1, <1>2, <1>3 DEF CaseOK

(* On the way there is no other step but to the next Stage of the scenario. *)
LEMMA StepOnWay ==
  ASSUME DryTyped, OnWay(workflow, trial, engine), DryNext
  PROVE  RunStage
<1>1. PICK q : \E j \in 1 .. Len(q) :
    /\ Along(workflow, q, trial.scenario)
    /\ engine.outcome = "runs" /\ engine.at = q[j] /\ engine.calls = j - 1
    /\ \A s \in Stage : (\A i \in 1 .. j - 1 : q[i] # s) => engine.asked[s] = 0 /\ engine.failures[s] = 0
  BY DEF OnWay
<1>2. PICK j \in 1 .. Len(q) :
    /\ Along(workflow, q, trial.scenario)
    /\ engine.outcome = "runs" /\ engine.at = q[j] /\ engine.calls = j - 1
    /\ \A s \in Stage : (\A i \in 1 .. j - 1 : q[i] # s) => engine.asked[s] = 0 /\ engine.failures[s] = 0
  BY <1>1
<1>3. /\ q[j] \in Stage /\ \A i \in 1 .. j - 1 : q[i] # q[j]
      /\ j <= DryStages /\ j \in Nat
  BY <1>2, StagesCounted DEF Along
<1>4. engine.failures[engine.at] = 0
  BY <1>2, <1>3
<1>5. engine.calls # MaxSteps /\ ~(engine.at > DryStages)
  BY <1>2, <1>3, StagesCounted DEF Stage
<1>6. ~Bypass
  BY <1>4, BypassIs DEF PassedBy
<1>7. ~BeginCase /\ ~HitLimit /\ ~FinishAtEnd /\ ~EndCase
  BY <1>2, <1>5 DEF BeginCase, HitLimit, FinishAtEnd, EndCase
<1> QED
  BY <1>6, <1>7 DEF DryNext

(* A target that leads to a Stage neither stops nor completes the run. *)
LEMMA LeadsOn ==
  ASSUME NEW s \in Stage, NEW t, Leads(s, t) # 0
  PROVE  t # ToStop /\ t # ToDone /\ ~(t = ToNext /\ s = DryStages)
<1>1. /\ ToStop \notin Stage /\ ToStop # ToNext /\ ToDone \notin Stage /\ ToDone # ToNext
      /\ ToNext \notin Stage /\ ~(DryStages < DryStages)
  BY StagesCounted DEF Stage, ToStop, ToDone, ToNext
<1>2. CASE t = ToNext
  BY <1>1, <1>2 DEF Leads
<1>3. CASE t # ToNext
  BY <1>1, <1>3 DEF Leads
<1> QED
  BY <1>2, <1>3

(* On the way the engine comes one Stage further, or has the result the case is named for. *)
LEMMA GoesOnWay ==
  ASSUME DryTyped, OnWay(workflow, trial, engine), RunStage
  PROVE  OnWay(workflow', trial', engine') \/ (Came(trial', engine') /\ Links(workflow', trial', engine'))
<1> DEFINE w == workflow
           sc == trial.scenario
<1>1. PICK q : \E j \in 1 .. Len(q) :
    /\ Along(w, q, sc) /\ q[Len(q)] = trial.stage
    /\ engine.outcome = "runs" /\ engine.at = q[j] /\ engine.calls = j - 1
    /\ \A s \in Stage : (\A i \in 1 .. j - 1 : q[i] # s) => engine.asked[s] = 0 /\ engine.failures[s] = 0
  BY DEF OnWay
<1>2. PICK j \in 1 .. Len(q) :
    /\ Along(w, q, sc) /\ q[Len(q)] = trial.stage
    /\ engine.outcome = "runs" /\ engine.at = q[j] /\ engine.calls = j - 1
    /\ \A s \in Stage : (\A i \in 1 .. j - 1 : q[i] # s) => engine.asked[s] = 0 /\ engine.failures[s] = 0
  BY <1>1
<1> DEFINE s == q[j]
<1>3. /\ s \in Stage /\ (\A i \in 1 .. j - 1 : q[i] # s)
      /\ j \in Nat /\ j >= 1 /\ j <= Len(q) /\ Len(q) \in Nat /\ q \in Seq(Stage)
  BY <1>2, StagesCounted DEF Along
<1>4. engine.asked[s] = 0
  BY <1>2, <1>3
<1>5. RanAs(s, Scripted(s), TargetOf(s))
  BY <1>2, RunStageIs
<1>6. workflow' = w /\ trial' = trial
  BY <1>5 DEF RanAs, Unchanged
<1>7. CASE j < Len(q)
  <2> DEFINE y == q[j + 1]
  <2>1. j + 1 \in 1 .. Len(q) /\ j \in 1 .. Len(q) - 1 /\ y \in Stage /\ Hop(w, s, y, sc)
    <3>1. j + 1 \in 1 .. Len(q) /\ j \in 1 .. Len(q) - 1
      BY <1>3, <1>7
    <3> QED
      BY <1>2, <1>3, <3>1 DEF Along
  <2>2. Leads(s, TargetOf(s)) = y
    <3>1. CASE IsHandoff(w[s])
      <4>1. sc.pick[s] = y /\ Scripted(s) = "pass"
        BY <1>3, <2>1, <3>1, ScriptedIs DEF Hop
      <4>2. TargetOf(s) = y
        BY <2>1, <3>1, <4>1, StagesCounted DEF TargetOf, Chosen
      <4> QED
        BY <2>1, <4>2, StagesCounted DEF Leads, ToNext
    <3>2. CASE ~IsHandoff(w[s])
      <4>1. CASE sc.script[s] = <<>> /\ y = Leads(s, w[s].pass)
        <5>1. Scripted(s) = "pass"
          BY <1>3, <4>1, ScriptedIs
        <5> QED
          BY <3>2, <4>1, <5>1 DEF TargetOf, StageTarget
      <4>2. CASE sc.script[s] = <<"fail">> /\ y = Leads(s, w[s].fail)
        <5>1. Scripted(s) = "fail"
          BY <1>3, <4>2, ScriptedIs
        <5> QED
          BY <3>2, <4>2, <5>1 DEF TargetOf, StageTarget
      <4> QED
        BY <2>1, <3>2, <4>1, <4>2 DEF Hop
    <3> QED
      BY <3>1, <3>2
  <2>3. engine'.outcome = "runs" /\ engine'.at = y
    <3>1. TargetOf(s) # ToStop /\ TargetOf(s) # ToDone /\ ~(TargetOf(s) = ToNext /\ s = DryStages)
      BY <1>3, <2>1, <2>2, LeadsOn, StagesCounted
    <3> QED
      BY <1>5, <2>2, <3>1 DEF RanAs, After
  <2>4. engine'.calls = (j + 1) - 1
    BY <1>2, <1>3, <1>5 DEF RanAs
  <2>5. ASSUME NEW r \in Stage, \A i \in 1 .. (j + 1) - 1 : q[i] # r
        PROVE  engine'.asked[r] = 0 /\ engine'.failures[r] = 0
    <3>1. r # s /\ \A i \in 1 .. j - 1 : q[i] # r
      BY <1>3, <2>5
    <3> QED
      BY <1>2, <1>5, <3>1 DEF RanAs
  <2>6. OnWay(w, trial, engine')
    BY <1>2, <2>1, <2>3, <2>4, <2>5 DEF OnWay
  <2> QED
    BY <1>6, <2>6
<1>8. CASE j = Len(q)
  <2>1. s = trial.stage /\ trial.stage # 0
    BY <1>2, <1>3, <1>8, StagesCounted
  <2>2. Named(w, trial)
    BY <2>1, HappyIs DEF DryTyped, CaseOK
  <2>3. Scripted(s) = trial.status
    <3>1. sc.script[s] = <<trial.status>> \/ sc.script[s] = <<trial.status, "pass">>
      BY <2>1, <2>2 DEF Named
    <3> QED
      BY <1>3, <1>4, <3>1, ScriptedIs
  <2>4. Came(trial, engine')
    BY <1>4, <1>5, <2>1, <2>3 DEF RanAs, Came
  <2>5. Links(w, trial, engine')
    <3> SUFFICES ASSUME PassOnly(w), Begin(w, trial) # 0,
                        \/ engine'.outcome = "completed"
                        \/ engine'.outcome = "runs" /\ (engine'.at \in Stage => engine'.at \in PassesOut(w))
                 PROVE  Begin(w, trial) \in PassesOut(w)
      BY DEF Links
    <3>1. TargetOf(s) = StageTarget(w[s], trial.status)
      BY <1>3, <2>3 DEF TargetOf, PassOnly
    <3>2. Begin(w, trial) = Leads(s, TargetOf(s))
      BY <2>1, <3>1 DEF Begin
    <3>3. TargetOf(s) # ToStop /\ TargetOf(s) # ToDone /\ ~(TargetOf(s) = ToNext /\ s = DryStages)
      BY <1>3, <3>2, LeadsOn
    <3>4. engine'.outcome = "runs" /\ engine'.at \in Stage /\ engine'.at = Begin(w, trial)
      BY <1>5, <3>2, <3>3 DEF RanAs, After
    <3> QED
      BY <3>4
  <2> QED
    BY <1>6, <2>4, <2>5
<1> QED
  BY <1>3, <1>7, <1>8

(* Where a pass goes: if the run passes on from there, the Stage itself completes. *)
LEMMA PassedOn ==
  ASSUME NEW w \in [Stage -> Definition], NEW s \in Stage, NEW g, After(g, s, w[s].pass),
         \/ g.outcome = "completed"
         \/ g.outcome = "runs" /\ (g.at \in Stage => g.at \in PassesOut(w))
  PROVE  s \in PassesOut(w)
<1>1. CASE g.outcome = "completed"
  BY <1>1, PassesOutIs DEF After, Completes
<1>2. CASE g.outcome = "runs" /\ g.at = DryStages + 1 /\ w[s].pass = ToNext /\ s = DryStages
  BY <1>2, PassesOutIs DEF Completes
<1>3. CASE g.outcome = "runs" /\ g.at \in Stage /\ g.at = Leads(s, w[s].pass)
  BY <1>3, PassesOutIs
<1> QED
  BY <1>1, <1>2, <1>3 DEF After

(* Past its Stage, a case is asked for passes, or for results of Stages that complete anyway. *)
LEMMA LinksStay ==
  ASSUME DryTyped, engine.outcome # "none", Came(trial, engine), Links(workflow, trial, engine), DryNext
  PROVE  engine'.outcome # "none" => Came(trial', engine') /\ Links(workflow', trial', engine')
<1> DEFINE w == workflow
           c == trial
           s == engine.at
<1>0. /\ w \in [Stage -> Definition] /\ CaseOK(w, c) /\ c \in CaseOf
      /\ (c.stage # 0 => Named(w, c) /\ c.stage \in Stage)
      /\ engine \in EngineOf /\ engine.asked \in [Stage -> Nat]
  BY HappyIs DEF DryTyped, CaseOK, Named, EngineOf
<1>1. CASE Bypass
  <2>1. PassedBy(s)
    BY <1>1, BypassIs
  <2>2. Came(c, engine')
    BY <2>1 DEF Came, PassedBy
  <2>3. Links(w, c, engine')
    <3> SUFFICES ASSUME PassOnly(w), c.expected, Clean(w, c), Begin(w, c) # 0,
                        \/ engine'.outcome = "completed"
                        \/ engine'.outcome = "runs" /\ (engine'.at \in Stage => engine'.at \in PassesOut(w))
                 PROVE  Begin(w, c) \in PassesOut(w)
      BY DEF Links
    <3>1. s \in PassesOut(w)
      BY <1>0, <2>1, PassedOn DEF PassedBy
    <3> QED
      BY <2>1, <3>1 DEF Links, PassedBy
  <2> QED
    BY <2>1, <2>2, <2>3 DEF PassedBy, Unchanged
<1>2. CASE RunStage
  <2>1. RanAs(s, Scripted(s), TargetOf(s))
    BY <1>2, RunStageIs
  <2>2. Came(c, engine')
    <3> SUFFICES ASSUME c.stage # 0 PROVE <<c.stage, c.status>> \in engine'.trace /\ engine'.asked[c.stage] >= 1
      BY DEF Came
    <3>1. c.stage \in Stage /\ <<c.stage, c.status>> \in engine.trace /\ engine.asked[c.stage] >= 1
      BY <1>0 DEF Came
    <3>2. engine'.asked[c.stage] >= 1
      BY <1>0, <2>1, <3>1 DEF RanAs
    <3> QED
      BY <2>1, <3>1, <3>2 DEF RanAs
  <2>3. Links(w, c, engine')
    <3> SUFFICES ASSUME PassOnly(w), c.expected, Clean(w, c), Begin(w, c) # 0,
                        \/ engine'.outcome = "completed"
                        \/ engine'.outcome = "runs" /\ (engine'.at \in Stage => engine'.at \in PassesOut(w))
                 PROVE  Begin(w, c) \in PassesOut(w)
      BY DEF Links
    <3>0. s \in Stage /\ engine.outcome = "runs"
      BY <2>1 DEF RanAs
    <3>1. ASSUME Scripted(s) = "pass" PROVE s \in PassesOut(w)
      <4>1. TargetOf(s) = w[s].pass
        BY <3>0, <3>1 DEF TargetOf, PassOnly, StageTarget
      <4> QED
        BY <1>0, <2>1, <4>1, PassedOn DEF RanAs
    <3>2. CASE s = c.stage
      <4>1. Named(w, c) /\ c.scenario.script[s] = <<c.status, "pass">>
        BY <1>0, <3>0, <3>2, StagesCounted DEF Named
      <4>2. engine.asked[s] >= 1
        BY <3>0, <3>2, StagesCounted DEF Came
      <4>3. Scripted(s) = "pass"
        BY <3>0, <4>1, <4>2, ScriptedIs
      <4> QED
        BY <3>0, <3>1, <4>3 DEF Links
    <3>3. CASE s # c.stage /\ c.scenario.script[s] = <<>>
      <4>1. Scripted(s) = "pass"
        BY <3>0, <3>3, ScriptedIs
      <4> QED
        BY <3>0, <3>1, <4>1 DEF Links
    <3>4. CASE s # c.stage /\ c.scenario.script[s] # <<>>
      <4>1. s \in PassesOut(w)
        BY <3>0, <3>4 DEF Clean
      <4> QED
        BY <3>0, <4>1 DEF Links
    <3> QED
      BY <3>2, <3>3, <3>4
  <2> QED
    BY <2>1, <2>2, <2>3 DEF RanAs, Unchanged
<1>3. CASE HitLimit
  <2>1. /\ engine'.outcome = "limit" /\ engine'.trace = engine.trace /\ engine'.asked = engine.asked
        /\ w' = w /\ c' = c
    BY <1>0, <1>3 DEF HitLimit, EngineOf
  <2> QED
    BY <2>1 DEF Came, Links
<1>4. CASE FinishAtEnd
  <2>1. /\ engine'.outcome = "completed" /\ engine'.trace = engine.trace /\ engine'.asked = engine.asked
        /\ engine.outcome = "runs" /\ engine.at \notin Stage /\ w' = w /\ c' = c
    BY <1>0, <1>4, StagesCounted DEF FinishAtEnd, EngineOf, Stage
  <2> QED
    BY <2>1 DEF Came, Links
<1>5. CASE EndCase
  <2>1. engine'.outcome = "none"
    BY <1>5, NewEngineTyped DEF EndCase, NewEngine
  <2> QED
    BY <2>1
<1>6. ~BeginCase
  BY DEF BeginCase
<1> QED
  BY <1>1, <1>2, <1>3, <1>4, <1>5, <1>6 DEF DryNext

(* So every step keeps to the case. *)
LEMMA RunsItsCaseStays ==
  ASSUME DryTyped, RunsItsCase, [DryNext]_dryVars
  PROVE  RunsItsCase'
<1>1. CASE UNCHANGED dryVars
  BY <1>1 DEF RunsItsCase, dryVars, OnWay, Came, Links
<1>2. CASE DryNext /\ engine.outcome = "none"
  <2>1. BeginCase
    BY <1>2 DEF DryNext, Bypass, RunStage, HitLimit, FinishAtEnd, EndCase, AtStage
  <2> QED
    BY <2>1, CaseStarts
<1>3. CASE DryNext /\ OnWay(workflow, trial, engine)
  <2>1. RunStage
    BY <1>3, StepOnWay
  <2> QED
    BY <1>3, <2>1, GoesOnWay DEF RunsItsCase
<1>4. CASE DryNext /\ engine.outcome # "none" /\ Came(trial, engine) /\ Links(workflow, trial, engine)
  BY <1>4, LinksStay DEF RunsItsCase
<1> QED
  BY <1>1, <1>2, <1>3, <1>4 DEF RunsItsCase

(* A case that ended as it should has shown that the Stage it begins with completes. *)
CasesShown ==
  \A c : In(MatrixCases(workflow), c) =>
    \/ In(cases, c)
    \/ c = trial /\ engine.outcome # "none"
    \/ closed /\ PassOnly(workflow) => CaseIsSo(workflow, c)
LEMMA CasesShownStay ==
  ASSUME DryTyped, RunsItsCase, CasesShown, [DryNext]_dryVars
  PROVE  CasesShown'
<1>1. CASE UNCHANGED dryVars
  BY <1>1 DEF CasesShown, dryVars
<1>2. CASE BeginCase
  <2>1. /\ trial' = cases[1] /\ Len(cases) \in Nat /\ Len(cases') = Len(cases) - 1
        /\ \A i \in 1 .. Len(cases') : cases'[i] = cases[i + 1]
    BY <1>2, BeginIs
  <2>2. engine'.outcome # "none" /\ engine.outcome = "none" /\ workflow' = workflow /\ closed' = closed
    BY <1>2, NewEngineTyped DEF BeginCase
  <2>3. ASSUME NEW c, In(cases, c) PROVE In(cases', c) \/ c = trial'
    <3>1. PICK i \in 1 .. Len(cases) : cases[i] = c
      BY <2>3 DEF In
    <3>2. i # 1 => i - 1 \in 1 .. Len(cases') /\ (i - 1) + 1 = i
      BY <2>1
    <3>3. i # 1 => cases'[i - 1] = c
      BY <2>1, <3>1, <3>2
    <3> QED
      BY <2>1, <3>1, <3>2, <3>3 DEF In
  <2> QED
    BY <2>2, <2>3 DEF CasesShown
<1>3. CASE EndCase
  <2>1. /\ workflow' = workflow /\ cases' = cases /\ trial' = trial
        /\ engine.outcome \in {"stopped", "completed", "limit"}
        /\ closed' => closed /\ ((engine.outcome = "completed") = trial.expected)
    BY <1>3 DEF EndCase, DryTyped
  <2>2. closed' /\ PassOnly(workflow) => CaseIsSo(workflow, trial)
    <3> SUFFICES ASSUME closed', PassOnly(workflow), trial.expected, Clean(workflow, trial), Begin(workflow, trial) # 0
                 PROVE  Begin(workflow, trial) \in PassesOut(workflow)
      BY DEF CaseIsSo
    <3>1. engine.outcome = "completed"
      BY <2>1
    <3>2. Links(workflow, trial, engine)
      BY <3>1 DEF RunsItsCase, OnWay
    <3> QED
      BY <3>1, <3>2 DEF Links
  <2> QED
    BY <2>1, <2>2 DEF CasesShown
<1>4. CASE Bypass \/ RunStage \/ HitLimit \/ FinishAtEnd
  <2>1. workflow' = workflow /\ cases' = cases /\ trial' = trial /\ closed' = closed /\ engine.outcome # "none"
    BY <1>4 DEF Bypass, RunStage, HitLimit, FinishAtEnd, AtStage
  <2>2. engine'.outcome # "none"
    <3>1. CASE Bypass
      BY <3>1, BypassIs DEF PassedBy, After
    <3>2. CASE RunStage
      BY <3>2, RunStageIs DEF RanAs, After
    <3>3. CASE HitLimit \/ FinishAtEnd
      BY <3>3 DEF HitLimit, FinishAtEnd, DryTyped, EngineOf
    <3> QED
      BY <1>4, <3>1, <3>2, <3>3
  <2> QED
    BY <2>1, <2>2 DEF CasesShown
<1> QED
  BY <1>1, <1>2, <1>3, <1>4 DEF DryNext

(* What can be reached are Stages. *)
LEMMA ReachableTyped == ASSUME NEW w \in [Stage -> Definition] PROVE Reachable(w) \subseteq Stage
<1>1. DryStages \in 0 .. DryStages
  BY StagesCounted
<1> QED
  BY <1>1, WithinIs DEF Reachable

(* When all its cases showed what they do, a Workflow completes from every Stage that can be      *)
(* reached: the case of a Stage's failure goes through Stages whose own paths are         *)
(* shorter.                                                                 *)
LEMMA MatrixCloses ==
  ASSUME NEW w \in [Stage -> Definition], PassOnly(w),
         \A c : In(MatrixCases(w), c) => CaseIsSo(w, c)
  PROVE  Reachable(w) \subseteq PassesOut(w)
<1>0. PICK rest \in Seq(CaseOf) :
        /\ MatrixCases(w) = <<HappyPath>> \o rest
        /\ \A s \in Stage \cap Reachable(w) : In(rest, Failing(w, s, "fail", FirstSpot(w, s).scenario))
  BY MatrixIs
<1> DEFINE all == <<HappyPath>> \o rest
<1>1. Len(all) = Len(rest) + 1 /\ all[1] = HappyPath /\ \A i \in 1 .. Len(rest) : all[i + 1] = rest[i]
  BY HappyIs
<1>2. \A c : In(rest, c) => In(all, c)
  <2> SUFFICES ASSUME NEW c, In(rest, c) PROVE In(all, c)
    OBVIOUS
  <2>1. PICK i \in 1 .. Len(rest) : rest[i] = c
    BY DEF In
  <2>2. i + 1 \in 1 .. Len(rest) + 1
    OBVIOUS
  <2> HIDE DEF all
  <2> QED
    BY <1>1, <2>1, <2>2 DEF In
<1>3. In(all, HappyPath)
  <2>1. 1 \in 1 .. Len(rest) + 1
    OBVIOUS
  <2> HIDE DEF all
  <2> QED
    BY <1>1, <2>1 DEF In
<1> DEFINE Passing(j) == \A x : In(Levels(w)[j], x) => x.at \in PassesOut(w)
           T == {k \in Nat : k <= DryStages - 1 => \A j \in 0 .. k : Passing(j)}
<1>4. 0 \in T
  <2>1. CaseIsSo(w, HappyPath)
    BY <1>0, <1>3
  <2>2. HappyPath.expected /\ Clean(w, HappyPath) /\ Begin(w, HappyPath) = 1
    BY HappyIs DEF HappyPath, Case, NoScenario, Clean, Begin
  <2>3. 1 \in PassesOut(w)
    BY <2>1, <2>2 DEF CaseIsSo
  <2>4. \A x : In(Levels(w)[0], x) => x.at = 1
    BY LevelGoesOn DEF FirstPath
  <2>5. \A j \in 0 .. 0 : j = 0
    OBVIOUS
  <2> QED
    BY <2>3, <2>4, <2>5
<1>5. ASSUME NEW k \in Nat, k \in T PROVE k + 1 \in T
  <2> SUFFICES ASSUME k + 1 <= DryStages - 1, NEW x, In(Levels(w)[k + 1], x) PROVE x.at \in PassesOut(w)
    <3>1. k + 1 <= DryStages - 1 => k <= DryStages - 1 /\ \A j \in 0 .. k + 1 : j \in 0 .. k \/ j = k + 1
      BY StagesCounted
    <3> QED
      BY <1>5, <3>1
  <2>1. k + 1 \in 1 .. DryStages - 1 /\ (k + 1) - 1 = k /\ k <= DryStages - 1 /\ k \in 0 .. DryStages - 1
    BY StagesCounted
  <2>2. \A j \in 0 .. k : Passing(j)
    BY <1>5, <2>1
  <2>3. PICK p \in PathOf : In(Levels(w)[k], p) /\ Extends(w, p, x)
    BY <2>1, LevelGoesOn
  <2> DEFINE u == p.at
  <2>4. u \in Stage /\ u \in PassesOut(w) /\ ~IsHandoff(w[u]) /\ x.at \in Stage /\ x.at # 0
    <3>1. k \in 0 .. k
      OBVIOUS
    <3> QED
      BY <2>2, <2>3, <3>1, StagesCounted DEF PathOf, PassOnly, Extends
  <2>5. CASE x.at = Leads(u, w[u].pass)
    <3>1. ~Completes(w, u)
      BY <2>4, <2>5, LeadsOn DEF Completes
    <3> QED
      BY <2>4, <2>5, <3>1, PassesOutIs
  <2>6. CASE x.at = Leads(u, w[u].fail)
    <3> DEFINE f == FirstSpot(w, u)
               c == Failing(w, u, "fail", f.scenario)
    <3>1. u \in Reachable(w)
      BY <2>1, <2>3, SearchFindsAll
    <3>2. PICK m \in 0 .. DryStages - 1 : /\ In(Levels(w)[m], f) /\ f.at = u
                                          /\ \A i \in 0 .. m - 1 : \A y : In(Levels(w)[i], y) => y.at # u
      BY <2>4, <3>1, FirstIs
    <3>3. m <= k
      <4>1. ~(k \in 0 .. m - 1)
        BY <2>3, <3>2
      <4> QED
        BY <2>1, <4>1
    <3>4. f \in PathOf
      BY <3>2, LevelGoesOn
    <3>5. PICK q : Trail(w, q, f)
      BY <3>2, TrailsToAll
    <3>6. /\ Named(w, c) /\ c.stage = u /\ c.status = "fail"
          /\ \A s \in Stage : s # u => c.scenario.script[s] = f.scenario.script[s]
      <4>1. f.at = u
        BY <3>2
      <4> HIDE DEF f, u
      <4> QED
        BY <3>4, <3>5, <4>1, FailingIs
    <3>7. In(MatrixCases(w), c)
      BY <1>0, <1>2, <2>4, <3>1
    <3> HIDE DEF c, f
    <3>8. CaseIsSo(w, c)
      BY <3>7
    <3>9. StageTarget(w[u], "fail") = w[u].fail /\ w[u].fail # ToStop
      BY <2>4, <2>6, LeadsOn DEF StageTarget
    <3>10. c.expected /\ Begin(w, c) = x.at
      BY <2>4, <2>6, <3>6, <3>9, StagesCounted DEF Named, Begin
    <3>11. Clean(w, c)
      <4> SUFFICES ASSUME NEW s \in Stage, s # u, f.scenario.script[s] # <<>> PROVE s \in PassesOut(w)
        BY <3>6 DEF Clean
      <4>1. s \in f.seen
        BY <3>5 DEF Trail
      <4>2. PICK j \in 0 .. m - 1 : \E y : In(Levels(w)[j], y) /\ y.at = s
        BY <3>2, <4>1, SeenEarlier
      <4>3. j \in 0 .. k
        BY <3>3
      <4> QED
        BY <2>2, <4>2, <4>3
    <3> QED
      BY <2>4, <3>8, <3>10, <3>11 DEF CaseIsSo
  <2> QED
    BY <2>3, <2>4, <2>5, <2>6 DEF Extends
<1>6. Nat \subseteq T
  <2> HIDE DEF T
  <2> QED
    BY <1>4, <1>5, AllNaturals
<1>7. ASSUME NEW s \in Reachable(w) PROVE s \in PassesOut(w)
  <2>1. PICK k \in 0 .. DryStages - 1 : \E x : In(Levels(w)[k], x) /\ x.at = s
    BY SearchFindsAll
  <2>2. k \in T /\ k \in 0 .. k /\ k <= DryStages - 1
    BY <1>6, StagesCounted
  <2> QED
    BY <2>1, <2>2
<1> QED
  BY <1>7

(* Before the first failure is tried, the cases to come have just the reachable Stages. *)
LEMMA TriedAre ==
  ASSUME DryTyped, CasesInOrder, trial = HappyPath
  PROVE  Tried \cup {0} = Reachable(workflow) \cup {0}
<1> DEFINE w == workflow
<1>0. PICK rest \in Seq(CaseOf) :
        /\ MatrixCases(w) = <<HappyPath>> \o rest
        /\ \A i \in 1 .. Len(rest) : rest[i].stage \in Reachable(w)
        /\ \A s \in Stage \cap Reachable(w) : In(rest, Failing(w, s, "fail", FirstSpot(w, s).scenario))
  BY MatrixIs DEF DryTyped
<1> DEFINE all == <<HappyPath>> \o rest
<1>1. Len(all) = Len(rest) + 1 /\ all[1] = HappyPath /\ \A i \in 1 .. Len(rest) : all[i + 1] = rest[i]
  BY HappyIs
<1>2. cases = all \/ cases = rest
  <2>1. CASE cases = MatrixCases(w)
    BY <1>0, <2>1
  <2>2. CASE <<HappyPath>> \o cases = MatrixCases(w)
    <3> DEFINE a == <<HappyPath>> \o cases
    <3>1. cases \in Seq(CaseOf)
      BY DEF DryTyped
    <3>2. Len(a) = Len(cases) + 1 /\ \A i \in 1 .. Len(cases) : a[i + 1] = cases[i]
      BY <3>1, HappyIs
    <3>3. a = all
      BY <1>0, <2>2
    <3> HIDE DEF a, all
    <3>4. Len(cases) = Len(rest) /\ \A i \in 1 .. Len(cases) : cases[i] = rest[i]
      BY <1>1, <3>1, <3>2, <3>3
    <3> QED
      BY <3>1, <3>4
  <2> QED
    BY <2>1, <2>2 DEF CasesInOrder
<1>3. \A i \in 1 .. Len(cases) : cases[i] = HappyPath \/ \E j \in 1 .. Len(rest) : cases[i] = rest[j]
  <2>1. \A i \in 1 .. Len(all) : i = 1 \/ (i - 1 \in 1 .. Len(rest) /\ all[i] = rest[i - 1])
    <3>1. \A i \in 1 .. Len(rest) + 1 : i = 1 \/ (i - 1 \in 1 .. Len(rest) /\ (i - 1) + 1 = i)
      OBVIOUS
    <3> HIDE DEF all
    <3> QED
      BY <1>1, <3>1
  <2> HIDE DEF all
  <2> QED
    BY <1>1, <1>2, <2>1
<1>4. \A j \in 1 .. Len(rest) : \E i \in 1 .. Len(cases) : cases[i] = rest[j]
  <2>1. \A j \in 1 .. Len(rest) : j + 1 \in 1 .. Len(rest) + 1
    OBVIOUS
  <2> HIDE DEF all
  <2> QED
    BY <1>1, <1>2, <2>1
<1>5. Tried \subseteq Reachable(w) \cup {0}
  BY <1>0, <1>3, HappyIs DEF Tried
<1>6. ASSUME NEW s \in Reachable(w) PROVE s \in Tried
  <2>1. s \in Stage
    BY ReachableTyped DEF DryTyped
  <2>2. PICK j \in 1 .. Len(rest) : rest[j] = Failing(w, s, "fail", FirstSpot(w, s).scenario)
    BY <1>0, <2>1 DEF In
  <2>3. rest[j].stage = s
    BY <2>2 DEF Failing, Case
  <2> QED
    BY <1>4, <2>3 DEF Tried
<1> QED
  BY <1>5, <1>6

(* The inductive invariant. *)
MatrixRuns == DryTyped /\ CasesInOrder /\ RunsItsCase /\ CasesShown

(* The inductive invariant holds at first ... *)
LEMMA MatrixStarts == ASSUME DryInit PROVE MatrixRuns
<1>1. PICK w \in Candidate : DryFrom(w)
  BY DEF DryInit
<1>2. workflow = w /\ trial = HappyPath /\ cases = MatrixCases(w) /\ engine.outcome = "none"
  BY <1>1, NewEngineTyped DEF DryFrom, EngineOf
<1> QED
  BY <1>2, DryStartsTyped DEF MatrixRuns, CasesInOrder, RunsItsCase, CasesShown

(* ... and implies what the run checks. *)
LEMMA MatrixRunsSound == ASSUME MatrixRuns PROVE MatrixSound
<1> USE DEF MatrixRuns
<1>1. DryTypeOK
  BY DEF DryTypeOK, DryTyped, CaseOK, CaseOf, EngineOf
<1>2. trial = HappyPath => Tried \cup {0} = Reachable(workflow) \cup {0}
  BY TriedAre
<1>3. engine.outcome \in {"stopped", "completed"} /\ trial.stage # 0 => <<trial.stage, trial.status>> \in engine.trace
  BY DEF RunsItsCase, OnWay, Came
<1>4. ASSUME cases = <<>>, engine.outcome = "none", closed, \A s \in Stage : ~IsHandoff(workflow[s])
      PROVE  Reachable(workflow) \subseteq PassesOut(workflow)
  <2>1. \A c : ~In(cases, c)
    BY <1>4 DEF In
  <2>2. \A c : In(MatrixCases(workflow), c) => CaseIsSo(workflow, c)
    BY <1>4, <2>1 DEF CasesShown, PassOnly
  <2> QED
    BY <1>4, <2>2, MatrixCloses DEF DryTyped, PassOnly
<1> QED
  BY <1>1, <1>2, <1>3, <1>4 DEF MatrixSound

(* What the closure matrix says of a Workflow holds for every number of Stages and every   *)
(* Workflow: it tries just the Stages that some results lead to, a case comes to its Stage   *)
(* and has the result it is named for, and a Workflow without handoffs that is called closed *)
(* completes from every reachable Stage (workflow_dryrun.py:320-503).             *)
THEOREM MatrixStaysSound == DryInit /\ [][DryNext]_dryVars => []MatrixSound
<1>1. DryInit => MatrixRuns
  BY MatrixStarts
<1>2. MatrixRuns /\ [DryNext]_dryVars => MatrixRuns'
  BY DryStaysTyped, OrderStays, RunsItsCaseStays, CasesShownStay DEF MatrixRuns
<1>3. MatrixRuns => MatrixSound
  BY MatrixRunsSound
<1> QED
  BY <1>1, <1>2, <1>3, PTL
=============================================================================
