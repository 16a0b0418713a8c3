----------------------------- MODULE ProtocolProofs -----------------------------
(* Theorems about protocols around a run: the hooks that take a project back     *)
(* (SafetyHooks), who ends an agent (AgentProcesses), the list of projects       *)
(* (ProjectList), Workflows and Prompts that refer to each other                 *)
(* (WorkflowStudio), trials of single Stages (StageTrial), the publication of a  *)
(* draft (DraftPublish), the lock of a run (RunLock), and lists of runs          *)
(* (ScriptList).                                                                *)
EXTENDS SafetyHooks, AgentProcesses, ProjectList, WorkflowStudio, StageTrial, DraftPublish, RunLock,
        ScriptList, TLAPS

(***************************************************************************)
(* SafetyHooks: whatever attempts follow each other, and wherever workers    *)
(* die, one that has ended was taken back as it should be.                   *)
(***************************************************************************)
Open == Path \ Guarded

(* A worker with a baseline has, of every file that is not protected, what is   *)
(* there between two attempts, what was there when a read-only one began, and    *)
(* what is there once one that may write is settled.                           *)
Current(p) ==
  /\ cached /\ phase \in {"idle", "over"} => baseline[p] = project[p]
  /\ cached /\ phase = "running" => baseline[p] = begun[p]
  /\ cached /\ phase = "settled" =>
       baseline[p] = IF mode = "observe" THEN begun[p] ELSE project[p]

(* What the attempt at hand, or the last one, was told to leave as it was. *)
HookInv ==
  /\ HooksTypeOK
  /\ \A p \in Open : Current(p)
  /\ phase \in {"running", "settled"} => keeps = cached /\ (mode # "write" => cached)
  /\ phase \in {"settled", "over"} /\ mode = "restore" =>
       \A p \in Open : project[p] = begun[p]
  /\ phase = "over" => \A p \in Guarded : project[p] = begun[p]

--------------------------------------------------------------------------
LEMMA HooksStart == HooksInit => HookInv
<1> SUFFICES ASSUME HooksInit PROVE HookInv
  OBVIOUS
<1>1. 0 \in 0 .. Contents /\ 1 \in 0 .. Contents /\ 0 \in 0 .. MaxAttempts
  BY SafetyAssumption
<1>2. HooksTypeOK
  BY <1>1 DEF HooksInit, HooksTypeOK, Trees
<1> QED
  BY <1>2 DEF HooksInit, HookInv, Current

LEMMA BeforeExecutionKeeps == HookInv /\ BeforeExecution => HookInv'
<1> SUFFICES ASSUME HookInv, BeforeExecution PROVE HookInv'
  OBVIOUS
<1>1. HooksTypeOK'
  <2>1. attempts' \in 0 .. MaxAttempts
    BY SafetyAssumption DEF HookInv, HooksTypeOK, BeforeExecution
  <2> QED
    BY <2>1 DEF HookInv, HooksTypeOK, BeforeExecution
<1>2. ASSUME NEW p \in Open
      PROVE  Current(p)'
  BY <1>2 DEF HookInv, Current, BeforeExecution
<1> QED
  BY <1>1, <1>2 DEF HookInv, BeforeExecution

LEMMA ChangeKeeps == HookInv /\ Change => HookInv'
BY DEF HookInv, HooksTypeOK, Trees, Open, Current, Change

LEMMA SettleKeeps == HookInv /\ Settle => HookInv'
<1> SUFFICES ASSUME HookInv, Settle PROVE HookInv'
  OBVIOUS
<1>1. /\ project \in Trees /\ baseline \in Trees
      /\ Synced \in Trees /\ Restored \in Trees
      /\ \A p \in Path : /\ Synced[p] = IF Changed(p) THEN project[p] ELSE baseline[p]
                         /\ Restored[p] = IF Changed(p) THEN baseline[p] ELSE project[p]
  BY DEF HookInv, HooksTypeOK, Trees, Synced, Restored
<1>2. HooksTypeOK'
  BY <1>1 DEF HookInv, HooksTypeOK, Settle
<1>3. ASSUME NEW p \in Open
      PROVE  /\ Current(p)'
             /\ mode = "restore" => project'[p] = begun'[p]
  <2>1. p \in Path /\ Current(p) /\ phase = "running"
        /\ keeps = cached /\ (mode # "write" => cached)
    BY <1>3 DEF HookInv, Open, Settle
  <2>2. cached => baseline[p] = begun[p]
    BY <2>1 DEF Current
  <2> QED
    BY <1>1, <2>1, <2>2 DEF Current, Settle, Changed, HookInv, HooksTypeOK
<1> QED
  BY <1>2, <1>3 DEF HookInv, Settle, Open

LEMMA RestoreChangedKeeps == HookInv /\ RestoreChanged => HookInv'
<1> SUFFICES ASSUME HookInv, RestoreChanged PROVE HookInv'
  OBVIOUS
<1>1. \A p \in Path : project'[p] = IF p \in Guarded THEN begun[p] ELSE project[p]
  BY DEF RestoreChanged
<1>2. HooksTypeOK'
  BY DEF HookInv, HooksTypeOK, Trees, RestoreChanged
<1>3. ASSUME NEW p \in Open
      PROVE  Current(p)' /\ (mode = "restore" => project'[p] = begun'[p])
  BY <1>1, <1>3 DEF HookInv, HooksTypeOK, Trees, Open, Current, RestoreChanged
<1>4. \A p \in Guarded : project'[p] = begun'[p]
  BY <1>1, SafetyAssumption DEF RestoreChanged
<1> QED
  BY <1>2, <1>3, <1>4 DEF HookInv, RestoreChanged, Open

LEMMA WorkerCrashKeeps == HookInv /\ WorkerCrash => HookInv'
BY DEF HookInv, HooksTypeOK, Trees, Open, Current, WorkerCrash

(* The inductive invariant of the hooks. *)
THEOREM HooksInvariant == HooksSpec => []HookInv
<1>1. HookInv /\ [HooksNext]_hookVars => HookInv'
  <2>1. HookInv /\ UNCHANGED hookVars => HookInv'
    BY DEF HookInv, HooksTypeOK, Open, Current, hookVars
  <2> QED
    BY <2>1, BeforeExecutionKeeps, ChangeKeeps, SettleKeeps, RestoreChangedKeeps,
       WorkerCrashKeeps DEF HooksNext
<1> QED
  BY <1>1, HooksStart, PTL DEF HooksSpec

(* Every attempt that has ended left the protected files as they were, and every *)
(* file if it was to be taken back (safety.py:273-349), for any files, contents   *)
(* and number of attempts.                                                    *)
THEOREM AttemptsAreRestored == HooksSpec => []AttemptRestored
<1>1. HookInv => AttemptRestored
  <2> SUFFICES ASSUME HookInv, phase = "over"
               PROVE  /\ \A p \in Guarded : project[p] = begun[p]
                      /\ mode = "restore" => project = begun
    BY DEF AttemptRestored
  <2>1. mode = "restore" => \A p \in Path : project[p] = begun[p]
    BY DEF HookInv, Open
  <2>2. project \in Trees /\ begun \in Trees
    BY DEF HookInv, HooksTypeOK
  <2> QED
    BY <2>1, <2>2 DEF HookInv, Trees
<1> QED
  BY <1>1, HooksInvariant, PTL

(***************************************************************************)
(* AgentProcesses: whoever dies, the agent that is known runs in the call    *)
(* that its worker is in, or its marker leads the Supervisor to it.          *)
(***************************************************************************)

(* A worker's agent is its own; what was recorded, or runs, was started.      *)
CallInv ==
  /\ workerAt \in {"started", "recorded", "ended"} =>
       agent \in Agent /\ owner[agent] = serial
  /\ recorded \subseteq Started /\ alive \subseteq Started

(* Where the agents are that the Supervisor could know of. *)
KnownInv ==
  /\ workerAt \in {"free", "started", "ended"} => alive \cap Known = {}
  /\ workerAt = "recorded" => alive \cap Known \subseteq {agent}
  /\ supervisor \in {"backoff", "over"} => alive \cap Known = {}
  /\ \A a \in alive \cap Known : marker = <<serial, a>> /\ owner[a] = serial

AgentInv == AgentsTypeOK /\ CallInv /\ KnownInv /\ (supervisor \in {"cleaning", "backoff", "over"} => workerAt = "gone")

LEMMA AgentStep == AgentInv /\ [AgentsNext]_agentVars => AgentInv'
<1> SUFFICES ASSUME AgentInv, [AgentsNext]_agentVars PROVE AgentInv'
  OBVIOUS
<1> USE AgentAssumption DEF AgentInv, Agent, Started
<1>1. CASE Popen
  <2>1. PICK a \in Agent \ Started :
               /\ agent' = a /\ alive' = alive \cup {a}
               /\ owner' = [owner EXCEPT ![a] = serial]
    BY <1>1 DEF Popen
  <2>2. workerAt = "free" /\ workerAt' = "started" /\ UNCHANGED <<marker, serial, supervisor, stopped, recorded>>
    BY <1>1 DEF Popen, host
  <2>3. a \notin recorded /\ owner[a] = 0
    BY <2>1 DEF CallInv, AgentsTypeOK
  <2>4. AgentsTypeOK'
    BY <2>1, <2>2 DEF AgentsTypeOK
  <2>5. owner'[a] = serial /\ \A b \in Agent : b # a => owner'[b] = owner[b]
    BY <2>1 DEF AgentsTypeOK
  <2>6. CallInv'
    BY <2>1, <2>2, <2>5 DEF AgentsTypeOK, CallInv
  <2>7. (alive \cap Known)' = alive \cap Known
    BY <2>1, <2>2, <2>3 DEF Known
  <2>8. KnownInv'
    BY <2>2, <2>7 DEF KnownInv
  <2> QED
    BY <2>2, <2>4, <2>6, <2>8
<1>2. CASE Record
  <2>1. workerAt = "started" /\ workerAt' = "recorded"
        /\ UNCHANGED <<alive, owner, agent, serial, supervisor, stopped>>
    BY <1>2 DEF Record, host
  <2>2. \/ marker' = <<serial, agent>> /\ recorded' = recorded \cup {agent}
        \/ UNCHANGED <<marker, recorded>>
    BY <1>2 DEF Record
  <2>3. /\ agent \in Agent /\ owner[agent] = serial /\ serial \in Nat \ {0}
        /\ supervisor \notin {"cleaning", "backoff", "over"}
    BY <2>1 DEF AgentsTypeOK, CallInv
  <2>4. alive \cap Known = {}
    BY <2>1 DEF KnownInv
  <2>8. AgentsTypeOK'
    BY <2>1, <2>2, <2>3 DEF AgentsTypeOK
  <2>9. CallInv'
    BY <2>1, <2>2, <2>3 DEF CallInv
  <2>5. (alive \cap Known)' \subseteq {agent}
    BY <2>1, <2>2, <2>4 DEF Known
  <2>6. CASE marker' = <<serial, agent>>
    <3>1. \A a \in (alive \cap Known)' : a = agent
      BY <2>5
    <3> QED
      BY <2>1, <2>8, <2>9, <2>3, <2>5, <2>6, <3>1 DEF KnownInv, Known
  <2>7. CASE UNCHANGED <<marker, recorded>>
    <3>1. (alive \cap Known)' = {}
      BY <2>1, <2>4, <2>7 DEF Known
    <3> QED
      BY <2>1, <2>8, <2>9, <2>3, <3>1 DEF KnownInv, Known
  <2> QED
    BY <2>1, <2>2, <2>3, <2>6, <2>7, <2>8, <2>9
<1>3. CASE AgentEnds
  BY <1>3 DEF AgentEnds, AgentsTypeOK, CallInv, KnownInv, Known, host
<1>4. CASE EndCall
  BY <1>4 DEF EndCall, AgentsTypeOK, CallInv, KnownInv, Known, host
<1>5. CASE RemoveMarker
  BY <1>5 DEF RemoveMarker, AgentsTypeOK, CallInv, KnownInv, Known, host, NoMarker
<1>6. CASE WorkerExits
  BY <1>6 DEF WorkerExits, AgentsTypeOK, CallInv, KnownInv, Known
<1>7. CASE WorkerDies \/ StopWorker
  <2>1. workerAt' = "gone" /\ supervisor' = "cleaning" /\ agent' = 0
        /\ UNCHANGED <<alive, owner, marker, serial, stopped, recorded>>
    BY <1>7 DEF WorkerDies, StopWorker
  <2>2. AgentsTypeOK'
    BY <2>1 DEF AgentsTypeOK
  <2> QED
    BY <2>1, <2>2 DEF CallInv, KnownInv, Known
<1>8. CASE RequestStop
  BY <1>8 DEF RequestStop, AgentsTypeOK, CallInv, KnownInv, Known
<1>9. CASE CleanUp
  <2>1. /\ supervisor = "cleaning" /\ supervisor' \in {"over", "backoff"}
        /\ UNCHANGED <<owner, workerAt, agent, serial, stopped, recorded>>
    BY <1>9 DEF CleanUp
  <2>2. \/ alive' = alive \ ({marker[2]} \ Immortal) /\ marker' = NoMarker
        \/ ~(Orphan /\ marker[2] \in alive) /\ UNCHANGED <<alive, marker>>
    BY <1>9 DEF CleanUp
  <2>3. AgentsTypeOK' /\ alive' \subseteq alive
    <3>1. NoMarker \in (0 .. MaxWorkers) \X (0 .. MaxAgents)
      BY DEF NoMarker
    <3> QED
      BY <2>1, <2>2, <3>1 DEF AgentsTypeOK
  <2>5. CallInv'
    BY <2>1, <2>3 DEF CallInv
  <2>4. (alive \cap Known)' = {}
    <3>1. \A a \in alive \cap Known : marker = <<serial, a>> /\ serial # 0 /\ a \notin Immortal
      BY DEF KnownInv, Known, AgentsTypeOK
    <3>2. \A a \in alive \cap Known : marker[2] = a /\ Orphan
      BY <3>1 DEF Orphan, NoMarker
    <3> QED
      BY <2>1, <2>2, <3>1, <3>2 DEF Known
  <2> QED
    BY <2>1, <2>3, <2>4, <2>5 DEF KnownInv
<1>10. CASE RestartWorker
  <2>1. /\ UNCHANGED <<alive, owner, marker, agent, stopped, recorded>> /\ supervisor = "backoff"
        /\ \/ serial < MaxWorkers /\ serial' = serial + 1 /\ workerAt' = "free"
              /\ supervisor' = "watching"
           \/ supervisor' = "over" /\ UNCHANGED <<serial, workerAt>>
    BY <1>10 DEF RestartWorker
  <2>2. AgentsTypeOK'
    BY <2>1 DEF AgentsTypeOK
  <2>3. CallInv'
    BY <2>1 DEF AgentsTypeOK, CallInv, KnownInv, Known
  <2>4. KnownInv'
    BY <2>1 DEF AgentsTypeOK, CallInv, KnownInv, Known
  <2>5. (supervisor \in {"cleaning", "backoff", "over"} => workerAt = "gone")'
    BY <2>1
  <2> QED
    BY <2>2, <2>3, <2>4, <2>5
<1>11. CASE UNCHANGED agentVars
  BY <1>11 DEF agentVars, host, AgentsTypeOK, CallInv, KnownInv, Known
<1> QED
  BY <1>1, <1>2, <1>3, <1>4, <1>5, <1>6, <1>7, <1>8, <1>9, <1>10, <1>11 DEF AgentsNext, SupervisorStep

(* For any number of agents and workers: an agent whose marker was written,   *)
(* and that a signal can end, runs only in a call of the current worker, or    *)
(* until the Supervisor has cleaned up behind it.                             *)
THEOREM NoAgentIsLeftBehind == AgentsSpec => []NoOrphan
<1>1. AgentsInit => AgentInv
  <2> SUFFICES ASSUME AgentsInit PROVE AgentInv
    OBVIOUS
  <2>1. AgentsTypeOK
    <3>1. NoMarker \in (0 .. MaxWorkers) \X (0 .. MaxAgents)
      BY AgentAssumption DEF NoMarker
    <3>2. owner \in [Agent -> 0 .. MaxWorkers]
      BY AgentAssumption DEF AgentsInit
    <3>3. alive \subseteq Agent /\ serial \in 1 .. MaxWorkers /\ agent \in 0 .. MaxAgents
      BY AgentAssumption DEF AgentsInit
    <3> QED
      BY <3>1, <3>2, <3>3 DEF AgentsInit, AgentsTypeOK
  <2> QED
    BY <2>1 DEF AgentsInit, AgentInv, CallInv, KnownInv, Known
<1>2. AgentInv => NoOrphan
  BY DEF AgentInv, NoOrphan, AgentsTypeOK, KnownInv
<1> QED
  BY <1>1, <1>2, AgentStep, PTL DEF AgentsSpec

(***************************************************************************)
(* StageTrial: where a trial that was cancelled is found, at each step of it. *)
(***************************************************************************)
InTable == {"stopping", "waiting", "ended", "timed out"}

(* A trial is in the table, and its process runs, only in the steps that say so. *)
Located(t) ==
  /\ t \in registered => step[t] \in InTable
  /\ step[t] \in {"stopping", "waiting"} => t \in registered
  /\ process[t] = "running" => step[t] \in {"started", "stopping", "waiting"}
  /\ cancel[t] # "none" => step[t] # "idle"

(* Whoever is in the set, or was when it registered, was cancelled in time.   *)
Meant(t) ==
  /\ t \in cancelled /\ step[t] # "over" => t \in halted
  /\ t \in atOnce \/ answer[t] = "cancelled" => t \in halted

(* A trial that was cancelled in time, and not forgotten: it will see that     *)
(* when it registers, or it saw it then, or it is being killed.               *)
Caught(t) ==
  /\ step[t] \in {"asked", "started"} => t \in cancelled
  /\ step[t] \in {"stopping", "waiting", "ended"} => t \in cancelled \cup atOnce
  /\ step[t] = "waiting" /\ process[t] = "running" => cancel[t] = "killing"
  /\ step[t] = "over" => answer[t] \in {"cancelled", "error"}
  /\ step[t] # "idle"

TrialSound(t) == Located(t) /\ Meant(t) /\ (t \in halted \ forgotten => Caught(t))
TrialInv == TrialTypeOK /\ \A t \in Trial : TrialSound(t)

LEMMA TablesTyped ==
  /\ UNION {registered, cancelled, atOnce, halted, forgotten} \subseteq Trial <=>
       /\ registered \subseteq Trial /\ cancelled \subseteq Trial /\ atOnce \subseteq Trial
       /\ halted \subseteq Trial /\ forgotten \subseteq Trial
  /\ (UNION {registered, cancelled, atOnce, halted, forgotten})' \subseteq Trial <=>
       /\ registered' \subseteq Trial /\ cancelled' \subseteq Trial /\ atOnce' \subseteq Trial
       /\ halted' \subseteq Trial /\ forgotten' \subseteq Trial
OBVIOUS

LEMMA TrialTyped == TrialTypeOK /\ [TrialNext]_trialVars => TrialTypeOK'
<1> SUFFICES ASSUME TrialTypeOK, [TrialNext]_trialVars PROVE TrialTypeOK'
  OBVIOUS
<1> USE DEF TrialTypeOK, Move
<1>1. ASSUME NEW t \in Trial, AskTrial(t) \/ RefuseTrial(t) \/ AskCancel(t) \/ ProcessEnds(t)
      PROVE  TrialTypeOK'
  BY <1>1 DEF AskTrial, RefuseTrial, AskCancel, ProcessEnds
<1>2. ASSUME NEW t \in Trial, StartTrial(t) \/ StopAtOnce(t) \/ KillTrial(t)
      PROVE  TrialTypeOK'
  BY <1>2 DEF StartTrial, StopAtOnce, KillTrial, Killed
<1>3. ASSUME NEW t \in Trial, RegisterTrial(t)
      PROVE  TrialTypeOK'
  BY <1>3 DEF RegisterTrial, Late
<1>4. ASSUME NEW t \in Trial, Communicate(t)
      PROVE  TrialTypeOK'
  BY <1>4 DEF Communicate, Killed
<1>5. ASSUME NEW t \in Trial, Conclude(t)
      PROVE  TrialTypeOK'
  <2>1. answer' \in [Trial -> {"none", "cancelled", "result", "error"}]
    BY <1>5 DEF Conclude
  <2>2. step' \in [Trial -> {"idle", "asked", "started", "stopping", "waiting", "ended", "timed out", "over"}]
    <3>1. step' = [step EXCEPT ![t] = "over"]
      BY <1>5 DEF Conclude
    <3> QED
      BY <3>1
  <2>3. (UNION {registered, cancelled, atOnce, halted, forgotten})' \subseteq Trial
    <3>1. /\ registered' \subseteq registered /\ cancelled' \subseteq cancelled
          /\ UNCHANGED <<atOnce, halted, forgotten>>
      BY <1>5 DEF Conclude
    <3> QED
      BY <3>1, TablesTyped
  <2> QED
    BY <1>5, <2>1, <2>2, <2>3 DEF Conclude
<1>6. ASSUME NEW t \in Trial, Cancel(t)
      PROVE  TrialTypeOK'
  <2>1. cancel' \in [Trial -> {"none", "asked", "killing", "answered"}]
    BY <1>6 DEF Cancel
  <2>2. /\ cancelled' \subseteq cancelled \cup {t} /\ halted' \subseteq halted \cup {t}
        /\ forgotten' \subseteq forgotten \cup cancelled
        /\ UNCHANGED <<step, process, registered, atOnce, answer>>
    BY <1>6 DEF Cancel
  <2>3. (UNION {registered, cancelled, atOnce, halted, forgotten})' \subseteq Trial
    BY <2>2, TablesTyped
  <2> QED
    BY <2>1, <2>2, <2>3
<1> QED
  BY <1>1, <1>2, <1>3, <1>4, <1>5, <1>6 DEF TrialNext, trialVars

LEMMA TrialStep ==
  ASSUME TrialTypeOK, NEW u \in Trial, TrialSound(u), [TrialNext]_trialVars
  PROVE  TrialSound(u)'
<1> USE DEF TrialSound, Located, Meant, Caught, TrialTypeOK, Move, InTable
<1>1. ASSUME NEW t \in Trial, AskTrial(t) \/ RefuseTrial(t) \/ AskCancel(t) \/ ProcessEnds(t)
      PROVE  TrialSound(u)'
  <2>1. CASE AskTrial(t)
    BY <2>1 DEF AskTrial
  <2>2. CASE RefuseTrial(t)
    BY <2>2 DEF RefuseTrial
  <2>3. CASE AskCancel(t)
    BY <2>3 DEF AskCancel
  <2>4. CASE ProcessEnds(t)
    BY <2>4 DEF ProcessEnds
  <2> QED
    BY <1>1, <2>1, <2>2, <2>3, <2>4
<1>2. ASSUME NEW t \in Trial, StartTrial(t) \/ StopAtOnce(t) \/ KillTrial(t)
      PROVE  TrialSound(u)'
  <2>1. CASE StartTrial(t)
    BY <2>1 DEF StartTrial
  <2>2. CASE StopAtOnce(t)
    BY <2>2 DEF StopAtOnce, Killed
  <2>3. CASE KillTrial(t)
    BY <2>3 DEF KillTrial, Killed
  <2> QED
    BY <1>2, <2>1, <2>2, <2>3
<1>3. ASSUME NEW t \in Trial, RegisterTrial(t)
      PROVE  TrialSound(u)'
  BY <1>3 DEF RegisterTrial, Late
<1>4. ASSUME NEW t \in Trial, Communicate(t)
      PROVE  TrialSound(u)'
  BY <1>4 DEF Communicate, Killed
<1>5. ASSUME NEW t \in Trial, Conclude(t)
      PROVE  TrialSound(u)'
  <2>1. /\ step[t] \in {"ended", "timed out"} /\ step' = [step EXCEPT ![t] = "over"]
        /\ registered' = registered \ {t} /\ cancelled' = cancelled \ {t}
        /\ UNCHANGED <<process, atOnce, cancel, halted, forgotten>>
    BY <1>5 DEF Conclude
  <2>2. \/ step[t] = "ended" /\ answer' = [answer EXCEPT ![t] =
                                   IF t \in cancelled \cup atOnce THEN "cancelled" ELSE "result"]
        \/ step[t] = "timed out" /\ answer' = [answer EXCEPT ![t] = "error"]
    BY <1>5 DEF Conclude
  <2>3. CASE u = t
    <3>1. /\ step'[u] = "over" /\ process[u] # "running"
          /\ answer'[u] = IF step[u] = "timed out" THEN "error" ELSE
                          IF u \in cancelled \cup atOnce THEN "cancelled" ELSE "result"
      BY <2>1, <2>2, <2>3
    <3> QED
      BY <2>1, <2>3, <3>1
  <2>4. CASE u # t
    <3>1. step'[u] = step[u] /\ answer'[u] = answer[u]
      BY <2>1, <2>2, <2>4
    <3> QED
      BY <2>1, <2>4, <3>1
  <2> QED
    BY <2>3, <2>4
<1>6. ASSUME NEW t \in Trial, Cancel(t)
      PROVE  TrialSound(u)'
  <2>1. /\ cancel[t] = "asked" /\ UNCHANGED <<step, process, registered, atOnce, answer>>
        /\ cancel' = [cancel EXCEPT ![t] = IF t \in registered THEN "killing" ELSE "answered"]
        /\ halted' = IF step[t] = "over" THEN halted ELSE halted \cup {t}
    BY <1>6 DEF Cancel
  <2>2. \/ cancelled' = cancelled \cup {t} /\ forgotten' = forgotten
        \/ cancelled' = {t} /\ forgotten' = forgotten \cup (cancelled \ {t})
    BY <1>6 DEF Cancel
  <2>3. CASE u = t
    <3>1. cancel'[u] = IF u \in registered THEN "killing" ELSE "answered"
      BY <2>1, <2>3
    <3>2. Located(u)'
      BY <2>1
    <3>3. Meant(u)'
      BY <2>1, <2>2, <2>3
    <3>4. u \in (halted \ forgotten)' => Caught(u)'
      BY <2>1, <2>2, <2>3, <3>1
    <3> QED
      BY <3>2, <3>3, <3>4
  <2>4. CASE u # t
    BY <2>1, <2>2, <2>4
  <2> QED
    BY <2>3, <2>4
<1>7. CASE UNCHANGED trialVars
  BY <1>7 DEF trialVars
<1> QED
  BY <1>1, <1>2, <1>3, <1>4, <1>5, <1>6, <1>7 DEF TrialNext

(* For any number of trials: one that is cancelled before its end answers     *)
(* that it was, its process is being killed if it runs on, and no other trial  *)
(* says so, unless the cap made the set of cancelled trials forget it.         *)
THEOREM CancelledTrialsStop == TrialSpec => []CancelStops
<1>1. TrialInit => TrialInv
  BY DEF TrialInit, TrialInv, TrialTypeOK, TrialSound, Located, Meant, Caught, InTable
<1>2. TrialInv /\ [TrialNext]_trialVars => TrialInv'
  BY TrialTyped, TrialStep DEF TrialInv
<1>3. TrialInv => CancelStops
  BY DEF TrialInv, CancelStops, TrialTypeOK, TrialSound, Located, Meant, Caught, InTable
<1> QED
  BY <1>1, <1>2, <1>3, PTL DEF TrialSpec

(***************************************************************************)
(* ProjectList: for any number of calls, and of processes that die in them,  *)
(* the list is what the calls made of it.                                   *)
(***************************************************************************)
Holding == {"held", "read", "written"}

(* The lock is that of the call that holds it, or of a dead one; a call that     *)
(* judged it stale is alone with the lock of a dead one.                       *)
Exclusive ==
  /\ \A c \in Client : callAt[c] \in Holding => listLock = c
  /\ old => listLock # Free /\ callAt[listLock] = "dead"
  /\ \A c \in Client : callAt[c] = "stale" => /\ listLock # Free /\ callAt[listLock] = "dead"
                                              /\ \A d \in Client : callAt[d] = "stale" => d = c

(* The list that the holder read is the one it replaces. *)
Serial ==
  /\ Exclusive
  /\ \A c \in Client : callAt[c] = "read" => read[c] = rows
  /\ rows = intended

ListTyped ==
  /\ listLock \in Client \cup {Free}
  /\ callAt \in [Client -> {"start", "stale", "held", "read", "written", "over", "dead"}]
  /\ read \in [Client -> SUBSET Entry] /\ rows \subseteq Entry
RegistryInv == ListTyped /\ (raced \/ Serial)

--------------------------------------------------------------------------
LEMMA RegistryStart == RegistryInit => RegistryInv
BY RegistryAssumption DEF RegistryInit, RegistryInv, ListTyped, Serial, Exclusive, Holding

LEMMA StepTyped == ListTyped /\ [RegistryNext]_registryVars => ListTyped'
<1> SUFFICES ASSUME ListTyped, [RegistryNext]_registryVars PROVE ListTyped'
  OBVIOUS
<1> USE DEF ListTyped, CallGoto
<1>1. ASSUME NEW c \in Client, CallStep(c) \/ CallerDies(c) PROVE ListTyped'
  <2>1. CASE TakeLock(c) \/ SeeStale(c) \/ BreakLock(c) \/ GiveUpLock(c) \/ DropLock(c)
    BY <2>1 DEF TakeLock, SeeStale, BreakLock, GiveUpLock, DropLock
  <2>2. CASE ReadRows(c)
    BY <2>2 DEF ReadRows
  <2>3. CASE WriteRows(c)
    BY <2>3 DEF WriteRows, Added, Removed
  <2>4. CASE CallerDies(c)
    BY <2>4 DEF CallerDies
  <2> QED
    BY <1>1, <2>1, <2>2, <2>3, <2>4 DEF CallStep
<1>2. CASE Age
  BY <1>2 DEF Age
<1>3. CASE UNCHANGED registryVars
  BY <1>3 DEF registryVars
<1> QED
  BY <1>1, <1>2, <1>3 DEF RegistryNext

(* As long as no two calls judge a lock at once, every step keeps the calls apart. *)
LEMMA StepSerial ==
  ASSUME ListTyped, Serial, NEW c \in Client, CallStep(c) \/ CallerDies(c)
  PROVE  raced' \/ Serial'
<1> USE RegistryAssumption DEF ListTyped, Serial, Exclusive, Holding, CallGoto
<1>1. CASE TakeLock(c)
  BY <1>1 DEF TakeLock
<1>2. CASE SeeStale(c)
  BY <1>2 DEF SeeStale
<1>3. CASE BreakLock(c)
  BY <1>3 DEF BreakLock
<1>4. CASE GiveUpLock(c)
  BY <1>4 DEF GiveUpLock
<1>5. CASE ReadRows(c)
  BY <1>5 DEF ReadRows
<1>6. CASE WriteRows(c)
  BY <1>6 DEF WriteRows
<1>7. CASE DropLock(c)
  BY <1>7 DEF DropLock
<1>8. CASE CallerDies(c)
  BY <1>8 DEF CallerDies
<1> QED
  BY <1>1, <1>2, <1>3, <1>4, <1>5, <1>6, <1>7, <1>8 DEF CallStep

LEMMA RaceStays == raced /\ [RegistryNext]_registryVars => raced'
BY DEF RegistryNext, registryVars, Age, CallStep, CallerDies, TakeLock, SeeStale, BreakLock,
       GiveUpLock, ReadRows, WriteRows, DropLock

LEMMA StepRegistry == RegistryInv /\ [RegistryNext]_registryVars => RegistryInv'
<1> SUFFICES ASSUME RegistryInv, [RegistryNext]_registryVars PROVE RegistryInv'
  OBVIOUS
<1>1. ListTyped'
  BY StepTyped DEF RegistryInv
<1>2. ASSUME Serial PROVE raced' \/ Serial'
  <2>1. CASE Age
    BY <1>2, <2>1 DEF Age, Serial, Exclusive
  <2>2. CASE UNCHANGED registryVars
    BY <1>2, <2>2 DEF registryVars, Serial, Exclusive
  <2> QED
    BY <1>2, <2>1, <2>2, StepSerial DEF RegistryNext, RegistryInv
<1> QED
  BY <1>1, <1>2, RaceStays DEF RegistryInv

(* No call undoes another one's change, for any number of calls and of deaths,   *)
(* unless two calls judged the lock of a dead one at the same time               *)
(* (project_registry.py:39-77).                                               *)
THEOREM ListIsKept == RegistrySpec => []ProjectsKept
<1>1. RegistryInv => ProjectsKept
  BY DEF RegistryInv, Serial, ProjectsKept
<1> QED
  BY <1>1, RegistryStart, StepRegistry, PTL DEF RegistrySpec

(***************************************************************************)
(* WorkflowStudio: for any projects, Workflows and Prompts, and any number   *)
(* of requests in any order, no Workflow loses a Prompt it names.           *)
(***************************************************************************)
(* The files of the Studio; how often they were edited does not matter. *)
FilesOK ==
  /\ known \subseteq Project /\ prompts \subseteq Scope \X PromptName
  /\ workflows \subseteq Scope \X Slot /\ refs \in [Scope \X Slot -> SUBSET PromptName]

StudioInv == FilesOK /\ PromptsResolve

--------------------------------------------------------------------------
(* A Prompt more does no harm, though it may hide a global one. *)
LEMMA MorePrompts ==
  ASSUME NEW s, NEW names, RefsResolve(s, names), prompts \subseteq prompts'
  PROVE  RefsResolve(s, names)'
BY DEF RefsResolve, Resolved

(* Nor does one less that no Workflow in sight uses, or its new name. *)
LEMMA FewerPrompts ==
  ASSUME NEW w \in workflows, w[1] \in Visible, RefsResolve(w[1], refs[w]),
         NEW p, NEW here, ~Used(p, here),
         prompts \ {p} \subseteq prompts', prompts' \subseteq prompts \/ p \notin prompts',
         UNCHANGED refs
  PROVE  RefsResolve(w[1], refs[w])'
<1> SUFFICES ASSUME NEW n \in refs[w] PROVE (Resolved(w[1], n) \in prompts)'
  BY DEF RefsResolve
<1>1. Resolved(w[1], n) \in prompts \ {p}
  BY DEF RefsResolve, Used
<1> QED
  BY <1>1 DEF Resolved

(* A Workflow is written where its Prompts are found. *)
LEMMA WriteResolves ==
  ASSUME StudioInv, NEW w \in Visible \X Slot, NEW names \in SUBSET PromptName,
         WriteWorkflow(w, names), UNCHANGED <<known, returned, prompts>>
  PROVE  StudioInv'
<1>1. w \in Scope \X Slot
  BY DEF StudioInv, FilesOK, Visible, Scope
<1>2. FilesOK'
  BY <1>1 DEF StudioInv, FilesOK, WriteWorkflow
<1>3. ASSUME NEW v \in workflows', v[1] \in Visible' \ returned'
      PROVE  RefsResolve(v[1], refs[v])'
  <2>1. CASE v = w
    BY <1>1, <2>1 DEF WriteWorkflow, StudioInv, FilesOK, RefsResolve, Resolved
  <2>2. CASE v # w
    <3>1. v \in workflows /\ refs'[v] = refs[v] /\ v[1] \in Visible \ returned
      BY <1>1, <1>3, <2>2 DEF WriteWorkflow, StudioInv, FilesOK, Visible
    <3> QED
      BY <3>1 DEF StudioInv, PromptsResolve, RefsResolve, Resolved
  <2> QED
    BY <2>1, <2>2
<1> QED
  BY <1>2, <1>3 DEF StudioInv, PromptsResolve

--------------------------------------------------------------------------
LEMMA StudioStart == StudioInit => StudioInv
BY DEF StudioInit, StudioInv, FilesOK, PromptsResolve, NoRefs

LEMMA WorkflowsKeep ==
  StudioInv /\ (SaveWorkflow \/ CreateWorkflow \/ DeleteWorkflow \/ RenameWorkflow) => StudioInv'
<1> SUFFICES ASSUME StudioInv,
                    SaveWorkflow \/ CreateWorkflow \/ DeleteWorkflow \/ RenameWorkflow
             PROVE  StudioInv'
  OBVIOUS
<1>1. CASE SaveWorkflow
  <2>1. PICK w \in workflows, names \in SUBSET PromptName :
          w[1] \in Visible /\ WriteWorkflow(w, names)
    BY <1>1 DEF SaveWorkflow
  <2>2. w \in Visible \X Slot
    BY <2>1 DEF StudioInv, FilesOK
  <2> QED
    BY <1>1, <2>1, <2>2, WriteResolves DEF SaveWorkflow
<1>2. CASE CreateWorkflow
  BY <1>2, WriteResolves DEF CreateWorkflow
<1>3. CASE DeleteWorkflow
  <2>1. PICK w \in workflows :
          workflows' = workflows \ {w} /\ refs' = [refs EXCEPT ![w] = {}]
    BY <1>3 DEF DeleteWorkflow
  <2>2. FilesOK'
    BY <1>3, <2>1 DEF DeleteWorkflow, StudioInv, FilesOK
  <2>3. ASSUME NEW v \in workflows', v[1] \in Visible' \ returned'
        PROVE  RefsResolve(v[1], refs[v])'
    <3>1. v \in workflows /\ refs'[v] = refs[v] /\ v[1] \in Visible \ returned
      BY <1>3, <2>1, <2>3 DEF DeleteWorkflow, StudioInv, FilesOK, Visible
    <3> QED
      BY <1>3, <3>1 DEF DeleteWorkflow, StudioInv, PromptsResolve, RefsResolve, Resolved
  <2> QED
    BY <2>2, <2>3 DEF StudioInv, PromptsResolve
<1>4. CASE RenameWorkflow
  <2>1. PICK w \in workflows, k \in Slot :
          /\ w[1] \in Visible /\ <<w[1], k>> \notin workflows /\ RefsResolve(w[1], refs[w])
          /\ workflows' = (workflows \ {w}) \cup {<<w[1], k>>}
          /\ refs' = [refs EXCEPT ![w] = {}, ![<<w[1], k>>] = refs[w]]
    BY <1>4 DEF RenameWorkflow
  <2> DEFINE to == <<w[1], k>>
  <2>2. w \in Scope \X Slot /\ to \in Scope \X Slot /\ to # w
    BY <2>1 DEF StudioInv, FilesOK, Visible, Scope
  <2>3. /\ FilesOK' /\ refs'[to] = refs[w]
        /\ \A v \in workflows \ {w} : refs'[v] = refs[v]
    <3>1. refs[w] \in SUBSET PromptName
      BY <2>2 DEF StudioInv, FilesOK
    <3> QED
      BY <1>4, <2>1, <2>2, <3>1 DEF RenameWorkflow, StudioInv, FilesOK
  <2>4. ASSUME NEW v \in workflows', v[1] \in Visible' \ returned'
        PROVE  RefsResolve(v[1], refs[v])'
    <3>1. CASE v = to
      BY <1>4, <2>1, <2>3, <3>1 DEF RenameWorkflow, RefsResolve, Resolved
    <3>2. CASE v # to
      BY <1>4, <2>1, <2>3, <2>4, <3>2
         DEF RenameWorkflow, StudioInv, PromptsResolve, RefsResolve, Resolved, Visible
    <3> QED
      BY <3>1, <3>2
  <2> QED
    BY <2>3, <2>4 DEF StudioInv, PromptsResolve
<1> QED
  BY <1>1, <1>2, <1>3, <1>4

LEMMA PromptsKeep == StudioInv /\ (CreatePrompt \/ DeletePrompt \/ RenamePrompt) => StudioInv'
<1> SUFFICES ASSUME StudioInv, CreatePrompt \/ DeletePrompt \/ RenamePrompt
             PROVE  StudioInv'
  OBVIOUS
<1>1. UNCHANGED <<known, returned, workflows, refs>>
  BY DEF CreatePrompt, DeletePrompt, RenamePrompt
<1>2. FilesOK'
  <2>1. Visible \X PromptName \subseteq Scope \X PromptName
    BY DEF StudioInv, FilesOK, Visible, Scope
  <2>2. prompts' \subseteq Scope \X PromptName
    BY <2>1 DEF StudioInv, FilesOK, CreatePrompt, DeletePrompt, RenamePrompt
  <2> QED
    BY <1>1, <2>2 DEF StudioInv, FilesOK
<1>3. ASSUME NEW w \in workflows, w[1] \in Visible \ returned
      PROVE  RefsResolve(w[1], refs[w])'
  <2>1. RefsResolve(w[1], refs[w])
    BY <1>3 DEF StudioInv, PromptsResolve
  <2>2. CASE CreatePrompt
    BY <1>1, <2>1, <2>2, MorePrompts DEF CreatePrompt, RefsResolve, Resolved
  <2>3. CASE DeletePrompt
    BY <1>1, <1>3, <2>1, <2>3, FewerPrompts DEF DeletePrompt
  <2>4. CASE RenamePrompt
    BY <1>1, <1>3, <2>1, <2>4, FewerPrompts DEF RenamePrompt
  <2> QED
    BY <2>2, <2>3, <2>4
<1> QED
  BY <1>1, <1>2, <1>3 DEF StudioInv, PromptsResolve, Visible

LEMMA ProjectsKeep == StudioInv /\ (AddProject \/ RemoveProject) => StudioInv'
BY DEF StudioInv, FilesOK, PromptsResolve, RefsResolve, Resolved, Visible,
       AddProject, RemoveProject

(* Every order of requests keeps every Workflow that can be opened runnable: each  *)
(* Prompt it names is found, beside it or among the global ones                    *)
(* (workflow_studio_state.py:948-1052, 1076-1158).                               *)
THEOREM NoPromptIsMissed == StudioSpec => []PromptsResolve
<1>1. StudioInv /\ [StudioNext]_studioVars => StudioInv'
  <2>1. StudioInv /\ UNCHANGED studioVars => StudioInv'
    BY DEF StudioInv, FilesOK, PromptsResolve, RefsResolve, Resolved, Visible, studioVars
  <2> QED
    BY <2>1, WorkflowsKeep, PromptsKeep, ProjectsKeep DEF StudioNext
<1>2. StudioInv => PromptsResolve
  BY DEF StudioInv
<1> QED
  BY <1>1, <1>2, StudioStart, PTL DEF StudioSpec

(***************************************************************************)
(* DraftPublish: for any number of files and of publications, a publication  *)
(* that raises is taken back, and a killed one loses nothing.               *)
(***************************************************************************)
DraftTyped ==
  /\ target \in [File -> Nat] /\ backup \in [File -> Nat] /\ original \in [File -> Nat]
  /\ copied \subseteq File /\ moved \subseteq File /\ file \in Nat /\ number \in Nat

(* What a file held is aside, or there was nothing, or it is still there. *)
Safe(f) ==
  IF f \in moved THEN backup[f] = original[f]
  ELSE IF f \in copied THEN original[f] = 0
  ELSE target[f] = original[f]

(* How far a publication has come. *)
Progress ==
  /\ file \in File
  /\ ~overwrite => original = Nothing
  /\ \A f \in File :
       /\ f < file => target[f] = number
       /\ f >= file => f \notin copied
       /\ f > file \/ (f = file /\ publishAt = "backup") => f \notin moved
  /\ publishAt = "replace" /\ file \notin moved => original[file] = 0

Kept == (\E f \in File : target[f] # number) =>
          \A f \in File : original[f] # 0 => original[f] \in {target[f], backup[f]}

PublishInv ==
  /\ DraftTyped /\ Kept
  /\ publishAt \in {"idle", "backup", "replace", "drop", "undo", "done", "raised"}
  /\ publishAt \in {"backup", "replace", "undo"} => \A f \in File : Safe(f)
  /\ publishAt \in {"backup", "replace"} => Progress
  /\ publishAt \in {"drop", "done"} => \A f \in File : target[f] = number
  /\ publishAt = "raised" => \A f \in File : target[f] = original[f]

--------------------------------------------------------------------------
LEMMA PublishStart == PublishInit => PublishInv
BY PublishAssumption DEF PublishInit, PublishInv, DraftTyped, Kept, Nothing, File

LEMMA BeginKeeps == PublishInv /\ BeginPublish => PublishInv'
<1> SUFFICES ASSUME PublishInv, BeginPublish PROVE PublishInv'
  OBVIOUS
<1>1. 1 \in File
  BY PublishAssumption DEF File
<1>2. DraftTyped' /\ Kept'
  BY DEF PublishInv, BeginPublish, DraftTyped, Kept
<1>3. \A f \in File : Safe(f)'
  BY DEF BeginPublish, Safe
<1>4. Progress'
  BY <1>1 DEF BeginPublish, Progress, File
<1> QED
  BY <1>2, <1>3, <1>4 DEF PublishInv, BeginPublish

LEMMA BackupKeeps == PublishInv /\ BackupExisting => PublishInv'
<1> SUFFICES ASSUME PublishInv, BackupExisting PROVE PublishInv'
  OBVIOUS
<1>1. Progress /\ (\A f \in File : Safe(f)) /\ DraftTyped /\ publishAt = "backup" /\ file \in File
  BY DEF PublishInv, BackupExisting, Closes, Progress
<1>2. file \notin moved /\ file \notin copied /\ target[file] = original[file]
  BY <1>1 DEF Progress, Safe, File
<1>3. DraftTyped' /\ Progress' /\ (\A f \in File : Safe(f)')
  <2>1. CASE overwrite /\ target[file] # 0
    <3>0. /\ backup' = [backup EXCEPT ![file] = target[file]]
          /\ target' = [target EXCEPT ![file] = 0]
          /\ moved' = moved \cup {file}
          /\ UNCHANGED <<original, copied, file, number>>
      BY <2>1 DEF BackupExisting
    <3>1. DraftTyped'
      <4>1. target[file] \in Nat
        BY <1>1 DEF DraftTyped
      <4> QED
        BY <1>1, <3>0, <4>1 DEF DraftTyped
    <3>2. \A f \in File : Safe(f)'
      BY <1>1, <1>2, <2>1 DEF BackupExisting, DraftTyped, Safe
    <3>3. Progress'
      BY <1>1, <1>2, <2>1 DEF BackupExisting, DraftTyped, Progress, File
    <3> QED
      BY <3>1, <3>2, <3>3
  <2>2. CASE ~(overwrite /\ target[file] # 0)
    <3>1. original[file] = 0
      BY <1>1, <1>2, <2>2 DEF Progress, Nothing
    <3>2. UNCHANGED <<target, backup, original, moved, copied, file, overwrite, number>>
          /\ publishAt' = "replace"
      BY <2>2 DEF BackupExisting
    <3>3. DraftTyped' /\ \A f \in File : Safe(f)'
      BY <1>1, <3>2 DEF DraftTyped, Safe
    <3>4. Progress'
      BY <1>1, <3>1, <3>2 DEF Progress
    <3> QED
      BY <3>3, <3>4
  <2> QED
    BY <2>1, <2>2
<1>4. Kept'
  BY <1>3 DEF Safe, Kept
<1> QED
  BY <1>3, <1>4 DEF PublishInv, BackupExisting

LEMMA ReplaceKeeps == PublishInv /\ Replace => PublishInv'
<1> SUFFICES ASSUME PublishInv, Replace PROVE PublishInv'
  OBVIOUS
<1>1. Progress /\ (\A f \in File : Safe(f)) /\ DraftTyped /\ file \in File /\ publishAt = "replace"
  BY DEF PublishInv, Replace, Progress
<1>2. /\ DraftTyped'
      /\ \A f \in File : f < file' => target'[f] = number'
  BY <1>1 DEF Replace, DraftTyped, Progress, File
<1>3. CASE file < Files
  <2>1. (\A f \in File : Safe(f)')
    BY <1>1, <1>3 DEF Replace, DraftTyped, Progress, Safe, File, Prompt
  <2>2. Progress'
    BY <1>1, <1>2, <1>3, PublishAssumption DEF Replace, DraftTyped, Progress, File, Prompt
  <2> QED
    BY <1>2, <1>3, <2>1, <2>2 DEF PublishInv, Replace, Kept, Safe
<1>4. CASE file >= Files
  <2>1. \A f \in File : f < file'
    BY <1>1, <1>4, PublishAssumption DEF Replace, File
  <2> QED
    BY <1>1, <1>2, <1>4, <2>1, PublishAssumption DEF PublishInv, Replace, Kept, File
<1> QED
  BY <1>1, <1>3, <1>4, PublishAssumption DEF File

LEMMA EndKeeps == PublishInv /\ (DropBackup \/ FinishPublish \/ RaisePublish \/ KillPublish)
                    => PublishInv'
<1> SUFFICES ASSUME PublishInv, DropBackup \/ FinishPublish \/ RaisePublish \/ KillPublish
             PROVE  PublishInv'
  OBVIOUS
<1>1. CASE DropBackup
  BY <1>1 DEF DropBackup, PublishInv, DraftTyped, Kept
<1>2. CASE FinishPublish
  BY <1>2 DEF FinishPublish, PublishInv, DraftTyped, Kept
<1>3. CASE RaisePublish
  BY <1>3 DEF RaisePublish, PublishInv, DraftTyped, Kept, Safe
<1>4. CASE KillPublish
  BY <1>4 DEF KillPublish, PublishInv, DraftTyped, Kept
<1> QED
  BY <1>1, <1>2, <1>3, <1>4

LEMMA UndoKeeps == PublishInv /\ (UndoCopy \/ Restore \/ Undone) => PublishInv'
<1> SUFFICES ASSUME PublishInv, UndoCopy \/ Restore \/ Undone PROVE PublishInv'
  OBVIOUS
<1>1. DraftTyped /\ publishAt = "undo" /\ \A f \in File : Safe(f)
  BY DEF PublishInv, UndoCopy, Restore, Undone
<1>2. CASE UndoCopy
  <2>1. DraftTyped' /\ \A f \in File : Safe(f)'
    BY <1>1, <1>2 DEF UndoCopy, DraftTyped, Safe
  <2> QED
    BY <1>1, <1>2, <2>1 DEF UndoCopy, PublishInv, Kept, Safe
<1>3. CASE Restore
  <2>1. DraftTyped' /\ \A f \in File : Safe(f)'
    BY <1>1, <1>3 DEF Restore, DraftTyped, Safe
  <2> QED
    BY <1>1, <1>3, <2>1 DEF Restore, PublishInv, Kept, Safe
<1>4. CASE Undone
  BY <1>1, <1>4 DEF Undone, PublishInv, DraftTyped, Kept, Safe
<1> QED
  BY <1>2, <1>3, <1>4

(* The inductive invariant of publishing. *)
THEOREM PublishInvariant == PublishSpec => []PublishInv
<1>1. PublishInv /\ [PublishNext]_publishVars => PublishInv'
  <2>1. PublishInv /\ UNCHANGED publishVars => PublishInv'
    BY DEF PublishInv, DraftTyped, Kept, Safe, Progress, publishVars
  <2> QED
    BY <2>1, BeginKeeps, BackupKeeps, ReplaceKeeps, EndKeeps, UndoKeeps
       DEF PublishNext, Publish
<1> QED
  BY <1>1, PublishStart, PTL DEF PublishSpec

(* A publication that raised leaves every file as it was, and one that is killed   *)
(* keeps what it found, in its place or aside (run.py:188-249), however many files  *)
(* and publications there are.                                                *)
THEOREM PublishingLosesNothing == PublishSpec => []NothingLost
<1>1. PublishInv => NothingLost
  <2> SUFFICES ASSUME PublishInv PROVE NothingLost
    OBVIOUS
  <2>1. publishAt = "raised" => target = original
    <3>1. target \in [File -> Nat] /\ original \in [File -> Nat]
      BY DEF PublishInv, DraftTyped
    <3> QED
      BY <3>1 DEF PublishInv
  <2> QED
    BY <2>1 DEF PublishInv, Kept, NothingLost
<1> QED
  BY <1>1, PublishInvariant, PTL

(***************************************************************************)
(* RunLock: types for every bound, exclusion for any number of launches as long*)
(* as no Supervisor is killed or held up, and that a launch which meets no other*)
(* one is not refused, kills and hold-ups or not; exclusion for two launches   *)
(* whoever of them is killed.                                                *)
(***************************************************************************)
(* At first every variable has its type. *)
LEMMA InitTypeOK == LockInit => LockTypeOK
BY LimitAssumption DEF LockInit, LockTypeOK, NoFile, Ended, Running, Attempts

(* Every step keeps the types, crashes and stalls included. *)
LEMMA NextTypeOK == LockTypeOK /\ [LockNext]_lockVars => LockTypeOK'
<1> SUFFICES ASSUME LockTypeOK, [LockNext]_lockVars
             PROVE  LockTypeOK'
  OBVIOUS
<1> USE DEF LockTypeOK, Ended, Running, Goto
<1>1. ASSUME NEW p \in Launch, Start(p)
      PROVE  LockTypeOK'
  BY <1>1 DEF Start, Living
<1>2. ASSUME NEW p \in Launch, Acquire(p)
      PROVE  LockTypeOK'
  <2>1. CASE Create(p)
    <3>1. lock' \in [owner : Launch \cup {Nobody}, content : {"empty", "token"}]
      <4>1. CASE lock = NoFile
        BY <2>1, <4>1 DEF Create
      <4>2. CASE lock # NoFile
        BY <2>1, <4>2 DEF Create
      <4> QED
        BY <4>1, <4>2
    <3>2. pc' \in [Launch -> Ended \cup Running]
      BY <2>1 DEF Create
    <3>3. left' \in [Launch -> 0 .. Attempts]
      BY <2>1 DEF Create, Attempts
    <3> QED
      BY <2>1, <3>1, <3>2, <3>3 DEF Create
  <2>2. CASE GiveUp(p)
    BY <2>2 DEF GiveUp
  <2>3. CASE Write(p)
    BY <2>3 DEF Write
  <2> QED
    BY <1>2, <2>1, <2>2, <2>3 DEF Acquire
<1>3. ASSUME NEW p \in Launch, RemoveStale(p)
      PROVE  LockTypeOK'
  <2>1. CASE Inspect(p)
    BY <2>1 DEF Inspect
  <2>2. CASE RecheckGone(p) \/ RecheckYoung(p)
    BY <2>2 DEF RecheckGone, RecheckYoung
  <2>3. CASE RecheckOld(p)
    BY <2>3 DEF RecheckOld
  <2>4. CASE Judge(p)
    BY <2>4 DEF Judge
  <2>5. CASE Reread(p)
    BY <2>5 DEF Reread
  <2>6. CASE Unlink(p)
    BY <2>6 DEF Unlink, NoFile
  <2> QED
    BY <1>3, <2>1, <2>2, <2>3, <2>4, <2>5, <2>6 DEF RemoveStale
<1>4. ASSUME NEW p \in Launch, Supervise(p)
      PROVE  LockTypeOK'
  <2>1. CASE StartWorker(p) \/ WorkerEnds(p)
    BY <2>1 DEF StartWorker, WorkerEnds
  <2>2. CASE Release(p)
    BY <2>2 DEF Release
  <2>3. CASE ReleaseUnlink(p)
    BY <2>3 DEF ReleaseUnlink, NoFile
  <2> QED
    BY <1>4, <2>1, <2>2, <2>3 DEF Supervise
<1>5. ASSUME NEW p \in Launch, Crash(p)
      PROVE  LockTypeOK'
  BY <1>5 DEF Crash, Living
<1>6. CASE AllEnded \/ UNCHANGED lockVars
  BY <1>6 DEF AllEnded, lockVars
<1> QED
  BY <1>1, <1>2, <1>3, <1>4, <1>5, <1>6 DEF LockNext

(* Every variable of the lock protocol keeps its type, however many launches  *)
(* there are and whatever is killed or held up.                               *)
THEOREM LockTypeCorrect == LockSpec => []LockTypeOK
<1>1. LockInit => LockTypeOK
  BY InitTypeOK
<1>2. LockTypeOK /\ [LockNext]_lockVars => LockTypeOK'
  BY NextTypeOK
<1> QED
  BY <1>1, <1>2, PTL DEF LockSpec

--------------------------------------------------------------------------
(* Without a kill or a stall, no launch ever removes a file it did not make.  *)
LEMMA InitCleanInv == LockInit => CleanInv
BY InitTypeOK, NobodyAssumption DEF LockInit, CleanInv, NoFile, Owning

(* Without crashes and stalls every step keeps CleanInv. *)
LEMMA NextCleanInv ==
  ASSUME MaxCrashes = 0, stalls = 0, crashes = 0, MaxStalls = 0, CleanInv, [LockNext]_lockVars
  PROVE  CleanInv' /\ stalls' = 0 /\ crashes' = 0
<1>1. LockTypeOK'
  BY NextTypeOK DEF CleanInv
<1> USE NobodyAssumption DEF CleanInv, LockTypeOK, Owning, Goto, NoFile, Running
<1>2. ASSUME NEW p \in Launch, Start(p)
      PROVE  CleanInv' /\ stalls' = 0 /\ crashes' = 0
  BY <1>1, <1>2 DEF Start
<1>3. ASSUME NEW p \in Launch, Acquire(p)
      PROVE  CleanInv' /\ stalls' = 0 /\ crashes' = 0
  <2>1. CASE Create(p)
    <3>1. CASE lock = NoFile
      <4>1. /\ lock' = [owner |-> p, content |-> "empty"]
            /\ pc' = [pc EXCEPT ![p] = "write"]
            /\ UNCHANGED <<seen, worker, crashes, stalls>>
        BY <2>1, <3>1 DEF Create
      <4>2. \A q \in Launch : pc[q] \notin {"write", "held", "releasing"} /\ seen[q] # p
        BY <2>1, <3>1 DEF Create
      <4> QED
        BY <1>1, <4>1, <4>2
    <3>2. CASE lock # NoFile
      BY <1>1, <2>1, <3>2 DEF Create
    <3> QED
      BY <3>1, <3>2
  <2>2. CASE GiveUp(p)
    BY <1>1, <2>2 DEF GiveUp
  <2>3. CASE Write(p)
    <3>1. /\ lock' = [owner |-> p, content |-> "token"]
          /\ pc' = [pc EXCEPT ![p] = "held"]
          /\ UNCHANGED <<seen, worker, crashes, stalls>>
      BY <2>3 DEF Write
    <3>2. \A q \in Launch : q # p => pc[q] \notin {"write", "held", "releasing"}
      BY <2>3 DEF Write
    <3> QED
      BY <1>1, <2>3, <3>1, <3>2 DEF Write
  <2> QED
    BY <1>3, <2>1, <2>2, <2>3 DEF Acquire
<1>4. ASSUME NEW p \in Launch, RemoveStale(p)
      PROVE  CleanInv' /\ stalls' = 0 /\ crashes' = 0
  <2>1. CASE Inspect(p)
    BY <1>1, <2>1 DEF Inspect
  <2>2. CASE RecheckGone(p) \/ RecheckYoung(p)
    BY <1>1, <2>2 DEF RecheckGone, RecheckYoung
  <2>3. CASE RecheckOld(p)
    (* the owner lives, so only a stall makes its file old *)
    BY <2>3 DEF RecheckOld, Living
  <2>4. CASE Judge(p)
    <3>1. seen[p] \in Living => OwnerPidAlive(p)
      BY DEF OwnerPidAlive
    <3>2. ~OwnerPidAlive(p) => pc[seen[p]] = "done"
      BY <2>4, <3>1 DEF Judge, Living
    <3> QED
      BY <1>1, <2>4, <3>2 DEF Judge
  <2>5. CASE Reread(p)
    (* the owner that was read is done, so its file is gone *)
    <3>1. ~SameToken(p)
      BY <2>5 DEF Reread, SameToken
    <3> QED
      BY <1>1, <2>5, <3>1 DEF Reread
  <2>6. CASE Unlink(p)
    BY <2>6 DEF Unlink
  <2> QED
    BY <1>4, <2>1, <2>2, <2>3, <2>4, <2>5, <2>6 DEF RemoveStale
<1>5. ASSUME NEW p \in Launch, Supervise(p)
      PROVE  CleanInv' /\ stalls' = 0 /\ crashes' = 0
  <2>1. CASE StartWorker(p) \/ WorkerEnds(p)
    BY <1>1, <2>1 DEF StartWorker, WorkerEnds
  <2>2. CASE Release(p)
    BY <1>1, <2>2 DEF Release
  <2>3. CASE ReleaseUnlink(p)
    BY <1>1, <2>3 DEF ReleaseUnlink
  <2> QED
    BY <1>5, <2>1, <2>2, <2>3 DEF Supervise
<1>6. ASSUME NEW p \in Launch, Crash(p)
      PROVE  FALSE
  BY <1>6 DEF Crash
<1>7. CASE AllEnded \/ UNCHANGED lockVars
  BY <1>1, <1>7 DEF AllEnded, lockVars
<1> QED
  BY <1>2, <1>3, <1>4, <1>5, <1>6, <1>7 DEF LockNext

(* CleanInv implies the three safety properties. *)
LEMMA CleanInvSuffices ==
  CleanInv => MutualExclusion /\ OneRuntime /\ OwnerHoldsFile
<1> SUFFICES ASSUME CleanInv
             PROVE  MutualExclusion /\ OneRuntime /\ OwnerHoldsFile
  OBVIOUS
<1>1. OwnerHoldsFile
  BY DEF CleanInv, OwnerHoldsFile
<1>2. MutualExclusion
  BY <1>1 DEF OwnerHoldsFile, MutualExclusion
<1>3. \A p \in worker : p \in Launch /\ Owning(p)
  BY DEF CleanInv, LockTypeOK, Owning
<1>4. OneRuntime
  BY <1>2, <1>3 DEF MutualExclusion, OneRuntime
<1> QED
  BY <1>1, <1>2, <1>4

(* However many launches race for a work_dir, and even if process ids are     *)
(* used again: as long as no Supervisor is killed or held up for the grace    *)
(* period, at most one owns it.                                               *)
THEOREM LockExcludes ==
  ASSUME MaxCrashes = 0, MaxStalls = 0
  PROVE  LockSpec => [](MutualExclusion /\ OneRuntime /\ OwnerHoldsFile)
<1> DEFINE Inv == CleanInv /\ stalls = 0 /\ crashes = 0
<1>1. LockInit => Inv
  BY InitCleanInv DEF LockInit
<1>2. Inv /\ [LockNext]_lockVars => Inv'
  BY NextCleanInv
<1>3. Inv => MutualExclusion /\ OneRuntime /\ OwnerHoldsFile
  BY CleanInvSuffices
<1> HIDE DEF Inv
<1> QED
  BY <1>1, <1>2, <1>3, PTL DEF LockSpec

--------------------------------------------------------------------------
(* A launch that created the file once never tries to take it over again.     *)
Created(p) == pc[p] \in {"write", "held", "releasing", "done", "dead"}

(* The file's owner created it, and has filled it by the time it owns the     *)
(* work_dir; only a kill makes an owner leave its file behind.                *)
FileInv ==
  lock # NoFile =>
    /\ lock.owner \in Launch /\ Created(lock.owner)
    /\ Owning(lock.owner) => lock.content = "token"
    /\ MaxCrashes = 0 => lock.owner \in Living

(* An owner that was read in the file created a file. *)
SeenInv ==
  \A p \in Launch :
    /\ seen[p] # Nobody => Created(seen[p])
    /\ pc[p] \in {"judge", "reread"} => seen[p] \in Launch

(* Unless ids come back, two launches that were started have two ids. *)
PidInv ==
  ReusePids \/ \A p, q \in Launch :
                 pc[p] # "idle" /\ pc[q] # "idle" /\ pid[p] = pid[q] => p = q

(* A launch that has not tried yet has both attempts left; one that meets no  *)
(* other one finds the file it judged again, and after its first attempt      *)
(* there is no file.                                                          *)
AloneInv ==
  /\ \A p \in Launch : pc[p] = "idle" => left[p] = Attempts
  /\ \A p \in Living \ contested :
       /\ Living = {p}
       /\ pc[p] = "create" => left[p] = 2 \/ (left[p] = 1 /\ lock = NoFile)
       /\ pc[p] \in {"inspect", "recheck", "judge", "reread", "unlink", "unlinkOld"}
            => left[p] = 1
       /\ pc[p] \in {"inspect", "recheck"} => lock # NoFile
       /\ pc[p] \in {"judge", "reread"} => SameToken(p)

LoneInv == LockTypeOK /\ FileInv /\ SeenInv /\ PidInv /\ AloneInv /\ LoneLaunchStarts

(* Before any launch there is no file and nobody lives. *)
LEMMA InitLoneInv == LockInit => LoneInv
<1> SUFFICES ASSUME LockInit PROVE LoneInv
  OBVIOUS
<1>1. LockTypeOK
  BY InitTypeOK
<1>2. Living = {}
  BY DEF LockInit, Living, Running
<1>3. FileInv /\ SeenInv /\ PidInv /\ LoneLaunchStarts
  BY DEF LockInit, FileInv, SeenInv, PidInv, LoneLaunchStarts, Created
<1> QED
  BY <1>1, <1>2, <1>3 DEF LoneInv, AloneInv, LockInit

(* No step makes a launch forget that it created a file. *)
LEMMA CreatedStays ==
  ASSUME LockTypeOK, [LockNext]_lockVars, NEW p \in Launch, Created(p)
  PROVE  Created(p)'
<1> USE DEF LockTypeOK, Created, Goto
<1>1. ASSUME NEW q \in Launch, Start(q) \/ Acquire(q) \/ Supervise(q) \/ Crash(q)
      PROVE  Created(p)'
  BY <1>1 DEF Start, Acquire, Create, GiveUp, Write, Supervise, StartWorker, WorkerEnds, Release,
              ReleaseUnlink, Crash
<1>2. ASSUME NEW q \in Launch, RemoveStale(q)
      PROVE  Created(p)'
  BY <1>2 DEF RemoveStale, Inspect, RecheckGone, RecheckYoung, RecheckOld, Judge, Reread, Unlink
<1> QED
  BY <1>1, <1>2 DEF LockNext, AllEnded, lockVars

(* Every step keeps what FileInv says of the file. *)
LEMMA NextFileInv ==
  ASSUME LockTypeOK, FileInv, [LockNext]_lockVars
  PROVE  FileInv'
<1> USE LimitAssumption DEF LockTypeOK, Goto, Owning, Living, Running, NoFile, FileInv, Created
<1>1. ASSUME NEW p \in Launch, Start(p)
      PROVE  FileInv'
  BY <1>1 DEF Start
<1>2. ASSUME NEW p \in Launch, Acquire(p)
      PROVE  FileInv'
  <2>1. CASE Create(p)
    BY <2>1 DEF Create
  <2>2. CASE GiveUp(p)
    BY <2>2 DEF GiveUp
  <2>3. CASE Write(p)
    BY <2>3 DEF Write
  <2> QED
    BY <1>2, <2>1, <2>2, <2>3 DEF Acquire
<1>3. ASSUME NEW p \in Launch, RemoveStale(p)
      PROVE  FileInv'
  <2>1. CASE Inspect(p) \/ RecheckGone(p) \/ RecheckYoung(p) \/ RecheckOld(p)
    BY <2>1 DEF Inspect, RecheckGone, RecheckYoung, RecheckOld
  <2>2. CASE Judge(p) \/ Reread(p)
    BY <2>2 DEF Judge, Reread
  <2>3. CASE Unlink(p)
    BY <2>3 DEF Unlink
  <2> QED
    BY <1>3, <2>1, <2>2, <2>3 DEF RemoveStale
<1>4. ASSUME NEW p \in Launch, Supervise(p)
      PROVE  FileInv'
  <2>1. CASE StartWorker(p) \/ WorkerEnds(p)
    BY <2>1 DEF StartWorker, WorkerEnds
  <2>2. CASE Release(p)
    (* a launch that releases without unlinking does not own the file *)
    BY <2>2 DEF Release
  <2>3. CASE ReleaseUnlink(p)
    BY <2>3 DEF ReleaseUnlink
  <2> QED
    BY <1>4, <2>1, <2>2, <2>3 DEF Supervise
<1>5. ASSUME NEW p \in Launch, Crash(p)
      PROVE  FileInv'
  BY <1>5 DEF Crash
<1>6. CASE AllEnded \/ UNCHANGED lockVars
  BY <1>6 DEF AllEnded, lockVars
<1> QED
  BY <1>1, <1>2, <1>3, <1>4, <1>5, <1>6 DEF LockNext

(* Only reading the file, which has an owner then, changes whom a launch saw. *)
LEMMA NextSeenInv ==
  ASSUME LockTypeOK, FileInv, SeenInv, [LockNext]_lockVars
  PROVE  SeenInv'
<1>1. \A q \in Launch : Created(q) => Created(q)'
  BY CreatedStays
<1> USE DEF LockTypeOK, Goto
<1>2. ASSUME NEW p \in Launch, Inspect(p)
      PROVE  SeenInv'
  <2>1. CASE lock.content = "token"
    <3>1. lock.owner \in Launch /\ Created(lock.owner)
      BY <2>1 DEF FileInv, NoFile
    <3>2. seen' = [seen EXCEPT ![p] = lock.owner] /\ pc' = [pc EXCEPT ![p] = "judge"]
      BY <1>2, <2>1 DEF Inspect
    <3> QED
      BY <1>1, <3>1, <3>2 DEF SeenInv
  <2>2. CASE lock.content # "token"
    BY <1>1, <1>2, <2>2 DEF Inspect, SeenInv
  <2> QED
    BY <2>1, <2>2
<1>3. ASSUME UNCHANGED seen,
             \A p \in Launch : pc'[p] \in {"judge", "reread"} => pc[p] \in {"judge", "reread"}
      PROVE  SeenInv'
  BY <1>1, <1>3 DEF SeenInv
<1>4. ASSUME NEW p \in Launch, Start(p) \/ Acquire(p) \/ Supervise(p) \/ Crash(p)
      PROVE  SeenInv'
  BY <1>3, <1>4 DEF Start, Acquire, Create, GiveUp, Write, Supervise, StartWorker, WorkerEnds,
                    Release, ReleaseUnlink, Crash
<1>5. ASSUME NEW p \in Launch, RemoveStale(p)
      PROVE  SeenInv'
  BY <1>2, <1>3, <1>5 DEF RemoveStale, RecheckGone, RecheckYoung, RecheckOld, Judge, Reread, Unlink
<1> QED
  BY <1>3, <1>4, <1>5 DEF LockNext, AllEnded, lockVars

(* A new process takes an id no earlier launch had. *)
LEMMA NextPidInv ==
  ASSUME LockTypeOK, PidInv, [LockNext]_lockVars
  PROVE  PidInv'
<1> USE DEF LockTypeOK, Goto
<1>1. ASSUME NEW p \in Launch, Start(p)
      PROVE  PidInv'
  BY <1>1 DEF Start, PidInv
<1>2. ASSUME UNCHANGED pid, \A p \in Launch : pc[p] = "idle" => pc'[p] = "idle"
      PROVE  PidInv'
  BY <1>2 DEF PidInv
<1>3. ASSUME NEW p \in Launch, Acquire(p) \/ Supervise(p) \/ Crash(p)
      PROVE  PidInv'
  BY <1>2, <1>3 DEF Acquire, Create, GiveUp, Write, Supervise, StartWorker, WorkerEnds,
                    Release, ReleaseUnlink, Crash, Living, Running
<1>4. ASSUME NEW p \in Launch, RemoveStale(p)
      PROVE  PidInv'
  BY <1>2, <1>4 DEF RemoveStale, Inspect, RecheckGone, RecheckYoung, RecheckOld, Judge, Reread,
                    Unlink
<1> QED
  BY <1>1, <1>2, <1>3, <1>4 DEF LockNext, AllEnded, lockVars

(* Nobody a lone launch could ask about is alive: an owner it read is another *)
(* launch, with another id if ids do not come back; if they do, nobody was    *)
(* killed, and then there is no file without a living owner.                  *)
LEMMA LoneOwnerIsGone ==
  ASSUME ~ReusePids \/ MaxCrashes = 0, LoneInv,
         NEW p \in Launch, pc[p] = "judge", p \notin contested
  PROVE  ~OwnerPidAlive(p)
<1>1. Living = {p} /\ SameToken(p)
  BY DEF LoneInv, AloneInv, Living, Running
<1>2. seen[p] \in Launch /\ Created(seen[p])
  BY NobodyAssumption DEF LoneInv, SeenInv
<1>3. seen[p] # p
  BY <1>2 DEF Created
<1>4. CASE ~ReusePids
  <2>1. pid[seen[p]] # pid[p]
    BY <1>2, <1>3, <1>4 DEF LoneInv, PidInv, Created
  <2> QED
    BY <1>1, <2>1 DEF OwnerPidAlive
<1>5. CASE MaxCrashes = 0
  <2>1. lock # NoFile /\ lock.owner = seen[p]
    BY <1>1 DEF SameToken, NoFile
  <2>2. seen[p] \in Living
    BY <1>5, <2>1 DEF LoneInv, FileInv
  <2> QED
    BY <1>1, <1>3, <2>2
<1> QED
  BY <1>4, <1>5

(* A step of a launch that is still running lets nobody else come alive.      *)
LEMMA StepsOfTheLiving ==
  ASSUME LoneInv, NEW q \in Launch, q \in Living, UNCHANGED contested,
         \E where \in Ended \cup Running : Goto(q, where),
         NEW p \in Living', p \notin contested'
  PROVE  p = q /\ p \in Launch /\ p \notin contested /\ Living = {p} /\ Living' = {p}
BY DEF LoneInv, LockTypeOK, AloneInv, Living, Goto, Running, Ended

(* Every step keeps what AloneInv says of a launch that meets no other one. *)
LEMMA NextAloneInv ==
  ASSUME ~ReusePids \/ MaxCrashes = 0, LoneInv, [LockNext]_lockVars
  PROVE  AloneInv' /\ LoneLaunchStarts'
<1> USE DEF Attempts
<1>0. LockTypeOK
  BY DEF LoneInv
<1>1. ASSUME NEW p \in Launch, Start(p)
      PROVE  AloneInv' /\ LoneLaunchStarts'
  <2>1. /\ pc' = [pc EXCEPT ![p] = "create"] /\ UNCHANGED <<lock, left>>
        /\ contested' = IF Living = {} THEN contested ELSE contested \cup Living \cup {p}
    BY <1>1 DEF Start, Goto
  <2>2. Living' = Living \cup {p} /\ left[p] = 2 /\ p \in Launch
    BY <1>0, <1>1, <2>1 DEF Start, Living, Running, LoneInv, AloneInv, LockTypeOK
  <2>3. LoneLaunchStarts'
    BY <1>0, <2>1 DEF LoneInv, LoneLaunchStarts, LockTypeOK
  <2>4. \A q \in Launch : pc'[q] = "idle" => left'[q] = 2
    BY <1>0, <2>1 DEF LoneInv, AloneInv, LockTypeOK
  <2>5. CASE Living = {}
    <3>1. Living' = {p} /\ pc'[p] = "create" /\ left'[p] = 2
      BY <1>0, <2>1, <2>2, <2>5 DEF LockTypeOK
    <3> QED
      BY <2>3, <2>4, <3>1 DEF AloneInv
  <2>6. CASE Living # {}
    <3>1. Living' \ contested' = {}
      BY <2>1, <2>2, <2>6
    <3> QED
      BY <2>3, <2>4, <3>1 DEF AloneInv
  <2> QED
    BY <2>5, <2>6
(* The step of a living launch, which is the lone one if there is one. *)
<1> DEFINE Lone(p) ==
      /\ pc[p] = "create" => left[p] = 2 \/ (left[p] = 1 /\ lock = NoFile)
      /\ pc[p] \in {"inspect", "recheck", "judge", "reread", "unlink", "unlinkOld"}
           => left[p] = 1
      /\ pc[p] \in {"inspect", "recheck"} => lock # NoFile
      /\ pc[p] \in {"judge", "reread"} => SameToken(p)
<1>2. ASSUME NEW p \in Launch, p \in Living, UNCHANGED contested,
             \E where \in Ended \cup Running : Goto(p, where) /\ where # "idle",
             \A q \in Launch : q # p => left'[q] = left[q],
             p \notin contested => (Lone(p) => pc'[p] # "refused" /\ Lone(p)')
      PROVE  AloneInv' /\ LoneLaunchStarts'
  <2>1. \A q \in Launch : pc'[q] = "idle" => left'[q] = 2
    BY <1>0, <1>2 DEF Goto, LoneInv, AloneInv, LockTypeOK
  <2>2. p \notin contested => Lone(p) /\ Living = {p}
    BY <1>2 DEF LoneInv, AloneInv
  <2>3. LoneLaunchStarts'
    BY <1>0, <1>2, <2>2 DEF Goto, LoneInv, LoneLaunchStarts, LockTypeOK
  <2>4. ASSUME NEW q \in Living', q \notin contested'
        PROVE  Living' = {q} /\ Lone(q)'
    <3>1. q = p /\ Living' = {q} /\ p \notin contested
      BY <1>2, <2>4, StepsOfTheLiving
    <3> QED
      BY <1>2, <2>2, <3>1
  <2> QED
    BY <2>1, <2>3, <2>4 DEF AloneInv
<1>3. ASSUME UNCHANGED <<lock, pc, left, seen, contested>>
      PROVE  AloneInv' /\ LoneLaunchStarts'
  BY <1>3 DEF LoneInv, AloneInv, LoneLaunchStarts, Living, SameToken
<1> HIDE DEF Lone
<1>4. ASSUME NEW p \in Launch, Acquire(p)
      PROVE  AloneInv' /\ LoneLaunchStarts'
  <2>1. p \in Living /\ UNCHANGED contested /\ UNCHANGED seen
    BY <1>4 DEF Acquire, Create, GiveUp, Write, Living, Running
  <2>2. CASE Create(p)
    <3>1. Lone(p) => pc'[p] # "refused" /\ Lone(p)'
      BY <1>0, <2>2 DEF Create, Goto, Lone, LockTypeOK
    <3>2. \E where \in Ended \cup Running : Goto(p, where) /\ where # "idle"
      BY <2>2 DEF Create, Running
    <3>3. \A q \in Launch : q # p => left'[q] = left[q]
      BY <1>0, <2>2 DEF Create, LockTypeOK
    <3> QED
      BY <1>2, <2>1, <3>1, <3>2, <3>3
  <2>3. CASE GiveUp(p)
    <3>1. ~Lone(p)
      BY <2>3 DEF GiveUp, Lone
    <3>2. Goto(p, "refused") /\ UNCHANGED left
      BY <2>3 DEF GiveUp
    <3> QED
      BY <1>2, <2>1, <3>1, <3>2 DEF Ended
  <2>4. CASE Write(p)
    <3>1. Goto(p, "held") /\ UNCHANGED left
      BY <2>4 DEF Write
    <3>2. pc'[p] # "refused" /\ Lone(p)'
      BY <1>0, <3>1 DEF Lone, Goto, LockTypeOK
    <3> QED
      BY <1>2, <2>1, <3>1, <3>2 DEF Running
  <2> QED
    BY <1>4, <2>2, <2>3, <2>4 DEF Acquire
<1>5. ASSUME NEW p \in Launch, RemoveStale(p)
      PROVE  AloneInv' /\ LoneLaunchStarts'
  <2>1. p \in Living /\ UNCHANGED <<contested, left>>
    BY <1>5 DEF RemoveStale, Inspect, RecheckGone, RecheckYoung, RecheckOld, Judge, Reread, Unlink,
                Living, Running
  <2>2. CASE Inspect(p)
    <3>1. Lone(p) => pc'[p] # "refused" /\ Lone(p)'
      <4>1. CASE lock.content = "token"
        <5>1. pc'[p] = "judge" /\ seen'[p] = lock.owner /\ UNCHANGED <<lock, left>>
          BY <1>0, <2>2, <4>1 DEF Inspect, Goto, LockTypeOK
        <5>2. lock = [owner |-> lock.owner, content |-> "token"]
          BY <1>0, <4>1 DEF LockTypeOK
        <5> QED
          BY <2>2, <5>1, <5>2 DEF Lone, SameToken, Inspect
      <4>2. CASE lock.content # "token"
        BY <1>0, <2>2, <4>2 DEF Inspect, Goto, Lone, LockTypeOK
      <4> QED
        BY <4>1, <4>2
    <3>2. \E where \in Ended \cup Running : Goto(p, where) /\ where # "idle"
      BY <2>2 DEF Inspect, Running
    <3> QED
      BY <1>2, <2>1, <3>1, <3>2
  <2>3. CASE RecheckGone(p)
    <3>1. Lone(p) => pc'[p] # "refused" /\ Lone(p)'
      BY <1>0, <2>3 DEF RecheckGone, Goto, Lone, LockTypeOK
    <3>2. Goto(p, "create")
      BY <2>3 DEF RecheckGone
    <3> QED
      BY <1>2, <2>1, <3>1, <3>2 DEF Running
  <2>4. CASE RecheckYoung(p)
    <3>1. Lone(p) => pc'[p] # "refused" /\ Lone(p)'
      BY <1>0, <2>4 DEF RecheckYoung, Goto, Lone, LockTypeOK
    <3>2. Goto(p, "early")
      BY <2>4 DEF RecheckYoung
    <3> QED
      BY <1>2, <2>1, <3>1, <3>2 DEF Ended
  <2>5. CASE RecheckOld(p)
    <3>1. Lone(p) => pc'[p] # "refused" /\ Lone(p)'
      BY <1>0, <2>5 DEF RecheckOld, Goto, Lone, LockTypeOK
    <3>2. Goto(p, "unlinkOld")
      BY <2>5 DEF RecheckOld
    <3> QED
      BY <1>2, <2>1, <3>1, <3>2 DEF Running
  <2>6. CASE Judge(p)
    <3>1. p \notin contested => Goto(p, "reread")
      BY <2>6, LoneOwnerIsGone DEF Judge
    <3>2. UNCHANGED <<lock, seen, left>> /\ pc[p] = "judge"
      BY <2>6 DEF Judge
    <3>3. p \notin contested => (Lone(p) => pc'[p] # "refused" /\ Lone(p)')
      BY <1>0, <3>1, <3>2 DEF Goto, Lone, SameToken, LockTypeOK
    <3>4. \E where \in Ended \cup Running : Goto(p, where) /\ where # "idle"
      BY <2>6 DEF Judge, Ended, Running
    <3> QED
      BY <1>2, <2>1, <3>3, <3>4
  <2>7. CASE Reread(p)
    <3>1. Lone(p) => pc'[p] # "refused" /\ Lone(p)'
      BY <1>0, <2>7 DEF Reread, Goto, Lone, LockTypeOK
    <3>2. \E where \in Ended \cup Running : Goto(p, where) /\ where # "idle"
      BY <2>7 DEF Reread, Ended, Running
    <3> QED
      BY <1>2, <2>1, <3>1, <3>2
  <2>8. CASE Unlink(p)
    <3>1. Lone(p) => pc'[p] # "refused" /\ Lone(p)'
      BY <1>0, <2>8 DEF Unlink, Goto, Lone, LockTypeOK
    <3>2. Goto(p, "create")
      BY <2>8 DEF Unlink
    <3> QED
      BY <1>2, <2>1, <3>1, <3>2 DEF Running
  <2> QED
    BY <1>5, <2>2, <2>3, <2>4, <2>5, <2>6, <2>7, <2>8 DEF RemoveStale
<1>6. ASSUME NEW p \in Launch, Supervise(p) \/ Crash(p)
      PROVE  AloneInv' /\ LoneLaunchStarts'
  <2>1. CASE StartWorker(p) \/ WorkerEnds(p)
    BY <1>3, <2>1 DEF StartWorker, WorkerEnds
  <2>2. CASE Release(p) \/ ReleaseUnlink(p) \/ Crash(p)
    <3>1. p \in Living /\ UNCHANGED <<contested, left>>
      BY <2>2 DEF Release, ReleaseUnlink, Crash, Living, Running
    <3>2. PICK where \in {"releasing", "done", "dead"} : Goto(p, where)
      BY <2>2 DEF Release, ReleaseUnlink, Crash
    <3>3. pc'[p] # "refused" /\ Lone(p)'
      BY <1>0, <3>2 DEF Lone, Goto, LockTypeOK
    <3>4. where \in Ended \cup Running /\ where # "idle"
      BY <3>2 DEF Ended, Running
    <3> QED
      BY <1>2, <3>1, <3>2, <3>3, <3>4
  <2> QED
    BY <1>6, <2>1, <2>2 DEF Supervise
<1>7. CASE AllEnded \/ UNCHANGED lockVars
  BY <1>3, <1>7 DEF AllEnded, lockVars
<1> QED
  BY <1>1, <1>4, <1>5, <1>6, <1>7 DEF LockNext

(* However many launches, kills and hold-ups: a launch that met no other      *)
(* living one is never refused, whatever file a killed one left behind, as    *)
(* long as the ids of ended processes do not come back.  They may come back   *)
(* where no Supervisor is killed.                                             *)
THEOREM LoneLaunchIsNotRefused ==
  ASSUME ~ReusePids \/ MaxCrashes = 0
  PROVE  LockSpec => []LoneLaunchStarts
<1>1. LockInit => LoneInv
  BY InitLoneInv
<1>2. LoneInv /\ [LockNext]_lockVars => LoneInv'
  BY NextTypeOK, NextFileInv, NextSeenInv, NextPidInv, NextAloneInv DEF LoneInv
<1>3. LoneInv => LoneLaunchStarts
  BY DEF LoneInv
<1> QED
  BY <1>1, <1>2, <1>3, PTL DEF LockSpec

--------------------------------------------------------------------------
(* Two launches, killed wherever it may be: whoever found the other one gone is the *)
(* only one left, and the other one never comes back.                             *)
Others(p) == Launch \ {p}
Departed(q) == pc[q] \in {"done", "dead"}
TakeoverInv ==
  /\ LockTypeOK /\ stalls = 0
  /\ \A p \in Launch :
       /\ pc[p] = "write" => lock = [owner |-> p, content |-> "empty"]
       /\ Owning(p) => lock = [owner |-> p, content |-> "token"]
       /\ pc[p] \in {"judge", "reread", "unlink"} => seen[p] \in Others(p) /\ Created(seen[p])
       /\ pc[p] \in {"reread", "unlink"} => Departed(seen[p])
       /\ pc[p] = "unlinkOld" => \E q \in Others(p) : Departed(q)
  /\ lock # NoFile =>
       lock.owner \in Launch /\ pc[lock.owner] \in {"write", "held", "releasing", "dead"}

LEMMA InitTakeoverInv == LockInit => TakeoverInv
<1> SUFFICES ASSUME LockInit PROVE TakeoverInv
  OBVIOUS
<1>1. LockTypeOK
  BY InitTypeOK
<1> QED
  BY <1>1 DEF LockInit, TakeoverInv, Owning

LEMMA NextTakeoverInv ==
  ASSUME \A p, q, r \in Launch : p = q \/ q = r \/ p = r, MaxStalls = 0,
         TakeoverInv, [LockNext]_lockVars
  PROVE  TakeoverInv'
<1>1. LockTypeOK'
  BY NextTypeOK DEF TakeoverInv
<1> USE NobodyAssumption DEF TakeoverInv, LockTypeOK, Owning, Goto, NoFile, Others, Departed, Created
<1>2. ASSUME NEW p \in Launch, Start(p) PROVE TakeoverInv'
  BY <1>1, <1>2 DEF Start
<1>3. ASSUME NEW p \in Launch, Acquire(p) PROVE TakeoverInv'
  <2>1. CASE Create(p)
    <3>1. CASE lock = NoFile
      <4>1. /\ lock' = [owner |-> p, content |-> "empty"]
            /\ pc' = [pc EXCEPT ![p] = "write"]
            /\ UNCHANGED <<seen, stalls>>
        BY <2>1, <3>1 DEF Create
      <4>2. ASSUME NEW q \in Launch PROVE pc[q] \notin {"write", "held", "releasing"}
        <5>1. lock # [owner |-> q, content |-> "empty"] /\ lock # [owner |-> q, content |-> "token"]
          BY <3>1
        <5> QED
          BY <5>1
      <4>3. pc[p] = "create"
        BY <2>1 DEF Create
      <4>4. \A q \in Launch : q # p => pc'[q] = pc[q]
        BY <4>1
      <4>5. pc'[p] = "write"
        BY <4>1
      <4>6. ASSUME NEW q \in Launch
            PROVE  /\ pc'[q] = "write" => lock' = [owner |-> q, content |-> "empty"]
                   /\ pc'[q] \notin {"held", "releasing"}
        BY <4>1, <4>2, <4>4, <4>5
      <4>7. ASSUME NEW q \in Launch, pc'[q] \in {"judge", "reread", "unlink"}
            PROVE  /\ seen'[q] \in Others(q) /\ Created(seen[q])'
                   /\ pc'[q] \in {"reread", "unlink"} => Departed(seen[q])'
        <5>1. q # p /\ pc[q] = pc'[q] /\ seen'[q] = seen[q]
          BY <4>1, <4>4, <4>5, <4>7
        <5>2. seen[q] \in Others(q) /\ Created(seen[q])
          BY <4>7, <5>1
        <5>3. seen[q] # p /\ pc'[seen[q]] = pc[seen[q]]
          BY <4>3, <4>4, <5>2
        <5>4. pc[q] \in {"reread", "unlink"} => Departed(seen[q])
          OBVIOUS
        <5> QED
          BY <5>1, <5>2, <5>3, <5>4
      <4>9. ASSUME NEW q \in Launch, pc'[q] = "unlinkOld"
            PROVE  \E r \in Others(q) : Departed(r)'
        <5>1. q # p /\ pc[q] = pc'[q]
          BY <4>4, <4>5, <4>9
        <5>2. PICK r \in Others(q) : Departed(r)
          BY <4>9, <5>1
        <5>3. pc'[r] = pc[r]
          BY <4>3, <4>4, <5>2
        <5> QED
          BY <5>2, <5>3
      <4>8. lock'.owner = p
        BY <4>1
      <4>10. lock'.owner \in Launch /\ pc'[lock'.owner] \in {"write", "held", "releasing", "dead"}
        BY <4>5, <4>8
      <4>11. \A q \in Launch :
               /\ (pc[q] = "write" => lock = [owner |-> q, content |-> "empty"])'
               /\ (Owning(q) => lock = [owner |-> q, content |-> "token"])'
        BY <4>6
      <4>12. stalls' = 0
        BY <4>1
      <4> HIDE DEF Departed, Created, Owning
      <4> QED
        BY <1>1, <4>7, <4>9, <4>10, <4>11, <4>12
    <3>2. CASE lock # NoFile
      BY <1>1, <2>1, <3>2 DEF Create
    <3> QED
      BY <3>1, <3>2
  <2>2. CASE GiveUp(p)
    BY <1>1, <2>2 DEF GiveUp
  <2>3. CASE Write(p)
    <3>1. /\ lock' = [owner |-> p, content |-> "token"]
          /\ pc' = [pc EXCEPT ![p] = "held"]
          /\ UNCHANGED <<seen, stalls>> /\ pc[p] = "write"
      BY <2>3 DEF Write
    <3>2. \A q \in Launch : q # p => pc[q] \notin {"write", "held", "releasing"}
      BY <3>1
    <3> QED
      BY <1>1, <3>1, <3>2
  <2> QED
    BY <1>3, <2>1, <2>2, <2>3 DEF Acquire
<1>4. ASSUME NEW p \in Launch, RemoveStale(p) PROVE TakeoverInv'
  <2>1. CASE Inspect(p)
    <3>1. CASE lock.content = "token"
      <4>1. /\ seen' = [seen EXCEPT ![p] = lock.owner] /\ pc' = [pc EXCEPT ![p] = "judge"]
            /\ UNCHANGED <<lock, stalls>> /\ pc[p] = "inspect"
        BY <2>1, <3>1 DEF Inspect
      <4>2. lock.owner \in Others(p) /\ Created(lock.owner)
        BY <3>1, <4>1
      <4> QED
        BY <1>1, <4>1, <4>2
    <3>2. CASE lock.content # "token"
      BY <1>1, <2>1, <3>2 DEF Inspect
    <3> QED
      BY <3>1, <3>2
  <2>2. CASE RecheckGone(p) \/ RecheckYoung(p)
    BY <1>1, <2>2 DEF RecheckGone, RecheckYoung
  <2>3. CASE RecheckOld(p)
    (* nobody is held up, so the file of a living owner is not old *)
    <3>1. lock # NoFile /\ lock.owner \notin Living /\ pc[p] = "recheck"
      BY <2>3 DEF RecheckOld
    <3>2. lock.owner \in Others(p) /\ Departed(lock.owner)
      BY <3>1 DEF Living, Running
    <3>3. pc' = [pc EXCEPT ![p] = "unlinkOld"] /\ UNCHANGED <<lock, seen, stalls>>
      BY <2>3, <3>1 DEF RecheckOld
    <3> QED
      BY <1>1, <3>1, <3>2, <3>3
  <2>4. CASE Judge(p)
    <3>1. seen[p] \in Living => OwnerPidAlive(p)
      BY DEF OwnerPidAlive
    <3>2. ~OwnerPidAlive(p) => Departed(seen[p])
      BY <2>4, <3>1 DEF Judge, Living, Running
    <3> QED
      BY <1>1, <2>4, <3>2 DEF Judge
  <2>5. CASE Reread(p)
    BY <1>1, <2>5 DEF Reread
  <2>6. CASE Unlink(p)
    (* the other launch is gone, so nobody owns the file *)
    <3>1. PICK q \in Others(p) : Departed(q)
      BY <2>6 DEF Unlink
    <3>2. \A r \in Launch : r = p \/ r = q
      BY <3>1
    <3>3. /\ lock' = NoFile /\ pc' = [pc EXCEPT ![p] = "create"] /\ UNCHANGED <<seen, stalls>>
      BY <2>6 DEF Unlink
    <3> QED
      BY <1>1, <3>1, <3>2, <3>3
  <2> QED
    BY <1>4, <2>1, <2>2, <2>3, <2>4, <2>5, <2>6 DEF RemoveStale
<1>5. ASSUME NEW p \in Launch, Supervise(p) PROVE TakeoverInv'
  <2>1. CASE StartWorker(p) \/ WorkerEnds(p)
    BY <1>1, <2>1 DEF StartWorker, WorkerEnds
  <2>2. CASE Release(p)
    BY <1>1, <2>2 DEF Release
  <2>3. CASE ReleaseUnlink(p)
    BY <1>1, <2>3 DEF ReleaseUnlink
  <2> QED
    BY <1>5, <2>1, <2>2, <2>3 DEF Supervise
<1>6. ASSUME NEW p \in Launch, Crash(p) PROVE TakeoverInv'
  BY <1>1, <1>6 DEF Crash, Living, Running
<1>7. CASE AllEnded \/ UNCHANGED lockVars
  BY <1>1, <1>7 DEF AllEnded, lockVars
<1> QED
  BY <1>2, <1>3, <1>4, <1>5, <1>6, <1>7 DEF LockNext

(* A launch may be killed at any step, and its id be used again, and still two  *)
(* Supervisors never own one work_dir, as long as there are no more than two launches *)
(* and nobody is held up for the grace period (supervisor.py:239).              *)
THEOREM TakeoverExcludes ==
  ASSUME \A p, q, r \in Launch : p = q \/ q = r \/ p = r, MaxStalls = 0
  PROVE  LockSpec => [](MutualExclusion /\ OwnerHoldsFile)
<1>1. LockInit => TakeoverInv
  BY InitTakeoverInv
<1>2. TakeoverInv /\ [LockNext]_lockVars => TakeoverInv'
  BY NextTakeoverInv
<1>3. TakeoverInv => MutualExclusion /\ OwnerHoldsFile
  <2> SUFFICES ASSUME TakeoverInv PROVE MutualExclusion /\ OwnerHoldsFile
    OBVIOUS
  <2>1. OwnerHoldsFile
    BY DEF TakeoverInv, OwnerHoldsFile
  <2> QED
    BY <2>1 DEF OwnerHoldsFile, MutualExclusion
<1> QED
  BY <1>1, <1>2, <1>3, PTL DEF LockSpec

(***************************************************************************)
(* ScriptList: whatever is retried, restarted or launched again, a List is run*)
(* as RunList promises.                                                      *)
(***************************************************************************)
Item == 1 .. Items
Working == {"item", "running", "ended", "returned"}

(* A retry of the worker's loop is left; the item that runs has its state.       *)
ItemInv ==
  /\ ListTypeOK
  /\ listAt \notin {"returned", "over"} => repeats < Tries
  /\ listAt = "running" => itemState[item] = Saved("active")

(* What is known of the items: those before one that has a state are completed,   *)
(* and so are those before the one that is executed; a list that is not resumed    *)
(* has come to none of those after it.                                           *)
OrderInv ==
  /\ \A i \in Item : itemState[i].list # "earlier"
  /\ \A i, j \in Item : i < j /\ Exists(j) => Completed(i)
  /\ listAt \in Working => \A i \in Item : i < item => Completed(i)
  /\ listAt = "ended" => Exists(item)
  /\ ~resume => /\ \A i \in Item : Exists(i) => i <= item
                /\ listAt \in {"idle", "item"} => ~Exists(item)
  /\ listAt = "idle" => item = 1 /\ ~resume

--------------------------------------------------------------------------
LEMMA ItemStart == ListInit => ItemInv
<1> SUFFICES ASSUME ListInit PROVE ItemInv
  OBVIOUS
<1>1. \A i \in 1 .. Items : itemState[i] \in {NoState, Left}
  BY DEF ListInit
<1>2. itemState \in [1 .. Items -> {NoState, Left} \cup
                {Saved(s) : s \in {"active", "completed", "max_cycles_exhausted"}}]
  BY DEF ListInit
<1>3. /\ 1 \in 1 .. Items /\ 0 \in 0 .. 3 /\ 0 \in {0, 1, 139} /\ 0 < 3 /\ FALSE \in BOOLEAN
      /\ 0 \in 0 .. MaxTransient /\ 0 \in 0 .. MaxWorkerDeaths
  BY ListAssumption
<1>4. /\ resume = FALSE /\ item = 1 /\ listAt = "idle" /\ exitCode = 0
      /\ repeats = 0 /\ outages = 0 /\ workerDeaths = 0
  BY DEF ListInit
<1> QED
  BY <1>2, <1>3, <1>4 DEF ItemInv, ListTypeOK, Tries

(* Executing the list again is resuming it, or not. *)
LEMMA AgainResumes == Again => resume' \in BOOLEAN
BY DEF Again, AnyState

LEMMA ItemStep == ItemInv /\ [ListNext]_listVars => ItemInv'
<1> SUFFICES ASSUME ItemInv, [ListNext]_listVars PROVE ItemInv'
  OBVIOUS
<1> USE ListAssumption DEF ItemInv, ListTypeOK, Tries
<1>1. CASE BeginItem
  <2>1. /\ listAt' = "running" /\ UNCHANGED <<resume, item, exitCode, repeats, outages, workerDeaths>>
        /\ itemState' = IF Resumed(item) THEN itemState ELSE [itemState EXCEPT ![item] = Saved("active")]
        /\ listAt = "item" /\ ~EndsAtOnce(item)
    BY <1>1 DEF BeginItem
  <2>2. Saved("active") \in {Saved(s) : s \in {"active", "completed", "max_cycles_exhausted"}}
    OBVIOUS
  <2>3. itemState'[item] = Saved("active")
    <3>1. CASE Resumed(item)
      BY <2>1, <3>1 DEF EndsAtOnce, Resumed, Completed, CycleExhausted, Exists, NoState, Left, Saved
    <3>2. CASE ~Resumed(item)
      BY <2>1, <3>2
    <3> QED
      BY <3>1, <3>2
  <2> QED
    BY <2>1, <2>2, <2>3
<1>2. CASE RepeatEnd
  BY <1>2 DEF RepeatEnd
<1>3. CASE EndItem
  <2>1. PICK end \in {"completed", "active", "max_cycles_exhausted"} :
               /\ itemState' = [itemState EXCEPT ![item].stage = end]
               /\ exitCode' = IF end = "completed" THEN 0 ELSE 1
    BY <1>3 DEF EndItem
  <2>2. itemState' = [itemState EXCEPT ![item] = Saved(end)]
    <3>1. itemState[item] = Saved("active") /\ item \in DOMAIN itemState
      BY <1>3 DEF EndItem
    <3>2. [itemState[item] EXCEPT !.stage = end] = Saved(end)
      BY <3>1 DEF Saved
    <3>3. itemState' = [itemState EXCEPT ![item] = [itemState[item] EXCEPT !.stage = end]]
      BY <2>1, <3>1
    <3> QED
      BY <3>2, <3>3
  <2>3. Saved(end) \in {Saved(s) : s \in {"active", "completed", "max_cycles_exhausted"}}
    OBVIOUS
  <2> QED
    BY <1>3, <2>1, <2>2, <2>3 DEF EndItem
<1>4. CASE NextItem
  BY <1>4 DEF NextItem
<1>5. CASE FailList
  BY <1>5 DEF FailList
<1>6. CASE FinishList
  BY <1>6 DEF FinishList
<1>7. CASE Outage
  <2>1. /\ resume' \in BOOLEAN /\ outages' \in 0 .. MaxTransient
    BY <1>7, AgainResumes DEF Outage
  <2> QED
    BY <1>7, <2>1 DEF Outage, Again
<1>8. CASE Unexpected
  <2>1. Again \/ UNCHANGED <<resume, item>>
    BY <1>8 DEF Unexpected
  <2>2. resume' \in BOOLEAN /\ item' \in 1 .. Items
    BY <2>1, AgainResumes DEF Again
  <2> QED
    BY <1>8, <2>2 DEF Unexpected, Again
<1>9. CASE RaiseList
  BY <1>9 DEF RaiseList
<1>10. CASE Die
  <2>1. /\ resume' \in BOOLEAN /\ item' \in 1 .. Items /\ exitCode' \in {0, 1, 139}
        /\ workerDeaths' \in 0 .. MaxWorkerDeaths
        /\ listAt' \in {"item", "over"} /\ repeats' = 0 /\ UNCHANGED <<itemState, outages>>
    <3>1. /\ workerDeaths < MaxWorkerDeaths /\ workerDeaths' = workerDeaths + 1 /\ repeats' = 0
          /\ UNCHANGED <<itemState, outages>>
      BY <1>10 DEF Die
    <3>2. \/ resume' = TRUE /\ item' = 1 /\ listAt' = "item" /\ exitCode' = 0
          \/ listAt' = "over" /\ exitCode' = 139 /\ UNCHANGED <<resume, item>>
      BY <1>10 DEF Die, WorkerArgs
    <3>3. resume' \in BOOLEAN
      BY <3>2
    <3> QED
      BY <3>1, <3>2, <3>3
  <2> QED
    BY <2>1
<1>11. CASE LaunchList
  <2>1. /\ resume' \in BOOLEAN /\ workerDeaths' \in 0 .. MaxWorkerDeaths
    <3>1. \/ UNCHANGED <<resume, workerDeaths>>
          \/ resume' = TRUE /\ workerDeaths < MaxWorkerDeaths /\ workerDeaths' = workerDeaths + 1
      BY <1>11 DEF LaunchList
    <3>2. resume' \in BOOLEAN
      BY <3>1
    <3> QED
      BY <3>1, <3>2
  <2>2. /\ item' = 1 /\ listAt' = "item" /\ exitCode' = 0 /\ repeats' = 0
        /\ UNCHANGED <<itemState, outages>>
    BY <1>11 DEF LaunchList
  <2> QED
    BY <2>1, <2>2
<1>12. CASE UNCHANGED listVars
  BY <1>12 DEF listVars
<1> QED
  BY <1>1, <1>2, <1>3, <1>4, <1>5, <1>6, <1>7, <1>8, <1>9, <1>10, <1>11, <1>12 DEF ListNext, ListWork

--------------------------------------------------------------------------
(* The states that an item of a list without leftovers can have.              *)
LEMMA ItemStates ==
  ASSUME ItemInv, OrderInv, NEW i \in Item
  PROVE  /\ itemState[i] \in {NoState, Saved("active"), Saved("completed"), Saved("max_cycles_exhausted")}
         /\ Completed(i) <=> itemState[i] = Saved("completed")
         /\ Exists(i) <=> itemState[i] # NoState
<1>1. itemState[i] \in {NoState, Left} \cup
        {Saved(s) : s \in {"active", "completed", "max_cycles_exhausted"}}
  BY DEF ItemInv, ListTypeOK, Item
<1>2. itemState[i] # Left
  BY DEF OrderInv, Left
<1>3. itemState[i] \in {NoState, Saved("active"), Saved("completed"), Saved("max_cycles_exhausted")}
  BY <1>1, <1>2
<1> QED
  BY <1>3 DEF Completed, Exists, NoState, Saved

(* A step that leaves the items alone, and executes the list from the first    *)
(* one again if it executes it at all.                                        *)
LEMMA OrderAgain ==
  ASSUME OrderInv, itemState' = itemState,
         \/ item' = 1 /\ listAt' = "item" /\ (resume' \/ \A i \in Item : ~Exists(i))
         \/ UNCHANGED <<resume, item>> /\ listAt' = "over"
  PROVE  OrderInv'
<1>1. \A i \in Item : ~(i < 1)
  BY DEF Item
<1>2. 1 \in Item
  BY ListAssumption DEF Item
<1> QED
  BY <1>1, <1>2 DEF OrderInv, Exists, Completed, Working

LEMMA OrderStep ==
  ItemInv /\ OrderInv /\ [ListNext]_listVars => OrderInv'
<1> SUFFICES ASSUME ItemInv, OrderInv, [ListNext]_listVars PROVE OrderInv'
  OBVIOUS
<1> USE DEF Exists, Completed
<1>0. item \in Item /\ Item \subseteq Nat /\ Items \in Item /\ \A i \in Item : i <= Items
  BY ListAssumption DEF ItemInv, ListTypeOK, Item
<1>1. CASE BeginItem
  <2>1. /\ listAt = "item" /\ listAt' = "running" /\ UNCHANGED <<resume, item>>
        /\ itemState' = IF Resumed(item) THEN itemState ELSE [itemState EXCEPT ![item] = Saved("active")]
    BY <1>1 DEF BeginItem
  <2>2. CASE itemState' = itemState
    BY <2>1, <2>2 DEF OrderInv, Working
  <2>3. CASE ~Resumed(item)
    <3>1. \A i \in Item : itemState'[i] = IF i = item THEN Saved("active") ELSE itemState[i]
      BY <2>1, <2>3 DEF ItemInv, ListTypeOK, Item
    <3>2. \A j \in Item : item < j => ~Exists(j)
      BY <1>0, <2>1, <2>3 DEF OrderInv, Resumed
    <3>3. \A i \in Item : i < item => Completed(i)
      BY <2>1 DEF OrderInv, Working
    <3>4. \A i \in Item : ~resume /\ Exists(i) => i <= item
      BY DEF OrderInv
    <3>5. \A i \in Item : itemState'[i].list # "earlier"
      BY <3>1 DEF OrderInv, Saved
    <3>6. \A i, j \in Item : i < j /\ Exists(j)' => Completed(i)'
      <4> SUFFICES ASSUME NEW i \in Item, NEW j \in Item, i < j, Exists(j)' PROVE Completed(i)'
        OBVIOUS
      <4>1. CASE j = item
        BY <1>0, <3>1, <3>3, <4>1
      <4>2. CASE j # item
        <5>1. Exists(j)
          BY <3>1, <4>2
        <5>2. Completed(i) /\ i # item
          BY <1>0, <3>2, <5>1 DEF OrderInv
        <5> QED
          BY <3>1, <5>2
      <4> QED
        BY <4>1, <4>2
    <3>7. \A i \in Item : i < item => Completed(i)'
      BY <1>0, <3>1, <3>3
    <3>8. \A i \in Item : ~resume /\ Exists(i)' => i <= item
      BY <1>0, <3>1, <3>4
    <3> QED
      BY <2>1, <3>5, <3>6, <3>7, <3>8 DEF OrderInv
  <2> QED
    BY <2>1, <2>2, <2>3
<1>2. CASE RepeatEnd
  <2>1. Exists(item)
    BY <1>2 DEF RepeatEnd, EndsAtOnce, Resumed
  <2> QED
    BY <1>2, <2>1 DEF RepeatEnd, OrderInv, Working
<1>3. CASE EndItem
  <2>1. PICK end \in {"completed", "active", "max_cycles_exhausted"} :
               itemState' = [itemState EXCEPT ![item].stage = end]
    BY <1>3 DEF EndItem
  <2>2. listAt = "running" /\ listAt' = "ended" /\ UNCHANGED <<resume, item>>
    BY <1>3 DEF EndItem
  <2>3. itemState[item] = Saved("active")
    BY <2>2 DEF ItemInv
  <2>4. \A i \in Item : itemState'[i] = IF i = item THEN Saved(end) ELSE itemState[i]
    BY <1>0, <2>1, <2>3 DEF ItemInv, ListTypeOK, Item, Saved
  <2>5. \A j \in Item : item < j => ~Exists(j)
    BY <1>0, <2>3 DEF OrderInv, Saved
  <2>6. \A i \in Item : itemState'[i].list # "earlier"
    BY <2>4 DEF OrderInv, Saved
  <2>7. \A i \in Item : (Exists(i)' <=> Exists(i)) /\ (i # item => (Completed(i)' <=> Completed(i)))
    BY <2>3, <2>4 DEF Saved
  <2>8. \A i, j \in Item : i < j /\ Exists(j)' => Completed(i)'
    BY <1>0, <2>5, <2>7 DEF OrderInv
  <2>9. \A i \in Item : i < item => Completed(i)'
    BY <1>0, <2>2, <2>7 DEF OrderInv, Working
  <2>10. Exists(item)'
    BY <1>0, <2>2, <2>3, <2>7 DEF Saved
  <2> QED
    BY <2>2, <2>6, <2>7, <2>8, <2>9, <2>10 DEF OrderInv
<1>4. CASE NextItem
  <2>1. Completed(item) /\ UNCHANGED <<itemState, resume>>
    BY <1>4 DEF NextItem, GoesOn, ItemInv, ListTypeOK
  <2>2. \/ item < Items /\ listAt' = "item" /\ item' = item + 1
        \/ listAt' = "returned" /\ item' = item
    BY <1>4 DEF NextItem
  <2>3. listAt = "ended"
    BY <1>4 DEF NextItem
  <2>4. \A i \in Item : i <= item => Completed(i)
    <3>1. \A i \in Item : i < item => Completed(i)
      BY <2>3 DEF OrderInv, Working
    <3>2. \A i \in Item : i <= item => i < item \/ i = item
      BY <1>0
    <3> QED
      BY <2>1, <3>1, <3>2
  <2>5. CASE item < Items /\ listAt' = "item" /\ item' = item + 1
    <3>1. \A i \in Item : i < item' => Completed(i)'
      BY <1>0, <2>1, <2>4, <2>5
    <3>2. ~resume => \A i \in Item : Exists(i)' => i <= item' /\ i # item'
      BY <1>0, <2>1, <2>5 DEF OrderInv
    <3>3. item' \in Item
      BY <1>0, <2>5 DEF Item
    <3> QED
      BY <2>1, <2>5, <3>1, <3>2, <3>3 DEF OrderInv
  <2>6. CASE listAt' = "returned" /\ item' = item
    BY <2>1, <2>3, <2>6 DEF OrderInv, Working
  <2> QED
    BY <2>2, <2>5, <2>6
<1>5. CASE FailList \/ FinishList
  BY <1>5 DEF FailList, FinishList, OrderInv, Working
<1>6. CASE Outage \/ Unexpected \/ RaiseList \/ Die
  <2>1. \/ item' = 1 /\ listAt' = "item" /\ (resume' \/ \A i \in Item : ~Exists(i))
        \/ UNCHANGED <<resume, item>> /\ listAt' = "over"
    BY <1>6 DEF Outage, Unexpected, RaiseList, Die, Again, AnyState, WorkerArgs, Item
  <2>2. itemState' = itemState
    BY <1>6 DEF Outage, Unexpected, RaiseList, Die
  <2> QED
    BY <2>1, <2>2, OrderAgain
<1>7. CASE LaunchList
  <2>1. \/ listAt = "idle" /\ resume' = resume
        \/ resume' = TRUE
    BY <1>7 DEF LaunchList
  <2>2. item' = 1 /\ listAt' = "item" /\ itemState' = itemState
    BY <1>7 DEF LaunchList
  <2>3. listAt = "idle" => \A i \in Item : ~Exists(i)
    BY <1>0 DEF OrderInv, Item
  <2> QED
    BY <2>1, <2>2, <2>3, OrderAgain
<1>8. CASE UNCHANGED listVars
  BY <1>8 DEF listVars, OrderInv, Working
<1> QED
  BY <1>1, <1>2, <1>3, <1>4, <1>5, <1>6, <1>7, <1>8 DEF ListNext, ListWork

LEMMA OrderStart == Leftovers = {} /\ ListInit => OrderInv
<1> SUFFICES ASSUME Leftovers = {}, ListInit PROVE OrderInv
  OBVIOUS
<1>1. \A i \in Item : itemState[i] = NoState
  BY DEF ListInit, Item
<1>2. 1 \in Item
  BY ListAssumption DEF Item
<1>3. NoState.list = "none" /\ NoState.stage = "absent"
  BY DEF NoState
<1>4. \A i \in Item : itemState[i].list # "earlier" /\ ~Exists(i)
  BY <1>1, <1>3 DEF Exists
<1>5. resume = FALSE /\ item = 1 /\ listAt = "idle"
  BY DEF ListInit
<1> QED
  BY <1>2, <1>4, <1>5 DEF OrderInv, Working

--------------------------------------------------------------------------
(* Every step of the list is one that RunList allows, or none.                *)
Phases == [i \in 1 .. Items |-> PhaseOf(itemState[i])]

(* An item in the middle changes; the others keep their phase. *)
LEMMA OnePhase ==
  ASSUME NEW i \in Item, NEW s, itemState \in [1 .. Items -> {NoState, Left} \cup
                {Saved(t) : t \in {"active", "completed", "max_cycles_exhausted"}}],
         itemState' = [itemState EXCEPT ![i] = s]
  PROVE  Phases' = [Phases EXCEPT ![i] = PhaseOf(s)]
BY DEF Phases, Item

LEMMA PromiseStep ==
  ItemInv /\ OrderInv /\ [ListNext]_listVars => [Promise!Next]_<<Phases, Outcome>>
<1> SUFFICES ASSUME ItemInv, OrderInv, [ListNext]_listVars
             PROVE  [Promise!Next]_<<Phases, Outcome>>
  OBVIOUS
<1>0. item \in Item /\ Items \in Nat /\ exitCode \in {0, 1, 139}
  BY ListAssumption DEF ItemInv, ListTypeOK, Item
<1>1. \A i \in Item : /\ PhaseOf(itemState[i]) = "waiting" <=> ~Exists(i)
                      /\ PhaseOf(itemState[i]) = "completed" <=> Completed(i)
                      /\ Phases[i] = PhaseOf(itemState[i])
  BY ItemStates DEF PhaseOf, NoState, Saved, Phases, Item
<1>2. CASE itemState' = itemState
  <2>1. Phases' = Phases
    BY <1>2 DEF Phases
  <2>2. CASE Outcome' = Outcome
    BY <2>1, <2>2
  <2>3. CASE Outcome \in {"unlaunched", "failed"} /\ Outcome' = "open"
    BY <2>1, <2>3 DEF Promise!Next, Promise!Open, Phases
  <2>4. CASE Outcome = "open" /\ Outcome' = "failed"
    BY <2>1, <2>4 DEF Promise!Next, Promise!Fail, Phases
  <2>5. CASE Outcome = "open" /\ Outcome' = "succeeded" /\ \A i \in Item : Completed(i)
    BY <1>1, <2>1, <2>5 DEF Promise!Next, Promise!Succeed, Phases, Item
  <2>6. CASE BeginItem \/ RepeatEnd \/ EndItem \/ NextItem \/ FailList \/ Outage
    BY <2>2, <2>6 DEF BeginItem, RepeatEnd, EndItem, NextItem, FailList, Outage, Again, Outcome
  <2>7. CASE FinishList
    <3>1. CASE exitCode # 0
      BY <2>4, <2>7, <3>1 DEF FinishList, Outcome
    <3>2. CASE exitCode = 0 /\ \A i \in Item : Completed(i)
      BY <2>5, <2>7, <3>2 DEF FinishList, Outcome
    <3> QED
      BY <2>7, <3>1, <3>2 DEF FinishList, Item
  <2>8. CASE Unexpected \/ RaiseList \/ Die
    <3>1. CASE listAt' = "item"
      BY <2>2, <2>8, <3>1 DEF Unexpected, RaiseList, Die, Outcome
    <3>2. CASE listAt' = "over" /\ exitCode' \in {1, 139}
      BY <2>4, <2>8, <3>2 DEF Unexpected, RaiseList, Die, Outcome
    <3> QED
      BY <2>8, <3>1, <3>2 DEF Unexpected, RaiseList, Die, Again
  <2>9. CASE LaunchList
    BY <2>3, <2>9 DEF LaunchList, Outcome
  <2>10. CASE UNCHANGED listVars
    BY <2>2, <2>10 DEF listVars, Outcome
  <2> QED
    BY <2>6, <2>7, <2>8, <2>9, <2>10 DEF ListNext, ListWork
<1>3. CASE BeginItem /\ itemState' # itemState
  <2>1. /\ listAt = "item" /\ listAt' = "running" /\ ~Resumed(item)
        /\ itemState' = [itemState EXCEPT ![item] = Saved("active")]
    BY <1>3 DEF BeginItem
  <2>2. ~Exists(item) /\ \A j \in Item : j < item => Completed(j)
    BY <2>1 DEF OrderInv, Resumed, Working
  <2>3. PhaseOf(Saved("active")) = "begun"
    BY DEF PhaseOf, Saved
  <2>4. Phases' = [Phases EXCEPT ![item] = "begun"]
    <3>1. Phases' = [Phases EXCEPT ![item] = PhaseOf(Saved("active"))]
      <4>1. itemState \in [1 .. Items -> {NoState, Left} \cup
                {Saved(t) : t \in {"active", "completed", "max_cycles_exhausted"}}]
        BY DEF ItemInv, ListTypeOK
      <4> QED
        BY <1>0, <2>1, <4>1, OnePhase
    <3> QED
      BY <2>3, <3>1
  <2>5. Phases[item] = "waiting" /\ \A j \in 1 .. (item - 1) : Phases[j] = "completed"
    BY <1>0, <1>1, <2>2 DEF Item
  <2>6. Outcome = "open" /\ Outcome' = "open"
    BY <2>1 DEF Outcome
  <2>7. Promise!Begin(item)
    BY <2>4, <2>5, <2>6 DEF Promise!Begin, Phases
  <2> QED
    BY <1>0, <2>7 DEF Promise!Next, Item
<1>4. CASE EndItem /\ itemState' # itemState
  <2>1. PICK end \in {"completed", "active", "max_cycles_exhausted"} :
               itemState' = [itemState EXCEPT ![item].stage = end]
    BY <1>4 DEF EndItem
  <2>2. listAt = "running" /\ listAt' = "ended" /\ itemState[item] = Saved("active")
    BY <1>4 DEF EndItem, ItemInv
  <2>3. itemState' = [itemState EXCEPT ![item] = Saved(end)]
    <3>1. item \in DOMAIN itemState
      BY <1>0 DEF ItemInv, ListTypeOK, Item
    <3>2. [itemState[item] EXCEPT !.stage = end] = Saved(end)
      BY <2>2 DEF Saved
    <3>3. itemState' = [itemState EXCEPT ![item] = [itemState[item] EXCEPT !.stage = end]]
      BY <2>1, <3>1
    <3> QED
      BY <3>2, <3>3
  <2>4. Phases' = [Phases EXCEPT ![item] = PhaseOf(Saved(end))]
    BY <1>0, <2>3, OnePhase DEF ItemInv, ListTypeOK
  <2>5. Phases[item] = "begun"
    BY <1>0, <1>1, <2>2 DEF PhaseOf, Saved
  <2>6. Outcome = "open" /\ Outcome' = "open"
    BY <2>2 DEF Outcome
  <2>7. CASE end = "completed"
    <3>1. PhaseOf(Saved(end)) = "completed"
      BY <2>7 DEF PhaseOf, Saved
    <3>2. Promise!Complete(item)
      BY <2>4, <2>5, <2>6, <3>1 DEF Promise!Complete, Phases
    <3> QED
      BY <1>0, <3>2 DEF Promise!Next, Item
  <2>8. CASE end # "completed"
    <3>1. PhaseOf(Saved(end)) = "begun"
      BY <2>8 DEF PhaseOf, Saved
    <3>2. Phases' = Phases
      <4>1. Phases' = [Phases EXCEPT ![item] = Phases[item]]
        BY <2>4, <2>5, <3>1
      <4>2. Phases = [i \in 1 .. Items |-> Phases[i]]
        BY DEF Phases
      <4> QED
        BY <4>1, <4>2
    <3> QED
      BY <2>6, <3>2
  <2> QED
    BY <2>7, <2>8
<1>5. BeginItem \/ EndItem \/ itemState' = itemState
  BY DEF ListNext, ListWork, RepeatEnd, NextItem, FailList, FinishList, Outage, Unexpected, RaiseList,
         Die, LaunchList, listVars
<1> QED
  BY <1>2, <1>3, <1>4, <1>5

(* A List without leftovers of an earlier one does what RunList promises, but    *)
(* for the promise that it ends: no item is begun before all earlier ones are    *)
(* completed, none that is completed is begun anew, and success means that all   *)
(* are, whatever is retried, restarted or launched again.                        *)
THEOREM ListKeepsItsPromise ==
  ASSUME Leftovers = {} PROVE ListSpec => []ListTypeOK /\ Promise!Safety
<1>1. ListInit => ItemInv /\ OrderInv
  BY ItemStart, OrderStart
<1>2. ItemInv /\ OrderInv /\ [ListNext]_listVars => (ItemInv /\ OrderInv)'
  BY ItemStep, OrderStep
<1>3. ListInit => Promise!Init
  <2> SUFFICES ASSUME ListInit PROVE Promise!Init
    OBVIOUS
  <2>1. \A i \in 1 .. Items : itemState[i] = NoState
    BY DEF ListInit
  <2>2. PhaseOf(NoState) = "waiting"
    <3>1. NoState.list # "this" /\ NoState # Saved("completed")
      BY DEF NoState, Saved
    <3> QED
      BY <3>1 DEF PhaseOf
  <2>3. [i \in 1 .. Items |-> PhaseOf(itemState[i])] = [i \in 1 .. Items |-> "waiting"]
    BY <2>1, <2>2
  <2>4. Outcome = "unlaunched"
    BY DEF ListInit, Outcome
  <2> QED
    BY <2>3, <2>4 DEF Promise!Init
<1>4. ItemInv /\ OrderInv /\ [ListNext]_listVars => [Promise!Next]_(Promise!listed)
  BY PromiseStep DEF Promise!listed, Phases
<1>5. ItemInv => ListTypeOK
  BY DEF ItemInv
<1> QED
  BY <1>1, <1>2, <1>3, <1>4, <1>5, PTL DEF ListSpec, Promise!Safety
================================================================================
