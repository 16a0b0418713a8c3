----------------------------- MODULE AgentProcesses -----------------------------
(***************************************************************************)
(* Who ends an agent process: the call of run_process that started it        *)
(* (runner/runtime/process_runner.py), or, when the worker died, the          *)
(* Supervisor, from the active-process marker the worker left                 *)
(* (runner/runtime/supervisor.py).                                          *)
(***************************************************************************)
EXTENDS Integers, FiniteSets

CONSTANTS
  MaxAgents,   \* bound: agent processes started in a behavior
  MaxWorkers,  \* bound: workers started by the Supervisor
  Immortal     \* agents that no signal ends

ASSUME AgentAssumption ==
  MaxAgents \in Nat /\ MaxWorkers \in Nat \ {0} /\ Immortal \subseteq 1 .. MaxAgents

VARIABLES
  alive,      \* agent processes that run
  owner,      \* worker that started each agent (0: not started)
  marker,     \* <<worker, agent>> in active-process, or None
  serial,     \* the current worker
  workerAt,   \* what it is doing: free, started, recorded, ended, gone
  agent,      \* agent of its current call
  supervisor, \* where the Supervisor is
  stopped,       \* whether a stop was requested
  recorded    \* history: agents whose marker was written

agentVars == <<alive, owner, marker, serial, workerAt, agent, supervisor, stopped, recorded>>
host == <<serial, supervisor, stopped>>

NoMarker == <<0, 0>>
Agent == 1 .. MaxAgents
Started == {a \in Agent : owner[a] # 0}

AgentsInit ==
  /\ alive = {} /\ owner = [a \in Agent |-> 0] /\ marker = NoMarker
  /\ serial = 1 /\ workerAt = "free" /\ agent = 0
  /\ supervisor = "watching" /\ stopped = FALSE /\ recorded = {}

--------------------------------------------------------------------------
(* run_process: Popen, then the marker, which may fail to be written. *)
Popen ==
  /\ workerAt = "free"
  /\ \E a \in Agent \ Started :
       /\ a = Cardinality(Started) + 1
       /\ agent' = a
       /\ alive' = alive \cup {a} /\ owner' = [owner EXCEPT ![a] = serial]
  /\ workerAt' = "started"
  /\ UNCHANGED <<marker, host, recorded>>

Record ==
  /\ workerAt = "started"
  /\ \/ marker' = <<serial, agent>> /\ recorded' = recorded \cup {agent}
     \/ UNCHANGED <<marker, recorded>>
  /\ workerAt' = "recorded"
  /\ UNCHANGED <<alive, owner, agent, host>>

AgentEnds ==
  /\ \E a \in alive \ Immortal : alive' = alive \ {a}
  /\ UNCHANGED <<owner, marker, workerAt, agent, host, recorded>>

(* The call ends: terminate_process_tree in the finally clause. *)
EndCall ==
  /\ workerAt = "recorded"
  /\ alive' = alive \ ({agent} \ Immortal)
  /\ workerAt' = "ended"
  /\ UNCHANGED <<owner, marker, agent, host, recorded>>

(* _active_process(process, False): only this call's own marker. *)
RemoveMarker ==
  /\ workerAt = "ended"
  /\ marker' = IF marker = <<serial, agent>> THEN NoMarker ELSE marker
  /\ workerAt' = "free" /\ agent' = 0
  /\ UNCHANGED <<alive, owner, host, recorded>>

(* The worker returns between two calls, or dies anywhere.  A worker that     *)
(* hangs is terminated, which is a death too.                                *)
WorkerExits ==
  /\ workerAt = "free" /\ supervisor = "watching"
  /\ workerAt' = "gone" /\ supervisor' = "over"
  /\ UNCHANGED <<alive, owner, marker, agent, serial, stopped, recorded>>

WorkerDies ==
  /\ supervisor = "watching"
  /\ workerAt' = "gone" /\ agent' = 0
  /\ supervisor' = "cleaning"
  /\ UNCHANGED <<alive, owner, marker, serial, stopped, recorded>>

RequestStop == /\ ~stopped /\ stopped' = TRUE
               /\ UNCHANGED <<alive, owner, marker, serial, workerAt, agent, supervisor, recorded>>

(* _StopRequested, or Ctrl-C: the worker is terminated first. *)
StopWorker ==
  /\ supervisor = "watching" /\ stopped
  /\ workerAt' = "gone" /\ agent' = 0
  /\ supervisor' = "cleaning"
  /\ UNCHANGED <<alive, owner, marker, serial, stopped, recorded>>

(* cleanup_orphans: the agent of the worker that died is killed; the marker   *)
(* stays if there was nothing left to kill.                                  *)
MutantOrphan == marker # NoMarker /\ marker[1] # serial
Orphan == marker # NoMarker /\ marker[1] = serial
CleanUp ==
  /\ supervisor = "cleaning"
  /\ IF Orphan /\ marker[2] \in alive
     THEN alive' = alive \ ({marker[2]} \ Immortal) /\ marker' = NoMarker
     ELSE UNCHANGED <<alive, marker>>
  /\ supervisor' = IF stopped THEN "over" ELSE "backoff"
  /\ UNCHANGED <<owner, workerAt, agent, serial, stopped, recorded>>

RestartWorker ==
  /\ supervisor = "backoff"
  /\ \/ /\ ~stopped /\ serial < MaxWorkers
        /\ serial' = serial + 1 /\ workerAt' = "free" /\ supervisor' = "watching"
     \/ /\ stopped /\ supervisor' = "over"
        /\ UNCHANGED <<serial, workerAt>>
  /\ UNCHANGED <<alive, owner, marker, agent, stopped, recorded>>

SupervisorStep == StopWorker \/ CleanUp \/ RestartWorker
AgentsNext == \/ Popen \/ Record \/ AgentEnds \/ EndCall \/ RemoveMarker
        \/ WorkerExits \/ WorkerDies \/ RequestStop \/ SupervisorStep
AgentsSpec == AgentsInit /\ [][AgentsNext]_agentVars

--------------------------------------------------------------------------
AgentsTypeOK ==
  /\ alive \subseteq Agent /\ owner \in [Agent -> 0 .. MaxWorkers]
  /\ marker \in (0 .. MaxWorkers) \X (0 .. MaxAgents)
  /\ serial \in 1 .. MaxWorkers /\ agent \in 0 .. MaxAgents
  /\ workerAt \in {"free", "started", "recorded", "ended", "gone"}
  /\ supervisor \in {"watching", "cleaning", "backoff", "over"} /\ stopped \in BOOLEAN

(* Agents that the Supervisor could know of and end. *)
Known == recorded \ Immortal

(* A known agent runs only in a call of the current worker, or until the          *)
(* Supervisor has cleaned up behind a worker: two agents never change one project,  *)
(* and none is left behind (supervisor.py:128-141, process_runner.py:92-96).      *)
NoOrphan ==
  /\ AgentsTypeOK
  /\ \A a \in alive \cap Known :
       supervisor = "cleaning" \/ (supervisor = "watching" /\ owner[a] = serial)
=============================================================================
