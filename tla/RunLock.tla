-------------------------------- MODULE RunLock --------------------------------
(***************************************************************************)
(* The run.lock file that makes one Supervisor, and its Worker, own a      *)
(* project_root and work_dir (runner/runtime/supervisor.py).               *)
(*                                                                         *)
(* Every launch is a Supervisor process of its own.  One file operation is *)
(* one step, because nothing but the file relates two launches.  A token   *)
(* (pid and time) is used once, so a launch stands for its token, and      *)
(* lock.owner for the token, and the pid, in the file.                     *)
(***************************************************************************)
EXTENDS Integers, FiniteSets

CONSTANTS
  Launch,      \* the launches, each made once
  Pid,         \* process ids
  ReusePids,   \* whether a process id may come back after its process ended
  Nobody,      \* the owner of a file that does not exist
  MaxCrashes,  \* bound: Supervisors killed without running their cleanup
  MaxStalls    \* bound: five seconds passing between two steps of a process

ASSUME NobodyAssumption == Nobody \notin Launch
ASSUME LimitAssumption  == MaxCrashes \in Nat /\ MaxStalls \in Nat /\ ReusePids \in BOOLEAN

VARIABLES
  lock,       \* run.lock: its owner, and whether the payload is written
  pc,         \* where each launch is
  left,       \* attempts each launch has left to create the file
  seen,       \* the owner a launch read in the file
  pid,        \* the process id of each launch, Nobody before it starts
  worker,     \* launches whose Worker process runs
  crashes, stalls,
  contested   \* history: launches that were alive together with another one

lockVars == <<lock, pc, left, seen, pid, worker, crashes, stalls, contested>>

NoFile  == [owner |-> Nobody, content |-> "empty"]
Ended   == {"idle", "done", "refused", "early", "dead"}
Running == {"create", "write", "held", "releasing", "inspect", "recheck", "unlinkOld",
            "judge", "reread", "unlink"}
Living  == {p \in Launch : pc[p] \in Running}

(* for _ in range(2) *)
MutantAttempts == 1
Attempts == 2

LockInit ==
  /\ lock = NoFile
  /\ pc = [p \in Launch |-> "idle"]
  /\ left = [p \in Launch |-> Attempts]
  /\ seen = [p \in Launch |-> Nobody]
  /\ pid = [p \in Launch |-> Nobody]
  /\ worker = {} /\ crashes = 0 /\ stalls = 0 /\ contested = {}

Goto(p, where) == pc' = [pc EXCEPT ![p] = where]

(* The operating system gives a new process an id no living process has. *)
Start(p) ==
  /\ pc[p] = "idle"
  /\ \E id \in Pid :
       /\ id \notin {pid[q] : q \in Living}
       /\ ReusePids \/ id \notin {pid[q] : q \in Launch}
       /\ pid' = [pid EXCEPT ![p] = id]
  /\ contested' = IF Living = {} THEN contested ELSE contested \cup Living \cup {p}
  /\ Goto(p, "create")
  /\ UNCHANGED <<lock, left, seen, worker, crashes, stalls>>

--------------------------------------------------------------------------
(* _acquire_run_lock: O_CREAT | O_EXCL, then the payload. *)
Create(p) ==
  /\ pc[p] = "create" /\ left[p] > 0
  /\ IF lock = NoFile
       THEN lock' = [owner |-> p, content |-> "empty"] /\ Goto(p, "write")
       ELSE UNCHANGED lock /\ Goto(p, "inspect")
  /\ left' = [left EXCEPT ![p] = @ - 1]
  /\ UNCHANGED <<seen, pid, worker, crashes, stalls, contested>>

GiveUp(p) ==
  /\ pc[p] = "create" /\ left[p] = 0
  /\ Goto(p, "refused")
  /\ UNCHANGED <<lock, left, seen, pid, worker, crashes, stalls, contested>>

(* A payload written after the file was unlinked goes nowhere. *)
Write(p) ==
  /\ pc[p] = "write"
  /\ lock' = IF lock.owner = p THEN [lock EXCEPT !.content = "token"] ELSE lock
  /\ Goto(p, "held")
  /\ UNCHANGED <<left, seen, pid, worker, crashes, stalls, contested>>

(* _remove_stale_run_lock: read the file. *)
Inspect(p) ==
  /\ pc[p] = "inspect"
  /\ IF lock.content = "token"
       THEN seen' = [seen EXCEPT ![p] = lock.owner] /\ Goto(p, "judge")
       ELSE UNCHANGED seen /\ Goto(p, "recheck")
  /\ UNCHANGED <<lock, left, pid, worker, crashes, stalls, contested>>

(* The file could not be read: it is gone, or too young to judge, or older    *)
(* than RUN_LOCK_STALE_GRACE_SECONDS.  A file gets that old when its creator  *)
(* died, or when a process was held up between two of its steps.              *)
RecheckGone(p) ==
  /\ pc[p] = "recheck" /\ lock = NoFile
  /\ Goto(p, "create")
  /\ UNCHANGED <<lock, left, seen, pid, worker, crashes, stalls, contested>>

RecheckYoung(p) ==
  /\ pc[p] = "recheck" /\ lock # NoFile
  /\ Goto(p, "early")
  /\ UNCHANGED <<lock, left, seen, pid, worker, crashes, stalls, contested>>

RecheckOld(p) ==
  /\ pc[p] = "recheck" /\ lock # NoFile
  /\ IF lock.owner \in Living
       THEN stalls < MaxStalls /\ stalls' = stalls + 1
       ELSE UNCHANGED stalls
  /\ Goto(p, "unlinkOld")
  /\ UNCHANGED <<lock, left, seen, pid, worker, crashes, contested>>

(* _owner_pid_alive asks about the id, not about the process. *)
OwnerPidAlive(p) == pid[seen[p]] \in {pid[q] : q \in Living}

Judge(p) ==
  /\ pc[p] = "judge"
  /\ Goto(p, IF OwnerPidAlive(p) THEN "refused" ELSE "reread")
  /\ UNCHANGED <<lock, left, seen, pid, worker, crashes, stalls, contested>>

(* "Re-read before unlinking so a changed/replaced lock is never stolen." *)
MutantSameToken(p) == lock # NoFile
SameToken(p) == lock = [owner |-> seen[p], content |-> "token"]

Reread(p) ==
  /\ pc[p] = "reread"
  /\ Goto(p, IF SameToken(p) THEN "unlink" ELSE "refused")
  /\ UNCHANGED <<lock, left, seen, pid, worker, crashes, stalls, contested>>

Unlink(p) ==
  /\ pc[p] \in {"unlink", "unlinkOld"}
  /\ lock' = NoFile
  /\ Goto(p, "create")
  /\ UNCHANGED <<left, seen, pid, worker, crashes, stalls, contested>>

--------------------------------------------------------------------------
(* _supervise_workers: a Worker is started, and again when it dies; the lock  *)
(* is released when it returned for good or was terminated.                   *)
StartWorker(p) ==
  /\ pc[p] = "held" /\ p \notin worker
  /\ worker' = worker \cup {p}
  /\ UNCHANGED <<lock, pc, left, seen, pid, crashes, stalls, contested>>

WorkerEnds(p) ==
  /\ p \in worker
  /\ worker' = worker \ {p}
  /\ UNCHANGED <<lock, pc, left, seen, pid, crashes, stalls, contested>>

(* _release_run_lock: only a file with one's own token is unlinked. *)
Release(p) ==
  /\ pc[p] = "held" /\ p \notin worker
  /\ Goto(p, IF lock = [owner |-> p, content |-> "token"] THEN "releasing" ELSE "done")
  /\ UNCHANGED <<lock, left, seen, pid, worker, crashes, stalls, contested>>

ReleaseUnlink(p) ==
  /\ pc[p] = "releasing"
  /\ lock' = NoFile
  /\ Goto(p, "done")
  /\ UNCHANGED <<left, seen, pid, worker, crashes, stalls, contested>>

(* The Supervisor is killed; a Worker it started runs on. *)
Crash(p) ==
  /\ p \in Living /\ crashes < MaxCrashes
  /\ crashes' = crashes + 1
  /\ Goto(p, "dead")
  /\ UNCHANGED <<lock, left, seen, pid, worker, stalls, contested>>

Acquire(p) == Create(p) \/ GiveUp(p) \/ Write(p)
RemoveStale(p) == Inspect(p) \/ RecheckGone(p) \/ RecheckYoung(p) \/ RecheckOld(p)
                    \/ Judge(p) \/ Reread(p) \/ Unlink(p)
Supervise(p) == StartWorker(p) \/ WorkerEnds(p) \/ Release(p) \/ ReleaseUnlink(p)

AllEnded == Living = {} /\ worker = {} /\ UNCHANGED lockVars

LockNext == (\E p \in Launch : Start(p) \/ Acquire(p) \/ RemoveStale(p) \/ Supervise(p) \/ Crash(p))
          \/ AllEnded

LockSpec == LockInit /\ [][LockNext]_lockVars

--------------------------------------------------------------------------
LockTypeOK ==
  /\ lock \in [owner : Launch \cup {Nobody}, content : {"empty", "token"}]
  /\ pc \in [Launch -> Ended \cup Running]
  /\ left \in [Launch -> 0 .. Attempts]
  /\ seen \in [Launch -> Launch \cup {Nobody}]
  /\ pid \in [Launch -> Pid \cup {Nobody}]
  /\ worker \subseteq Launch
  /\ crashes \in Nat /\ stalls \in Nat
  /\ contested \subseteq Launch

Owning(p) == pc[p] \in {"held", "releasing"}

(* Two Supervisors never own one work_dir at a time (supervisor.py:239). *)
MutualExclusion == \A p, q \in Launch : Owning(p) /\ Owning(q) => p = q

(* "One Project has at most one active Runtime" (PROJECT_GUIDE.md:45): two    *)
(* Workers never write the same state.                                        *)
OneRuntime == \A p, q \in worker : p = q

(* A Supervisor that owns the work_dir finds its own token in the file, so no *)
(* release removes the lock of another launch (supervisor.py:327-333).        *)
OwnerHoldsFile ==
  \A p \in Launch : Owning(p) => lock = [owner |-> p, content |-> "token"]

(* A launch that meets no other living launch is not refused, whatever a      *)
(* killed one left behind; a file it found half-written may put it off.       *)
LoneLaunchStarts == \A p \in Launch : pc[p] = "refused" => p \in contested

(* Why, as long as no Supervisor is killed or held up: the file belongs to    *)
(* the launch that created it until that launch removes it, and an owner that *)
(* a rival finds gone has removed its file.                                   *)
CleanInv ==
  /\ LockTypeOK
  /\ \A p \in Launch :
       /\ pc[p] \notin {"dead", "unlink", "unlinkOld"}
       /\ pc[p] = "write" => lock = [owner |-> p, content |-> "empty"]
       /\ Owning(p) => lock = [owner |-> p, content |-> "token"]
       /\ p \in worker => pc[p] = "held"
       /\ pc[p] \in {"judge", "reread"} => seen[p] \in Launch
       /\ seen[p] # Nobody => pc[seen[p]] \in {"write", "held", "releasing", "done"}
       /\ pc[p] = "reread" => pc[seen[p]] = "done"
  /\ lock # NoFile =>
       lock.owner \in Launch /\ pc[lock.owner] \in {"write", "held", "releasing"}
=============================================================================
