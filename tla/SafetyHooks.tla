------------------------------ MODULE SafetyHooks ------------------------------
(***************************************************************************)
(* The safety hooks around every attempt of a Stage (plugins/safety.py): a    *)
(* copy of the project is kept for as long as the worker lives, brought up to  *)
(* date after each attempt that may write, and used to take back what a        *)
(* read-only attempt wrote; protected files have a copy of their own, made     *)
(* before each attempt.                                                     *)
(*                                                                         *)
(* The content of a file is a number, 0 for a file that is not there.         *)
(***************************************************************************)
EXTENDS Integers

CONSTANTS
  Path,        \* the project's files
  Guarded,     \* those that are protected
  Contents,    \* bound: contents 0 .. Contents
  MaxAttempts     \* bound: attempts of Stages

ASSUME SafetyAssumption ==
  Guarded \subseteq Path /\ Contents \in Nat \ {0} /\ MaxAttempts \in Nat

VARIABLES
  project,     \* the files
  cached,      \* whether this worker has a baseline
  baseline,    \* the copy that _ReadonlyBaseline keeps
  phase,       \* idle, running, settled, over
  mode,        \* write, restore or observe, the last two read-only
  keeps,       \* whether the token has a backup
  begun,      \* the files when the attempt began
  attempts

hookVars == <<project, cached, baseline, phase, mode, keeps, begun, attempts>>
Trees == [Path -> 0 .. Contents]

HooksInit ==
  /\ project = [p \in Path |-> 1] /\ baseline = [p \in Path |-> 0]
  /\ cached = FALSE /\ phase = "idle" /\ mode = "write" /\ keeps = FALSE
  /\ begun = project /\ attempts = 0

(* before_execution; the baseline is copied when a worker first reads only. *)
BeforeExecution ==
  /\ phase \in {"idle", "over"} /\ attempts < MaxAttempts
  /\ attempts' = attempts + 1
  /\ mode' \in {"write", "restore", "observe"}
  /\ baseline' = IF mode' # "write" /\ ~cached THEN project ELSE baseline
  /\ cached' = (cached \/ mode' # "write")
  /\ keeps' = cached'
  /\ begun' = project
  /\ phase' = "running"
  /\ UNCHANGED project

(* The agent, or the command, of the Stage. *)
Change ==
  /\ phase = "running"
  /\ \E p \in Path, c \in 0 .. Contents : project' = [project EXCEPT ![p] = c]
  /\ UNCHANGED <<cached, baseline, phase, mode, keeps, begun, attempts>>

(* Sync: what this attempt changed, and nothing else, is copied. *)
Changed(p) == project[p] # begun[p]
MutantSynced == baseline
Synced == [p \in Path |-> IF Changed(p) THEN project[p] ELSE baseline[p]]
Restored == [p \in Path |-> IF Changed(p) THEN baseline[p] ELSE project[p]]

(* after_execution, the project's part. *)
Settle ==
  /\ phase = "running"
  /\ project' = IF keeps /\ mode = "restore" THEN Restored ELSE project
  /\ baseline' = IF keeps /\ mode = "write" THEN Synced ELSE baseline
  /\ phase' = "settled"
  /\ UNCHANGED <<cached, mode, keeps, begun, attempts>>

(* Then the protected files', and the baseline if the changes stay after all. *)
RestoreChanged ==
  /\ phase = "settled"
  /\ project' = [p \in Path |-> IF p \in Guarded THEN begun[p] ELSE project[p]]
  /\ baseline' = IF keeps /\ mode = "observe"
                 THEN [p \in Path |-> IF project'[p] # begun[p] THEN project'[p] ELSE baseline[p]]
                 ELSE baseline
  /\ phase' = "over"
  /\ UNCHANGED <<cached, mode, keeps, begun, attempts>>

(* The worker dies; the next one has no baseline. *)
WorkerCrash ==
  /\ phase # "idle"
  /\ cached' = FALSE /\ phase' = "idle"
  /\ UNCHANGED <<project, baseline, mode, keeps, begun, attempts>>

HooksNext == BeforeExecution \/ Change \/ Settle \/ RestoreChanged \/ WorkerCrash
HooksSpec == HooksInit /\ [][HooksNext]_hookVars

--------------------------------------------------------------------------
HooksTypeOK ==
  /\ project \in Trees /\ baseline \in Trees /\ begun \in Trees
  /\ cached \in BOOLEAN /\ keeps \in BOOLEAN /\ attempts \in 0 .. MaxAttempts
  /\ phase \in {"idle", "running", "settled", "over"}
  /\ mode \in {"write", "restore", "observe"}

(* An attempt that has ended left the protected files as they were and, if it   *)
(* was to be taken back, every file: the copy it is taken back from is never     *)
(* one of an earlier time (safety.py:273-349).                               *)
AttemptRestored ==
  phase = "over" =>
    /\ \A p \in Guarded : project[p] = begun[p]
    /\ mode = "restore" => project = begun
=============================================================================
