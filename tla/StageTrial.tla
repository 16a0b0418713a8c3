------------------------------- MODULE StageTrial -------------------------------
(***************************************************************************)
(* Trials of single Stages from the Workflow Editor (testStage and               *)
(* stopStageTest of main.tsx, studio_stage_test and studio_stage_test_cancel of    *)
(* workflow_studio_state.py).  Requests run in threads of the server and share a   *)
(* table of processes and a set of cancelled trials, under one lock.             *)
(*                                                                         *)
(* Each trial has an id of its own.  The lock and the tables exist               *)
(* (_stage_test_runtime makes them at the first use, without a lock), killing     *)
(* a process succeeds, and what a trial prints is left out.                      *)
(***************************************************************************)
EXTENDS Integers, FiniteSets

CONSTANTS
  Trial,      \* ids of trials
  CancelCap   \* size at which the set of cancelled trials is emptied (64)

ASSUME TrialAssumption == CancelCap \in Nat \ {0}

VARIABLES
  step,        \* where each trial's request is
  process,     \* its process: "none", "running", "ended" by itself or "killed"
  registered,  \* trials in the table of processes
  cancelled,   \* the set a trial looks itself up in
  atOnce,      \* trials that found themselves cancelled when they registered
  answer,      \* what the page is told of each trial
  cancel,      \* where each trial's cancellation is
  halted,     \* history: trials cancelled before they were over
  forgotten    \* history: trials the cap removed from the set

trialVars == <<step, process, registered, cancelled, atOnce, answer, cancel, halted, forgotten>>

TrialInit ==
  /\ step = [t \in Trial |-> "idle"] /\ process = [t \in Trial |-> "none"]
  /\ registered = {} /\ cancelled = {} /\ atOnce = {}
  /\ answer = [t \in Trial |-> "none"] /\ cancel = [t \in Trial |-> "none"]
  /\ halted = {} /\ forgotten = {}

Move(t, from, to) == step[t] = from /\ step' = [step EXCEPT ![t] = to]
Killed(t) == [process EXCEPT ![t] = IF process[t] = "running" THEN "killed" ELSE process[t]]

--------------------------------------------------------------------------
AskTrial(t) ==
  /\ Move(t, "idle", "asked")
  /\ UNCHANGED <<process, registered, cancelled, atOnce, answer, cancel, halted, forgotten>>

(* The Stage is not found, or its process cannot be started. *)
RefuseTrial(t) ==
  /\ Move(t, "asked", "over")
  /\ answer' = [answer EXCEPT ![t] = "error"]
  /\ UNCHANGED <<process, registered, cancelled, atOnce, cancel, halted, forgotten>>

StartTrial(t) ==
  /\ Move(t, "asked", "started")
  /\ process' = [process EXCEPT ![t] = "running"]
  /\ UNCHANGED <<registered, cancelled, atOnce, answer, cancel, halted, forgotten>>

MutantLate(t) == {}
Late(t) == cancelled \cap {t}   \* cancelled before it registered
RegisterTrial(t) ==
  /\ Move(t, "started", IF Late(t) = {} THEN "waiting" ELSE "stopping")
  /\ registered' = registered \cup {t}
  /\ cancelled' = cancelled \ Late(t)
  /\ atOnce' = atOnce \cup Late(t)
  /\ UNCHANGED <<process, answer, cancel, halted, forgotten>>

StopAtOnce(t) ==
  /\ Move(t, "stopping", "waiting")
  /\ process' = Killed(t)
  /\ UNCHANGED <<registered, cancelled, atOnce, answer, cancel, halted, forgotten>>

ProcessEnds(t) ==
  /\ process[t] = "running"
  /\ process' = [process EXCEPT ![t] = "ended"]
  /\ UNCHANGED <<step, registered, cancelled, atOnce, answer, cancel, halted, forgotten>>

(* communicate returns, or gives up after 900 seconds and kills the process. *)
Communicate(t) ==
  \/ /\ process[t] # "running" /\ Move(t, "waiting", "ended")
     /\ UNCHANGED <<process, registered, cancelled, atOnce, answer, cancel, halted, forgotten>>
  \/ /\ process[t] = "running" /\ Move(t, "waiting", "timed out")
     /\ process' = Killed(t)
     /\ UNCHANGED <<registered, cancelled, atOnce, answer, cancel, halted, forgotten>>

(* The finally block, and the answer. *)
Conclude(t) ==
  /\ \/ /\ Move(t, "ended", "over")
        /\ answer' = [answer EXCEPT ![t] = IF t \in cancelled \cup atOnce THEN "cancelled" ELSE "result"]
     \/ /\ Move(t, "timed out", "over")
        /\ answer' = [answer EXCEPT ![t] = "error"]
  /\ registered' = registered \ {t} /\ cancelled' = cancelled \ {t}
  /\ UNCHANGED <<process, atOnce, cancel, halted, forgotten>>

--------------------------------------------------------------------------
(* The page asks while it waits for the trial; the server may get to it later. *)
AskCancel(t) ==
  /\ step[t] \notin {"idle", "over"} /\ cancel[t] = "none"
  /\ cancel' = [cancel EXCEPT ![t] = "asked"]
  /\ UNCHANGED <<step, process, registered, cancelled, atOnce, answer, halted, forgotten>>

Cancel(t) ==
  /\ cancel[t] = "asked"
  /\ LET full == Cardinality(cancelled) >= CancelCap
     IN /\ cancelled' = (IF full THEN {} ELSE cancelled) \cup {t}
        /\ forgotten' = IF full THEN forgotten \cup (cancelled \ {t}) ELSE forgotten
  /\ cancel' = [cancel EXCEPT ![t] = IF t \in registered THEN "killing" ELSE "answered"]
  /\ halted' = IF step[t] = "over" THEN halted ELSE halted \cup {t}
  /\ UNCHANGED <<step, process, registered, atOnce, answer>>

KillTrial(t) ==
  /\ cancel[t] = "killing"
  /\ process' = Killed(t)
  /\ cancel' = [cancel EXCEPT ![t] = "answered"]
  /\ UNCHANGED <<step, registered, cancelled, atOnce, answer, halted, forgotten>>

TrialNext == \E t \in Trial :
  \/ AskTrial(t) \/ RefuseTrial(t) \/ StartTrial(t) \/ RegisterTrial(t) \/ StopAtOnce(t)
  \/ ProcessEnds(t) \/ Communicate(t) \/ Conclude(t) \/ AskCancel(t) \/ Cancel(t) \/ KillTrial(t)
TrialSpec == TrialInit /\ [][TrialNext]_trialVars

--------------------------------------------------------------------------
TrialTypeOK ==
  /\ step \in [Trial -> {"idle", "asked", "started", "stopping", "waiting", "ended", "timed out", "over"}]
  /\ process \in [Trial -> {"none", "running", "ended", "killed"}]
  /\ UNION {registered, cancelled, atOnce, halted, forgotten} \subseteq Trial
  /\ answer \in [Trial -> {"none", "cancelled", "result", "error"}]
  /\ cancel \in [Trial -> {"none", "asked", "killing", "answered"}]

(* A trial that is cancelled at whatever point before its end answers cancelled,   *)
(* its process does not run on with nobody about to kill it, and no other trial     *)
(* answers cancelled (workflow_studio_state.py:562-685).  Only a trial that the      *)
(* cap made the set forget is not stopped for certain.                           *)
CancelStops ==
  /\ TrialTypeOK
  /\ \A t \in halted \ forgotten :
       /\ step[t] = "over" => answer[t] \in {"cancelled", "error"}
       /\ step[t] = "waiting" /\ process[t] = "running" => cancel[t] = "killing"
  /\ \A t \in Trial : answer[t] = "cancelled" => t \in halted
  /\ \A t \in Trial : step[t] = "over" => process[t] # "running" /\ t \notin registered
=============================================================================
