------------------------------ MODULE ScriptList ------------------------------
(***************************************************************************)
(* A YAML List: the items of a script run one after the other, each with a  *)
(* state.json of its own (runner/script.py), inside the loop that retries    *)
(* errors (runner/api.py run), inside a worker that its Supervisor restarts  *)
(* with --resume (runtime/supervisor.py).                                   *)
(*                                                                         *)
(* What an item does in between is the matter of FlowEngine: here it saves   *)
(* its state once and ends, fails or dies.                                  *)
(***************************************************************************)
EXTENDS Integers

CONSTANTS
  Items,        \* number of items in the list
  Skippable,    \* items with skip_on_max_cycles
  Leftovers,    \* items whose directory holds the completed run of an earlier list
  MaxTransient, \* bound: service outages that end an execution
  MaxWorkerDeaths     \* bound: workers that die

ASSUME ListAssumption ==
  /\ Items \in Nat \ {0} /\ Skippable \subseteq 1 .. Items /\ Leftovers \subseteq 1 .. Items
  /\ MaxTransient \in Nat /\ MaxWorkerDeaths \in Nat

VARIABLES
  itemState,     \* state.json of each item
  resume,    \* config.resume of the list
  item,      \* index of the item that is executed
  listAt,        \* where the worker is
  exitCode,      \* exit code of the item, then of the list
  repeats,   \* unexpected_repeats
  outages, workerDeaths

listVars == <<itemState, resume, item, listAt, exitCode, repeats, outages, workerDeaths>>

NoState == [list |-> "none", stage |-> "absent"]
Left   == [list |-> "earlier", stage |-> "completed"]
Saved(s) == [list |-> "this", stage |-> s]

ListInit ==
  /\ itemState = [i \in 1 .. Items |-> IF i \in Leftovers THEN Left ELSE NoState]
  /\ resume = FALSE /\ item = 1 /\ listAt = "idle" /\ exitCode = 0
  /\ repeats = 0 /\ outages = 0 /\ workerDeaths = 0

Exists(i) == itemState[i].stage # "absent"
Completed(i) == itemState[i].stage = "completed"
CycleExhausted(i) == itemState[i].stage = "max_cycles_exhausted"

--------------------------------------------------------------------------
(* build_script_item_config: an item is resumed if the list is and the item   *)
(* has a state; otherwise its run is created anew.                            *)
Resumed(i) == resume /\ Exists(i)

(* A saved run that is over ends at once, with the same code as before. *)
EndsAtOnce(i) == Resumed(i) /\ (Completed(i) \/ CycleExhausted(i))

BeginItem ==
  /\ listAt = "item" /\ ~EndsAtOnce(item)
  /\ itemState' = IF Resumed(item) THEN itemState ELSE [itemState EXCEPT ![item] = Saved("active")]
  /\ listAt' = "running"
  /\ UNCHANGED <<resume, item, exitCode, repeats, outages, workerDeaths>>

RepeatEnd ==
  /\ listAt = "item" /\ EndsAtOnce(item)
  /\ exitCode' = IF Completed(item) THEN 0 ELSE 1
  /\ listAt' = "ended"
  /\ UNCHANGED <<itemState, resume, item, repeats, outages, workerDeaths>>

(* FlowEngine.run: completed, stopped by a route, or out of cycles. *)
EndItem ==
  /\ listAt = "running"
  /\ \E end \in {"completed", "active", "max_cycles_exhausted"} :
       /\ itemState' = [itemState EXCEPT ![item].stage = end]
       /\ exitCode' = IF end = "completed" THEN 0 ELSE 1
  /\ listAt' = "ended"
  /\ UNCHANGED <<resume, item, repeats, outages, workerDeaths>>

(* execute_script after execute_one returned. *)
GoesOn(c, i) == \/ c = 2 /\ i \in Skippable /\ CycleExhausted(i)
                \/ c = 0 /\ Completed(i)
NextItem ==
  /\ listAt = "ended" /\ GoesOn(exitCode, item)
  /\ IF item < Items THEN listAt' = "item" /\ item' = item + 1
                     ELSE listAt' = "returned" /\ UNCHANGED item
  /\ exitCode' = 0
  /\ repeats' = IF listAt' = "returned" THEN 0 ELSE repeats
  /\ UNCHANGED <<itemState, resume, outages, workerDeaths>>

FailList ==
  /\ listAt = "ended" /\ ~GoesOn(exitCode, item)
  /\ exitCode' = IF exitCode = 0 THEN 1 ELSE exitCode
  /\ listAt' = "returned"
  /\ repeats' = 0
  /\ UNCHANGED <<itemState, resume, item, outages, workerDeaths>>

(* api.run: a list that completed, or failed, is over. *)
FinishList ==
  /\ listAt = "returned"
  /\ \/ exitCode # 0 \/ \A i \in 1 .. Items : Completed(i)
  /\ listAt' = "over"
  /\ UNCHANGED <<itemState, resume, item, exitCode, repeats, outages, workerDeaths>>

AnyState == \E i \in 1 .. Items : Exists(i)
Again == /\ resume' = AnyState /\ item' = 1 /\ listAt' = "item" /\ exitCode' = 0

(* A transient RunnerError: try again, as often as it takes. *)
Outage ==
  /\ listAt \in {"item", "running"} /\ outages < MaxTransient
  /\ outages' = outages + 1
  /\ Again
  /\ UNCHANGED <<itemState, repeats, workerDeaths>>

(* Any other exception, the same one each time: raised at the third.  The      *)
(* process ends with code 1, which its Supervisor does not restart.           *)
Tries == 3
Unexpected ==
  /\ listAt \in {"item", "running"}
  /\ repeats' = repeats + 1
  /\ \/ repeats' < Tries /\ Again
     \/ /\ repeats' >= Tries
        /\ listAt' = "over" /\ exitCode' = 1
        /\ UNCHANGED <<resume, item>>
  /\ UNCHANGED <<itemState, outages, workerDeaths>>

(* A ConfigurationError, or a RunnerError that is not transient. *)
RaiseList ==
  /\ listAt \in {"item", "running"}
  /\ listAt' = "over" /\ exitCode' = 1
  /\ UNCHANGED <<itemState, resume, item, repeats, outages, workerDeaths>>

(* The worker dies; its Supervisor restarts it with --resume if any item has   *)
(* a state, and returns the exit code otherwise.                              *)
MutantWorkerArgs == FALSE
WorkerArgs == TRUE
Die ==
  /\ listAt \in {"item", "running", "ended"} /\ workerDeaths < MaxWorkerDeaths
  /\ workerDeaths' = workerDeaths + 1
  /\ repeats' = 0
  /\ \/ AnyState /\ resume' = WorkerArgs /\ item' = 1 /\ listAt' = "item" /\ exitCode' = 0
     \/ ~AnyState /\ listAt' = "over" /\ exitCode' = 139 /\ UNCHANGED <<resume, item>>
  /\ UNCHANGED <<itemState, outages>>

(* The operator launches the list, and one that ended early again with --resume. *)
LaunchList ==
  /\ \/ listAt = "idle" /\ UNCHANGED <<resume, workerDeaths>>
     \/ /\ listAt = "over" /\ exitCode # 0 /\ workerDeaths < MaxWorkerDeaths
        /\ resume' = TRUE /\ workerDeaths' = workerDeaths + 1
  /\ item' = 1 /\ listAt' = "item" /\ exitCode' = 0 /\ repeats' = 0
  /\ UNCHANGED <<itemState, outages>>

ListWork == BeginItem \/ RepeatEnd \/ EndItem \/ NextItem \/ FailList \/ FinishList
ListNext == ListWork \/ Outage \/ Unexpected \/ RaiseList \/ Die \/ LaunchList
ListFairness == WF_listVars(ListWork)
ListSpec == ListInit /\ [][ListNext]_listVars /\ ListFairness

--------------------------------------------------------------------------
ListTypeOK ==
  /\ itemState \in [1 .. Items -> {NoState, Left} \cup
                {Saved(s) : s \in {"active", "completed", "max_cycles_exhausted"}}]
  /\ resume \in BOOLEAN /\ item \in 1 .. Items
  /\ listAt \in {"idle", "item", "running", "ended", "returned", "over"}
  /\ exitCode \in {0, 1, 139} /\ repeats \in 0 .. Tries
  /\ outages \in 0 .. MaxTransient /\ workerDeaths \in 0 .. MaxWorkerDeaths

(* RunList, as this module keeps it: an item of an earlier list is none of this   *)
(* one's, and the list is open while a worker is at it.                        *)
PhaseOf(s) ==
  CASE s.list # "this"         -> "waiting"
    [] s = Saved("completed")  -> "completed"
    [] OTHER                   -> "begun"
Outcome ==
  CASE listAt = "idle" -> "unlaunched"
    [] listAt = "over" -> IF exitCode = 0 THEN "succeeded" ELSE "failed"
    [] OTHER           -> "open"
Promise == INSTANCE RunList WITH
  phase <- [i \in 1 .. Items |-> PhaseOf(itemState[i])], outcome <- Outcome

(* Whatever is retried, restarted or launched again in between, no item is begun   *)
(* before all earlier ones are completed, none that is completed is begun anew,    *)
(* exit code 0 says that all are completed, and every launch ends                *)
(* (script.py:88-129, api.py:263-366, supervisor.py:166).                       *)
ListImplements == []ListTypeOK /\ Promise!Spec

(* docs/user/CLI_REFERENCE.md:32: with skip_on_max_cycles an exhausted item    *)
(* does not end the list.                                                     *)
ExhaustedItemSkipped ==
  listAt = "returned" => ~(item \in Skippable /\ CycleExhausted(item))
=============================================================================
