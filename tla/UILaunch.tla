------------------------------- MODULE UILaunch -------------------------------
(***************************************************************************)
(* One project in the UI server (ui/project_runtime_state.py): the requests  *)
(* that start, stop, continue, reset and forget a run, the polls that show    *)
(* it and put its answer into the chat, the reservation that bridges the gap  *)
(* between a launch and the Runner's own marker, and the Runners themselves   *)
(* as their files show them (runner/runtime/supervisor.py).                  *)
(*                                                                         *)
(* _runtime_lock makes the requests of one server follow each other; a poll   *)
(* of the runtime takes no lock, one of the chat takes _chat_lock.           *)
(***************************************************************************)
EXTENDS Integers, FiniteSets

CONSTANTS
  Racing,       \* whether polls of the runtime race with requests: a set of Booleans
  MaxLaunches,  \* bound: Runners started
  MaxRequests,  \* bound: requests served
  MaxUIDeaths   \* bound: times the UI server dies and is started again

ASSUME UIAssumption ==
  /\ Racing \subseteq BOOLEAN /\ Racing # {}
  /\ MaxLaunches \in Nat /\ MaxRequests \in Nat /\ MaxUIDeaths \in Nat

VARIABLES
  racing,                            \* whether polls race with requests
  reservation,                       \* ui/launching.json
  lock, marker, state, stop, logs,   \* files of the Runner, outside ui/
  runner, mode, run,                 \* per Runner: phase, mode, run it works on
  users, answered, last, cleared,    \* chat: user messages, answers per run,
                                     \* last_assistant_run_id, runs that were cleared
  op, at, launching, seen, doomed,   \* the request that is served
  poll, shown,                       \* the poll of the runtime
  sync,                              \* the run whose answer the chat poll writes
  launches, requests, uiDeaths,
  orphaned                           \* whether the server died before it noted its child

files == <<lock, marker, state, stop, logs>>
runners == <<runner, mode, run>>
chat == <<users, answered, last, cleared, sync>>
serving == <<op, at, launching, seen, doomed>>
viewing == <<poll, shown>>
counts == <<launches, requests, uiDeaths, orphaned>>
vars == <<racing, reservation, files, runners, chat, serving, viewing, counts>>

Runner == 1 .. MaxLaunches
NoReservation == [token |-> 0, owner |-> FALSE, child |-> FALSE, old |-> FALSE]
NoState == [run |-> 0, done |-> FALSE]
Unseen == [state |-> NoState, running |-> FALSE, stale |-> FALSE]
Live == {"starting", "locked", "published", "working", "ending", "unlocking"}
Alive(r) == r # 0 /\ runner[r] \in Live

Init ==
  /\ racing \in Racing
  /\ reservation = NoReservation
  /\ lock = 0 /\ marker = 0 /\ state = NoState /\ stop = FALSE /\ logs = FALSE
  /\ runner = [r \in Runner |-> "none"] /\ mode = [r \in Runner |-> "run"]
  /\ run = [r \in Runner |-> 0]
  /\ users = FALSE /\ answered = [r \in Runner |-> 0] /\ last = 0 /\ cleared = {}
  /\ op = "none" /\ at = "idle" /\ launching = FALSE /\ seen = Unseen /\ doomed = {}
  /\ poll = "idle" /\ shown = Unseen /\ sync = 0
  /\ launches = 0 /\ requests = 0 /\ uiDeaths = 0 /\ orphaned = FALSE

--------------------------------------------------------------------------
(* _active_launch_reservation: the child once it is known, the server before. *)
MutantUnaged(res) == res.token # 0 /\ (IF res.child THEN Alive(res.token) /\ ~res.old
                                                   ELSE res.owner)
MutantChildOnly(res) == res.token # 0 /\ ~res.old /\ res.child /\ Alive(res.token)
Active(res) == res.token # 0 /\ ~res.old /\ (IF res.child THEN Alive(res.token) ELSE res.owner)

(* read_runtime: the state, then the marker, then the reservation, which is   *)
(* removed, whosever it is now, if a Supervisor runs or it is stale.          *)
Clears(v) == v.running \/ (reservation.token # 0 /\ ~Active(reservation))
Looking == {"state", "marker", "reservation", "clear"}
Looked(from, v) ==
  CASE from = "state" -> [v EXCEPT !.state = state]
    [] from = "marker" -> [v EXCEPT !.running = Alive(marker),
                                    !.stale = marker # 0 /\ ~Alive(marker)]
    [] from = "reservation" -> [v EXCEPT !.running = @ \/ Active(reservation)]
    [] from = "clear" -> v
AfterLook(from, v) ==
  CASE from = "state" -> "marker"
    [] from = "marker" -> "reservation"
    [] from = "reservation" -> IF Clears(v) THEN "clear" ELSE "decide"
    [] from = "clear" -> "decide"
Cleared(from) == IF from = "clear" THEN NoReservation ELSE reservation

(* A poll of the runtime; one that does not race excludes the requests. *)
PollRuntime ==
  /\ racing \/ at = "idle"
  /\ \/ /\ poll = "idle" /\ requests < MaxRequests
        /\ poll' = "state" /\ shown' = Unseen
        /\ UNCHANGED reservation
     \/ /\ poll \in Looking
        /\ reservation' = Cleared(poll)
        /\ IF AfterLook(poll, shown) = "decide"
           THEN poll' = "idle" /\ shown' = Unseen
           ELSE poll' = AfterLook(poll, shown) /\ shown' = Looked(poll, shown)
  /\ UNCHANGED <<racing, files, runners, chat, serving, counts>>

--------------------------------------------------------------------------
(* Requests.  Each looks at the runtime first, and launch does it again. *)
Request ==
  /\ at = "idle" /\ requests < MaxRequests
  /\ racing \/ poll = "idle"
  /\ requests' = requests + 1
  /\ op' \in {"message", "resume", "rerun", "stop", "reset", "clear", "clear all"}
  /\ (op' \in {"message", "rerun", "clear", "clear all"} => sync = 0)  \* _chat_lock
  /\ at' = "state" /\ launching' = FALSE /\ seen' = Unseen
  /\ UNCHANGED <<racing, reservation, files, runners, chat, doomed, viewing,
                 launches, uiDeaths, orphaned>>

Serve ==
  /\ at \in Looking
  /\ at' = AfterLook(at, seen) /\ seen' = Looked(at, seen)
  /\ reservation' = Cleared(at)
  /\ UNCHANGED <<racing, files, runners, chat, op, launching, doomed, viewing, counts>>

Completed(v) == v.state.run # 0 /\ v.state.done
Resumable(v) == v.state.run # 0 /\ ~v.state.done
Files == {f \in {"lock", "marker", "state", "stop", "logs"} :
            \/ f = "lock" /\ lock # 0
            \/ f = "marker" /\ marker # 0
            \/ f = "state" /\ state # NoState
            \/ f = "stop" /\ stop
            \/ f = "logs" /\ logs}

(* build_runtime_view: the actions that are allowed. *)
MutantAllowed ==
  CASE op = "message" -> ~Resumable(seen)
    [] op = "resume" -> ~seen.running /\ Resumable(seen)
    [] op = "rerun" -> ~seen.running /\ Completed(seen) /\ users
    [] op = "stop" -> seen.running
    [] OTHER -> TRUE
Allowed ==
  CASE op = "message" -> ~seen.running /\ ~Resumable(seen)
    [] op = "resume" -> ~seen.running /\ Resumable(seen)
    [] op = "rerun" -> ~seen.running /\ Completed(seen) /\ users
    [] op = "stop" -> seen.running
    [] op = "reset" -> ~seen.running /\ (Resumable(seen) \/ Files # {})
    [] OTHER -> ~seen.running

Deciding == at = "decide" /\ ~launching
Become(where) == at' = where /\ UNCHANGED <<op, launching, seen>>
Ended == at' = "idle" /\ op' = "none" /\ launching' = FALSE /\ seen' = Unseen /\ doomed' = {}

Refuse ==
  /\ Deciding /\ ~Allowed
  /\ Ended
  /\ UNCHANGED <<racing, reservation, files, runners, chat, viewing, counts>>

StopRun ==
  /\ Deciding /\ Allowed /\ op = "stop"
  /\ stop' = TRUE
  /\ Ended
  /\ UNCHANGED <<racing, reservation, lock, marker, state, logs, runners, chat, viewing, counts>>

NeedsReset ==
  \/ op \in {"rerun", "reset"}
  \/ op = "message" /\ (Completed(seen) \/ seen.stale)
  \/ op = "clear all" /\ Resumable(seen)
AfterReset == IF op \in {"clear", "clear all"} THEN "forget" ELSE "request"

(* rerun_last reads the messages, and so writes the answer, before it resets. *)
Proceed ==
  /\ Deciding /\ Allowed /\ op # "stop"
  /\ IF NeedsReset THEN Become("reset") /\ doomed' = Files
     ELSE /\ Become(IF op = "resume" THEN "launch" ELSE AfterReset)
          /\ UNCHANGED doomed
  /\ IF op = "rerun" /\ state.done /\ last # state.run
       THEN /\ answered' = [answered EXCEPT ![state.run] = @ + 1]
            /\ last' = state.run
       ELSE UNCHANGED <<answered, last>>
  /\ UNCHANGED <<racing, reservation, files, runners, users, cleared, sync, viewing, counts>>

(* _reset_runtime_locked: what was listed is removed, one by one.  It may fail. *)
ResetOne ==
  /\ at = "reset"
  /\ \E f \in doomed :
       /\ lock' = IF f = "lock" THEN 0 ELSE lock
       /\ marker' = IF f = "marker" THEN 0 ELSE marker
       /\ state' = IF f = "state" THEN NoState ELSE state
       /\ stop' = (stop /\ f # "stop")
       /\ logs' = (logs /\ f # "logs")
       /\ doomed' = doomed \ {f}
  /\ UNCHANGED <<racing, reservation, runners, chat, op, at, launching, seen, viewing, counts>>

ResetDone ==
  /\ at = "reset"
  /\ \/ doomed = {} /\ op # "reset" /\ Become(AfterReset) /\ UNCHANGED doomed
     \/ (doomed # {} \/ op = "reset") /\ Ended
  /\ UNCHANGED <<racing, reservation, files, runners, chat, viewing, counts>>

(* clear_chat_history: a completed run counts as answered. *)
MutantForget ==
  /\ at = "forget"
  /\ users' = FALSE
  /\ last' = 0
  /\ cleared' = IF state.done THEN cleared \cup {state.run} ELSE cleared
  /\ Ended
  /\ UNCHANGED <<racing, reservation, files, runners, answered, sync, viewing, counts>>
Forget ==
  /\ at = "forget"
  /\ users' = FALSE
  /\ last' = IF state.done THEN state.run ELSE 0
  /\ cleared' = IF state.done THEN cleared \cup {state.run} ELSE cleared
  /\ Ended
  /\ UNCHANGED <<racing, reservation, files, runners, answered, sync, viewing, counts>>

(* _create_run_request: it refuses a Workflow or validator that is not there. *)
CreateRequest ==
  /\ at = "request"
  /\ \/ Become("launch") /\ UNCHANGED doomed
     \/ Ended
  /\ UNCHANGED <<racing, reservation, files, runners, chat, viewing, counts>>

(* launch *)
LookAgain ==
  /\ at = "launch"
  /\ launching' = TRUE /\ seen' = Unseen /\ at' = "state"
  /\ UNCHANGED <<racing, reservation, files, runners, chat, op, doomed, viewing, counts>>

Reserve ==
  /\ at = "decide" /\ launching
  /\ IF seen.running \/ Active(reservation) \/ launches = MaxLaunches
     THEN Ended /\ UNCHANGED reservation
     ELSE /\ Become("popen")
          /\ reservation' = [token |-> launches + 1, owner |-> TRUE, child |-> FALSE, old |-> FALSE]
          /\ UNCHANGED doomed
  /\ UNCHANGED <<racing, files, runners, chat, viewing, counts>>

Popen ==
  /\ at = "popen"
  /\ LET r == launches + 1 IN
     \/ /\ launches' = r
        /\ runner' = [runner EXCEPT ![r] = "starting"]
        /\ mode' = [mode EXCEPT ![r] = IF op = "resume" THEN "resume" ELSE "run"]
        /\ Become("update")
        /\ UNCHANGED <<reservation, doomed>>
     \/ /\ reservation' = IF reservation.token \in {0, r} THEN NoReservation ELSE reservation
        /\ Ended
        /\ UNCHANGED <<launches, runner, mode>>
  /\ UNCHANGED <<racing, files, run, chat, viewing, requests, uiDeaths, orphaned>>

(* _update_launch_reservation: a reservation that was lost, or cannot be       *)
(* written, is left as it is.                                               *)
UpdateReservation ==
  /\ at = "update"
  /\ \/ /\ reservation.token = launches
        /\ reservation' = [reservation EXCEPT !.child = TRUE]
     \/ UNCHANGED reservation
  /\ Ended
  /\ users' = (users \/ op = "message")
  /\ UNCHANGED <<racing, files, runners, answered, last, cleared, sync, viewing, counts>>

--------------------------------------------------------------------------
(* messages: sync_completion appends the answer, then marks it as given. *)
HoldsChat == at # "idle" /\ op \in {"message", "rerun", "clear", "clear all"}
ChatFree == ~HoldsChat
Answer ==
  /\ ChatFree /\ sync = 0
  /\ state.done /\ last # state.run
  /\ sync' = state.run
  /\ answered' = [answered EXCEPT ![state.run] = @ + 1]
  /\ UNCHANGED <<racing, reservation, files, runners, users, last, cleared, serving, viewing,
                 counts>>

MarkAnswered ==
  /\ sync # 0
  /\ last' = sync /\ sync' = 0
  /\ UNCHANGED <<racing, reservation, files, runners, users, answered, cleared, serving, viewing,
                 counts>>

--------------------------------------------------------------------------
(* The Runner, as seen from the UI. *)
Goes(r, phase) == runner' = [runner EXCEPT ![r] = phase]
NotRunner == <<racing, reservation, chat, serving, viewing, counts>>

TakeLock(r) ==
  /\ runner[r] = "starting"
  /\ \/ ~Alive(lock) /\ lock' = r /\ stop' = FALSE /\ logs' = TRUE /\ Goes(r, "locked")
     \/ Alive(lock) /\ Goes(r, "refused") /\ UNCHANGED <<lock, stop, logs>>
  /\ UNCHANGED <<marker, state, mode, run, NotRunner>>

Publish(r) ==
  /\ runner[r] = "locked"
  /\ marker' = r /\ Goes(r, "published")
  /\ UNCHANGED <<lock, state, stop, logs, mode, run, NotRunner>>

(* Without --resume a state must not exist, with it one must.  A run that is    *)
(* completed is over at once: nothing of it is saved again.                    *)
Load(r) ==
  /\ runner[r] = "published"
  /\ IF (mode[r] = "run") = (state = NoState)
     THEN /\ state' = IF mode[r] = "run" THEN [run |-> r, done |-> FALSE] ELSE state
          /\ run' = [run EXCEPT ![r] = state'.run]
          /\ Goes(r, IF state'.done THEN "ending" ELSE "working")
     ELSE Goes(r, "ending") /\ UNCHANGED <<state, run>>
  /\ UNCHANGED <<lock, marker, stop, logs, mode, NotRunner>>

(* The run completes, or ends without; every save writes the whole state. *)
Work(r) ==
  /\ runner[r] = "working"
  /\ \E done \in BOOLEAN : state' = [run |-> run[r], done |-> done]
  /\ Goes(r, "ending")
  /\ UNCHANGED <<lock, marker, stop, logs, mode, run, NotRunner>>

TakeStop(r) ==
  /\ runner[r] \in {"published", "working"} /\ stop
  /\ stop' = FALSE /\ Goes(r, "ending")
  /\ UNCHANGED <<lock, marker, state, logs, mode, run, NotRunner>>

Unpublish(r) ==
  /\ runner[r] = "ending"
  /\ marker' = IF marker = r THEN 0 ELSE marker
  /\ Goes(r, "unlocking")
  /\ UNCHANGED <<lock, state, stop, logs, mode, run, NotRunner>>

Release(r) ==
  /\ runner[r] = "unlocking"
  /\ lock' = IF lock = r THEN 0 ELSE lock
  /\ Goes(r, "over")
  /\ UNCHANGED <<marker, state, stop, logs, mode, run, NotRunner>>

Dies(r) ==
  /\ Alive(r)
  /\ Goes(r, "dead")
  /\ UNCHANGED <<files, mode, run, NotRunner>>

RunnerStep(r) ==
  TakeLock(r) \/ Publish(r) \/ Load(r) \/ Work(r) \/ TakeStop(r) \/ Unpublish(r) \/ Release(r)

--------------------------------------------------------------------------
(* LAUNCH_RESERVATION_GRACE is long enough for a launch to publish its marker, *)
(* and for a request to look at the files after that.                         *)
Startup == \/ at \in {"popen", "reservation"}
           \/ reservation.token # 0 /\ reservation.token <= launches
              /\ runner[reservation.token] \in {"starting", "locked"}
Age ==
  /\ reservation.token # 0 /\ ~reservation.old /\ ~Startup
  /\ reservation' = [reservation EXCEPT !.old = TRUE]
  /\ UNCHANGED <<racing, files, runners, chat, serving, viewing, counts>>

UIDies ==
  /\ uiDeaths < MaxUIDeaths
  /\ uiDeaths' = uiDeaths + 1
  /\ orphaned' = (orphaned \/ \E r \in Runner : runner[r] \in {"starting", "locked"}
                                             /\ ~(reservation.token = r /\ reservation.child))
  /\ reservation' = [reservation EXCEPT !.owner = FALSE]
  /\ Ended /\ poll' = "idle" /\ shown' = Unseen /\ sync' = 0
  /\ UNCHANGED <<racing, files, runners, users, answered, last, cleared, launches, requests>>

Requests ==
  \/ Serve \/ Refuse \/ StopRun \/ Proceed \/ ResetOne \/ ResetDone \/ Forget \/ CreateRequest
  \/ LookAgain \/ Reserve \/ Popen \/ UpdateReservation

Next ==
  \/ PollRuntime \/ Request \/ Requests \/ Answer \/ MarkAnswered
  \/ \E r \in Runner : RunnerStep(r) \/ Dies(r)
  \/ Age \/ UIDies

(* Requests are served, time passes, Runners go on; nobody need ask or poll. *)
Spec ==
  /\ Init /\ [][Next]_vars
  /\ WF_vars(Requests) /\ WF_vars(Age) /\ WF_vars(\E r \in Runner : RunnerStep(r))

--------------------------------------------------------------------------
View == [state : [run : 0 .. MaxLaunches, done : BOOLEAN], running : BOOLEAN, stale : BOOLEAN]
TypeOK ==
  /\ reservation \in [token : 0 .. MaxLaunches, owner : BOOLEAN, child : BOOLEAN, old : BOOLEAN]
  /\ lock \in 0 .. MaxLaunches /\ marker \in 0 .. MaxLaunches
  /\ state \in [run : 0 .. MaxLaunches, done : BOOLEAN]
  /\ runner \in [Runner -> Live \cup {"none", "refused", "over", "dead"}]
  /\ run \in [Runner -> 0 .. MaxLaunches] /\ cleared \subseteq Runner
  /\ last \in 0 .. MaxLaunches /\ sync \in 0 .. MaxLaunches /\ launches \in 0 .. MaxLaunches
  /\ seen \in View /\ shown \in View

(* The project guide: "one Project has at most one active Runtime".  A Runtime *)
(* is active from its lock on.                                              *)
ActivePhase == {"locked", "published", "working"}
Working == {r \in Runner : runner[r] \in ActivePhase}
OneRuntime == Cardinality(Working) <= 1

(* Without the race of a poll the reservation, the marker and the lock keep a   *)
(* second Runtime out whatever is requested and whoever dies, but for a server  *)
(* that dies before it could note the child it started                       *)
(* (project_runtime_state.py:300-378, 1064-1106).                            *)
OneRuntimeUnraced == TypeOK /\ (~racing /\ ~orphaned => OneRuntime)

(* No request removes the files of a Runtime that is active: a state that can  *)
(* be resumed is not reset under it (project_runtime_state.py:1208-1236).     *)
ResetSparesRuntime ==
  [][~racing /\ ~orphaned /\ at = "reset" /\ doomed' # doomed /\ at' = "reset" => Working = {}]_vars

(* A completed run is answered once, unless the server dies between the answer  *)
(* and the note that it was given, and a run whose chat was cleared does not     *)
(* speak again (project_runtime_state.py:914-944); two Runtimes, after a death   *)
(* that orphans one, may save the state of a run that was answered once more.    *)
AnswersOnce ==
  [][~racing /\ ~orphaned' => \A r \in Runner : /\ answered'[r] <= 1 + uiDeaths'
                                               /\ r \in cleared => answered'[r] = answered[r]]_vars

(* A launch that never became a Runtime does not block the project for ever    *)
(* (project_runtime_state.py:300-348).                                      *)
Unblocked == []<>(Active(reservation) => Alive(reservation.token))
=============================================================================
