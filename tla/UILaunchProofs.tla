----------------------------- MODULE UILaunchProofs -----------------------------
(* Theorems about UILaunch, for any number of launches, requests and deaths:     *)
(* one active Runtime, none reset, and one answer for each run.                  *)
EXTENDS UILaunch, FiniteSetTheorems, TLAPS

(* What a Runner does before it writes its marker, and while the marker is there. *)
Waking == {"starting", "locked"}
Marked == {"published", "working", "ending"}
Busy == {r \in Runner : runner[r] \in Waking \cup Marked}

(* Where a request and a poll may be, and what is recorded of Runners and runs.   *)
Places == Looking \cup {"idle", "decide", "reset", "forget", "request", "launch", "popen", "update"}
StepsTyped ==
  /\ TypeOK
  /\ racing \in BOOLEAN /\ orphaned \in BOOLEAN /\ launching \in BOOLEAN
  /\ mode \in [Runner -> {"run", "resume"}]
  /\ at \in Places /\ poll \in Looking \cup {"idle"}

(* Only a Runner that got that far is named by the marker; a Runner is started    *)
(* once, and within the bound; a state that is there is of a run that was.       *)
RecordsInv ==
  /\ marker # 0 => runner[marker] \in Marked \cup {"dead"}
  /\ \A r \in Runner : runner[r] # "none" => r <= launches
  /\ state.run = 0 => state = NoState
  /\ \A r \in Runner : runner[r] = "working" => run[r] # 0
  /\ at = "popen" => launches # MaxLaunches

(* A Runner that has no marker yet has the reservation, and it counts.           *)
Held(r) == reservation.token = r /\ ~reservation.old /\ (reservation.child \/ reservation.owner)

(* One Runner at most is busy, and its files are its own.                       *)
FilesInv ==
  /\ \A r, q \in Busy : r = q
  /\ \A r \in Busy : runner[r] \in Waking => Held(r)
  /\ \A r \in Busy : runner[r] \in Marked => marker = r
  /\ \A r \in Busy : runner[r] # "starting" => lock = r

(* A look at the runtime misses no Runner that is busy, and removes no            *)
(* reservation that counts.                                                     *)
LookInv(where, v) ==
  /\ where = "reservation" => IF v.running THEN \A r \in Busy : runner[r] \notin Waking
                                           ELSE \A r \in Busy : Held(r)
  /\ where = "clear" => \A r \in Busy : runner[r] \notin Waking
  /\ where \in {"clear", "decide"} /\ ~v.running => Busy = {}

(* So nobody is busy when a request goes ahead.                                *)
ServingInv ==
  /\ poll = "idle" \/ at = "idle"
  /\ LookInv(at, seen)
  /\ at \in {"reset", "forget", "request", "launch", "popen"} => Busy = {}
  /\ at = "popen" => Held(launches + 1)

PollInv ==
  /\ poll = "reservation" /\ shown.running => \A r \in Busy : runner[r] \notin Waking
  /\ poll = "clear" => \A r \in Busy : runner[r] \notin Waking

Sole == FilesInv /\ ServingInv /\ PollInv
UIInv == StepsTyped /\ RecordsInv /\ (~racing /\ ~orphaned => Sole)

(* What each request may be when it gets that far.                             *)
RequestInv ==
  /\ at # "idle" => op \in {"message", "resume", "rerun", "stop", "reset", "clear", "clear all"}
  /\ at = "idle" => ~launching
  /\ at = "reset" => op \in {"message", "rerun", "reset", "clear all"}
  /\ at = "forget" => op \in {"clear", "clear all"}
  /\ at = "request" => op \in {"message", "rerun"}
  /\ launching \/ at \in {"launch", "popen", "update"} => op \in {"message", "rerun", "resume"}

(* A run is its Runner's until it is saved, and is answered only once it is done. *)
Unborn == {r \in Runner : runner[r] \in Waking \cup {"none", "published"}}
AnswerInv ==
  /\ uiDeaths \in Nat /\ answered \in [Runner -> Nat]
  /\ \A r \in Unborn : state.run # r /\ answered[r] = 0 /\ r \notin cleared /\ last # r /\ sync # r
  /\ \A r \in Runner : runner[r] = "working" => state.run = run[r] /\ ~state.done
  /\ state.run # 0 /\ ~state.done => answered[state.run] = 0 /\ state.run \notin cleared
  /\ state.done /\ sync = 0 /\ last # state.run =>
       answered[state.run] <= uiDeaths /\ state.run \notin cleared
  /\ \A r \in Runner : answered[r] <= 1 + uiDeaths

(* While an answer waits for its note nobody else has the chat, and no other run  *)
(* can begin.                                                                   *)
SyncInv ==
  sync # 0 => /\ ~HoldsChat /\ sync \notin cleared
              /\ \/ state.run = sync /\ state.done
                 \/ state = NoState /\ \A r \in Busy : r \in Unborn => mode[r] # "run"

ChatInv == RequestInv /\ (~racing /\ ~orphaned => AnswerInv /\ SyncInv)
--------------------------------------------------------------------------
(* Types, and what is recorded. *)
TypedInv == StepsTyped /\ RecordsInv

LEMMA Constants ==
  /\ MaxLaunches \in Nat /\ 0 \in 0 .. MaxLaunches
  /\ Runner \subseteq 1 .. MaxLaunches /\ Runner \subseteq Nat \ {0}
  /\ \A r \in Runner : r \in 0 .. MaxLaunches
  /\ \A n \in 0 .. MaxLaunches : n # 0 => n \in Runner
  /\ \A n \in 0 .. MaxLaunches : n # MaxLaunches => n + 1 \in Runner
BY UIAssumption DEF Runner

LEMMA ViewTyped ==
  ASSUME StepsTyped, NEW v \in View, NEW from \in Looking
  PROVE  /\ Looked(from, v) \in View
         /\ AfterLook(from, v) \in Looking \cup {"decide"}
<1>1. state \in [run : 0 .. MaxLaunches, done : BOOLEAN]
  BY DEF StepsTyped, TypeOK
<1>2. Alive(marker) \in BOOLEAN /\ Active(reservation) \in BOOLEAN
  BY DEF Alive, Active
<1>3. CASE from = "state"
  BY <1>1, <1>3 DEF Looked, AfterLook, View, Looking
<1>4. CASE from = "marker"
  BY <1>2, <1>4 DEF Looked, AfterLook, View, Looking, Alive
<1>5. CASE from = "reservation"
  BY <1>2, <1>5 DEF Looked, AfterLook, View, Looking
<1>6. CASE from = "clear"
  BY <1>6 DEF Looked, AfterLook, Looking
<1> QED
  BY <1>3, <1>4, <1>5, <1>6 DEF Looking

LEMMA UIStart == Init => UIInv
<1> SUFFICES ASSUME Init PROVE UIInv
  OBVIOUS
<1>1. Unseen \in View /\ NoState \in [run : 0 .. MaxLaunches, done : BOOLEAN]
  BY Constants DEF Unseen, View, NoState
<1>2. NoReservation \in [token : 0 .. MaxLaunches, owner : BOOLEAN, child : BOOLEAN, old : BOOLEAN]
  BY Constants DEF NoReservation
<1>3. StepsTyped
  BY <1>1, <1>2, Constants, UIAssumption DEF Init, StepsTyped, TypeOK, Places
<1>4. RecordsInv
  BY DEF Init, RecordsInv, NoState
<1>5. Busy = {}
  BY DEF Init, Busy, Waking, Marked
<1> QED
  BY <1>3, <1>4, <1>5 DEF Init, UIInv, Sole, FilesInv, ServingInv, PollInv, LookInv

LEMMA RunnerTyped ==
  ASSUME TypedInv, NEW r \in Runner, RunnerStep(r) \/ Dies(r)
  PROVE  TypedInv'
<1> USE DEF TypedInv, StepsTyped, TypeOK, RecordsInv, NotRunner, serving, viewing, counts, chat, Goes, Live, Marked
<1>1. CASE TakeLock(r)
  BY <1>1, Constants DEF TakeLock
<1>2. CASE Publish(r)
  BY <1>2, Constants DEF Publish, Marked
<1>3. CASE Load(r)
  <2>1. CASE Goes(r, "ending") /\ UNCHANGED <<state, run>>
    BY <1>3, <2>1 DEF Load
  <2>2. CASE /\ (mode[r] = "run") = (state = NoState)
             /\ state' = IF mode[r] = "run" THEN [run |-> r, done |-> FALSE] ELSE state
             /\ run' = [run EXCEPT ![r] = state'.run]
             /\ Goes(r, IF state'.done THEN "ending" ELSE "working")
    <3>1. state' \in [run : 0 .. MaxLaunches, done : BOOLEAN] /\ state'.run # 0
      BY <2>2, Constants
    <3>2. run' \in [Runner -> 0 .. MaxLaunches] /\ run'[r] # 0
      BY <2>2, <3>1
    <3>3. runner' \in [Runner -> Live \cup {"none", "refused", "over", "dead"}]
      BY <2>2
    <3>4. \A q \in Runner : q # r => runner'[q] = runner[q] /\ run'[q] = run[q]
      BY <2>2
    <3>5. runner'[r] \in {"ending", "working"} /\ runner[r] = "published"
      BY <1>3, <2>2 DEF Load
    <3>6. UNCHANGED <<lock, marker, stop, logs, mode, NotRunner>>
      BY <1>3 DEF Load
    <3>7. RecordsInv'
      BY <3>1, <3>2, <3>4, <3>5, <3>6, Constants
    <3> QED
      BY <3>1, <3>2, <3>3, <3>6, <3>7
  <2> QED
    BY <1>3, <2>1, <2>2 DEF Load
<1>4. CASE Work(r)
  <2>1. PICK done \in BOOLEAN : state' = [run |-> run[r], done |-> done]
    BY <1>4 DEF Work
  <2>2. runner[r] = "working" /\ runner' = [runner EXCEPT ![r] = "ending"]
    BY <1>4 DEF Work
  <2>3. state' \in [run : 0 .. MaxLaunches, done : BOOLEAN] /\ state'.run # 0
    BY <2>1, <2>2
  <2> QED
    BY <1>4, <2>2, <2>3 DEF Work
<1>5. CASE TakeStop(r)
  BY <1>5, Constants DEF TakeStop
<1>6. CASE Unpublish(r)
  BY <1>6, Constants DEF Unpublish
<1>7. CASE Release(r)
  BY <1>7, Constants DEF Release
<1>8. CASE Dies(r)
  BY <1>8, Constants DEF Dies, files, Alive
<1> QED
  BY <1>1, <1>2, <1>3, <1>4, <1>5, <1>6, <1>7, <1>8 DEF RunnerStep

LEMMA UITyped ==
  ASSUME TypedInv, PollRuntime \/ Request \/ Requests \/ Answer \/ MarkAnswered \/ Age \/ UIDies
  PROVE  TypedInv'
<1> DEFINE Reservations == [token : 0 .. MaxLaunches, owner : BOOLEAN, child : BOOLEAN, old : BOOLEAN]
           States == [run : 0 .. MaxLaunches, done : BOOLEAN]
           Phases == Live \cup {"none", "refused", "over", "dead"}
<1>1. /\ Unseen \in View /\ NoReservation \in Reservations /\ NoState \in States
      /\ NoState.run = 0
  BY Constants DEF Unseen, View, NoState, NoReservation
<1>2. ASSUME NEW from \in Looking PROVE Cleared(from) \in Reservations
  BY <1>1 DEF Cleared, TypedInv, StepsTyped, TypeOK
<1>3. state.done => state.run \in Runner
  <2>1. state.run # 0 => state.run \in Runner
    BY Constants DEF TypedInv, StepsTyped, TypeOK
  <2> QED
    BY <2>1 DEF TypedInv, RecordsInv, NoState
<1> HIDE DEF Reservations, States, Phases
<1>4. /\ reservation \in Reservations /\ state \in States /\ runner \in [Runner -> Phases]
      /\ lock \in 0 .. MaxLaunches /\ marker \in 0 .. MaxLaunches
      /\ run \in [Runner -> 0 .. MaxLaunches] /\ cleared \subseteq Runner
      /\ last \in 0 .. MaxLaunches /\ sync \in 0 .. MaxLaunches /\ launches \in 0 .. MaxLaunches
      /\ seen \in View /\ shown \in View
      /\ racing \in BOOLEAN /\ orphaned \in BOOLEAN /\ launching \in BOOLEAN
      /\ mode \in [Runner -> {"run", "resume"}]
      /\ at \in Places /\ poll \in Looking \cup {"idle"}
      /\ RecordsInv
  BY DEF Reservations, States, Phases, TypedInv, StepsTyped, TypeOK
<1>5. SUFFICES
      /\ reservation' \in Reservations /\ state' \in States /\ runner' \in [Runner -> Phases]
      /\ lock' \in 0 .. MaxLaunches /\ marker' \in 0 .. MaxLaunches
      /\ run' \in [Runner -> 0 .. MaxLaunches] /\ cleared' \subseteq Runner
      /\ last' \in 0 .. MaxLaunches /\ sync' \in 0 .. MaxLaunches /\ launches' \in 0 .. MaxLaunches
      /\ seen' \in View /\ shown' \in View
      /\ racing' \in BOOLEAN /\ orphaned' \in BOOLEAN /\ launching' \in BOOLEAN
      /\ mode' \in [Runner -> {"run", "resume"}]
      /\ at' \in Places /\ poll' \in Looking \cup {"idle"}
      /\ RecordsInv'
  BY DEF Reservations, States, Phases, TypedInv, StepsTyped, TypeOK
<1>6. ASSUME UNCHANGED <<marker, state, runners, launches>>,
             at' = "popen" => launches # MaxLaunches
      PROVE  RecordsInv'
  BY <1>4, <1>6 DEF RecordsInv, runners
<1>25. ASSUME UNCHANGED <<marker, state, runners, launches, at>> PROVE RecordsInv'
  BY <1>4, <1>25 DEF RecordsInv, runners
<1> USE DEF files, runners, chat, serving, viewing, counts, Become, Ended, Places
<1>7. CASE PollRuntime
  <2>1. poll \in Looking => /\ Cleared(poll) \in Reservations
                            /\ Looked(poll, shown) \in View
                            /\ AfterLook(poll, shown) \in Looking \cup {"decide"}
    BY <1>2, <1>4, ViewTyped DEF TypedInv
  <2> QED
    BY <1>1, <1>4, <1>25, <1>7, <2>1 DEF PollRuntime, Looking
<1>8. CASE Request
  BY <1>1, <1>4, <1>6, <1>8 DEF Request, Looking
<1>9. CASE Serve
  <2>1. /\ Cleared(at) \in Reservations
        /\ Looked(at, seen) \in View
        /\ AfterLook(at, seen) \in Looking \cup {"decide"}
    BY <1>2, <1>4, <1>9, ViewTyped DEF TypedInv, Serve
  <2> QED
    BY <1>4, <1>6, <1>9, <2>1 DEF Serve, Looking
<1>10. CASE Refuse
  BY <1>1, <1>4, <1>6, <1>10 DEF Refuse
<1>11. CASE StopRun
  BY <1>1, <1>4, <1>6, <1>11 DEF StopRun
<1>12. CASE Proceed
  <2>1. AfterReset \in {"forget", "request"}
    BY DEF AfterReset
  <2>2. last' \in 0 .. MaxLaunches
    BY <1>3, <1>4, <1>12, Constants DEF Proceed
  <2>3. launching' \in BOOLEAN /\ seen' \in View /\ at' \in Places \ {"popen"}
    BY <1>4, <1>12, <2>1 DEF Proceed
  <2> QED
    BY <1>4, <1>6, <1>12, <2>2, <2>3 DEF Proceed
<1>13. CASE ResetOne
  <2>1. state' \in States /\ lock' \in 0 .. MaxLaunches /\ marker' \in 0 .. MaxLaunches
    BY <1>1, <1>4, <1>13, Constants DEF ResetOne
  <2>2. RecordsInv'
    BY <1>1, <1>4, <1>13 DEF ResetOne, RecordsInv
  <2> QED
    BY <1>4, <1>13, <2>1, <2>2 DEF ResetOne
<1>14. CASE ResetDone
  <2>1. AfterReset \in {"forget", "request"}
    BY DEF AfterReset
  <2> QED
    BY <1>1, <1>4, <1>6, <1>14, <2>1 DEF ResetDone
<1>15. CASE Forget
  BY <1>1, <1>3, <1>4, <1>6, <1>15, Constants DEF Forget
<1>16. CASE CreateRequest
  BY <1>1, <1>4, <1>6, <1>16 DEF CreateRequest
<1>17. CASE LookAgain
  BY <1>1, <1>4, <1>6, <1>17 DEF LookAgain, Looking
<1>18. CASE Reserve
  <2>1. launches # MaxLaunches => [token |-> launches + 1, owner |-> TRUE, child |-> FALSE, old |-> FALSE] \in Reservations
    BY <1>4, Constants DEF Reservations
  <2> QED
    BY <1>1, <1>4, <1>6, <1>18, <2>1 DEF Reserve
<1>19. CASE Popen
  <2>1. CASE /\ launches' = launches + 1
             /\ runner' = [runner EXCEPT ![launches + 1] = "starting"]
             /\ Become("update")
             /\ UNCHANGED <<reservation, doomed>>
    <3>1. launches # MaxLaunches /\ launches' \in 0 .. MaxLaunches /\ launches' = launches + 1
      BY <1>4, <1>19, <2>1, Constants DEF Popen, RecordsInv
    <3>2. "starting" \in Phases
      BY DEF Phases, Live
    <3>3. runner' \in [Runner -> Phases]
      BY <1>4, <2>1, <3>2
    <3>4. UNCHANGED <<marker, state, run>> /\ mode' \in [Runner -> {"run", "resume"}]
      BY <1>4, <1>19 DEF Popen
    <3>5. \A r \in Runner : r # launches + 1 => runner'[r] = runner[r]
      BY <1>4, <2>1
    <3>6. launches + 1 \in Runner /\ runner'[launches + 1] = "starting"
      BY <1>4, <2>1, <3>1, Constants
    <3>7. marker # launches + 1
      <4>1. runner[launches + 1] = "none"
        BY <1>4, <3>6, Constants DEF RecordsInv
      <4> QED
        BY <1>4, <3>6, <4>1, Constants DEF RecordsInv, Marked
    <3>8. marker # 0 => runner'[marker] \in Marked \cup {"dead"}
      BY <1>4, <3>5, <3>7, Constants DEF RecordsInv
    <3>9. RecordsInv'
      BY <1>4, <2>1, <3>1, <3>4, <3>5, <3>6, <3>8, Constants DEF RecordsInv
    <3> QED
      BY <1>4, <1>19, <2>1, <3>1, <3>3, <3>4, <3>9 DEF Popen
  <2>2. CASE /\ reservation' = IF reservation.token \in {0, launches + 1} THEN NoReservation ELSE reservation
             /\ Ended
             /\ UNCHANGED <<launches, runner, mode>>
    BY <1>1, <1>4, <1>6, <1>19, <2>2 DEF Popen
  <2> QED
    BY <1>19, <2>1, <2>2 DEF Popen
<1>20. CASE UpdateReservation
  <2>1. [reservation EXCEPT !.child = TRUE] \in Reservations
    BY <1>4 DEF Reservations
  <2> QED
    BY <1>1, <1>4, <1>6, <1>20, <2>1 DEF UpdateReservation
<1>21. CASE Answer
  BY <1>3, <1>4, <1>25, <1>21, Constants DEF Answer
<1>22. CASE MarkAnswered
  BY <1>4, <1>25, <1>22, Constants DEF MarkAnswered
<1>23. CASE Age
  <2>1. [reservation EXCEPT !.old = TRUE] \in Reservations
    BY <1>4 DEF Reservations
  <2> QED
    BY <1>4, <1>25, <1>23, <2>1 DEF Age
<1>24. CASE UIDies
  <2>1. [reservation EXCEPT !.owner = FALSE] \in Reservations
    BY <1>4 DEF Reservations
  <2>2. orphaned' \in BOOLEAN
    BY <1>24 DEF UIDies
  <2> QED
    BY <1>1, <1>4, <1>6, <1>24, <2>1, <2>2, Constants DEF UIDies
<1> QED
  BY <1>7, <1>8, <1>9, <1>10, <1>11, <1>12, <1>13, <1>14, <1>15, <1>16, <1>17, <1>18, <1>19,
     <1>20, <1>21, <1>22, <1>23, <1>24 DEF Requests--------------------------------------------------------------------------
(* One Runner at most is busy. *)
LEMMA RunnerSole ==
  ASSUME TypedInv, Sole, NEW r \in Runner, RunnerStep(r) \/ Dies(r)
  PROVE  Sole'
<1>1. /\ UNCHANGED <<reservation, serving, viewing, counts>>
      /\ runner \in [Runner -> Live \cup {"none", "refused", "over", "dead"}]
  BY DEF RunnerStep, TakeLock, Publish, Load, Work, TakeStop, Unpublish, Release, Dies, NotRunner,
         TypedInv, StepsTyped, TypeOK
<1>2. PICK phase : Goes(r, phase)
  BY DEF RunnerStep, TakeLock, Publish, Load, Work, TakeStop, Unpublish, Release, Dies
<1>3. /\ \A q \in Runner : q # r => runner'[q] = runner[q]
      /\ runner'[r] = phase
  BY <1>1, <1>2 DEF Goes
<1>4. /\ runner[r] \in Live
      /\ runner'[r] \in Waking => runner[r] \in Waking
      /\ runner'[r] \in Marked => r \in Busy
      /\ runner[r] \notin Waking \cup Marked => runner'[r] \notin Waking \cup Marked
  BY <1>1 DEF RunnerStep, TakeLock, Publish, Load, Work, TakeStop, Unpublish, Release, Dies, Goes, Alive,
              Live, Waking, Marked, Busy
<1>5. Busy' \subseteq Busy
  BY <1>3, <1>4 DEF Busy
<1>6. \A q \in Busy' : runner'[q] \in Waking => runner[q] \in Waking
  BY <1>3, <1>4 DEF Busy
<1>7. ServingInv' /\ PollInv'
  BY <1>1, <1>5, <1>6 DEF Sole, ServingInv, PollInv, LookInv, Held, serving, viewing, counts
<1>8. FilesInv'
  <2>1. /\ \A p, q \in Busy' : p = q
        /\ \A q \in Busy' : runner'[q] \in Waking => Held(q)'
    BY <1>1, <1>5, <1>6 DEF Sole, FilesInv, Held
  <2>2. CASE r \in Busy
    <3>1. \A q \in Busy' : q = r
      BY <1>5, <2>2 DEF Sole, FilesInv
    <3>2. /\ runner[r] \in Marked => marker = r
          /\ runner[r] # "starting" => lock = r
      BY <2>2 DEF Sole, FilesInv
    <3>3. runner'[r] \in Marked => marker' = r
      BY <1>1, <3>2 DEF RunnerStep, TakeLock, Publish, Load, Work, TakeStop, Unpublish, Release, Dies, Goes,
                   Marked, Waking
    <3>4. r \in Busy' /\ runner'[r] # "starting" => lock' = r
      BY <1>1, <3>2 DEF RunnerStep, TakeLock, Publish, Load, Work, TakeStop, Unpublish, Release, Dies, Goes,
                   Marked, Waking, Busy, files
    <3> QED
      BY <2>1, <3>1, <3>3, <3>4 DEF FilesInv
  <2>3. CASE r \notin Busy
    <3>1. runner[r] = "unlocking"
      BY <1>4, <2>3 DEF Busy, Live, Waking, Marked
    <3>2. marker' = marker /\ lock' \in {lock, IF lock = r THEN 0 ELSE lock}
      BY <3>1 DEF RunnerStep, TakeLock, Publish, Load, Work, TakeStop, Unpublish, Release, Dies, files
    <3>3. \A q \in Busy' : q # r /\ q \in Busy /\ runner'[q] = runner[q]
      BY <1>3, <1>5, <2>3 DEF Busy
    <3> QED
      BY <2>1, <3>2, <3>3 DEF Sole, FilesInv
  <2> QED
    BY <2>2, <2>3
<1> QED
  BY <1>7, <1>8 DEF Sole

(* What a look at the files finds, be it of a request or of a poll. *)
LEMMA LookSound ==
  ASSUME TypedInv, FilesInv
  PROVE  /\ Alive(marker) => \A r \in Busy : runner[r] \notin Waking
         /\ ~Alive(marker) => \A r \in Busy : Held(r)
         /\ \A r \in Busy : Held(r) => Active(reservation)
<1>1. marker # 0 => marker \in Runner /\ runner[marker] \in Marked \cup {"dead"}
  BY Constants DEF TypedInv, StepsTyped, TypeOK, RecordsInv
<1>2. ASSUME Alive(marker) PROVE \A r \in Busy : runner[r] \notin Waking
  <2>1. marker \in Busy /\ runner[marker] \notin Waking
    BY <1>1, <1>2 DEF Alive, Busy, Live, Marked, Waking
  <2> QED
    BY <2>1 DEF FilesInv
<1>3. ASSUME NEW r \in Busy PROVE Alive(r) /\ r # 0
  BY Constants DEF Busy, Alive, Live, Waking, Marked
<1>4. ASSUME ~Alive(marker), NEW r \in Busy PROVE Held(r)
  BY <1>3, <1>4 DEF FilesInv, Busy
<1>5. ASSUME NEW r \in Busy, Held(r) PROVE Active(reservation)
  BY <1>3, <1>5 DEF Held, Active
<1> QED
  BY <1>2, <1>4, <1>5

LEMMA UISole ==
  ASSUME TypedInv, Sole, ~racing, ~orphaned',
         PollRuntime \/ Request \/ Requests \/ Answer \/ MarkAnswered \/ Age \/ UIDies
  PROVE  Sole'
<1>1. FilesInv /\ ServingInv /\ PollInv
  BY DEF Sole
<1>2. ASSUME UNCHANGED <<reservation, runner, marker, lock>> PROVE Busy' = Busy /\ FilesInv'
  BY <1>1, <1>2 DEF FilesInv, Busy, Held
<1>3. ASSUME Busy' = {} PROVE FilesInv'
  BY <1>3 DEF FilesInv
<1>4. ASSUME poll' = "idle" PROVE PollInv'
  BY <1>4 DEF PollInv
<1>5. ASSUME at' = "idle" PROVE ServingInv'
  BY <1>5 DEF ServingInv, LookInv
<1>6. at # "idle" => poll = "idle"
  BY <1>1 DEF ServingInv
<1>7. ASSUME FilesInv', UNCHANGED poll, at # "idle", at' = "idle" PROVE Sole'
  BY <1>4, <1>5, <1>6, <1>7 DEF Sole
<1> USE DEF files, runners, chat, serving, viewing, counts
<1>8. ASSUME reservation' = NoReservation, \A r \in Busy : runner[r] \notin Waking,
             UNCHANGED <<runner, marker, lock>>
      PROVE  Busy' = Busy /\ FilesInv'
  BY <1>1, <1>8 DEF FilesInv, Busy
<1>9. CASE PollRuntime
  <2>1. at = "idle" /\ at' = at /\ UNCHANGED <<runner, marker, lock>>
    BY <1>9 DEF PollRuntime
  <2>2. CASE poll' = "state" /\ UNCHANGED reservation
    BY <1>2, <1>5, <2>1, <2>2 DEF Sole, PollInv
  <2>3. CASE /\ poll \in Looking
             /\ reservation' = Cleared(poll)
             /\ IF AfterLook(poll, shown) = "decide"
                THEN poll' = "idle" /\ shown' = Unseen
                ELSE poll' = AfterLook(poll, shown) /\ shown' = Looked(poll, shown)
    <3>1. CASE poll = "state"
      BY <1>2, <1>5, <2>1, <2>3, <3>1 DEF Sole, PollInv, AfterLook, Cleared
    <3>2. CASE poll = "marker"
      <4>1. poll' = "reservation" /\ shown'.running = Alive(marker) /\ UNCHANGED reservation
        BY <2>3, <3>2 DEF AfterLook, Looked, Cleared, View, TypedInv, StepsTyped, TypeOK
      <4>2. Busy' = Busy /\ FilesInv'
        BY <1>2, <2>1, <4>1
      <4> QED
        BY <1>1, <1>5, <2>1, <4>1, <4>2, LookSound DEF Sole, PollInv
    <3>3. CASE poll = "reservation"
      <4>1. UNCHANGED reservation /\ poll' = IF Clears(shown) THEN "clear" ELSE "idle"
        BY <2>3, <3>3 DEF AfterLook, Cleared
      <4>2. Busy' = Busy /\ FilesInv'
        BY <1>2, <2>1, <4>1
      <4>3. Clears(shown) => \A r \in Busy : runner[r] \notin Waking
        BY <1>1, <3>3, LookSound DEF Clears, PollInv, FilesInv
      <4> QED
        BY <1>5, <2>1, <4>1, <4>2, <4>3 DEF Sole, PollInv
    <3>4. CASE poll = "clear"
      <4>1. reservation' = NoReservation /\ poll' = "idle"
        BY <2>3, <3>4 DEF AfterLook, Cleared
      <4> QED
        BY <1>1, <1>4, <1>5, <1>8, <2>1, <3>4, <4>1 DEF Sole, PollInv
    <3> QED
      BY <2>3, <3>1, <3>2, <3>3, <3>4 DEF Looking
  <2> QED
    BY <1>9, <2>2, <2>3 DEF PollRuntime
<1>10. CASE Request
  <2>1. at' = "state" /\ poll' = "idle"
    BY <1>10 DEF Request
  <2> QED
    BY <1>2, <1>4, <1>10, <2>1 DEF Request, Sole, ServingInv, LookInv
<1>11. CASE Serve
  <2>1. at \in Looking /\ poll = "idle" /\ poll' = poll /\ UNCHANGED <<runner, marker, lock, launches>>
    BY <1>6, <1>11 DEF Serve, Looking
  <2>2. at' = AfterLook(at, seen) /\ seen' = Looked(at, seen) /\ reservation' = Cleared(at)
    BY <1>11 DEF Serve
  <2>3. seen \in View
    BY DEF TypedInv, StepsTyped, TypeOK
  <2>4. SUFFICES FilesInv' /\ ServingInv'
    BY <1>4, <2>1 DEF Sole
  <2>5. CASE at = "state"
    BY <1>2, <2>1, <2>2, <2>5 DEF AfterLook, Cleared, ServingInv, LookInv
  <2>6. CASE at = "marker"
    <3>1. at' = "reservation" /\ seen'.running = Alive(marker) /\ UNCHANGED reservation
      BY <2>2, <2>3, <2>6 DEF AfterLook, Looked, Cleared, View
    <3>2. Busy' = Busy /\ FilesInv'
      BY <1>2, <2>1, <3>1
    <3>3. LookInv("reservation", seen)'
      BY <1>1, <2>1, <3>1, <3>2, LookSound DEF LookInv, Held
    <3> QED
      BY <2>1, <3>1, <3>2, <3>3 DEF ServingInv
  <2>7. CASE at = "reservation"
    <3>1. /\ at' = IF Clears(seen) THEN "clear" ELSE "decide"
          /\ seen'.running = (seen.running \/ Active(reservation))
          /\ UNCHANGED reservation
      BY <2>2, <2>3, <2>7 DEF AfterLook, Looked, Cleared, View
    <3>2. Busy' = Busy /\ FilesInv'
      BY <1>2, <2>1, <3>1
    <3>3. IF seen.running THEN \A r \in Busy : runner[r] \notin Waking ELSE \A r \in Busy : Held(r)
      BY <1>1, <2>7 DEF ServingInv, LookInv
    <3>4. ~seen.running /\ ~Active(reservation) => Busy = {}
      BY <1>1, <3>3, LookSound
    <3>5. Clears(seen) => \A r \in Busy : runner[r] \notin Waking
      BY <3>3, <3>4 DEF Clears
    <3> QED
      BY <2>1, <3>1, <3>2, <3>4, <3>5 DEF ServingInv, LookInv
  <2>8. CASE at = "clear"
    <3>1. at' = "decide" /\ seen' = seen /\ reservation' = NoReservation
      BY <2>2, <2>8 DEF AfterLook, Looked, Cleared
    <3>2. LookInv("clear", seen)
      BY <1>1, <2>8 DEF ServingInv
    <3>3. Busy' = Busy /\ FilesInv'
      BY <1>8, <2>1, <3>1, <3>2 DEF LookInv
    <3> QED
      BY <2>1, <3>1, <3>2, <3>3 DEF ServingInv, LookInv
  <2> QED
    BY <2>1, <2>5, <2>6, <2>7, <2>8 DEF Looking
<1>12. CASE Refuse
  BY <1>2, <1>7, <1>12 DEF Refuse, Deciding, Ended
<1>13. CASE StopRun
  BY <1>2, <1>7, <1>13 DEF StopRun, Deciding, Ended
<1>14. CASE Proceed
  <2>1. at = "decide" /\ ~seen.running /\ UNCHANGED <<reservation, runner, marker, lock, poll>>
    BY <1>14 DEF Proceed, Deciding, Allowed
  <2>2. Busy = {} /\ poll = "idle"
    BY <1>1, <1>6, <2>1 DEF ServingInv, LookInv
  <2>3. at' \in {"reset", "launch", "forget", "request"}
    BY <1>14 DEF Proceed, Become, AfterReset
  <2> QED
    BY <1>2, <1>4, <2>1, <2>2, <2>3 DEF Sole, ServingInv, LookInv
<1>15. CASE ResetOne
  <2>1. Busy = {} /\ poll = "idle" /\ at = "reset"
    BY <1>1, <1>15 DEF ResetOne, ServingInv
  <2>2. Busy' = {} /\ poll' = "idle" /\ at' = "reset"
    BY <1>15, <2>1 DEF ResetOne, Busy
  <2> QED
    BY <1>3, <1>4, <2>2 DEF Sole, ServingInv, LookInv
<1>16. CASE ResetDone
  <2>1. UNCHANGED <<reservation, runner, marker, lock, poll>> /\ at = "reset"
    BY <1>16 DEF ResetDone
  <2>2. CASE Ended
    BY <1>2, <1>7, <2>1, <2>2 DEF Ended
  <2>3. CASE Become(AfterReset)
    <3>1. at' \in {"forget", "request"}
      BY <2>3 DEF Become, AfterReset
    <3> QED
      BY <1>1, <1>2, <1>4, <1>6, <2>1, <3>1 DEF Sole, ServingInv, LookInv
  <2> QED
    BY <1>16, <2>2, <2>3 DEF ResetDone
<1>17. CASE Forget
  BY <1>2, <1>7, <1>17 DEF Forget, Ended
<1>18. CASE CreateRequest
  <2>1. UNCHANGED <<reservation, runner, marker, lock, poll>> /\ at = "request"
    BY <1>18 DEF CreateRequest
  <2>2. CASE Ended
    BY <1>2, <1>7, <2>1, <2>2 DEF Ended
  <2>3. CASE Become("launch")
    BY <1>1, <1>2, <1>4, <1>6, <2>1, <2>3 DEF Sole, ServingInv, LookInv, Become
  <2> QED
    BY <1>18, <2>2, <2>3 DEF CreateRequest
<1>19. CASE LookAgain
  <2>1. UNCHANGED <<reservation, runner, marker, lock, poll>> /\ at = "launch" /\ at' = "state"
    BY <1>19 DEF LookAgain
  <2> QED
    BY <1>2, <1>4, <1>6, <2>1 DEF Sole, ServingInv, LookInv
<1>20. CASE Reserve
  <2>1. at = "decide" /\ UNCHANGED <<runner, marker, lock, poll, launches>>
    BY <1>20 DEF Reserve
  <2>2. CASE Ended /\ UNCHANGED reservation
    BY <1>2, <1>7, <2>1, <2>2 DEF Ended
  <2>3. CASE /\ ~seen.running /\ Become("popen")
             /\ reservation' = [token |-> launches + 1, owner |-> TRUE, child |-> FALSE, old |-> FALSE]
    <3>1. Busy = {} /\ poll = "idle"
      BY <1>1, <1>6, <2>1, <2>3 DEF ServingInv, LookInv
    <3>2. Busy' = {} /\ poll' = "idle" /\ at' = "popen"
      BY <2>1, <2>3, <3>1 DEF Busy, Become
    <3>3. Held(launches + 1)'
      BY <2>1, <2>3 DEF Held
    <3> QED
      BY <1>3, <1>4, <3>2, <3>3 DEF Sole, ServingInv, LookInv
  <2> QED
    BY <1>20, <2>2, <2>3 DEF Reserve
<1>21. CASE Popen
  <2>1. at = "popen" /\ Busy = {} /\ Held(launches + 1) /\ UNCHANGED <<marker, lock, poll>>
    BY <1>1, <1>21 DEF Popen, ServingInv
  <2>2. runner \in [Runner -> Live \cup {"none", "refused", "over", "dead"}]
    BY DEF TypedInv, StepsTyped, TypeOK
  <2>3. CASE /\ runner' = [runner EXCEPT ![launches + 1] = "starting"]
             /\ Become("update")
             /\ UNCHANGED <<reservation, doomed>>
    <3>1. \A q \in Runner : runner'[q] \in Waking \cup Marked => q = launches + 1 /\ runner'[q] = "starting"
      BY <2>1, <2>2, <2>3 DEF Busy
    <3>2. \A q \in Busy' : q = launches + 1 /\ runner'[q] = "starting"
      BY <3>1 DEF Busy
    <3>3. Held(launches + 1) => \A q \in Busy' : Held(q)'
      BY <2>3, <3>2 DEF Held
    <3>4. FilesInv'
      BY <2>1, <3>2, <3>3 DEF FilesInv, Marked
    <3>5. at' = "update" /\ poll' = "idle"
      BY <1>6, <2>1, <2>3 DEF Become
    <3> QED
      BY <1>4, <3>4, <3>5 DEF Sole, ServingInv, LookInv
  <2>4. CASE Ended /\ UNCHANGED <<launches, runner, mode>>
    <3>1. Busy' = {}
      BY <2>1, <2>4 DEF Busy
    <3> QED
      BY <1>3, <1>7, <2>1, <2>4, <3>1 DEF Ended
  <2> QED
    BY <1>21, <2>3, <2>4 DEF Popen
<1>22. CASE UpdateReservation
  <2>1. at = "update" /\ at' = "idle" /\ UNCHANGED <<runner, marker, lock, poll>>
    BY <1>22 DEF UpdateReservation, Ended
  <2>2. reservation \in [token : 0 .. MaxLaunches, owner : BOOLEAN, child : BOOLEAN, old : BOOLEAN]
    BY DEF TypedInv, StepsTyped, TypeOK
  <2>3. Busy' = Busy /\ \A r \in Busy : Held(r) => Held(r)'
    BY <1>22, <2>1, <2>2 DEF UpdateReservation, Busy, Held
  <2>4. FilesInv'
    BY <1>1, <2>1, <2>3 DEF FilesInv
  <2> QED
    BY <1>7, <2>1, <2>4
<1>23. CASE Answer
  BY <1>1, <1>2, <1>23 DEF Answer, Sole, ServingInv, PollInv, LookInv, Held
<1>24. CASE MarkAnswered
  BY <1>1, <1>2, <1>24 DEF MarkAnswered, Sole, ServingInv, PollInv, LookInv, Held
<1>25. CASE Age
  <2>1. \A r \in Busy : runner[r] \notin Waking
    <3> SUFFICES ASSUME NEW r \in Busy, runner[r] \in Waking PROVE FALSE
      OBVIOUS
    <3>1. reservation.token = r /\ r \in Runner /\ r # 0 /\ r <= launches
      BY <1>1, Constants DEF FilesInv, Held, Busy, Waking, TypedInv, RecordsInv
    <3> QED
      BY <1>25, <3>1 DEF Age, Startup, Waking
  <2>2. UNCHANGED <<runner, marker, lock, serving, viewing, counts>> /\ at \notin {"popen", "reservation"}
    BY <1>25 DEF Age, Startup
  <2>3. Busy' = Busy
    BY <2>2 DEF Busy
  <2> QED
    BY <1>1, <2>1, <2>2, <2>3 DEF Sole, FilesInv, ServingInv, PollInv, LookInv
<1>26. CASE UIDies
  <2>1. /\ at' = "idle" /\ poll' = "idle" /\ UNCHANGED <<runner, marker, lock>>
        /\ reservation' = [reservation EXCEPT !.owner = FALSE]
    BY <1>26 DEF UIDies, Ended
  <2>2. \A r \in Busy : runner[r] \in Waking => reservation.token = r /\ reservation.child
    BY <1>26 DEF UIDies, Busy, Waking
  <2>3. reservation \in [token : 0 .. MaxLaunches, owner : BOOLEAN, child : BOOLEAN, old : BOOLEAN]
    BY DEF TypedInv, StepsTyped, TypeOK
  <2>4. Busy' = Busy /\ \A r \in Busy : runner[r] \in Waking => Held(r)'
    BY <1>1, <2>1, <2>2, <2>3 DEF Busy, Held, FilesInv
  <2>5. FilesInv'
    BY <1>1, <2>1, <2>4 DEF FilesInv
  <2> QED
    BY <1>4, <1>5, <2>1, <2>5 DEF Sole
<1> QED
  BY <1>9, <1>10, <1>11, <1>12, <1>13, <1>14, <1>15, <1>16, <1>17, <1>18, <1>19, <1>20, <1>21, <1>22,
     <1>23, <1>24, <1>25, <1>26 DEF Requests
LEMMA UIStutters == ASSUME UIInv, UNCHANGED vars PROVE UIInv'
<1>1. UNCHANGED <<racing, reservation, lock, marker, state, runner, mode, run, cleared, last, sync, at, launching, seen,
                  poll, shown, launches, orphaned>>
  BY DEF vars, files, runners, chat, serving, viewing, counts
<1>2. StepsTyped' /\ RecordsInv'
  BY <1>1 DEF UIInv, StepsTyped, TypeOK, RecordsInv
<1>3. Busy' = Busy /\ \A r \in Nat : Held(r)' = Held(r)
  BY <1>1 DEF Busy, Held
<1>4. Sole => Sole'
  BY <1>1, <1>3, Constants DEF Sole, FilesInv, ServingInv, PollInv, LookInv, Held
<1> QED
  BY <1>1, <1>2, <1>4 DEF UIInv

LEMMA ChoicesKept == ASSUME TypedInv, Next PROVE racing' = racing /\ (orphaned => orphaned')
<1>1. CASE \E r \in Runner : RunnerStep(r) \/ Dies(r)
  BY <1>1 DEF RunnerStep, TakeLock, Publish, Load, Work, TakeStop, Unpublish, Release, Dies, NotRunner, counts
<1>2. CASE PollRuntime
  BY <1>2 DEF PollRuntime, counts
<1>5. CASE Request \/ Answer \/ MarkAnswered \/ Age
  <2>1. racing' = racing /\ orphaned' = orphaned
    BY <1>5 DEF Request, Answer, MarkAnswered, Age, counts
  <2> QED
    BY <2>1
<1>4. CASE UIDies
  BY <1>4 DEF UIDies, TypedInv, StepsTyped
<1>3. CASE Requests
  BY <1>3 DEF Requests, Serve, Refuse, StopRun, Proceed, ResetOne, ResetDone, Forget, CreateRequest, LookAgain,
              Reserve, Popen, UpdateReservation, counts
<1> QED
  BY <1>1, <1>2, <1>3, <1>4, <1>5 DEF Next

LEMMA UIStep == ASSUME UIInv, [Next]_vars PROVE UIInv'
<1>1. CASE UNCHANGED vars
  BY <1>1, UIStutters
<1>2. CASE Next
  <2>1. TypedInv /\ (~racing /\ ~orphaned => Sole)
    BY DEF UIInv, TypedInv
  <2>2. racing' = racing /\ (orphaned => orphaned')
    BY <1>2, <2>1, ChoicesKept
  <2>3. CASE \E r \in Runner : RunnerStep(r) \/ Dies(r)
    <3>1. TypedInv'
      BY <2>1, <2>3, RunnerTyped
    <3>2. ~racing' /\ ~orphaned' => Sole'
      BY <2>1, <2>2, <2>3, RunnerSole
    <3> QED
      BY <3>1, <3>2 DEF UIInv, TypedInv
  <2>4. CASE PollRuntime \/ Request \/ Requests \/ Answer \/ MarkAnswered \/ Age \/ UIDies
    <3>1. TypedInv'
      BY <2>1, <2>4, UITyped
    <3>2. ~racing' /\ ~orphaned' => Sole'
      BY <2>1, <2>2, <2>4, UISole
    <3> QED
      BY <3>1, <3>2 DEF UIInv, TypedInv
  <2> QED
    BY <1>2, <2>3, <2>4 DEF Next
<1> QED
  BY <1>1, <1>2

(* The invariant the other theorems follow from: the types, that one Runner at     *)
(* most is busy and holds the reservation until its marker is there, and that a     *)
(* request that goes ahead finds nobody busy.                                    *)
THEOREM UIInvariant == Spec => []UIInv
<1>1. Init => UIInv
  BY UIStart
<1>2. UIInv /\ [Next]_vars => UIInv'
  BY UIStep
<1> QED
  BY <1>1, <1>2, PTL DEF Spec

LEMMA WorkingAreBusy == TypedInv => Working \subseteq Busy
BY DEF Working, ActivePhase, Busy, Waking, Marked

(* Unless a poll races with the requests, or the server died before it noted the   *)
(* child it started, a project has one active Runtime at most                     *)
(* (project_runtime_state.py:300-378, 1064-1106).                                 *)
THEOREM OneRuntimeUnlessRaced == Spec => []OneRuntimeUnraced
<1>1. UIInv => OneRuntimeUnraced
  <2> SUFFICES ASSUME UIInv, ~racing, ~orphaned PROVE OneRuntime
    BY DEF UIInv, StepsTyped, OneRuntimeUnraced
  <2>1. \A r, q \in Working : r = q
    BY WorkingAreBusy DEF UIInv, TypedInv, Sole, FilesInv
  <2>2. CASE Working = {}
    BY <2>2, FS_EmptySet DEF OneRuntime
  <2>3. CASE \E r \in Working : TRUE
    <3>1. PICK r \in Working : TRUE
      BY <2>3
    <3>2. Working = {r}
      BY <2>1, <3>1
    <3>3. Cardinality({r}) = 1
      BY FS_Singleton
    <3> QED
      BY <3>2, <3>3 DEF OneRuntime
  <2> QED
    BY <2>2, <2>3
<1> QED
  BY <1>1, UIInvariant, PTL

(* No request removes the files of a Runtime that is active                       *)
(* (project_runtime_state.py:1208-1236).                                          *)
THEOREM ResetSparesActive == Spec => ResetSparesRuntime
<1>1. UIInv => (~racing /\ ~orphaned /\ at = "reset" => Working = {})
  BY WorkingAreBusy DEF UIInv, TypedInv, Sole, ServingInv
<1>2. UIInv => [~racing /\ ~orphaned /\ at = "reset" /\ doomed' # doomed /\ at' = "reset" => Working = {}]_vars
  BY <1>1
<1> QED
  BY <1>2, UIInvariant, PTL DEF ResetSparesRuntime--------------------------------------------------------------------------
(* Answers. *)
LEMMA ChatStart == Init => ChatInv
<1> SUFFICES ASSUME Init PROVE ChatInv
  OBVIOUS
<1>1. RequestInv
  BY DEF Init, RequestInv
<1>2. AnswerInv
  BY UIAssumption, Constants DEF Init, AnswerInv, NoState, Unborn
<1>3. SyncInv
  BY DEF Init, SyncInv
<1> QED
  BY <1>1, <1>2, <1>3 DEF ChatInv

LEMMA RequestsKept == ASSUME RequestInv, Next PROVE RequestInv'
<1> USE DEF RequestInv, serving, Ended, Become
<1>15. ASSUME UNCHANGED serving PROVE RequestInv'
  BY <1>15
<1>1. CASE PollRuntime \/ Answer \/ MarkAnswered \/ Age
  <2>1. UNCHANGED serving
    BY <1>1 DEF PollRuntime, Answer, MarkAnswered, Age
  <2> QED
    BY <1>15, <2>1
<1>2. CASE \E r \in Runner : RunnerStep(r) \/ Dies(r)
  <2>1. UNCHANGED serving
    BY <1>2 DEF RunnerStep, TakeLock, Publish, Load, Work, TakeStop, Unpublish, Release, Dies, NotRunner
  <2> QED
    BY <1>15, <2>1
<1>3. CASE Request
  BY <1>3 DEF Request
<1>4. CASE UIDies
  BY <1>4 DEF UIDies
<1>5. CASE Serve
  <2>1. at' \in Looking \cup {"decide"} /\ at # "idle" /\ UNCHANGED <<op, launching>>
    BY <1>5 DEF Serve, AfterLook, Looking
  <2> QED
    BY <2>1 DEF Looking
<1>6. CASE Refuse \/ StopRun \/ Forget
  BY <1>6 DEF Refuse, StopRun, Forget
<1>7. CASE Proceed
  BY <1>7 DEF Proceed, NeedsReset, AfterReset, Deciding
<1>8. CASE ResetOne
  BY <1>8 DEF ResetOne
<1>9. CASE ResetDone
  <2>1. at = "reset"
    BY <1>9 DEF ResetDone
  <2>2. CASE op # "reset" /\ Become(AfterReset)
    <3>1. at' = AfterReset /\ UNCHANGED <<op, launching>>
      BY <2>2
    <3>2. op \in {"message", "rerun", "clear all"}
      BY <2>1, <2>2
    <3> QED
      BY <2>1, <3>1, <3>2 DEF AfterReset
  <2>3. CASE Ended
    BY <2>3
  <2> QED
    BY <1>9, <2>2, <2>3 DEF ResetDone
<1>10. CASE CreateRequest
  BY <1>10 DEF CreateRequest
<1>11. CASE LookAgain
  BY <1>11 DEF LookAgain
<1>12. CASE Reserve
  BY <1>12 DEF Reserve
<1>13. CASE Popen
  BY <1>13 DEF Popen
<1>14. CASE UpdateReservation
  BY <1>14 DEF UpdateReservation
<1> QED
  BY <1>1, <1>2, <1>3, <1>4, <1>5, <1>6, <1>7, <1>8, <1>9, <1>10, <1>11, <1>12, <1>13, <1>14
     DEF Next, Requests

LEMMA RunnerAnswers ==
  ASSUME TypedInv, Sole, AnswerInv, SyncInv, NEW r \in Runner, RunnerStep(r) \/ Dies(r)
  PROVE  AnswerInv' /\ SyncInv'
<1>1. UNCHANGED <<chat, serving, viewing, counts>>
  BY DEF RunnerStep, TakeLock, Publish, Load, Work, TakeStop, Unpublish, Release, Dies, NotRunner
<1>2. /\ runner \in [Runner -> Live \cup {"none", "refused", "over", "dead"}]
      /\ state \in [run : 0 .. MaxLaunches, done : BOOLEAN] /\ run \in [Runner -> 0 .. MaxLaunches]
      /\ state.run = 0 => state = NoState
      /\ runner[r] = "working" => run[r] # 0
  BY DEF TypedInv, StepsTyped, TypeOK, RecordsInv
<1>3. PICK phase : Goes(r, phase)
  BY DEF RunnerStep, TakeLock, Publish, Load, Work, TakeStop, Unpublish, Release, Dies
<1>4. \A q \in Runner : q # r => runner'[q] = runner[q]
  BY <1>2, <1>3 DEF Goes
<1>5. Unborn' \subseteq Unborn /\ Busy' \subseteq Busy
  <2>1. /\ runner'[r] \in Waking \cup {"none", "published"} => runner[r] \in Waking \cup {"none", "published"}
        /\ runner'[r] \in Waking \cup Marked => runner[r] \in Waking \cup Marked
    BY <1>2 DEF RunnerStep, TakeLock, Publish, Load, Work, TakeStop, Unpublish, Release, Dies, Goes, Waking, Marked
  <2> QED
    BY <1>4, <2>1 DEF Unborn, Busy
<1>6. CASE UNCHANGED <<state, mode>> /\ (runner'[r] = "working" => runner[r] = "working") /\ UNCHANGED run
  <2>1. AnswerInv'
    BY <1>1, <1>4, <1>5, <1>6 DEF AnswerInv, chat, counts
  <2>2. SyncInv'
    BY <1>1, <1>5, <1>6 DEF SyncInv, chat, serving, HoldsChat
  <2> QED
    BY <2>1, <2>2
<1>7. ASSUME Load(r), (mode[r] = "run") = (state = NoState)
      PROVE  AnswerInv' /\ SyncInv'
  <2>1. /\ state' = IF mode[r] = "run" THEN [run |-> r, done |-> FALSE] ELSE state
        /\ run' = [run EXCEPT ![r] = state'.run]
        /\ runner' = [runner EXCEPT ![r] = IF state'.done THEN "ending" ELSE "working"]
        /\ runner[r] = "published" /\ UNCHANGED mode
    BY <1>7 DEF Load, Goes
  <2>2. r \in Unborn /\ r \notin Unborn' /\ r \in Busy
    BY <1>2, <2>1 DEF Unborn, Waking, Busy, Marked
  <2>3. \A q \in Runner : runner[q] = "working" => q = r
    BY <2>2 DEF Sole, FilesInv, Busy, Marked
  <2>4. \A q \in Runner : runner'[q] = "working" => state'.run = run'[q] /\ ~state'.done
    BY <1>2, <1>4, <2>1, <2>3
  <2>5. CASE mode[r] = "run"
    <3>1. state = NoState /\ state'.run = r /\ ~state'.done
      BY <1>7, <2>1, <2>5
    <3>2. sync = 0
      BY <2>2, <2>5, <3>1, Constants DEF SyncInv, NoState
    <3>3. AnswerInv'
      BY <1>1, <1>5, <2>2, <2>4, <3>1 DEF AnswerInv, chat, counts
    <3> QED
      BY <1>1, <3>2, <3>3 DEF SyncInv, chat
  <2>6. CASE mode[r] # "run"
    <3>1. state' = state /\ state # NoState
      BY <1>7, <2>1, <2>6
    <3>2. AnswerInv'
      BY <1>1, <1>5, <2>4, <3>1 DEF AnswerInv, chat, counts
    <3>3. SyncInv'
      BY <1>1, <3>1 DEF SyncInv, chat, serving, HoldsChat
    <3> QED
      BY <3>2, <3>3
  <2> QED
    BY <2>5, <2>6
<1>8. CASE Work(r)
  <2>1. PICK done \in BOOLEAN : state' = [run |-> run[r], done |-> done]
    BY <1>8 DEF Work
  <2>2. runner[r] = "working" /\ runner' = [runner EXCEPT ![r] = "ending"] /\ UNCHANGED <<mode, run>>
    BY <1>8 DEF Work, Goes
  <2>3. state.run = run[r] /\ ~state.done /\ state.run # 0 /\ state'.run = state.run
    BY <1>2, <2>1, <2>2 DEF AnswerInv
  <2>4. sync = 0
    BY <2>3 DEF SyncInv, NoState
  <2>5. \A q \in Runner : runner'[q] # "working"
    <3>1. r \in Busy
      BY <2>2 DEF Busy, Marked
    <3> QED
      BY <1>2, <1>4, <2>2, <3>1 DEF Sole, FilesInv, Busy, Marked
  <2>6. answered[state.run] = 0 /\ state.run \notin cleared
    BY <2>3 DEF AnswerInv
  <2>7. AnswerInv'
    BY <1>1, <1>5, <2>3, <2>5, <2>6 DEF AnswerInv, chat, counts
  <2> QED
    BY <1>1, <2>4, <2>7 DEF SyncInv, chat
<1> QED
  BY <1>2, <1>6, <1>7, <1>8 DEF RunnerStep, TakeLock, Publish, Load, TakeStop, Unpublish, Release, Dies, Goes, files
(* What AnswersOnce says of a step. *)
Speaks == \A r \in Runner : /\ answered'[r] <= 1 + uiDeaths'
                           /\ r \in cleared => answered'[r] = answered[r]

LEMMA UIAnswers ==
  ASSUME TypedInv, Sole, RequestInv, AnswerInv, SyncInv,
         PollRuntime \/ Request \/ Requests \/ Answer \/ MarkAnswered \/ Age \/ UIDies
  PROVE  AnswerInv' /\ SyncInv' /\ Speaks
<1> DEFINE Told == <<answered, last, cleared, sync, uiDeaths>>
<1>1. /\ state \in [run : 0 .. MaxLaunches, done : BOOLEAN] /\ (state.run = 0 => state = NoState)
      /\ state.run # 0 => state.run \in Runner
      /\ answered \in [Runner -> Nat] /\ uiDeaths \in Nat
      /\ \A r \in Runner : answered[r] \in Nat
  BY Constants DEF TypedInv, StepsTyped, TypeOK, RecordsInv, AnswerInv
<1>2. ASSUME UNCHANGED <<state, runner, run, Told>> PROVE AnswerInv' /\ Speaks
  BY <1>2 DEF AnswerInv, Unborn, Speaks
<1>3. ASSUME UNCHANGED <<state, runner, mode, sync, cleared>>, sync # 0 => ~HoldsChat' PROVE SyncInv'
  BY <1>3 DEF SyncInv, Unborn, Busy
<1>4. HoldsChat => sync = 0
  BY DEF SyncInv
<1>5. at' = "idle" => ~HoldsChat'
  BY DEF HoldsChat
<1>6. at # "idle" /\ op' = op => (sync # 0 => ~HoldsChat')
  BY <1>4 DEF HoldsChat
<1>7. UNCHANGED <<at, op>> => (sync # 0 => ~HoldsChat')
  BY <1>4 DEF HoldsChat
<1>8. ASSUME UNCHANGED <<state, runners, Told>>, sync # 0 => ~HoldsChat' PROVE AnswerInv' /\ SyncInv' /\ Speaks
  BY <1>2, <1>3, <1>8 DEF runners
<1>9. state.done => state.run \in Runner /\ state.run \notin Unborn
  BY <1>1 DEF NoState, AnswerInv
<1> USE DEF files, chat, serving, viewing, counts, Ended, Become
<1>10. CASE PollRuntime \/ Age
  <2>1. UNCHANGED <<state, runners, Told, at, op>>
    BY <1>10 DEF PollRuntime, Age
  <2> QED
    BY <1>7, <1>8, <2>1
<1>11. CASE Request
  <2>1. UNCHANGED <<state, runners, Told>> /\ (sync # 0 => ~HoldsChat')
    BY <1>11 DEF Request, HoldsChat
  <2> QED
    BY <1>8, <2>1
<1>12. CASE Serve \/ Refuse \/ StopRun \/ CreateRequest \/ LookAgain \/ Reserve
  <2>1. UNCHANGED <<state, runners, Told>> /\ at # "idle" /\ (op' = op \/ at' = "idle")
    BY <1>12 DEF Serve, Refuse, StopRun, CreateRequest, LookAgain, Reserve, Looking, Deciding
  <2> QED
    BY <1>5, <1>6, <1>8, <2>1
<1>13. CASE ResetDone
  <2>1. UNCHANGED <<state, runners, Told>> /\ at = "reset" /\ (op' = op \/ at' = "idle")
    BY <1>13 DEF ResetDone
  <2> QED
    BY <1>5, <1>6, <1>8, <2>1
<1>14. CASE UpdateReservation
  <2>1. UNCHANGED <<state, runners, Told>> /\ at' = "idle"
    BY <1>14 DEF UpdateReservation
  <2> QED
    BY <1>5, <1>8, <2>1
<1>15. CASE Proceed
  <2>1. /\ UNCHANGED <<state, runners, cleared, sync, uiDeaths>> /\ at = "decide" /\ op' = op
    BY <1>15 DEF Proceed, Deciding
  <2>2. SyncInv'
    BY <1>3, <1>6, <2>1 DEF runners
  <2>3. CASE UNCHANGED <<answered, last>>
    BY <1>2, <2>1, <2>2, <2>3 DEF runners
  <2>4. CASE /\ op = "rerun" /\ state.done /\ last # state.run
             /\ answered' = [answered EXCEPT ![state.run] = @ + 1] /\ last' = state.run
    <3>1. sync = 0
      BY <1>4, <2>1, <2>4 DEF HoldsChat
    <3>2. answered[state.run] <= uiDeaths /\ state.run \notin cleared
      BY <2>4, <3>1 DEF AnswerInv
    <3>3. /\ answered' \in [Runner -> Nat]
          /\ answered'[state.run] <= 1 + uiDeaths
          /\ \A r \in Runner : r # state.run => answered'[r] = answered[r]
      BY <1>1, <1>9, <2>4, <3>2
    <3>4. Unborn' = Unborn
      BY <2>1 DEF Unborn, runners
    <3>5. AnswerInv'
      BY <1>9, <2>1, <2>4, <3>1, <3>3, <3>4 DEF AnswerInv, runners
    <3>6. Speaks
      BY <2>1, <3>2, <3>3 DEF Speaks, AnswerInv
    <3> QED
      BY <2>2, <3>5, <3>6
  <2> QED
    BY <1>15, <2>3, <2>4 DEF Proceed
<1>16. CASE ResetOne
  <2>1. /\ UNCHANGED <<runners, Told, at, op>> /\ at = "reset"
        /\ state' \in {state, NoState}
    BY <1>16 DEF ResetOne
  <2>2. Busy = {} /\ Busy' = {}
    BY <2>1 DEF Sole, ServingInv, Busy, runners
  <2>3. CASE state' = state
    BY <1>7, <1>8, <2>1, <2>3
  <2>4. CASE state' = NoState
    <3>1. state'.run = 0 /\ ~state'.done
      BY <2>4 DEF NoState
    <3>2. \A r \in Runner : runner'[r] # "working"
      BY <2>2 DEF Busy, Marked
    <3>3. 0 \notin Runner
      BY Constants
    <3>4. AnswerInv' /\ Speaks
      BY <2>1, <3>1, <3>2, <3>3 DEF AnswerInv, Unborn, runners, Speaks
    <3>5. SyncInv'
      BY <1>7, <2>1, <2>2, <2>4 DEF SyncInv
    <3> QED
      BY <3>4, <3>5
  <2> QED
    BY <2>1, <2>3, <2>4
<1>17. CASE Forget
  <2>1. /\ UNCHANGED <<state, runners, answered, sync, uiDeaths>> /\ at = "forget" /\ at' = "idle"
        /\ last' = IF state.done THEN state.run ELSE 0
        /\ cleared' = IF state.done THEN cleared \cup {state.run} ELSE cleared
    BY <1>17 DEF Forget
  <2>2. sync = 0
    BY <1>4, <2>1 DEF HoldsChat, RequestInv
  <2>3. Unborn' = Unborn /\ 0 \notin Runner
    BY <2>1, Constants DEF Unborn, runners
  <2>4. AnswerInv'
    BY <1>9, <2>1, <2>2, <2>3 DEF AnswerInv, runners, Unborn
  <2>5. Speaks
    BY <2>1 DEF Speaks, AnswerInv
  <2> QED
    BY <2>1, <2>2, <2>4, <2>5 DEF SyncInv
<1>18. CASE Popen
  <2>1. at = "popen" /\ UNCHANGED <<state, run, Told>>
    BY <1>18 DEF Popen
  <2>2. CASE Ended /\ UNCHANGED <<launches, runner, mode>>
    BY <1>5, <1>8, <2>1, <2>2 DEF runners
  <2>3. CASE /\ runner' = [runner EXCEPT ![launches + 1] = "starting"]
             /\ mode' = [mode EXCEPT ![launches + 1] = IF op = "resume" THEN "resume" ELSE "run"]
             /\ Become("update")
    <3>1. launches + 1 \in Runner /\ runner[launches + 1] = "none"
      BY <2>1, Constants DEF TypedInv, StepsTyped, TypeOK, RecordsInv
    <3>2. runner \in [Runner -> Live \cup {"none", "refused", "over", "dead"}]
      BY DEF TypedInv, StepsTyped, TypeOK
    <3>3. Unborn' \subseteq Unborn
      BY <2>3, <3>1, <3>2 DEF Unborn
    <3>4. \A r \in Runner : runner'[r] = "working" => runner[r] = "working"
      BY <2>3, <3>1, <3>2
    <3>5. AnswerInv' /\ Speaks
      BY <2>1, <3>3, <3>4 DEF AnswerInv, Speaks
    <3>6. SyncInv'
      <4> SUFFICES ASSUME sync # 0 PROVE SyncInv'
        BY <2>1 DEF SyncInv
      <4>1. op = "resume" /\ ~HoldsChat'
        BY <1>4, <2>1, <2>3 DEF RequestInv, HoldsChat
      <4>2. \A r \in Busy' : mode'[r] # "run" \/ (r \in Busy /\ mode'[r] = mode[r])
        <5>1. \A r \in Busy' : r = launches + 1 \/ (r # launches + 1 /\ r \in Busy)
          BY <2>3, <3>2 DEF Busy
        <5>2. mode \in [Runner -> {"run", "resume"}]
          BY DEF TypedInv, StepsTyped
        <5> QED
          BY <2>3, <4>1, <5>1, <5>2 DEF Busy
      <4> QED
        BY <2>1, <3>3, <4>1, <4>2 DEF SyncInv
    <3> QED
      BY <3>5, <3>6
  <2> QED
    BY <1>18, <2>2, <2>3 DEF Popen
<1>19. CASE Answer
  <2>1. /\ UNCHANGED <<state, runners, last, cleared, uiDeaths, at, op>> /\ sync = 0 /\ ~HoldsChat
        /\ state.done /\ last # state.run /\ sync' = state.run
        /\ answered' = [answered EXCEPT ![state.run] = @ + 1]
    BY <1>19 DEF Answer, ChatFree
  <2>2. answered[state.run] <= uiDeaths /\ state.run \notin cleared
    BY <2>1 DEF AnswerInv
  <2>3. /\ answered' \in [Runner -> Nat]
        /\ answered'[state.run] <= 1 + uiDeaths
        /\ \A r \in Runner : r # state.run => answered'[r] = answered[r]
    BY <1>1, <1>9, <2>1, <2>2
  <2>4. Unborn' = Unborn /\ state.run # 0
    BY <1>9, <2>1, Constants DEF Unborn, runners
  <2>5. AnswerInv'
    BY <1>9, <2>1, <2>3, <2>4 DEF AnswerInv, runners
  <2>6. SyncInv'
    BY <2>1, <2>2 DEF SyncInv, HoldsChat
  <2>7. Speaks
    BY <2>1, <2>2, <2>3 DEF Speaks, AnswerInv
  <2> QED
    BY <2>5, <2>6, <2>7
<1>20. CASE MarkAnswered
  <2>1. /\ UNCHANGED <<state, runners, answered, cleared, uiDeaths>> /\ sync # 0 /\ last' = sync /\ sync' = 0
    BY <1>20 DEF MarkAnswered
  <2>2. state.done => state.run = sync
    BY <2>1 DEF SyncInv, NoState
  <2>3. Unborn' = Unborn /\ 0 \notin Runner
    BY <2>1, Constants DEF Unborn, runners
  <2>4. AnswerInv'
    BY <2>1, <2>2, <2>3 DEF AnswerInv, runners, Unborn
  <2> QED
    BY <2>1, <2>4 DEF SyncInv, Speaks, AnswerInv
<1>21. CASE UIDies
  <2>1. /\ UNCHANGED <<state, runners, answered, last, cleared>> /\ sync' = 0 /\ uiDeaths' = uiDeaths + 1
    BY <1>21 DEF UIDies
  <2>2. state.done /\ last # state.run => state.run \notin cleared
    BY DEF AnswerInv, SyncInv, NoState
  <2>3. Unborn' = Unborn /\ 0 \notin Runner
    BY <2>1, Constants DEF Unborn, runners
  <2>4. \A r \in Runner : answered'[r] <= uiDeaths' /\ answered'[r] <= 1 + uiDeaths'
    BY <1>1, <2>1 DEF AnswerInv
  <2>5. AnswerInv'
    BY <1>1, <1>9, <2>1, <2>2, <2>3, <2>4 DEF AnswerInv, runners, Unborn
  <2> QED
    BY <2>1, <2>4, <2>5 DEF SyncInv, Speaks
<1> QED
  BY <1>10, <1>11, <1>12, <1>13, <1>14, <1>15, <1>16, <1>17, <1>18, <1>19, <1>20, <1>21 DEF Requests
LEMMA ChatStep ==
  ASSUME UIInv, ChatInv, [Next]_vars
  PROVE  ChatInv' /\ (~racing /\ ~orphaned' => Speaks)
<1>1. TypedInv /\ (~racing /\ ~orphaned => Sole)
  BY DEF UIInv, TypedInv
<1>2. CASE UNCHANGED vars
  <2>1. UNCHANGED <<racing, orphaned, state, runner, mode, run, answered, last, cleared, sync, uiDeaths, at, op,
                    launching>>
    BY <1>2 DEF vars, files, runners, chat, serving, counts
  <2>2. Busy' = Busy /\ Unborn' = Unborn /\ HoldsChat' = HoldsChat
    BY <2>1 DEF Busy, Unborn, HoldsChat
  <2>3. RequestInv' /\ (AnswerInv => AnswerInv' /\ Speaks) /\ (SyncInv => SyncInv')
    BY <2>1, <2>2 DEF ChatInv, RequestInv, AnswerInv, SyncInv, Speaks
  <2> QED
    BY <2>1, <2>3 DEF ChatInv
<1>3. CASE Next
  <2>1. RequestInv /\ RequestInv'
    BY <1>3, RequestsKept DEF ChatInv
  <2>2. racing' = racing /\ (orphaned => orphaned')
    BY <1>1, <1>3, ChoicesKept
  <2>3. ASSUME ~racing, ~orphaned' PROVE AnswerInv' /\ SyncInv' /\ Speaks
    <3>1. Sole /\ AnswerInv /\ SyncInv
      BY <1>1, <2>2, <2>3 DEF ChatInv
    <3>2. CASE \E r \in Runner : RunnerStep(r) \/ Dies(r)
      <4>1. AnswerInv' /\ SyncInv'
        BY <1>1, <3>1, <3>2, RunnerAnswers
      <4>2. UNCHANGED <<answered, uiDeaths>>
        BY <3>2 DEF RunnerStep, TakeLock, Publish, Load, Work, TakeStop, Unpublish, Release, Dies, NotRunner,
                    chat, counts
      <4> QED
        BY <3>1, <4>1, <4>2 DEF AnswerInv, Speaks
    <3>3. CASE PollRuntime \/ Request \/ Requests \/ Answer \/ MarkAnswered \/ Age \/ UIDies
      BY <1>1, <2>1, <3>1, <3>3, UIAnswers
    <3> QED
      BY <1>3, <3>2, <3>3 DEF Next
  <2> QED
    BY <2>1, <2>2, <2>3 DEF ChatInv
<1> QED
  BY <1>2, <1>3

(* A completed run is answered once, but for a server that dies before it notes    *)
(* the answer, and not at all once its chat was cleared, unless a poll races or a  *)
(* death orphaned a child (project_runtime_state.py:914-944).                      *)
THEOREM RunsAreAnsweredOnce == Spec => AnswersOnce
<1>1. Init => UIInv /\ ChatInv
  BY UIStart, ChatStart
<1>2. UIInv /\ ChatInv /\ [Next]_vars => UIInv' /\ ChatInv'
  BY UIStep, ChatStep
<1>3. UIInv /\ ChatInv /\ [Next]_vars =>
        [~racing /\ ~orphaned' => \A r \in Runner : /\ answered'[r] <= 1 + uiDeaths'
                                                   /\ r \in cleared => answered'[r] = answered[r]]_vars
  BY ChatStep DEF Speaks
<1> QED
  BY <1>1, <1>2, <1>3, PTL DEF Spec, AnswersOnce
===============================================================================
