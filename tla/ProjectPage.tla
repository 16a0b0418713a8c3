------------------------------ MODULE ProjectPage ------------------------------
(***************************************************************************)
(* The task page (app.js): it shows one project, which the user changes at any     *)
(* time, polls its runtime, reads its chat and its Workflows, and starts a run by    *)
(* a message.  Every answer may come late, in another order, or not at all.         *)
(*                                                                         *)
(* A project's clock counts what happens to it: a run begins, and it is odd, or ends,  *)
(* and it is even; the chat has a message for each.  What the server does otherwise is   *)
(* in UILaunch; Stop, Continue, Reset, Rerun and the list of projects are left out.      *)
(***************************************************************************)
EXTENDS Integers, FiniteSets

CONSTANTS
  PageProject,    \* the projects, each with Workflows of its own
  Home,       \* the one the page opens with
  MaxClock,   \* bound: changes of a project, but for the end of its last run
  MaxReads,   \* bound: reads of runtime and chat under way, the awaited ones included
  MaxSends,   \* bound: messages under way
  MaxFails,   \* bound: failing reads of a project while it is shown
  MaxSelects  \* bound: times a project is selected

ASSUME PageAssumption ==
  Home \in PageProject /\ {MaxClock, MaxReads, MaxSends, MaxFails, MaxSelects} \subseteq Nat /\ MaxReads # 0

ReadSlot == 1 .. MaxReads

VARIABLES
  clock,
  shown,     \* state.project
  runtime,     \* state.runtime: at most one clock
  chat,        \* the messages shown: [project, clock]
  files,       \* state.studioFiles: the projects whose Workflows are listed, one at most
  chosen,      \* a Workflow is selected
  reads,       \* requests under way: [slot, what, project, got]
  latest,      \* the slot of the last runtime read (runtimeRefreshToken)
  shared,      \* runtimeRefreshPromise: at most one slot
  lists,       \* reads of the Workflows: [project, latest]
  listing,     \* studioCatalogLoading
  selecting,   \* projectSwitching: the reads that selectProject still waits for
  switching,
  sends,       \* messages: [project, workflow, current, at, started, awaits]
  launching,   \* runLaunching
  lastRun,     \* lastRunId
  selects,
  newest, reported,   \* history: the latest clock shown; the start that was reported
  failed, overtaken   \* history: reads of this project that failed; an older chat came last

taskPageVars == <<clock, shown, runtime, chat, files, chosen, reads, latest, shared, lists, listing,
              selecting, switching, sends, launching, lastRun, selects, newest, reported, failed,
              overtaken>>
catalogVars == <<files, chosen, lists, listing>>
historyVars == <<newest, reported, failed, overtaken>>

PageInit ==
  /\ clock = [p \in PageProject |-> 0] /\ shown = Home /\ runtime = {0}
  /\ chat = [project |-> Home, clock |-> 0] /\ files = {Home} /\ chosen = TRUE
  /\ reads = {} /\ latest = 1 /\ shared = {} /\ lists = {} /\ listing = FALSE
  /\ selecting = {} /\ switching = FALSE /\ sends = {} /\ launching = FALSE
  /\ lastRun = <<Home, 0>> /\ selects = 0
  /\ newest = 0 /\ reported = {} /\ failed = 0 /\ overtaken = FALSE

RunsNow(t) == t % 2 = 1
Busy == {r.slot : r \in reads} \cup selecting \cup UNION {s.awaits : s \in sends}
NewRead(slot, what, p) == [slot |-> slot, what |-> what, project |-> p, got |-> {}]
FreeSlot(under) ==
  LET taken == Busy \cup {r.slot : r \in under}
  IN IF ReadSlot \subseteq taken THEN {} ELSE {CHOOSE i \in ReadSlot : i \notin taken}
UnderWay(slots) == slots \cap {r.slot : r \in reads} # {}
Joined(p) == {i \in shared : \E r \in reads : r.slot = i /\ r.project = p}

(* refreshRuntime: the slot of the read under way for p, or of a new one. *)
RefreshRuntime(p, slot, others) ==
  IF Joined(p) # {}
  THEN slot \in Joined(p) /\ reads' = others /\ UNCHANGED <<latest, shared>>
  ELSE /\ slot \in FreeSlot(others)
       /\ reads' = others \cup {NewRead(slot, "runtime", p)} /\ latest' = slot /\ shared' = {slot}

--------------------------------------------------------------------------
RunEnds ==
  /\ \E p \in PageProject : RunsNow(clock[p]) /\ clock' = [clock EXCEPT ![p] = @ + 1]
  /\ UNCHANGED <<shown, runtime, chat, catalogVars, reads, latest, shared, selecting, switching, sends,
                 launching, lastRun, selects, historyVars>>

Poll ==
  /\ \E slot \in ReadSlot : Joined(shown) = {} /\ RefreshRuntime(shown, slot, reads)
  /\ UNCHANGED <<clock, shown, runtime, chat, catalogVars, selecting, switching, sends, launching, lastRun,
                 selects, historyVars>>

ServePageRead ==
  /\ \E r \in reads : r.got = {} /\ reads' = (reads \ {r}) \cup {[r EXCEPT !.got = {clock[r.project]}]}
  /\ UNCHANGED <<clock, shown, runtime, chat, catalogVars, latest, shared, selecting, switching, sends,
                 launching, lastRun, selects, historyVars>>

(* A completed run that was not shown before has the chat read anew. *)
Counts(r) == r.slot = latest /\ r.project = shown
RuntimeAnswered ==
  /\ \E r \in reads : \E t \in r.got :
       /\ r.what = "runtime"
       /\ shared' = shared \ {r.slot}
       /\ IF Counts(r)
          THEN /\ runtime' = {t} /\ newest' = IF t > newest THEN t ELSE newest
               /\ IF ~RunsNow(t) /\ t > 0 /\ lastRun # <<shown, t>>
                  THEN /\ lastRun' = <<shown, t>>
                       /\ \E i \in FreeSlot({}) : reads' = (reads \ {r}) \cup {NewRead(i, "chat", shown)}
                  ELSE reads' = reads \ {r} /\ UNCHANGED lastRun
          ELSE reads' = reads \ {r} /\ UNCHANGED <<runtime, newest, lastRun>>
  /\ UNCHANGED <<clock, shown, chat, catalogVars, latest, selecting, switching, sends, launching, selects,
                 reported, failed, overtaken>>
MessagesAnswered ==
  /\ \E r \in reads : \E t \in r.got :
       /\ r.what = "chat" /\ reads' = reads \ {r}
       /\ IF r.project = shown
          THEN /\ chat' = [project |-> shown, clock |-> t]
               /\ overtaken' = (overtaken \/ (chat.project = shown /\ t < chat.clock))
          ELSE UNCHANGED <<chat, overtaken>>
  /\ UNCHANGED <<clock, shown, runtime, catalogVars, latest, shared, selecting, switching, sends, launching,
                 lastRun, selects, newest, reported, failed>>

(* A read of the chat that fails ends what waits for it; one of the runtime does not.   *)
ReadFails ==
  /\ \E r \in reads :
       /\ reads' = reads \ {r} /\ shared' = shared \ {r.slot}
       /\ failed < MaxFails /\ failed' = IF r.project = shown THEN failed + 1 ELSE failed
       /\ LET given(s) == r.what = "chat" /\ r.slot \in s.awaits
          IN /\ sends' = {s \in sends : ~given(s)}
             /\ launching' = (launching /\ ~\E s \in sends : given(s) /\ s.current)
       /\ IF r.what = "chat" /\ r.slot \in selecting
          THEN selecting' = {} /\ switching' = FALSE ELSE UNCHANGED <<selecting, switching>>
  /\ UNCHANGED <<clock, shown, runtime, chat, catalogVars, latest, lastRun, selects, newest, reported,
                 overtaken>>

--------------------------------------------------------------------------
(* selectProject: a start under way for another project is no longer waited for, and     *)
(* an answer that is under way does nothing any more.                              *)
Answering(s) == s.at \in {"accepted", "refused"}
SelectProject ==
  /\ ~switching /\ selects < MaxSelects /\ selects' = selects + 1
  /\ \E p \in PageProject, slot \in ReadSlot, other \in FreeSlot({}) :
       /\ RefreshRuntime(p, slot, reads \cup {NewRead(other, "chat", p)})
       /\ selecting' = {slot, other}
       /\ shown' = p
       /\ IF p # shown
          THEN /\ files' = {} /\ launching' = FALSE
               /\ sends' = {[s EXCEPT !.current = FALSE] : s \in {m \in sends : ~Answering(m)}}
          ELSE UNCHANGED <<files, launching, sends>>
  /\ switching' = TRUE /\ runtime' = {} /\ chosen' = FALSE
  /\ newest' = 0 /\ reported' = {} /\ failed' = 0 /\ overtaken' = FALSE
  /\ UNCHANGED <<clock, chat, lists, listing, lastRun>>

(* refreshStudioFiles.  renderWorkflowPicker selects a Workflow of the list there is.    *)
Picked == files # {}
RefreshStudioFiles ==
  \/ \E l \in lists : l.latest /\ l.project = shown /\ UNCHANGED <<lists, listing>>
  \/ /\ ~\E l \in lists : l.latest /\ l.project = shown
     /\ lists' = {[l EXCEPT !.latest = FALSE] : l \in lists} \cup {[project |-> shown, latest |-> TRUE]}
     /\ listing' = TRUE
Selected ==
  /\ switching /\ ~UnderWay(selecting) /\ selecting' = {} /\ switching' = FALSE
  /\ RefreshStudioFiles /\ chosen' = IF lists' = lists THEN chosen ELSE Picked
  /\ UNCHANGED <<clock, shown, runtime, chat, files, reads, latest, shared, sends, launching,
                 lastRun, selects, historyVars>>
(* A list that was read less than 8 seconds ago is not read again. *)
SwitchView ==
  /\ chosen' = Picked /\ (RefreshStudioFiles \/ (files = {shown} /\ UNCHANGED <<lists, listing>>))
  /\ UNCHANGED <<clock, shown, runtime, chat, files, reads, latest, shared, selecting, switching,
                 sends, launching, lastRun, selects, historyVars>>

MutantListed(l) == TRUE
Listed(l) == l.project = shown
FilesAnswered ==
  /\ \E l \in lists, fails \in BOOLEAN :
       /\ lists' = lists \ {l}
       /\ files' = IF Listed(l) /\ ~fails THEN {l.project} ELSE files
       /\ chosen' = IF l.latest \/ (Listed(l) /\ ~fails) THEN Picked' ELSE chosen
       /\ listing' = IF l.latest THEN FALSE ELSE listing
  /\ UNCHANGED <<clock, shown, runtime, chat, reads, latest, shared, selecting, switching, sends, launching,
                 lastRun, selects, historyVars>>

--------------------------------------------------------------------------
(* runConfigurationLocked *)
RunConfigurationLocked == launching \/ listing \/ \E t \in runtime : RunsNow(t)
SendMessage ==
  /\ ~RunConfigurationLocked
  /\ LET send == [project |-> shown, workflow |-> IF chosen THEN files ELSE {}, current |-> TRUE,
                  at |-> "sent", started |-> 0, awaits |-> {}]
     IN send \notin sends /\ Cardinality(sends) < MaxSends /\ sends' = sends \cup {send}
  /\ launching' = TRUE
  /\ UNCHANGED <<clock, shown, runtime, chat, catalogVars, reads, latest, shared, selecting, switching,
                 lastRun, selects, historyVars>>

To(s, changed) == sends' = (sends \ {s}) \cup {changed}
SendDone(s) == sends' = sends \ {s} /\ launching' = (launching /\ ~s.current)

(* launch_message refuses a message without a Workflow of the project, and a second run; *)
(* the page ignores an answer that it does not wait for any more.                      *)
Answer(s, answered) == IF s.current THEN To(s, answered) ELSE sends' = sends \ {s}
ServeSend ==
  /\ \E s \in sends :
       /\ s.at = "sent"
       /\ IF s.workflow = {s.project} /\ ~RunsNow(clock[s.project])
          THEN /\ clock[s.project] < MaxClock /\ clock' = [clock EXCEPT ![s.project] = @ + 1]
               /\ Answer(s, [s EXCEPT !.at = "accepted", !.started = clock'[s.project]])
          ELSE UNCHANGED clock /\ Answer(s, [s EXCEPT !.at = "refused"])
  /\ UNCHANGED <<shown, runtime, chat, catalogVars, reads, latest, shared, selecting, switching, launching,
                 lastRun, selects, historyVars>>
SendAnswered ==
  /\ \E s \in sends :
       \/ s.at = "refused" /\ SendDone(s) /\ UNCHANGED reads
       \/ /\ s.at = "accepted"
          /\ \E i \in FreeSlot({}) :
               /\ reads' = reads \cup {NewRead(i, "chat", shown)}
               /\ To(s, [s EXCEPT !.at = "chat", !.awaits = {i}])
          /\ UNCHANGED launching
  /\ UNCHANGED <<clock, shown, runtime, chat, catalogVars, latest, shared, selecting, switching, lastRun,
                 selects, historyVars>>
(* No answer comes; the server may have accepted the message, or still do so.        *)
AnswerLost ==
  /\ \E s \in sends :
       /\ s.at \in {"sent", "accepted"} /\ s.current
       /\ IF s.at = "sent" THEN To(s, [s EXCEPT !.current = FALSE]) ELSE sends' = sends \ {s}
  /\ launching' = FALSE
  /\ UNCHANGED <<clock, shown, runtime, chat, catalogVars, reads, latest, shared, selecting, switching,
                 lastRun, selects, historyVars>>
(* A read that was asked for before the start is waited for, not joined. *)
GoesFor(s) == IF s.at = "chat" /\ shared # {} THEN "poll" ELSE "read"
SendGoesOn ==
  /\ \E s \in sends :
       /\ s.at \in {"chat", "poll"} /\ ~UnderWay(s.awaits)
       /\ IF GoesFor(s) = "poll"
          THEN /\ To(s, [s EXCEPT !.at = "poll", !.awaits = shared])
               /\ UNCHANGED <<reads, latest, shared>>
          ELSE \E slot \in ReadSlot : /\ RefreshRuntime(shown, slot, reads)
                                  /\ To(s, [s EXCEPT !.at = "read", !.awaits = {slot}])
  /\ UNCHANGED <<clock, shown, runtime, chat, catalogVars, selecting, switching, launching, lastRun, selects,
                 historyVars>>
SendReported ==
  /\ \E s \in sends :
       /\ s.at = "read" /\ ~UnderWay(s.awaits) /\ SendDone(s)
       /\ reported' = IF s.current /\ s.project = shown THEN {s.started} ELSE reported
  /\ UNCHANGED <<clock, shown, runtime, chat, catalogVars, reads, latest, shared, selecting, switching,
                 lastRun, selects, newest, failed, overtaken>>

PageNext ==
  \/ RunEnds \/ Poll \/ ServePageRead \/ RuntimeAnswered \/ MessagesAnswered \/ ReadFails
  \/ SelectProject \/ Selected \/ SwitchView \/ FilesAnswered
  \/ SendMessage \/ ServeSend \/ SendAnswered \/ AnswerLost \/ SendGoesOn \/ SendReported

PageSpec == PageInit /\ [][PageNext]_taskPageVars

--------------------------------------------------------------------------
PageTypeOK ==
  /\ clock \in [PageProject -> 0 .. MaxClock + 1] /\ shown \in PageProject /\ runtime \subseteq 0 .. MaxClock + 1
  /\ Cardinality(runtime) <= 1 /\ files \subseteq PageProject /\ Cardinality(files) <= 1
  /\ shared \subseteq ReadSlot /\ Cardinality(shared) <= 1 /\ latest \in ReadSlot
  /\ failed \in 0 .. MaxFails
  /\ \A r, q \in reads : r.slot = q.slot => r = q
  /\ {chosen, listing, switching, launching, overtaken} \subseteq BOOLEAN

(* Whatever order answers come in and whatever project is selected meanwhile: the         *)
(* runtime shown never goes back in time, what is shown after a start was reported is not older than it, a message      *)
(* carries a Workflow of the project it goes to or none, a lock is held only while a         *)
(* request that opens it is under way, and a completed run's answer is in the chat           *)
(* (app.js:430-480, 603-620, 781-873).  The last two parts hold for reads that do not fail,   *)
(* the last as long as no older chat came last.                                  *)
PageSound ==
  /\ PageTypeOK
  /\ runtime \subseteq {newest}
  /\ failed > 0 \/ \A t \in reported, u \in runtime : u >= t
  /\ \A s \in sends : s.workflow \subseteq {s.project}
  /\ launching => \E s \in sends : s.current
  /\ listing => \E l \in lists : l.latest
  /\ (\A t \in runtime : lastRun = <<shown, t>> /\ ~\E r \in reads : r.what = "chat")
       => runtime = {} \/ failed > 0 \/ overtaken \/ \E t \in runtime : chat.project = shown /\ chat.clock >= t
=============================================================================
