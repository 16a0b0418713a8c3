------------------------------ MODULE WorkflowDraft ------------------------------
(***************************************************************************)
(* The canvas of the Workflow Editor: Stages, their result edges and the flow      *)
(* (workflow-draft.ts), with Undo and Redo, dialogs and requests that act on the     *)
(* canvas they were opened on (main.tsx).                                       *)
(*                                                                         *)
(* A Stage is its type and number, which make its key, with its routes or, for a     *)
(* Handoff, its targets; its other settings, layout and selection are left out, and   *)
(* a save is one step (WorkflowEditor has what happens meanwhile, WorkflowText what     *)
(* it writes).                                                              *)
(***************************************************************************)
EXTENDS Integers, Sequences, FiniteSets, SequencesExt

CONSTANTS
  MaxUndo,       \* snapshots that Undo and Redo keep (50)
  MaxStages,     \* bound: Stages of one type
  MaxDraftEdits  \* bound: edits in a behavior

ASSUME DraftAssumption == MaxUndo \in Nat \ {0} /\ MaxStages \in Nat \ {0} /\ MaxDraftEdits \in Nat

Key == {"base", "handoff"} \X (1 .. MaxStages)
START == <<"__start__", 0>>
END == <<"__end__", 0>>
Done == <<"done", 0>>
Stop == <<"stop", 0>>
None == <<"", 0>>   \* no Stage, no route

VARIABLES
  canvas,   \* the canvas: [stages, flow]
  loaded,     \* the canvas as it was loaded or saved
  undo, redo,
  waiting,  \* at most one confirmation or answer: [does, stage, on], "on" being the canvas it saw
  edge,     \* at most one edge drawn to nowhere, for the Stage that is about to be created
  drafted,  \* edits so far
  trail, at,      \* history: the canvases as the user saw them, and which one is shown
  stale, ghost    \* history: an older canvas was acted on; an edge's source was gone

draftVars == <<canvas, loaded, undo, redo, waiting, edge, drafted, trail, at, stale, ghost>>

Result == {"pass", "fail"}
Blank == [routes |-> [r \in Result |-> None], targets |-> {}]
Stages(v) == DOMAIN v.stages
InFlow(v) == ToSet(v.flow)
(* indexOf in the flow, and filter: what stays keeps its order. *)
Nth(I, k) == CHOOSE i \in I : Cardinality({j \in I : j <= i}) = k
Spot(flow, s) == Nth({i \in DOMAIN flow : flow[i] = s}, 1)
Less(flow, s) == LET I == {i \in DOMAIN flow : flow[i] # s}
                 IN [k \in 1 .. Cardinality(I) |-> flow[Nth(I, k)]]
NextOf(flow, s) == IF Spot(flow, s) < Len(flow) THEN flow[Spot(flow, s) + 1] ELSE None
(* stageReferenceSources *)
Refers(v, s, t) == t \in {v.stages[s].routes[r] : r \in Result} \cup v.stages[s].targets
(* nextStageKey *)
FreeKey(v, type) == {k \in Key : k[1] = type /\ k \notin Stages(v)
                               /\ \A i \in 1 .. k[2] - 1 : <<type, i>> \in Stages(v)}

(* addStageToVisual and removeStageFromVisual *)
InsertAfter(flow, a, s) ==
  LET i == Spot(flow, a) IN SubSeq(flow, 1, i) \o <<s>> \o SubSeq(flow, i + 1, Len(flow))
WithStage(v, s, after) ==
  [stages |-> [t \in Stages(v) \cup {s} |-> IF t = s THEN Blank ELSE v.stages[t]],
   flow |-> IF after \in InFlow(v) THEN InsertAfter(v.flow, after, s) ELSE v.flow]
WithoutStage(v, s) ==
  [stages |-> [t \in Stages(v) \ {s} |-> v.stages[t]], flow |-> Less(v.flow, s)]

(* applyConnectionToVisual: the flow takes both ends, and an edge to what follows in   *)
(* the flow anyway needs no route.                                              *)
Connected(v, source, status, target) ==
  IF source = START THEN [v EXCEPT !.flow = <<target>> \o Less(v.flow, target)]
  ELSE
    LET with == IF source \in InFlow(v) THEN v.flow ELSE Append(v.flow, source)
        flow == IF target = END \/ target \in ToSet(with) THEN with
                ELSE IF status = "fail" THEN Append(with, target) ELSE InsertAfter(with, source, target)
        to == IF target # END THEN target ELSE IF status = "pass" THEN Done ELSE Stop
        route == IF status = "pass" /\ to = NextOf(flow, source) THEN None ELSE to
    IN [stages |-> IF source \notin Stages(v) THEN v.stages
                   ELSE IF status = "handoff" THEN [v.stages EXCEPT ![source].targets = @ \cup {target}]
                   ELSE [v.stages EXCEPT ![source].routes[status] = route],
        flow |-> flow]

(* disconnectResultEdges: a PASS edge becomes stop, others go. *)
Disconnected(v, source, status, target) ==
  IF status = "handoff" THEN [v EXCEPT !.stages[source].targets = @ \ {target}]
  ELSE [v EXCEPT !.stages[source].routes[status] = IF status = "pass" THEN Stop ELSE None]
Drawn(v) ==   \* the result edges of graphFromVisual: source, status and target
  {e \in InFlow(v) \X {"pass", "fail", "handoff"} \X (Stages(v) \cup {END}) :
     /\ e[1] \in Stages(v)
     /\ IF e[1][1] = "handoff" THEN e[2] = "handoff" /\ e[3] \in v.stages[e[1]].targets
        ELSE \/ e[2] = "pass" /\ v.stages[e[1]].routes["pass"] # Stop /\ e[3] = END
             \/ e[2] = "fail" /\ v.stages[e[1]].routes["fail"] # None /\ e[3] = END}
Statuses(s) == CASE s = START -> {"pass"} [] s[1] = "handoff" -> {"handoff"} [] OTHER -> Result

--------------------------------------------------------------------------
(* rememberUndoSnapshot does nothing when the snapshot is on top already. *)
Push(stack, v) ==
  Append(IF Len(stack) < MaxUndo THEN stack
         ELSE SubSeq(stack, Len(stack) - MaxUndo + 2, Len(stack)), v)
Remembered(v) == undo # <<>> /\ Last(undo) = v
Remember(v) ==
  IF Remembered(v) THEN UNCHANGED <<undo, redo>> ELSE undo' = Push(undo, v) /\ redo' = <<>>

Show(next) ==
  /\ canvas' = next
  /\ IF next = canvas THEN UNCHANGED <<trail, at>>
     ELSE trail' = Append(SubSeq(trail, 1, at), next) /\ at' = at + 1
DraftEdited(on, next) ==
  /\ drafted < MaxDraftEdits /\ drafted' = drafted + 1
  /\ Remember(on) /\ Show(next) /\ UNCHANGED loaded
EditDraft(next) == DraftEdited(canvas, next) /\ UNCHANGED <<waiting, stale, ghost>>

Connect ==
  /\ UNCHANGED edge
  /\ \E source \in Stages(canvas) \cup {START}, target \in Stages(canvas) \cup {END} :
       \E status \in Statuses(source) :
         /\ ~(target = END /\ (source = START \/ status = "handoff"))
         /\ EditDraft(Connected(canvas, source, status, target))

DeleteEdge ==
  /\ UNCHANGED edge
  /\ \E e \in Drawn(canvas) : EditDraft(Disconnected(canvas, e[1], e[2], e[3]))

(* An edge dropped on the canvas asks for a new Stage; until it is created, or not,     *)
(* keys still work.  A bound: one dialog or answer at a time.                      *)
DragEdge ==
  /\ edge = {} /\ waiting = {}
  /\ \E s \in Stages(canvas) \cup {START} : \E status \in Statuses(s) :
       edge' = {[source |-> s, status |-> status]}
  /\ UNCHANGED <<canvas, loaded, undo, redo, waiting, drafted, trail, at, stale, ghost>>
CreateStage ==
  /\ \E type \in {"base", "handoff"} : \E s \in FreeKey(canvas, type) :
       LET added == WithStage(canvas, s, None)
       IN \/ edge = {} /\ DraftEdited(canvas, added)
          \/ \E e \in edge : DraftEdited(canvas, Connected(added, e.source, e.status, s))
  /\ ghost' = (ghost \/ \E e \in edge : e.source \notin Stages(canvas) \cup {START})
  /\ edge' = {}
  /\ UNCHANGED <<waiting, stale>>

(* duplicateStage, and pasteStage behind the selected Stage: without connections. *)
CopyStage ==
  /\ UNCHANGED edge
  /\ \E source \in Stages(canvas), after \in Stages(canvas) \cup {None} :
       \E s \in FreeKey(canvas, source[1]) : EditDraft(WithStage(canvas, s, after))

(* deleteStage asks, applyStageYaml sends a request; both go on with the canvas they     *)
(* saw.  A Stage read from YAML comes back without its routes and targets.            *)
MutantMayGo(s) == TRUE
MayGo(s) == \A t \in Stages(canvas) \ {s} : ~Refers(canvas, t, s)
AskFor ==
  /\ waiting = {} /\ edge = {}
  /\ \E s \in Stages(canvas), does \in {"delete", "yaml"} :
       /\ does = "delete" => MayGo(s)
       /\ waiting' = {[does |-> does, stage |-> s, on |-> canvas]}
  /\ UNCHANGED <<canvas, loaded, undo, redo, edge, drafted, trail, at, stale, ghost>>
GoOn ==
  /\ \E w \in waiting :
       /\ DraftEdited(w.on, IF w.does = "delete" THEN WithoutStage(w.on, w.stage)
                       ELSE [w.on EXCEPT !.stages[w.stage] = Blank])
       /\ stale' = (stale \/ w.on # canvas)
  /\ waiting' = {}
  /\ UNCHANGED <<edge, ghost>>
GiveIn ==
  /\ waiting # {} /\ waiting' = {}
  /\ UNCHANGED <<canvas, loaded, undo, redo, edge, drafted, trail, at, stale, ghost>>

Undo ==
  /\ undo # <<>>
  /\ canvas' = Last(undo) /\ undo' = Front(undo) /\ redo' = Push(redo, canvas)
  /\ at' = IF Last(undo) = canvas THEN at ELSE at - 1
  /\ UNCHANGED <<loaded, waiting, edge, drafted, trail, stale, ghost>>
Redo ==
  /\ redo # <<>>
  /\ canvas' = Last(redo) /\ redo' = Front(redo) /\ undo' = Push(undo, canvas)
  /\ at' = IF Last(redo) = canvas THEN at ELSE at + 1
  /\ UNCHANGED <<loaded, waiting, edge, drafted, trail, stale, ghost>>

--------------------------------------------------------------------------
(* The errors of graphProblems, which a save that is sent must not have. *)
Sound(v) ==
  /\ InFlow(v) \subseteq Stages(v) /\ IsInjective(v.flow)
  /\ \A s \in Stages(v) : /\ v.stages[s].targets \subseteq Stages(v)
                          /\ \A r \in Result :
                               v.stages[s].routes[r] \in Stages(v) \cup {Done, Stop, None}
Savable(v) ==
  /\ Sound(v) /\ v.flow # <<>>
  /\ \A s \in Stages(v) : s[1] = "handoff" => v.stages[s].targets # {}

Fresh(v) ==
  /\ canvas' = v /\ loaded' = v /\ undo' = <<>> /\ redo' = <<>> /\ trail' = <<v>> /\ at' = 1
  /\ UNCHANGED <<waiting, edge, drafted, stale, ghost>>
SaveGraph == Savable(canvas) /\ Fresh(canvas)
Reload == Fresh(loaded)

Roles == [stages |-> [s \in {<<"handoff", 1>>, <<"base", 1>>} |->
                        IF s[1] = "handoff" THEN [Blank EXCEPT !.targets = {<<"base", 1>>}]
                        ELSE [Blank EXCEPT !.routes["pass"] = <<"handoff", 1>>]],
          flow |-> <<<<"handoff", 1>>, <<"base", 1>>>>]

DraftFrom(v) ==
  /\ loaded = v /\ canvas = loaded /\ trail = <<loaded>> /\ at = 1
  /\ undo = <<>> /\ redo = <<>> /\ waiting = {} /\ edge = {} /\ drafted = 0
  /\ stale = FALSE /\ ghost = FALSE
DraftInit == DraftFrom(Roles)
DraftNext ==
  \/ Connect \/ DeleteEdge \/ DragEdge \/ CreateStage \/ CopyStage \/ AskFor \/ GoOn \/ GiveIn
  \/ Undo \/ Redo \/ SaveGraph \/ Reload

--------------------------------------------------------------------------
DraftTypeOK ==
  /\ \A v \in {canvas, loaded} : Stages(v) \subseteq Key
  /\ Len(undo) <= MaxUndo /\ Len(redo) <= MaxUndo
  /\ \A w \in waiting : w.stage \in Stages(w.on)
  /\ drafted \in 0 .. MaxDraftEdits /\ {stale, ghost} \subseteq BOOLEAN

(* Where a stack leads, from its bottom to what is shown: it is what the user saw, and    *)
(* from one snapshot to the next is one step of that, or none.                         *)
Retraces(stack, step) ==
  \E p \in [1 .. Len(stack) + 1 -> DOMAIN trail] :
    /\ p[Len(stack) + 1] = at
    /\ \A i \in DOMAIN p : trail[p[i]] = Append(stack, canvas)[i]
    /\ \A i \in 1 .. Len(stack) : p[i + 1] - p[i] \in {0, step}

(* Whatever order of edits, Undo and Redo, no edge or flow entry names a Stage that is   *)
(* gone, and Undo and Redo walk along what the user saw: no edit is skipped, and none     *)
(* is undone by Redo (main.tsx:1160-1212, 1425-1455, 1490-1660).  Not so after a dialog    *)
(* or an answer went on with an older canvas, or an edge's source was undone first.       *)
CanvasSound ==
  /\ DraftTypeOK
  /\ Sound(loaded)
  /\ ghost \/ Sound(canvas)
  /\ stale \/ (Retraces(undo, 1) /\ Retraces(redo, -1))
=============================================================================
