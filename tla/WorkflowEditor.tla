------------------------------ MODULE WorkflowEditor ------------------------------
(***************************************************************************)
(* A session of the Workflow Editor (main.tsx): a canvas and a text, which are two     *)
(* views of one Workflow file, the requests that read and save them while the user      *)
(* goes on editing, the draft that survives the page, and another editor of the file.    *)
(*                                                                         *)
(* A content is the set of the edits in it; a hash is the content it is the hash of.       *)
(* What an edit does to a canvas is in WorkflowDraft and to a text in WorkflowText; Undo,   *)
(* refused YAML and failing requests are left out.                                   *)
(***************************************************************************)
EXTENDS Integers, FiniteSets

CONSTANTS
  MaxMine,     \* bound: edits of this user
  MaxTheirs,   \* bound: edits of another editor
  MaxRequests, \* bound: requests under way
  MaxReloads   \* bound: times the page is opened or read anew

ASSUME EditorAssumption == {MaxMine, MaxTheirs, MaxReloads} \subseteq Nat /\ MaxRequests \in Nat \ {0}

Mine == 1 .. MaxMine
Theirs == {-i : i \in 1 .. MaxTheirs}
Content == SUBSET (Mine \cup Theirs)
View == {"designer", "yaml"}
Draft == [hash : Content, visual : Content, yamlText : Content, base : Content, view : View]

VARIABLES
  disk,      \* the Workflow file
  up,        \* the page shows a Workflow
  view,
  visual, hash, dirtyGraph,    \* the canvas, the hash it came with, whether it was edited
  yamlText, yamlOriginal,      \* yamlContent, yamlOriginal
  stored,    \* localStorage: at most one draft
  recovery,  \* recoveryDraft: at most one
  pending,   \* requests: [op, sent, hash, base, got, served, heard, next], next being the view to go on to or "stay"
  mine, others,   \* edits so far
  reloads,
  base,      \* history: the content that the text was made from
  given,     \* history: edits that the user was not promised to keep
  mixed      \* history: edits overwritten with a hash that is not of what the text was made from

pageVars == <<up, view, visual, hash, dirtyGraph, yamlText, yamlOriginal>>
editorVars == <<disk, pageVars, stored, recovery, pending, mine, others, reloads, base,
                given, mixed>>

busy == \E p \in pending : p.heard /\ p.op \in {"graph", "yaml", "reread"}
yamlDirty == yamlText # yamlOriginal
editorDirty == dirtyGraph \/ yamlDirty
In(drafts) == UNION {d.visual \cup d.yamlText : d \in drafts}

Request(op, sent, next) ==
  [op |-> op, sent |-> sent, hash |-> hash, base |-> base, got |-> {}, served |-> FALSE,
   heard |-> TRUE, next |-> next]
(* A request may wait for its turn; the same one is not sent twice. *)
Send(p) == p \notin pending /\ Cardinality(pending) < MaxRequests /\ pending' = pending \cup {p}
GoesOn(p, q) == pending' = (pending \ {p}) \cup {q}

(* The effect that stores a draft runs after every change while something is unsaved. *)
Now == [hash |-> hash', visual |-> visual', yamlText |-> yamlText', base |-> base', view |-> view']
MutantKeep(stays) == stored' = IF dirtyGraph' THEN {Now} ELSE stays
Keep(stays) == stored' = IF dirtyGraph' \/ yamlText' # yamlOriginal' THEN {Now} ELSE stays

--------------------------------------------------------------------------
(* An edit: not promised when an answer under way may replace what it was made on.  It     *)
(* takes the place of a draft that is still offered for recovery.                       *)
EditMade ==
  /\ up /\ mine < MaxMine /\ mine' = mine + 1
  /\ UNCHANGED <<disk, up, view, hash, yamlOriginal, recovery, pending, others, reloads,
                 base, mixed>>
  /\ Keep(stored)
  /\ given' = given \cup {e \in {mine'} : \E p \in pending : p.heard} \cup (In(recovery) \ In(stored'))
EditGraph ==
  /\ view = "designer" /\ visual' = visual \cup {mine + 1} /\ dirtyGraph' = TRUE /\ UNCHANGED yamlText
  /\ EditMade
EditYaml ==
  /\ view = "yaml" /\ yamlText' = yamlText \cup {mine + 1} /\ UNCHANGED <<visual,
                                                                          dirtyGraph>>
  /\ EditMade

OtherSaves ==
  /\ others < MaxTheirs /\ others' = others + 1 /\ disk' = disk \cup {-others'}
  /\ UNCHANGED <<pageVars, stored, recovery, pending, mine, reloads, base, given, mixed>>

(* saveCurrent: saveYaml has nothing to do for a text that was not edited. *)
Saving(next) ==
  IF view = "designer" THEN Send(Request("graph", visual, next))
  ELSE yamlDirty /\ Send(Request("yaml", yamlText, next))
PageUnmoved ==
  UNCHANGED <<disk, pageVars, stored, recovery, mine, others, reloads, base, given, mixed>>
Save == up /\ ~busy /\ editorDirty /\ Saving("stay") /\ PageUnmoved

(* switchEditorView saves what is unsaved in this view, then reads the other.  *)
Reading(next) == Request(IF next = "designer" THEN "visual" ELSE "file", {}, next)
SwitchEditorView ==
  /\ up /\ ~busy
  /\ \E next \in View \ {view} :
       IF (IF view = "yaml" THEN yamlDirty ELSE dirtyGraph) THEN Saving(next) ELSE Send(Reading(next))
  /\ PageUnmoved

--------------------------------------------------------------------------
(* The server: a save checks the hash; a load reads the canvas and the file apart, in     *)
(* either order.                                                             *)
ServeSave ==
  /\ \E p \in pending :
       /\ p.op \in {"graph", "yaml"} /\ ~p.served
       /\ disk' = IF p.hash = disk THEN p.sent ELSE disk
       /\ IF p.heard
          THEN GoesOn(p, [p EXCEPT !.served = TRUE,
                                   !.got = IF p.hash = disk THEN {<<"visual", p.sent>>} ELSE {}])
          ELSE pending' = pending \ {p}
       /\ mixed' = IF p.base = p.hash THEN mixed ELSE mixed \cup (disk \ disk')
  /\ UNCHANGED <<pageVars, stored, recovery, mine, others, reloads, base, given>>
Reads(p) == CASE p.op = "load" -> {"visual", "file"} [] p.op = "file" -> {"file"}
              [] OTHER -> {"visual"}
ServeRead ==
  /\ \E p \in pending, what \in {"visual", "file"} :
       /\ p.op \in {"load", "reread", "visual", "file"} /\ what \in Reads(p)
       /\ \A g \in p.got : g[1] # what
       /\ GoesOn(p, [p EXCEPT !.got = @ \cup {<<what, disk>>}])
  /\ PageUnmoved
Got(p, what) == CHOOSE c \in Content : <<what, c>> \in p.got
Answered(p) == p.heard /\ {g[1] : g \in p.got} = Reads(p)

--------------------------------------------------------------------------
(* persistGraph and saveGraph, of an answer that is not an error. *)
GraphSaved ==
  /\ \E p \in pending :
       /\ p.op = "graph" /\ Answered(p)
       /\ LET c == Got(p, "visual")
          IN visual' = c /\ hash' = c /\ yamlText' = c /\ yamlOriginal' = c /\ base' = c
       /\ IF p.next = "stay" THEN pending' = pending \ {p} ELSE GoesOn(p, Reading(p.next))
  /\ dirtyGraph' = FALSE /\ stored' = {} /\ recovery' = {}
  /\ given' = given \cup In(recovery)
  /\ UNCHANGED <<disk, up, view, mine, others, reloads, mixed>>

(* saveYaml reads the canvas anew, then takes the text that it saved. *)
YamlSaved ==
  /\ \E p \in pending : p.op = "yaml" /\ Answered(p)
                        /\ GoesOn(p, [Request("reread", p.sent, p.next) EXCEPT !.base = p.sent])
  /\ PageUnmoved
YamlRead ==
  /\ \E p \in pending :
       /\ p.op = "reread" /\ Answered(p)
       /\ visual' = Got(p, "visual") /\ hash' = Got(p, "visual")
       /\ yamlText' = p.sent /\ yamlOriginal' = p.sent /\ base' = p.sent
       /\ IF p.next = "stay" THEN pending' = pending \ {p} ELSE GoesOn(p, Reading(p.next))
  /\ dirtyGraph' = FALSE /\ stored' = {} /\ recovery' = {}
  /\ given' = given \cup In(recovery)
  /\ UNCHANGED <<disk, up, view, mine, others, reloads, mixed>>

Refused ==
  /\ \E p \in pending : p.op \in {"graph", "yaml"} /\ p.served /\ p.got = {} /\ pending' = pending \ {p}
  /\ PageUnmoved

Switched ==
  /\ \E p \in pending :
       /\ p.op \in {"visual", "file"} /\ Answered(p) /\ view' = p.next /\ pending' = pending \ {p}
       /\ IF p.op = "visual"
          THEN /\ visual' = Got(p, "visual") /\ hash' = Got(p, "visual")
               /\ UNCHANGED <<yamlText, yamlOriginal, base>>
          ELSE /\ yamlText' = Got(p, "file") /\ yamlOriginal' = Got(p, "file") /\ base' = Got(p, "file")
               /\ UNCHANGED <<visual, hash>>
  /\ UNCHANGED <<disk, up, dirtyGraph, recovery, mine, others, reloads, given, mixed>>
  /\ Keep(stored)

--------------------------------------------------------------------------
(* load *)
Load(p) == reloads < MaxReloads /\ reloads' = reloads + 1 /\ Send(p)
OpenPage ==
  /\ ~up /\ ~\E p \in pending : p.heard
  /\ Load(Request("load", {}, "stay"))
  /\ UNCHANGED <<disk, pageVars, stored, recovery, mine, others, base, given, mixed>>

(* A draft of another content is dropped; one that changes nothing is not offered. *)
Loaded(v, f) ==
  /\ recovery' = {d \in stored : d.hash = v /\ (d.visual # v \/ d.yamlText # f)}
  /\ stored' = {d \in stored : d.hash = v}
LoadAnswered ==
  /\ \E p \in pending :
       /\ p.op = "load" /\ Answered(p) /\ pending' = pending \ {p}
       /\ LET v == Got(p, "visual")  f == Got(p, "file")
          IN /\ Loaded(v, f)
             /\ given' = given \cup In({d \in stored : d.hash # v}) \cup In(recovery)
             /\ visual' = v /\ hash' = v /\ yamlText' = f /\ yamlOriginal' = f /\ base' = f
  /\ up' = TRUE /\ view' = "designer" /\ dirtyGraph' = FALSE
  /\ UNCHANGED <<disk, mine, others, reloads, mixed>>

(* reloadStudio asks when something is unsaved, and clears the draft in any case. *)
ReloadStudio ==
  /\ up /\ ~busy
  /\ Load(Request("load", {}, "stay"))
  /\ stored' = {} /\ recovery' = {}
  /\ given' = given \cup In(stored \cup recovery) \cup (IF editorDirty THEN visual \cup yamlText ELSE {})
  /\ UNCHANGED <<disk, pageVars, mine, others, base, mixed>>

(* The page is gone; the server may still carry out what was sent. *)
Gone(drafts) ==
  /\ up' = FALSE /\ view' = "designer" /\ dirtyGraph' = FALSE /\ recovery' = {}
  /\ visual' = {} /\ hash' = {} /\ yamlText' = {} /\ yamlOriginal' = {} /\ base' = {}
  /\ stored' = drafts
  /\ pending' = {[p EXCEPT !.heard = FALSE] : p \in {q \in pending : q.op \in {"graph", "yaml"} /\ ~q.served}}
  /\ UNCHANGED <<disk, mine, mixed>>
(* leaveStudio asks likewise. *)
LeaveStudio ==
  /\ up /\ Gone(IF editorDirty THEN {} ELSE stored)
  /\ given' = given \cup (IF editorDirty THEN visual \cup yamlText \cup In(stored) ELSE {})
  /\ UNCHANGED <<others, reloads>>
Dies == up /\ Gone(stored) /\ UNCHANGED <<others, reloads, given>>

RestoreWorkflowDraft ==
  /\ up
  /\ \E d \in recovery :
       /\ d.hash = hash
       /\ visual' = d.visual /\ yamlText' = d.yamlText /\ base' = d.base /\ view' = d.view
       /\ dirtyGraph' = (d.visual # visual)
       /\ given' = given \cup ((visual \cup yamlText) \ (d.visual \cup d.yamlText))
                        \cup UNION {In(recovery) : p \in {q \in pending : q.heard}}
  /\ recovery' = {}
  /\ UNCHANGED <<disk, up, hash, yamlOriginal, pending, mine, others, reloads, mixed>>
  /\ Keep(stored)
DiscardWorkflowDraft ==
  /\ up /\ recovery # {}
  /\ stored' = {} /\ recovery' = {} /\ given' = given \cup In(recovery \cup stored)
  /\ UNCHANGED <<disk, pageVars, pending, mine, others, reloads, base, mixed>>

--------------------------------------------------------------------------
EditorInit ==
  /\ disk = {} /\ up = TRUE /\ view = "designer" /\ visual = {} /\ hash = {} /\ dirtyGraph = FALSE
  /\ yamlText = {} /\ yamlOriginal = {} /\ stored = {} /\ recovery = {} /\ pending = {} /\ mine = 0 /\ others = 0 /\ reloads = 0
  /\ base = {} /\ given = {} /\ mixed = {}
EditorNext ==
  \/ EditGraph \/ EditYaml \/ OtherSaves \/ Save \/ SwitchEditorView \/ ServeSave \/ ServeRead
  \/ GraphSaved \/ YamlSaved \/ YamlRead \/ Refused \/ Switched
  \/ OpenPage \/ LoadAnswered \/ ReloadStudio \/ LeaveStudio \/ Dies
  \/ RestoreWorkflowDraft \/ DiscardWorkflowDraft
EditorSpec == EditorInit /\ [][EditorNext]_editorVars

EditorTypeOK ==
  /\ {disk, visual, hash, yamlText, yamlOriginal, base} \subseteq Content
  /\ view \in View /\ {up, dirtyGraph} \subseteq BOOLEAN
  /\ stored \subseteq Draft /\ recovery \subseteq Draft
  /\ Cardinality(stored) <= 1 /\ Cardinality(recovery) <= 1 /\ Cardinality(pending) <= MaxRequests
  /\ mine \in 0 .. MaxMine /\ others \in 0 .. MaxTheirs /\ reloads \in 0 .. MaxReloads
  /\ {given, mixed} \subseteq Content

(* An edit is on the canvas, in the text, on its way, in the file or in a draft that the  *)
(* next page offers, through every save, switch, refusal and death of the page (main.tsx  *)
(* 923-1060, 1305-1423), and no save takes away what another editor saved.  Not so for     *)
(* edits made, or restored, while a request was under way, for what the user dropped, and   *)
(* for a text saved with a hash that is not of what it was made from.                      *)
EditsSafe ==
  /\ EditorTypeOK
  /\ 1 .. mine \subseteq disk \cup visual \cup yamlText \cup In(stored \cup recovery) \cup given \cup mixed
                            \cup UNION {p.sent : p \in pending}
  /\ {-i : i \in 1 .. others} \subseteq disk \cup mixed
=============================================================================
