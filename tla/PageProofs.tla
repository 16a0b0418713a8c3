------------------------------- MODULE PageProofs -------------------------------
(* Theorems about the pages of a project: edits of a Workflow on its page        *)
(* (WorkflowEditor), texts of Prompts (PromptEditor), the task page               *)
(* (ProjectPage), and the canvas with its Undo and Redo (WorkflowDraft).          *)
EXTENDS WorkflowEditor, PromptEditor, ProjectPage, WorkflowDraft, FiniteSetTheorems, SequenceTheorems, TLAPS

Sole(S) == \A x, y \in S : x = y

(* A set without two different members has one at most. *)
LEMMA SoleCardinality ==
  ASSUME NEW S, Sole(S)
  PROVE  Cardinality(S) <= 1
<1>1. CASE S = {}
  BY <1>1, FS_EmptySet
<1>2. CASE S # {}
  <2>1. PICK x \in S : TRUE
    BY <1>2
  <2>2. S = {x}
    BY <2>1 DEF Sole
  <2>3. Cardinality({x}) = 1
    BY FS_Singleton
  <2> QED
    BY <2>2, <2>3
<1> QED
  BY <1>1, <1>2

(***************************************************************************)
(* WorkflowEditor: whatever answers come late, whatever views are switched to,*)
(* and wherever the page dies, an edit is in the file, on the page or in the *)
(* draft that the next page offers.                                          *)
(***************************************************************************)
(* What has been in the file, which no save takes away unless it is mixed, and   *)
(* what is nobody's worry.                                                       *)
Filed == disk \cup mixed
Held == Filed \cup given
Drafts == stored \cup recovery
Saves == {"graph", "yaml"}
Requests ==
  [op : {"graph", "yaml", "reread", "visual", "file", "load"}, sent : Content, hash : Content,
   base : Content, got : SUBSET ({"visual", "file"} \X Content), served : BOOLEAN,
   heard : BOOLEAN, next : View \cup {"stay"}]

(* Nobody knows of an edit that has not been made. *)
Early(c) == \A e \in c : e <= mine

PageTyped ==
  /\ {disk, visual, hash, yamlText, yamlOriginal, base, given, mixed} \subseteq Content
  /\ view \in View /\ up \in BOOLEAN /\ dirtyGraph \in BOOLEAN
  /\ mine \in 0 .. MaxMine /\ others \in 0 .. MaxTheirs /\ reloads \in 0 .. MaxReloads

(* The hash, the text as it was read and the base of the text are of the file;   *)
(* edits only add.  A page that is gone shows nothing.                           *)
PageBased ==
  /\ Early(Filed) /\ Early(visual) /\ Early(yamlText)
  /\ hash \cup yamlOriginal \cup base \subseteq Filed
  /\ hash \subseteq visual /\ base \subseteq yamlText
  /\ ~up => visual = {} /\ yamlText = {} /\ recovery = {}
  /\ \A i \in 1 .. others : -i \in Filed

(* What the other view shows, and a canvas that is not dirty, is held. *)
PageHeld ==
  /\ ~dirtyGraph => visual \subseteq Held
  /\ view = "yaml" => visual \subseteq Held
  /\ view = "designer" => yamlText \subseteq Held
  /\ \A d \in recovery : dirtyGraph => (visual \subseteq Held \/ ~(visual \subseteq d.visual))

DraftOK(d) ==
  /\ d \in Draft /\ Early(d.visual) /\ Early(d.yamlText)
  /\ d.hash \cup d.base \subseteq Filed
  /\ d.hash \subseteq d.visual /\ d.base \subseteq d.yamlText
  /\ d.view = "yaml" => d.visual \subseteq Held
  /\ d.view = "designer" => d.yamlText \subseteq Held

(* An answer that is awaited may replace the page by what is held, or by what    *)
(* the page sent.                                                               *)
Way(p) == IF p.op \in Saves THEN p.sent ELSE {}
RequestOK(p) ==
  /\ p \in Requests /\ Early(p.sent)
  /\ \A g \in p.got : g[2] \subseteq Filed
  /\ p.op = "graph" => p.hash \subseteq p.sent
  /\ p.op = "yaml" => p.base \subseteq p.sent
  /\ p.op \in {"visual", "file"} => p.next \in View
  /\ p.op = "reread" \/ (p.op \in Saves /\ p.got # {}) => p.sent \subseteq Filed
  /\ p.heard => visual \cup yamlText \subseteq Held \cup Way(p)
  /\ p.heard => up \/ p.op = "load"

(* Every edit is held, or in the draft that the next page finds. *)
Kept ==
  /\ 1 .. mine \subseteq Held \cup In(stored)
  /\ up => In(stored) \subseteq Held \cup visual \cup yamlText \cup In(recovery)
  /\ editorDirty => In(recovery) \subseteq Held \cup visual \cup yamlText

OneOfEach ==
  /\ \A d, e \in stored : d = e
  /\ \A d, e \in recovery : d = e
  /\ IsFiniteSet(pending) /\ Cardinality(pending) <= MaxRequests

EditorInv ==
  /\ PageTyped /\ PageBased /\ PageHeld
  /\ \A d \in Drafts : DraftOK(d)
  /\ \A p \in pending : RequestOK(p)
  /\ Kept /\ OneOfEach

--------------------------------------------------------------------------
LEMMA InFacts ==
  /\ \A D, e : e \in In(D) <=> \E d \in D : e \in d.visual \cup d.yamlText
  /\ In({}) = {}
  /\ \A d : In({d}) = d.visual \cup d.yamlText
  /\ \A C, D : In(C \cup D) = In(C) \cup In(D)
  /\ \A C, D : C \subseteq D => In(C) \subseteq In(D)
<1>1. \A D, e : e \in In(D) <=> \E d \in D : e \in d.visual \cup d.yamlText
  BY DEF In
<1> HIDE DEF In
<1>2. In({}) = {} /\ \A d : In({d}) = d.visual \cup d.yamlText
  BY <1>1
<1>3. \A C, D : In(C \cup D) = In(C) \cup In(D)
  BY <1>1
<1>4. \A C, D : C \subseteq D => In(C) \subseteq In(D)
  BY <1>1
<1> QED
  BY <1>1, <1>2, <1>3, <1>4

(* Nothing is taken out of what is held, and what a page shows is held. *)
Grows == Filed \subseteq Filed' /\ given \subseteq given' /\ mine' \in Int /\ mine \in Int /\ mine <= mine'

LEMMA DraftStays ==
  ASSUME Grows, NEW d, DraftOK(d)
  PROVE  DraftOK(d)'
<1>1. d \in Draft /\ \A e \in d.visual \cup d.yamlText : e \in Int
  BY DEF DraftOK, Draft, Content, Mine, Theirs
<1> QED
  BY <1>1 DEF Grows, DraftOK, Held, Early, Draft

LEMMA RequestStays ==
  ASSUME Grows, NEW p, RequestOK(p), EditorAssumption,
         p.heard => visual' \cup yamlText' \subseteq visual \cup yamlText \cup Held',
         p.heard => up' \/ p.op = "load"
  PROVE  RequestOK(p)'
<1>1. p \in Requests /\ \A e \in p.sent : e \in Int
  BY DEF RequestOK, Requests, Content, Mine, Theirs
<1>2. p.heard => visual' \cup yamlText' \subseteq Held' \cup Way(p)
  BY DEF Grows, RequestOK, Held
<1>3. Early(p.sent)'
  BY <1>1 DEF Grows, RequestOK, Early
<1> QED
  BY <1>1, <1>2, <1>3 DEF Grows, RequestOK, Way, Requests

LEMMA SendFacts ==
  ASSUME NEW p, OneOfEach, EditorAssumption, Send(p)
  PROVE  /\ pending' = pending \cup {p}
         /\ IsFiniteSet(pending') /\ Cardinality(pending') <= MaxRequests
<1>1. pending' = pending \cup {p} /\ p \notin pending /\ Cardinality(pending) < MaxRequests
  BY DEF Send
<1>2. IsFiniteSet(pending) /\ Cardinality(pending) \in Nat
  BY FS_CardinalityType DEF OneOfEach
<1> QED
  BY <1>1, <1>2, FS_AddElement DEF EditorAssumption

LEMMA GoesOnFacts ==
  ASSUME NEW p \in pending, NEW q, OneOfEach, EditorAssumption, GoesOn(p, q)
  PROVE  /\ pending' = (pending \ {p}) \cup {q}
         /\ IsFiniteSet(pending') /\ Cardinality(pending') <= MaxRequests
<1>1. pending' = (pending \ {p}) \cup {q}
  BY DEF GoesOn
<1>2. IsFiniteSet(pending) /\ Cardinality(pending) \in Nat /\ Cardinality(pending) <= MaxRequests
  BY FS_CardinalityType DEF OneOfEach
<1>3. IsFiniteSet(pending \ {p}) /\ Cardinality(pending \ {p}) = Cardinality(pending) - 1
  BY <1>2, FS_RemoveElement
<1> QED
  BY <1>1, <1>2, <1>3, FS_AddElement DEF EditorAssumption

LEMMA FewerFacts ==
  ASSUME OneOfEach, EditorAssumption, pending' \subseteq pending
  PROVE  IsFiniteSet(pending') /\ Cardinality(pending') <= MaxRequests
<1>1. IsFiniteSet(pending) /\ Cardinality(pending) \in Nat /\ Cardinality(pending) <= MaxRequests
  BY FS_CardinalityType DEF OneOfEach
<1>2. IsFiniteSet(pending') /\ Cardinality(pending') <= Cardinality(pending)
  BY <1>1, FS_Subset
<1>3. Cardinality(pending') \in Nat
  BY <1>2, FS_CardinalityType
<1> QED
  BY <1>1, <1>2, <1>3 DEF EditorAssumption

(* A step that only sends a request, or takes one further. *)
LEMMA OnlyRequests ==
  ASSUME EditorInv, PageUnmoved, \A p \in pending' : RequestOK(p),
         IsFiniteSet(pending'), Cardinality(pending') <= MaxRequests
  PROVE  EditorInv'
<1> USE DEF PageUnmoved, pageVars
<1>1. PageTyped' /\ PageBased' /\ PageHeld'
  BY DEF EditorInv, PageTyped, PageBased, PageHeld, Early, Filed, Held
<1>2. \A d \in Drafts' : DraftOK(d)'
  BY DEF EditorInv, Drafts, DraftOK, Early, Filed, Held
<1>3. \A p \in pending' : RequestOK(p)'
  BY DEF RequestOK, Early, Filed, Held
<1>4. Kept'
  BY DEF EditorInv, Kept, Filed, Held, In, editorDirty, yamlDirty
<1>5. OneOfEach'
  BY DEF EditorInv, OneOfEach
<1> QED
  BY <1>1, <1>2, <1>3, <1>4, <1>5 DEF EditorInv

(* What the page asks for. *)
LEMMA ReadingOK ==
  ASSUME EditorInv, EditorAssumption, up, NEW n \in View \cup {"stay"}, NEW op \in {"visual", "file", "load"},
         op = "load" \/ n \in View, visual \cup yamlText \subseteq Held
  PROVE  RequestOK(Request(op, {}, n))
<1>1. Request(op, {}, n) \in Requests
  BY DEF Request, Requests, EditorInv, PageTyped, Content
<1> QED
  BY <1>1 DEF Request, RequestOK, Early, Way, Saves

LEMMA SavingOK ==
  ASSUME EditorInv, EditorAssumption, up, NEW n \in View \cup {"stay"}, NEW q, q \in Saves,
         q = "graph" => view = "designer", q = "yaml" => view = "yaml"
  PROVE  RequestOK(Request(q, IF q = "graph" THEN visual ELSE yamlText, n))
<1> DEFINE sent == IF q = "graph" THEN visual ELSE yamlText
           r == Request(q, sent, n)
<1>1. r \in Requests
  BY DEF Request, Requests, EditorInv, PageTyped, Content, Saves
<1>2. /\ r.op = q /\ r.sent = sent /\ r.hash = hash /\ r.base = base /\ r.got = {} /\ r.heard = TRUE
  BY DEF Request
<1> HIDE DEF r
<1>3. visual \cup yamlText \subseteq Held \cup sent
  BY DEF EditorInv, PageHeld, Saves
<1>4. Early(sent) /\ (q = "graph" => hash \subseteq sent) /\ (q = "yaml" => base \subseteq sent)
  BY DEF EditorInv, PageBased, Saves
<1>5. RequestOK(r)
  BY <1>1, <1>2, <1>3, <1>4 DEF RequestOK, Way, Saves
<1> QED
  BY <1>5 DEF r

LEMMA SaveStep ==
  ASSUME EditorInv, EditorAssumption, Save \/ SwitchEditorView
  PROVE  EditorInv'
<1>1. PICK n \in View \cup {"stay"} :
        \/ view = "designer" /\ Send(Request("graph", visual, n))
        \/ view = "yaml" /\ Send(Request("yaml", yamlText, n))
        \/ n \in View /\ ~(IF view = "yaml" THEN yamlDirty ELSE dirtyGraph) /\ Send(Reading(n))
  BY DEF Save, SwitchEditorView, Saving, View, EditorInv, PageTyped
<1>2. up /\ PageUnmoved
  BY DEF Save, SwitchEditorView
<1>3. CASE view = "designer" /\ Send(Request("graph", visual, n))
  <2>1. RequestOK(Request("graph", visual, n))
    BY <1>2, <1>3, SavingOK DEF Saves
  <2> QED
    BY <1>2, <1>3, <2>1, SendFacts, OnlyRequests DEF EditorInv
<1>4. CASE view = "yaml" /\ Send(Request("yaml", yamlText, n))
  <2>1. RequestOK(Request("yaml", yamlText, n))
    BY <1>2, <1>4, SavingOK DEF Saves
  <2> QED
    BY <1>2, <1>4, <2>1, SendFacts, OnlyRequests DEF EditorInv
<1>5. CASE n \in View /\ ~(IF view = "yaml" THEN yamlDirty ELSE dirtyGraph) /\ Send(Reading(n))
  <2>1. visual \cup yamlText \subseteq Held
    BY <1>5 DEF EditorInv, PageHeld, PageBased, PageTyped, View, yamlDirty, Held
  <2>2. RequestOK(Reading(n))
    BY <1>2, <1>5, <2>1, ReadingOK DEF Reading
  <2> QED
    BY <1>2, <1>5, <2>2, SendFacts, OnlyRequests DEF EditorInv
<1> QED
  BY <1>1, <1>3, <1>4, <1>5

(* What an answer holds was in the file. *)
LEMMA GotFiled ==
  ASSUME EditorInv, NEW p \in pending, Answered(p), NEW what \in Reads(p)
  PROVE  /\ Got(p, what) \in Content /\ Got(p, what) \subseteq Filed
         /\ p.op \in Saves => p.sent \subseteq Filed
<1>1. p.got \in SUBSET ({"visual", "file"} \X Content) /\ RequestOK(p)
  BY DEF EditorInv, RequestOK, Requests
<1>2. PICK g \in p.got : g[1] = what
  BY DEF Answered
<1>3. g = <<what, g[2]>> /\ g[2] \in Content
  BY <1>1, <1>2
<1>4. \E c \in Content : <<what, c>> \in p.got
  BY <1>2, <1>3
<1>5. Got(p, what) \in Content /\ <<what, Got(p, what)>> \in p.got
  BY <1>4 DEF Got
<1>6. Got(p, what) \subseteq Filed
  <2> DEFINE h == <<what, Got(p, what)>>
  <2>1. h \in p.got /\ h[2] = Got(p, what)
    BY <1>5
  <2> HIDE DEF h
  <2> QED
    BY <1>1, <2>1 DEF RequestOK
<1> QED
  BY <1>1, <1>2, <1>5, <1>6 DEF RequestOK

LEMMA ServeReadStep ==
  ASSUME EditorInv, EditorAssumption, ServeRead
  PROVE  EditorInv'
<1>1. PICK p \in pending, what \in {"visual", "file"} :
        /\ p.op \in {"load", "reread", "visual", "file"}
        /\ GoesOn(p, [p EXCEPT !.got = @ \cup {<<what, disk>>}])
  BY DEF ServeRead
<1> DEFINE q == [p EXCEPT !.got = @ \cup {<<what, disk>>}]
<1>2. RequestOK(p) /\ p \in Requests
  BY DEF EditorInv, RequestOK
<1>3. q \in Requests /\ q.got = p.got \cup {<<what, disk>>}
  BY <1>2 DEF Requests, EditorInv, PageTyped
<1>4. /\ q.op = p.op /\ q.sent = p.sent /\ q.hash = p.hash /\ q.base = p.base /\ q.heard = p.heard
      /\ q.next = p.next
  BY <1>2 DEF Requests
<1> HIDE DEF q
<1>5. \A g \in q.got : g[2] \subseteq Filed
  BY <1>2, <1>3 DEF RequestOK, Filed
<1>6. RequestOK(q)
  BY <1>1, <1>2, <1>3, <1>4, <1>5 DEF RequestOK, Way, Saves
<1>7. GoesOn(p, q) /\ PageUnmoved
  BY <1>1 DEF ServeRead, q
<1> QED
  BY <1>6, <1>7, GoesOnFacts, OnlyRequests DEF EditorInv

LEMMA YamlSavedStep ==
  ASSUME EditorInv, EditorAssumption, YamlSaved
  PROVE  EditorInv'
<1>1. PICK p \in pending : p.op = "yaml" /\ Answered(p)
                           /\ GoesOn(p, [Request("reread", p.sent, p.next) EXCEPT !.base = p.sent])
  BY DEF YamlSaved
<1> DEFINE q == [Request("reread", p.sent, p.next) EXCEPT !.base = p.sent]
<1>2. RequestOK(p) /\ p \in Requests
  BY DEF EditorInv, RequestOK
<1>3. p.sent \in Content /\ p.next \in View \cup {"stay"} /\ hash \in Content
  BY <1>2 DEF Requests, EditorInv, PageTyped
<1>4. /\ q.op = "reread" /\ q.sent = p.sent /\ q.got = {} /\ q.heard = TRUE
      /\ q \in Requests
  BY <1>3 DEF Request, Requests
<1> HIDE DEF q
<1>5. p.sent \subseteq Filed
  BY <1>1, GotFiled DEF Reads, Saves
<1>6. p.heard /\ up
  BY <1>1, <1>2 DEF Answered, RequestOK
<1>7. RequestOK(q)
  BY <1>1, <1>2, <1>4, <1>5, <1>6 DEF RequestOK, Way, Saves, Held
<1>8. GoesOn(p, q) /\ PageUnmoved
  BY <1>1 DEF YamlSaved, q
<1> QED
  BY <1>7, <1>8, GoesOnFacts, OnlyRequests DEF EditorInv

LEMMA RefusedStep ==
  ASSUME EditorInv, EditorAssumption, Refused
  PROVE  EditorInv'
<1>1. pending' \subseteq pending /\ PageUnmoved
  BY DEF Refused
<1> QED
  BY <1>1, FewerFacts, OnlyRequests DEF EditorInv

--------------------------------------------------------------------------
LEMMA KeepFacts ==
  ASSUME NEW stays, Keep(stays)
  PROVE  /\ editorDirty' => stored' = {Now}
         /\ ~editorDirty' => stored' = stays
         /\ Now.hash = hash' /\ Now.visual = visual' /\ Now.yamlText = yamlText'
         /\ Now.base = base' /\ Now.view = view'
BY DEF Keep, Now, editorDirty, yamlDirty

(* What the page is about to store is a draft like any other. *)
LEMMA NowOK ==
  ASSUME NEW d, d = Now, PageTyped', PageBased', PageHeld'
  PROVE  DraftOK(d)'
<1>1. /\ d.hash = hash' /\ d.visual = visual' /\ d.yamlText = yamlText'
      /\ d.base = base' /\ d.view = view'
  BY DEF Now
<1>2. d \in Draft
  BY DEF Now, Draft, PageTyped
<1> QED
  BY <1>1, <1>2 DEF PageBased, PageHeld, DraftOK

(* What Keep leaves in the store. *)
LEMMA KeepDrafts ==
  ASSUME NEW stays, Keep(stays), Grows, \A d \in Drafts : DraftOK(d),
         stays \subseteq Drafts, recovery' \subseteq Drafts,
         \A d, e \in stays : d = e, \A d, e \in recovery : d = e, recovery' \subseteq recovery,
         PageTyped', PageBased', PageHeld'
  PROVE  /\ \A d \in Drafts' : DraftOK(d)'
         /\ \A d, e \in stored' : d = e
         /\ \A d, e \in recovery' : d = e
<1>1. \A d \in stored' : d \in stays \/ d = Now
  BY KeepFacts
<1>2. \A d \in Drafts' : DraftOK(d)'
  <2> SUFFICES ASSUME NEW d \in Drafts' PROVE DraftOK(d)'
    OBVIOUS
  <2>1. d \in Drafts \/ d = Now
    BY <1>1 DEF Drafts
  <2> QED
    BY <2>1, DraftStays, NowOK
<1>3. \A d, e \in stored' : d = e
  BY KeepFacts
<1> QED
  BY <1>2, <1>3

(* An edit on the canvas or in the text. *)
LEMMA EditStep ==
  ASSUME EditorInv, EditorAssumption, EditGraph \/ EditYaml
  PROVE  EditorInv'
<1> DEFINE e == mine + 1
<1>1. /\ up /\ mine < MaxMine /\ mine' = e
      /\ UNCHANGED <<disk, up, view, hash, yamlOriginal, recovery, pending, others, reloads, base, mixed>>
      /\ Keep(stored)
      /\ given' = given \cup {f \in {e} : \E p \in pending : p.heard} \cup (In(recovery) \ In(stored'))
  BY DEF EditGraph, EditYaml, EditMade
<1>2. \/ view = "designer" /\ visual' = visual \cup {e} /\ dirtyGraph' = TRUE /\ UNCHANGED yamlText
      \/ view = "yaml" /\ yamlText' = yamlText \cup {e} /\ UNCHANGED <<visual, dirtyGraph>>
  BY DEF EditGraph, EditYaml
<1>3. mine \in Int /\ mine' \in Int /\ mine < e /\ e \in Mine /\ 1 .. mine' = (1 .. mine) \cup {e} /\ mine' \in 0 .. MaxMine
  BY <1>1 DEF EditorInv, PageTyped, EditorAssumption, Mine
<1> HIDE DEF e
<1>4. Filed' = Filed /\ given \subseteq given' /\ Held \subseteq Held' /\ Grows
  BY <1>1, <1>3 DEF Filed, Held, Grows
<1>5. In(recovery) \in Content
  <2>1. \A d \in recovery : d.visual \in Content /\ d.yamlText \in Content
    BY DEF EditorInv, Drafts, DraftOK, Draft
  <2> QED
    BY <2>1, InFacts DEF Content
<1>6. {visual', yamlText', given'} \subseteq Content
  BY <1>1, <1>2, <1>3, <1>5 DEF EditorInv, PageTyped, Content
<1>7. PageTyped'
  BY <1>1, <1>2, <1>3, <1>6 DEF EditorInv, PageTyped
<1>8. PageBased'
  <2>1. \A f \in Filed \cup visual \cup yamlText : f \in Int /\ f <= mine
    BY DEF EditorInv, PageBased, PageTyped, Early, Filed, Content, Mine, Theirs
  <2>2. Early(Filed)' /\ Early(visual)' /\ Early(yamlText)'
    BY <1>2, <1>3, <1>4, <2>1 DEF Early
  <2> QED
    BY <1>1, <1>2, <1>4, <2>2 DEF EditorInv, PageBased
<1>9. e \notin yamlOriginal /\ \A d \in recovery : e \notin d.visual
  <2>1. e \notin yamlOriginal
    BY <1>3 DEF EditorInv, PageBased, Early
  <2>2. ASSUME NEW d \in recovery PROVE e \notin d.visual
    BY <1>3 DEF EditorInv, Drafts, DraftOK, Early
  <2> QED
    BY <2>1, <2>2
<1>10. PageHeld'
  BY <1>1, <1>2, <1>4, <1>9 DEF EditorInv, PageHeld
<1>11. /\ \A d \in Drafts' : DraftOK(d)'
       /\ \A d, f \in stored' : d = f
       /\ \A d, f \in recovery' : d = f
  BY <1>1, <1>4, <1>7, <1>8, <1>10, KeepDrafts DEF EditorInv, Drafts, OneOfEach
<1>12. \A p \in pending' : RequestOK(p)'
  <2> SUFFICES ASSUME NEW p \in pending PROVE RequestOK(p)'
    BY <1>1
  <2>1. RequestOK(p) /\ (p.heard => e \in given')
    BY <1>1 DEF EditorInv
  <2>2. p.heard => visual' \cup yamlText' \subseteq visual \cup yamlText \cup Held'
    BY <1>2, <2>1 DEF Held
  <2> QED
    BY <1>1, <1>4, <2>1, <2>2, RequestStays
<1>13. stored' = {Now} /\ In(stored') = visual' \cup yamlText'
  <2>1. editorDirty'
    BY <1>1, <1>2, <1>9 DEF editorDirty, yamlDirty
  <2> QED
    BY <1>1, <2>1, KeepFacts, InFacts
<1>14. Kept'
  <2>1. e \in In(stored') /\ visual \cup yamlText \subseteq In(stored')
    BY <1>2, <1>13
  <2>2. In(recovery) \subseteq Held' \cup In(stored')
    BY <1>1 DEF Held
  <2>3. 1 .. mine' \subseteq Held' \cup In(stored')
    BY <1>1, <1>3, <1>4, <2>1, <2>2 DEF EditorInv, Kept
  <2>4. In(recovery') = In(recovery)
    BY <1>1
  <2> QED
    BY <1>13, <2>2, <2>3, <2>4 DEF Kept
<1>15. OneOfEach'
  BY <1>1, <1>11 DEF EditorInv, OneOfEach
<1> QED
  BY <1>7, <1>8, <1>10, <1>11, <1>12, <1>14, <1>15 DEF EditorInv

LEMMA OtherSavesStep ==
  ASSUME EditorInv, EditorAssumption, OtherSaves
  PROVE  EditorInv'
<1>1. /\ others < MaxTheirs /\ others' = others + 1 /\ disk' = disk \cup {-others'}
      /\ UNCHANGED <<pageVars, stored, recovery, pending, mine, reloads, base, given, mixed>>
  BY DEF OtherSaves
<1>2. others \in Nat /\ mine \in Nat /\ others' \in 0 .. MaxTheirs /\ -others' \in Theirs /\ -others' <= mine
  BY <1>1 DEF EditorInv, PageTyped, EditorAssumption, Theirs
<1>3. Filed' = Filed \cup {-others'} /\ Held \subseteq Held' /\ Grows
  BY <1>1, <1>2 DEF Filed, Held, Grows
<1>4. PageTyped'
  BY <1>1, <1>2 DEF EditorInv, PageTyped, pageVars, Content
<1>5. PageBased'
  <2>1. \A i \in 1 .. others' : i \in 1 .. others \/ i = others'
    BY <1>1, <1>2
  <2> QED
    BY <1>1, <1>2, <1>3, <2>1 DEF EditorInv, PageBased, pageVars, Early
<1>6. PageHeld'
  BY <1>1, <1>3 DEF EditorInv, PageHeld, pageVars
<1>7. \A d \in Drafts' : DraftOK(d)'
  BY <1>1, <1>3, DraftStays DEF EditorInv, Drafts
<1>8. \A p \in pending' : RequestOK(p)'
  BY <1>1, <1>3, RequestStays DEF EditorInv, RequestOK, pageVars
<1>9. Kept'
  BY <1>1, <1>3 DEF EditorInv, Kept, pageVars, editorDirty, yamlDirty
<1>10. OneOfEach'
  BY <1>1 DEF EditorInv, OneOfEach
<1> QED
  BY <1>4, <1>5, <1>6, <1>7, <1>8, <1>9, <1>10 DEF EditorInv

(* A save that finds the file as it was read replaces it by more, or is mixed. *)
LEMMA ServeSaveStep ==
  ASSUME EditorInv, EditorAssumption, ServeSave
  PROVE  EditorInv'
<1>1. PICK p \in pending :
       /\ p.op \in {"graph", "yaml"} /\ ~p.served
       /\ disk' = IF p.hash = disk THEN p.sent ELSE disk
       /\ IF p.heard
          THEN GoesOn(p, [p EXCEPT !.served = TRUE,
                                   !.got = IF p.hash = disk THEN {<<"visual", p.sent>>} ELSE {}])
          ELSE pending' = pending \ {p}
       /\ mixed' = IF p.base = p.hash THEN mixed ELSE mixed \cup (disk \ disk')
  BY DEF ServeSave
<1>2. UNCHANGED <<pageVars, stored, recovery, mine, others, reloads, base, given>>
  BY DEF ServeSave
<1>3. RequestOK(p) /\ p \in Requests /\ p.sent \in Content
  BY DEF EditorInv, RequestOK, Requests
<1>4. disk \subseteq disk' \cup mixed' /\ mixed \subseteq mixed' /\ disk' \subseteq disk \cup p.sent /\ mixed' \subseteq Filed
  <2>1. p.hash = disk /\ p.base = p.hash => disk \subseteq p.sent
    BY <1>1, <1>3 DEF RequestOK
  <2> QED
    BY <1>1, <2>1 DEF Filed
<1>5. mine \in Nat /\ Filed \subseteq Filed' /\ Held \subseteq Held' /\ Grows
  BY <1>2, <1>4 DEF Filed, Held, Grows, EditorInv, PageTyped
<1>6. PageTyped'
  BY <1>1, <1>2, <1>3, <1>4 DEF EditorInv, PageTyped, pageVars, Content, Filed
<1>7. PageBased'
  <2>1. Early(Filed)'
    BY <1>2, <1>3, <1>4 DEF EditorInv, PageBased, RequestOK, Early, Filed
  <2> QED
    BY <1>2, <1>5, <2>1 DEF EditorInv, PageBased, pageVars, Early
<1>8. PageHeld'
  BY <1>2, <1>5 DEF EditorInv, PageHeld, pageVars
<1>9. \A d \in Drafts' : DraftOK(d)'
  BY <1>2, <1>5, DraftStays DEF EditorInv, Drafts
<1>10. \A r \in pending : RequestOK(r)'
  BY <1>2, <1>5, RequestStays DEF EditorInv, RequestOK, pageVars
<1>11. /\ \A r \in pending' : RequestOK(r)'
       /\ IsFiniteSet(pending') /\ Cardinality(pending') <= MaxRequests
  <2>1. CASE p.heard
    <3>1. PICK got : got = IF p.hash = disk THEN {<<"visual", p.sent>>} ELSE {}
      OBVIOUS
    <3>2. PICK q : q = [p EXCEPT !.served = TRUE, !.got = got]
      OBVIOUS
    <3>3. got \in SUBSET ({"visual", "file"} \X Content)
      BY <1>3, <3>1
    <3>4. /\ q.op = p.op /\ q.sent = p.sent /\ q.hash = p.hash /\ q.base = p.base /\ q.heard = p.heard
          /\ q \in Requests
          /\ q.got = IF p.hash = disk THEN {<<"visual", p.sent>>} ELSE {}
      BY <1>3, <3>1, <3>2, <3>3 DEF Requests
    <3>5. q.got # {} => p.sent \subseteq Filed'
      BY <1>1, <3>4 DEF Filed
    <3>6. \A g \in q.got : g[2] \subseteq Filed'
      BY <3>4, <3>5
    <3>7. RequestOK(p)'
      BY <1>10
    <3>8. RequestOK(q)'
      BY <1>1, <3>4, <3>5, <3>6, <3>7 DEF RequestOK, Way, Saves
    <3>9. GoesOn(p, q)
      BY <1>1, <2>1, <3>1, <3>2
    <3> QED
      BY <1>10, <3>8, <3>9, GoesOnFacts DEF EditorInv
  <2>2. CASE ~p.heard
    BY <1>1, <1>10, <2>2, FewerFacts DEF EditorInv
  <2> QED
    BY <2>1, <2>2
<1>12. Kept'
  BY <1>2, <1>5 DEF EditorInv, Kept, pageVars, editorDirty, yamlDirty
<1>13. OneOfEach'
  BY <1>2, <1>11 DEF EditorInv, OneOfEach
<1> QED
  BY <1>6, <1>7, <1>8, <1>9, <1>11, <1>12, <1>13 DEF EditorInv

(* An answered save replaces what the page shows by what is in the file. *)
LEMMA SavedStep ==
  ASSUME EditorInv, EditorAssumption, GraphSaved \/ YamlRead
  PROVE  EditorInv'
<1>1. PICK p \in pending :
        /\ p.op \in {"graph", "reread"} /\ Answered(p)
        /\ visual' = Got(p, "visual") /\ hash' = visual'
        /\ yamlText' = IF p.op = "graph" THEN visual' ELSE p.sent
        /\ yamlOriginal' = yamlText' /\ base' = yamlText'
        /\ IF p.next = "stay" THEN pending' = pending \ {p} ELSE GoesOn(p, Reading(p.next))
  BY DEF GraphSaved, YamlRead
<1>2. /\ dirtyGraph' = FALSE /\ stored' = {} /\ recovery' = {} /\ given' = given \cup In(recovery)
      /\ UNCHANGED <<disk, up, view, mine, others, reloads, mixed>>
  BY DEF GraphSaved, YamlRead
<1>3. RequestOK(p) /\ p \in Requests /\ p.sent \in Content /\ p.next \in View \cup {"stay"} /\ p.heard /\ up
  BY <1>1 DEF EditorInv, RequestOK, Requests, Answered
<1>4. /\ visual' \in Content /\ visual' \subseteq Filed
      /\ p.sent \subseteq Filed
  BY <1>1, <1>3, GotFiled DEF Reads, Saves, RequestOK
<1>5. yamlText' \in Content /\ yamlText' \subseteq Filed /\ visual \cup yamlText \subseteq Held
  BY <1>1, <1>3, <1>4 DEF RequestOK, Way, Held
<1>6. In(recovery) \in Content
  <2>1. \A d \in recovery : d.visual \in Content /\ d.yamlText \in Content
    BY DEF EditorInv, Drafts, DraftOK, Draft
  <2> QED
    BY <2>1, InFacts DEF Content
<1>7. mine \in Nat /\ Filed' = Filed /\ Held' = Held \cup In(recovery) /\ Grows
  BY <1>2 DEF Filed, Held, Grows, EditorInv, PageTyped
<1>8. PageTyped'
  <2>1. given' \in Content
    BY <1>2, <1>6 DEF EditorInv, PageTyped, Content
  <2> QED
    BY <1>1, <1>2, <1>4, <1>5, <2>1 DEF EditorInv, PageTyped
<1>9. PageBased'
  <2>1. Early(visual)' /\ Early(yamlText)' /\ Early(Filed)'
    BY <1>2, <1>4, <1>5, <1>7 DEF EditorInv, PageBased, Early
  <2> QED
    BY <1>1, <1>2, <1>3, <1>4, <1>5, <1>7, <2>1 DEF EditorInv, PageBased
<1>10. visual' \cup yamlText' \subseteq Held'
  BY <1>4, <1>5, <1>7 DEF Held
<1>11. PageHeld'
  BY <1>2, <1>10 DEF PageHeld
<1>12. \A r \in pending : RequestOK(r)'
  BY <1>2, <1>3, <1>7, <1>10, RequestStays DEF EditorInv
<1>13. /\ \A r \in pending' : RequestOK(r)'
       /\ IsFiniteSet(pending') /\ Cardinality(pending') <= MaxRequests
  <2>1. CASE p.next = "stay"
    BY <1>1, <1>12, <2>1, FewerFacts DEF EditorInv
  <2>2. CASE p.next # "stay"
    <3>1. PICK q : q = Reading(p.next)
      OBVIOUS
    <3>2. RequestOK(q)
      BY <1>3, <1>5, <2>2, <3>1, ReadingOK DEF Reading
    <3>3. RequestOK(q)'
      BY <1>2, <1>3, <1>7, <1>10, <3>2, RequestStays
    <3>4. GoesOn(p, q)
      BY <1>1, <2>2, <3>1
    <3> QED
      BY <1>12, <3>3, <3>4, GoesOnFacts DEF EditorInv
  <2> QED
    BY <2>1, <2>2
<1>14. Kept'
  <2>1. In(stored) \subseteq Held'
    BY <1>3, <1>5, <1>7 DEF EditorInv, Kept
  <2>2. 1 .. mine \subseteq Held'
    BY <1>7, <2>1 DEF EditorInv, Kept
  <2> QED
    BY <1>2, <2>2, InFacts DEF Kept
<1>15. OneOfEach' /\ Drafts' = {}
  BY <1>2, <1>13 DEF OneOfEach, Drafts
<1> QED
  BY <1>8, <1>9, <1>11, <1>13, <1>14, <1>15 DEF EditorInv

LEMMA SwitchedStep ==
  ASSUME EditorInv, EditorAssumption, Switched
  PROVE  EditorInv'
<1>1. PICK p \in pending :
       /\ p.op \in {"visual", "file"} /\ Answered(p) /\ view' = p.next /\ pending' = pending \ {p}
       /\ IF p.op = "visual"
          THEN /\ visual' = Got(p, "visual") /\ hash' = Got(p, "visual")
               /\ UNCHANGED <<yamlText, yamlOriginal, base>>
          ELSE /\ yamlText' = Got(p, "file") /\ yamlOriginal' = Got(p, "file") /\ base' = Got(p, "file")
               /\ UNCHANGED <<visual, hash>>
  BY DEF Switched
<1>2. /\ UNCHANGED <<disk, up, dirtyGraph, recovery, mine, others, reloads, given, mixed>>
      /\ Keep(stored)
  BY DEF Switched
<1>3. RequestOK(p) /\ p.next \in View /\ p.heard /\ up /\ visual \cup yamlText \subseteq Held
  BY <1>1 DEF EditorInv, RequestOK, Answered, Way, Saves
<1>4. /\ p.op = "visual" => Got(p, "visual") \in Content /\ Got(p, "visual") \subseteq Filed
      /\ p.op = "file" => Got(p, "file") \in Content /\ Got(p, "file") \subseteq Filed
  BY <1>1, GotFiled DEF Reads
<1>5. /\ visual' \in Content /\ (visual' = visual \/ visual' \subseteq Filed)
      /\ yamlText' \in Content /\ (yamlText' = yamlText \/ yamlText' \subseteq Filed)
      /\ visual' \cup yamlText' \subseteq Held
  BY <1>1, <1>3, <1>4 DEF EditorInv, PageTyped, Held
<1>6. mine \in Nat /\ Filed' = Filed /\ Held' = Held /\ Grows
  BY <1>2 DEF Filed, Held, Grows, EditorInv, PageTyped
<1>7. PageTyped'
  BY <1>1, <1>2, <1>3, <1>4, <1>5 DEF EditorInv, PageTyped
<1>8. PageBased'
  <2>1. Early(visual)' /\ Early(yamlText)' /\ Early(Filed)'
    BY <1>2, <1>5, <1>6 DEF EditorInv, PageBased, Early
  <2>2. hash' \cup yamlOriginal' \cup base' \subseteq Filed' /\ hash' \subseteq visual' /\ base' \subseteq yamlText'
    BY <1>1, <1>4, <1>6 DEF EditorInv, PageBased
  <2> QED
    BY <1>2, <1>3, <1>6, <2>1, <2>2 DEF EditorInv, PageBased
<1>9. PageHeld'
  BY <1>5, <1>6 DEF PageHeld
<1>10. /\ \A d \in Drafts' : DraftOK(d)'
       /\ \A d, f \in stored' : d = f
       /\ \A d, f \in recovery' : d = f
  BY <1>2, <1>6, <1>7, <1>8, <1>9, KeepDrafts DEF EditorInv, Drafts, OneOfEach
<1>11. \A r \in pending' : RequestOK(r)'
  BY <1>1, <1>2, <1>3, <1>5, <1>6, RequestStays DEF EditorInv
<1>12. Kept'
  <2>1. In(recovery') = In(recovery) /\ 1 .. mine' = 1 .. mine /\ up'
    BY <1>2, <1>3
  <2>2. editorDirty' => editorDirty
    BY <1>1, <1>2 DEF editorDirty, yamlDirty
  <2>3. editorDirty' => In(recovery) \subseteq Held
    BY <1>3, <2>2 DEF EditorInv, Kept
  <2>4. In(stored) \subseteq Held \cup In(recovery)
    BY <1>3 DEF EditorInv, Kept
  <2>5. CASE editorDirty'
    <3>1. In(stored') = visual' \cup yamlText'
      BY <1>2, <2>5, KeepFacts, InFacts
    <3> QED
      BY <1>6, <2>1, <2>3, <2>4, <2>5, <3>1 DEF EditorInv, Kept
  <2>6. CASE ~editorDirty'
    <3>1. In(stored') = In(stored)
      BY <1>2, <2>6, KeepFacts
    <3> QED
      BY <1>6, <2>1, <2>4, <2>6, <3>1 DEF EditorInv, Kept
  <2> QED
    BY <2>5, <2>6
<1>13. OneOfEach'
  BY <1>1, <1>10, FewerFacts DEF EditorInv, OneOfEach
<1> QED
  BY <1>7, <1>8, <1>9, <1>10, <1>11, <1>12, <1>13 DEF EditorInv

--------------------------------------------------------------------------
LEMMA OpenPageStep ==
  ASSUME EditorInv, EditorAssumption, OpenPage
  PROVE  EditorInv'
<1>1. /\ ~up /\ reloads < MaxReloads /\ reloads' = reloads + 1 /\ Send(Request("load", {}, "stay"))
      /\ UNCHANGED <<disk, pageVars, stored, recovery, mine, others, base, given, mixed>>
  BY DEF OpenPage, Load
<1>2. PICK q : q = Request("load", {}, "stay")
  OBVIOUS
<1>3. visual = {} /\ yamlText = {}
  BY <1>1 DEF EditorInv, PageBased
<1>4. q \in Requests
  BY <1>2 DEF Request, Requests, EditorInv, PageTyped, Content
<1>5. RequestOK(q)
  BY <1>2, <1>3, <1>4 DEF Request, RequestOK, Early, Way, Saves
<1>6. Filed' = Filed /\ Held' = Held /\ mine \in Nat /\ Grows
  BY <1>1 DEF Filed, Held, Grows, EditorInv, PageTyped
<1>7. PageTyped'
  BY <1>1 DEF EditorInv, PageTyped, pageVars, EditorAssumption
<1>8. PageBased' /\ PageHeld'
  BY <1>1, <1>6 DEF EditorInv, PageBased, PageHeld, Early, pageVars
<1>9. \A d \in Drafts' : DraftOK(d)'
  BY <1>1, <1>6, DraftStays DEF EditorInv, Drafts
<1>10. \A r \in pending \cup {q} : RequestOK(r)'
  BY <1>1, <1>5, <1>6, RequestStays DEF EditorInv, RequestOK, pageVars
<1>11. /\ \A r \in pending' : RequestOK(r)'
       /\ IsFiniteSet(pending') /\ Cardinality(pending') <= MaxRequests
  BY <1>1, <1>2, <1>10, SendFacts DEF EditorInv
<1>12. Kept'
  BY <1>1, <1>6 DEF EditorInv, Kept, pageVars, editorDirty, yamlDirty
<1>13. OneOfEach'
  BY <1>1, <1>11 DEF EditorInv, OneOfEach
<1> QED
  BY <1>7, <1>8, <1>9, <1>11, <1>12, <1>13 DEF EditorInv

LEMMA LoadAnsweredStep ==
  ASSUME EditorInv, EditorAssumption, LoadAnswered
  PROVE  EditorInv'
<1>1. PICK p \in pending :
       /\ p.op = "load" /\ Answered(p) /\ pending' = pending \ {p}
       /\ LET v == Got(p, "visual")  f == Got(p, "file")
          IN /\ Loaded(v, f)
             /\ given' = given \cup In({d \in stored : d.hash # v}) \cup In(recovery)
             /\ visual' = v /\ hash' = v /\ yamlText' = f /\ yamlOriginal' = f /\ base' = f
  BY DEF LoadAnswered
<1>2. /\ up' = TRUE /\ view' = "designer" /\ dirtyGraph' = FALSE
      /\ UNCHANGED <<disk, mine, others, reloads, mixed>>
  BY DEF LoadAnswered
<1> DEFINE v == Got(p, "visual")
           f == Got(p, "file")
           lost == {d \in stored : d.hash # v}
<1>3. v \in Content /\ v \subseteq Filed /\ f \in Content /\ f \subseteq Filed
  BY <1>1, GotFiled DEF Reads
<1>4. /\ recovery' = {d \in stored : d.hash = v /\ (d.visual # v \/ d.yamlText # f)}
      /\ stored' = {d \in stored : d.hash = v}
      /\ given' = given \cup In(lost) \cup In(recovery)
      /\ visual' = v /\ hash' = v /\ yamlText' = f /\ yamlOriginal' = f /\ base' = f
  BY <1>1 DEF Loaded
<1>5. stored = stored' \cup lost /\ lost \subseteq stored
  BY <1>4
<1> HIDE DEF v, f, lost
<1>6. In(lost) \in Content /\ In(recovery) \in Content
  <2>1. \A d \in Drafts : d.visual \in Content /\ d.yamlText \in Content
    BY DEF EditorInv, DraftOK, Draft
  <2> QED
    BY <1>5, <2>1, InFacts DEF Content, Drafts
<1>7. mine \in Nat /\ Filed' = Filed /\ Held \subseteq Held' /\ Grows
  BY <1>2, <1>4 DEF Filed, Held, Grows, EditorInv, PageTyped
<1>8. visual' \cup yamlText' \subseteq Held'
  BY <1>3, <1>4, <1>7 DEF Held
<1>9. PageTyped'
  <2>1. given' \in Content
    BY <1>4, <1>6 DEF EditorInv, PageTyped, Content
  <2>2. {disk', visual', hash', yamlText', yamlOriginal', base', mixed'} \subseteq Content
    BY <1>2, <1>3, <1>4 DEF EditorInv, PageTyped
  <2> QED
    BY <1>2, <2>1, <2>2 DEF EditorInv, PageTyped, View
<1>10. PageBased'
  <2>1. Early(visual)' /\ Early(yamlText)' /\ Early(Filed)'
    BY <1>2, <1>3, <1>4, <1>7 DEF EditorInv, PageBased, Early
  <2> QED
    BY <1>2, <1>3, <1>4, <1>7, <2>1 DEF EditorInv, PageBased
<1>11. PageHeld'
  BY <1>2, <1>8 DEF PageHeld
<1>12. \A d \in Drafts' : DraftOK(d)'
  BY <1>4, <1>7, DraftStays DEF EditorInv, Drafts
<1>13. \A r \in pending' : RequestOK(r)'
  BY <1>1, <1>2, <1>7, <1>8, RequestStays DEF EditorInv
<1>14. Kept'
  <2>1. In(stored) \subseteq Held' \cup In(stored')
    BY <1>4, <1>5, InFacts DEF Held
  <2>2. 1 .. mine' \subseteq Held' \cup In(stored')
    BY <1>2, <1>7, <2>1 DEF EditorInv, Kept
  <2>3. In(stored') \subseteq visual' \cup yamlText' \cup In(recovery')
    <3>1. \A d \in stored' : d \in recovery' \/ (d.visual = visual' /\ d.yamlText = yamlText')
      BY <1>4
    <3> QED
      BY <3>1, InFacts
  <2>4. ~editorDirty'
    BY <1>2, <1>4 DEF editorDirty, yamlDirty
  <2> QED
    BY <2>2, <2>3, <2>4 DEF Kept
<1>15. OneOfEach'
  BY <1>1, <1>4, FewerFacts DEF EditorInv, OneOfEach
<1> QED
  BY <1>9, <1>10, <1>11, <1>12, <1>13, <1>14, <1>15 DEF EditorInv

LEMMA ReloadStudioStep ==
  ASSUME EditorInv, EditorAssumption, ReloadStudio
  PROVE  EditorInv'
<1>1. /\ up /\ reloads < MaxReloads /\ reloads' = reloads + 1 /\ Send(Request("load", {}, "stay"))
      /\ stored' = {} /\ recovery' = {}
      /\ given' = given \cup In(Drafts) \cup (IF editorDirty THEN visual \cup yamlText ELSE {})
      /\ UNCHANGED <<disk, pageVars, mine, others, base, mixed>>
  BY DEF ReloadStudio, Load, Drafts
<1>2. PICK q : q = Request("load", {}, "stay")
  OBVIOUS
<1>3. In(Drafts) \in Content
  <2>1. \A d \in Drafts : d.visual \in Content /\ d.yamlText \in Content
    BY DEF EditorInv, DraftOK, Draft
  <2> QED
    BY <2>1, InFacts DEF Content
<1>4. Filed' = Filed /\ Held \cup In(Drafts) \subseteq Held' /\ mine \in Nat /\ Grows
  BY <1>1 DEF Filed, Held, Grows, EditorInv, PageTyped
<1>5. visual \cup yamlText \subseteq Held'
  <2>1. CASE editorDirty
    BY <1>1, <2>1 DEF Held
  <2>2. CASE ~editorDirty
    BY <1>4, <2>2 DEF EditorInv, PageHeld, PageBased, editorDirty, yamlDirty, Held
  <2> QED
    BY <2>1, <2>2
<1>6. PageTyped'
  BY <1>1, <1>3 DEF EditorInv, PageTyped, pageVars, EditorAssumption, Content
<1>7. PageBased'
  BY <1>1, <1>4 DEF EditorInv, PageBased, Early, pageVars
<1>8. PageHeld'
  BY <1>1, <1>5 DEF EditorInv, PageHeld, pageVars
<1>9. q \in Requests
  BY <1>2 DEF Request, Requests, EditorInv, PageTyped, Content
<1>10. RequestOK(q)'
  BY <1>1, <1>2, <1>5, <1>9 DEF Request, RequestOK, Early, Way, Saves, pageVars, Requests
<1>11. \A r \in pending : RequestOK(r)'
  BY <1>1, <1>4, RequestStays DEF EditorInv, RequestOK, pageVars
<1>12. /\ \A r \in pending' : RequestOK(r)'
       /\ IsFiniteSet(pending') /\ Cardinality(pending') <= MaxRequests
  BY <1>1, <1>2, <1>10, <1>11, SendFacts DEF EditorInv
<1>13. Kept'
  <2>1. In(stored) \subseteq Held'
    BY <1>4, InFacts DEF Drafts
  <2>2. 1 .. mine \subseteq Held'
    BY <1>4, <2>1 DEF EditorInv, Kept
  <2> QED
    BY <1>1, <2>2, InFacts DEF Kept
<1>14. OneOfEach' /\ Drafts' = {}
  BY <1>1, <1>12 DEF OneOfEach, Drafts
<1> QED
  BY <1>6, <1>7, <1>8, <1>12, <1>13, <1>14 DEF EditorInv

(* What is left of the requests of a page that is gone. *)
LEMMA UnheardFacts ==
  ASSUME EditorInv, EditorAssumption, NEW drafts, Gone(drafts)
  PROVE  /\ \A r \in pending' : \E p \in pending : r = [p EXCEPT !.heard = FALSE]
         /\ IsFiniteSet(pending') /\ Cardinality(pending') <= MaxRequests
<1> DEFINE S == {q \in pending : q.op \in {"graph", "yaml"} /\ ~q.served}
           f == [q \in S |-> [q EXCEPT !.heard = FALSE]]
<1>1. pending' = {[q EXCEPT !.heard = FALSE] : q \in S}
  BY DEF Gone
<1>2. /\ IsFiniteSet(pending) /\ Cardinality(pending) \in Nat /\ Cardinality(pending) <= MaxRequests
  BY FS_CardinalityType DEF EditorInv, OneOfEach
<1>3. IsFiniteSet(S) /\ Cardinality(S) <= Cardinality(pending) /\ Cardinality(S) \in Nat
  <2>1. S \in SUBSET pending
    OBVIOUS
  <2> QED
    BY <1>2, <2>1, FS_Subset, FS_CardinalityType
<1>4. f \in Surjection(S, pending')
  BY <1>1 DEF Surjection
<1>5. \A r \in pending' : \E p \in pending : r = [p EXCEPT !.heard = FALSE]
  BY <1>1
<1> HIDE DEF S, f
<1>6. IsFiniteSet(pending') /\ Cardinality(pending') <= Cardinality(S)
  BY <1>3, <1>4, FS_Surjection
<1>7. Cardinality(pending') \in Nat
  BY <1>6, FS_CardinalityType
<1> QED
  BY <1>2, <1>3, <1>5, <1>6, <1>7 DEF EditorAssumption

LEMMA GoneStep ==
  ASSUME EditorInv, EditorAssumption, NEW drafts, Gone(drafts), drafts \subseteq stored,
         UNCHANGED <<others, reloads>>, given' \in Content, given \subseteq given',
         1 .. mine \subseteq Held \cup given' \cup In(drafts)
  PROVE  EditorInv'
<1>1. /\ up' = FALSE /\ view' = "designer" /\ dirtyGraph' = FALSE /\ recovery' = {}
      /\ visual' = {} /\ hash' = {} /\ yamlText' = {} /\ yamlOriginal' = {} /\ base' = {}
      /\ stored' = drafts
      /\ UNCHANGED <<disk, mine, mixed>>
  BY DEF Gone
<1>2. Filed' = Filed /\ Held' = Held \cup given' /\ mine \in Nat /\ Grows
  BY <1>1 DEF Filed, Held, Grows, EditorInv, PageTyped
<1>3. PageTyped'
  BY <1>1 DEF EditorInv, PageTyped, Content, View
<1>4. PageBased'
  BY <1>1, <1>2 DEF EditorInv, PageBased, Early
<1>5. PageHeld'
  BY <1>1 DEF PageHeld
<1>6. \A d \in Drafts' : DraftOK(d)'
  BY <1>1, <1>2, DraftStays DEF EditorInv, Drafts
<1>7. \A r \in pending' : RequestOK(r)'
  <2> SUFFICES ASSUME NEW r \in pending' PROVE RequestOK(r)'
    OBVIOUS
  <2>1. PICK p \in pending : r = [p EXCEPT !.heard = FALSE]
    BY UnheardFacts
  <2>2. RequestOK(p)
    BY DEF EditorInv
  <2>3. /\ r \in Requests /\ r.op = p.op /\ r.sent = p.sent /\ r.hash = p.hash /\ r.base = p.base
        /\ r.got = p.got /\ r.next = p.next /\ r.heard = FALSE
    BY <2>1, <2>2 DEF RequestOK, Requests
  <2>4. RequestOK(r)
    BY <2>2, <2>3 DEF RequestOK
  <2> QED
    BY <1>2, <2>3, <2>4, RequestStays
<1>8. Kept'
  <2>1. ~editorDirty' /\ ~up'
    BY <1>1 DEF editorDirty, yamlDirty
  <2> QED
    BY <1>1, <1>2, <2>1 DEF Kept
<1>9. OneOfEach'
  BY <1>1, UnheardFacts DEF EditorInv, OneOfEach
<1> QED
  BY <1>3, <1>4, <1>5, <1>6, <1>7, <1>8, <1>9 DEF EditorInv

LEMMA GoneSteps ==
  ASSUME EditorInv, EditorAssumption, LeaveStudio \/ Dies
  PROVE  EditorInv'
<1>1. In(stored) \in Content /\ given \in Content /\ visual \in Content /\ yamlText \in Content
  <2>1. \A d \in stored : d.visual \in Content /\ d.yamlText \in Content
    BY DEF EditorInv, DraftOK, Draft, Drafts
  <2>2. In(stored) \in Content
    BY <2>1, InFacts DEF Content
  <2> QED
    BY <2>2 DEF EditorInv, PageTyped
<1>2. CASE Dies
  <2>1. Gone(stored) /\ UNCHANGED <<others, reloads, given>>
    BY <1>2 DEF Dies
  <2>2. 1 .. mine \subseteq Held \cup given' \cup In(stored)
    BY DEF EditorInv, Kept
  <2> QED
    BY <1>1, <2>1, <2>2, GoneStep
<1>3. CASE LeaveStudio
  <2>1. /\ Gone(IF editorDirty THEN {} ELSE stored) /\ UNCHANGED <<others, reloads>>
        /\ given' = given \cup (IF editorDirty THEN visual \cup yamlText \cup In(stored) ELSE {})
    BY <1>3 DEF LeaveStudio
  <2>2. 1 .. mine \subseteq Held \cup In(stored)
    BY DEF EditorInv, Kept
  <2>3. given' \in Content
    BY <1>1, <2>1 DEF Content
  <2>4. CASE editorDirty
    <3>1. Gone({}) /\ In(stored) \subseteq given' /\ given \subseteq given'
      BY <2>1, <2>4
    <3>2. 1 .. mine \subseteq Held \cup given' \cup In({})
      BY <2>2, <3>1
    <3> QED
      BY <2>1, <2>3, <3>1, <3>2, GoneStep
  <2>5. CASE ~editorDirty
    BY <2>1, <2>2, <2>3, <2>5, GoneStep
  <2> QED
    BY <2>4, <2>5
<1> QED
  BY <1>2, <1>3

--------------------------------------------------------------------------
LEMMA RestoreStep ==
  ASSUME EditorInv, EditorAssumption, RestoreWorkflowDraft
  PROVE  EditorInv'
<1>1. PICK d \in recovery :
       /\ d.hash = hash
       /\ visual' = d.visual /\ yamlText' = d.yamlText /\ base' = d.base /\ view' = d.view
       /\ dirtyGraph' = (d.visual # visual)
       /\ given' = given \cup ((visual \cup yamlText) \ (d.visual \cup d.yamlText))
                        \cup UNION {In(recovery) : p \in {q \in pending : q.heard}}
  BY DEF RestoreWorkflowDraft
<1>2. /\ up /\ recovery' = {} /\ Keep(stored)
      /\ UNCHANGED <<disk, up, hash, yamlOriginal, pending, mine, others, reloads, mixed>>
  BY DEF RestoreWorkflowDraft
<1>3. DraftOK(d) /\ d \in Draft
  BY DEF EditorInv, Drafts, DraftOK
<1>4. recovery = {d} /\ In(recovery) = d.visual \cup d.yamlText
  <2>1. recovery = {d}
    BY DEF EditorInv, OneOfEach
  <2> QED
    BY <2>1, InFacts
<1>5. /\ given \subseteq given' /\ given' \in Content
      /\ visual \cup yamlText \subseteq given' \cup visual' \cup yamlText'
      /\ \A p \in pending : p.heard => visual' \cup yamlText' \subseteq given'
  BY <1>1, <1>3, <1>4 DEF EditorInv, PageTyped, Draft, Content
<1>6. mine \in Nat /\ Filed' = Filed /\ Held \subseteq Held' /\ Grows
  BY <1>2, <1>5 DEF Filed, Held, Grows, EditorInv, PageTyped
<1>7. PageTyped'
  BY <1>1, <1>2, <1>3, <1>5 DEF EditorInv, PageTyped, Draft
<1>8. PageBased'
  <2>1. Early(visual)' /\ Early(yamlText)' /\ Early(Filed)'
    BY <1>1, <1>2, <1>3, <1>6 DEF EditorInv, PageBased, DraftOK, Early
  <2>2. hash' \cup yamlOriginal' \cup base' \subseteq Filed' /\ hash' \subseteq visual' /\ base' \subseteq yamlText'
    BY <1>1, <1>2, <1>3, <1>6 DEF EditorInv, PageBased, DraftOK
  <2> QED
    BY <1>2, <1>6, <2>1, <2>2 DEF EditorInv, PageBased
<1>9. PageHeld'
  <2>1. ~dirtyGraph' => visual' \subseteq Held'
    BY <1>1, <1>6 DEF EditorInv, PageHeld
  <2>2. (view' = "yaml" => visual' \subseteq Held') /\ (view' = "designer" => yamlText' \subseteq Held')
    BY <1>1, <1>3, <1>6 DEF DraftOK
  <2> QED
    BY <1>2, <2>1, <2>2 DEF PageHeld
<1>10. /\ \A e \in Drafts' : DraftOK(e)'
       /\ \A e, f \in stored' : e = f
       /\ \A e, f \in recovery' : e = f
  BY <1>2, <1>6, <1>7, <1>8, <1>9, KeepDrafts DEF EditorInv, Drafts, OneOfEach
<1>11. \A r \in pending' : RequestOK(r)'
  <2> SUFFICES ASSUME NEW r \in pending PROVE RequestOK(r)'
    BY <1>2
  <2>1. RequestOK(r) /\ (r.heard => visual' \cup yamlText' \subseteq Held')
    BY <1>5 DEF EditorInv, Held
  <2> QED
    BY <1>2, <1>6, <2>1, RequestStays
<1>12. Kept'
  <2>1. In(recovery') = {} /\ 1 .. mine' = 1 .. mine
    BY <1>2, InFacts
  <2>2. In(stored) \subseteq Held \cup visual \cup yamlText \cup In(recovery)
    BY <1>2 DEF EditorInv, Kept
  <2>3. In(stored) \subseteq Held' \cup visual' \cup yamlText'
    BY <1>1, <1>4, <1>5, <1>6, <2>2 DEF Held
  <2>4. CASE editorDirty'
    <3>1. In(stored') = visual' \cup yamlText'
      BY <1>2, <2>4, KeepFacts, InFacts
    <3> QED
      BY <1>6, <2>1, <2>3, <3>1 DEF EditorInv, Kept
  <2>5. CASE ~editorDirty'
    <3>1. In(stored') = In(stored)
      BY <1>2, <2>5, KeepFacts
    <3> QED
      BY <1>6, <2>1, <2>3, <3>1 DEF EditorInv, Kept
  <2> QED
    BY <2>4, <2>5
<1>13. OneOfEach'
  BY <1>2, <1>10 DEF EditorInv, OneOfEach
<1> QED
  BY <1>7, <1>8, <1>9, <1>10, <1>11, <1>12, <1>13 DEF EditorInv

LEMMA DiscardStep ==
  ASSUME EditorInv, EditorAssumption, DiscardWorkflowDraft
  PROVE  EditorInv'
<1>1. /\ up /\ stored' = {} /\ recovery' = {} /\ given' = given \cup In(Drafts)
      /\ UNCHANGED <<disk, pageVars, pending, mine, others, reloads, base, mixed>>
  <2>1. recovery \cup stored = Drafts
    BY DEF Drafts
  <2> QED
    BY <2>1 DEF DiscardWorkflowDraft
<1>2. In(Drafts) \in Content
  <2>1. \A d \in Drafts : d.visual \in Content /\ d.yamlText \in Content
    BY DEF EditorInv, DraftOK, Draft
  <2> QED
    BY <2>1, InFacts DEF Content
<1>3. Filed' = Filed /\ Held \cup In(Drafts) \subseteq Held' /\ mine \in Nat /\ Grows
  BY <1>1 DEF Filed, Held, Grows, EditorInv, PageTyped
<1>4. PageTyped'
  BY <1>1, <1>2 DEF EditorInv, PageTyped, pageVars, Content
<1>5. PageBased' /\ PageHeld'
  BY <1>1, <1>3 DEF EditorInv, PageBased, PageHeld, Early, pageVars
<1>6. \A r \in pending' : RequestOK(r)'
  BY <1>1, <1>3, RequestStays DEF EditorInv, RequestOK, pageVars
<1>7. Kept'
  <2>1. In(stored) \subseteq Held'
    BY <1>3, InFacts DEF Drafts
  <2>2. 1 .. mine \subseteq Held'
    BY <1>3, <2>1 DEF EditorInv, Kept
  <2> QED
    BY <1>1, <2>2, InFacts DEF Kept
<1>8. OneOfEach' /\ Drafts' = {}
  BY <1>1 DEF EditorInv, OneOfEach, Drafts
<1> QED
  BY <1>4, <1>5, <1>6, <1>7, <1>8 DEF EditorInv

LEMMA EditorStart == EditorAssumption /\ EditorInit => EditorInv
<1> SUFFICES ASSUME EditorAssumption, EditorInit PROVE EditorInv
  OBVIOUS
<1>1. PageTyped
  <2>1. {} \in Content /\ "designer" \in View /\ {MaxMine, MaxTheirs, MaxReloads} \subseteq Nat
    BY DEF Content, View, EditorAssumption
  <2>2. {disk, visual, hash, yamlText, yamlOriginal, base, given, mixed} \subseteq Content
    BY <2>1 DEF EditorInit
  <2>3. view \in View /\ up \in BOOLEAN /\ dirtyGraph \in BOOLEAN
    BY <2>1 DEF EditorInit
  <2>4. mine \in 0 .. MaxMine /\ others \in 0 .. MaxTheirs /\ reloads \in 0 .. MaxReloads
    BY <2>1 DEF EditorInit
  <2> QED
    BY <2>2, <2>3, <2>4 DEF PageTyped
<1>2. PageBased /\ PageHeld
  BY DEF EditorInit, PageBased, PageHeld, Early, Filed
<1>3. Kept
  BY InFacts DEF EditorInit, Kept, editorDirty, yamlDirty
<1>4. OneOfEach /\ Drafts = {} /\ pending = {}
  BY FS_EmptySet DEF EditorInit, OneOfEach, Drafts, EditorAssumption
<1> QED
  BY <1>1, <1>2, <1>3, <1>4 DEF EditorInv

LEMMA EditorStep == EditorAssumption /\ EditorInv /\ [EditorNext]_editorVars => EditorInv'
<1> SUFFICES ASSUME EditorAssumption, EditorInv, [EditorNext]_editorVars PROVE EditorInv'
  OBVIOUS
<1>1. CASE UNCHANGED editorVars
  <2>1. PageUnmoved /\ pending' = pending
    BY <1>1 DEF editorVars, PageUnmoved
  <2> QED
    BY <2>1, OnlyRequests DEF EditorInv, OneOfEach
<1>2. CASE EditorNext
  BY <1>2, EditStep, OtherSavesStep, SaveStep, ServeSaveStep, ServeReadStep, SavedStep, YamlSavedStep,
     RefusedStep, SwitchedStep, OpenPageStep, LoadAnsweredStep, ReloadStudioStep, GoneSteps,
     RestoreStep, DiscardStep DEF EditorNext
<1> QED
  BY <1>1, <1>2

LEMMA EditorInvariant == EditorSpec => []EditorInv
BY EditorAssumption, EditorStart, EditorStep, PTL DEF EditorSpec

(* EditsSafe: an edit is on the canvas, in the text, on its way, in the file or in *)
(* the draft that the next page offers.                                          *)
THEOREM NoEditIsLost == EditorSpec => []EditsSafe
<1>1. EditorInv => EditsSafe
  <2> SUFFICES ASSUME EditorInv PROVE EditsSafe
    OBVIOUS
  <2>1. EditorTypeOK
    <3>1. stored \subseteq Draft /\ recovery \subseteq Draft
      BY DEF EditorInv, Drafts, DraftOK
    <3>2. /\ Cardinality(stored) <= 1 /\ Cardinality(recovery) <= 1
          /\ Cardinality(pending) <= MaxRequests
      BY SoleCardinality DEF EditorInv, OneOfEach, Sole
    <3> QED
      BY <3>1, <3>2 DEF EditorInv, PageTyped, EditorTypeOK
  <2>2. 1 .. mine \subseteq Held \cup In(stored \cup recovery)
    BY InFacts DEF EditorInv, Kept
  <2>3. {-i : i \in 1 .. others} \subseteq disk \cup mixed
    BY DEF EditorInv, PageBased, Filed
  <2> QED
    BY <2>1, <2>2, <2>3 DEF EditsSafe, Held, Filed
<1> QED
  BY <1>1, EditorInvariant, PTL

(***************************************************************************)
(* PromptEditor: what was typed is in the file, in a kept draft, was given up *)
(* by the user, or is lost with an outdated draft of a Prompt that is behind,  *)
(* for any number of Prompts, pages and other editors.                       *)
(***************************************************************************)
(* What belongs in the file of a Prompt, what of its changes needs no draft, and  *)
(* what does not get lost.                                                       *)
Own(p) == {<<p, 0>>} \cup {c \in made : c[1] = p}
Settled(p) == dropped \cup promptFile[p] \cup {c \in outdated : p \in behind}
Safe(p) == Settled(p) \cup UNION {d.content : d \in promptDraft[p]}

(* Of a draft, a question and a save: the text was made from the file of its hash. *)
MadeFrom(t, p) == t.hash \subseteq t.content /\ t.content \subseteq Own(p)

PFile(p) ==
  /\ promptFile[p] \subseteq Own(p)
  /\ \A c \in made : c[1] = p => c \in Safe(p) /\ (c[2] < 0 => c \in promptFile[p])

(* Saves only add, so what was loaded at any time is still in the file. *)
PSeen(p) ==
  /\ \A content \in cache[p] : content \subseteq promptFile[p]
  /\ \A o \in opening : o.prompt = p => \A content \in o.got : content \subseteq promptFile[p]

PDraft(p) == \A d \in promptDraft[p] : MadeFrom(d, p)

POffer(p) ==
  \A o \in offer : o.prompt = p => MadeFrom(o, p) /\ New(o.content) \subseteq Safe(p)

PShown(p) ==
  p \in studioFile /\ opening = {} =>
    /\ studioOriginal \subseteq textarea /\ textarea \subseteq Own(p)
    /\ New(textarea) \subseteq Safe(p)

(* The draft that a save will remove says no more than the save does. *)
PSaving(p) ==
  \A s \in saving : s.prompt = p =>
    /\ MadeFrom(s, p)
    /\ s.at = "saved" => s.content \subseteq promptFile[p]
    /\ s.at # "unheard" => \A d \in promptDraft[p] : New(d.content) \subseteq s.content \cup Settled(p)

(* The draft that typing will replace says no more than the text does, or the     *)
(* text that it is about to be replaced by.                                      *)
PText(p) ==
  p \in studioFile /\ opening = {} =>
    \A d \in promptDraft[p] : \A c \in New(d.content) :
      \/ c \in Settled(p)
      \/ offer = {} /\ c \in textarea
      \/ \E o \in offer : o.prompt = p /\ c \in o.content

(* Unless the Prompt is behind, its draft and the text that is open were made from what  *)
(* its file still is, or a save has just put them there.                            *)
PFresh(p) ==
  p \notin behind =>
    /\ \A d \in promptDraft[p] : d.hash = promptFile[p] \/ New(d.content) \subseteq Settled(p)
    /\ \A s \in saving : s.prompt = p /\ s.at = "saved" => s.content = promptFile[p]
    /\ p \in studioFile /\ opening = {} =>
         \/ studioOriginal = promptFile[p]
         \/ New(textarea) \subseteq Settled(p) /\ \E s \in saving : s.prompt = p /\ s.at = "saved"

PInv(p) ==
  PFile(p) /\ PSeen(p) /\ PDraft(p) /\ POffer(p) /\ PShown(p) /\ PSaving(p) /\ PText(p) /\ PFresh(p)

Text == SUBSET PromptChange
PromptTyped ==
  /\ promptFile \in [PromptId -> Text] /\ studioFile \subseteq PromptId
  /\ {textarea, studioOriginal, dropped, outdated, made} \subseteq Text
  /\ crossed \subseteq PromptId /\ behind \subseteq PromptId
  /\ promptDraft \in [PromptId -> SUBSET KeptDraft] /\ cache \in [PromptId -> SUBSET Text]
  /\ opening \subseteq [prompt : PromptId, got : SUBSET Text]
  /\ saving \subseteq [at : {"check", "write", "saved", "unheard"}, prompt : PromptId,
                       content : Text, hash : Text]
  /\ offer \subseteq [prompt : PromptId, hash : Text, content : Text]
  /\ typed \in 0 .. MaxTyped /\ foreign \in 0 .. MaxForeign /\ deaths \in 0 .. MaxDeaths
  /\ Sole(studioFile) /\ Sole(opening) /\ Sole(saving) /\ Sole(offer)
  /\ \A p \in PromptId : Sole(promptDraft[p]) /\ Sole(cache[p])
  /\ offer # {} => opening = {}
  /\ \A c \in made : c[2] # 0

PromptInv == PromptTyped /\ \A p \in PromptId \ crossed : PInv(p)

--------------------------------------------------------------------------
LEMMA PromptInitInv == PromptInit => PromptInv
<1> SUFFICES ASSUME PromptInit PROVE PromptInv
  OBVIOUS
<1>1. PromptTyped
  BY PromptAssumption DEF PromptInit, PromptTyped, Sole, Text, PromptChange
<1>2. ASSUME NEW p \in PromptId \ crossed PROVE PInv(p)
  BY DEF PromptInit, PInv, PFile, PSeen, PDraft, POffer, PShown, PSaving, PText, PFresh, Own, Settled, Safe
<1> QED
  BY <1>1, <1>2 DEF PromptInv

LEMMA TextFacts ==
  /\ \A c \in Text : \A h \in Text : [hash |-> h, content |-> c] \in KeptDraft
  /\ \A d \in KeptDraft : d.hash \in Text /\ d.content \in Text
  /\ \A c \in Text : New(c) \in Text
  /\ \A D \in SUBSET KeptDraft : InDrafts(D) \in Text
  /\ \A drafts : Forgotten(drafts) \in Text \/ ~(promptDraft \in [PromptId -> SUBSET KeptDraft])
<1>1. /\ \A c \in Text : \A h \in Text : [hash |-> h, content |-> c] \in KeptDraft
      /\ \A d \in KeptDraft : d.hash \in Text /\ d.content \in Text
  BY DEF KeptDraft, Text
<1>2. \A c \in Text : New(c) \in Text
  BY DEF New, Text
<1>3. ASSUME NEW D \in SUBSET KeptDraft
      PROVE  InDrafts(D) \in Text
  BY <1>1, <1>2 DEF InDrafts, Text
<1>4. ASSUME NEW drafts, promptDraft \in [PromptId -> SUBSET KeptDraft]
      PROVE  Forgotten(drafts) \in Text
  <2>1. UNION {promptDraft[q] \ drafts[q] : q \in PromptId} \in SUBSET KeptDraft
    BY <1>4
  <2> QED
    BY <1>3, <2>1 DEF Forgotten
<1> QED
  BY <1>1, <1>2, <1>3, <1>4

(* What was typed and is in a draft is dropped when the draft is forgotten. *)
LEMMA DraftFacts ==
  /\ \A D, d, c : d \in D /\ c \in d.content /\ c[2] > 0 => c \in InDrafts(D)
  /\ \A drafts, d, c : \A p \in PromptId :
       d \in promptDraft[p] /\ d \notin drafts[p] /\ c \in d.content /\ c[2] > 0 => c \in Forgotten(drafts)
<1>1. \A D, d, c : d \in D /\ c \in d.content /\ c[2] > 0 => c \in InDrafts(D)
  BY DEF InDrafts, New
<1>2. ASSUME NEW drafts, NEW d, NEW c, NEW p \in PromptId,
             d \in promptDraft[p], d \notin drafts[p], c \in d.content, c[2] > 0
      PROVE  c \in Forgotten(drafts)
  <2>1. d \in UNION {promptDraft[q] \ drafts[q] : q \in PromptId}
    BY <1>2
  <2> QED
    BY <1>1, <1>2, <2>1 DEF Forgotten
<1> QED
  BY <1>1, <1>2

--------------------------------------------------------------------------
(* Types, and at most one of everything. *)
DraftsTyped(drafts) ==
  drafts \in [PromptId -> SUBSET KeptDraft] /\ \A p \in PromptId : Sole(drafts[p])

LEMMA DiscardedTyped == PromptTyped => DraftsTyped(Discarded)
BY DEF PromptTyped, DraftsTyped, Discarded, Sole

LEMMA ShownTypes ==
  ASSUME PromptTyped, NEW p \in PromptId, NEW content \in Text, NEW drafts, DraftsTyped(drafts),
         Shown(p, content, drafts)
  PROVE  /\ studioFile' = {p} /\ textarea' \in Text /\ studioOriginal' \in Text
         /\ DraftsTyped(promptDraft') /\ dropped' \in Text /\ outdated' \in Text /\ behind' \subseteq PromptId
         /\ offer' \subseteq [prompt : PromptId, hash : Text, content : Text] /\ Sole(offer')
<1>1. PICK valid : valid = {d \in drafts[p] : StillValid(d, content) /\ d.content # content}
  OBVIOUS
<1>2. /\ studioFile' = {p} /\ textarea' = content /\ studioOriginal' = content
      /\ promptDraft' = [drafts EXCEPT ![p] = valid]
      /\ offer' = {[prompt |-> p, hash |-> content, content |-> d.content] : d \in valid}
      /\ outdated' = outdated \cup InDrafts({d \in drafts[p] : ~StillValid(d, content)})
      /\ dropped' = dropped \cup Forgotten(drafts)
      /\ behind' = IF content = promptFile[p] THEN behind ELSE behind \cup {p}
  BY <1>1 DEF Shown
<1>3. valid \subseteq drafts[p] /\ valid \subseteq KeptDraft /\ Sole(valid)
  BY <1>1 DEF DraftsTyped, Sole
<1>4. DraftsTyped(promptDraft')
  BY <1>2, <1>3 DEF DraftsTyped
<1>5. offer' \subseteq [prompt : PromptId, hash : Text, content : Text]
  BY <1>2, <1>3, TextFacts
<1>6. Sole(offer')
  BY <1>2, <1>3 DEF Sole
<1>7. InDrafts({d \in drafts[p] : ~StillValid(d, content)}) \in Text /\ Forgotten(drafts) \in Text
  BY TextFacts DEF DraftsTyped, PromptTyped
<1> QED
  BY <1>2, <1>4, <1>5, <1>6, <1>7 DEF PromptTyped, Text

LEMMA PromptTypes == PromptTyped /\ PromptNext => PromptTyped'
<1> SUFFICES ASSUME PromptTyped, PromptNext PROVE PromptTyped'
  OBVIOUS
<1> USE DEF fileVars
<1>1. ASSUME Type PROVE PromptTyped'
  <2>1. PICK p \in studioFile : \E change \in {<<p, typed + 1>>} :
          /\ textarea' = textarea \cup {change}
          /\ promptDraft' = [promptDraft EXCEPT ![p] = {[hash |-> studioOriginal, content |-> textarea']}]
          /\ dropped' = IF saving = {} THEN dropped ELSE dropped \cup {change}
          /\ made' = made \cup {change}
    BY <1>1 DEF Type
  <2>2. <<p, typed + 1>> \in PromptChange /\ typed + 1 \in 0 .. MaxTyped /\ typed + 1 # 0
    BY <1>1, PromptAssumption DEF Type, PromptTyped, PromptChange
  <2>3. {textarea', dropped', made'} \subseteq Text /\ \A c \in made' : c[2] # 0
    BY <2>1, <2>2 DEF PromptTyped, Text
  <2>4. DraftsTyped(promptDraft')
    <3>1. PICK d : d = [hash |-> studioOriginal, content |-> textarea']
      OBVIOUS
    <3>2. d \in KeptDraft /\ p \in PromptId
      BY <2>3, <3>1, TextFacts DEF PromptTyped
    <3>3. promptDraft' = [promptDraft EXCEPT ![p] = {d}]
      BY <2>1, <3>1
    <3> QED
      BY <3>2, <3>3 DEF PromptTyped, DraftsTyped, Sole
  <2>5. /\ promptDraft' \in [PromptId -> SUBSET KeptDraft]
        /\ \A q \in PromptId : Sole(promptDraft'[q]) /\ Sole(cache[q])
    BY <2>4 DEF PromptTyped, DraftsTyped
  <2>6. /\ UNCHANGED <<promptFile, studioFile, studioOriginal, opening, saving, offer, cache, foreign,
                       deaths, crossed, outdated, behind>>
        /\ typed' = typed + 1
    BY <1>1 DEF Type
  <2> QED
    BY <2>2, <2>3, <2>5, <2>6 DEF PromptTyped
<1>2. ASSUME OtherEditorSaves PROVE PromptTyped'
  <2>1. PICK p \in PromptId :
          /\ promptFile' = [promptFile EXCEPT ![p] = @ \cup {<<p, -foreign'>>}]
          /\ made' = made \cup {<<p, -foreign'>>} /\ behind' = behind \cup {p}
    BY <1>2 DEF OtherEditorSaves
  <2>2. <<p, -foreign'>> \in PromptChange /\ foreign' \in 0 .. MaxForeign /\ -foreign' # 0
    BY <1>2, PromptAssumption DEF OtherEditorSaves, PromptTyped, PromptChange
  <2>3. promptFile' \in [PromptId -> Text] /\ made' \in Text /\ \A c \in made' : c[2] # 0
    BY <2>1, <2>2 DEF PromptTyped, Text
  <2> QED
    BY <1>2, <2>1, <2>2, <2>3 DEF OtherEditorSaves, PromptTyped
<1>3. ASSUME OpenStudioFile PROVE PromptTyped'
  <2>1. PICK p \in PromptId, asks \in Asks : Fetch(p, IF asks /\ ~Open(p) THEN Discarded ELSE promptDraft)
    BY <1>3 DEF OpenStudioFile
  <2>2. PICK drafts : drafts = IF asks /\ ~Open(p) THEN Discarded ELSE promptDraft
    OBVIOUS
  <2>3. DraftsTyped(drafts) /\ Fetch(p, drafts)
    BY <2>1, <2>2, DiscardedTyped DEF PromptTyped, DraftsTyped
  <2>4. CASE \E content \in cache[p] : Shown(p, content, drafts) /\ opening' = {}
    <3>1. PICK content \in cache[p] : Shown(p, content, drafts) /\ opening' = {}
      BY <2>4
    <3>2. content \in Text
      BY DEF PromptTyped
    <3> QED
      BY <1>3, <2>3, <3>1, <3>2, ShownTypes DEF OpenStudioFile, PromptTyped, DraftsTyped, Sole
  <2>5. CASE ~\E content \in cache[p] : Shown(p, content, drafts) /\ opening' = {}
    <3>1. /\ studioFile' = {p} /\ textarea' = {} /\ promptDraft' = drafts
          /\ opening' = {[prompt |-> p, got |-> {}]}
          /\ dropped' = dropped \cup Forgotten(drafts)
          /\ UNCHANGED <<studioOriginal, offer, outdated, behind>>
      BY <2>3, <2>5 DEF Fetch
    <3>2. dropped' \in Text /\ textarea' \in Text
      BY <3>1, TextFacts DEF PromptTyped, Text
    <3> QED
      BY <1>3, <2>3, <3>1, <3>2 DEF OpenStudioFile, PromptTyped, DraftsTyped, Sole, NoDialog
  <2> QED
    BY <2>4, <2>5
<1>4. ASSUME ReloadPrompt PROVE PromptTyped'
  <2>1. PICK p \in studioFile :
       /\ cache' = [cache EXCEPT ![p] = {}]
       /\ promptDraft' = Discarded /\ dropped' = dropped \cup New(textarea)
       /\ textarea' = {} /\ opening' = {[prompt |-> p, got |-> {}]}
    BY <1>4 DEF ReloadPrompt
  <2>2. dropped' \in Text /\ textarea' \in Text
    BY <2>1, TextFacts DEF PromptTyped, Text
  <2>3. DraftsTyped(promptDraft')
    BY <2>1, DiscardedTyped
  <2>4. cache' \in [PromptId -> SUBSET Text] /\ \A q \in PromptId : Sole(cache'[q])
    BY <2>1 DEF PromptTyped, Sole
  <2> QED
    BY <1>4, <2>1, <2>2, <2>3, <2>4 DEF ReloadPrompt, PromptTyped, DraftsTyped, Sole, NoDialog
<1>5. ASSUME ServeLoad PROVE PromptTyped'
  <2>1. PICK o \in opening : o.got = {} /\ opening' = {[o EXCEPT !.got = {promptFile[o.prompt]}]}
    BY <1>5 DEF ServeLoad
  <2>2. [o EXCEPT !.got = {promptFile[o.prompt]}] \in [prompt : PromptId, got : SUBSET Text]
    BY DEF PromptTyped
  <2> QED
    BY <1>5, <2>1, <2>2 DEF ServeLoad, PromptTyped, Sole
<1>6. ASSUME PromptLoaded PROVE PromptTyped'
  <2>0. PICK o \in opening : \E content \in o.got :
          cache' = [cache EXCEPT ![o.prompt] = {content}] /\ Shown(o.prompt, content, promptDraft)
    BY <1>6 DEF PromptLoaded
  <2>1. PICK content \in o.got :
          cache' = [cache EXCEPT ![o.prompt] = {content}] /\ Shown(o.prompt, content, promptDraft)
    BY <2>0
  <2>2. o.prompt \in PromptId /\ content \in Text /\ DraftsTyped(promptDraft)
    BY DEF PromptTyped, DraftsTyped
  <2>3. cache' \in [PromptId -> SUBSET Text] /\ \A q \in PromptId : Sole(cache'[q])
    BY <2>1, <2>2 DEF PromptTyped, Sole
  <2> QED
    BY <1>6, <2>1, <2>2, <2>3, ShownTypes DEF PromptLoaded, PromptTyped, DraftsTyped, Sole
<1>7. ASSUME RestoreDraft PROVE PromptTyped'
  BY <1>7 DEF RestoreDraft, PromptTyped, Sole
<1>8. ASSUME DiscardDraft PROVE PromptTyped'
  <2>1. PICK o \in offer : /\ promptDraft' = [promptDraft EXCEPT ![o.prompt] = {}]
                           /\ dropped' = dropped \cup InDrafts(promptDraft[o.prompt])
    BY <1>8 DEF DiscardDraft
  <2>2. DraftsTyped(promptDraft') /\ dropped' \in Text
    BY <2>1, TextFacts DEF PromptTyped, DraftsTyped, Sole, Text
  <2> QED
    BY <1>8, <2>2 DEF DiscardDraft, PromptTyped, DraftsTyped, Sole
<1>9. ASSUME SaveStudio PROVE PromptTyped'
  BY <1>9 DEF SaveStudio, PromptTyped, Sole
<1>10. ASSUME CheckAnswered PROVE PromptTyped'
  <2>1. PICK s \in saving :
          \/ saving' = {} /\ UNCHANGED crossed
          \/ \E p \in studioFile :
               /\ saving' = {[s EXCEPT !.at = "write", !.prompt = p, !.hash = studioOriginal]}
               /\ crossed' = IF p = s.prompt /\ s.hash = studioOriginal THEN crossed
                             ELSE crossed \cup {p}
    BY <1>10 DEF CheckAnswered
  <2> QED
    BY <1>10, <2>1 DEF CheckAnswered, PromptTyped, Sole
<1>11. ASSUME ServeStudioSave PROVE PromptTyped'
  <2>1. PICK s \in saving :
         IF s.hash = promptFile[s.prompt]
          THEN /\ promptFile' = [promptFile EXCEPT ![s.prompt] = s.content]
               /\ saving' = IF s.at = "write" THEN {[s EXCEPT !.at = "saved"]} ELSE {}
               /\ behind' = IF s.at = "write" THEN behind ELSE behind \cup {s.prompt}
          ELSE saving' = {} /\ UNCHANGED <<promptFile, behind>>
    BY <1>11 DEF ServeStudioSave
  <2> QED
    BY <1>11, <2>1 DEF ServeStudioSave, PromptTyped, Sole
<1>12. ASSUME StudioSaved PROVE PromptTyped'
  <2>1. PICK s \in saving :
          /\ studioFile' = {s.prompt} /\ textarea' = s.content /\ studioOriginal' = s.content
          /\ promptDraft' = [promptDraft EXCEPT ![s.prompt] = {}]
    BY <1>12 DEF StudioSaved
  <2>2. DraftsTyped(promptDraft')
    BY <2>1 DEF PromptTyped, DraftsTyped, Sole
  <2> QED
    BY <1>12, <2>1, <2>2 DEF StudioSaved, PromptTyped, DraftsTyped, Sole
<1>13. ASSUME PageDies PROVE PromptTyped'
  <2>1. cache' \in [PromptId -> SUBSET Text] /\ \A q \in PromptId : Sole(cache'[q])
    BY <1>13 DEF PageDies, Sole
  <2>2. saving' \subseteq [at : {"check", "write", "saved", "unheard"}, prompt : PromptId,
                           content : Text, hash : Text] /\ Sole(saving')
    BY <1>13 DEF PageDies, PromptTyped, Sole
  <2>3. deaths' \in 0 .. MaxDeaths /\ {} \in Text
    BY <1>13, PromptAssumption DEF PageDies, PromptTyped, Text
  <2> QED
    BY <1>13, <2>1, <2>2, <2>3 DEF PageDies, PromptTyped, Sole
<1> QED
  BY <1>1, <1>2, <1>3, <1>4, <1>5, <1>6, <1>7, <1>8, <1>9, <1>10, <1>11, <1>12, <1>13 DEF PromptNext

--------------------------------------------------------------------------
(* What no step takes away from a Prompt that is not crossed. *)
Keeps(p) ==
  /\ promptFile[p] \subseteq promptFile'[p] /\ dropped \subseteq dropped' /\ made \subseteq made'
  /\ outdated \subseteq outdated' /\ behind \subseteq behind'
  /\ \A d \in promptDraft[p] : \A c \in New(d.content) : c \in Settled(p)' \/ \E e \in promptDraft'[p] : c \in e.content

LEMMA KeepsFacts ==
  ASSUME NEW p, Keeps(p)
  PROVE  /\ Settled(p) \subseteq Settled(p)' /\ Own(p) \subseteq Own(p)'
         /\ \A c \in Safe(p) : c[2] > 0 => c \in Safe(p)'
         /\ \A t : MadeFrom(t, p) => MadeFrom(t, p)'
<1>1. Settled(p) \subseteq Settled(p)' /\ Own(p) \subseteq Own(p)'
  BY DEF Keeps, Settled, Own
<1>2. \A c \in Safe(p) : c[2] > 0 => c \in Safe(p)'
  BY <1>1 DEF Keeps, Safe, New
<1> QED
  BY <1>1, <1>2 DEF MadeFrom

LEMMA NewFacts == \A content, c : c \in New(content) <=> c \in content /\ c[2] > 0
BY DEF New

LEMMA FileKeeps ==
  ASSUME PromptTyped, NEW p, Keeps(p), PFile(p), made' = made, promptFile'[p] \subseteq Own(p)
  PROVE  PFile(p)'
<1>1. \A c \in made : c[2] \in Int /\ c[2] # 0
  BY PromptAssumption DEF PromptTyped, Text, PromptChange
<1>2. ASSUME NEW c \in made, c[1] = p
      PROVE  c \in Safe(p)' /\ (c[2] < 0 => c \in promptFile'[p])
  <2>1. CASE c[2] < 0
    <3>1. c \in promptFile'[p]
      BY <1>2, <2>1 DEF PFile, Keeps
    <3> QED
      BY <3>1 DEF Safe, Settled
  <2>2. CASE c[2] > 0
    BY <1>1, <1>2, <2>2, KeepsFacts DEF PFile
  <2> QED
    BY <1>1, <2>1, <2>2
<1> QED
  BY <1>2 DEF PFile, Own

LEMMA ShownKeeps ==
  ASSUME PromptTyped, NEW p \in PromptId, PInv(p), NEW q \in PromptId, NEW content,
         NEW drafts, DraftsTyped(drafts), \A x \in PromptId : drafts[x] \in {promptDraft[x], {}},
         Shown(q, content, drafts), p = q => content \subseteq promptFile[q],
         UNCHANGED <<fileVars, saving, crossed>>, opening' = {},
         \A c \in cache'[p] : c \subseteq promptFile[p]
  PROVE  PInv(p)'
<1> USE DEF fileVars
<1>1. PICK valid : valid = {d \in drafts[q] : StillValid(d, content) /\ d.content # content}
  OBVIOUS
<1>2. PICK gone : gone = {d \in drafts[q] : ~StillValid(d, content)}
  OBVIOUS
<1>3. /\ studioFile' = {q} /\ textarea' = content /\ studioOriginal' = content
      /\ promptDraft' = [drafts EXCEPT ![q] = valid]
      /\ offer' = {[prompt |-> q, hash |-> content, content |-> d.content] : d \in valid}
      /\ dropped' = dropped \cup Forgotten(drafts) /\ outdated' = outdated \cup InDrafts(gone)
      /\ behind' = IF content = promptFile[q] THEN behind ELSE behind \cup {q}
  BY <1>1, <1>2 DEF Shown
<1>4. promptDraft'[p] = (IF p = q THEN valid ELSE drafts[p]) /\ promptDraft'[p] \subseteq promptDraft[p]
  BY <1>1, <1>3 DEF DraftsTyped
<1>5. Keeps(p)
  <2>1. ASSUME NEW d \in promptDraft[p], NEW c \in New(d.content), d \notin promptDraft'[p]
        PROVE  c \in Settled(p)'
    <3>1. c \in d.content /\ c[2] > 0
      BY <2>1, NewFacts
    <3>2. CASE d \notin drafts[p]
      BY <1>3, <3>1, <3>2, DraftFacts DEF Settled
    <3>3. CASE d \in drafts[p] /\ d \in gone
      <4>1. CASE p \in behind'
        BY <1>3, <3>1, <3>3, <4>1, DraftFacts DEF Settled
      <4>2. CASE p \notin behind'
        <5>1. p = q /\ d.hash # content /\ content = promptFile[p] /\ p \notin behind
          BY <1>2, <1>3, <1>4, <2>1, <3>3, <4>2 DEF StillValid
        <5>2. c \in Settled(p)
          BY <2>1, <5>1 DEF PInv, PFresh
        <5> QED
          BY <1>3, <5>1, <5>2 DEF Settled
      <4> QED
        BY <4>1, <4>2
    <3>4. CASE d \in drafts[p] /\ d \notin gone
      <4>1. p = q /\ d.content = content
        BY <1>1, <1>2, <1>4, <2>1, <3>4
      <4> QED
        BY <3>1, <4>1 DEF Settled
    <3> QED
      BY <3>2, <3>3, <3>4
  <2> QED
    BY <1>3, <2>1, NewFacts DEF Keeps
<1>6. PFile(p)'
  BY <1>5, FileKeeps DEF PInv, PFile, Own
<1>7. PSeen(p)'
  BY DEF PSeen
<1>8. PDraft(p)'
  BY <1>4, <1>5, KeepsFacts DEF PInv, PDraft
<1>9. POffer(p)'
  <2>1. \A d \in valid : d.hash = content
    BY <1>1 DEF StillValid
  <2> QED
    BY <1>3, <1>4, <1>8, <2>1, NewFacts DEF POffer, PDraft, MadeFrom, Safe
<1>10. PShown(p)'
  BY <1>3, <1>6, NewFacts DEF PShown, PFile, Safe, Settled
<1>11. PSaving(p)'
  BY <1>3, <1>4, <1>5, KeepsFacts DEF PInv, PSaving
<1>12. PText(p)'
  <2>1. ASSUME p = q, NEW d \in promptDraft'[p], NEW c \in New(d.content)
        PROVE  \E o \in offer' : o.prompt = p /\ c \in o.content
    <3>1. PICK o : o = [prompt |-> q, hash |-> content, content |-> d.content]
      OBVIOUS
    <3>2. o \in offer'
      BY <1>3, <1>4, <2>1, <3>1
    <3>3. o.prompt = p /\ c \in o.content
      BY <2>1, <3>1, NewFacts
    <3> QED
      BY <3>2, <3>3
  <2> QED
    BY <1>3, <2>1 DEF PText
<1>13. PFresh(p)'
  <2>1. ASSUME p \notin behind'
        PROVE  p \notin behind /\ (p = q => content = promptFile[p])
    BY <1>3, <2>1
  <2>2. ASSUME p \notin behind', NEW d \in promptDraft'[p]
        PROVE  d.hash = promptFile[p] \/ New(d.content) \subseteq Settled(p)'
    BY <1>4, <1>5, <2>1, <2>2, KeepsFacts DEF PInv, PFresh
  <2>3. ASSUME p \notin behind', p \in studioFile'
        PROVE  studioOriginal' = promptFile[p]
    BY <1>3, <2>1, <2>3
  <2>4. ASSUME p \notin behind', NEW s \in saving, s.prompt = p, s.at = "saved"
        PROVE  s.content = promptFile[p]
    BY <2>1, <2>4 DEF PInv, PFresh
  <2> QED
    BY <2>2, <2>3, <2>4 DEF PFresh
<1> QED
  BY <1>6, <1>7, <1>8, <1>9, <1>10, <1>11, <1>12, <1>13 DEF PInv

LEMMA TypeKeeps ==
  ASSUME PromptTyped, Type, NEW p \in PromptId, PInv(p)
  PROVE  PInv(p)'
<1> USE DEF fileVars
<1>1. PICK q, change, draft :
        /\ q \in studioFile
        /\ change = <<q, typed + 1>> /\ draft = [hash |-> studioOriginal, content |-> textarea']
        /\ textarea' = textarea \cup {change}
        /\ promptDraft' = [promptDraft EXCEPT ![q] = {draft}]
        /\ dropped' = IF saving = {} THEN dropped ELSE dropped \cup {change}
        /\ made' = made \cup {change}
  BY DEF Type
<1>2. offer = {} /\ opening = {} /\ typed \in Nat /\ typed + 1 > 0 /\ ~(typed + 1 < 0)
  BY PromptAssumption DEF Type, NoDialog, PromptTyped
<1>3. UNCHANGED <<promptFile, studioFile, studioOriginal, opening, saving, offer, cache, outdated, behind>>
  BY DEF Type
<1>4. CASE p # q
  <2>1. p \notin studioFile
    BY <1>1, <1>4 DEF PromptTyped, Sole
  <2>2. promptDraft'[p] = promptDraft[p] /\ Own(p)' = Own(p)
    BY <1>1, <1>4 DEF PromptTyped, Own
  <2>3. Keeps(p)
    BY <1>1, <1>3, <2>2, NewFacts DEF Keeps
  <2>4. PFile(p)'
    BY <1>1, <1>3, <1>4, <2>2, <2>3 DEF PInv, PFile, Safe, Settled
  <2>5. PSeen(p)' /\ PDraft(p)' /\ POffer(p)'
    BY <1>2, <1>3, <2>2 DEF PInv, PSeen, PDraft, POffer, MadeFrom
  <2>6. PSaving(p)'
    BY <1>3, <2>2, <2>3, KeepsFacts DEF PInv, PSaving, MadeFrom
  <2>7. PFresh(p)'
    BY <1>3, <2>1, <2>2, <2>3, KeepsFacts DEF PInv, PFresh
  <2> QED
    BY <1>3, <2>1, <2>4, <2>5, <2>6, <2>7 DEF PInv, PShown, PText
<1>5. CASE p = q
  <2>1. promptDraft'[p] = {draft} /\ draft.hash = studioOriginal /\ draft.content = textarea'
    BY <1>1, <1>5 DEF PromptTyped
  <2>2. Keeps(p)
    BY <1>1, <1>2, <1>3, <1>5, <2>1 DEF PInv, PText, Keeps, Settled
  <2>3. change \in Own(p)' /\ change[1] = p /\ ~(change[2] < 0)
    BY <1>1, <1>2, <1>5 DEF Own
  <2>4. studioOriginal' \subseteq textarea' /\ textarea' \subseteq Own(p)'
    BY <1>1, <1>2, <1>3, <1>5, <2>2, <2>3, KeepsFacts DEF PInv, PShown
  <2>5. PFile(p)'
    <3>1. promptFile'[p] \subseteq Own(p)'
      BY <1>3, <2>2, KeepsFacts DEF PInv, PFile
    <3>2. ASSUME NEW c \in made, c[1] = p
          PROVE  c \in Safe(p)' /\ (c[2] < 0 => c \in promptFile'[p])
      <4>1. c \in Safe(p) /\ (c[2] < 0 => c \in promptFile[p]) /\ c[2] \in Int /\ c[2] # 0
        BY <3>2, PromptAssumption DEF PInv, PFile, PromptTyped, Text, PromptChange
      <4>2. CASE c[2] < 0
        BY <1>3, <4>1, <4>2 DEF Safe, Settled
      <4>3. CASE c[2] > 0
        BY <2>2, <4>1, <4>3, KeepsFacts
      <4> QED
        BY <4>1, <4>2, <4>3
    <3>3. change \in Safe(p)'
      BY <1>1, <2>1 DEF Safe
    <3> QED
      BY <1>1, <2>3, <3>1, <3>2, <3>3 DEF PFile
  <2>6. PSeen(p)' /\ PDraft(p)' /\ POffer(p)'
    BY <1>2, <1>3, <2>1, <2>4 DEF PInv, PSeen, PDraft, POffer, MadeFrom
  <2>7. PShown(p)'
    BY <2>1, <2>4, NewFacts DEF PShown, Safe
  <2>8. PSaving(p)'
    <3>1. ASSUME NEW s \in saving, s.prompt = p, s.at # "unheard", NEW c \in New(textarea')
          PROVE  c \in s.content \/ c \in Settled(p)'
      <4>1. CASE c = change
        BY <1>1, <3>1, <4>1 DEF Settled
      <4>2. CASE c \in New(textarea)
        <5>1. c \in Safe(p)
          BY <1>1, <1>2, <1>5, <4>2 DEF PInv, PShown
        <5>2. CASE c \in Settled(p)
          BY <2>2, <5>2, KeepsFacts
        <5>3. CASE \E d \in promptDraft[p] : c \in d.content
          <6>1. PICK d \in promptDraft[p] : c \in New(d.content)
            BY <4>2, <5>3, NewFacts
          <6>2. c \in s.content \cup Settled(p)
            BY <3>1, <6>1 DEF PInv, PSaving
          <6> QED
            BY <2>2, <6>2, KeepsFacts
        <5> QED
          BY <5>1, <5>2, <5>3 DEF Safe
      <4> QED
        BY <1>1, <3>1, <4>1, <4>2, NewFacts
    <3> QED
      BY <1>3, <2>1, <2>2, <3>1, KeepsFacts DEF PInv, PSaving
  <2>9. PText(p)'
    BY <1>2, <1>3, <2>1, NewFacts DEF PText
  <2>10. PFresh(p)'
    <3>1. CASE studioOriginal = promptFile[p]
      BY <1>3, <2>1, <3>1 DEF PInv, PFresh
    <3>2. CASE p \notin behind /\ studioOriginal # promptFile[p]
      <4>1. New(textarea) \subseteq Settled(p) /\ \E x \in saving : x.prompt = p /\ x.at = "saved"
        BY <1>1, <1>2, <1>5, <3>2 DEF PInv, PFresh
      <4>2. New(textarea') \subseteq Settled(p)'
        BY <1>1, <2>2, <4>1, KeepsFacts, NewFacts DEF Settled
      <4>3. New(draft.content) \subseteq Settled(p)'
        BY <2>1, <4>2
      <4> QED
        BY <1>3, <2>1, <4>1, <4>2, <4>3 DEF PInv, PFresh
    <3> QED
      BY <1>3, <3>1, <3>2 DEF PFresh
  <2> QED
    BY <2>5, <2>6, <2>7, <2>8, <2>9, <2>10 DEF PInv
<1> QED
  BY <1>4, <1>5

LEMMA OtherEditorKeeps ==
  ASSUME PromptTyped, OtherEditorSaves, NEW p \in PromptId, PInv(p)
  PROVE  PInv(p)'
<1> USE DEF fileVars
<1>1. PICK q, change :
        /\ q \in PromptId
        /\ change = <<q, -foreign'>>
        /\ promptFile' = [promptFile EXCEPT ![q] = @ \cup {change}]
        /\ made' = made \cup {change} /\ behind' = behind \cup {q}
  BY DEF OtherEditorSaves
<1>2. UNCHANGED <<studioFile, textarea, studioOriginal, opening, saving, promptDraft, offer, cache, dropped, outdated>>
  BY DEF OtherEditorSaves
<1>3. promptFile'[p] = (IF p = q THEN promptFile[p] \cup {change} ELSE promptFile[p])
  BY <1>1 DEF PromptTyped
<1>4. Keeps(p)
  BY <1>1, <1>2, <1>3, NewFacts DEF Keeps
<1>5. PFile(p)'
  <2>1. promptFile'[p] \subseteq Own(p)'
    BY <1>1, <1>3, <1>4, KeepsFacts DEF PInv, PFile, Own
  <2>2. ASSUME NEW c \in made', c[1] = p
        PROVE  c \in Safe(p)' /\ (c[2] < 0 => c \in promptFile'[p])
    <3>1. CASE c = change
      BY <1>1, <1>3, <2>2, <3>1 DEF Safe, Settled
    <3>2. CASE c \in made
      BY <1>2, <1>3, <1>4, <2>2, <3>2 DEF PInv, PFile, Safe, Settled, Keeps
    <3> QED
      BY <1>1, <2>2, <3>1, <3>2
  <2> QED
    BY <2>1, <2>2 DEF PFile
<1>6. PSeen(p)' /\ PDraft(p)'
  BY <1>2, <1>4, KeepsFacts DEF PInv, PSeen, PDraft, Keeps
<1>7. POffer(p)' /\ PShown(p)'
  BY <1>2, <1>4, KeepsFacts, NewFacts DEF PInv, POffer, PShown
<1>8. PSaving(p)' /\ PText(p)'
  BY <1>2, <1>4, KeepsFacts DEF PInv, PSaving, PText, Keeps
<1>9. PFresh(p)'
  BY <1>1, <1>2, <1>3, <1>4, KeepsFacts DEF PInv, PFresh
<1> QED
  BY <1>5, <1>6, <1>7, <1>8, <1>9 DEF PInv

LEMMA OpenKeeps ==
  ASSUME PromptTyped, OpenStudioFile, NEW p \in PromptId, PInv(p)
  PROVE  PInv(p)'
<1> USE DEF fileVars
<1>1. PICK q \in PromptId, asks \in Asks : Fetch(q, IF asks /\ ~Open(q) THEN Discarded ELSE promptDraft)
  BY DEF OpenStudioFile
<1>2. PICK drafts : drafts = IF asks /\ ~Open(q) THEN Discarded ELSE promptDraft
  OBVIOUS
<1>3. DraftsTyped(drafts) /\ Fetch(q, drafts) /\ \A x \in PromptId : drafts[x] \in {promptDraft[x], {}}
  BY <1>1, <1>2, DiscardedTyped DEF PromptTyped, DraftsTyped, Discarded
<1>4. CASE \E content \in cache[q] : Shown(q, content, drafts) /\ opening' = {}
  <2>1. PICK content \in cache[q] : Shown(q, content, drafts) /\ opening' = {}
    BY <1>4
  <2>2. p = q => content \subseteq promptFile[q]
    BY DEF PInv, PSeen
  <2>3. UNCHANGED <<fileVars, saving, cache, crossed>>
    BY DEF OpenStudioFile
  <2>4. \A c \in cache'[p] : c \subseteq promptFile[p]
    BY <2>3 DEF PInv, PSeen
  <2> QED
    BY <1>3, <2>1, <2>2, <2>3, <2>4, ShownKeeps
<1>5. CASE ~\E content \in cache[q] : Shown(q, content, drafts) /\ opening' = {}
  <2>1. /\ promptDraft' = drafts /\ opening' = {[prompt |-> q, got |-> {}]}
        /\ dropped' = dropped \cup Forgotten(drafts)
        /\ UNCHANGED <<fileVars, saving, cache, offer, outdated, behind>> /\ offer = {}
    BY <1>3, <1>5 DEF Fetch, OpenStudioFile, NoDialog
  <2>2. Keeps(p)
    BY <1>3, <2>1, NewFacts, DraftFacts DEF Keeps, Settled
  <2>3. PFile(p)'
    BY <2>1, <2>2, FileKeeps DEF PInv, PFile
  <2>4. PSeen(p)' /\ PDraft(p)' /\ POffer(p)'
    BY <1>3, <2>1, <2>2, KeepsFacts DEF PInv, PSeen, PDraft, POffer
  <2>5. PSaving(p)'
    BY <1>3, <2>1, <2>2, KeepsFacts DEF PInv, PSaving
  <2>6. PFresh(p)'
    BY <1>3, <2>1, <2>2, KeepsFacts DEF PInv, PFresh
  <2> QED
    BY <2>1, <2>3, <2>4, <2>5, <2>6 DEF PInv, PShown, PText
<1> QED
  BY <1>4, <1>5

LEMMA ReloadKeeps ==
  ASSUME PromptTyped, ReloadPrompt, NEW p \in PromptId, PInv(p)
  PROVE  PInv(p)'
<1> USE DEF fileVars
<1>1. PICK q \in studioFile :
        /\ cache' = [cache EXCEPT ![q] = {}]
        /\ promptDraft' = Discarded /\ dropped' = dropped \cup New(textarea)
        /\ textarea' = {} /\ opening' = {[prompt |-> q, got |-> {}]}
  BY DEF ReloadPrompt
<1>2. /\ UNCHANGED <<fileVars, studioFile, studioOriginal, saving, offer, outdated, behind>> /\ offer = {} /\ opening = {}
      /\ studioFile = {q} /\ q \in PromptId
  BY <1>1 DEF ReloadPrompt, NoDialog, PromptTyped, Sole
<1>3. promptDraft'[p] = IF p = q THEN {} ELSE promptDraft[p]
  BY <1>1, <1>2 DEF Discarded, Open
<1>4. Keeps(p)
  BY <1>1, <1>2, <1>3, NewFacts DEF PInv, PText, Keeps, Settled
<1>5. PFile(p)'
  BY <1>2, <1>4, FileKeeps DEF PInv, PFile
<1>6. cache'[p] \subseteq cache[p]
  BY <1>1 DEF PromptTyped
<1>7. PSeen(p)' /\ PDraft(p)' /\ POffer(p)'
  BY <1>1, <1>2, <1>3, <1>4, <1>6, KeepsFacts DEF PInv, PSeen, PDraft, POffer
<1>8. PSaving(p)'
  BY <1>2, <1>3, <1>4, KeepsFacts DEF PInv, PSaving
<1>9. PFresh(p)'
  BY <1>1, <1>2, <1>3, <1>4, KeepsFacts DEF PInv, PFresh
<1> QED
  BY <1>1, <1>5, <1>7, <1>8, <1>9 DEF PInv, PShown, PText

LEMMA ServeLoadKeeps ==
  ASSUME PromptTyped, ServeLoad, NEW p \in PromptId, PInv(p)
  PROVE  PInv(p)'
<1> USE DEF fileVars
<1>1. PICK o \in opening : opening' = {[o EXCEPT !.got = {promptFile[o.prompt]}]}
  BY DEF ServeLoad
<1>2. /\ UNCHANGED <<fileVars, studioFile, textarea, studioOriginal, saving, promptDraft, offer, cache, crossed, dropped,
               outdated, behind>>
      /\ o \in [prompt : PromptId, got : SUBSET Text]
  BY DEF ServeLoad, PromptTyped
<1>3. Keeps(p)
  BY <1>2, NewFacts DEF Keeps
<1>4. PSeen(p)'
  BY <1>1, <1>2 DEF PInv, PSeen
<1>5. PFile(p)' /\ PDraft(p)' /\ POffer(p)' /\ PSaving(p)'
  BY <1>2 DEF PInv, PFile, PDraft, POffer, PSaving, MadeFrom, Own, Settled, Safe
<1>6. PFresh(p)'
  BY <1>1, <1>2 DEF PInv, PFresh, Settled
<1> QED
  BY <1>1, <1>4, <1>5, <1>6 DEF PInv, PShown, PText

LEMMA LoadedKeeps ==
  ASSUME PromptTyped, PromptLoaded, NEW p \in PromptId, PInv(p)
  PROVE  PInv(p)'
<1>1. PICK o \in opening : \E content \in o.got :
        cache' = [cache EXCEPT ![o.prompt] = {content}] /\ Shown(o.prompt, content, promptDraft)
  BY DEF PromptLoaded
<1>2. PICK content \in o.got :
        cache' = [cache EXCEPT ![o.prompt] = {content}] /\ Shown(o.prompt, content, promptDraft)
  BY <1>1
<1>3. o.prompt \in PromptId /\ DraftsTyped(promptDraft) /\ \A x \in PromptId : promptDraft[x] \in {promptDraft[x], {}}
  BY DEF PromptTyped, DraftsTyped
<1>4. p = o.prompt => content \subseteq promptFile[o.prompt]
  BY DEF PInv, PSeen
<1>5. \A c \in cache'[p] : c \subseteq promptFile[p]
  BY <1>2, <1>3, <1>4 DEF PInv, PSeen, PromptTyped
<1>6. UNCHANGED <<fileVars, saving, crossed>> /\ opening' = {}
  BY DEF PromptLoaded
<1> QED
  BY <1>2, <1>3, <1>4, <1>5, <1>6, ShownKeeps

LEMMA RestoreDraftKeeps ==
  ASSUME PromptTyped, RestoreDraft, NEW p \in PromptId, p \notin crossed', PInv(p)
  PROVE  PInv(p)'
<1> USE DEF fileVars
<1>1. PICK o \in offer :
        /\ textarea' = o.content
        /\ crossed' = crossed \cup {q \in studioFile : q # o.prompt \/ studioOriginal # o.hash}
  BY DEF RestoreDraft
<1>2. /\ UNCHANGED <<fileVars, studioFile, studioOriginal, opening, saving, promptDraft, cache, dropped,
               outdated, behind>>
      /\ offer' = {} /\ offer = {o}
  BY DEF RestoreDraft, PromptTyped, Sole
<1>3. p \in studioFile => p = o.prompt /\ studioOriginal = o.hash
  BY <1>1
<1>4. PFile(p)' /\ PSeen(p)' /\ PDraft(p)' /\ PSaving(p)' /\ POffer(p)'
  BY <1>2 DEF PInv, PFile, PSeen, PDraft, POffer, PSaving, MadeFrom, Own, Settled, Safe
<1>5. PShown(p)'
  BY <1>1, <1>2, <1>3 DEF PInv, POffer, PShown, MadeFrom, Own, Settled, Safe
<1>6. PText(p)'
  BY <1>1, <1>2 DEF PInv, PText, Settled
<1>7. PFresh(p)'
  <2>1. ASSUME p \notin behind, p \in studioFile, opening = {}, studioOriginal # promptFile[p]
        PROVE  New(textarea') \subseteq Settled(p) /\ \E s \in saving : s.prompt = p /\ s.at = "saved"
    <3>1. PICK s \in saving : s.prompt = p /\ s.at = "saved"
      BY <2>1 DEF PInv, PFresh
    <3>2. s.content = promptFile[p] /\ \A d \in promptDraft[p] : New(d.content) \subseteq Settled(p)
      BY <2>1, <3>1 DEF PInv, PFresh, PSaving, Settled
    <3>3. New(o.content) \subseteq Safe(p)
      BY <1>1, <1>3, <2>1 DEF PInv, POffer
    <3> QED
      BY <1>1, <3>1, <3>2, <3>3, NewFacts DEF Safe
  <2> QED
    BY <1>2, <2>1 DEF PInv, PFresh, Settled
<1> QED
  BY <1>4, <1>5, <1>6, <1>7 DEF PInv

LEMMA DiscardDraftKeeps ==
  ASSUME PromptTyped, DiscardDraft, NEW p \in PromptId, PInv(p)
  PROVE  PInv(p)'
<1> USE DEF fileVars
<1>1. PICK o \in offer :
        /\ promptDraft' = [promptDraft EXCEPT ![o.prompt] = {}]
        /\ dropped' = dropped \cup InDrafts(promptDraft[o.prompt])
  BY DEF DiscardDraft
<1>2. /\ UNCHANGED <<fileVars, studioFile, textarea, studioOriginal, opening, saving, cache, crossed, outdated, behind>>
      /\ offer' = {} /\ offer = {o}
  BY DEF DiscardDraft, PromptTyped, Sole
<1>3. promptDraft'[p] = IF p = o.prompt THEN {} ELSE promptDraft[p]
  BY <1>1 DEF PromptTyped
<1>4. Keeps(p)
  BY <1>1, <1>2, <1>3, NewFacts, DraftFacts DEF Keeps, Settled
<1>5. PFile(p)'
  BY <1>2, <1>4, FileKeeps DEF PInv, PFile
<1>6. PSeen(p)' /\ PDraft(p)' /\ POffer(p)'
  BY <1>2, <1>3, <1>4, KeepsFacts DEF PInv, PSeen, PDraft, POffer
<1>7. PShown(p)'
  BY <1>2, <1>4, KeepsFacts, NewFacts DEF PInv, PShown
<1>8. PSaving(p)'
  BY <1>2, <1>3, <1>4, KeepsFacts DEF PInv, PSaving
<1>9. PText(p)'
  BY <1>2, <1>3, <1>4, KeepsFacts DEF PInv, PText
<1>10. PFresh(p)'
  BY <1>2, <1>3, <1>4, KeepsFacts DEF PInv, PFresh
<1> QED
  BY <1>5, <1>6, <1>7, <1>8, <1>9, <1>10 DEF PInv

LEMMA SaveKeeps ==
  ASSUME PromptTyped, SaveStudio, NEW p \in PromptId, PInv(p)
  PROVE  PInv(p)'
<1> USE DEF fileVars
<1>1. PICK q, s :
        /\ q \in studioFile
        /\ s = [at |-> "check", prompt |-> q, content |-> textarea, hash |-> studioOriginal]
        /\ saving' = {s}
  BY DEF SaveStudio
<1>2. /\ UNCHANGED <<fileVars, studioFile, textarea, studioOriginal, opening, promptDraft, offer, cache, crossed, dropped,
               outdated, behind>>
      /\ offer = {} /\ opening = {} /\ saving = {}
  BY DEF SaveStudio, NoDialog
<1>3. PFile(p)' /\ PSeen(p)' /\ PDraft(p)' /\ POffer(p)' /\ PShown(p)' /\ PText(p)'
  BY <1>2 DEF PInv, PFile, PSeen, PDraft, POffer, PShown, PText, MadeFrom, Own, Settled, Safe
<1>4. PSaving(p)'
  BY <1>1, <1>2 DEF PInv, PSaving, PShown, PText, MadeFrom, Own, Settled
<1>5. PFresh(p)'
  BY <1>1, <1>2 DEF PInv, PFresh, Settled
<1> QED
  BY <1>3, <1>4, <1>5 DEF PInv

LEMMA CheckAnsweredKeeps ==
  ASSUME PromptTyped, CheckAnswered, NEW p \in PromptId, p \notin crossed', PInv(p)
  PROVE  PInv(p)'
<1> USE DEF fileVars
<1>1. PICK s \in saving :
        /\ s.at = "check"
        /\ \/ saving' = {}
           \/ \E q \in studioFile :
                /\ saving' = {[s EXCEPT !.at = "write", !.prompt = q, !.hash = studioOriginal]}
                /\ crossed' = IF q = s.prompt /\ s.hash = studioOriginal THEN crossed
                              ELSE crossed \cup {q}
  BY DEF CheckAnswered
<1>2. UNCHANGED <<fileVars, studioFile, textarea, studioOriginal, opening, promptDraft, offer, cache, dropped,
              outdated, behind>>
  BY DEF CheckAnswered
<1>3. PFile(p)' /\ PSeen(p)' /\ PDraft(p)' /\ POffer(p)' /\ PShown(p)' /\ PText(p)'
  BY <1>2 DEF PInv, PFile, PSeen, PDraft, POffer, PShown, PText, MadeFrom, Own, Settled, Safe
<1>4. PSaving(p)'
  <2>1. CASE saving' = {}
    BY <2>1 DEF PSaving
  <2>2. CASE saving' # {}
    <3>1. PICK q, t :
            /\ q \in studioFile
            /\ t = [s EXCEPT !.at = "write", !.prompt = q, !.hash = studioOriginal] /\ saving' = {t}
            /\ crossed' = IF q = s.prompt /\ s.hash = studioOriginal THEN crossed ELSE crossed \cup {q}
      BY <1>1, <2>2
    <3>2. t.at = "write" /\ t.prompt = q /\ t.hash = studioOriginal /\ t.content = s.content
      BY <3>1 DEF PromptTyped
    <3>3. p = q => s.prompt = p /\ t.hash = s.hash
      BY <3>1, <3>2
    <3>4. ASSUME p = q
          PROVE  /\ MadeFrom(t, p)'
                 /\ \A d \in promptDraft[p] : New(d.content) \subseteq t.content \cup Settled(p)
      <4>1. MadeFrom(s, p) /\ \A d \in promptDraft[p] : New(d.content) \subseteq s.content \cup Settled(p)
        BY <1>1, <3>3, <3>4 DEF PInv, PSaving
      <4> QED
        BY <1>2, <3>2, <3>3, <3>4, <4>1 DEF MadeFrom, Own
    <3> QED
      BY <1>2, <3>1, <3>2, <3>4 DEF PSaving, Settled
  <2> QED
    BY <2>1, <2>2
<1>5. PFresh(p)'
  <2>1. \A x \in saving : x.at # "saved"
    BY <1>1 DEF PromptTyped, Sole
  <2>2. \A x \in saving' : x.at # "saved"
    BY <1>1 DEF PromptTyped
  <2> QED
    BY <1>2, <2>1, <2>2 DEF PInv, PFresh, Settled
<1> QED
  BY <1>3, <1>4, <1>5 DEF PInv

LEMMA ServeSaveKeeps ==
  ASSUME PromptTyped, ServeStudioSave, NEW p \in PromptId, PInv(p)
  PROVE  PInv(p)'
<1> USE DEF fileVars
<1>1. PICK s \in saving :
        /\ s.at \in {"write", "unheard"}
        /\ IF s.hash = promptFile[s.prompt]
           THEN /\ promptFile' = [promptFile EXCEPT ![s.prompt] = s.content]
                /\ saving' = IF s.at = "write" THEN {[s EXCEPT !.at = "saved"]} ELSE {}
                /\ behind' = IF s.at = "write" THEN behind ELSE behind \cup {s.prompt}
           ELSE saving' = {} /\ UNCHANGED <<promptFile, behind>>
  BY DEF ServeStudioSave
<1>2. UNCHANGED <<studioFile, textarea, studioOriginal, opening, promptDraft, offer, cache, typed,
                  foreign, deaths, made, crossed, dropped, outdated>>
  BY DEF ServeStudioSave
<1>3. \/ promptFile'[p] = promptFile[p]
      \/ s.prompt = p /\ promptFile'[p] = s.content /\ s.hash = promptFile[p]
  BY <1>1 DEF PromptTyped
<1>4. promptFile[p] \subseteq promptFile'[p] /\ promptFile'[p] \subseteq Own(p)
  BY <1>3 DEF PInv, PFile, PSaving, MadeFrom
<1>5. Keeps(p)
  BY <1>1, <1>2, <1>4, NewFacts DEF Keeps
<1>6. PFile(p)'
  BY <1>2, <1>4, <1>5, FileKeeps DEF PInv
<1>7. PSeen(p)' /\ PDraft(p)'
  BY <1>2, <1>4, <1>5, KeepsFacts DEF PInv, PSeen, PDraft
<1>8. POffer(p)' /\ PShown(p)'
  BY <1>2, <1>5, KeepsFacts, NewFacts DEF PInv, POffer, PShown, Own
<1>9. PSaving(p)'
  <2>1. CASE saving' = {}
    BY <2>1 DEF PSaving
  <2>2. CASE saving' # {}
    <3>1. /\ promptFile' = [promptFile EXCEPT ![s.prompt] = s.content]
          /\ saving' = {[s EXCEPT !.at = "saved"]} /\ s.at = "write"
      BY <1>1, <2>2
    <3>2. PICK t : t = [s EXCEPT !.at = "saved"]
      OBVIOUS
    <3>3. t.at = "saved" /\ t.prompt = s.prompt /\ t.hash = s.hash /\ t.content = s.content /\ saving' = {t}
      BY <3>1, <3>2 DEF PromptTyped
    <3>4. p = s.prompt => promptFile'[p] = s.content
      BY <3>1 DEF PromptTyped
    <3>5. ASSUME p = s.prompt
          PROVE  /\ MadeFrom(t, p)'
                 /\ \A d \in promptDraft[p] : New(d.content) \subseteq t.content \cup Settled(p)'
      <4>1. MadeFrom(s, p) /\ \A d \in promptDraft[p] : New(d.content) \subseteq s.content \cup Settled(p)
        BY <3>1, <3>5 DEF PInv, PSaving
      <4>2. Own(p)' = Own(p) /\ Settled(p) \subseteq Settled(p)'
        BY <1>2, <1>5, KeepsFacts DEF Own
      <4> QED
        BY <3>3, <4>1, <4>2 DEF MadeFrom
    <3> QED
      BY <1>2, <3>3, <3>4, <3>5 DEF PSaving
  <2> QED
    BY <2>1, <2>2
<1>10. PText(p)'
  BY <1>2, <1>5, KeepsFacts DEF PInv, PText
<1>11. PFresh(p)'
  <2>1. \A x \in saving : x = s
    BY DEF PromptTyped, Sole
  <2>2. CASE promptFile'[p] = promptFile[p] /\ ~(s.prompt = p /\ s.hash = promptFile[p])
    <3>1. \A x \in saving' : x.prompt # p
      BY <1>1, <2>2 DEF PromptTyped
    <3> QED
      BY <1>1, <1>2, <1>5, <2>1, <2>2, <3>1, KeepsFacts DEF PInv, PFresh
  <2>3. CASE s.prompt = p /\ s.hash = promptFile[p] /\ p \notin behind'
    <3>1. PICK t : t = [s EXCEPT !.at = "saved"]
      OBVIOUS
    <3>2. s.at = "write" /\ promptFile'[p] = s.content /\ saving' = {t}
      BY <1>1, <2>3, <3>1 DEF PromptTyped
    <3>3. t.at = "saved" /\ t.prompt = p /\ t.content = s.content
      BY <2>3, <3>1 DEF PromptTyped
    <3>4. s.content \subseteq Settled(p)' /\ Settled(p) \subseteq Settled(p)'
      BY <1>5, <3>2, KeepsFacts DEF Settled
    <3>5. \A d \in promptDraft[p] : New(d.content) \subseteq Settled(p)'
      BY <2>3, <3>2, <3>4 DEF PInv, PSaving
    <3>6. p \in studioFile /\ opening = {} => New(textarea) \subseteq Settled(p)'
      BY <3>4, <3>5, NewFacts DEF PInv, PShown, Safe
    <3> QED
      BY <1>2, <3>2, <3>3, <3>5, <3>6 DEF PFresh
  <2> QED
    BY <1>3, <2>2, <2>3 DEF PFresh
<1> QED
  BY <1>6, <1>7, <1>8, <1>9, <1>10, <1>11 DEF PInv

LEMMA SavedKeeps ==
  ASSUME PromptTyped, StudioSaved, NEW p \in PromptId, PInv(p)
  PROVE  PInv(p)'
<1> USE DEF fileVars
<1>1. PICK s \in saving :
        /\ s.at = "saved"
        /\ studioFile' = {s.prompt} /\ textarea' = s.content /\ studioOriginal' = s.content
        /\ promptDraft' = [promptDraft EXCEPT ![s.prompt] = {}]
  BY DEF StudioSaved
<1>2. UNCHANGED <<fileVars, opening, offer, cache, crossed, dropped, outdated, behind>> /\ saving' = {}
  BY DEF StudioSaved
<1>3. promptDraft'[p] = IF p = s.prompt THEN {} ELSE promptDraft[p]
  BY <1>1 DEF PromptTyped
<1>4. Keeps(p)
  BY <1>1, <1>2, <1>3, NewFacts DEF PInv, PSaving, Keeps, Settled
<1>5. PFile(p)'
  BY <1>2, <1>4, FileKeeps DEF PInv, PFile
<1>6. PSeen(p)' /\ PDraft(p)'
  BY <1>2, <1>3, <1>4, KeepsFacts DEF PInv, PSeen, PDraft
<1>7. POffer(p)'
  BY <1>2, <1>4, KeepsFacts, NewFacts DEF PInv, POffer
<1>8. PShown(p)' /\ PText(p)' /\ PSaving(p)'
  BY <1>1, <1>2, <1>3, NewFacts DEF PInv, PSaving, PShown, PText, MadeFrom, Own, Settled, Safe
<1>9. PFresh(p)'
  <2>1. saving = {s}
    BY DEF PromptTyped, Sole
  <2>2. p \notin behind /\ p \in studioFile' => s.prompt = p /\ studioOriginal' = promptFile[p]
    BY <1>1 DEF PInv, PFresh
  <2> QED
    BY <1>2, <1>3, <1>4, <2>2, KeepsFacts DEF PInv, PFresh
<1> QED
  BY <1>5, <1>6, <1>7, <1>8, <1>9 DEF PInv

LEMMA DiesKeeps ==
  ASSUME PromptTyped, PageDies, NEW p \in PromptId, PInv(p)
  PROVE  PInv(p)'
<1>1. UNCHANGED <<promptFile, promptDraft, made, dropped, outdated, behind>>
  BY DEF PageDies
<1>2. /\ studioFile' = {} /\ offer' = {} /\ opening' = {} /\ cache'[p] = {}
      /\ saving' = {[s EXCEPT !.at = "unheard"] : s \in {r \in saving : r.at = "write"}}
  BY DEF PageDies
<1>3. PFile(p)' /\ PSeen(p)' /\ PDraft(p)' /\ POffer(p)' /\ PShown(p)' /\ PText(p)'
  BY <1>1, <1>2 DEF PInv, PFile, PSeen, PDraft, POffer, PShown, PText, MadeFrom, Own, Settled, Safe
<1>4. \A t \in saving' : t.at = "unheard" /\ \E s \in saving : t.prompt = s.prompt /\ t.hash = s.hash /\ t.content = s.content
  BY <1>2 DEF PromptTyped
<1>5. PSaving(p)'
  BY <1>1, <1>4 DEF PInv, PSaving, MadeFrom, Own
<1>6. PFresh(p)'
  BY <1>1, <1>2, <1>4 DEF PInv, PFresh, Settled
<1> QED
  BY <1>3, <1>5, <1>6 DEF PInv

--------------------------------------------------------------------------
LEMMA PromptNextInv == PromptInv /\ [PromptNext]_promptVars => PromptInv'
<1> SUFFICES ASSUME PromptInv, [PromptNext]_promptVars PROVE PromptInv'
  OBVIOUS
<1>1. CASE UNCHANGED promptVars
  BY <1>1 DEF promptVars, PromptInv, PromptTyped, PInv, PFile, PSeen, PDraft, POffer, PShown, PSaving,
              PText, PFresh, MadeFrom, Own, Settled, Safe
<1>2. CASE PromptNext
  <2>1. PromptTyped'
    BY <1>2, PromptTypes DEF PromptInv
  <2>2. crossed \subseteq crossed'
    BY <1>2 DEF PromptNext, Type, OtherEditorSaves, OpenStudioFile, ReloadPrompt, ServeLoad, PromptLoaded,
         RestoreDraft, DiscardDraft, SaveStudio, CheckAnswered, ServeStudioSave, StudioSaved, PageDies
  <2>3. ASSUME NEW p \in PromptId \ crossed'
        PROVE  PInv(p)'
    <3>1. PromptTyped /\ PInv(p)
      BY <2>2 DEF PromptInv
    <3> QED
      BY <1>2, <3>1, TypeKeeps, OtherEditorKeeps, OpenKeeps, ReloadKeeps, ServeLoadKeeps, LoadedKeeps,
         RestoreDraftKeeps, DiscardDraftKeeps, SaveKeeps, CheckAnsweredKeeps, ServeSaveKeeps, SavedKeeps,
         DiesKeeps DEF PromptNext
  <2> QED
    BY <2>1, <2>3 DEF PromptInv
<1> QED
  BY <1>1, <1>2

LEMMA PromptInvariant == PromptSpec => []PromptInv
BY PromptInitInv, PromptNextInv, PTL DEF PromptSpec

(* PromptsSafe: of a Prompt that is not crossed, every change that was typed is in the    *)
(* file or in a kept draft, was given up by the user or typed during a save, or was lost    *)
(* when the page removed a draft of another content; that only after another editor, or a   *)
(* dead page, changed the file, or the Prompt was shown as it was before.  Every change of   *)
(* another editor is in the file (app.js:1268-1345, 1523-1546).                          *)
THEOREM NoPromptTextIsLost == PromptSpec => []PromptsSafe
<1>1. PromptInv => PromptsSafe
  <2> SUFFICES ASSUME PromptInv PROVE PromptsSafe
    OBVIOUS
  <2>1. PromptTypeOK
    <3>1. /\ Cardinality(studioFile) <= 1 /\ Cardinality(opening) <= 1 /\ Cardinality(saving) <= 1
          /\ Cardinality(offer) <= 1
          /\ \A p \in PromptId : Cardinality(promptDraft[p]) <= 1 /\ Cardinality(cache[p]) <= 1
      BY SoleCardinality DEF PromptInv, PromptTyped
    <3> QED
      BY <3>1 DEF PromptInv, PromptTyped, PromptTypeOK, Text
  <2>2. \A p \in PromptId \ crossed : promptFile[p] \subseteq {<<p, 0>>} \cup {c \in made : c[1] = p}
    BY DEF PromptInv, PInv, PFile, Own
  <2>3. ASSUME NEW c \in made, c[1] \notin crossed
        PROVE  IF c[2] < 0 THEN c \in promptFile[c[1]]
               ELSE \/ c \in dropped \cup promptFile[c[1]]
                    \/ \E d \in promptDraft[c[1]] : c \in d.content
                    \/ c \in outdated /\ c[1] \in behind
    <3>1. c[1] \in PromptId
      BY DEF PromptInv, PromptTyped, Text, PromptChange
    <3>2. PFile(c[1])
      BY <2>3, <3>1 DEF PromptInv, PInv
    <3> QED
      BY <3>2 DEF PFile, Safe, Settled
  <2> QED
    BY <2>1, <2>2, <2>3 DEF PromptsSafe
<1> QED
  BY <1>1, PromptInvariant, PTL

(***************************************************************************)
(* ProjectPage: what the task page shows is of its project and never goes back,*)
(* in whatever order the answers come.                                       *)
(***************************************************************************)
Clocks == 0 .. MaxClock + 1
Later(r, t) == \A u \in r.got : u >= t
Read == [slot : ReadSlot, what : {"runtime", "chat"}, project : PageProject, got : SUBSET Clocks]
SendType ==
  [project : PageProject, workflow : SUBSET PageProject, current : BOOLEAN,
   at : {"sent", "accepted", "refused", "chat", "poll", "read"}, started : Clocks, awaits : SUBSET ReadSlot]

TaskTyped ==
  /\ clock \in [PageProject -> Clocks] /\ \A p \in PageProject : clock[p] <= MaxClock \/ ~RunsNow(clock[p])
  /\ shown \in PageProject /\ runtime \subseteq Clocks /\ Sole(runtime)
  /\ files \subseteq PageProject /\ Sole(files)
  /\ shared \subseteq ReadSlot /\ Sole(shared) /\ latest \in ReadSlot
  /\ failed \in 0 .. MaxFails /\ newest \in Clocks /\ reported \subseteq Clocks
  /\ reads \subseteq Read /\ \A r, q \in reads : r.slot = q.slot => r = q
  /\ sends \subseteq SendType
  /\ lists \subseteq [project : PageProject, latest : BOOLEAN]
  /\ lastRun \in PageProject \X Clocks /\ chat \in [project : PageProject, clock : Clocks]
  /\ {chosen, listing, switching, launching, overtaken} \subseteq BOOLEAN

(* The read that rest join is the last one, and of the project that is shown. *)
SharedOK ==
  /\ \A i \in shared : latest = i /\ \E r \in reads : r.slot = i /\ r.what = "runtime" /\ r.project = shown
  /\ \A r \in reads : r.what = "runtime" /\ r.slot = latest => latest \in shared

(* What it brings is not older than what is shown. *)
ReadOK(r) == \A t \in r.got : t <= clock[r.project] /\ (r.slot \in shared => t >= newest)
NewestOK == newest <= clock[shown] /\ runtime \subseteq {newest}

(* A message that waits for the read of a runtime: that read, or any later one,   *)
(* is from after the start.                                                     *)
SendOK(s) ==
  /\ s.workflow \subseteq {s.project} /\ s.started <= clock[s.project]
  /\ s.current => s.project = shown
  /\ s.at = "read" => s.awaits # {}
  /\ s.current /\ s.at = "poll" => \A r \in reads : r.slot \in shared \ s.awaits => Later(r, s.started)
  /\ s.current /\ s.at = "read" =>
       /\ \A r \in reads : r.slot \in shared => Later(r, s.started)
       /\ s.awaits \subseteq shared \/ failed > 0 \/ \A u \in runtime : u >= s.started

ReportOK(t) ==
  /\ t <= clock[shown] /\ (failed > 0 \/ \A u \in runtime : u >= t)
  /\ \A r \in reads : r.slot \in shared => Later(r, t)

(* The completed run that was last noticed is in the chat, or will be. *)
ChatOK ==
  /\ lastRun[2] <= clock[lastRun[1]]
  /\ lastRun[1] = shown =>
       \/ failed > 0 \/ overtaken
       \/ chat.project = shown /\ chat.clock >= lastRun[2]
       \/ \E r \in reads : r.what = "chat" /\ r.project = shown /\ Later(r, lastRun[2])

LocksOK ==
  /\ files \subseteq {shown}
  /\ launching => \E s \in sends : s.current
  /\ listing => \E l \in lists : l.latest

TaskInv ==
  /\ TaskTyped /\ SharedOK /\ NewestOK /\ ChatOK /\ LocksOK
  /\ \A r \in reads : ReadOK(r)
  /\ \A s \in sends : SendOK(s)
  /\ \A t \in reported : ReportOK(t)

--------------------------------------------------------------------------
LEMMA ClockFacts ==
  ASSUME PageAssumption, TaskTyped
  PROVE  /\ Clocks \subseteq Int /\ 0 \in Clocks /\ MaxClock \in Nat
         /\ \A p \in PageProject : clock[p] \in Int
         /\ \A r \in reads : \A t \in r.got : t \in Int /\ t \in Clocks
         /\ \A s \in sends : s.started \in Int /\ s.project \in PageProject
         /\ newest \in Int /\ lastRun[2] \in Int /\ lastRun[1] \in PageProject /\ chat.clock \in Int
         /\ \A t \in reported : t \in Int
         /\ \A t \in runtime : t \in Int
         /\ failed \in Int
<1>1. Clocks \subseteq Int /\ 0 \in Clocks /\ MaxClock \in Nat
  BY DEF PageAssumption, Clocks
<1>2. \A r \in reads : \A t \in r.got : t \in Clocks
  BY DEF TaskTyped, Read
<1>3. \A s \in sends : s.started \in Clocks /\ s.project \in PageProject
  BY DEF TaskTyped, SendType
<1>4. /\ \A p \in PageProject : clock[p] \in Clocks
      /\ newest \in Clocks /\ lastRun[2] \in Clocks /\ lastRun[1] \in PageProject /\ chat.clock \in Clocks
      /\ reported \subseteq Clocks /\ runtime \subseteq Clocks /\ failed \in Int
  BY DEF TaskTyped
<1> QED
  BY <1>1, <1>2, <1>3, <1>4

LEMMA FreeFacts ==
  ASSUME NEW under, NEW i \in FreeSlot(under)
  PROVE  i \in ReadSlot /\ \A r \in reads \cup under : r.slot # i
<1>1. PICK taken : taken = Busy \cup {r.slot : r \in under}
  OBVIOUS
<1>2. ~(ReadSlot \subseteq taken) /\ i = CHOOSE j \in ReadSlot : j \notin taken
  BY <1>1 DEF FreeSlot
<1>3. \E j \in ReadSlot : j \notin taken
  BY <1>2
<1>4. i \in ReadSlot /\ i \notin taken
  BY <1>2, <1>3
<1>5. \A r \in reads \cup under : r.slot \in taken
  BY <1>1 DEF Busy
<1> QED
  BY <1>4, <1>5

LEMMA JoinedFacts ==
  ASSUME TaskTyped, SharedOK
  PROVE  /\ Joined(shown) = shared
         /\ \A p \in PageProject : p # shown => Joined(p) = {}
BY DEF TaskTyped, SharedOK, Joined

(* A runtime is read anew, or the read under way is joined. *)
LEMMA RefreshFacts ==
  ASSUME TaskTyped, SharedOK, NEW p \in PageProject, NEW slot \in ReadSlot, NEW rest,
         RefreshRuntime(p, slot, rest)
  PROVE  \/ /\ p = shown /\ shared = {slot} /\ reads' = rest /\ latest' = latest /\ shared' = shared
         \/ /\ p = shown => shared = {}
            /\ reads' = rest \cup {NewRead(slot, "runtime", p)} /\ latest' = slot /\ shared' = {slot}
            /\ \A r \in reads \cup rest : r.slot # slot
<1>1. CASE Joined(p) # {}
  <2>1. p = shown /\ slot \in shared /\ shared = {slot}
    BY <1>1, JoinedFacts DEF RefreshRuntime, TaskTyped, Sole
  <2> QED
    BY <1>1, <2>1 DEF RefreshRuntime
<1>2. CASE Joined(p) = {}
  <2>1. slot \in FreeSlot(rest)
    BY <1>2 DEF RefreshRuntime
  <2>2. \A r \in reads \cup rest : r.slot # slot
    BY <2>1, FreeFacts
  <2> QED
    BY <1>2, <2>2, JoinedFacts DEF RefreshRuntime
<1> QED
  BY <1>1, <1>2

LEMMA NewReadFacts ==
  ASSUME NEW i \in ReadSlot, NEW what \in {"runtime", "chat"}, NEW p \in PageProject
  PROVE  /\ NewRead(i, what, p) \in Read /\ NewRead(i, what, p).slot = i
         /\ NewRead(i, what, p).what = what /\ NewRead(i, what, p).project = p
         /\ NewRead(i, what, p).got = {}
BY DEF NewRead, Read

(* At first. *)
LEMMA TaskInit == PageInit => TaskInv
<1> SUFFICES ASSUME PageInit PROVE TaskInv
  OBVIOUS
<1>1. TaskTyped
  <2>1. Clocks \subseteq Int /\ 0 \in Clocks /\ 1 \in ReadSlot /\ 0 \in 0 .. MaxFails /\ 0 <= MaxClock /\ Home \in PageProject
    BY PageAssumption DEF PageAssumption, Clocks, ReadSlot
  <2> QED
    BY <2>1 DEF PageInit, TaskTyped, Sole
<1>2. SharedOK /\ NewestOK /\ ChatOK /\ LocksOK
  BY PageAssumption DEF PageInit, SharedOK, NewestOK, ChatOK, LocksOK, PageAssumption
<1> QED
  BY <1>1, <1>2 DEF PageInit, TaskInv

(* Only the catalog changes, or what is waited for by the selection. *)
LEMMA CatalogKeeps ==
  ASSUME TaskInv, TaskTyped', LocksOK',
         UNCHANGED <<clock, shown, runtime, chat, reads, latest, shared, sends, lastRun, historyVars>>
  PROVE  TaskInv'
<1> USE DEF historyVars
<1>1. SharedOK' /\ NewestOK' /\ ChatOK'
  BY DEF TaskInv, SharedOK, NewestOK, ChatOK, Later
<1>2. \A r \in reads' : ReadOK(r)'
  BY DEF TaskInv, ReadOK
<1>3. \A s \in sends' : SendOK(s)'
  BY DEF TaskInv, SendOK, Later
<1>4. \A t \in reported' : ReportOK(t)'
  BY DEF TaskInv, ReportOK, Later
<1> QED
  BY <1>1, <1>2, <1>3, <1>4 DEF TaskInv

LEMMA RefreshFilesKeeps ==
  ASSUME TaskInv, RefreshStudioFiles
  PROVE  /\ lists' \subseteq [project : PageProject, latest : BOOLEAN] /\ listing' \in BOOLEAN
         /\ listing' => \E l \in lists' : l.latest
<1>1. CASE UNCHANGED <<lists, listing>>
  BY <1>1 DEF TaskInv, TaskTyped, LocksOK
<1>2. CASE /\ lists' = {[l EXCEPT !.latest = FALSE] : l \in lists} \cup {[project |-> shown, latest |-> TRUE]}
           /\ listing' = TRUE
  <2>1. PICK l : l = [project |-> shown, latest |-> TRUE]
    OBVIOUS
  <2>2. l \in lists' /\ l.latest /\ l \in [project : PageProject, latest : BOOLEAN]
    BY <1>2, <2>1 DEF TaskInv, TaskTyped
  <2>3. ASSUME NEW k \in lists
        PROVE  [k EXCEPT !.latest = FALSE] \in [project : PageProject, latest : BOOLEAN]
    <3>1. k \in [project : PageProject, latest : BOOLEAN]
      BY DEF TaskInv, TaskTyped
    <3> QED
      BY <3>1
  <2> QED
    BY <1>2, <2>1, <2>2, <2>3
<1> QED
  BY <1>1, <1>2 DEF RefreshStudioFiles

LEMMA CatalogSteps == TaskInv /\ (Selected \/ SwitchView \/ FilesAnswered) => TaskInv'
<1> SUFFICES ASSUME TaskInv, Selected \/ SwitchView \/ FilesAnswered PROVE TaskInv'
  OBVIOUS
<1>1. UNCHANGED <<clock, shown, runtime, chat, reads, latest, shared, sends, launching, lastRun, historyVars>>
  BY DEF Selected, SwitchView, FilesAnswered
<1>2. CASE Selected \/ SwitchView
  <2>1. /\ RefreshStudioFiles \/ UNCHANGED <<lists, listing>>
        /\ UNCHANGED files /\ chosen' \in BOOLEAN /\ switching' \in BOOLEAN
    BY <1>2 DEF Selected, SwitchView, Picked, TaskInv, TaskTyped
  <2>2. /\ lists' \subseteq [project : PageProject, latest : BOOLEAN] /\ listing' \in BOOLEAN
        /\ listing' => \E l \in lists' : l.latest
    BY <2>1, RefreshFilesKeeps DEF TaskInv, TaskTyped, LocksOK
  <2>3. TaskTyped' /\ LocksOK'
    BY <1>1, <2>1, <2>2 DEF TaskInv, TaskTyped, LocksOK, historyVars
  <2> QED
    BY <1>1, <2>3, CatalogKeeps
<1>3. CASE FilesAnswered
  <2>1. PICK l \in lists, fails \in BOOLEAN :
       /\ lists' = lists \ {l}
       /\ files' = IF Listed(l) /\ ~fails THEN {l.project} ELSE files
       /\ chosen' = IF l.latest \/ (Listed(l) /\ ~fails) THEN Picked' ELSE chosen
       /\ listing' = IF l.latest THEN FALSE ELSE listing
    BY <1>3 DEF FilesAnswered
  <2>2. files' \subseteq {shown} /\ Sole(files') /\ files' \subseteq PageProject /\ chosen' \in BOOLEAN
    BY <2>1 DEF Listed, Picked, TaskInv, TaskTyped, LocksOK, Sole
  <2>3. listing' \in BOOLEAN /\ (listing' => \E k \in lists' : k.latest)
    BY <2>1 DEF TaskInv, TaskTyped, LocksOK
  <2>4. TaskTyped'
    <3>1. UNCHANGED switching /\ lists' \subseteq lists
      BY <1>3, <2>1 DEF FilesAnswered
    <3> QED
      BY <1>1, <2>2, <2>3, <3>1 DEF TaskInv, TaskTyped, historyVars
  <2>5. LocksOK'
    BY <1>1, <2>2, <2>3 DEF TaskInv, LocksOK
  <2> QED
    BY <1>1, <2>4, <2>5, CatalogKeeps
<1> QED
  BY <1>2, <1>3

--------------------------------------------------------------------------
LEMMA ParityFacts ==
  ASSUME NEW c \in Nat
  PROVE  RunsNow(c) => ~RunsNow(c + 1)
BY DEF RunsNow

LEMMA RunEndsKeeps == TaskInv /\ RunEnds => TaskInv'
<1> SUFFICES ASSUME TaskInv, RunEnds PROVE TaskInv'
  OBVIOUS
<1> USE DEF catalogVars, historyVars
<1>1. PICK p \in PageProject : RunsNow(clock[p]) /\ clock' = [clock EXCEPT ![p] = @ + 1]
  BY DEF RunEnds
<1>2. UNCHANGED <<shown, runtime, chat, catalogVars, reads, latest, shared, selecting, switching, sends,
                  launching, lastRun, selects, historyVars>>
  BY DEF RunEnds
<1>3. TaskTyped /\ PageAssumption /\ MaxClock \in Nat
  BY PageAssumption DEF TaskInv, PageAssumption
<1>4. clock[p] \in Nat /\ clock[p] <= MaxClock
  BY <1>1, <1>3 DEF TaskTyped, Clocks
<1>5. ~RunsNow(clock[p] + 1) /\ clock[p] + 1 \in Clocks
  BY <1>1, <1>3, <1>4, ParityFacts DEF Clocks
<1>6. \A q \in PageProject : clock'[q] = IF q = p THEN clock[p] + 1 ELSE clock[q]
  BY <1>1, <1>3 DEF TaskTyped
<1>7. clock' \in [PageProject -> Clocks] /\ \A q \in PageProject : clock'[q] <= MaxClock \/ ~RunsNow(clock'[q])
  BY <1>1, <1>3, <1>5, <1>6 DEF TaskTyped
<1>8. \A q \in PageProject : clock[q] \in Int /\ clock'[q] \in Int /\ clock[q] <= clock'[q]
  BY <1>3, <1>4, <1>6, ClockFacts
<1>9. TaskTyped'
  BY <1>2, <1>3, <1>7 DEF TaskTyped
<1>10. SharedOK' /\ LocksOK'
  BY <1>2 DEF TaskInv, SharedOK, LocksOK
<1>11. NewestOK' /\ ChatOK'
  BY <1>2, <1>3, <1>8, ClockFacts DEF TaskInv, TaskTyped, NewestOK, ChatOK, Later
<1>12. ASSUME NEW r \in reads'
       PROVE  ReadOK(r)'
  <2>1. r \in reads /\ ReadOK(r) /\ r.project \in PageProject
    BY <1>2, <1>3 DEF TaskInv, TaskTyped, Read
  <2>2. \A t \in r.got : t \in Int
    BY <1>3, <2>1, ClockFacts
  <2> QED
    BY <1>2, <1>8, <2>1, <2>2 DEF ReadOK
<1>13. ASSUME NEW s \in sends'
       PROVE  SendOK(s)'
  <2>1. s \in sends /\ SendOK(s) /\ s.project \in PageProject /\ s.started \in Int
    BY <1>2, <1>3, ClockFacts DEF TaskInv
  <2>2. s.started <= clock'[s.project]
    BY <1>8, <2>1 DEF SendOK
  <2> QED
    BY <1>2, <2>1, <2>2 DEF SendOK, Later
<1>14. ASSUME NEW t \in reported'
       PROVE  ReportOK(t)'
  <2>1. t \in reported /\ ReportOK(t) /\ t \in Int /\ shown \in PageProject
    BY <1>2, <1>3, ClockFacts DEF TaskInv, TaskTyped
  <2> QED
    BY <1>2, <1>8, <2>1 DEF ReportOK, Later
<1> QED
  BY <1>9, <1>10, <1>11, <1>12, <1>13, <1>14 DEF TaskInv

(* A new read of the runtime of the project that is shown, when none is shared. *)
LEMMA PollKeeps == TaskInv /\ Poll => TaskInv'
<1> SUFFICES ASSUME TaskInv, Poll PROVE TaskInv'
  OBVIOUS
<1> USE DEF catalogVars, historyVars
<1>1. PICK slot \in ReadSlot : Joined(shown) = {} /\ RefreshRuntime(shown, slot, reads)
  BY DEF Poll
<1>2. UNCHANGED <<clock, shown, runtime, chat, catalogVars, selecting, switching, sends, launching, lastRun,
                 selects, historyVars>>
  BY DEF Poll
<1>3. TaskTyped /\ SharedOK /\ shown \in PageProject /\ shared = {}
  BY <1>1, JoinedFacts DEF TaskInv, TaskTyped
<1>4. PICK new : new = NewRead(slot, "runtime", shown)
  OBVIOUS
<1>5. /\ reads' = reads \cup {new} /\ latest' = slot /\ shared' = {slot} /\ \A r \in reads : r.slot # slot
      /\ new \in Read /\ new.slot = slot /\ new.what = "runtime" /\ new.project = shown /\ new.got = {}
  BY <1>1, <1>3, <1>4, RefreshFacts, NewReadFacts
<1>6. TaskTyped'
  BY <1>2, <1>3, <1>5 DEF TaskTyped, Sole
<1>7. SharedOK'
  BY <1>2, <1>5 DEF SharedOK
<1>8. NewestOK' /\ ChatOK' /\ LocksOK'
  BY <1>2, <1>5 DEF TaskInv, NewestOK, ChatOK, LocksOK, Later
<1>9. \A r \in reads' : ReadOK(r)'
  BY <1>2, <1>3, <1>5 DEF TaskInv, ReadOK
<1>10. \A s \in sends' : SendOK(s)'
  BY <1>2, <1>3, <1>5 DEF TaskInv, SendOK, Later
<1>11. \A t \in reported' : ReportOK(t)'
  BY <1>2, <1>3, <1>5 DEF TaskInv, ReportOK, Later
<1> QED
  BY <1>6, <1>7, <1>8, <1>9, <1>10, <1>11 DEF TaskInv

(* An answer is on its way. *)
LEMMA ServeReadKeeps == TaskInv /\ ServePageRead => TaskInv'
<1> SUFFICES ASSUME TaskInv, ServePageRead PROVE TaskInv'
  OBVIOUS
<1> USE DEF catalogVars, historyVars
<1>1. PICK r, q :
        /\ r \in reads
        /\ r.got = {} /\ q = [r EXCEPT !.got = {clock[r.project]}] /\ reads' = (reads \ {r}) \cup {q}
  BY DEF ServePageRead
<1>2. UNCHANGED <<clock, shown, runtime, chat, catalogVars, latest, shared, selecting, switching, sends,
                 launching, lastRun, selects, historyVars>>
  BY DEF ServePageRead
<1>3. TaskTyped /\ SharedOK /\ shown \in PageProject /\ r \in Read
  BY <1>1 DEF TaskInv, TaskTyped
<1>4. /\ q.slot = r.slot /\ q.what = r.what /\ q.project = r.project /\ q.got = {clock[r.project]}
      /\ r.project \in PageProject /\ clock[r.project] \in Clocks /\ clock[r.project] \in Int
  BY <1>1, <1>3, PageAssumption, ClockFacts DEF Read, TaskTyped
<1>5. q \in Read
  BY <1>1, <1>3, <1>4 DEF Read
<1>6. r.slot \in shared => r.project = shown
  BY <1>1, <1>3 DEF SharedOK, TaskTyped
<1>7. TaskTyped'
  <2>1. reads' \subseteq Read /\ \A x, y \in reads' : x.slot = y.slot => x = y
    <3>1. \A x \in reads : x.slot = r.slot => x = r
      BY <1>1, <1>3 DEF TaskTyped
    <3>2. \A x, y \in reads : x.slot = y.slot => x = y
      BY <1>3 DEF TaskTyped
    <3>3. reads' \subseteq Read
      BY <1>1, <1>3, <1>5 DEF TaskTyped
    <3>4. ASSUME NEW x \in reads', NEW y \in reads', x.slot = y.slot
          PROVE  x = y
      <4>1. (x = q \/ (x \in reads /\ x # r)) /\ (y = q \/ (y \in reads /\ y # r))
        BY <1>1
      <4>2. CASE x \in reads /\ x # r /\ y \in reads /\ y # r
        BY <3>2, <3>4, <4>2
      <4>3. CASE x = q \/ y = q
        BY <1>4, <3>1, <3>4, <4>1, <4>3
      <4> QED
        BY <4>1, <4>2, <4>3
    <3> QED
      BY <3>3, <3>4
  <2> QED
    BY <1>2, <1>3, <2>1 DEF TaskTyped
<1>8. SharedOK'
  <2>1. ASSUME NEW i \in shared
        PROVE  latest = i /\ \E x \in reads' : x.slot = i /\ x.what = "runtime" /\ x.project = shown
    <3>1. PICK x \in reads : x.slot = i /\ x.what = "runtime" /\ x.project = shown
      BY <1>3 DEF SharedOK
    <3>2. q \in reads' /\ (x # r => x \in reads')
      BY <1>1
    <3> QED
      BY <1>3, <1>4, <3>1, <3>2 DEF SharedOK
  <2>2. ASSUME NEW x \in reads', x.what = "runtime", x.slot = latest
        PROVE  latest \in shared
    BY <1>1, <1>3, <1>4, <2>2 DEF SharedOK
  <2> QED
    BY <1>2, <2>1, <2>2 DEF SharedOK
<1>9. NewestOK' /\ LocksOK'
  BY <1>2 DEF TaskInv, NewestOK, LocksOK
<1>10. ChatOK'
  <2>1. lastRun[1] = shown /\ r.project = shown => Later(q, lastRun[2])
    BY <1>4 DEF TaskInv, ChatOK, Later
  <2>2. \A x \in reads : x.what = "chat" /\ x.project = shown /\ lastRun[1] = shown /\ Later(x, lastRun[2])
          => \E y \in reads' : y.what = "chat" /\ y.project = shown /\ Later(y, lastRun[2])
    BY <1>1, <1>4, <2>1
  <2>3. UNCHANGED <<clock, shown, failed, overtaken, chat, lastRun>>
    BY <1>2
  <2> QED
    BY <2>2, <2>3 DEF TaskInv, ChatOK, Later
<1>11. ReadOK(q)'
  BY <1>2, <1>4, <1>6 DEF TaskInv, NewestOK, ReadOK
<1>12. \A x \in reads' : ReadOK(x)'
  BY <1>1, <1>2, <1>11 DEF TaskInv, ReadOK
<1>13. ASSUME NEW s \in sends'
       PROVE  SendOK(s)'
  <2>1. s \in sends /\ SendOK(s)
    BY <1>2 DEF TaskInv
  <2>2. s.current /\ r.slot \in shared => Later(q, s.started)
    BY <1>4, <1>6, <2>1 DEF SendOK, Later
  <2> QED
    BY <1>1, <1>2, <1>4, <2>1, <2>2 DEF SendOK
<1>14. ASSUME NEW t \in reported'
       PROVE  ReportOK(t)'
  <2>1. t \in reported /\ ReportOK(t)
    BY <1>2 DEF TaskInv
  <2>2. r.slot \in shared => Later(q, t)
    BY <1>4, <1>6, <2>1 DEF ReportOK, Later
  <2> QED
    BY <1>1, <1>2, <1>4, <2>1, <2>2 DEF ReportOK
<1> QED
  BY <1>7, <1>8, <1>9, <1>10, <1>12, <1>13, <1>14 DEF TaskInv

(* A read leaves, and perhaps a new one of the chat that is shown comes.   *)
LEMMA ReadsKeep ==
  ASSUME TaskTyped, SharedOK, NEW r \in reads, NEW new, NEW i \in FreeSlot({}),
         new = NewRead(i, "chat", shown), UNCHANGED <<latest, shown>>, shared' = shared \ {r.slot},
         reads' = reads \ {r} \/ reads' = (reads \ {r}) \cup {new}
  PROVE  /\ reads' \subseteq Read /\ \A x, y \in reads' : x.slot = y.slot => x = y
         /\ SharedOK' /\ Sole(shared') /\ shared' \subseteq shared
         /\ \A x \in reads' : x \in reads \/ (x = new /\ x.slot \notin shared)
         /\ r.slot \in shared => shared' = {}
         /\ r.slot \notin shared => shared' = shared
<1>1. /\ i \in ReadSlot /\ \A x \in reads : x.slot # i
      /\ new \in Read /\ new.slot = i /\ new.what = "chat" /\ new.project = shown /\ new.got = {}
      /\ shown \in PageProject
  BY FreeFacts, NewReadFacts DEF TaskTyped
<1>2. reads' \subseteq Read /\ \A x, y \in reads' : x.slot = y.slot => x = y
  BY <1>1 DEF TaskTyped
<1>3. i \notin shared
  BY <1>1 DEF SharedOK
<1>4. Sole(shared) /\ (r.slot \in shared => shared = {r.slot})
  BY DEF TaskTyped, Sole
<1>5. \A x \in reads : x.slot = r.slot => x = r
  BY DEF TaskTyped
<1>6. SharedOK'
  <2>1. ASSUME NEW j \in shared'
        PROVE  latest = j /\ \E x \in reads' : x.slot = j /\ x.what = "runtime" /\ x.project = shown
    <3>1. PICK x \in reads : x.slot = j /\ x.what = "runtime" /\ x.project = shown
      BY DEF SharedOK
    <3>2. x # r /\ x \in reads'
      BY <3>1
    <3> QED
      BY <3>1, <3>2 DEF SharedOK
  <2>2. ASSUME NEW x \in reads', x.what = "runtime", x.slot = latest
        PROVE  latest \in shared'
    <3>1. x \in reads /\ x # r
      BY <1>1, <2>2
    <3> QED
      BY <1>5, <2>2, <3>1 DEF SharedOK
  <2> QED
    BY <2>1, <2>2 DEF SharedOK
<1> QED
  BY <1>1, <1>2, <1>3, <1>4, <1>6 DEF Sole

(* What the read that is shared brings is as late as all it has to be. *)
LEMMA RuntimeAnsweredKeeps == TaskInv /\ RuntimeAnswered => TaskInv'
<1> SUFFICES ASSUME TaskInv, RuntimeAnswered PROVE TaskInv'
  OBVIOUS
<1> USE DEF catalogVars
<1>1. PICK r : r \in reads /\ \E t \in r.got :
       /\ r.what = "runtime"
       /\ shared' = shared \ {r.slot}
       /\ IF Counts(r)
          THEN /\ runtime' = {t} /\ newest' = IF t > newest THEN t ELSE newest
               /\ IF ~RunsNow(t) /\ t > 0 /\ lastRun # <<shown, t>>
                  THEN /\ lastRun' = <<shown, t>>
                       /\ \E i \in FreeSlot({}) : reads' = (reads \ {r}) \cup {NewRead(i, "chat", shown)}
                  ELSE reads' = reads \ {r} /\ UNCHANGED lastRun
          ELSE reads' = reads \ {r} /\ UNCHANGED <<runtime, newest, lastRun>>
  BY DEF RuntimeAnswered
<1>2. PICK t \in r.got :
       /\ r.what = "runtime"
       /\ shared' = shared \ {r.slot}
       /\ IF Counts(r)
          THEN /\ runtime' = {t} /\ newest' = IF t > newest THEN t ELSE newest
               /\ IF ~RunsNow(t) /\ t > 0 /\ lastRun # <<shown, t>>
                  THEN /\ lastRun' = <<shown, t>>
                       /\ \E i \in FreeSlot({}) : reads' = (reads \ {r}) \cup {NewRead(i, "chat", shown)}
                  ELSE reads' = reads \ {r} /\ UNCHANGED lastRun
          ELSE reads' = reads \ {r} /\ UNCHANGED <<runtime, newest, lastRun>>
  BY <1>1
<1>3. UNCHANGED <<clock, shown, chat, catalogVars, latest, selecting, switching, sends, launching, selects,
                 reported, failed, overtaken>>
  BY DEF RuntimeAnswered
<1>4. TaskTyped /\ SharedOK /\ shown \in PageProject /\ r \in reads /\ t \in Clocks /\ t \in Int
  BY <1>1, <1>2, PageAssumption, ClockFacts DEF TaskInv, TaskTyped
<1>5. Counts(r) <=> r.slot \in shared
  <2>1. \A x \in reads : x.slot = r.slot => x = r
    BY <1>4 DEF TaskTyped
  <2> QED
    BY <1>2, <1>4, <2>1 DEF Counts, SharedOK
<1>6. /\ reads' \subseteq Read /\ \A x, y \in reads' : x.slot = y.slot => x = y
      /\ SharedOK' /\ Sole(shared') /\ shared' \subseteq shared
      /\ \A x \in reads' : x \in reads \/ (x.got = {} /\ x.slot \notin shared)
  <2>1. CASE \E i \in FreeSlot({}) : reads' = (reads \ {r}) \cup {NewRead(i, "chat", shown)}
    <3>1. PICK i \in FreeSlot({}) : reads' = (reads \ {r}) \cup {NewRead(i, "chat", shown)}
      BY <2>1
    <3>2. PICK new : new = NewRead(i, "chat", shown)
      OBVIOUS
    <3>3. i \in ReadSlot /\ new.got = {}
      BY <1>4, <3>2, FreeFacts, NewReadFacts
    <3> QED
      BY <1>2, <1>3, <1>4, <3>1, <3>2, <3>3, ReadsKeep
  <2>2. CASE reads' = reads \ {r}
    <3>1. reads' \subseteq Read /\ \A x, y \in reads' : x.slot = y.slot => x = y
      BY <1>4, <2>2 DEF TaskTyped
    <3>2. Sole(shared') /\ shared' \subseteq shared
      BY <1>2, <1>4 DEF TaskTyped, Sole
    <3>3. SharedOK'
      <4>1. \A x \in reads : x.slot = r.slot => x = r
        BY <1>4 DEF TaskTyped
      <4> QED
        BY <1>2, <1>3, <1>4, <2>2, <4>1 DEF SharedOK
    <3> QED
      BY <2>2, <3>1, <3>2, <3>3
  <2> QED
    BY <1>2, <2>1, <2>2
<1>7. Counts(r) => /\ runtime' = {t} /\ newest' = t /\ t >= newest /\ r.project = shown /\ t <= clock[shown]
                   /\ shared' = {}
  <2>1. Counts(r) => t >= newest /\ r.project = shown /\ t <= clock[shown]
    BY <1>4, <1>5 DEF TaskInv, ReadOK, Counts
  <2>2. newest \in Int
    BY <1>4, PageAssumption, ClockFacts
  <2>3. r.slot \in shared => shared' = {}
    BY <1>2, <1>4 DEF TaskTyped, Sole
  <2> QED
    BY <1>2, <1>4, <1>5, <2>1, <2>2, <2>3
<1>8. ~Counts(r) => UNCHANGED <<runtime, newest, lastRun, shared>>
  BY <1>2, <1>5
<1>9. TaskTyped'
  <2>1. runtime' \subseteq Clocks /\ Sole(runtime') /\ newest' \in Clocks
    BY <1>4, <1>7, <1>8 DEF TaskTyped, Sole
  <2>2. lastRun' \in PageProject \X Clocks
    BY <1>2, <1>4 DEF TaskTyped
  <2>3. UNCHANGED <<clock, shown, files, latest, failed, reported, sends, lists, chat, chosen, listing, switching,
                    launching, overtaken>>
    BY <1>3
  <2>4. shared' \subseteq ReadSlot
    BY <1>2, <1>4 DEF TaskTyped
  <2> QED
    BY <1>4, <1>6, <2>1, <2>2, <2>3, <2>4 DEF TaskTyped
<1>10. NewestOK' /\ LocksOK'
  BY <1>3, <1>7, <1>8 DEF TaskInv, NewestOK, LocksOK
<1>11. ChatOK'
  <2>1. CASE UNCHANGED lastRun
    <3>1. \A x \in reads : x.what = "chat" => x \in reads'
      BY <1>2
    <3> QED
      BY <1>3, <2>1, <3>1 DEF TaskInv, ChatOK, Later
  <2>2. CASE lastRun' = <<shown, t>> /\ Counts(r)
             /\ \E i \in FreeSlot({}) : reads' = (reads \ {r}) \cup {NewRead(i, "chat", shown)}
    <3>1. PICK i \in FreeSlot({}) : reads' = (reads \ {r}) \cup {NewRead(i, "chat", shown)}
      BY <2>2
    <3>2. PICK new : new = NewRead(i, "chat", shown)
      OBVIOUS
    <3>3. new \in reads' /\ new.got = {} /\ new.what = "chat" /\ new.project = shown
      BY <1>4, <3>1, <3>2, FreeFacts, NewReadFacts
    <3> QED
      BY <1>3, <1>7, <2>2, <3>3 DEF ChatOK, Later
  <2> QED
    BY <1>2, <1>8, <2>1, <2>2
<1>12. ASSUME NEW x \in reads'
       PROVE  ReadOK(x)'
  <2>1. CASE x \in reads
    <3>1. ReadOK(x) /\ UNCHANGED clock
      BY <1>3, <2>1 DEF TaskInv
    <3> QED
      BY <1>7, <1>8, <3>1 DEF ReadOK
  <2> QED
    BY <1>6, <2>1 DEF ReadOK
<1>13. ASSUME NEW s \in sends'
       PROVE  SendOK(s)'
  <2>1. s \in sends /\ SendOK(s) /\ UNCHANGED <<clock, shown, failed>>
    BY <1>3 DEF TaskInv
  <2>2. s.current /\ s.at = "poll" => \A x \in reads' : x.slot \in shared' \ s.awaits => Later(x, s.started)
    BY <1>6, <2>1 DEF SendOK, Later
  <2>3. s.current /\ s.at = "read" => \A x \in reads' : x.slot \in shared' => Later(x, s.started)
    BY <1>6, <2>1 DEF SendOK, Later
  <2>4. s.current /\ s.at = "read" => s.awaits \subseteq shared' \/ failed > 0 \/ \A u \in runtime' : u >= s.started
    <3>1. CASE Counts(r)
      <4>1. s.current /\ s.at = "read" => t >= s.started
        BY <1>2, <1>4, <1>5, <2>1, <3>1 DEF SendOK, Later
      <4> QED
        BY <1>7, <3>1, <4>1
    <3>2. CASE ~Counts(r)
      BY <1>8, <2>1, <3>2 DEF SendOK
    <3> QED
      BY <3>1, <3>2
  <2> QED
    BY <2>1, <2>2, <2>3, <2>4 DEF SendOK, Later
<1>14. ASSUME NEW u \in reported'
       PROVE  ReportOK(u)'
  <2>1. u \in reported /\ ReportOK(u) /\ UNCHANGED <<clock, shown, failed>>
    BY <1>3 DEF TaskInv
  <2>2. \A x \in reads' : x.slot \in shared' => Later(x, u)
    BY <1>6, <2>1 DEF ReportOK, Later
  <2>3. Counts(r) => t >= u
    BY <1>2, <1>4, <1>5, <2>1 DEF ReportOK, Later
  <2> QED
    BY <1>7, <1>8, <2>1, <2>2, <2>3 DEF ReportOK, Later
<1> QED
  BY <1>6, <1>9, <1>10, <1>11, <1>12, <1>13, <1>14 DEF TaskInv

(* A read leaves, and is the one that is shared or not. *)
LEMMA ReadLeaves ==
  ASSUME TaskTyped, SharedOK, NEW r \in reads, UNCHANGED <<latest, shown>>, reads' = reads \ {r},
         shared' = shared \ {r.slot}
  PROVE  /\ reads' \subseteq Read /\ \A x, y \in reads' : x.slot = y.slot => x = y
         /\ SharedOK' /\ Sole(shared') /\ shared' \subseteq shared
         /\ r.slot \in shared => r.project = shown
<1>1. \A x \in reads : x.slot = r.slot => x = r
  BY DEF TaskTyped
<1>2. reads' \subseteq Read /\ \A x, y \in reads' : x.slot = y.slot => x = y
  BY DEF TaskTyped
<1>3. Sole(shared') /\ shared' \subseteq shared
  BY DEF TaskTyped, Sole
<1>4. SharedOK'
  BY <1>1 DEF SharedOK
<1>5. r.slot \in shared => r.project = shown
  BY <1>1 DEF SharedOK
<1> QED
  BY <1>2, <1>3, <1>4, <1>5

(* The chat that comes is the one that is awaited, or an older one. *)
LEMMA MessagesAnsweredKeeps == TaskInv /\ MessagesAnswered => TaskInv'
<1> SUFFICES ASSUME TaskInv, MessagesAnswered PROVE TaskInv'
  OBVIOUS
<1> USE DEF catalogVars
<1>1. PICK r \in reads : \E t \in r.got :
       /\ r.what = "chat" /\ reads' = reads \ {r}
       /\ IF r.project = shown
          THEN /\ chat' = [project |-> shown, clock |-> t]
               /\ overtaken' = (overtaken \/ (chat.project = shown /\ t < chat.clock))
          ELSE UNCHANGED <<chat, overtaken>>
  BY DEF MessagesAnswered
<1>2. PICK t \in r.got :
       /\ r.what = "chat" /\ reads' = reads \ {r}
       /\ IF r.project = shown
          THEN /\ chat' = [project |-> shown, clock |-> t]
               /\ overtaken' = (overtaken \/ (chat.project = shown /\ t < chat.clock))
          ELSE UNCHANGED <<chat, overtaken>>
  BY <1>1
<1>3. UNCHANGED <<clock, shown, runtime, catalogVars, latest, shared, selecting, switching, sends, launching,
                 lastRun, selects, newest, reported, failed>>
  BY DEF MessagesAnswered
<1>4. /\ TaskTyped /\ SharedOK /\ shown \in PageProject /\ t \in Clocks /\ t \in Int
      /\ chat.clock \in Int /\ lastRun[2] \in Int
  BY <1>2, PageAssumption, ClockFacts DEF TaskInv, TaskTyped
<1>5. r.slot \notin shared
  <2>1. \A x \in reads : x.slot = r.slot => x = r
    BY <1>4 DEF TaskTyped
  <2> QED
    BY <1>2, <1>4, <2>1 DEF SharedOK
<1>6. /\ reads' \subseteq Read /\ \A x, y \in reads' : x.slot = y.slot => x = y
      /\ SharedOK' /\ reads' \subseteq reads
  <2>1. shared' = shared \ {r.slot}
    BY <1>3, <1>5
  <2> QED
    BY <1>2, <1>3, <1>4, <2>1, ReadLeaves
<1>7. TaskTyped'
  <2>1. chat' \in [project : PageProject, clock : Clocks]
    <3>1. r.project = shown => chat' = [project |-> shown, clock |-> t]
      BY <1>2
    <3>2. r.project # shown => chat' = chat
      BY <1>2
    <3> QED
      BY <1>4, <3>1, <3>2 DEF TaskTyped
  <2>2. overtaken' \in BOOLEAN
    <3>1. overtaken' \in BOOLEAN \/ overtaken' = overtaken
      BY <1>2, Zenon
    <3> QED
      BY <1>4, <3>1 DEF TaskTyped
  <2> QED
    BY <1>3, <1>4, <1>6, <2>1, <2>2 DEF TaskTyped
<1>8. NewestOK' /\ LocksOK'
  BY <1>3 DEF TaskInv, NewestOK, LocksOK
<1>9. ChatOK'
  <2>1. lastRun[2] <= clock[lastRun[1]] /\ UNCHANGED <<lastRun, clock, shown, failed>>
    BY <1>3 DEF TaskInv, ChatOK
  <2>2. CASE lastRun[1] = shown
    <3>1. CASE r.project = shown
      <4>1. chat'.project = shown /\ chat'.clock = t
        <5>1. chat' = [project |-> shown, clock |-> t]
          BY <1>2, <3>1
        <5> QED
          BY <5>1
      <4>2. overtaken \/ (chat.project = shown /\ t < chat.clock) => overtaken'
        BY <1>2, <3>1, Zenon
      <4>3. chat.project = shown /\ chat.clock >= lastRun[2] => t < chat.clock \/ t >= lastRun[2]
        BY <1>4
      <4>4. ASSUME NEW x \in reads, x.what = "chat", x.project = shown, Later(x, lastRun[2])
            PROVE  chat'.clock >= lastRun[2] \/ x \in reads'
        BY <1>2, <4>1, <4>4 DEF Later
      <4> QED
        BY <2>1, <2>2, <4>1, <4>2, <4>3, <4>4 DEF TaskInv, ChatOK, Later
    <3>2. CASE r.project # shown
      <4>1. UNCHANGED <<chat, overtaken>>
        BY <1>2, <3>2
      <4>2. \A x \in reads : x.project = shown => x \in reads'
        BY <1>2, <3>2
      <4> QED
        BY <2>1, <2>2, <4>1, <4>2 DEF TaskInv, ChatOK, Later
    <3> QED
      BY <3>1, <3>2
  <2> QED
    BY <2>1, <2>2 DEF ChatOK
<1>10. \A x \in reads' : ReadOK(x)'
  BY <1>3, <1>6 DEF TaskInv, ReadOK
<1>11. \A s \in sends' : SendOK(s)'
  BY <1>3, <1>6 DEF TaskInv, SendOK, Later
<1>12. \A u \in reported' : ReportOK(u)'
  BY <1>3, <1>6 DEF TaskInv, ReportOK, Later
<1> QED
  BY <1>6, <1>7, <1>8, <1>9, <1>10, <1>11, <1>12 DEF TaskInv

LEMMA ReadFailsKeeps == TaskInv /\ ReadFails => TaskInv'
<1> SUFFICES ASSUME TaskInv, ReadFails PROVE TaskInv'
  OBVIOUS
<1> USE DEF catalogVars
<1>1. PICK r \in reads :
       /\ reads' = reads \ {r} /\ shared' = shared \ {r.slot}
       /\ failed < MaxFails /\ failed' = IF r.project = shown THEN failed + 1 ELSE failed
       /\ sends' = {s \in sends : ~(r.what = "chat" /\ r.slot \in s.awaits)}
       /\ launching' = (launching /\ ~\E s \in sends : (r.what = "chat" /\ r.slot \in s.awaits) /\ s.current)
       /\ IF r.what = "chat" /\ r.slot \in selecting
          THEN selecting' = {} /\ switching' = FALSE ELSE UNCHANGED <<selecting, switching>>
  BY DEF ReadFails
<1>2. UNCHANGED <<clock, shown, runtime, chat, catalogVars, latest, lastRun, selects, newest, reported, overtaken>>
  BY DEF ReadFails
<1>3. TaskTyped /\ SharedOK /\ failed \in Nat /\ MaxFails \in Nat
  BY PageAssumption DEF TaskInv, TaskTyped, PageAssumption
<1>4. /\ reads' \subseteq Read /\ \A x, y \in reads' : x.slot = y.slot => x = y
      /\ SharedOK' /\ Sole(shared') /\ shared' \subseteq shared /\ (r.slot \in shared => r.project = shown)
  BY <1>1, <1>2, <1>3, ReadLeaves
<1>5. /\ failed' \in 0 .. MaxFails /\ (failed > 0 => failed' > 0) /\ (r.project = shown => failed' > 0)
      /\ reads' \subseteq reads /\ sends' \subseteq sends /\ launching' \in BOOLEAN /\ switching' \in BOOLEAN
  <2>1. failed' \in 0 .. MaxFails /\ (failed > 0 => failed' > 0) /\ (r.project = shown => failed' > 0)
    BY <1>1, <1>3
  <2>2. launching' \in BOOLEAN
    BY <1>1, Zenon
  <2>3. switching' = FALSE \/ switching' = switching
    BY <1>1
  <2> QED
    BY <1>1, <1>3, <2>1, <2>2, <2>3 DEF TaskTyped
<1>6. TaskTyped'
  BY <1>2, <1>3, <1>4, <1>5 DEF TaskTyped
<1>7. NewestOK'
  BY <1>2 DEF TaskInv, NewestOK
<1>8. LocksOK'
  <2>1. launching' => \E s \in sends' : s.current
    BY <1>1 DEF TaskInv, LocksOK
  <2> QED
    BY <1>2, <2>1 DEF TaskInv, LocksOK
<1>9. ChatOK'
  <2>1. r.project # shown => \A x \in reads : x.project = shown => x \in reads'
    BY <1>1
  <2> QED
    BY <1>2, <1>5, <2>1 DEF TaskInv, ChatOK, Later
<1>10. \A x \in reads' : ReadOK(x)'
  BY <1>2, <1>4, <1>5 DEF TaskInv, ReadOK
<1>11. ASSUME NEW s \in sends'
       PROVE  SendOK(s)'
  <2>1. s \in sends /\ SendOK(s)
    BY <1>5 DEF TaskInv
  <2>2. s.awaits \subseteq shared => s.awaits \subseteq shared' \/ failed' > 0
    BY <1>1, <1>4, <1>5
  <2> QED
    BY <1>2, <1>4, <1>5, <2>1, <2>2 DEF SendOK, Later
<1>12. \A u \in reported' : ReportOK(u)'
  BY <1>2, <1>4, <1>5 DEF TaskInv, ReportOK, Later
<1> QED
  BY <1>4, <1>6, <1>7, <1>8, <1>9, <1>10, <1>11, <1>12 DEF TaskInv

--------------------------------------------------------------------------
(* Another project, or the same anew: what is under way for the last one no longer  *)
(* counts.                                                                         *)
LEMMA SelectProjectKeeps == TaskInv /\ SelectProject => TaskInv'
<1> SUFFICES ASSUME TaskInv, SelectProject PROVE TaskInv'
  OBVIOUS
<1>1. PICK p \in PageProject, slot \in ReadSlot, other \in FreeSlot({}) :
       /\ RefreshRuntime(p, slot, reads \cup {NewRead(other, "chat", p)})
       /\ selecting' = {slot, other}
       /\ shown' = p
       /\ IF p # shown
          THEN /\ files' = {} /\ launching' = FALSE
               /\ sends' = {[s EXCEPT !.current = FALSE] : s \in {m \in sends : ~Answering(m)}}
          ELSE UNCHANGED <<files, launching, sends>>
  BY DEF SelectProject
<1>2. /\ switching' = TRUE /\ runtime' = {} /\ chosen' = FALSE
      /\ newest' = 0 /\ reported' = {} /\ failed' = 0 /\ overtaken' = FALSE
      /\ UNCHANGED <<clock, chat, lists, listing, lastRun>>
  BY DEF SelectProject
<1>3. /\ TaskTyped /\ SharedOK /\ 0 \in Clocks /\ 0 \in 0 .. MaxFails
      /\ \A q \in PageProject : clock[q] \in Nat
      /\ \A r \in reads : \A t \in r.got : t \in Nat
  BY PageAssumption DEF TaskInv, TaskTyped, Clocks, PageAssumption, Read
<1>4. PICK chatRead : chatRead = NewRead(other, "chat", p)
  OBVIOUS
<1>5. /\ other \in ReadSlot /\ \A r \in reads : r.slot # other
      /\ chatRead \in Read /\ chatRead.slot = other /\ chatRead.what = "chat" /\ chatRead.project = p
      /\ chatRead.got = {}
  BY <1>4, FreeFacts, NewReadFacts
<1>6. PICK rest : rest = reads \cup {chatRead}
  OBVIOUS
<1>7. \A x, y \in rest : x.slot = y.slot => x = y
  BY <1>3, <1>5, <1>6 DEF TaskTyped
<1>8. \/ /\ p = shown /\ shared = {slot} /\ reads' = rest /\ latest' = latest /\ shared' = shared
      \/ /\ p = shown => shared = {}
         /\ reads' = rest \cup {NewRead(slot, "runtime", p)} /\ latest' = slot /\ shared' = {slot}
         /\ \A r \in reads \cup rest : r.slot # slot
  BY <1>1, <1>3, <1>4, <1>6, RefreshFacts
<1>9. PICK new : new = NewRead(slot, "runtime", p)
  OBVIOUS
<1>10. new \in Read /\ new.slot = slot /\ new.what = "runtime" /\ new.project = p /\ new.got = {}
  BY <1>9, NewReadFacts
<1>11. /\ reads' \subseteq Read /\ \A x, y \in reads' : x.slot = y.slot => x = y
       /\ SharedOK' /\ Sole(shared') /\ shared' \subseteq ReadSlot /\ latest' \in ReadSlot
       /\ \A x \in reads' : x \in reads \/ x.got = {}
       /\ \A x \in reads' : x.slot \in shared' => x.got = {} \/ (p = shown /\ x \in reads /\ shared' = shared)
       /\ chatRead \in reads'
       /\ p = shown => shared \subseteq shared'
  <2>1. CASE p = shown /\ shared = {slot} /\ reads' = rest /\ latest' = latest /\ shared' = shared
    <3>1. reads' \subseteq Read
      BY <1>3, <1>5, <1>6, <2>1 DEF TaskTyped
    <3>2. SharedOK'
      BY <1>1, <1>3, <1>5, <1>6, <2>1 DEF SharedOK
    <3>3. Sole(shared') /\ shared' \subseteq ReadSlot /\ latest' \in ReadSlot
      BY <1>3, <2>1 DEF TaskTyped
    <3> QED
      BY <1>5, <1>6, <1>7, <2>1, <3>1, <3>2, <3>3
  <2>2. CASE /\ p = shown => shared = {}
             /\ reads' = rest \cup {new} /\ latest' = slot /\ shared' = {slot}
             /\ \A r \in reads \cup rest : r.slot # slot
    <3>1. reads' \subseteq Read
      BY <1>3, <1>5, <1>6, <1>10, <2>2 DEF TaskTyped
    <3>2. SharedOK'
      BY <1>1, <1>5, <1>6, <1>10, <2>2 DEF SharedOK
    <3>3. \A x, y \in reads' : x.slot = y.slot => x = y
      BY <1>7, <1>10, <2>2
    <3>4. Sole(shared') /\ shared' \subseteq ReadSlot /\ latest' \in ReadSlot
      BY <2>2 DEF Sole
    <3>5. \A x \in reads' : x \in reads \/ x = chatRead \/ x = new
      BY <1>6, <2>2
    <3> QED
      BY <1>5, <1>6, <1>10, <2>2, <3>1, <3>2, <3>3, <3>4, <3>5
  <2> QED
    BY <1>8, <1>9, <2>1, <2>2
<1>12. ASSUME NEW s \in sends'
       PROVE  s \in SendType /\ SendOK(s)'
  <2>1. CASE p = shown
    <3>1. s \in sends /\ SendOK(s) /\ s \in SendType
      BY <1>1, <1>3, <2>1 DEF TaskInv, TaskTyped
    <3>2. s.current /\ s.at = "poll" => \A x \in reads' : x.slot \in shared' \ s.awaits => Later(x, s.started)
      BY <1>11, <3>1 DEF SendOK, Later
    <3>3. s.current /\ s.at = "read" => \A x \in reads' : x.slot \in shared' => Later(x, s.started)
      BY <1>11, <3>1 DEF SendOK, Later
    <3>4. shown' = shown /\ clock' = clock
      BY <1>1, <1>2, <2>1
    <3> QED
      BY <1>2, <3>1, <3>2, <3>3, <3>4 DEF SendOK, Later
  <2>2. CASE p # shown
    <3>1. PICK w \in sends : s = [w EXCEPT !.current = FALSE]
      BY <1>1, <2>2
    <3>2. w \in SendType /\ SendOK(w)
      BY <1>3 DEF TaskInv, TaskTyped
    <3>3. /\ s \in SendType /\ s.current = FALSE /\ s.project = w.project /\ s.workflow = w.workflow
          /\ s.started = w.started /\ s.at = w.at /\ s.awaits = w.awaits
      BY <3>1, <3>2 DEF SendType
    <3> QED
      BY <1>2, <3>2, <3>3 DEF SendOK
  <2> QED
    BY <2>1, <2>2
<1>13. TaskTyped'
  <2>1. files' \subseteq PageProject /\ Sole(files') /\ launching' \in BOOLEAN
    BY <1>1, <1>3 DEF TaskTyped, Sole
  <2>2. UNCHANGED <<clock, chat, lists, listing, lastRun>> /\ shown' \in PageProject
    BY <1>1, <1>2
  <2>3. /\ switching' = TRUE /\ runtime' = {} /\ chosen' = FALSE
        /\ newest' = 0 /\ reported' = {} /\ failed' = 0 /\ overtaken' = FALSE
    BY <1>2
  <2>4. sends' \subseteq SendType /\ Sole(runtime')
    BY <1>12, <2>3 DEF Sole
  <2> QED
    BY <1>3, <1>11, <2>1, <2>2, <2>3, <2>4 DEF TaskTyped
<1>14. NewestOK'
  BY <1>1, <1>2, <1>3 DEF NewestOK
<1>15. LocksOK'
  BY <1>1, <1>2 DEF TaskInv, LocksOK
<1>16. ChatOK'
  BY <1>1, <1>2, <1>5, <1>11 DEF TaskInv, ChatOK, Later
<1>17. ASSUME NEW x \in reads'
       PROVE  ReadOK(x)'
  <2>1. CASE x.got = {}
    BY <2>1 DEF ReadOK
  <2>2. CASE x \in reads
    <3>1. \A t \in x.got : t \in Nat /\ t <= clock[x.project]
      BY <1>3, <2>2 DEF TaskInv, ReadOK
    <3> QED
      BY <1>2, <3>1 DEF ReadOK
  <2> QED
    BY <1>11, <2>1, <2>2
<1> QED
  BY <1>2, <1>11, <1>12, <1>13, <1>14, <1>15, <1>16, <1>17 DEF TaskInv

--------------------------------------------------------------------------
(* Messages change, and reads of the chat that is shown begin. *)
LEMMA SendsKeep ==
  ASSUME TaskInv, UNCHANGED <<shown, runtime, chat, catalogVars, latest, shared, lastRun, newest, failed, overtaken>>,
         \A p \in PageProject : clock'[p] \in Int /\ clock[p] <= clock'[p],
         TaskTyped', reads \subseteq reads',
         \A x \in reads' : x \in reads \/ (x.what = "chat" /\ x.got = {} /\ x.slot \notin shared),
         \A s \in sends' : s \in sends \/ SendOK(s)',
         launching' => \E s \in sends' : s.current,
         \A u \in reported' : u \in reported \/ ReportOK(u)'
  PROVE  TaskInv'
<1> USE DEF catalogVars
<1>1. TaskTyped /\ SharedOK /\ shown \in PageProject
  BY DEF TaskInv, TaskTyped
<1>2. SharedOK'
  BY <1>1 DEF SharedOK
<1>3. NewestOK' /\ ChatOK' /\ LocksOK'
  BY <1>1, PageAssumption, ClockFacts DEF TaskInv, TaskTyped, NewestOK, ChatOK, LocksOK, Later
<1>4. ASSUME NEW x \in reads'
      PROVE  ReadOK(x)'
  <2>1. CASE x \in reads
    <3>1. ReadOK(x) /\ x.project \in PageProject /\ \A t \in x.got : t \in Int
      BY <1>1, <2>1, PageAssumption, ClockFacts DEF TaskInv, TaskTyped, Read
    <3>2. clock[x.project] \in Int
      BY <1>1, <3>1, PageAssumption, ClockFacts
    <3> QED
      BY <3>1, <3>2 DEF ReadOK
  <2>2. CASE x.got = {}
    BY <2>2 DEF ReadOK
  <2> QED
    BY <2>1, <2>2
<1>5. ASSUME NEW s \in sends, s \in sends'
      PROVE  SendOK(s)'
  <2>1. SendOK(s) /\ s.project \in PageProject /\ s.started \in Int
    BY <1>1, PageAssumption, ClockFacts DEF TaskInv
  <2>2. s.started <= clock'[s.project]
    BY <1>1, <2>1, PageAssumption, ClockFacts DEF SendOK
  <2>3. \A x \in reads' : x.slot \in shared' => x \in reads
    OBVIOUS
  <2> QED
    BY <2>1, <2>2, <2>3 DEF SendOK, Later
<1>6. ASSUME NEW u \in reported, u \in reported'
      PROVE  ReportOK(u)'
  <2>1. ReportOK(u) /\ u \in Int /\ clock[shown] \in Int
    BY <1>1, PageAssumption, ClockFacts DEF TaskInv
  <2>2. \A x \in reads' : x.slot \in shared' => x \in reads
    OBVIOUS
  <2> QED
    BY <1>1, <2>1, <2>2 DEF ReportOK, Later
<1> QED
  BY <1>2, <1>3, <1>4, <1>5, <1>6 DEF TaskInv

LEMMA SendMessageKeeps == TaskInv /\ SendMessage => TaskInv'
<1> SUFFICES ASSUME TaskInv, SendMessage PROVE TaskInv'
  OBVIOUS
<1> USE DEF catalogVars, historyVars
<1>1. PICK send : send = [project |-> shown, workflow |-> IF chosen THEN files ELSE {}, current |-> TRUE,
                          at |-> "sent", started |-> 0, awaits |-> {}]
  OBVIOUS
<1>2. sends' = sends \cup {send} /\ launching' = TRUE
  BY <1>1 DEF SendMessage
<1>3. UNCHANGED <<clock, shown, runtime, chat, catalogVars, reads, latest, shared, selecting, switching,
                 lastRun, selects, historyVars>>
  BY DEF SendMessage
<1>4. /\ TaskTyped /\ shown \in PageProject /\ 0 \in Clocks /\ files \subseteq {shown}
      /\ \A p \in PageProject : clock[p] \in Nat
  BY PageAssumption DEF TaskInv, TaskTyped, LocksOK, PageAssumption, Clocks
<1>5. /\ send.project = shown /\ send.workflow \subseteq files /\ send.current = TRUE /\ send.at = "sent"
      /\ send.started = 0 /\ send \in SendType
  BY <1>1, <1>4 DEF SendType, TaskTyped
<1>6. SendOK(send)'
  BY <1>3, <1>4, <1>5 DEF SendOK
<1>7. TaskTyped'
  <2>1. sends' \subseteq SendType /\ launching' \in BOOLEAN
    BY <1>2, <1>4, <1>5 DEF TaskTyped
  <2> QED
    BY <1>3, <1>4, <2>1 DEF TaskTyped
<1>8. \A p \in PageProject : clock'[p] \in Int /\ clock[p] <= clock'[p]
  BY <1>3, <1>4
<1> QED
  BY <1>2, <1>3, <1>5, <1>6, <1>7, <1>8, SendsKeep

LEMMA ServeSendKeeps == TaskInv /\ ServeSend => TaskInv'
<1> SUFFICES ASSUME TaskInv, ServeSend PROVE TaskInv'
  OBVIOUS
<1> USE DEF catalogVars, historyVars
<1>1. PICK s \in sends :
       /\ s.at = "sent"
       /\ IF s.workflow = {s.project} /\ ~RunsNow(clock[s.project])
          THEN /\ clock[s.project] < MaxClock /\ clock' = [clock EXCEPT ![s.project] = @ + 1]
               /\ Answer(s, [s EXCEPT !.at = "accepted", !.started = clock'[s.project]])
          ELSE UNCHANGED clock /\ Answer(s, [s EXCEPT !.at = "refused"])
  BY DEF ServeSend
<1>2. UNCHANGED <<shown, runtime, chat, catalogVars, reads, latest, shared, selecting, switching, launching,
                 lastRun, selects, historyVars>>
  BY DEF ServeSend
<1>3. /\ TaskTyped /\ MaxClock \in Nat /\ s \in SendType /\ SendOK(s) /\ s.project \in PageProject
      /\ \A p \in PageProject : clock[p] \in Nat
  BY PageAssumption DEF TaskInv, TaskTyped, PageAssumption, Clocks, SendType
<1>4. PICK q : /\ Answer(s, q) /\ q \in SendType /\ q.project = s.project
               /\ q.workflow = s.workflow /\ q.current = s.current /\ q.at \in {"accepted", "refused"}
               /\ q.started <= clock'[q.project]
               /\ clock' \in [PageProject -> Clocks]
               /\ \A p \in PageProject : clock'[p] <= MaxClock \/ ~RunsNow(clock'[p])
               /\ \A p \in PageProject : clock'[p] \in Int /\ clock[p] <= clock'[p]
  <2>1. CASE s.workflow = {s.project} /\ ~RunsNow(clock[s.project])
    <3>1. /\ clock[s.project] < MaxClock /\ clock' = [clock EXCEPT ![s.project] = @ + 1]
          /\ Answer(s, [s EXCEPT !.at = "accepted", !.started = clock'[s.project]])
      BY <1>1, <2>1
    <3>2. \A p \in PageProject : clock'[p] = IF p = s.project THEN clock[p] + 1 ELSE clock[p]
      BY <1>3, <3>1 DEF TaskTyped
    <3>3. clock[s.project] + 1 \in Clocks /\ clock[s.project] + 1 <= MaxClock
      BY <1>3, <3>1 DEF Clocks
    <3>4. /\ clock' \in [PageProject -> Clocks]
          /\ \A p \in PageProject : clock'[p] <= MaxClock \/ ~RunsNow(clock'[p])
      BY <1>3, <3>1, <3>2, <3>3 DEF TaskTyped
    <3>5. \A p \in PageProject : clock'[p] \in Int /\ clock[p] <= clock'[p]
      BY <1>3, <3>2
    <3>6. PICK w : w = [s EXCEPT !.at = "accepted", !.started = clock'[s.project]]
      OBVIOUS
    <3>7. /\ w \in SendType /\ w.project = s.project /\ w.workflow = s.workflow /\ w.current = s.current
          /\ w.at = "accepted" /\ w.started = clock'[s.project]
      BY <1>3, <3>2, <3>3, <3>6 DEF SendType
    <3>8. w.started <= clock'[w.project]
      BY <1>3, <3>5, <3>7
    <3> QED
      BY <3>1, <3>4, <3>5, <3>6, <3>7, <3>8
  <2>2. CASE ~(s.workflow = {s.project} /\ ~RunsNow(clock[s.project]))
    <3>1. UNCHANGED clock /\ Answer(s, [s EXCEPT !.at = "refused"])
      BY <1>1, <2>2
    <3>2. PICK w : w = [s EXCEPT !.at = "refused"]
      OBVIOUS
    <3>3. /\ w \in SendType /\ w.project = s.project /\ w.workflow = s.workflow /\ w.current = s.current
          /\ w.at = "refused" /\ w.started = s.started
      BY <1>3, <3>2 DEF SendType
    <3>4. w.started <= clock'[w.project]
      BY <1>3, <3>1, <3>3 DEF SendOK
    <3>5. /\ clock' \in [PageProject -> Clocks]
          /\ \A p \in PageProject : clock'[p] <= MaxClock \/ ~RunsNow(clock'[p])
          /\ \A p \in PageProject : clock'[p] \in Int /\ clock[p] <= clock'[p]
      BY <1>3, <3>1 DEF TaskTyped
    <3> QED
      BY <3>1, <3>2, <3>3, <3>4, <3>5
  <2> QED
    BY <2>1, <2>2
<1>5. sends' = (sends \ {s}) \cup {q} \/ (~s.current /\ sends' = sends \ {s})
  BY <1>4 DEF Answer, To
<1>6. TaskTyped'
  <2>1. sends' \subseteq SendType
    BY <1>3, <1>4, <1>5 DEF TaskTyped
  <2> QED
    BY <1>2, <1>3, <1>4, <2>1 DEF TaskTyped
<1>7. SendOK(q)'
  BY <1>2, <1>3, <1>4 DEF SendOK
<1>8. launching' => \E w \in sends' : w.current
  BY <1>2, <1>4, <1>5 DEF TaskInv, LocksOK
<1> QED
  BY <1>2, <1>4, <1>5, <1>6, <1>7, <1>8, SendsKeep

(* A message that is over. *)
LEMMA DoneFacts ==
  ASSUME TaskInv, NEW s \in sends, SendDone(s)
  PROVE  /\ sends' \subseteq sends /\ launching' \in BOOLEAN
         /\ launching' => \E w \in sends' : w.current
<1>1. sends' = sends \ {s} /\ launching' = (launching /\ ~s.current)
  BY DEF SendDone
<1>2. launching' \in BOOLEAN
  BY <1>1, Zenon
<1>3. launching' => launching /\ ~s.current
  BY <1>1, Zenon
<1> QED
  BY <1>1, <1>2, <1>3 DEF TaskInv, LocksOK

LEMMA SendAnsweredKeeps == TaskInv /\ SendAnswered => TaskInv'
<1> SUFFICES ASSUME TaskInv, SendAnswered PROVE TaskInv'
  OBVIOUS
<1> USE DEF catalogVars, historyVars
<1>1. PICK s \in sends :
       \/ s.at = "refused" /\ SendDone(s) /\ UNCHANGED reads
       \/ /\ s.at = "accepted"
          /\ \E i \in FreeSlot({}) :
               /\ reads' = reads \cup {NewRead(i, "chat", shown)}
               /\ To(s, [s EXCEPT !.at = "chat", !.awaits = {i}])
          /\ UNCHANGED launching
  BY DEF SendAnswered
<1>2. UNCHANGED <<clock, shown, runtime, chat, catalogVars, latest, shared, selecting, switching, lastRun,
                 selects, historyVars>>
  BY DEF SendAnswered
<1>3. TaskTyped /\ SharedOK /\ shown \in PageProject /\ s \in SendType /\ SendOK(s)
  BY DEF TaskInv, TaskTyped
<1>4. \A p \in PageProject : clock'[p] \in Int /\ clock[p] <= clock'[p]
  BY <1>2, <1>3, PageAssumption, ClockFacts
<1>5. CASE SendDone(s) /\ UNCHANGED reads
  <2>1. TaskTyped'
    <3>1. sends' \subseteq SendType /\ launching' \in BOOLEAN
      BY <1>3, <1>5, DoneFacts DEF TaskTyped
    <3> QED
      BY <1>2, <1>3, <1>5, <3>1 DEF TaskTyped
  <2> QED
    BY <1>2, <1>4, <1>5, <2>1, DoneFacts, SendsKeep
<1>6. CASE \E i \in FreeSlot({}) :
               /\ reads' = reads \cup {NewRead(i, "chat", shown)}
               /\ To(s, [s EXCEPT !.at = "chat", !.awaits = {i}])
               /\ UNCHANGED launching
  <2>1. PICK i \in FreeSlot({}) :
               /\ reads' = reads \cup {NewRead(i, "chat", shown)}
               /\ sends' = (sends \ {s}) \cup {[s EXCEPT !.at = "chat", !.awaits = {i}]}
               /\ UNCHANGED launching
    BY <1>6 DEF To
  <2>2. PICK new, w : new = NewRead(i, "chat", shown) /\ w = [s EXCEPT !.at = "chat", !.awaits = {i}]
    OBVIOUS
  <2>3. /\ i \in ReadSlot /\ \A r \in reads : r.slot # i
        /\ new \in Read /\ new.slot = i /\ new.what = "chat" /\ new.got = {}
    BY <1>3, <2>2, FreeFacts, NewReadFacts
  <2>4. /\ w \in SendType /\ w.project = s.project /\ w.workflow = s.workflow /\ w.current = s.current
        /\ w.at = "chat" /\ w.started = s.started
    BY <1>3, <2>2, <2>3 DEF SendType
  <2>5. i \notin shared
    BY <1>3, <2>3 DEF SharedOK
  <2>6. TaskTyped'
    <3>1. reads' \subseteq Read /\ \A x, y \in reads' : x.slot = y.slot => x = y
      BY <1>3, <2>1, <2>2, <2>3 DEF TaskTyped
    <3>2. sends' \subseteq SendType
      BY <1>3, <2>1, <2>2, <2>4 DEF TaskTyped
    <3> QED
      BY <1>2, <1>3, <2>1, <3>1, <3>2 DEF TaskTyped
  <2>7. SendOK(w)'
    BY <1>2, <1>3, <2>4 DEF SendOK
  <2>8. launching' => \E u \in sends' : u.current
    BY <2>1, <2>2, <2>4 DEF TaskInv, LocksOK
  <2>9. reads \subseteq reads' /\ \A x \in reads' : x \in reads \/ (x.what = "chat" /\ x.got = {} /\ x.slot \notin shared)
    BY <2>1, <2>2, <2>3, <2>5
  <2> QED
    BY <1>2, <1>4, <2>1, <2>2, <2>6, <2>7, <2>8, <2>9, SendsKeep
<1> QED
  BY <1>1, <1>5, <1>6

LEMMA AnswerLostKeeps == TaskInv /\ AnswerLost => TaskInv'
<1> SUFFICES ASSUME TaskInv, AnswerLost PROVE TaskInv'
  OBVIOUS
<1> USE DEF catalogVars, historyVars
<1>1. PICK s \in sends :
        /\ s.at \in {"sent", "accepted"}
        /\ sends' \subseteq (sends \ {s}) \cup {[s EXCEPT !.current = FALSE]}
  BY DEF AnswerLost, To
<1>2. /\ UNCHANGED <<clock, shown, runtime, chat, catalogVars, reads, latest, shared, selecting, switching,
                     lastRun, selects, historyVars>>
      /\ launching' = FALSE
  BY DEF AnswerLost
<1>3. TaskTyped /\ SharedOK /\ s \in SendType /\ SendOK(s)
  BY DEF TaskInv, TaskTyped
<1>4. \A p \in PageProject : clock'[p] \in Int /\ clock[p] <= clock'[p]
  BY <1>2, <1>3, PageAssumption, ClockFacts
<1>5. PICK w : w = [s EXCEPT !.current = FALSE]
  OBVIOUS
<1>6. /\ w \in SendType /\ w.project = s.project /\ w.workflow = s.workflow /\ w.current = FALSE
      /\ w.at \in {"sent", "accepted"} /\ w.started = s.started
  BY <1>1, <1>3, <1>5 DEF SendType
<1>7. TaskTyped'
  <2>1. sends' \subseteq SendType
    BY <1>1, <1>3, <1>5, <1>6 DEF TaskTyped
  <2> QED
    BY <1>2, <1>3, <2>1 DEF TaskTyped
<1>8. SendOK(w)'
  BY <1>2, <1>3, <1>6 DEF SendOK
<1> QED
  BY <1>1, <1>2, <1>4, <1>5, <1>7, <1>8, SendsKeep

LEMMA SendReportedKeeps == TaskInv /\ SendReported => TaskInv'
<1> SUFFICES ASSUME TaskInv, SendReported PROVE TaskInv'
  OBVIOUS
<1> USE DEF catalogVars
<1>1. PICK s \in sends :
       /\ s.at = "read" /\ ~UnderWay(s.awaits) /\ SendDone(s)
       /\ reported' = IF s.current /\ s.project = shown THEN {s.started} ELSE reported
  BY DEF SendReported
<1>2. UNCHANGED <<clock, shown, runtime, chat, catalogVars, reads, latest, shared, selecting, switching,
                 lastRun, selects, newest, failed, overtaken>>
  BY DEF SendReported
<1>3. TaskTyped /\ SharedOK /\ shown \in PageProject /\ s \in SendType /\ SendOK(s) /\ s.started \in Clocks
  BY DEF TaskInv, TaskTyped, SendType
<1>4. \A p \in PageProject : clock'[p] \in Int /\ clock[p] <= clock'[p]
  BY <1>2, <1>3, PageAssumption, ClockFacts
<1>5. TaskTyped'
  <2>1. sends' \subseteq SendType /\ launching' \in BOOLEAN
    BY <1>1, <1>3, DoneFacts DEF TaskTyped
  <2>2. reported' \subseteq Clocks
    BY <1>1, <1>3 DEF TaskTyped
  <2> QED
    BY <1>2, <1>3, <2>1, <2>2 DEF TaskTyped
(* The read that was waited for is no longer under way, so it is not the one that is shared. *)
<1>6. s.current => failed > 0 \/ \A u \in runtime : u >= s.started
  <2>1. ~(s.awaits \subseteq shared)
    BY <1>1, <1>3 DEF SendOK, UnderWay, SharedOK
  <2> QED
    BY <1>1, <1>3, <2>1 DEF SendOK
<1>7. s.current /\ s.project = shown => ReportOK(s.started)'
  BY <1>1, <1>2, <1>3, <1>6 DEF SendOK, ReportOK, Later
<1>8. \A u \in reported' : u \in reported \/ ReportOK(u)'
  BY <1>1, <1>7
<1> QED
  BY <1>1, <1>2, <1>4, <1>5, <1>8, DoneFacts, SendsKeep

(* It waits for the read under way and joins the next one, or reads anew. *)
LEMMA SendGoesOnKeeps == TaskInv /\ SendGoesOn => TaskInv'
<1> SUFFICES ASSUME TaskInv, SendGoesOn PROVE TaskInv'
  OBVIOUS
<1> USE DEF catalogVars, historyVars
<1>1. PICK s \in sends :
       /\ s.at \in {"chat", "poll"} /\ ~UnderWay(s.awaits)
       /\ IF GoesFor(s) = "poll"
          THEN /\ To(s, [s EXCEPT !.at = "poll", !.awaits = shared])
               /\ UNCHANGED <<reads, latest, shared>>
          ELSE \E slot \in ReadSlot : /\ RefreshRuntime(shown, slot, reads)
                                  /\ To(s, [s EXCEPT !.at = "read", !.awaits = {slot}])
  BY DEF SendGoesOn
<1>2. UNCHANGED <<clock, shown, runtime, chat, catalogVars, selecting, switching, launching, lastRun, selects,
                 historyVars>>
  BY DEF SendGoesOn
<1>3. /\ TaskTyped /\ SharedOK /\ shown \in PageProject /\ s \in SendType /\ SendOK(s) /\ shared \subseteq ReadSlot
  BY DEF TaskInv, TaskTyped
<1>4. \A p \in PageProject : clock'[p] \in Int /\ clock[p] <= clock'[p]
  BY <1>2, <1>3, PageAssumption, ClockFacts
<1>5. \A r \in reads : r.slot \notin s.awaits
  BY <1>1 DEF UnderWay
<1>6. CASE GoesFor(s) = "poll"
  <2>1. sends' = (sends \ {s}) \cup {[s EXCEPT !.at = "poll", !.awaits = shared]} /\ UNCHANGED <<reads, latest, shared>>
    BY <1>1, <1>6 DEF To
  <2>2. PICK w : w = [s EXCEPT !.at = "poll", !.awaits = shared]
    OBVIOUS
  <2>3. /\ w \in SendType /\ w.project = s.project /\ w.workflow = s.workflow /\ w.current = s.current
        /\ w.at = "poll" /\ w.started = s.started /\ w.awaits = shared
    BY <1>3, <2>2 DEF SendType
  <2>4. TaskTyped'
    <3>1. sends' \subseteq SendType
      BY <1>3, <2>1, <2>2, <2>3 DEF TaskTyped
    <3> QED
      BY <1>2, <1>3, <2>1, <3>1 DEF TaskTyped
  <2>5. SendOK(w)'
    BY <1>2, <1>3, <2>1, <2>3 DEF SendOK
  <2>6. launching' => \E u \in sends' : u.current
    BY <1>2, <2>1, <2>2, <2>3 DEF TaskInv, LocksOK
  <2> QED
    BY <1>2, <1>4, <2>1, <2>2, <2>4, <2>5, <2>6, SendsKeep
<1>7. CASE GoesFor(s) # "poll"
  <2>1. PICK slot \in ReadSlot :
          /\ RefreshRuntime(shown, slot, reads)
          /\ sends' = (sends \ {s}) \cup {[s EXCEPT !.at = "read", !.awaits = {slot}]}
    BY <1>1, <1>7 DEF To
  <2>2. PICK w : w = [s EXCEPT !.at = "read", !.awaits = {slot}]
    OBVIOUS
  <2>3. /\ w \in SendType /\ w.project = s.project /\ w.workflow = s.workflow /\ w.current = s.current
        /\ w.at = "read" /\ w.started = s.started /\ w.awaits = {slot}
    BY <1>3, <2>2 DEF SendType
  <2>4. sends' \subseteq SendType /\ launching' \in BOOLEAN
    BY <1>2, <1>3, <2>1, <2>2, <2>3 DEF TaskTyped
  <2>5. launching' => \E u \in sends' : u.current
    BY <1>2, <2>1, <2>2, <2>3 DEF TaskInv, LocksOK
  <2>6. PICK new : new = NewRead(slot, "runtime", shown)
    OBVIOUS
  <2>7. \/ shared = {slot} /\ UNCHANGED <<reads, latest, shared>>
        \/ /\ shared = {} /\ reads' = reads \cup {new} /\ latest' = slot /\ shared' = {slot}
           /\ \A r \in reads : r.slot # slot
    BY <1>3, <2>1, <2>6, RefreshFacts
  <2>8. CASE shared = {slot} /\ UNCHANGED <<reads, latest, shared>>
    <3>1. TaskTyped'
      BY <1>2, <1>3, <2>4, <2>8 DEF TaskTyped
    (* What it joins is not what it waited for, so it is from after the start. *)
    <3>2. s.current => \A r \in reads : r.slot \in shared => Later(r, s.started)
      <4>1. s.at = "poll"
        BY <1>1, <1>7, <2>8 DEF GoesFor
      <4> QED
        BY <1>3, <1>5, <4>1 DEF SendOK
    <3>3. SendOK(w)'
      BY <1>2, <1>3, <2>3, <2>8, <3>2 DEF SendOK, Later
    <3> QED
      BY <1>2, <1>4, <2>1, <2>2, <2>5, <2>8, <3>1, <3>3, SendsKeep
  <2>9. CASE /\ shared = {} /\ reads' = reads \cup {new} /\ latest' = slot /\ shared' = {slot}
             /\ \A r \in reads : r.slot # slot
    <3>1. new \in Read /\ new.slot = slot /\ new.what = "runtime" /\ new.project = shown /\ new.got = {}
      BY <1>3, <2>6, NewReadFacts
    <3>2. TaskTyped'
      <4>1. reads' \subseteq Read /\ \A x, y \in reads' : x.slot = y.slot => x = y
        BY <1>3, <2>9, <3>1 DEF TaskTyped
      <4>2. Sole(shared') /\ shared' \subseteq ReadSlot /\ latest' \in ReadSlot
        BY <2>9 DEF Sole
      <4> QED
        BY <1>2, <1>3, <2>4, <4>1, <4>2 DEF TaskTyped
    <3>3. SharedOK'
      BY <1>2, <2>9, <3>1 DEF SharedOK
    <3>4. NewestOK' /\ LocksOK'
      BY <1>2, <2>5 DEF TaskInv, NewestOK, LocksOK
    <3>5. ChatOK'
      BY <1>2, <2>9 DEF TaskInv, ChatOK, Later
    <3>6. \A r \in reads' : ReadOK(r)'
      BY <1>2, <2>9, <3>1 DEF TaskInv, ReadOK
    <3>7. ASSUME NEW u \in sends'
          PROVE  SendOK(u)'
      <4>1. CASE u \in sends
        <5>1. SendOK(u)
          BY <4>1 DEF TaskInv
        <5>2. \A x \in reads' : x.slot \in shared' => x.got = {}
          BY <2>9, <3>1
        <5> QED
          BY <1>2, <2>9, <5>1, <5>2 DEF SendOK, Later
      <4>2. CASE u = w
        <5>1. \A x \in reads' : x.slot \in shared' => x.got = {}
          BY <2>9, <3>1
        <5> QED
          BY <1>2, <1>3, <2>3, <2>9, <4>2, <5>1 DEF SendOK, Later
      <4> QED
        BY <2>1, <2>2, <4>1, <4>2
    <3>8. \A u \in reported' : ReportOK(u)'
      BY <1>2, <2>9, <3>1 DEF TaskInv, ReportOK, Later
    <3> QED
      BY <3>2, <3>3, <3>4, <3>5, <3>6, <3>7, <3>8 DEF TaskInv
  <2> QED
    BY <2>7, <2>8, <2>9
<1> QED
  BY <1>6, <1>7

--------------------------------------------------------------------------
LEMMA TaskNext == TaskInv /\ [PageNext]_taskPageVars => TaskInv'
<1>1. TaskInv /\ UNCHANGED taskPageVars => TaskInv'
  <2> SUFFICES ASSUME TaskInv, UNCHANGED taskPageVars PROVE TaskInv'
    OBVIOUS
  <2>1. TaskTyped' /\ LocksOK'
    BY DEF taskPageVars, TaskInv, TaskTyped, LocksOK
  <2> QED
    BY <2>1, CatalogKeeps DEF taskPageVars, historyVars
<1> QED
  BY <1>1, RunEndsKeeps, PollKeeps, ServeReadKeeps, RuntimeAnsweredKeeps, MessagesAnsweredKeeps, ReadFailsKeeps,
     SelectProjectKeeps, CatalogSteps, SendMessageKeeps, ServeSendKeeps, SendAnsweredKeeps, AnswerLostKeeps,
     SendGoesOnKeeps, SendReportedKeeps
  DEF PageNext

LEMMA TaskInvariant == PageSpec => []TaskInv
<1> QED
  BY TaskInit, TaskNext, PTL DEF PageSpec

(* PageSound: what is shown never goes back in time, nor behind a start that was   *)
(* reported; a message carries a Workflow of its own project; a lock is held only  *)
(* while a request that opens it is under way; and the answer of the completed run  *)
(* that is shown is in the chat, unless a read failed or an older chat came last    *)
(* (app.js:430-480, 603-620, 781-873).                                             *)
THEOREM PageShowsWhatIs == PageSpec => []PageSound
<1>1. TaskInv => PageSound
  <2> SUFFICES ASSUME TaskInv PROVE PageSound
    OBVIOUS
  <2>1. PageTypeOK
    <3>1. TaskTyped
      BY DEF TaskInv
    <3>2. Cardinality(runtime) <= 1 /\ Cardinality(files) <= 1 /\ Cardinality(shared) <= 1
      BY <3>1, SoleCardinality DEF TaskTyped
    <3> QED
      BY <3>1, <3>2 DEF TaskTyped, PageTypeOK, Clocks
  <2>2. runtime \subseteq {newest} /\ \A s \in sends : s.workflow \subseteq {s.project}
    BY DEF TaskInv, NewestOK, SendOK
  <2>3. failed > 0 \/ \A t \in reported, u \in runtime : u >= t
    BY DEF TaskInv, ReportOK
  <2>4. (launching => \E s \in sends : s.current) /\ (listing => \E l \in lists : l.latest)
    BY DEF TaskInv, LocksOK
  <2>5. ASSUME \A t \in runtime : lastRun = <<shown, t>> /\ ~\E r \in reads : r.what = "chat"
        PROVE  runtime = {} \/ failed > 0 \/ overtaken \/ \E t \in runtime : chat.project = shown /\ chat.clock >= t
    BY <2>5 DEF TaskInv, ChatOK
  <2> QED
    BY <2>1, <2>2, <2>3, <2>4, <2>5 DEF PageSound
<1> QED
  BY <1>1, TaskInvariant, PTL

--------------------------------------------------------------------------
(* Nth(I, .) runs through a finite set of naturals. *)
LEMMA NthEnumerates ==
  ASSUME NEW I \in SUBSET Nat, IsFiniteSet(I)
  PROVE  /\ Cardinality(I) \in Nat
         /\ \A k \in 1 .. Cardinality(I) :
              Nth(I, k) \in I /\ Cardinality({j \in I : j <= Nth(I, k)}) = k
         /\ \A i \in I : \E k \in 1 .. Cardinality(I) : Nth(I, k) = i
<1> DEFINE n == Cardinality(I)
           upTo(i) == {j \in I : j <= i}
           rank == [i \in I |-> Cardinality(upTo(i))]
<1>1. n \in Nat
  BY FS_CardinalityType
<1>2. \A i \in I : rank[i] \in 1 .. n
  <2> SUFFICES ASSUME NEW i \in I PROVE Cardinality(upTo(i)) \in 1 .. n
    OBVIOUS
  <2>1. IsFiniteSet(upTo(i)) /\ Cardinality(upTo(i)) <= n
    BY FS_Subset
  <2>2. Cardinality(upTo(i)) \in Nat
    BY <2>1, FS_CardinalityType
  <2>3. upTo(i) # {}
    OBVIOUS
  <2>4. Cardinality(upTo(i)) # 0
    BY <2>1, <2>3, FS_EmptySet
  <2> QED
    BY <1>1, <2>1, <2>2, <2>4
<1>3. \A i, j \in I : i < j => rank[i] # rank[j]
  <2> SUFFICES ASSUME NEW i \in I, NEW j \in I, i < j
               PROVE  Cardinality(upTo(i)) # Cardinality(upTo(j))
    OBVIOUS
  <2>1. IsFiniteSet(upTo(j))
    BY FS_Subset
  <2>2. upTo(i) \in SUBSET upTo(j)
    <3> SUFFICES ASSUME NEW x \in I, x <= i PROVE x <= j
      OBVIOUS
    <3> QED
      OBVIOUS
  <2>3. j \in upTo(j) /\ j \notin upTo(i)
    OBVIOUS
  <2>4. Cardinality(upTo(j)) = Cardinality(upTo(i)) => upTo(j) = upTo(i)
    BY <2>1, <2>2, FS_Subset
  <2> QED
    BY <2>3, <2>4
<1>4. rank \in Injection(I, 1 .. n)
  <2>1. \A i, j \in I : i # j => i < j \/ j < i
    OBVIOUS
  <2>2. \A i, j \in I : rank[i] = rank[j] => i = j
    BY <1>3, <2>1
  <2>3. rank \in [I -> 1 .. n]
    BY <1>2
  <2> QED
    BY <2>2, <2>3 DEF Injection, IsInjective
<1>5. IsFiniteSet(1 .. n) /\ Cardinality(1 .. n) = n
  BY <1>1, FS_Interval
<1>6. rank \in Surjection(I, 1 .. n)
  <2> HIDE DEF n, rank
  <2> QED
    BY <1>4, <1>5, FS_Injection DEF n
<1>7. \A k \in 1 .. n : \E i \in I : Cardinality(upTo(i)) = k
  BY <1>6 DEF Surjection
<1>8. \A k \in 1 .. n : Nth(I, k) \in I /\ Cardinality(upTo(Nth(I, k))) = k
  BY <1>7 DEF Nth
<1>9. ASSUME NEW i \in I PROVE Nth(I, rank[i]) = i
  <2>1. Cardinality(upTo(i)) = rank[i]
    OBVIOUS
  <2>2. \A j \in I : Cardinality(upTo(j)) = rank[i] => j = i
    BY <1>4, <2>1 DEF Injection, IsInjective
  <2> HIDE DEF rank
  <2> QED
    BY <2>1, <2>2 DEF Nth
<1> QED
  BY <1>1, <1>2, <1>8, <1>9

--------------------------------------------------------------------------
(* indexOf and filter in a flow. *)

(* The positions of a flow that are picked are a finite set of naturals. *)
LEMMA SomePositions ==
  ASSUME NEW S, NEW flow \in Seq(S), NEW I \in SUBSET DOMAIN flow
  PROVE  I \in SUBSET Nat /\ IsFiniteSet(I)
<1>1. DOMAIN flow = 1 .. Len(flow) /\ Len(flow) \in Nat
  BY LenProperties
<1>2. IsFiniteSet(1 .. Len(flow))
  BY <1>1, FS_Interval
<1> QED
  BY <1>1, <1>2, FS_Subset

(* Nth picks every position once. *)
LEMMA NthIsInjective ==
  ASSUME NEW I \in SUBSET Nat, IsFiniteSet(I),
         NEW k \in 1 .. Cardinality(I), NEW m \in 1 .. Cardinality(I), Nth(I, k) = Nth(I, m)
  PROVE  k = m
<1>1. \A l \in 1 .. Cardinality(I) : Cardinality({j \in I : j <= Nth(I, l)}) = l
  BY NthEnumerates
<1>2. Cardinality({j \in I : j <= Nth(I, k)}) = k /\ Cardinality({j \in I : j <= Nth(I, m)}) = m
  BY <1>1
<1> QED
  BY <1>2

(* indexOf finds a Stage that is in the flow, and for one that is not NextOf and *)
(* InsertAfter are not asked. *)
LEMMA SpotFinds ==
  ASSUME NEW S, NEW flow \in Seq(S), NEW s \in ToSet(flow)
  PROVE  Spot(flow, s) \in 1 .. Len(flow) /\ flow[Spot(flow, s)] = s
<1> DEFINE I == {i \in DOMAIN flow : flow[i] = s}
<1>1. I \in SUBSET Nat /\ IsFiniteSet(I)
  <2>1. I \in SUBSET DOMAIN flow
    OBVIOUS
  <2> QED
    BY <2>1, SomePositions
<1>2. PICK i \in I : TRUE
  BY DEF ToSet
<1>3. Cardinality(I) \in Nat
  BY <1>1, FS_CardinalityType
<1>4. Cardinality(I) # 0
  BY <1>1, <1>2, FS_EmptySet
<1>5. Nth(I, 1) \in I
  <2>1. 1 \in 1 .. Cardinality(I)
    BY <1>3, <1>4
  <2> HIDE DEF I
  <2> QED
    BY <1>1, <2>1, NthEnumerates
<1> QED
  BY <1>5, LenProperties DEF Spot

(* filter: what stays is what was there but s, once each where it was there once. *)
LEMMA LessKeeps ==
  ASSUME NEW S, NEW flow \in Seq(S), NEW s
  PROVE  /\ Less(flow, s) \in Seq(S)
         /\ ToSet(Less(flow, s)) = ToSet(flow) \ {s}
         /\ IsInjective(flow) => IsInjective(Less(flow, s))
<1> DEFINE I == {i \in DOMAIN flow : flow[i] # s}
           n == Cardinality(I)
           less == Less(flow, s)
<1>1. I \in SUBSET Nat /\ IsFiniteSet(I)
  <2>1. I \in SUBSET DOMAIN flow
    OBVIOUS
  <2> QED
    BY <2>1, SomePositions
<1>2. n \in Nat /\ (\A k \in 1 .. n : Nth(I, k) \in I) /\ (\A i \in I : \E k \in 1 .. n : Nth(I, k) = i)
  <2> HIDE DEF I
  <2> QED
    BY <1>1, NthEnumerates
<1>3. \A i \in DOMAIN flow : flow[i] \in S
  BY LenProperties
<1>4. less = [k \in 1 .. n |-> flow[Nth(I, k)]]
  BY DEF Less
<1>5. less \in [1 .. n -> S]
  <2> HIDE DEF n
  <2> QED
    BY <1>2, <1>3, <1>4
<1>6. less \in Seq(S)
  <2> HIDE DEF n, less
  <2> QED
    BY <1>2, <1>5, SeqDef
<1>7. ToSet(less) = ToSet(flow) \ {s}
  <2> HIDE DEF n, less
  <2>1. ToSet(less) = {flow[Nth(I, k)] : k \in 1 .. n}
    BY <1>4 DEF ToSet
  <2>2. {flow[Nth(I, k)] : k \in 1 .. n} = {flow[i] : i \in I}
    <3> HIDE DEF I
    <3> QED
      BY <1>2
  <2>3. {flow[i] : i \in I} = ToSet(flow) \ {s}
    BY DEF ToSet
  <2> QED
    BY <2>1, <2>2, <2>3
<1>8. ASSUME IsInjective(flow) PROVE IsInjective(less)
  <2> SUFFICES ASSUME NEW j \in 1 .. n, NEW k \in 1 .. n, less[j] = less[k]
               PROVE  j = k
    <3> HIDE DEF n, less
    <3> QED
      BY <1>4 DEF IsInjective
  <2>1. flow[Nth(I, j)] = flow[Nth(I, k)]
    <3> HIDE DEF less, n
    <3> QED
      BY <1>4
  <2>2. Nth(I, j) = Nth(I, k)
    <3>1. Nth(I, j) \in DOMAIN flow /\ Nth(I, k) \in DOMAIN flow
      BY <1>2
    <3> QED
      BY <1>8, <2>1, <3>1 DEF IsInjective
  <2> HIDE DEF I
  <2> QED
    BY <1>1, <2>2, NthIsInjective
<1> QED
  BY <1>6, <1>7, <1>8

(* A flow with one entry more, anywhere. *)
LEMMA OneMore ==
  ASSUME NEW S, NEW flow \in Seq(S), NEW more \in Seq(S), NEW s, NEW i \in 0 .. Len(flow),
         Len(more) = Len(flow) + 1,
         \A k \in 1 .. Len(flow) + 1 :
           more[k] = IF k <= i THEN flow[k] ELSE IF k = i + 1 THEN s ELSE flow[k - 1]
  PROVE  /\ ToSet(more) = ToSet(flow) \cup {s}
         /\ s \notin ToSet(flow) /\ IsInjective(flow) => IsInjective(more)
<1>1. Len(flow) \in Nat /\ DOMAIN flow = 1 .. Len(flow) /\ DOMAIN more = 1 .. Len(flow) + 1
  BY LenProperties
<1> DEFINE was(k) == IF k <= i THEN k ELSE k - 1
<1>2. \A k \in 1 .. Len(flow) + 1 : k # i + 1 => was(k) \in 1 .. Len(flow) /\ more[k] = flow[was(k)]
  BY <1>1
<1>3. i + 1 \in 1 .. Len(flow) + 1 /\ more[i + 1] = s
  BY <1>1
<1>4. \A j \in 1 .. Len(flow) : \E k \in 1 .. Len(flow) + 1 : more[k] = flow[j]
  <2> TAKE j \in 1 .. Len(flow)
  <2>1. CASE j <= i
    BY <1>1, <2>1
  <2>2. CASE j > i
    <3>1. j + 1 \in 1 .. Len(flow) + 1 /\ ~(j + 1 <= i) /\ j + 1 # i + 1 /\ (j + 1) - 1 = j
      BY <1>1, <2>2
    <3>2. more[j + 1] = flow[j]
      BY <3>1
    <3> QED
      BY <3>1, <3>2
  <2> QED
    BY <1>1, <2>1, <2>2
<1>5. ToSet(more) = ToSet(flow) \cup {s}
  <2>1. \A k \in DOMAIN more : more[k] \in ToSet(flow) \cup {s}
    <3> HIDE DEF was
    <3> QED
      BY <1>1, <1>2, <1>3 DEF ToSet
  <2>2. \A j \in DOMAIN flow : flow[j] \in ToSet(more)
    BY <1>1, <1>4 DEF ToSet
  <2>3. s \in ToSet(more)
    BY <1>1, <1>3 DEF ToSet
  <2>4. ToSet(more) \subseteq ToSet(flow) \cup {s}
    BY <2>1 DEF ToSet
  <2>5. ToSet(flow) \subseteq ToSet(more)
    BY <2>2 DEF ToSet
  <2> QED
    BY <2>3, <2>4, <2>5
<1>6. ASSUME s \notin ToSet(flow), IsInjective(flow) PROVE IsInjective(more)
  <2> SUFFICES ASSUME NEW k \in 1 .. Len(flow) + 1, NEW m \in 1 .. Len(flow) + 1, more[k] = more[m]
               PROVE  k = m
    BY <1>1 DEF IsInjective
  <2>1. \A j \in 1 .. Len(flow) : flow[j] # s
    BY <1>1, <1>6 DEF ToSet
  <2>2. k = i + 1 <=> m = i + 1
    <3> HIDE DEF was
    <3> QED
      BY <1>2, <1>3, <2>1
  <2>3. CASE k # i + 1
    <3>1. was(k) = was(m)
      <4> HIDE DEF was
      <4> QED
        BY <1>1, <1>2, <1>6, <2>2, <2>3 DEF IsInjective
    <3> QED
      BY <2>2, <2>3, <3>1
  <2> QED
    BY <2>2, <2>3
<1> QED
  BY <1>5, <1>6

LEMMA AppendedFlow ==
  ASSUME NEW S, NEW flow \in Seq(S), NEW s \in S
  PROVE  /\ Append(flow, s) \in Seq(S)
         /\ ToSet(Append(flow, s)) = ToSet(flow) \cup {s}
         /\ s \notin ToSet(flow) /\ IsInjective(flow) => IsInjective(Append(flow, s))
<1> DEFINE more == Append(flow, s)
<1>1. more \in Seq(S) /\ Len(more) = Len(flow) + 1
      /\ (\A k \in 1 .. Len(flow) : more[k] = flow[k]) /\ more[Len(flow) + 1] = s
  BY AppendProperties
<1>2. Len(flow) \in Nat
  BY LenProperties
<1> HIDE DEF more
<1>3. \A k \in 1 .. Len(flow) + 1 :
        more[k] = IF k <= Len(flow) THEN flow[k] ELSE IF k = Len(flow) + 1 THEN s ELSE flow[k - 1]
  BY <1>1, <1>2
<1>4. Len(flow) \in 0 .. Len(flow)
  BY <1>2
<1>5. /\ ToSet(more) = ToSet(flow) \cup {s}
      /\ s \notin ToSet(flow) /\ IsInjective(flow) => IsInjective(more)
  BY <1>1, <1>3, <1>4, OneMore
<1> QED
  BY <1>1, <1>5 DEF more

LEMMA InsertedFlow ==
  ASSUME NEW S, NEW flow \in Seq(S), NEW a \in ToSet(flow), NEW s \in S
  PROVE  /\ InsertAfter(flow, a, s) \in Seq(S)
         /\ ToSet(InsertAfter(flow, a, s)) = ToSet(flow) \cup {s}
         /\ s \notin ToSet(flow) /\ IsInjective(flow) => IsInjective(InsertAfter(flow, a, s))
<1> DEFINE i == Spot(flow, a)
           front == SubSeq(flow, 1, i) \o <<s>>
           rest == SubSeq(flow, i + 1, Len(flow))
           more == InsertAfter(flow, a, s)
<1>1. i \in 1 .. Len(flow) /\ Len(flow) \in Nat /\ (\A k \in 1 .. Len(flow) : flow[k] \in S)
  BY SpotFinds, LenProperties
<1>2. more = front \o rest
  BY DEF InsertAfter
<1> HIDE DEF i, more
<1>3. SubSeq(flow, 1, i) \in Seq(S) /\ Len(SubSeq(flow, 1, i)) = i
      /\ \A k \in 1 .. i : SubSeq(flow, 1, i)[k] = flow[k]
  <2>1. i \in Int /\ 1 <= i /\ i - 1 + 1 = i /\ (\A k \in 1 .. i : flow[k] \in S)
    BY <1>1
  <2>2. SubSeq(flow, 1, i) \in Seq(S) /\ Len(SubSeq(flow, 1, i)) = (IF 1 <= i THEN i - 1 + 1 ELSE 0)
        /\ \A k \in 1 .. i - 1 + 1 : SubSeq(flow, 1, i)[k] = flow[1 + k - 1]
    BY <2>1, SubSeqProperties
  <2> QED
    BY <2>1, <2>2
<1>4. rest \in Seq(S) /\ Len(rest) = Len(flow) - i /\ \A k \in 1 .. Len(flow) - i : rest[k] = flow[i + k]
  <2>1. i + 1 \in Int /\ Len(flow) \in Int /\ (\A k \in i + 1 .. Len(flow) : flow[k] \in S)
    BY <1>1
  <2>2. rest \in Seq(S) /\ Len(rest) = (IF i + 1 <= Len(flow) THEN Len(flow) - (i + 1) + 1 ELSE 0)
        /\ \A k \in 1 .. Len(flow) - (i + 1) + 1 : rest[k] = flow[i + 1 + k - 1]
    BY <2>1, SubSeqProperties
  <2>3. \A k \in 1 .. Len(flow) - i : k \in 1 .. Len(flow) - (i + 1) + 1 /\ i + 1 + k - 1 = i + k
    BY <1>1
  <2> HIDE DEF rest
  <2> QED
    BY <1>1, <2>2, <2>3
<1>5. front \in Seq(S) /\ Len(front) = i + 1 /\ (\A k \in 1 .. i : front[k] = flow[k]) /\ front[i + 1] = s
  <2>1. <<s>> \in Seq(S) /\ Len(<<s>>) = 1 /\ <<s>>[1] = s
    OBVIOUS
  <2>2. front \in Seq(S) /\ Len(front) = i + 1
        /\ \A k \in 1 .. i + 1 : front[k] = IF k <= i THEN SubSeq(flow, 1, i)[k] ELSE <<s>>[k - i]
    <3> DEFINE head == SubSeq(flow, 1, i)
               one == <<s>>
    <3>1. head \in Seq(S) /\ Len(head) = i /\ one \in Seq(S) /\ Len(one) = 1 /\ front = head \o one
      BY <1>3, <2>1
    <3> HIDE DEF head, one, front
    <3>2. /\ head \o one \in Seq(S)
          /\ Len(head \o one) = Len(head) + Len(one)
          /\ \A k \in 1 .. Len(head) + Len(one) :
               (head \o one)[k] = IF k <= Len(head) THEN head[k] ELSE one[k - Len(head)]
      BY <3>1, ConcatProperties
    <3>3. front \in Seq(S) /\ Len(front) = i + 1
          /\ \A k \in 1 .. i + 1 : front[k] = IF k <= i THEN head[k] ELSE one[k - i]
      BY <3>1, <3>2
    <3> QED
      BY <3>3 DEF head, one
  <2> HIDE DEF front
  <2>3. \A k \in 1 .. i : front[k] = flow[k]
    BY <1>1, <1>3, <2>2
  <2>4. front[i + 1] = <<s>>[i + 1 - i] /\ i + 1 - i = 1
    BY <1>1, <2>2
  <2> QED
    BY <2>1, <2>2, <2>3, <2>4
<1> HIDE DEF front, rest
<1>6. more \in Seq(S) /\ Len(more) = Len(flow) + 1
      /\ \A k \in 1 .. Len(flow) + 1 : more[k] = IF k <= i + 1 THEN front[k] ELSE rest[k - (i + 1)]
  <2>1. more \in Seq(S) /\ Len(more) = Len(front) + Len(rest)
        /\ \A k \in 1 .. Len(front) + Len(rest) : more[k] = IF k <= Len(front) THEN front[k] ELSE rest[k - Len(front)]
    BY <1>2, <1>4, <1>5, ConcatProperties
  <2>2. Len(front) + Len(rest) = Len(flow) + 1
    BY <1>1, <1>4, <1>5
  <2> QED
    BY <1>5, <2>1, <2>2
<1>7. \A k \in 1 .. Len(flow) + 1 :
        more[k] = IF k <= i THEN flow[k] ELSE IF k = i + 1 THEN s ELSE flow[k - 1]
  <2> TAKE k \in 1 .. Len(flow) + 1
  <2>1. CASE k <= i
    BY <1>1, <1>5, <1>6, <2>1
  <2>2. CASE k = i + 1
    BY <1>1, <1>5, <1>6, <2>2
  <2>3. CASE k > i + 1
    <3>1. k - (i + 1) \in 1 .. Len(flow) - i /\ i + (k - (i + 1)) = k - 1 /\ ~(k <= i + 1)
      BY <1>1, <2>3
    <3>2. more[k] = rest[k - (i + 1)] /\ rest[k - (i + 1)] = flow[k - 1]
      BY <1>4, <1>6, <3>1
    <3> QED
      BY <1>1, <2>3, <3>2
  <2> QED
    BY <1>1, <2>1, <2>2, <2>3
<1>8. i \in 0 .. Len(flow)
  BY <1>1
<1>9. /\ ToSet(more) = ToSet(flow) \cup {s}
      /\ s \notin ToSet(flow) /\ IsInjective(flow) => IsInjective(more)
  BY <1>6, <1>7, <1>8, OneMore
<1> QED
  BY <1>6, <1>9 DEF more

LEMMA PrependedFlow ==
  ASSUME NEW S, NEW flow \in Seq(S), NEW s \in S
  PROVE  /\ <<s>> \o flow \in Seq(S)
         /\ ToSet(<<s>> \o flow) = ToSet(flow) \cup {s}
         /\ s \notin ToSet(flow) /\ IsInjective(flow) => IsInjective(<<s>> \o flow)
<1> DEFINE more == <<s>> \o flow
<1>1. <<s>> \in Seq(S) /\ Len(<<s>>) = 1 /\ <<s>>[1] = s
  OBVIOUS
<1>2. Len(flow) \in Nat
  BY LenProperties
<1>3. more \in Seq(S) /\ Len(more) = 1 + Len(flow)
      /\ \A k \in 1 .. 1 + Len(flow) : more[k] = IF k <= 1 THEN <<s>>[k] ELSE flow[k - 1]
  BY <1>1, ConcatProperties
<1> HIDE DEF more
<1>4. \A k \in 1 .. Len(flow) + 1 :
        more[k] = IF k <= 0 THEN flow[k] ELSE IF k = 0 + 1 THEN s ELSE flow[k - 1]
  <2> TAKE k \in 1 .. Len(flow) + 1
  <2>1. k \in 1 .. 1 + Len(flow) /\ ~(k <= 0)
    BY <1>2
  <2>2. CASE k = 1
    BY <1>1, <1>3, <2>1, <2>2
  <2>3. CASE k # 1
    BY <1>3, <2>1, <2>3
  <2> QED
    BY <2>2, <2>3
<1>5. 0 \in 0 .. Len(flow) /\ Len(more) = Len(flow) + 1
  BY <1>2, <1>3
<1>6. /\ ToSet(more) = ToSet(flow) \cup {s}
      /\ s \notin ToSet(flow) /\ IsInjective(flow) => IsInjective(more)
  BY <1>3, <1>4, <1>5, OneMore
<1> QED
  BY <1>3, <1>6 DEF more

--------------------------------------------------------------------------
(* The canvas, edit by edit: it stays a canvas, and a sound one stays sound. *)

Name == Key \cup {START, END, Done, Stop, None}
StageCard == [routes : [Result -> Name], targets : SUBSET Name]
Board == [stages : UNION {[S -> StageCard] : S \in SUBSET Key}, flow : Seq(Name)]

(* What Sound asks of one Stage among the Stages S. *)
Fits(card, S) ==
  card.targets \subseteq S /\ \A r \in Result : card.routes[r] \in S \cup {Done, Stop, None}

LEMMA NamesInUse ==
  Key \subseteq Name /\ {START, END, Done, Stop, None} \subseteq Name
BY DEF Name

LEMMA BoardParts ==
  ASSUME NEW v \in Board
  PROVE  /\ Stages(v) \in SUBSET Key
         /\ v.stages \in [Stages(v) -> StageCard]
         /\ v.flow \in Seq(Name)
         /\ v = [stages |-> v.stages, flow |-> v.flow]
<1>1. v = [stages |-> v.stages, flow |-> v.flow] /\ v.flow \in Seq(Name)
      /\ v.stages \in UNION {[S -> StageCard] : S \in SUBSET Key}
  BY DEF Board
<1>2. PICK S \in SUBSET Key : v.stages \in [S -> StageCard]
  BY <1>1
<1> QED
  BY <1>1, <1>2 DEF Stages

LEMMA BoardMade ==
  ASSUME NEW S \in SUBSET Key, NEW cards \in [S -> StageCard], NEW flow \in Seq(Name)
  PROVE  /\ [stages |-> cards, flow |-> flow] \in Board
         /\ Stages([stages |-> cards, flow |-> flow]) = S
         /\ InFlow([stages |-> cards, flow |-> flow]) = ToSet(flow)
BY DEF Board, Stages, InFlow

LEMMA SoundMade ==
  ASSUME NEW S \in SUBSET Key, NEW cards \in [S -> StageCard], NEW flow \in Seq(Name),
         ToSet(flow) \subseteq S, IsInjective(flow), \A s \in S : Fits(cards[s], S)
  PROVE  Sound([stages |-> cards, flow |-> flow])
BY BoardMade DEF Sound, Fits, Stages

LEMMA SoundParts ==
  ASSUME NEW v \in Board, Sound(v)
  PROVE  ToSet(v.flow) \subseteq Stages(v) /\ IsInjective(v.flow)
         /\ \A s \in Stages(v) : Fits(v.stages[s], Stages(v))
BY DEF Sound, Fits, InFlow

LEMMA BlankFits ==
  Blank \in StageCard /\ Blank.targets = {} /\ \A S : Fits(Blank, S)
<1>1. Blank \in StageCard
  BY NamesInUse DEF Blank, StageCard
<1>2. Blank.targets = {} /\ \A r \in Result : Blank.routes[r] = None
  BY DEF Blank
<1> QED
  BY <1>1, <1>2 DEF Fits

LEMMA WithStageIsSound ==
  ASSUME NEW v \in Board, NEW s \in Key \ Stages(v), NEW after
  PROVE  /\ WithStage(v, s, after) \in Board
         /\ Stages(WithStage(v, s, after)) = Stages(v) \cup {s}
         /\ Sound(v) => Sound(WithStage(v, s, after))
<1> DEFINE S == Stages(v) \cup {s}
           cards == [t \in S |-> IF t = s THEN Blank ELSE v.stages[t]]
           flow == IF after \in InFlow(v) THEN InsertAfter(v.flow, after, s) ELSE v.flow
<1>1. S \in SUBSET Key /\ v.stages \in [Stages(v) -> StageCard] /\ v.flow \in Seq(Name)
  BY BoardParts
<1>2. cards \in [S -> StageCard]
  BY <1>1, BlankFits
<1>3. s \in Name
  BY NamesInUse
<1>4. /\ flow \in Seq(Name)
      /\ ToSet(flow) \subseteq ToSet(v.flow) \cup {s}
      /\ s \notin ToSet(v.flow) /\ IsInjective(v.flow) => IsInjective(flow)
  BY <1>1, <1>3, InsertedFlow DEF InFlow
<1>5. WithStage(v, s, after) = [stages |-> cards, flow |-> flow]
  BY DEF WithStage
<1> HIDE DEF cards, flow
<1>6. WithStage(v, s, after) \in Board /\ Stages(WithStage(v, s, after)) = S
  <2> HIDE DEF S
  <2>1. [stages |-> cards, flow |-> flow] \in Board /\ Stages([stages |-> cards, flow |-> flow]) = S
    BY <1>1, <1>2, <1>4, BoardMade
  <2> QED
    BY <1>5, <2>1
<1>7. ASSUME Sound(v) PROVE Sound(WithStage(v, s, after))
  <2>1. ToSet(v.flow) \subseteq Stages(v) /\ IsInjective(v.flow)
        /\ \A t \in Stages(v) : Fits(v.stages[t], Stages(v))
    BY <1>7, SoundParts
  <2>2. ToSet(flow) \subseteq S /\ IsInjective(flow)
    BY <1>4, <2>1
  <2>3. \A t \in S : Fits(cards[t], S)
    <3> TAKE t \in S
    <3>1. CASE t = s
      <4>1. cards[t] = Blank
        BY <3>1 DEF cards
      <4> QED
        BY <4>1, BlankFits
    <3>2. CASE t # s
      <4>1. t \in Stages(v) /\ cards[t] = v.stages[t]
        BY <3>2 DEF cards
      <4> QED
        BY <2>1, <4>1 DEF Fits
    <3> QED
      BY <3>1, <3>2
  <2> HIDE DEF S
  <2>4. Sound([stages |-> cards, flow |-> flow])
    BY <1>1, <1>2, <1>4, <2>2, <2>3, SoundMade
  <2> QED
    BY <1>5, <2>4
<1> QED
  BY <1>6, <1>7

LEMMA WithoutStageIsSound ==
  ASSUME NEW v \in Board, NEW s
  PROVE  /\ WithoutStage(v, s) \in Board
         /\ Sound(v) /\ (\A t \in Stages(v) \ {s} : ~Refers(v, t, s)) => Sound(WithoutStage(v, s))
<1> DEFINE S == Stages(v) \ {s}
           cards == [t \in S |-> v.stages[t]]
           flow == Less(v.flow, s)
<1>1. S \in SUBSET Key /\ v.stages \in [Stages(v) -> StageCard] /\ v.flow \in Seq(Name)
  BY BoardParts
<1>2. cards \in [S -> StageCard]
  BY <1>1
<1>3. /\ flow \in Seq(Name)
      /\ ToSet(flow) = ToSet(v.flow) \ {s}
      /\ IsInjective(v.flow) => IsInjective(flow)
  BY <1>1, LessKeeps
<1>4. WithoutStage(v, s) = [stages |-> cards, flow |-> flow]
  BY DEF WithoutStage
<1> HIDE DEF flow
<1>5. WithoutStage(v, s) \in Board
  <2> HIDE DEF S, cards
  <2>1. [stages |-> cards, flow |-> flow] \in Board
    BY <1>1, <1>2, <1>3, BoardMade
  <2> QED
    BY <1>4, <2>1
<1>6. ASSUME Sound(v), \A t \in Stages(v) \ {s} : ~Refers(v, t, s) PROVE Sound(WithoutStage(v, s))
  <2>1. ToSet(v.flow) \subseteq Stages(v) /\ IsInjective(v.flow)
        /\ \A t \in Stages(v) : Fits(v.stages[t], Stages(v))
    BY <1>6, SoundParts
  <2>2. ToSet(flow) \subseteq S /\ IsInjective(flow)
    BY <1>3, <2>1
  <2>3. \A t \in S : Fits(cards[t], S)
    <3> TAKE t \in S
    <3>1. cards[t] = v.stages[t] /\ Fits(v.stages[t], Stages(v))
      BY <2>1
    <3>2. s \notin v.stages[t].targets /\ \A r \in Result : v.stages[t].routes[r] # s
      BY <1>6 DEF Refers
    <3> HIDE DEF cards
    <3> QED
      BY <3>1, <3>2 DEF Fits
  <2> HIDE DEF S, cards
  <2>4. Sound([stages |-> cards, flow |-> flow])
    BY <1>1, <1>2, <1>3, <2>2, <2>3, SoundMade
  <2> QED
    BY <1>4, <2>4
<1> QED
  BY <1>5, <1>6

(* A Stage read from YAML. *)
LEMMA WithBlankIsSound ==
  ASSUME NEW v \in Board, NEW s \in Stages(v)
  PROVE  /\ [v EXCEPT !.stages[s] = Blank] \in Board
         /\ Sound(v) => Sound([v EXCEPT !.stages[s] = Blank])
<1> DEFINE cards == [v.stages EXCEPT ![s] = Blank]
<1>1. Stages(v) \in SUBSET Key /\ v.stages \in [Stages(v) -> StageCard] /\ v.flow \in Seq(Name)
      /\ v = [stages |-> v.stages, flow |-> v.flow]
  BY BoardParts
<1>2. cards \in [Stages(v) -> StageCard]
      /\ \A t \in Stages(v) : cards[t] = IF t = s THEN Blank ELSE v.stages[t]
  BY <1>1, BlankFits
<1>3. [v EXCEPT !.stages[s] = Blank] = [stages |-> cards, flow |-> v.flow]
  BY <1>1
<1> HIDE DEF cards
<1>4. [v EXCEPT !.stages[s] = Blank] \in Board
  <2>1. [stages |-> cards, flow |-> v.flow] \in Board
    BY <1>1, <1>2, BoardMade
  <2> QED
    BY <1>3, <2>1
<1>5. ASSUME Sound(v) PROVE Sound([v EXCEPT !.stages[s] = Blank])
  <2>1. ToSet(v.flow) \subseteq Stages(v) /\ IsInjective(v.flow)
        /\ \A t \in Stages(v) : Fits(v.stages[t], Stages(v))
    BY <1>5, SoundParts
  <2>2. \A t \in Stages(v) : Fits(cards[t], Stages(v))
    BY <1>2, <2>1, BlankFits
  <2>3. Sound([stages |-> cards, flow |-> v.flow])
    BY <1>1, <1>2, <2>1, <2>2, SoundMade
  <2> QED
    BY <1>3, <2>3
<1> QED
  BY <1>4, <1>5

(* One Stage's card changed. *)
LEMMA CardChanged ==
  ASSUME NEW v \in Board, NEW s \in Stages(v), NEW card \in StageCard
  PROVE  /\ [v.stages EXCEPT ![s] = card] \in [Stages(v) -> StageCard]
         /\ Sound(v) /\ Fits(card, Stages(v)) =>
              \A t \in Stages(v) : Fits([v.stages EXCEPT ![s] = card][t], Stages(v))
<1>1. v.stages \in [Stages(v) -> StageCard]
  BY BoardParts
<1> DEFINE cards == [v.stages EXCEPT ![s] = card]
<1>2. cards \in [Stages(v) -> StageCard] /\ \A t \in Stages(v) : cards[t] = IF t = s THEN card ELSE v.stages[t]
  BY <1>1
<1> HIDE DEF cards
<1>3. ASSUME Sound(v), Fits(card, Stages(v)) PROVE \A t \in Stages(v) : Fits(cards[t], Stages(v))
  BY <1>2, <1>3, SoundParts
<1> QED
  BY <1>2, <1>3 DEF cards

LEMMA TargetsChanged ==
  ASSUME NEW card \in StageCard, NEW ts \in SUBSET Name
  PROVE  /\ [card EXCEPT !.targets = ts] \in StageCard
         /\ \A S : ts \subseteq S /\ Fits(card, S) => Fits([card EXCEPT !.targets = ts], S)
BY DEF StageCard, Fits

LEMMA RoutesChanged ==
  ASSUME NEW card \in StageCard, NEW status \in Result, NEW to \in Name
  PROVE  /\ [card EXCEPT !.routes[status] = to] \in StageCard
         /\ \A S : to \in S \cup {Done, Stop, None} /\ Fits(card, S) => Fits([card EXCEPT !.routes[status] = to], S)
<1> DEFINE new == [card EXCEPT !.routes[status] = to]
<1>1. card.routes \in [Result -> Name] /\ card.targets \in SUBSET Name
  BY DEF StageCard
<1>2. new = [routes |-> [card.routes EXCEPT ![status] = to], targets |-> card.targets]
  BY DEF StageCard
<1>3. [card.routes EXCEPT ![status] = to] \in [Result -> Name]
      /\ \A r \in Result : [card.routes EXCEPT ![status] = to][r] = IF r = status THEN to ELSE card.routes[r]
  BY <1>1
<1>4. new \in StageCard
  BY <1>1, <1>2, <1>3 DEF StageCard
<1>5. new.targets = card.targets /\ \A r \in Result : new.routes[r] = IF r = status THEN to ELSE card.routes[r]
  BY <1>2, <1>3
<1> HIDE DEF new
<1>6. \A S : to \in S \cup {Done, Stop, None} /\ Fits(card, S) => Fits(new, S)
  BY <1>5 DEF Fits
<1> QED
  BY <1>4, <1>6 DEF new

LEMMA ConnectedIsSound ==
  ASSUME NEW v \in Board, NEW source \in Key \cup {START}, NEW status \in Result \cup {"handoff"},
         NEW target \in Key \cup {END}
  PROVE  /\ Connected(v, source, status, target) \in Board
         /\ Sound(v) /\ source \in Stages(v) \cup {START} /\ target \in Stages(v) \cup {END}
              /\ ~(target = END /\ (source = START \/ status = "handoff"))
            => Sound(Connected(v, source, status, target))
<1> DEFINE S == Stages(v)
           new == Connected(v, source, status, target)
           Legal == Sound(v) /\ source \in S \cup {START} /\ target \in S \cup {END}
                    /\ ~(target = END /\ (source = START \/ status = "handoff"))
<1>1. S \in SUBSET Key /\ v.stages \in [S -> StageCard] /\ v.flow \in Seq(Name)
      /\ v = [stages |-> v.stages, flow |-> v.flow]
  BY BoardParts
<1>2. source \in Name /\ target \in Name /\ {Done, Stop, None} \subseteq Name
  BY NamesInUse
<1>3. Sound(v) => ToSet(v.flow) \subseteq S /\ IsInjective(v.flow) /\ \A t \in S : Fits(v.stages[t], S)
  BY SoundParts
<1>4. CASE source = START
  <2> DEFINE flow == <<target>> \o Less(v.flow, target)
  <2>1. /\ Less(v.flow, target) \in Seq(Name)
        /\ ToSet(Less(v.flow, target)) = ToSet(v.flow) \ {target}
        /\ IsInjective(v.flow) => IsInjective(Less(v.flow, target))
    BY <1>1, LessKeeps
  <2>2. /\ flow \in Seq(Name)
        /\ ToSet(flow) = ToSet(Less(v.flow, target)) \cup {target}
        /\ target \notin ToSet(Less(v.flow, target)) /\ IsInjective(Less(v.flow, target)) => IsInjective(flow)
    BY <1>2, <2>1, PrependedFlow
  <2>3. new = [v EXCEPT !.flow = flow]
    BY <1>4 DEF Connected
  <2> HIDE DEF flow
  <2>4. [v EXCEPT !.flow = flow] = [stages |-> v.stages, flow |-> flow]
    BY <1>1
  <2>5. [stages |-> v.stages, flow |-> flow] \in Board
    BY <1>1, <2>2, BoardMade
  <2>6. ASSUME Legal PROVE Sound([stages |-> v.stages, flow |-> flow])
    <3>1. ToSet(flow) \subseteq S /\ IsInjective(flow) /\ \A t \in S : Fits(v.stages[t], S)
      BY <1>3, <1>4, <2>1, <2>2, <2>6
    <3> QED
      BY <1>1, <2>2, <3>1, SoundMade
  <2> HIDE DEF new
  <2> QED
    BY <2>3, <2>4, <2>5, <2>6 DEF new
<1>5. CASE source # START
  <2> DEFINE with == IF source \in InFlow(v) THEN v.flow ELSE Append(v.flow, source)
             flow == IF target = END \/ target \in ToSet(with) THEN with
                     ELSE IF status = "fail" THEN Append(with, target) ELSE InsertAfter(with, source, target)
             to == IF target # END THEN target ELSE IF status = "pass" THEN Done ELSE Stop
             route == IF status = "pass" /\ to = NextOf(flow, source) THEN None ELSE to
             cards == IF source \notin Stages(v) THEN v.stages
                      ELSE IF status = "handoff" THEN [v.stages EXCEPT ![source].targets = @ \cup {target}]
                      ELSE [v.stages EXCEPT ![source].routes[status] = route]
  <2>1. new = [stages |-> cards, flow |-> flow]
    BY <1>5 DEF Connected
  <2>2. /\ with \in Seq(Name)
        /\ ToSet(with) = ToSet(v.flow) \cup {source}
        /\ IsInjective(v.flow) => IsInjective(with)
    <3>1. CASE source \in InFlow(v)
      BY <1>1, <3>1 DEF InFlow
    <3>2. CASE source \notin InFlow(v)
      <4>1. /\ Append(v.flow, source) \in Seq(Name)
            /\ ToSet(Append(v.flow, source)) = ToSet(v.flow) \cup {source}
            /\ source \notin ToSet(v.flow) /\ IsInjective(v.flow) => IsInjective(Append(v.flow, source))
        BY <1>1, <1>2, AppendedFlow
      <4> QED
        BY <3>2, <4>1 DEF InFlow
    <3> QED
      BY <3>1, <3>2
  <2>3. route \in Name /\ (Legal => route \in S \cup {Done, Stop, None})
    BY <1>2
  <2> HIDE DEF with
  <2>4. /\ flow \in Seq(Name)
        /\ ToSet(flow) \subseteq ToSet(with) \cup ({target} \ {END})
        /\ IsInjective(with) => IsInjective(flow)
    <3>1. CASE target = END \/ target \in ToSet(with)
      BY <2>2, <3>1
    <3>2. CASE ~(target = END \/ target \in ToSet(with)) /\ status = "fail"
      <4>1. /\ Append(with, target) \in Seq(Name)
            /\ ToSet(Append(with, target)) = ToSet(with) \cup {target}
            /\ target \notin ToSet(with) /\ IsInjective(with) => IsInjective(Append(with, target))
        BY <1>2, <2>2, AppendedFlow
      <4> QED
        BY <3>2, <4>1
    <3>3. CASE ~(target = END \/ target \in ToSet(with)) /\ status # "fail"
      <4>1. source \in ToSet(with)
        BY <2>2
      <4>2. /\ InsertAfter(with, source, target) \in Seq(Name)
            /\ ToSet(InsertAfter(with, source, target)) = ToSet(with) \cup {target}
            /\ target \notin ToSet(with) /\ IsInjective(with) => IsInjective(InsertAfter(with, source, target))
        BY <1>2, <2>2, <4>1, InsertedFlow
      <4> QED
        BY <3>3, <4>2
    <3> QED
      BY <3>1, <3>2, <3>3
  <2> HIDE DEF flow, route
  <2>5. cards \in [S -> StageCard] /\ (Legal => \A t \in S : Fits(cards[t], S))
    <3>1. CASE source \notin S
      BY <1>1, <1>3, <3>1
    <3>2. CASE source \in S /\ status = "handoff"
      <4> DEFINE card == [v.stages[source] EXCEPT !.targets = @ \cup {target}]
      <4>1. v.stages[source] \in StageCard
        BY <1>1, <3>2
      <4>2. v.stages[source].targets \cup {target} \in SUBSET Name
        BY <1>2, <4>1 DEF StageCard
      <4>3. card \in StageCard
            /\ (v.stages[source].targets \cup {target} \subseteq S /\ Fits(v.stages[source], S) => Fits(card, S))
        BY <4>1, <4>2, TargetsChanged
      <4>4. Legal => Fits(v.stages[source], S) /\ v.stages[source].targets \cup {target} \subseteq S
        BY <1>3, <3>2 DEF Fits
      <4>5. cards = [v.stages EXCEPT ![source] = card]
        BY <3>2
      <4> HIDE DEF card, cards
      <4>6. /\ [v.stages EXCEPT ![source] = card] \in [S -> StageCard]
            /\ Sound(v) /\ Fits(card, S) => \A t \in S : Fits([v.stages EXCEPT ![source] = card][t], S)
        BY <3>2, <4>3, CardChanged
      <4> QED
        BY <4>3, <4>4, <4>5, <4>6
    <3>3. CASE source \in S /\ status # "handoff"
      <4> DEFINE card == [v.stages[source] EXCEPT !.routes[status] = route]
      <4>1. v.stages[source] \in StageCard /\ status \in Result
        BY <1>1, <3>3
      <4>2. card \in StageCard
            /\ (route \in S \cup {Done, Stop, None} /\ Fits(v.stages[source], S) => Fits(card, S))
        BY <2>3, <4>1, RoutesChanged
      <4>3. cards = [v.stages EXCEPT ![source] = card]
        BY <3>3
      <4> HIDE DEF card, cards
      <4>4. /\ [v.stages EXCEPT ![source] = card] \in [S -> StageCard]
            /\ Sound(v) /\ Fits(card, S) => \A t \in S : Fits([v.stages EXCEPT ![source] = card][t], S)
        BY <3>3, <4>2, CardChanged
      <4> QED
        BY <1>3, <2>3, <3>3, <4>2, <4>3, <4>4
    <3> QED
      BY <3>1, <3>2, <3>3
  <2> HIDE DEF cards
  <2>6. [stages |-> cards, flow |-> flow] \in Board
    BY <1>1, <2>4, <2>5, BoardMade
  <2>7. ASSUME Legal PROVE Sound([stages |-> cards, flow |-> flow])
    <3>1. ToSet(flow) \subseteq S /\ IsInjective(flow) /\ \A t \in S : Fits(cards[t], S)
      BY <1>3, <1>5, <2>2, <2>4, <2>5, <2>7
    <3> QED
      BY <1>1, <2>4, <2>5, <3>1, SoundMade
  <2> HIDE DEF new
  <2> QED
    BY <2>1, <2>6, <2>7 DEF new
<1> QED
  BY <1>4, <1>5

LEMMA DisconnectedIsSound ==
  ASSUME NEW v \in Board, NEW source \in Stages(v), NEW status \in Result \cup {"handoff"}, NEW target
  PROVE  /\ Disconnected(v, source, status, target) \in Board
         /\ Sound(v) => Sound(Disconnected(v, source, status, target))
<1> DEFINE S == Stages(v)
           to == IF status = "pass" THEN Stop ELSE None
           card == IF status = "handoff" THEN [v.stages[source] EXCEPT !.targets = @ \ {target}]
                   ELSE [v.stages[source] EXCEPT !.routes[status] = to]
           cards == [v.stages EXCEPT ![source] = card]
<1>1. S \in SUBSET Key /\ v.stages \in [S -> StageCard] /\ v.flow \in Seq(Name)
      /\ v = [stages |-> v.stages, flow |-> v.flow]
  BY BoardParts
<1>2. Sound(v) => ToSet(v.flow) \subseteq S /\ IsInjective(v.flow) /\ \A t \in S : Fits(v.stages[t], S)
  BY SoundParts
<1>3. v.stages[source] \in StageCard /\ to \in Name /\ to \in S \cup {Done, Stop, None}
  BY <1>1, NamesInUse
<1>4. card \in StageCard /\ (Sound(v) => Fits(card, S))
  <2>1. Sound(v) => Fits(v.stages[source], S)
    BY <1>2
  <2>2. CASE status = "handoff"
    <3>1. v.stages[source].targets \ {target} \in SUBSET Name
      BY <1>3 DEF StageCard
    <3>2. [v.stages[source] EXCEPT !.targets = @ \ {target}] \in StageCard
          /\ (v.stages[source].targets \ {target} \subseteq S /\ Fits(v.stages[source], S)
                => Fits([v.stages[source] EXCEPT !.targets = @ \ {target}], S))
      BY <1>3, <3>1, TargetsChanged
    <3>3. Sound(v) => v.stages[source].targets \ {target} \subseteq S
      BY <2>1 DEF Fits
    <3> QED
      BY <2>1, <2>2, <3>2, <3>3
  <2>3. CASE status # "handoff"
    <3>1. status \in Result
      BY <2>3
    <3> HIDE DEF to
    <3>2. [v.stages[source] EXCEPT !.routes[status] = to] \in StageCard
          /\ (Fits(v.stages[source], S) => Fits([v.stages[source] EXCEPT !.routes[status] = to], S))
      BY <1>3, <3>1, RoutesChanged
    <3> QED
      BY <2>1, <2>3, <3>2
  <2> QED
    BY <2>2, <2>3
<1>5. Disconnected(v, source, status, target) = [stages |-> cards, flow |-> v.flow]
  <2>1. Disconnected(v, source, status, target) = [v EXCEPT !.stages[source] = card]
    BY DEF Disconnected
  <2> HIDE DEF card
  <2>2. [v EXCEPT !.stages[source] = card] = [stages |-> cards, flow |-> v.flow]
    BY <1>1
  <2> QED
    BY <2>1, <2>2
<1> HIDE DEF card
<1>6. cards \in [S -> StageCard] /\ (Sound(v) => \A t \in S : Fits(cards[t], S))
  BY <1>4, CardChanged
<1> HIDE DEF cards
<1>7. [stages |-> cards, flow |-> v.flow] \in Board
  BY <1>1, <1>6, BoardMade
<1>8. ASSUME Sound(v) PROVE Sound([stages |-> cards, flow |-> v.flow])
  BY <1>1, <1>2, <1>6, <1>8, SoundMade
<1> QED
  BY <1>5, <1>7, <1>8

--------------------------------------------------------------------------
(* Undo and Redo walk along the road of what was shown. *)

LEMMA PushProperties ==
  ASSUME NEW S, NEW stack \in Seq(S), NEW v \in S, Len(stack) <= MaxUndo
  PROVE  /\ Push(stack, v) \in Seq(S)
         /\ Len(Push(stack, v)) <= MaxUndo
         /\ Len(stack) < MaxUndo => Push(stack, v) = Append(stack, v)
         /\ \E d \in 0 .. Len(stack) :
              /\ Len(Push(stack, v)) = Len(stack) + 1 - d
              /\ \A i \in 1 .. Len(stack) - d : Push(stack, v)[i] = stack[i + d]
              /\ Push(stack, v)[Len(stack) + 1 - d] = v
<1>1. Len(stack) \in Nat /\ MaxUndo \in Nat /\ MaxUndo > 0 /\ (\A i \in 1 .. Len(stack) : stack[i] \in S)
  BY DraftAssumption, LenProperties
<1> DEFINE kept == IF Len(stack) < MaxUndo THEN stack ELSE SubSeq(stack, Len(stack) - MaxUndo + 2, Len(stack))
           d == IF Len(stack) < MaxUndo THEN 0 ELSE 1
<1>2. kept \in Seq(S) /\ Len(kept) = Len(stack) - d /\ \A i \in 1 .. Len(stack) - d : kept[i] = stack[i + d]
  <2>1. CASE Len(stack) < MaxUndo
    BY <1>1, <2>1
  <2>2. CASE ~(Len(stack) < MaxUndo)
    <3>1. Len(stack) = MaxUndo /\ kept = SubSeq(stack, 2, Len(stack)) /\ d = 1
      BY <1>1, <2>2
    <3>2. 2 \in Int /\ Len(stack) \in Int /\ \A i \in 2 .. Len(stack) : stack[i] \in S
      BY <1>1
    <3>3. /\ SubSeq(stack, 2, Len(stack)) \in Seq(S)
          /\ Len(SubSeq(stack, 2, Len(stack))) = (IF 2 <= Len(stack) THEN Len(stack) - 2 + 1 ELSE 0)
          /\ \A i \in 1 .. Len(stack) - 2 + 1 : SubSeq(stack, 2, Len(stack))[i] = stack[2 + i - 1]
      BY <3>2, SubSeqProperties
    <3> HIDE DEF kept, d
    <3>4. \A i \in 1 .. Len(stack) - 1 : i \in 1 .. Len(stack) - 2 + 1 /\ 2 + i - 1 = i + 1
      BY <1>1
    <3> QED
      BY <1>1, <3>1, <3>3, <3>4
  <2> QED
    BY <2>1, <2>2
<1>3. Push(stack, v) = Append(kept, v) /\ (Len(stack) < MaxUndo => kept = stack)
  BY DEF Push
<1>4. d \in 0 .. Len(stack) /\ Len(stack) + 1 - d <= MaxUndo
  BY <1>1
<1> HIDE DEF kept, d
<1>5. /\ Append(kept, v) \in Seq(S)
      /\ Len(Append(kept, v)) = Len(kept) + 1
      /\ (\A i \in 1 .. Len(kept) : Append(kept, v)[i] = kept[i])
      /\ Append(kept, v)[Len(kept) + 1] = v
  BY <1>2, AppendProperties
<1>6. Len(kept) + 1 = Len(stack) + 1 - d
  BY <1>1, <1>2, <1>4
<1> QED
  BY <1>2, <1>3, <1>4, <1>5, <1>6

Ahead(i, j, step) == IF step = 1 THEN i <= j ELSE j <= i

(* Retraces, on a road of its own and never turning back. *)
Follows(p, stack, road, place, step) ==
  /\ p[Len(stack) + 1] = place
  /\ \A i \in 1 .. Len(stack) : road[p[i]] = stack[i] /\ p[i + 1] - p[i] \in {0, step}
  /\ \A i, j \in 1 .. Len(stack) + 1 : i <= j => Ahead(p[i], p[j], step)
Walks(stack, road, place, step) ==
  \E p \in [1 .. Len(stack) + 1 -> DOMAIN road] : Follows(p, stack, road, place, step)

(* Places of a stack that lost its first d entries and got one more. *)
LEMMA ShiftedPlaces ==
  ASSUME NEW m \in Nat, NEW n \in Nat, NEW d \in Nat, m + d = n + 1, NEW i \in 1 .. m
  PROVE  /\ i + d \in 1 .. n + 1 /\ n + 1 \in 1 .. n + 1 /\ i + d <= n + 1
         /\ i # m => i \in 1 .. n - d /\ i + 1 \in 1 .. m /\ i + d \in 1 .. n /\ (i + 1) + d = (i + d) + 1
OBVIOUS

LEMMA UpToOneMore ==
  ASSUME NEW m \in Nat, NEW i \in 1 .. m + 1, NEW j \in 1 .. m + 1, i <= j
  PROVE  \/ i \in 1 .. m /\ j \in 1 .. m
         \/ j = m + 1 /\ i \in 1 .. m
         \/ i = m + 1 /\ j = m + 1
OBVIOUS

(* What lies behind a place is the same on both roads. *)
Carries(road, on, place, step) ==
  \A i \in DOMAIN road : Ahead(i, place, step) => i \in DOMAIN on /\ on[i] = road[i]

(* One step on, or none, is ahead of all that was behind. *)
LEMMA AheadOn ==
  ASSUME NEW i \in Nat, NEW j \in Nat, NEW k \in Nat, NEW step \in {1, -1}, Ahead(i, j, step), k - j \in {0, step}
  PROVE  Ahead(i, k, step)
<1>1. CASE step = 1
  BY <1>1 DEF Ahead
<1>2. CASE step = -1
  BY <1>2 DEF Ahead
<1> QED
  BY <1>1, <1>2

(* A stack takes what is shown, and the next place is one step on or the same. *)
LEMMA WalkGrows ==
  ASSUME NEW S, NEW stack \in Seq(S), Len(stack) <= MaxUndo, NEW road \in Seq(S), NEW on \in Seq(S),
         NEW step \in {1, -1}, NEW place \in DOMAIN road, NEW next \in DOMAIN on,
         next - place \in {0, step},
         Carries(road, on, place, step), Walks(stack, road, place, step)
  PROVE  Walks(Push(stack, road[place]), on, next, step)
<1>1. Len(stack) \in Nat /\ DOMAIN road \in SUBSET Nat /\ DOMAIN on \in SUBSET Nat /\ road[place] \in S
  BY LenProperties
<1> DEFINE v == road[place]
           new == Push(stack, v)
           n == Len(stack)
<1>2. PICK p \in [1 .. n + 1 -> DOMAIN road] :
        /\ p[n + 1] = place
        /\ \A i \in 1 .. n : road[p[i]] = stack[i] /\ p[i + 1] - p[i] \in {0, step}
        /\ \A i, j \in 1 .. n + 1 : i <= j => Ahead(p[i], p[j], step)
  BY DEF Walks, Follows
<1>3. PICK d \in 0 .. n :
        /\ Len(new) = n + 1 - d
        /\ \A i \in 1 .. n - d : new[i] = stack[i + d]
        /\ new[n + 1 - d] = v
  BY <1>1, PushProperties
<1> DEFINE m == n + 1 - d
           q == [i \in 1 .. m + 1 |-> IF i = m + 1 THEN next ELSE p[i + d]]
<1>4. m \in Nat /\ m > 0 /\ n \in Nat /\ d \in Nat /\ step \in Int /\ m + d = n + 1
  BY <1>1
<1> HIDE DEF n, new, v, m
<1>5. \A i \in 1 .. m : i + d \in 1 .. n + 1 /\ p[i + d] \in DOMAIN road /\ Ahead(p[i + d], place, step)
  <2> TAKE i \in 1 .. m
  <2>1. i + d \in 1 .. n + 1 /\ n + 1 \in 1 .. n + 1 /\ i + d <= n + 1
    BY <1>4, ShiftedPlaces
  <2> QED
    BY <1>2, <2>1
<1>6. \A i \in 1 .. m : q[i] = p[i + d] /\ q[i] \in DOMAIN on /\ on[q[i]] = road[p[i + d]]
  <2> TAKE i \in 1 .. m
  <2>1. q[i] = p[i + d]
    BY <1>4
  <2> HIDE DEF q
  <2> QED
    BY <1>5, <2>1 DEF Carries
<1>7. q[m + 1] = next /\ q \in [1 .. m + 1 -> DOMAIN on]
  <2>1. q[m + 1] = next
    BY <1>4
  <2>2. \A i \in 1 .. m + 1 : q[i] \in DOMAIN on
    <3> TAKE i \in 1 .. m + 1
    <3>1. i = m + 1 \/ i \in 1 .. m
      BY <1>4
    <3> HIDE DEF q
    <3> QED
      BY <1>6, <2>1, <3>1
  <2>3. q = [i \in 1 .. m + 1 |-> q[i]]
    BY Zenon
  <2> HIDE DEF q
  <2> QED
    BY <2>1, <2>2, <2>3
<1>8. \A i \in 1 .. m : on[q[i]] = new[i] /\ q[i + 1] - q[i] \in {0, step}
  <2> TAKE i \in 1 .. m
  <2>1. CASE i = m
    <3>1. m + d = n + 1 /\ m \in 1 .. m
      BY <1>4
    <3>2. p[m + d] = place /\ new[m] = v
      BY <1>2, <1>3, <3>1 DEF m
    <3>3. q[m] = place /\ on[q[m]] = v /\ q[m + 1] = next
      <4> HIDE DEF q
      <4> QED
        BY <1>6, <1>7, <3>1, <3>2 DEF v
    <3> HIDE DEF q
    <3> QED
      BY <2>1, <3>2, <3>3
  <2>2. CASE i # m
    <3>1. i \in 1 .. n - d /\ i + 1 \in 1 .. m /\ i + d \in 1 .. n /\ (i + 1) + d = (i + d) + 1
      BY <1>4, <2>2, ShiftedPlaces
    <3>2. new[i] = stack[i + d] /\ road[p[i + d]] = stack[i + d] /\ p[(i + d) + 1] - p[i + d] \in {0, step}
      BY <1>2, <1>3, <3>1
    <3> HIDE DEF q
    <3> QED
      BY <1>6, <3>1, <3>2
  <2> QED
    BY <2>1, <2>2
<1>9. \A i, j \in 1 .. m + 1 : i <= j => Ahead(q[i], q[j], step)
  <2> SUFFICES ASSUME NEW i \in 1 .. m + 1, NEW j \in 1 .. m + 1, i <= j
               PROVE  Ahead(q[i], q[j], step)
    OBVIOUS
  <2>1. CASE i \in 1 .. m /\ j \in 1 .. m
    <3>1. i + d \in 1 .. n + 1 /\ j + d \in 1 .. n + 1
      BY <1>4, <2>1, ShiftedPlaces
    <3>2. i + d <= j + d
      BY <1>4
    <3>3. Ahead(p[i + d], p[j + d], step)
      BY <1>2, <3>1, <3>2
    <3> HIDE DEF q
    <3> QED
      BY <1>6, <2>1, <3>3
  <2>2. CASE j = m + 1 /\ i \in 1 .. m
    <3>1. Ahead(p[i + d], place, step) /\ p[i + d] \in Nat /\ place \in Nat /\ next \in Nat
      BY <1>1, <1>5, <2>2
    <3>2. Ahead(p[i + d], next, step)
      BY <3>1, AheadOn
    <3> HIDE DEF q
    <3> QED
      BY <1>6, <1>7, <2>2, <3>2
  <2>3. CASE i = m + 1 /\ j = m + 1
    <3>1. next \in Nat
      BY <1>1
    <3> HIDE DEF q
    <3> QED
      BY <1>7, <2>3, <3>1 DEF Ahead
  <2> QED
    BY <1>4, <2>1, <2>2, <2>3, UpToOneMore
<1>10. Len(new) = m
  BY <1>3 DEF m
<1> HIDE DEF q
<1>11. Walks(new, on, next, step)
  <2>1. /\ q \in [1 .. Len(new) + 1 -> DOMAIN on]
        /\ q[Len(new) + 1] = next
        /\ \A i \in 1 .. Len(new) : on[q[i]] = new[i] /\ q[i + 1] - q[i] \in {0, step}
        /\ \A i, j \in 1 .. Len(new) + 1 : i <= j => Ahead(q[i], q[j], step)
    BY <1>7, <1>8, <1>9, <1>10
  <2> QED
    BY <2>1 DEF Walks, Follows
<1> QED
  BY <1>11 DEF new, v

LEMMA WalkBegins ==
  ASSUME NEW road, NEW place \in DOMAIN road, DOMAIN road \in SUBSET Nat, NEW step \in {1, -1}
  PROVE  Walks(<<>>, road, place, step)
<1> DEFINE p == [i \in {1} |-> place]
<1>1. Len(<<>>) = 0 /\ 1 .. 0 + 1 = {1} /\ 1 .. 0 = {} /\ 0 + 1 = 1
  OBVIOUS
<1>2. p \in [{1} -> DOMAIN road] /\ p[1] = place
  OBVIOUS
<1> HIDE DEF p
<1>3. \A i, j \in {1} : i <= j => Ahead(p[i], p[j], step)
  BY <1>2 DEF Ahead
<1>4. /\ p \in [1 .. Len(<<>>) + 1 -> DOMAIN road]
      /\ p[Len(<<>>) + 1] = place
      /\ \A i \in 1 .. Len(<<>>) : road[p[i]] = <<>>[i] /\ p[i + 1] - p[i] \in {0, step}
      /\ \A i, j \in 1 .. Len(<<>>) + 1 : i <= j => Ahead(p[i], p[j], step)
  BY <1>1, <1>2, <1>3
<1> QED
  BY <1>4 DEF Walks, Follows

(* No two canvases in a row are the same. *)
Moves(road) == \A i \in 1 .. Len(road) - 1 : road[i] # road[i + 1]

LEMMA FrontProperties ==
  ASSUME NEW S, NEW stack \in Seq(S), stack # <<>>
  PROVE  /\ Len(stack) \in Nat /\ Len(stack) > 0
         /\ Last(stack) \in S
         /\ Front(stack) \in Seq(S)
         /\ Len(Front(stack)) = Len(stack) - 1
         /\ \A i \in 1 .. Len(stack) - 1 : Front(stack)[i] = stack[i]
<1>1. Len(stack) \in Nat /\ Len(stack) > 0 /\ \A i \in 1 .. Len(stack) : stack[i] \in S
  BY EmptySeq, LenProperties
<1>2. 1 \in Int /\ Len(stack) - 1 \in Int /\ \A i \in 1 .. Len(stack) - 1 : stack[i] \in S
  BY <1>1
<1> DEFINE front == SubSeq(stack, 1, Len(stack) - 1)
<1>3. /\ front \in Seq(S)
      /\ Len(front) = (IF 1 <= Len(stack) - 1 THEN Len(stack) - 1 - 1 + 1 ELSE 0)
      /\ \A i \in 1 .. Len(stack) - 1 - 1 + 1 : front[i] = stack[1 + i - 1]
  BY <1>2, SubSeqProperties
<1> HIDE DEF front
<1>4. Len(front) = Len(stack) - 1 /\ \A i \in 1 .. Len(stack) - 1 : front[i] = stack[i]
  <2>1. \A i \in 1 .. Len(stack) - 1 : i \in 1 .. Len(stack) - 1 - 1 + 1 /\ 1 + i - 1 = i
    BY <1>1
  <2>2. \A i \in 1 .. Len(stack) - 1 : front[i] = stack[i]
    BY <1>3, <2>1
  <2>3. (IF 1 <= Len(stack) - 1 THEN Len(stack) - 1 - 1 + 1 ELSE 0) = Len(stack) - 1
    <3>1. \A l \in Nat : l > 0 => (IF 1 <= l - 1 THEN l - 1 - 1 + 1 ELSE 0) = l - 1
      OBVIOUS
    <3>2. Len(stack) \in Nat /\ Len(stack) > 0
      BY <1>1
    <3> QED
      BY <3>1, <3>2
  <2> QED
    BY <1>3, <2>2, <2>3
<1> QED
  BY <1>1, <1>3, <1>4 DEF Front, Last, front

(* Where the walk was before the last place: there if the stack ends with what is shown *)
(* there, and else one step back. *)
LEMMA WalkCameFrom ==
  ASSUME NEW S, NEW stack \in Seq(S), stack # <<>>, NEW road \in Seq(S), Moves(road),
         NEW step \in {1, -1}, NEW place \in DOMAIN road,
         NEW p \in [1 .. Len(stack) + 1 -> DOMAIN road], Follows(p, stack, road, place, step)
  PROVE  p[Len(stack)] = IF Last(stack) = road[place] THEN place ELSE place - step
<1> DEFINE n == Len(stack)
           b == p[n]
<1>1. n \in Nat /\ n > 0 /\ Len(road) \in Nat /\ DOMAIN road = 1 .. Len(road)
  BY FrontProperties, LenProperties
<1>2. n \in 1 .. n /\ n \in 1 .. n + 1
  BY <1>1
<1>3. b \in 1 .. Len(road) /\ road[b] = Last(stack) /\ place - b \in {0, step} /\ place \in 1 .. Len(road)
  BY <1>1, <1>2 DEF Last, Follows
<1> HIDE DEF b, n
<1>4. CASE b = place
  BY <1>3, <1>4 DEF b, n
<1>5. CASE b # place
  <2>1. b = place - step /\ step \in Int
    BY <1>1, <1>3, <1>5
  <2>2. road[b] # road[place]
    <3>1. CASE step = 1
      <4>1. b \in 1 .. Len(road) - 1 /\ place = b + 1
        BY <1>1, <1>3, <2>1, <3>1
      <4> QED
        BY <4>1 DEF Moves
    <3>2. CASE step = -1
      <4>1. place \in 1 .. Len(road) - 1 /\ b = place + 1
        BY <1>1, <1>3, <2>1, <3>2
      <4> QED
        BY <4>1 DEF Moves
    <3> QED
      BY <3>1, <3>2
  <2> QED
    BY <1>3, <2>1, <2>2 DEF b, n
<1> QED
  BY <1>4, <1>5

(* A stack gives up its last canvas, which is shown next. *)
LEMMA WalkShrinks ==
  ASSUME NEW S, NEW stack \in Seq(S), stack # <<>>, NEW road \in Seq(S), Moves(road),
         NEW step \in {1, -1}, NEW place \in DOMAIN road, Walks(stack, road, place, step),
         NEW back, back = IF Last(stack) = road[place] THEN place ELSE place - step
  PROVE  /\ back \in DOMAIN road
         /\ road[back] = Last(stack)
         /\ place - back \in {0, step}
         /\ Walks(Front(stack), road, back, step)
<1> DEFINE n == Len(stack)
<1>1. /\ n \in Nat /\ n > 0
      /\ Len(Front(stack)) = n - 1
      /\ \A i \in 1 .. n - 1 : Front(stack)[i] = stack[i]
  BY FrontProperties
<1>2. PICK p \in [1 .. n + 1 -> DOMAIN road] :
        /\ p[n + 1] = place
        /\ \A i \in 1 .. n : road[p[i]] = stack[i] /\ p[i + 1] - p[i] \in {0, step}
        /\ \A i, j \in 1 .. n + 1 : i <= j => Ahead(p[i], p[j], step)
  BY DEF Walks, Follows
<1>3. p[n] = back
  <2>1. p[n] = IF Last(stack) = road[place] THEN place ELSE place - step
    <3> HIDE DEF n
    <3>1. p \in [1 .. Len(stack) + 1 -> DOMAIN road] /\ Follows(p, stack, road, place, step)
      BY <1>2 DEF n, Follows
    <3>2. p[Len(stack)] = IF Last(stack) = road[place] THEN place ELSE place - step
      BY <3>1, WalkCameFrom
    <3> QED
      BY <3>2 DEF n
  <2> QED
    BY <2>1
<1>4. stack[n] = Last(stack)
  BY DEF Last
<1> HIDE DEF n
<1>5. back \in DOMAIN road /\ road[back] = Last(stack) /\ place - back \in {0, step}
  <2>1. n \in 1 .. n /\ n \in 1 .. n + 1
    BY <1>1
  <2> QED
    BY <1>2, <1>3, <1>4, <2>1
<1> DEFINE q == [i \in 1 .. n |-> p[i]]
<1>6. n - 1 + 1 = n /\ 1 .. n \subseteq 1 .. n + 1
  BY <1>1
<1>7. q \in [1 .. n -> DOMAIN road] /\ \A i \in 1 .. n : q[i] = p[i]
  BY <1>2, <1>6
<1>8. \A i \in 1 .. n - 1 : i \in 1 .. n /\ i + 1 \in 1 .. n
  BY <1>1
<1>9. n \in 1 .. n
  BY <1>1
<1> HIDE DEF q
<1>10. /\ q[n] = back
       /\ \A i \in 1 .. n - 1 : road[q[i]] = Front(stack)[i] /\ q[i + 1] - q[i] \in {0, step}
       /\ \A i, j \in 1 .. n : i <= j => Ahead(q[i], q[j], step)
  <2>1. q[n] = back
    BY <1>3, <1>7, <1>9
  <2>2. \A i \in 1 .. n - 1 : road[q[i]] = Front(stack)[i] /\ q[i + 1] - q[i] \in {0, step}
    BY <1>1, <1>2, <1>7, <1>8
  <2>3. \A i, j \in 1 .. n : i <= j => Ahead(q[i], q[j], step)
    BY <1>2, <1>6, <1>7
  <2> QED
    BY <2>1, <2>2, <2>3
<1>11. /\ q \in [1 .. Len(Front(stack)) + 1 -> DOMAIN road]
       /\ q[Len(Front(stack)) + 1] = back
       /\ \A i \in 1 .. Len(Front(stack)) : road[q[i]] = Front(stack)[i] /\ q[i + 1] - q[i] \in {0, step}
       /\ \A i, j \in 1 .. Len(Front(stack)) + 1 : i <= j => Ahead(q[i], q[j], step)
  BY <1>1, <1>6, <1>7, <1>10
<1> QED
  BY <1>5, <1>11 DEF Walks, Follows

(* What is shown moves on while the stack, which ends with it, stays. *)
LEMMA WalkMovesOn ==
  ASSUME NEW S, NEW stack \in Seq(S), stack # <<>>, NEW road \in Seq(S), Moves(road), NEW on \in Seq(S),
         NEW place \in DOMAIN road, Last(stack) = road[place], place + 1 \in DOMAIN on,
         \A i \in DOMAIN road : i <= place => i \in DOMAIN on /\ on[i] = road[i],
         Walks(stack, road, place, 1)
  PROVE  Walks(stack, on, place + 1, 1)
<1> DEFINE n == Len(stack)
<1>1. n \in Nat /\ n > 0 /\ DOMAIN road \in SUBSET Nat
  BY FrontProperties, LenProperties
<1>2. PICK p \in [1 .. n + 1 -> DOMAIN road] :
        /\ p[n + 1] = place
        /\ \A i \in 1 .. n : road[p[i]] = stack[i] /\ p[i + 1] - p[i] \in {0, 1}
        /\ \A i, j \in 1 .. n + 1 : i <= j => Ahead(p[i], p[j], 1)
  BY DEF Walks, Follows
<1>3. p[n] = place
  <2> DEFINE b == p[n]
  <2>1. n \in 1 .. n /\ n \in 1 .. n + 1
    BY <1>1
  <2>2. b \in DOMAIN road /\ road[b] = Last(stack) /\ place - b \in {0, 1}
    BY <1>2, <2>1 DEF Last
  <2>3. Len(road) \in Nat /\ DOMAIN road = 1 .. Len(road)
    BY LenProperties
  <2> HIDE DEF b
  <2>4. ASSUME b # place PROVE FALSE
    <3>1. b \in 1 .. Len(road) - 1 /\ place = b + 1
      BY <2>2, <2>3, <2>4
    <3>2. road[b] # road[place]
      BY <3>1 DEF Moves
    <3> QED
      BY <2>2, <3>2
  <2> QED
    BY <2>4 DEF b
<1> HIDE DEF n
<1>4. \A i \in 1 .. n : p[i] \in DOMAIN road /\ p[i] <= place
  <2> TAKE i \in 1 .. n
  <2>1. i \in 1 .. n + 1 /\ n + 1 \in 1 .. n + 1 /\ i <= n + 1
    BY <1>1
  <2> QED
    BY <1>2, <2>1 DEF Ahead
<1> DEFINE q == [i \in 1 .. n + 1 |-> IF i = n + 1 THEN place + 1 ELSE p[i]]
<1>5. q[n + 1] = place + 1 /\ \A i \in 1 .. n : q[i] = p[i]
  <2>1. n + 1 \in 1 .. n + 1 /\ \A i \in 1 .. n : i \in 1 .. n + 1 /\ i # n + 1
    BY <1>1
  <2> QED
    BY <2>1
<1>6. q \in [1 .. n + 1 -> DOMAIN on]
  <2>1. \A i \in 1 .. n + 1 : i = n + 1 \/ i \in 1 .. n
    BY <1>1
  <2> QED
    BY <1>4, <2>1
<1> HIDE DEF q
<1>7. \A i \in 1 .. n : on[q[i]] = stack[i] /\ q[i + 1] - q[i] \in {0, 1}
  <2> TAKE i \in 1 .. n
  <2>1. on[q[i]] = stack[i]
    BY <1>2, <1>4, <1>5
  <2>2. CASE i = n
    <3>1. q[i + 1] = place + 1 /\ q[i] = place /\ place \in Nat
      BY <1>1, <1>3, <1>5, <2>2
    <3> QED
      BY <2>1, <3>1
  <2>3. CASE i # n
    <3>1. i + 1 \in 1 .. n
      BY <1>1, <2>3
    <3> QED
      BY <1>2, <1>5, <2>1, <3>1
  <2> QED
    BY <2>2, <2>3
<1>8. \A i, j \in 1 .. n + 1 : i <= j => Ahead(q[i], q[j], 1)
  <2> SUFFICES ASSUME NEW i \in 1 .. n + 1, NEW j \in 1 .. n + 1, i <= j
               PROVE  q[i] <= q[j]
    BY DEF Ahead
  <2>1. CASE i \in 1 .. n /\ j \in 1 .. n
    <3>1. i \in 1 .. n + 1 /\ j \in 1 .. n + 1 /\ q[i] = p[i] /\ q[j] = p[j]
      BY <1>1, <1>5, <2>1
    <3> QED
      BY <1>2, <3>1 DEF Ahead
  <2>2. CASE j = n + 1 /\ i \in 1 .. n
    <3>1. q[i] = p[i] /\ p[i] <= place /\ p[i] \in Nat /\ place \in Nat /\ q[j] = place + 1
      BY <1>1, <1>4, <1>5, <2>2
    <3> QED
      BY <3>1
  <2>3. CASE i = n + 1 /\ j = n + 1
    <3>1. place \in Nat
      BY <1>1
    <3>2. q[i] = place + 1 /\ q[j] = place + 1
      BY <1>5, <2>3
    <3> QED
      BY <3>1, <3>2
  <2> QED
    BY <1>1, <2>1, <2>2, <2>3, UpToOneMore
<1> QED
  BY <1>6, <1>5, <1>7, <1>8 DEF Walks, Follows, n

LEMMA WalkRetraces ==
  ASSUME NEW S, NEW stack \in Seq(S), canvas \in S, NEW step, Walks(stack, trail, at, step), trail[at] = canvas
  PROVE  Retraces(stack, step)
<1> DEFINE n == Len(stack)
<1>1. n \in Nat
  BY LenProperties
<1>2. PICK p \in [1 .. n + 1 -> DOMAIN trail] :
        /\ p[n + 1] = at
        /\ \A i \in 1 .. n : trail[p[i]] = stack[i] /\ p[i + 1] - p[i] \in {0, step}
  BY DEF Walks, Follows
<1>3. (\A i \in 1 .. n : Append(stack, canvas)[i] = stack[i]) /\ Append(stack, canvas)[n + 1] = canvas
  BY AppendProperties
<1> HIDE DEF n
<1>4. DOMAIN p = 1 .. n + 1 /\ \A i \in 1 .. n + 1 : i \in 1 .. n \/ i = n + 1
  BY <1>1, <1>2
<1>5. \A i \in DOMAIN p : trail[p[i]] = Append(stack, canvas)[i]
  BY <1>2, <1>3, <1>4
<1> QED
  BY <1>2, <1>5 DEF Retraces, n

LEMMA PushedSet ==
  ASSUME NEW S, NEW stack \in Seq(S), NEW v \in S, Len(stack) <= MaxUndo
  PROVE  ToSet(Push(stack, v)) \subseteq ToSet(stack) \cup {v}
<1> DEFINE new == Push(stack, v)
<1>1. PICK d \in 0 .. Len(stack) :
        /\ Len(new) = Len(stack) + 1 - d
        /\ \A i \in 1 .. Len(stack) - d : new[i] = stack[i + d]
        /\ new[Len(stack) + 1 - d] = v
  BY PushProperties
<1>2. new \in Seq(S)
  BY PushProperties
<1>3. DOMAIN new = 1 .. Len(new) /\ DOMAIN stack = 1 .. Len(stack) /\ Len(stack) \in Nat
  BY <1>2, LenProperties
<1> HIDE DEF new
<1>4. \A i \in DOMAIN new : new[i] \in ToSet(stack) \cup {v}
  <2> TAKE i \in DOMAIN new
  <2>1. CASE i = Len(stack) + 1 - d
    BY <1>1, <2>1
  <2>2. CASE i # Len(stack) + 1 - d
    <3>1. i \in 1 .. Len(stack) - d /\ i + d \in DOMAIN stack
      BY <1>1, <1>3, <2>2
    <3> QED
      BY <1>1, <3>1 DEF ToSet
  <2> QED
    BY <2>1, <2>2
<1> QED
  BY <1>4 DEF ToSet, new

LEMMA PushedMoves ==
  ASSUME NEW S, NEW stack \in Seq(S), NEW v \in S, Len(stack) <= MaxUndo,
         Moves(stack), stack = <<>> \/ Last(stack) # v
  PROVE  Moves(Push(stack, v))
<1> DEFINE new == Push(stack, v)
<1>1. PICK d \in 0 .. Len(stack) :
        /\ Len(new) = Len(stack) + 1 - d
        /\ \A i \in 1 .. Len(stack) - d : new[i] = stack[i + d]
        /\ new[Len(stack) + 1 - d] = v
  BY PushProperties
<1>2. Len(stack) \in Nat
  BY LenProperties
<1> HIDE DEF new
<1>3. SUFFICES ASSUME NEW i \in 1 .. Len(new) - 1 PROVE new[i] # new[i + 1]
  BY DEF Moves, new
<1>4. i \in 1 .. Len(stack) - d /\ new[i] = stack[i + d]
  BY <1>1, <1>2
<1>5. CASE i = Len(stack) - d
  <2>1. i + d = Len(stack) /\ i + 1 = Len(stack) + 1 - d /\ Len(stack) > 0
    BY <1>1, <1>2, <1>4, <1>5
  <2>2. stack # <<>>
    BY <2>1, EmptySeq
  <2>3. new[i + 1] = v /\ new[i] = Last(stack)
    BY <1>1, <1>4, <2>1 DEF Last
  <2> QED
    BY <2>2, <2>3
<1>6. CASE i # Len(stack) - d
  <2>1. i + 1 \in 1 .. Len(stack) - d /\ (i + 1) + d = (i + d) + 1 /\ i + d \in 1 .. Len(stack) - 1
    BY <1>1, <1>2, <1>4, <1>6
  <2>2. new[i + 1] = stack[(i + d) + 1]
    BY <1>1, <2>1
  <2> QED
    BY <1>4, <2>1, <2>2 DEF Moves
<1> QED
  BY <1>5, <1>6

LEMMA FrontSet ==
  ASSUME NEW S, NEW stack \in Seq(S), stack # <<>>
  PROVE  ToSet(Front(stack)) \subseteq ToSet(stack) /\ Last(stack) \in ToSet(stack)
<1>1. /\ Len(stack) \in Nat /\ Len(stack) > 0
      /\ Front(stack) \in Seq(S)
      /\ Len(Front(stack)) = Len(stack) - 1
      /\ \A i \in 1 .. Len(stack) - 1 : Front(stack)[i] = stack[i]
  BY FrontProperties
<1>2. DOMAIN Front(stack) = 1 .. Len(stack) - 1 /\ DOMAIN stack = 1 .. Len(stack)
  BY <1>1, LenProperties
<1>3. \A i \in DOMAIN Front(stack) : i \in DOMAIN stack /\ Front(stack)[i] = stack[i]
  BY <1>1, <1>2
<1>4. Len(stack) \in DOMAIN stack
  BY <1>1, <1>2
<1> QED
  BY <1>3, <1>4 DEF ToSet, Last

(* What Show does to the road. *)
Onward(road, place, next) == Append(SubSeq(road, 1, place), next)
LEMMA RoadGoesOn ==
  ASSUME NEW S, NEW road \in Seq(S), Moves(road), NEW place \in DOMAIN road, NEW next \in S, next # road[place]
  PROVE  /\ Onward(road, place, next) \in Seq(S)
         /\ Moves(Onward(road, place, next))
         /\ place + 1 \in DOMAIN Onward(road, place, next) /\ Onward(road, place, next)[place + 1] = next
         /\ \A i \in DOMAIN road : i <= place =>
              i \in DOMAIN Onward(road, place, next) /\ Onward(road, place, next)[i] = road[i]
<1> DEFINE on == Onward(road, place, next)
<1>1. Len(road) \in Nat /\ DOMAIN road = 1 .. Len(road) /\ \A i \in 1 .. Len(road) : road[i] \in S
  BY LenProperties
<1> DEFINE past == SubSeq(road, 1, place)
<1>2. past \in Seq(S) /\ Len(past) = place /\ \A i \in 1 .. place : past[i] = road[i]
  <2>1. 1 \in Int /\ place \in Int /\ 1 <= place /\ place - 1 + 1 = place /\ \A i \in 1 .. place : road[i] \in S
    BY <1>1
  <2>2. /\ past \in Seq(S)
        /\ Len(past) = (IF 1 <= place THEN place - 1 + 1 ELSE 0)
        /\ \A i \in 1 .. place - 1 + 1 : past[i] = road[1 + i - 1]
    BY <2>1, SubSeqProperties
  <2> HIDE DEF past
  <2>3. \A i \in 1 .. place : past[i] = road[i]
    BY <2>1, <2>2
  <2> QED
    BY <2>1, <2>2, <2>3
<1> HIDE DEF past
<1>3. /\ on \in Seq(S) /\ Len(on) = place + 1
      /\ (\A i \in 1 .. place : on[i] = past[i]) /\ on[place + 1] = next
  <2>1. on = Append(past, next)
    BY DEF Onward, past
  <2> HIDE DEF on
  <2> QED
    BY <1>2, <2>1, AppendProperties
<1> HIDE DEF on
<1>4. DOMAIN on = 1 .. place + 1 /\ place \in Nat /\ place <= Len(road)
  BY <1>1, <1>3, LenProperties
<1>5. \A i \in 1 .. place : on[i] = road[i]
  BY <1>2, <1>3
<1>6. \A i \in 1 .. place : on[i] # on[i + 1]
  <2> TAKE i \in 1 .. place
  <2>1. CASE i = place
    BY <1>3, <1>5, <2>1
  <2>2. CASE i # place
    <3>1. i + 1 \in 1 .. place /\ i \in 1 .. Len(road) - 1
      BY <1>4, <2>2
    <3> QED
      BY <1>5, <3>1 DEF Moves
  <2> QED
    BY <2>1, <2>2
<1>7. Moves(on)
  <2>1. Len(on) - 1 = place
    BY <1>3, <1>4
  <2> QED
    BY <1>6, <2>1 DEF Moves
<1>8. \A i \in DOMAIN road : i <= place => i \in DOMAIN on /\ on[i] = road[i]
  <2> TAKE i \in DOMAIN road
  <2>1. i <= place => i \in 1 .. place /\ i \in 1 .. place + 1
    BY <1>1, <1>4
  <2> QED
    BY <1>4, <1>5, <2>1
<1>9. place + 1 \in DOMAIN on
  BY <1>4
<1> QED
  BY <1>3, <1>7, <1>8, <1>9 DEF on

--------------------------------------------------------------------------
(* The invariant. *)

DraftTyped ==
  /\ canvas \in Board /\ loaded \in Board
  /\ undo \in Seq(Board) /\ redo \in Seq(Board)
  /\ waiting \in SUBSET [does : {"delete", "yaml"}, stage : Key, on : Board]
  /\ \A w \in waiting : w.stage \in Stages(w.on)
  /\ edge \in SUBSET [source : Key \cup {START}, status : Result \cup {"handoff"}]
  /\ drafted \in 0 .. MaxDraftEdits /\ stale \in BOOLEAN /\ ghost \in BOOLEAN

(* Undo and Redo share the room for snapshots, so neither drops one for the other. *)
Shared == Len(undo) + Len(redo) <= MaxUndo

(* All that can be shown again is sound, and what waits to delete a Stage found nobody *)
(* that refers to it. *)
DraftWhole ==
  /\ Sound(loaded)
  /\ ghost \/ /\ Sound(canvas)
              /\ \A v \in ToSet(undo) \cup ToSet(redo) : Sound(v)
              /\ \A w \in waiting :
                   /\ Sound(w.on)
                   /\ w.does = "delete" => \A t \in Stages(w.on) \ {w.stage} : ~Refers(w.on, t, w.stage)

(* Both stacks walk along the road; only the first snapshot of a stack can be what is *)
(* shown there or next to it. *)
Retraced ==
  /\ trail \in Seq(Board) /\ Moves(trail) /\ at \in DOMAIN trail /\ trail[at] = canvas
  /\ Walks(undo, trail, at, 1) /\ Walks(redo, trail, at, -1)
  /\ Moves(undo)
  /\ undo # <<>> /\ Last(undo) = canvas => redo = <<>>
  /\ \A i \in 2 .. Len(redo) - 1 : redo[i] # redo[i + 1]
  /\ redo # <<>> /\ Last(redo) = canvas => Len(redo) = 1

DraftKept == DraftTyped /\ Shared /\ DraftWhole /\ (stale \/ Retraced)

(* What the invariant says that the runs check. *)
LEMMA DraftKeptIsEnough ==
  ASSUME DraftKept
  PROVE  CanvasSound
<1>1. DraftTypeOK
  <2>1. \A v \in {canvas, loaded} : Stages(v) \subseteq Key
    BY BoardParts DEF DraftKept, DraftTyped
  <2>2. Len(undo) <= MaxUndo /\ Len(redo) <= MaxUndo
    <3>1. Len(undo) \in Nat /\ Len(redo) \in Nat
      BY LenProperties DEF DraftKept, DraftTyped
    <3> QED
      BY <3>1, DraftAssumption DEF DraftKept, Shared
  <2> QED
    BY <2>1, <2>2 DEF DraftTypeOK, DraftKept, DraftTyped
<1>2. Sound(loaded) /\ (ghost \/ Sound(canvas))
  BY DEF DraftKept, DraftWhole
<1>3. ASSUME Retraced PROVE Retraces(undo, 1) /\ Retraces(redo, -1)
  BY <1>3, WalkRetraces DEF DraftKept, DraftTyped, Retraced
<1> QED
  BY <1>1, <1>2, <1>3 DEF CanvasSound, DraftKept

--------------------------------------------------------------------------
(* Every step keeps the invariant. *)

(* Remember(on): the stacks afterwards. *)
LEMMA RememberKeeps ==
  ASSUME DraftKept, NEW on \in Board, Remember(on)
  PROVE  /\ undo' \in Seq(Board) /\ redo' \in Seq(Board) /\ Shared'
         /\ ToSet(undo') \cup ToSet(redo') \subseteq ToSet(undo) \cup ToSet(redo) \cup {on}
<1>1. undo \in Seq(Board) /\ redo \in Seq(Board) /\ Len(undo) \in Nat /\ Len(redo) \in Nat /\ MaxUndo \in Nat
  BY LenProperties, DraftAssumption DEF DraftKept, DraftTyped
<1>2. Len(undo) <= MaxUndo
  BY <1>1 DEF DraftKept, Shared
<1>3. CASE Remembered(on)
  BY <1>1, <1>3 DEF Remember, DraftKept, Shared
<1>4. CASE ~Remembered(on)
  <2>1. undo' = Push(undo, on) /\ redo' = <<>>
    BY <1>4 DEF Remember
  <2>2. Push(undo, on) \in Seq(Board) /\ Len(Push(undo, on)) <= MaxUndo
    BY <1>1, <1>2, PushProperties
  <2>3. ToSet(Push(undo, on)) \subseteq ToSet(undo) \cup {on}
    BY <1>1, <1>2, PushedSet
  <2>4. <<>> \in Seq(Board) /\ Len(<<>>) = 0 /\ ToSet(<<>>) = {}
    BY DEF ToSet
  <2>5. Len(undo') \in Nat
    BY <2>1, <2>2, LenProperties
  <2> QED
    BY <1>1, <2>1, <2>2, <2>3, <2>4, <2>5 DEF Shared
<1> QED
  BY <1>3, <1>4

(* An edit of what is shown keeps the stacks on the road. *)
LEMMA EditRetraced ==
  ASSUME DraftKept, Retraced, NEW next \in Board, DraftEdited(canvas, next)
  PROVE  Retraced'
<1>1. /\ undo \in Seq(Board) /\ redo \in Seq(Board) /\ canvas \in Board
      /\ Len(undo) \in Nat /\ Len(redo) \in Nat /\ Len(undo) <= MaxUndo
  <2>1. Len(undo) \in Nat /\ Len(redo) \in Nat /\ MaxUndo \in Nat
    BY LenProperties, DraftAssumption DEF DraftKept, DraftTyped
  <2> QED
    BY <2>1 DEF DraftKept, DraftTyped, Shared
<1>2. trail \in Seq(Board) /\ Moves(trail) /\ at \in DOMAIN trail /\ trail[at] = canvas
      /\ Walks(undo, trail, at, 1) /\ DOMAIN trail \in SUBSET Nat
  BY LenProperties DEF Retraced
<1>3. canvas' = next /\ Remember(canvas)
  BY DEF DraftEdited, Show
<1>4. /\ trail' \in Seq(Board) /\ Moves(trail') /\ at' \in DOMAIN trail' /\ trail'[at'] = canvas'
      /\ at' - at \in {0, 1}
      /\ \A i \in DOMAIN trail : i <= at => i \in DOMAIN trail' /\ trail'[i] = trail[i]
      /\ next # canvas => at' = at + 1
      /\ next = canvas => trail' = trail /\ at' = at
  <2>1. CASE next = canvas
    <3>1. trail' = trail /\ at' = at
      BY <2>1 DEF DraftEdited, Show
    <3> QED
      BY <1>2, <1>3, <2>1, <3>1
  <2>2. CASE next # canvas
    <3>1. trail' = Append(SubSeq(trail, 1, at), next) /\ at' = at + 1
      BY <2>2 DEF DraftEdited, Show
    <3>2. /\ trail' \in Seq(Board)
          /\ Moves(trail')
          /\ at + 1 \in DOMAIN trail' /\ trail'[at + 1] = next
          /\ \A i \in DOMAIN trail : i <= at => i \in DOMAIN trail' /\ trail'[i] = trail[i]
      <4>1. trail' = Onward(trail, at, next)
        BY <3>1 DEF Onward
      <4>2. /\ Onward(trail, at, next) \in Seq(Board)
            /\ Moves(Onward(trail, at, next))
            /\ at + 1 \in DOMAIN Onward(trail, at, next) /\ Onward(trail, at, next)[at + 1] = next
            /\ \A i \in DOMAIN trail : i <= at =>
                 i \in DOMAIN Onward(trail, at, next) /\ Onward(trail, at, next)[i] = trail[i]
        BY <1>2, <2>2, RoadGoesOn
      <4> QED
        BY <4>1, <4>2
    <3> QED
      BY <1>2, <1>3, <2>2, <3>1, <3>2
  <2> QED
    BY <2>1, <2>2
<1>5. CASE Remembered(canvas)
  <2>1. undo # <<>> /\ Last(undo) = canvas /\ redo = <<>> /\ undo' = undo /\ redo' = redo
    BY <1>3, <1>5 DEF Remember, Remembered, Retraced
  <2>2. Walks(undo', trail', at', 1)
    <3>1. CASE next = canvas
      BY <1>2, <1>4, <2>1, <3>1
    <3>2. CASE next # canvas
      <4>1. Walks(undo, trail', at + 1, 1)
        BY <1>1, <1>2, <1>4, <2>1, <3>2, WalkMovesOn
      <4> QED
        BY <1>4, <2>1, <3>2, <4>1
    <3> QED
      BY <3>1, <3>2
  <2>3. Walks(redo', trail', at', -1)
    <3>1. DOMAIN trail' \in SUBSET Nat /\ -1 \in {1, -1}
      BY <1>4, LenProperties
    <3> QED
      BY <1>4, <2>1, <3>1, WalkBegins
  <2>4. Moves(undo') /\ Len(redo') = 0
    BY <2>1 DEF Retraced
  <2> QED
    BY <1>4, <2>1, <2>2, <2>3, <2>4 DEF Retraced
<1>6. CASE ~Remembered(canvas)
  <2>1. undo' = Push(undo, canvas) /\ redo' = <<>> /\ (undo = <<>> \/ Last(undo) # canvas)
    BY <1>3, <1>6 DEF Remember, Remembered
  <2>2. Walks(undo', trail', at', 1)
    <3>1. Carries(trail, trail', at, 1)
      BY <1>4 DEF Ahead, Carries
    <3>2. 1 \in {1, -1}
      OBVIOUS
    <3>3. Walks(Push(undo, trail[at]), trail', at', 1)
      BY <1>1, <1>2, <1>4, <3>1, <3>2, WalkGrows
    <3> QED
      BY <1>2, <2>1, <3>3
  <2>3. Walks(redo', trail', at', -1)
    <3>1. DOMAIN trail' \in SUBSET Nat /\ -1 \in {1, -1}
      BY <1>4, LenProperties
    <3> QED
      BY <1>4, <2>1, <3>1, WalkBegins
  <2>4. Moves(undo')
    BY <1>1, <2>1, PushedMoves DEF Retraced
  <2>5. Len(redo') = 0
    BY <2>1
  <2> QED
    BY <1>4, <2>1, <2>2, <2>3, <2>4, <2>5 DEF Retraced
<1> QED
  BY <1>5, <1>6

(* An edit, of the canvas shown or of an older one. *)
LEMMA EditKeeps ==
  ASSUME DraftKept, NEW on \in Board, NEW next \in Board, DraftEdited(on, next),
         waiting' \in SUBSET waiting, edge' \in SUBSET edge,
         stale' \in BOOLEAN, ~stale' => ~stale /\ on = canvas,
         ghost' \in BOOLEAN, ~ghost' => ~ghost /\ Sound(on) /\ Sound(next)
  PROVE  DraftKept'
<1>1. /\ undo' \in Seq(Board) /\ redo' \in Seq(Board) /\ Shared'
      /\ ToSet(undo') \cup ToSet(redo') \subseteq ToSet(undo) \cup ToSet(redo) \cup {on}
  BY RememberKeeps DEF DraftEdited
<1>2. canvas' = next /\ loaded' = loaded /\ drafted < MaxDraftEdits /\ drafted' = drafted + 1
  BY DEF DraftEdited, Show
<1>3. drafted' \in 0 .. MaxDraftEdits
  <2>1. drafted \in 0 .. MaxDraftEdits /\ MaxDraftEdits \in Nat
    BY DraftAssumption DEF DraftKept, DraftTyped
  <2> QED
    BY <1>2, <2>1
<1>4. DraftTyped'
  <2>1. waiting' \in SUBSET [does : {"delete", "yaml"}, stage : Key, on : Board]
        /\ \A w \in waiting' : w.stage \in Stages(w.on)
    BY DEF DraftKept, DraftTyped
  <2>2. edge' \in SUBSET [source : Key \cup {START}, status : Result \cup {"handoff"}]
    BY DEF DraftKept, DraftTyped
  <2>3. canvas' \in Board /\ loaded' \in Board
    BY <1>2 DEF DraftKept, DraftTyped
  <2> QED
    BY <1>1, <1>3, <2>1, <2>2, <2>3 DEF DraftTyped
<1>5. DraftWhole'
  <2>1. Sound(loaded')
    BY <1>2 DEF DraftKept, DraftWhole
  <2>2. ASSUME ~ghost'
        PROVE  /\ Sound(canvas')
               /\ \A v \in ToSet(undo') \cup ToSet(redo') : Sound(v)
               /\ \A w \in waiting' :
                    /\ Sound(w.on)
                    /\ w.does = "delete" => \A t \in Stages(w.on) \ {w.stage} : ~Refers(w.on, t, w.stage)
    <3>1. ~ghost /\ Sound(on) /\ Sound(next)
      BY <2>2
    <3>2. \A v \in ToSet(undo) \cup ToSet(redo) : Sound(v)
      BY <3>1 DEF DraftKept, DraftWhole
    <3>3. \A w \in waiting :
            /\ Sound(w.on)
            /\ w.does = "delete" => \A t \in Stages(w.on) \ {w.stage} : ~Refers(w.on, t, w.stage)
      BY <3>1 DEF DraftKept, DraftWhole
    <3> QED
      BY <1>1, <1>2, <3>1, <3>2, <3>3
  <2> QED
    BY <2>1, <2>2 DEF DraftWhole
<1>6. ASSUME ~stale' PROVE Retraced'
  <2>1. ~stale /\ on = canvas
    BY <1>6
  <2> QED
    BY <2>1, EditRetraced DEF DraftKept
<1> QED
  BY <1>1, <1>4, <1>5, <1>6 DEF DraftKept

LEMMA StatusesInUse ==
  ASSUME NEW s PROVE Statuses(s) \subseteq Result \cup {"handoff"}
<1>1. {"pass", "fail"} = Result
  BY DEF Result
<1> QED
  BY <1>1 DEF Statuses

(* What an edit of the canvas shown needs. *)
LEMMA EditDraftKeeps ==
  ASSUME DraftKept, NEW next \in Board, EditDraft(next), UNCHANGED edge, Sound(canvas) => Sound(next)
  PROVE  DraftKept'
<1>1. DraftEdited(canvas, next) /\ UNCHANGED <<waiting, stale, ghost>>
  BY DEF EditDraft
<1>2. canvas \in Board /\ stale \in BOOLEAN /\ ghost \in BOOLEAN
  BY DEF DraftKept, DraftTyped
<1>3. ~ghost => Sound(canvas)
  BY DEF DraftKept, DraftWhole
<1> QED
  BY <1>1, <1>2, <1>3, EditKeeps

LEMMA ConnectKeeps ==
  ASSUME DraftKept, Connect PROVE DraftKept'
<1>1. canvas \in Board /\ Stages(canvas) \in SUBSET Key
  BY BoardParts DEF DraftKept, DraftTyped
<1>2. PICK source \in Stages(canvas) \cup {START}, target \in Stages(canvas) \cup {END} :
        \E status \in Statuses(source) :
          /\ ~(target = END /\ (source = START \/ status = "handoff"))
          /\ EditDraft(Connected(canvas, source, status, target))
  BY DEF Connect
<1>3. PICK status \in Statuses(source) :
          /\ ~(target = END /\ (source = START \/ status = "handoff"))
          /\ EditDraft(Connected(canvas, source, status, target))
  BY <1>2
<1>4. source \in Key \cup {START} /\ target \in Key \cup {END} /\ status \in Result \cup {"handoff"}
  BY <1>1, <1>3, StatusesInUse
<1>5. Connected(canvas, source, status, target) \in Board
      /\ (Sound(canvas) => Sound(Connected(canvas, source, status, target)))
  BY <1>1, <1>3, <1>4, ConnectedIsSound
<1> QED
  BY <1>3, <1>5, EditDraftKeeps DEF Connect

LEMMA DeleteEdgeKeeps ==
  ASSUME DraftKept, DeleteEdge PROVE DraftKept'
<1>1. canvas \in Board
  BY DEF DraftKept, DraftTyped
<1>2. PICK e \in Drawn(canvas) : EditDraft(Disconnected(canvas, e[1], e[2], e[3]))
  BY DEF DeleteEdge
<1>3. e[1] \in Stages(canvas) /\ e[2] \in Result \cup {"handoff"}
  BY DEF Drawn, Result
<1>4. Disconnected(canvas, e[1], e[2], e[3]) \in Board
      /\ (Sound(canvas) => Sound(Disconnected(canvas, e[1], e[2], e[3])))
  BY <1>1, <1>3, DisconnectedIsSound
<1> QED
  BY <1>2, <1>4, EditDraftKeeps DEF DeleteEdge

LEMMA CopyStageKeeps ==
  ASSUME DraftKept, CopyStage PROVE DraftKept'
<1>1. canvas \in Board
  BY DEF DraftKept, DraftTyped
<1>2. PICK source \in Stages(canvas), after \in Stages(canvas) \cup {None} :
        \E s \in FreeKey(canvas, source[1]) : EditDraft(WithStage(canvas, s, after))
  BY DEF CopyStage
<1>3. PICK s \in FreeKey(canvas, source[1]) : EditDraft(WithStage(canvas, s, after))
  BY <1>2
<1>4. s \in Key \ Stages(canvas)
  BY <1>3 DEF FreeKey
<1>5. WithStage(canvas, s, after) \in Board /\ (Sound(canvas) => Sound(WithStage(canvas, s, after)))
  BY <1>1, <1>4, WithStageIsSound
<1> QED
  BY <1>3, <1>5, EditDraftKeeps DEF CopyStage

(* The Stage comes into a sound canvas, and the edge leads to it from a Stage that is *)
(* there, or the ghost is noted. *)
LEMMA CreateStageKeeps ==
  ASSUME DraftKept, CreateStage PROVE DraftKept'
<1>1. canvas \in Board /\ Stages(canvas) \in SUBSET Key
      /\ edge \in SUBSET [source : Key \cup {START}, status : Result \cup {"handoff"}]
      /\ stale \in BOOLEAN
  BY BoardParts DEF DraftKept, DraftTyped
<1>2. ~ghost => Sound(canvas)
  BY DEF DraftKept, DraftWhole
<1>3. PICK type \in {"base", "handoff"} : \E s \in FreeKey(canvas, type) :
        \/ edge = {} /\ DraftEdited(canvas, WithStage(canvas, s, None))
        \/ \E e \in edge : DraftEdited(canvas, Connected(WithStage(canvas, s, None), e.source, e.status, s))
  BY DEF CreateStage
<1>4. PICK s \in FreeKey(canvas, type) :
        \/ edge = {} /\ DraftEdited(canvas, WithStage(canvas, s, None))
        \/ \E e \in edge : DraftEdited(canvas, Connected(WithStage(canvas, s, None), e.source, e.status, s))
  BY <1>3
<1>5. s \in Key \ Stages(canvas)
  BY <1>4 DEF FreeKey
<1> DEFINE added == WithStage(canvas, s, None)
<1>6. /\ added \in Board /\ Stages(added) = Stages(canvas) \cup {s}
      /\ Sound(canvas) => Sound(added)
  BY <1>1, <1>5, WithStageIsSound
<1>7. /\ ghost' = (ghost \/ \E e \in edge : e.source \notin Stages(canvas) \cup {START})
      /\ edge' = {} /\ waiting' = waiting /\ stale' = stale
  BY DEF CreateStage
<1> HIDE DEF added
<1>8. /\ waiting' \in SUBSET waiting /\ edge' \in SUBSET edge
      /\ stale' \in BOOLEAN /\ (~stale' => ~stale /\ canvas = canvas) /\ ghost' \in BOOLEAN
  BY <1>1, <1>7
<1>9. CASE edge = {} /\ DraftEdited(canvas, added)
  <2>1. ~ghost' => ~ghost /\ Sound(canvas) /\ Sound(added)
    BY <1>2, <1>6, <1>7
  <2> QED
    BY <1>1, <1>6, <1>8, <1>9, <2>1, EditKeeps
<1>10. CASE \E e \in edge : DraftEdited(canvas, Connected(added, e.source, e.status, s))
  <2>1. PICK e \in edge : DraftEdited(canvas, Connected(added, e.source, e.status, s))
    BY <1>10
  <2>2. e.source \in Key \cup {START} /\ e.status \in Result \cup {"handoff"} /\ s \in Key \cup {END}
    BY <1>1, <1>5, <2>1
  <2> DEFINE next == Connected(added, e.source, e.status, s)
  <2>3. /\ next \in Board
        /\ Sound(added) /\ e.source \in Stages(added) \cup {START} /\ s \in Stages(added) \cup {END}
             /\ ~(s = END /\ (e.source = START \/ e.status = "handoff")) => Sound(next)
    BY <1>6, <2>2, ConnectedIsSound
  <2>4. s # END
    BY <1>5 DEF Key, END
  <2> HIDE DEF next
  <2>5. ~ghost' => ~ghost /\ e.source \in Stages(canvas) \cup {START}
    BY <1>7
  <2>6. ~ghost' => ~ghost /\ Sound(canvas) /\ Sound(next)
    BY <1>2, <1>6, <2>3, <2>4, <2>5
  <2>7. DraftEdited(canvas, next)
    BY <2>1 DEF next
  <2> QED
    BY <1>1, <1>8, <2>3, <2>6, <2>7, EditKeeps
<1> QED
  BY <1>4, <1>9, <1>10 DEF added

LEMMA GoOnKeeps ==
  ASSUME DraftKept, GoOn PROVE DraftKept'
<1>1. PICK w \in waiting :
        /\ DraftEdited(w.on, IF w.does = "delete" THEN WithoutStage(w.on, w.stage)
                             ELSE [w.on EXCEPT !.stages[w.stage] = Blank])
        /\ stale' = (stale \/ w.on # canvas)
  BY DEF GoOn
<1>2. /\ w.on \in Board /\ w.stage \in Stages(w.on)
      /\ stale \in BOOLEAN /\ ghost \in BOOLEAN
  BY <1>1 DEF DraftKept, DraftTyped
<1>3. ~ghost => /\ Sound(w.on)
                /\ w.does = "delete" => \A t \in Stages(w.on) \ {w.stage} : ~Refers(w.on, t, w.stage)
  BY <1>1 DEF DraftKept, DraftWhole
<1>4. waiting' = {} /\ edge' = edge /\ ghost' = ghost
  BY DEF GoOn
<1> DEFINE next == IF w.does = "delete" THEN WithoutStage(w.on, w.stage)
                   ELSE [w.on EXCEPT !.stages[w.stage] = Blank]
<1>5. next \in Board /\ (~ghost => Sound(next))
  <2>1. CASE w.does = "delete"
    BY <1>2, <1>3, <2>1, WithoutStageIsSound
  <2>2. CASE w.does # "delete"
    BY <1>2, <1>3, <2>2, WithBlankIsSound
  <2> QED
    BY <2>1, <2>2
<1>6. DraftEdited(w.on, next)
  BY <1>1
<1> HIDE DEF next
<1>7. /\ waiting' \in SUBSET waiting /\ edge' \in SUBSET edge
      /\ stale' \in BOOLEAN /\ (~stale' => ~stale /\ w.on = canvas)
      /\ ghost' \in BOOLEAN /\ (~ghost' => ~ghost /\ Sound(w.on) /\ Sound(next))
  BY <1>1, <1>2, <1>3, <1>4, <1>5
<1> QED
  BY <1>2, <1>5, <1>6, <1>7, EditKeeps

LEMMA AskForKeeps ==
  ASSUME DraftKept, AskFor PROVE DraftKept'
<1>1. PICK s \in Stages(canvas), does \in {"delete", "yaml"} :
        /\ does = "delete" => MayGo(s)
        /\ waiting' = {[does |-> does, stage |-> s, on |-> canvas]}
  BY DEF AskFor
<1>2. UNCHANGED <<canvas, loaded, undo, redo, edge, drafted, trail, at, stale, ghost>>
  BY DEF AskFor
<1>3. canvas \in Board /\ s \in Key
  BY <1>1, BoardParts DEF DraftKept, DraftTyped
<1>4. waiting' \in SUBSET [does : {"delete", "yaml"}, stage : Key, on : Board]
      /\ \A w \in waiting' : w.stage \in Stages(w.on)
  BY <1>1, <1>3
<1>5. DraftTyped'
  BY <1>2, <1>4 DEF DraftKept, DraftTyped
<1>6. \A w \in waiting' : w.on = canvas /\ w.stage = s /\ (w.does = "delete" => MayGo(s))
  BY <1>1
<1>7. ASSUME ~ghost
      PROVE  \A w \in waiting' :
               /\ Sound(w.on)
               /\ w.does = "delete" => \A t \in Stages(w.on) \ {w.stage} : ~Refers(w.on, t, w.stage)
  <2>1. Sound(canvas)
    BY <1>7 DEF DraftKept, DraftWhole
  <2>2. MayGo(s) => \A t \in Stages(canvas) \ {s} : ~Refers(canvas, t, s)
    BY DEF MayGo
  <2> QED
    BY <1>6, <2>1, <2>2
<1>8. DraftWhole'
  BY <1>2, <1>7 DEF DraftKept, DraftWhole
<1>9. Shared' /\ (stale' \/ Retraced')
  BY <1>2 DEF DraftKept, Shared, Retraced
<1> QED
  BY <1>5, <1>8, <1>9 DEF DraftKept

LEMMA DragEdgeKeeps ==
  ASSUME DraftKept, DragEdge PROVE DraftKept'
<1>1. PICK s \in Stages(canvas) \cup {START} : \E status \in Statuses(s) :
        edge' = {[source |-> s, status |-> status]}
  BY DEF DragEdge
<1>2. PICK status \in Statuses(s) : edge' = {[source |-> s, status |-> status]}
  BY <1>1
<1>3. UNCHANGED <<canvas, loaded, undo, redo, waiting, drafted, trail, at, stale, ghost>>
  BY DEF DragEdge
<1>4. s \in Key \cup {START} /\ status \in Result \cup {"handoff"}
  BY <1>1, <1>2, BoardParts, StatusesInUse DEF DraftKept, DraftTyped
<1>5. DraftTyped'
  BY <1>2, <1>3, <1>4 DEF DraftKept, DraftTyped
<1> QED
  BY <1>3, <1>5 DEF DraftKept, Shared, DraftWhole, Retraced

LEMMA GiveInKeeps ==
  ASSUME DraftKept, GiveIn PROVE DraftKept'
<1>1. waiting' = {} /\ UNCHANGED <<canvas, loaded, undo, redo, edge, drafted, trail, at, stale, ghost>>
  BY DEF GiveIn
<1>2. DraftTyped'
  BY <1>1 DEF DraftKept, DraftTyped
<1>3. DraftWhole'
  BY <1>1 DEF DraftKept, DraftWhole
<1> QED
  BY <1>1, <1>2, <1>3 DEF DraftKept, Shared, Retraced

(* What Undo and Redo do to the two stacks: one gives, the other takes, and neither drops. *)
LEMMA StacksTrade ==
  ASSUME NEW from \in Seq(Board), NEW to \in Seq(Board), NEW v \in Board,
         from # <<>>, Len(from) + Len(to) <= MaxUndo
  PROVE  /\ Last(from) \in Board /\ Front(from) \in Seq(Board) /\ Push(to, v) \in Seq(Board)
         /\ Push(to, v) = Append(to, v)
         /\ Len(to) <= MaxUndo
         /\ Len(Front(from)) = Len(from) - 1 /\ Len(Push(to, v)) = Len(to) + 1
         /\ ToSet(Front(from)) \subseteq ToSet(from) /\ Last(from) \in ToSet(from)
         /\ ToSet(Push(to, v)) \subseteq ToSet(to) \cup {v}
<1>1. Len(from) \in Nat /\ Len(from) > 0 /\ Last(from) \in Board /\ Front(from) \in Seq(Board)
      /\ Len(Front(from)) = Len(from) - 1
  BY FrontProperties
<1>2. Len(to) \in Nat /\ MaxUndo \in Nat
  BY LenProperties, DraftAssumption
<1>3. Len(to) < MaxUndo /\ Len(to) <= MaxUndo
  BY <1>1, <1>2
<1>4. Push(to, v) \in Seq(Board) /\ Push(to, v) = Append(to, v)
  BY <1>3, PushProperties
<1>5. Len(Append(to, v)) = Len(to) + 1
  BY AppendProperties
<1>6. ToSet(Push(to, v)) \subseteq ToSet(to) \cup {v}
  BY <1>3, PushedSet
<1>7. ToSet(Front(from)) \subseteq ToSet(from) /\ Last(from) \in ToSet(from)
  BY FrontSet
<1> QED
  BY <1>1, <1>3, <1>4, <1>5, <1>6, <1>7

(* Undo and Redo keep the road; what they show was shown at the place they came from. *)
LEMMA TradeKeeps ==
  ASSUME DraftKept, canvas' \in Board, undo' \in Seq(Board), redo' \in Seq(Board), Shared',
         canvas' \in ToSet(undo) \cup ToSet(redo),
         ToSet(undo') \cup ToSet(redo') \subseteq ToSet(undo) \cup ToSet(redo) \cup {canvas},
         UNCHANGED <<loaded, waiting, edge, drafted, trail, stale, ghost>>,
         Retraced => Retraced'
  PROVE  DraftKept'
<1>1. DraftTyped'
  BY DEF DraftKept, DraftTyped
<1>2. DraftWhole'
  <2>1. Sound(loaded')
    BY DEF DraftKept, DraftWhole
  <2>2. ASSUME ~ghost
        PROVE  /\ Sound(canvas')
               /\ \A v \in ToSet(undo') \cup ToSet(redo') : Sound(v)
    BY <2>2 DEF DraftKept, DraftWhole
  <2> QED
    BY <2>1, <2>2 DEF DraftKept, DraftWhole
<1>3. stale' \/ Retraced'
  BY DEF DraftKept
<1> QED
  BY <1>1, <1>2, <1>3 DEF DraftKept

LEMMA UndoKeeps ==
  ASSUME DraftKept, Undo PROVE DraftKept'
<1>1. /\ undo \in Seq(Board) /\ redo \in Seq(Board) /\ canvas \in Board
      /\ Len(undo) + Len(redo) <= MaxUndo /\ Len(redo) + Len(undo) <= MaxUndo
      /\ Len(undo) \in Nat /\ Len(redo) \in Nat
  <2>1. Len(undo) \in Nat /\ Len(redo) \in Nat
    BY LenProperties DEF DraftKept, DraftTyped
  <2> QED
    BY <2>1 DEF DraftKept, DraftTyped, Shared
<1>2. /\ undo # <<>> /\ canvas' = Last(undo) /\ undo' = Front(undo) /\ redo' = Push(redo, canvas)
      /\ at' = IF Last(undo) = canvas THEN at ELSE at - 1
      /\ UNCHANGED <<loaded, waiting, edge, drafted, trail, stale, ghost>>
  BY DEF Undo
<1>3. /\ Last(undo) \in Board /\ Front(undo) \in Seq(Board) /\ Push(redo, canvas) \in Seq(Board)
      /\ Push(redo, canvas) = Append(redo, canvas)
      /\ Len(redo) <= MaxUndo
      /\ Len(Front(undo)) = Len(undo) - 1 /\ Len(Push(redo, canvas)) = Len(redo) + 1
      /\ ToSet(Front(undo)) \subseteq ToSet(undo) /\ Last(undo) \in ToSet(undo)
      /\ ToSet(Push(redo, canvas)) \subseteq ToSet(redo) \cup {canvas}
  BY <1>1, <1>2, StacksTrade
<1>4. Shared'
  BY <1>1, <1>2, <1>3 DEF Shared
<1>5. ASSUME Retraced PROVE Retraced'
  <2>1. /\ trail \in Seq(Board) /\ Moves(trail) /\ at \in DOMAIN trail /\ trail[at] = canvas
        /\ Walks(undo, trail, at, 1) /\ Walks(redo, trail, at, -1) /\ at \in Int
        /\ 1 \in {1, -1} /\ -1 \in {1, -1}
    BY <1>5, LenProperties DEF Retraced
  <2>2. at' = IF Last(undo) = trail[at] THEN at ELSE at - 1
    BY <1>2, <2>1
  <2>3. at' \in DOMAIN trail /\ trail[at'] = Last(undo) /\ at - at' \in {0, 1}
        /\ Walks(Front(undo), trail, at', 1)
    BY <1>1, <1>2, <2>1, <2>2, WalkShrinks
  <2>4. Walks(redo', trail, at', -1)
    <3>1. at' \in Int /\ at' - at \in {0, -1}
      BY <1>2, <2>1
    <3>2. Carries(trail, trail, at, -1)
      BY DEF Carries
    <3>3. Walks(Push(redo, trail[at]), trail, at', -1)
      BY <1>1, <1>3, <2>1, <2>3, <3>1, <3>2, WalkGrows
    <3> QED
      BY <1>2, <2>1, <3>3
  <2>5. \A i \in 1 .. Len(undo) - 1 : Front(undo)[i] = undo[i]
    BY <1>1, <1>2, FrontProperties
  <2>6. Moves(undo')
    <3> SUFFICES ASSUME NEW i \in 1 .. Len(undo') - 1 PROVE undo'[i] # undo'[i + 1]
      BY DEF Moves
    <3>1. i \in 1 .. Len(undo) - 1 /\ i + 1 \in 1 .. Len(undo) - 1
      BY <1>1, <1>2, <1>3
    <3> QED
      BY <1>2, <1>5, <2>5, <3>1 DEF Retraced, Moves
  <2>7. undo' # <<>> => Last(undo') # canvas'
    <3> SUFFICES ASSUME undo' # <<>> PROVE Last(undo') # canvas'
      OBVIOUS
    <3>1. Len(undo') \in Nat /\ Len(undo') > 0
      BY <1>2, <1>3, FrontProperties
    <3>2. Len(undo) - 1 \in 1 .. Len(undo) - 1 /\ Len(undo') = Len(undo) - 1 /\ Len(undo) - 1 + 1 = Len(undo)
      BY <1>1, <1>2, <1>3, <3>1
    <3>3. Last(undo') = undo[Len(undo) - 1]
      BY <1>2, <2>5, <3>2 DEF Last
    <3>4. undo[Len(undo) - 1] # undo[Len(undo) - 1 + 1]
      BY <1>5, <3>2 DEF Retraced, Moves
    <3> QED
      BY <1>2, <3>2, <3>3, <3>4 DEF Last
  <2>8. /\ Len(redo') = Len(redo) + 1 /\ redo'[Len(redo) + 1] = canvas
        /\ \A i \in 1 .. Len(redo) : redo'[i] = redo[i]
    BY <1>1, <1>2, <1>3, AppendProperties
  <2>9. \A i \in 2 .. Len(redo') - 1 : redo'[i] # redo'[i + 1]
    <3> TAKE i \in 2 .. Len(redo') - 1
    <3>1. i \in 1 .. Len(redo) /\ redo'[i] = redo[i]
      BY <1>1, <2>8
    <3>2. CASE i = Len(redo)
      <4>1. redo # <<>> /\ Len(redo) # 1
        BY <1>1, <3>2
      <4>2. Last(redo) # canvas
        BY <1>5, <4>1 DEF Retraced
      <4> QED
        BY <2>8, <3>1, <3>2, <4>2 DEF Last
    <3>3. CASE i # Len(redo)
      <4>1. i \in 2 .. Len(redo) - 1 /\ i + 1 \in 1 .. Len(redo)
        BY <1>1, <3>1, <3>3
      <4> QED
        BY <1>5, <2>8, <3>1, <4>1 DEF Retraced
    <3> QED
      BY <3>2, <3>3
  <2>10. Last(redo') = canvas' => Len(redo') = 1
    <3> SUFFICES ASSUME Last(redo') = canvas' PROVE Len(redo') = 1
      OBVIOUS
    <3>1. Last(undo) = canvas
      BY <1>2, <2>8 DEF Last
    <3>2. redo = <<>>
      BY <1>2, <1>5, <3>1 DEF Retraced
    <3>3. Len(redo) = 0
      BY <3>2
    <3> QED
      BY <2>8, <3>3
  <2>11. trail' = trail /\ canvas' = trail[at'] /\ undo' = Front(undo)
    BY <1>2, <2>3
  <2> QED
    BY <2>1, <2>3, <2>4, <2>6, <2>7, <2>9, <2>10, <2>11 DEF Retraced
<1>6. canvas' \in ToSet(undo) \cup ToSet(redo)
      /\ ToSet(undo') \cup ToSet(redo') \subseteq ToSet(undo) \cup ToSet(redo) \cup {canvas}
  BY <1>2, <1>3
<1> QED
  BY <1>2, <1>3, <1>4, <1>5, <1>6, TradeKeeps

LEMMA RedoKeeps ==
  ASSUME DraftKept, Redo PROVE DraftKept'
<1>1. /\ undo \in Seq(Board) /\ redo \in Seq(Board) /\ canvas \in Board
      /\ Len(undo) + Len(redo) <= MaxUndo /\ Len(redo) + Len(undo) <= MaxUndo
      /\ Len(undo) \in Nat /\ Len(redo) \in Nat
  <2>1. Len(undo) \in Nat /\ Len(redo) \in Nat
    BY LenProperties DEF DraftKept, DraftTyped
  <2> QED
    BY <2>1 DEF DraftKept, DraftTyped, Shared
<1>2. /\ redo # <<>> /\ canvas' = Last(redo) /\ redo' = Front(redo) /\ undo' = Push(undo, canvas)
      /\ at' = IF Last(redo) = canvas THEN at ELSE at + 1
      /\ UNCHANGED <<loaded, waiting, edge, drafted, trail, stale, ghost>>
  BY DEF Redo
<1>3. /\ Last(redo) \in Board /\ Front(redo) \in Seq(Board) /\ Push(undo, canvas) \in Seq(Board)
      /\ Push(undo, canvas) = Append(undo, canvas)
      /\ Len(undo) <= MaxUndo
      /\ Len(Front(redo)) = Len(redo) - 1 /\ Len(Push(undo, canvas)) = Len(undo) + 1
      /\ ToSet(Front(redo)) \subseteq ToSet(redo) /\ Last(redo) \in ToSet(redo)
      /\ ToSet(Push(undo, canvas)) \subseteq ToSet(undo) \cup {canvas}
  BY <1>1, <1>2, StacksTrade
<1>4. Shared'
  BY <1>1, <1>2, <1>3 DEF Shared
<1>5. ASSUME Retraced PROVE Retraced'
  <2>1. /\ trail \in Seq(Board) /\ Moves(trail) /\ at \in DOMAIN trail /\ trail[at] = canvas
        /\ Walks(undo, trail, at, 1) /\ Walks(redo, trail, at, -1) /\ at \in Int
        /\ 1 \in {1, -1} /\ -1 \in {1, -1}
    BY <1>5, LenProperties DEF Retraced
  <2>2. at' = IF Last(redo) = trail[at] THEN at ELSE at - -1
    BY <1>2, <2>1
  <2>3. at' \in DOMAIN trail /\ trail[at'] = Last(redo) /\ at - at' \in {0, -1}
        /\ Walks(Front(redo), trail, at', -1)
    BY <1>1, <1>2, <2>1, <2>2, WalkShrinks
  <2>4. Walks(undo', trail, at', 1)
    <3>1. at' \in Int /\ at' - at \in {0, 1}
      BY <1>2, <2>1
    <3>2. Carries(trail, trail, at, 1)
      BY DEF Carries
    <3>3. Walks(Push(undo, trail[at]), trail, at', 1)
      BY <1>1, <1>3, <2>1, <2>3, <3>1, <3>2, WalkGrows
    <3> QED
      BY <1>2, <2>1, <3>3
  <2>5. \A i \in 1 .. Len(redo) - 1 : Front(redo)[i] = redo[i]
    BY <1>1, <1>2, FrontProperties
  <2>6. Moves(undo')
    <3>1. undo = <<>> \/ Last(undo) # canvas
      BY <1>2, <1>5 DEF Retraced
    <3> QED
      BY <1>1, <1>2, <1>3, <1>5, <3>1, PushedMoves DEF Retraced
  <2>7. Last(undo') = canvas
    BY <1>1, <1>2, <1>3, AppendProperties DEF Last
  <2>8. Last(undo') = canvas' => redo' = <<>>
    <3> SUFFICES ASSUME Last(undo') = canvas' PROVE redo' = <<>>
      OBVIOUS
    <3>1. Last(redo) = canvas
      BY <1>2, <2>7
    <3>2. Len(redo) = 1
      BY <1>2, <1>5, <3>1 DEF Retraced
    <3>3. Len(redo') = 0
      BY <1>2, <1>3, <3>2
    <3> QED
      BY <1>2, <1>3, <3>3, EmptySeq
  <2>9. \A i \in 2 .. Len(redo') - 1 : redo'[i] # redo'[i + 1]
    <3> TAKE i \in 2 .. Len(redo') - 1
    <3>1. i \in 2 .. Len(redo) - 1 /\ i \in 1 .. Len(redo) - 1 /\ i + 1 \in 1 .. Len(redo) - 1
      BY <1>1, <1>2, <1>3
    <3> QED
      BY <1>2, <1>5, <2>5, <3>1 DEF Retraced
  <2>10. redo' # <<>> /\ Last(redo') = canvas' => Len(redo') = 1
    <3> SUFFICES ASSUME redo' # <<>>, Last(redo') = canvas', Len(redo') # 1 PROVE FALSE
      OBVIOUS
    <3>1. Len(redo') \in Nat /\ Len(redo') > 0
      BY <1>2, <1>3, FrontProperties
    <3>2. Len(redo) - 1 \in 2 .. Len(redo) - 1 /\ Len(redo) - 1 \in 1 .. Len(redo) - 1
          /\ Len(redo') = Len(redo) - 1 /\ Len(redo) - 1 + 1 = Len(redo)
      BY <1>1, <1>2, <1>3, <3>1
    <3>3. Last(redo') = redo[Len(redo) - 1]
      BY <1>2, <2>5, <3>2 DEF Last
    <3>4. redo[Len(redo) - 1] # redo[Len(redo) - 1 + 1]
      BY <1>5, <3>2 DEF Retraced
    <3> QED
      BY <1>2, <3>2, <3>3, <3>4 DEF Last
  <2>11. trail' = trail /\ canvas' = trail[at'] /\ redo' = Front(redo)
    BY <1>2, <2>3
  <2> QED
    BY <2>1, <2>3, <2>4, <2>6, <2>8, <2>9, <2>10, <2>11 DEF Retraced
<1>6. canvas' \in ToSet(undo) \cup ToSet(redo)
      /\ ToSet(undo') \cup ToSet(redo') \subseteq ToSet(undo) \cup ToSet(redo) \cup {canvas}
  BY <1>2, <1>3
<1> QED
  BY <1>2, <1>3, <1>4, <1>5, <1>6, TradeKeeps

LEMMA FreshKeeps ==
  ASSUME DraftKept, NEW v \in Board, Sound(v), Fresh(v) PROVE DraftKept'
<1>1. /\ canvas' = v /\ loaded' = v /\ undo' = <<>> /\ redo' = <<>> /\ trail' = <<v>> /\ at' = 1
      /\ UNCHANGED <<waiting, edge, drafted, stale, ghost>>
  BY DEF Fresh
<1>2. <<>> \in Seq(Board) /\ Len(<<>>) = 0 /\ ToSet(<<>>) = {}
  BY DEF ToSet
<1>3. DraftTyped'
  BY <1>1, <1>2 DEF DraftKept, DraftTyped
<1>4. DraftWhole'
  BY <1>1, <1>2 DEF DraftKept, DraftWhole
<1>5. Shared'
  BY <1>1, <1>2, DraftAssumption DEF Shared
<1>6. Retraced'
  <2>1. <<v>> \in Seq(Board) /\ Len(<<v>>) = 1 /\ <<v>>[1] = v /\ DOMAIN <<v>> = {1}
    OBVIOUS
  <2>2. Moves(<<v>>) /\ Moves(<<>>)
    BY <1>2, <2>1 DEF Moves
  <2>3. Walks(<<>>, <<v>>, 1, 1) /\ Walks(<<>>, <<v>>, 1, -1)
    <3>1. DOMAIN <<v>> \in SUBSET Nat /\ 1 \in DOMAIN <<v>> /\ 1 \in {1, -1} /\ -1 \in {1, -1}
      BY <2>1
    <3> QED
      BY <3>1, WalkBegins
  <2> QED
    BY <1>1, <1>2, <2>1, <2>2, <2>3 DEF Retraced
<1> QED
  BY <1>3, <1>4, <1>5, <1>6 DEF DraftKept

LEMMA DraftBeginsKept ==
  ASSUME NEW v \in Board, Sound(v), DraftFrom(v) PROVE DraftKept
<1>1. /\ canvas = v /\ loaded = v /\ undo = <<>> /\ redo = <<>> /\ trail = <<v>> /\ at = 1
      /\ waiting = {} /\ edge = {} /\ drafted = 0 /\ stale = FALSE /\ ghost = FALSE
  BY DEF DraftFrom
<1>2. <<>> \in Seq(Board) /\ Len(<<>>) = 0 /\ ToSet(<<>>) = {}
  BY DEF ToSet
<1>3. DraftTyped
  <2>1. drafted \in 0 .. MaxDraftEdits
    BY <1>1, DraftAssumption
  <2>2. /\ waiting \in SUBSET [does : {"delete", "yaml"}, stage : Key, on : Board]
        /\ \A w \in waiting : w.stage \in Stages(w.on)
        /\ edge \in SUBSET [source : Key \cup {START}, status : Result \cup {"handoff"}]
    BY <1>1
  <2> QED
    BY <1>1, <1>2, <2>1, <2>2 DEF DraftTyped
<1>4. DraftWhole
  BY <1>1, <1>2 DEF DraftWhole
<1>5. Shared
  BY <1>1, <1>2, DraftAssumption DEF Shared
<1>6. Retraced
  <2>1. <<v>> \in Seq(Board) /\ Len(<<v>>) = 1 /\ <<v>>[1] = v /\ DOMAIN <<v>> = {1}
    OBVIOUS
  <2>2. Moves(<<v>>) /\ Moves(<<>>)
    BY <1>2, <2>1 DEF Moves
  <2>3. Walks(<<>>, <<v>>, 1, 1) /\ Walks(<<>>, <<v>>, 1, -1)
    <3>1. DOMAIN <<v>> \in SUBSET Nat /\ 1 \in DOMAIN <<v>> /\ 1 \in {1, -1} /\ -1 \in {1, -1}
      BY <2>1
    <3> QED
      BY <3>1, WalkBegins
  <2> QED
    BY <1>1, <1>2, <2>1, <2>2, <2>3 DEF Retraced
<1> QED
  BY <1>3, <1>4, <1>5, <1>6 DEF DraftKept

LEMMA DraftStepKeeps ==
  ASSUME DraftKept, [DraftNext]_draftVars PROVE DraftKept'
<1>1. CASE Connect      BY <1>1, ConnectKeeps
<1>2. CASE DeleteEdge   BY <1>2, DeleteEdgeKeeps
<1>3. CASE DragEdge     BY <1>3, DragEdgeKeeps
<1>4. CASE CreateStage  BY <1>4, CreateStageKeeps
<1>5. CASE CopyStage    BY <1>5, CopyStageKeeps
<1>6. CASE AskFor       BY <1>6, AskForKeeps
<1>7. CASE GoOn         BY <1>7, GoOnKeeps
<1>8. CASE GiveIn       BY <1>8, GiveInKeeps
<1>9. CASE Undo         BY <1>9, UndoKeeps
<1>10. CASE Redo        BY <1>10, RedoKeeps
<1>11. CASE SaveGraph
  <2>1. Sound(canvas) /\ Fresh(canvas)
    BY <1>11 DEF SaveGraph, Savable
  <2>2. canvas \in Board
    BY DEF DraftKept, DraftTyped
  <2> QED
    BY <2>1, <2>2, FreshKeeps
<1>12. CASE Reload
  <2>1. loaded \in Board /\ Sound(loaded) /\ Fresh(loaded)
    BY <1>12 DEF Reload, DraftKept, DraftTyped, DraftWhole
  <2> QED
    BY <2>1, FreshKeeps
<1>13. CASE UNCHANGED draftVars
  BY <1>13 DEF draftVars, DraftKept, DraftTyped, Shared, DraftWhole, Retraced
<1> QED
  BY <1>1, <1>2, <1>3, <1>4, <1>5, <1>6, <1>7, <1>8, <1>9, <1>10, <1>11, <1>12, <1>13 DEF DraftNext

(* From any sound canvas, in any order of edits, dialogs, answers, Undo, Redo, saves and   *)
(* reloads, however many snapshots Undo keeps: no edge or flow entry names a Stage that is *)
(* gone, and Undo and Redo retrace what the user saw (main.tsx:1160-1212, 1490-1660).      *)
THEOREM CanvasStaysSound ==
  ASSUME NEW v \in Board, Sound(v)
  PROVE  DraftFrom(v) /\ [][DraftNext]_draftVars => []CanvasSound
<1>1. DraftFrom(v) => DraftKept
  BY DraftBeginsKept
<1>2. DraftKept /\ [DraftNext]_draftVars => DraftKept'
  BY DraftStepKeeps
<1>3. DraftKept => CanvasSound
  BY DraftKeptIsEnough
<1> QED
  BY <1>1, <1>2, <1>3, PTL

(* The canvas the runs begin with is a sound one. *)
LEMMA RolesAreSound ==
  Roles \in Board /\ Sound(Roles)
<1> DEFINE h == <<"handoff", 1>>
           b == <<"base", 1>>
           S == {h, b}
           cards == [s \in S |-> IF s[1] = "handoff" THEN [Blank EXCEPT !.targets = {b}]
                                 ELSE [Blank EXCEPT !.routes["pass"] = h]]
           flow == <<h, b>>
<1>1. h \in Key /\ b \in Key /\ h # b /\ h[1] = "handoff" /\ b[1] = "base"
  BY DraftAssumption DEF Key
<1>2. S \in SUBSET Key /\ S \in SUBSET Name
  BY <1>1, NamesInUse
<1>3. Roles = [stages |-> cards, flow |-> flow]
  BY DEF Roles
<1>4. {b} \in SUBSET Name /\ h \in Name /\ "pass" \in Result /\ {b} \subseteq S /\ h \in S \cup {Done, Stop, None}
  BY <1>2 DEF Result
<1>5. [Blank EXCEPT !.targets = {b}] \in StageCard /\ Fits([Blank EXCEPT !.targets = {b}], S)
  <2> HIDE DEF b, h, S
  <2> QED
    BY <1>4, BlankFits, TargetsChanged
<1>6. [Blank EXCEPT !.routes["pass"] = h] \in StageCard /\ Fits([Blank EXCEPT !.routes["pass"] = h], S)
  <2> HIDE DEF b, h, S
  <2> QED
    BY <1>4, BlankFits, RoutesChanged
<1>7. cards \in [S -> StageCard] /\ \A s \in S : Fits(cards[s], S)
  <2>1. \A s \in S : cards[s] \in StageCard /\ Fits(cards[s], S)
    <3>1. cards[h] = [Blank EXCEPT !.targets = {b}] /\ cards[b] = [Blank EXCEPT !.routes["pass"] = h]
      BY <1>1
    <3> HIDE DEF cards
    <3> QED
      BY <1>5, <1>6, <3>1
  <2>2. cards = [s \in S |-> cards[s]]
    OBVIOUS
  <2> HIDE DEF cards, S
  <2> QED
    BY <2>1, <2>2
<1>8. flow \in Seq(Name) /\ ToSet(flow) \subseteq S /\ IsInjective(flow)
  <2>1. flow \in Seq(Name) /\ DOMAIN flow = 1 .. 2 /\ flow[1] = h /\ flow[2] = b
    BY <1>2
  <2> HIDE DEF flow, h, b
  <2>2. \A i \in DOMAIN flow : flow[i] \in S
    BY <2>1
  <2>3. IsInjective(flow)
    BY <1>1, <2>1 DEF IsInjective
  <2> QED
    BY <2>1, <2>2, <2>3 DEF ToSet
<1> HIDE DEF cards, flow, S
<1>9. [stages |-> cards, flow |-> flow] \in Board
  BY <1>2, <1>7, <1>8, BoardMade
<1>10. Sound([stages |-> cards, flow |-> flow])
  BY <1>2, <1>7, <1>8, SoundMade
<1> QED
  BY <1>3, <1>9, <1>10

(* So the canvas that the runs begin with stays sound (workflow-draft.ts, main.tsx). *)
THEOREM RolesStaySound ==
  DraftInit /\ [][DraftNext]_draftVars => []CanvasSound
<1>1. DraftInit => DraftKept
  BY RolesAreSound, DraftBeginsKept DEF DraftInit
<1>2. DraftKept /\ [DraftNext]_draftVars => DraftKept'
  BY DraftStepKeeps
<1>3. DraftKept => CanvasSound
  BY DraftKeptIsEnough
<1> QED
  BY <1>1, <1>2, <1>3, PTL

=============================================================================
