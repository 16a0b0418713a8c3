------------------------------ MODULE WorkflowText ------------------------------
(***************************************************************************)
(* A Workflow file as lines, and the edits that patch them                      *)
(* (workflow_studio_state.py:315-390, 700-877, 1221-1426): the Studio does not      *)
(* write the parsed document back, it replaces the lines of a field, of a Stage      *)
(* or of the flow, so that comments and order survive.                           *)
(*                                                                         *)
(* A line is a top-level key, a Stage, the first line of a field, a deeper line    *)
(* of its value, an entry of the flow, a blank line, a comment no deeper than a     *)
(* field ("note") or a deeper one ("deep").  A value is the sequence of its lines.   *)
(* Values with a blank line or a note inside, and the check of the result, which    *)
(* refuses an edit, are left out.                                             *)
(***************************************************************************)
EXTENDS Integers, Sequences, FiniteSetsExt, SequencesExt

CONSTANTS
  StageName,    \* the Stages of a Workflow
  Absent,       \* a field that is not there
  Value,        \* of a field: the values it may have, sequences of lines or Absent
  Config,       \* the Stages that are drawn or typed
  MaxPatches    \* bound: edits in a behavior

FieldOrder == <<"type", "prompt", "option", "routes">>
Field == {"type", "prompt", "option", "routes"}

ASSUME PatchAssumption ==
  /\ MaxPatches \in Nat /\ IsFiniteSet(StageName)
  /\ \A f \in Field : \A v \in Value[f] \ {Absent} : v \in Seq(STRING) /\ v # <<>>
  /\ Config \subseteq [Field -> (UNION {Value[f] : f \in Field}) \cup {Absent}]
  /\ \A c \in Config, f \in Field : c[f] \in Value[f] \cup {Absent}

Drawing ==   \* what the Designer may send
  UNION {[stages : [names -> Config], flow : {SetToSeq(names), Reverse(SetToSeq(names))}] :
         names \in SUBSET StageName \ {{}}}

VARIABLES
  text,     \* the lines of the file
  meant,    \* what every edit so far asked for: [stages, flow]
  patches

textVars == <<text, meant, patches>>

Line(is, what) == [is |-> is, what |-> what]
Aside(is) == Line(is, is)   \* a comment or a blank line
Remarked(f, v, remark) ==   \* a field whose first line a comment follows
  IF v = Absent THEN <<>>
  ELSE <<[is |-> "field", what |-> f, value |-> v[1]]>> \o remark
       \o [i \in 1 .. Len(v) - 1 |-> Line("more", v[i + 1])]
Written(f, v) == Remarked(f, v, <<>>)
StageLines(s, config, fields, remarks) ==
  LET Of(i) == Remarked(fields[i], config[fields[i]], remarks[fields[i]])
  IN <<Line("stage", s)>> \o Of(1) \o Of(2) \o Of(3) \o Of(4)
FlowLines(flow) == <<Line("head", "flow")>> \o [i \in 1 .. Len(flow) |-> Line("item", flow[i])]
Remarks == [f \in Field |-> IF f = "routes" THEN <<Aside("deep")>> ELSE <<>>]
NoRemarks == [f \in Field |-> <<>>]

--------------------------------------------------------------------------
(* What YAML reads: a field belongs to the Stage above it, a deeper line to the    *)
(* value above it, comments and blank lines to nothing.                          *)
Among(t, kind) == FlattenSeq([i \in 1 .. Len(t) |-> IF t[i].is = kind THEN <<t[i].what>> ELSE <<>>])
First(t, i, kinds) == Min({k \in i .. Len(t) : t[k].is \in kinds} \cup {Len(t) + 1})
At(t, is, what) == Min({k \in DOMAIN t : t[k].is = is /\ t[k].what = what} \cup {Len(t) + 1})
ValueAt(t, i) ==
  <<t[i].value>> \o Among(SubSeq(t, i + 1, First(t, i + 1, {"field", "stage", "head"}) - 1), "more")
StageRead(t, s) ==
  LET own == At(t, "stage", s) + 1 .. First(t, At(t, "stage", s) + 1, {"stage", "head"}) - 1
  IN [f \in Field |-> IF \E i \in own : t[i].is = "field" /\ t[i].what = f
                      THEN ValueAt(t, Max({i \in own : t[i].is = "field" /\ t[i].what = f}))
                      ELSE Absent]
Read(t) ==
  [stages |-> [s \in {t[i].what : i \in {k \in DOMAIN t : t[k].is = "stage"}} |-> StageRead(t, s)],
   flow |-> Among(t, "item")]

--------------------------------------------------------------------------
(* _stage_bounds, _patch_stage_fields, _insert_stage_block, _replace_flow_block      *)
(* and _remove_stage_definition_block.                                          *)
StageStart(t, s) == At(t, "stage", s)
StageEnd(t, s) == First(t, StageStart(t, s) + 1, {"stage", "head"})
Put(t, from, to, lines) == SubSeq(t, 1, from - 1) \o lines \o SubSeq(t, to, Len(t))

MutantValueEnd(t, i, last) == Min({i + 1, last})
ValueEnd(t, i, last) == Min({First(t, i + 1, {"field", "note", "blank"}), last})
PatchField(t, s, f, v) ==
  LET last == StageEnd(t, s)
      own == {i \in StageStart(t, s) + 1 .. last - 1 : t[i].is = "field" /\ t[i].what = f}
  IN IF own = {} THEN Put(t, last, last, Written(f, v))
     ELSE Put(t, Min(own), ValueEnd(t, Min(own), last), Written(f, v))
PatchFields(t, s, fields, config) ==
  LET Patched(u, f) == IF f \in fields THEN PatchField(u, s, f, config[f]) ELSE u
  IN Patched(Patched(Patched(t, "type"), "prompt"), "option")

InsertStage(t, s, config) ==
  LET last == First(t, At(t, "head", "stages") + 1, {"head"})
      gap == IF t[last - 1].is = "blank" THEN <<>> ELSE <<Aside("blank")>>
  IN Put(t, last, last, gap \o StageLines(s, config, FieldOrder, NoRemarks))
RemoveStage(t, s) == Put(t, StageStart(t, s), StageEnd(t, s), <<>>)
ReplaceFlow(t, flow) ==
  LET start == At(t, "head", "flow")
  IN IF start > Len(t) THEN t \o FlowLines(flow)
     ELSE Put(t, start, First(t, start + 1, {"head"}), FlowLines(flow))

--------------------------------------------------------------------------
Patch == patches < MaxPatches /\ patches' = patches + 1

(* An option that the drawing no longer has stays in the file: only the fields it    *)
(* has are compared, and the prompt, which it always has.                        *)
Asked(s, drawn) ==
  IF s \in DOMAIN meant.stages /\ drawn.option = Absent
  THEN [drawn EXCEPT !.option = meant.stages[s].option] ELSE drawn

(* studio_graph_save: Stages no longer drawn are removed, new ones inserted, changed  *)
(* fields patched, then the flow, and then the routes of every Stage.              *)
Altered(d, s) ==
  {f \in Field \ {"routes"} : /\ d.stages[s][f] # meant.stages[s][f]
                             /\ ~(f = "option" /\ d.stages[s][f] = Absent)}
PatchStage(t, d, s, pass) ==
  CASE pass = "remove" -> RemoveStage(t, s)
    [] pass = "insert or patch" ->
         IF s \in DOMAIN meant.stages THEN PatchFields(t, s, Altered(d, s), d.stages[s])
         ELSE InsertStage(t, s, [d.stages[s] EXCEPT !.routes = Absent])
    [] pass = "routes" -> PatchField(t, s, "routes", d.stages[s].routes)
EachStage(t, d, names, pass) ==
  LET after[k \in 0 .. Len(names)] ==
        IF k = 0 THEN t ELSE PatchStage(after[k - 1], d, names[k], pass)
  IN after[Len(names)]
Redrawn(d) ==
  LET new == SetToSeq(DOMAIN d.stages)
      removed == EachStage(text, d, SetToSeq(DOMAIN meant.stages \ DOMAIN d.stages), "remove")
      staged == EachStage(removed, d, new, "insert or patch")
  IN EachStage(ReplaceFlow(staged, d.flow), d, new, "routes")
SaveDrawing ==
  /\ Patch
  /\ \E d \in Drawing :
       /\ text' = Redrawn(d)
       /\ meant' = [stages |-> [s \in DOMAIN d.stages |-> Asked(s, d.stages[s])], flow |-> d.flow]

(* studio_stage_save: one field of one Stage, written or removed. *)
SaveStage ==
  /\ Patch
  /\ \E s \in DOMAIN meant.stages, f \in Field \ {"type"} : \E v \in Value[f] :
       /\ text' = PatchField(text, s, f, v)
       /\ meant' = [meant EXCEPT !.stages[s][f] = v]

(* studio_visual_save: the order of the flow. *)
SaveFlow ==
  /\ Patch
  /\ \E flow \in {meant.flow, Reverse(meant.flow), SetToSeq(DOMAIN meant.stages)} :
       text' = ReplaceFlow(text, flow) /\ meant' = [meant EXCEPT !.flow = flow]

(* studio_stage_add: a Stage that appears in the flow too, at its end. *)
AddStage ==
  /\ Patch
  /\ \E s \in StageName \ DOMAIN meant.stages, base \in Value["type"], v \in Value["prompt"] :
       LET config == [f \in Field |-> IF f = "type" THEN base ELSE IF f = "prompt" THEN v ELSE Absent]
           flow == Append(meant.flow, s)
       IN /\ text' = ReplaceFlow(InsertStage(text, s, config), flow)
          /\ meant' = [stages |-> [r \in DOMAIN meant.stages \cup {s} |->
                                     IF r = s THEN config ELSE meant.stages[r]],
                       flow |-> flow]

(* studio_stage_delete: refused unless the flow has the Stage; routes to it, which    *)
(* refuse it too, are left out.                                               *)
DeleteStage ==
  /\ Patch
  /\ \E s \in ToSet(meant.flow) :
       LET flow == FlattenSeq([i \in 1 .. Len(meant.flow) |->
                                 IF meant.flow[i] = s THEN <<>> ELSE <<meant.flow[i]>>])
       IN /\ text' = ReplaceFlow(RemoveStage(text, s), flow)
          /\ meant' = [stages |-> [r \in DOMAIN meant.stages \ {s} |-> meant.stages[r]], flow |-> flow]

(* A file as an author left it: the flow before or after the Stages, comments and    *)
(* blank lines between and behind them, a comment inside a value.                 *)
Gap == {<<>>, <<Aside("blank")>>, <<Aside("note"), Aside("blank")>>}
AuthoredText(d, gap, first) ==
  LET order == SetToSeq(DOMAIN d.stages)
      blocks == <<Line("head", "stages")>> \o FlattenSeq([i \in 1 .. Len(order) |->
                  StageLines(order[i], d.stages[order[i]], Reverse(FieldOrder), Remarks) \o gap])
  IN IF first THEN FlowLines(d.flow) \o gap \o blocks ELSE blocks \o FlowLines(d.flow) \o gap
Authored ==
  {[text |-> AuthoredText(d, gap, first), meant |-> d] : d \in Drawing, gap \in Gap, first \in BOOLEAN}

(* studio_save writes whatever the author typed. *)
SaveText ==
  /\ Patch
  /\ \E a \in Authored : text' = a.text /\ meant' = a.meant

TextInit == patches = 0 /\ \E a \in Authored : text = a.text /\ meant = a.meant
TextNext == SaveDrawing \/ SaveStage \/ SaveFlow \/ AddStage \/ DeleteStage \/ SaveText

--------------------------------------------------------------------------
(* The lines always read as what the edits asked for: no patch leaves a part of an    *)
(* old value behind, reaches into another Stage, or loses a Stage, whatever comments  *)
(* and blank lines the author left (workflow_studio_state.py:782-877, 1221-1426).      *)
TextIsMeant == Read(text) = meant
=============================================================================
