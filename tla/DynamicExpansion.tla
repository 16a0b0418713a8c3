--------------------------- MODULE DynamicExpansion ---------------------------
(***************************************************************************)
(* The durable state of one run and the expansion of a Stage result into   *)
(* child Stages (runner/workflow/dynamic_expansion.py).                    *)
(*                                                                         *)
(* A Stage or Task name is a record [group, local]: group 0 is the         *)
(* configured Workflow, group N > 0 the N-th expansion, so the code's      *)
(* "<source>__g<N>__<safe>" is [group |-> N, local |-> "<safe>"].  A       *)
(* route target is a name too; next, done and stop live in group 0.        *)
(* Dictionaries of the state are sets of records, one per entry.           *)
(***************************************************************************)
EXTENDS Integers, Sequences, FiniteSets

CONSTANTS
  Label,       \* what a Workflow file or a producer may call a Stage or a task
  SafeName,    \* SafeName[l]: l with every other character replaced by "_"
  Workflow,    \* the configured Workflow: a sequence of Templates
  FlowId,      \* identifiers of the child Workflows producers may return
  FlowTasks,   \* FlowTasks[f]: the task labels of child Workflow f, in order
  FlowStages,  \* FlowStages[f]: its Stages, a sequence of Templates
  NoFlow       \* "the result carries no child Workflow"

Ref(g, l) == [group |-> g, local |-> l]
Name      == [group : Nat, local : Label]
Nothing   == Ref(0, "")
GoNext    == Ref(0, "next")
GoDone    == Ref(0, "done")
GoStop    == Ref(0, "stop")
Reserved  == {"next", "done", "stop"}
Keywords  == {GoNext, GoDone, GoStop}

(* A Stage as a Workflow file or a producer writes it. *)
Template ==
  [local : Label, review : BOOLEAN, maxFailures : Nat, failSoft : BOOLEAN,
   canFail : BOOLEAN, session : BOOLEAN, pass : Label, fail : Label,
   targets : SUBSET Label, yields : SUBSET FlowId, task : Label,
   completes : BOOLEAN]

(* A Stage of the executable Workflow: names resolved, dynamic metadata added. *)
Definition ==
  [name : Name, review : BOOLEAN, maxFailures : Nat, failSoft : BOOLEAN,
   canFail : BOOLEAN, session : BOOLEAN, pass : Name, fail : Name,
   targets : SUBSET Name, yields : SUBSET FlowId, task : Name,
   completes : BOOLEAN, path : SUBSET Nat, groupContinue : Name,
   continue : Name]

Task == [id : Name, status : {"pending", "completed"}]

(* The fields of RunState that the control flow reads. *)
RunState ==
  [cycle : Nat, current : Nat, tasks : Seq(Task), completed : BOOLEAN,
   stage : {"active", "completed", "max_cycles_exhausted"},
   position : Nat, workflow : Seq(Definition),
   groups : SUBSET [source : Name, group : Nat],
   taskGroups : SUBSET [source : Name, task : Name],
   expansions : Nat, sessions : SUBSET Name,
   failures : SUBSET [key : [review : Name, scope : Name], count : Nat],
   previous : [stage : Name, status : {"", "pass", "fail", "error"}]]

(* validate_routes: labels are unique and every route names one of them.  A   *)
(* Handoff is a Stage type, Review a profile of the base type: never both.    *)
RoutesValid(stages) ==
  LET labels == {stages[i].local : i \in DOMAIN stages} IN
  /\ \A i, j \in DOMAIN stages : stages[i].local = stages[j].local => i = j
  /\ \A i \in DOMAIN stages :
       /\ {stages[i].pass, stages[i].fail} \subseteq labels \cup Reserved
       /\ stages[i].targets \subseteq labels \ {stages[i].local}

ASSUME LabelAssumption ==
  Reserved \cup {""} \subseteq Label /\ SafeName \in [Label -> Label]
ASSUME WorkflowAssumption ==
  /\ Workflow \in Seq(Template)
  /\ Workflow # <<>>
  /\ RoutesValid(Workflow)
  /\ \A i \in DOMAIN Workflow : Workflow[i].review => Workflow[i].targets = {}
  /\ \A i \in DOMAIN Workflow : Workflow[i].task = "" /\ ~Workflow[i].completes
ASSUME FlowAssumption ==
  /\ FlowTasks \in [FlowId -> Seq(Label)]
  /\ FlowStages \in [FlowId -> Seq(Template)]
  /\ \A f \in FlowId : FlowStages[f] # <<>>
  /\ \A f \in FlowId : \A i \in DOMAIN FlowStages[f] :
       FlowStages[f][i].review => FlowStages[f][i].targets = {}
  /\ NoFlow \notin FlowId

--------------------------------------------------------------------------
(* Dictionaries with integer values: count 0 and an absent key are the same. *)
Count(entries, k) ==
  IF \E e \in entries : e.key = k
    THEN (CHOOSE e \in entries : e.key = k).count
    ELSE 0
Without(entries, k) == {e \in entries : e.key # k}
Bump(entries, k) ==
  Without(entries, k) \cup {[key |-> k, count |-> Count(entries, k) + 1]}

(* The elements of s at the indexes in I, in their order. *)
Nth(I, k) == CHOOSE i \in I : Cardinality({j \in I : j <= i}) = k
Keep(s, I) == [k \in 1 .. Cardinality(I) |-> s[Nth(I, k)]]

Least(a, b) == IF a <= b THEN a ELSE b
Stages(w)   == {w[i] : i \in DOMAIN w}
Names(w)    == {w[i].name : i \in DOMAIN w}
TaskIds(s)  == {s.tasks[i].id : i \in DOMAIN s.tasks}
FirstIndex(w, n) ==
  CHOOSE i \in DOMAIN w : w[i].name = n /\ \A j \in DOMAIN w : w[j].name = n => i <= j

--------------------------------------------------------------------------
(* A template becomes a definition of group g, nested in the groups of path.  *)
(* The name of a child is made safe; a configured Stage keeps the one it has. *)
(* No child is called next, done or stop: such a name is not modelled.        *)
StageName(g, l) == Ref(g, IF g = 0 THEN l ELSE SafeName[l])

Resolve(g, l) == IF l \in Reserved THEN Ref(0, l) ELSE StageName(g, l)

Instantiate(t, g, path, task) ==
  [name |-> StageName(g, t.local), review |-> t.review,
   maxFailures |-> t.maxFailures, failSoft |-> t.failSoft,
   canFail |-> t.canFail, session |-> t.session,
   pass |-> Resolve(g, t.pass), fail |-> Resolve(g, t.fail),
   targets |-> {StageName(g, l) : l \in t.targets}, yields |-> t.yields,
   task |-> task, completes |-> t.completes, path |-> path,
   groupContinue |-> Nothing, continue |-> Nothing]

(* A label that names no task of the result is kept as it was written. *)
BoundTask(f, g, l) ==
  CASE l = "" -> Nothing
    [] \E i \in DOMAIN FlowTasks[f] : FlowTasks[f][i] = l -> Ref(g, l)
    [] OTHER -> Ref(0, l)

EffectiveContinuation(source, continuation) ==
  CASE continuation = GoNext /\ source.continue # Nothing -> source.continue
    [] continuation = GoDone /\ source.name.group # 0 -> source.groupContinue
    [] OTHER -> continuation

ChildStages(f, g, path, groupContinue) ==
  LET n == Len(FlowStages[f]) IN
  [i \in 1 .. n |->
    LET t == FlowStages[f][i] IN
    [Instantiate(t, g, path, BoundTask(f, g, t.task)) EXCEPT
       !.groupContinue = groupContinue,
       !.continue = IF i = n THEN groupContinue ELSE Nothing]]

(* What _expand_stages, validate_routes and _validate_task_bindings accept.   *)
(* Names are compared before they are made safe, a Handoff to itself after;   *)
(* a task_id that is no task of the result is not looked at.                  *)
FlowAccepted(f) ==
  LET stages == FlowStages[f] IN
  /\ RoutesValid(stages)
  /\ \A i \in DOMAIN stages :
       SafeName[stages[i].local] \notin {SafeName[l] : l \in stages[i].targets}
  /\ \A k \in DOMAIN FlowTasks[f] : \E i \in DOMAIN stages :
       stages[i].task = FlowTasks[f][k] /\ stages[i].completes

(* Everything a superseded expansion of source left in the state is dropped: *)
(* its children, and what they produced themselves.                          *)
MutantNoOldGroups(s, source) == {}
OldGroups(s, source) == {e.group : e \in {e \in s.groups : e.source = source}}

MutantDirectChildren(s, source) ==
  {i \in DOMAIN s.workflow : s.workflow[i].name.group \in OldGroups(s, source)}
Superseded(s, source) ==
  {i \in DOMAIN s.workflow : s.workflow[i].path \cap OldGroups(s, source) # {}}

DropPrevious(s, source) ==
  LET gone  == Superseded(s, source)
      names == {s.workflow[i].name : i \in gone}
      dead  == {e.task : e \in {e \in s.taskGroups : e.source \in names \cup {source}}}
      tasks == Keep(s.tasks, {i \in DOMAIN s.tasks : s.tasks[i].id \notin dead})
  IN [s EXCEPT
       !.workflow   = Keep(s.workflow, DOMAIN s.workflow \ gone),
       !.tasks      = tasks,
       !.current    = Least(s.current, Len(tasks)),
       !.taskGroups = {e \in @ : e.source \notin names \cup {source}},
       !.groups     = {e \in @ : e.source \notin names \cup {source}},
       !.sessions   = @ \ names,
       !.failures   = {e \in @ : e.key.scope \notin dead /\ e.key.review \notin names}]

InstallTasks(s, source, f, g) ==
  LET labels == FlowTasks[f] IN
  [s EXCEPT
    !.tasks = @ \o [i \in 1 .. Len(labels) |->
                      [id |-> Ref(g, labels[i]), status |-> "pending"]],
    !.taskGroups = @ \cup {[source |-> source, task |-> Ref(g, labels[i])] :
                             i \in DOMAIN labels}]

(* expand_stage_result: source, the Stage at the current position, returned f. *)
Expand(s, source, f, continuation) ==
  LET g     == s.expansions + 1
      base  == InstallTasks(DropPrevious(s, source.name), source.name, f, g)
      i     == FirstIndex(base.workflow, source.name)
      children == ChildStages(f, g, source.path \cup {g},
                              EffectiveContinuation(source, continuation))
  IN [base EXCEPT
       !.expansions = g,
       !.groups     = @ \cup {[source |-> source.name, group |-> g]},
       !.workflow   = SubSeq(@, 1, i) \o children \o SubSeq(@, i + 1, Len(@))]

(* activate_dynamic_task: a bound Stage makes its task the current one. *)
BindingKnown(s, d) == d.task # Nothing => d.task \in TaskIds(s)
MutantActivate(s, d) == s
MutantActivateOffByOne(s, d) ==
  IF d.task = Nothing THEN s
  ELSE [s EXCEPT !.current = (CHOOSE i \in DOMAIN s.tasks : s.tasks[i].id = d.task) - 2]
Activate(s, d) ==
  IF d.task = Nothing THEN s
  ELSE [s EXCEPT !.current = (CHOOSE i \in DOMAIN s.tasks : s.tasks[i].id = d.task) - 1]

--------------------------------------------------------------------------
(* What every operation keeps true of a run's state. *)
AllTasksCompleted(s) == \A i \in DOMAIN s.tasks : s.tasks[i].status = "completed"

(* Every target a Stage can be routed to. *)
RouteTargets(d) ==
  {d.pass, d.fail} \cup d.targets
    \cup (IF d.name.group # 0 THEN {d.groupContinue} ELSE {})
    \cup (IF d.continue # Nothing THEN {d.continue} ELSE {})

(* Groups are numbered by expansions: none is newer than the counter. *)
GroupsNumbered(s) ==
  /\ \A d \in Stages(s.workflow) :
       d.name.group <= s.expansions /\ d.path \subseteq 1 .. s.expansions
  /\ \A e \in s.groups : e.source.group <= s.expansions

(* A Stage refers only to Stages of its own group or of the groups around it: *)
(* what is dropped with a group is referred to only by what is dropped too.   *)
RoutesOutward(s) ==
  \A d \in Stages(s.workflow) :
    /\ RouteTargets(d) \subseteq Keywords \cup Names(s.workflow)
    /\ \A e \in Stages(s.workflow) :
         e.name \in RouteTargets(d) \ Keywords => e.path \subseteq d.path

(* A producer is not inside a group that it produced. *)
ProducersOutside(s) ==
  \A d \in Stages(s.workflow) : d.path \cap OldGroups(s, d.name) = {}

(* Every child Stage belongs to a live group, every counter to a Stage and a  *)
(* task that exist, every task and every group to a producer that exists.     *)
NothingStale(s) ==
  /\ \A d \in Stages(s.workflow) : d.path \subseteq {e.group : e \in s.groups}
  /\ \A e \in s.failures :
       e.key.review \in Names(s.workflow) /\ e.key.scope \in TaskIds(s) \cup {Nothing}
  /\ {e.task : e \in s.taskGroups} = TaskIds(s)
  /\ {e.source : e \in s.taskGroups \cup s.groups} \subseteq Names(s.workflow)

StateInv(s) ==
  /\ s \in RunState
  /\ GroupsNumbered(s)
  /\ RoutesOutward(s)
  /\ ProducersOutside(s)
  /\ \A d \in Stages(s.workflow) : d.review => d.targets = {}
  /\ s.completed => AllTasksCompleted(s)
=============================================================================
