---------------------------- MODULE FlowEngineProofs ----------------------------
(* Theorems about the flow engine and what it expands, for every Workflow,    *)
(* every child Workflow and every bound.  First DynamicExpansion: which routes *)
(* resolve, which groups and tasks hang where, and in which order Stages and   *)
(* tasks lie.  Then FlowEngine: types, routes, completion, what a superseded   *)
(* expansion leaves, what a resume is given and accepts, who completes a task, *)
(* and how often a Review may fail it.                                         *)
EXTENDS FlowEngine, FiniteSetTheorems, SequenceTheorems, TLAPS

(***************************************************************************)
(* DynamicExpansion: what its operators return.                              *)
(***************************************************************************)
--------------------------------------------------------------------------
(* Keep(s, I) enumerates the elements of s at I, each of them. *)

(* Nth(I, .) runs through a finite set of naturals. *)
LEMMA NthEnumerates ==
  ASSUME NEW I \in SUBSET Nat, IsFiniteSet(I)
  PROVE  /\ Cardinality(I) \in Nat
         /\ \A k \in 1 .. Cardinality(I) :
              Nth(I, k) \in I /\ Cardinality({j \in I : j <= Nth(I, k)}) = k
         /\ \A i \in I : \E k \in 1 .. Cardinality(I) : Nth(I, k) = i
<1> DEFINE n == Cardinality(I)
           upTo(i) == {j \in I : j <= i}
           rank == [i \in I |-> Cardinality(upTo(i))]
<1>1. n \in Nat
  BY FS_CardinalityType
<1>2. \A i \in I : rank[i] \in 1 .. n
  <2> SUFFICES ASSUME NEW i \in I PROVE Cardinality(upTo(i)) \in 1 .. n
    OBVIOUS
  <2>1. IsFiniteSet(upTo(i)) /\ Cardinality(upTo(i)) <= n
    BY FS_Subset
  <2>2. Cardinality(upTo(i)) \in Nat
    BY <2>1, FS_CardinalityType
  <2>3. upTo(i) # {}
    OBVIOUS
  <2>4. Cardinality(upTo(i)) # 0
    BY <2>1, <2>3, FS_EmptySet
  <2> QED
    BY <1>1, <2>1, <2>2, <2>4
<1>3. \A i, j \in I : i < j => rank[i] # rank[j]
  <2> SUFFICES ASSUME NEW i \in I, NEW j \in I, i < j
               PROVE  Cardinality(upTo(i)) # Cardinality(upTo(j))
    OBVIOUS
  <2>1. IsFiniteSet(upTo(j))
    BY FS_Subset
  <2>2. upTo(i) \in SUBSET upTo(j)
    <3> SUFFICES ASSUME NEW x \in I, x <= i PROVE x <= j
      OBVIOUS
    <3> QED
      OBVIOUS
  <2>3. j \in upTo(j) /\ j \notin upTo(i)
    OBVIOUS
  <2>4. Cardinality(upTo(j)) = Cardinality(upTo(i)) => upTo(j) = upTo(i)
    BY <2>1, <2>2, FS_Subset
  <2> QED
    BY <2>3, <2>4
<1>4. rank \in Injection(I, 1 .. n)
  <2>1. \A i, j \in I : i # j => i < j \/ j < i
    OBVIOUS
  <2>2. \A i, j \in I : rank[i] = rank[j] => i = j
    BY <1>3, <2>1
  <2>3. rank \in [I -> 1 .. n]
    BY <1>2
  <2> QED
    BY <2>2, <2>3 DEF Injection, IsInjective
<1>5. IsFiniteSet(1 .. n) /\ Cardinality(1 .. n) = n
  BY <1>1, FS_Interval
<1>6. rank \in Surjection(I, 1 .. n)
  <2> HIDE DEF n, rank
  <2> QED
    BY <1>4, <1>5, FS_Injection DEF n
<1>7. \A k \in 1 .. n : \E i \in I : Cardinality(upTo(i)) = k
  BY <1>6 DEF Surjection
<1>8. \A k \in 1 .. n : Nth(I, k) \in I /\ Cardinality(upTo(Nth(I, k))) = k
  BY <1>7 DEF Nth
<1>9. ASSUME NEW i \in I PROVE Nth(I, rank[i]) = i
  <2>1. Cardinality(upTo(i)) = rank[i]
    OBVIOUS
  <2>2. \A j \in I : Cardinality(upTo(j)) = rank[i] => j = i
    BY <1>4, <2>1 DEF Injection, IsInjective
  <2> HIDE DEF rank
  <2> QED
    BY <2>1, <2>2 DEF Nth
<1> QED
  BY <1>1, <1>2, <1>8, <1>9

(* Keep selects exactly the elements at the indexes of I. *)
LEMMA KeepEnumerates ==
  ASSUME NEW S, NEW s \in Seq(S), NEW I \in SUBSET DOMAIN s
  PROVE  /\ Keep(s, I) \in Seq(S)
         /\ Stages(Keep(s, I)) = {s[i] : i \in I}
<1>1. DOMAIN s = 1 .. Len(s) /\ Len(s) \in Nat
  BY LenProperties
<1>2. I \in SUBSET Nat /\ IsFiniteSet(I)
  <2>1. I \in SUBSET (1 .. Len(s))
    BY <1>1
  <2>2. IsFiniteSet(1 .. Len(s))
    BY <1>1, FS_Interval
  <2> QED
    BY <1>1, <2>1, <2>2, FS_Subset
<1>3. /\ Cardinality(I) \in Nat
      /\ \A k \in 1 .. Cardinality(I) : Nth(I, k) \in I
      /\ \A i \in I : \E k \in 1 .. Cardinality(I) : Nth(I, k) = i
  BY <1>2, NthEnumerates
<1>4. Keep(s, I) \in [1 .. Cardinality(I) -> S]
  BY <1>1, <1>3, ElementOfSeq DEF Keep
<1>5. Keep(s, I) \in Seq(S)
  BY <1>3, <1>4, SeqDef
<1>6. Stages(Keep(s, I)) = {s[i] : i \in I}
  BY <1>3 DEF Keep, Stages
<1> QED
  BY <1>5, <1>6

(* A set of naturals that is not empty has a least element. *)
LEMMA LeastExists ==
  ASSUME NEW n \in Nat, NEW I \in SUBSET (1 .. n), I # {}
  PROVE  \E i \in I : \A j \in I : i <= j
<1> DEFINE i == Nth(I, 1)
<1>1. IsFiniteSet(I)
  <2>1. IsFiniteSet(1 .. n)
    BY FS_Interval
  <2> QED
    BY <2>1, FS_Subset
<1>2. Cardinality(I) \in Nat /\ Cardinality(I) # 0
  BY <1>1, FS_CardinalityType, FS_EmptySet
<1>3. 1 \in 1 .. Cardinality(I)
  BY <1>2
<1>4. I \in SUBSET Nat
  OBVIOUS
<1>5. i \in I /\ Cardinality({j \in I : j <= i}) = 1
  BY <1>1, <1>3, <1>4, NthEnumerates
<1> HIDE DEF i
<1>6. IsFiniteSet({j \in I : j <= i})
  BY <1>1, FS_Subset
<1>7. PICK x : {j \in I : j <= i} = {x}
  BY <1>5, <1>6, FS_Singleton
<1>8. i \in {j \in I : j <= i}
  BY <1>4, <1>5
<1>9. ASSUME NEW j \in I, j < i PROVE FALSE
  <2>1. j \in {k \in I : k <= i}
    BY <1>4, <1>5, <1>9
  <2>2. j = x /\ i = x
    BY <1>7, <1>8, <2>1
  <2> QED
    BY <1>4, <1>9, <2>2
<1> QED
  BY <1>4, <1>5, <1>9

(* A name of the Workflow has a first Stage. *)
LEMMA FirstIndexExists ==
  ASSUME NEW S, NEW w \in Seq(S), NEW n \in Names(w)
  PROVE  FirstIndex(w, n) \in DOMAIN w /\ w[FirstIndex(w, n)].name = n
<1> DEFINE I == {i \in DOMAIN w : w[i].name = n}
<1>1. Len(w) \in Nat /\ DOMAIN w = 1 .. Len(w)
  BY LenProperties
<1>2. I # {} /\ I \in SUBSET (1 .. Len(w))
  BY <1>1 DEF Names
<1>3. \E i \in I : \A j \in I : i <= j
  BY <1>1, <1>2, LeastExists
<1>4. \E i \in DOMAIN w : w[i].name = n /\ \A j \in DOMAIN w : w[j].name = n => i <= j
  BY <1>3
<1> QED
  BY <1>4 DEF FirstIndex

--------------------------------------------------------------------------
(* Types of the operators. *)

(* What a name is made of. *)
LEMMA RefFields ==
  \A g, l : Ref(g, l).group = g /\ Ref(g, l).local = l /\ StageName(g, l).group = g
BY DEF Ref, StageName

LEMMA NothingFields == Nothing.group = 0 /\ Nothing.local = ""
BY RefFields DEF Nothing

(* Whatever a label is resolved to is a name. *)
LEMMA NamesAreNames ==
  /\ \A g \in Nat, l \in Label :
       Ref(g, l) \in Name /\ StageName(g, l) \in Name /\ Resolve(g, l) \in Name
  /\ Nothing \in Name /\ Keywords \subseteq Name
<1>1. \A g \in Nat, l \in Label : Ref(g, l) \in Name
  BY DEF Ref, Name
<1>2. \A g \in Nat, l \in Label : StageName(g, l) \in Name /\ Resolve(g, l) \in Name
  BY <1>1, LabelAssumption DEF Resolve, StageName
<1>3. Nothing \in Name /\ Keywords \subseteq Name
  <2>1. "" \in Label /\ "next" \in Label /\ "done" \in Label /\ "stop" \in Label
    BY LabelAssumption DEF Reserved
  <2>2. 0 \in Nat
    OBVIOUS
  <2> QED
    BY <1>1, <2>1, <2>2, Zenon DEF Nothing, Keywords, GoNext, GoDone, GoStop
<1> QED
  BY <1>1, <1>2, <1>3

(* An instantiated template is a Stage definition. *)
LEMMA InstantiateType ==
  ASSUME NEW t \in Template, NEW g \in Nat, NEW path \in SUBSET Nat, NEW task \in Name
  PROVE  Instantiate(t, g, path, task) \in Definition
<1>1. {StageName(g, l) : l \in t.targets} \in SUBSET Name
  BY NamesAreNames DEF Template
<1>2. t.local \in Label /\ t.pass \in Label /\ t.fail \in Label
  BY DEF Template
<1>3. /\ StageName(g, t.local) \in Name /\ Resolve(g, t.pass) \in Name
      /\ Resolve(g, t.fail) \in Name /\ Nothing \in Name
  BY <1>2, NamesAreNames
<1> QED
  BY <1>1, <1>3 DEF Instantiate, Template, Definition

(* The child Workflows a producer may return are well formed. *)
LEMMA FlowTypes ==
  ASSUME NEW f \in FlowId
  PROVE  /\ FlowTasks[f] \in Seq(Label)
         /\ FlowStages[f] \in Seq(Template)
         /\ FlowStages[f] # <<>>
BY FlowAssumption

(* The task a child is bound to has a name. *)
LEMMA BoundTaskType ==
  ASSUME NEW f \in FlowId, NEW g \in Nat, NEW l \in Label
  PROVE  BoundTask(f, g, l) \in Name
BY NamesAreNames DEF BoundTask

(* Leaving a group leads where the producer itself could go. *)
LEMMA EffectiveContinuationType ==
  ASSUME NEW d \in Definition, NEW n \in Keywords \cup RouteTargets(d)
  PROVE  /\ EffectiveContinuation(d, n) \in Keywords \cup RouteTargets(d)
         /\ EffectiveContinuation(d, n) \in Name
<1>1. RouteTargets(d) \subseteq Name /\ Keywords \subseteq Name
  BY NamesAreNames DEF RouteTargets, Definition
<1> QED
  BY <1>1 DEF EffectiveContinuation, RouteTargets

(* The children of an accepted child Workflow. *)
LEMMA ChildStagesProperties ==
  ASSUME NEW f \in FlowId, NEW g \in Nat, NEW path \in SUBSET Nat, NEW n \in Name
  PROVE  /\ ChildStages(f, g, path, n) \in Seq(Definition)
         /\ \A d \in Stages(ChildStages(f, g, path, n)) :
              /\ d.name.group = g
              /\ d.path = path
              /\ d.groupContinue = n
              /\ d.continue \in {n, Nothing}
              /\ d.review => d.targets = {}
              /\ \E i \in DOMAIN FlowStages[f] :
                   /\ d.name = StageName(g, FlowStages[f][i].local)
                   /\ d.pass = Resolve(g, FlowStages[f][i].pass)
                   /\ d.fail = Resolve(g, FlowStages[f][i].fail)
                   /\ d.targets = {StageName(g, l) : l \in FlowStages[f][i].targets}
         /\ \A i \in DOMAIN FlowStages[f] :
              StageName(g, FlowStages[f][i].local) \in Names(ChildStages(f, g, path, n))
<1> DEFINE m == Len(FlowStages[f])
           child(i) == [Instantiate(FlowStages[f][i], g, path,
                                    BoundTask(f, g, FlowStages[f][i].task)) EXCEPT
                          !.groupContinue = n,
                          !.continue = IF i = m THEN n ELSE Nothing]
<1>1. m \in Nat /\ DOMAIN FlowStages[f] = 1 .. m
  BY FlowTypes, LenProperties
<1>2. \A i \in 1 .. m : FlowStages[f][i] \in Template
  BY <1>1, FlowTypes, ElementOfSeq
<1>3. ChildStages(f, g, path, n) = [i \in 1 .. m |-> child(i)]
  BY DEF ChildStages
<1>4. ASSUME NEW i \in 1 .. m
      PROVE  /\ child(i) \in Definition
             /\ child(i).name = StageName(g, FlowStages[f][i].local)
             /\ child(i).path = path
             /\ child(i).groupContinue = n
             /\ child(i).continue \in {n, Nothing}
             /\ child(i).review = FlowStages[f][i].review
             /\ child(i).pass = Resolve(g, FlowStages[f][i].pass)
             /\ child(i).fail = Resolve(g, FlowStages[f][i].fail)
             /\ child(i).targets = {StageName(g, l) : l \in FlowStages[f][i].targets}
  <2> DEFINE t == FlowStages[f][i]
  <2>1. t \in Template /\ t.task \in Label
    BY <1>2 DEF Template
  <2>2. BoundTask(f, g, t.task) \in Name
    BY <2>1, BoundTaskType
  <2>3. Instantiate(t, g, path, BoundTask(f, g, t.task)) \in Definition
    BY <2>1, <2>2, InstantiateType
  <2>4. Nothing \in Name
    BY NamesAreNames
  <2> QED
    BY <2>3, <2>4, ZenonT(60) DEF Instantiate, Definition
<1> HIDE DEF child
<1>5. ChildStages(f, g, path, n) \in [1 .. m -> Definition]
  BY <1>3, <1>4
<1>6. ChildStages(f, g, path, n) \in Seq(Definition)
  BY <1>1, <1>5, SeqDef
<1>7. \A i \in 1 .. m : FlowStages[f][i].review => FlowStages[f][i].targets = {}
  BY <1>1, FlowAssumption
<1>8. Stages(ChildStages(f, g, path, n)) = {child(i) : i \in 1 .. m}
  BY <1>3 DEF Stages
<1>9. \A i \in 1 .. m : child(i).name \in Names(ChildStages(f, g, path, n))
  BY <1>3 DEF Names
<1>10. ASSUME NEW i \in 1 .. m
       PROVE  /\ child(i).name.group = g
              /\ child(i).review => child(i).targets = {}
  <2>1. child(i).name.group = g
    BY <1>4, RefFields
  <2>2. FlowStages[f][i].targets = {} => child(i).targets = {}
    BY <1>4
  <2> QED
    BY <1>4, <1>7, <2>1, <2>2
<1> QED
  BY <1>1, <1>4, <1>6, <1>8, <1>9, <1>10, SMTT(30)

--------------------------------------------------------------------------
(* Dropping, installing and inserting. *)

(* The fields of a RunState have their types. *)
LEMMA RunStateFields ==
  ASSUME NEW s \in RunState
  PROVE  /\ s.workflow \in Seq(Definition) /\ s.tasks \in Seq(Task)
         /\ s.current \in Nat /\ s.expansions \in Nat /\ s.cycle \in Nat
         /\ s.position \in Nat
         /\ s.groups \in SUBSET [source : Name, group : Nat]
         /\ s.taskGroups \in SUBSET [source : Name, task : Name]
         /\ s.sessions \in SUBSET Name
         /\ s.failures \in SUBSET [key : [review : Name, scope : Name], count : Nat]
BY DEF RunState

(* The Stages of a sequence are its elements, its names their names. *)
LEMMA StagesAreDefinitions ==
  ASSUME NEW S, NEW w \in Seq(S)
  PROVE  /\ Stages(w) \subseteq S
         /\ Names(w) = {d.name : d \in Stages(w)}
<1>1. \A i \in DOMAIN w : w[i] \in S
  BY LenProperties, ElementOfSeq
<1> QED
  BY <1>1 DEF Stages, Names

(* The fields of a Stage definition have their types. *)
LEMMA DefinitionFields ==
  ASSUME NEW d \in Definition
  PROVE  /\ d.name \in Name /\ d.name.group \in Nat
         /\ d.path \in SUBSET Nat
         /\ d.task \in Name
         /\ RouteTargets(d) \subseteq Name
<1>1. /\ d.name \in Name /\ d.path \in SUBSET Nat /\ d.task \in Name
      /\ d.pass \in Name /\ d.fail \in Name /\ d.targets \in SUBSET Name
      /\ d.groupContinue \in Name /\ d.continue \in Name
  BY DEF Definition
<1>2. d.name.group \in Nat
  BY <1>1 DEF Name
<1>3. RouteTargets(d) \subseteq Name
  BY <1>1 DEF RouteTargets
<1> QED
  BY <1>1, <1>2, <1>3

(* Dropping a superseded expansion keeps exactly the Stages outside its groups. *)
LEMMA DropPreviousProperties ==
  ASSUME NEW s \in RunState, NEW n \in Name
  PROVE  /\ DropPrevious(s, n) \in RunState
         /\ DropPrevious(s, n).expansions = s.expansions
         /\ DropPrevious(s, n).completed = s.completed
         /\ DropPrevious(s, n).groups \subseteq s.groups
         /\ Stages(DropPrevious(s, n).workflow) =
              {d \in Stages(s.workflow) : d.path \cap OldGroups(s, n) = {}}
<1> DEFINE old   == OldGroups(s, n)
           gone  == {i \in DOMAIN s.workflow : s.workflow[i].path \cap old # {}}
           names == {s.workflow[i].name : i \in gone}
           dead  == {e.task : e \in {e \in s.taskGroups : e.source \in names \cup {n}}}
           tasks == Keep(s.tasks, {i \in DOMAIN s.tasks : s.tasks[i].id \notin dead})
           kept  == Keep(s.workflow, DOMAIN s.workflow \ gone)
           current    == Least(s.current, Len(tasks))
           taskGroups == {e \in s.taskGroups : e.source \notin names \cup {n}}
           groups     == {e \in s.groups : e.source \notin names \cup {n}}
           sessions   == s.sessions \ names
           failures   == {e \in s.failures :
                            e.key.scope \notin dead /\ e.key.review \notin names}
<1>1. kept \in Seq(Definition)
      /\ Stages(kept) = {s.workflow[i] : i \in DOMAIN s.workflow \ gone}
  <2>1. DOMAIN s.workflow \ gone \in SUBSET DOMAIN s.workflow
    OBVIOUS
  <2> HIDE DEF gone
  <2> QED
    BY <2>1, RunStateFields, KeepEnumerates
<1>2. tasks \in Seq(Task) /\ Len(tasks) \in Nat
  <2> DEFINE I == {i \in DOMAIN s.tasks : s.tasks[i].id \notin dead}
  <2>1. I \in SUBSET DOMAIN s.tasks
    OBVIOUS
  <2>2. s.tasks \in Seq(Task)
    BY RunStateFields
  <2>3. tasks = Keep(s.tasks, I)
    OBVIOUS
  <2> HIDE DEF I, tasks
  <2>4. tasks \in Seq(Task)
    BY <2>1, <2>2, <2>3, KeepEnumerates
  <2> QED
    BY <2>4, LenProperties
<1>3. current \in Nat
  <2> HIDE DEF tasks
  <2> QED
    BY <1>2, RunStateFields DEF Least
<1>4. /\ taskGroups \in SUBSET [source : Name, task : Name]
      /\ groups \in SUBSET [source : Name, group : Nat] /\ groups \subseteq s.groups
      /\ sessions \in SUBSET Name
      /\ failures \in SUBSET [key : [review : Name, scope : Name], count : Nat]
  BY RunStateFields
<1>5. DropPrevious(s, n) =
        [s EXCEPT
           !.workflow = kept, !.tasks = tasks, !.current = current,
           !.taskGroups = taskGroups, !.groups = groups,
           !.sessions = sessions, !.failures = failures]
  BY DEF DropPrevious, Superseded
<1>6. {s.workflow[i] : i \in DOMAIN s.workflow \ gone} =
        {d \in Stages(s.workflow) : d.path \cap old = {}}
  BY DEF Stages
<1> HIDE DEF kept, tasks, names, dead, gone, old, current, taskGroups, groups,
             sessions, failures
<1>7. DropPrevious(s, n) \in RunState
  BY <1>1, <1>2, <1>3, <1>4, <1>5, ZenonT(60) DEF RunState
<1>8. /\ DropPrevious(s, n).workflow = kept
      /\ DropPrevious(s, n).groups = groups
  BY <1>5, Zenon DEF RunState
<1>9. /\ DropPrevious(s, n).expansions = s.expansions
      /\ DropPrevious(s, n).completed = s.completed
  BY <1>5, Zenon DEF RunState
<1> QED
  BY <1>1, <1>4, <1>6, <1>7, <1>8, <1>9 DEF old

(* Installing tasks leaves the Workflow and its groups alone. *)
LEMMA InstallTasksProperties ==
  ASSUME NEW s \in RunState, NEW n \in Name, NEW f \in FlowId, NEW g \in Nat
  PROVE  /\ InstallTasks(s, n, f, g) \in RunState
         /\ InstallTasks(s, n, f, g).expansions = s.expansions
         /\ InstallTasks(s, n, f, g).completed = s.completed
         /\ InstallTasks(s, n, f, g).groups = s.groups
         /\ InstallTasks(s, n, f, g).workflow = s.workflow
<1> DEFINE labels == FlowTasks[f]
           new    == [i \in 1 .. Len(labels) |->
                        [id |-> Ref(g, labels[i]), status |-> "pending"]]
           owners == {[source |-> n, task |-> Ref(g, labels[i])] : i \in DOMAIN labels}
<1>1. Len(labels) \in Nat /\ DOMAIN labels = 1 .. Len(labels)
  BY FlowTypes, LenProperties
<1>2. \A i \in 1 .. Len(labels) : Ref(g, labels[i]) \in Name
  BY FlowTypes, ElementOfSeq, NamesAreNames
<1>3. new \in Seq(Task)
  <2>1. \A i \in 1 .. Len(labels) :
          [id |-> Ref(g, labels[i]), status |-> "pending"] \in Task
    BY <1>2 DEF Task
  <2>2. new \in [1 .. Len(labels) -> Task]
    BY <2>1
  <2> HIDE DEF new, labels
  <2> QED
    BY <1>1, <2>2, SeqDef
<1>4. owners \in SUBSET [source : Name, task : Name]
  BY <1>1, <1>2
<1>5. s.tasks \o new \in Seq(Task)
  <2> HIDE DEF new
  <2> QED
    BY <1>3, RunStateFields, ConcatProperties
<1>6. s.taskGroups \cup owners \in SUBSET [source : Name, task : Name]
  BY <1>4, RunStateFields
<1> DEFINE tasks == s.tasks \o new
           taskGroups == s.taskGroups \cup owners
<1>7. InstallTasks(s, n, f, g) = [s EXCEPT !.tasks = tasks, !.taskGroups = taskGroups]
  BY DEF InstallTasks
<1>8. tasks \in Seq(Task) /\ taskGroups \in SUBSET [source : Name, task : Name]
  BY <1>5, <1>6
<1> HIDE DEF tasks, taskGroups
<1>9. InstallTasks(s, n, f, g) \in RunState
  BY <1>7, <1>8, Zenon DEF RunState
<1> QED
  BY <1>7, <1>9, Zenon DEF RunState

(* The Stages of a concatenation. *)
LEMMA ConcatStages ==
  ASSUME NEW S, NEW u \in Seq(S), NEW v \in Seq(S)
  PROVE  u \o v \in Seq(S) /\ Stages(u \o v) = Stages(u) \cup Stages(v)
<1> DEFINE w == u \o v
           m == Len(u)
           n == Len(v)
<1>1. /\ m \in Nat /\ n \in Nat /\ DOMAIN u = 1 .. m /\ DOMAIN v = 1 .. n
  BY LenProperties
<1>2. /\ w \in Seq(S) /\ Len(w) = m + n
      /\ \A i \in 1 .. m + n : w[i] = IF i <= m THEN u[i] ELSE v[i - m]
  BY ConcatProperties
<1>3. DOMAIN w = 1 .. m + n
  BY <1>2, LenProperties
<1> HIDE DEF w, m, n
<1>4. ASSUME NEW i \in 1 .. m + n PROVE w[i] \in Stages(u) \cup Stages(v)
  <2>1. CASE i <= m
    <3>1. i \in 1 .. m /\ w[i] = u[i]
      BY <1>1, <1>2, <2>1
    <3> QED
      BY <1>1, <3>1 DEF Stages
  <2>2. CASE i > m
    <3>1. i - m \in 1 .. n /\ w[i] = v[i - m]
      BY <1>1, <1>2, <2>2
    <3> QED
      BY <1>1, <3>1 DEF Stages
  <2> QED
    BY <1>1, <2>1, <2>2
<1>5. ASSUME NEW i \in 1 .. m PROVE u[i] \in Stages(w)
  <2>1. i \in 1 .. m + n /\ i <= m
    BY <1>1
  <2> QED
    BY <1>2, <1>3, <2>1 DEF Stages
<1>6. ASSUME NEW i \in 1 .. n PROVE v[i] \in Stages(w)
  <2>1. m + i \in 1 .. m + n /\ ~(m + i <= m) /\ (m + i) - m = i
    BY <1>1
  <2>2. w[m + i] = v[i]
    BY <1>2, <2>1
  <2> QED
    BY <1>3, <2>1, <2>2 DEF Stages
<1>7. Stages(w) = Stages(u) \cup Stages(v)
  BY <1>1, <1>3, <1>4, <1>5, <1>6 DEF Stages
<1> QED
  BY <1>2, <1>7 DEF w

(* Inserting q after position i of w adds the elements of q to those of w. *)
LEMMA InsertProperties ==
  ASSUME NEW S, NEW w \in Seq(S), NEW q \in Seq(S), NEW i \in DOMAIN w
  PROVE  /\ SubSeq(w, 1, i) \o q \o SubSeq(w, i + 1, Len(w)) \in Seq(S)
         /\ Stages(SubSeq(w, 1, i) \o q \o SubSeq(w, i + 1, Len(w)))
              = Stages(w) \cup Stages(q)
<1> DEFINE m == Len(w)
           a == SubSeq(w, 1, i)
           b == SubSeq(w, i + 1, m)
<1>1. m \in Nat /\ DOMAIN w = 1 .. m /\ i \in 1 .. m
  BY LenProperties
<1>2. \A k \in 1 .. m : w[k] \in S
  BY <1>1, ElementOfSeq
<1>3. a \in Seq(S) /\ Len(a) = i /\ \A k \in 1 .. i : a[k] = w[k]
  <2>1. \A k \in 1 .. i : w[k] \in S
    BY <1>1, <1>2
  <2>2. /\ SubSeq(w, 1, i) \in Seq(S)
        /\ Len(SubSeq(w, 1, i)) = IF 1 <= i THEN i - 1 + 1 ELSE 0
        /\ \A k \in 1 .. i - 1 + 1 : SubSeq(w, 1, i)[k] = w[1 + k - 1]
    BY <1>1, <2>1, SubSeqProperties
  <2> QED
    BY <1>1, <2>2
<1>4. b \in Seq(S) /\ Len(b) = m - i /\ \A k \in 1 .. m - i : b[k] = w[i + k]
  <2>1. \A k \in i + 1 .. m : w[k] \in S
    BY <1>1, <1>2
  <2>2. /\ SubSeq(w, i + 1, m) \in Seq(S)
        /\ Len(SubSeq(w, i + 1, m)) = IF i + 1 <= m THEN m - (i + 1) + 1 ELSE 0
        /\ \A k \in 1 .. m - (i + 1) + 1 : SubSeq(w, i + 1, m)[k] = w[(i + 1) + k - 1]
    BY <1>1, <2>1, SubSeqProperties
  <2> QED
    BY <1>1, <2>2, SMTT(30)
<1>5. Stages(w) = Stages(a) \cup Stages(b)
  <2>1. DOMAIN a = 1 .. i /\ DOMAIN b = 1 .. m - i
    BY <1>3, <1>4, LenProperties
  <2>2. ASSUME NEW k \in 1 .. m PROVE w[k] \in Stages(a) \cup Stages(b)
    <3>1. CASE k <= i
      BY <1>1, <1>3, <2>1, <3>1 DEF Stages
    <3>2. CASE k > i
      <4>1. k - i \in 1 .. m - i /\ i + (k - i) = k
        BY <1>1, <3>2
      <4>2. b[k - i] = w[k]
        BY <1>4, <4>1
      <4> QED
        BY <2>1, <4>1, <4>2 DEF Stages
    <3> QED
      BY <1>1, <3>1, <3>2
  <2>3. Stages(a) \subseteq Stages(w)
    BY <1>1, <1>3, <2>1 DEF Stages
  <2>4. \A k \in 1 .. m - i : i + k \in 1 .. m
    BY <1>1
  <2>5. Stages(b) \subseteq Stages(w)
    BY <1>1, <1>4, <2>1, <2>4 DEF Stages
  <2> QED
    BY <1>1, <2>2, <2>3, <2>5 DEF Stages
<1> HIDE DEF a, b
<1>6. \A u, v \in Seq(S) : u \o v \in Seq(S) /\ Stages(u \o v) = Stages(u) \cup Stages(v)
  BY ConcatStages
<1>7. a \o q \in Seq(S) /\ Stages(a \o q) = Stages(a) \cup Stages(q)
  BY <1>3, <1>6
<1>8. /\ a \o q \o b \in Seq(S)
      /\ Stages(a \o q \o b) = Stages(a) \cup Stages(q) \cup Stages(b)
  BY <1>4, <1>6, <1>7
<1> QED
  BY <1>5, <1>8 DEF a, b

(* StateInv looks at the Workflow, the groups and the counter only. *)
LEMMA StateInvFrame ==
  ASSUME NEW s, NEW t, StateInv(s), t \in RunState,
         t.workflow = s.workflow, t.groups \subseteq s.groups, t.expansions = s.expansions,
         t.completed => AllTasksCompleted(t)
  PROVE  StateInv(t)
<1>1. GroupsNumbered(t)
  BY DEF StateInv, GroupsNumbered
<1>2. RoutesOutward(t)
  BY DEF StateInv, RoutesOutward
<1>3. ProducersOutside(t)
  BY DEF StateInv, ProducersOutside, OldGroups
<1> QED
  BY <1>1, <1>2, <1>3 DEF StateInv

(* An expansion keeps every route inside the Workflow: what it drops was      *)
(* referred to only from inside, and what it adds refers to itself or to the  *)
(* Stages its producer refers to.                                             *)
LEMMA ExpandPreservesStateInv ==
  ASSUME NEW s, StateInv(s), ~s.completed,
         NEW source \in Stages(s.workflow),
         NEW f \in FlowId, FlowAccepted(f),
         NEW n \in Keywords \cup RouteTargets(source)
  PROVE  StateInv(Expand(s, source, f, n)) /\ ~Expand(s, source, f, n).completed
<1> DEFINE g        == s.expansions + 1
           dropped  == DropPrevious(s, source.name)
           base     == InstallTasks(dropped, source.name, f, g)
           i        == FirstIndex(base.workflow, source.name)
           path     == source.path \cup {g}
           c        == EffectiveContinuation(source, n)
           children == ChildStages(f, g, path, c)
           workflow == SubSeq(base.workflow, 1, i) \o children
                         \o SubSeq(base.workflow, i + 1, Len(base.workflow))
           groups   == base.groups \cup {[source |-> source.name, group |-> g]}
           t        == Expand(s, source, f, n)
<1>1. s \in RunState /\ s.expansions \in Nat /\ g \in Nat /\ g > s.expansions
      /\ s.workflow \in Seq(Definition)
  BY RunStateFields DEF StateInv
<1>2. source \in Definition /\ source.name \in Name /\ source.name.group \in Nat
      /\ source.path \in SUBSET Nat
  BY <1>1, StagesAreDefinitions, DefinitionFields
<1>3. /\ dropped \in RunState /\ dropped.expansions = s.expansions
      /\ dropped.completed = s.completed /\ dropped.groups \subseteq s.groups
      /\ Stages(dropped.workflow) =
           {d \in Stages(s.workflow) : d.path \cap OldGroups(s, source.name) = {}}
  BY <1>1, <1>2, DropPreviousProperties
<1> HIDE DEF dropped
<1>4. /\ base \in RunState /\ base.expansions = s.expansions
      /\ base.completed = s.completed /\ base.groups \subseteq s.groups
      /\ base.workflow = dropped.workflow
  <2>1. /\ base \in RunState /\ base.expansions = dropped.expansions
        /\ base.completed = dropped.completed /\ base.groups = dropped.groups
        /\ base.workflow = dropped.workflow
    BY <1>1, <1>2, <1>3, InstallTasksProperties
  <2> QED
    BY <1>3, <2>1
<1> HIDE DEF base, g
<1>5. /\ base.workflow \in Seq(Definition)
      /\ Stages(base.workflow) =
           {d \in Stages(s.workflow) : d.path \cap OldGroups(s, source.name) = {}}
  BY <1>3, <1>4, RunStateFields
<1>6. source \in Stages(base.workflow)
  BY <1>5 DEF StateInv, ProducersOutside
<1>7. i \in DOMAIN base.workflow
  <2>1. source.name \in Names(base.workflow)
    BY <1>6 DEF Stages, Names
  <2> QED
    BY <1>5, <2>1, FirstIndexExists
<1>8. c \in Keywords \cup RouteTargets(source) /\ c \in Name
  BY <1>2, EffectiveContinuationType
<1>9. path \in SUBSET Nat
  BY <1>1, <1>2
<1> HIDE DEF i, c, path
<1>10. /\ children \in Seq(Definition)
       /\ \A d \in Stages(children) :
            /\ d.name.group = g
            /\ d.path = path
            /\ d.groupContinue = c
            /\ d.continue \in {c, Nothing}
            /\ d.review => d.targets = {}
            /\ \E k \in DOMAIN FlowStages[f] :
                 /\ d.name = StageName(g, FlowStages[f][k].local)
                 /\ d.pass = Resolve(g, FlowStages[f][k].pass)
                 /\ d.fail = Resolve(g, FlowStages[f][k].fail)
                 /\ d.targets = {StageName(g, l) : l \in FlowStages[f][k].targets}
       /\ \A k \in DOMAIN FlowStages[f] : StageName(g, FlowStages[f][k].local) \in Names(children)
  BY <1>1, <1>8, <1>9, ChildStagesProperties
<1> HIDE DEF children
<1>11. /\ workflow \in Seq(Definition)
       /\ Stages(workflow) = Stages(base.workflow) \cup Stages(children)
  BY <1>5, <1>7, <1>10, InsertProperties
<1>12. groups \in SUBSET [source : Name, group : Nat]
  BY <1>1, <1>2, <1>4, RunStateFields
<1>13. t = [base EXCEPT !.expansions = g, !.groups = groups, !.workflow = workflow]
  BY DEF Expand, dropped, base, g, i, c, path, children
<1> HIDE DEF workflow, groups, t
<1>14. t \in RunState
  BY <1>1, <1>4, <1>11, <1>12, <1>13, Zenon DEF RunState
<1>15. /\ t.expansions = g /\ t.groups = groups /\ t.workflow = workflow
       /\ t.completed = s.completed
  BY <1>4, <1>13, Zenon DEF RunState
<1>16. \A d \in Stages(base.workflow) : d \in Stages(s.workflow)
  BY <1>5
<1>17. GroupsNumbered(t)
  <2>1. ASSUME NEW d \in Stages(s.workflow)
        PROVE  d.name.group \in Nat /\ d.name.group <= s.expansions
               /\ d.path \subseteq 1 .. s.expansions
    BY <1>1, StagesAreDefinitions, DefinitionFields DEF StateInv, GroupsNumbered
  <2>2. 1 .. s.expansions \subseteq 1 .. g /\ g \in 1 .. g
    BY <1>1
  <2>3. ASSUME NEW d \in Stages(workflow)
        PROVE  d.name.group <= g /\ d.path \subseteq 1 .. g
    <3>1. CASE d \in Stages(base.workflow)
      BY <1>1, <1>16, <2>1, <2>2, <3>1
    <3>2. CASE d \in Stages(children)
      BY <1>1, <1>10, <2>1, <2>2, <3>2 DEF path
    <3> QED
      BY <1>11, <3>1, <3>2
  <2>4. ASSUME NEW e \in groups PROVE e.source.group <= g
    <3>1. CASE e \in s.groups
      <4>1. e.source.group \in Nat
        BY <1>1, <3>1, RunStateFields DEF Name
      <4> QED
        BY <1>1, <3>1, <4>1 DEF StateInv, GroupsNumbered
    <3>2. CASE e = [source |-> source.name, group |-> g]
      BY <1>1, <2>1, <3>2
    <3> QED
      BY <1>4, <3>1, <3>2 DEF groups
  <2> QED
    BY <1>15, <2>3, <2>4 DEF GroupsNumbered
<1>18. ProducersOutside(t)
  <2> SUFFICES ASSUME NEW d \in Stages(workflow), NEW e \in groups, e.source = d.name
               PROVE  e.group \notin d.path
    BY <1>15 DEF ProducersOutside, OldGroups
  <2>1. CASE d \in Stages(base.workflow)
    <3>1. d \in Stages(s.workflow)
      BY <1>16, <2>1
    <3>2. CASE e \in s.groups
      BY <3>1, <3>2 DEF StateInv, ProducersOutside, OldGroups
    <3>3. CASE e.group = g
      BY <1>1, <3>1, <3>3 DEF StateInv, GroupsNumbered
    <3> QED
      BY <1>4, <3>2, <3>3 DEF groups
  <2>2. CASE d \in Stages(children)
    <3>1. e.source.group <= s.expansions
      <4>1. CASE e \in s.groups
        BY <4>1 DEF StateInv, GroupsNumbered
      <4>2. CASE e = [source |-> source.name, group |-> g]
        BY <4>2 DEF StateInv, GroupsNumbered
      <4> QED
        BY <1>4, <4>1, <4>2 DEF groups
    <3>2. e.source.group = g
      BY <1>10, <2>2
    <3> QED
      BY <1>1, <3>1, <3>2
  <2> QED
    BY <1>11, <2>1, <2>2
<1>19. RoutesOutward(t)
  <2>1. \A d \in Stages(workflow) : d.name \in Names(workflow)
    BY <1>11, StagesAreDefinitions
  <2>2. ASSUME NEW d \in Stages(s.workflow), NEW m \in RouteTargets(d) \ Keywords
        PROVE  \E e \in Stages(s.workflow) : e.name = m
    BY <1>1, StagesAreDefinitions DEF StateInv, RoutesOutward
  <2>3. ASSUME NEW d \in Stages(base.workflow)
        PROVE  RouteTargets(d) \subseteq Keywords \cup Names(workflow)
    <3> SUFFICES ASSUME NEW m \in RouteTargets(d) \ Keywords PROVE m \in Names(workflow)
      OBVIOUS
    <3>1. PICK e \in Stages(s.workflow) : e.name = m
      BY <1>16, <2>2
    <3>2. e.path \subseteq d.path
      BY <1>16, <3>1 DEF StateInv, RoutesOutward
    <3>3. e \in Stages(base.workflow)
      BY <1>5, <3>2
    <3> QED
      BY <1>11, <2>1, <3>1, <3>3
  <2>4. \A e \in Stages(children) : \A d \in Stages(s.workflow) : e.name # d.name
    BY <1>1, <1>10 DEF StateInv, GroupsNumbered
  <2>5. ASSUME NEW d \in Stages(base.workflow), NEW e \in Stages(workflow),
               e.name \in RouteTargets(d) \ Keywords
        PROVE  e.path \subseteq d.path
    <3>1. e \notin Stages(children)
      BY <1>16, <2>2, <2>4, <2>5
    <3>2. e \in Stages(s.workflow)
      BY <1>11, <1>16, <3>1
    <3> QED
      BY <1>16, <2>5, <3>2 DEF StateInv, RoutesOutward
  <2>6. c \in Keywords \cup Names(workflow)
    BY <1>6, <1>8, <2>3
  <2>7. ASSUME NEW d \in Stages(children), NEW m \in RouteTargets(d) \ Keywords
        PROVE  m = c \/ m \in Names(children)
    <3>1. PICK k \in DOMAIN FlowStages[f] :
            /\ d.name = StageName(g, FlowStages[f][k].local)
            /\ d.pass = Resolve(g, FlowStages[f][k].pass)
            /\ d.fail = Resolve(g, FlowStages[f][k].fail)
            /\ d.targets = {StageName(g, l) : l \in FlowStages[f][k].targets}
      BY <1>10
    <3>2. \A l : l \in Reserved => Resolve(g, l) \in Keywords
      BY DEF Reserved, Resolve, Keywords, GoNext, GoDone, GoStop
    <3>3. \A l : l \notin Reserved => Resolve(g, l) = StageName(g, l)
      BY DEF Resolve
    <3>4. /\ {FlowStages[f][k].pass, FlowStages[f][k].fail}
               \subseteq {FlowStages[f][j].local : j \in DOMAIN FlowStages[f]} \cup Reserved
          /\ FlowStages[f][k].targets
               \subseteq {FlowStages[f][j].local : j \in DOMAIN FlowStages[f]}
      BY DEF FlowAccepted, RoutesValid
    <3>5. \A l \in {FlowStages[f][j].local : j \in DOMAIN FlowStages[f]} :
            StageName(g, l) \in Names(children)
      BY <1>10
    <3>6. {d.pass, d.fail} \cup d.targets \subseteq Keywords \cup Names(children)
      BY <3>1, <3>2, <3>3, <3>4, <3>5
    <3>7. d.groupContinue = c /\ d.continue \in {c, Nothing}
      BY <1>10
    <3> QED
      BY <3>6, <3>7 DEF RouteTargets
  <2>8. Names(children) \subseteq Names(workflow)
    BY <1>10, <1>11, StagesAreDefinitions
  <2>9. ASSUME NEW d \in Stages(children)
        PROVE  RouteTargets(d) \subseteq Keywords \cup Names(workflow)
    BY <2>6, <2>7, <2>8
  <2>10. ASSUME NEW d \in Stages(children), NEW e \in Stages(workflow),
                e.name \in RouteTargets(d) \ Keywords
         PROVE  e.path \subseteq d.path
    <3>1. CASE e \in Stages(children)
      BY <1>10, <3>1
    <3>2. CASE e \in Stages(base.workflow)
      <4>1. \A x \in Stages(children) : x.name # e.name
        BY <1>16, <2>4, <3>2
      <4>2. e.name \notin Names(children)
        BY <1>10, <4>1, StagesAreDefinitions
      <4>3. e.name \in RouteTargets(source) \ Keywords
        BY <1>8, <2>7, <2>10, <4>2
      <4>4. e.path \subseteq source.path
        BY <1>6, <1>16, <3>2, <4>3 DEF StateInv, RoutesOutward
      <4> QED
        BY <1>10, <4>4 DEF path
    <3> QED
      BY <1>11, <3>1, <3>2
  <2> QED
    BY <1>11, <1>15, <2>3, <2>5, <2>9, <2>10 DEF RoutesOutward
<1>20. \A d \in Stages(t.workflow) : d.review => d.targets = {}
  BY <1>10, <1>11, <1>15, <1>16 DEF StateInv
<1> QED
  BY <1>14, <1>15, <1>17, <1>18, <1>19, <1>20 DEF StateInv, t

--------------------------------------------------------------------------
(* What is left of a superseded expansion: nothing.                          *)

(* Groups are the nodes of a tree: Stages of one group have one path, and a   *)
(* producer's path is part of the path of every Stage its group holds.        *)
Tree(s) ==
  /\ \A d, e \in Stages(s.workflow) : d.name.group = e.name.group => d.path = e.path
  /\ \A e \in s.groups : e.group \in 1 .. s.expansions
  /\ \A e \in s.groups : \A d, p \in Stages(s.workflow) :
       e.group \in d.path /\ p.name = e.source => p.path \subseteq d.path

(* A task has one producer, and its number is that of an expansion. *)
OneOwner(s) ==
  /\ \A e \in s.taskGroups : e.task.group <= s.expansions
  /\ \A e, o \in s.taskGroups : e.task = o.task => e.source = o.source

GoneNames(s, n) == {d.name : d \in {d \in Stages(s.workflow) : d.path \cap OldGroups(s, n) # {}}}
DeadTasks(s, n) == {e.task : e \in {e \in s.taskGroups : e.source \in GoneNames(s, n) \cup {n}}}

(* What dropping a superseded expansion does to the other fields. *)
LEMMA DropPreviousDetails ==
  ASSUME NEW s \in RunState, NEW n \in Name
  PROVE  /\ DropPrevious(s, n).groups = {e \in s.groups : e.source \notin GoneNames(s, n) \cup {n}}
         /\ DropPrevious(s, n).taskGroups =
              {e \in s.taskGroups : e.source \notin GoneNames(s, n) \cup {n}}
         /\ DropPrevious(s, n).failures =
              {e \in s.failures : /\ e.key.scope \notin DeadTasks(s, n)
                                  /\ e.key.review \notin GoneNames(s, n)}
         /\ TaskIds(DropPrevious(s, n)) = TaskIds(s) \ DeadTasks(s, n)
         /\ DropPrevious(s, n).previous = s.previous
<1> DEFINE names == GoneNames(s, n)
           dead  == DeadTasks(s, n)
           I     == {i \in DOMAIN s.tasks : s.tasks[i].id \notin dead}
           tasks == Keep(s.tasks, I)
           kept  == Keep(s.workflow, DOMAIN s.workflow \ Superseded(s, n))
           current    == Least(s.current, Len(tasks))
           taskGroups == {e \in s.taskGroups : e.source \notin names \cup {n}}
           groups     == {e \in s.groups : e.source \notin names \cup {n}}
           sessions   == s.sessions \ names
           failures   == {e \in s.failures : e.key.scope \notin dead /\ e.key.review \notin names}
<1>1. {s.workflow[i].name : i \in Superseded(s, n)} = names
  BY DEF Superseded, GoneNames, Stages
<1>2. DropPrevious(s, n) =
        [s EXCEPT
           !.workflow = kept, !.tasks = tasks, !.current = current,
           !.taskGroups = taskGroups, !.groups = groups,
           !.sessions = sessions, !.failures = failures]
  BY <1>1 DEF DropPrevious, DeadTasks
<1>3. /\ tasks \in Seq(Task)
      /\ Stages(tasks) = {s.tasks[i] : i \in I}
  <2>1. I \in SUBSET DOMAIN s.tasks /\ s.tasks \in Seq(Task)
    BY RunStateFields
  <2> HIDE DEF I
  <2> QED
    BY <2>1, KeepEnumerates
<1>4. {tasks[i].id : i \in DOMAIN tasks} = {x.id : x \in Stages(tasks)}
  BY DEF Stages
<1>5. {tasks[i].id : i \in DOMAIN tasks} = {s.tasks[i].id : i \in I}
  <2> HIDE DEF tasks, I
  <2> QED
    BY <1>3, <1>4
<1>6. {s.tasks[i].id : i \in I} = TaskIds(s) \ dead
  BY DEF TaskIds
<1> HIDE DEF names, dead, tasks, kept, current, taskGroups, groups, sessions, failures, I
<1>7. /\ DropPrevious(s, n).groups = groups
      /\ DropPrevious(s, n).taskGroups = taskGroups
      /\ DropPrevious(s, n).failures = failures
      /\ DropPrevious(s, n).tasks = tasks
      /\ DropPrevious(s, n).previous = s.previous
  BY <1>2, Zenon DEF RunState
<1>8. TaskIds(DropPrevious(s, n)) = TaskIds(s) \ dead
  BY <1>5, <1>6, <1>7 DEF TaskIds
<1> QED
  BY <1>7, <1>8 DEF groups, taskGroups, failures, names, dead

(* It leaves nothing stale behind: what belongs to a Stage that stays, or to a *)
(* group around one, is not dropped.                                          *)
LEMMA DropPreviousTidy ==
  ASSUME NEW s, StateInv(s), Tree(s), OneOwner(s), NothingStale(s),
         NEW source \in Stages(s.workflow)
  PROVE  NothingStale(DropPrevious(s, source.name))
<1> DEFINE n    == source.name
           D    == DropPrevious(s, n)
           old  == OldGroups(s, n)
           gone == GoneNames(s, n)
           dead == DeadTasks(s, n)
           kept == {d \in Stages(s.workflow) : d.path \cap old = {}}
<1>1. s \in RunState /\ n \in Name
  BY StagesAreDefinitions, DefinitionFields, RunStateFields DEF StateInv
<1>2. /\ D \in RunState /\ Stages(D.workflow) = kept
      /\ D.groups = {e \in s.groups : e.source \notin gone \cup {n}}
      /\ D.taskGroups = {e \in s.taskGroups : e.source \notin gone \cup {n}}
      /\ D.failures = {e \in s.failures : e.key.scope \notin dead /\ e.key.review \notin gone}
      /\ TaskIds(D) = TaskIds(s) \ dead
  BY <1>1, DropPreviousProperties, DropPreviousDetails, ZenonT(60)
<1>3. /\ Names(s.workflow) = {d.name : d \in Stages(s.workflow)}
      /\ Names(D.workflow) = {d.name : d \in kept}
  BY <1>1, <1>2, RunStateFields, StagesAreDefinitions
<1>4. Names(s.workflow) \ gone \subseteq Names(D.workflow)
  BY <1>3 DEF GoneNames
<1> HIDE DEF D
<1>5. ASSUME NEW d \in kept, NEW g \in d.path PROVE \E e \in D.groups : e.group = g
  <2>1. PICK e \in s.groups : e.group = g
    BY <1>5 DEF NothingStale
  <2>2. e.source # n
    BY <1>5, <2>1 DEF OldGroups
  <2>3. e.source \notin gone
    <3> SUFFICES ASSUME NEW p \in Stages(s.workflow), p.path \cap old # {}, p.name = e.source
                 PROVE  FALSE
      BY DEF GoneNames
    <3>1. p.path \subseteq d.path
      BY <1>5, <2>1 DEF Tree
    <3> QED
      BY <1>5, <3>1
  <2> QED
    BY <1>2, <2>1, <2>2, <2>3
<1>6. ASSUME NEW e \in D.failures
      PROVE  e.key.review \in Names(D.workflow) /\ e.key.scope \in TaskIds(D) \cup {Nothing}
  BY <1>2, <1>4 DEF NothingStale
<1>7. {e.task : e \in D.taskGroups} = TaskIds(D)
  <2>1. ASSUME NEW e \in D.taskGroups PROVE e.task \in TaskIds(D)
    <3>1. e \in s.taskGroups /\ e.source \notin gone \cup {n} /\ e.task \in TaskIds(s)
      BY <1>2 DEF NothingStale
    <3>2. e.task \notin dead
      BY <3>1 DEF OneOwner, DeadTasks
    <3> QED
      BY <1>2, <3>1, <3>2
  <2>2. ASSUME NEW x \in TaskIds(D) PROVE \E e \in D.taskGroups : e.task = x
    <3>1. PICK e \in s.taskGroups : e.task = x
      BY <1>2 DEF NothingStale
    <3>2. e.source \notin gone \cup {n}
      BY <1>2, <3>1 DEF DeadTasks
    <3> QED
      BY <1>2, <3>1, <3>2
  <2> QED
    BY <2>1, <2>2
<1>8. {e.source : e \in D.taskGroups \cup D.groups} \subseteq Names(D.workflow)
  BY <1>2, <1>4 DEF NothingStale
<1>9. \A d \in Stages(D.workflow) : d.path \subseteq {e.group : e \in D.groups}
  BY <1>2, <1>5
<1> QED
  BY <1>6, <1>7, <1>8, <1>9 DEF NothingStale, D

NewTasks(f, g) == {Ref(g, FlowTasks[f][i]) : i \in DOMAIN FlowTasks[f]}
Owned(n, tasks) == {[source |-> n, task |-> x] : x \in tasks}

(* Installing tasks adds them, each with its producer. *)
LEMMA InstallTasksDetails ==
  ASSUME NEW s \in RunState, NEW n \in Name, NEW f \in FlowId, NEW g \in Nat
  PROVE  /\ TaskIds(InstallTasks(s, n, f, g)) = TaskIds(s) \cup NewTasks(f, g)
         /\ InstallTasks(s, n, f, g).taskGroups = s.taskGroups \cup Owned(n, NewTasks(f, g))
         /\ InstallTasks(s, n, f, g).failures = s.failures
         /\ InstallTasks(s, n, f, g).previous = s.previous
<1> DEFINE labels == FlowTasks[f]
           new    == [i \in 1 .. Len(labels) |->
                        [id |-> Ref(g, labels[i]), status |-> "pending"]]
           owners == {[source |-> n, task |-> Ref(g, labels[i])] : i \in DOMAIN labels}
           names  == {Ref(g, labels[i]) : i \in DOMAIN labels}
           tasks  == s.tasks \o new
           taskGroups == s.taskGroups \cup owners
<1>1. Len(labels) \in Nat /\ DOMAIN labels = 1 .. Len(labels)
  BY FlowTypes, LenProperties
<1>2. \A i \in 1 .. Len(labels) : Ref(g, labels[i]) \in Name
  BY FlowTypes, ElementOfSeq, NamesAreNames
<1>3. new \in Seq(Task)
  <2>1. \A i \in 1 .. Len(labels) :
          [id |-> Ref(g, labels[i]), status |-> "pending"] \in Task
    BY <1>2 DEF Task
  <2>2. new \in [1 .. Len(labels) -> Task]
    BY <2>1
  <2> HIDE DEF new, labels
  <2> QED
    BY <1>1, <2>2, SeqDef
<1>4. {x.id : x \in Stages(new)} = names
  <2>1. DOMAIN new = 1 .. Len(labels) /\ \A i \in 1 .. Len(labels) : new[i].id = Ref(g, labels[i])
    OBVIOUS
  <2> HIDE DEF new, labels
  <2> QED
    BY <1>1, <2>1 DEF Stages
<1>5. Stages(tasks) = Stages(s.tasks) \cup Stages(new)
  <2> HIDE DEF new
  <2> QED
    BY <1>3, RunStateFields, ConcatStages
<1>6. {tasks[i].id : i \in DOMAIN tasks} = {x.id : x \in Stages(tasks)}
  BY DEF Stages
<1>7. TaskIds(s) = {x.id : x \in Stages(s.tasks)}
  BY DEF Stages, TaskIds
<1>8. InstallTasks(s, n, f, g) = [s EXCEPT !.tasks = tasks, !.taskGroups = taskGroups]
  BY DEF InstallTasks
<1>9. owners = Owned(n, names) /\ names = NewTasks(f, g)
  BY DEF Owned, NewTasks
<1> HIDE DEF new, tasks, taskGroups, owners, names, labels
<1>10. /\ InstallTasks(s, n, f, g).tasks = tasks
       /\ InstallTasks(s, n, f, g).taskGroups = taskGroups
       /\ InstallTasks(s, n, f, g).failures = s.failures
       /\ InstallTasks(s, n, f, g).previous = s.previous
  BY <1>8, Zenon DEF RunState
<1>11. TaskIds(InstallTasks(s, n, f, g)) = TaskIds(s) \cup names
  <2>1. TaskIds(InstallTasks(s, n, f, g)) = {x.id : x \in Stages(tasks)}
    BY <1>6, <1>10 DEF TaskIds
  <2>2. {x.id : x \in Stages(tasks)}
          = {x.id : x \in Stages(s.tasks)} \cup {x.id : x \in Stages(new)}
    BY <1>5
  <2> QED
    BY <1>4, <1>7, <2>1, <2>2
<1> QED
  BY <1>9, <1>10, <1>11 DEF taskGroups

(* An expansion leaves nothing stale behind: its group is new, its producer   *)
(* stays, and its children are nested in the groups around the producer.      *)
LEMMA ExpandTidy ==
  ASSUME NEW s, StateInv(s), Tree(s), OneOwner(s), NothingStale(s),
         NEW source \in Stages(s.workflow), NEW f \in FlowId,
         NEW n \in Keywords \cup RouteTargets(source)
  PROVE  LET t == Expand(s, source, f, n) IN Tree(t) /\ OneOwner(t) /\ NothingStale(t)
<1> DEFINE g        == s.expansions + 1
           dropped  == DropPrevious(s, source.name)
           base     == InstallTasks(dropped, source.name, f, g)
           i        == FirstIndex(base.workflow, source.name)
           path     == source.path \cup {g}
           c        == EffectiveContinuation(source, n)
           children == ChildStages(f, g, path, c)
           workflow == SubSeq(base.workflow, 1, i) \o children
                         \o SubSeq(base.workflow, i + 1, Len(base.workflow))
           groups   == base.groups \cup {[source |-> source.name, group |-> g]}
           t        == Expand(s, source, f, n)
           new      == NewTasks(f, g)
<1>1. s \in RunState /\ s.expansions \in Nat /\ g \in Nat /\ g > s.expansions
      /\ s.workflow \in Seq(Definition)
  BY RunStateFields DEF StateInv
<1>2. source \in Definition /\ source.name \in Name /\ source.name.group \in Nat
      /\ source.path \in SUBSET Nat
  BY <1>1, StagesAreDefinitions, DefinitionFields
<1>3. /\ dropped \in RunState /\ dropped.groups \subseteq s.groups
      /\ dropped.expansions = s.expansions
      /\ dropped.taskGroups \subseteq s.taskGroups
      /\ Stages(dropped.workflow) =
           {d \in Stages(s.workflow) : d.path \cap OldGroups(s, source.name) = {}}
  BY <1>1, <1>2, DropPreviousProperties, DropPreviousDetails
<1>4. NothingStale(dropped)
  BY DropPreviousTidy
<1> HIDE DEF dropped
<1>5. /\ base \in RunState /\ base.groups = dropped.groups
      /\ base.workflow = dropped.workflow /\ base.failures = dropped.failures
      /\ TaskIds(base) = TaskIds(dropped) \cup new
      /\ base.taskGroups = dropped.taskGroups \cup Owned(source.name, new)
  BY <1>1, <1>2, <1>3, InstallTasksProperties, InstallTasksDetails
<1> HIDE DEF base, g
<1>6. /\ base.workflow \in Seq(Definition)
      /\ \A d \in Stages(base.workflow) : d \in Stages(s.workflow)
      /\ source \in Stages(base.workflow)
  BY <1>3, <1>5, RunStateFields DEF StateInv, ProducersOutside
<1>7. i \in DOMAIN base.workflow
  <2>1. source.name \in Names(base.workflow)
    BY <1>6 DEF Stages, Names
  <2> QED
    BY <1>6, <2>1, FirstIndexExists
<1>8. c \in Name /\ path \in SUBSET Nat
  BY <1>1, <1>2, EffectiveContinuationType
<1> HIDE DEF i, c, path, new
<1>9. /\ children \in Seq(Definition)
      /\ \A d \in Stages(children) : d.name.group = g /\ d.path = path
  <2>1. /\ children \in Seq(Definition)
        /\ \A d \in Stages(children) :
             /\ d.name.group = g
             /\ d.path = path
             /\ d.groupContinue = c
             /\ d.continue \in {c, Nothing}
             /\ d.review => d.targets = {}
             /\ \E k \in DOMAIN FlowStages[f] :
                  /\ d.name = StageName(g, FlowStages[f][k].local)
                  /\ d.pass = Resolve(g, FlowStages[f][k].pass)
                  /\ d.fail = Resolve(g, FlowStages[f][k].fail)
                  /\ d.targets = {StageName(g, l) : l \in FlowStages[f][k].targets}
        /\ \A k \in DOMAIN FlowStages[f] :
             StageName(g, FlowStages[f][k].local) \in Names(children)
    BY <1>1, <1>8, ChildStagesProperties
  <2> HIDE DEF children
  <2> QED
    BY <2>1
<1> HIDE DEF children
<1>10. /\ workflow \in Seq(Definition)
       /\ Stages(workflow) = Stages(base.workflow) \cup Stages(children)
  BY <1>6, <1>7, <1>9, InsertProperties
<1>11. t = [base EXCEPT !.expansions = g, !.groups = groups, !.workflow = workflow]
  BY DEF Expand, dropped, base, g, i, c, path, children
<1> HIDE DEF workflow, groups, t
<1>12. /\ t.expansions = g /\ t.groups = groups /\ t.workflow = workflow
       /\ t.taskGroups = base.taskGroups /\ t.tasks = base.tasks /\ t.failures = base.failures
  BY <1>5, <1>11, Zenon DEF RunState
<1>13. /\ TaskIds(t) = TaskIds(dropped) \cup new
       /\ t.taskGroups = dropped.taskGroups \cup Owned(source.name, new)
       /\ t.groups = dropped.groups \cup {[source |-> source.name, group |-> g]}
       /\ Stages(t.workflow) = Stages(dropped.workflow) \cup Stages(children)
  <2>1. TaskIds(t) = TaskIds(base)
    BY <1>12 DEF TaskIds
  <2> QED
    BY <1>5, <1>10, <1>12, <2>1 DEF groups
<1>14. ASSUME NEW d \in Stages(s.workflow)
       PROVE  /\ d.name.group \in Nat /\ d.name.group < g
              /\ \A x \in d.path : x \in Nat /\ x < g
  <2>1. d.name.group \in Nat /\ d.path \in SUBSET Nat
    BY <1>1, StagesAreDefinitions, DefinitionFields
  <2>2. d.name.group <= s.expansions /\ d.path \subseteq 1 .. s.expansions
    BY DEF StateInv, GroupsNumbered
  <2> QED
    BY <1>1, <2>1, <2>2
<1>15. ASSUME NEW d \in Stages(t.workflow)
       PROVE  \/ d \in Stages(s.workflow) /\ d \in Stages(dropped.workflow)
              \/ d.name.group = g /\ d.path = path
  BY <1>5, <1>6, <1>9, <1>13
<1>16. Tree(t)
  <2>1. ASSUME NEW d \in Stages(t.workflow), NEW e \in Stages(t.workflow),
               d.name.group = e.name.group
        PROVE  d.path = e.path
    BY <1>1, <1>14, <1>15, <2>1 DEF Tree
  <2>2. ASSUME NEW e \in t.groups PROVE e.group \in 1 .. t.expansions
    <3>1. CASE e \in s.groups
      BY <1>1, <1>12, <3>1 DEF Tree
    <3>2. CASE e.group = g
      BY <1>1, <1>12, <3>2
    <3> QED
      BY <1>3, <1>13, <3>1, <3>2
  <2>3. ASSUME NEW e \in t.groups, NEW d \in Stages(t.workflow), NEW p \in Stages(t.workflow),
               e.group \in d.path, p.name = e.source
        PROVE  p.path \subseteq d.path
    <3>1. CASE e \in s.groups
      <4>1. e.source.group \in Nat /\ e.source.group < g
        <5>1. e.source.group \in Nat
          BY <1>1, <3>1, RunStateFields DEF Name
        <5> QED
          BY <1>1, <3>1, <5>1 DEF StateInv, GroupsNumbered
      <4>2. p \in Stages(s.workflow)
        BY <1>1, <1>15, <2>3, <4>1
      <4>3. CASE d \in Stages(s.workflow)
        BY <2>3, <3>1, <4>2, <4>3 DEF Tree
      <4>4. CASE d.path = path
        <5>1. e.group \in Nat /\ e.group < g
          BY <1>1, <3>1 DEF Tree
        <5>2. e.group \in source.path
          BY <1>1, <2>3, <4>4, <5>1 DEF path
        <5>3. p.path \subseteq source.path
          BY <2>3, <3>1, <4>2, <5>2 DEF Tree
        <5> QED
          BY <4>4, <5>3 DEF path
      <4> QED
        BY <1>15, <4>3, <4>4
    <3>2. CASE e = [source |-> source.name, group |-> g]
      <4>1. d.path = path
        BY <1>1, <1>14, <1>15, <2>3, <3>2
      <4>2. p \in Stages(s.workflow)
        BY <1>1, <1>14, <1>15, <2>3, <3>2
      <4>3. p.path = source.path
        BY <2>3, <3>2, <4>2 DEF Tree
      <4> QED
        BY <4>1, <4>3 DEF path
    <3> QED
      BY <1>3, <1>13, <3>1, <3>2
  <2> QED
    BY <2>1, <2>2, <2>3 DEF Tree
<1>17. OneOwner(t)
  <2>1. ASSUME NEW e \in s.taskGroups
        PROVE  e.task.group \in Nat /\ e.task.group < g
    <3>1. e.task.group \in Nat
      BY <1>1, RunStateFields DEF Name
    <3> QED
      BY <1>1, <3>1 DEF OneOwner
  <2>2. ASSUME NEW e \in t.taskGroups
        PROVE  e \in s.taskGroups \/ (e.source = source.name /\ e.task.group = g)
    BY <1>3, <1>13, RefFields DEF new, NewTasks, Owned
  <2>3. ASSUME NEW e \in t.taskGroups PROVE e.task.group <= t.expansions
    BY <1>1, <1>12, <2>1, <2>2
  <2>4. ASSUME NEW e \in t.taskGroups, NEW o \in t.taskGroups, e.task = o.task
        PROVE  e.source = o.source
    BY <1>1, <2>1, <2>2, <2>4 DEF OneOwner
  <2> QED
    BY <2>3, <2>4 DEF OneOwner
<1>18. NothingStale(t)
  <2>1. /\ Names(t.workflow) = {d.name : d \in Stages(t.workflow)}
        /\ Names(dropped.workflow) = {d.name : d \in Stages(dropped.workflow)}
    BY <1>3, <1>10, <1>12, RunStateFields, StagesAreDefinitions
  <2>2. Names(dropped.workflow) \subseteq Names(t.workflow) /\ source.name \in Names(t.workflow)
    BY <1>5, <1>6, <1>13, <2>1
  <2>3. ASSUME NEW d \in Stages(t.workflow), NEW x \in d.path
        PROVE  x \in {e.group : e \in t.groups}
    <3>1. {e.group : e \in dropped.groups} \subseteq {e.group : e \in t.groups}
          /\ g \in {e.group : e \in t.groups}
      <4>1. [source |-> source.name, group |-> g] \in t.groups
        BY <1>13
      <4>2. dropped.groups \subseteq t.groups
        BY <1>13
      <4> QED
        BY <4>1, <4>2
    <3>2. ASSUME NEW y \in Stages(dropped.workflow)
          PROVE  y.path \subseteq {e.group : e \in dropped.groups}
      BY <1>4 DEF NothingStale
    <3>3. source.path \subseteq {e.group : e \in dropped.groups}
      BY <1>5, <1>6, <3>2
    <3> QED
      BY <1>15, <2>3, <3>1, <3>2, <3>3 DEF path
  <2>4. ASSUME NEW e \in t.failures
        PROVE  /\ e.key.review \in Names(t.workflow)
               /\ e.key.scope \in TaskIds(t) \cup {Nothing}
    <3>1. e \in dropped.failures
      BY <1>5, <1>12
    <3>2. /\ e.key.review \in Names(dropped.workflow)
          /\ e.key.scope \in TaskIds(dropped) \cup {Nothing}
      BY <1>4, <3>1 DEF NothingStale
    <3> QED
      BY <1>13, <2>2, <3>2
  <2>5. {e.task : e \in t.taskGroups} = TaskIds(t)
    <3>1. {e.task : e \in Owned(source.name, new)} = new
      <4>1. \A e \in Owned(source.name, new) : e.task \in new
        BY DEF Owned
      <4>2. \A x \in new : \E e \in Owned(source.name, new) : e.task = x
        <5> SUFFICES ASSUME NEW x \in new
                     PROVE  \E e \in Owned(source.name, new) : e.task = x
          OBVIOUS
        <5>1. [source |-> source.name, task |-> x] \in Owned(source.name, new)
          BY DEF Owned
        <5> QED
          BY <5>1
      <4> QED
        BY <4>1, <4>2
    <3>2. {e.task : e \in dropped.taskGroups} = TaskIds(dropped)
      BY <1>4 DEF NothingStale
    <3>3. {e.task : e \in t.taskGroups}
            = {e.task : e \in dropped.taskGroups} \cup {e.task : e \in Owned(source.name, new)}
      BY <1>13
    <3> QED
      BY <1>13, <3>1, <3>2, <3>3
  <2>6. {e.source : e \in t.taskGroups \cup t.groups} \subseteq Names(t.workflow)
    BY <1>4, <1>13, <2>2 DEF NothingStale, Owned
  <2> QED
    BY <2>3, <2>4, <2>5, <2>6 DEF NothingStale
<1> QED
  BY <1>16, <1>17, <1>18 DEF t

(* An expansion does not touch what the next Stage is told. *)
LEMMA ExpandKeepsPrevious ==
  ASSUME NEW s, StateInv(s), NEW source \in Stages(s.workflow), NEW f \in FlowId, NEW n
  PROVE  Expand(s, source, f, n).previous = s.previous
<1> DEFINE g        == s.expansions + 1
           dropped  == DropPrevious(s, source.name)
           base     == InstallTasks(dropped, source.name, f, g)
           i        == FirstIndex(base.workflow, source.name)
           children == ChildStages(f, g, source.path \cup {g}, EffectiveContinuation(source, n))
           workflow == SubSeq(base.workflow, 1, i) \o children
                         \o SubSeq(base.workflow, i + 1, Len(base.workflow))
           groups   == base.groups \cup {[source |-> source.name, group |-> g]}
           t        == Expand(s, source, f, n)
<1>1. s \in RunState /\ g \in Nat /\ source.name \in Name
  BY RunStateFields, StagesAreDefinitions, DefinitionFields DEF StateInv
<1>2. dropped \in RunState /\ dropped.previous = s.previous
  BY <1>1, DropPreviousProperties, DropPreviousDetails
<1> HIDE DEF dropped, g
<1>3. base \in RunState /\ base.previous = s.previous
  BY <1>1, <1>2, InstallTasksProperties, InstallTasksDetails
<1>4. t = [base EXCEPT !.expansions = g, !.groups = groups, !.workflow = workflow]
  BY DEF Expand, dropped, g
<1> HIDE DEF base, workflow, groups, t
<1>5. t.previous = base.previous
  BY <1>3, <1>4, Zenon DEF RunState
<1> QED
  BY <1>3, <1>5 DEF t

--------------------------------------------------------------------------
(* Where the Stages of a Workflow are.                                        *)

UniqueNames(w) == \A i, j \in DOMAIN w : w[i].name = w[j].name => i = j

(* "Previous children are always after their producer."                       *)
ChildrenFollow(s) ==
  \A e \in s.groups : \A k \in DOMAIN s.workflow :
    e.group \in s.workflow[k].path =>
      \E j \in DOMAIN s.workflow : j < k /\ s.workflow[j].name = e.source

(* A Handoff goes to another Stage, of its own group or of one around it. *)
Handoffs(s) ==
  \A d \in Stages(s.workflow) :
    /\ d.name \notin d.targets
    /\ \A x \in d.targets : \E e \in Stages(s.workflow) : e.name = x /\ e.path \subseteq d.path

(* A child is bound to a task of its own expansion, unless its result named   *)
(* none or one it does not contain, and a task belongs to the last expansion  *)
(* of its producer.                                                           *)
Bindings(s) ==
  /\ \A d \in Stages(s.workflow) :
       d.task.group # 0 => d.task \in TaskIds(s) /\ d.task.group \in d.path
  /\ \A o \in s.taskGroups : \E e \in s.groups : e.source = o.source /\ e.group = o.task.group

Layout(s) == UniqueNames(s.workflow) /\ ChildrenFollow(s) /\ Handoffs(s) /\ Bindings(s)

(* Nth(I, .) runs through I in order. *)
LEMMA NthOrdered ==
  ASSUME NEW I \in SUBSET Nat, IsFiniteSet(I),
         NEW k \in 1 .. Cardinality(I), NEW l \in 1 .. Cardinality(I)
  PROVE  k < l <=> Nth(I, k) < Nth(I, l)
<1> DEFINE upTo(x) == {j \in I : j <= x}
<1>1. /\ Cardinality(I) \in Nat
      /\ \A x \in 1 .. Cardinality(I) : Nth(I, x) \in I /\ Cardinality(upTo(Nth(I, x))) = x
  BY NthEnumerates
<1>2. ASSUME NEW x \in 1 .. Cardinality(I), NEW y \in 1 .. Cardinality(I), x < y
      PROVE  Nth(I, x) < Nth(I, y)
  <2> SUFFICES ASSUME ~(Nth(I, x) < Nth(I, y)) PROVE FALSE
    OBVIOUS
  <2>1. Nth(I, x) \in Nat /\ Nth(I, y) \in Nat
    BY <1>1
  <2>2. Nth(I, y) <= Nth(I, x)
    BY <2>1
  <2>3. upTo(Nth(I, y)) \in SUBSET upTo(Nth(I, x))
    <3> SUFFICES ASSUME NEW z \in I, z <= Nth(I, y) PROVE z <= Nth(I, x)
      OBVIOUS
    <3> QED
      BY <2>1, <2>2
  <2>4. IsFiniteSet(upTo(Nth(I, x)))
    BY FS_Subset
  <2>5. Cardinality(upTo(Nth(I, y))) <= Cardinality(upTo(Nth(I, x)))
    BY <2>3, <2>4, FS_Subset
  <2>6. Cardinality(upTo(Nth(I, x))) = x /\ Cardinality(upTo(Nth(I, y))) = y
    BY <1>1
  <2> QED
    BY <1>1, <1>2, <2>5, <2>6
<1>3. Nth(I, k) \in Nat /\ Nth(I, l) \in Nat
  BY <1>1
<1>4. k < l \/ k = l \/ l < k
  BY <1>1
<1> QED
  BY <1>1, <1>2, <1>3, <1>4

(* Keep takes the elements of s at I in their order. *)
LEMMA KeepOrdered ==
  ASSUME NEW S, NEW s \in Seq(S), NEW I \in SUBSET DOMAIN s
  PROVE  /\ Keep(s, I) \in Seq(S) /\ DOMAIN Keep(s, I) \subseteq Nat
         /\ \A k \in DOMAIN Keep(s, I) : Nth(I, k) \in I /\ Keep(s, I)[k] = s[Nth(I, k)]
         /\ \A i \in I : \E k \in DOMAIN Keep(s, I) : Nth(I, k) = i
         /\ \A k, l \in DOMAIN Keep(s, I) : k < l <=> Nth(I, k) < Nth(I, l)
<1>1. DOMAIN s = 1 .. Len(s) /\ Len(s) \in Nat
  BY LenProperties
<1>2. I \in SUBSET Nat /\ IsFiniteSet(I)
  <2>1. I \in SUBSET (1 .. Len(s))
    BY <1>1
  <2>2. IsFiniteSet(1 .. Len(s))
    BY <1>1, FS_Interval
  <2> QED
    BY <1>1, <2>1, <2>2, FS_Subset
<1>3. /\ Cardinality(I) \in Nat
      /\ \A k \in 1 .. Cardinality(I) : Nth(I, k) \in I
      /\ \A i \in I : \E k \in 1 .. Cardinality(I) : Nth(I, k) = i
  BY <1>2, NthEnumerates
<1>4. DOMAIN Keep(s, I) = 1 .. Cardinality(I)
      /\ \A k \in 1 .. Cardinality(I) : Keep(s, I)[k] = s[Nth(I, k)]
  BY DEF Keep
<1>5. \A k, l \in 1 .. Cardinality(I) : k < l <=> Nth(I, k) < Nth(I, l)
  BY <1>2, NthOrdered
<1>6. Keep(s, I) \in Seq(S)
  BY KeepEnumerates
<1> DEFINE c == Cardinality(I)
<1> HIDE DEF c
<1>7. DOMAIN Keep(s, I) = 1 .. c /\ 1 .. c \subseteq Nat
  BY <1>4 DEF c
<1>8. \A k \in 1 .. c : Nth(I, k) \in I /\ Keep(s, I)[k] = s[Nth(I, k)]
  BY <1>3, <1>4 DEF c
<1>9. \A i \in I : \E k \in 1 .. c : Nth(I, k) = i
  BY <1>3 DEF c
<1>10. \A k, l \in 1 .. c : k < l <=> Nth(I, k) < Nth(I, l)
  BY <1>5 DEF c
<1> QED
  BY <1>6, <1>7, <1>8, <1>9, <1>10

(* What comes before the first element that is left out stays where it is. *)
LEMMA KeepPrefix ==
  ASSUME NEW S, NEW s \in Seq(S), NEW I \in SUBSET DOMAIN s,
         NEW p \in DOMAIN s, 1 .. p \subseteq I
  PROVE  p \in DOMAIN Keep(s, I) /\ Keep(s, I)[p] = s[p]
<1>1. DOMAIN s = 1 .. Len(s) /\ Len(s) \in Nat /\ p \in Nat /\ p \in 1 .. p
  BY LenProperties
<1>2. I \in SUBSET Nat /\ IsFiniteSet(I)
  <2>1. I \in SUBSET (1 .. Len(s))
    BY <1>1
  <2>2. IsFiniteSet(1 .. Len(s))
    BY <1>1, FS_Interval
  <2> QED
    BY <1>1, <2>1, <2>2, FS_Subset
<1>3. /\ Cardinality(I) \in Nat
      /\ \A k \in 1 .. Cardinality(I) : Cardinality({j \in I : j <= Nth(I, k)}) = k
      /\ \A i \in I : \E k \in 1 .. Cardinality(I) : Nth(I, k) = i
  BY <1>2, NthEnumerates
<1>4. PICK k \in 1 .. Cardinality(I) : Nth(I, k) = p
  BY <1>1, <1>3
<1>5. {j \in I : j <= p} = 1 .. p
  BY <1>1
<1>6. Cardinality(1 .. p) = p
  BY <1>1, FS_Interval
<1>7. k = p
  BY <1>3, <1>4, <1>5, <1>6
<1> QED
  BY <1>4, <1>7 DEF Keep

(* What inserting q after position i of w puts where. *)
LEMMA InsertIndexes ==
  ASSUME NEW S, NEW w \in Seq(S), NEW q \in Seq(S), NEW i \in DOMAIN w
  PROVE  LET t == SubSeq(w, 1, i) \o q \o SubSeq(w, i + 1, Len(w)) IN
         /\ DOMAIN t = 1 .. Len(w) + Len(q)
         /\ \A k \in 1 .. i : t[k] = w[k]
         /\ \A k \in 1 .. Len(q) : t[i + k] = q[k]
         /\ \A k \in i + 1 .. Len(w) : t[k + Len(q)] = w[k]
<1> DEFINE m == Len(w)
           n == Len(q)
           a == SubSeq(w, 1, i)
           b == SubSeq(w, i + 1, m)
           u == a \o q
           t == u \o b
<1>1. m \in Nat /\ n \in Nat /\ DOMAIN w = 1 .. m /\ i \in 1 .. m
  BY LenProperties
<1>2. \A k \in 1 .. m : w[k] \in S
  BY <1>1, ElementOfSeq
<1>3. a \in Seq(S) /\ Len(a) = i /\ \A k \in 1 .. i : a[k] = w[k]
  <2>1. \A k \in 1 .. i : w[k] \in S
    BY <1>1, <1>2
  <2>2. /\ SubSeq(w, 1, i) \in Seq(S)
        /\ Len(SubSeq(w, 1, i)) = IF 1 <= i THEN i - 1 + 1 ELSE 0
        /\ \A k \in 1 .. i - 1 + 1 : SubSeq(w, 1, i)[k] = w[1 + k - 1]
    BY <1>1, <2>1, SubSeqProperties
  <2> QED
    BY <1>1, <2>2
<1>4. b \in Seq(S) /\ Len(b) = m - i /\ \A k \in 1 .. m - i : b[k] = w[i + k]
  <2>1. \A k \in i + 1 .. m : w[k] \in S
    BY <1>1, <1>2
  <2>2. /\ SubSeq(w, i + 1, m) \in Seq(S)
        /\ Len(SubSeq(w, i + 1, m)) = IF i + 1 <= m THEN m - (i + 1) + 1 ELSE 0
        /\ \A k \in 1 .. m - (i + 1) + 1 : SubSeq(w, i + 1, m)[k] = w[(i + 1) + k - 1]
    BY <1>1, <2>1, SubSeqProperties
  <2> QED
    BY <1>1, <2>2, SMTT(30)
<1> HIDE DEF a, b
<1>5. /\ u \in Seq(S) /\ Len(u) = i + n
      /\ \A k \in 1 .. i + n : u[k] = IF k <= i THEN a[k] ELSE q[k - i]
  BY <1>3, ConcatProperties
<1> HIDE DEF u
<1>6. /\ t \in Seq(S) /\ Len(t) = i + n + (m - i)
      /\ \A k \in 1 .. i + n + (m - i) : t[k] = IF k <= i + n THEN u[k] ELSE b[k - (i + n)]
  <2> DEFINE lu == Len(u)
             lb == Len(b)
  <2>1. /\ u \o b \in Seq(S) /\ Len(u \o b) = lu + lb
        /\ \A k \in 1 .. lu + lb : (u \o b)[k] = IF k <= lu THEN u[k] ELSE b[k - lu]
    BY <1>4, <1>5, ConcatProperties
  <2>2. lu = i + n /\ lb = m - i
    BY <1>4, <1>5
  <2> HIDE DEF lu, lb
  <2> QED
    BY <2>1, <2>2
<1>7. DOMAIN t = 1 .. m + n
  BY <1>1, <1>6, LenProperties
<1> HIDE DEF t
<1>8. ASSUME NEW k \in 1 .. i PROVE t[k] = w[k]
  BY <1>1, <1>3, <1>5, <1>6, SMTT(30)
<1>9. ASSUME NEW k \in 1 .. n PROVE t[i + k] = q[k]
  <2>1. i + k \in 1 .. i + n /\ ~(i + k <= i) /\ (i + k) - i = k
    BY <1>1
  <2>2. i + k \in 1 .. i + n + (m - i) /\ i + k <= i + n
    BY <1>1
  <2> QED
    BY <1>5, <1>6, <2>1, <2>2
<1>10. ASSUME NEW k \in i + 1 .. m PROVE t[k + n] = w[k]
  <2>1. k - i \in 1 .. m - i /\ i + (k - i) = k /\ (k + n) - (i + n) = k - i
    BY <1>1
  <2>2. k + n \in 1 .. i + n + (m - i) /\ ~(k + n <= i + n)
    BY <1>1
  <2> QED
    BY <1>4, <1>6, <2>1, <2>2
<1>11. t = SubSeq(w, 1, i) \o q \o SubSeq(w, i + 1, Len(w))
  BY DEF t, u, a, b
<1> HIDE DEF m, n
<1> QED
  BY <1>7, <1>8, <1>9, <1>10, <1>11 DEF m, n

(* What dropping leaves of the sequences and of the marks into them. *)
LEMMA DropPreviousSequences ==
  ASSUME NEW s \in RunState, NEW n \in Name
  PROVE  LET D    == DropPrevious(s, n)
             kept == {i \in DOMAIN s.tasks : s.tasks[i].id \notin DeadTasks(s, n)}
         IN
         /\ D.workflow = Keep(s.workflow, DOMAIN s.workflow \ Superseded(s, n))
         /\ D.tasks = Keep(s.tasks, kept)
         /\ D.current = Least(s.current, Len(D.tasks))
         /\ D.sessions = s.sessions \ GoneNames(s, n)
<1> DEFINE D     == DropPrevious(s, n)
           names == GoneNames(s, n)
           dead  == DeadTasks(s, n)
           I     == {i \in DOMAIN s.tasks : s.tasks[i].id \notin dead}
           tasks == Keep(s.tasks, I)
           kept  == Keep(s.workflow, DOMAIN s.workflow \ Superseded(s, n))
           current    == Least(s.current, Len(tasks))
           taskGroups == {e \in s.taskGroups : e.source \notin names \cup {n}}
           groups     == {e \in s.groups : e.source \notin names \cup {n}}
           sessions   == s.sessions \ names
           failures   == {e \in s.failures : e.key.scope \notin dead /\ e.key.review \notin names}
<1>1. {s.workflow[i].name : i \in Superseded(s, n)} = names
  BY DEF Superseded, GoneNames, Stages
<1>2. D = [s EXCEPT
             !.workflow = kept, !.tasks = tasks, !.current = current,
             !.taskGroups = taskGroups, !.groups = groups,
             !.sessions = sessions, !.failures = failures]
  BY <1>1 DEF DropPrevious, DeadTasks
<1> HIDE DEF D, kept, tasks, current, taskGroups, groups, sessions, failures
<1>3. /\ D.workflow = kept /\ D.tasks = tasks
      /\ D.current = current /\ D.sessions = sessions
  BY <1>2, Zenon DEF RunState
<1> QED
  BY <1>3 DEF D, kept, tasks, current, sessions

(* What installing tasks does to them: the new ones come last. *)
LEMMA InstallTasksSequences ==
  ASSUME NEW s \in RunState, NEW n \in Name, NEW f \in FlowId, NEW g \in Nat
  PROVE  LET B == InstallTasks(s, n, f, g) IN
         /\ Len(B.tasks) = Len(s.tasks) + Len(FlowTasks[f])
         /\ \A k \in 1 .. Len(s.tasks) : B.tasks[k] = s.tasks[k]
         /\ \A k \in 1 .. Len(FlowTasks[f]) : B.tasks[Len(s.tasks) + k].id = Ref(g, FlowTasks[f][k])
         /\ B.current = s.current /\ B.sessions = s.sessions
<1> DEFINE labels == FlowTasks[f]
           m      == Len(s.tasks)
           l      == Len(labels)
           new    == [i \in 1 .. l |-> [id |-> Ref(g, labels[i]), status |-> "pending"]]
           owners == {[source |-> n, task |-> Ref(g, labels[i])] : i \in DOMAIN labels}
           tasks  == s.tasks \o new
           taskGroups == s.taskGroups \cup owners
           B      == InstallTasks(s, n, f, g)
<1>1. l \in Nat /\ DOMAIN labels = 1 .. l /\ m \in Nat /\ s.tasks \in Seq(Task)
  BY FlowTypes, LenProperties, RunStateFields
<1>2. \A i \in 1 .. l : Ref(g, labels[i]) \in Name
  BY FlowTypes, ElementOfSeq, NamesAreNames
<1>3. new \in Seq(Task) /\ Len(new) = l
  <2>1. \A i \in 1 .. l : [id |-> Ref(g, labels[i]), status |-> "pending"] \in Task
    BY <1>2 DEF Task
  <2>2. new \in [1 .. l -> Task] /\ DOMAIN new = 1 .. l
    BY <2>1
  <2> HIDE DEF new, labels, l
  <2>3. new \in Seq(Task)
    BY <1>1, <2>2, SeqDef
  <2> QED
    BY <1>1, <2>2, <2>3, LenProperties
<1>4. \A k \in 1 .. l : new[k].id = Ref(g, labels[k])
  OBVIOUS
<1>5. B = [s EXCEPT !.tasks = tasks, !.taskGroups = taskGroups]
  BY DEF InstallTasks
<1> HIDE DEF new, l, labels
<1>6. /\ Len(tasks) = m + l
      /\ \A k \in 1 .. m + l : tasks[k] = IF k <= m THEN s.tasks[k] ELSE new[k - m]
  <2>1. /\ Len(tasks) = Len(s.tasks) + Len(new)
        /\ \A k \in 1 .. Len(s.tasks) + Len(new) :
             tasks[k] = IF k <= Len(s.tasks) THEN s.tasks[k] ELSE new[k - Len(s.tasks)]
    BY <1>1, <1>3, ConcatProperties
  <2> HIDE DEF tasks
  <2> QED
    BY <1>3, <2>1 DEF m
<1> HIDE DEF tasks, taskGroups, B, m
<1>7. /\ B.tasks = tasks /\ B.current = s.current /\ B.sessions = s.sessions
  BY <1>5, Zenon DEF RunState
<1>8. \A k \in 1 .. m : tasks[k] = s.tasks[k]
  BY <1>1, <1>6
<1>9. ASSUME NEW k \in 1 .. l PROVE tasks[m + k].id = Ref(g, labels[k])
  <2>1. m + k \in 1 .. m + l /\ ~(m + k <= m) /\ (m + k) - m = k
    BY <1>1
  <2> QED
    BY <1>4, <1>6, <2>1
<1> QED
  BY <1>6, <1>7, <1>8, <1>9 DEF B, m, l, labels

(* The children, one after the other, and what they are bound to. *)
LEMMA ChildrenBound ==
  ASSUME NEW f \in FlowId, NEW g \in Nat, NEW path, NEW n
  PROVE  LET c == ChildStages(f, g, path, n) IN
         /\ DOMAIN c = DOMAIN FlowStages[f]
         /\ \A k \in DOMAIN c :
              /\ c[k].name = StageName(g, FlowStages[f][k].local)
              /\ c[k].task = BoundTask(f, g, FlowStages[f][k].task)
              /\ c[k].completes = FlowStages[f][k].completes
              /\ c[k].path = path
              /\ c[k].targets = {StageName(g, l) : l \in FlowStages[f][k].targets}
              /\ c[k].task.group # 0 => c[k].task \in NewTasks(f, g) /\ c[k].task.group = g
<1> DEFINE m == Len(FlowStages[f])
           c == ChildStages(f, g, path, n)
<1>1. DOMAIN FlowStages[f] = 1 .. m
  BY FlowTypes, LenProperties
<1>2. DOMAIN c = 1 .. m
  BY DEF ChildStages
<1>3. ASSUME NEW k \in 1 .. m
      PROVE  /\ c[k].name = StageName(g, FlowStages[f][k].local)
             /\ c[k].task = BoundTask(f, g, FlowStages[f][k].task)
             /\ c[k].completes = FlowStages[f][k].completes
             /\ c[k].path = path
             /\ c[k].targets = {StageName(g, l) : l \in FlowStages[f][k].targets}
  BY DEF ChildStages, Instantiate
<1>4. ASSUME NEW l, BoundTask(f, g, l).group # 0
      PROVE  BoundTask(f, g, l) \in NewTasks(f, g) /\ BoundTask(f, g, l).group = g
  <2>1. \/ BoundTask(f, g, l) = Nothing
        \/ BoundTask(f, g, l) = Ref(0, l)
        \/ BoundTask(f, g, l) = Ref(g, l) /\ \E i \in DOMAIN FlowTasks[f] : FlowTasks[f][i] = l
    <3> DEFINE known == \E i \in DOMAIN FlowTasks[f] : FlowTasks[f][i] = l
               empty == l = ""
    <3>1. BoundTask(f, g, l) = CASE empty -> Nothing [] known -> Ref(g, l) [] OTHER -> Ref(0, l)
      BY DEF BoundTask
    <3> HIDE DEF known, empty
    <3>2. \/ BoundTask(f, g, l) = Nothing
          \/ BoundTask(f, g, l) = Ref(0, l)
          \/ BoundTask(f, g, l) = Ref(g, l) /\ known
      BY <3>1
    <3> QED
      BY <3>2 DEF known
  <2>2. CASE BoundTask(f, g, l) = Nothing
    BY <1>4, <2>2, NothingFields
  <2>3. CASE BoundTask(f, g, l) = Ref(0, l)
    BY <1>4, <2>3, RefFields
  <2>4. CASE BoundTask(f, g, l) = Ref(g, l) /\ \E i \in DOMAIN FlowTasks[f] : FlowTasks[f][i] = l
    <3>1. BoundTask(f, g, l) \in NewTasks(f, g)
      BY <2>4 DEF NewTasks
    <3> QED
      BY <2>4, <3>1, RefFields
  <2> QED
    BY <2>1, <2>2, <2>3, <2>4
<1> HIDE DEF c
<1> QED
  BY <1>1, <1>2, <1>3, <1>4 DEF c

(* Everything of an expansion comes after its producer, which therefore stays *)
(* where it is when the expansion is dropped.                                 *)
LEMMA DropPreviousLayout ==
  ASSUME NEW s, StateInv(s), Tree(s), Layout(s),
         NEW p \in DOMAIN s.workflow
  PROVE  LET D == DropPrevious(s, s.workflow[p].name) IN
         /\ Layout(D)
         /\ p \in DOMAIN D.workflow /\ D.workflow[p] = s.workflow[p]
<1> DEFINE source == s.workflow[p]
           n    == source.name
           D    == DropPrevious(s, n)
           w    == s.workflow
           v    == D.workflow
           old  == OldGroups(s, n)
           gone == GoneNames(s, n)
           dead == DeadTasks(s, n)
           I    == DOMAIN w \ Superseded(s, n)
<1>1. s \in RunState /\ w \in Seq(Definition) /\ source \in Stages(w) /\ n \in Name
      /\ DOMAIN w \subseteq Nat /\ p \in Nat
  <2>1. s \in RunState /\ w \in Seq(Definition) /\ source \in Stages(w)
    BY RunStateFields DEF StateInv, Stages
  <2>2. DOMAIN w = 1 .. Len(w) /\ Len(w) \in Nat
    BY <2>1, LenProperties
  <2> QED
    BY <2>1, <2>2, StagesAreDefinitions, DefinitionFields
<1>2. /\ D \in RunState
      /\ Stages(v) = {d \in Stages(w) : d.path \cap old = {}}
      /\ D.groups = {e \in s.groups : e.source \notin gone \cup {n}}
      /\ D.taskGroups = {e \in s.taskGroups : e.source \notin gone \cup {n}}
      /\ TaskIds(D) = TaskIds(s) \ dead
      /\ v = Keep(w, I)
  BY <1>1, DropPreviousProperties, DropPreviousDetails, DropPreviousSequences, ZenonT(60)
<1>3. /\ I \subseteq DOMAIN w
      /\ \A k \in DOMAIN w : k \in I <=> w[k].path \cap old = {}
  BY DEF Superseded
<1> HIDE DEF D, I
<1>4. /\ DOMAIN v \subseteq Nat
      /\ \A k \in DOMAIN v : Nth(I, k) \in I /\ v[k] = w[Nth(I, k)]
      /\ \A i \in I : \E k \in DOMAIN v : Nth(I, k) = i
      /\ \A k, l \in DOMAIN v : k < l <=> Nth(I, k) < Nth(I, l)
  BY <1>1, <1>2, <1>3, KeepOrdered
<1>5. ASSUME NEW k \in DOMAIN w, w[k].name \notin gone PROVE k \in I
  BY <1>3, <1>5 DEF GoneNames, Stages
<1>6. UniqueNames(v)
  <2> SUFFICES ASSUME NEW k \in DOMAIN v, NEW l \in DOMAIN v, v[k].name = v[l].name
               PROVE  k = l
    BY DEF UniqueNames
  <2>1. Nth(I, k) = Nth(I, l)
    BY <1>3, <1>4 DEF Layout, UniqueNames
  <2>2. Nth(I, k) \in Nat
    BY <1>1, <1>3, <1>4
  <2>3. ~(k < l) /\ ~(l < k)
    BY <1>4, <2>1, <2>2
  <2> QED
    BY <1>4, <2>3
<1>7. ChildrenFollow(D)
  <2> SUFFICES ASSUME NEW e \in D.groups, NEW k \in DOMAIN v, e.group \in v[k].path
               PROVE  \E j \in DOMAIN v : j < k /\ v[j].name = e.source
    BY DEF ChildrenFollow
  <2>1. PICK j \in DOMAIN w : j < Nth(I, k) /\ w[j].name = e.source
    BY <1>2, <1>3, <1>4 DEF Layout, ChildrenFollow
  <2>2. j \in I
    BY <1>2, <1>5, <2>1
  <2>3. PICK l \in DOMAIN v : Nth(I, l) = j
    BY <1>4, <2>2
  <2> QED
    BY <1>4, <2>1, <2>3
<1>8. Handoffs(D)
  <2> SUFFICES ASSUME NEW d \in Stages(v)
               PROVE  /\ d.name \notin d.targets
                      /\ \A x \in d.targets :
                           \E e \in Stages(v) : e.name = x /\ e.path \subseteq d.path
    BY DEF Handoffs
  <2>1. d \in Stages(w) /\ d.path \cap old = {}
    BY <1>2
  <2>2. d.name \notin d.targets
    BY <2>1 DEF Layout, Handoffs
  <2>3. ASSUME NEW x \in d.targets
        PROVE  \E e \in Stages(v) : e.name = x /\ e.path \subseteq d.path
    <3>1. PICK e \in Stages(w) : e.name = x /\ e.path \subseteq d.path
      BY <2>1 DEF Layout, Handoffs
    <3>2. e.path \cap old = {}
      BY <2>1, <3>1
    <3> QED
      BY <1>2, <3>1, <3>2
  <2> QED
    BY <2>2, <2>3
<1>9. Bindings(D)
  <2>1. ASSUME NEW d \in Stages(v), d.task.group # 0
        PROVE  d.task \in TaskIds(D) /\ d.task.group \in d.path
    <3>1. d \in Stages(w) /\ d.path \cap old = {}
      BY <1>2
    <3>2. d.task \in TaskIds(s) /\ d.task.group \in d.path
      BY <2>1, <3>1 DEF Layout, Bindings
    <3>3. d.task \notin dead
      <4> SUFFICES ASSUME NEW o \in s.taskGroups, o.source \in gone \cup {n}, o.task = d.task
                   PROVE  FALSE
        BY DEF DeadTasks
      <4>1. PICK e \in s.groups : e.source = o.source /\ e.group = d.task.group
        BY DEF Layout, Bindings
      <4>2. CASE o.source = n
        BY <3>1, <3>2, <4>1, <4>2 DEF OldGroups
      <4>3. CASE o.source \in gone
        <5>1. PICK q \in Stages(w) : q.path \cap old # {} /\ q.name = o.source
          BY <4>3 DEF GoneNames
        <5>2. q.path \subseteq d.path
          BY <3>1, <3>2, <4>1, <5>1 DEF Tree
        <5> QED
          BY <3>1, <5>1, <5>2
      <4> QED
        BY <4>2, <4>3
    <3> QED
      BY <1>2, <3>2, <3>3
  <2>2. ASSUME NEW o \in D.taskGroups
        PROVE  \E e \in D.groups : e.source = o.source /\ e.group = o.task.group
    BY <1>2 DEF Layout, Bindings
  <2> QED
    BY <2>1, <2>2 DEF Bindings
<1>10. 1 .. p \subseteq I
  <2> SUFFICES ASSUME NEW k \in 1 .. p, k \notin I PROVE FALSE
    OBVIOUS
  <2>1. k \in DOMAIN w /\ k <= p
    <3>1. DOMAIN w = 1 .. Len(w) /\ Len(w) \in Nat
      BY <1>1, LenProperties
    <3> QED
      BY <3>1
  <2>2. PICK e \in s.groups : e.source = n /\ e.group \in w[k].path
    BY <1>3, <2>1 DEF OldGroups
  <2>3. PICK j \in DOMAIN w : j < k /\ w[j].name = n
    BY <2>1, <2>2 DEF Layout, ChildrenFollow
  <2>4. j = p
    BY <2>3 DEF Layout, UniqueNames
  <2> QED
    BY <1>1, <2>1, <2>3, <2>4
<1>11. p \in DOMAIN v /\ v[p] = source
  BY <1>1, <1>2, <1>3, <1>10, KeepPrefix
<1> QED
  BY <1>6, <1>7, <1>8, <1>9, <1>11 DEF Layout, D

(* Two children of one result never get one name: the code compares their     *)
(* labels before it makes them safe (dynamic_expansion.py:298-318), and this   *)
(* is what it takes for granted.                                              *)
SafeNamesDiffer ==
  \A f \in FlowId : \A i, j \in DOMAIN FlowStages[f] :
    SafeName[FlowStages[f][i].local] = SafeName[FlowStages[f][j].local] => i = j

(* The indexes and the session that a run keeps into its Workflow. *)
Marks(s) ==
  /\ s.position <= Len(s.workflow)
  /\ s.current <= Len(s.tasks)
  /\ s.sessions \subseteq Names(s.workflow)

(* An expansion puts the children right after their producer, each bound to a *)
(* task of this expansion, and moves nothing that comes before.               *)
LEMMA ExpandLayout ==
  ASSUME SafeNamesDiffer,
         NEW s, StateInv(s), Tree(s), Layout(s),
         NEW p \in DOMAIN s.workflow, NEW f \in FlowId, FlowAccepted(f),
         NEW n \in Keywords \cup RouteTargets(s.workflow[p])
  PROVE  LET t == Expand(s, s.workflow[p], f, n) IN Layout(t) /\ p \in DOMAIN t.workflow
<1> DEFINE source   == s.workflow[p]
           g        == s.expansions + 1
           dropped  == DropPrevious(s, source.name)
           base     == InstallTasks(dropped, source.name, f, g)
           path     == source.path \cup {g}
           c        == EffectiveContinuation(source, n)
           q        == ChildStages(f, g, path, c)
           w        == dropped.workflow
           t        == Expand(s, source, f, n)
           z        == t.workflow
           new      == NewTasks(f, g)
           l        == Len(q)
           m        == Len(w)
<1>1. s \in RunState /\ s.expansions \in Nat /\ g \in Nat /\ g # 0 /\ g > s.expansions
      /\ source \in Stages(s.workflow) /\ s.workflow \in Seq(Definition)
  BY RunStateFields DEF StateInv, Stages
<1>2. source \in Definition /\ source.name \in Name /\ source.path \in SUBSET Nat
  BY <1>1, StagesAreDefinitions, DefinitionFields
<1>3. /\ dropped \in RunState /\ dropped.groups \subseteq s.groups
      /\ Stages(w) \subseteq Stages(s.workflow)
  BY <1>1, <1>2, DropPreviousProperties
<1>4. Layout(dropped) /\ p \in DOMAIN w /\ w[p] = source
  BY DropPreviousLayout
<1> HIDE DEF dropped
<1>5. /\ base \in RunState /\ base.groups = dropped.groups /\ base.workflow = w
      /\ TaskIds(base) = TaskIds(dropped) \cup new
      /\ base.taskGroups = dropped.taskGroups \cup Owned(source.name, new)
  BY <1>1, <1>2, <1>3, InstallTasksProperties, InstallTasksDetails
<1>6. w \in Seq(Definition) /\ DOMAIN w = 1 .. m /\ m \in Nat /\ p \in 1 .. m /\ p \in Nat
  <2>1. w \in Seq(Definition)
    BY <1>3, RunStateFields
  <2> QED
    BY <1>4, <2>1, LenProperties
<1>7. FirstIndex(w, source.name) = p
  <2>1. source.name \in Names(w)
    BY <1>4 DEF Names
  <2>2. FirstIndex(w, source.name) \in DOMAIN w /\ w[FirstIndex(w, source.name)].name = source.name
    BY <1>6, <2>1, FirstIndexExists
  <2> QED
    BY <1>4, <2>2 DEF Layout, UniqueNames
<1>8. c \in Name /\ path \in SUBSET Nat
  BY <1>1, <1>2, EffectiveContinuationType
<1>9. /\ z = SubSeq(w, 1, p) \o q \o SubSeq(w, p + 1, Len(w))
      /\ t.groups = dropped.groups \cup {[source |-> source.name, group |-> g]}
      /\ t.taskGroups = dropped.taskGroups \cup Owned(source.name, new)
      /\ t.tasks = base.tasks
  <2> DEFINE i        == FirstIndex(base.workflow, source.name)
             workflow == SubSeq(base.workflow, 1, i) \o q
                           \o SubSeq(base.workflow, i + 1, Len(base.workflow))
             groups   == base.groups \cup {[source |-> source.name, group |-> g]}
  <2>1. t = [base EXCEPT !.expansions = g, !.groups = groups, !.workflow = workflow]
    BY DEF Expand, dropped
  <2> HIDE DEF t, base, workflow, groups, g, q, source, new, w
  <2>2. /\ t.workflow = workflow /\ t.groups = groups
        /\ t.taskGroups = base.taskGroups /\ t.tasks = base.tasks
    BY <1>5, <2>1, Zenon DEF RunState
  <2> QED
    BY <1>5, <1>7, <2>2 DEF workflow, groups
<1>10. TaskIds(t) = TaskIds(dropped) \cup new
  BY <1>5, <1>9 DEF TaskIds
<1> HIDE DEF base, c, g, path, new
<1>11. /\ q \in Seq(Definition) /\ DOMAIN q = 1 .. l /\ l \in Nat
       /\ DOMAIN q = DOMAIN FlowStages[f]
  <2>1. q \in Seq(Definition)
    BY <1>1, <1>8, ChildStagesProperties
  <2>2. DOMAIN q = DOMAIN FlowStages[f]
    BY <1>1, ChildrenBound
  <2> HIDE DEF q
  <2> QED
    BY <2>1, <2>2, LenProperties
<1>12. ASSUME NEW k \in 1 .. l
       PROVE  /\ q[k].name = StageName(g, FlowStages[f][k].local)
              /\ q[k].name.group = g
              /\ q[k].task.group # 0 => q[k].task \in new /\ q[k].task.group = g
              /\ q[k].path = path
  <2>1. \A j \in DOMAIN q :
          /\ q[j].name = StageName(g, FlowStages[f][j].local)
          /\ q[j].path = path
          /\ q[j].task.group # 0 => q[j].task \in NewTasks(f, g) /\ q[j].task.group = g
    BY <1>1, ChildrenBound
  <2> HIDE DEF q
  <2>2. StageName(g, FlowStages[f][k].local).group = g
    BY RefFields
  <2> QED
    BY <1>11, <2>1, <2>2 DEF new
<1>21. ASSUME NEW d \in Stages(q)
       PROVE  \E k \in DOMAIN FlowStages[f] :
                /\ d.name = StageName(g, FlowStages[f][k].local)
                /\ d.targets = {StageName(g, x) : x \in FlowStages[f][k].targets}
  <2>1. \A j \in DOMAIN q :
          /\ q[j].name = StageName(g, FlowStages[f][j].local)
          /\ q[j].targets = {StageName(g, x) : x \in FlowStages[f][j].targets}
    BY <1>1, ChildrenBound
  <2> HIDE DEF q
  <2>2. PICK j \in DOMAIN q : d = q[j]
    BY DEF Stages
  <2> QED
    BY <1>11, <2>1, <2>2
<1>13. ASSUME NEW d \in Stages(w)
       PROVE  /\ d.name.group # g
              /\ g \notin d.path
  <2>1. d.name.group \in Nat /\ d.path \in SUBSET Nat
    BY <1>1, <1>3, StagesAreDefinitions, DefinitionFields
  <2>2. d.name.group <= s.expansions /\ d.path \subseteq 1 .. s.expansions
    BY <1>3 DEF StateInv, GroupsNumbered
  <2> QED
    BY <1>1, <2>1, <2>2
<1>14. /\ DOMAIN z = 1 .. m + l
       /\ \A k \in 1 .. p : z[k] = w[k]
       /\ \A k \in 1 .. l : z[p + k] = q[k]
       /\ \A k \in p + 1 .. m : z[k + l] = w[k]
       /\ Stages(z) = Stages(w) \cup Stages(q)
  <2> DEFINE y == SubSeq(w, 1, p) \o q \o SubSeq(w, p + 1, Len(w))
  <2>3. z = y
    BY <1>9
  <2> HIDE DEF q, w, z, source
  <2>1. Stages(y) = Stages(w) \cup Stages(q)
    BY <1>4, <1>6, <1>11, InsertProperties
  <2>2. /\ DOMAIN y = 1 .. m + l
        /\ \A k \in 1 .. p : y[k] = w[k]
        /\ \A k \in 1 .. l : y[p + k] = q[k]
        /\ \A k \in p + 1 .. m : y[k + l] = w[k]
    BY <1>4, <1>6, <1>11, InsertIndexes, ZenonT(60)
  <2> HIDE DEF y, m, l
  <2> QED
    BY <2>1, <2>2, <2>3
<1> HIDE DEF t, q, w, source, m, l
<1> HIDE DEF z
<1>15. p \in DOMAIN z
  BY <1>6, <1>11, <1>14
<1>16. ASSUME NEW k \in DOMAIN z
       PROVE  \/ k \in 1 .. p /\ k \in DOMAIN w /\ z[k] = w[k]
              \/ \E j \in 1 .. l : k = p + j /\ z[k] = q[j]
              \/ \E j \in p + 1 .. m : k = j + l /\ j \in DOMAIN w /\ z[k] = w[j]
  <2>1. k \in 1 .. m + l
    BY <1>14
  <2>2. CASE k <= p
    BY <1>6, <1>14, <2>1, <2>2
  <2>3. CASE p < k /\ k <= p + l
    <3>1. k - p \in 1 .. l /\ k = p + (k - p)
      BY <1>6, <1>11, <2>1, <2>3
    <3> QED
      BY <1>14, <3>1
  <2>4. CASE p + l < k
    <3>1. k - l \in p + 1 .. m /\ k = (k - l) + l /\ k - l \in DOMAIN w
      BY <1>6, <1>11, <2>1, <2>4
    <3> QED
      BY <1>14, <3>1
  <2> QED
    BY <1>6, <1>11, <2>1, <2>2, <2>3, <2>4
<1>17. UniqueNames(z)
  <2> SUFFICES ASSUME NEW x \in DOMAIN z, NEW y \in DOMAIN z, z[x].name = z[y].name
               PROVE  x = y
    BY DEF UniqueNames
  <2>1. \A k \in DOMAIN w : w[k] \in Stages(w)
    BY DEF Stages
  <2>2. \A i, j \in DOMAIN w : w[i].name = w[j].name => i = j
    BY <1>4 DEF Layout, UniqueNames, w
  <2>3. \A i, j \in 1 .. l : q[i].name = q[j].name => i = j
    <3> SUFFICES ASSUME NEW i \in 1 .. l, NEW j \in 1 .. l, q[i].name = q[j].name PROVE i = j
      OBVIOUS
    <3>1. StageName(g, FlowStages[f][i].local) = StageName(g, FlowStages[f][j].local)
      BY <1>12
    <3>2. SafeName[FlowStages[f][i].local] = SafeName[FlowStages[f][j].local]
      BY <1>1, <3>1 DEF StageName, Ref
    <3> QED
      BY <1>11, <3>2 DEF SafeNamesDiffer
  <2>4. \A i \in 1 .. l, j \in DOMAIN w : q[i].name # w[j].name
    BY <1>12, <1>13, <2>1
  <2>5. CASE x \in DOMAIN w /\ z[x] = w[x] /\ x \in 1 .. p
    BY <1>6, <1>16, <2>2, <2>4, <2>5
  <2>6. CASE \E j \in 1 .. l : x = p + j /\ z[x] = q[j]
    BY <1>6, <1>16, <2>3, <2>4, <2>6
  <2>7. CASE \E j \in p + 1 .. m : x = j + l /\ j \in DOMAIN w /\ z[x] = w[j]
    BY <1>6, <1>16, <2>2, <2>4, <2>7, SMTT(30)
  <2> QED
    BY <1>16, <2>5, <2>6, <2>7
<1>18. ChildrenFollow(t)
  <2> SUFFICES ASSUME NEW e \in t.groups, NEW k \in DOMAIN z, e.group \in z[k].path
               PROVE  \E j \in DOMAIN z : j < k /\ z[j].name = e.source
    BY DEF ChildrenFollow, z
  <2>1. \A j \in DOMAIN w : w[j] \in Stages(w)
    BY DEF Stages
  <2>2. p \in DOMAIN w /\ w[p] = source /\ z[p] = source /\ p \in DOMAIN z
    BY <1>4, <1>6, <1>14, <1>15 DEF w
  <2>3. CASE e \in dropped.groups
    <3>1. ASSUME NEW j \in DOMAIN w, e.group \in w[j].path
          PROVE  \E i \in DOMAIN w : i < j /\ w[i].name = e.source
      BY <1>4, <2>3, <3>1 DEF Layout, ChildrenFollow, w
    <3>2. ASSUME NEW i \in DOMAIN w, i <= p PROVE i \in DOMAIN z /\ z[i] = w[i]
      BY <1>6, <1>11, <1>14, <3>2
    <3>3. ASSUME NEW i \in DOMAIN w, i > p PROVE i + l \in DOMAIN z /\ z[i + l] = w[i]
      BY <1>6, <1>11, <1>14, <3>3
    <3>4. CASE k \in 1 .. p /\ k \in DOMAIN w /\ z[k] = w[k]
      <4>1. PICK i \in DOMAIN w : i < k /\ w[i].name = e.source
        BY <3>1, <3>4
      <4>2. i <= p
        BY <1>6, <3>4, <4>1
      <4> QED
        BY <3>2, <4>1, <4>2
    <3>5. CASE \E j \in 1 .. l : k = p + j /\ z[k] = q[j]
      <4>1. PICK j \in 1 .. l : k = p + j /\ z[k] = q[j]
        BY <3>5
      <4>2. e.group \in source.path \cup {g}
        BY <1>12, <4>1 DEF path
      <4>3. e.group # g
        <5>1. e.group \in 1 .. s.expansions
          BY <1>3, <2>3 DEF Tree
        <5> QED
          BY <1>1, <5>1
      <4>4. PICK i \in DOMAIN w : i < p /\ w[i].name = e.source
        BY <2>2, <3>1, <4>2, <4>3
      <4>5. i <= p /\ i < k
        BY <1>6, <1>11, <4>1, <4>4
      <4> QED
        BY <3>2, <4>4, <4>5
    <3>6. CASE \E j \in p + 1 .. m : k = j + l /\ j \in DOMAIN w /\ z[k] = w[j]
      <4>1. PICK j \in p + 1 .. m : k = j + l /\ j \in DOMAIN w /\ z[k] = w[j]
        BY <3>6
      <4>2. PICK i \in DOMAIN w : i < j /\ w[i].name = e.source
        BY <3>1, <4>1
      <4>3. CASE i <= p
        <5>1. i < k
          BY <1>6, <1>11, <4>1, <4>2
        <5> QED
          BY <3>2, <4>2, <4>3, <5>1
      <4>4. CASE i > p
        <5>1. i + l < k
          BY <1>6, <1>11, <4>1, <4>2
        <5> QED
          BY <3>3, <4>2, <4>4, <5>1
      <4> QED
        BY <1>6, <4>3, <4>4
    <3> QED
      BY <1>16, <3>4, <3>5, <3>6
  <2>4. CASE e = [source |-> source.name, group |-> g]
    <3>1. ~(\E j \in DOMAIN w : z[k] = w[j])
      BY <1>13, <2>1, <2>4
    <3>2. PICK j \in 1 .. l : k = p + j
      BY <1>16, <3>1
    <3>3. p < k
      BY <1>6, <1>11, <3>2
    <3> QED
      BY <2>2, <2>4, <3>3
  <2> QED
    BY <1>9, <2>3, <2>4
<1>19. Handoffs(t)
  <2>1. ASSUME NEW d \in Stages(w)
        PROVE  /\ d.name \notin d.targets
               /\ \A x \in d.targets : \E e \in Stages(z) : e.name = x /\ e.path \subseteq d.path
    BY <1>4, <1>14 DEF Layout, Handoffs, w
  <2>2. ASSUME NEW d \in Stages(q)
        PROVE  /\ d.name \notin d.targets
               /\ \A x \in d.targets : \E e \in Stages(z) : e.name = x /\ e.path \subseteq d.path
    <3>1. PICK k \in DOMAIN FlowStages[f] :
            /\ d.name = StageName(g, FlowStages[f][k].local)
            /\ d.targets = {StageName(g, x) : x \in FlowStages[f][k].targets}
      BY <1>21, <2>2
    <3>2. \A x : StageName(g, x) = Ref(g, SafeName[x])
      BY <1>1 DEF StageName
    <3>3. d.name \notin d.targets
      <4> SUFFICES ASSUME NEW x \in FlowStages[f][k].targets, d.name = StageName(g, x)
                   PROVE  FALSE
        BY <3>1
      <4>1. SafeName[FlowStages[f][k].local] = SafeName[x]
        <5>1. \A x1 : StageName(g, x1).local = SafeName[x1]
          BY <3>2, RefFields
        <5> QED
          BY <3>1, <5>1
      <4> QED
        BY <4>1 DEF FlowAccepted
    <3>4. ASSUME NEW x \in FlowStages[f][k].targets
          PROVE  \E e \in Stages(z) : e.name = StageName(g, x) /\ e.path \subseteq d.path
      <4>1. PICK j \in DOMAIN FlowStages[f] : FlowStages[f][j].local = x
        BY DEF FlowAccepted, RoutesValid
      <4>2. j \in 1 .. l
        BY <1>11, <4>1
      <4>3. q[j].name = StageName(g, x) /\ q[j].path = path
        BY <1>12, <4>1, <4>2
      <4>4. q[j] \in Stages(z)
        BY <1>11, <1>14, <4>2 DEF Stages
      <4>5. d.path = path
        BY <1>11, <1>12, <2>2 DEF Stages
      <4> QED
        BY <4>3, <4>4, <4>5
    <3> QED
      BY <3>1, <3>3, <3>4
  <2> QED
    BY <1>14, <2>1, <2>2 DEF Handoffs, z
<1>20. Bindings(t)
  <2>1. ASSUME NEW d \in Stages(z), d.task.group # 0
        PROVE  d.task \in TaskIds(t) /\ d.task.group \in d.path
    <3>1. CASE d \in Stages(w)
      BY <1>4, <1>10, <2>1, <3>1 DEF Layout, Bindings, w
    <3>2. CASE d \in Stages(q)
      <4>1. PICK k \in 1 .. l : d = q[k]
        BY <1>11, <3>2 DEF Stages
      <4>2. d.task \in new /\ d.task.group = g /\ d.path = path
        BY <1>12, <2>1, <4>1
      <4> QED
        BY <1>10, <4>2 DEF path
    <3> QED
      BY <1>14, <3>1, <3>2
  <2>2. ASSUME NEW o \in t.taskGroups
        PROVE  \E e \in t.groups : e.source = o.source /\ e.group = o.task.group
    <3>1. CASE o \in dropped.taskGroups
      <4>1. PICK e \in dropped.groups : e.source = o.source /\ e.group = o.task.group
        BY <1>4, <3>1 DEF Layout, Bindings
      <4> QED
        BY <1>9, <4>1
    <3>2. CASE o \in Owned(source.name, new)
      <4>1. o.source = source.name /\ o.task \in new
        BY <3>2 DEF Owned
      <4>2. o.task.group = g
        BY <4>1, RefFields DEF new, NewTasks
      <4>3. [source |-> source.name, group |-> g] \in t.groups
        BY <1>9
      <4> QED
        BY <4>1, <4>2, <4>3
    <3> QED
      BY <1>9, <3>1, <3>2
  <2> QED
    BY <2>1, <2>2 DEF Bindings, z
<1> QED
  BY <1>15, <1>17, <1>18, <1>19, <1>20 DEF Layout, z, t, source

(* The marks of an expanded state are in range, once the position is that of  *)
(* the first child or of what follows the producer.                           *)
LEMMA ExpandMarks ==
  ASSUME NEW s, StateInv(s), s.sessions \subseteq Names(s.workflow),
         NEW source \in Stages(s.workflow), NEW f \in FlowId,
         NEW n \in Keywords \cup RouteTargets(source)
  PROVE  LET t == Expand(s, source, f, n) IN
         t.current <= Len(t.tasks) /\ t.sessions \subseteq Names(t.workflow)
<1> DEFINE g        == s.expansions + 1
           dropped  == DropPrevious(s, source.name)
           base     == InstallTasks(dropped, source.name, f, g)
           i        == FirstIndex(base.workflow, source.name)
           path     == source.path \cup {g}
           c        == EffectiveContinuation(source, n)
           children == ChildStages(f, g, path, c)
           t        == Expand(s, source, f, n)
           old      == OldGroups(s, source.name)
           gone     == GoneNames(s, source.name)
<1>1. s \in RunState /\ g \in Nat /\ source.name \in Name /\ source \in Definition
      /\ s.workflow \in Seq(Definition) /\ source.path \in SUBSET Nat
  BY RunStateFields, StagesAreDefinitions, DefinitionFields DEF StateInv
<1>2. /\ dropped \in RunState
      /\ Stages(dropped.workflow) = {d \in Stages(s.workflow) : d.path \cap old = {}}
      /\ dropped.current = Least(s.current, Len(dropped.tasks))
      /\ dropped.sessions = s.sessions \ gone
  BY <1>1, DropPreviousProperties, DropPreviousSequences
<1> HIDE DEF dropped
<1>3. /\ base \in RunState
      /\ base.workflow = dropped.workflow /\ base.current = dropped.current
      /\ base.sessions = dropped.sessions
      /\ Len(base.tasks) = Len(dropped.tasks) + Len(FlowTasks[f])
  <2>1. base \in RunState /\ base.workflow = dropped.workflow
    BY <1>1, <1>2, InstallTasksProperties
  <2> HIDE DEF g
  <2>3. g \in Nat /\ dropped \in RunState /\ source.name \in Name
    BY <1>1, <1>2
  <2>2. /\ base.current = dropped.current /\ base.sessions = dropped.sessions
        /\ Len(base.tasks) = Len(dropped.tasks) + Len(FlowTasks[f])
    BY <2>3, InstallTasksSequences, Zenon
  <2> QED
    BY <2>1, <2>2
<1>4. /\ t.workflow = SubSeq(base.workflow, 1, i) \o children
                        \o SubSeq(base.workflow, i + 1, Len(base.workflow))
      /\ t.tasks = base.tasks /\ t.current = base.current /\ t.sessions = base.sessions
  <2> DEFINE workflow == SubSeq(base.workflow, 1, i) \o children
                           \o SubSeq(base.workflow, i + 1, Len(base.workflow))
             groups   == base.groups \cup {[source |-> source.name, group |-> g]}
  <2>1. t = [base EXCEPT !.expansions = g, !.groups = groups, !.workflow = workflow]
    BY DEF Expand, dropped
  <2> HIDE DEF t, base, workflow, groups, g
  <2>2. /\ t.workflow = workflow
        /\ t.tasks = base.tasks /\ t.current = base.current /\ t.sessions = base.sessions
    BY <1>3, <2>1, Zenon DEF RunState
  <2> QED
    BY <2>2 DEF workflow
<1>5. base.workflow \in Seq(Definition) /\ i \in DOMAIN base.workflow
  <2>1. dropped.workflow \in Seq(Definition)
    BY <1>2, RunStateFields
  <2>2. source \in Stages(dropped.workflow)
    BY <1>2 DEF StateInv, ProducersOutside
  <2>3. source.name \in Names(dropped.workflow)
    BY <2>2 DEF Stages, Names
  <2> QED
    BY <1>3, <2>1, <2>3, FirstIndexExists
<1>8. c \in Name /\ path \in SUBSET Nat
  BY <1>1, EffectiveContinuationType
<1> HIDE DEF base, i, g, path, c
<1>6. children \in Seq(Definition)
  BY <1>1, <1>8, ChildStagesProperties
<1> HIDE DEF children
<1>7. /\ t.workflow \in Seq(Definition)
      /\ Stages(t.workflow) = Stages(dropped.workflow) \cup Stages(children)
  BY <1>3, <1>4, <1>5, <1>6, InsertProperties
<1> HIDE DEF t
<1>10. t.current <= Len(t.tasks)
  <2>1. Len(dropped.tasks) \in Nat /\ Len(FlowTasks[f]) \in Nat /\ s.current \in Nat
    BY <1>1, <1>2, RunStateFields, FlowTypes, LenProperties
  <2>2. t.current = Least(s.current, Len(dropped.tasks))
    BY <1>2, <1>3, <1>4
  <2>3. Len(t.tasks) = Len(dropped.tasks) + Len(FlowTasks[f])
    BY <1>3, <1>4
  <2>4. \A x, y, v \in Nat : Least(x, y) <= y + v
    BY DEF Least
  <2> QED
    BY <2>1, <2>2, <2>3, <2>4
<1>9. t.sessions \subseteq Names(t.workflow)
  <2> SUFFICES ASSUME NEW x \in s.sessions, x \notin gone PROVE x \in Names(t.workflow)
    BY <1>2, <1>3, <1>4
  <2>1. PICK d \in Stages(s.workflow) : d.name = x
    BY <1>1, StagesAreDefinitions
  <2>2. d \in Stages(dropped.workflow)
    BY <1>2, <2>1 DEF GoneNames
  <2> QED
    BY <1>7, <2>1, <2>2, StagesAreDefinitions
<1> QED
  BY <1>9, <1>10 DEF t

(***************************************************************************)
(* FlowEngine: what holds of every run.                                      *)
(***************************************************************************)
--------------------------------------------------------------------------
(* What the steps of the engine do to a run's state. *)

(* t is s with fields changed that no route and no group depends on. *)
SameWorkflow(s, t) ==
  /\ t \in RunState
  /\ t.workflow = s.workflow /\ t.groups \subseteq s.groups /\ t.expansions = s.expansions

(* Such a change keeps what every operation keeps. *)
LEMMA SameWorkflowInv ==
  ASSUME NEW s, NEW t, StateInv(s), SameWorkflow(s, t),
         t.completed => AllTasksCompleted(t)
  PROVE  StateInv(t)
BY StateInvFrame DEF SameWorkflow

(* Counters stay counters. *)
LEMMA CountType ==
  ASSUME NEW K, NEW entries \in SUBSET [key : K, count : Nat], NEW k \in K
  PROVE  /\ Count(entries, k) \in Nat
         /\ Without(entries, k) \in SUBSET [key : K, count : Nat]
         /\ Bump(entries, k) \in SUBSET [key : K, count : Nat]
<1>1. Count(entries, k) \in Nat
  <2>1. CASE \E e \in entries : e.key = k
    <3>1. (CHOOSE e \in entries : e.key = k) \in entries
      BY <2>1
    <3> QED
      BY <2>1, <3>1 DEF Count
  <2>2. CASE ~\E e \in entries : e.key = k
    BY <2>2 DEF Count
  <2> QED
    BY <2>1, <2>2
<1>2. Without(entries, k) \in SUBSET [key : K, count : Nat]
  BY DEF Without
<1>3. [key |-> k, count |-> Count(entries, k) + 1] \in [key : K, count : Nat]
  BY <1>1
<1> QED
  BY <1>1, <1>2, <1>3 DEF Bump

(* Making the bound task current changes nothing else. *)
LEMMA ActivateProperties ==
  ASSUME NEW s \in RunState, NEW d \in Definition, BindingKnown(s, d)
  PROVE  /\ SameWorkflow(s, Activate(s, d))
         /\ Activate(s, d).completed = s.completed
         /\ Activate(s, d).tasks = s.tasks
         /\ Activate(s, d).position = s.position
<1>1. CASE d.task = Nothing
  BY <1>1 DEF Activate, SameWorkflow
<1>2. CASE d.task # Nothing
  <2> DEFINE i == CHOOSE i \in DOMAIN s.tasks : s.tasks[i].id = d.task
             current == i - 1
  <2>1. i \in DOMAIN s.tasks
    BY <1>2 DEF BindingKnown, TaskIds
  <2>2. DOMAIN s.tasks = 1 .. Len(s.tasks) /\ Len(s.tasks) \in Nat
    BY RunStateFields, LenProperties
  <2>3. current \in Nat
    BY <2>1, <2>2
  <2>4. Activate(s, d) = [s EXCEPT !.current = current]
    BY <1>2 DEF Activate
  <2> HIDE DEF current
  <2>5. Activate(s, d) \in RunState
    BY <2>3, <2>4, Zenon DEF RunState
  <2> QED
    BY <2>4, <2>5, Zenon DEF RunState, SameWorkflow
<1> QED
  BY <1>1, <1>2

(* set_stage, session bookkeeping and a cleared counter touch one field each. *)
LEMMA BookkeepingProperties ==
  ASSUME NEW s \in RunState,
         NEW stage \in {"active", "completed", "max_cycles_exhausted"},
         NEW sessions \in SUBSET Name,
         NEW failures \in SUBSET [key : [review : Name, scope : Name], count : Nat],
         NEW t \in {[s EXCEPT !.stage = stage], [s EXCEPT !.sessions = sessions],
                    [s EXCEPT !.failures = failures, !.stage = stage]}
  PROVE  /\ SameWorkflow(s, t)
         /\ t.completed = s.completed /\ t.tasks = s.tasks /\ t.position = s.position
<1>1. CASE t = [s EXCEPT !.stage = stage]
  <2>1. t \in RunState
    BY <1>1, Zenon DEF RunState
  <2> QED
    BY <1>1, <2>1, Zenon DEF RunState, SameWorkflow
<1>2. CASE t = [s EXCEPT !.sessions = sessions]
  <2>1. t \in RunState
    BY <1>2, Zenon DEF RunState
  <2> QED
    BY <1>2, <2>1, Zenon DEF RunState, SameWorkflow
<1>3. CASE t = [s EXCEPT !.failures = failures, !.stage = stage]
  <2>1. t \in RunState
    BY <1>3, Zenon DEF RunState
  <2> QED
    BY <1>3, <2>1, Zenon DEF RunState, SameWorkflow
<1> QED
  BY <1>1, <1>2, <1>3

(* A review counter has a key of the right shape. *)
LEMMA ReviewKeyType ==
  ASSUME NEW s \in RunState, NEW d \in Definition
  PROVE  ReviewKey(s, d) \in [review : Name, scope : Name]
<1>1. Scope(s) \in Name
  <2>1. CASE s.current < Len(s.tasks)
    <3>1. s.tasks[s.current + 1] \in Task
      BY <2>1, RunStateFields, LenProperties, ElementOfSeq
    <3> QED
      BY <2>1, <3>1 DEF Scope, Task
  <2>2. CASE ~(s.current < Len(s.tasks))
    BY <2>2, NamesAreNames DEF Scope
  <2> QED
    BY <2>1, <2>2
<1> QED
  BY <1>1, DefinitionFields DEF ReviewKey

(* Recording a verdict changes counters only. *)
LEMMA RecordReviewProperties ==
  ASSUME NEW s \in RunState, NEW d \in Definition, NEW r
  PROVE  /\ SameWorkflow(s, RecordReview(s, d, r))
         /\ RecordReview(s, d, r).completed = s.completed
         /\ RecordReview(s, d, r).position = s.position
<1> DEFINE k == ReviewKey(s, d)
           without == Without(s.failures, k)
           bump    == Bump(s.failures, k)
           Failures == SUBSET [key : [review : Name, scope : Name], count : Nat]
<1>1. without \in Failures /\ bump \in Failures
  BY ReviewKeyType, RunStateFields, CountType
<1>2. RecordReview(s, d, r) \in
        {s, [s EXCEPT !.failures = without], [s EXCEPT !.failures = bump]}
  BY DEF RecordReview
<1> HIDE DEF without, bump
<1>3. CASE RecordReview(s, d, r) = s
  BY <1>3 DEF SameWorkflow
<1>4. CASE RecordReview(s, d, r) = [s EXCEPT !.failures = without]
  <2>1. RecordReview(s, d, r) \in RunState
    BY <1>1, <1>4, Zenon DEF RunState
  <2> QED
    BY <1>4, <2>1, Zenon DEF RunState, SameWorkflow
<1>5. CASE RecordReview(s, d, r) = [s EXCEPT !.failures = bump]
  <2>1. RecordReview(s, d, r) \in RunState
    BY <1>1, <1>5, Zenon DEF RunState
  <2> QED
    BY <1>5, <2>1, Zenon DEF RunState, SameWorkflow
<1> QED
  BY <1>2, <1>3, <1>4, <1>5

(* Completing the current task keeps the Workflow and the position. *)
LEMMA FinishTaskProperties ==
  ASSUME NEW s \in RunState, s.current < Len(s.tasks)
  PROVE  /\ SameWorkflow(s, FinishTask(s))
         /\ FinishTask(s).completed = s.completed
         /\ FinishTask(s).position = s.position
<1> DEFINE i        == s.current + 1
           task     == [s.tasks[i] EXCEPT !.status = "completed"]
           tasks    == [s.tasks EXCEPT ![i] = task]
           failures == {e \in s.failures : e.key.scope # s.tasks[i].id}
           current  == s.current + 1
<1>1. s.tasks \in Seq(Task) /\ i \in 1 .. Len(s.tasks)
  BY RunStateFields, LenProperties
<1>2. s.tasks[i] \in Task
  BY <1>1, ElementOfSeq
<1>3. task \in Task
  <2> HIDE DEF i
  <2> QED
    BY <1>2 DEF Task
<1>4. tasks \in Seq(Task)
  <2> HIDE DEF task, i
  <2> QED
    BY <1>1, <1>3, ExceptSeq
<1>5. current \in Nat
      /\ failures \in SUBSET [key : [review : Name, scope : Name], count : Nat]
  BY RunStateFields
<1>6. FinishTask(s) =
        [s EXCEPT !.tasks = tasks, !.failures = failures, !.current = current]
  BY DEF FinishTask
<1> HIDE DEF tasks, failures, current, i
<1>7. FinishTask(s) \in RunState
  BY <1>4, <1>5, <1>6, Zenon DEF RunState
<1>8. /\ FinishTask(s).workflow = s.workflow /\ FinishTask(s).groups = s.groups
      /\ FinishTask(s).expansions = s.expansions
      /\ FinishTask(s).completed = s.completed /\ FinishTask(s).position = s.position
  BY <1>6, Zenon DEF RunState
<1> QED
  BY <1>7, <1>8 DEF SameWorkflow

(* Finishing a run keeps its Workflow and its tasks. *)
LEMMA FinishRunProperties ==
  ASSUME NEW s \in RunState
  PROVE  /\ SameWorkflow(s, FinishRun(s))
         /\ FinishRun(s).tasks = s.tasks
<1> DEFINE none == {}
           yes == TRUE
<1>1. FinishRun(s) =
        [s EXCEPT !.previous = NoPrevious, !.sessions = none, !.failures = none,
                  !.groups = none, !.taskGroups = none, !.completed = yes,
                  !.stage = "completed"]
  BY DEF FinishRun
<1>2. NoPrevious \in [stage : Name, status : {"", "pass", "fail", "error"}]
  BY NamesAreNames DEF NoPrevious
<1>3. /\ none \in SUBSET Name
      /\ none \in SUBSET [key : [review : Name, scope : Name], count : Nat]
      /\ none \in SUBSET [source : Name, group : Nat]
      /\ none \in SUBSET [source : Name, task : Name]
      /\ yes \in BOOLEAN
      /\ none \subseteq s.groups
  OBVIOUS
<1> HIDE DEF none, yes
<1>4. FinishRun(s) \in RunState
  BY <1>1, <1>2, <1>3, ZenonT(60) DEF RunState
<1>5. /\ FinishRun(s).workflow = s.workflow /\ FinishRun(s).groups = none
      /\ FinishRun(s).expansions = s.expansions /\ FinishRun(s).tasks = s.tasks
  BY <1>1, Zenon DEF RunState
<1> QED
  BY <1>3, <1>4, <1>5 DEF SameWorkflow

(* A name of the Workflow has a last Stage. *)
LEMMA LastIndexExists ==
  ASSUME NEW S, NEW w \in Seq(S), NEW n \in Names(w)
  PROVE  LastIndex(w, n) \in DOMAIN w /\ w[LastIndex(w, n)].name = n
<1> DEFINE I == {i \in DOMAIN w : w[i].name = n}
           c == Cardinality(I)
           i == Nth(I, c)
<1>1. Len(w) \in Nat /\ DOMAIN w = 1 .. Len(w)
  BY LenProperties
<1>2. I # {} /\ I \in SUBSET (1 .. Len(w)) /\ I \in SUBSET Nat
  BY <1>1 DEF Names
<1>3. IsFiniteSet(I)
  <2>1. IsFiniteSet(1 .. Len(w))
    BY <1>1, FS_Interval
  <2> QED
    BY <1>2, <2>1, FS_Subset
<1>4. c \in Nat /\ c # 0
  BY <1>2, <1>3, FS_CardinalityType, FS_EmptySet
<1>5. i \in I /\ Cardinality({j \in I : j <= i}) = c
  <2>1. c \in 1 .. Cardinality(I)
    BY <1>4
  <2> HIDE DEF I, c
  <2> QED
    BY <1>2, <1>3, <2>1, NthEnumerates
<1> HIDE DEF i
<1>6. {j \in I : j <= i} = I
  BY <1>3, <1>5, FS_Subset
<1>7. i \in DOMAIN w /\ w[i].name = n /\ \A j \in DOMAIN w : w[j].name = n => j <= i
  BY <1>5, <1>6
<1> QED
  BY <1>7 DEF LastIndex

(* Routing moves the position to a Stage that exists. *)
LEMMA RouteProperties ==
  ASSUME NEW s \in RunState, NEW n \in Names(s.workflow)
  PROVE  /\ SameWorkflow(s, Route(s, n))
         /\ Route(s, n).completed = s.completed
<1> DEFINE p     == LastIndex(s.workflow, n) - 1
           cycle == IF p <= s.position THEN NextCycle(s.cycle) ELSE s.cycle
<1>1. LastIndex(s.workflow, n) \in DOMAIN s.workflow
  BY RunStateFields, LastIndexExists
<1>2. p \in Nat
  BY <1>1, RunStateFields, LenProperties
<1>3. cycle \in Nat
  <2>1. NextCycle(s.cycle) \in Nat
    BY RunStateFields DEF NextCycle
  <2> HIDE DEF p
  <2> QED
    BY <2>1, RunStateFields
<1>4. Route(s, n) = [s EXCEPT !.position = p, !.cycle = cycle, !.stage = "active"]
  BY DEF Route
<1> HIDE DEF p, cycle
<1>5. Route(s, n) \in RunState
  BY <1>2, <1>3, <1>4, Zenon DEF RunState
<1> QED
  BY <1>4, <1>5, Zenon DEF RunState, SameWorkflow

(* Normalizing a loaded state never makes a run completed. *)
LEMMA NormalizeProperties ==
  ASSUME NEW s \in RunState
  PROVE  /\ SameWorkflow(s, Normalize(s))
         /\ Normalize(s).completed => s.completed
         /\ Normalize(s).tasks = s.tasks
<1> DEFINE least     == Least(s.current, Len(s.tasks))
           current   == IF least < Len(s.tasks)
                           /\ s.tasks[least + 1].status = "completed"
                        THEN FirstPending(s) ELSE least
           completed == s.completed /\ s.stage = "completed"
<1>1. Len(s.tasks) \in Nat /\ DOMAIN s.tasks = 1 .. Len(s.tasks)
  BY RunStateFields, LenProperties
<1>2. least \in Nat
  BY <1>1, RunStateFields DEF Least
<1>3. FirstPending(s) \in Nat
  <2>1. CASE Pending(s) = {}
    BY <1>1, <2>1 DEF FirstPending
  <2>2. CASE Pending(s) # {}
    <3>1. Pending(s) \subseteq 1 .. Len(s.tasks)
      BY <1>1 DEF Pending
    <3>2. \E i \in Pending(s) : \A j \in Pending(s) : i <= j
      BY <1>1, <2>2, <3>1, LeastExists
    <3>3. (CHOOSE i \in Pending(s) : \A j \in Pending(s) : i <= j) \in Pending(s)
      BY <3>2
    <3> QED
      BY <1>1, <2>2, <3>1, <3>3 DEF FirstPending
  <2> QED
    BY <2>1, <2>2
<1>4. current \in Nat
  <2> HIDE DEF least
  <2> QED
    BY <1>2, <1>3
<1>5. completed \in BOOLEAN /\ (completed => s.completed)
  OBVIOUS
<1>6. Normalize(s) = [s EXCEPT !.completed = completed, !.current = current]
  BY DEF Normalize
<1> HIDE DEF current, completed
<1>7. Normalize(s) \in RunState
  BY <1>4, <1>5, <1>6, Zenon DEF RunState
<1>8. /\ Normalize(s).workflow = s.workflow /\ Normalize(s).groups = s.groups
      /\ Normalize(s).expansions = s.expansions /\ Normalize(s).tasks = s.tasks
      /\ Normalize(s).completed = completed
  BY <1>6, Zenon DEF RunState
<1> QED
  BY <1>5, <1>7, <1>8 DEF SameWorkflow

--------------------------------------------------------------------------
(* The Stage the engine is at, and where it goes from there. *)

(* The Stage at the position is one of the Workflow. *)
LEMMA CurrentProperties ==
  ASSUME StateInv(mem), mem.position < Len(mem.workflow)
  PROVE  /\ Current \in Stages(mem.workflow)
         /\ Current \in Definition
<1>1. mem \in RunState
  BY DEF StateInv
<1>2. /\ mem.workflow \in Seq(Definition) /\ mem.position \in Nat
      /\ DOMAIN mem.workflow = 1 .. Len(mem.workflow) /\ Len(mem.workflow) \in Nat
  BY <1>1, RunStateFields, LenProperties
<1>3. mem.position + 1 \in 1 .. Len(mem.workflow)
  BY <1>2
<1> QED
  BY <1>2, <1>3, ElementOfSeq DEF Current, Stages

(* Where the result leads is a keyword or a Stage of the Workflow. *)
LEMMA TargetKnown ==
  ASSUME IndInv, pc = "settle"
  PROVE  /\ Target \in Keywords \cup RouteTargets(Current)
         /\ DynamicTarget(Current, Target) \in Keywords \cup RouteTargets(Current)
         /\ DynamicTarget(Current, Target) \in Keywords \cup Names(mem.workflow)
<1>1. AtStage /\ HandoffChose /\ StateInv(mem)
  BY DEF IndInv
<1>2. Current \in Stages(mem.workflow)
  BY <1>1, CurrentProperties DEF AtStage
<1>3. Target \in Keywords \cup RouteTargets(Current)
  BY <1>1 DEF HandoffChose, Target, StageTarget, RouteTargets, Keywords
<1>4. DynamicTarget(Current, Target) \in Keywords \cup RouteTargets(Current)
  BY <1>3 DEF DynamicTarget, RouteTargets
<1>5. RouteTargets(Current) \subseteq Keywords \cup Names(mem.workflow)
  BY <1>1, <1>2 DEF StateInv, RoutesOutward
<1> QED
  BY <1>3, <1>4, <1>5

(* Recording the result leaves Workflow, position and completion alone. *)
LEMMA RecordedProperties ==
  ASSUME IndInv, pc = "settle"
  PROVE  /\ SameWorkflow(mem, Recorded) /\ ~Recorded.completed
         /\ Recorded.position = mem.position
<1>1. mem \in RunState /\ ~mem.completed /\ Current \in Definition /\ result \in StageResult
  BY CurrentProperties DEF IndInv, AtStage, StateInv, TypeOK
<1> DEFINE r   == RecordReview(mem, Current, result)
           now == [stage |-> Current.name, status |-> result.status]
<1>2. SameWorkflow(mem, r) /\ r.completed = mem.completed /\ r.position = mem.position
  BY <1>1, RecordReviewProperties
<1>3. now \in [stage : Name, status : {"", "pass", "fail", "error"}]
  BY <1>1, DefinitionFields DEF StageResult
<1>4. Recorded = [r EXCEPT !.previous = now]
  BY DEF Recorded
<1> HIDE DEF r, now
<1>5. Recorded \in RunState
  BY <1>2, <1>3, <1>4, Zenon DEF RunState, SameWorkflow
<1>6. /\ Recorded.workflow = r.workflow /\ Recorded.groups = r.groups
      /\ Recorded.expansions = r.expansions /\ Recorded.completed = r.completed
      /\ Recorded.position = r.position
  BY <1>2, <1>4, Zenon DEF RunState, SameWorkflow
<1> QED
  BY <1>1, <1>2, <1>5, <1>6 DEF SameWorkflow

(* So does completing the task. *)
LEMMA TaskSettledProperties ==
  ASSUME IndInv, pc = "settle", ~NoTaskToFinish
  PROVE  /\ SameWorkflow(mem, TaskSettled) /\ ~TaskSettled.completed
         /\ TaskSettled.position = mem.position
<1>1. /\ SameWorkflow(mem, Recorded) /\ ~Recorded.completed
      /\ Recorded.position = mem.position /\ Recorded \in RunState
  BY RecordedProperties DEF SameWorkflow
<1>2. CASE ~CompletesTask
  BY <1>1, <1>2 DEF TaskSettled
<1>3. CASE CompletesTask
  <2>1. Recorded.current < Len(Recorded.tasks)
    <3>1. Recorded.current \in Nat /\ Len(Recorded.tasks) \in Nat
      BY <1>1, RunStateFields, LenProperties
    <3> QED
      BY <1>3, <3>1 DEF NoTaskToFinish
  <2>2. /\ SameWorkflow(Recorded, FinishTask(Recorded))
        /\ FinishTask(Recorded).completed = Recorded.completed
        /\ FinishTask(Recorded).position = Recorded.position
    BY <1>1, <2>1, FinishTaskProperties
  <2>3. TaskSettled = FinishTask(Recorded)
    BY <1>3 DEF TaskSettled
  <2> QED
    BY <1>1, <2>2, <2>3 DEF SameWorkflow
<1> QED
  BY <1>2, <1>3

(* A step before settling: what it has to show to keep the invariant. *)
LEMMA MoveStep ==
  ASSUME IndInv, StateInv(mem'), disk' \in {disk, mem'}, pc' \in PC,
         result' \in StageResult, verdicts' = verdicts, crashes' \in Nat,
         previous' \in [stage : Name, status : {"", "pass", "fail", "error"}],
         pc' \in {"executing", "settle"} => AtStage',
         pc' = "settle" => HandoffChose'
  PROVE  IndInv'
<1>1. StateInv(disk')
  BY DEF IndInv
<1>2. mem' \in RunState /\ disk' \in RunState
  BY <1>1 DEF StateInv
<1>3. TypeOK'
  BY <1>2 DEF IndInv, TypeOK
<1>4. StateInv(mem)' /\ StateInv(disk)'
  BY <1>1
<1> QED
  BY <1>3, <1>4 DEF IndInv

(* Committing a state that satisfies the invariant, or raising, keeps it. *)
LEMMA CommitStep ==
  ASSUME IndInv, pc = "settle", NEW s, StateInv(s),
         NEW where \in PC \ {"executing", "settle"}, Commit(s, where)
  PROVE  IndInv'
<1>1. /\ mem' = s /\ disk' = s /\ pc' = where /\ crashes' = crashes
      /\ result' = NoResult
      /\ previous' = [stage |-> Current.name, status |-> result.status]
      /\ RecordVerdict
  BY DEF Commit, Save
<1>2. Current \in Definition /\ result \in StageResult
  BY CurrentProperties DEF IndInv, AtStage, TypeOK
<1>3. NoResult \in StageResult
  BY NamesAreNames DEF NoResult, StageResult
<1>4. previous' \in [stage : Name, status : {"", "pass", "fail", "error"}]
  BY <1>1, <1>2, DefinitionFields DEF StageResult
<1>5. verdicts' \in SUBSET [key : Name, count : Nat]
  <2>1. verdicts \in SUBSET [key : Name, count : Nat] /\ Current.name \in Name
    BY <1>2, DefinitionFields DEF IndInv, TypeOK
  <2>2. /\ Without(verdicts, Current.name) \in SUBSET [key : Name, count : Nat]
        /\ Bump(verdicts, Current.name) \in SUBSET [key : Name, count : Nat]
    BY <2>1, CountType
  <2> QED
    BY <1>1, <2>1, <2>2 DEF RecordVerdict
<1>6. s \in RunState
  BY DEF StateInv
<1>7. TypeOK'
  BY <1>1, <1>3, <1>4, <1>5, <1>6 DEF IndInv, TypeOK
<1>8. StateInv(mem)' /\ StateInv(disk)'
  BY <1>1
<1> QED
  BY <1>1, <1>7, <1>8 DEF IndInv

(* A raised error leaves the saved state as it was. *)
LEMMA RaiseStep ==
  ASSUME IndInv, Raise
  PROVE  IndInv'
<1>1. NoResult \in StageResult
  BY NamesAreNames DEF NoResult, StageResult
<1>2. /\ pc' = "failed" /\ result' = NoResult
      /\ mem' = mem /\ disk' = disk /\ previous' = previous /\ crashes' = crashes
      /\ verdicts' = verdicts
  BY DEF Raise
<1>3. TypeOK'
  BY <1>1, <1>2 DEF IndInv, TypeOK, PC
<1>4. StateInv(mem)' /\ StateInv(disk)'
  BY <1>2 DEF IndInv
<1> QED
  BY <1>2, <1>3, <1>4 DEF IndInv

--------------------------------------------------------------------------
(* The invariant holds at first and is kept by every action. *)

(* A new run satisfies the invariant. *)
LEMMA InitIndInv == Init => IndInv
<1> SUFFICES ASSUME Init PROVE IndInv
  OBVIOUS
<1> DEFINE n == Len(Workflow)
           static(i) == Instantiate(Workflow[i], 0, {}, Nothing)
           w == [i \in 1 .. n |-> static(i)]
           none == {}
           no == FALSE
           noTasks == <<>>
<1>1. Workflow \in Seq(Template) /\ n \in Nat /\ DOMAIN Workflow = 1 .. n
  BY WorkflowAssumption, LenProperties
<1>2. ASSUME NEW i \in 1 .. n
      PROVE  /\ static(i) \in Definition
             /\ static(i).name = StageName(0, Workflow[i].local) /\ static(i).path = {}
             /\ static(i).pass = Resolve(0, Workflow[i].pass)
             /\ static(i).fail = Resolve(0, Workflow[i].fail)
             /\ static(i).targets = {StageName(0, l) : l \in Workflow[i].targets}
             /\ static(i).continue = Nothing
             /\ static(i).review = Workflow[i].review
  <2>1. Workflow[i] \in Template
    BY <1>1, ElementOfSeq
  <2>2. Nothing \in Name /\ {} \in SUBSET Nat /\ 0 \in Nat
    BY NamesAreNames
  <2>3. static(i) \in Definition
    BY <2>1, <2>2, InstantiateType
  <2> QED
    BY <2>3 DEF Instantiate
<1> HIDE DEF static
<1>3. w \in Seq(Definition)
  <2>1. w \in [1 .. n -> Definition]
    BY <1>2
  <2> HIDE DEF w, n
  <2> QED
    BY <1>1, <2>1, SeqDef
<1>4. Stages(w) = {static(i) : i \in 1 .. n}
  BY DEF Stages
<1>5. \A i \in 1 .. n : static(i).name \in Names(w)
  BY DEF Names
<1>6. mem = [cycle |-> 1, current |-> 0, tasks |-> noTasks, completed |-> no,
             stage |-> "active", position |-> 0, workflow |-> w,
             groups |-> none, taskGroups |-> none, expansions |-> 0,
             sessions |-> none, failures |-> none, previous |-> NoPrevious]
  BY DEF Init, static
<1>7. /\ NoPrevious \in [stage : Name, status : {"", "pass", "fail", "error"}]
      /\ NoResult \in StageResult
  BY NamesAreNames DEF NoPrevious, NoResult, StageResult
<1>8. /\ none \in SUBSET Name
      /\ none \in SUBSET [key : [review : Name, scope : Name], count : Nat]
      /\ none \in SUBSET [source : Name, group : Nat]
      /\ none \in SUBSET [source : Name, task : Name]
      /\ no \in BOOLEAN /\ 0 \in Nat /\ 1 \in Nat /\ noTasks \in Seq(Task)
  BY EmptySeq
<1> HIDE DEF w, none, no, noTasks
<1>9. mem \in RunState
  BY <1>3, <1>6, <1>7, <1>8, Zenon DEF RunState
<1>10. mem.workflow = w /\ mem.groups = {} /\ mem.expansions = 0 /\ ~mem.completed
  BY <1>6 DEF none, no
<1>11. GroupsNumbered(mem)
  BY <1>2, <1>4, <1>10, RefFields DEF GroupsNumbered
<1>12. RoutesOutward(mem)
  <2>1. ASSUME NEW i \in 1 .. n, NEW m \in RouteTargets(static(i)) \ Keywords
        PROVE  m \in Names(w)
    <3>1. \A l : l \in Reserved => Resolve(0, l) \in Keywords
      BY DEF Reserved, Resolve, Keywords, GoNext, GoDone, GoStop
    <3>2. \A l : l \notin Reserved => Resolve(0, l) = StageName(0, l)
      BY DEF Resolve
    <3>3. /\ {Workflow[i].pass, Workflow[i].fail}
               \subseteq {Workflow[j].local : j \in 1 .. n} \cup Reserved
          /\ Workflow[i].targets \subseteq {Workflow[j].local : j \in 1 .. n}
      <4> DEFINE labels == {Workflow[j].local : j \in DOMAIN Workflow}
      <4>1. \A k \in DOMAIN Workflow :
              /\ {Workflow[k].pass, Workflow[k].fail} \subseteq labels \cup Reserved
              /\ Workflow[k].targets \subseteq labels \ {Workflow[k].local}
        BY WorkflowAssumption, Zenon DEF RoutesValid
      <4>2. labels = {Workflow[j].local : j \in 1 .. n}
        BY <1>1
      <4>3. i \in DOMAIN Workflow
        BY <1>1
      <4> HIDE DEF labels, n
      <4> QED
        BY <4>1, <4>2, <4>3
    <3>4. \A l \in {Workflow[j].local : j \in 1 .. n} : StageName(0, l) \in Names(w)
      BY <1>2, <1>5
    <3>5. {static(i).pass, static(i).fail} \cup static(i).targets
            \subseteq Keywords \cup Names(w)
      BY <1>2, <3>1, <3>2, <3>3, <3>4
    <3>6. static(i).name.group = 0 /\ static(i).continue = Nothing
      BY <1>2, RefFields
    <3> QED
      BY <3>5, <3>6 DEF RouteTargets
  <2> QED
    BY <1>2, <1>4, <1>10, <2>1 DEF RoutesOutward
<1>13. ProducersOutside(mem)
  BY <1>10 DEF ProducersOutside, OldGroups
<1>14. \A d \in Stages(mem.workflow) : d.review => d.targets = {}
  <2>1. \A i \in 1 .. n : Workflow[i].review => Workflow[i].targets = {}
    BY <1>1, WorkflowAssumption
  <2>2. \A i \in 1 .. n : Workflow[i].targets = {} => static(i).targets = {}
    BY <1>2
  <2> QED
    BY <1>2, <1>4, <1>10, <2>1, <2>2
<1>15. StateInv(mem)
  BY <1>9, <1>10, <1>11, <1>12, <1>13, <1>14 DEF StateInv
<1>16. /\ disk = mem /\ pc = "loop" /\ result = NoResult /\ previous = NoPrevious
       /\ crashes = 0 /\ verdicts = {}
  BY DEF Init
<1>17. TypeOK
  BY <1>7, <1>9, <1>16 DEF TypeOK, PC
<1> QED
  BY <1>15, <1>16, <1>17 DEF IndInv

(* Entering, bypassing, exhausting cycles and finishing keep it. *)
LEMMA EnterIndInv == IndInv /\ Enter => IndInv'
<1> SUFFICES ASSUME IndInv, Enter PROVE IndInv'
  OBVIOUS
<1> DEFINE Previous == [stage : Name, status : {"", "pass", "fail", "error"}]
           a == Activate(mem, Current)
<1>1. /\ mem \in RunState /\ StateInv(mem) /\ pc \in PC /\ result \in StageResult
      /\ previous \in Previous /\ crashes \in Nat
  BY DEF IndInv, TypeOK
<1>2. ASSUME NEW t, SameWorkflow(mem, t), t.completed = mem.completed, t.tasks = mem.tasks
      PROVE  StateInv(t)
  <2>1. t.completed => AllTasksCompleted(t)
    BY <1>1, <1>2 DEF StateInv, AllTasksCompleted
  <2> QED
    BY <1>1, <1>2, <2>1, SameWorkflowInv
<1>3. ASSUME MoreStages, BindingKnown(mem, Current)
      PROVE  /\ SameWorkflow(mem, a) /\ a \in RunState
             /\ a.completed = mem.completed /\ a.tasks = mem.tasks
             /\ a.position = mem.position /\ ~mem.completed
             /\ mem.position < Len(mem.workflow) /\ Current \in Definition
  <2>1. Current \in Definition
    BY <1>1, <1>3, CurrentProperties DEF MoreStages
  <2>2. /\ SameWorkflow(mem, a) /\ a.completed = mem.completed
        /\ a.tasks = mem.tasks /\ a.position = mem.position
    BY <1>1, <1>3, <2>1, ActivateProperties
  <2> QED
    BY <1>3, <2>1, <2>2 DEF MoreStages, SameWorkflow
<1> HIDE DEF a
<1>4. CASE ExhaustCycles
  <2>1. mem' = [mem EXCEPT !.stage = "max_cycles_exhausted"]
    BY <1>4 DEF ExhaustCycles
  <2>2. SameWorkflow(mem, mem') /\ mem'.completed = mem.completed /\ mem'.tasks = mem.tasks
    BY <1>1, <2>1, RunStateFields, BookkeepingProperties
  <2>3. StateInv(mem')
    BY <1>2, <2>2
  <2> QED
    BY <1>1, <1>4, <2>3, MoveStep DEF ExhaustCycles, Save, PC
<1>5. CASE FinishAtEnd
  <2>1. CASE AllTasksCompleted(mem) /\ mem' = FinishRun(mem) /\ Save /\ pc' = "finished"
    <3>1. SameWorkflow(mem, mem') /\ mem'.tasks = mem.tasks
      BY <1>1, <2>1, FinishRunProperties
    <3>2. AllTasksCompleted(mem')
      BY <2>1, <3>1 DEF AllTasksCompleted
    <3>3. StateInv(mem')
      BY <1>1, <3>1, <3>2, SameWorkflowInv
    <3> QED
      BY <1>1, <1>5, <2>1, <3>3, MoveStep DEF FinishAtEnd, Save, PC
  <2>2. CASE pc' = "failed" /\ UNCHANGED <<mem, disk>>
    BY <1>1, <1>5, <2>2, MoveStep DEF FinishAtEnd, PC
  <2> QED
    BY <1>5, <2>1, <2>2 DEF FinishAtEnd
<1>6. CASE ReturnCompleted
  BY <1>1, <1>6, MoveStep DEF ReturnCompleted, PC
<1>7. CASE UnknownTask
  BY <1>1, <1>7, MoveStep DEF UnknownTask, PC
<1>8. CASE BypassReview
  <2> DEFINE failures == Without(a.failures, ReviewKey(a, Current))
  <2>1. /\ MoreStages /\ BindingKnown(mem, Current) /\ Save /\ pc' = "settle"
        /\ mem' = [a EXCEPT !.failures = failures, !.stage = "active"]
        /\ MustBypass(a, Current)
        /\ result' = [NoResult EXCEPT !.bypassed = TRUE]
        /\ previous' = previous /\ crashes' = crashes /\ verdicts' = verdicts
    BY <1>8 DEF BypassReview, a
  <2>2. failures \in SUBSET [key : [review : Name, scope : Name], count : Nat]
    BY <1>3, <2>1, RunStateFields, ReviewKeyType, CountType
  <2> HIDE DEF failures
  <2>3. /\ SameWorkflow(a, mem') /\ mem'.completed = a.completed
        /\ mem'.tasks = a.tasks /\ mem'.position = a.position
    BY <1>3, <2>1, <2>2, RunStateFields, BookkeepingProperties, ZenonT(60)
  <2>4. SameWorkflow(mem, mem')
    BY <1>3, <2>1, <2>3 DEF SameWorkflow
  <2>5. StateInv(mem') /\ AtStage'
    BY <1>2, <1>3, <2>1, <2>3, <2>4 DEF AtStage, SameWorkflow
  <2>6. result' \in StageResult
    BY <2>1, NamesAreNames DEF NoResult, StageResult
  <2>7. HandoffChose'
    <3>1. Current' = Current
      BY <1>3, <2>1, <2>3, <2>4 DEF Current, SameWorkflow
    <3>2. Current.targets = {}
      BY <1>1, <1>3, <2>1, CurrentProperties DEF MustBypass, Counted, StateInv
    <3> QED
      BY <3>1, <3>2 DEF HandoffChose
  <2> QED
    BY <1>1, <2>1, <2>5, <2>6, <2>7, MoveStep DEF Save, PC
<1>9. CASE BeginStage
  <2>1. /\ MoreStages /\ BindingKnown(mem, Current) /\ pc' = "executing"
        /\ \/ mem' = [a EXCEPT !.stage = "active"] /\ Save
           \/ mem' = a /\ UNCHANGED disk
        /\ UNCHANGED <<result, previous, crashes, verdicts>>
    BY <1>9 DEF BeginStage, a
  <2>2. /\ SameWorkflow(a, mem') /\ mem'.completed = a.completed
        /\ mem'.tasks = a.tasks /\ mem'.position = a.position
    <3>1. CASE mem' = [a EXCEPT !.stage = "active"]
      BY <1>3, <2>1, <3>1, RunStateFields, BookkeepingProperties
    <3>2. CASE mem' = a
      BY <1>3, <2>1, <3>2 DEF SameWorkflow
    <3> QED
      BY <2>1, <3>1, <3>2
  <2>3. SameWorkflow(mem, mem')
    BY <1>3, <2>1, <2>2 DEF SameWorkflow
  <2>4. StateInv(mem') /\ AtStage'
    BY <1>2, <1>3, <2>1, <2>2, <2>3 DEF AtStage, SameWorkflow
  <2> QED
    BY <1>1, <2>1, <2>4, MoveStep DEF Save, PC
<1> QED
  BY <1>4, <1>5, <1>6, <1>7, <1>8, <1>9 DEF Enter

(* Running a Stage keeps it. *)
LEMMA ExecuteIndInv == IndInv /\ Execute => IndInv'
<1> SUFFICES ASSUME IndInv, Execute PROVE IndInv'
  OBVIOUS
<1> DEFINE Previous == [stage : Name, status : {"", "pass", "fail", "error"}]
<1>1. /\ mem \in RunState /\ StateInv(mem) /\ pc \in PC /\ result \in StageResult
      /\ previous \in Previous /\ crashes \in Nat /\ AtStage /\ pc = "executing"
  BY DEF IndInv, TypeOK, Execute, RememberSession, RotateSession, FinishStage, FailStage
<1>2. Current \in Definition
  BY <1>1, CurrentProperties DEF AtStage
<1>3. CASE RememberSession \/ RotateSession
  <2> DEFINE with    == mem.sessions \cup {Current.name}
             without == mem.sessions \ {Current.name}
  <2>1. with \in SUBSET Name /\ without \in SUBSET Name
    BY <1>1, <1>2, RunStateFields, DefinitionFields
  <2>2. mem' \in {[mem EXCEPT !.sessions = with], [mem EXCEPT !.sessions = without]}
    BY <1>3 DEF RememberSession, RotateSession
  <2> HIDE DEF with, without
  <2>3. /\ SameWorkflow(mem, mem') /\ mem'.completed = mem.completed
        /\ mem'.tasks = mem.tasks /\ mem'.position = mem.position
    <3>1. CASE mem' = [mem EXCEPT !.sessions = with]
      BY <1>1, <2>1, <3>1, RunStateFields, BookkeepingProperties
    <3>2. CASE mem' = [mem EXCEPT !.sessions = without]
      BY <1>1, <2>1, <3>2, RunStateFields, BookkeepingProperties
    <3> QED
      BY <2>2, <3>1, <3>2
  <2>4. StateInv(mem') /\ AtStage'
    <3>1. AllTasksCompleted(mem) => AllTasksCompleted(mem')
      BY <2>3 DEF AllTasksCompleted
    <3> QED
      BY <1>1, <2>3, <3>1, SameWorkflowInv DEF AtStage, SameWorkflow
  <2> QED
    BY <1>1, <1>3, <2>4, MoveStep DEF RememberSession, RotateSession, Save
<1>4. CASE FinishStage
  <2>1. /\ result' \in Outcomes(Current) /\ mem' = mem /\ disk' = mem' /\ pc' = "settle"
        /\ previous' = previous /\ crashes' = crashes /\ verdicts' = verdicts
    BY <1>4 DEF FinishStage, Save
  <2>2. result' \in StageResult /\ HandoffChose'
    <3>1. /\ Current' = Current
          /\ Current.yields \subseteq FlowId /\ Current.targets \subseteq Name
      BY <1>2, <2>1 DEF Current, Definition
    <3>2. NoResult \in StageResult
      BY NamesAreNames DEF NoResult, StageResult
    <3>3. CASE result' = [NoResult EXCEPT !.status = "error"]
      BY <3>1, <3>2, <3>3 DEF HandoffChose, NoResult, StageResult
    <3>4. CASE result' = [NoResult EXCEPT !.status = "fail"]
      BY <3>1, <3>2, <3>4 DEF HandoffChose, NoResult, StageResult
    <3>5. ASSUME NEW f \in Current.yields, result' = [NoResult EXCEPT !.flow = f],
                 Current.targets = {}
          PROVE  result' \in StageResult /\ HandoffChose'
      BY <3>1, <3>2, <3>5 DEF HandoffChose, NoResult, StageResult
    <3>6. ASSUME NEW t \in Current.targets, result' = [NoResult EXCEPT !.target = t]
          PROVE  result' \in StageResult /\ HandoffChose'
      BY <3>1, <3>2, <3>6 DEF HandoffChose, NoResult, StageResult
    <3>7. CASE result' = NoResult /\ Current.targets = {}
      BY <3>1, <3>2, <3>7 DEF HandoffChose
    <3>8. \/ result' = [NoResult EXCEPT !.status = "error"]
          \/ result' = [NoResult EXCEPT !.status = "fail"]
          \/ \E f \in Current.yields :
               result' = [NoResult EXCEPT !.flow = f] /\ Current.targets = {}
          \/ \E t \in Current.targets : result' = [NoResult EXCEPT !.target = t]
          \/ result' = NoResult /\ Current.targets = {}
      BY <2>1, Zenon DEF Outcomes, Passes
    <3> QED
      BY <3>3, <3>4, <3>5, <3>6, <3>7, <3>8, Zenon
  <2> QED
    BY <1>1, <2>1, <2>2, MoveStep DEF AtStage, PC
<1>5. CASE FailStage
  BY <1>5, RaiseStep DEF FailStage
<1> QED
  BY <1>3, <1>4, <1>5 DEF Execute

(* A crash and a resume keep it. *)
LEMMA RecoverIndInv == IndInv /\ (Recover \/ Crash) => IndInv'
<1> SUFFICES ASSUME IndInv, Recover \/ Crash PROVE IndInv'
  OBVIOUS
<1>1. /\ StateInv(mem) /\ StateInv(disk) /\ result \in StageResult /\ crashes \in Nat
      /\ disk \in RunState
      /\ previous \in [stage : Name, status : {"", "pass", "fail", "error"}]
  BY DEF IndInv, TypeOK
<1>2. NoResult \in StageResult
  BY NamesAreNames DEF NoResult, StageResult
<1>3. CASE Crash
  <2>1. /\ mem' = disk /\ disk' = disk /\ pc' = "down" /\ result' = NoResult
        /\ previous' = previous /\ verdicts' = verdicts /\ crashes' = crashes + 1
    BY <1>3 DEF Crash
  <2>2. StateInv(mem')
    BY <1>1, <2>1
  <2>3. pc' \in PC /\ pc' \notin {"executing", "settle"}
    BY <2>1 DEF PC
  <2>4. crashes' \in Nat
    <3>1. crashes \in Nat /\ crashes' = crashes + 1
      BY <1>1, <2>1
    <3> QED
      BY ONLY <3>1
  <2> QED
    BY <1>1, <1>2, <2>1, <2>2, <2>3, <2>4, MoveStep, Zenon
<1>4. CASE RefuseResume
  BY <1>1, <1>4, MoveStep DEF RefuseResume, PC
<1>5. CASE ResumeAfterCrash \/ ResumeByOperator
  <2>1. /\ mem' = Normalize(disk) /\ disk' = mem' /\ pc' = "loop" /\ result' = result
        /\ previous' = disk.previous /\ verdicts' = verdicts
        /\ crashes' \in {crashes, crashes + 1}
    BY <1>5 DEF ResumeAfterCrash, ResumeByOperator, Resume, Save
  <2>2. SameWorkflow(disk, mem') /\ (mem'.completed => disk.completed)
        /\ mem'.tasks = disk.tasks
    BY <1>1, <2>1, NormalizeProperties
  <2>3. mem'.completed => AllTasksCompleted(mem')
    BY <1>1, <2>2 DEF StateInv, AllTasksCompleted
  <2>4. StateInv(mem')
    BY <1>1, <2>2, <2>3, SameWorkflowInv
  <2>5. disk.previous \in [stage : Name, status : {"", "pass", "fail", "error"}]
    BY <1>1 DEF RunState
  <2>6. pc' \in PC /\ pc' \notin {"executing", "settle"}
    BY <2>1 DEF PC
  <2>7. crashes' \in Nat
    <3>1. crashes \in Nat /\ crashes' \in {crashes, crashes + 1}
      BY <1>1, <2>1
    <3> QED
      BY ONLY <3>1
  <2> QED
    BY <1>1, <2>1, <2>4, <2>5, <2>6, <2>7, MoveStep, Zenon
<1> QED
  BY <1>3, <1>4, <1>5 DEF Recover

(* Settling: the state committed is one of five, and each is sound. *)
LEMMA SettleIndInv == IndInv /\ Settle => IndInv'
<1> SUFFICES ASSUME IndInv, Settle PROVE IndInv'
  OBVIOUS
<1>1. /\ pc = "settle" /\ StateInv(mem) /\ AtStage /\ mem \in RunState
  BY DEF Settle, ExpandChildren, RejectExpansion, SettleWithoutTask, Settled, SettleStop,
         SettleDone, SettleNext, SettleRoute, IndInv, TypeOK
<1>2. ASSUME NEW t, SameWorkflow(mem, t), ~t.completed PROVE StateInv(t)
  BY <1>1, <1>2, SameWorkflowInv
<1>3. ASSUME ~NoTaskToFinish
      PROVE  /\ SameWorkflow(mem, TaskSettled) /\ ~TaskSettled.completed
             /\ TaskSettled.position = mem.position /\ TaskSettled \in RunState
  BY <1>1, <1>3, TaskSettledProperties DEF SameWorkflow
<1>4. /\ DynamicTarget(Current, Target) \in Keywords \cup Names(mem.workflow)
      /\ Target \in Keywords \cup RouteTargets(Current)
  BY <1>1, TargetKnown
<1>5. CASE ExpandChildren
  <2> DEFINE e == Expand(Recorded, Current, result.flow, Target)
             position == mem.position + 1
  <2>1. SameWorkflow(mem, Recorded) /\ ~Recorded.completed
    BY <1>1, RecordedProperties
  <2>2. StateInv(Recorded)
    BY <1>2, <2>1
  <2>3. Current \in Stages(Recorded.workflow)
    BY <1>1, <2>1, CurrentProperties DEF AtStage, SameWorkflow
  <2>4. result.flow \in FlowId /\ FlowAccepted(result.flow)
    BY <1>5 DEF ExpandChildren, Expands, IndInv, TypeOK, StageResult
  <2>5. StateInv(e) /\ ~e.completed
    BY <1>4, <2>1, <2>2, <2>3, <2>4, ExpandPreservesStateInv
  <2>6. position \in Nat
    BY <1>1, RunStateFields
  <2>7. Commit([e EXCEPT !.position = position], "loop")
    BY <1>5 DEF ExpandChildren
  <2> HIDE DEF e, position
  <2>8. StateInv([e EXCEPT !.position = position])
    <3> DEFINE t == [e EXCEPT !.position = position]
    <3>1. e \in RunState
      BY <2>5 DEF StateInv
    <3>2. t \in RunState
      BY <2>6, <3>1, Zenon DEF RunState
    <3>3. SameWorkflow(e, t) /\ t.completed = e.completed
      BY <3>1, <3>2, Zenon DEF RunState, SameWorkflow
    <3> QED
      BY <2>5, <3>3, SameWorkflowInv
  <2> QED
    BY <1>1, <2>7, <2>8, CommitStep DEF PC
<1>6. CASE RejectExpansion \/ SettleWithoutTask
  BY <1>6, RaiseStep DEF RejectExpansion, SettleWithoutTask
<1>7. CASE SettleStop
  <2>1. StateInv(TaskSettled)
    BY <1>2, <1>3, <1>7 DEF SettleStop, Settled
  <2> QED
    BY <1>1, <1>7, <2>1, CommitStep DEF SettleStop, PC
<1>8. CASE SettleDone
  <2>1. CASE AllTasksCompleted(TaskSettled)
    <3>1. SameWorkflow(mem, TaskSettled) /\ TaskSettled \in RunState
      BY <1>3, <1>8 DEF SettleDone, Settled
    <3>2. /\ SameWorkflow(TaskSettled, FinishRun(TaskSettled))
          /\ FinishRun(TaskSettled).tasks = TaskSettled.tasks
      BY <3>1, FinishRunProperties
    <3>3. SameWorkflow(mem, FinishRun(TaskSettled))
      BY <3>1, <3>2 DEF SameWorkflow
    <3>4. AllTasksCompleted(FinishRun(TaskSettled))
      BY <2>1, <3>2 DEF AllTasksCompleted
    <3>5. StateInv(FinishRun(TaskSettled))
      BY <1>1, <3>3, <3>4, SameWorkflowInv
    <3>6. Commit(FinishRun(TaskSettled), "loop")
      BY <1>8, <2>1 DEF SettleDone
    <3> QED
      BY <1>1, <3>5, <3>6, CommitStep DEF PC
  <2>2. CASE ~AllTasksCompleted(TaskSettled)
    BY <1>8, <2>2, RaiseStep DEF SettleDone
  <2> QED
    BY <2>1, <2>2
<1>9. CASE SettleNext
  <2> DEFINE position == TaskSettled.position + 1
             t == [TaskSettled EXCEPT !.position = position]
  <2>1. /\ SameWorkflow(mem, TaskSettled) /\ TaskSettled \in RunState
        /\ ~TaskSettled.completed
    BY <1>3, <1>9 DEF SettleNext, Settled
  <2>2. position \in Nat
    BY <2>1, RunStateFields
  <2>3. Commit(t, "loop")
    BY <1>9 DEF SettleNext
  <2> HIDE DEF position
  <2>4. t \in RunState
    BY <2>1, <2>2, Zenon DEF RunState
  <2>5. SameWorkflow(TaskSettled, t) /\ ~t.completed
    BY <2>1, <2>4, Zenon DEF RunState, SameWorkflow
  <2>6. SameWorkflow(mem, t)
    BY <2>1, <2>5 DEF SameWorkflow
  <2>7. StateInv(t)
    BY <1>2, <2>5, <2>6
  <2> HIDE DEF t
  <2> QED
    BY <1>1, <2>3, <2>7, CommitStep DEF PC
<1>10. CASE SettleRoute
  <2> DEFINE target == DynamicTarget(Current, Target)
             t == Route(TaskSettled, target)
  <2>1. /\ SameWorkflow(mem, TaskSettled) /\ TaskSettled \in RunState
        /\ ~TaskSettled.completed
    BY <1>3, <1>10 DEF SettleRoute, Settled
  <2>2. target \in Names(TaskSettled.workflow)
    BY <1>4, <1>10, <2>1 DEF SettleRoute, SameWorkflow
  <2>3. SameWorkflow(TaskSettled, t) /\ ~t.completed
    BY <2>1, <2>2, RouteProperties
  <2>4. SameWorkflow(mem, t)
    BY <2>1, <2>3 DEF SameWorkflow
  <2>5. StateInv(t)
    BY <1>2, <2>3, <2>4
  <2>6. Commit(t, "loop")
    BY <1>10 DEF SettleRoute
  <2> HIDE DEF t
  <2> QED
    BY <1>1, <2>5, <2>6, CommitStep DEF PC
<1> QED
  BY <1>5, <1>6, <1>7, <1>8, <1>9, <1>10 DEF Settle

(* Every step keeps it. *)
LEMMA NextIndInv == IndInv /\ [Next]_vars => IndInv'
<1> SUFFICES ASSUME IndInv, [Next]_vars PROVE IndInv'
  OBVIOUS
<1>1. CASE UNCHANGED vars \/ Terminated
  BY <1>1 DEF Terminated, vars, IndInv, TypeOK, AtStage, HandoffChose, Current
<1> QED
  BY <1>1, EnterIndInv, ExecuteIndInv, SettleIndInv, RecoverIndInv DEF Next

--------------------------------------------------------------------------
(* The inductive invariant of the engine, for every configured Workflow,     *)
(* every child Workflow its producers may return and every interruption.     *)
THEOREM EngineInvariant == Spec => []IndInv
BY InitIndInv, NextIndInv, PTL DEF Spec

(* The state, in memory and on disk, keeps its types. *)
THEOREM TypeCorrect == Spec => []TypeOK
<1>1. IndInv => TypeOK
  BY DEF IndInv
<1> QED
  BY <1>1, EngineInvariant, PTL

(* No expansion, supersession, crash or resume ever leaves a Stage that can   *)
(* be routed to a name the Workflow does not hold (flow_engine.py:243-266).   *)
THEOREM RoutesAlwaysResolve == Spec => []RoutesResolve
<1>1. IndInv => RoutesResolve
  BY DEF IndInv, StateInv, RoutesOutward, RoutesResolve
<1> QED
  BY <1>1, EngineInvariant, PTL

(* No run is, or is saved as, completed while a task of it is pending. *)
THEOREM CompletionIsReal == Spec => []CompletedHasNoPendingTask
<1>1. IndInv => CompletedHasNoPendingTask
  BY DEF IndInv, StateInv, CompletedHasNoPendingTask
<1> QED
  BY <1>1, EngineInvariant, PTL

--------------------------------------------------------------------------
(* Cycles: what a commit may do without moving forward. *)

(* Settling a task leaves the cycle to the routing. *)
LEMMA CycleKept ==
  ASSUME IndInv, pc = "settle", ~NoTaskToFinish
  PROVE  TaskSettled.cycle = mem.cycle
<1>1. mem \in RunState /\ Current \in Definition
  BY CurrentProperties DEF IndInv, AtStage, TypeOK
<1> DEFINE r     == RecordReview(mem, Current, result)
           k     == ReviewKey(mem, Current)
           clear == Without(mem.failures, k)
           bump  == Bump(mem.failures, k)
           now   == [stage |-> Current.name, status |-> result.status]
<1>2. r \in {mem, [mem EXCEPT !.failures = clear], [mem EXCEPT !.failures = bump]}
  BY DEF RecordReview
<1>3. r \in RunState
  BY <1>1, RecordReviewProperties DEF SameWorkflow
<1>4. Recorded = [r EXCEPT !.previous = now]
  BY DEF Recorded
<1> HIDE DEF clear, bump, r, now
<1>5. r.cycle = mem.cycle
  BY <1>1, <1>2, Zenon DEF RunState
<1>6. Recorded.cycle = mem.cycle
  BY <1>3, <1>4, <1>5, Zenon DEF RunState
<1>7. Recorded \in RunState
  BY RecordedProperties DEF SameWorkflow
<1>8. CASE CompletesTask
  <2> DEFINE i        == Recorded.current + 1
             tasks    == [Recorded.tasks EXCEPT ![i].status = "completed"]
             failures == {e \in Recorded.failures : e.key.scope # Recorded.tasks[i].id}
  <2>1. TaskSettled =
          [Recorded EXCEPT !.tasks = tasks, !.failures = failures, !.current = i]
    BY <1>8 DEF TaskSettled, FinishTask
  <2> HIDE DEF i, tasks, failures
  <2> QED
    BY <1>6, <1>7, <2>1, Zenon DEF RunState
<1>9. CASE ~CompletesTask
  BY <1>6, <1>9 DEF TaskSettled
<1> QED
  BY <1>8, <1>9

(* Every commit that does not move forward counts a cycle, so max_cycles sees *)
(* every way a Workflow can loop, self-loops and dynamic children included.   *)
THEOREM EveryLoopIsCounted == Spec => BackwardMovesCount
<1> DEFINE Counts == pc = "settle" /\ pc' = "loop" /\ ~mem'.completed
                       => \/ mem'.position > mem.position
                          \/ mem'.cycle = NextCycle(mem.cycle)
<1>1. ASSUME IndInv, [Next]_vars PROVE [Counts]_vars
  <2> SUFFICES ASSUME pc = "settle", pc' = "loop", ~mem'.completed
               PROVE  mem'.position > mem.position \/ mem'.cycle = NextCycle(mem.cycle)
    OBVIOUS
  <2>1. mem \in RunState /\ mem.position \in Nat
    BY <1>1, RunStateFields DEF IndInv, TypeOK
  <2>2. ExpandChildren \/ SettleDone \/ SettleNext \/ SettleRoute
    <3>1. pc' # pc
      OBVIOUS
    <3> QED
      BY <1>1, <3>1 DEF Next, vars, Enter, Execute, Settle, Recover, Crash, Terminated,
         ExhaustCycles, FinishAtEnd, ReturnCompleted, UnknownTask, BypassReview, BeginStage,
         MoreStages, RememberSession, RotateSession, FinishStage, FailStage, RejectExpansion,
         SettleWithoutTask, SettleStop, Commit, Raise, ResumeAfterCrash, ResumeByOperator,
         RefuseResume
  <2>3. CASE ExpandChildren
    <3> DEFINE e == Expand(Recorded, Current, result.flow, Target)
               position == mem.position + 1
    <3>1. mem' = [e EXCEPT !.position = position] /\ e \in RunState
      <4>1. mem' = [e EXCEPT !.position = position]
        BY <2>3 DEF ExpandChildren, Commit
      <4>2. SameWorkflow(mem, Recorded) /\ ~Recorded.completed
        BY <1>1, RecordedProperties
      <4>3. StateInv(Recorded) /\ Current \in Stages(Recorded.workflow)
        BY <1>1, <4>2, SameWorkflowInv, CurrentProperties DEF IndInv, AtStage, SameWorkflow
      <4>4. result.flow \in FlowId /\ FlowAccepted(result.flow)
        BY <1>1, <2>3 DEF ExpandChildren, Expands, IndInv, TypeOK, StageResult
      <4>5. Target \in Keywords \cup RouteTargets(Current)
        BY <1>1, TargetKnown
      <4>6. StateInv(e)
        BY <4>2, <4>3, <4>4, <4>5, ExpandPreservesStateInv
      <4> QED
        BY <4>1, <4>6 DEF StateInv
    <3>2. position > mem.position
      BY <2>1
    <3> HIDE DEF e, position
    <3>3. mem'.position = position
      BY <3>1, Zenon DEF RunState
    <3> QED
      BY <3>2, <3>3
  <2>4. ASSUME ~NoTaskToFinish
        PROVE  /\ TaskSettled \in RunState /\ TaskSettled.position = mem.position
               /\ TaskSettled.cycle = mem.cycle
    BY <1>1, <2>4, TaskSettledProperties, CycleKept DEF SameWorkflow
  <2>5. CASE SettleDone
    <3>1. TaskSettled \in RunState /\ mem' = FinishRun(TaskSettled)
      BY <2>4, <2>5 DEF SettleDone, Settled, Commit, Raise
    <3>2. mem'.completed
      BY <3>1 DEF FinishRun, RunState
    <3> QED
      BY <3>2
  <2>6. CASE SettleNext
    <3> DEFINE position == TaskSettled.position + 1
    <3>1. /\ TaskSettled \in RunState /\ TaskSettled.position = mem.position
          /\ mem' = [TaskSettled EXCEPT !.position = position]
      BY <2>4, <2>6 DEF SettleNext, Settled, Commit
    <3>2. position > mem.position
      BY <2>1, <3>1
    <3> HIDE DEF position
    <3>3. mem'.position = position
      BY <3>1, Zenon DEF RunState
    <3> QED
      BY <3>2, <3>3
  <2>7. CASE SettleRoute
    <3> DEFINE p     == LastIndex(TaskSettled.workflow, DynamicTarget(Current, Target)) - 1
               cycle == IF p <= TaskSettled.position THEN NextCycle(TaskSettled.cycle)
                        ELSE TaskSettled.cycle
    <3>1. /\ TaskSettled \in RunState /\ TaskSettled.position = mem.position
          /\ TaskSettled.cycle = mem.cycle
          /\ mem' = [TaskSettled EXCEPT !.position = p, !.cycle = cycle, !.stage = "active"]
          /\ DynamicTarget(Current, Target) \in Names(TaskSettled.workflow)
      <4>1. ~NoTaskToFinish /\ mem' = Route(TaskSettled, DynamicTarget(Current, Target))
        BY <2>7 DEF SettleRoute, Settled, Commit
      <4>2. SameWorkflow(mem, TaskSettled)
        BY <1>1, <4>1, TaskSettledProperties
      <4>3. DynamicTarget(Current, Target) \in Names(mem.workflow)
        BY <1>1, <2>7, TargetKnown DEF SettleRoute
      <4> QED
        BY <2>4, <4>1, <4>2, <4>3 DEF Route, SameWorkflow
    <3>2. p \in Int
      <4>1. LastIndex(TaskSettled.workflow, DynamicTarget(Current, Target))
              \in DOMAIN TaskSettled.workflow
        BY <3>1, RunStateFields, LastIndexExists
      <4> QED
        BY <3>1, <4>1, RunStateFields, LenProperties
    <3>3. p > mem.position \/ cycle = NextCycle(mem.cycle)
      <4> HIDE DEF p
      <4> QED
        BY <2>1, <3>1, <3>2
    <3> HIDE DEF p, cycle
    <3>4. mem'.position = p /\ mem'.cycle = cycle
      BY <3>1, Zenon DEF RunState
    <3> QED
      BY <3>3, <3>4
  <2> QED
    BY <2>2, <2>3, <2>5, <2>6, <2>7
<1>2. IndInv /\ [Next]_vars => [Counts]_vars
  BY <1>1
<1> QED
  BY <1>2, EngineInvariant, PTL DEF Spec, BackwardMovesCount

--------------------------------------------------------------------------
(* Nothing of a superseded expansion stays behind. *)

TidyInv(s) ==
  /\ Tree(s) /\ OneOwner(s)
  /\ s.completed => s.stage = "completed"
  /\ ~s.completed => NothingStale(s)

(* t is s with the same Stages, groups and tasks, and no counter of another. *)
SameTree(s, t) ==
  /\ t \in RunState /\ ~t.completed
  /\ t.workflow = s.workflow /\ t.groups = s.groups /\ t.taskGroups = s.taskGroups
  /\ t.expansions = s.expansions /\ TaskIds(t) = TaskIds(s)
  /\ \A e \in t.failures :
       \/ e \in s.failures
       \/ e.key.review \in Names(s.workflow) /\ e.key.scope \in TaskIds(s) \cup {Nothing}

(* Such a change leaves nothing stale, and two of them are one. *)
LEMMA SameTreeTidy ==
  ASSUME NEW s, NEW t, TidyInv(s), ~s.completed, SameTree(s, t)
  PROVE  TidyInv(t)
<1>1. Tree(t) /\ OneOwner(t)
  BY DEF TidyInv, SameTree, Tree, OneOwner
<1>2. NothingStale(t)
  <2>1. NothingStale(s)
    BY DEF TidyInv
  <2>2. \A e \in t.failures :
          e.key.review \in Names(t.workflow) /\ e.key.scope \in TaskIds(t) \cup {Nothing}
    BY <2>1 DEF SameTree, NothingStale
  <2>3. /\ t.workflow = s.workflow /\ t.groups = s.groups /\ t.taskGroups = s.taskGroups
        /\ TaskIds(t) = TaskIds(s)
    BY DEF SameTree
  <2> QED
    BY <2>1, <2>2, <2>3 DEF NothingStale
<1> QED
  BY <1>1, <1>2 DEF TidyInv, SameTree

LEMMA SameTreeTransitive ==
  ASSUME NEW s, NEW t, NEW u, SameTree(s, t), SameTree(t, u)
  PROVE  SameTree(s, u)
BY DEF SameTree

(* Moving the position, the cycle, the current task or the session. *)
LEMMA FieldsKeepTree ==
  ASSUME NEW s \in RunState, ~s.completed, NEW t \in RunState,
         t.workflow = s.workflow, t.groups = s.groups, t.taskGroups = s.taskGroups,
         t.expansions = s.expansions, t.tasks = s.tasks, t.completed = s.completed,
         t.failures \subseteq s.failures
  PROVE  SameTree(s, t)
BY DEF SameTree, TaskIds

(* Entering a Stage. *)
LEMMA ActivateTree ==
  ASSUME NEW s \in RunState, ~s.completed, NEW d \in Definition, BindingKnown(s, d)
  PROVE  SameTree(s, Activate(s, d))
<1>1. CASE d.task = Nothing
  BY <1>1 DEF Activate, SameTree
<1>2. CASE d.task # Nothing
  <2> DEFINE current == (CHOOSE i \in DOMAIN s.tasks : s.tasks[i].id = d.task) - 1
             t == Activate(s, d)
  <2>1. t = [s EXCEPT !.current = current]
    BY <1>2 DEF Activate
  <2>2. t \in RunState
    BY ActivateProperties DEF SameWorkflow
  <2> HIDE DEF current, t
  <2>3. /\ t.workflow = s.workflow /\ t.groups = s.groups /\ t.taskGroups = s.taskGroups
        /\ t.expansions = s.expansions /\ t.tasks = s.tasks /\ t.completed = s.completed
        /\ t.failures = s.failures
    BY <2>1, Zenon DEF RunState
  <2>4. SameTree(s, t)
    BY <2>2, <2>3, FieldsKeepTree
  <2> QED
    BY <2>4 DEF t
<1> QED
  BY <1>1, <1>2

(* set_stage, session bookkeeping and a counter that is cleared. *)
LEMMA BookkeepingTree ==
  ASSUME NEW s \in RunState, ~s.completed,
         NEW stage \in {"active", "completed", "max_cycles_exhausted"},
         NEW sessions \in SUBSET Name,
         NEW failures \in SUBSET s.failures,
         NEW t \in {[s EXCEPT !.stage = stage], [s EXCEPT !.sessions = sessions],
                    [s EXCEPT !.failures = failures, !.stage = stage]}
  PROVE  SameTree(s, t)
<1>1. t \in RunState
  <2>1. failures \in SUBSET [key : [review : Name, scope : Name], count : Nat]
    BY RunStateFields
  <2>2. [s EXCEPT !.stage = stage] \in RunState
    BY Zenon DEF RunState
  <2>3. [s EXCEPT !.sessions = sessions] \in RunState
    BY Zenon DEF RunState
  <2>4. [s EXCEPT !.failures = failures, !.stage = stage] \in RunState
    BY <2>1, Zenon DEF RunState
  <2> QED
    BY <2>2, <2>3, <2>4, Zenon
<1>2. t.failures \in {s.failures, failures}
  BY Zenon DEF RunState
<1>3. /\ t.workflow = s.workflow /\ t.groups = s.groups /\ t.taskGroups = s.taskGroups
      /\ t.expansions = s.expansions /\ t.tasks = s.tasks /\ t.completed = s.completed
  BY Zenon DEF RunState
<1> QED
  BY <1>1, <1>2, <1>3, FieldsKeepTree

(* Moving the position. *)
LEMMA PositionTree ==
  ASSUME NEW s \in RunState, ~s.completed, NEW p \in Nat
  PROVE  SameTree(s, [s EXCEPT !.position = p])
<1> DEFINE t == [s EXCEPT !.position = p]
<1>1. t \in RunState
  BY Zenon DEF RunState
<1>2. /\ t.workflow = s.workflow /\ t.groups = s.groups /\ t.taskGroups = s.taskGroups
      /\ t.expansions = s.expansions /\ t.tasks = s.tasks /\ t.completed = s.completed
      /\ t.failures = s.failures
  BY Zenon DEF RunState
<1> HIDE DEF t
<1>3. SameTree(s, t)
  BY <1>1, <1>2, FieldsKeepTree
<1> QED
  BY <1>3 DEF t

LEMMA RouteTree ==
  ASSUME NEW s \in RunState, ~s.completed, NEW n \in Names(s.workflow)
  PROVE  SameTree(s, Route(s, n))
<1> DEFINE p     == LastIndex(s.workflow, n) - 1
           cycle == IF p <= s.position THEN NextCycle(s.cycle) ELSE s.cycle
           t     == Route(s, n)
<1>1. t = [s EXCEPT !.position = p, !.cycle = cycle, !.stage = "active"]
  BY DEF Route
<1>2. t \in RunState
  BY RouteProperties DEF SameWorkflow
<1> HIDE DEF p, cycle, t
<1>3. /\ t.workflow = s.workflow /\ t.groups = s.groups /\ t.taskGroups = s.taskGroups
      /\ t.expansions = s.expansions /\ t.tasks = s.tasks /\ t.completed = s.completed
      /\ t.failures = s.failures
  BY <1>1, Zenon DEF RunState
<1>4. SameTree(s, t)
  BY <1>2, <1>3, FieldsKeepTree
<1> QED
  BY <1>4 DEF t

(* Recording the verdict of a Stage of the Workflow. *)
LEMMA RecordReviewTree ==
  ASSUME NEW s \in RunState, ~s.completed,
         NEW d \in Definition, d.name \in Names(s.workflow), NEW r
  PROVE  SameTree(s, RecordReview(s, d, r))
<1> DEFINE k == ReviewKey(s, d)
           without == Without(s.failures, k)
           bump    == Bump(s.failures, k)
           t       == RecordReview(s, d, r)
<1>1. t \in RunState
  BY RecordReviewProperties DEF SameWorkflow
<1>2. Scope(s) \in TaskIds(s) \cup {Nothing}
  <2>1. s.current \in Nat /\ Len(s.tasks) \in Nat /\ DOMAIN s.tasks = 1 .. Len(s.tasks)
    BY RunStateFields, LenProperties
  <2>2. s.current < Len(s.tasks) => s.current + 1 \in DOMAIN s.tasks
    BY <2>1
  <2> QED
    BY <2>2 DEF Scope, TaskIds
<1>3. without \subseteq s.failures
  BY DEF Without
<1>4. \A e \in bump : e \in s.failures \/ e.key = k
  BY DEF Bump, Without
<1>5. k.review = d.name /\ k.scope = Scope(s)
  BY DEF ReviewKey
<1>6. t \in {s, [s EXCEPT !.failures = without], [s EXCEPT !.failures = bump]}
  BY DEF RecordReview
<1> HIDE DEF k, without, bump, t
<1>7. t.failures \in {s.failures, without, bump}
  BY <1>6, Zenon DEF RunState
<1>8. /\ t.workflow = s.workflow /\ t.groups = s.groups /\ t.taskGroups = s.taskGroups
      /\ t.expansions = s.expansions /\ t.tasks = s.tasks /\ t.completed = s.completed
  BY <1>6, Zenon DEF RunState
<1>9. \A e \in t.failures :
        \/ e \in s.failures
        \/ e.key.review \in Names(s.workflow) /\ e.key.scope \in TaskIds(s) \cup {Nothing}
  <2> SUFFICES ASSUME NEW e \in t.failures, e \notin s.failures
               PROVE  e.key.review \in Names(s.workflow) /\ e.key.scope \in TaskIds(s) \cup {Nothing}
    OBVIOUS
  <2>1. e.key = k
    BY <1>3, <1>4, <1>7
  <2> QED
    BY <1>2, <1>5, <2>1
<1>10. TaskIds(t) = TaskIds(s)
  BY <1>8 DEF TaskIds
<1> QED
  BY <1>1, <1>8, <1>9, <1>10 DEF SameTree, t

(* Completing the current task renames none. *)
LEMMA FinishTaskTree ==
  ASSUME NEW s \in RunState, ~s.completed, s.current < Len(s.tasks)
  PROVE  SameTree(s, FinishTask(s))
<1> DEFINE i        == s.current + 1
           task     == [s.tasks[i] EXCEPT !.status = "completed"]
           tasks    == [s.tasks EXCEPT ![i] = task]
           failures == {e \in s.failures : e.key.scope # s.tasks[i].id}
           current  == s.current + 1
           t        == FinishTask(s)
<1>1. s.tasks \in Seq(Task) /\ i \in DOMAIN s.tasks
  BY RunStateFields, LenProperties
<1>2. t \in RunState
  BY FinishTaskProperties DEF SameWorkflow
<1>3. s.tasks[i] \in Task
  BY <1>1, LenProperties, ElementOfSeq
<1>4. task.id = s.tasks[i].id
  <2> HIDE DEF i
  <2> QED
    BY <1>3 DEF Task
<1>5. /\ DOMAIN tasks = DOMAIN s.tasks
      /\ \A j \in DOMAIN s.tasks : tasks[j].id = s.tasks[j].id
  <2> HIDE DEF task, i
  <2> QED
    BY <1>1, <1>4
<1>6. t = [s EXCEPT !.tasks = tasks, !.failures = failures, !.current = current]
  BY DEF FinishTask
<1>7. failures \subseteq s.failures
  OBVIOUS
<1> HIDE DEF i, task, tasks, failures, current, t
<1>8. /\ t.workflow = s.workflow /\ t.groups = s.groups /\ t.taskGroups = s.taskGroups
      /\ t.expansions = s.expansions /\ t.tasks = tasks /\ t.completed = s.completed
      /\ t.failures = failures
  BY <1>6, Zenon DEF RunState
<1>9. TaskIds(t) = TaskIds(s)
  BY <1>5, <1>8 DEF TaskIds
<1> QED
  BY <1>2, <1>7, <1>8, <1>9 DEF SameTree, t

(* Finishing a run drops what serves only an active run. *)
LEMMA FinishRunTidy ==
  ASSUME NEW s \in RunState, TidyInv(s)
  PROVE  TidyInv(FinishRun(s))
<1> DEFINE t == FinishRun(s)
           none == {}
           yes == TRUE
<1>1. t = [s EXCEPT !.previous = NoPrevious, !.sessions = none, !.failures = none,
                    !.groups = none, !.taskGroups = none, !.completed = yes,
                    !.stage = "completed"]
  BY DEF FinishRun
<1> HIDE DEF t, none, yes
<1>2. /\ t.workflow = s.workflow /\ t.groups = none /\ t.taskGroups = none
      /\ t.completed = yes /\ t.stage = "completed"
  BY <1>1, Zenon DEF RunState
<1> QED
  BY <1>2 DEF TidyInv, Tree, OneOwner, none, yes, t

(* A resume takes a completed run for completed. *)
LEMMA NormalizeTidy ==
  ASSUME NEW s \in RunState, TidyInv(s)
  PROVE  TidyInv(Normalize(s))
<1> DEFINE t         == Normalize(s)
           least     == Least(s.current, Len(s.tasks))
           current   == IF least < Len(s.tasks)
                           /\ s.tasks[least + 1].status = "completed"
                        THEN FirstPending(s) ELSE least
           completed == s.completed /\ s.stage = "completed"
<1>1. t = [s EXCEPT !.completed = completed, !.current = current]
  BY DEF Normalize
<1>2. completed = s.completed
  <2>1. s.completed \in BOOLEAN
    BY Zenon DEF RunState
  <2>2. s.completed => s.stage = "completed"
    BY DEF TidyInv
  <2> QED
    BY <2>1, <2>2, Zenon
<1> HIDE DEF t, current, completed
<1>3. /\ t.workflow = s.workflow /\ t.groups = s.groups /\ t.taskGroups = s.taskGroups
      /\ t.expansions = s.expansions /\ t.tasks = s.tasks /\ t.completed = completed
      /\ t.failures = s.failures /\ t.stage = s.stage
  BY <1>1, Zenon DEF RunState
<1>4. TaskIds(t) = TaskIds(s)
  BY <1>3 DEF TaskIds
<1> QED
  BY <1>2, <1>3, <1>4 DEF TidyInv, Tree, OneOwner, NothingStale, t

(* Everything a Stage's result changes before it is routed. *)
LEMMA RecordedTree ==
  ASSUME IndInv, pc = "settle"
  PROVE  SameTree(mem, Recorded)
<1> DEFINE r   == RecordReview(mem, Current, result)
           now == [stage |-> Current.name, status |-> result.status]
           t   == Recorded
<1>1. mem \in RunState /\ ~mem.completed /\ Current \in Definition
      /\ Current \in Stages(mem.workflow)
  BY CurrentProperties DEF IndInv, AtStage, StateInv
<1>2. Current.name \in Names(mem.workflow)
  BY <1>1 DEF Stages, Names
<1>3. SameTree(mem, r)
  BY <1>1, <1>2, RecordReviewTree
<1>4. t = [r EXCEPT !.previous = now]
  BY DEF Recorded
<1>5. t \in RunState
  BY RecordedProperties DEF SameWorkflow
<1> HIDE DEF r, now, t
<1>6. r \in RunState /\ ~r.completed
  BY <1>3 DEF SameTree
<1>7. /\ t.workflow = r.workflow /\ t.groups = r.groups /\ t.taskGroups = r.taskGroups
      /\ t.expansions = r.expansions /\ t.tasks = r.tasks /\ t.completed = r.completed
      /\ t.failures = r.failures
  BY <1>4, <1>6, Zenon DEF RunState
<1>8. SameTree(r, t)
  BY <1>5, <1>6, <1>7, FieldsKeepTree
<1> QED
  BY <1>3, <1>8, SameTreeTransitive DEF t

LEMMA TaskSettledTree ==
  ASSUME IndInv, pc = "settle", ~NoTaskToFinish
  PROVE  SameTree(mem, TaskSettled)
<1>1. SameTree(mem, Recorded) /\ Recorded \in RunState /\ ~Recorded.completed
  BY RecordedTree DEF SameTree
<1>2. CASE ~CompletesTask
  BY <1>1, <1>2 DEF TaskSettled
<1>3. CASE CompletesTask
  <2>1. Recorded.current < Len(Recorded.tasks)
    <3>1. Recorded.current \in Nat /\ Len(Recorded.tasks) \in Nat
      BY <1>1, RunStateFields, LenProperties
    <3> QED
      BY <1>3, <3>1 DEF NoTaskToFinish
  <2>2. SameTree(Recorded, FinishTask(Recorded))
    BY <1>1, <2>1, FinishTaskTree
  <2>3. SameTree(mem, FinishTask(Recorded))
    BY <1>1, <2>2, SameTreeTransitive
  <2> QED
    BY <1>3, <2>3 DEF TaskSettled
<1> QED
  BY <1>2, <1>3

EngineTidy == IndInv /\ TidyInv(mem) /\ TidyInv(disk)

(* A new run has no groups, tasks or counters. *)
LEMMA InitTidy == Init => EngineTidy
<1> SUFFICES ASSUME Init PROVE EngineTidy
  OBVIOUS
<1>1. IndInv
  BY InitIndInv
<1>2. /\ mem.tasks = <<>> /\ mem.completed = FALSE /\ mem.groups = {}
      /\ mem.taskGroups = {} /\ mem.expansions = 0 /\ mem.failures = {} /\ disk = mem
  BY Zenon DEF Init
<1>3. \A d \in Stages(mem.workflow) : d.path = {}
  <2>1. \A d \in Stages(mem.workflow) : d.path \subseteq 1 .. 0
    BY <1>1, <1>2 DEF IndInv, StateInv, GroupsNumbered
  <2>2. 1 .. 0 = {}
    OBVIOUS
  <2> QED
    BY <2>1, <2>2
<1>4. TaskIds(mem) = {}
  BY <1>2 DEF TaskIds
<1>5. NothingStale(mem)
  BY <1>2, <1>3, <1>4 DEF NothingStale
<1>6. Tree(mem) /\ OneOwner(mem)
  BY <1>2, <1>3 DEF Tree, OneOwner
<1> QED
  BY <1>1, <1>2, <1>5, <1>6 DEF EngineTidy, TidyInv

(* Before a result is settled only counters that exist are touched. *)
LEMMA EnterTidy ==
  ASSUME EngineTidy, Enter
  PROVE  TidyInv(mem') /\ disk' \in {disk, mem'}
<1> DEFINE a == Activate(mem, Current)
<1>1. mem \in RunState /\ StateInv(mem) /\ TidyInv(mem)
  BY Zenon DEF EngineTidy, IndInv, TypeOK
<1>2. ASSUME NEW t, ~mem.completed, SameTree(mem, t) PROVE TidyInv(t)
  BY <1>1, <1>2, SameTreeTidy
<1>3. ASSUME MoreStages, BindingKnown(mem, Current)
      PROVE  SameTree(mem, a) /\ a \in RunState /\ ~a.completed /\ ~mem.completed
  <2>1. Current \in Definition /\ ~mem.completed
    BY <1>1, <1>3, CurrentProperties DEF MoreStages
  <2>2. SameTree(mem, a)
    BY <1>1, <1>3, <2>1, ActivateTree
  <2> QED
    BY <2>1, <2>2 DEF SameTree
<1> HIDE DEF a
<1>4. CASE ExhaustCycles
  <2>1. mem' = [mem EXCEPT !.stage = "max_cycles_exhausted"] /\ ~mem.completed /\ disk' = mem'
    BY <1>4 DEF ExhaustCycles, MoreStages, Save
  <2>2. {} \in SUBSET Name /\ {} \in SUBSET mem.failures
    OBVIOUS
  <2>3. SameTree(mem, mem')
    BY <1>1, <2>1, <2>2, BookkeepingTree, Zenon
  <2> QED
    BY <1>2, <2>1, <2>3
<1>5. CASE FinishAtEnd
  BY <1>1, <1>5, FinishRunTidy DEF FinishAtEnd, Save
<1>6. CASE ReturnCompleted \/ UnknownTask
  BY <1>1, <1>6 DEF ReturnCompleted, UnknownTask
<1>7. CASE BypassReview
  <2> DEFINE failures == Without(a.failures, ReviewKey(a, Current))
  <2>1. /\ MoreStages /\ BindingKnown(mem, Current) /\ disk' = mem'
        /\ mem' = [a EXCEPT !.failures = failures, !.stage = "active"]
    BY <1>7 DEF BypassReview, Save, a
  <2>2. failures \in SUBSET a.failures /\ {} \in SUBSET Name
    BY DEF Without
  <2> HIDE DEF failures
  <2>3. SameTree(a, mem')
    BY <1>3, <2>1, <2>2, BookkeepingTree, Zenon
  <2>4. SameTree(mem, mem')
    BY <1>3, <2>1, <2>3, SameTreeTransitive
  <2> QED
    BY <1>2, <1>3, <2>1, <2>4
<1>8. CASE BeginStage
  <2>1. /\ MoreStages /\ BindingKnown(mem, Current)
        /\ \/ mem' = [a EXCEPT !.stage = "active"] /\ disk' = mem'
           \/ mem' = a /\ disk' = disk
    BY <1>8 DEF BeginStage, Save, a
  <2>2. {} \in SUBSET Name /\ {} \in SUBSET a.failures
    OBVIOUS
  <2>3. CASE mem' = [a EXCEPT !.stage = "active"]
    <3>1. SameTree(a, mem')
      BY <1>3, <2>1, <2>2, <2>3, BookkeepingTree, Zenon
    <3>2. SameTree(mem, mem')
      BY <1>3, <2>1, <3>1, SameTreeTransitive
    <3> QED
      BY <1>2, <1>3, <2>1, <3>2
  <2>4. CASE mem' = a
    BY <1>2, <1>3, <2>1, <2>4
  <2> QED
    BY <2>1, <2>3, <2>4
<1> QED
  BY <1>4, <1>5, <1>6, <1>7, <1>8 DEF Enter

LEMMA ExecuteTidy ==
  ASSUME EngineTidy, Execute
  PROVE  TidyInv(mem') /\ disk' \in {disk, mem'}
<1>1. mem \in RunState /\ StateInv(mem) /\ TidyInv(mem)
  BY Zenon DEF EngineTidy, IndInv, TypeOK
<1>2. CASE RememberSession \/ RotateSession
  <2> DEFINE sessions == IF RememberSession THEN mem.sessions \cup {Current.name}
                         ELSE mem.sessions \ {Current.name}
  <2>1. pc = "executing" /\ ~mem.completed /\ Current \in Definition
    BY <1>2, CurrentProperties
       DEF EngineTidy, IndInv, AtStage, RememberSession, RotateSession
  <2>2. disk' = mem' /\ mem' = [mem EXCEPT !.sessions = sessions]
    BY <1>2 DEF RememberSession, RotateSession, Save
  <2>3. sessions \in SUBSET Name
    BY <1>1, <2>1, RunStateFields, DefinitionFields
  <2> HIDE DEF sessions
  <2>4. {} \in SUBSET mem.failures
    OBVIOUS
  <2>5. SameTree(mem, mem')
    BY <1>1, <2>1, <2>2, <2>3, <2>4, BookkeepingTree, Zenon
  <2> QED
    BY <1>1, <2>1, <2>2, <2>5, SameTreeTidy
<1>3. CASE FinishStage \/ FailStage
  BY <1>1, <1>3 DEF FinishStage, FailStage, Raise, Save
<1> QED
  BY <1>2, <1>3 DEF Execute

LEMMA SettleTidy ==
  ASSUME EngineTidy, Settle
  PROVE  TidyInv(mem') /\ disk' \in {disk, mem'}
<1>1. /\ IndInv /\ pc = "settle" /\ StateInv(mem) /\ AtStage
      /\ mem \in RunState /\ ~mem.completed /\ TidyInv(mem)
  BY Zenon DEF Settle, ExpandChildren, RejectExpansion, SettleWithoutTask, Settled, SettleStop,
         SettleDone, SettleNext, SettleRoute, EngineTidy, IndInv, TypeOK, AtStage
<1>2. ASSUME NEW t, SameTree(mem, t) PROVE TidyInv(t)
  BY <1>1, <1>2, SameTreeTidy
<1>3. ASSUME ~NoTaskToFinish
      PROVE  SameTree(mem, TaskSettled) /\ TaskSettled \in RunState /\ ~TaskSettled.completed
             /\ TaskSettled.workflow = mem.workflow
  BY <1>1, <1>3, TaskSettledTree DEF SameTree
<1>4. CASE ExpandChildren
  <2> DEFINE e == Expand(Recorded, Current, result.flow, Target)
             position == mem.position + 1
  <2>1. SameTree(mem, Recorded) /\ Recorded.workflow = mem.workflow /\ ~Recorded.completed
    BY <1>1, RecordedTree DEF SameTree
  <2>2. StateInv(Recorded)
    BY <1>1, RecordedProperties, SameWorkflowInv
  <2>3. Tree(Recorded) /\ OneOwner(Recorded) /\ NothingStale(Recorded)
    BY <1>2, <2>1 DEF TidyInv
  <2>4. Current \in Stages(Recorded.workflow)
    BY <1>1, <2>1, CurrentProperties DEF AtStage
  <2>5. result.flow \in FlowId /\ FlowAccepted(result.flow)
    BY <1>1, <1>4, Zenon DEF ExpandChildren, Expands, IndInv, TypeOK, StageResult
  <2>6. Target \in Keywords \cup RouteTargets(Current)
    BY <1>1, TargetKnown
  <2>7. StateInv(e) /\ ~e.completed
    BY <2>1, <2>2, <2>4, <2>5, <2>6, ExpandPreservesStateInv
  <2>8. Tree(e) /\ OneOwner(e) /\ NothingStale(e)
    BY <2>2, <2>3, <2>4, <2>5, <2>6, ExpandTidy
  <2>9. position \in Nat
    BY <1>1, RunStateFields
  <2>10. mem' = [e EXCEPT !.position = position] /\ disk' = mem'
    BY <1>4 DEF ExpandChildren, Commit, Save
  <2> HIDE DEF e, position
  <2>11. TidyInv(e) /\ e \in RunState
    BY <2>7, <2>8 DEF TidyInv, StateInv
  <2>12. SameTree(e, mem')
    BY <2>7, <2>9, <2>10, <2>11, PositionTree
  <2> QED
    BY <2>7, <2>10, <2>11, <2>12, SameTreeTidy
<1>5. CASE RejectExpansion \/ SettleWithoutTask
  BY <1>1, <1>5 DEF RejectExpansion, SettleWithoutTask, Raise
<1>6. CASE SettleStop
  <2>1. mem' = TaskSettled /\ disk' = mem' /\ ~NoTaskToFinish
    BY <1>6 DEF SettleStop, Settled, Commit, Save
  <2> QED
    BY <1>2, <1>3, <2>1
<1>7. CASE SettleDone
  <2>1. ~NoTaskToFinish
    BY <1>7 DEF SettleDone, Settled
  <2>2. \/ mem' = FinishRun(TaskSettled) /\ disk' = mem'
        \/ mem' = mem /\ disk' = disk
    BY <1>7 DEF SettleDone, Commit, Save, Raise
  <2>3. TidyInv(FinishRun(TaskSettled))
    BY <1>2, <1>3, <2>1, FinishRunTidy
  <2> QED
    BY <1>1, <2>2, <2>3
<1>8. CASE SettleNext
  <2> DEFINE position == TaskSettled.position + 1
  <2>1. ~NoTaskToFinish /\ mem' = [TaskSettled EXCEPT !.position = position] /\ disk' = mem'
    BY <1>8 DEF SettleNext, Settled, Commit, Save
  <2>2. position \in Nat
    BY <1>3, <2>1, RunStateFields
  <2> HIDE DEF position
  <2>3. SameTree(TaskSettled, mem')
    BY <1>3, <2>1, <2>2, PositionTree
  <2>4. SameTree(mem, mem')
    BY <1>3, <2>1, <2>3, SameTreeTransitive
  <2> QED
    BY <1>2, <2>1, <2>4
<1>9. CASE SettleRoute
  <2> DEFINE target == DynamicTarget(Current, Target)
  <2>1. /\ ~NoTaskToFinish /\ mem' = Route(TaskSettled, target) /\ disk' = mem'
        /\ target \notin Keywords
    BY <1>9 DEF SettleRoute, Settled, Commit, Save
  <2>2. target \in Names(TaskSettled.workflow)
    BY <1>1, <1>3, <2>1, TargetKnown
  <2> HIDE DEF target
  <2>3. SameTree(TaskSettled, mem')
    BY <1>3, <2>1, <2>2, RouteTree
  <2>4. SameTree(mem, mem')
    BY <1>3, <2>1, <2>3, SameTreeTransitive
  <2> QED
    BY <1>2, <2>1, <2>4
<1> QED
  BY <1>4, <1>5, <1>6, <1>7, <1>8, <1>9 DEF Settle

LEMMA RecoverTidy ==
  ASSUME EngineTidy, Recover \/ Crash
  PROVE  TidyInv(mem') /\ disk' \in {disk, mem'}
<1>1. disk \in RunState /\ TidyInv(disk) /\ TidyInv(mem)
  BY Zenon DEF EngineTidy, IndInv, TypeOK
<1>2. CASE Crash \/ RefuseResume
  BY <1>1, <1>2 DEF Crash, RefuseResume
<1>3. CASE ResumeAfterCrash \/ ResumeByOperator
  <2>1. mem' = Normalize(disk) /\ disk' = mem'
    BY <1>3 DEF ResumeAfterCrash, ResumeByOperator, Resume, Save
  <2> QED
    BY <1>1, <2>1, NormalizeTidy
<1> QED
  BY <1>2, <1>3 DEF Recover

(* Every step keeps it. *)
LEMMA NextTidy == EngineTidy /\ [Next]_vars => EngineTidy'
<1> SUFFICES ASSUME EngineTidy, [Next]_vars PROVE EngineTidy'
  OBVIOUS
<1>1. IndInv'
  BY NextIndInv DEF EngineTidy
<1>2. CASE UNCHANGED vars \/ Terminated
  BY <1>1, <1>2 DEF EngineTidy, Terminated, vars
<1>3. CASE Enter \/ Execute \/ Settle \/ Crash \/ Recover
  <2>1. TidyInv(mem') /\ disk' \in {disk, mem'}
    BY <1>3, EnterTidy, ExecuteTidy, SettleTidy, RecoverTidy
  <2>2. TidyInv(disk')
    BY <2>1 DEF EngineTidy
  <2> QED
    BY <1>1, <2>1, <2>2 DEF EngineTidy
<1> QED
  BY <1>2, <1>3 DEF Next

(* Whatever was expanded, superseded and nested, and wherever the run was     *)
(* interrupted, no saved group, counter or task outlives the Stage it belongs *)
(* to (dynamic_expansion.py:125-154).                                         *)
THEOREM NothingStaleIsSaved == Spec => []NoStaleChildren
<1>1. EngineTidy => NoStaleChildren
  BY DEF EngineTidy, TidyInv, NoStaleChildren
<1> QED
  BY <1>1, InitTidy, NextTidy, PTL DEF Spec

--------------------------------------------------------------------------
(* What the next Stage is told of the previous one. *)

(* Settling a result leaves it recorded. *)
LEMMA SettledRemembers ==
  ASSUME IndInv, pc = "settle"
  PROVE  LET now == [stage |-> Current.name, status |-> result.status] IN
         /\ Recorded.previous = now
         /\ ~NoTaskToFinish => TaskSettled.previous = now
<1> DEFINE now == [stage |-> Current.name, status |-> result.status]
           r   == RecordReview(mem, Current, result)
<1>1. mem \in RunState /\ Current \in Definition
  BY CurrentProperties DEF IndInv, AtStage, StateInv
<1>2. r \in RunState
  BY <1>1, RecordReviewProperties DEF SameWorkflow
<1>3. Recorded = [r EXCEPT !.previous = now]
  BY DEF Recorded
<1>4. Recorded \in RunState
  BY RecordedProperties DEF SameWorkflow
<1> HIDE DEF r, now
<1>5. Recorded.previous = now
  BY <1>2, <1>3, Zenon DEF RunState
<1>6. CASE ~CompletesTask
  BY <1>5, <1>6 DEF TaskSettled, now
<1>7. CASE CompletesTask
  <2> DEFINE i        == Recorded.current + 1
             tasks    == [Recorded.tasks EXCEPT ![i].status = "completed"]
             failures == {e \in Recorded.failures : e.key.scope # Recorded.tasks[i].id}
  <2>1. TaskSettled =
          [Recorded EXCEPT !.tasks = tasks, !.failures = failures, !.current = i]
    BY <1>7 DEF TaskSettled, FinishTask
  <2> HIDE DEF i, tasks, failures
  <2>2. TaskSettled.previous = Recorded.previous
    BY <1>4, <2>1, Zenon DEF RunState
  <2> QED
    BY <1>5, <2>2 DEF now
<1> QED
  BY <1>6, <1>7

(* The input of the next Stage is kept by every step: in memory, in the       *)
(* engine and on disk it is the result that was last committed.               *)
LEMMA NextRepeatsInput ==
  IndInv /\ ResumeRepeatsInput /\ [Next]_vars => ResumeRepeatsInput'
<1> SUFFICES ASSUME IndInv, ResumeRepeatsInput, [Next]_vars,
                    pc' = "loop", ~mem'.completed
             PROVE  previous' = disk'.previous /\ previous' = mem'.previous
  BY DEF ResumeRepeatsInput
<1> DEFINE now == [stage |-> Current.name, status |-> result.status]
<1>1. mem \in RunState /\ disk \in RunState /\ StateInv(mem)
  BY Zenon DEF IndInv, TypeOK
<1>2. \/ UNCHANGED vars
      \/ ResumeAfterCrash \/ ResumeByOperator
      \/ ExpandChildren \/ SettleDone \/ SettleNext \/ SettleRoute
  BY DEF Next, vars, Enter, Execute, Settle, Recover, Crash, Terminated,
     ExhaustCycles, FinishAtEnd, ReturnCompleted, UnknownTask, BypassReview, BeginStage,
     RememberSession, RotateSession, FinishStage, FailStage, RejectExpansion,
     SettleWithoutTask, SettleStop, Commit, Raise, RefuseResume
<1>3. CASE UNCHANGED vars
  BY <1>3 DEF vars, ResumeRepeatsInput
<1>4. CASE ResumeAfterCrash \/ ResumeByOperator
  <2> DEFINE least     == Least(disk.current, Len(disk.tasks))
             current   == IF least < Len(disk.tasks)
                             /\ disk.tasks[least + 1].status = "completed"
                          THEN FirstPending(disk) ELSE least
             completed == disk.completed /\ disk.stage = "completed"
  <2>1. /\ mem' = [disk EXCEPT !.completed = completed, !.current = current]
        /\ disk' = mem' /\ previous' = disk.previous
    BY <1>4 DEF ResumeAfterCrash, ResumeByOperator, Resume, Normalize, Save
  <2> HIDE DEF completed, current
  <2>2. mem'.previous = disk.previous
    BY <1>1, <2>1, Zenon DEF RunState
  <2> QED
    BY <2>1, <2>2
<1>5. ASSUME pc = "settle", ~NoTaskToFinish
      PROVE  TaskSettled \in RunState /\ TaskSettled.previous = now
             /\ TaskSettled.workflow = mem.workflow
  BY <1>5, TaskSettledProperties, SettledRemembers DEF SameWorkflow
<1>6. CASE ExpandChildren
  <2> DEFINE e == Expand(Recorded, Current, result.flow, Target)
             position == mem.position + 1
  <2>1. /\ pc = "settle" /\ previous' = now /\ disk' = mem'
        /\ mem' = [e EXCEPT !.position = position]
    BY <1>6 DEF ExpandChildren, Commit, Save
  <2>2. SameWorkflow(mem, Recorded) /\ ~Recorded.completed /\ Recorded.previous = now
    BY <2>1, RecordedProperties, SettledRemembers
  <2>3. StateInv(Recorded) /\ Current \in Stages(Recorded.workflow)
    BY <1>1, <2>1, <2>2, SameWorkflowInv, CurrentProperties DEF IndInv, AtStage, SameWorkflow
  <2>4. result.flow \in FlowId /\ FlowAccepted(result.flow)
    BY <1>6, Zenon DEF ExpandChildren, Expands, IndInv, TypeOK, StageResult
  <2>5. Target \in Keywords \cup RouteTargets(Current)
    BY <2>1, TargetKnown
  <2>6. e \in RunState /\ e.previous = Recorded.previous
    BY <2>2, <2>3, <2>4, <2>5, ExpandPreservesStateInv, ExpandKeepsPrevious DEF StateInv
  <2> HIDE DEF e, position
  <2>7. mem'.previous = e.previous
    BY <2>1, <2>6, Zenon DEF RunState
  <2> QED
    BY <2>1, <2>2, <2>6, <2>7
<1>7. CASE SettleDone
  <2>1. pc = "settle" /\ ~NoTaskToFinish /\ mem' = FinishRun(TaskSettled)
    BY <1>7 DEF SettleDone, Settled, Commit, Raise
  <2>2. mem'.completed
    BY <1>5, <2>1 DEF FinishRun, RunState
  <2> QED
    BY <2>2
<1>8. CASE SettleNext
  <2> DEFINE position == TaskSettled.position + 1
  <2>1. /\ pc = "settle" /\ ~NoTaskToFinish /\ previous' = now /\ disk' = mem'
        /\ mem' = [TaskSettled EXCEPT !.position = position]
    BY <1>8 DEF SettleNext, Settled, Commit, Save
  <2> HIDE DEF position
  <2>2. mem'.previous = TaskSettled.previous
    BY <1>5, <2>1, Zenon DEF RunState
  <2> QED
    BY <1>5, <2>1, <2>2
<1>9. CASE SettleRoute
  <2> DEFINE p     == LastIndex(TaskSettled.workflow, DynamicTarget(Current, Target)) - 1
             cycle == IF p <= TaskSettled.position THEN NextCycle(TaskSettled.cycle)
                      ELSE TaskSettled.cycle
  <2>1. /\ pc = "settle" /\ ~NoTaskToFinish /\ previous' = now /\ disk' = mem'
        /\ mem' = [TaskSettled EXCEPT !.position = p, !.cycle = cycle, !.stage = "active"]
    BY <1>9 DEF SettleRoute, Settled, Commit, Save, Route
  <2> HIDE DEF p, cycle
  <2>2. mem'.previous = TaskSettled.previous
    BY <1>5, <2>1, Zenon DEF RunState
  <2> QED
    BY <1>5, <2>1, <2>2
<1> QED
  BY <1>2, <1>3, <1>4, <1>6, <1>7, <1>8, <1>9

(* A crash never changes what the next Stage is given: a resume restores the  *)
(* result the interrupted worker would have passed on.                        *)
THEOREM ResumeIsExact == Spec => []ResumeRepeatsInput
<1>1. Init => ResumeRepeatsInput
  <2> SUFFICES ASSUME Init PROVE ResumeRepeatsInput
    OBVIOUS
  <2>1. mem.previous = NoPrevious /\ disk = mem /\ previous = NoPrevious
    BY Zenon DEF Init
  <2> QED
    BY <2>1, Zenon DEF ResumeRepeatsInput
<1> QED
  BY <1>1, NextRepeatsInput, EngineInvariant, PTL DEF Spec

--------------------------------------------------------------------------
(* A resume accepts what was saved.                                          *)

(* What a step does to the task list and to the marks into it. *)
SameMarks(s, t) ==
  /\ t.workflow = s.workflow /\ t.tasks = s.tasks
  /\ t.current = s.current /\ t.position = s.position

LEMMA LayoutFrame ==
  ASSUME NEW s, NEW t, Layout(s), t.workflow = s.workflow, TaskIds(t) = TaskIds(s),
         \/ t.groups = s.groups /\ t.taskGroups = s.taskGroups
         \/ t.groups = {} /\ t.taskGroups = {}
  PROVE  Layout(t)
<1>1. UniqueNames(t.workflow) /\ ChildrenFollow(t)
  BY DEF Layout, ChildrenFollow
<1>2. Handoffs(t)
  BY DEF Layout, Handoffs
<1>3. Bindings(t)
  BY DEF Layout, Bindings
<1> QED
  BY <1>1, <1>2, <1>3 DEF Layout

(* Entering a Stage makes its task the current one. *)
LEMMA ActivateMarks ==
  ASSUME NEW s \in RunState, NEW d \in Definition, BindingKnown(s, d)
  PROVE  LET t == Activate(s, d) IN
         /\ t.workflow = s.workflow /\ t.tasks = s.tasks /\ t.sessions = s.sessions
         /\ t.position = s.position
         /\ d.task = Nothing => t.current = s.current
         /\ d.task # Nothing =>
              t.current < Len(t.tasks) /\ t.tasks[t.current + 1].id = d.task
<1>1. CASE d.task = Nothing
  BY <1>1 DEF Activate
<1>2. CASE d.task # Nothing
  <2> DEFINE i == CHOOSE i \in DOMAIN s.tasks : s.tasks[i].id = d.task
             current == i - 1
             t == Activate(s, d)
  <2>1. i \in DOMAIN s.tasks /\ s.tasks[i].id = d.task
    BY <1>2 DEF BindingKnown, TaskIds
  <2>2. DOMAIN s.tasks = 1 .. Len(s.tasks) /\ Len(s.tasks) \in Nat
    BY RunStateFields, LenProperties
  <2>3. t = [s EXCEPT !.current = current]
    BY <1>2 DEF Activate
  <2> HIDE DEF i
  <2>4. current < Len(s.tasks) /\ current + 1 = i
    BY <2>1, <2>2
  <2> HIDE DEF current, t
  <2>5. /\ t.workflow = s.workflow /\ t.tasks = s.tasks /\ t.sessions = s.sessions
        /\ t.position = s.position /\ t.current = current
    BY <2>3, Zenon DEF RunState
  <2> QED
    BY <1>2, <2>1, <2>4, <2>5 DEF t
<1> QED
  BY <1>1, <1>2

(* set_stage, the session and a cleared counter leave the marks alone. *)
LEMMA BookkeepingMarks ==
  ASSUME NEW s \in RunState, NEW stage, NEW sessions, NEW failures,
         NEW t \in {[s EXCEPT !.stage = stage], [s EXCEPT !.sessions = sessions],
                    [s EXCEPT !.failures = failures, !.stage = stage]}
  PROVE  SameMarks(s, t) /\ t.sessions \in {s.sessions, sessions}
<1>1. /\ t.workflow = s.workflow /\ t.tasks = s.tasks
      /\ t.current = s.current /\ t.position = s.position
  BY Zenon DEF RunState
<1>2. t.sessions \in {s.sessions, sessions}
  BY Zenon DEF RunState
<1> QED
  BY <1>1, <1>2 DEF SameMarks

LEMMA RecordedMarks ==
  ASSUME IndInv, pc = "settle"
  PROVE  SameMarks(mem, Recorded) /\ Recorded.sessions = mem.sessions
<1> DEFINE r       == RecordReview(mem, Current, result)
           k       == ReviewKey(mem, Current)
           without == Without(mem.failures, k)
           bump    == Bump(mem.failures, k)
           now     == [stage |-> Current.name, status |-> result.status]
           t       == Recorded
<1>1. mem \in RunState /\ Current \in Definition
  BY CurrentProperties DEF IndInv, AtStage, StateInv
<1>2. r \in RunState
  BY <1>1, RecordReviewProperties DEF SameWorkflow
<1>3. r \in {mem, [mem EXCEPT !.failures = without], [mem EXCEPT !.failures = bump]}
  BY DEF RecordReview
<1>4. t = [r EXCEPT !.previous = now]
  BY DEF Recorded
<1> HIDE DEF r, without, bump, now, t
<1>5. /\ r.workflow = mem.workflow /\ r.tasks = mem.tasks /\ r.current = mem.current
      /\ r.position = mem.position /\ r.sessions = mem.sessions
  BY <1>1, <1>3, Zenon DEF RunState
<1>6. /\ t.workflow = r.workflow /\ t.tasks = r.tasks /\ t.current = r.current
      /\ t.position = r.position /\ t.sessions = r.sessions
  BY <1>2, <1>4, Zenon DEF RunState
<1> QED
  BY <1>5, <1>6 DEF SameMarks, t

(* Completing the current task makes the next one current. *)
LEMMA FinishTaskMarks ==
  ASSUME NEW s \in RunState, s.current < Len(s.tasks)
  PROVE  LET t == FinishTask(s) IN
         /\ t.workflow = s.workflow /\ t.sessions = s.sessions /\ t.position = s.position
         /\ t.current = s.current + 1 /\ t.current <= Len(t.tasks)
         /\ DOMAIN t.tasks = DOMAIN s.tasks
         /\ \A j \in DOMAIN s.tasks :
              /\ t.tasks[j].id = s.tasks[j].id
              /\ j # s.current + 1 => t.tasks[j] = s.tasks[j]
<1> DEFINE i        == s.current + 1
           task     == [s.tasks[i] EXCEPT !.status = "completed"]
           tasks    == [s.tasks EXCEPT ![i] = task]
           failures == {e \in s.failures : e.key.scope # s.tasks[i].id}
           current  == s.current + 1
           t        == FinishTask(s)
<1>1. /\ s.tasks \in Seq(Task) /\ i \in DOMAIN s.tasks /\ s.current \in Nat
      /\ Len(s.tasks) \in Nat /\ DOMAIN s.tasks = 1 .. Len(s.tasks)
  BY RunStateFields, LenProperties
<1>2. s.tasks[i] \in Task
  BY <1>1, ElementOfSeq
<1>3. task.id = s.tasks[i].id /\ task \in Task
  <2> HIDE DEF i
  <2> QED
    BY <1>2 DEF Task
<1>4. /\ DOMAIN tasks = DOMAIN s.tasks
      /\ \A j \in DOMAIN s.tasks :
           tasks[j].id = s.tasks[j].id /\ (j # i => tasks[j] = s.tasks[j])
  <2> HIDE DEF task, i
  <2> QED
    BY <1>1, <1>3
<1>5. Len(tasks) = Len(s.tasks)
  <2> HIDE DEF task, i
  <2>1. tasks \in Seq(Task)
    BY <1>1, <1>3, ExceptSeq
  <2> HIDE DEF tasks
  <2>2. DOMAIN tasks = 1 .. Len(tasks) /\ Len(tasks) \in Nat
    BY <2>1, LenProperties
  <2> QED
    BY <1>1, <1>4, <2>2
<1>6. t = [s EXCEPT !.tasks = tasks, !.failures = failures, !.current = current]
  BY DEF FinishTask
<1>7. current <= Len(s.tasks)
  BY <1>1
<1> HIDE DEF task, tasks, failures, t
<1>8. /\ t.workflow = s.workflow /\ t.sessions = s.sessions /\ t.position = s.position
      /\ t.tasks = tasks /\ t.current = current
  <2> HIDE DEF current
  <2> QED
    BY <1>6, Zenon DEF RunState
<1> QED
  BY <1>4, <1>5, <1>7, <1>8 DEF t

LEMMA TaskSettledMarks ==
  ASSUME IndInv, pc = "settle", ~NoTaskToFinish, Marks(mem)
  PROVE  Marks(TaskSettled) /\ TaskSettled.workflow = mem.workflow
         /\ TaskSettled.position = mem.position
<1>1. SameMarks(mem, Recorded) /\ Recorded.sessions = mem.sessions /\ Recorded \in RunState
  BY RecordedMarks, RecordedProperties DEF SameWorkflow
<1>2. CASE ~CompletesTask
  BY <1>1, <1>2 DEF TaskSettled, Marks, SameMarks
<1>3. CASE CompletesTask
  <2>1. Recorded.current < Len(Recorded.tasks)
    <3>1. Recorded.current \in Nat /\ Len(Recorded.tasks) \in Nat
      BY <1>1, RunStateFields, LenProperties
    <3> QED
      BY <1>3, <3>1 DEF NoTaskToFinish
  <2> DEFINE t == FinishTask(Recorded)
  <2>2. /\ t.workflow = Recorded.workflow /\ t.sessions = Recorded.sessions
        /\ t.position = Recorded.position /\ t.current <= Len(t.tasks)
    BY <1>1, <2>1, FinishTaskMarks
  <2>3. TaskSettled = t
    BY <1>3 DEF TaskSettled
  <2> HIDE DEF t
  <2> QED
    BY <1>1, <2>2, <2>3 DEF Marks, SameMarks
<1> QED
  BY <1>2, <1>3

LEMMA PositionMarks ==
  ASSUME NEW s \in RunState, NEW p
  PROVE  LET t == [s EXCEPT !.position = p] IN
         /\ t.workflow = s.workflow /\ t.tasks = s.tasks /\ t.current = s.current
         /\ t.sessions = s.sessions /\ t.position = p
<1> DEFINE t == [s EXCEPT !.position = p]
<1>1. /\ t.workflow = s.workflow /\ t.tasks = s.tasks /\ t.current = s.current
      /\ t.sessions = s.sessions /\ t.position = p
  BY Zenon DEF RunState
<1> QED
  BY <1>1

LEMMA RouteMarks ==
  ASSUME NEW s \in RunState, NEW n \in Names(s.workflow)
  PROVE  LET t == Route(s, n) IN
         /\ t.workflow = s.workflow /\ t.tasks = s.tasks /\ t.current = s.current
         /\ t.sessions = s.sessions /\ t.position <= Len(s.workflow)
<1> DEFINE p     == LastIndex(s.workflow, n) - 1
           cycle == IF p <= s.position THEN NextCycle(s.cycle) ELSE s.cycle
           t     == Route(s, n)
<1>1. LastIndex(s.workflow, n) \in DOMAIN s.workflow
  BY RunStateFields, LastIndexExists
<1>2. p <= Len(s.workflow)
  BY <1>1, RunStateFields, LenProperties
<1>3. t = [s EXCEPT !.position = p, !.cycle = cycle, !.stage = "active"]
  BY DEF Route
<1> HIDE DEF p, cycle, t
<1>4. /\ t.workflow = s.workflow /\ t.tasks = s.tasks /\ t.current = s.current
      /\ t.sessions = s.sessions /\ t.position = p
  BY <1>3, Zenon DEF RunState
<1> QED
  BY <1>2, <1>4 DEF t

LEMMA FinishRunMarks ==
  ASSUME NEW s \in RunState
  PROVE  LET t == FinishRun(s) IN
         /\ SameMarks(s, t) /\ t.sessions = {} /\ t.groups = {} /\ t.taskGroups = {}
<1> DEFINE none == {}
           yes == TRUE
           t == FinishRun(s)
<1>1. t = [s EXCEPT !.previous = NoPrevious, !.sessions = none, !.failures = none,
                    !.groups = none, !.taskGroups = none, !.completed = yes,
                    !.stage = "completed"]
  BY DEF FinishRun
<1> HIDE DEF none, yes, t
<1>2. /\ t.workflow = s.workflow /\ t.tasks = s.tasks /\ t.current = s.current
      /\ t.position = s.position
      /\ t.sessions = none /\ t.groups = none /\ t.taskGroups = none
  BY <1>1, Zenon DEF RunState
<1> QED
  BY <1>2 DEF SameMarks, none, t

(* A resume leaves a completed task for one that is pending, if any is. *)
LEMMA NormalizeMarks ==
  ASSUME NEW s \in RunState
  PROVE  LET t == Normalize(s) IN
         /\ t.workflow = s.workflow /\ t.tasks = s.tasks /\ t.position = s.position
         /\ t.groups = s.groups /\ t.taskGroups = s.taskGroups
         /\ t.sessions = s.sessions /\ t.current <= Len(t.tasks)
<1> DEFINE least     == Least(s.current, Len(s.tasks))
           current   == IF least < Len(s.tasks)
                           /\ s.tasks[least + 1].status = "completed"
                        THEN FirstPending(s) ELSE least
           completed == s.completed /\ s.stage = "completed"
           t         == Normalize(s)
<1>1. Len(s.tasks) \in Nat /\ DOMAIN s.tasks = 1 .. Len(s.tasks)
  BY RunStateFields, LenProperties
<1>2. least <= Len(s.tasks)
  BY <1>1, RunStateFields DEF Least
<1>3. FirstPending(s) <= Len(s.tasks)
  <2>1. CASE Pending(s) = {}
    BY <1>1, <2>1 DEF FirstPending
  <2>2. CASE Pending(s) # {}
    <3>1. Pending(s) \subseteq 1 .. Len(s.tasks)
      BY <1>1 DEF Pending
    <3>2. \E i \in Pending(s) : \A j \in Pending(s) : i <= j
      BY <1>1, <2>2, <3>1, LeastExists
    <3>3. (CHOOSE i \in Pending(s) : \A j \in Pending(s) : i <= j) \in Pending(s)
      BY <3>2
    <3> DEFINE i == CHOOSE i \in Pending(s) : \A j \in Pending(s) : i <= j
    <3>4. FirstPending(s) = i - 1
      BY <2>2 DEF FirstPending
    <3>5. i \in 1 .. Len(s.tasks)
      BY <3>1, <3>3
    <3> HIDE DEF i
    <3> QED
      BY <1>1, <3>4, <3>5
  <2> QED
    BY <2>1, <2>2
<1>4. current <= Len(s.tasks)
  BY <1>2, <1>3
<1>5. t = [s EXCEPT !.completed = completed, !.current = current]
  BY DEF Normalize
<1> HIDE DEF current, completed, t
<1>6. /\ t.workflow = s.workflow /\ t.tasks = s.tasks /\ t.position = s.position
      /\ t.groups = s.groups /\ t.taskGroups = s.taskGroups
      /\ t.sessions = s.sessions /\ t.current = current
  BY <1>5, Zenon DEF RunState
<1> QED
  BY <1>4, <1>6 DEF t

(* What is needed of a state for a resume to accept it. *)
Sound(s) == Layout(s) /\ Marks(s)
EngineSound == EngineTidy /\ Sound(mem) /\ Sound(disk)

(* A new run: the configured Workflow, and nothing else. *)
LEMMA InitSound == Init => EngineSound
<1> SUFFICES ASSUME Init PROVE EngineSound
  OBVIOUS
<1> DEFINE n == Len(Workflow)
           w == mem.workflow
<1>1. EngineTidy
  BY InitTidy
<1>2. /\ mem.tasks = <<>> /\ mem.groups = {} /\ mem.taskGroups = {} /\ disk = mem
      /\ mem.current = 0 /\ mem.position = 0 /\ mem.sessions = {}
  BY Zenon DEF Init
<1>3. w = [i \in 1 .. n |-> Instantiate(Workflow[i], 0, {}, Nothing)]
  BY Zenon DEF Init
<1>4. n \in Nat /\ DOMAIN Workflow = 1 .. n /\ DOMAIN w = 1 .. n
  BY <1>3, WorkflowAssumption, LenProperties
<1>5. \A i \in 1 .. n : /\ w[i].name = Ref(0, Workflow[i].local)
                        /\ w[i].targets = {Ref(0, l) : l \in Workflow[i].targets}
                        /\ w[i].path = {} /\ w[i].task = Nothing
  BY <1>3 DEF Instantiate, StageName
<1> HIDE DEF w, n
<1>6. /\ \A i, j \in 1 .. n : Workflow[i].local = Workflow[j].local => i = j
      /\ \A i \in 1 .. n : \A l \in Workflow[i].targets :
           l # Workflow[i].local /\ \E j \in 1 .. n : Workflow[j].local = l
  <2> DEFINE labels == {Workflow[j].local : j \in DOMAIN Workflow}
  <2>1. /\ \A i, j \in DOMAIN Workflow : Workflow[i].local = Workflow[j].local => i = j
        /\ \A i \in DOMAIN Workflow :
             Workflow[i].targets \subseteq labels \ {Workflow[i].local}
    BY WorkflowAssumption, Zenon DEF RoutesValid
  <2>2. \A l \in labels : \E j \in 1 .. n : Workflow[j].local = l
    BY <1>4
  <2> HIDE DEF labels
  <2> QED
    BY <1>4, <2>1, <2>2
<1>7. UniqueNames(w)
  BY <1>4, <1>5, <1>6, RefFields DEF UniqueNames
<1>8. ChildrenFollow(mem)
  BY <1>2 DEF ChildrenFollow
<1>9. Handoffs(mem)
  <2> SUFFICES ASSUME NEW i \in 1 .. n
               PROVE  /\ w[i].name \notin w[i].targets
                      /\ \A x \in w[i].targets :
                           \E e \in Stages(w) : e.name = x /\ e.path \subseteq w[i].path
    BY <1>4 DEF Handoffs, Stages, w
  <2>1. w[i].name \notin w[i].targets
    BY <1>5, <1>6, RefFields
  <2>2. ASSUME NEW x \in w[i].targets
        PROVE  \E e \in Stages(w) : e.name = x /\ e.path \subseteq w[i].path
    <3>1. PICK j \in 1 .. n : x = Ref(0, Workflow[j].local)
      BY <1>5, <1>6
    <3>2. w[j].name = x /\ w[j].path \subseteq w[i].path /\ w[j] \in Stages(w)
      BY <1>4, <1>5, <3>1 DEF Stages
    <3> QED
      BY <3>2
  <2> QED
    BY <2>1, <2>2
<1>10. Bindings(mem)
  <2>1. \A d \in Stages(w) : d.task = Nothing
    BY <1>4, <1>5 DEF Stages
  <2>2. Nothing.group = 0
    BY RefFields DEF Nothing
  <2> QED
    BY <1>2, <2>1, <2>2 DEF Bindings, w
<1>11. Marks(mem)
  <2>1. Len(mem.workflow) \in Nat /\ Len(mem.tasks) \in Nat
    BY <1>1, RunStateFields, LenProperties DEF EngineTidy, IndInv, TypeOK
  <2> QED
    BY <1>2, <2>1 DEF Marks
<1> QED
  BY <1>1, <1>2, <1>7, <1>8, <1>9, <1>10, <1>11 DEF EngineSound, Sound, Layout, w

(* The Workflow, the groups and the tasks stay; the marks are checked. *)
LEMMA SameTreeSound ==
  ASSUME NEW s, NEW t, Layout(s), SameTree(s, t),
         t.position <= Len(s.workflow), t.current <= Len(t.tasks),
         t.sessions \subseteq Names(s.workflow)
  PROVE  Sound(t)
<1>1. Layout(t)
  BY LayoutFrame DEF SameTree
<1>2. t.workflow = s.workflow
  BY DEF SameTree
<1> QED
  BY <1>1, <1>2 DEF Sound, Marks

LEMMA SameMarksSound ==
  ASSUME NEW s, NEW t, Sound(s), SameTree(s, t), SameMarks(s, t),
         t.sessions \subseteq Names(s.workflow)
  PROVE  Sound(t)
BY SameTreeSound DEF Sound, Marks, SameMarks

LEMMA EnterSound ==
  ASSUME EngineSound, Enter
  PROVE  Sound(mem') /\ disk' \in {disk, mem'}
<1> DEFINE a == Activate(mem, Current)
<1>1. mem \in RunState /\ StateInv(mem) /\ Sound(mem) /\ Layout(mem) /\ Marks(mem)
  BY Zenon DEF EngineSound, EngineTidy, IndInv, TypeOK, Sound
<1>2. ASSUME MoreStages, BindingKnown(mem, Current)
      PROVE  SameTree(mem, a) /\ a \in RunState /\ ~a.completed /\ Sound(a)
             /\ a.sessions = mem.sessions /\ a.workflow = mem.workflow
  <2>1. Current \in Definition /\ ~mem.completed
    BY <1>1, <1>2, CurrentProperties DEF MoreStages
  <2>2. SameTree(mem, a)
    BY <1>1, <1>2, <2>1, ActivateTree
  <2>3. /\ a.workflow = mem.workflow /\ a.tasks = mem.tasks /\ a.sessions = mem.sessions
        /\ a.position = mem.position
        /\ a.current = mem.current \/ a.current < Len(a.tasks)
    BY <1>1, <1>2, <2>1, ActivateMarks
  <2> HIDE DEF a
  <2>4. a \in RunState /\ ~a.completed
    BY <2>2 DEF SameTree
  <2>5. a.current <= Len(a.tasks)
    <3>1. a.current \in Nat /\ Len(a.tasks) \in Nat
      BY <2>4, RunStateFields, LenProperties
    <3> QED
      BY <1>1, <2>3, <3>1 DEF Marks
  <2>6. Sound(a)
    BY <1>1, <2>2, <2>3, <2>5, SameTreeSound DEF Marks
  <2> QED
    BY <2>2, <2>3, <2>4, <2>6
<1> HIDE DEF a
<1>3. ASSUME NEW s \in RunState, Sound(s), SameTree(s, mem'), SameMarks(s, mem'),
             mem'.sessions \in {s.sessions, {}}
      PROVE  Sound(mem')
  BY <1>3, SameMarksSound DEF Sound, Marks
<1>4. CASE ExhaustCycles
  <2>1. mem' = [mem EXCEPT !.stage = "max_cycles_exhausted"] /\ ~mem.completed /\ disk' = mem'
    BY <1>4 DEF ExhaustCycles, MoreStages, Save
  <2>2. {} \in SUBSET Name /\ {} \in SUBSET mem.failures
    OBVIOUS
  <2>3. SameTree(mem, mem')
    BY <1>1, <2>1, <2>2, BookkeepingTree, Zenon
  <2>4. SameMarks(mem, mem') /\ mem'.sessions \in {mem.sessions, {}}
    BY <1>1, <2>1, BookkeepingMarks, Zenon
  <2> QED
    BY <1>1, <1>3, <2>1, <2>3, <2>4
<1>5. CASE FinishAtEnd
  <2>1. \/ mem' = FinishRun(mem) /\ disk' = mem'
        \/ mem' = mem /\ disk' = disk
    BY <1>5 DEF FinishAtEnd, Save
  <2>2. CASE mem' = FinishRun(mem) /\ disk' = mem'
    <3>1. /\ SameMarks(mem, mem')
          /\ mem'.sessions = {} /\ mem'.groups = {} /\ mem'.taskGroups = {}
      BY <1>1, <2>2, FinishRunMarks
    <3>2. Layout(mem')
      BY <1>1, <3>1, LayoutFrame DEF SameMarks, TaskIds
    <3> QED
      BY <1>1, <2>2, <3>1, <3>2 DEF Sound, Marks, SameMarks
  <2> QED
    BY <1>1, <2>1, <2>2
<1>6. CASE ReturnCompleted \/ UnknownTask
  BY <1>1, <1>6 DEF ReturnCompleted, UnknownTask
<1>7. CASE BypassReview
  <2> DEFINE failures == Without(a.failures, ReviewKey(a, Current))
  <2>1. /\ MoreStages /\ BindingKnown(mem, Current) /\ disk' = mem'
        /\ mem' = [a EXCEPT !.failures = failures, !.stage = "active"]
    BY <1>7 DEF BypassReview, Save, a
  <2>2. failures \in SUBSET a.failures /\ {} \in SUBSET Name
    BY DEF Without
  <2> HIDE DEF failures
  <2>3. SameTree(a, mem')
    BY <1>2, <2>1, <2>2, BookkeepingTree, Zenon
  <2>4. SameMarks(a, mem') /\ mem'.sessions \in {a.sessions, {}}
    BY <1>2, <2>1, BookkeepingMarks, Zenon
  <2> QED
    BY <1>2, <1>3, <2>1, <2>3, <2>4
<1>8. CASE BeginStage
  <2>1. /\ MoreStages /\ BindingKnown(mem, Current)
        /\ \/ mem' = [a EXCEPT !.stage = "active"] /\ disk' = mem'
           \/ mem' = a /\ disk' = disk
    BY <1>8 DEF BeginStage, Save, a
  <2>2. {} \in SUBSET Name /\ {} \in SUBSET a.failures
    OBVIOUS
  <2>3. CASE mem' = [a EXCEPT !.stage = "active"]
    <3>1. SameTree(a, mem')
      BY <1>2, <2>1, <2>2, <2>3, BookkeepingTree, Zenon
    <3>2. SameMarks(a, mem') /\ mem'.sessions \in {a.sessions, {}}
      BY <1>2, <2>1, <2>3, BookkeepingMarks, Zenon
    <3> QED
      BY <1>2, <1>3, <2>1, <3>1, <3>2
  <2>4. CASE mem' = a
    BY <1>2, <2>1, <2>4
  <2> QED
    BY <2>1, <2>3, <2>4
<1> QED
  BY <1>4, <1>5, <1>6, <1>7, <1>8 DEF Enter

LEMMA ExecuteSound ==
  ASSUME EngineSound, Execute
  PROVE  Sound(mem') /\ disk' \in {disk, mem'}
<1>1. mem \in RunState /\ StateInv(mem) /\ Sound(mem) /\ Marks(mem)
  BY Zenon DEF EngineSound, EngineTidy, IndInv, TypeOK, Sound
<1>2. CASE RememberSession \/ RotateSession
  <2> DEFINE sessions == IF RememberSession THEN mem.sessions \cup {Current.name}
                         ELSE mem.sessions \ {Current.name}
  <2>1. /\ pc = "executing" /\ ~mem.completed /\ Current \in Definition
        /\ Current \in Stages(mem.workflow)
    BY <1>2, CurrentProperties
       DEF EngineSound, EngineTidy, IndInv, AtStage, RememberSession, RotateSession
  <2>2. disk' = mem' /\ mem' = [mem EXCEPT !.sessions = sessions]
    BY <1>2 DEF RememberSession, RotateSession, Save
  <2>3. sessions \in SUBSET Name
    BY <1>1, <2>1, RunStateFields, DefinitionFields
  <2>4. sessions \subseteq Names(mem.workflow)
    <3>1. Current.name \in Names(mem.workflow)
      BY <2>1 DEF Stages, Names
    <3> QED
      BY <1>1, <3>1 DEF Marks
  <2> HIDE DEF sessions
  <2>5. {} \in SUBSET mem.failures
    OBVIOUS
  <2>6. SameTree(mem, mem')
    BY <1>1, <2>1, <2>2, <2>3, <2>5, BookkeepingTree, Zenon
  <2>7. SameMarks(mem, mem') /\ mem'.sessions \in {mem.sessions, sessions}
    BY <1>1, <2>2, BookkeepingMarks, Zenon
  <2>8. mem'.sessions \subseteq Names(mem.workflow)
    BY <1>1, <2>4, <2>7 DEF Marks
  <2> QED
    BY <1>1, <2>2, <2>6, <2>7, <2>8, SameMarksSound
<1>3. CASE FinishStage \/ FailStage
  BY <1>1, <1>3 DEF FinishStage, FailStage, Raise, Save
<1> QED
  BY <1>2, <1>3 DEF Execute

LEMMA SettleSound ==
  ASSUME SafeNamesDiffer, EngineSound, Settle
  PROVE  Sound(mem') /\ disk' \in {disk, mem'}
<1>1. /\ IndInv /\ pc = "settle" /\ StateInv(mem) /\ AtStage /\ EngineTidy
      /\ mem \in RunState /\ ~mem.completed /\ TidyInv(mem) /\ Sound(mem)
      /\ Layout(mem) /\ Marks(mem)
  BY Zenon DEF Settle, ExpandChildren, RejectExpansion, SettleWithoutTask, Settled, SettleStop,
         SettleDone, SettleNext, SettleRoute, EngineSound, EngineTidy, IndInv, TypeOK, AtStage,
         Sound
<1>2. ASSUME ~NoTaskToFinish
      PROVE  /\ SameTree(mem, TaskSettled) /\ TaskSettled \in RunState
             /\ ~TaskSettled.completed /\ Sound(TaskSettled)
             /\ TaskSettled.workflow = mem.workflow /\ TaskSettled.position = mem.position
  <2>1. SameTree(mem, TaskSettled)
    BY <1>1, <1>2, TaskSettledTree
  <2>2. Marks(TaskSettled) /\ TaskSettled.workflow = mem.workflow
        /\ TaskSettled.position = mem.position
    BY <1>1, <1>2, TaskSettledMarks
  <2>3. Layout(TaskSettled)
    BY <1>1, <2>1, LayoutFrame DEF SameTree
  <2> QED
    BY <2>1, <2>2, <2>3 DEF SameTree, Sound
<1>3. CASE ExpandChildren
  <2> DEFINE e == Expand(Recorded, Current, result.flow, Target)
             position == mem.position + 1
  <2>1. SameTree(mem, Recorded) /\ Recorded.workflow = mem.workflow
    BY <1>1, RecordedTree DEF SameTree
  <2>2. StateInv(Recorded) /\ ~Recorded.completed
    BY <1>1, RecordedProperties, SameWorkflowInv
  <2>3. Tree(Recorded)
    BY <1>1, <2>1, SameTreeTidy DEF TidyInv
  <2>4. Layout(Recorded)
    BY <1>1, <2>1, LayoutFrame DEF SameTree
  <2>5. Recorded.sessions \subseteq Names(Recorded.workflow)
    BY <1>1, <2>1, RecordedMarks DEF Marks
  <2>6. /\ position \in DOMAIN Recorded.workflow /\ position \in Nat
        /\ Current = Recorded.workflow[position]
        /\ Current \in Stages(Recorded.workflow)
    <3>1. mem.position \in Nat /\ mem.position < Len(mem.workflow)
          /\ Len(mem.workflow) \in Nat /\ DOMAIN mem.workflow = 1 .. Len(mem.workflow)
      BY <1>1, RunStateFields, LenProperties DEF AtStage
    <3>2. Current \in Stages(mem.workflow)
      BY <1>1, <3>1, CurrentProperties
    <3> QED
      BY <2>1, <3>1, <3>2 DEF Current
  <2>7. result.flow \in FlowId /\ FlowAccepted(result.flow)
    BY <1>1, <1>3, Zenon DEF ExpandChildren, Expands, IndInv, TypeOK, StageResult
  <2>8. Target \in Keywords \cup RouteTargets(Current)
    BY <1>1, TargetKnown
  <2>9. mem' = [e EXCEPT !.position = position] /\ disk' = mem'
    BY <1>3 DEF ExpandChildren, Commit, Save
  <2> HIDE DEF position
  <2>10. StateInv(e) /\ ~e.completed
    BY <2>2, <2>6, <2>7, <2>8, ExpandPreservesStateInv
  <2>11. Layout(e) /\ position \in DOMAIN e.workflow
    BY <2>2, <2>3, <2>4, <2>6, <2>7, <2>8, ExpandLayout
  <2>12. e.current <= Len(e.tasks) /\ e.sessions \subseteq Names(e.workflow)
    BY <2>2, <2>5, <2>6, <2>7, <2>8, ExpandMarks
  <2> HIDE DEF e
  <2>13. e \in RunState
    BY <2>10 DEF StateInv
  <2>14. SameTree(e, mem')
    BY <2>6, <2>9, <2>10, <2>13, PositionTree
  <2>15. /\ mem'.tasks = e.tasks /\ mem'.current = e.current
         /\ mem'.sessions = e.sessions /\ mem'.position = position
    BY <2>9, <2>13, PositionMarks
  <2>16. position <= Len(e.workflow)
    BY <2>11, <2>13, RunStateFields, LenProperties
  <2> QED
    BY <2>9, <2>11, <2>12, <2>14, <2>15, <2>16, SameTreeSound
<1>4. CASE RejectExpansion \/ SettleWithoutTask
  BY <1>1, <1>4 DEF RejectExpansion, SettleWithoutTask, Raise
<1>5. CASE SettleStop
  BY <1>2, <1>5 DEF SettleStop, Settled, Commit, Save
<1>6. CASE SettleDone
  <2>1. ~NoTaskToFinish
    BY <1>6 DEF SettleDone, Settled
  <2>2. \/ mem' = FinishRun(TaskSettled) /\ disk' = mem'
        \/ mem' = mem /\ disk' = disk
    BY <1>6 DEF SettleDone, Commit, Save, Raise
  <2>3. CASE mem' = FinishRun(TaskSettled) /\ disk' = mem'
    <3>1. /\ SameMarks(TaskSettled, mem')
          /\ mem'.sessions = {} /\ mem'.groups = {} /\ mem'.taskGroups = {}
      BY <1>2, <2>1, <2>3, FinishRunMarks
    <3>2. Layout(mem')
      BY <1>2, <2>1, <3>1, LayoutFrame DEF SameMarks, TaskIds, Sound
    <3> QED
      BY <1>2, <2>1, <2>3, <3>1, <3>2 DEF Sound, Marks, SameMarks
  <2> QED
    BY <1>1, <2>2, <2>3
<1>7. CASE SettleNext
  <2> DEFINE position == TaskSettled.position + 1
  <2>1. ~NoTaskToFinish /\ mem' = [TaskSettled EXCEPT !.position = position] /\ disk' = mem'
    BY <1>7 DEF SettleNext, Settled, Commit, Save
  <2>2. position \in Nat /\ position <= Len(TaskSettled.workflow)
    <3>1. mem.position \in Nat /\ mem.position < Len(mem.workflow)
          /\ Len(mem.workflow) \in Nat
      BY <1>1, RunStateFields, LenProperties DEF AtStage
    <3> QED
      BY <1>2, <2>1, <3>1
  <2> HIDE DEF position
  <2>3. SameTree(TaskSettled, mem')
    BY <1>2, <2>1, <2>2, PositionTree
  <2>4. /\ mem'.tasks = TaskSettled.tasks /\ mem'.current = TaskSettled.current
        /\ mem'.sessions = TaskSettled.sessions /\ mem'.position = position
    BY <1>2, <2>1, PositionMarks
  <2> QED
    BY <1>2, <2>1, <2>2, <2>3, <2>4, SameTreeSound DEF Sound, Marks
<1>8. CASE SettleRoute
  <2> DEFINE target == DynamicTarget(Current, Target)
  <2>1. /\ ~NoTaskToFinish /\ mem' = Route(TaskSettled, target) /\ disk' = mem'
        /\ target \notin Keywords
    BY <1>8 DEF SettleRoute, Settled, Commit, Save
  <2>2. target \in Names(TaskSettled.workflow)
    BY <1>1, <1>2, <2>1, TargetKnown
  <2> HIDE DEF target
  <2>3. SameTree(TaskSettled, mem')
    BY <1>2, <2>1, <2>2, RouteTree
  <2>4. /\ mem'.tasks = TaskSettled.tasks /\ mem'.current = TaskSettled.current
        /\ mem'.sessions = TaskSettled.sessions
        /\ mem'.position <= Len(TaskSettled.workflow)
    BY <1>2, <2>1, <2>2, RouteMarks
  <2> QED
    BY <1>2, <2>1, <2>3, <2>4, SameTreeSound DEF Sound, Marks
<1> QED
  BY <1>3, <1>4, <1>5, <1>6, <1>7, <1>8 DEF Settle

LEMMA RecoverSound ==
  ASSUME EngineSound, Recover \/ Crash
  PROVE  Sound(mem') /\ disk' \in {disk, mem'}
<1>1. disk \in RunState /\ Sound(disk) /\ Sound(mem)
  BY Zenon DEF EngineSound, EngineTidy, IndInv, TypeOK
<1>2. CASE Crash \/ RefuseResume
  BY <1>1, <1>2 DEF Crash, RefuseResume
<1>3. CASE ResumeAfterCrash \/ ResumeByOperator
  <2>1. mem' = Normalize(disk) /\ disk' = mem'
    BY <1>3 DEF ResumeAfterCrash, ResumeByOperator, Resume, Save
  <2>2. /\ mem'.workflow = disk.workflow /\ mem'.tasks = disk.tasks
        /\ mem'.position = disk.position
        /\ mem'.groups = disk.groups /\ mem'.taskGroups = disk.taskGroups
        /\ mem'.sessions = disk.sessions /\ mem'.current <= Len(mem'.tasks)
    BY <1>1, <2>1, NormalizeMarks
  <2>3. Layout(mem')
    BY <1>1, <2>2, LayoutFrame DEF Sound, TaskIds
  <2> QED
    BY <1>1, <2>1, <2>2, <2>3 DEF Sound, Marks
<1> QED
  BY <1>2, <1>3 DEF Recover

LEMMA NextSound == ASSUME SafeNamesDiffer PROVE EngineSound /\ [Next]_vars => EngineSound'
<1> SUFFICES ASSUME EngineSound, [Next]_vars PROVE EngineSound'
  OBVIOUS
<1>1. EngineTidy'
  BY NextTidy DEF EngineSound
<1>2. CASE UNCHANGED vars \/ Terminated
  BY <1>1, <1>2 DEF EngineSound, Terminated, vars
<1>3. CASE Enter \/ Execute \/ Settle \/ Crash \/ Recover
  <2>1. Sound(mem') /\ disk' \in {disk, mem'}
    BY <1>3, EnterSound, ExecuteSound, SettleSound, RecoverSound
  <2>2. Sound(disk')
    BY <2>1 DEF EngineSound
  <2> QED
    BY <1>1, <2>1, <2>2 DEF EngineSound
<1> QED
  BY <1>2, <1>3 DEF Next

(* Different names at different positions are as many names as positions. *)
LEMMA NamesCounted ==
  ASSUME NEW S, NEW w \in Seq(S), UniqueNames(w)
  PROVE  Cardinality(Names(w)) = Len(w)
<1> DEFINE n == Len(w)
           name == [i \in 1 .. n |-> w[i].name]
<1>1. n \in Nat /\ DOMAIN w = 1 .. n
  BY LenProperties
<1>2. Names(w) = {name[i] : i \in 1 .. n}
  BY <1>1 DEF Names
<1>3. name \in Bijection(1 .. n, Names(w))
  <2>1. name \in [1 .. n -> Names(w)]
    BY <1>1 DEF Names
  <2>2. \A i, j \in 1 .. n : name[i] = name[j] => i = j
    BY <1>1 DEF UniqueNames
  <2>3. \A x \in Names(w) : \E i \in 1 .. n : name[i] = x
    BY <1>2
  <2> HIDE DEF name
  <2> QED
    BY <2>1, <2>2, <2>3 DEF Bijection, Injection, Surjection, IsInjective
<1>4. IsFiniteSet(1 .. n) /\ Cardinality(1 .. n) = n
  BY <1>1, FS_Interval, SMTT(30)
<1> HIDE DEF name, n
<1>5. Cardinality(1 .. n) = Cardinality(Names(w))
  BY <1>3, <1>4, FS_Bijection DEF ExistsBijection
<1> QED
  BY <1>4, <1>5 DEF n

(* Whatever a run saved, at any of its save points and after any expansion,   *)
(* supersession and crash, a resume accepts it: positions, names, routes,     *)
(* bindings and sessions agree (workflow_runner.py:93-130), provided no two   *)
(* children of one result are made safe to one name.                          *)
THEOREM SavedStateIsResumable ==
  ASSUME SafeNamesDiffer PROVE Spec => []SavedStateResumable
<1>1. EngineSound => SavedStateResumable
  <2> SUFFICES ASSUME EngineSound, ~Misbound(disk) PROVE Resumable(disk)
    BY DEF SavedStateResumable
  <2>1. /\ disk \in RunState /\ StateInv(disk) /\ Layout(disk) /\ Marks(disk)
        /\ disk.workflow \in Seq(Definition)
    BY RunStateFields DEF EngineSound, EngineTidy, IndInv, TypeOK, Sound
  <2>2. Cardinality(Names(disk.workflow)) = Len(disk.workflow)
    BY <2>1, NamesCounted DEF Layout
  <2>3. ASSUME NEW d \in Stages(disk.workflow)
        PROVE  /\ KnownTarget(disk, d.pass) /\ KnownTarget(disk, d.fail)
               /\ d.targets \subseteq Names(disk.workflow) \ {d.name}
               /\ BindingKnown(disk, d)
    <3>1. KnownTarget(disk, d.pass) /\ KnownTarget(disk, d.fail)
      BY <2>1 DEF StateInv, RoutesOutward, RouteTargets, KnownTarget
    <3>2. d.targets \subseteq Names(disk.workflow) \ {d.name}
      BY <2>1, StagesAreDefinitions DEF Layout, Handoffs
    <3>3. BindingKnown(disk, d)
      BY <2>1 DEF Layout, Bindings, BindingKnown, Misbound
    <3> QED
      BY <3>1, <3>2, <3>3
  <2>4. disk.completed => AllTasksCompleted(disk)
    BY <2>1 DEF StateInv
  <2>5. \A i \in DOMAIN disk.workflow : disk.workflow[i] \in Stages(disk.workflow)
    BY DEF Stages
  <2> QED
    BY <2>1, <2>2, <2>3, <2>4, <2>5 DEF Resumable, Marks
<1> QED
  BY <1>1, InitSound, NextSound, PTL DEF Spec

--------------------------------------------------------------------------
(* Whose task is completed.                                                  *)

(* The tasks of one result have different ids ("tasks ids must be unique",    *)
(* results.py:85).                                                            *)
TaskLabelsDiffer ==
  \A f \in FlowId : \A i, j \in DOMAIN FlowTasks[f] : FlowTasks[f][i] = FlowTasks[f][j] => i = j

(* A child that completes a task says which: finish_task completes whatever   *)
(* is current, so one that does not is bound to nothing.                      *)
CompletersBound ==
  \A f \in FlowId : \A i \in DOMAIN FlowStages[f] :
    FlowStages[f][i].completes => FlowStages[f][i].task # ""

UniqueTasks(s) == \A i, j \in DOMAIN s.tasks : s.tasks[i].id = s.tasks[j].id => i = j
CompletersNamed(s) == \A d \in Stages(s.workflow) : d.completes => d.task # Nothing

(* An expansion completes no task, and what it adds has new ids. *)
LEMMA ExpandTasks ==
  ASSUME TaskLabelsDiffer, CompletersBound,
         NEW s, StateInv(s), OneOwner(s), NothingStale(s), UniqueTasks(s), CompletersNamed(s),
         NEW source \in Stages(s.workflow), NEW f \in FlowId,
         NEW n \in Keywords \cup RouteTargets(source)
  PROVE  LET t == Expand(s, source, f, n) IN
         /\ UniqueTasks(t) /\ CompletersNamed(t)
         /\ \A i \in DOMAIN s.tasks, k \in DOMAIN t.tasks :
              t.tasks[k].id = s.tasks[i].id => t.tasks[k] = s.tasks[i]
<1> DEFINE g        == s.expansions + 1
           dropped  == DropPrevious(s, source.name)
           base     == InstallTasks(dropped, source.name, f, g)
           i        == FirstIndex(base.workflow, source.name)
           path     == source.path \cup {g}
           c        == EffectiveContinuation(source, n)
           q        == ChildStages(f, g, path, c)
           workflow == SubSeq(base.workflow, 1, i) \o q
                         \o SubSeq(base.workflow, i + 1, Len(base.workflow))
           groups   == base.groups \cup {[source |-> source.name, group |-> g]}
           t        == Expand(s, source, f, n)
           K        == {k \in DOMAIN s.tasks : s.tasks[k].id \notin DeadTasks(s, source.name)}
           m        == Len(dropped.tasks)
           l        == Len(FlowTasks[f])
<1>1. s \in RunState /\ s.expansions \in Nat /\ g \in Nat /\ g # 0 /\ g > s.expansions
      /\ source \in Definition /\ source.name \in Name /\ source.path \in SUBSET Nat
  BY RunStateFields, StagesAreDefinitions, DefinitionFields DEF StateInv
<1>2. /\ dropped \in RunState /\ dropped.tasks = Keep(s.tasks, K)
      /\ Stages(dropped.workflow) = {d \in Stages(s.workflow) :
                                       d.path \cap OldGroups(s, source.name) = {}}
  BY <1>1, DropPreviousProperties, DropPreviousSequences
<1>3. \A k \in DOMAIN s.tasks : s.tasks[k].id.group # g
  <2> SUFFICES ASSUME NEW k \in DOMAIN s.tasks PROVE s.tasks[k].id.group # g
    OBVIOUS
  <2>1. PICK e \in s.taskGroups : e.task = s.tasks[k].id
    BY DEF NothingStale, TaskIds
  <2>2. e.task.group \in Nat /\ e.task.group <= s.expansions
    BY <1>1, RunStateFields DEF OneOwner, Name
  <2> QED
    BY <1>1, <2>1, <2>2
<1>4. s.tasks \in Seq(Task) /\ K \subseteq DOMAIN s.tasks
  BY <1>1, RunStateFields
<1> HIDE DEF dropped, K, g
<1>5. \A k \in DOMAIN dropped.tasks :
        Nth(K, k) \in DOMAIN s.tasks /\ dropped.tasks[k] = s.tasks[Nth(K, k)]
  BY <1>2, <1>4, KeepOrdered
<1>6. \A j, k \in DOMAIN dropped.tasks : dropped.tasks[j].id = dropped.tasks[k].id => j = k
  <2> SUFFICES ASSUME NEW j \in DOMAIN dropped.tasks, NEW k \in DOMAIN dropped.tasks,
                      dropped.tasks[j].id = dropped.tasks[k].id
               PROVE  j = k
    OBVIOUS
  <2>1. Nth(K, j) = Nth(K, k)
    BY <1>5 DEF UniqueTasks
  <2>2. /\ DOMAIN dropped.tasks \subseteq Nat
        /\ \A x, y \in DOMAIN dropped.tasks : x < y <=> Nth(K, x) < Nth(K, y)
    BY <1>2, <1>4, KeepOrdered, SMTT(30)
  <2>3. Nth(K, j) \in Nat
    BY <1>4, <1>5, LenProperties
  <2>4. j \in Nat /\ k \in Nat /\ ~(j < k) /\ ~(k < j)
    BY <2>1, <2>2, <2>3
  <2> QED
    BY <2>4
<1>7. base \in RunState /\ base.workflow = dropped.workflow
  BY <1>1, <1>2, InstallTasksProperties
<1>8. /\ Len(base.tasks) = m + l
      /\ \A k \in 1 .. m : base.tasks[k] = dropped.tasks[k]
      /\ \A k \in 1 .. l : base.tasks[m + k].id = Ref(g, FlowTasks[f][k])
  <2>1. g \in Nat /\ dropped \in RunState /\ source.name \in Name
    BY <1>1, <1>2
  <2> QED
    BY <2>1, InstallTasksSequences, Zenon
<1>9. t.workflow = workflow /\ t.tasks = base.tasks
  <2>1. t = [base EXCEPT !.expansions = g, !.groups = groups, !.workflow = workflow]
    BY DEF Expand, dropped, g
  <2> HIDE DEF t, base, workflow, groups
  <2> QED
    BY <1>7, <2>1, Zenon DEF RunState
<1>10. /\ m \in Nat /\ DOMAIN dropped.tasks = 1 .. m
       /\ l \in Nat /\ DOMAIN FlowTasks[f] = 1 .. l
       /\ DOMAIN base.tasks = 1 .. m + l
  <2>1. /\ m \in Nat /\ DOMAIN dropped.tasks = 1 .. m
        /\ l \in Nat /\ DOMAIN FlowTasks[f] = 1 .. l
    BY <1>2, RunStateFields, FlowTypes, LenProperties
  <2>2. DOMAIN base.tasks = 1 .. Len(base.tasks)
    BY <1>7, RunStateFields, LenProperties
  <2> HIDE DEF m, l, base
  <2> QED
    BY <1>8, <2>1, <2>2
<1>11. base.workflow \in Seq(Definition) /\ i \in DOMAIN base.workflow
  <2>1. dropped.workflow \in Seq(Definition)
    BY <1>2, RunStateFields
  <2>2. source \in Stages(dropped.workflow)
    BY <1>2 DEF StateInv, ProducersOutside
  <2>3. source.name \in Names(dropped.workflow)
    BY <2>2 DEF Stages, Names
  <2> QED
    BY <1>7, <2>1, <2>3, FirstIndexExists
<1>12. c \in Name /\ path \in SUBSET Nat
  BY <1>1, EffectiveContinuationType
<1> HIDE DEF base, i, path, c, m, l
<1>13. q \in Seq(Definition)
  BY <1>1, <1>12, ChildStagesProperties
<1>14. ASSUME NEW d \in Stages(q), d.completes PROVE d.task # Nothing
  <2>1. /\ DOMAIN q = DOMAIN FlowStages[f]
        /\ \A k \in DOMAIN q : /\ q[k].task = BoundTask(f, g, FlowStages[f][k].task)
                               /\ q[k].completes = FlowStages[f][k].completes
    BY <1>1, ChildrenBound
  <2> HIDE DEF q
  <2>2. PICK k \in DOMAIN q : d = q[k]
    BY DEF Stages
  <2> DEFINE x == FlowStages[f][k].task
  <2>3. x # "" /\ d.task = BoundTask(f, g, x)
    BY <1>14, <2>1, <2>2 DEF CompletersBound
  <2> HIDE DEF x
  <2>4. d.task = Ref(g, x) \/ d.task = Ref(0, x)
    <3> DEFINE known == \E j \in DOMAIN FlowTasks[f] : FlowTasks[f][j] = x
    <3>1. d.task = CASE x = "" -> Nothing [] known -> Ref(g, x) [] OTHER -> Ref(0, x)
      BY <2>3 DEF BoundTask
    <3> HIDE DEF known
    <3> QED
      BY <2>3, <3>1
  <2>5. d.task.local = x /\ Nothing.local = ""
    <3>1. Ref(g, x).local = x /\ Ref(0, x).local = x
      BY RefFields
    <3>2. d.task.local = x
      BY <2>4, <3>1
    <3> QED
      BY <3>2, NothingFields
  <2> QED
    BY <2>3, <2>5
<1> HIDE DEF q
<1>15. Stages(workflow) = Stages(base.workflow) \cup Stages(q)
  BY <1>11, <1>13, InsertProperties
<1> HIDE DEF workflow, t
<1>16. CompletersNamed(t)
  BY <1>2, <1>7, <1>9, <1>14, <1>15 DEF CompletersNamed
<1>17. ASSUME NEW k \in 1 .. m + l
       PROVE  \/ k \in 1 .. m /\ t.tasks[k] = dropped.tasks[k]
              \/ \E j \in 1 .. l : k = m + j /\ t.tasks[k].id = Ref(g, FlowTasks[f][j])
  <2>1. CASE k <= m
    BY <1>8, <1>9, <1>10, <2>1
  <2>2. CASE k > m
    <3>1. k - m \in 1 .. l /\ k = m + (k - m)
      BY <1>10, <2>2
    <3> QED
      BY <1>8, <1>9, <3>1
  <2> QED
    BY <1>10, <2>1, <2>2
<1>18. UniqueTasks(t)
  <2> SUFFICES ASSUME NEW x \in 1 .. m + l, NEW y \in 1 .. m + l, t.tasks[x].id = t.tasks[y].id
               PROVE  x = y
    BY <1>9, <1>10 DEF UniqueTasks
  <2>1. \A k \in 1 .. m : dropped.tasks[k].id.group # g
    BY <1>3, <1>5, <1>10
  <2>2. \A j, k \in 1 .. l : Ref(g, FlowTasks[f][j]) = Ref(g, FlowTasks[f][k]) => j = k
    BY <1>10, RefFields DEF TaskLabelsDiffer
  <2>3. \A j : Ref(g, FlowTasks[f][j]).group = g
    BY RefFields
  <2>4. CASE x \in 1 .. m /\ t.tasks[x] = dropped.tasks[x]
    BY <1>6, <1>10, <1>17, <2>1, <2>3, <2>4, SMTT(30)
  <2>5. CASE \E j \in 1 .. l : x = m + j /\ t.tasks[x].id = Ref(g, FlowTasks[f][j])
    BY <1>17, <2>1, <2>2, <2>3, <2>5
  <2> QED
    BY <1>17, <2>4, <2>5
<1>19. ASSUME NEW j \in DOMAIN s.tasks, NEW k \in DOMAIN t.tasks, t.tasks[k].id = s.tasks[j].id
       PROVE  t.tasks[k] = s.tasks[j]
  <2>1. k \in 1 .. m + l
    BY <1>9, <1>10
  <2>2. k \in 1 .. m /\ t.tasks[k] = dropped.tasks[k]
    BY <1>3, <1>17, <1>19, <2>1, RefFields
  <2>3. Nth(K, k) \in DOMAIN s.tasks /\ t.tasks[k] = s.tasks[Nth(K, k)]
    BY <1>5, <1>10, <2>2
  <2> QED
    BY <1>19, <2>3 DEF UniqueTasks
<1> QED
  BY <1>16, <1>18, <1>19 DEF t

(* While a Stage bound to a task runs and is settled, its task is the current *)
(* one.                                                                       *)
BoundToCurrent ==
  pc \in {"executing", "settle"} /\ Current.task # Nothing =>
    mem.current < Len(mem.tasks) /\ mem.tasks[mem.current + 1].id = Current.task

EngineOwn ==
  /\ EngineTidy
  /\ mem.tasks = disk.tasks /\ UniqueTasks(mem)
  /\ CompletersNamed(mem) /\ CompletersNamed(disk)
  /\ BoundToCurrent

OnlyOwnCompletes ==
  \A i \in DOMAIN mem.tasks :
    mem.tasks[i].status = "pending" /\ i \in DOMAIN mem'.tasks
      /\ mem'.tasks[i] = [mem.tasks[i] EXCEPT !.status = "completed"]
    => pc = "settle" /\ Current.task = mem.tasks[i].id

(* What a step may do to the task list. *)
TaskStep ==
  /\ UniqueTasks(mem') /\ CompletersNamed(mem')
  /\ disk' = mem' \/ (disk' = disk /\ mem'.tasks = mem.tasks)
  /\ BoundToCurrent'
  /\ OnlyOwnCompletes

(* A task of the list has a status, and completing it is a change. *)
LEMMA CompletionChanges ==
  ASSUME NEW s \in RunState, NEW i \in DOMAIN s.tasks, s.tasks[i].status = "pending"
  PROVE  /\ [s.tasks[i] EXCEPT !.status = "completed"] # s.tasks[i]
         /\ [s.tasks[i] EXCEPT !.status = "completed"].id = s.tasks[i].id
<1>1. s.tasks[i] \in Task
  BY RunStateFields, LenProperties, ElementOfSeq
<1> DEFINE x == s.tasks[i]
<1> HIDE DEF x
<1>2. [x EXCEPT !.status = "completed"].status = "completed"
      /\ [x EXCEPT !.status = "completed"].id = x.id
  BY <1>1 DEF Task, x
<1>3. x.status = "pending" /\ x \in Task
  BY <1>1 DEF x
<1>4. [x EXCEPT !.status = "completed"] # x
  BY <1>2, <1>3
<1> QED
  BY <1>2, <1>4 DEF x

(* A step that keeps the tasks and the Stages, and stays at its Stage if it   *)
(* is at one.                                                                 *)
LEMMA KeepingStep ==
  ASSUME EngineOwn, mem'.workflow = mem.workflow, mem'.tasks = mem.tasks,
         disk' \in {disk, mem'}, BoundToCurrent'
  PROVE  TaskStep
<1>1. UniqueTasks(mem') /\ CompletersNamed(mem')
  BY DEF EngineOwn, UniqueTasks, CompletersNamed
<1>2. mem \in RunState
  BY Zenon DEF EngineOwn, EngineTidy, IndInv, TypeOK
<1>3. OnlyOwnCompletes
  BY <1>2, CompletionChanges DEF OnlyOwnCompletes
<1> QED
  BY <1>1, <1>3 DEF TaskStep

(* Entering a Stage makes its task the current one. *)
LEMMA EnterOwn ==
  ASSUME EngineOwn, Enter
  PROVE  TaskStep
<1> DEFINE a == Activate(mem, Current)
<1>1. mem \in RunState /\ StateInv(mem) /\ EngineTidy
  BY Zenon DEF EngineOwn, EngineTidy, IndInv, TypeOK
<1>2. ASSUME MoreStages, BindingKnown(mem, Current)
      PROVE  /\ a \in RunState
             /\ a.workflow = mem.workflow /\ a.tasks = mem.tasks /\ a.position = mem.position
             /\ Current.task # Nothing =>
                  a.current < Len(a.tasks) /\ a.tasks[a.current + 1].id = Current.task
  <2>1. Current \in Definition
    BY <1>1, <1>2, CurrentProperties DEF MoreStages
  <2>2. /\ a.workflow = mem.workflow /\ a.tasks = mem.tasks /\ a.position = mem.position
        /\ Current.task # Nothing =>
             a.current < Len(a.tasks) /\ a.tasks[a.current + 1].id = Current.task
    BY <1>1, <1>2, <2>1, ActivateMarks
  <2>3. a \in RunState
    BY <1>1, <1>2, <2>1, ActivateProperties DEF SameWorkflow
  <2> QED
    BY <2>2, <2>3
<1> HIDE DEF a
<1>3. ASSUME MoreStages, BindingKnown(mem, Current), SameMarks(a, mem'), disk' \in {disk, mem'}
      PROVE  TaskStep
  <2>1. /\ mem'.workflow = mem.workflow /\ mem'.tasks = mem.tasks
        /\ mem'.current = a.current /\ mem'.position = mem.position /\ mem'.tasks = a.tasks
    BY <1>2, <1>3 DEF SameMarks
  <2>2. Current' = Current
    BY <2>1 DEF Current
  <2>3. Current.task # Nothing =>
          mem'.current < Len(mem'.tasks) /\ mem'.tasks[mem'.current + 1].id = Current.task
    <3>1. Current.task # Nothing =>
            a.current < Len(a.tasks) /\ a.tasks[a.current + 1].id = Current.task
      BY <1>2, <1>3
    <3> QED
      BY <2>1, <3>1
  <2>4. BoundToCurrent'
    BY <2>2, <2>3 DEF BoundToCurrent
  <2> QED
    BY <1>3, <2>1, <2>4, KeepingStep
<1>4. CASE ExhaustCycles
  <2>1. mem' = [mem EXCEPT !.stage = "max_cycles_exhausted"] /\ disk' = mem' /\ pc' = "stopped"
    BY <1>4 DEF ExhaustCycles, Save
  <2>2. SameMarks(mem, mem')
    BY <1>1, <2>1, BookkeepingMarks, Zenon
  <2> QED
    BY <2>1, <2>2, KeepingStep DEF SameMarks, BoundToCurrent
<1>5. CASE FinishAtEnd
  <2>1. /\ pc' \in {"finished", "failed"}
        /\ \/ mem' = FinishRun(mem) /\ disk' = mem'
           \/ mem' = mem /\ disk' = disk
    BY <1>5 DEF FinishAtEnd, Save
  <2>2. mem'.workflow = mem.workflow /\ mem'.tasks = mem.tasks
    BY <1>1, <2>1, FinishRunMarks DEF SameMarks
  <2> QED
    BY <2>1, <2>2, KeepingStep DEF BoundToCurrent
<1>6. CASE ReturnCompleted \/ UnknownTask
  <2>1. mem' = mem /\ disk' = disk /\ pc' \in {"finished", "failed"}
    BY <1>6 DEF ReturnCompleted, UnknownTask
  <2> QED
    BY <2>1, KeepingStep DEF BoundToCurrent
<1>7. CASE BypassReview
  <2> DEFINE failures == Without(a.failures, ReviewKey(a, Current))
  <2>1. /\ MoreStages /\ BindingKnown(mem, Current) /\ disk' = mem'
        /\ mem' = [a EXCEPT !.failures = failures, !.stage = "active"]
    BY <1>7 DEF BypassReview, Save, a
  <2> HIDE DEF failures
  <2>2. SameMarks(a, mem')
    BY <1>2, <2>1, BookkeepingMarks, Zenon
  <2> QED
    BY <1>3, <2>1, <2>2
<1>8. CASE BeginStage
  <2>1. /\ MoreStages /\ BindingKnown(mem, Current)
        /\ \/ mem' = [a EXCEPT !.stage = "active"] /\ disk' = mem'
           \/ mem' = a /\ disk' = disk
    BY <1>8 DEF BeginStage, Save, a
  <2>2. SameMarks(a, mem')
    <3>1. CASE mem' = [a EXCEPT !.stage = "active"]
      BY <1>2, <2>1, <3>1, BookkeepingMarks, Zenon
    <3>2. CASE mem' = a
      BY <3>2 DEF SameMarks
    <3> QED
      BY <2>1, <3>1, <3>2
  <2> QED
    BY <1>3, <2>1, <2>2
<1> QED
  BY <1>4, <1>5, <1>6, <1>7, <1>8 DEF Enter

LEMMA ExecuteOwn ==
  ASSUME EngineOwn, Execute
  PROVE  TaskStep
<1>1. mem \in RunState /\ BoundToCurrent
  BY Zenon DEF EngineOwn, EngineTidy, IndInv, TypeOK
<1>2. CASE RememberSession \/ RotateSession
  <2> DEFINE sessions == IF RememberSession THEN mem.sessions \cup {Current.name}
                         ELSE mem.sessions \ {Current.name}
  <2>1. /\ pc = "executing" /\ pc' = pc /\ disk' = mem'
        /\ mem' = [mem EXCEPT !.sessions = sessions]
    BY <1>2 DEF RememberSession, RotateSession, Save
  <2> HIDE DEF sessions
  <2>2. SameMarks(mem, mem')
    BY <1>1, <2>1, BookkeepingMarks, Zenon
  <2>3. BoundToCurrent'
    BY <1>1, <2>1, <2>2 DEF BoundToCurrent, SameMarks, Current
  <2> QED
    BY <2>1, <2>2, <2>3, KeepingStep DEF SameMarks
<1>3. CASE FinishStage
  <2>1. mem' = mem /\ disk' = mem' /\ pc = "executing" /\ pc' = "settle"
    BY <1>3 DEF FinishStage, Save
  <2>2. BoundToCurrent'
    BY <1>1, <2>1 DEF BoundToCurrent, Current
  <2> QED
    BY <2>1, <2>2, KeepingStep
<1>4. CASE FailStage
  <2>1. mem' = mem /\ disk' = disk /\ pc' = "failed"
    BY <1>4 DEF FailStage, Raise
  <2> QED
    BY <2>1, KeepingStep DEF BoundToCurrent
<1> QED
  BY <1>2, <1>3, <1>4 DEF Execute

(* Only a completing Stage changes a status, that of its own task. *)
LEMMA SettledTasks ==
  ASSUME EngineOwn, pc = "settle", ~NoTaskToFinish
  PROVE  LET t == TaskSettled IN
         /\ t \in RunState /\ t.workflow = mem.workflow
         /\ UniqueTasks(t)
         /\ \A i \in DOMAIN mem.tasks :
              \/ i \in DOMAIN t.tasks /\ t.tasks[i] = mem.tasks[i]
              \/ Current.task = mem.tasks[i].id
<1>1. /\ IndInv /\ mem \in RunState /\ UniqueTasks(mem) /\ StateInv(mem) /\ AtStage
      /\ CompletersNamed(mem)
  BY Zenon DEF EngineOwn, EngineTidy, IndInv, TypeOK
<1>2. SameMarks(mem, Recorded) /\ Recorded \in RunState
  BY <1>1, RecordedMarks, RecordedProperties DEF SameWorkflow
<1>3. SameTree(mem, TaskSettled)
  BY <1>1, TaskSettledTree
<1>4. TaskSettled \in RunState /\ TaskSettled.workflow = mem.workflow
  BY <1>3 DEF SameTree
<1>5. CASE ~CompletesTask
  BY <1>1, <1>2, <1>4, <1>5 DEF TaskSettled, SameMarks, UniqueTasks
<1>6. CASE CompletesTask
  <2> DEFINE t == FinishTask(Recorded)
  <2>1. Recorded.current < Len(Recorded.tasks)
    <3>1. Recorded.current \in Nat /\ Len(Recorded.tasks) \in Nat
      BY <1>2, RunStateFields, LenProperties
    <3> QED
      BY <1>6, <3>1 DEF NoTaskToFinish
  <2>2. /\ DOMAIN t.tasks = DOMAIN Recorded.tasks
        /\ \A j \in DOMAIN Recorded.tasks :
             /\ t.tasks[j].id = Recorded.tasks[j].id
             /\ j # Recorded.current + 1 => t.tasks[j] = Recorded.tasks[j]
    BY <1>2, <2>1, FinishTaskMarks
  <2>3. TaskSettled = t
    BY <1>6 DEF TaskSettled
  <2> HIDE DEF t
  <2>4. /\ DOMAIN t.tasks = DOMAIN mem.tasks
        /\ \A j \in DOMAIN mem.tasks :
             /\ t.tasks[j].id = mem.tasks[j].id
             /\ j # mem.current + 1 => t.tasks[j] = mem.tasks[j]
    BY <1>2, <2>2 DEF SameMarks
  <2>5. UniqueTasks(t)
    BY <1>1, <2>4 DEF UniqueTasks
  <2>6. Current.task # Nothing
    <3>1. Current \in Stages(mem.workflow)
      BY <1>1, CurrentProperties DEF AtStage
    <3> QED
      BY <1>1, <1>6, <3>1 DEF CompletesTask, CompletersNamed
  <2>7. mem.tasks[mem.current + 1].id = Current.task
    BY <2>6 DEF EngineOwn, BoundToCurrent
  <2> QED
    BY <1>4, <2>3, <2>4, <2>5, <2>7
<1> QED
  BY <1>5, <1>6

LEMMA SettleOwn ==
  ASSUME TaskLabelsDiffer, CompletersBound, EngineOwn, Settle
  PROVE  TaskStep
<1>1. /\ IndInv /\ pc = "settle" /\ StateInv(mem) /\ AtStage /\ EngineTidy
      /\ mem \in RunState /\ ~mem.completed /\ TidyInv(mem)
      /\ UniqueTasks(mem) /\ CompletersNamed(mem)
  BY Zenon DEF Settle, ExpandChildren, RejectExpansion, SettleWithoutTask, Settled, SettleStop,
         SettleDone, SettleNext, SettleRoute, EngineOwn, EngineTidy, IndInv, TypeOK, AtStage
<1>2. ASSUME ~NoTaskToFinish, mem'.workflow = TaskSettled.workflow,
             mem'.tasks = TaskSettled.tasks, disk' = mem', pc' \in {"loop", "stopped"}
      PROVE  TaskStep
  <2>1. /\ TaskSettled.workflow = mem.workflow /\ UniqueTasks(TaskSettled)
        /\ \A i \in DOMAIN mem.tasks :
             \/ i \in DOMAIN TaskSettled.tasks /\ TaskSettled.tasks[i] = mem.tasks[i]
             \/ Current.task = mem.tasks[i].id
    BY <1>1, <1>2, SettledTasks
  <2>2. UniqueTasks(mem') /\ CompletersNamed(mem')
    BY <1>1, <1>2, <2>1 DEF UniqueTasks, CompletersNamed
  <2>3. BoundToCurrent'
    BY <1>2 DEF BoundToCurrent
  <2>4. OnlyOwnCompletes
    BY <1>1, <1>2, <2>1, CompletionChanges DEF OnlyOwnCompletes
  <2> QED
    BY <1>2, <2>2, <2>3, <2>4 DEF TaskStep
<1>3. ASSUME ~NoTaskToFinish
      PROVE  TaskSettled \in RunState /\ TaskSettled.workflow = mem.workflow
  BY <1>1, <1>3, SettledTasks
<1>4. CASE ExpandChildren
  <2> DEFINE e == Expand(Recorded, Current, result.flow, Target)
             position == mem.position + 1
  <2>1. SameTree(mem, Recorded) /\ Recorded.workflow = mem.workflow /\ ~Recorded.completed
    BY <1>1, RecordedTree DEF SameTree
  <2>2. StateInv(Recorded)
    BY <1>1, RecordedProperties, SameWorkflowInv
  <2>3. OneOwner(Recorded) /\ NothingStale(Recorded)
    BY <1>1, <2>1, SameTreeTidy DEF TidyInv
  <2>4. Current \in Stages(Recorded.workflow)
    BY <1>1, <2>1, CurrentProperties DEF AtStage
  <2>5. Recorded.tasks = mem.tasks
    BY <1>1, RecordedMarks DEF SameMarks
  <2>6. UniqueTasks(Recorded) /\ CompletersNamed(Recorded)
    BY <1>1, <2>1, <2>5 DEF UniqueTasks, CompletersNamed
  <2>7. result.flow \in FlowId /\ FlowAccepted(result.flow)
    BY <1>1, <1>4, Zenon DEF ExpandChildren, Expands, IndInv, TypeOK, StageResult
  <2>8. Target \in Keywords \cup RouteTargets(Current)
    BY <1>1, TargetKnown
  <2>9. mem' = [e EXCEPT !.position = position] /\ disk' = mem' /\ pc' = "loop"
    BY <1>4 DEF ExpandChildren, Commit, Save
  <2>10. StateInv(e)
    BY <2>1, <2>2, <2>4, <2>7, <2>8, ExpandPreservesStateInv
  <2>11. /\ UniqueTasks(e) /\ CompletersNamed(e)
         /\ \A i \in DOMAIN Recorded.tasks, k \in DOMAIN e.tasks :
              e.tasks[k].id = Recorded.tasks[i].id => e.tasks[k] = Recorded.tasks[i]
    BY <2>2, <2>3, <2>4, <2>6, <2>7, <2>8, ExpandTasks
  <2> HIDE DEF e, position
  <2>12. mem'.workflow = e.workflow /\ mem'.tasks = e.tasks
    BY <2>9, <2>10, PositionMarks DEF StateInv
  <2>13. UniqueTasks(mem') /\ CompletersNamed(mem')
    BY <2>11, <2>12 DEF UniqueTasks, CompletersNamed
  <2>14. ASSUME NEW i \in DOMAIN mem.tasks, mem.tasks[i].status = "pending",
                i \in DOMAIN mem'.tasks,
                mem'.tasks[i] = [mem.tasks[i] EXCEPT !.status = "completed"]
         PROVE  FALSE
    <3>1. mem'.tasks[i].id = mem.tasks[i].id /\ mem'.tasks[i] # mem.tasks[i]
      BY <1>1, <2>14, CompletionChanges
    <3>2. i \in DOMAIN Recorded.tasks /\ Recorded.tasks[i] = mem.tasks[i]
      BY <2>5, <2>14
    <3>3. i \in DOMAIN e.tasks /\ e.tasks[i] = mem'.tasks[i]
      BY <2>12, <2>14
    <3>4. e.tasks[i].id = Recorded.tasks[i].id
      BY <3>1, <3>2, <3>3
    <3>5. e.tasks[i] = Recorded.tasks[i]
      BY <2>11, <3>2, <3>3, <3>4
    <3> QED
      BY <3>1, <3>2, <3>3, <3>5
  <2>15. OnlyOwnCompletes
    BY <2>14 DEF OnlyOwnCompletes
  <2> QED
    BY <2>9, <2>13, <2>15 DEF TaskStep, BoundToCurrent
<1>5. CASE RejectExpansion \/ SettleWithoutTask
  <2>1. mem' = mem /\ disk' = disk /\ pc' = "failed"
    BY <1>5 DEF RejectExpansion, SettleWithoutTask, Raise
  <2> QED
    BY <2>1, KeepingStep DEF BoundToCurrent
<1>6. CASE SettleStop
  BY <1>2, <1>6 DEF SettleStop, Settled, Commit, Save
<1>7. CASE SettleDone
  <2>1. ~NoTaskToFinish
    BY <1>7 DEF SettleDone, Settled
  <2>2. \/ mem' = FinishRun(TaskSettled) /\ disk' = mem' /\ pc' = "loop"
        \/ mem' = mem /\ disk' = disk /\ pc' = "failed"
    BY <1>7 DEF SettleDone, Commit, Save, Raise
  <2>3. CASE mem' = FinishRun(TaskSettled) /\ disk' = mem' /\ pc' = "loop"
    <3>1. SameMarks(TaskSettled, mem')
      BY <1>3, <2>1, <2>3, FinishRunMarks
    <3> QED
      BY <1>2, <2>1, <2>3, <3>1 DEF SameMarks
  <2>4. CASE mem' = mem /\ disk' = disk /\ pc' = "failed"
    BY <2>4, KeepingStep DEF BoundToCurrent
  <2> QED
    BY <2>2, <2>3, <2>4
<1>8. CASE SettleNext
  <2> DEFINE position == TaskSettled.position + 1
  <2>1. /\ ~NoTaskToFinish /\ mem' = [TaskSettled EXCEPT !.position = position]
        /\ disk' = mem' /\ pc' = "loop"
    BY <1>8 DEF SettleNext, Settled, Commit, Save
  <2> HIDE DEF position
  <2>2. mem'.workflow = TaskSettled.workflow /\ mem'.tasks = TaskSettled.tasks
    BY <1>3, <2>1, PositionMarks
  <2> QED
    BY <1>2, <2>1, <2>2
<1>9. CASE SettleRoute
  <2> DEFINE target == DynamicTarget(Current, Target)
  <2>1. /\ ~NoTaskToFinish /\ mem' = Route(TaskSettled, target) /\ disk' = mem'
        /\ target \notin Keywords /\ pc' = "loop"
    BY <1>9 DEF SettleRoute, Settled, Commit, Save
  <2>2. target \in Names(TaskSettled.workflow)
    BY <1>1, <1>3, <2>1, TargetKnown
  <2> HIDE DEF target
  <2>3. mem'.workflow = TaskSettled.workflow /\ mem'.tasks = TaskSettled.tasks
    BY <1>3, <2>1, <2>2, RouteMarks
  <2> QED
    BY <1>2, <2>1, <2>3
<1> QED
  BY <1>4, <1>5, <1>6, <1>7, <1>8, <1>9 DEF Settle

(* The task list in memory is the saved one: a worker that dies loses none of *)
(* it.                                                                        *)
LEMMA RecoverOwn ==
  ASSUME EngineOwn, Recover \/ Crash
  PROVE  TaskStep
<1>1. /\ mem \in RunState /\ disk \in RunState /\ UniqueTasks(mem)
      /\ mem.tasks = disk.tasks /\ CompletersNamed(mem) /\ CompletersNamed(disk)
  BY Zenon DEF EngineOwn, EngineTidy, IndInv, TypeOK
<1>2. ASSUME mem'.tasks = mem.tasks, mem'.workflow \in {mem.workflow, disk.workflow},
             disk' = mem' \/ disk' = disk, pc' \notin {"executing", "settle"}
      PROVE  TaskStep
  <2>1. UniqueTasks(mem') /\ CompletersNamed(mem')
    BY <1>1, <1>2 DEF UniqueTasks, CompletersNamed
  <2>2. OnlyOwnCompletes
    BY <1>1, <1>2, CompletionChanges DEF OnlyOwnCompletes
  <2> QED
    BY <1>2, <2>1, <2>2 DEF TaskStep, BoundToCurrent
<1>3. CASE Crash \/ RefuseResume
  BY <1>1, <1>2, <1>3 DEF Crash, RefuseResume
<1>4. CASE ResumeAfterCrash \/ ResumeByOperator
  <2>1. mem' = Normalize(disk) /\ disk' = mem' /\ pc' = "loop"
    BY <1>4 DEF ResumeAfterCrash, ResumeByOperator, Resume, Save
  <2>2. mem'.workflow = disk.workflow /\ mem'.tasks = disk.tasks
    BY <1>1, <2>1, NormalizeMarks
  <2> QED
    BY <1>1, <1>2, <2>1, <2>2
<1> QED
  BY <1>3, <1>4 DEF Recover

LEMMA InitOwn == Init => EngineOwn
<1> SUFFICES ASSUME Init PROVE EngineOwn
  OBVIOUS
<1>1. EngineTidy
  BY InitTidy
<1>2. mem.tasks = <<>> /\ disk = mem /\ pc = "loop"
  BY Zenon DEF Init
<1>3. CompletersNamed(mem)
  <2>1. mem.workflow = [i \in 1 .. Len(Workflow) |-> Instantiate(Workflow[i], 0, {}, Nothing)]
    BY Zenon DEF Init
  <2>2. \A i \in 1 .. Len(Workflow) : mem.workflow[i].completes = Workflow[i].completes
    BY <2>1 DEF Instantiate
  <2>3. \A i \in 1 .. Len(Workflow) : ~Workflow[i].completes
    BY WorkflowAssumption, LenProperties
  <2>4. DOMAIN mem.workflow = 1 .. Len(Workflow)
    BY <2>1
  <2> QED
    BY <2>2, <2>3, <2>4 DEF CompletersNamed, Stages
<1>4. UniqueTasks(mem)
  BY <1>2 DEF UniqueTasks
<1> QED
  BY <1>1, <1>2, <1>3, <1>4 DEF EngineOwn, BoundToCurrent

LEMMA NextOwn ==
  ASSUME TaskLabelsDiffer, CompletersBound
  PROVE  EngineOwn /\ [Next]_vars => EngineOwn' /\ [OnlyOwnCompletes]_vars
<1> SUFFICES ASSUME EngineOwn, [Next]_vars PROVE EngineOwn' /\ [OnlyOwnCompletes]_vars
  OBVIOUS
<1>1. EngineTidy'
  BY NextTidy DEF EngineOwn
<1>2. CASE UNCHANGED vars \/ Terminated
  <2>1. UNCHANGED vars
    BY <1>2 DEF Terminated
  <2>2. EngineOwn'
    BY <1>1, <2>1 DEF EngineOwn, BoundToCurrent, Current, UniqueTasks, CompletersNamed, vars
  <2> QED
    BY <2>1, <2>2
<1>3. CASE Enter \/ Execute \/ Settle \/ Crash \/ Recover
  <2>1. TaskStep
    BY <1>3, EnterOwn, ExecuteOwn, SettleOwn, RecoverOwn
  <2>2. mem'.tasks = disk'.tasks /\ CompletersNamed(disk')
    BY <2>1 DEF TaskStep, EngineOwn
  <2> QED
    BY <1>1, <2>1, <2>2 DEF TaskStep, EngineOwn
<1> QED
  BY <1>2, <1>3 DEF Next

(* A task is completed by a Stage bound to it and by nothing else, neither an *)
(* expansion nor a resume, for producers whose tasks have different ids and   *)
(* whose completing children name one (results.py:285).                       *)
THEOREM OwnStageCompletes ==
  ASSUME TaskLabelsDiffer, CompletersBound PROVE Spec => OnlyOwnStageCompletesTask
<1>1. Init => EngineOwn
  BY InitOwn
<1>2. EngineOwn /\ [Next]_vars => EngineOwn' /\ [OnlyOwnCompletes]_vars
  BY NextOwn
<1> QED
  BY <1>1, <1>2, PTL DEF Spec, OnlyOwnStageCompletesTask, OnlyOwnCompletes

--------------------------------------------------------------------------
(* How often a Review may fail its task.                                     *)

Closed(s, t) == \E i \in DOMAIN s.tasks : s.tasks[i].id = t /\ s.tasks[i].status = "completed"
Open(s, d) == Counted(d) /\ d.task # Nothing /\ ~Closed(s, d.task)
OwnKey(d) == [review |-> d.name, scope |-> d.task]

(* One entry for each key, as in a dictionary. *)
Single(entries) == \A e, o \in entries : e.key = o.key => e = o

(* The failures that state.json counts of a Review, and the verdicts it gave. *)
Failed(s, d) == Count(s.failures, OwnKey(d))
Spent(counts, d) == Count(counts, d.name)

(* What the worker and state.json never differ in. *)
Agree ==
  /\ disk.workflow = mem.workflow /\ disk.tasks = mem.tasks
  /\ disk.failures = mem.failures /\ disk.expansions = mem.expansions

(* Counts are kept once, for names that have been given, and tasks belong to  *)
(* expansions.                                                                *)
Keyed(s, counts) ==
  /\ Single(s.failures) /\ Single(counts)
  /\ \A e \in counts : e.key.group <= s.expansions
  /\ \A i \in DOMAIN s.tasks : s.tasks[i].id.group # 0

(* Every interruption may have cost the counter one budget, and no more: the  *)
(* verdicts that the counter does not know of are those of earlier budgets.   *)
Within(s, counts, d, n) ==
  /\ Failed(s, d) <= d.maxFailures
  /\ Spent(counts, d) <= d.maxFailures * n + Failed(s, d)
Budgets(s, counts) == \A d \in Stages(s.workflow) : Open(s, d) => Within(s, counts, d, crashes)

(* Between the bypass that cleared the counter on disk and its commit, the     *)
(* verdicts of one budget more are still there.                               *)
Granting(d) == pc = "failed" \/ (pc = "settle" /\ result.bypassed /\ d = Current)
Granted ==
  \A d \in Stages(mem.workflow) : Open(mem, d) =>
    /\ Failed(mem, d) <= d.maxFailures
    /\ \/ Spent(verdicts, d) <= d.maxFailures * crashes + Failed(mem, d)
       \/ Granting(d) /\ Spent(verdicts, d) <= d.maxFailures * (crashes + 1)

(* A Review that runs has a failure left. *)
MayFail ==
  /\ pc = "executing" \/ (pc = "settle" /\ ~result.bypassed) =>
       (Open(mem, Current) => Failed(mem, Current) < Current.maxFailures)
  /\ pc = "settle" /\ result.bypassed => result.status = "pass"

BudgetInv == Agree /\ BoundToCurrent /\ Keyed(mem, verdicts) /\ Granted /\ MayFail
EngineBudget == EngineSound /\ BudgetInv

(* Counting in a dictionary. *)
LEMMA CountKept ==
  ASSUME NEW E, NEW F, Single(E), F \subseteq E, NEW k,
         \A e \in E : e.key = k => e \in F
  PROVE  Count(F, k) = Count(E, k)
<1>1. CASE \E e \in E : e.key = k
  <2>1. PICK e \in E : e.key = k
    BY <1>1
  <2>2. e \in F
    BY <2>1
  <2> DEFINE x == CHOOSE o \in E : o.key = k
             y == CHOOSE o \in F : o.key = k
  <2>3. x \in E /\ x.key = k
    BY <2>1
  <2>4. y \in F /\ y.key = k
    BY <2>1, <2>2
  <2>5. x = y
    BY <2>3, <2>4 DEF Single
  <2>6. Count(E, k) = x.count /\ Count(F, k) = y.count
    BY <2>1, <2>2 DEF Count
  <2> QED
    BY <2>5, <2>6
<1>2. CASE ~\E e \in E : e.key = k
  BY <1>2 DEF Count
<1> QED
  BY <1>1, <1>2

LEMMA CountIs ==
  ASSUME NEW E, Single(E), NEW e \in E
  PROVE  Count(E, e.key) = e.count
<1> DEFINE x == CHOOSE o \in E : o.key = e.key
<1>1. x \in E /\ x.key = e.key
  OBVIOUS
<1>2. x = e
  BY <1>1 DEF Single
<1>3. Count(E, e.key) = x.count
  BY DEF Count
<1> QED
  BY <1>2, <1>3

LEMMA WithoutCounts ==
  ASSUME NEW E, Single(E), NEW k
  PROVE  /\ Single(Without(E, k)) /\ Count(Without(E, k), k) = 0
         /\ \A j : j # k => Count(Without(E, k), j) = Count(E, j)
<1>1. Single(Without(E, k)) /\ Count(Without(E, k), k) = 0
  BY DEF Without, Single, Count
<1>2. ASSUME NEW j, j # k PROVE Count(Without(E, k), j) = Count(E, j)
  <2>1. Without(E, k) \subseteq E /\ \A e \in E : e.key = j => e \in Without(E, k)
    BY <1>2 DEF Without
  <2> QED
    BY <2>1, CountKept
<1> QED
  BY <1>1, <1>2

LEMMA BumpCounts ==
  ASSUME NEW E, Single(E), NEW k
  PROVE  /\ Single(Bump(E, k)) /\ Count(Bump(E, k), k) = Count(E, k) + 1
         /\ \A j : j # k => Count(Bump(E, k), j) = Count(E, j)
<1> DEFINE new == [key |-> k, count |-> Count(E, k) + 1]
           B   == Bump(E, k)
           W   == Without(E, k)
<1>1. B = W \cup {new} /\ new.key = k /\ new.count = Count(E, k) + 1
  BY DEF Bump
<1>2. \A e \in W : e \in E /\ e.key # k
  BY DEF Without
<1> HIDE DEF new, B, W
<1>3. Single(B)
  BY <1>1, <1>2 DEF Single
<1>4. Count(B, k) = Count(E, k) + 1
  BY <1>1, <1>3, CountIs
<1>5. ASSUME NEW j, j # k PROVE Count(B, j) = Count(E, j)
  <2>1. W \subseteq B /\ \A e \in B : e.key = j => e \in W
    BY <1>1, <1>5
  <2>2. Count(W, j) = Count(B, j)
    BY <1>3, <2>1, CountKept
  <2>3. Count(W, j) = Count(E, j)
    BY <1>5, WithoutCounts DEF W
  <2> QED
    BY <2>2, <2>3
<1> QED
  BY <1>3, <1>4, <1>5 DEF B

(* Everything that is counted is a number. *)
LEMMA CountsAreNumbers ==
  ASSUME NEW s \in RunState, NEW counts \in SUBSET [key : Name, count : Nat],
         NEW d \in Stages(s.workflow)
  PROVE  /\ d \in Definition /\ d.name \in Name /\ d.name.group \in Nat /\ d.maxFailures \in Nat
         /\ Failed(s, d) \in Nat /\ Spent(counts, d) \in Nat
<1>1. d \in Definition
  BY RunStateFields, StagesAreDefinitions
<1>2. d.name \in Name /\ d.name.group \in Nat /\ d.task \in Name
  BY <1>1, DefinitionFields
<1>3. d.maxFailures \in Nat
  BY <1>1 DEF Definition
<1>4. OwnKey(d) \in [review : Name, scope : Name]
  BY <1>2 DEF OwnKey
<1>5. s.failures \in SUBSET [key : [review : Name, scope : Name], count : Nat]
  BY RunStateFields
<1>6. Failed(s, d) \in Nat
  BY <1>4, <1>5, CountType DEF Failed
<1>7. Spent(counts, d) \in Nat
  BY <1>2, CountType DEF Spent
<1> QED
  BY <1>1, <1>2, <1>3, <1>6, <1>7

(* M * (n + 1) is M * n + M. *)
LEMMA OneMore == \A M, n \in Nat : M * (n + 1) = M * n + M /\ M * n \in Nat
  OBVIOUS

(* The engine's variables, as a step finds them. *)
LEMMA EngineTypes ==
  ASSUME IndInv
  PROVE  /\ mem \in RunState /\ disk \in RunState /\ StateInv(mem) /\ crashes \in Nat
         /\ verdicts \in SUBSET [key : Name, count : Nat]
BY Zenon DEF IndInv, TypeOK

(* A step that counts nothing and drops nothing. *)
LEMMA CountNothing ==
  ASSUME IndInv, Keyed(mem, verdicts), Granted,
         mem'.workflow = mem.workflow, mem'.tasks = mem.tasks, mem'.failures = mem.failures,
         mem'.expansions = mem.expansions, verdicts' = verdicts,
         \/ crashes' = crashes + 1
         \/ crashes' = crashes /\ \A d \in Stages(mem.workflow) : Granting(d) => Granting(d)'
  PROVE  Keyed(mem, verdicts)' /\ Granted'
<1>1. Keyed(mem, verdicts)'
  BY DEF Keyed
<1>2. ASSUME NEW d \in Stages(mem'.workflow), Open(mem', d)
      PROVE  /\ Failed(mem', d) <= d.maxFailures
             /\ \/ Spent(verdicts', d) <= d.maxFailures * crashes' + Failed(mem', d)
                \/ Granting(d)' /\ Spent(verdicts', d) <= d.maxFailures * (crashes' + 1)
  <2>1. d \in Stages(mem.workflow) /\ Open(mem, d)
    BY <1>2 DEF Open, Closed
  <2> DEFINE M == d.maxFailures
             F == Failed(mem, d)
             V == Spent(verdicts, d)
  <2>2. Failed(mem', d) = F /\ Spent(verdicts', d) = V
    BY DEF Failed
  <2>3. M \in Nat /\ F \in Nat /\ V \in Nat /\ crashes \in Nat
    BY <2>1, EngineTypes, CountsAreNumbers
  <2>4. F <= M /\ (V <= M * crashes + F \/ (Granting(d) /\ V <= M * (crashes + 1)))
    BY <2>1 DEF Granted
  <2>5. M * (crashes + 1) = M * crashes + M /\ M * crashes \in Nat
    BY <2>3, OneMore
  <2> HIDE DEF M, F, V
  <2>6. CASE crashes' = crashes + 1
    BY <2>2, <2>3, <2>4, <2>5, <2>6 DEF M
  <2>7. CASE crashes' = crashes /\ (Granting(d) => Granting(d)')
    BY <2>2, <2>4, <2>7 DEF M
  <2> QED
    BY <2>1, <2>6, <2>7
<1> QED
  BY <1>1, <1>2 DEF Granted

(* Entering a Stage changes the current task alone, to the one the Stage is   *)
(* bound to.                                                                  *)
LEMMA EnteredStage ==
  ASSUME IndInv, MoreStages, BindingKnown(mem, Current)
  PROVE  LET a == Activate(mem, Current) IN
         /\ a \in RunState /\ Current \in Stages(mem.workflow)
         /\ a.workflow = mem.workflow /\ a.tasks = mem.tasks /\ a.position = mem.position
         /\ a.failures = mem.failures /\ a.expansions = mem.expansions
         /\ Current.task # Nothing =>
              /\ a.current < Len(a.tasks) /\ a.tasks[a.current + 1].id = Current.task
              /\ ReviewKey(a, Current) = OwnKey(Current)
<1> DEFINE a == Activate(mem, Current)
<1>1. /\ mem \in RunState /\ StateInv(mem) /\ mem.position < Len(mem.workflow)
      /\ Current \in Stages(mem.workflow) /\ Current \in Definition
  BY EngineTypes, CurrentProperties DEF MoreStages
<1>2. /\ a.workflow = mem.workflow /\ a.tasks = mem.tasks /\ a.position = mem.position
      /\ Current.task # Nothing =>
           a.current < Len(a.tasks) /\ a.tasks[a.current + 1].id = Current.task
  BY <1>1, ActivateMarks
<1>3. a \in RunState /\ a.expansions = mem.expansions
  BY <1>1, ActivateProperties DEF SameWorkflow
<1>4. a.failures = mem.failures
  <2> DEFINE current == (CHOOSE i \in DOMAIN mem.tasks : mem.tasks[i].id = Current.task) - 1
  <2>1. a = mem \/ a = [mem EXCEPT !.current = current]
    BY DEF Activate
  <2> HIDE DEF a, current
  <2> QED
    BY <1>1, <2>1 DEF RunState
<1>5. ASSUME Current.task # Nothing PROVE ReviewKey(a, Current) = OwnKey(Current)
  BY <1>2, <1>5 DEF ReviewKey, Scope, OwnKey
<1> QED
  BY <1>1, <1>2, <1>3, <1>4, <1>5

LEMMA EnterBound ==
  ASSUME IndInv, Enter
  PROVE  BoundToCurrent'
<1> DEFINE a == Activate(mem, Current)
<1>1. ASSUME MoreStages, BindingKnown(mem, Current), SameMarks(a, mem')
      PROVE  BoundToCurrent'
  <2>1. mem'.workflow = mem.workflow /\ mem'.position = mem.position
        /\ mem'.tasks = a.tasks /\ mem'.current = a.current
    BY <1>1, EnteredStage DEF SameMarks
  <2>2. Current' = Current
    BY <2>1 DEF Current
  <2>3. Current.task # Nothing =>
          a.current < Len(a.tasks) /\ a.tasks[a.current + 1].id = Current.task
    BY <1>1, EnteredStage
  <2> HIDE DEF a
  <2> QED
    BY <2>1, <2>2, <2>3 DEF BoundToCurrent
<1>2. CASE BypassReview
  <2> DEFINE failures == Without(a.failures, ReviewKey(a, Current))
  <2>1. /\ MoreStages /\ BindingKnown(mem, Current)
        /\ mem' = [a EXCEPT !.failures = failures, !.stage = "active"]
    BY <1>2 DEF BypassReview
  <2>2. a \in RunState
    BY <2>1, EnteredStage
  <2> HIDE DEF failures, a
  <2>3. SameMarks(a, mem')
    BY <2>1, <2>2, BookkeepingMarks, Zenon
  <2> QED
    BY <1>1, <2>1, <2>3
<1>3. CASE BeginStage
  <2>1. /\ MoreStages /\ BindingKnown(mem, Current)
        /\ mem' = [a EXCEPT !.stage = "active"] \/ mem' = a
    BY <1>3 DEF BeginStage
  <2>2. a \in RunState
    BY <2>1, EnteredStage
  <2> HIDE DEF a
  <2>3. CASE mem' = [a EXCEPT !.stage = "active"]
    <3>1. SameMarks(a, mem')
      BY <2>2, <2>3, BookkeepingMarks, Zenon
    <3> QED
      BY <1>1, <2>1, <3>1
  <2>4. CASE mem' = a
    BY <1>1, <2>1, <2>4 DEF SameMarks
  <2> QED
    BY <2>1, <2>3, <2>4
<1>4. CASE ExhaustCycles \/ FinishAtEnd \/ ReturnCompleted \/ UnknownTask
  <2>1. pc' \in {"stopped", "finished", "failed"}
    BY <1>4 DEF ExhaustCycles, FinishAtEnd, ReturnCompleted, UnknownTask
  <2> QED
    BY <2>1 DEF BoundToCurrent
<1> QED
  BY <1>2, <1>3, <1>4 DEF Enter

(* The task of the Stage that runs stays the current one while it runs. *)
LEMMA NextBound ==
  ASSUME IndInv, BoundToCurrent, [Next]_vars
  PROVE  BoundToCurrent'
<1>1. CASE Enter
  BY <1>1, EnterBound
<1>2. CASE RememberSession \/ RotateSession
  <2> DEFINE sessions == IF RememberSession THEN mem.sessions \cup {Current.name}
                         ELSE mem.sessions \ {Current.name}
  <2>1. pc = "executing" /\ pc' = pc /\ mem' = [mem EXCEPT !.sessions = sessions]
    BY <1>2 DEF RememberSession, RotateSession
  <2> HIDE DEF sessions
  <2>2. SameMarks(mem, mem')
    BY <2>1, EngineTypes, BookkeepingMarks, Zenon
  <2> QED
    BY <2>1, <2>2 DEF BoundToCurrent, SameMarks, Current
<1>3. CASE FinishStage
  BY <1>3 DEF FinishStage, BoundToCurrent, Current
<1>4. CASE FailStage \/ Settle \/ Crash \/ Recover
  <2>1. pc' \notin {"executing", "settle"}
    BY <1>4 DEF FailStage, Raise, Settle, ExpandChildren, RejectExpansion, SettleWithoutTask,
         SettleStop, SettleDone, SettleNext, SettleRoute, Commit, Crash, Recover, Resume,
         ResumeAfterCrash, ResumeByOperator, RefuseResume
  <2> QED
    BY <2>1 DEF BoundToCurrent
<1>5. CASE Terminated \/ UNCHANGED vars
  BY <1>5 DEF Terminated, vars, BoundToCurrent, Current
<1> QED
  BY <1>1, <1>2, <1>3, <1>4, <1>5 DEF Next, Execute

(* Within budget, with nothing granted. *)
LEMMA WithinIsGranted ==
  ASSUME Budgets(mem, verdicts)', crashes' = crashes
  PROVE  Granted'
BY DEF Granted, Budgets, Within

LEMMA GrantedIsWithin ==
  ASSUME Granted, \A d \in Stages(mem.workflow) : ~Granting(d)
  PROVE  Budgets(mem, verdicts)
BY DEF Granted, Budgets, Within

(* A completed run has no open task but those that are unknown, whose Reviews *)
(* were never counted.                                                        *)
LEMMA FinishRunBudget ==
  ASSUME NEW s \in RunState, AllTasksCompleted(s), NothingStale(s),
         NEW counts \in SUBSET [key : Name, count : Nat], Keyed(s, counts), Budgets(s, counts)
  PROVE  LET t == FinishRun(s) IN
         /\ t.workflow = s.workflow /\ t.tasks = s.tasks
         /\ Keyed(t, counts) /\ Budgets(t, counts)
<1> DEFINE t == FinishRun(s)
<1>1. /\ t.workflow = s.workflow /\ t.tasks = s.tasks /\ t.expansions = s.expansions
      /\ t.failures = {}
  BY DEF FinishRun, RunState
<1> HIDE DEF t
<1>2. Keyed(t, counts)
  BY <1>1 DEF Keyed, Single
<1>3. ASSUME NEW d \in Stages(t.workflow), Open(t, d)
      PROVE  Within(t, counts, d, crashes)
  <2>1. d \in Stages(s.workflow) /\ Open(s, d)
    BY <1>1, <1>3 DEF Open, Closed
  <2>2. d.task \notin TaskIds(s) \cup {Nothing}
    BY <2>1 DEF Open, Closed, AllTasksCompleted, TaskIds
  <2>3. Failed(s, d) = 0
    BY <2>2 DEF NothingStale, Failed, Count, OwnKey
  <2>4. Failed(t, d) = 0
    BY <1>1 DEF Failed, Count
  <2>5. Within(s, counts, d, crashes)
    BY <2>1 DEF Budgets
  <2> QED
    BY <2>3, <2>4, <2>5 DEF Within
<1> QED
  BY <1>1, <1>2, <1>3 DEF Budgets, t

LEMMA EnterBudget ==
  ASSUME EngineBudget, Enter
  PROVE  Agree' /\ Keyed(mem, verdicts)' /\ Granted' /\ MayFail'
<1> DEFINE a == Activate(mem, Current)
<1>1. /\ IndInv /\ mem \in RunState /\ crashes \in Nat
      /\ verdicts \in SUBSET [key : Name, count : Nat]
      /\ Agree /\ Keyed(mem, verdicts) /\ Granted /\ Layout(mem)
  BY EngineTypes, Zenon DEF EngineBudget, EngineSound, EngineTidy, BudgetInv, Sound
<1>2. /\ pc = "loop" /\ verdicts' = verdicts /\ crashes' = crashes
      /\ \A d : ~Granting(d)
  BY DEF Enter, ExhaustCycles, FinishAtEnd, ReturnCompleted, UnknownTask, BypassReview,
         BeginStage, MoreStages, Granting
<1>3. ASSUME mem'.workflow = mem.workflow, mem'.tasks = mem.tasks,
             mem'.failures = mem.failures, mem'.expansions = mem.expansions,
             disk' \in {disk, mem'}
      PROVE  Agree' /\ Keyed(mem, verdicts)' /\ Granted'
  BY <1>1, <1>2, <1>3, CountNothing DEF Agree
<1>4. CASE ExhaustCycles
  <2>1. mem' = [mem EXCEPT !.stage = "max_cycles_exhausted"] /\ disk' = mem' /\ pc' = "stopped"
    BY <1>4 DEF ExhaustCycles, Save
  <2>2. /\ mem'.workflow = mem.workflow /\ mem'.tasks = mem.tasks
        /\ mem'.failures = mem.failures /\ mem'.expansions = mem.expansions
    BY <1>1, <2>1 DEF RunState
  <2> QED
    BY <1>3, <2>1, <2>2 DEF MayFail
<1>5. CASE FinishAtEnd
  <2>1. pc' \in {"finished", "failed"} /\ ~mem.completed
    BY <1>5 DEF FinishAtEnd
  <2>2. CASE mem' = mem /\ disk' = disk
    BY <1>3, <2>1, <2>2 DEF MayFail
  <2>3. CASE AllTasksCompleted(mem) /\ mem' = FinishRun(mem) /\ disk' = mem'
    <3>1. NothingStale(mem)
      BY <2>1 DEF EngineBudget, EngineSound, EngineTidy, TidyInv
    <3>2. Budgets(mem, verdicts)
      BY <1>1, <1>2, GrantedIsWithin
    <3>3. Keyed(mem', verdicts) /\ Budgets(mem', verdicts)
      BY <1>1, <2>3, <3>1, <3>2, FinishRunBudget
    <3>4. Keyed(mem, verdicts)' /\ Budgets(mem, verdicts)'
      BY <1>2, <3>3 DEF Budgets
    <3>5. Granted'
      BY <1>2, <3>4, WithinIsGranted
    <3> QED
      BY <2>1, <2>3, <3>4, <3>5 DEF Agree, MayFail
  <2> QED
    BY <1>5, <2>2, <2>3 DEF FinishAtEnd, Save
<1>6. CASE ReturnCompleted \/ UnknownTask
  <2>1. mem' = mem /\ disk' = disk /\ pc' \in {"finished", "failed"}
    BY <1>6 DEF ReturnCompleted, UnknownTask
  <2> QED
    BY <1>3, <2>1 DEF MayFail
<1>7. CASE BypassReview
  <2> DEFINE key == ReviewKey(a, Current)
             failures == Without(a.failures, key)
  <2>1. /\ MoreStages /\ BindingKnown(mem, Current) /\ disk' = mem' /\ pc' = "settle"
        /\ mem' = [a EXCEPT !.failures = failures, !.stage = "active"]
        /\ result'.bypassed /\ result'.status = "pass"
    BY <1>7 DEF BypassReview, Save, NoResult
  <2>2. /\ a \in RunState /\ Current \in Stages(mem.workflow)
        /\ a.workflow = mem.workflow /\ a.tasks = mem.tasks /\ a.position = mem.position
        /\ a.failures = mem.failures /\ a.expansions = mem.expansions
        /\ Current.task # Nothing => ReviewKey(a, Current) = OwnKey(Current)
    BY <1>1, <2>1, EnteredStage
  <2>3. key.review = Current.name
    BY DEF ReviewKey
  <2> HIDE DEF key, a
  <2>4. /\ mem'.workflow = mem.workflow /\ mem'.tasks = mem.tasks
        /\ mem'.failures = Without(mem.failures, key) /\ mem'.expansions = mem.expansions
        /\ mem'.position = mem.position
    <3> HIDE DEF failures
    <3>1. /\ mem'.workflow = a.workflow /\ mem'.tasks = a.tasks
          /\ mem'.failures = failures /\ mem'.expansions = a.expansions
      BY <2>1, <2>2 DEF RunState
    <3>2. mem'.position = a.position
      BY <2>1, <2>2 DEF RunState
    <3> QED
      BY <2>2, <3>1, <3>2 DEF failures
  <2>5. Current' = Current
    BY <2>4 DEF Current
  <2>6. Single(mem'.failures) /\ Count(mem'.failures, key) = 0
        /\ \A j : j # key => Count(mem'.failures, j) = Count(mem.failures, j)
    BY <1>1, <2>4, WithoutCounts DEF Keyed
  <2>7. Keyed(mem, verdicts)'
    BY <1>1, <1>2, <2>4, <2>6 DEF Keyed
  <2>8. ASSUME NEW d \in Stages(mem'.workflow), Open(mem', d)
        PROVE  /\ Failed(mem', d) <= d.maxFailures
               /\ \/ Spent(verdicts', d) <= d.maxFailures * crashes' + Failed(mem', d)
                  \/ Granting(d)' /\ Spent(verdicts', d) <= d.maxFailures * (crashes' + 1)
    <3>1. d \in Stages(mem.workflow) /\ Open(mem, d)
      BY <2>4, <2>8 DEF Open, Closed
    <3>2. /\ d.maxFailures \in Nat /\ Failed(mem, d) \in Nat /\ Spent(verdicts, d) \in Nat
      BY <1>1, <3>1, CountsAreNumbers
    <3>3. /\ Failed(mem, d) <= d.maxFailures
          /\ Spent(verdicts, d) <= d.maxFailures * crashes + Failed(mem, d)
      BY <1>1, <1>2, <3>1 DEF Granted
    <3>4. CASE d = Current
      <4>1. OwnKey(d) = key
        BY <2>2, <3>1, <3>4 DEF Open, key
      <4>2. Failed(mem', d) = 0
        BY <2>6, <4>1 DEF Failed
      <4>3. Granting(d)'
        BY <2>1, <2>5, <3>4 DEF Granting
      <4>4. d.maxFailures * (crashes + 1) = d.maxFailures * crashes + d.maxFailures
            /\ d.maxFailures * crashes \in Nat
        BY <1>1, <3>2, OneMore
      <4> QED
        BY <1>2, <3>2, <3>3, <4>2, <4>3, <4>4
    <3>5. CASE d # Current
      <4>1. d.name # Current.name
        BY <1>1, <2>2, <3>1, <3>5 DEF Layout, UniqueNames, Stages
      <4>2. OwnKey(d) # key
        BY <2>3, <4>1 DEF OwnKey
      <4>3. Failed(mem', d) = Failed(mem, d)
        BY <2>6, <4>2 DEF Failed
      <4> QED
        BY <1>2, <3>3, <4>3
    <3> QED
      BY <3>4, <3>5
  <2> QED
    BY <2>1, <2>7, <2>8 DEF Granted, Agree, MayFail
<1>8. CASE BeginStage
  <2>1. /\ MoreStages /\ BindingKnown(mem, Current) /\ pc' = "executing"
        /\ ~MustBypass(a, Current)
        /\ \/ mem' = [a EXCEPT !.stage = "active"] /\ disk' = mem'
           \/ mem' = a /\ disk' = disk
    BY <1>8 DEF BeginStage, Save
  <2>2. /\ a \in RunState /\ Current \in Stages(mem.workflow)
        /\ a.workflow = mem.workflow /\ a.tasks = mem.tasks /\ a.position = mem.position
        /\ a.failures = mem.failures /\ a.expansions = mem.expansions
        /\ Current.task # Nothing => ReviewKey(a, Current) = OwnKey(Current)
    BY <1>1, <2>1, EnteredStage
  <2> HIDE DEF a
  <2>3. /\ mem'.workflow = a.workflow /\ mem'.tasks = a.tasks /\ mem'.position = a.position
        /\ mem'.failures = a.failures /\ mem'.expansions = a.expansions
    <3>1. CASE mem' = [a EXCEPT !.stage = "active"]
      BY <2>2, <3>1 DEF RunState
    <3> QED
      BY <2>1, <3>1
  <2>4. Current' = Current
    BY <2>2, <2>3 DEF Current
  <2>5. Open(mem', Current) => Failed(mem', Current) < Current.maxFailures
    <3> SUFFICES ASSUME Open(mem', Current) PROVE Failed(mem', Current) < Current.maxFailures
      OBVIOUS
    <3>1. Counted(Current) /\ ReviewKey(a, Current) = OwnKey(Current)
      BY <2>2 DEF Open
    <3>2. Failed(mem', Current) = Count(a.failures, ReviewKey(a, Current))
      BY <2>3, <3>1 DEF Failed
    <3>3. Current.maxFailures \in Nat /\ Failed(mem, Current) \in Nat
      BY <1>1, <2>2, CountsAreNumbers
    <3>4. Failed(mem', Current) = Failed(mem, Current)
      BY <2>2, <2>3 DEF Failed
    <3> QED
      BY <2>1, <3>1, <3>2, <3>3, <3>4 DEF MustBypass
  <2> QED
    BY <1>3, <2>1, <2>2, <2>3, <2>4, <2>5 DEF MayFail
<1> QED
  BY <1>4, <1>5, <1>6, <1>7, <1>8 DEF Enter

LEMMA ExecuteBudget ==
  ASSUME EngineBudget, Execute
  PROVE  Agree' /\ Keyed(mem, verdicts)' /\ Granted' /\ MayFail'
<1>1. /\ IndInv /\ mem \in RunState /\ pc = "executing"
      /\ Agree /\ Keyed(mem, verdicts) /\ Granted /\ MayFail
  BY EngineTypes, Zenon DEF EngineBudget, EngineSound, EngineTidy, BudgetInv, Execute,
         RememberSession, RotateSession, FinishStage, FailStage
<1>2. ASSUME mem'.workflow = mem.workflow, mem'.tasks = mem.tasks,
             mem'.failures = mem.failures, mem'.expansions = mem.expansions,
             disk' \in {disk, mem'}, verdicts' = verdicts, crashes' = crashes
      PROVE  Agree' /\ Keyed(mem, verdicts)' /\ Granted'
  <2>1. \A d : ~Granting(d)
    BY <1>1 DEF Granting
  <2> QED
    BY <1>1, <1>2, <2>1, CountNothing DEF Agree
<1>3. CASE RememberSession \/ RotateSession
  <2> DEFINE sessions == IF RememberSession THEN mem.sessions \cup {Current.name}
                         ELSE mem.sessions \ {Current.name}
  <2>1. /\ pc' = pc /\ mem' = [mem EXCEPT !.sessions = sessions] /\ disk' = mem'
        /\ verdicts' = verdicts /\ crashes' = crashes
    BY <1>3 DEF RememberSession, RotateSession, Save
  <2> HIDE DEF sessions
  <2>2. /\ mem'.workflow = mem.workflow /\ mem'.tasks = mem.tasks
        /\ mem'.failures = mem.failures /\ mem'.expansions = mem.expansions
        /\ mem'.position = mem.position
    BY <1>1, <2>1 DEF RunState
  <2>3. MayFail'
    BY <1>1, <2>1, <2>2 DEF MayFail, Open, Closed, Failed, Current
  <2> QED
    BY <1>2, <2>1, <2>2, <2>3
<1>4. CASE FinishStage
  <2>1. /\ mem' = mem /\ disk' = mem' /\ verdicts' = verdicts /\ crashes' = crashes
        /\ pc' = "settle" /\ result' \in Outcomes(Current)
    BY <1>4 DEF FinishStage, Save
  <2>2. ~result'.bypassed
    BY <2>1 DEF Outcomes, Passes, NoResult
  <2>3. MayFail'
    BY <1>1, <2>1, <2>2 DEF MayFail, Open, Closed, Failed, Current
  <2> QED
    BY <1>2, <2>1, <2>3
<1>5. CASE FailStage
  <2>1. /\ mem' = mem /\ disk' = disk /\ verdicts' = verdicts /\ crashes' = crashes
        /\ pc' = "failed"
    BY <1>5 DEF FailStage, Raise
  <2> QED
    BY <1>2, <2>1 DEF MayFail
<1> QED
  BY <1>3, <1>4, <1>5 DEF Execute

(* A crash costs one budget at most: the one that a bypass had granted.       *)
LEMMA RecoverBudget ==
  ASSUME EngineBudget, Recover \/ Crash
  PROVE  Agree' /\ Keyed(mem, verdicts)' /\ Granted' /\ MayFail'
<1>1. /\ IndInv /\ mem \in RunState /\ disk \in RunState
      /\ Agree /\ Keyed(mem, verdicts) /\ Granted
  BY EngineTypes, Zenon DEF EngineBudget, EngineSound, EngineTidy, BudgetInv
<1>2. CASE Crash
  <2>1. mem' = disk /\ disk' = disk /\ verdicts' = verdicts /\ crashes' = crashes + 1 /\ pc' = "down"
    BY <1>2 DEF Crash
  <2>2. Keyed(mem, verdicts)' /\ Granted'
    BY <1>1, <2>1, CountNothing DEF Agree
  <2> QED
    BY <2>1, <2>2 DEF Agree, MayFail
<1>3. CASE RefuseResume
  <2>1. /\ mem' = mem /\ disk' = disk /\ verdicts' = verdicts /\ crashes' = crashes
        /\ pc = "down" /\ pc' = "failed"
    BY <1>3 DEF RefuseResume
  <2>2. \A d : Granting(d) => Granting(d)'
    BY <2>1 DEF Granting
  <2>3. Keyed(mem, verdicts)' /\ Granted'
    BY <1>1, <2>1, <2>2, CountNothing
  <2> QED
    BY <1>1, <2>1, <2>3 DEF Agree, MayFail
<1>4. CASE ResumeAfterCrash \/ ResumeByOperator
  <2>1. /\ mem' = Normalize(disk) /\ disk' = mem' /\ verdicts' = verdicts /\ pc' = "loop"
        /\ \/ crashes' = crashes + 1
           \/ crashes' = crashes /\ pc = "down"
    BY <1>4 DEF ResumeAfterCrash, ResumeByOperator, Resume, Save
  <2>2. mem'.workflow = disk.workflow /\ mem'.tasks = disk.tasks
    BY <1>1, <2>1, NormalizeMarks
  <2>3. mem'.failures = disk.failures /\ mem'.expansions = disk.expansions
    BY <1>1, <2>1 DEF Normalize, RunState
  <2>4. pc = "down" => \A d : ~Granting(d)
    BY DEF Granting
  <2>5. Keyed(mem, verdicts)' /\ Granted'
    BY <1>1, <2>1, <2>2, <2>3, <2>4, CountNothing DEF Agree
  <2> QED
    BY <2>1, <2>5 DEF Agree, MayFail
<1> QED
  BY <1>2, <1>3, <1>4 DEF Recover

--------------------------------------------------------------------------
(* What settling does to the budgets. *)

(* The verdict and the failure of a Review are counted together. *)
LEMMA RecordedBudget ==
  ASSUME EngineBudget, pc = "settle", RecordVerdict
  PROVE  /\ Recorded \in RunState
         /\ Recorded.workflow = mem.workflow /\ Recorded.tasks = mem.tasks
         /\ Recorded.expansions = mem.expansions
         /\ Keyed(Recorded, verdicts') /\ Budgets(Recorded, verdicts')
         /\ verdicts' \in SUBSET [key : Name, count : Nat]
<1> DEFINE key == ReviewKey(mem, Current)
           now == [stage |-> Current.name, status |-> result.status]
           r   == RecordReview(mem, Current, result)
<1>1. /\ IndInv /\ mem \in RunState /\ crashes \in Nat /\ StateInv(mem) /\ AtStage
      /\ verdicts \in SUBSET [key : Name, count : Nat]
      /\ BoundToCurrent /\ Keyed(mem, verdicts) /\ Granted /\ MayFail /\ Layout(mem)
  BY EngineTypes, Zenon DEF EngineBudget, EngineSound, EngineTidy, BudgetInv, Sound, IndInv
<1>2. Current \in Stages(mem.workflow) /\ Current \in Definition /\ Current.name \in Name
  BY <1>1, CurrentProperties, DefinitionFields DEF AtStage
<1>3. SameMarks(mem, Recorded) /\ Recorded \in RunState /\ Recorded.expansions = mem.expansions
  BY <1>1, RecordedMarks, RecordedProperties DEF SameWorkflow
<1>4. Recorded.failures = CASE result.bypassed \/ ~Counted(Current) -> mem.failures
                            [] ~(result.bypassed \/ ~Counted(Current)) /\ result.status = "pass"
                                 -> Without(mem.failures, key)
                            [] ~(result.bypassed \/ ~Counted(Current)) /\ result.status = "fail"
                                 -> Bump(mem.failures, key)
                            [] OTHER -> mem.failures
  <2>1. r \in RunState
    BY <1>1, <1>2, RecordReviewProperties DEF SameWorkflow
  <2>2. Recorded = [r EXCEPT !.previous = now]
    BY DEF Recorded
  <2> HIDE DEF r, now
  <2>3. Recorded.failures = r.failures
    BY <2>1, <2>2 DEF RunState
  <2> HIDE DEF key
  <2>4. r \in {mem, [mem EXCEPT !.failures = Without(@, key)], [mem EXCEPT !.failures = Bump(@, key)]}
    BY DEF r, RecordReview, key
  <2>5. CASE result.bypassed \/ ~Counted(Current)
    BY <2>3, <2>5 DEF r, RecordReview
  <2>6. CASE ~(result.bypassed \/ ~Counted(Current)) /\ result.status = "pass"
    <3>1. r = [mem EXCEPT !.failures = Without(@, key)]
      BY <2>6 DEF r, RecordReview, key
    <3> QED
      BY <1>1, <2>3, <2>6, <3>1 DEF RunState
  <2>7. CASE ~(result.bypassed \/ ~Counted(Current)) /\ result.status = "fail"
    <3>1. r = [mem EXCEPT !.failures = Bump(@, key)]
      BY <2>7 DEF r, RecordReview, key
    <3> QED
      BY <1>1, <2>3, <2>7, <3>1 DEF RunState
  <2>8. CASE ~(result.bypassed \/ ~Counted(Current)) /\ result.status \notin {"pass", "fail"}
    BY <2>3, <2>8 DEF r, RecordReview
  <2> QED
    BY <2>5, <2>6, <2>7, <2>8
<1> HIDE DEF key
<1>5. /\ Single(mem.failures) /\ Single(verdicts)
      /\ \A e \in verdicts : e.key.group <= mem.expansions
  BY <1>1 DEF Keyed
<1>6. /\ Single(Recorded.failures)
      /\ \A j : j # key => Count(Recorded.failures, j) = Count(mem.failures, j)
      /\ ~result.bypassed /\ Counted(Current) =>
           /\ result.status = "pass" => Count(Recorded.failures, key) = 0
           /\ result.status = "fail" =>
                Count(Recorded.failures, key) = Count(mem.failures, key) + 1
           /\ result.status \notin {"pass", "fail"} =>
                Count(Recorded.failures, key) = Count(mem.failures, key)
      /\ result.bypassed => Count(Recorded.failures, key) = Count(mem.failures, key)
  BY <1>4, <1>5, WithoutCounts, BumpCounts
<1>7. /\ Single(verdicts')
      /\ \A j : j # Current.name => Count(verdicts', j) = Count(verdicts, j)
      /\ Counted(Current) =>
           /\ result.status = "pass" => Count(verdicts', Current.name) = 0
           /\ result.status = "fail" =>
                Count(verdicts', Current.name) = Count(verdicts, Current.name) + 1
           /\ result.status \notin {"pass", "fail"} =>
                Count(verdicts', Current.name) = Count(verdicts, Current.name)
  BY <1>5, WithoutCounts, BumpCounts DEF RecordVerdict
<1>8. verdicts' \in SUBSET [key : Name, count : Nat]
  <2>1. /\ Without(verdicts, Current.name) \in SUBSET [key : Name, count : Nat]
        /\ Bump(verdicts, Current.name) \in SUBSET [key : Name, count : Nat]
    BY <1>1, <1>2, CountType
  <2> QED
    BY <1>1, <2>1 DEF RecordVerdict
<1>9. \A e \in verdicts' : e.key.group <= mem.expansions
  <2>1. Current.name.group <= mem.expansions
    BY <1>1, <1>2 DEF StateInv, GroupsNumbered
  <2>2. \A e \in verdicts' : e \in verdicts \/ e.key = Current.name
    BY DEF RecordVerdict, Without, Bump
  <2> QED
    BY <1>5, <2>1, <2>2
<1>10. Recorded.workflow = mem.workflow /\ Recorded.tasks = mem.tasks
  BY <1>3 DEF SameMarks
<1>11. Keyed(Recorded, verdicts')
  BY <1>1, <1>3, <1>6, <1>7, <1>9, <1>10 DEF Keyed
<1>12. ASSUME NEW d \in Stages(Recorded.workflow), Open(Recorded, d)
       PROVE  Within(Recorded, verdicts', d, crashes)
  <2>1. d \in Stages(mem.workflow) /\ Open(mem, d)
    BY <1>10, <1>12 DEF Open, Closed
  <2>2. /\ d.maxFailures \in Nat /\ Failed(mem, d) \in Nat /\ Spent(verdicts, d) \in Nat
    BY <1>1, <2>1, CountsAreNumbers
  <2>3. /\ Failed(mem, d) <= d.maxFailures
        /\ \/ Spent(verdicts, d) <= d.maxFailures * crashes + Failed(mem, d)
           \/ Granting(d) /\ Spent(verdicts, d) <= d.maxFailures * (crashes + 1)
    BY <1>1, <2>1 DEF Granted
  <2>4. d.maxFailures * crashes \in Nat
    BY <1>1, <2>2, OneMore
  <2>5. CASE d # Current
    <3>1. d.name # Current.name
      BY <1>1, <1>2, <2>1, <2>5 DEF Layout, UniqueNames, Stages
    <3>2. OwnKey(d) # key
      BY <3>1 DEF OwnKey, key, ReviewKey
    <3>3. Failed(Recorded, d) = Failed(mem, d) /\ Spent(verdicts', d) = Spent(verdicts, d)
      BY <1>6, <1>7, <3>1, <3>2 DEF Failed, Spent
    <3>4. ~Granting(d)
      BY <2>5 DEF Granting
    <3> QED
      BY <2>3, <3>3, <3>4 DEF Within
  <2>6. CASE d = Current
    <3>1. key = OwnKey(d) /\ Counted(d)
      BY <1>1, <2>1, <2>6 DEF Open, BoundToCurrent, key, ReviewKey, Scope, OwnKey
    <3>2. CASE result.bypassed
      <4>1. Spent(verdicts', d) = 0 /\ Failed(Recorded, d) = Failed(mem, d)
        BY <1>1, <1>6, <1>7, <2>6, <3>1, <3>2 DEF MayFail, Spent, Failed
      <4> QED
        BY <2>2, <2>3, <2>4, <4>1 DEF Within
    <3>3. CASE ~result.bypassed
      <4>1. ~Granting(d)
        BY <3>3 DEF Granting
      <4>2. Failed(mem, d) < d.maxFailures
        BY <1>1, <2>1, <2>6, <3>3 DEF MayFail
      <4>3. CASE result.status = "pass"
        <5>1. Spent(verdicts', d) = 0 /\ Failed(Recorded, d) = 0
          BY <1>6, <1>7, <2>6, <3>1, <3>3, <4>3 DEF Spent, Failed
        <5> QED
          BY <2>2, <2>4, <5>1 DEF Within
      <4>4. CASE result.status = "fail"
        <5>1. /\ Spent(verdicts', d) = Spent(verdicts, d) + 1
              /\ Failed(Recorded, d) = Failed(mem, d) + 1
          BY <1>6, <1>7, <2>6, <3>1, <3>3, <4>4 DEF Spent, Failed
        <5> QED
          BY <2>2, <2>3, <2>4, <4>1, <4>2, <5>1 DEF Within
      <4>5. CASE result.status \notin {"pass", "fail"}
        <5>1. /\ Spent(verdicts', d) = Spent(verdicts, d)
              /\ Failed(Recorded, d) = Failed(mem, d)
          BY <1>6, <1>7, <2>6, <3>1, <3>3, <4>5 DEF Spent, Failed
        <5> QED
          BY <2>3, <4>1, <5>1 DEF Within
      <4> QED
        BY <4>3, <4>4, <4>5
    <3> QED
      BY <3>2, <3>3
  <2> QED
    BY <2>5, <2>6
<1> QED
  BY <1>3, <1>8, <1>10, <1>11, <1>12 DEF Budgets

(* finish_task clears the counters of the task that it closes. *)
LEMMA FinishTaskBudget ==
  ASSUME NEW s \in RunState, s.current < Len(s.tasks),
         NEW counts \in SUBSET [key : Name, count : Nat], Keyed(s, counts), Budgets(s, counts)
  PROVE  LET t == FinishTask(s) IN Keyed(t, counts) /\ Budgets(t, counts)
<1> DEFINE t  == FinishTask(s)
           id == s.tasks[s.current + 1].id
<1>1. /\ t.workflow = s.workflow /\ DOMAIN t.tasks = DOMAIN s.tasks
      /\ \A j \in DOMAIN s.tasks : /\ t.tasks[j].id = s.tasks[j].id
                                   /\ j # s.current + 1 => t.tasks[j] = s.tasks[j]
  BY FinishTaskMarks
<1>2. t.expansions = s.expansions
  BY FinishTaskProperties DEF SameWorkflow
<1>3. t.failures = {e \in s.failures : e.key.scope # id}
  BY DEF FinishTask, RunState
<1>4. s.current + 1 \in DOMAIN s.tasks
  BY RunStateFields, LenProperties
<1>5. t.tasks[s.current + 1].status = "completed"
  <2>1. s.tasks \in Seq(Task) /\ s.tasks[s.current + 1] \in Task
    BY <1>4, RunStateFields, LenProperties, ElementOfSeq
  <2> DEFINE i == s.current + 1
             tasks == [s.tasks EXCEPT ![i].status = "completed"]
             failures == {e \in s.failures : e.key.scope # id}
             next == s.current + 1
  <2>2. t = [s EXCEPT !.tasks = tasks, !.failures = failures, !.current = next]
    BY DEF FinishTask
  <2>3. tasks[i].status = "completed"
    BY <1>4, <2>1 DEF Task
  <2> HIDE DEF tasks, t, failures, next
  <2>4. t.tasks = tasks
    BY <2>2 DEF RunState
  <2> QED
    BY <2>3, <2>4
<1> HIDE DEF t
<1>6. Keyed(t, counts)
  BY <1>1, <1>2, <1>3 DEF Keyed, Single
<1>7. ASSUME NEW d \in Stages(t.workflow), Open(t, d)
      PROVE  Within(t, counts, d, crashes)
  <2>1. d.task # id
    BY <1>1, <1>4, <1>5, <1>7 DEF Open, Closed
  <2>2. d \in Stages(s.workflow) /\ Open(s, d)
    BY <1>1, <1>4, <1>5, <1>7 DEF Open, Closed
  <2>3. \A e \in s.failures : e.key = OwnKey(d) => e \in t.failures
    BY <1>3, <2>1 DEF OwnKey
  <2>4. Failed(t, d) = Failed(s, d)
    BY <1>3, <2>3, CountKept DEF Keyed, Failed
  <2> QED
    BY <2>2, <2>4 DEF Budgets, Within
<1> QED
  BY <1>6, <1>7 DEF Budgets, t

(* The parts of an expanded state: what was there and is kept, and what is new. *)
LEMMA ExpandParts ==
  ASSUME NEW s, StateInv(s),
         NEW source \in Stages(s.workflow), NEW f \in FlowId,
         NEW n \in Keywords \cup RouteTargets(source)
  PROVE  LET t    == Expand(s, source, f, n)
             g    == s.expansions + 1
             dead == DeadTasks(s, source.name)
             gone == GoneNames(s, source.name)
         IN
         /\ t.expansions = g
         /\ t.failures = {e \in s.failures : e.key.scope \notin dead /\ e.key.review \notin gone}
         /\ TaskIds(t) = (TaskIds(s) \ dead) \cup NewTasks(f, g)
         /\ \A i \in DOMAIN s.tasks :
              s.tasks[i].id \notin dead => \E k \in DOMAIN t.tasks : t.tasks[k] = s.tasks[i]
         /\ \A d \in Stages(t.workflow) :
              \/ d \in Stages(s.workflow) /\ d.path \cap OldGroups(s, source.name) = {}
              \/ d.name.group = g
<1> DEFINE g        == s.expansions + 1
           dropped  == DropPrevious(s, source.name)
           base     == InstallTasks(dropped, source.name, f, g)
           i        == FirstIndex(base.workflow, source.name)
           path     == source.path \cup {g}
           c        == EffectiveContinuation(source, n)
           q        == ChildStages(f, g, path, c)
           workflow == SubSeq(base.workflow, 1, i) \o q
                         \o SubSeq(base.workflow, i + 1, Len(base.workflow))
           groups   == base.groups \cup {[source |-> source.name, group |-> g]}
           t        == Expand(s, source, f, n)
           dead     == DeadTasks(s, source.name)
           gone     == GoneNames(s, source.name)
           K        == {k \in DOMAIN s.tasks : s.tasks[k].id \notin dead}
<1>1. s \in RunState /\ g \in Nat
      /\ source \in Definition /\ source.name \in Name /\ source.path \in SUBSET Nat
  BY RunStateFields, StagesAreDefinitions, DefinitionFields DEF StateInv
<1>2. /\ dropped \in RunState /\ dropped.tasks = Keep(s.tasks, K)
      /\ Stages(dropped.workflow) = {d \in Stages(s.workflow) :
                                       d.path \cap OldGroups(s, source.name) = {}}
      /\ dropped.failures = {e \in s.failures : e.key.scope \notin dead /\ e.key.review \notin gone}
      /\ TaskIds(dropped) = TaskIds(s) \ dead
  BY <1>1, DropPreviousProperties, DropPreviousSequences, DropPreviousDetails
<1>3. s.tasks \in Seq(Task) /\ K \subseteq DOMAIN s.tasks
  BY <1>1, RunStateFields
<1> HIDE DEF dropped, K, g
<1>4. /\ \A k \in DOMAIN dropped.tasks : dropped.tasks[k] = s.tasks[Nth(K, k)]
      /\ \A j \in K : \E k \in DOMAIN dropped.tasks : Nth(K, k) = j
  BY <1>2, <1>3, KeepOrdered
<1>5. base \in RunState /\ base.workflow = dropped.workflow
  BY <1>1, <1>2, InstallTasksProperties
<1>6. /\ base.failures = dropped.failures
      /\ TaskIds(base) = TaskIds(dropped) \cup NewTasks(f, g)
  BY <1>1, <1>2, InstallTasksDetails
<1>7. /\ Len(base.tasks) = Len(dropped.tasks) + Len(FlowTasks[f])
      /\ \A k \in 1 .. Len(dropped.tasks) : base.tasks[k] = dropped.tasks[k]
  <2>1. g \in Nat /\ dropped \in RunState /\ source.name \in Name
    BY <1>1, <1>2
  <2> QED
    BY <2>1, InstallTasksSequences, Zenon
<1>8. /\ t.workflow = workflow /\ t.tasks = base.tasks /\ t.failures = base.failures
      /\ t.expansions = g
  <2>1. t = [base EXCEPT !.expansions = g, !.groups = groups, !.workflow = workflow]
    BY DEF Expand, dropped, g
  <2> HIDE DEF t, base, workflow, groups
  <2> QED
    BY <1>5, <2>1, Zenon DEF RunState
<1>9. DOMAIN dropped.tasks \subseteq DOMAIN base.tasks
      /\ \A k \in DOMAIN dropped.tasks : base.tasks[k] = dropped.tasks[k]
  <2>1. /\ DOMAIN dropped.tasks = 1 .. Len(dropped.tasks) /\ Len(dropped.tasks) \in Nat
        /\ DOMAIN base.tasks = 1 .. Len(base.tasks) /\ Len(FlowTasks[f]) \in Nat
    BY <1>2, <1>5, RunStateFields, FlowTypes, LenProperties
  <2> DEFINE m == Len(dropped.tasks)
             l == Len(FlowTasks[f])
  <2>2. /\ m \in Nat /\ l \in Nat /\ DOMAIN dropped.tasks = 1 .. m
        /\ DOMAIN base.tasks = 1 .. m + l
        /\ \A k \in 1 .. m : base.tasks[k] = dropped.tasks[k]
    BY <1>7, <2>1
  <2> HIDE DEF base, m, l
  <2> QED
    BY <2>2
<1>10. ASSUME NEW j \in DOMAIN s.tasks, s.tasks[j].id \notin dead
       PROVE  \E k \in DOMAIN t.tasks : t.tasks[k] = s.tasks[j]
  <2>1. j \in K
    BY <1>10 DEF K
  <2>2. PICK k \in DOMAIN dropped.tasks : Nth(K, k) = j
    BY <1>4, <2>1
  <2> HIDE DEF base, t
  <2>3. k \in DOMAIN t.tasks /\ t.tasks[k] = s.tasks[j]
    BY <1>4, <1>8, <1>9, <2>2
  <2> QED
    BY <2>3
<1>11. base.workflow \in Seq(Definition) /\ i \in DOMAIN base.workflow
  <2>1. dropped.workflow \in Seq(Definition)
    BY <1>2, RunStateFields
  <2>2. source \in Stages(dropped.workflow)
    BY <1>2 DEF StateInv, ProducersOutside
  <2>3. source.name \in Names(dropped.workflow)
    BY <2>2 DEF Stages, Names
  <2> QED
    BY <1>5, <2>1, <2>3, FirstIndexExists
<1>12. c \in Name /\ path \in SUBSET Nat
  BY <1>1, EffectiveContinuationType
<1> HIDE DEF base, i, path, c
<1>13. q \in Seq(Definition) /\ \A d \in Stages(q) : d.name.group = g
  <2>1. /\ q \in Seq(Definition)
        /\ \A d \in Stages(q) :
             /\ d.name.group = g
             /\ d.path = path
             /\ d.groupContinue = c
             /\ d.continue \in {c, Nothing}
             /\ d.review => d.targets = {}
             /\ \E k \in DOMAIN FlowStages[f] :
                  /\ d.name = StageName(g, FlowStages[f][k].local)
                  /\ d.pass = Resolve(g, FlowStages[f][k].pass)
                  /\ d.fail = Resolve(g, FlowStages[f][k].fail)
                  /\ d.targets = {StageName(g, l) : l \in FlowStages[f][k].targets}
        /\ \A k \in DOMAIN FlowStages[f] :
             StageName(g, FlowStages[f][k].local) \in Names(q)
    BY <1>1, <1>12, ChildStagesProperties
  <2> HIDE DEF q
  <2> QED
    BY <2>1
<1> HIDE DEF q
<1>14. Stages(workflow) = Stages(base.workflow) \cup Stages(q)
  BY <1>11, <1>13, InsertProperties
<1> HIDE DEF workflow, t
<1>15. TaskIds(t) = TaskIds(base)
  BY <1>8 DEF TaskIds
<1> HIDE DEF dead, gone
<1>16. ASSUME NEW d \in Stages(t.workflow)
       PROVE  \/ d \in Stages(s.workflow) /\ d.path \cap OldGroups(s, source.name) = {}
              \/ d.name.group = g
  BY <1>2, <1>5, <1>8, <1>13, <1>14
<1> QED
  BY <1>2, <1>6, <1>8, <1>10, <1>15, <1>16 DEF t, g, dead, gone

(* A Stage of an expanded Workflow was there before or is one of its children. *)
LEMMA ExpandStages ==
  ASSUME NEW s, StateInv(s),
         NEW source \in Stages(s.workflow), NEW f \in FlowId,
         NEW n \in Keywords \cup RouteTargets(source)
  PROVE  \A d \in Stages(Expand(s, source, f, n).workflow) :
           d \in Stages(s.workflow) \/ d.name.group = s.expansions + 1
<1> DEFINE t    == Expand(s, source, f, n)
           g    == s.expansions + 1
           dead == DeadTasks(s, source.name)
           gone == GoneNames(s, source.name)
<1>1. /\ t.expansions = g
      /\ t.failures = {e \in s.failures : e.key.scope \notin dead /\ e.key.review \notin gone}
      /\ TaskIds(t) = (TaskIds(s) \ dead) \cup NewTasks(f, g)
      /\ \A i \in DOMAIN s.tasks :
           s.tasks[i].id \notin dead => \E k \in DOMAIN t.tasks : t.tasks[k] = s.tasks[i]
      /\ \A d \in Stages(t.workflow) :
           \/ d \in Stages(s.workflow) /\ d.path \cap OldGroups(s, source.name) = {}
           \/ d.name.group = g
  BY ExpandParts
<1> HIDE DEF t, g, dead, gone
<1>2. \A d \in Stages(t.workflow) : d \in Stages(s.workflow) \/ d.name.group = g
  BY <1>1
<1> QED
  BY <1>2 DEF t, g

(* An expansion takes no counter and no task away from a Review that stays,   *)
(* and nobody has counted anything of a Review that is new.                   *)
LEMMA ExpandBudget ==
  ASSUME SafeNamesDiffer,
         NEW s, StateInv(s), ~s.completed,
         Tree(s), OneOwner(s), NothingStale(s), Layout(s),
         NEW p \in DOMAIN s.workflow, NEW f \in FlowId, FlowAccepted(f),
         NEW n \in Keywords \cup RouteTargets(s.workflow[p]),
         NEW counts \in SUBSET [key : Name, count : Nat], Keyed(s, counts), Budgets(s, counts),
         crashes \in Nat
  PROVE  LET t == Expand(s, s.workflow[p], f, n) IN
         Keyed(t, counts) /\ Budgets(t, counts)
<1> DEFINE source == s.workflow[p]
           t      == Expand(s, source, f, n)
           g      == s.expansions + 1
           dead   == DeadTasks(s, source.name)
           gone   == GoneNames(s, source.name)
<1>1. /\ s \in RunState /\ s.expansions \in Nat /\ g \in Nat /\ g # 0 /\ g > s.expansions
      /\ source \in Stages(s.workflow)
  BY RunStateFields DEF StateInv, Stages
<1>2. /\ t.expansions = g
      /\ t.failures = {e \in s.failures : e.key.scope \notin dead /\ e.key.review \notin gone}
      /\ TaskIds(t) = (TaskIds(s) \ dead) \cup NewTasks(f, g)
      /\ \A i \in DOMAIN s.tasks :
           s.tasks[i].id \notin dead => \E k \in DOMAIN t.tasks : t.tasks[k] = s.tasks[i]
      /\ \A d \in Stages(t.workflow) :
           \/ d \in Stages(s.workflow) /\ d.path \cap OldGroups(s, source.name) = {}
           \/ d.name.group = g
  BY <1>1, ExpandParts
<1>3. Layout(t)
  BY ExpandLayout
<1> HIDE DEF source, t, g
<1>4. \A x \in NewTasks(f, g) : x.group = g
  BY RefFields DEF NewTasks
<1>5. \A x \in TaskIds(s) : x.group # 0 /\ x.group \in Nat /\ x.group <= s.expansions
  <2> SUFFICES ASSUME NEW x \in TaskIds(s)
               PROVE  x.group # 0 /\ x.group \in Nat /\ x.group <= s.expansions
    OBVIOUS
  <2>1. x.group # 0
    BY DEF TaskIds, Keyed
  <2>2. PICK e \in s.taskGroups : e.task = x
    BY DEF NothingStale
  <2>3. e.task \in Name /\ e.task.group <= s.expansions
    BY <1>1, RunStateFields DEF OneOwner
  <2> QED
    BY <2>1, <2>2, <2>3 DEF Name
<1>6. Keyed(t, counts)
  <2>1. Single(t.failures) /\ Single(counts)
    BY <1>2 DEF Keyed, Single
  <2>2. \A e \in counts : e.key.group <= t.expansions
    <3> SUFFICES ASSUME NEW e \in counts PROVE e.key.group <= g
      BY <1>2
    <3>1. e.key.group <= s.expansions /\ e.key.group \in Nat
      BY DEF Keyed, Name
    <3> QED
      BY <1>1, <3>1
  <2>3. \A i \in DOMAIN t.tasks : t.tasks[i].id.group # 0
    <3> SUFFICES ASSUME NEW i \in DOMAIN t.tasks PROVE t.tasks[i].id.group # 0
      OBVIOUS
    <3>1. t.tasks[i].id \in TaskIds(s) \/ t.tasks[i].id \in NewTasks(f, g)
      BY <1>2 DEF TaskIds
    <3> QED
      BY <1>1, <1>4, <1>5, <3>1
  <2> QED
    BY <2>1, <2>2, <2>3 DEF Keyed
<1>7. ASSUME NEW d \in Stages(t.workflow), Open(t, d)
      PROVE  Within(t, counts, d, crashes)
  <2>1. CASE d.name.group = g
    <3>1. d.name \notin Names(s.workflow)
      BY <1>1, <2>1 DEF StateInv, GroupsNumbered, Names, Stages
    <3>2. \A e \in t.failures : e.key # OwnKey(d)
      BY <1>2, <3>1 DEF NothingStale, OwnKey
    <3>3. \A e \in counts : e.key # d.name
      BY <1>1, <2>1 DEF Keyed
    <3>4. Failed(t, d) = 0 /\ Spent(counts, d) = 0
      BY <3>2, <3>3 DEF Failed, Spent, Count
    <3>5. d.maxFailures \in Nat
      <4>1. StateInv(Expand(s, source, f, n))
        BY <1>1, ExpandPreservesStateInv DEF source
      <4>2. t \in RunState
        BY <4>1 DEF t, StateInv
      <4>3. d \in Definition
        BY <1>7, <4>2, RunStateFields, StagesAreDefinitions
      <4> QED
        BY <4>3 DEF Definition
    <3>6. d.maxFailures * crashes \in Nat
      BY <3>5, OneMore
    <3> QED
      BY <3>4, <3>5, <3>6 DEF Within
  <2>2. CASE d \in Stages(s.workflow) /\ d.path \cap OldGroups(s, source.name) = {}
    <3>1. d.name \notin gone
      BY <2>2 DEF Layout, UniqueNames, GoneNames, Stages, gone
    <3>2. d.task \notin dead \/ d.task \notin TaskIds(s)
      <4> SUFFICES ASSUME d.task \in TaskIds(s) PROVE d.task \notin dead
        OBVIOUS
      <4>1. d.task.group # 0 /\ d.task.group # g
        BY <1>1, <1>5
      <4>2. d.task \in TaskIds(t)
        BY <1>3, <1>7, <4>1 DEF Layout, Bindings
      <4> QED
        BY <1>2, <1>4, <4>1, <4>2
    <3>3. Closed(s, d.task) => Closed(t, d.task)
      <4> SUFFICES ASSUME NEW i \in DOMAIN s.tasks, s.tasks[i].id = d.task,
                          s.tasks[i].status = "completed"
                   PROVE  Closed(t, d.task)
        BY DEF Closed
      <4>1. s.tasks[i].id \notin dead
        BY <3>2 DEF TaskIds
      <4>2. PICK k \in DOMAIN t.tasks : t.tasks[k] = s.tasks[i]
        BY <1>2, <4>1
      <4> QED
        BY <4>2 DEF Closed
    <3>4. Open(s, d)
      BY <1>7, <3>3 DEF Open
    <3>5. \A e \in s.failures : e.key = OwnKey(d) => e \in t.failures
      <4> SUFFICES ASSUME NEW e \in s.failures, e.key = OwnKey(d) PROVE e \in t.failures
        OBVIOUS
      <4>1. e.key.review = d.name /\ e.key.scope = d.task /\ d.task # Nothing
        BY <1>7 DEF Open, OwnKey
      <4>2. e.key.scope \in TaskIds(s)
        BY <4>1 DEF NothingStale
      <4> QED
        BY <1>2, <3>1, <3>2, <4>1, <4>2
    <3>6. Failed(t, d) = Failed(s, d)
      BY <1>2, <3>5, CountKept DEF Keyed, Failed
    <3> QED
      BY <2>2, <3>4, <3>6 DEF Budgets, Within
  <2> QED
    BY <1>2, <2>1, <2>2
<1> QED
  BY <1>6, <1>7 DEF Budgets, t, source
(* What is settled without touching Stages, tasks or counters keeps them. *)
LEMMA BudgetFrame ==
  ASSUME NEW s, NEW t, NEW counts, Keyed(s, counts), Budgets(s, counts),
         t.workflow = s.workflow, t.tasks = s.tasks, t.failures = s.failures,
         t.expansions = s.expansions
  PROVE  Keyed(t, counts) /\ Budgets(t, counts)
<1>1. Keyed(t, counts)
  BY DEF Keyed
<1>2. \A d : Open(t, d) => Open(s, d)
  BY DEF Open, Closed
<1>3. \A d : Failed(t, d) = Failed(s, d)
  BY DEF Failed
<1> QED
  BY <1>1, <1>2, <1>3 DEF Budgets, Within

LEMMA CommitBudget ==
  ASSUME NEW s, mem' = s, disk' = mem', pc' \in {"loop", "stopped"}, crashes' = crashes,
         Keyed(s, verdicts'), Budgets(s, verdicts')
  PROVE  Agree' /\ Keyed(mem, verdicts)' /\ Granted' /\ MayFail'
<1>1. Agree' /\ MayFail'
  BY DEF Agree, MayFail
<1>2. Keyed(mem, verdicts)'
  OBVIOUS
<1>3. Budgets(mem, verdicts)'
  BY DEF Budgets
<1>4. Granted'
  BY <1>3, WithinIsGranted
<1> QED
  BY <1>1, <1>2, <1>4

LEMMA TaskSettledBudget ==
  ASSUME EngineBudget, pc = "settle", RecordVerdict, ~NoTaskToFinish
  PROVE  /\ TaskSettled \in RunState /\ TaskSettled.workflow = mem.workflow
         /\ NothingStale(TaskSettled)
         /\ Keyed(TaskSettled, verdicts') /\ Budgets(TaskSettled, verdicts')
         /\ verdicts' \in SUBSET [key : Name, count : Nat]
<1>1. IndInv /\ TidyInv(mem) /\ ~mem.completed
  BY DEF EngineBudget, EngineSound, EngineTidy, IndInv, AtStage
<1>2. /\ Recorded \in RunState /\ Keyed(Recorded, verdicts') /\ Budgets(Recorded, verdicts')
      /\ verdicts' \in SUBSET [key : Name, count : Nat]
  BY RecordedBudget
<1>3. SameTree(mem, TaskSettled)
  BY <1>1, TaskSettledTree
<1>4. /\ TaskSettled \in RunState /\ TaskSettled.workflow = mem.workflow
      /\ NothingStale(TaskSettled)
  BY <1>1, <1>3, SameTreeTidy DEF TidyInv, SameTree
<1>5. Keyed(TaskSettled, verdicts') /\ Budgets(TaskSettled, verdicts')
  <2>1. CASE ~CompletesTask
    BY <1>2, <2>1 DEF TaskSettled
  <2>2. CASE CompletesTask
    <3>1. Recorded.current \in Nat /\ Len(Recorded.tasks) \in Nat
      BY <1>2, RunStateFields, LenProperties
    <3>2. Recorded.current < Len(Recorded.tasks)
      BY <2>2, <3>1 DEF NoTaskToFinish
    <3>3. Keyed(FinishTask(Recorded), verdicts') /\ Budgets(FinishTask(Recorded), verdicts')
      BY <1>2, <3>2, FinishTaskBudget
    <3> QED
      BY <2>2, <3>3 DEF TaskSettled
  <2> QED
    BY <2>1, <2>2
<1> QED
  BY <1>2, <1>4, <1>5

LEMMA SettleBudget ==
  ASSUME SafeNamesDiffer, EngineBudget, Settle
  PROVE  Agree' /\ Keyed(mem, verdicts)' /\ Granted' /\ MayFail'
<1>1. /\ IndInv /\ pc = "settle" /\ AtStage /\ StateInv(mem)
      /\ mem \in RunState /\ ~mem.completed /\ crashes \in Nat
      /\ TidyInv(mem) /\ Layout(mem) /\ Agree /\ Keyed(mem, verdicts) /\ Granted
  BY Zenon DEF Settle, ExpandChildren, RejectExpansion, SettleWithoutTask, Settled, SettleStop,
         SettleDone, SettleNext, SettleRoute, EngineBudget, EngineSound, EngineTidy, IndInv,
         TypeOK, AtStage, Sound, BudgetInv
<1>2. ASSUME Raise PROVE Agree' /\ Keyed(mem, verdicts)' /\ Granted' /\ MayFail'
  <2>1. /\ mem' = mem /\ disk' = disk /\ verdicts' = verdicts /\ crashes' = crashes
        /\ pc' = "failed"
    BY <1>2 DEF Raise
  <2>2. \A d : Granting(d) => Granting(d)'
    BY <2>1 DEF Granting
  <2>3. Keyed(mem, verdicts)' /\ Granted'
    BY <1>1, <2>1, <2>2, CountNothing
  <2> QED
    BY <1>1, <2>1, <2>3 DEF Agree, MayFail
<1>3. ASSUME NEW s, NEW where \in {"loop", "stopped"}, Commit(s, where),
             Keyed(s, verdicts'), Budgets(s, verdicts')
      PROVE  Agree' /\ Keyed(mem, verdicts)' /\ Granted' /\ MayFail'
  <2>1. mem' = s /\ disk' = mem' /\ pc' \in {"loop", "stopped"} /\ crashes' = crashes
    BY <1>3 DEF Commit, Save
  <2> QED
    BY <1>3, <2>1, CommitBudget
<1>4. ASSUME RecordVerdict, ~NoTaskToFinish
      PROVE  /\ TaskSettled \in RunState /\ TaskSettled.workflow = mem.workflow
             /\ NothingStale(TaskSettled)
             /\ Keyed(TaskSettled, verdicts') /\ Budgets(TaskSettled, verdicts')
             /\ verdicts' \in SUBSET [key : Name, count : Nat]
  BY <1>1, <1>4, TaskSettledBudget
<1>5. CASE ExpandChildren
  <2> DEFINE e == Expand(Recorded, Current, result.flow, Target)
             position == mem.position + 1
             t == [e EXCEPT !.position = position]
  <2>1. Commit(t, "loop") /\ RecordVerdict
    BY <1>5 DEF ExpandChildren, Commit
  <2>2. /\ Keyed(Recorded, verdicts') /\ Budgets(Recorded, verdicts')
        /\ verdicts' \in SUBSET [key : Name, count : Nat]
    BY <1>1, <2>1, RecordedBudget
  <2>3. SameTree(mem, Recorded) /\ Recorded.workflow = mem.workflow
    BY <1>1, RecordedTree DEF SameTree
  <2>4. StateInv(Recorded) /\ ~Recorded.completed
    BY <1>1, RecordedProperties, SameWorkflowInv
  <2>5. Tree(Recorded) /\ OneOwner(Recorded) /\ NothingStale(Recorded)
    BY <1>1, <2>3, SameTreeTidy DEF TidyInv, SameTree
  <2>6. Layout(Recorded)
    BY <1>1, <2>3, LayoutFrame DEF SameTree
  <2>7. /\ position \in DOMAIN Recorded.workflow
        /\ Current = Recorded.workflow[position]
        /\ Current \in Stages(Recorded.workflow)
    <3>1. mem.position \in Nat /\ mem.position < Len(mem.workflow)
          /\ Len(mem.workflow) \in Nat /\ DOMAIN mem.workflow = 1 .. Len(mem.workflow)
      BY <1>1, RunStateFields, LenProperties DEF AtStage
    <3>2. Current \in Stages(mem.workflow)
      BY <1>1, <3>1, CurrentProperties
    <3> QED
      BY <2>3, <3>1, <3>2 DEF Current
  <2>8. result.flow \in FlowId /\ FlowAccepted(result.flow)
    BY <1>1, <1>5, Zenon DEF ExpandChildren, Expands, IndInv, TypeOK, StageResult
  <2>9. Target \in Keywords \cup RouteTargets(Current)
    BY <1>1, TargetKnown
  <2> HIDE DEF position
  <2>10. StateInv(e)
    BY <2>4, <2>7, <2>8, <2>9, ExpandPreservesStateInv
  <2>11. Keyed(e, verdicts') /\ Budgets(e, verdicts')
    BY <1>1, <2>2, <2>4, <2>5, <2>6, <2>7, <2>8, <2>9, ExpandBudget
  <2> HIDE DEF e
  <2>12. /\ t.workflow = e.workflow /\ t.tasks = e.tasks
         /\ t.failures = e.failures /\ t.expansions = e.expansions
    BY <2>10 DEF StateInv, RunState
  <2> HIDE DEF t
  <2>13. Keyed(t, verdicts') /\ Budgets(t, verdicts')
    BY <2>11, <2>12, BudgetFrame
  <2> QED
    BY <1>3, <2>1, <2>13
<1>6. CASE RejectExpansion \/ SettleWithoutTask
  BY <1>2, <1>6 DEF RejectExpansion, SettleWithoutTask
<1>7. CASE SettleStop
  <2>1. Commit(TaskSettled, "stopped") /\ RecordVerdict /\ ~NoTaskToFinish
    BY <1>7 DEF SettleStop, Settled, Commit
  <2> QED
    BY <1>3, <1>4, <2>1
<1>8. CASE SettleDone
  <2>1. ~NoTaskToFinish
    BY <1>8 DEF SettleDone, Settled
  <2>2. CASE AllTasksCompleted(TaskSettled) /\ Commit(FinishRun(TaskSettled), "loop")
    <3>1. RecordVerdict
      BY <2>2 DEF Commit
    <3>2. Keyed(FinishRun(TaskSettled), verdicts') /\ Budgets(FinishRun(TaskSettled), verdicts')
      BY <1>4, <2>1, <2>2, <3>1, FinishRunBudget
    <3> QED
      BY <1>3, <2>2, <3>2
  <2> QED
    BY <1>2, <1>8, <2>2 DEF SettleDone
<1>9. CASE SettleNext
  <2> DEFINE position == TaskSettled.position + 1
             t == [TaskSettled EXCEPT !.position = position]
  <2>1. Commit(t, "loop") /\ RecordVerdict /\ ~NoTaskToFinish
    BY <1>9 DEF SettleNext, Settled, Commit
  <2> HIDE DEF position
  <2>2. /\ t.workflow = TaskSettled.workflow /\ t.tasks = TaskSettled.tasks
        /\ t.failures = TaskSettled.failures /\ t.expansions = TaskSettled.expansions
    BY <1>4, <2>1 DEF RunState
  <2> HIDE DEF t
  <2>3. Keyed(t, verdicts') /\ Budgets(t, verdicts')
    BY <1>4, <2>1, <2>2, BudgetFrame
  <2> QED
    BY <1>3, <2>1, <2>3
<1>10. CASE SettleRoute
  <2> DEFINE n == DynamicTarget(Current, Target)
             p == LastIndex(TaskSettled.workflow, n) - 1
             cycle == IF p <= TaskSettled.position THEN NextCycle(TaskSettled.cycle)
                      ELSE TaskSettled.cycle
             t == Route(TaskSettled, n)
  <2>1. Commit(t, "loop") /\ RecordVerdict /\ ~NoTaskToFinish
    BY <1>10 DEF SettleRoute, Settled, Commit
  <2>2. t = [TaskSettled EXCEPT !.position = p, !.cycle = cycle, !.stage = "active"]
    BY DEF Route
  <2> HIDE DEF t, p, cycle
  <2>3. /\ t.workflow = TaskSettled.workflow /\ t.tasks = TaskSettled.tasks
        /\ t.failures = TaskSettled.failures /\ t.expansions = TaskSettled.expansions
    BY <1>4, <2>1, <2>2, Zenon DEF RunState
  <2>4. Keyed(t, verdicts') /\ Budgets(t, verdicts')
    BY <1>4, <2>1, <2>3, BudgetFrame
  <2> QED
    BY <1>3, <2>1, <2>4
<1> QED
  BY <1>5, <1>6, <1>7, <1>8, <1>9, <1>10 DEF Settle
LEMMA InitBudget == Init => EngineBudget
<1> SUFFICES ASSUME Init PROVE EngineBudget
  OBVIOUS
<1>1. EngineSound
  BY InitSound
<1>2. /\ mem.tasks = <<>> /\ mem.failures = {} /\ disk = mem /\ pc = "loop"
      /\ crashes = 0 /\ verdicts = {}
  BY Zenon DEF Init
<1>3. Agree /\ BoundToCurrent /\ MayFail
  BY <1>2 DEF Agree, BoundToCurrent, MayFail
<1>4. Keyed(mem, verdicts)
  BY <1>2 DEF Keyed, Single
<1>5. Granted
  <2> SUFFICES ASSUME NEW d \in Stages(mem.workflow)
               PROVE  /\ Failed(mem, d) <= d.maxFailures
                      /\ Spent(verdicts, d) <= d.maxFailures * crashes + Failed(mem, d)
    BY DEF Granted
  <2>1. Failed(mem, d) = 0 /\ Spent(verdicts, d) = 0
    BY <1>2 DEF Failed, Spent, Count
  <2>2. d.maxFailures \in Nat
    <3>1. mem \in RunState
      BY <1>1, EngineTypes DEF EngineSound, EngineTidy
    <3>2. d \in Definition
      BY <3>1, RunStateFields, StagesAreDefinitions
    <3> QED
      BY <3>2 DEF Definition
  <2> QED
    BY <1>2, <2>1, <2>2
<1> QED
  BY <1>1, <1>3, <1>4, <1>5 DEF EngineBudget, BudgetInv

LEMMA NextBudget ==
  ASSUME SafeNamesDiffer PROVE EngineBudget /\ [Next]_vars => EngineBudget'
<1> SUFFICES ASSUME EngineBudget, [Next]_vars PROVE EngineBudget'
  OBVIOUS
<1>1. EngineSound'
  BY NextSound DEF EngineBudget
<1>2. BoundToCurrent'
  BY NextBound DEF EngineBudget, BudgetInv, EngineSound, EngineTidy
<1>3. CASE UNCHANGED vars \/ Terminated
  <2>1. UNCHANGED vars
    BY <1>3 DEF Terminated
  <2>2. IndInv /\ Agree /\ Keyed(mem, verdicts) /\ Granted /\ MayFail
    BY DEF EngineBudget, BudgetInv, EngineSound, EngineTidy
  <2>3. Current' = Current
    BY <2>1 DEF vars, Current
  <2>4. \A d \in Stages(mem.workflow) : Granting(d) => Granting(d)'
    BY <2>1, <2>3 DEF Granting, vars
  <2>5. Keyed(mem, verdicts)' /\ Granted'
    BY <2>1, <2>2, <2>4, CountNothing DEF vars
  <2>6. Agree' /\ MayFail'
    BY <2>1, <2>2, <2>3 DEF Agree, MayFail, Open, Closed, Failed, vars
  <2> QED
    BY <1>1, <1>2, <2>5, <2>6 DEF EngineBudget, BudgetInv
<1>4. CASE Enter \/ Execute \/ Settle \/ Crash \/ Recover
  <2>1. Agree' /\ Keyed(mem, verdicts)' /\ Granted' /\ MayFail'
    BY <1>4, EnterBudget, ExecuteBudget, SettleBudget, RecoverBudget
  <2> QED
    BY <1>1, <1>2, <2>1 DEF EngineBudget, BudgetInv
<1> QED
  BY <1>3, <1>4 DEF Next


(* A Review of a task that is still to be done has given no more than         *)
(* max_failures FAIL verdicts since it last passed or was bypassed, but for   *)
(* one budget more for every interruption (flow_engine.py:172-241).           *)
OpenReviewsAfforded ==
  \A d \in Stages(disk.workflow) : Open(disk, d) =>
    Count(verdicts, d.name) <= d.maxFailures * (1 + crashes)

THEOREM OpenReviewsStayInBudget ==
  ASSUME SafeNamesDiffer PROVE Spec => []OpenReviewsAfforded
<1>1. ASSUME EngineBudget PROVE OpenReviewsAfforded
  <2> SUFFICES ASSUME NEW d \in Stages(disk.workflow), Open(disk, d)
               PROVE  Spent(verdicts, d) <= d.maxFailures * (1 + crashes)
    BY DEF OpenReviewsAfforded, Spent
  <2>1. /\ mem \in RunState /\ crashes \in Nat
        /\ verdicts \in SUBSET [key : Name, count : Nat] /\ Agree /\ Granted
    BY <1>1, EngineTypes, Zenon DEF EngineBudget, BudgetInv, EngineSound, EngineTidy
  <2>2. d \in Stages(mem.workflow) /\ Open(mem, d)
    BY <2>1 DEF Agree, Open, Closed
  <2> DEFINE M == d.maxFailures
             F == Failed(mem, d)
             V == Spent(verdicts, d)
  <2>3. M \in Nat /\ F \in Nat /\ V \in Nat
    BY <2>1, <2>2, CountsAreNumbers
  <2>4. F <= M /\ (V <= M * crashes + F \/ V <= M * (crashes + 1))
    BY <2>1, <2>2 DEF Granted
  <2>5. M * (crashes + 1) = M * crashes + M /\ M * crashes \in Nat
    BY <2>1, <2>3, OneMore
  <2> HIDE DEF M, F, V
  <2>6. V <= M * (crashes + 1)
    BY <2>3, <2>4, <2>5
  <2>7. crashes + 1 = 1 + crashes
    BY <2>1
  <2> QED
    BY <2>6, <2>7 DEF M, V
<1> QED
  BY <1>1, InitBudget, NextBudget, PTL DEF Spec

(* The reviewer of a task that is still to be done is invoked only while it   *)
(* has a failure left: with nothing interrupted, never after max_failures     *)
(* FAIL verdicts (README.md:56), and after an interruption at most one budget *)
(* later.                                                                     *)
InvokedWithFailureLeft ==
  pc = "loop" /\ pc' = "executing" /\ Open(mem, Current) =>
    Count(verdicts, Current.name) < Current.maxFailures * (1 + crashes)

THEOREM ReviewersStopInTime ==
  ASSUME SafeNamesDiffer PROVE Spec => [][InvokedWithFailureLeft]_vars
<1>1. ASSUME EngineBudget, [Next]_vars PROVE [InvokedWithFailureLeft]_vars
  <2> SUFFICES ASSUME Next, pc = "loop", pc' = "executing", Open(mem, Current)
               PROVE  Spent(verdicts, Current) < Current.maxFailures * (1 + crashes)
    BY <1>1 DEF InvokedWithFailureLeft, vars, Spent
  <2>1. BeginStage
    BY DEF Next, Enter, Execute, Settle, Recover, ExhaustCycles, FinishAtEnd, ReturnCompleted,
         UnknownTask, BypassReview, RememberSession, RotateSession, FinishStage, FailStage,
         ExpandChildren, RejectExpansion, SettleWithoutTask, Settled, SettleStop, SettleDone,
         SettleNext, SettleRoute, Crash, Resume, ResumeAfterCrash, ResumeByOperator,
         RefuseResume, Terminated, vars
  <2> DEFINE a == Activate(mem, Current)
             M == Current.maxFailures
             F == Failed(mem, Current)
             V == Spent(verdicts, Current)
  <2>2. MoreStages /\ BindingKnown(mem, Current) /\ ~MustBypass(a, Current)
    BY <2>1 DEF BeginStage
  <2>3. /\ IndInv /\ mem \in RunState /\ crashes \in Nat
        /\ verdicts \in SUBSET [key : Name, count : Nat] /\ Granted
    BY <1>1, EngineTypes, Zenon DEF EngineBudget, BudgetInv, EngineSound, EngineTidy
  <2>4. /\ Current \in Stages(mem.workflow) /\ a.failures = mem.failures
        /\ Current.task # Nothing => ReviewKey(a, Current) = OwnKey(Current)
    BY <2>2, <2>3, EnteredStage
  <2>5. M \in Nat /\ F \in Nat /\ V \in Nat
    BY <2>3, <2>4, CountsAreNumbers
  <2>6. V <= M * crashes + F
    BY <2>3, <2>4 DEF Granted, Granting
  <2>7. Counted(Current) /\ ReviewKey(a, Current) = OwnKey(Current)
    BY <2>4 DEF Open
  <2> HIDE DEF a
  <2>8. ~(F >= M)
    BY <2>2, <2>4, <2>7 DEF MustBypass, Failed
  <2>9. M * (crashes + 1) = M * crashes + M /\ M * crashes \in Nat
    BY <2>3, <2>5, OneMore
  <2> HIDE DEF M, F, V
  <2>10. V < M * (crashes + 1) /\ crashes + 1 = 1 + crashes
    BY <2>3, <2>5, <2>6, <2>8, <2>9
  <2> QED
    BY <2>10 DEF M, V
<1> QED
  BY <1>1, InitBudget, NextBudget, PTL DEF Spec
(* A route may lead back to a Stage of a task that is finished: finish_task    *)
(* has dropped the counters of that task, and its Reviews start anew.          *)
ReopensTask ==
  pc = "loop" /\ pc' \in {"executing", "settle"}
    /\ Current.task # Nothing /\ Closed(mem, Current.task)

(* The Stage that runs belongs to a task that is still to be done. *)
AtOpenTask ==
  pc \in {"executing", "settle"} /\ Current.task # Nothing => ~Closed(mem, Current.task)
Afforded(w, counts, n) ==
  \A d \in Stages(w) : Counted(d) /\ d.task # Nothing =>
    Spent(counts, d) <= d.maxFailures * (1 + n)

EngineAfforded == EngineBudget /\ AtOpenTask /\ Afforded(mem.workflow, verdicts, crashes)

(* Only settling changes the Workflow, the statuses or the verdicts. *)
LEMMA WorkflowKept ==
  ASSUME IndInv, Agree, Enter \/ Execute \/ Crash \/ Recover
  PROVE  /\ mem'.workflow = mem.workflow /\ mem'.tasks = mem.tasks
         /\ verdicts' = verdicts /\ crashes' \in {crashes, crashes + 1}
<1>1. mem \in RunState /\ disk \in RunState
  BY EngineTypes
<1>2. verdicts' = verdicts /\ crashes' \in {crashes, crashes + 1}
  BY DEF Enter, ExhaustCycles, FinishAtEnd, ReturnCompleted, UnknownTask, BypassReview,
         BeginStage, Execute, RememberSession, RotateSession, FinishStage, FailStage, Raise,
         Crash, Recover, Resume, ResumeAfterCrash, ResumeByOperator, RefuseResume
<1>3. CASE mem' = mem \/ mem' = disk
  BY <1>2, <1>3 DEF Agree
<1>4. CASE ExhaustCycles
  <2>1. mem' = [mem EXCEPT !.stage = "max_cycles_exhausted"]
    BY <1>4 DEF ExhaustCycles
  <2>2. mem'.workflow = mem.workflow /\ mem'.tasks = mem.tasks
    BY <1>1, <2>1 DEF RunState
  <2> QED
    BY <1>2, <2>2
<1>5. CASE mem' = FinishRun(mem)
  BY <1>1, <1>2, <1>5, FinishRunMarks DEF SameMarks
<1>6. CASE BypassReview \/ BeginStage
  <2> DEFINE a == Activate(mem, Current)
             failures == Without(a.failures, ReviewKey(a, Current))
  <2>1. MoreStages /\ BindingKnown(mem, Current)
    BY <1>6 DEF BypassReview, BeginStage
  <2>2. a \in RunState /\ a.workflow = mem.workflow /\ a.tasks = mem.tasks
    BY <2>1, EnteredStage
  <2>3. \/ mem' = [a EXCEPT !.failures = failures, !.stage = "active"]
        \/ mem' = [a EXCEPT !.stage = "active"]
        \/ mem' = a
    BY <1>6 DEF BypassReview, BeginStage
  <2> HIDE DEF a, failures
  <2>4. mem'.workflow = a.workflow /\ mem'.tasks = a.tasks
    BY <2>2, <2>3 DEF RunState
  <2> QED
    BY <1>2, <2>2, <2>4
<1>7. CASE RememberSession \/ RotateSession
  <2> DEFINE more == mem.sessions \cup {Current.name}
             less == mem.sessions \ {Current.name}
  <2>1. mem' = [mem EXCEPT !.sessions = more] \/ mem' = [mem EXCEPT !.sessions = less]
    BY <1>7 DEF RememberSession, RotateSession
  <2> HIDE DEF more, less
  <2>2. mem'.workflow = mem.workflow /\ mem'.tasks = mem.tasks
    BY <1>1, <2>1 DEF RunState
  <2> QED
    BY <1>2, <2>2
<1>8. CASE mem' = Normalize(disk)
  BY <1>1, <1>2, <1>8, NormalizeMarks DEF Agree
<1> QED
  BY <1>3, <1>4, <1>5, <1>6, <1>7, <1>8 DEF Enter, FinishAtEnd, ReturnCompleted, UnknownTask,
     Execute, FinishStage, FailStage, Raise, Crash, Recover, Resume, ResumeAfterCrash,
     ResumeByOperator, RefuseResume

(* An interruption affords one budget more. *)
LEMMA AffordedKept ==
  ASSUME mem \in RunState, verdicts \in SUBSET [key : Name, count : Nat], crashes \in Nat,
         Afforded(mem.workflow, verdicts, crashes), mem'.workflow = mem.workflow,
         verdicts' = verdicts, crashes' \in {crashes, crashes + 1}
  PROVE  Afforded(mem.workflow, verdicts, crashes)'
<1> SUFFICES ASSUME NEW d \in Stages(mem.workflow), Counted(d), d.task # Nothing
             PROVE  Spent(verdicts, d) <= d.maxFailures * (1 + crashes')
  BY DEF Afforded
<1> DEFINE M == d.maxFailures
           V == Spent(verdicts, d)
<1>1. M \in Nat /\ V \in Nat /\ V <= M * (1 + crashes)
  BY CountsAreNumbers DEF Afforded
<1>2. 1 + crashes \in Nat /\ 1 + (crashes + 1) = (1 + crashes) + 1
  OBVIOUS
<1>3. M * ((1 + crashes) + 1) = M * (1 + crashes) + M /\ M * (1 + crashes) \in Nat
  BY <1>1, <1>2, OneMore
<1> HIDE DEF M, V
<1>4. V <= M * (1 + crashes')
  BY <1>1, <1>2, <1>3
<1> QED
  BY <1>4 DEF M, V

(* What a verdict leaves of the budgets. *)
LEMMA RecordedAfforded ==
  ASSUME EngineAfforded, pc = "settle", RecordVerdict
  PROVE  Afforded(mem.workflow, verdicts', crashes)
<1>1. /\ IndInv /\ mem \in RunState /\ crashes \in Nat /\ EngineBudget /\ Layout(mem)
      /\ StateInv(mem)
      /\ verdicts \in SUBSET [key : Name, count : Nat] /\ Single(verdicts) /\ AtStage
      /\ Afforded(mem.workflow, verdicts, crashes) /\ AtOpenTask
  BY EngineTypes, Zenon
     DEF EngineAfforded, EngineBudget, EngineSound, EngineTidy, BudgetInv, Keyed, IndInv, Sound
<1>2. /\ Recorded \in RunState /\ Recorded.workflow = mem.workflow
      /\ Recorded.tasks = mem.tasks /\ Budgets(Recorded, verdicts')
      /\ verdicts' \in SUBSET [key : Name, count : Nat]
  BY <1>1, RecordedBudget
<1> SUFFICES ASSUME NEW d \in Stages(mem.workflow), Counted(d), d.task # Nothing
             PROVE  Spent(verdicts', d) <= d.maxFailures * (1 + crashes)
  BY DEF Afforded
<1>3. CASE d # Current
  <2>1. Current \in Stages(mem.workflow)
    BY <1>1, CurrentProperties DEF AtStage
  <2>2. d.name # Current.name
    BY <1>1, <1>3, <2>1 DEF Layout, UniqueNames, Stages
  <2>3. Spent(verdicts', d) = Spent(verdicts, d)
    BY <1>1, <2>2, WithoutCounts, BumpCounts DEF RecordVerdict, Spent
  <2> QED
    BY <1>1, <2>3 DEF Afforded
<1>4. CASE d = Current
  <2> DEFINE M == d.maxFailures
             F == Failed(Recorded, d)
             V == Spent(verdicts', d)
  <2>1. Open(Recorded, d) /\ d \in Stages(Recorded.workflow)
    BY <1>1, <1>2, <1>4 DEF AtOpenTask, Open, Closed
  <2>2. M \in Nat /\ F \in Nat /\ V \in Nat
    BY <1>2, <2>1, CountsAreNumbers
  <2>3. F <= M /\ V <= M * crashes + F
    BY <1>2, <2>1 DEF Budgets, Within
  <2>4. M * (crashes + 1) = M * crashes + M /\ M * crashes \in Nat
    BY <1>1, <2>2, OneMore
  <2> HIDE DEF M, F, V
  <2>5. V <= M * (crashes + 1) /\ crashes + 1 = 1 + crashes
    BY <1>1, <2>2, <2>3, <2>4
  <2> QED
    BY <2>5 DEF M, V
<1> QED
  BY <1>3, <1>4

(* The children of an expansion have given no verdict yet. *)
LEMMA SettleAfforded ==
  ASSUME EngineAfforded, Settle
  PROVE  Afforded(mem.workflow, verdicts, crashes)'
<1>1. /\ IndInv /\ mem \in RunState /\ pc = "settle" /\ AtStage /\ StateInv(mem)
      /\ Afforded(mem.workflow, verdicts, crashes) /\ EngineBudget
  BY Zenon DEF Settle, ExpandChildren, RejectExpansion, SettleWithoutTask, Settled, SettleStop,
         SettleDone, SettleNext, SettleRoute, EngineAfforded, EngineBudget, EngineSound,
         EngineTidy, IndInv, TypeOK
<1>2. CASE Raise
  <2>1. mem' = mem /\ verdicts' = verdicts /\ crashes' = crashes
    BY <1>2 DEF Raise
  <2> QED
    BY <1>1, <2>1
<1>3. ASSUME RecordVerdict, crashes' = crashes, mem'.workflow = mem.workflow
      PROVE  Afforded(mem.workflow, verdicts, crashes)'
  BY <1>1, <1>3, RecordedAfforded
<1>4. ASSUME ~NoTaskToFinish PROVE TaskSettled \in RunState /\ TaskSettled.workflow = mem.workflow
  BY <1>1, <1>4, TaskSettledTree DEF SameTree
<1>5. CASE ExpandChildren
  <2> DEFINE e == Expand(Recorded, Current, result.flow, Target)
             position == mem.position + 1
             g == Recorded.expansions + 1
  <2>1. mem' = [e EXCEPT !.position = position] /\ RecordVerdict /\ crashes' = crashes
    BY <1>5 DEF ExpandChildren, Commit
  <2>2. /\ Recorded.workflow = mem.workflow /\ Keyed(Recorded, verdicts')
        /\ Afforded(mem.workflow, verdicts', crashes)
        /\ verdicts' \in SUBSET [key : Name, count : Nat] /\ Recorded \in RunState
    BY <1>1, <2>1, RecordedBudget, RecordedAfforded
  <2>3. StateInv(Recorded) /\ ~Recorded.completed
    BY <1>1, RecordedProperties, SameWorkflowInv
  <2>4. Current \in Stages(Recorded.workflow)
    BY <1>1, <2>2, CurrentProperties DEF AtStage
  <2>5. result.flow \in FlowId /\ FlowAccepted(result.flow)
    BY <1>1, <1>5, Zenon DEF ExpandChildren, Expands, IndInv, TypeOK, StageResult
  <2>6. Target \in Keywords \cup RouteTargets(Current)
    BY <1>1, TargetKnown
  <2>7. StateInv(e)
    BY <2>3, <2>4, <2>5, <2>6, ExpandPreservesStateInv
  <2>8. \A d \in Stages(e.workflow) : d \in Stages(Recorded.workflow) \/ d.name.group = g
    BY <2>3, <2>4, <2>5, <2>6, ExpandStages
  <2> HIDE DEF e, position
  <2>9. mem'.workflow = e.workflow
    BY <2>1, <2>7 DEF StateInv, RunState
  <2> SUFFICES ASSUME NEW d \in Stages(e.workflow), Counted(d), d.task # Nothing
               PROVE  Spent(verdicts', d) <= d.maxFailures * (1 + crashes)
    BY <2>1, <2>9 DEF Afforded
  <2>10. CASE d \in Stages(Recorded.workflow)
    BY <2>2, <2>10 DEF Afforded
  <2>11. CASE d.name.group = g
    <3>1. g \in Nat /\ g > Recorded.expansions /\ Recorded.expansions \in Nat
      BY <2>2, RunStateFields
    <3>2. \A o \in verdicts' : o.key # d.name
      BY <2>2, <2>11, <3>1 DEF Keyed
    <3>3. Spent(verdicts', d) = 0
      BY <3>2 DEF Spent, Count
    <3>4. d.maxFailures \in Nat /\ 1 + crashes \in Nat
      <4>1. d \in Definition
        BY <2>7, RunStateFields, StagesAreDefinitions DEF StateInv
      <4> QED
        BY <1>1, <4>1, EngineTypes DEF Definition
    <3>5. d.maxFailures * (1 + crashes) \in Nat
      BY <3>4, OneMore
    <3> QED
      BY <3>3, <3>5
  <2> QED
    BY <2>8, <2>10, <2>11
<1>6. CASE RejectExpansion \/ SettleWithoutTask
  BY <1>2, <1>6 DEF RejectExpansion, SettleWithoutTask
<1>7. CASE SettleStop
  BY <1>3, <1>4, <1>7 DEF SettleStop, Settled, Commit
<1>8. CASE SettleDone
  <2>1. ~NoTaskToFinish
    BY <1>8 DEF SettleDone, Settled
  <2>2. CASE Commit(FinishRun(TaskSettled), "loop")
    <3>1. mem' = FinishRun(TaskSettled) /\ RecordVerdict /\ crashes' = crashes
      BY <2>2 DEF Commit
    <3>2. mem'.workflow = TaskSettled.workflow
      BY <1>4, <2>1, <3>1, FinishRunMarks DEF SameMarks
    <3> QED
      BY <1>3, <1>4, <2>1, <3>1, <3>2
  <2> QED
    BY <1>2, <1>8, <2>2 DEF SettleDone
<1>9. CASE SettleNext
  <2> DEFINE position == TaskSettled.position + 1
  <2>1. /\ mem' = [TaskSettled EXCEPT !.position = position] /\ RecordVerdict
        /\ crashes' = crashes /\ ~NoTaskToFinish
    BY <1>9 DEF SettleNext, Settled, Commit
  <2> HIDE DEF position
  <2>2. mem'.workflow = TaskSettled.workflow
    BY <1>4, <2>1, PositionMarks
  <2> QED
    BY <1>3, <1>4, <2>1, <2>2
<1>10. CASE SettleRoute
  <2> DEFINE n == DynamicTarget(Current, Target)
  <2>1. /\ mem' = Route(TaskSettled, n) /\ RecordVerdict /\ crashes' = crashes
        /\ ~NoTaskToFinish /\ n \notin Keywords
    BY <1>10 DEF SettleRoute, Settled, Commit
  <2>2. n \in Names(TaskSettled.workflow)
    BY <1>1, <1>4, <2>1, TargetKnown
  <2> HIDE DEF n
  <2>3. mem'.workflow = TaskSettled.workflow
    BY <1>4, <2>1, <2>2, RouteMarks
  <2> QED
    BY <1>3, <1>4, <2>1, <2>3
<1> QED
  BY <1>5, <1>6, <1>7, <1>8, <1>9, <1>10 DEF Settle

LEMMA NextAfforded ==
  ASSUME SafeNamesDiffer
  PROVE  EngineAfforded /\ [Next]_vars /\ [~ReopensTask]_vars => EngineAfforded'
<1> SUFFICES ASSUME EngineAfforded, [Next]_vars, [~ReopensTask]_vars PROVE EngineAfforded'
  OBVIOUS
<1>1. EngineBudget'
  BY NextBudget DEF EngineAfforded
<1>2. /\ IndInv /\ mem \in RunState /\ crashes \in Nat
      /\ verdicts \in SUBSET [key : Name, count : Nat] /\ Agree
      /\ AtOpenTask /\ Afforded(mem.workflow, verdicts, crashes)
  BY EngineTypes, Zenon
     DEF EngineAfforded, EngineBudget, EngineSound, EngineTidy, BudgetInv
<1>3. CASE UNCHANGED vars \/ Terminated
  <2>1. UNCHANGED vars
    BY <1>3 DEF Terminated
  <2>2. Current' = Current
    BY <2>1 DEF vars, Current
  <2>3. AtOpenTask' /\ Afforded(mem.workflow, verdicts, crashes)'
    BY <1>2, <2>1, <2>2 DEF AtOpenTask, Closed, vars
  <2> QED
    BY <1>1, <2>3 DEF EngineAfforded
<1>4. CASE Settle
  <2>1. pc' \in {"loop", "stopped", "failed"}
    BY <1>4 DEF Settle, ExpandChildren, RejectExpansion, SettleWithoutTask, SettleStop,
         SettleDone, SettleNext, SettleRoute, Commit, Raise
  <2>2. AtOpenTask'
    BY <2>1 DEF AtOpenTask
  <2>3. Afforded(mem.workflow, verdicts, crashes)'
    BY <1>4, SettleAfforded
  <2> QED
    BY <1>1, <2>2, <2>3 DEF EngineAfforded
<1>5. CASE Enter \/ Execute \/ Crash \/ Recover
  <2>1. /\ mem'.workflow = mem.workflow /\ mem'.tasks = mem.tasks
        /\ verdicts' = verdicts /\ crashes' \in {crashes, crashes + 1}
    BY <1>2, <1>5, WorkflowKept
  <2>2. Afforded(mem.workflow, verdicts, crashes)'
    BY <1>2, <2>1, AffordedKept
  <2>3. CASE pc' \notin {"executing", "settle"}
    BY <1>1, <2>2, <2>3 DEF EngineAfforded, AtOpenTask
  <2>4. CASE pc' \in {"executing", "settle"}
    <3>1. mem'.position = mem.position /\ (pc = "loop" \/ pc = "executing")
      <4>1. CASE BypassReview \/ BeginStage
        <5> DEFINE a == Activate(mem, Current)
                   failures == Without(a.failures, ReviewKey(a, Current))
        <5>1. MoreStages /\ BindingKnown(mem, Current)
          BY <4>1 DEF BypassReview, BeginStage
        <5>2. a \in RunState /\ a.position = mem.position
          BY <1>2, <5>1, EnteredStage
        <5>3. \/ mem' = [a EXCEPT !.failures = failures, !.stage = "active"]
              \/ mem' = [a EXCEPT !.stage = "active"]
              \/ mem' = a
          BY <4>1 DEF BypassReview, BeginStage
        <5> HIDE DEF a, failures
        <5>4. mem'.position = a.position
          BY <5>2, <5>3 DEF RunState
        <5> QED
          BY <5>1, <5>2, <5>4 DEF MoreStages
      <4>2. CASE RememberSession \/ RotateSession
        <5> DEFINE more == mem.sessions \cup {Current.name}
                   less == mem.sessions \ {Current.name}
        <5>1. /\ mem' = [mem EXCEPT !.sessions = more] \/ mem' = [mem EXCEPT !.sessions = less]
              /\ pc = "executing"
          BY <4>2 DEF RememberSession, RotateSession
        <5> HIDE DEF more, less
        <5> QED
          BY <1>2, <5>1 DEF RunState
      <4>3. CASE FinishStage
        BY <4>3 DEF FinishStage
      <4> QED
        BY <1>5, <2>4, <4>1, <4>2, <4>3 DEF Enter, ExhaustCycles, FinishAtEnd, ReturnCompleted,
           UnknownTask, Execute, FailStage, Raise, Crash, Recover, Resume, ResumeAfterCrash,
           ResumeByOperator, RefuseResume
    <3>2. Current' = Current
      BY <2>1, <3>1 DEF Current
    <3>3. CASE pc = "loop"
      <4>1. ~ReopensTask
        BY <2>4, <3>3 DEF vars
      <4>2. AtOpenTask'
        BY <2>1, <2>4, <3>2, <3>3, <4>1 DEF AtOpenTask, ReopensTask, Closed
      <4> QED
        BY <1>1, <2>2, <4>2 DEF EngineAfforded
    <3>4. CASE pc = "executing"
      <4>1. AtOpenTask'
        BY <1>2, <2>1, <3>2, <3>4 DEF AtOpenTask, Closed
      <4> QED
        BY <1>1, <2>2, <4>1 DEF EngineAfforded
    <3> QED
      BY <3>1, <3>3, <3>4
  <2> QED
    BY <2>3, <2>4
<1> QED
  BY <1>3, <1>4, <1>5 DEF Next

(* Where no route leads back to a Stage of a finished task, no Review of a     *)
(* task, finished or not, has given more FAIL verdicts since it last passed    *)
(* than its budgets allow (flow_engine.py:172-241).                            *)
THEOREM VerdictsStayInBudget ==
  ASSUME SafeNamesDiffer PROVE Spec /\ [][~ReopensTask]_vars => []VerdictBudget
<1>1. Init => EngineAfforded
  <2> SUFFICES ASSUME Init PROVE EngineAfforded
    OBVIOUS
  <2>1. EngineBudget
    BY InitBudget
  <2>2. pc = "loop" /\ mem.tasks = <<>>
    BY Zenon DEF Init
  <2>3. disk = mem
    BY Zenon DEF Init
  <2>4. Afforded(mem.workflow, verdicts, crashes)
    <3> SUFFICES ASSUME NEW d \in Stages(mem.workflow)
                 PROVE  Spent(verdicts, d) <= d.maxFailures * (1 + crashes)
      BY DEF Afforded
    <3>1. verdicts = {} /\ crashes = 0
      BY Zenon DEF Init
    <3>2. Spent(verdicts, d) = 0
      BY <3>1 DEF Spent, Count
    <3>3. d.maxFailures \in Nat
      <4>1. mem \in RunState /\ crashes \in Nat /\ verdicts \in SUBSET [key : Name, count : Nat]
        BY <2>1, EngineTypes DEF EngineBudget, EngineSound, EngineTidy
      <4> QED
        BY <4>1, CountsAreNumbers
    <3> QED
      BY <3>1, <3>2, <3>3
  <2> QED
    BY <2>1, <2>2, <2>4 DEF EngineAfforded, AtOpenTask
<1>2. EngineAfforded /\ [Next]_vars /\ [~ReopensTask]_vars => EngineAfforded'
  BY NextAfforded
<1>3. ASSUME EngineAfforded PROVE VerdictBudget
  <2>1. disk.workflow = mem.workflow
    BY <1>3 DEF EngineAfforded, EngineBudget, BudgetInv, Agree
  <2>2. \A k \in DOMAIN disk.workflow : disk.workflow[k] \in Stages(mem.workflow)
    BY <2>1 DEF Stages
  <2> QED
    BY <1>3, <2>2 DEF EngineAfforded, Afforded, Spent, VerdictBudget
<1> QED
  BY <1>1, <1>2, <1>3, PTL DEF Spec
=============================================================================
