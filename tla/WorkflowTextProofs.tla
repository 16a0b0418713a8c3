------------------------- MODULE WorkflowTextProofs -------------------------
(* Theorems about the lines of a Workflow that are patched in place: whatever *)
(* edits are made one after another, the lines read as what they asked for.   *)
EXTENDS WorkflowText, FunctionTheorems, FiniteSetTheorems, SequenceTheorems, WellFoundedInduction, TLAPS

--------------------------------------------------------------------------
(* Induction over the naturals, said of a set of them: what recursive functions     *)
(* are, and where their values end.                                          *)

(* A nonempty set of naturals has a least element. *)
LEMMA LeastOf ==
  ASSUME NEW T \in SUBSET Nat, T # {}
  PROVE  \E m \in T : \A k \in T : m <= k
<1>1. IsWellFoundedOn(OpToRel(<, Nat), Nat)
  BY NatLessThanWellFounded
<1>2. PICK m \in T : \A k \in T : ~(<<k, m>> \in OpToRel(<, Nat))
  BY <1>1, WFMin
<1>3. \A k \in T : k < m => <<k, m>> \in OpToRel(<, Nat)
  BY DEF OpToRel
<1>4. \A k \in T : ~(k < m)
  BY <1>2, <1>3
<1>5. \A k \in T : m <= k
  BY <1>4
<1> QED
  BY <1>5

(* A set that has 0 and with each number the next one has all of them. *)
LEMMA AllNaturals ==
  ASSUME NEW T, 0 \in T, \A k \in Nat : k \in T => k + 1 \in T
  PROVE  Nat \subseteq T
<1> SUFFICES ASSUME Nat \ T # {} PROVE FALSE
  OBVIOUS
<1>1. PICK m \in Nat \ T : \A k \in Nat \ T : m <= k
  BY LeastOf
<1>2. m # 0 /\ m - 1 \in Nat
  BY <1>1
<1>3. m - 1 \in T
  BY <1>1, <1>2
<1>4. (m - 1) + 1 \in T
  BY <1>2, <1>3
<1> QED
  BY <1>1, <1>4

(* What starts in a set S and steps within it is defined for every number of steps. *)
Chains(S, b, g, n) == {f \in [0 .. n -> S] : f[0] = b /\ \A k \in 1 .. n : f[k] = g[k][f[k - 1]]}
LEMMA Iterates ==
  ASSUME NEW S, NEW b \in S, NEW g \in [Nat -> [S -> S]], NEW n \in Nat
  PROVE  Chains(S, b, g, n) # {}
<1> DEFINE Good(f, m) == f[0] = b /\ \A k \in 1 .. m : f[k] = g[k][f[k - 1]]
           T == {m \in Nat : \E f \in [0 .. m -> S] : Good(f, m)}
<1>1. 0 \in T
  <2>1. [k \in 0 .. 0 |-> b] \in [0 .. 0 -> S] /\ Good([k \in 0 .. 0 |-> b], 0)
    OBVIOUS
  <2> QED
    BY <2>1
<1>2. ASSUME NEW m \in Nat, m \in T PROVE m + 1 \in T
  <2>1. PICK f \in [0 .. m -> S] : Good(f, m)
    BY <1>2
  <2> DEFINE h == [k \in 0 .. m + 1 |-> IF k = m + 1 THEN g[m + 1][f[m]] ELSE f[k]]
  <2>2. h \in [0 .. m + 1 -> S]
    <3>1. f[m] \in S /\ m + 1 \in Nat
      OBVIOUS
    <3>2. g[m + 1][f[m]] \in S
      BY <3>1
    <3>3. \A k \in 0 .. m + 1 : k # m + 1 => k \in 0 .. m
      OBVIOUS
    <3> QED
      BY <3>2, <3>3
  <2>3. ASSUME NEW k \in 1 .. m + 1 PROVE h[k] = g[k][h[k - 1]]
    <3>1. CASE k = m + 1
      <4>1. k - 1 = m /\ m \in 0 .. m + 1 /\ m # m + 1
        BY <3>1
      <4> QED
        BY <3>1, <4>1
    <3>2. CASE k # m + 1
      <4>1. k \in 1 .. m /\ k - 1 \in 0 .. m + 1 /\ k - 1 # m + 1
        BY <3>2
      <4>2. h[k] = f[k] /\ h[k - 1] = f[k - 1]
        BY <3>2, <4>1
      <4> QED
        BY <2>1, <4>1, <4>2
    <3> QED
      BY <3>1, <3>2
  <2>4. Good(h, m + 1)
    <3>1. 0 \in 0 .. m + 1 /\ 0 # m + 1
      OBVIOUS
    <3>2. h[0] = b
      BY <2>1, <3>1
    <3> QED
      BY <2>3, <3>2
  <2> HIDE DEF h, Good
  <2> QED
    BY <2>2, <2>4
<1>3. Nat \subseteq T
  <2> HIDE DEF T
  <2> QED
    BY <1>1, <1>2, AllNaturals
<1> QED
  BY <1>3 DEF Chains

(* Min of a set of naturals. *)
LEMMA MinIs == ASSUME NEW T \in SUBSET Nat, T # {} PROVE Min(T) \in T /\ \A k \in T : Min(T) <= k
<1>1. \E m \in T : \A k \in T : m <= k
  BY LeastOf
<1> QED
  BY <1>1 DEF Min

(***************************************************************************)
(* WorkflowText: the lines read as what the edits asked for.                  *)
(***************************************************************************)
--------------------------------------------------------------------------
(* Where one is in a text: before it, between Stages, in a Stage, in a value of which  *)
(* n lines were read, or in the flow behind n entries.                          *)
Nowhere == [at |-> "nowhere", stage |-> {}, field |-> "", n |-> 0]
InStages == [at |-> "stages", stage |-> {}, field |-> "", n |-> 0]
InStage(s) == [at |-> "stage", stage |-> {s}, field |-> "", n |-> 0]
InValue(s, f, n) == [at |-> "value", stage |-> {s}, field |-> f, n |-> n]
InFlow(n) == [at |-> "flow", stage |-> {}, field |-> "", n |-> n]
Closed(p) == IF p.at = "value" THEN [at |-> "stage", stage |-> p.stage, field |-> "", n |-> 0] ELSE p

TextLine == [is : {"head", "stage", "more", "deep", "item", "blank", "note"},
             what : STRING \cup StageName \cup {"stages", "flow", "deep", "blank", "note"}]
            \cup [is : {"field"}, what : Field, value : STRING]
Whatever == {Absent} \cup (Seq(STRING) \ {<<>>})
MeantTyped(st, fl) ==
  /\ DOMAIN st \subseteq StageName
  /\ st \in [DOMAIN st -> [Field -> Whatever]]
  /\ fl \in Seq(StageName)

Placed(p, st, fl) ==
  \/ p = Nowhere \/ p = InStages
  \/ \E s \in DOMAIN st : p = InStage(s)
  \/ \E s \in DOMAIN st, f \in Field, n \in Nat :
       st[s][f] # Absent /\ 1 <= n /\ n <= Len(st[s][f]) /\ p = InValue(s, f, n)
  \/ \E n \in Nat : n <= Len(fl) /\ p = InFlow(n)
(* Nothing of a value or the flow is to come. *)
Whole(p, st, fl) ==
  /\ p.at = "value" => \A s \in DOMAIN st : p.stage = {s} => p.n = Len(st[s][p.field])
  /\ p.at = "flow" => p.n = Len(fl)
(* A line that is there takes a reader from p to q. *)
Moves(p, l, q, st, fl) ==
  \/ l.is = "head" /\ l.what = "stages" /\ Whole(p, st, fl) /\ q = InStages
  \/ l.is = "head" /\ l.what = "flow" /\ Whole(p, st, fl) /\ q = InFlow(0)
  \/ /\ l.is = "stage" /\ l.what \in DOMAIN st /\ Whole(p, st, fl)
     /\ p.at \in {"stages", "stage", "value"} /\ q = InStage(l.what)
  \/ /\ l.is = "field" /\ l.what \in Field /\ Whole(p, st, fl) /\ p.at \in {"stage", "value"}
     /\ \E s \in DOMAIN st : /\ p.stage = {s} /\ st[s][l.what] # Absent /\ l.value = st[s][l.what][1]
                             /\ q = InValue(s, l.what, 1)
  \/ /\ l.is = "more"
     /\ \E s \in DOMAIN st, f \in Field, n \in Nat :
          /\ p = InValue(s, f, n) /\ n + 1 <= Len(st[s][f]) /\ l.what = st[s][f][n + 1]
          /\ q = InValue(s, f, n + 1)
  \/ l.is = "deep" /\ p.at = "value" /\ q = p
  \/ /\ l.is = "item"
     /\ \E n \in Nat : /\ p = InFlow(n) /\ n + 1 <= Len(fl) /\ l.what = fl[n + 1]
                       /\ q = InFlow(n + 1)
  \/ l.is \in {"blank", "note"} /\ Whole(p, st, fl) /\ q = Closed(p)

(* L says where one is after each line of t, a text that means the Stages st and the    *)
(* flow fl: it has one head of each kind, each Stage and each of its fields once.       *)
Marked(l) == l.is \in {"head", "stage", "field"}
Alike(l, p, k, q) == l.is = k.is /\ l.what = k.what /\ p.stage = q.stage
Parsed(t, L, st, fl) ==
  /\ t \in Seq(TextLine)
  /\ L[0] = Nowhere
  /\ \A i \in 0 .. Len(t) : Placed(L[i], st, fl)
  /\ \A i \in 1 .. Len(t) : Moves(L[i - 1], t[i], L[i], st, fl)
  /\ Whole(L[Len(t)], st, fl)
MarkedOnce(t, L) ==
  \A i, j \in 1 .. Len(t) : Marked(t[i]) /\ Alike(t[i], L[i], t[j], L[j]) => i = j
Shown(t, L, is, what, stage) ==
  \E i \in 1 .. Len(t) : t[i].is = is /\ t[i].what = what /\ L[i].stage = stage
AllShown(t, L, st) ==
  /\ Shown(t, L, "head", "stages", {}) /\ Shown(t, L, "head", "flow", {})
  /\ \A s \in DOMAIN st : /\ Shown(t, L, "stage", s, {s})
                          /\ \A f \in Field : st[s][f] # Absent => Shown(t, L, "field", f, {s})
Means(t, L, st, fl) ==
  MeantTyped(st, fl) /\ Parsed(t, L, st, fl) /\ MarkedOnce(t, L) /\ AllShown(t, L, st)

--------------------------------------------------------------------------
(* Put replaces the lines behind a, up to b. *)
PutAt(S, t, a, b, new) ==
  /\ Put(t, a + 1, b + 1, new) \in Seq(S)
  /\ Len(Put(t, a + 1, b + 1, new)) = Len(t) - (b - a) + Len(new)
  /\ \A i \in 1 .. Len(t) - (b - a) + Len(new) :
       Put(t, a + 1, b + 1, new)[i] =
         IF i <= a THEN t[i]
         ELSE IF i <= a + Len(new) THEN new[i - a] ELSE t[i - Len(new) + (b - a)]
LEMMA PutIs ==
  ASSUME NEW S, NEW t \in Seq(S), NEW new \in Seq(S), NEW a \in 0 .. Len(t), NEW b \in a .. Len(t)
  PROVE  PutAt(S, t, a, b, new)
<1> DEFINE x == SubSeq(t, 1, a)
           y == SubSeq(t, b + 1, Len(t))
<1>1. /\ x \in Seq(S) /\ Len(x) = a /\ \A i \in 1 .. a : x[i] = t[i]
      /\ y \in Seq(S) /\ Len(y) = Len(t) - b /\ \A i \in 1 .. Len(t) - b : y[i] = t[b + i]
  <2>1. a \in Nat /\ b \in Nat /\ Len(t) \in Nat /\ a <= Len(t) /\ b <= Len(t)
    OBVIOUS
  <2>2. \A i \in 1 .. a : t[i] \in S
    BY <2>1
  <2>3. \A i \in b + 1 .. Len(t) : t[i] \in S
    BY <2>1
  <2>4. /\ x \in Seq(S) /\ Len(x) = IF 1 <= a THEN a - 1 + 1 ELSE 0
        /\ \A i \in 1 .. a - 1 + 1 : x[i] = t[1 + i - 1]
    BY <2>1, <2>2, SubSeqProperties
  <2>5. /\ y \in Seq(S) /\ Len(y) = IF b + 1 <= Len(t) THEN Len(t) - (b + 1) + 1 ELSE 0
        /\ \A i \in 1 .. Len(t) - (b + 1) + 1 : y[i] = t[b + 1 + i - 1]
    BY <2>1, <2>3, SubSeqProperties
  <2>6. Len(x) = a /\ \A i \in 1 .. a : x[i] = t[i]
    BY <2>1, <2>4
  <2>7. Len(y) = Len(t) - b
    BY <2>1, <2>5
  <2>8. ASSUME NEW i \in 1 .. Len(t) - b PROVE y[i] = t[b + i]
    <3>1. i \in 1 .. Len(t) - (b + 1) + 1 /\ b + 1 + i - 1 = b + i
      BY <2>1
    <3> QED
      BY <2>5, <3>1
  <2> QED
    BY <2>4, <2>5, <2>6, <2>7, <2>8
<1>2. Put(t, a + 1, b + 1, new) = (x \o new) \o y
  <2>1. (a + 1) - 1 = a
    OBVIOUS
  <2> QED
    BY <2>1 DEF Put
<1> HIDE DEF x, y
<1> DEFINE xn == x \o new
           r == xn \o y
<1>3. /\ xn \in Seq(S) /\ Len(xn) = a + Len(new)
      /\ \A i \in 1 .. a : xn[i] = t[i]
      /\ \A i \in a + 1 .. a + Len(new) : xn[i] = new[i - a]
  <2>1. /\ xn \in Seq(S) /\ Len(xn) = Len(x) + Len(new)
        /\ \A i \in 1 .. Len(x) + Len(new) : xn[i] = IF i <= Len(x) THEN x[i] ELSE new[i - Len(x)]
    BY <1>1, ConcatProperties
  <2> HIDE DEF xn
  <2> QED
    BY <1>1, <2>1
<1>4. /\ r \in Seq(S) /\ Len(r) = a + Len(new) + (Len(t) - b)
      /\ \A i \in 1 .. a + Len(new) : r[i] = xn[i]
      /\ \A i \in a + Len(new) + 1 .. a + Len(new) + (Len(t) - b) : r[i] = y[i - (a + Len(new))]
  <2>0. xn \in Seq(S) /\ y \in Seq(S)
    BY <1>1, <1>3
  <2> HIDE DEF xn
  <2>1. /\ r \in Seq(S) /\ Len(r) = Len(xn) + Len(y)
        /\ \A i \in 1 .. Len(xn) + Len(y) : r[i] = IF i <= Len(xn) THEN xn[i] ELSE y[i - Len(xn)]
    BY <2>0, ConcatProperties
  <2> HIDE DEF r
  <2>2. Len(xn) = a + Len(new) /\ Len(y) = Len(t) - b /\ Len(new) \in Nat /\ a \in Nat /\ Len(t) - b \in Nat
    BY <1>1, <1>3
  <2>3. /\ r \in Seq(S) /\ Len(r) = a + Len(new) + (Len(t) - b)
        /\ \A i \in 1 .. a + Len(new) + (Len(t) - b) :
             r[i] = IF i <= a + Len(new) THEN xn[i] ELSE y[i - (a + Len(new))]
    BY <2>1, <2>2
  <2>4. \A i \in 1 .. a + Len(new) : i \in 1 .. a + Len(new) + (Len(t) - b) /\ i <= a + Len(new)
    BY <2>2
  <2>5. \A i \in a + Len(new) + 1 .. a + Len(new) + (Len(t) - b) :
          i \in 1 .. a + Len(new) + (Len(t) - b) /\ ~(i <= a + Len(new))
    BY <2>2
  <2> QED
    BY <2>3, <2>4, <2>5
<1> HIDE DEF xn
<1>7. r = (x \o new) \o y
  BY DEF xn
<1> HIDE DEF r
<1>5. ASSUME NEW i \in 1 .. Len(t) - (b - a) + Len(new)
      PROVE  r[i] = IF i <= a THEN t[i]
                    ELSE IF i <= a + Len(new) THEN new[i - a] ELSE t[i - Len(new) + (b - a)]
  <2>1. i \in 1 .. a + Len(new) + (Len(t) - b) /\ Len(new) \in Nat
    OBVIOUS
  <2>2. CASE i <= a
    <3>1. i \in 1 .. a /\ i \in 1 .. a + Len(new)
      BY <2>1, <2>2
    <3> QED
      BY <1>3, <1>4, <2>2, <3>1
  <2>4. CASE a < i /\ i <= a + Len(new)
    <3>1. i \in a + 1 .. a + Len(new) /\ i \in 1 .. a + Len(new)
      BY <2>1, <2>4
    <3> QED
      BY <1>3, <1>4, <2>4, <3>1
  <2>3. CASE i > a + Len(new)
    <3>1. i - (a + Len(new)) \in 1 .. Len(t) - b /\ b + (i - (a + Len(new))) = i - Len(new) + (b - a)
      BY <2>1, <2>3
    <3>2. i \in a + Len(new) + 1 .. a + Len(new) + (Len(t) - b) /\ ~(i <= a) /\ ~(i <= a + Len(new))
      BY <2>1, <2>3
    <3>3. r[i] = y[i - (a + Len(new))]
      BY <1>4, <3>2
    <3>4. y[i - (a + Len(new))] = t[b + (i - (a + Len(new)))]
      BY <1>1, <3>1
    <3> QED
      BY <3>1, <3>2, <3>3, <3>4
  <2> QED
    BY <2>1, <2>2, <2>3, <2>4
<1>6. a + Len(new) + (Len(t) - b) = Len(t) - (b - a) + Len(new)
  OBVIOUS
<1> HIDE DEF Put
<1> QED
  BY <1>2, <1>4, <1>5, <1>6, <1>7 DEF PutAt
--------------------------------------------------------------------------
LEMMA SpotsAre ==
  /\ Nowhere.at = "nowhere" /\ Nowhere.stage = {} /\ InStages.at = "stages" /\ InStages.stage = {}
  /\ \A s : InStage(s).at = "stage" /\ InStage(s).stage = {s}
  /\ \A s, f, n : /\ InValue(s, f, n).at = "value" /\ InValue(s, f, n).stage = {s}
                  /\ InValue(s, f, n).field = f /\ InValue(s, f, n).n = n
  /\ \A n : InFlow(n).at = "flow" /\ InFlow(n).stage = {} /\ InFlow(n).n = n
BY DEF Nowhere, InStages, InStage, InValue, InFlow

(* What a spot is does not depend on what the document means elsewhere. *)
Agree(p, st, fl, st2, fl2) ==
  /\ \A s \in DOMAIN st : p.stage = {s} =>
       s \in DOMAIN st2 /\ (p.at = "value" => st2[s][p.field] = st[s][p.field])
  /\ p.at = "flow" => fl2 = fl

LEMMA PlacedStill ==
  ASSUME NEW st, NEW fl, NEW st2, NEW fl2, NEW p, Placed(p, st, fl), Agree(p, st, fl, st2, fl2)
  PROVE  Placed(p, st2, fl2)
<1>1. CASE p = Nowhere \/ p = InStages
  BY <1>1 DEF Placed
<1>2. ASSUME NEW s \in DOMAIN st, p = InStage(s) PROVE Placed(p, st2, fl2)
  <2>1. p.stage = {s}
    BY <1>2 DEF InStage
  <2> QED
    BY <1>2, <2>1 DEF Placed, Agree
<1>3. ASSUME NEW s \in DOMAIN st, NEW f \in Field, NEW n \in Nat, st[s][f] # Absent, 1 <= n, n <= Len(st[s][f]),
             p = InValue(s, f, n)
      PROVE  Placed(p, st2, fl2)
  <2>1. p.stage = {s} /\ p.at = "value" /\ p.field = f
    BY <1>3 DEF InValue
  <2>2. s \in DOMAIN st2 /\ st2[s][f] = st[s][f]
    BY <2>1 DEF Agree
  <2> QED
    BY <1>3, <2>2 DEF Placed
<1>4. ASSUME NEW n \in Nat, n <= Len(fl), p = InFlow(n) PROVE Placed(p, st2, fl2)
  <2>1. fl2 = fl
    BY <1>4 DEF InFlow, Agree
  <2> QED
    BY <1>4, <2>1 DEF Placed
<1> QED
  BY <1>1, <1>2, <1>3, <1>4 DEF Placed

LEMMA WholeStill ==
  ASSUME NEW st, NEW fl, NEW st2, NEW fl2, NEW p, Placed(p, st, fl), Whole(p, st, fl),
         Agree(p, st, fl, st2, fl2)
  PROVE  Whole(p, st2, fl2)
<1>1. CASE p = Nowhere \/ p = InStages
  <2>1. p.at # "value" /\ p.at # "flow"
    BY <1>1, SpotsAre
  <2> QED
    BY <2>1 DEF Whole
<1>2. ASSUME NEW s \in DOMAIN st, p = InStage(s) PROVE Whole(p, st2, fl2)
  BY <1>2 DEF Whole, InStage
<1>3. ASSUME NEW s \in DOMAIN st, NEW f \in Field, NEW n \in Nat, p = InValue(s, f, n)
      PROVE  Whole(p, st2, fl2)
  <2>1. p.stage = {s} /\ p.at = "value" /\ p.field = f /\ p.n = n
    BY <1>3 DEF InValue
  <2>2. st2[s][f] = st[s][f] /\ n = Len(st[s][f])
    BY <2>1 DEF Agree, Whole
  <2>3. \A r \in DOMAIN st2 : p.stage = {r} => r = s
    BY <2>1
  <2> QED
    BY <2>1, <2>2, <2>3 DEF Whole
<1>4. ASSUME NEW n \in Nat, p = InFlow(n) PROVE Whole(p, st2, fl2)
  BY <1>4 DEF InFlow, Agree, Whole
<1> QED
  BY <1>1, <1>2, <1>3, <1>4 DEF Placed

LEMMA GoesStill ==
  ASSUME NEW st, NEW fl, NEW st2, NEW fl2, NEW p, NEW q, NEW l, Moves(p, l, q, st, fl),
         Placed(p, st, fl), Placed(q, st, fl), Agree(p, st, fl, st2, fl2), Agree(q, st, fl, st2, fl2)
  PROVE  Moves(p, l, q, st2, fl2)
<1>1. Whole(p, st, fl) => Whole(p, st2, fl2)
  BY WholeStill
<1>2. CASE l.is = "head"
  BY <1>1, <1>2 DEF Moves
<1>3. CASE l.is = "stage"
  <2>1. l.what \in DOMAIN st /\ q = InStage(l.what) /\ Whole(p, st, fl) /\ p.at \in {"stages", "stage", "value"}
    BY <1>3 DEF Moves
  <2>2. l.what \in DOMAIN st2
    BY <2>1 DEF InStage, Agree
  <2> QED
    BY <1>1, <1>3, <2>1, <2>2 DEF Moves
<1>4. CASE l.is = "field"
  <2>1. /\ l.what \in Field /\ Whole(p, st, fl) /\ p.at \in {"stage", "value"}
        /\ \E s \in DOMAIN st : /\ p.stage = {s} /\ st[s][l.what] # Absent /\ l.value = st[s][l.what][1]
                                /\ q = InValue(s, l.what, 1)
    BY <1>4 DEF Moves
  <2>2. PICK s \in DOMAIN st : /\ p.stage = {s} /\ st[s][l.what] # Absent /\ l.value = st[s][l.what][1]
                               /\ q = InValue(s, l.what, 1)
    BY <2>1
  <2>3. s \in DOMAIN st2 /\ st2[s][l.what] = st[s][l.what]
    BY <2>2 DEF InValue, Agree
  <2> QED
    BY <1>1, <1>4, <2>1, <2>2, <2>3 DEF Moves
<1>5. CASE l.is = "more"
  <2>1. PICK s \in DOMAIN st, f \in Field, n \in Nat :
          /\ p = InValue(s, f, n) /\ n + 1 <= Len(st[s][f]) /\ l.what = st[s][f][n + 1]
          /\ q = InValue(s, f, n + 1)
    BY <1>5 DEF Moves
  <2>2. s \in DOMAIN st2 /\ st2[s][f] = st[s][f]
    BY <2>1 DEF InValue, Agree
  <2> QED
    BY <1>5, <2>1, <2>2 DEF Moves
<1>6. CASE l.is = "deep"
  BY <1>6 DEF Moves
<1>7. CASE l.is = "item"
  <2>1. PICK n \in Nat : /\ p = InFlow(n) /\ n + 1 <= Len(fl) /\ l.what = fl[n + 1]
                         /\ q = InFlow(n + 1)
    BY <1>7 DEF Moves
  <2>2. fl2 = fl
    BY <2>1 DEF InFlow, Agree
  <2> QED
    BY <1>7, <2>1, <2>2 DEF Moves
<1>8. CASE l.is \in {"blank", "note"}
  BY <1>1, <1>8 DEF Moves
<1> QED
  BY <1>2, <1>3, <1>4, <1>5, <1>6, <1>7, <1>8 DEF Moves

(* The lines behind a, up to b, are replaced, and one is led to the same spot. *)
Splice(L, a, b, n, K, len) ==
  [i \in 0 .. len - (b - a) + n |->
     IF i <= a THEN L[i] ELSE IF i <= a + n THEN K[i - a] ELSE L[i - n + (b - a)]]
Kept(a, b, n) == (1 .. a) \cup (b + 1 .. n)
Fits(t, L, st, fl, a, b, new, K, st2, fl2) ==
  /\ MeantTyped(st2, fl2) /\ new \in Seq(TextLine) /\ K[0] = L[a]
  /\ \A i \in 0 .. Len(new) : Placed(K[i], st2, fl2)
  /\ \A i \in 1 .. Len(new) : Moves(K[i - 1], new[i], K[i], st2, fl2)
  /\ \A i \in 0 .. Len(t) : i <= a \/ i > b => Agree(L[i], st, fl, st2, fl2)
  /\ b < Len(t) => Moves(K[Len(new)], t[b + 1], L[b + 1], st2, fl2)
  /\ b = Len(t) => Whole(K[Len(new)], st2, fl2)
  /\ MarkedOnce(new, K)
  /\ \A i \in 1 .. Len(new), j \in Kept(a, b, Len(t)) :
       Marked(new[i]) => ~Alike(new[i], K[i], t[j], L[j])
  /\ \A is \in {"head", "stage", "field"} : \A what, stage : Shown(t, L, is, what, stage) =>
       \/ Shown(new, K, is, what, stage)
       \/ \E j \in Kept(a, b, Len(t)) : t[j].is = is /\ t[j].what = what /\ L[j].stage = stage
       \/ is = "stage" /\ what \notin DOMAIN st2
       \/ is = "field" /\ \A s \in DOMAIN st2 : stage = {s} => st2[s][what] = Absent
  /\ \A s \in DOMAIN st2 : s \in DOMAIN st \/ Shown(new, K, "stage", s, {s})
  /\ \A s \in DOMAIN st2, f \in Field : st2[s][f] # Absent =>
       \/ s \in DOMAIN st /\ st[s][f] # Absent
       \/ Shown(new, K, "field", f, {s})
LEMMA SplicedMeans ==
  ASSUME NEW t, NEW L, NEW st, NEW fl, Means(t, L, st, fl), NEW st2, NEW fl2,
         NEW a \in 0 .. Len(t), NEW b \in a .. Len(t), NEW new, NEW K,
         Fits(t, L, st, fl, a, b, new, K, st2, fl2)
  PROVE  Means(Put(t, a + 1, b + 1, new), Splice(L, a, b, Len(new), K, Len(t)), st2, fl2)
<1> DEFINE r == Put(t, a + 1, b + 1, new)
           n == Len(new)
           len == Len(t) - (b - a) + n
           M == Splice(L, a, b, n, K, Len(t))
<1>h1. MeantTyped(st2, fl2)
  BY DEF Fits
<1>h2. new \in Seq(TextLine)
  BY DEF Fits
<1>h3. K[0] = L[a]
  BY DEF Fits
<1>h4. \A i \in 0 .. Len(new) : Placed(K[i], st2, fl2)
  BY DEF Fits
<1>h5. \A i \in 1 .. Len(new) : Moves(K[i - 1], new[i], K[i], st2, fl2)
  BY DEF Fits
<1>h6. \A i \in 0 .. Len(t) : i <= a \/ i > b => Agree(L[i], st, fl, st2, fl2)
  BY DEF Fits
<1>h7. b < Len(t) => Moves(K[Len(new)], t[b + 1], L[b + 1], st2, fl2)
  BY DEF Fits
<1>h8. b = Len(t) => Whole(K[Len(new)], st2, fl2)
  BY DEF Fits
<1>h9. MarkedOnce(new, K)
  BY DEF Fits
<1>h10. \A i \in 1 .. Len(new), j \in Kept(a, b, Len(t)) :
        Marked(new[i]) => ~Alike(new[i], K[i], t[j], L[j])
  BY DEF Fits
<1>h11. \A is \in {"head", "stage", "field"} : \A what, stage : Shown(t, L, is, what, stage) =>
        \/ Shown(new, K, is, what, stage)
        \/ \E j \in Kept(a, b, Len(t)) : t[j].is = is /\ t[j].what = what /\ L[j].stage = stage
        \/ is = "stage" /\ what \notin DOMAIN st2
        \/ is = "field" /\ \A s \in DOMAIN st2 : stage = {s} => st2[s][what] = Absent
  BY DEF Fits
<1>h12. \A s \in DOMAIN st2 : s \in DOMAIN st \/ Shown(new, K, "stage", s, {s})
  BY DEF Fits
<1>h13. \A s \in DOMAIN st2, f \in Field : st2[s][f] # Absent =>
        \/ s \in DOMAIN st /\ st[s][f] # Absent
        \/ Shown(new, K, "field", f, {s})
  BY DEF Fits
<1>0. t \in Seq(TextLine) /\ Len(t) \in Nat /\ n \in Nat /\ a \in Nat /\ b \in Nat /\ a <= b /\ b <= Len(t)
  BY DEF Means, Parsed
<1>1. /\ r \in Seq(TextLine) /\ Len(r) = len
      /\ \A i \in 1 .. len : r[i] = IF i <= a THEN t[i] ELSE IF i <= a + n THEN new[i - a] ELSE t[i - n + (b - a)]
  <2>1. PutAt(TextLine, t, a, b, new)
    BY <1>0, <1>h2, PutIs
  <2> QED
    BY <2>1 DEF PutAt
<1>2. \A i \in 0 .. len : M[i] = IF i <= a THEN L[i] ELSE IF i <= a + n THEN K[i - a] ELSE L[i - n + (b - a)]
  BY DEF Splice
<1> HIDE DEF r, M
<1>4. ASSUME NEW i \in 0 .. Len(t), i <= a \/ i > b PROVE Placed(L[i], st2, fl2)
  BY <1>4, <1>h6, PlacedStill DEF Means, Parsed
<1>5. ASSUME NEW i \in 1 .. Len(t), i <= a \/ i - 1 > b PROVE Moves(L[i - 1], t[i], L[i], st2, fl2)
  <2>1. i - 1 \in 0 .. Len(t) /\ i \in 0 .. Len(t) /\ (i - 1 <= a \/ i - 1 > b) /\ (i <= a \/ i > b)
    BY <1>0, <1>5
  <2>2. Moves(L[i - 1], t[i], L[i], st, fl) /\ Placed(L[i - 1], st, fl) /\ Placed(L[i], st, fl)
    BY <2>1 DEF Means, Parsed
  <2>3. Agree(L[i - 1], st, fl, st2, fl2) /\ Agree(L[i], st, fl, st2, fl2)
    BY <2>1, <1>h6
  <2> QED
    BY <2>2, <2>3, GoesStill
(* Where each line of the result comes from. *)
<1>6. ASSUME NEW i \in 1 .. len
      PROVE  /\ i <= a => i \in 1 .. Len(t) /\ r[i] = t[i] /\ M[i] = L[i]
             /\ i > a /\ i <= a + n => i - a \in 1 .. n /\ r[i] = new[i - a] /\ M[i] = K[i - a]
             /\ i > a + n => /\ i - n + (b - a) \in 1 .. Len(t) /\ i - n + (b - a) > b
                             /\ r[i] = t[i - n + (b - a)] /\ M[i] = L[i - n + (b - a)]
  <2>1. i \in 0 .. len
    OBVIOUS
  <2>2. CASE i <= a
    BY <1>0, <1>1, <1>2, <2>1, <2>2
  <2>3. CASE i > a /\ i <= a + n
    <3>1. i - a \in 1 .. n /\ ~(i <= a)
      BY <1>0, <2>3
    <3> QED
      BY <1>1, <1>2, <2>1, <2>3, <3>1
  <2>4. CASE i > a + n
    <3>1. i - n + (b - a) \in 1 .. Len(t) /\ i - n + (b - a) > b /\ ~(i <= a) /\ ~(i <= a + n)
      BY <1>0, <2>4
    <3> QED
      BY <1>1, <1>2, <2>1, <2>4, <3>1
  <2>5. a + n >= a /\ i \in Int
    BY <1>0
  <2> QED
    BY <1>0, <2>2, <2>3, <2>4, <2>5
<1>7. M[0] = Nowhere
  BY <1>0, <1>2 DEF Means, Parsed
<1>8. ASSUME NEW i \in 0 .. len PROVE Placed(M[i], st2, fl2)
  <2>1. CASE i = 0
    <3>1. 0 \in 0 .. Len(t) /\ 0 <= a /\ M[0] = L[0]
      BY <1>0, <1>2, <2>1
    <3> QED
      BY <1>4, <2>1, <3>1
  <2>2. CASE i # 0
    <3>1. i \in 1 .. len
      BY <2>2
    <3>2. CASE i <= a
      <4>1. M[i] = L[i] /\ i \in 0 .. Len(t)
        BY <1>6, <3>1, <3>2
      <4> QED
        BY <1>4, <3>2, <4>1
    <3>3. CASE i > a /\ i <= a + n
      <4>1. M[i] = K[i - a] /\ i - a \in 0 .. n
        BY <1>6, <3>1, <3>3
      <4> QED
        BY <1>h4, <4>1
    <3>4. CASE i > a + n
      <4>1. M[i] = L[i - n + (b - a)] /\ i - n + (b - a) \in 0 .. Len(t) /\ i - n + (b - a) > b
        BY <1>6, <3>1, <3>4
      <4> QED
        BY <1>4, <4>1
    <3> QED
      BY <1>0, <3>1, <3>2, <3>3, <3>4
  <2> QED
    BY <2>1, <2>2
<1>9. ASSUME NEW i \in 1 .. len PROVE Moves(M[i - 1], r[i], M[i], st2, fl2)
  <2>1. i - 1 \in 0 .. len
    OBVIOUS
  <2>2. CASE i <= a
    <3>1. M[i - 1] = L[i - 1] /\ M[i] = L[i] /\ r[i] = t[i] /\ i \in 1 .. Len(t)
      BY <1>0, <1>2, <1>6, <2>1, <2>2
    <3> QED
      BY <1>5, <2>2, <3>1
  <2>3. CASE i > a /\ i <= a + n
    <3>1. i - a \in 1 .. n /\ r[i] = new[i - a] /\ M[i] = K[i - a]
      BY <1>0, <1>6, <2>3
    <3>2. M[i - 1] = K[(i - a) - 1]
      <4>1. CASE i = a + 1
        <5>1. M[i - 1] = L[a] /\ (i - a) - 1 = 0
          BY <1>0, <1>2, <2>1, <4>1
        <5> QED
          BY <1>h3, <5>1
      <4>2. CASE i # a + 1
        <5>1. ~(i - 1 <= a) /\ i - 1 <= a + n /\ (i - 1) - a = (i - a) - 1
          BY <1>0, <2>3, <4>2
        <5> QED
          BY <1>2, <2>1, <5>1
      <4> QED
        BY <4>1, <4>2
    <3> QED
      BY <1>h5, <3>1, <3>2
  <2>4. CASE i > a + n
    <3> DEFINE j == i - n + (b - a)
    <3>1. j \in 1 .. Len(t) /\ j > b /\ r[i] = t[j] /\ M[i] = L[j]
      BY <1>0, <1>6, <2>4
    <3>2. CASE i = a + n + 1
      <4>1. j = b + 1 /\ b < Len(t) /\ M[i - 1] = K[n]
        <5>1. j = b + 1 /\ b < Len(t) /\ i - 1 = a + n
          BY <1>0, <3>1, <3>2
        <5>2. CASE n = 0
          BY <1>0, <1>h3, <1>2, <2>1, <5>1, <5>2
        <5>3. CASE n # 0
          <6>1. ~(a + n <= a) /\ (a + n) - a = n /\ a + n <= a + n
            BY <1>0, <5>3
          <6>2. a + n \in 0 .. len
            BY <2>1, <5>1
          <6>3. M[a + n] = K[(a + n) - a]
            BY <1>2, <6>1, <6>2
          <6> QED
            BY <5>1, <6>1, <6>3
        <5> QED
          BY <5>1, <5>2, <5>3
      <4> QED
        BY <1>h7, <3>1, <4>1
    <3>3. CASE i # a + n + 1
      <4>1. ~(i - 1 <= a) /\ ~(i - 1 <= a + n) /\ (i - 1) - n + (b - a) = j - 1 /\ j - 1 > b
        BY <1>0, <2>4, <3>3
      <4>2. M[i - 1] = L[j - 1]
        BY <1>2, <2>1, <4>1
      <4> HIDE DEF j
      <4> QED
        BY <1>5, <3>1, <4>1, <4>2
    <3> QED
      BY <3>2, <3>3
  <2> QED
    BY <1>0, <2>2, <2>3, <2>4
<1>10. Whole(M[len], st2, fl2)
  <2>1. CASE b < Len(t)
    <3>1. ~(len <= a) /\ ~(len <= a + n) /\ len - n + (b - a) = Len(t) /\ len \in 0 .. len
      BY <1>0, <2>1
    <3>2. M[len] = L[Len(t)]
      BY <1>2, <3>1
    <3>3. Len(t) \in 0 .. Len(t) /\ Len(t) > b
      BY <1>0, <2>1
    <3>4. Placed(L[Len(t)], st, fl) /\ Whole(L[Len(t)], st, fl)
      BY <3>3 DEF Means, Parsed
    <3> QED
      BY <1>h6, <3>2, <3>3, <3>4, WholeStill
  <2>2. CASE b = Len(t)
    <3>1. len = a + n /\ len \in 0 .. len
      BY <1>0, <2>2
    <3>2. M[len] = K[n]
      <4>0. M[len] = IF len <= a THEN L[len] ELSE IF len <= a + n THEN K[len - a] ELSE L[len - n + (b - a)]
        BY <1>2, <3>1
      <4>1. CASE n = 0
        <5>1. len = a /\ len <= a
          BY <1>0, <3>1, <4>1
        <5> QED
          BY <1>h3, <4>0, <4>1, <5>1
      <4>2. CASE n # 0
        <5>1. ~(len <= a) /\ len <= a + n /\ len - a = n
          BY <1>0, <3>1, <4>2
        <5> QED
          BY <4>0, <5>1
      <4> QED
        BY <4>1, <4>2
    <3> QED
      BY <1>h8, <2>2, <3>2
  <2> QED
    BY <1>0, <2>1, <2>2
<1>11. Parsed(r, M, st2, fl2)
  BY <1>1, <1>7, <1>8, <1>9, <1>10 DEF Parsed
<1>12. MarkedOnce(r, M)
  <2> SUFFICES ASSUME NEW i \in 1 .. len, NEW j \in 1 .. len, Marked(r[i]), Alike(r[i], M[i], r[j], M[j])
               PROVE  i = j
    BY <1>1 DEF MarkedOnce
  <2> DEFINE Old(k) == k <= a \/ k > a + n
             Was(k) == IF k <= a THEN k ELSE k - n + (b - a)
  <2>1. ASSUME NEW k \in 1 .. len, Old(k)
        PROVE  /\ Was(k) \in 1 .. Len(t) /\ Was(k) \in Kept(a, b, Len(t))
               /\ r[k] = t[Was(k)] /\ M[k] = L[Was(k)]
    <3>1. CASE k <= a
      BY <1>0, <1>6, <3>1 DEF Kept
    <3>2. CASE k > a + n
      <4>1. ~(k <= a)
        BY <1>0, <3>2
      <4>2. /\ k - n + (b - a) \in 1 .. Len(t) /\ k - n + (b - a) > b
            /\ r[k] = t[k - n + (b - a)] /\ M[k] = L[k - n + (b - a)]
        BY <1>0, <1>6, <3>2
      <4>3. k - n + (b - a) \in b + 1 .. Len(t)
        BY <1>0, <4>2
      <4> QED
        BY <4>1, <4>2, <4>3 DEF Kept
    <3> QED
      BY <2>1, <3>1, <3>2
  <2>2. ASSUME NEW k \in 1 .. len, ~Old(k)
        PROVE  k - a \in 1 .. n /\ r[k] = new[k - a] /\ M[k] = K[k - a]
    BY <1>0, <1>6, <2>2
  <2>3. CASE Old(i) /\ Old(j)
    <3>1. Was(i) = Was(j)
      <4>1. Marked(t[Was(i)]) /\ Alike(t[Was(i)], L[Was(i)], t[Was(j)], L[Was(j)])
        BY <2>1, <2>3
      <4>2. Was(i) \in 1 .. Len(t) /\ Was(j) \in 1 .. Len(t)
        BY <2>1, <2>3
      <4> HIDE DEF Was
      <4> QED
        BY <4>1, <4>2 DEF Means, MarkedOnce
    <3> QED
      BY <1>0, <2>3, <3>1
  <2>4. CASE ~Old(i) /\ ~Old(j)
    <3>1. i - a \in 1 .. n /\ j - a \in 1 .. n /\ Marked(new[i - a]) /\ Alike(new[i - a], K[i - a], new[j - a], K[j - a])
      BY <2>2, <2>4
    <3>2. i - a = j - a
      BY <1>h9, <3>1 DEF MarkedOnce
    <3> QED
      BY <1>0, <3>2
  <2>5. CASE ~Old(i) /\ Old(j)
    <3>1. i - a \in 1 .. n /\ Was(j) \in Kept(a, b, Len(t)) /\ Marked(new[i - a])
        /\ Alike(new[i - a], K[i - a], t[Was(j)], L[Was(j)])
      BY <2>1, <2>2, <2>5
    <3> HIDE DEF Was
    <3> QED
      BY <1>h10, <3>1
  <2>6. CASE Old(i) /\ ~Old(j)
    <3>1. /\ j - a \in 1 .. n /\ Was(i) \in Kept(a, b, Len(t))
          /\ Marked(new[j - a]) /\ Alike(new[j - a], K[j - a], t[Was(i)], L[Was(i)])
      BY <2>1, <2>2, <2>6 DEF Marked, Alike
    <3> HIDE DEF Was
    <3> QED
      BY <1>h10, <3>1
  <2> QED
    BY <2>3, <2>4, <2>5, <2>6
<1>13. ASSUME NEW i \in Kept(a, b, Len(t)) PROVE \E j \in 1 .. Len(r) : r[j] = t[i] /\ M[j] = L[i]
  <2>1. CASE i \in 1 .. a
    <3>1. i \in 1 .. len /\ i <= a
      BY <1>0, <2>1
    <3> QED
      BY <1>0, <1>1, <1>6, <3>1
  <2>2. CASE i \in b + 1 .. Len(t)
    <3> DEFINE j == i + n - (b - a)
    <3>1. j \in 1 .. len /\ j > a + n /\ j - n + (b - a) = i
      BY <1>0, <2>2
    <3> HIDE DEF j
    <3>2. r[j] = t[i] /\ M[j] = L[i]
      BY <1>6, <3>1
    <3> QED
      BY <1>1, <3>1, <3>2
  <2> QED
    BY <2>1, <2>2 DEF Kept
<1>14. ASSUME NEW i \in 1 .. n PROVE \E j \in 1 .. Len(r) : r[j] = new[i] /\ M[j] = K[i]
  <2>1. i + a \in 1 .. len /\ i + a > a /\ i + a <= a + n /\ (i + a) - a = i
    BY <1>0
  <2>2. r[i + a] = new[i] /\ M[i + a] = K[i]
    BY <1>6, <2>1
  <2> QED
    BY <1>1, <2>1, <2>2
<1>15. ASSUME NEW is, NEW what, NEW stage, Shown(new, K, is, what, stage) PROVE Shown(r, M, is, what, stage)
  <2>1. PICK i \in 1 .. n : new[i].is = is /\ new[i].what = what /\ K[i].stage = stage
    BY <1>15 DEF Shown
  <2>2. PICK j \in 1 .. Len(r) : r[j] = new[i] /\ M[j] = K[i]
    BY <1>14
  <2> QED
    BY <2>1, <2>2 DEF Shown
<1>16. ASSUME NEW is \in {"head", "stage", "field"}, NEW what, NEW stage, Shown(t, L, is, what, stage)
       PROVE  \/ Shown(r, M, is, what, stage)
              \/ is = "stage" /\ what \notin DOMAIN st2
              \/ is = "field" /\ \A s \in DOMAIN st2 : stage = {s} => st2[s][what] = Absent
  <2>1. ASSUME NEW j \in Kept(a, b, Len(t)), t[j].is = is /\ t[j].what = what /\ L[j].stage = stage
        PROVE  Shown(r, M, is, what, stage)
    BY <1>13, <2>1 DEF Shown
  <2> QED
    BY <1>h11, <1>15, <1>16, <2>1
<1>17. AllShown(r, M, st2)
  <2>1. Shown(r, M, "head", "stages", {}) /\ Shown(r, M, "head", "flow", {})
    <3>1. Shown(t, L, "head", "stages", {}) /\ Shown(t, L, "head", "flow", {})
      BY DEF Means, AllShown
    <3> QED
      BY <1>16, <3>1
  <2>2. ASSUME NEW s \in DOMAIN st2 PROVE Shown(r, M, "stage", s, {s})
    <3>1. CASE s \in DOMAIN st
      <4>1. Shown(t, L, "stage", s, {s})
        BY <3>1 DEF Means, AllShown
      <4> QED
        BY <1>16, <4>1
    <3> QED
      BY <1>h12, <1>15, <3>1
  <2>3. ASSUME NEW s \in DOMAIN st2, NEW f \in Field, st2[s][f] # Absent PROVE Shown(r, M, "field", f, {s})
    <3>1. CASE s \in DOMAIN st /\ st[s][f] # Absent
      <4>1. Shown(t, L, "field", f, {s})
        BY <3>1 DEF Means, AllShown
      <4> QED
        BY <1>16, <2>3, <4>1
    <3> QED
      BY <1>h13, <1>15, <2>3, <3>1
  <2> QED
    BY <2>1, <2>2, <2>3 DEF AllShown
<1> QED
  BY <1>h1, <1>11, <1>12, <1>17 DEF Means, r, M
--------------------------------------------------------------------------
(* What one line does to where one is. *)
LEMMA StepStage ==
  ASSUME NEW st, NEW fl, NEW p, NEW l, NEW q, Moves(p, l, q, st, fl), Placed(p, st, fl)
  PROVE  /\ l.is = "stage" => q.stage = {l.what} /\ q.at = "stage"
         /\ l.is = "head" => q.stage = {}
         /\ l.is \notin {"stage", "head"} =>
              /\ q.stage = p.stage
              /\ p.at \in {"stage", "value"} <=> q.at \in {"stage", "value"}
<1>1. CASE l.is = "head"
  BY <1>1, SpotsAre DEF Moves
<1>2. CASE l.is = "stage"
  BY <1>2, SpotsAre DEF Moves
<1>3. CASE l.is = "field"
  <2>1. PICK s \in DOMAIN st : /\ p.stage = {s} /\ q = InValue(s, l.what, 1) /\ p.at \in {"stage", "value"}
                               /\ Whole(p, st, fl)
    BY <1>3 DEF Moves
  <2> QED
    BY <1>3, <2>1, SpotsAre
<1>4. CASE l.is = "more"
  <2>1. PICK s \in DOMAIN st, f \in Field, n \in Nat : p = InValue(s, f, n) /\ q = InValue(s, f, n + 1)
    BY <1>4 DEF Moves
  <2>2. /\ p.stage = {s} /\ p.at = "value" /\ p.field = f
        /\ q.stage = {s} /\ q.at = "value" /\ q.field = f
    BY <2>1, SpotsAre
  <2> QED
    BY <1>4, <2>2
<1>5. CASE l.is = "item"
  <2>1. PICK n \in Nat : p = InFlow(n) /\ q = InFlow(n + 1)
    BY <1>5 DEF Moves
  <2> QED
    BY <1>5, <2>1, SpotsAre
<1>6. CASE l.is = "deep"
  BY <1>6 DEF Moves
<1>7. CASE l.is \in {"blank", "note"}
  <2>1. q = Closed(p) /\ Whole(p, st, fl)
    BY <1>7 DEF Moves
  <2>2. CASE p.at = "value"
    <3>1. q.at = "stage" /\ q.stage = p.stage
      BY <2>1, <2>2 DEF Closed
    <3> QED
      BY <1>7, <2>1, <2>2, <3>1
  <2>3. CASE p.at # "value"
    <3>1. q = p
      BY <2>1, <2>3 DEF Closed
    <3> QED
      BY <1>7, <2>1, <2>3, <3>1
  <2> QED
    BY <2>2, <2>3
<1> QED
  BY <1>1, <1>2, <1>3, <1>4, <1>5, <1>6, <1>7 DEF Moves

LEMMA StepSection ==
  ASSUME NEW st, NEW fl, NEW p, NEW l, NEW q, Moves(p, l, q, st, fl)
  PROVE  /\ l.is = "head" /\ l.what = "stages" => q = InStages
         /\ l.is = "head" /\ l.what = "flow" => q = InFlow(0)
         /\ l.is = "head" => l.what \in {"stages", "flow"}
         /\ l.is # "head" => /\ p.at \in {"stages", "stage", "value"} => q.at \in {"stages", "stage", "value"}
                             /\ p.at = "flow" <=> q.at = "flow"
<1>1. CASE l.is = "head"
  BY <1>1 DEF Moves
<1>2. CASE l.is \in {"stage", "field"}
  <2>1. p.at \in {"stages", "stage", "value"} /\ q.at \in {"stage", "value"}
    BY <1>2, SpotsAre DEF Moves
  <2> QED
    BY <1>2, <2>1
<1>4. CASE l.is = "more"
  <2>1. PICK s \in DOMAIN st, f \in Field, n \in Nat : p = InValue(s, f, n) /\ q = InValue(s, f, n + 1)
    BY <1>4 DEF Moves
  <2>2. /\ p.stage = {s} /\ p.at = "value" /\ p.field = f
        /\ q.stage = {s} /\ q.at = "value" /\ q.field = f
    BY <2>1, SpotsAre
  <2> QED
    BY <1>4, <2>2
<1>5. CASE l.is = "item"
  <2>1. PICK n \in Nat : p = InFlow(n) /\ q = InFlow(n + 1)
    BY <1>5 DEF Moves
  <2> QED
    BY <1>5, <2>1, SpotsAre
<1>6. CASE l.is = "deep"
  BY <1>6 DEF Moves
<1>7. CASE l.is \in {"blank", "note"}
  <2>1. q = Closed(p) /\ Whole(p, st, fl)
    BY <1>7 DEF Moves
  <2>2. CASE p.at = "value"
    <3>1. q.at = "stage" /\ q.stage = p.stage
      BY <2>1, <2>2 DEF Closed
    <3> QED
      BY <1>7, <2>1, <2>2, <3>1
  <2>3. CASE p.at # "value"
    <3>1. q = p
      BY <2>1, <2>3 DEF Closed
    <3> QED
      BY <1>7, <2>1, <2>3, <3>1
  <2> QED
    BY <2>2, <2>3
<1> QED
  BY <1>1, <1>2, <1>4, <1>5, <1>6, <1>7 DEF Moves

LEMMA StepValue ==
  ASSUME NEW st, NEW fl, NEW p, NEW l, NEW q, Moves(p, l, q, st, fl)
  PROVE  /\ q.at = "value" => \/ l.is = "field" /\ q.field = l.what
                              \/ /\ l.is \in {"more", "deep"} /\ p.at = "value"
                                 /\ p.field = q.field /\ p.stage = q.stage
         /\ l.is \in {"more", "deep"} => p.at = "value" /\ q.at = "value"
         /\ l.is \notin {"more", "deep", "item"} => Whole(p, st, fl)
         /\ l.is = "item" => p.at = "flow" /\ q.at = "flow"
<1>1. CASE l.is = "head"
  BY <1>1, SpotsAre DEF Moves
<1>2. CASE l.is = "stage"
  BY <1>2, SpotsAre DEF Moves
<1>3. CASE l.is = "field"
  <2>1. PICK s \in DOMAIN st : /\ p.stage = {s} /\ q = InValue(s, l.what, 1) /\ p.at \in {"stage", "value"}
                               /\ Whole(p, st, fl)
    BY <1>3 DEF Moves
  <2> QED
    BY <1>3, <2>1, SpotsAre
<1>4. CASE l.is = "more"
  <2>1. PICK s \in DOMAIN st, f \in Field, n \in Nat : p = InValue(s, f, n) /\ q = InValue(s, f, n + 1)
    BY <1>4 DEF Moves
  <2>2. /\ p.stage = {s} /\ p.at = "value" /\ p.field = f
        /\ q.stage = {s} /\ q.at = "value" /\ q.field = f
    BY <2>1, SpotsAre
  <2> QED
    BY <1>4, <2>2
<1>5. CASE l.is = "item"
  BY <1>5, SpotsAre DEF Moves
<1>6. CASE l.is = "deep"
  BY <1>6 DEF Moves
<1>7. CASE l.is \in {"blank", "note"}
  <2>1. q = Closed(p) /\ Whole(p, st, fl)
    BY <1>7 DEF Moves
  <2>2. CASE p.at = "value"
    <3>1. q.at = "stage" /\ q.stage = p.stage
      BY <2>1, <2>2 DEF Closed
    <3> QED
      BY <1>7, <2>1, <2>2, <3>1
  <2>3. CASE p.at # "value"
    <3>1. q = p
      BY <2>1, <2>3 DEF Closed
    <3> QED
      BY <1>7, <2>1, <2>3, <3>1
  <2> QED
    BY <2>2, <2>3
<1> QED
  BY <1>1, <1>2, <1>3, <1>4, <1>5, <1>6, <1>7 DEF Moves

(* What is of a Stage, a value or the flow is behind its first line, and the other way  *)
(* around.                                                                    *)
OfStage(p, s) == p.stage = {s}
BehindStage(t, i, s) ==
  \E k \in 1 .. i : /\ t[k].is = "stage" /\ t[k].what = s
                   /\ \A j \in k + 1 .. i : t[j].is \notin {"stage", "head"}
LEMMA StageOwner ==
  ASSUME NEW t, NEW L, NEW st, NEW fl, Parsed(t, L, st, fl), NEW i \in 0 .. Len(t), NEW s, OfStage(L[i], s)
  PROVE  BehindStage(t, i, s)
<1> DEFINE Owner(m) == \E k \in 1 .. m : /\ t[k].is = "stage" /\ t[k].what = s
                                         /\ \A j \in k + 1 .. m : t[j].is \notin {"stage", "head"}
           T == {m \in Nat : m <= Len(t) /\ L[m].stage = {s} => Owner(m)}
<1>0. Len(t) \in Nat
  BY DEF Parsed
<1>1. 0 \in T
  BY SpotsAre DEF Parsed
<1>2. ASSUME NEW m \in Nat, m \in T PROVE m + 1 \in T
  <2> SUFFICES ASSUME m + 1 <= Len(t), L[m + 1].stage = {s} PROVE Owner(m + 1)
    OBVIOUS
  <2>1. m + 1 \in 1 .. Len(t) /\ (m + 1) - 1 = m /\ m \in 0 .. Len(t)
    BY <1>0
  <2>2. Moves(L[m], t[m + 1], L[m + 1], st, fl) /\ Placed(L[m], st, fl)
    BY <2>1 DEF Parsed
  <2>3. CASE t[m + 1].is = "stage"
    <3>1. t[m + 1].what = s
      BY <2>2, <2>3, StepStage
    <3>2. \A j \in m + 1 + 1 .. m + 1 : FALSE
      OBVIOUS
    <3> QED
      BY <2>1, <2>3, <3>1, <3>2
  <2>4. CASE t[m + 1].is # "stage"
    <3>0. t[m + 1].is # "head"
      <4>1. ASSUME t[m + 1].is = "head" PROVE FALSE
        <5>1. L[m + 1].stage = {}
          BY <2>2, <4>1, StepStage
        <5> QED
          BY <5>1
      <4> QED
        BY <4>1
    <3>1. t[m + 1].is # "head" /\ L[m].stage = {s}
      BY <2>2, <2>4, <3>0, StepStage
    <3>2. PICK k \in 1 .. m : /\ t[k].is = "stage" /\ t[k].what = s
                              /\ \A j \in k + 1 .. m : t[j].is \notin {"stage", "head"}
      BY <1>0, <1>2, <3>1
    <3>3. \A j \in k + 1 .. m + 1 : j = m + 1 \/ j \in k + 1 .. m
      OBVIOUS
    <3>4. k \in 1 .. m + 1 /\ \A j \in k + 1 .. m + 1 : t[j].is \notin {"stage", "head"}
      BY <2>4, <3>1, <3>2, <3>3
    <3> QED
      BY <3>2, <3>4
  <2> QED
    BY <2>3, <2>4
<1>3. Nat \subseteq T
  <2> HIDE DEF T
  <2> QED
    BY <1>1, <1>2, AllNaturals
<1> QED
  BY <1>0, <1>3 DEF OfStage, BehindStage

BehindField(t, L, i) ==
  \E k \in 1 .. i : /\ t[k].is = "field" /\ t[k].what = L[i].field /\ L[k].stage = L[i].stage
                   /\ \A j \in k + 1 .. i : t[j].is \in {"more", "deep"}
LEMMA ValueOwner ==
  ASSUME NEW t, NEW L, NEW st, NEW fl, Parsed(t, L, st, fl), NEW i \in 0 .. Len(t), L[i].at = "value"
  PROVE  BehindField(t, L, i)
<1> DEFINE Owner(m) == \E k \in 1 .. m : /\ t[k].is = "field" /\ t[k].what = L[m].field /\ L[k].stage = L[m].stage
                                         /\ \A j \in k + 1 .. m : t[j].is \in {"more", "deep"}
           T == {m \in Nat : m <= Len(t) /\ L[m].at = "value" => Owner(m)}
<1>0. Len(t) \in Nat
  BY DEF Parsed
<1>1. 0 \in T
  BY SpotsAre DEF Parsed
<1>2. ASSUME NEW m \in Nat, m \in T PROVE m + 1 \in T
  <2> SUFFICES ASSUME m + 1 <= Len(t), L[m + 1].at = "value" PROVE Owner(m + 1)
    OBVIOUS
  <2>1. m + 1 \in 1 .. Len(t) /\ (m + 1) - 1 = m /\ m \in 0 .. Len(t)
    BY <1>0
  <2>2. Moves(L[m], t[m + 1], L[m + 1], st, fl)
    BY <2>1 DEF Parsed
  <2>3. CASE t[m + 1].is = "field"
    <3>1. t[m + 1].what = L[m + 1].field
      BY <2>2, <2>3, StepValue
    <3>2. \A j \in m + 1 + 1 .. m + 1 : FALSE
      OBVIOUS
    <3> QED
      BY <2>1, <2>3, <3>1, <3>2
  <2>4. CASE t[m + 1].is # "field"
    <3>1. /\ t[m + 1].is \in {"more", "deep"} /\ L[m].at = "value"
          /\ L[m].field = L[m + 1].field /\ L[m].stage = L[m + 1].stage
      BY <2>2, <2>4, StepValue
    <3>2. PICK k \in 1 .. m : /\ t[k].is = "field" /\ t[k].what = L[m].field /\ L[k].stage = L[m].stage
                              /\ \A j \in k + 1 .. m : t[j].is \in {"more", "deep"}
      BY <1>0, <1>2, <3>1
    <3>3. \A j \in k + 1 .. m + 1 : j = m + 1 \/ j \in k + 1 .. m
      OBVIOUS
    <3>4. k \in 1 .. m + 1 /\ \A j \in k + 1 .. m + 1 : t[j].is \in {"more", "deep"}
      BY <3>1, <3>2, <3>3
    <3> QED
      BY <3>1, <3>2, <3>4
  <2> QED
    BY <2>3, <2>4
<1>3. Nat \subseteq T
  <2> HIDE DEF T
  <2> QED
    BY <1>1, <1>2, AllNaturals
<1> QED
  BY <1>0, <1>3 DEF BehindField

BehindFlow(t, i) ==
  \E k \in 1 .. i : /\ t[k].is = "head" /\ t[k].what = "flow" /\ \A j \in k + 1 .. i : t[j].is # "head"
LEMMA FlowOwner ==
  ASSUME NEW t, NEW L, NEW st, NEW fl, Parsed(t, L, st, fl), NEW i \in 0 .. Len(t), L[i].at = "flow"
  PROVE  BehindFlow(t, i)
<1> DEFINE Owner(m) == \E k \in 1 .. m : /\ t[k].is = "head" /\ t[k].what = "flow"
                                         /\ \A j \in k + 1 .. m : t[j].is # "head"
           T == {m \in Nat : m <= Len(t) /\ L[m].at = "flow" => Owner(m)}
<1>0. Len(t) \in Nat
  BY DEF Parsed
<1>1. 0 \in T
  BY SpotsAre DEF Parsed
<1>2. ASSUME NEW m \in Nat, m \in T PROVE m + 1 \in T
  <2> SUFFICES ASSUME m + 1 <= Len(t), L[m + 1].at = "flow" PROVE Owner(m + 1)
    OBVIOUS
  <2>1. m + 1 \in 1 .. Len(t) /\ (m + 1) - 1 = m /\ m \in 0 .. Len(t)
    BY <1>0
  <2>2. Moves(L[m], t[m + 1], L[m + 1], st, fl)
    BY <2>1 DEF Parsed
  <2>3. CASE t[m + 1].is = "head"
    <3>1. t[m + 1].what = "flow"
      BY <2>2, <2>3, StepSection, SpotsAre
    <3>2. \A j \in m + 1 + 1 .. m + 1 : FALSE
      OBVIOUS
    <3> QED
      BY <2>1, <2>3, <3>1, <3>2
  <2>4. CASE t[m + 1].is # "head"
    <3>1. L[m].at = "flow"
      BY <2>2, <2>4, StepSection
    <3>2. PICK k \in 1 .. m : /\ t[k].is = "head" /\ t[k].what = "flow"
                              /\ \A j \in k + 1 .. m : t[j].is # "head"
      BY <1>0, <1>2, <3>1
    <3>3. \A j \in k + 1 .. m + 1 : j = m + 1 \/ j \in k + 1 .. m
      OBVIOUS
    <3>4. k \in 1 .. m + 1 /\ \A j \in k + 1 .. m + 1 : t[j].is # "head"
      BY <2>4, <3>2, <3>3
    <3> QED
      BY <3>2, <3>4
  <2> QED
    BY <2>3, <2>4
<1>3. Nat \subseteq T
  <2> HIDE DEF T
  <2> QED
    BY <1>1, <1>2, AllNaturals
<1> QED
  BY <1>0, <1>3 DEF BehindFlow

LEMMA FromStage ==
  ASSUME NEW t, NEW L, NEW st, NEW fl, Parsed(t, L, st, fl), NEW k \in 1 .. Len(t), t[k].is = "stage",
         NEW i \in k .. Len(t), \A j \in k + 1 .. i : t[j].is \notin {"stage", "head"}
  PROVE  L[i].stage = {t[k].what} /\ L[i].at \in {"stage", "value"}
<1> DEFINE T == {m \in Nat : k + m <= i => L[k + m].stage = {t[k].what} /\ L[k + m].at \in {"stage", "value"}}
<1>0. Len(t) \in Nat
  BY DEF Parsed
<1>1. 0 \in T
  <2>1. k - 1 \in 0 .. Len(t) /\ k + 0 = k
    BY <1>0
  <2>2. Moves(L[k - 1], t[k], L[k], st, fl) /\ Placed(L[k - 1], st, fl)
    BY <2>1 DEF Parsed
  <2> QED
    BY <2>1, <2>2, StepStage
<1>2. ASSUME NEW m \in Nat, m \in T PROVE m + 1 \in T
  <2> SUFFICES ASSUME k + (m + 1) <= i
               PROVE  L[k + (m + 1)].stage = {t[k].what} /\ L[k + (m + 1)].at \in {"stage", "value"}
    OBVIOUS
  <2> DEFINE x == k + m
  <2>1. /\ x + 1 = k + (m + 1) /\ x + 1 \in 1 .. Len(t) /\ (x + 1) - 1 = x /\ x \in 0 .. Len(t)
        /\ x + 1 \in k + 1 .. i
    BY <1>0
  <2>2. L[x].stage = {t[k].what} /\ L[x].at \in {"stage", "value"}
    BY <1>0, <1>2
  <2> HIDE DEF x
  <2>3. Moves(L[x], t[x + 1], L[x + 1], st, fl) /\ Placed(L[x], st, fl) /\ t[x + 1].is \notin {"stage", "head"}
    BY <2>1 DEF Parsed
  <2>4. L[x + 1].stage = {t[k].what} /\ L[x + 1].at \in {"stage", "value"}
    BY <2>2, <2>3, StepStage
  <2> QED
    BY <2>1, <2>4
<1>3. Nat \subseteq T
  <2> HIDE DEF T
  <2> QED
    BY <1>1, <1>2, AllNaturals
<1>4. i - k \in Nat /\ k + (i - k) = i /\ i <= i
  BY <1>0
<1>5. i - k \in T
  BY <1>3, <1>4
<1> QED
  BY <1>4, <1>5

LEMMA FromHead ==
  ASSUME NEW t, NEW L, NEW st, NEW fl, Parsed(t, L, st, fl), NEW k \in 1 .. Len(t), t[k].is = "head",
         NEW i \in k .. Len(t), \A j \in k + 1 .. i : t[j].is # "head"
  PROVE  /\ t[k].what = "stages" => L[i].at \in {"stages", "stage", "value"}
         /\ t[k].what = "flow" => L[i].at = "flow"
<1> DEFINE Here(m) == /\ t[k].what = "stages" => L[k + m].at \in {"stages", "stage", "value"}
                      /\ t[k].what = "flow" => L[k + m].at = "flow"
           T == {m \in Nat : k + m <= i => Here(m)}
<1>0. Len(t) \in Nat
  BY DEF Parsed
<1>1. 0 \in T
  <2>1. k - 1 \in 0 .. Len(t) /\ k + 0 = k
    BY <1>0
  <2>2. Moves(L[k - 1], t[k], L[k], st, fl)
    BY <2>1 DEF Parsed
  <2>3. Here(0)
    BY <2>1, <2>2, StepSection, SpotsAre
  <2> QED
    BY <2>3
<1>2. ASSUME NEW m \in Nat, m \in T PROVE m + 1 \in T
  <2> SUFFICES ASSUME k + (m + 1) <= i PROVE Here(m + 1)
    OBVIOUS
  <2> DEFINE x == k + m
  <2>1. /\ x + 1 = k + (m + 1) /\ x + 1 \in 1 .. Len(t) /\ (x + 1) - 1 = x
        /\ x + 1 \in k + 1 .. i
    BY <1>0
  <2>2. /\ t[k].what = "stages" => L[x].at \in {"stages", "stage", "value"}
        /\ t[k].what = "flow" => L[x].at = "flow"
    BY <1>0, <1>2
  <2> HIDE DEF x
  <2>3. Moves(L[x], t[x + 1], L[x + 1], st, fl) /\ t[x + 1].is # "head"
    BY <2>1 DEF Parsed
  <2>4. /\ t[k].what = "stages" => L[x + 1].at \in {"stages", "stage", "value"}
        /\ t[k].what = "flow" => L[x + 1].at = "flow"
    BY <2>2, <2>3, StepSection
  <2> QED
    BY <2>1, <2>4
<1>3. Nat \subseteq T
  <2> HIDE DEF T
  <2> QED
    BY <1>1, <1>2, AllNaturals
<1>4. i - k \in Nat /\ k + (i - k) = i /\ i <= i
  BY <1>0
<1>5. i - k \in T
  <2> HIDE DEF T
  <2> QED
    BY <1>3, <1>4
<1>6. Here(i - k)
  <2> HIDE DEF Here
  <2> QED
    BY <1>4, <1>5
<1> QED
  BY <1>4, <1>6
--------------------------------------------------------------------------
(* First and At are the first line of a kind. *)
LEMMA FirstLineIs ==
  ASSUME NEW S, NEW t \in Seq(S), NEW i \in 1 .. Len(t) + 1, NEW kinds
  PROVE  /\ First(t, i, kinds) \in i .. Len(t) + 1
         /\ \A k \in i .. First(t, i, kinds) - 1 : t[k].is \notin kinds
         /\ First(t, i, kinds) <= Len(t) => t[First(t, i, kinds)].is \in kinds
<1> DEFINE T == {k \in i .. Len(t) : t[k].is \in kinds} \cup {Len(t) + 1}
           n == First(t, i, kinds)
<1>0. Len(t) \in Nat
  OBVIOUS
<1>1. T \in SUBSET Nat /\ T # {}
  BY <1>0
<1>2. Min(T) \in T /\ \A k \in T : Min(T) <= k
  BY <1>1, MinIs
<1>3. n = Min(T)
  BY DEF First
<1> HIDE DEF n
<1>4. n \in T /\ \A k \in T : n <= k
  BY <1>2, <1>3
<1>5. n \in i .. Len(t) + 1
  BY <1>0, <1>4
<1>6. ASSUME NEW k \in i .. n - 1 PROVE t[k].is \notin kinds
  <2>1. k \in i .. Len(t) /\ ~(n <= k)
    BY <1>0, <1>5
  <2> QED
    BY <1>4, <2>1
<1>7. n <= Len(t) => t[n].is \in kinds
  BY <1>0, <1>4
<1> QED
  BY <1>5, <1>6, <1>7 DEF n

LEMMA AtIs ==
  ASSUME NEW S, NEW t \in Seq(S), NEW is, NEW what
  PROVE  /\ At(t, is, what) \in 1 .. Len(t) + 1
         /\ \A k \in 1 .. At(t, is, what) - 1 : ~(t[k].is = is /\ t[k].what = what)
         /\ At(t, is, what) <= Len(t) => t[At(t, is, what)].is = is /\ t[At(t, is, what)].what = what
<1> DEFINE T == {k \in DOMAIN t : t[k].is = is /\ t[k].what = what} \cup {Len(t) + 1}
           n == At(t, is, what)
<1>0. Len(t) \in Nat /\ DOMAIN t = 1 .. Len(t)
  OBVIOUS
<1>1. T \in SUBSET Nat /\ T # {}
  BY <1>0
<1>2. Min(T) \in T /\ \A k \in T : Min(T) <= k
  BY <1>1, MinIs
<1>3. n = Min(T)
  BY DEF At
<1> HIDE DEF n
<1>4. n \in T /\ \A k \in T : n <= k
  BY <1>2, <1>3
<1>5. n \in 1 .. Len(t) + 1
  BY <1>0, <1>4
<1>6. ASSUME NEW k \in 1 .. n - 1 PROVE ~(t[k].is = is /\ t[k].what = what)
  <2>1. k \in DOMAIN t /\ ~(n <= k)
    BY <1>0, <1>5
  <2> QED
    BY <1>4, <2>1
<1>7. n <= Len(t) => t[n].is = is /\ t[n].what = what
  BY <1>0, <1>4
<1> QED
  BY <1>5, <1>6, <1>7 DEF n

LEMMA AtShown ==
  ASSUME NEW t \in Seq(TextLine), NEW L, NEW is, NEW what, NEW stage, Shown(t, L, is, what, stage)
  PROVE  At(t, is, what) \in 1 .. Len(t) /\ t[At(t, is, what)].is = is /\ t[At(t, is, what)].what = what
<1>1. PICK i \in 1 .. Len(t) : t[i].is = is /\ t[i].what = what
  BY DEF Shown
<1> DEFINE n == At(t, is, what)
<1>2. /\ n \in 1 .. Len(t) + 1 /\ \A k \in 1 .. n - 1 : ~(t[k].is = is /\ t[k].what = what)
      /\ n <= Len(t) => t[n].is = is /\ t[n].what = what
  BY AtIs
<1> HIDE DEF n
<1>3. n <= Len(t)
  <2>1. Len(t) \in Nat
    OBVIOUS
  <2>2. CASE n = Len(t) + 1
    <3>1. i \in 1 .. n - 1
      BY <2>1, <2>2
    <3> QED
      BY <1>1, <1>2, <3>1
  <2> QED
    BY <1>2, <2>1, <2>2
<1> QED
  BY <1>2, <1>3 DEF n

(* The lines of a Stage are those behind its name, up to the next Stage or head. *)
Amid(p, s, st, fl) == p.stage = {s} /\ p.at \in {"stage", "value"} /\ Whole(p, st, fl)
Bounded(t, L, s, k, e, st, fl) ==
  /\ k \in 1 .. Len(t) /\ e \in k + 1 .. Len(t) + 1
  /\ t[k].is = "stage" /\ t[k].what = s
  /\ \A i \in k .. e - 1 : L[i].stage = {s} /\ L[i].at \in {"stage", "value"}
  /\ \A i \in k + 1 .. e - 1 : t[i].is \notin {"stage", "head"}
  /\ e <= Len(t) => t[e].is \in {"stage", "head"}
  /\ Whole(L[e - 1], st, fl)
  /\ \A i \in 0 .. Len(t) : L[i].stage = {s} => i \in k .. e - 1
LEMMA StageBounds ==
  ASSUME NEW t, NEW L, NEW st, NEW fl, Means(t, L, st, fl), NEW s \in DOMAIN st
  PROVE  Bounded(t, L, s, StageStart(t, s), StageEnd(t, s), st, fl)
<1> DEFINE k == StageStart(t, s)
           e == StageEnd(t, s)
<1>0. t \in Seq(TextLine) /\ Len(t) \in Nat /\ Parsed(t, L, st, fl) /\ MarkedOnce(t, L) /\ AllShown(t, L, st)
  BY DEF Means, Parsed
<1>1. k \in 1 .. Len(t) /\ t[k].is = "stage" /\ t[k].what = s
  <2>1. Shown(t, L, "stage", s, {s})
    BY <1>0 DEF AllShown
  <2> QED
    BY <1>0, <2>1, AtShown DEF StageStart
<1>2. e = First(t, k + 1, {"stage", "head"})
  BY DEF StageEnd
<1> HIDE DEF k, e
<1>3. /\ e \in k + 1 .. Len(t) + 1 /\ \A i \in k + 1 .. e - 1 : t[i].is \notin {"stage", "head"}
      /\ e <= Len(t) => t[e].is \in {"stage", "head"}
  <2>1. k + 1 \in 1 .. Len(t) + 1
    BY <1>0, <1>1
  <2> QED
    BY <1>0, <1>2, <2>1, FirstLineIs
<1>4. ASSUME NEW i \in k .. e - 1 PROVE L[i].stage = {s} /\ L[i].at \in {"stage", "value"}
  <2>1. i \in k .. Len(t) /\ \A j \in k + 1 .. i : j \in k + 1 .. e - 1
    BY <1>0, <1>1, <1>3
  <2>2. \A j \in k + 1 .. i : t[j].is \notin {"stage", "head"}
    BY <1>3, <2>1
  <2> QED
    BY <1>0, <1>1, <2>1, <2>2, FromStage
<1>5. Whole(L[e - 1], st, fl)
  <2>1. CASE e = Len(t) + 1
    <3>1. e - 1 = Len(t)
      BY <1>0, <2>1
    <3> QED
      BY <1>0, <3>1 DEF Parsed
  <2>2. CASE e <= Len(t)
    <3>1. e \in 1 .. Len(t)
      BY <1>0, <1>1, <1>3, <2>2
    <3>2. Moves(L[e - 1], t[e], L[e], st, fl) /\ t[e].is \in {"stage", "head"}
      BY <1>0, <1>3, <2>2, <3>1 DEF Parsed
    <3> QED
      BY <3>2, StepValue
  <2> QED
    BY <1>0, <1>1, <1>3, <2>1, <2>2
<1>6. ASSUME NEW i \in 0 .. Len(t), L[i].stage = {s} PROVE i \in k .. e - 1
  <2>0. BehindStage(t, i, s)
    <3>1. Parsed(t, L, st, fl) /\ OfStage(L[i], s)
      BY <1>0, <1>6 DEF OfStage
    <3> QED
      BY <3>1, StageOwner
  <2>1. PICK m \in 1 .. i : /\ t[m].is = "stage" /\ t[m].what = s
                            /\ \A j \in m + 1 .. i : t[j].is \notin {"stage", "head"}
    BY <2>0 DEF BehindStage
  <2>2. m \in 1 .. Len(t)
    BY <1>0
  <2>3. m = k
    <3>1. \A x \in 1 .. Len(t) : x \in x .. Len(t) /\ \A j \in x + 1 .. x : FALSE
      OBVIOUS
    <3>2. L[m].stage = {s} /\ L[k].stage = {s}
      BY <1>0, <1>1, <2>1, <2>2, <3>1, FromStage
    <3>3. Marked(t[m]) /\ Alike(t[m], L[m], t[k], L[k])
      BY <1>1, <2>1, <3>2 DEF Marked, Alike
    <3> QED
      BY <1>0, <1>1, <2>2, <3>3 DEF MarkedOnce
  <2>4. i < e
    <3> SUFFICES ASSUME ~(i < e) PROVE FALSE
      OBVIOUS
    <3>1. e <= Len(t) /\ e \in m + 1 .. i
      BY <1>0, <1>1, <1>3, <2>3
    <3> QED
      BY <1>3, <2>1, <3>1
  <2> QED
    BY <1>0, <1>1, <1>3, <2>3, <2>4
<1> QED
  BY <1>1, <1>3, <1>4, <1>5, <1>6 DEF k, e, Bounded

(* The spots of a Stage are told apart by what they are at. *)
LEMMA StageSpots ==
  ASSUME NEW st, NEW fl, NEW p, Placed(p, st, fl)
  PROVE  /\ p.at = "stage" => \E s \in DOMAIN st : p = InStage(s)
         /\ p.at = "value" => \E s \in DOMAIN st, f \in Field, n \in Nat :
                                /\ st[s][f] # Absent /\ 1 <= n /\ n <= Len(st[s][f]) /\ p = InValue(s, f, n)
         /\ p.at = "flow" => \E n \in Nat : n <= Len(fl) /\ p = InFlow(n)
         /\ p.at = "stages" => p = InStages
         /\ p.at = "nowhere" => p = Nowhere
         /\ p.at \notin {"stage", "value"} => p.stage = {}
         /\ p.at \in {"nowhere", "stages", "stage", "value", "flow"}
<1>1. CASE p = Nowhere \/ p = InStages
  BY <1>1, SpotsAre
<1>2. ASSUME NEW s \in DOMAIN st, p = InStage(s) PROVE p.at = "stage"
  BY <1>2, SpotsAre
<1>3. ASSUME NEW s \in DOMAIN st, NEW f \in Field, NEW n \in Nat, p = InValue(s, f, n) PROVE p.at = "value"
  BY <1>3, SpotsAre
<1>4. ASSUME NEW n \in Nat, p = InFlow(n) PROVE p.at = "flow" /\ p.stage = {}
  BY <1>4, SpotsAre
<1> QED
  BY <1>1, <1>2, <1>3, <1>4 DEF Placed
--------------------------------------------------------------------------
(* The lines of a field's value. *)
Remark == {<<>>, <<Aside("deep")>>}
LEMMA RemarkIs ==
  ASSUME NEW remark \in Remark
  PROVE  /\ remark \in Seq(TextLine) /\ Len(remark) \in {0, 1}
         /\ \A i \in 1 .. Len(remark) : remark[i].is = "deep"
<1> DEFINE d == Aside("deep")
<1>1. d \in TextLine /\ d.is = "deep"
  <2>1. d = [is |-> "deep", what |-> "deep"]
    BY DEF Aside, Line
  <2>2. d.is = "deep"
    BY <2>1
  <2> QED
    BY <2>1, <2>2 DEF TextLine
<1> HIDE DEF d
<1>2. CASE remark = <<>>
  BY <1>2
<1>3. CASE remark = <<d>>
  <2>1. <<d>> \in Seq(TextLine) /\ Len(<<d>>) = 1 /\ <<d>>[1] = d
    BY <1>1
  <2>2. \A i \in 1 .. 1 : i = 1
    OBVIOUS
  <2> QED
    BY <1>1, <1>3, <2>1, <2>2
<1> QED
  BY <1>2, <1>3 DEF Remark, d

LEMMA RemarkedIs ==
  ASSUME NEW f \in Field, NEW v \in Whatever, v # Absent, NEW remark \in Remark
  PROVE  /\ Remarked(f, v, remark) \in Seq(TextLine)
         /\ Len(Remarked(f, v, remark)) = Len(v) + Len(remark)
         /\ v \in Seq(STRING) /\ Len(v) \in Nat /\ Len(v) >= 1
         /\ Remarked(f, v, remark)[1].is = "field" /\ Remarked(f, v, remark)[1].what = f
         /\ Remarked(f, v, remark)[1].value = v[1]
         /\ \A i \in 2 .. Len(remark) + 1 : Remarked(f, v, remark)[i].is = "deep"
         /\ \A i \in Len(remark) + 2 .. Len(v) + Len(remark) :
              /\ Remarked(f, v, remark)[i].is = "more"
              /\ Remarked(f, v, remark)[i].what = v[i - Len(remark)]
<1> DEFINE x == <<[is |-> "field", what |-> f, value |-> v[1]]>>
           y == [i \in 1 .. Len(v) - 1 |-> Line("more", v[i + 1])]
           c == Len(remark)
           W == Remarked(f, v, remark)
<1>0. v \in Seq(STRING) /\ Len(v) \in Nat /\ Len(v) >= 1
  <2>1. v \in Seq(STRING) /\ v # <<>>
    BY DEF Whatever
  <2> QED
    BY <2>1, EmptySeq
<1>1. x \in Seq(TextLine) /\ Len(x) = 1 /\ x[1] = [is |-> "field", what |-> f, value |-> v[1]]
  <2>1. v[1] \in STRING
    BY <1>0
  <2>2. [is |-> "field", what |-> f, value |-> v[1]] \in TextLine
    BY <2>1 DEF TextLine
  <2> QED
    BY <2>2
<1>2. y \in Seq(TextLine) /\ Len(y) = Len(v) - 1
  <2>1. ASSUME NEW i \in 1 .. Len(v) - 1 PROVE Line("more", v[i + 1]) \in TextLine
    <3>1. v[i + 1] \in STRING
      BY <1>0
    <3> QED
      BY <3>1 DEF Line, TextLine
  <2>2. Len(v) - 1 \in Nat
    BY <1>0
  <2> QED
    BY <2>1, <2>2
<1>3. ASSUME NEW i \in 1 .. Len(v) - 1 PROVE y[i].is = "more" /\ y[i].what = v[i + 1]
  BY DEF Line
<1>4. remark \in Seq(TextLine) /\ c \in {0, 1} /\ \A i \in 1 .. c : remark[i].is = "deep"
  BY RemarkIs
<1>5. W = (x \o remark) \o y
  BY DEF Remarked
<1> HIDE DEF x, y, W, c
<1>6. /\ x \o remark \in Seq(TextLine) /\ Len(x \o remark) = 1 + c
      /\ (x \o remark)[1] = x[1] /\ \A i \in 2 .. c + 1 : (x \o remark)[i] = remark[i - 1]
  <2>1. /\ x \o remark \in Seq(TextLine) /\ Len(x \o remark) = Len(x) + Len(remark)
        /\ \A i \in 1 .. Len(x) + Len(remark) :
             (x \o remark)[i] = IF i <= Len(x) THEN x[i] ELSE remark[i - Len(x)]
    BY <1>1, <1>4, ConcatProperties
  <2>2. Len(x) + Len(remark) = 1 + c /\ Len(x) = 1 /\ c \in Nat
    BY <1>1, <1>4 DEF c
  <2>3. ASSUME NEW i \in 2 .. c + 1 PROVE (x \o remark)[i] = remark[i - 1]
    <3>1. i \in 1 .. 1 + c /\ ~(i <= 1)
      BY <2>2
    <3> QED
      BY <2>1, <2>2, <3>1
  <2>4. (x \o remark)[1] = x[1]
    <3>1. 1 \in 1 .. 1 + c /\ 1 <= 1
      BY <2>2
    <3> QED
      BY <2>1, <2>2, <3>1
  <2> QED
    BY <2>1, <2>2, <2>3, <2>4
<1>7. /\ W \in Seq(TextLine) /\ Len(W) = Len(v) + c
      /\ \A i \in 1 .. c + 1 : W[i] = (x \o remark)[i]
      /\ \A i \in c + 2 .. Len(v) + c : W[i] = y[i - (1 + c)]
  <2> DEFINE z == x \o remark
  <2>0. z \in Seq(TextLine) /\ Len(z) = 1 + c /\ c \in Nat /\ W = z \o y
    BY <1>4, <1>5, <1>6
  <2> HIDE DEF z
  <2>1. /\ z \o y \in Seq(TextLine) /\ Len(z \o y) = Len(z) + Len(y)
        /\ \A i \in 1 .. Len(z) + Len(y) : (z \o y)[i] = IF i <= Len(z) THEN z[i] ELSE y[i - Len(z)]
    BY <1>2, <2>0, ConcatProperties
  <2>2. Len(z) + Len(y) = Len(v) + c
    BY <1>0, <1>2, <2>0
  <2>3. ASSUME NEW i \in 1 .. c + 1 PROVE W[i] = z[i]
    <3>1. i \in 1 .. Len(v) + c /\ i <= 1 + c
      BY <1>0, <2>0
    <3> QED
      BY <2>0, <2>1, <2>2, <3>1
  <2>4. ASSUME NEW i \in c + 2 .. Len(v) + c PROVE W[i] = y[i - (1 + c)]
    <3>1. i \in 1 .. Len(v) + c /\ ~(i <= 1 + c)
      BY <1>0, <2>0
    <3> QED
      BY <2>0, <2>1, <2>2, <3>1
  <2> QED
    BY <2>0, <2>1, <2>2, <2>3, <2>4 DEF z
<1>8. W[1].is = "field" /\ W[1].what = f /\ W[1].value = v[1]
  <2>1. 1 \in 1 .. c + 1
    BY <1>4
  <2>2. W[1] = [is |-> "field", what |-> f, value |-> v[1]]
    BY <1>1, <1>6, <1>7, <2>1
  <2> QED
    BY <2>2
<1>9. ASSUME NEW i \in 2 .. c + 1 PROVE W[i].is = "deep"
  <2>1. i - 1 \in 1 .. c /\ i \in 1 .. c + 1
    BY <1>4
  <2> QED
    BY <1>4, <1>6, <1>7, <2>1
<1>10. ASSUME NEW i \in c + 2 .. Len(v) + c PROVE W[i].is = "more" /\ W[i].what = v[i - c]
  <2>1. i - (1 + c) \in 1 .. Len(v) - 1 /\ (i - (1 + c)) + 1 = i - c
    BY <1>0, <1>4
  <2>2. W[i] = y[i - (1 + c)]
    BY <1>7
  <2> QED
    BY <1>3, <2>1, <2>2
<1> QED
  BY <1>0, <1>7, <1>8, <1>9, <1>10 DEF W, c

(* One more or one other value of a field. *)
LEMMA WithValue ==
  ASSUME NEW st, NEW fl, MeantTyped(st, fl), NEW s \in DOMAIN st, NEW f \in Field, NEW v \in Whatever
  PROVE  /\ DOMAIN [st EXCEPT ![s][f] = v] = DOMAIN st
         /\ MeantTyped([st EXCEPT ![s][f] = v], fl)
         /\ [st EXCEPT ![s][f] = v][s][f] = v
         /\ \A r \in DOMAIN st, g \in Field : r # s \/ g # f => [st EXCEPT ![s][f] = v][r][g] = st[r][g]
BY DEF MeantTyped

(* A line behind the lines of a Stage fits whatever those end with. *)
LEMMA NextLine ==
  ASSUME NEW st, NEW fl, NEW st2, NEW fl2, NEW s, NEW p, NEW p2, NEW l, NEW q, Moves(p, l, q, st, fl),
         Placed(p, st, fl), Placed(p2, st2, fl2), Placed(q, st, fl), Agree(q, st, fl, st2, fl2),
         p.stage = {s}, Amid(p2, s, st2, fl2),
         l.is \in {"field", "stage", "head", "blank", "note"}
  PROVE  Moves(p2, l, q, st2, fl2)
<1>0. Whole(p2, st2, fl2) /\ p2.at \in {"stage", "value"} /\ p2.stage = {s}
  BY DEF Amid
<1>1. CASE l.is = "head"
  BY <1>0, <1>1 DEF Moves
<1>2. CASE l.is = "stage"
  <2>1. l.what \in DOMAIN st /\ q = InStage(l.what)
    BY <1>2 DEF Moves
  <2>2. l.what \in DOMAIN st2
    BY <2>1, SpotsAre DEF Agree
  <2> QED
    BY <1>0, <1>2, <2>1, <2>2 DEF Moves
<1>3. CASE l.is = "field"
  <2>1. l.what \in Field /\ p.at \in {"stage", "value"}
    BY <1>3 DEF Moves
  <2>2. PICK r \in DOMAIN st : /\ p.stage = {r} /\ st[r][l.what] # Absent /\ l.value = st[r][l.what][1]
                               /\ q = InValue(r, l.what, 1)
    BY <1>3 DEF Moves
  <2>3. r = s
    BY <2>2
  <2>4. r \in DOMAIN st2 /\ st2[r][l.what] = st[r][l.what]
    BY <2>2, SpotsAre DEF Agree
  <2> QED
    BY <1>0, <1>3, <2>1, <2>2, <2>3, <2>4 DEF Moves
<1>4. CASE l.is \in {"blank", "note"}
  <2>1. q = Closed(p)
    BY <1>4 DEF Moves
  <2>2. q = InStage(s)
    <3>1. CASE p.at = "value"
      BY <2>1, <3>1 DEF Closed, InStage
    <3>2. CASE p.at # "value"
      <4>1. p.at \in {"stage", "value"}
        <5>1. {s} # {}
          OBVIOUS
        <5> QED
          BY <5>1, StageSpots
      <4>2. PICK r \in DOMAIN st : p = InStage(r)
        BY <3>2, <4>1, StageSpots
      <4>3. {r} = {s}
        BY <4>2, SpotsAre
      <4>4. r = s
        BY <4>3
      <4> QED
        BY <2>1, <3>2, <4>2, <4>4 DEF Closed
    <3> QED
      BY <3>1, <3>2
  <2>3. Closed(p2) = InStage(s)
    <3>1. CASE p2.at = "value"
      BY <1>0, <3>1 DEF Closed, InStage
    <3>2. CASE p2.at # "value"
      <4>1. PICK r \in DOMAIN st2 : p2 = InStage(r)
        BY <1>0, <3>2, StageSpots
      <4>2. {r} = {s}
        BY <1>0, <4>1, SpotsAre
      <4>3. r = s
        BY <4>2
      <4> QED
        BY <3>2, <4>1, <4>3 DEF Closed
    <3> QED
      BY <3>1, <3>2
  <2> QED
    BY <1>0, <1>4, <2>2, <2>3 DEF Moves
<1> QED
  BY <1>1, <1>2, <1>3, <1>4
LEMMA AtLeastTwo ==
  ASSUME NEW m \in Nat, m >= 1, m # 1, NEW w, w = m + 1
  PROVE  ~(w <= 2) /\ w - 1 = m /\ w \in 1 .. w
OBVIOUS

(* The lines behind a, up to b, that hold the value of a field or nothing, give way to   *)
(* a new value: the text means what it meant, with this value.                       *)
Rewritten(t, a, b, st, fl, s, f, v, remark) ==
  \E M : /\ Means(Put(t, a + 1, b + 1, Remarked(f, v, remark)), M, [st EXCEPT ![s][f] = v], fl)
         /\ Amid(M[a + Len(Remarked(f, v, remark))], s, [st EXCEPT ![s][f] = v], fl)
LEMMA ValuePatched ==
  ASSUME NEW t, NEW L, NEW st, NEW fl, Means(t, L, st, fl), NEW s \in DOMAIN st, NEW f \in Field,
         NEW v \in Whatever, NEW remark \in Remark, NEW a \in 0 .. Len(t), NEW b \in a .. Len(t),
         Amid(L[a], s, st, fl), L[b].stage = {s},
         b < Len(t) => t[b + 1].is \in {"field", "stage", "head", "blank", "note"},
         \A i \in a + 1 .. b : Marked(t[i]) => t[i].is = "field" /\ t[i].what = f /\ L[i].stage = {s},
         \A i \in 0 .. Len(t) : i <= a \/ i > b => ~(L[i].at = "value" /\ L[i].field = f /\ L[i].stage = {s})
  PROVE  Rewritten(t, a, b, st, fl, s, f, v, remark)
<1> DEFINE W == Remarked(f, v, remark)
           st2 == [st EXCEPT ![s][f] = v]
           c == Len(remark)
           K == [i \in 0 .. Len(W) |->
                   IF i = 0 THEN L[a] ELSE InValue(s, f, IF i <= c + 1 THEN 1 ELSE i - c)]
<1>0. /\ t \in Seq(TextLine) /\ Len(t) \in Nat /\ MeantTyped(st, fl) /\ Parsed(t, L, st, fl)
      /\ \A i \in 0 .. Len(t) : Placed(L[i], st, fl)
      /\ \A i \in 1 .. Len(t) : Moves(L[i - 1], t[i], L[i], st, fl)
      /\ a \in Nat /\ b \in Nat /\ a <= b /\ b <= Len(t)
  BY DEF Means, Parsed
<1>1. /\ DOMAIN st2 = DOMAIN st /\ MeantTyped(st2, fl) /\ st2[s][f] = v
      /\ \A r \in DOMAIN st, g \in Field : r # s \/ g # f => st2[r][g] = st[r][g]
  BY <1>0, WithValue
<1>2. c \in {0, 1}
  BY RemarkIs
<1>3. /\ W \in Seq(TextLine) /\ Len(W) \in Nat
      /\ v = Absent => W = <<>> /\ Len(W) = 0
      /\ v # Absent => /\ Len(W) = Len(v) + c /\ v \in Seq(STRING) /\ Len(v) \in Nat /\ Len(v) >= 1
                       /\ W[1].is = "field" /\ W[1].what = f /\ W[1].value = v[1]
                       /\ \A i \in 2 .. c + 1 : W[i].is = "deep"
                       /\ \A i \in c + 2 .. Len(v) + c : W[i].is = "more" /\ W[i].what = v[i - c]
  <2>1. CASE v = Absent
    <3>1. W = <<>>
      BY <2>1 DEF Remarked
    <3> QED
      BY <2>1, <3>1
  <2>2. CASE v # Absent
    <3>1. Len(v) \in Nat /\ Len(v) + c \in Nat /\ Len(W) = Len(v) + c
      BY <1>2, <2>2, RemarkedIs
    <3> QED
      BY <2>2, <3>1, RemarkedIs
  <2> QED
    BY <2>1, <2>2
<1>4. K[0] = L[a] /\ \A i \in 1 .. Len(W) : K[i] = InValue(s, f, IF i <= c + 1 THEN 1 ELSE i - c)
  BY <1>3
<1> HIDE DEF W, st2, c, K
<1>5. ASSUME NEW i \in 0 .. Len(t), i <= a \/ i > b PROVE Agree(L[i], st, fl, st2, fl)
  <2>1. ASSUME NEW r \in DOMAIN st, L[i].stage = {r}, L[i].at = "value"
        PROVE  st2[r][L[i].field] = st[r][L[i].field]
    <3>1. PICK q \in DOMAIN st, g \in Field, n \in Nat : L[i] = InValue(q, g, n)
      BY <1>0, <2>1, StageSpots
    <3>2. L[i].field = g
      BY <3>1, SpotsAre
    <3>3. r # s \/ g # f
      BY <1>5, <2>1, <3>2
    <3> QED
      BY <1>1, <3>2, <3>3
  <2> QED
    BY <1>1, <2>1 DEF Agree
<1>6. Amid(L[a], s, st2, fl) /\ Placed(L[a], st2, fl)
  <2>1. a \in 0 .. Len(t) /\ a <= a
    BY <1>0
  <2>2. Placed(L[a], st, fl) /\ Agree(L[a], st, fl, st2, fl)
    BY <1>0, <1>5, <2>1
  <2> QED
    BY <2>2, PlacedStill, WholeStill DEF Amid
<1>7. ASSUME v # Absent, NEW i \in 1 .. Len(W)
      PROVE  /\ K[i].stage = {s} /\ K[i].at = "value" /\ Placed(K[i], st2, fl)
             /\ Moves(K[i - 1], W[i], K[i], st2, fl)
  <2> DEFINE n == IF i <= c + 1 THEN 1 ELSE i - c
  <2>1. n \in Nat /\ 1 <= n /\ n <= Len(v) /\ K[i] = InValue(s, f, n)
    BY <1>2, <1>3, <1>4, <1>7
  <2>2. K[i].stage = {s} /\ K[i].at = "value"
    BY <2>1, SpotsAre
  <2> HIDE DEF n
  <2>3. Placed(K[i], st2, fl)
    BY <1>1, <1>7, <2>1 DEF Placed
  <2>4. Moves(K[i - 1], W[i], K[i], st2, fl)
    <3>1. CASE i = 1
      <4>1. K[i - 1] = L[a] /\ n = 1
        BY <1>2, <1>4, <3>1 DEF n
      <4>2. /\ W[i].is = "field" /\ W[i].what = f /\ W[i].value = v[1]
        BY <1>3, <1>7, <3>1
      <4>3. s \in DOMAIN st2 /\ st2[s][f] = v
        BY <1>1
      <4>4. L[a].stage = {s} /\ L[a].at \in {"stage", "value"} /\ Whole(L[a], st2, fl)
        BY <1>6 DEF Amid
      <4> QED
        BY <1>7, <2>1, <4>1, <4>2, <4>3, <4>4 DEF Moves
    <3>2. CASE i # 1 /\ i <= c + 1
      <4>1. i \in 2 .. c + 1 /\ i - 1 \in 1 .. Len(W) /\ i - 1 <= c + 1 /\ n = 1
        BY <1>2, <1>3, <3>2 DEF n
      <4>2. K[i - 1] = K[i] /\ W[i].is = "deep"
        BY <1>3, <1>4, <1>7, <2>1, <4>1
      <4> QED
        BY <2>2, <4>2 DEF Moves
    <3>3. CASE i > c + 1
      <4>1. /\ i \in c + 2 .. Len(v) + c /\ i - 1 \in 1 .. Len(W) /\ n = i - c
            /\ (IF i - 1 <= c + 1 THEN 1 ELSE (i - 1) - c) = n - 1 /\ n - 1 \in Nat /\ (n - 1) + 1 = n
        BY <1>2, <1>3, <1>7, <3>3 DEF n
      <4>2. K[i - 1] = InValue(s, f, n - 1) /\ W[i].is = "more" /\ W[i].what = v[n]
        <5>1. K[i - 1] = InValue(s, f, IF i - 1 <= c + 1 THEN 1 ELSE (i - 1) - c)
          BY <1>4, <4>1
        <5>2. W[i].is = "more" /\ W[i].what = v[i - c]
          BY <1>3, <1>7, <4>1
        <5> QED
          BY <4>1, <5>1, <5>2
      <4> DEFINE o == n - 1
      <4>3. o \in Nat /\ o + 1 = n /\ K[i - 1] = InValue(s, f, o)
        BY <4>1, <4>2
      <4> HIDE DEF o
      <4>4. s \in DOMAIN st2 /\ st2[s][f] = v /\ o + 1 <= Len(v) /\ W[i].what = v[o + 1] /\ K[i] = InValue(s, f, o + 1)
        BY <1>1, <2>1, <4>2, <4>3
      <4> QED
        BY <4>2, <4>3, <4>4 DEF Moves
    <3> QED
      BY <1>2, <3>1, <3>2, <3>3
  <2> QED
    BY <2>2, <2>3, <2>4
<1>8. Amid(K[Len(W)], s, st2, fl) /\ Placed(K[Len(W)], st2, fl)
  <2>1. CASE v = Absent
    BY <1>3, <1>4, <1>6, <2>1
  <2>2. CASE v # Absent
    <3>1. /\ Len(W) \in 1 .. Len(W)
          /\ (IF Len(W) <= c + 1 THEN 1 ELSE Len(W) - c) = Len(v)
      <4>1. Len(W) = Len(v) + c /\ Len(v) \in Nat /\ Len(v) >= 1
        BY <1>3, <2>2
      <4>2. CASE c = 0
        BY <4>1, <4>2
      <4>3. CASE c = 1
        <5>1. CASE Len(v) = 1
          BY <4>1, <4>3, <5>1
        <5>2. CASE Len(v) # 1
          <6>1. Len(W) = Len(v) + 1 /\ Len(v) \in Nat /\ Len(v) >= 1 /\ Len(v) # 1
            BY <4>1, <4>3, <5>2
          <6>2. ~(Len(W) <= 2) /\ Len(W) - 1 = Len(v) /\ Len(W) \in 1 .. Len(W)
            BY <6>1, AtLeastTwo
          <6>3. ~(Len(W) <= c + 1) /\ Len(W) - c = Len(v)
            BY <4>3, <6>2
          <6> QED
            BY <6>2, <6>3
        <5> QED
          BY <5>1, <5>2
      <4> QED
        BY <1>2, <4>2, <4>3
    <3>2. K[Len(W)] = InValue(s, f, Len(v))
      BY <1>4, <3>1
    <3>3. /\ K[Len(W)].stage = {s} /\ K[Len(W)].at = "value" /\ K[Len(W)].field = f
          /\ K[Len(W)].n = Len(v)
      BY <3>2, SpotsAre
    <3>4. \A r : K[Len(W)].stage = {r} => r = s
      BY <3>3
    <3>5. Whole(K[Len(W)], st2, fl)
      BY <1>1, <3>3, <3>4 DEF Whole
    <3> QED
      BY <1>7, <2>2, <3>1, <3>3, <3>5 DEF Amid
  <2> QED
    BY <2>1, <2>2
<1>9. ASSUME NEW i \in 0 .. Len(W) PROVE Placed(K[i], st2, fl)
  <2>1. CASE i = 0
    BY <1>4, <1>6, <2>1
  <2>2. CASE i # 0
    <3>1. i \in 1 .. Len(W) /\ v # Absent
      BY <1>3, <2>2
    <3> QED
      BY <1>7, <3>1
  <2> QED
    BY <2>1, <2>2
<1>10. ASSUME NEW i \in 1 .. Len(W) PROVE Moves(K[i - 1], W[i], K[i], st2, fl)
  <2>1. v # Absent
    BY <1>3
  <2> QED
    BY <1>7, <2>1
<1>11. IF b < Len(t) THEN Moves(K[Len(W)], t[b + 1], L[b + 1], st2, fl) ELSE Whole(K[Len(W)], st2, fl)
  <2>1. CASE b < Len(t)
    <3>1. b \in 0 .. Len(t) /\ b + 1 \in 1 .. Len(t) /\ b + 1 \in 0 .. Len(t) /\ (b + 1) - 1 = b /\ b + 1 > b
      BY <1>0, <2>1
    <3>2. /\ Moves(L[b], t[b + 1], L[b + 1], st, fl) /\ Placed(L[b], st, fl) /\ Placed(L[b + 1], st, fl)
          /\ Agree(L[b + 1], st, fl, st2, fl)
      <4>1. Moves(L[(b + 1) - 1], t[b + 1], L[b + 1], st, fl)
        BY <1>0, <3>1
      <4> QED
        BY <1>0, <1>5, <3>1, <4>1
    <3>3. Moves(K[Len(W)], t[b + 1], L[b + 1], st2, fl)
      BY <1>8, <2>1, <3>2, NextLine
    <3> QED
      BY <2>1, <3>3
  <2>2. CASE ~(b < Len(t))
    BY <1>8, <2>2 DEF Amid
  <2> QED
    BY <2>1, <2>2
(* Only the first line of a value is marked. *)
<1>12. ASSUME NEW i \in 1 .. Len(W), Marked(W[i])
       PROVE  i = 1 /\ v # Absent /\ W[i].is = "field" /\ W[i].what = f /\ K[i].stage = {s}
  <2>1. v # Absent
    BY <1>3
  <2>2. i = 1
    <3>1. i = 1 \/ i \in 2 .. c + 1 \/ i \in c + 2 .. Len(v) + c
      BY <1>2, <1>3, <2>1
    <3> QED
      BY <1>3, <1>12, <2>1, <3>1 DEF Marked
  <2> QED
    BY <1>3, <1>7, <2>1, <2>2
<1>13. MarkedOnce(W, K)
  <2> SUFFICES ASSUME NEW i \in 1 .. Len(W), NEW j \in 1 .. Len(W), Marked(W[i]), Alike(W[i], K[i], W[j], K[j])
               PROVE  i = j
    BY DEF MarkedOnce
  <2>1. Marked(W[j])
    BY DEF Marked, Alike
  <2> QED
    BY <1>12, <2>1
<1>14. ASSUME NEW i \in 1 .. Len(W), NEW j \in Kept(a, b, Len(t)), Marked(W[i])
       PROVE  ~Alike(W[i], K[i], t[j], L[j])
  <2> SUFFICES ASSUME Alike(W[i], K[i], t[j], L[j]) PROVE FALSE
    OBVIOUS
  <2>1. t[j].is = "field" /\ t[j].what = f /\ L[j].stage = {s}
    BY <1>12, <1>14 DEF Alike
  <2>2. j \in 1 .. Len(t) /\ j \in 0 .. Len(t) /\ (j <= a \/ j > b)
    BY <1>0 DEF Kept
  <2>3. Moves(L[j - 1], t[j], L[j], st, fl)
    BY <1>0, <2>2
  <2>4. \E r \in DOMAIN st : L[j] = InValue(r, f, 1)
    BY <2>1, <2>3 DEF Moves
  <2>5. L[j].at = "value" /\ L[j].field = f
    BY <2>4, SpotsAre
  <2> QED
    BY <2>1, <2>2, <2>5
<1>15. ASSUME v # Absent PROVE Shown(W, K, "field", f, {s})
  <2>1. 1 \in 1 .. Len(W)
    BY <1>2, <1>3, <1>15
  <2> QED
    BY <1>3, <1>7, <1>15, <2>1 DEF Shown
<1>16. ASSUME NEW is \in {"head", "stage", "field"}, NEW what, NEW stage, Shown(t, L, is, what, stage)
       PROVE  \/ Shown(W, K, is, what, stage)
              \/ \E j \in Kept(a, b, Len(t)) : t[j].is = is /\ t[j].what = what /\ L[j].stage = stage
              \/ is = "stage" /\ what \notin DOMAIN st2
              \/ is = "field" /\ \A r \in DOMAIN st2 : stage = {r} => st2[r][what] = Absent
  <2>1. PICK i \in 1 .. Len(t) : t[i].is = is /\ t[i].what = what /\ L[i].stage = stage
    BY <1>16 DEF Shown
  <2>2. CASE i \in Kept(a, b, Len(t))
    BY <2>1, <2>2
  <2>3. CASE i \notin Kept(a, b, Len(t))
    <3>1. i \in a + 1 .. b
      BY <1>0, <2>3 DEF Kept
    <3>2. is = "field" /\ what = f /\ stage = {s}
      BY <2>1, <3>1 DEF Marked
    <3>3. CASE v = Absent
      <4>1. \A r \in DOMAIN st2 : stage = {r} => r = s
        BY <3>2
      <4> QED
        BY <1>1, <3>2, <3>3, <4>1
    <3>4. CASE v # Absent
      BY <1>15, <3>2, <3>4
    <3> QED
      BY <3>3, <3>4
  <2> QED
    BY <2>2, <2>3
<1>17. ASSUME NEW r \in DOMAIN st2, NEW g \in Field, st2[r][g] # Absent
       PROVE  (r \in DOMAIN st /\ st[r][g] # Absent) \/ Shown(W, K, "field", g, {r})
  <2>1. CASE r = s /\ g = f
    BY <1>1, <1>15, <1>17, <2>1
  <2>2. CASE ~(r = s /\ g = f)
    BY <1>1, <1>17, <2>2
  <2> QED
    BY <2>1, <2>2
<1> DEFINE M == Splice(L, a, b, Len(W), K, Len(t))
<1>18. Means(Put(t, a + 1, b + 1, W), M, st2, fl)
  <2>1. \A r \in DOMAIN st2 : r \in DOMAIN st \/ Shown(W, K, "stage", r, {r})
    BY <1>1
  <2>2. Fits(t, L, st, fl, a, b, W, K, st2, fl)
    <3>1. \A i \in 0 .. Len(t) : i <= a \/ i > b => Agree(L[i], st, fl, st2, fl)
      BY <1>5
    <3>2. /\ b < Len(t) => Moves(K[Len(W)], t[b + 1], L[b + 1], st2, fl)
          /\ b = Len(t) => Whole(K[Len(W)], st2, fl)
      BY <1>0, <1>11
    <3>3. \A is \in {"head", "stage", "field"} : \A what, stage : Shown(t, L, is, what, stage) =>
            \/ Shown(W, K, is, what, stage)
            \/ \E j \in Kept(a, b, Len(t)) : t[j].is = is /\ t[j].what = what /\ L[j].stage = stage
            \/ is = "stage" /\ what \notin DOMAIN st2
            \/ is = "field" /\ \A r \in DOMAIN st2 : stage = {r} => st2[r][what] = Absent
      BY <1>16
    <3> QED
      BY <1>1, <1>3, <1>4, <1>9, <1>10, <1>13, <1>14, <1>17, <2>1, <3>1, <3>2, <3>3 DEF Fits
  <2> QED
    BY <2>2, SplicedMeans
<1>19. M[a + Len(W)] = K[Len(W)]
  <2>1. a + Len(W) \in 0 .. Len(t) - (b - a) + Len(W)
    BY <1>0, <1>3
  <2>2. CASE Len(W) = 0
    BY <1>0, <1>4, <2>1, <2>2 DEF Splice
  <2>3. CASE Len(W) # 0
    <3>1. ~(a + Len(W) <= a) /\ (a + Len(W)) - a = Len(W)
      BY <1>0, <1>3, <2>3
    <3> QED
      BY <2>1, <3>1 DEF Splice
  <2> QED
    BY <2>2, <2>3
<1> QED
  BY <1>8, <1>18, <1>19 DEF W, st2, Rewritten

(* Lines put in behind line a. *)
PutIn(t, a, new) ==
  /\ Put(t, a + 1, a + 1, new) \in Seq(TextLine)
  /\ Len(Put(t, a + 1, a + 1, new)) = Len(t) + Len(new)
  /\ \A i \in 1 .. a : Put(t, a + 1, a + 1, new)[i] = t[i]
  /\ \A i \in 1 .. Len(new) : Put(t, a + 1, a + 1, new)[a + i] = new[i]
  /\ \A i \in a + 1 .. Len(t) : Put(t, a + 1, a + 1, new)[i + Len(new)] = t[i]
LEMMA PutHere ==
  ASSUME NEW t \in Seq(TextLine), NEW a \in 0 .. Len(t), NEW new \in Seq(TextLine)
  PROVE  PutIn(t, a, new)
<1> DEFINE r == Put(t, a + 1, a + 1, new)
<1>0. Len(t) \in Nat /\ a \in Nat /\ a <= Len(t) /\ Len(new) \in Nat /\ a \in a .. Len(t)
  OBVIOUS
<1>1. /\ r \in Seq(TextLine)
      /\ Len(r) = Len(t) - (a - a) + Len(new)
      /\ \A i \in 1 .. Len(t) - (a - a) + Len(new) :
           r[i] = IF i <= a THEN t[i]
                  ELSE IF i <= a + Len(new) THEN new[i - a] ELSE t[i - Len(new) + (a - a)]
  <2>1. PutAt(TextLine, t, a, a, new)
    BY <1>0, PutIs
  <2> QED
    BY <2>1 DEF PutAt
<1> HIDE DEF r
<1>2. Len(t) - (a - a) + Len(new) = Len(t) + Len(new)
  BY <1>0
<1>3. ASSUME NEW i \in 1 .. a PROVE r[i] = t[i]
  <2>1. i \in 1 .. Len(t) + Len(new) /\ i <= a
    BY <1>0
  <2> QED
    BY <1>1, <1>2, <2>1
<1>4. ASSUME NEW i \in 1 .. Len(new) PROVE r[a + i] = new[i]
  <2>1. a + i \in 1 .. Len(t) + Len(new) /\ ~(a + i <= a) /\ a + i <= a + Len(new) /\ (a + i) - a = i
    BY <1>0
  <2> QED
    BY <1>1, <1>2, <2>1
<1>5. ASSUME NEW i \in a + 1 .. Len(t) PROVE r[i + Len(new)] = t[i]
  <2>1. /\ i + Len(new) \in 1 .. Len(t) + Len(new) /\ ~(i + Len(new) <= a) /\ ~(i + Len(new) <= a + Len(new))
        /\ (i + Len(new)) - Len(new) + (a - a) = i
    BY <1>0
  <2> QED
    BY <1>1, <1>2, <2>1
<1> QED
  BY <1>1, <1>2, <1>3, <1>4, <1>5 DEF r, PutIn

(* One more line. *)
LEMMA LineAdded ==
  ASSUME NEW t, NEW L, NEW st, NEW fl, Means(t, L, st, fl), NEW st2, MeantTyped(st2, fl),
         NEW a \in 0 .. Len(t), NEW l \in TextLine, NEW q, Placed(q, st2, fl), Moves(L[a], l, q, st2, fl),
         \A i \in 0 .. Len(t) : Agree(L[i], st, fl, st2, fl),
         a < Len(t) => Moves(q, t[a + 1], L[a + 1], st2, fl),
         a = Len(t) => Whole(q, st2, fl),
         Marked(l) => \A j \in 1 .. Len(t) : ~Alike(l, q, t[j], L[j]),
         \A s \in DOMAIN st2 : s \in DOMAIN st \/ (l.is = "stage" /\ l.what = s /\ q.stage = {s}),
         \A s \in DOMAIN st2, f \in Field : st2[s][f] # Absent => s \in DOMAIN st /\ st[s][f] # Absent
  PROVE  \E M : Means(Put(t, a + 1, a + 1, <<l>>), M, st2, fl) /\ M[a + 1] = q
<1> DEFINE K == [i \in 0 .. 1 |-> IF i = 0 THEN L[a] ELSE q]
           W == <<l>>
<1>0. /\ t \in Seq(TextLine) /\ Len(t) \in Nat /\ Parsed(t, L, st, fl) /\ a \in Nat /\ a <= Len(t)
      /\ \A i \in 0 .. Len(t) : Placed(L[i], st, fl)
  BY DEF Means, Parsed
<1>1. K[0] = L[a] /\ K[1] = q
  OBVIOUS
<1>2. W \in Seq(TextLine) /\ Len(W) = 1 /\ W[1] = l
  OBVIOUS
<1> HIDE DEF K, W
<1>3. Placed(L[a], st2, fl)
  BY <1>0, PlacedStill
<1>4. \A i \in 0 .. 1 : i = 0 \/ i = 1
  OBVIOUS
<1>5. \A i \in 1 .. 1 : i = 1 /\ i - 1 = 0
  OBVIOUS
<1>6. Kept(a, a, Len(t)) = 1 .. Len(t)
  BY <1>0 DEF Kept
<1>7. MarkedOnce(W, K)
  BY <1>2, <1>5 DEF MarkedOnce
<1>8. \A is, what, stage : Shown(t, L, is, what, stage) =>
        \E j \in Kept(a, a, Len(t)) : t[j].is = is /\ t[j].what = what /\ L[j].stage = stage
  BY <1>6 DEF Shown
<1>9. ASSUME NEW s \in DOMAIN st2 PROVE s \in DOMAIN st \/ Shown(W, K, "stage", s, {s})
  <2>1. CASE s \in DOMAIN st
    BY <2>1
  <2>2. CASE l.is = "stage" /\ l.what = s /\ q.stage = {s}
    <3>1. 1 \in 1 .. Len(W)
      BY <1>2
    <3> QED
      BY <1>1, <1>2, <2>2, <3>1 DEF Shown
  <2> QED
    BY <2>1, <2>2
<1>10. Fits(t, L, st, fl, a, a, W, K, st2, fl)
  <2>1. \A i \in 0 .. Len(W) : Placed(K[i], st2, fl)
    BY <1>1, <1>2, <1>3, <1>4
  <2>2. \A i \in 1 .. Len(W) : Moves(K[i - 1], W[i], K[i], st2, fl)
    BY <1>1, <1>2, <1>5
  <2>3. \A i \in 0 .. Len(t) : i <= a \/ i > a => Agree(L[i], st, fl, st2, fl)
    OBVIOUS
  <2>4. /\ a < Len(t) => Moves(K[Len(W)], t[a + 1], L[a + 1], st2, fl)
        /\ a = Len(t) => Whole(K[Len(W)], st2, fl)
    BY <1>1, <1>2
  <2>5. \A i \in 1 .. Len(W), j \in Kept(a, a, Len(t)) : Marked(W[i]) => ~Alike(W[i], K[i], t[j], L[j])
    BY <1>1, <1>2, <1>5, <1>6
  <2>6. \A is \in {"head", "stage", "field"} : \A what, stage : Shown(t, L, is, what, stage) =>
          \/ Shown(W, K, is, what, stage)
          \/ \E j \in Kept(a, a, Len(t)) : t[j].is = is /\ t[j].what = what /\ L[j].stage = stage
          \/ is = "stage" /\ what \notin DOMAIN st2
          \/ is = "field" /\ \A s \in DOMAIN st2 : stage = {s} => st2[s][what] = Absent
    BY <1>8
  <2> QED
    BY <1>1, <1>2, <1>7, <1>9, <2>1, <2>2, <2>3, <2>4, <2>5, <2>6 DEF Fits
<1> DEFINE M == Splice(L, a, a, Len(W), K, Len(t))
<1>11. Means(Put(t, a + 1, a + 1, W), M, st2, fl)
  <2>1. a \in a .. Len(t)
    BY <1>0
  <2> QED
    BY <1>10, <2>1, SplicedMeans
<1>12. M[a + 1] = q
  <2>1. a + 1 \in 0 .. Len(t) - (a - a) + 1 /\ ~(a + 1 <= a) /\ a + 1 <= a + 1 /\ (a + 1) - a = 1
    BY <1>0
  <2> QED
    BY <1>1, <1>2, <2>1 DEF Splice
<1> QED
  BY <1>11, <1>12 DEF W

(* A comment or a blank line where a Stage may begin. *)
Opens(t, L, a, st, fl) ==
  /\ a \in 0 .. Len(t) /\ Whole(L[a], st, fl) /\ L[a].at \in {"stages", "stage", "value"}
  /\ a < Len(t) => t[a + 1].is \in {"head", "stage"}
LEMMA AgreesWithItself == ASSUME NEW p, NEW st, NEW fl PROVE Agree(p, st, fl, st, fl)
BY DEF Agree

LEMMA AsideAdded ==
  ASSUME NEW t, NEW L, NEW st, NEW fl, Means(t, L, st, fl), NEW a, Opens(t, L, a, st, fl),
         NEW is \in {"blank", "note"}
  PROVE  \E M : /\ Means(Put(t, a + 1, a + 1, <<Aside(is)>>), M, st, fl)
                /\ Opens(Put(t, a + 1, a + 1, <<Aside(is)>>), M, a + 1, st, fl)
<1> DEFINE l == Aside(is)
           q == Closed(L[a])
<1>0. /\ t \in Seq(TextLine) /\ Len(t) \in Nat /\ Parsed(t, L, st, fl) /\ a \in Nat /\ a <= Len(t) /\ a \in 0 .. Len(t)
      /\ \A i \in 0 .. Len(t) : Placed(L[i], st, fl)
      /\ MeantTyped(st, fl) /\ Whole(L[a], st, fl)
      /\ L[a].at \in {"stages", "stage", "value"}
      /\ a < Len(t) => t[a + 1].is \in {"head", "stage"}
  BY DEF Means, Parsed, Opens
<1>1. l \in TextLine /\ l.is = is
  BY DEF Aside, Line, TextLine
<1> HIDE DEF l, q
<1>2. Placed(q, st, fl) /\ Whole(q, st, fl) /\ q.at \in {"stages", "stage", "value"} /\ q.at # "value"
  <2>1. CASE L[a].at = "value"
    <3>1. PICK s \in DOMAIN st, f \in Field, n \in Nat : L[a] = InValue(s, f, n)
      BY <1>0, <2>1, StageSpots
    <3>4. L[a].stage = {s}
      BY <3>1, SpotsAre
    <3>2. q = InStage(s)
      BY <2>1, <3>4 DEF q, Closed, InStage
    <3>3. q.at = "stage"
      BY <3>2, SpotsAre
    <3> QED
      BY <3>2, <3>3 DEF Placed, Whole
  <2>2. CASE L[a].at # "value"
    <3>1. q = L[a]
      BY <2>2 DEF q, Closed
    <3> QED
      BY <1>0, <2>2, <3>1
  <2> QED
    BY <2>1, <2>2
<1>3. Moves(L[a], l, q, st, fl)
  BY <1>0, <1>1 DEF Moves, q
<1>4. a < Len(t) => Moves(q, t[a + 1], L[a + 1], st, fl)
  <2> SUFFICES ASSUME a < Len(t) PROVE Moves(q, t[a + 1], L[a + 1], st, fl)
    OBVIOUS
  <2>1. a + 1 \in 1 .. Len(t) /\ (a + 1) - 1 = a
    BY <1>0
  <2>2. Moves(L[a], t[a + 1], L[a + 1], st, fl) /\ t[a + 1].is \in {"head", "stage"}
    <3>1. Moves(L[(a + 1) - 1], t[a + 1], L[a + 1], st, fl)
      BY <1>0, <2>1 DEF Parsed
    <3> QED
      BY <1>0, <2>1, <3>1
  <2> QED
    BY <1>2, <2>2 DEF Moves
<1>5. ~Marked(l)
  BY <1>1 DEF Marked
<1>6. PICK M : Means(Put(t, a + 1, a + 1, <<l>>), M, st, fl) /\ M[a + 1] = q
  <2>1. \A i \in 0 .. Len(t) : Agree(L[i], st, fl, st, fl)
    BY AgreesWithItself
  <2>4. Whole(q, st, fl) /\ (Marked(l) => \A j \in 1 .. Len(t) : ~Alike(l, q, t[j], L[j]))
    BY <1>2, <1>5
  <2>2. ASSUME NEW s \in DOMAIN st PROVE s \in DOMAIN st \/ (l.is = "stage" /\ l.what = s /\ q.stage = {s})
    BY <2>2
  <2>5. ASSUME NEW s \in DOMAIN st, NEW f \in Field, st[s][f] # Absent
        PROVE  s \in DOMAIN st /\ st[s][f] # Absent
    BY <2>5
  <2>3. MeantTyped(st, fl) /\ a \in 0 .. Len(t) /\ l \in TextLine /\ Placed(q, st, fl)
    BY <1>0, <1>1, <1>2
  <2> QED
    BY <1>3, <1>4, <2>1, <2>2, <2>3, <2>4, <2>5, LineAdded
<1>7. Opens(Put(t, a + 1, a + 1, <<l>>), M, a + 1, st, fl)
  <2> DEFINE W == <<l>>
             r == Put(t, a + 1, a + 1, W)
  <2>1. W \in Seq(TextLine) /\ Len(W) = 1
    BY <1>1
  <2> HIDE DEF W
  <2>2. /\ r \in Seq(TextLine) /\ Len(r) = Len(t) + Len(W)
        /\ \A i \in a + 1 .. Len(t) : r[i + Len(W)] = t[i]
    <3>1. PutIn(t, a, W)
      BY <1>0, <2>1, PutHere
    <3> QED
      BY <3>1 DEF PutIn
  <2> HIDE DEF r
  <2>4. Len(r) = Len(t) + 1 /\ a + 1 \in 0 .. Len(r)
    BY <1>0, <2>1, <2>2
  <2>5. a + 1 < Len(r) => r[(a + 1) + 1] = t[a + 1] /\ a < Len(t)
    BY <1>0, <2>1, <2>2, <2>4
  <2>6. Opens(r, M, a + 1, st, fl)
    BY <1>0, <1>2, <1>6, <2>4, <2>5 DEF Opens
  <2> QED
    BY <2>6 DEF r, W
<1> QED
  BY <1>6, <1>7 DEF l
--------------------------------------------------------------------------
(* Lines put in behind lines put in. *)
OnPut(t, a, x, b, y) == Put(Put(t, a + 1, a + 1, x), b + 1, b + 1, y) = Put(t, a + 1, a + 1, x \o y)
LEMMA PutOn ==
  ASSUME NEW t \in Seq(TextLine), NEW a \in 0 .. Len(t), NEW x \in Seq(TextLine), NEW y \in Seq(TextLine),
         NEW b, b = a + Len(x)
  PROVE  OnPut(t, a, x, b, y)
<1> DEFINE r1 == Put(t, a + 1, a + 1, x)
           r2 == Put(r1, b + 1, b + 1, y)
           z == x \o y
           r3 == Put(t, a + 1, a + 1, z)
<1>0. Len(t) \in Nat /\ Len(x) \in Nat /\ Len(y) \in Nat /\ a \in Nat /\ a <= Len(t)
  OBVIOUS
<1>1. /\ r1 \in Seq(TextLine) /\ Len(r1) = Len(t) + Len(x)
      /\ \A i \in 1 .. a : r1[i] = t[i]
      /\ \A i \in 1 .. Len(x) : r1[a + i] = x[i]
      /\ \A i \in a + 1 .. Len(t) : r1[i + Len(x)] = t[i]
  <2>1. PutIn(t, a, x)
    BY PutHere
  <2> QED
    BY <2>1 DEF PutIn
<1>2. /\ z \in Seq(TextLine) /\ Len(z) = Len(x) + Len(y)
      /\ \A i \in 1 .. Len(x) + Len(y) : z[i] = IF i <= Len(x) THEN x[i] ELSE y[i - Len(x)]
  BY ConcatProperties
<1> HIDE DEF r1, z
<1>3. /\ r2 \in Seq(TextLine) /\ Len(r2) = Len(r1) + Len(y)
      /\ \A i \in 1 .. b : r2[i] = r1[i]
      /\ \A i \in 1 .. Len(y) : r2[b + i] = y[i]
      /\ \A i \in b + 1 .. Len(r1) : r2[i + Len(y)] = r1[i]
  <2>1. b \in 0 .. Len(r1)
    BY <1>0, <1>1
  <2>2. PutIn(r1, b, y)
    BY <1>1, <2>1, PutHere
  <2> QED
    BY <2>2 DEF PutIn
<1>4. /\ r3 \in Seq(TextLine) /\ Len(r3) = Len(t) + Len(z)
      /\ \A i \in 1 .. a : r3[i] = t[i]
      /\ \A i \in 1 .. Len(z) : r3[a + i] = z[i]
      /\ \A i \in a + 1 .. Len(t) : r3[i + Len(z)] = t[i]
  <2>1. PutIn(t, a, z)
    BY <1>2, PutHere
  <2> QED
    BY <2>1 DEF PutIn
<1> HIDE DEF r2, r3
<1>5. ASSUME NEW i \in 1 .. Len(r2) PROVE r2[i] = r3[i]
  <2>1. CASE i <= a
    <3>1. i \in 1 .. a /\ i \in 1 .. b
      BY <1>0, <2>1
    <3> QED
      BY <1>1, <1>3, <1>4, <3>1
  <2>2. CASE i > a /\ i <= b
    <3> DEFINE j == i - a
    <3>1. j \in 1 .. Len(x) /\ j \in 1 .. Len(x) + Len(y) /\ j <= Len(x) /\ a + j = i /\ i \in 1 .. b
      BY <1>0, <2>2
    <3> HIDE DEF j
    <3>2. r2[i] = x[j]
      BY <1>1, <1>3, <3>1
    <3>3. r3[i] = z[j] /\ z[j] = x[j]
      BY <1>2, <1>4, <3>1
    <3> QED
      BY <3>2, <3>3
  <2>3. CASE i > b /\ i <= b + Len(y)
    <3> DEFINE j == i - b
               k == i - a
    <3>1. /\ j \in 1 .. Len(y) /\ b + j = i /\ k \in 1 .. Len(x) + Len(y) /\ ~(k <= Len(x)) /\ k - Len(x) = j
          /\ a + k = i
      BY <1>0, <2>3
    <3> HIDE DEF j, k
    <3>2. r2[i] = y[j]
      BY <1>3, <3>1
    <3>3. r3[i] = z[k] /\ z[k] = y[j]
      BY <1>2, <1>4, <3>1
    <3> QED
      BY <3>2, <3>3
  <2>4. CASE i > b + Len(y)
    <3> DEFINE j == i - Len(y)
               k == j - Len(x)
    <3>0. Len(r1) = Len(t) + Len(x) /\ Len(r2) = Len(r1) + Len(y) /\ Len(z) = Len(x) + Len(y)
      BY <1>1, <1>2, <1>3
    <3>1. /\ j \in b + 1 .. Len(r1) /\ j + Len(y) = i /\ k \in a + 1 .. Len(t) /\ k + Len(x) = j
          /\ k + Len(z) = i
      BY <1>0, <2>4, <3>0
    <3> HIDE DEF j, k
    <3>2. r2[i] = r1[j] /\ r1[j] = t[k]
      BY <1>1, <1>3, <3>1
    <3>3. r3[i] = t[k]
      BY <1>4, <3>1
    <3> QED
      BY <3>2, <3>3
  <2> QED
    BY <1>0, <2>1, <2>2, <2>3, <2>4
<1>6. Len(r2) = Len(r3)
  BY <1>0, <1>1, <1>2, <1>3, <1>4
<1>7. r2 = r3
  BY <1>3, <1>4, <1>5, <1>6, SeqEqual
<1> QED
  BY <1>7 DEF r1, r2, r3, z, OnPut

(* A Stage without fields. *)
Bare == [f \in Field |-> Absent]
Joined(st, s, c) == [r \in DOMAIN st \cup {s} |-> IF r = s THEN c ELSE st[r]]
Room(t, L, a, s, st, fl) ==
  /\ a \in 0 .. Len(t) /\ Amid(L[a], s, st, fl)
  /\ a < Len(t) => t[a + 1].is \in {"head", "stage"}
IsJoined(st2, st, fl, s, c) ==
  /\ DOMAIN st2 = DOMAIN st \cup {s} /\ MeantTyped(st2, fl) /\ st2[s] = c
  /\ \A r \in DOMAIN st : r # s /\ st2[r] = st[r]
LEMMA JoinedIs ==
  ASSUME NEW st, NEW fl, MeantTyped(st, fl), NEW s \in StageName \ DOMAIN st, NEW c \in [Field -> Whatever]
  PROVE  IsJoined(Joined(st, s, c), st, fl, s, c)
BY DEF Joined, MeantTyped, IsJoined

LEMMA StageAdded ==
  ASSUME NEW t, NEW L, NEW st, NEW fl, Means(t, L, st, fl), NEW a, Opens(t, L, a, st, fl),
         NEW s \in StageName \ DOMAIN st
  PROVE  \E M : /\ Means(Put(t, a + 1, a + 1, <<Line("stage", s)>>), M, Joined(st, s, Bare), fl)
                /\ Room(Put(t, a + 1, a + 1, <<Line("stage", s)>>), M, a + 1, s, Joined(st, s, Bare), fl)
<1> DEFINE l == Line("stage", s)
           q == InStage(s)
           st2 == Joined(st, s, Bare)
<1>0. /\ t \in Seq(TextLine) /\ Len(t) \in Nat /\ Parsed(t, L, st, fl) /\ a \in Nat /\ a <= Len(t) /\ a \in 0 .. Len(t)
      /\ \A i \in 0 .. Len(t) : Placed(L[i], st, fl)
      /\ MeantTyped(st, fl) /\ Whole(L[a], st, fl)
      /\ L[a].at \in {"stages", "stage", "value"}
      /\ a < Len(t) => t[a + 1].is \in {"head", "stage"}
  BY DEF Means, Parsed, Opens
<1>1. l \in TextLine /\ l.is = "stage" /\ l.what = s
  BY DEF Line, TextLine
<1>2. Bare \in [Field -> Whatever] /\ \A f \in Field : Bare[f] = Absent
  BY DEF Bare, Whatever
<1>3. /\ DOMAIN st2 = DOMAIN st \cup {s} /\ MeantTyped(st2, fl) /\ st2[s] = Bare
      /\ \A r \in DOMAIN st : r # s /\ st2[r] = st[r]
  <2>1. IsJoined(st2, st, fl, s, Bare)
    BY <1>0, <1>2, JoinedIs
  <2> QED
    BY <2>1 DEF IsJoined
<1>4. q.at = "stage" /\ q.stage = {s}
  BY SpotsAre
<1> HIDE DEF l, q, st2
<1>5. \A i \in 0 .. Len(t) : Agree(L[i], st, fl, st2, fl)
  BY <1>3 DEF Agree
<1>6. Placed(q, st2, fl) /\ Whole(q, st2, fl)
  BY <1>3, <1>4 DEF Placed, Whole, q
<1>7. Moves(L[a], l, q, st2, fl)
  <2>1. Whole(L[a], st2, fl)
    BY <1>0, <1>5, WholeStill
  <2> QED
    BY <1>0, <1>1, <1>3, <2>1 DEF Moves, q
<1>8. a < Len(t) => Moves(q, t[a + 1], L[a + 1], st2, fl)
  <2> SUFFICES ASSUME a < Len(t) PROVE Moves(q, t[a + 1], L[a + 1], st2, fl)
    OBVIOUS
  <2>1. a + 1 \in 1 .. Len(t) /\ (a + 1) - 1 = a
    BY <1>0
  <2>2. Moves(L[a], t[a + 1], L[a + 1], st, fl) /\ t[a + 1].is \in {"head", "stage"}
    <3>1. Moves(L[(a + 1) - 1], t[a + 1], L[a + 1], st, fl)
      BY <1>0, <2>1 DEF Parsed
    <3> QED
      BY <1>0, <2>1, <3>1
  <2> QED
    BY <1>3, <1>4, <1>6, <2>2 DEF Moves
<1>9. ASSUME NEW j \in 1 .. Len(t) PROVE ~Alike(l, q, t[j], L[j])
  <2> SUFFICES ASSUME t[j].is = "stage", t[j].what = s PROVE FALSE
    BY <1>1 DEF Alike
  <2>1. Moves(L[j - 1], t[j], L[j], st, fl)
    BY <1>0 DEF Parsed
  <2> QED
    BY <2>1 DEF Moves
<1>10. PICK M : Means(Put(t, a + 1, a + 1, <<l>>), M, st2, fl) /\ M[a + 1] = q
  <2>1. a = Len(t) => Whole(q, st2, fl)
    BY <1>6
  <2>2. Marked(l) => \A j \in 1 .. Len(t) : ~Alike(l, q, t[j], L[j])
    BY <1>9
  <2>3. ASSUME NEW r \in DOMAIN st2
        PROVE  r \in DOMAIN st \/ (l.is = "stage" /\ l.what = r /\ q.stage = {r})
    BY <1>1, <1>3, <1>4
  <2>4. ASSUME NEW r \in DOMAIN st2, NEW f \in Field, st2[r][f] # Absent
        PROVE  r \in DOMAIN st /\ st[r][f] # Absent
    BY <1>2, <1>3, <2>4
  <2> QED
    BY <1>0, <1>1, <1>3, <1>5, <1>6, <1>7, <1>8, <2>1, <2>2, <2>3, <2>4, LineAdded
<1>11. Room(Put(t, a + 1, a + 1, <<l>>), M, a + 1, s, st2, fl)
  <2> DEFINE W == <<l>>
             r == Put(t, a + 1, a + 1, W)
  <2>1. W \in Seq(TextLine) /\ Len(W) = 1
    BY <1>1
  <2> HIDE DEF W
  <2>2. /\ r \in Seq(TextLine) /\ Len(r) = Len(t) + Len(W)
        /\ \A i \in a + 1 .. Len(t) : r[i + Len(W)] = t[i]
    <3>1. PutIn(t, a, W)
      BY <1>0, <2>1, PutHere
    <3> QED
      BY <3>1 DEF PutIn
  <2> HIDE DEF r
  <2>4. Len(r) = Len(t) + 1 /\ a + 1 \in 0 .. Len(r)
    BY <1>0, <2>1, <2>2
  <2>5. a + 1 < Len(r) => r[(a + 1) + 1] = t[a + 1] /\ a < Len(t)
    BY <1>0, <2>1, <2>2, <2>4
  <2>6. Room(r, M, a + 1, s, st2, fl)
    BY <1>0, <1>4, <1>6, <1>10, <2>4, <2>5 DEF Room, Amid
  <2> QED
    BY <2>6 DEF r, W
<1> QED
  BY <1>10, <1>11 DEF l, st2

(* A value of a field that a Stage does not have, behind its last line. *)
LEMMA NobodyHas ==
  ASSUME NEW st, NEW fl, NEW p, Placed(p, st, fl), NEW s \in DOMAIN st, NEW f \in Field, st[s][f] = Absent
  PROVE  ~(p.at = "value" /\ p.field = f /\ p.stage = {s})
<1> SUFFICES ASSUME p.at = "value", p.field = f, p.stage = {s} PROVE FALSE
  OBVIOUS
<1>1. PICK r \in DOMAIN st, g \in Field, n \in Nat : st[r][g] # Absent /\ p = InValue(r, g, n)
  BY StageSpots
<1>2. p.field = g /\ p.stage = {r}
  BY <1>1, SpotsAre
<1>3. r = s
  BY <1>2
<1> QED
  BY <1>1, <1>2, <1>3

LEMMA FieldAdded ==
  ASSUME NEW t, NEW L, NEW st, NEW fl, Means(t, L, st, fl), NEW s \in DOMAIN st, NEW f \in Field,
         st[s][f] = Absent, NEW v \in Whatever, NEW remark \in Remark, NEW a, Room(t, L, a, s, st, fl)
  PROVE  \E M : /\ Means(Put(t, a + 1, a + 1, Remarked(f, v, remark)), M, [st EXCEPT ![s][f] = v], fl)
                /\ Room(Put(t, a + 1, a + 1, Remarked(f, v, remark)), M, a + Len(Remarked(f, v, remark)), s,
                        [st EXCEPT ![s][f] = v], fl)
<1> DEFINE W == Remarked(f, v, remark)
           st2 == [st EXCEPT ![s][f] = v]
           r == Put(t, a + 1, a + 1, W)
<1>0. /\ t \in Seq(TextLine) /\ Len(t) \in Nat /\ Parsed(t, L, st, fl) /\ a \in Nat /\ a <= Len(t) /\ a \in 0 .. Len(t)
      /\ \A i \in 0 .. Len(t) : Placed(L[i], st, fl)
      /\ Amid(L[a], s, st, fl) /\ L[a].stage = {s}
      /\ a < Len(t) => t[a + 1].is \in {"head", "stage"}
  BY DEF Means, Parsed, Room, Amid
<1>1. PICK M : Means(r, M, st2, fl) /\ Amid(M[a + Len(W)], s, st2, fl)
  <2> DEFINE b == a
  <2>1. b \in a .. Len(t) /\ L[b].stage = {s} /\ (b < Len(t) => t[b + 1].is \in {"field", "stage", "head", "blank", "note"})
    BY <1>0
  <2>2. \A i \in a + 1 .. b : Marked(t[i]) => t[i].is = "field" /\ t[i].what = f /\ L[i].stage = {s}
    BY <1>0
  <2>3. \A i \in 0 .. Len(t) : i <= a \/ i > b => ~(L[i].at = "value" /\ L[i].field = f /\ L[i].stage = {s})
    BY <1>0, NobodyHas
  <2>5. b = a
    OBVIOUS
  <2> HIDE DEF b
  <2>4. Rewritten(t, a, b, st, fl, s, f, v, remark)
    BY <1>0, <2>1, <2>2, <2>3, ValuePatched
  <2> QED
    BY <2>4, <2>5 DEF Rewritten
<1>2. W \in Seq(TextLine)
  <2>1. CASE v = Absent
    BY <2>1 DEF Remarked
  <2>2. CASE v # Absent
    BY <2>2, RemarkedIs
  <2> QED
    BY <2>1, <2>2
<1> HIDE DEF W, st2
<1>3. Room(r, M, a + Len(W), s, st2, fl)
  <2>2. /\ r \in Seq(TextLine) /\ Len(r) = Len(t) + Len(W)
        /\ \A i \in a + 1 .. Len(t) : r[i + Len(W)] = t[i]
    <3>1. PutIn(t, a, W)
      BY <1>0, <1>2, PutHere
    <3> QED
      BY <3>1 DEF PutIn
  <2> HIDE DEF r
  <2>0. Len(W) \in Nat
    BY <1>2
  <2>4. a + Len(W) \in 0 .. Len(r)
    BY <1>0, <2>0, <2>2
  <2>5. a + Len(W) < Len(r) => r[(a + Len(W)) + 1] = t[a + 1] /\ a < Len(t)
    <3> SUFFICES ASSUME a + Len(W) < Len(r) PROVE r[(a + Len(W)) + 1] = t[a + 1] /\ a < Len(t)
      OBVIOUS
    <3>1. a + 1 \in a + 1 .. Len(t) /\ (a + 1) + Len(W) = (a + Len(W)) + 1 /\ a < Len(t)
      BY <1>0, <2>0, <2>2
    <3> QED
      BY <2>2, <3>1
  <2> QED
    BY <1>0, <1>1, <2>4, <2>5 DEF Room
<1> QED
  BY <1>1, <1>3 DEF W, st2

(* The first lines of a Stage, put in behind line a, mean it with some of its fields. *)
Grown(t, a, P, s, st, fl, c) ==
  \E M : /\ Means(Put(t, a + 1, a + 1, P), M, Joined(st, s, c), fl)
         /\ Room(Put(t, a + 1, a + 1, P), M, a + Len(P), s, Joined(st, s, c), fl)

LEMMA FieldGrown ==
  ASSUME NEW t \in Seq(TextLine), NEW a \in 0 .. Len(t), NEW st, NEW fl, MeantTyped(st, fl),
         NEW s \in StageName \ DOMAIN st, NEW c \in [Field -> Whatever], NEW P \in Seq(TextLine),
         Grown(t, a, P, s, st, fl, c), NEW f \in Field, c[f] = Absent, NEW v \in Whatever, NEW remark \in Remark
  PROVE  /\ P \o Remarked(f, v, remark) \in Seq(TextLine) /\ [c EXCEPT ![f] = v] \in [Field -> Whatever]
         /\ Grown(t, a, P \o Remarked(f, v, remark), s, st, fl, [c EXCEPT ![f] = v])
<1> DEFINE W == Remarked(f, v, remark)
           st2 == Joined(st, s, c)
           c3 == [c EXCEPT ![f] = v]
           r == Put(t, a + 1, a + 1, P)
           b == a + Len(P)
<1>1. PICK M : Means(r, M, st2, fl) /\ Room(r, M, b, s, st2, fl)
  BY DEF Grown
<1>2. /\ DOMAIN st2 = DOMAIN st \cup {s} /\ MeantTyped(st2, fl) /\ st2[s] = c
      /\ \A q \in DOMAIN st : q # s /\ st2[q] = st[q]
  <2>1. IsJoined(st2, st, fl, s, c)
    BY JoinedIs
  <2> QED
    BY <2>1 DEF IsJoined
<1>3. s \in DOMAIN st2 /\ st2[s][f] = Absent
  BY <1>2
<1>4. c3 \in [Field -> Whatever]
  OBVIOUS
<1>5. [st2 EXCEPT ![s][f] = v] = Joined(st, s, c3)
  BY DEF Joined
<1>6. W \in Seq(TextLine)
  <2>1. CASE v = Absent
    BY <2>1 DEF Remarked
  <2>2. CASE v # Absent
    BY <2>2, RemarkedIs
  <2> QED
    BY <2>1, <2>2
<1> HIDE DEF W, st2, r, b, c3
<1>7. PICK N : /\ Means(Put(r, b + 1, b + 1, W), N, Joined(st, s, c3), fl)
               /\ Room(Put(r, b + 1, b + 1, W), N, b + Len(W), s, Joined(st, s, c3), fl)
  <2>1. \E N : /\ Means(Put(r, b + 1, b + 1, Remarked(f, v, remark)), N, [st2 EXCEPT ![s][f] = v], fl)
               /\ Room(Put(r, b + 1, b + 1, Remarked(f, v, remark)), N, b + Len(Remarked(f, v, remark)), s,
                        [st2 EXCEPT ![s][f] = v], fl)
    BY <1>1, <1>3, FieldAdded
  <2> QED
    BY <1>5, <2>1 DEF W
<1>8. Put(r, b + 1, b + 1, W) = Put(t, a + 1, a + 1, P \o W)
  <2>1. b = a + Len(P)
    BY DEF b
  <2>2. OnPut(t, a, P, b, W)
    BY <1>6, <2>1, PutOn
  <2> QED
    BY <2>2 DEF r, OnPut
<1>9. b + Len(W) = a + Len(P \o W) /\ P \o W \in Seq(TextLine)
  <2>1. P \o W \in Seq(TextLine) /\ Len(P \o W) = Len(P) + Len(W)
    BY <1>6, ConcatProperties
  <2>2. a \in Nat /\ Len(P) \in Nat /\ Len(W) \in Nat
    BY <1>6
  <2> QED
    BY <2>1, <2>2 DEF b
<1>10. Grown(t, a, P \o W, s, st, fl, c3)
  BY <1>7, <1>8, <1>9 DEF Grown
<1> QED
  BY <1>4, <1>9, <1>10 DEF W, c3

(* A Stage put in where one may begin, its fields in whatever order. *)
LEMMA StageGrown ==
  ASSUME NEW t, NEW L, NEW st, NEW fl, Means(t, L, st, fl), NEW a, Opens(t, L, a, st, fl),
         NEW s \in StageName \ DOMAIN st, NEW config \in [Field -> Whatever],
         NEW fields \in {FieldOrder, Reverse(FieldOrder)}, NEW remarks \in [Field -> Remark]
  PROVE  /\ StageLines(s, config, fields, remarks) \in Seq(TextLine)
         /\ Grown(t, a, StageLines(s, config, fields, remarks), s, st, fl, config)
<1> DEFINE Of(i) == Remarked(fields[i], config[fields[i]], remarks[fields[i]])
           P0 == <<Line("stage", s)>>
           P1 == P0 \o Of(1)
           P2 == P1 \o Of(2)
           P3 == P2 \o Of(3)
           P4 == P3 \o Of(4)
           c1 == [Bare EXCEPT ![fields[1]] = config[fields[1]]]
           c2 == [c1 EXCEPT ![fields[2]] = config[fields[2]]]
           c3 == [c2 EXCEPT ![fields[3]] = config[fields[3]]]
           c4 == [c3 EXCEPT ![fields[4]] = config[fields[4]]]
<1>0. t \in Seq(TextLine) /\ a \in 0 .. Len(t) /\ MeantTyped(st, fl)
  BY DEF Means, Parsed, Opens
<1>1. /\ fields[1] \in Field /\ fields[2] \in Field /\ fields[3] \in Field /\ fields[4] \in Field
      /\ fields[1] # fields[2] /\ fields[1] # fields[3] /\ fields[1] # fields[4]
      /\ fields[2] # fields[3] /\ fields[2] # fields[4] /\ fields[3] # fields[4]
      /\ \A f \in Field : f = fields[1] \/ f = fields[2] \/ f = fields[3] \/ f = fields[4]
  <2>1. CASE fields = FieldOrder
    BY <2>1 DEF FieldOrder, Field
  <2>2. CASE fields = Reverse(FieldOrder)
    <3>1. /\ Reverse(FieldOrder)[1] = "routes" /\ Reverse(FieldOrder)[2] = "option"
          /\ Reverse(FieldOrder)[3] = "prompt" /\ Reverse(FieldOrder)[4] = "type"
      BY DEF FieldOrder, Reverse
    <3> QED
      BY <2>2, <3>1 DEF Field
  <2> QED
    BY <2>1, <2>2
<1>2. Bare \in [Field -> Whatever] /\ \A f \in Field : Bare[f] = Absent
  BY DEF Bare, Whatever
<1>3. P0 \in Seq(TextLine) /\ Len(P0) = 1
  <2>1. Line("stage", s) \in TextLine
    BY DEF Line, TextLine
  <2> QED
    BY <2>1
<1>4. Grown(t, a, P0, s, st, fl, Bare)
  BY <1>3, StageAdded DEF Grown
<1>5. StageLines(s, config, fields, remarks) = P4
  BY DEF StageLines
<1> HIDE DEF P0
<1>6. P1 \in Seq(TextLine) /\ c1 \in [Field -> Whatever] /\ Grown(t, a, P1, s, st, fl, c1)
  BY <1>0, <1>1, <1>2, <1>3, <1>4, FieldGrown
<1>7. \A f \in Field : c1[f] = IF f = fields[1] THEN config[f] ELSE Absent
  BY <1>1, <1>2
<1> HIDE DEF P1, c1
<1>8. P2 \in Seq(TextLine) /\ c2 \in [Field -> Whatever] /\ Grown(t, a, P2, s, st, fl, c2)
  <2>1. c1[fields[2]] = Absent
    BY <1>1, <1>7
  <2> QED
    BY <1>0, <1>1, <1>6, <2>1, FieldGrown
<1>9. \A f \in Field : c2[f] = IF f \in {fields[1], fields[2]} THEN config[f] ELSE Absent
  BY <1>1, <1>6, <1>7
<1> HIDE DEF P2, c2
<1>10. P3 \in Seq(TextLine) /\ c3 \in [Field -> Whatever] /\ Grown(t, a, P3, s, st, fl, c3)
  <2>1. c2[fields[3]] = Absent
    BY <1>1, <1>9
  <2> QED
    BY <1>0, <1>1, <1>8, <2>1, FieldGrown
<1>11. \A f \in Field : c3[f] = IF f \in {fields[1], fields[2], fields[3]} THEN config[f] ELSE Absent
  BY <1>1, <1>8, <1>9
<1> HIDE DEF P3, c3
<1>12. P4 \in Seq(TextLine) /\ c4 \in [Field -> Whatever] /\ Grown(t, a, P4, s, st, fl, c4)
  <2>1. c3[fields[4]] = Absent
    BY <1>1, <1>11
  <2> QED
    BY <1>0, <1>1, <1>10, <2>1, FieldGrown
<1>13. c4 = config
  BY <1>1, <1>10, <1>11, <1>12
<1> QED
  BY <1>5, <1>12, <1>13

(* Where a Stage may be put in: behind the last line of the Stages. *)
LEMMA StagesEnd ==
  ASSUME NEW t, NEW L, NEW st, NEW fl, Means(t, L, st, fl), NEW last,
         last = First(t, At(t, "head", "stages") + 1, {"head"})
  PROVE  last \in 2 .. Len(t) + 1 /\ Opens(t, L, last - 1, st, fl)
<1> DEFINE k == At(t, "head", "stages")
<1>0. t \in Seq(TextLine) /\ Len(t) \in Nat /\ Parsed(t, L, st, fl) /\ Shown(t, L, "head", "stages", {})
  BY DEF Means, Parsed, AllShown
<1>1. k \in 1 .. Len(t) /\ t[k].is = "head" /\ t[k].what = "stages"
  BY <1>0, AtShown
<1>2. last = First(t, k + 1, {"head"})
  OBVIOUS
<1> HIDE DEF k
<1>3. /\ last \in k + 1 .. Len(t) + 1 /\ \A i \in k + 1 .. last - 1 : t[i].is \notin {"head"}
      /\ last <= Len(t) => t[last].is \in {"head"}
  <2>1. k + 1 \in 1 .. Len(t) + 1
    BY <1>0, <1>1
  <2> QED
    BY <1>0, <1>2, <2>1, FirstLineIs
<1> DEFINE e == last - 1
<1>4. e \in k .. Len(t) /\ e \in 0 .. Len(t) /\ e + 1 = last /\ last \in 2 .. Len(t) + 1
  BY <1>0, <1>1, <1>3
<1> HIDE DEF e
<1>5. L[e].at \in {"stages", "stage", "value"}
  <2>1. \A j \in k + 1 .. e : t[j].is # "head"
    BY <1>0, <1>1, <1>3, <1>4
  <2> QED
    BY <1>0, <1>1, <1>4, <2>1, FromHead
<1>6. Whole(L[e], st, fl)
  <2>1. CASE e = Len(t)
    BY <1>0, <2>1 DEF Parsed
  <2>2. CASE e # Len(t)
    <3>1. last \in 1 .. Len(t) /\ last - 1 = e /\ t[last].is \in {"head"}
      BY <1>0, <1>3, <1>4, <2>2
    <3>2. Moves(L[e], t[last], L[last], st, fl)
      BY <1>0, <3>1 DEF Parsed
    <3> QED
      BY <3>1, <3>2, StepValue
  <2> QED
    BY <2>1, <2>2
<1>7. e < Len(t) => t[e + 1].is \in {"head", "stage"}
  BY <1>0, <1>3, <1>4
<1> QED
  BY <1>4, <1>5, <1>6, <1>7 DEF Opens, e

LEMMA StageInserted ==
  ASSUME NEW t, NEW L, NEW st, NEW fl, Means(t, L, st, fl), NEW s \in StageName \ DOMAIN st,
         NEW config \in [Field -> Whatever]
  PROVE  \E M : Means(InsertStage(t, s, config), M, Joined(st, s, config), fl)
<1> DEFINE last == First(t, At(t, "head", "stages") + 1, {"head"})
           new == StageLines(s, config, FieldOrder, NoRemarks)
<1>1. last \in 2 .. Len(t) + 1 /\ Opens(t, L, last - 1, st, fl)
  BY StagesEnd
<1>2. NoRemarks \in [Field -> Remark] /\ FieldOrder \in {FieldOrder, Reverse(FieldOrder)}
  BY DEF NoRemarks, Remark
<1>3. InsertStage(t, s, config) =
        Put(t, last, last, (IF t[last - 1].is = "blank" THEN <<>> ELSE <<Aside("blank")>>) \o new)
  BY DEF InsertStage
<1> DEFINE a == last - 1
<1> HIDE DEF last
<1>4. a + 1 = last /\ a \in 0 .. Len(t) /\ t \in Seq(TextLine) /\ Opens(t, L, a, st, fl)
  BY <1>1 DEF Means, Parsed
<1> HIDE DEF a
<1>5. CASE t[last - 1].is = "blank"
  <2>1. new \in Seq(TextLine) /\ Grown(t, a, new, s, st, fl, config)
    BY <1>2, <1>4, StageGrown
  <2>2. <<>> \o new = new
    BY <2>1
  <2>3. InsertStage(t, s, config) = Put(t, a + 1, a + 1, new)
    BY <1>3, <1>4, <1>5, <2>2
  <2> QED
    BY <2>1, <2>3 DEF Grown
<1>6. CASE t[last - 1].is # "blank"
  <2> DEFINE gap == <<Aside("blank")>>
             u == Put(t, a + 1, a + 1, gap)
  <2>1. PICK M : Means(u, M, st, fl) /\ Opens(u, M, a + 1, st, fl)
    BY <1>4, AsideAdded
  <2>2. gap \in Seq(TextLine) /\ Len(gap) = 1
    <3>1. Aside("blank") \in TextLine
      BY DEF Aside, Line, TextLine
    <3> QED
      BY <3>1
  <2> DEFINE b == a + 1
  <2>6. b = a + Len(gap)
    BY <2>2
  <2> HIDE DEF gap
  <2>3. u = Put(t, a + 1, a + 1, gap) /\ Means(u, M, st, fl) /\ Opens(u, M, b, st, fl)
    BY <2>1
  <2> HIDE DEF u, b
  <2>4. new \in Seq(TextLine) /\ Grown(u, b, new, s, st, fl, config)
    BY <1>2, <2>3, StageGrown
  <2>5. Put(u, b + 1, b + 1, new) = Put(t, a + 1, a + 1, gap \o new)
    <3>1. OnPut(t, a, gap, b, new)
      BY <1>4, <2>2, <2>4, <2>6, PutOn
    <3> QED
      BY <2>3, <3>1 DEF OnPut
  <2>7. InsertStage(t, s, config) = Put(u, b + 1, b + 1, new)
    BY <1>3, <1>4, <1>6, <2>5 DEF gap
  <2> QED
    BY <2>4, <2>7 DEF Grown
<1> QED
  BY <1>5, <1>6

(* A field written where it was, or at the end of its Stage. *)
LEMMA FieldPatched ==
  ASSUME NEW t, NEW L, NEW st, NEW fl, Means(t, L, st, fl), NEW s \in DOMAIN st, NEW f \in Field, NEW v \in Whatever
  PROVE  \E M : Means(PatchField(t, s, f, v), M, [st EXCEPT ![s][f] = v], fl)
<1> DEFINE k == StageStart(t, s)
           e == StageEnd(t, s)
           own == {i \in k + 1 .. e - 1 : t[i].is = "field" /\ t[i].what = f}
<1>0. /\ t \in Seq(TextLine) /\ Len(t) \in Nat /\ Parsed(t, L, st, fl) /\ MarkedOnce(t, L)
  BY DEF Means, Parsed
<1>1. /\ k \in 1 .. Len(t) /\ e \in k + 1 .. Len(t) + 1
      /\ t[k].is = "stage" /\ t[k].what = s
      /\ \A i \in k .. e - 1 : L[i].stage = {s} /\ L[i].at \in {"stage", "value"}
      /\ \A i \in k + 1 .. e - 1 : t[i].is \notin {"stage", "head"}
      /\ e <= Len(t) => t[e].is \in {"stage", "head"}
      /\ Whole(L[e - 1], st, fl)
      /\ \A i \in 0 .. Len(t) : L[i].stage = {s} => i \in k .. e - 1
  <2>1. Bounded(t, L, s, k, e, st, fl)
    BY StageBounds
  <2> QED
    BY <2>1 DEF Bounded
<1>2. PatchField(t, s, f, v) =
        IF own = {} THEN Put(t, e, e, Written(f, v)) ELSE Put(t, Min(own), ValueEnd(t, Min(own), e), Written(f, v))
  BY DEF PatchField
<1>3. Written(f, v) = Remarked(f, v, <<>>) /\ <<>> \in Remark
  BY DEF Written, Remark
<1> HIDE DEF k, e
(* A value of the field that the Stage has begins at a line of it. *)
<1>4. ASSUME NEW i \in 0 .. Len(t), L[i].at = "value", L[i].field = f, L[i].stage = {s}
      PROVE  \E m \in own : /\ m <= i /\ L[m].stage = {s} /\ m \in 1 .. Len(t)
                            /\ \A j \in m + 1 .. i : t[j].is \in {"more", "deep"}
  <2>1. BehindField(t, L, i)
    BY <1>0, <1>4, ValueOwner
  <2>2. PICK m \in 1 .. i : /\ t[m].is = "field" /\ t[m].what = L[i].field /\ L[m].stage = L[i].stage
                            /\ \A j \in m + 1 .. i : t[j].is \in {"more", "deep"}
    BY <2>1 DEF BehindField
  <2>3. m \in 0 .. Len(t) /\ m \in 1 .. Len(t) /\ m <= i
    BY <1>0
  <2>4. m \in k .. e - 1
    BY <1>1, <1>4, <2>2, <2>3
  <2>5. m # k
    BY <1>1, <2>2
  <2>6. m \in k + 1 .. e - 1
    BY <1>0, <1>1, <2>4, <2>5
  <2> QED
    BY <1>4, <2>2, <2>3, <2>6
<1>5. CASE own = {}
  <2> DEFINE a == e - 1
             b == a
  <2>1. a \in 0 .. Len(t) /\ b \in a .. Len(t) /\ a + 1 = e /\ a \in k .. e - 1 /\ b + 1 = e
    BY <1>0, <1>1
  <2>7. a = e - 1 /\ b = a
    OBVIOUS
  <2> HIDE DEF a, b
  <2>2. Amid(L[a], s, st, fl) /\ L[b].stage = {s}
    BY <1>1, <2>1, <2>7 DEF Amid
  <2>3. b < Len(t) => t[b + 1].is \in {"field", "stage", "head", "blank", "note"}
    BY <1>0, <1>1, <2>1
  <2>4. \A i \in a + 1 .. b : Marked(t[i]) => t[i].is = "field" /\ t[i].what = f /\ L[i].stage = {s}
    BY <1>0, <2>1, <2>7
  <2>5. \A i \in 0 .. Len(t) : i <= a \/ i > b => ~(L[i].at = "value" /\ L[i].field = f /\ L[i].stage = {s})
    <3> HIDE DEF own
    <3> QED
      BY <1>4, <1>5
  <2>6. Rewritten(t, a, b, st, fl, s, f, v, <<>>)
    <3>1. a \in 0 .. Len(t) /\ b \in a .. Len(t)
      BY <2>1
    <3> QED
      BY <1>3, <2>2, <2>3, <2>4, <2>5, <3>1, ValuePatched
  <2> QED
    BY <1>2, <1>3, <1>5, <2>1, <2>6 DEF Rewritten
<1>6. CASE own # {}
  <2> DEFINE m == Min(own)
             x == First(t, m + 1, {"field", "note", "blank"})
             w == ValueEnd(t, m, e)
  <2>1. m \in own /\ \A i \in own : m <= i
    <3>1. own \in SUBSET Nat
      BY <1>0, <1>1
    <3> HIDE DEF own
    <3> QED
      BY <1>6, <3>1, MinIs
  <2>2. m \in k + 1 .. e - 1 /\ m \in 1 .. Len(t) /\ t[m].is = "field" /\ t[m].what = f
    BY <1>0, <1>1, <2>1
  <2>3. w = Min({x, e})
    BY DEF ValueEnd
  <2> HIDE DEF own, m
  <2>4. /\ x \in m + 1 .. Len(t) + 1
        /\ \A j \in m + 1 .. x - 1 : t[j].is \notin {"field", "note", "blank"}
        /\ x <= Len(t) => t[x].is \in {"field", "note", "blank"}
    <3>1. m + 1 \in 1 .. Len(t) + 1
      BY <1>0, <2>2
    <3> QED
      BY <1>0, <3>1, FirstLineIs
  <2> HIDE DEF x, w
  <2>5. w \in {x, e} /\ w <= x /\ w <= e
    <3>1. {x, e} \in SUBSET Nat /\ {x, e} # {}
      BY <1>0, <1>1, <2>2, <2>4
    <3> QED
      BY <2>3, <3>1, MinIs
  <2>6. w \in m + 1 .. e /\ w <= Len(t) + 1
    BY <1>0, <1>1, <2>2, <2>4, <2>5
  <2>7. w <= Len(t) => t[w].is \in {"field", "note", "blank", "stage", "head"}
    BY <1>1, <2>4, <2>5
  <2> DEFINE a == m - 1
             b == w - 1
  <2>8. /\ a \in 0 .. Len(t) /\ b \in a .. Len(t) /\ a + 1 = m /\ b + 1 = w /\ a \in k .. e - 1 /\ b \in k .. e - 1
        /\ a = m - 1 /\ b = w - 1
    BY <1>0, <1>1, <2>2, <2>6
  <2> HIDE DEF a, b
  <2>9. Amid(L[a], s, st, fl) /\ L[b].stage = {s}
    <3>1. Moves(L[a], t[m], L[m], st, fl)
      BY <1>0, <2>2, <2>8 DEF Parsed
    <3>2. Whole(L[a], st, fl)
      BY <2>2, <3>1, StepValue
    <3> QED
      BY <1>1, <2>8, <3>2 DEF Amid
  <2>10. b < Len(t) => t[b + 1].is \in {"field", "stage", "head", "blank", "note"}
    BY <1>0, <2>6, <2>7, <2>8
  <2>11. ASSUME NEW i \in a + 1 .. b, Marked(t[i]) PROVE t[i].is = "field" /\ t[i].what = f /\ L[i].stage = {s}
    <3>1. i \in m .. w - 1 /\ i \in k .. e - 1
      BY <1>0, <1>1, <2>2, <2>6, <2>8
    <3>2. CASE i = m
      BY <1>1, <2>2, <3>1, <3>2
    <3>3. CASE i # m
      <4>1. i \in m + 1 .. x - 1 /\ i \in k + 1 .. e - 1
        BY <1>0, <1>1, <2>2, <2>4, <2>5, <2>6, <3>1, <3>3
      <4> QED
        BY <1>1, <2>4, <2>11, <4>1 DEF Marked
    <3> QED
      BY <3>2, <3>3
  <2>12. ASSUME NEW i \in 0 .. Len(t), i <= a \/ i > b, L[i].at = "value" /\ L[i].field = f /\ L[i].stage = {s}
         PROVE  FALSE
    <3>1. PICK n \in own : /\ n <= i /\ L[n].stage = {s} /\ n \in 1 .. Len(t)
                           /\ \A j \in n + 1 .. i : t[j].is \in {"more", "deep"}
      BY <1>4, <2>12
    <3>2. n = m
      <4>1. t[n].is = "field" /\ t[n].what = f
        BY DEF own
      <4>2. L[m].stage = {s}
        <5>1. m \in k .. e - 1
          BY <1>0, <1>1, <2>2
        <5> QED
          BY <1>1, <5>1
      <4>3. Marked(t[n]) /\ Alike(t[n], L[n], t[m], L[m])
        BY <2>2, <3>1, <4>1, <4>2 DEF Marked, Alike
      <4> QED
        BY <1>0, <2>2, <3>1, <4>3 DEF MarkedOnce
    <3>3. i > b
      BY <1>0, <2>2, <2>8, <2>12, <3>1, <3>2
    <3>4. w \in n + 1 .. i /\ w <= Len(t)
      BY <1>0, <2>2, <2>6, <2>8, <3>2, <3>3
    <3> QED
      BY <2>7, <3>1, <3>4
  <2>13. Rewritten(t, a, b, st, fl, s, f, v, <<>>)
    <3>1. \A i \in a + 1 .. b : Marked(t[i]) => t[i].is = "field" /\ t[i].what = f /\ L[i].stage = {s}
      BY <2>11
    <3>2. \A i \in 0 .. Len(t) : i <= a \/ i > b => ~(L[i].at = "value" /\ L[i].field = f /\ L[i].stage = {s})
      BY <2>12
    <3> QED
      BY <1>3, <2>8, <2>9, <2>10, <3>1, <3>2, ValuePatched
  <2> QED
    BY <1>2, <1>3, <1>6, <2>8, <2>13 DEF Rewritten, m, w
<1> QED
  BY <1>5, <1>6

(* A Stage that goes takes its lines with it and nothing else. *)
Without(st, s) == [r \in DOMAIN st \ {s} |-> st[r]]
LEMMA StageRemoved ==
  ASSUME NEW t, NEW L, NEW st, NEW fl, Means(t, L, st, fl), NEW s \in DOMAIN st
  PROVE  \E M : Means(RemoveStage(t, s), M, Without(st, s), fl)
<1> DEFINE k == StageStart(t, s)
           e == StageEnd(t, s)
           st2 == Without(st, s)
<1>0. /\ t \in Seq(TextLine) /\ Len(t) \in Nat /\ Parsed(t, L, st, fl) /\ MarkedOnce(t, L) /\ MeantTyped(st, fl)
      /\ \A i \in 0 .. Len(t) : Placed(L[i], st, fl)
  BY DEF Means, Parsed
<1>1. /\ k \in 1 .. Len(t) /\ e \in k + 1 .. Len(t) + 1
      /\ t[k].is = "stage" /\ t[k].what = s
      /\ \A i \in k .. e - 1 : L[i].stage = {s} /\ L[i].at \in {"stage", "value"}
      /\ \A i \in k + 1 .. e - 1 : t[i].is \notin {"stage", "head"}
      /\ e <= Len(t) => t[e].is \in {"stage", "head"}
      /\ Whole(L[e - 1], st, fl)
      /\ \A i \in 0 .. Len(t) : L[i].stage = {s} => i \in k .. e - 1
  <2>1. Bounded(t, L, s, k, e, st, fl)
    BY StageBounds
  <2> QED
    BY <2>1 DEF Bounded
<1>2. RemoveStage(t, s) = Put(t, k, e, <<>>)
  BY DEF RemoveStage
<1>3. DOMAIN st2 = DOMAIN st \ {s} /\ \A r \in DOMAIN st \ {s} : st2[r] = st[r]
  BY DEF Without
<1>4. MeantTyped(st2, fl)
  <2>1. st2 \in [DOMAIN st \ {s} -> [Field -> Whatever]]
    BY <1>0 DEF MeantTyped, Without
  <2> HIDE DEF st2
  <2> QED
    BY <1>0, <1>3, <2>1 DEF MeantTyped
<1> HIDE DEF k, e, st2
<1> DEFINE a == k - 1
           b == e - 1
           K == [i \in 0 .. 0 |-> L[a]]
           W == <<>>
<1>5. /\ a \in 0 .. Len(t) /\ b \in a .. Len(t) /\ a + 1 = k /\ b + 1 = e /\ a \in Nat /\ b \in Nat /\ a < b
      /\ ~(a \in k .. e - 1)
  BY <1>0, <1>1
<1>6. K[0] = L[a] /\ W \in Seq(TextLine) /\ Len(W) = 0
  OBVIOUS
<1> HIDE DEF a, b, K, W
<1>7. ASSUME NEW i \in 0 .. Len(t), i <= a \/ i > b PROVE Agree(L[i], st, fl, st2, fl)
  <2>1. L[i].stage # {s}
    <3>1. ~(i \in k .. e - 1)
      BY <1>0, <1>1, <1>5, <1>7
    <3> QED
      BY <1>1, <3>1
  <2> QED
    BY <1>3, <2>1 DEF Agree
<1>8. Moves(L[a], t[k], L[k], st, fl)
  BY <1>0, <1>1, <1>5 DEF Parsed
<1>9. Placed(L[a], st2, fl) /\ Whole(L[a], st2, fl) /\ L[a].at \in {"stages", "stage", "value"}
  <2>1. Whole(L[a], st, fl) /\ L[a].at \in {"stages", "stage", "value"}
    BY <1>1, <1>8 DEF Moves
  <2>2. Agree(L[a], st, fl, st2, fl)
    BY <1>0, <1>5, <1>7
  <2> QED
    BY <1>0, <1>5, <2>1, <2>2, PlacedStill, WholeStill
<1>10. b < Len(t) => Moves(L[a], t[b + 1], L[b + 1], st2, fl)
  <2> SUFFICES ASSUME b < Len(t) PROVE Moves(L[a], t[e], L[e], st2, fl)
    BY <1>5
  <2>1. e \in 1 .. Len(t) /\ e \in 0 .. Len(t) /\ t[e].is \in {"stage", "head"}
    BY <1>0, <1>1, <1>5
  <2>2. Moves(L[e - 1], t[e], L[e], st, fl)
    BY <1>0, <2>1 DEF Parsed
  <2>3. ~(e \in k .. e - 1)
    BY <1>0, <1>1
  <2>4. L[e].stage # {s}
    BY <1>1, <2>1, <2>3
  <2>5. CASE t[e].is = "stage"
    <3>1. t[e].what \in DOMAIN st /\ L[e] = InStage(t[e].what)
      BY <2>2, <2>5 DEF Moves
    <3>2. t[e].what \in DOMAIN st2
      BY <1>3, <2>4, <3>1, SpotsAre
    <3> QED
      BY <1>9, <2>5, <3>1, <3>2 DEF Moves
  <2>6. CASE t[e].is = "head"
    BY <1>9, <2>2, <2>6 DEF Moves
  <2> QED
    BY <2>1, <2>5, <2>6
<1>11. ASSUME NEW is \in {"head", "stage", "field"}, NEW what, NEW stage, Shown(t, L, is, what, stage)
       PROVE  \/ Shown(W, K, is, what, stage)
              \/ \E j \in Kept(a, b, Len(t)) : t[j].is = is /\ t[j].what = what /\ L[j].stage = stage
              \/ is = "stage" /\ what \notin DOMAIN st2
              \/ is = "field" /\ \A r \in DOMAIN st2 : stage = {r} => st2[r][what] = Absent
  <2>1. PICK i \in 1 .. Len(t) : t[i].is = is /\ t[i].what = what /\ L[i].stage = stage
    BY <1>11 DEF Shown
  <2>2. CASE i \in Kept(a, b, Len(t))
    BY <2>1, <2>2
  <2>3. CASE i \notin Kept(a, b, Len(t))
    <3>1. i \in k .. e - 1
      BY <1>0, <1>5, <2>3 DEF Kept
    <3>2. CASE i = k
      BY <1>1, <1>3, <2>1, <3>2
    <3>3. CASE i # k
      <4>1. i \in k + 1 .. e - 1
        BY <1>0, <1>1, <3>1, <3>3
      <4>2. is = "field"
        BY <1>1, <2>1, <4>1
      <4>3. \A r \in DOMAIN st2 : stage # {r}
        <5>1. stage = {s} /\ s \notin DOMAIN st2
          BY <1>1, <1>3, <2>1, <3>1
        <5> QED
          BY <5>1
      <4> QED
        BY <4>2, <4>3
    <3> QED
      BY <3>2, <3>3
  <2> QED
    BY <2>2, <2>3
<1>12. Fits(t, L, st, fl, a, b, W, K, st2, fl)
  <2>1. \A i \in 0 .. Len(W) : Placed(K[i], st2, fl)
    BY <1>6, <1>9
  <2>2. \A i \in 1 .. Len(W) : FALSE
    BY <1>6
  <2>3. MarkedOnce(W, K)
    BY <2>2 DEF MarkedOnce
  <2>4. \A i \in 0 .. Len(t) : i <= a \/ i > b => Agree(L[i], st, fl, st2, fl)
    BY <1>7
  <2>5. /\ b < Len(t) => Moves(K[Len(W)], t[b + 1], L[b + 1], st2, fl)
        /\ b = Len(t) => Whole(K[Len(W)], st2, fl)
    BY <1>6, <1>9, <1>10
  <2>6. \A is \in {"head", "stage", "field"} : \A what, stage : Shown(t, L, is, what, stage) =>
          \/ Shown(W, K, is, what, stage)
          \/ \E j \in Kept(a, b, Len(t)) : t[j].is = is /\ t[j].what = what /\ L[j].stage = stage
          \/ is = "stage" /\ what \notin DOMAIN st2
          \/ is = "field" /\ \A r \in DOMAIN st2 : stage = {r} => st2[r][what] = Absent
    BY <1>11
  <2>7. \A r \in DOMAIN st2 : r \in DOMAIN st /\ st2[r] = st[r]
    BY <1>3
  <2> QED
    BY <1>4, <1>6, <2>1, <2>2, <2>3, <2>4, <2>5, <2>6, <2>7 DEF Fits
<1>13. Means(Put(t, a + 1, b + 1, W), Splice(L, a, b, Len(W), K, Len(t)), st2, fl)
  BY <1>5, <1>12, SplicedMeans
<1> QED
  BY <1>2, <1>5, <1>13 DEF W, st2

LEMMA FlowLinesAre ==
  ASSUME NEW flow \in Seq(StageName)
  PROVE  /\ FlowLines(flow) \in Seq(TextLine) /\ Len(FlowLines(flow)) = Len(flow) + 1
         /\ FlowLines(flow)[1].is = "head" /\ FlowLines(flow)[1].what = "flow"
         /\ \A i \in 1 .. Len(flow) : FlowLines(flow)[i + 1].is = "item" /\ FlowLines(flow)[i + 1].what = flow[i]
<1> DEFINE x == <<Line("head", "flow")>>
           y == [i \in 1 .. Len(flow) |-> Line("item", flow[i])]
           z == x \o y
<1>1. x \in Seq(TextLine) /\ Len(x) = 1 /\ x[1].is = "head" /\ x[1].what = "flow"
  <2>1. Line("head", "flow") \in TextLine
    BY DEF Line, TextLine
  <2> QED
    BY <2>1 DEF Line
<1>2. y \in Seq(TextLine) /\ Len(y) = Len(flow) /\ \A i \in 1 .. Len(flow) : y[i].is = "item" /\ y[i].what = flow[i]
  <2>1. \A i \in 1 .. Len(flow) : Line("item", flow[i]) \in TextLine
    BY DEF Line, TextLine
  <2>2. Len(flow) \in Nat
    OBVIOUS
  <2> QED
    BY <2>1, <2>2 DEF Line
<1> HIDE DEF x, y
<1>3. /\ z \in Seq(TextLine) /\ Len(z) = Len(x) + Len(y)
      /\ \A i \in 1 .. Len(x) + Len(y) : z[i] = IF i <= Len(x) THEN x[i] ELSE y[i - Len(x)]
  <2>1. x \in Seq(TextLine) /\ y \in Seq(TextLine)
    BY <1>1, <1>2
  <2> QED
    BY <2>1, ConcatProperties
<1>4. FlowLines(flow) = z
  BY DEF FlowLines, x, y
<1> HIDE DEF z
<1>5. Len(flow) \in Nat
  OBVIOUS
<1>6. z[1] = x[1]
  <2>1. 1 \in 1 .. Len(x) + Len(y) /\ 1 <= Len(x)
    BY <1>1, <1>2, <1>5
  <2> QED
    BY <1>3, <2>1
<1>7. ASSUME NEW i \in 1 .. Len(flow) PROVE z[i + 1] = y[i]
  <2>1. i + 1 \in 1 .. Len(x) + Len(y) /\ ~(i + 1 <= Len(x)) /\ (i + 1) - Len(x) = i
    BY <1>1, <1>2, <1>5
  <2> QED
    BY <1>3, <2>1
<1> QED
  BY <1>1, <1>2, <1>3, <1>4, <1>5, <1>6, <1>7

(* The flow is between its head and the next one. *)
FlowBounded(t, L, k, e, st, fl) ==
  /\ k \in 1 .. Len(t) /\ e \in k + 1 .. Len(t) + 1
  /\ t[k].is = "head" /\ t[k].what = "flow" /\ L[k].stage = {}
  /\ \A i \in k .. e - 1 : L[i].at = "flow"
  /\ \A i \in k + 1 .. e - 1 : t[i].is # "head"
  /\ e <= Len(t) => t[e].is = "head"
  /\ \A i \in 0 .. Len(t) : L[i].at = "flow" => i \in k .. e - 1
LEMMA FlowBounds ==
  ASSUME NEW t, NEW L, NEW st, NEW fl, Means(t, L, st, fl)
  PROVE  FlowBounded(t, L, At(t, "head", "flow"), First(t, At(t, "head", "flow") + 1, {"head"}), st, fl)
<1> DEFINE k == At(t, "head", "flow")
           e == First(t, k + 1, {"head"})
<1>0. /\ t \in Seq(TextLine) /\ Len(t) \in Nat /\ Parsed(t, L, st, fl) /\ MarkedOnce(t, L)
      /\ \A i \in 0 .. Len(t) : Placed(L[i], st, fl)
      /\ Shown(t, L, "head", "flow", {})
  BY DEF Means, Parsed, AllShown
<1>1. k \in 1 .. Len(t) /\ t[k].is = "head" /\ t[k].what = "flow"
  BY <1>0, AtShown
<1> HIDE DEF k
<1>2. /\ e \in k + 1 .. Len(t) + 1 /\ \A i \in k + 1 .. e - 1 : t[i].is # "head"
      /\ e <= Len(t) => t[e].is = "head"
  <2>1. k + 1 \in 1 .. Len(t) + 1
    BY <1>0, <1>1
  <2>2. /\ e \in k + 1 .. Len(t) + 1 /\ \A i \in k + 1 .. e - 1 : t[i].is \notin {"head"}
        /\ e <= Len(t) => t[e].is \in {"head"}
    BY <1>0, <2>1, FirstLineIs
  <2> QED
    BY <2>2
<1> HIDE DEF e
<1>3. ASSUME NEW i \in k .. e - 1 PROVE L[i].at = "flow"
  <2>1. i \in k .. Len(t) /\ \A j \in k + 1 .. i : j \in k + 1 .. e - 1
    BY <1>0, <1>1, <1>2
  <2>2. \A j \in k + 1 .. i : t[j].is # "head"
    BY <1>2, <2>1
  <2> QED
    BY <1>0, <1>1, <2>1, <2>2, FromHead
<1>4. ASSUME NEW m \in 1 .. Len(t), t[m].is = "head" PROVE L[m].stage = {}
  <2>1. Moves(L[m - 1], t[m], L[m], st, fl) /\ m - 1 \in 0 .. Len(t)
    BY <1>0 DEF Parsed
  <2> QED
    BY <1>0, <1>4, <2>1, StepStage
<1>5. ASSUME NEW i \in 0 .. Len(t), L[i].at = "flow" PROVE i \in k .. e - 1
  <2>1. BehindFlow(t, i)
    BY <1>0, <1>5, FlowOwner
  <2>2. PICK m \in 1 .. i : /\ t[m].is = "head" /\ t[m].what = "flow" /\ \A j \in m + 1 .. i : t[j].is # "head"
    BY <2>1 DEF BehindFlow
  <2>3. m \in 1 .. Len(t)
    BY <1>0
  <2>4. m = k
    <3>1. Marked(t[m]) /\ Alike(t[m], L[m], t[k], L[k])
      BY <1>1, <1>4, <2>2, <2>3 DEF Marked, Alike
    <3> QED
      BY <1>0, <1>1, <2>3, <3>1 DEF MarkedOnce
  <2>5. i < e
    <3> SUFFICES ASSUME ~(i < e) PROVE FALSE
      OBVIOUS
    <3>1. e <= Len(t) /\ e \in m + 1 .. i
      BY <1>0, <1>1, <1>2, <2>4
    <3> QED
      BY <1>2, <2>2, <3>1
  <2> QED
    BY <1>0, <1>1, <1>2, <2>4, <2>5
<1> QED
  BY <1>1, <1>2, <1>3, <1>4, <1>5 DEF FlowBounded, k, e

LEMMA FlowReplaced ==
  ASSUME NEW t, NEW L, NEW st, NEW fl, Means(t, L, st, fl), NEW flow \in Seq(StageName)
  PROVE  \E M : Means(ReplaceFlow(t, flow), M, st, flow)
<1> DEFINE k == At(t, "head", "flow")
           e == First(t, k + 1, {"head"})
           W == FlowLines(flow)
           len == Len(flow)
<1>0. /\ t \in Seq(TextLine) /\ Len(t) \in Nat /\ Parsed(t, L, st, fl) /\ MarkedOnce(t, L) /\ MeantTyped(st, fl)
      /\ \A i \in 0 .. Len(t) : Placed(L[i], st, fl)
  BY DEF Means, Parsed
<1>1. FlowBounded(t, L, k, e, st, fl)
  BY FlowBounds
<1>2. ReplaceFlow(t, flow) = Put(t, k, e, W)
  <2>1. ~(k > Len(t))
    BY <1>0, <1>1 DEF FlowBounded
  <2> QED
    BY <2>1 DEF ReplaceFlow
<1> HIDE DEF k, e
<1>3. /\ k \in 1 .. Len(t) /\ e \in k + 1 .. Len(t) + 1
      /\ t[k].is = "head" /\ t[k].what = "flow" /\ L[k].stage = {}
      /\ \A i \in k .. e - 1 : L[i].at = "flow"
      /\ \A i \in k + 1 .. e - 1 : t[i].is # "head"
      /\ e <= Len(t) => t[e].is = "head"
      /\ \A i \in 0 .. Len(t) : L[i].at = "flow" => i \in k .. e - 1
  BY <1>1 DEF FlowBounded
<1>4. /\ W \in Seq(TextLine) /\ Len(W) = len + 1 /\ len \in Nat
      /\ W[1].is = "head" /\ W[1].what = "flow"
      /\ \A i \in 1 .. len : W[i + 1].is = "item" /\ W[i + 1].what = flow[i]
  BY FlowLinesAre
<1>5. MeantTyped(st, flow)
  BY <1>0 DEF MeantTyped
<1> DEFINE a == k - 1
           b == e - 1
           K == [i \in 0 .. len + 1 |-> IF i = 0 THEN L[a] ELSE InFlow(i - 1)]
<1>6. /\ a \in 0 .. Len(t) /\ b \in a .. Len(t) /\ a + 1 = k /\ b + 1 = e /\ a \in Nat /\ b \in Nat /\ a < b
      /\ ~(a \in k .. e - 1) /\ a = k - 1
  BY <1>0, <1>3
<1>7. K[0] = L[a] /\ \A i \in 1 .. len + 1 : K[i] = InFlow(i - 1)
  BY <1>4
<1> HIDE DEF a, b, K, W, len
<1>8. ASSUME NEW i \in 0 .. Len(t), i <= a \/ i > b PROVE Agree(L[i], st, fl, st, flow)
  <2>1. ~(i \in k .. e - 1)
    BY <1>0, <1>3, <1>6, <1>8
  <2>2. L[i].at # "flow"
    BY <1>3, <2>1
  <2> QED
    BY <2>2 DEF Agree
<1>9. Moves(L[a], t[k], L[k], st, fl)
  BY <1>0, <1>3, <1>6 DEF Parsed
<1>10. Placed(L[a], st, flow) /\ Whole(L[a], st, flow)
  <2>1. Whole(L[a], st, fl)
    BY <1>3, <1>9, StepValue
  <2>2. Agree(L[a], st, fl, st, flow)
    BY <1>0, <1>6, <1>8
  <2> QED
    BY <1>0, <1>6, <2>1, <2>2, PlacedStill, WholeStill
<1>11. ASSUME NEW i \in 1 .. len + 1 PROVE Placed(K[i], st, flow) /\ Moves(K[i - 1], W[i], K[i], st, flow)
  <2> DEFINE n == i - 1
  <2>1. n \in Nat /\ n <= Len(flow) /\ K[i] = InFlow(n)
    BY <1>4, <1>7 DEF len
  <2> HIDE DEF n
  <2>2. Placed(K[i], st, flow)
    BY <2>1 DEF Placed
  <2>3. CASE i = 1
    <3>1. K[i - 1] = L[a] /\ K[i] = InFlow(0) /\ W[i].is = "head" /\ W[i].what = "flow"
      BY <1>4, <1>7, <2>1, <2>3 DEF n
    <3> QED
      BY <1>10, <2>2, <3>1 DEF Moves
  <2>4. CASE i # 1
    <3> DEFINE m == i - 2
    <3>1. m \in Nat /\ m + 1 <= Len(flow) /\ m + 1 \in 1 .. len /\ (m + 1) + 1 = i /\ i - 1 \in 1 .. len + 1
          /\ (i - 1) - 1 = m /\ n = m + 1
      BY <1>4, <2>4 DEF n, len
    <3> HIDE DEF m
    <3>2. K[i - 1] = InFlow(m) /\ K[i] = InFlow(m + 1)
      BY <1>7, <2>1, <3>1
    <3>3. W[i].is = "item" /\ W[i].what = flow[m + 1]
      BY <1>4, <3>1
    <3> QED
      BY <2>2, <3>1, <3>2, <3>3 DEF Moves
  <2> QED
    BY <2>3, <2>4
<1>12. Whole(K[len + 1], st, flow)
  <2>1. K[len + 1] = InFlow(len)
    <3>1. len + 1 \in 1 .. len + 1 /\ (len + 1) - 1 = len
      BY <1>4
    <3> QED
      BY <1>7, <3>1
  <2>2. K[len + 1].at = "flow" /\ K[len + 1].n = Len(flow)
    BY <2>1, SpotsAre DEF len
  <2> QED
    BY <2>2 DEF Whole
<1>13. b < Len(t) => Moves(K[len + 1], t[b + 1], L[b + 1], st, flow)
  <2> SUFFICES ASSUME b < Len(t) PROVE Moves(K[len + 1], t[e], L[e], st, flow)
    BY <1>6
  <2>1. e \in 1 .. Len(t) /\ t[e].is = "head"
    BY <1>0, <1>3, <1>6
  <2>2. Moves(L[e - 1], t[e], L[e], st, fl)
    BY <1>0, <2>1 DEF Parsed
  <2> QED
    BY <1>12, <2>1, <2>2 DEF Moves
<1>14. ASSUME NEW i \in 1 .. len + 1, Marked(W[i]) PROVE i = 1
  <2> SUFFICES ASSUME i # 1 PROVE FALSE
    OBVIOUS
  <2> DEFINE j == i - 1
  <2>1. j \in 1 .. len /\ j + 1 = i
    BY <1>4
  <2> HIDE DEF j
  <2>2. W[i].is = "item"
    BY <1>4, <2>1
  <2> QED
    BY <1>14, <2>2 DEF Marked
<1>15. MarkedOnce(W, K)
  <2> SUFFICES ASSUME NEW i \in 1 .. Len(W), NEW j \in 1 .. Len(W), Marked(W[i]), Alike(W[i], K[i], W[j], K[j])
               PROVE  i = j
    BY DEF MarkedOnce
  <2>1. Marked(W[j])
    BY DEF Marked, Alike
  <2> QED
    BY <1>4, <1>14, <2>1
<1>16. 1 \in 1 .. len + 1 /\ K[1].stage = {}
  <2>1. 1 \in 1 .. len + 1
    BY <1>4
  <2> QED
    BY <1>7, <2>1, SpotsAre
<1>17. ASSUME NEW i \in 1 .. Len(W), NEW j \in Kept(a, b, Len(t)), Marked(W[i]) PROVE ~Alike(W[i], K[i], t[j], L[j])
  <2> SUFFICES ASSUME Alike(W[i], K[i], t[j], L[j]) PROVE FALSE
    OBVIOUS
  <2>1. i = 1
    BY <1>4, <1>14, <1>17
  <2>2. t[j].is = "head" /\ t[j].what = "flow" /\ L[j].stage = {}
    BY <1>4, <1>16, <2>1 DEF Alike
  <2>3. Marked(t[j]) /\ Alike(t[j], L[j], t[k], L[k])
    BY <1>3, <2>2 DEF Marked, Alike
  <2>4. j \in 1 .. Len(t) /\ ~(j = k)
    BY <1>0, <1>3, <1>6 DEF Kept
  <2> QED
    BY <1>0, <1>3, <2>3, <2>4 DEF MarkedOnce
<1>18. ASSUME NEW is \in {"head", "stage", "field"}, NEW what, NEW stage, Shown(t, L, is, what, stage)
       PROVE  \/ Shown(W, K, is, what, stage)
              \/ \E j \in Kept(a, b, Len(t)) : t[j].is = is /\ t[j].what = what /\ L[j].stage = stage
  <2>1. PICK i \in 1 .. Len(t) : t[i].is = is /\ t[i].what = what /\ L[i].stage = stage
    BY <1>18 DEF Shown
  <2>2. CASE i \in Kept(a, b, Len(t))
    BY <2>1, <2>2
  <2>3. CASE i \notin Kept(a, b, Len(t))
    <3>1. i \in k .. e - 1
      BY <1>0, <1>6, <2>3 DEF Kept
    <3>2. CASE i = k
      BY <1>3, <1>4, <1>16, <2>1, <3>2 DEF Shown
    <3>3. CASE i # k
      <4>1. i \in k + 1 .. e - 1
        BY <1>0, <1>3, <3>1, <3>3
      <4>2. is \in {"stage", "field"}
        BY <1>3, <2>1, <4>1
      <4>3. Moves(L[i - 1], t[i], L[i], st, fl)
        BY <1>0 DEF Parsed
      <4>4. L[i].at \in {"stage", "value"}
        BY <2>1, <4>2, <4>3, SpotsAre DEF Moves
      <4> QED
        BY <1>3, <3>1, <4>4
    <3> QED
      BY <3>2, <3>3
  <2> QED
    BY <2>2, <2>3
<1>19. Fits(t, L, st, fl, a, b, W, K, st, flow)
  <2>1. \A i \in 0 .. Len(W) : Placed(K[i], st, flow)
    <3> SUFFICES ASSUME NEW i \in 0 .. Len(W) PROVE Placed(K[i], st, flow)
      OBVIOUS
    <3>1. i = 0 \/ i \in 1 .. len + 1
      BY <1>4
    <3> QED
      BY <1>7, <1>10, <1>11, <3>1
  <2>2. \A i \in 1 .. Len(W) : Moves(K[i - 1], W[i], K[i], st, flow)
    BY <1>4, <1>11
  <2>4. \A i \in 0 .. Len(t) : i <= a \/ i > b => Agree(L[i], st, fl, st, flow)
    BY <1>8
  <2>5. /\ b < Len(t) => Moves(K[Len(W)], t[b + 1], L[b + 1], st, flow)
        /\ b = Len(t) => Whole(K[Len(W)], st, flow)
    BY <1>4, <1>12, <1>13
  <2>6. \A is \in {"head", "stage", "field"} : \A what, stage : Shown(t, L, is, what, stage) =>
          \/ Shown(W, K, is, what, stage)
          \/ \E j \in Kept(a, b, Len(t)) : t[j].is = is /\ t[j].what = what /\ L[j].stage = stage
    BY <1>18
  <2>7. \A i \in 1 .. Len(W), j \in Kept(a, b, Len(t)) : Marked(W[i]) => ~Alike(W[i], K[i], t[j], L[j])
    BY <1>17
  <2> QED
    BY <1>4, <1>5, <1>7, <1>15, <2>1, <2>2, <2>4, <2>5, <2>6, <2>7 DEF Fits
<1>20. Means(Put(t, a + 1, b + 1, W), Splice(L, a, b, Len(W), K, Len(t)), st, flow)
  BY <1>6, <1>19, SplicedMeans
<1> QED
  BY <1>2, <1>6, <1>20 DEF W

(* FlattenSeq appends piece after piece. *)
Flattened(h, ss, n) ==
  /\ h[0] = <<>> /\ \A k \in 1 .. n : h[k] = h[k - 1] \o ss[k]
  /\ FlattenSeq(ss) = h[n]
LEMMA FlattenSteps ==
  ASSUME NEW E, NEW n \in Nat, NEW ss \in [1 .. n -> Seq(E)]
  PROVE  \E h \in [0 .. n -> Seq(E)] : Flattened(h, ss, n)
<1> DEFINE flatten[i \in 1 .. Len(ss)] == IF i = 1 THEN ss[i] ELSE flatten[i - 1] \o ss[i]
<1>0. ss \in Seq(Seq(E)) /\ Len(ss) = n
  OBVIOUS
<1>1. PICK h \in [0 .. n -> Seq(E)] : h[0] = <<>> /\ \A k \in 1 .. n : h[k] = h[k - 1] \o ss[k]
  <2> DEFINE g == [k \in Nat |-> [s \in Seq(E) |-> s \o (IF k \in 1 .. n THEN ss[k] ELSE <<>>)]]
  <2>0. \A k \in Nat : (IF k \in 1 .. n THEN ss[k] ELSE <<>>) \in Seq(E)
    OBVIOUS
  <2>1. g \in [Nat -> [Seq(E) -> Seq(E)]] /\ <<>> \in Seq(E)
    <3> DEFINE add(k) == IF k \in 1 .. n THEN ss[k] ELSE <<>>
    <3>1. \A k \in Nat : add(k) \in Seq(E)
      BY <2>0
    <3> HIDE DEF add
    <3>2. ASSUME NEW k \in Nat, NEW s \in Seq(E) PROVE s \o add(k) \in Seq(E)
      BY <3>1, ConcatProperties
    <3>3. [k \in Nat |-> [s \in Seq(E) |-> s \o add(k)]] \in [Nat -> [Seq(E) -> Seq(E)]]
      BY <3>2
    <3> QED
      BY <3>3 DEF add
  <2>2. ASSUME NEW k \in 1 .. n, NEW s \in Seq(E) PROVE g[k][s] = s \o ss[k]
    <3>1. k \in Nat
      OBVIOUS
    <3>2. g[k] = [q \in Seq(E) |-> q \o (IF k \in 1 .. n THEN ss[k] ELSE <<>>)]
      BY <3>1
    <3> HIDE DEF g
    <3> QED
      BY <3>2
  <2> HIDE DEF g
  <2>3. PICK f : f \in [0 .. n -> Seq(E)] /\ f[0] = <<>> /\ \A k \in 1 .. n : f[k] = g[k][f[k - 1]]
    <3>1. Chains(Seq(E), <<>>, g, n) # {}
      BY <2>1, Iterates
    <3> QED
      BY <3>1 DEF Chains
  <2>4. ASSUME NEW k \in 1 .. n PROVE f[k] = f[k - 1] \o ss[k]
    <3>1. f[k - 1] \in Seq(E)
      BY <2>3
    <3> QED
      BY <2>2, <2>3, <3>1
  <2> QED
    BY <2>3, <2>4
<1>2. CASE n = 0
  <2>1. ss = <<>> /\ FlattenSeq(ss) = <<>>
    BY <1>0, <1>2 DEF FlattenSeq
  <2> QED
    BY <1>1, <1>2, <2>1 DEF Flattened
<1>3. CASE n # 0
  <2>1. h[1] = ss[1]
    <3>1. 1 \in 1 .. n /\ ss[1] \in Seq(E) /\ 1 - 1 = 0
      BY <1>3
    <3>2. h[1] = h[0] \o ss[1]
      BY <1>1, <3>1
    <3> QED
      BY <1>1, <3>1, <3>2
  <2> DEFINE j == [i \in 1 .. Len(ss) |-> h[i]]
  <2>2. j = [i \in 1 .. Len(ss) |-> IF i = 1 THEN ss[i] ELSE j[i - 1] \o ss[i]]
    <3>1. ASSUME NEW i \in 1 .. Len(ss) PROVE h[i] = IF i = 1 THEN ss[i] ELSE j[i - 1] \o ss[i]
      <4>1. CASE i = 1
        BY <2>1, <4>1
      <4>2. CASE i # 1
        <5>1. i - 1 \in 1 .. Len(ss) /\ i \in 1 .. n
          BY <1>0, <4>2
        <5> QED
          BY <1>1, <4>2, <5>1
      <4> QED
        BY <4>1, <4>2
    <3>2. j = [i \in 1 .. Len(ss) |-> h[i]]
      OBVIOUS
    <3> HIDE DEF j
    <3> QED
      BY <3>1, <3>2
  <2>3. flatten = [i \in 1 .. Len(ss) |-> IF i = 1 THEN ss[i] ELSE flatten[i - 1] \o ss[i]]
    <3> HIDE DEF j
    <3> QED
      BY <2>2
  <2>4. FlattenSeq(ss) = flatten[n]
    BY <1>0, <1>3 DEF FlattenSeq
  <2> HIDE DEF flatten
  <2> DEFINE T == {k \in Nat : k + 1 <= n => flatten[k + 1] = h[k + 1]}
  <2>5. 0 \in T
    <3>1. 1 \in 1 .. Len(ss)
      BY <1>0, <1>3
    <3> QED
      BY <2>1, <2>3, <3>1
  <2>6. ASSUME NEW k \in Nat, k \in T PROVE k + 1 \in T
    <3> SUFFICES ASSUME (k + 1) + 1 <= n PROVE flatten[(k + 1) + 1] = h[(k + 1) + 1]
      OBVIOUS
    <3> DEFINE m == k + 1
    <3>1. m + 1 \in 1 .. Len(ss) /\ m + 1 # 1 /\ (m + 1) - 1 = m /\ m + 1 \in 1 .. n /\ k + 1 <= n
      BY <1>0
    <3>2. flatten[m] = h[m]
      BY <2>6, <3>1
    <3> HIDE DEF m
    <3>3. h[m + 1] = h[m] \o ss[m + 1]
      <4> DEFINE x == m + 1
      <4>1. x \in 1 .. n /\ x - 1 = m
        BY <3>1
      <4> HIDE DEF x
      <4>2. h[x] = h[x - 1] \o ss[x]
        BY <1>1, <4>1
      <4> QED
        BY <4>1, <4>2 DEF x
    <3>4. flatten[m + 1] = flatten[m] \o ss[m + 1]
      <4> DEFINE x == m + 1
      <4>1. x \in 1 .. Len(ss) /\ x - 1 = m /\ x # 1
        BY <3>1
      <4> HIDE DEF x
      <4>2. flatten[x] = flatten[x - 1] \o ss[x]
        BY <2>3, <4>1
      <4> QED
        BY <4>1, <4>2 DEF x
    <3> QED
      BY <3>2, <3>3, <3>4 DEF m
  <2>7. Nat \subseteq T
    <3> HIDE DEF T
    <3> QED
      BY <2>5, <2>6, AllNaturals
  <2>8. n - 1 \in Nat /\ (n - 1) + 1 = n
    BY <1>3
  <2>9. flatten[n] = h[n]
    <3>1. n - 1 \in T
      <4> HIDE DEF T
      <4> QED
        BY <2>7, <2>8
    <3> QED
      BY <2>8, <3>1
  <2> QED
    BY <1>1, <2>4, <2>9 DEF Flattened
<1> QED
  BY <1>2, <1>3

(* A finite set in some order: each element once. *)
Enumerates(q, S) ==
  /\ q \in Seq(S) /\ Len(q) \in Nat
  /\ \A i, j \in 1 .. Len(q) : q[i] = q[j] => i = j
  /\ \A x \in S : \E i \in 1 .. Len(q) : q[i] = x
LEMMA SetToSeqIs ==
  ASSUME NEW S, IsFiniteSet(S)
  PROVE  Enumerates(SetToSeq(S), S)
<1> DEFINE n == Cardinality(S)
           q == SetToSeq(S)
<1>1. n \in Nat /\ ExistsBijection(1 .. n, S)
  BY FS_CardinalityType
<1>2. \E f \in [1 .. n -> S] : IsInjective(f)
  BY <1>1 DEF ExistsBijection, Bijection, Injection
<1>3. q \in [1 .. n -> S] /\ IsInjective(q)
  BY <1>2 DEF SetToSeq
<1> HIDE DEF q
<1>4. IsFiniteSet(1 .. n) /\ Cardinality(1 .. n) = n
  BY <1>1, FS_Interval
<1>5. q \in Injection(1 .. n, S)
  BY <1>3 DEF Injection
<1>6. q \in Surjection(1 .. n, S)
  BY <1>4, <1>5, FS_Injection
<1> HIDE DEF n
<1>7. q \in Seq(S) /\ Len(q) = n /\ DOMAIN q = 1 .. n
  BY <1>1, <1>3
<1>8. \A x \in S : \E i \in 1 .. n : q[i] = x
  BY <1>6 DEF Surjection
<1> QED
  BY <1>1, <1>3, <1>7, <1>8 DEF Enumerates, IsInjective, q

(* Stage after Stage is patched: doc says what the lines mean after each. *)
Reads(t, st, fl) == \E L : Means(t, L, st, fl)
LEMMA ReadsTyped == ASSUME NEW t, NEW st, NEW fl, Reads(t, st, fl) PROVE t \in Seq(TextLine) /\ MeantTyped(st, fl)
BY DEF Reads, Means, Parsed

LEMMA EachStageReads ==
  ASSUME NEW d, NEW pass, NEW names, Len(names) \in Nat, NEW t, NEW doc, NEW fl, Reads(t, doc[0], fl),
         \A k \in 1 .. Len(names) : \A u :
           Reads(u, doc[k - 1], fl) => Reads(PatchStage(u, d, names[k], pass), doc[k], fl)
  PROVE  Reads(EachStage(t, d, names, pass), doc[Len(names)], fl)
<1> DEFINE S == Seq(TextLine)
           n == Len(names)
           Step(k, u) == PatchStage(u, d, names[k], pass)
           g == [k \in Nat |-> [u \in S |-> IF Step(k, u) \in S THEN Step(k, u) ELSE u]]
           after[k \in 0 .. Len(names)] == IF k = 0 THEN t ELSE PatchStage(after[k - 1], d, names[k], pass)
<1>1. g \in [Nat -> [S -> S]]
  OBVIOUS
<1>2. ASSUME NEW k \in Nat, NEW u \in S, Step(k, u) \in S PROVE g[k][u] = Step(k, u)
  BY <1>2
<1>3. t \in S
  BY ReadsTyped
<1> HIDE DEF g
<1>4. PICK f : f \in [0 .. n -> S] /\ f[0] = t /\ \A k \in 1 .. n : f[k] = g[k][f[k - 1]]
  <2>1. Chains(S, t, g, n) # {}
    <3> HIDE DEF S, n
    <3> QED
      BY <1>1, <1>3, Iterates DEF n
  <2> QED
    BY <2>1 DEF Chains
<1> HIDE DEF Step, after
<1> DEFINE T == {k \in Nat : k <= n => Reads(f[k], doc[k], fl)}
<1>5. 0 \in T
  BY <1>4
<1>6. ASSUME NEW k \in Nat, k \in T PROVE k + 1 \in T
  <2> SUFFICES ASSUME k + 1 <= n PROVE Reads(f[k + 1], doc[k + 1], fl)
    OBVIOUS
  <2>1. k + 1 \in 1 .. n /\ (k + 1) - 1 = k /\ k \in 0 .. n
    OBVIOUS
  <2>2. Reads(f[k], doc[k], fl) /\ f[k] \in S
    BY <1>4, <1>6, <2>1
  <2>3. Reads(Step(k + 1, f[k]), doc[k + 1], fl)
    BY <2>1, <2>2 DEF Step
  <2>4. Step(k + 1, f[k]) \in S
    BY <2>3, ReadsTyped
  <2>5. f[k + 1] = g[k + 1][f[k]]
    BY <1>4, <2>1
  <2>6. f[k + 1] = Step(k + 1, f[k])
    BY <1>2, <2>1, <2>2, <2>4, <2>5
  <2> QED
    BY <2>3, <2>6
<1>7. Nat \subseteq T
  <2> HIDE DEF T
  <2> QED
    BY <1>5, <1>6, AllNaturals
<1>8. \A k \in 0 .. n : Reads(f[k], doc[k], fl)
  BY <1>7
<1> HIDE DEF T
<1>9. ASSUME NEW k \in 1 .. n PROVE f[k] = Step(k, f[k - 1])
  <2>1. k - 1 \in 0 .. n /\ k \in Nat
    OBVIOUS
  <2>2. Reads(f[k - 1], doc[k - 1], fl) /\ f[k - 1] \in S
    BY <1>4, <1>8, <2>1
  <2>3. Step(k, f[k - 1]) \in S
    BY <2>2, ReadsTyped DEF Step
  <2> QED
    BY <1>2, <1>4, <2>1, <2>2, <2>3
<1>10. f = [k \in 0 .. Len(names) |-> IF k = 0 THEN t ELSE PatchStage(f[k - 1], d, names[k], pass)]
  <2>1. ASSUME NEW k \in 0 .. n PROVE f[k] = IF k = 0 THEN t ELSE PatchStage(f[k - 1], d, names[k], pass)
    <3>1. CASE k = 0
      BY <1>4, <3>1
    <3>2. CASE k # 0
      BY <1>9, <3>2 DEF Step
    <3> QED
      BY <3>1, <3>2
  <2> QED
    BY <1>4, <2>1
<1>11. after = [k \in 0 .. Len(names) |-> IF k = 0 THEN t ELSE PatchStage(after[k - 1], d, names[k], pass)]
  BY <1>10 DEF after
<1> DEFINE U == {k \in Nat : k <= n => after[k] = f[k]}
<1>12. 0 \in U
  BY <1>4, <1>11
<1>13. ASSUME NEW k \in Nat, k \in U PROVE k + 1 \in U
  <2> SUFFICES ASSUME k + 1 <= n PROVE after[k + 1] = f[k + 1]
    OBVIOUS
  <2>1. k + 1 \in 1 .. n /\ (k + 1) - 1 = k /\ k + 1 # 0 /\ k + 1 \in 0 .. n
    OBVIOUS
  <2>2. after[k + 1] = PatchStage(after[k], d, names[k + 1], pass)
    BY <1>11, <2>1
  <2>3. f[k + 1] = Step(k + 1, f[k])
    BY <1>9, <2>1
  <2> QED
    BY <1>13, <2>1, <2>2, <2>3 DEF Step
<1>14. Nat \subseteq U
  <2> HIDE DEF U
  <2> QED
    BY <1>12, <1>13, AllNaturals
<1>15. after[n] = f[n] /\ n \in 0 .. n
  BY <1>14
<1>16. EachStage(t, d, names, pass) = after[n]
  BY DEF EachStage, after
<1> QED
  BY <1>8, <1>15, <1>16

(* The patches one after the other. *)
LEMMA FieldReads ==
  ASSUME NEW t, NEW st, NEW fl, Reads(t, st, fl), NEW s \in DOMAIN st, NEW f \in Field, NEW v \in Whatever
  PROVE  Reads(PatchField(t, s, f, v), [st EXCEPT ![s][f] = v], fl)
BY FieldPatched DEF Reads

LEMMA InsertReads ==
  ASSUME NEW t, NEW st, NEW fl, Reads(t, st, fl), NEW s \in StageName \ DOMAIN st,
         NEW config \in [Field -> Whatever]
  PROVE  Reads(InsertStage(t, s, config), Joined(st, s, config), fl)
BY StageInserted DEF Reads

LEMMA RemoveReads ==
  ASSUME NEW t, NEW st, NEW fl, Reads(t, st, fl), NEW s \in DOMAIN st
  PROVE  Reads(RemoveStage(t, s), Without(st, s), fl)
BY StageRemoved DEF Reads

LEMMA FlowReads ==
  ASSUME NEW t, NEW st, NEW fl, Reads(t, st, fl), NEW flow \in Seq(StageName)
  PROVE  Reads(ReplaceFlow(t, flow), st, flow)
BY FlowReplaced DEF Reads

(* A Stage with some of its fields as drawn. *)
Redone(own, fields, config) == [f \in Field |-> IF f \in fields THEN config[f] ELSE own[f]]
LEMMA FieldReadsOn ==
  ASSUME NEW t, NEW st, NEW fl, NEW s \in DOMAIN st, NEW done, NEW f \in Field \ done, NEW fields,
         NEW config \in [Field -> Whatever],
         Reads(t, [st EXCEPT ![s] = Redone(st[s], fields \cap done, config)], fl)
  PROVE  Reads(IF f \in fields THEN PatchField(t, s, f, config[f]) ELSE t,
               [st EXCEPT ![s] = Redone(st[s], fields \cap (done \cup {f}), config)], fl)
<1> DEFINE st1 == [st EXCEPT ![s] = Redone(st[s], fields \cap done, config)]
           st2 == [st EXCEPT ![s] = Redone(st[s], fields \cap (done \cup {f}), config)]
<1>1. CASE f \notin fields
  <2>1. fields \cap (done \cup {f}) = fields \cap done
    BY <1>1
  <2> QED
    BY <1>1, <2>1
<1>2. CASE f \in fields
  <2>1. s \in DOMAIN st1
    OBVIOUS
  <2>2. config[f] \in Whatever
    OBVIOUS
  <2>3. [st1 EXCEPT ![s][f] = config[f]] = st2
    <3>1. st1[s] = Redone(st[s], fields \cap done, config) /\ \A r \in DOMAIN st \ {s} : st1[r] = st[r]
      OBVIOUS
    <3>2. st2[s] = Redone(st[s], fields \cap (done \cup {f}), config) /\ \A r \in DOMAIN st \ {s} : st2[r] = st[r]
      OBVIOUS
    <3>3. [Redone(st[s], fields \cap done, config) EXCEPT ![f] = config[f]]
          = Redone(st[s], fields \cap (done \cup {f}), config)
      BY <1>2 DEF Redone
    <3>4. [st1 EXCEPT ![s][f] = config[f]] = [st1 EXCEPT ![s] = [st1[s] EXCEPT ![f] = config[f]]]
      OBVIOUS
    <3>5. [st1 EXCEPT ![s] = st2[s]] = st2
      OBVIOUS
    <3> HIDE DEF st1, st2
    <3> QED
      BY <3>1, <3>2, <3>3, <3>4, <3>5
  <2>4. Reads(t, st1, fl)
    OBVIOUS
  <2> HIDE DEF st1, st2
  <2>5. Reads(PatchField(t, s, f, config[f]), [st1 EXCEPT ![s][f] = config[f]], fl)
    BY <2>1, <2>2, <2>4, FieldReads
  <2> QED
    BY <1>2, <2>3, <2>5 DEF st2
<1> QED
  BY <1>1, <1>2

LEMMA FieldsRead ==
  ASSUME NEW t, NEW st, NEW fl, Reads(t, st, fl), NEW s \in DOMAIN st,
         NEW fields \in SUBSET (Field \ {"routes"}), NEW config \in [Field -> Whatever]
  PROVE  Reads(PatchFields(t, s, fields, config), [st EXCEPT ![s] = Redone(st[s], fields, config)], fl)
<1> DEFINE Patched(u, f) == IF f \in fields THEN PatchField(u, s, f, config[f]) ELSE u
           After(done) == [st EXCEPT ![s] = Redone(st[s], fields \cap done, config)]
<1>1. After({}) = st
  <2>1. st[s] \in [Field -> Whatever] /\ st \in [DOMAIN st -> [Field -> Whatever]]
    BY ReadsTyped DEF MeantTyped
  <2>2. fields \cap {} = {}
    OBVIOUS
  <2>3. Redone(st[s], {}, config) = st[s]
    BY <2>1 DEF Redone
  <2> QED
    BY <2>1, <2>2, <2>3
<1>2. ASSUME NEW u, NEW done, NEW f \in Field \ done, Reads(u, After(done), fl)
      PROVE  Reads(Patched(u, f), After(done \cup {f}), fl)
  BY <1>2, FieldReadsOn
<1>3. PatchFields(t, s, fields, config) = Patched(Patched(Patched(t, "type"), "prompt"), "option")
  BY DEF PatchFields
<1>4. fields \cap ((({} \cup {"type"}) \cup {"prompt"}) \cup {"option"}) = fields
  BY DEF Field
<1>5. After((({} \cup {"type"}) \cup {"prompt"}) \cup {"option"}) = [st EXCEPT ![s] = Redone(st[s], fields, config)]
  BY <1>4
<1>6. /\ "type" \in Field \ {} /\ "prompt" \in Field \ ({} \cup {"type"})
      /\ "option" \in Field \ (({} \cup {"type"}) \cup {"prompt"})
  BY DEF Field
<1> HIDE DEF Patched, After
<1>7. Reads(Patched(t, "type"), After({} \cup {"type"}), fl)
  BY <1>1, <1>2, <1>6
<1>8. Reads(Patched(Patched(t, "type"), "prompt"), After(({} \cup {"type"}) \cup {"prompt"}), fl)
  BY <1>2, <1>6, <1>7
<1>9. Reads(Patched(Patched(Patched(t, "type"), "prompt"), "option"),
            After((({} \cup {"type"}) \cup {"prompt"}) \cup {"option"}), fl)
  BY <1>2, <1>6, <1>8
<1> QED
  BY <1>3, <1>5, <1>9

(* The Stages of a list that were dealt with. *)
Done(q, k) == {q[j] : j \in 1 .. k}
DoneOnce(q, S) ==
  /\ Len(q) \in Nat /\ Done(q, 0) = {} /\ Done(q, Len(q)) = S
  /\ \A k \in 1 .. Len(q) : /\ q[k] \in S /\ q[k] \notin Done(q, k - 1)
                            /\ Done(q, k) = Done(q, k - 1) \cup {q[k]}
LEMMA OneByOne ==
  ASSUME NEW S \in SUBSET StageName
  PROVE  DoneOnce(SetToSeq(S), S)
<1> DEFINE q == SetToSeq(S)
           n == Len(q)
<1>1. Enumerates(q, S)
  BY PatchAssumption, FS_Subset, SetToSeqIs
<1> HIDE DEF q
<1>2. n \in Nat /\ \A i \in 1 .. n : q[i] \in S
  BY <1>1 DEF Enumerates
<1>3. (\A i, j \in 1 .. n : q[i] = q[j] => i = j) /\ \A x \in S : \E i \in 1 .. n : q[i] = x
  BY <1>1 DEF Enumerates
<1> HIDE DEF n
<1>4. Done(q, 0) = {}
  BY DEF Done
<1>5. Done(q, n) = S
  BY <1>2, <1>3 DEF Done
<1>6. ASSUME NEW k \in 1 .. n PROVE q[k] \notin Done(q, k - 1)
  <2> SUFFICES ASSUME NEW j \in 1 .. k - 1, q[j] = q[k] PROVE FALSE
    BY DEF Done
  <2>1. j \in 1 .. n /\ j # k
    BY <1>2
  <2> QED
    BY <1>3, <2>1
<1>7. ASSUME NEW k \in 1 .. n PROVE Done(q, k) = Done(q, k - 1) \cup {q[k]}
  <2>1. 1 .. k = (1 .. k - 1) \cup {k}
    BY <1>2
  <2> QED
    BY <2>1 DEF Done
<1> QED
  BY <1>2, <1>4, <1>5, <1>6, <1>7 DEF DoneOnce, q, n

(* Stages S, those of D as in new, the others as in old. *)
Partly(old, new, S, D) == [r \in S |-> IF r \in D THEN new[r] ELSE old[r]]

LEMMA StagesRemoved ==
  ASSUME NEW t, NEW st, NEW fl, Reads(t, st, fl), NEW S \in SUBSET DOMAIN st, NEW d
  PROVE  Reads(EachStage(t, d, SetToSeq(S), "remove"), [r \in DOMAIN st \ S |-> st[r]], fl)
<1> DEFINE q == SetToSeq(S)
           doc == [k \in Nat |-> [r \in DOMAIN st \ Done(q, k) |-> st[r]]]
<1>1. MeantTyped(st, fl) /\ S \in SUBSET StageName
  BY ReadsTyped DEF MeantTyped
<1>2. DoneOnce(q, S)
  BY <1>1, OneByOne
<1> HIDE DEF q
<1>3. Len(q) \in Nat /\ Done(q, 0) = {} /\ Done(q, Len(q)) = S
  BY <1>2 DEF DoneOnce
<1>4. doc[0] = st /\ doc[Len(q)] = [r \in DOMAIN st \ S |-> st[r]]
  <2>1. st = [r \in DOMAIN st |-> st[r]]
    BY <1>1 DEF MeantTyped
  <2>2. DOMAIN st \ {} = DOMAIN st
    OBVIOUS
  <2> QED
    BY <1>3, <2>1, <2>2
<1>5. ASSUME NEW k \in 1 .. Len(q), NEW u, Reads(u, doc[k - 1], fl)
      PROVE  Reads(PatchStage(u, d, q[k], "remove"), doc[k], fl)
  <2>1. q[k] \in S /\ q[k] \notin Done(q, k - 1) /\ Done(q, k) = Done(q, k - 1) \cup {q[k]}
    BY <1>2 DEF DoneOnce
  <2>2. k \in Nat /\ k - 1 \in Nat
    BY <1>3
  <2>3. doc[k - 1] = [r \in DOMAIN st \ Done(q, k - 1) |-> st[r]] /\ doc[k] = [r \in DOMAIN st \ Done(q, k) |-> st[r]]
    BY <2>2
  <2> HIDE DEF doc
  <2>4. q[k] \in DOMAIN doc[k - 1]
    BY <2>1, <2>3
  <2>5. Without(doc[k - 1], q[k]) = doc[k]
    <3>1. DOMAIN doc[k - 1] \ {q[k]} = DOMAIN st \ Done(q, k)
      BY <2>1, <2>3
    <3>2. \A r \in DOMAIN st \ Done(q, k) : doc[k - 1][r] = st[r]
      BY <2>1, <2>3
    <3> QED
      BY <2>3, <3>1, <3>2 DEF Without
  <2>6. PatchStage(u, d, q[k], "remove") = RemoveStage(u, q[k])
    BY DEF PatchStage
  <2>7. Reads(RemoveStage(u, q[k]), Without(doc[k - 1], q[k]), fl)
    BY <1>5, <2>4, RemoveReads
  <2> QED
    BY <2>5, <2>6, <2>7
<1> HIDE DEF doc
<1>6. Reads(EachStage(t, d, q, "remove"), doc[Len(q)], fl)
  BY <1>3, <1>4, <1>5, EachStageReads
<1> QED
  BY <1>4, <1>6 DEF q

(* A Stage as drawn but for its routes, which come after the flow. *)
Staged(d) ==
  [s \in DOMAIN d.stages |->
     [Asked(s, d.stages[s]) EXCEPT !.routes = IF s \in DOMAIN meant.stages THEN meant.stages[s].routes ELSE Absent]]
Drawn(d) == DOMAIN d.stages \subseteq StageName /\ d.stages \in [DOMAIN d.stages -> [Field -> Whatever]]

LEMMA StagedIs ==
  ASSUME NEW d, Drawn(d), NEW s \in DOMAIN d.stages, meant.stages \in [DOMAIN meant.stages -> [Field -> Whatever]]
  PROVE  /\ s \in DOMAIN meant.stages => Staged(d)[s] = Redone(meant.stages[s], Altered(d, s), d.stages[s])
         /\ s \notin DOMAIN meant.stages => Staged(d)[s] = [d.stages[s] EXCEPT !.routes = Absent]
         /\ [Staged(d)[s] EXCEPT !["routes"] = d.stages[s].routes] = Asked(s, d.stages[s])
         /\ Asked(s, d.stages[s]) \in [Field -> Whatever]
<1> DEFINE c == d.stages[s]
           st == meant.stages
<1>0. c \in [Field -> Whatever] /\ "option" \in Field /\ "routes" \in Field
  BY DEF Drawn, Field
<1>1. CASE s \in DOMAIN st
  <2>1. st[s] \in [Field -> Whatever]
    BY <1>1
  <2>2. Asked(s, c) = [f \in Field |-> IF f = "option" /\ c.option = Absent THEN st[s].option ELSE c[f]]
    <3>1. CASE c.option = Absent
      BY <1>0, <1>1, <3>1 DEF Asked
    <3>2. CASE c.option # Absent
      BY <1>0, <1>1, <3>2 DEF Asked
    <3> QED
      BY <3>1, <3>2
  <2>3. Asked(s, c) \in [Field -> Whatever]
    BY <1>0, <2>1, <2>2
  <2>4. Staged(d)[s] = [Asked(s, c) EXCEPT !.routes = st[s].routes]
    BY <1>1 DEF Staged
  <2>5. ASSUME NEW f \in Field PROVE Staged(d)[s][f] = IF f \in Altered(d, s) THEN c[f] ELSE st[s][f]
    <3>1. CASE f = "routes"
      <4>1. f \notin Altered(d, s)
        BY <3>1 DEF Altered
      <4>2. Staged(d)[s][f] = st[s].routes
        BY <2>3, <2>4, <3>1
      <4> QED
        BY <3>1, <4>1, <4>2
    <3>2. CASE f # "routes"
      <4>1. Staged(d)[s][f] = IF f = "option" /\ c.option = Absent THEN st[s].option ELSE c[f]
        BY <2>2, <2>4, <3>2
      <4>2. f \in Altered(d, s) <=> c[f] # st[s][f] /\ ~(f = "option" /\ c[f] = Absent)
        BY <3>2 DEF Altered
      <4> QED
        BY <4>1, <4>2
    <3> QED
      BY <3>1, <3>2
  <2>6. Staged(d)[s] \in [Field -> Whatever]
    BY <1>0, <2>1, <2>3, <2>4
  <2>7. Staged(d)[s] = Redone(st[s], Altered(d, s), c)
    BY <2>5, <2>6 DEF Redone
  <2>8. [Staged(d)[s] EXCEPT !["routes"] = c.routes] = Asked(s, c)
    <3> DEFINE A == Asked(s, c)
    <3>1. A["routes"] = c.routes
      BY <1>0, <2>2
    <3>2. A \in [Field -> Whatever] /\ Staged(d)[s] = [A EXCEPT !["routes"] = st[s].routes]
      BY <2>3, <2>4
    <3> HIDE DEF A
    <3>3. [Staged(d)[s] EXCEPT !["routes"] = c.routes] = A
      BY <3>1, <3>2
    <3> QED
      BY <3>3 DEF A
  <2> QED
    BY <1>1, <2>3, <2>7, <2>8
<1>2. CASE s \notin DOMAIN st
  <2>1. Asked(s, c) = c
    BY <1>2 DEF Asked
  <2>2. Staged(d)[s] = [c EXCEPT !.routes = Absent]
    BY <1>2, <2>1 DEF Staged
  <2>3. [Staged(d)[s] EXCEPT !["routes"] = c.routes] = c
    BY <1>0, <2>2
  <2> QED
    BY <1>0, <1>2, <2>1, <2>2, <2>3
<1> QED
  BY <1>1, <1>2

LEMMA StagesStaged ==
  ASSUME NEW t, NEW fl, NEW d, Drawn(d), MeantTyped(meant.stages, meant.flow),
         Reads(t, [r \in DOMAIN meant.stages \cap DOMAIN d.stages |-> meant.stages[r]], fl)
  PROVE  Reads(EachStage(t, d, SetToSeq(DOMAIN d.stages), "insert or patch"), Staged(d), fl)
<1> DEFINE S == DOMAIN d.stages
           st == meant.stages
           both == DOMAIN st \cap S
           q == SetToSeq(S)
           doc == [k \in Nat |-> Partly(st, Staged(d), both \cup Done(q, k), Done(q, k))]
<1>1. S \in SUBSET StageName /\ st \in [DOMAIN st -> [Field -> Whatever]]
  BY DEF Drawn, MeantTyped
<1>2. DoneOnce(q, S)
  BY <1>1, OneByOne
<1> HIDE DEF q
<1>3. Len(q) \in Nat /\ Done(q, 0) = {} /\ Done(q, Len(q)) = S
  BY <1>2 DEF DoneOnce
<1>4. DOMAIN Staged(d) = S /\ Staged(d) = [r \in S |-> Staged(d)[r]]
  BY DEF Staged
<1>5. doc[0] = [r \in both |-> st[r]] /\ doc[Len(q)] = Staged(d)
  <2>1. both \cup {} = both /\ both \cup S = S
    OBVIOUS
  <2>2. doc[0] = Partly(st, Staged(d), both, {}) /\ doc[Len(q)] = Partly(st, Staged(d), S, S)
    BY <1>3, <2>1
  <2> HIDE DEF doc, both
  <2> QED
    BY <1>4, <2>2 DEF Partly
<1>6. ASSUME NEW k \in 1 .. Len(q), NEW u, Reads(u, doc[k - 1], fl)
      PROVE  Reads(PatchStage(u, d, q[k], "insert or patch"), doc[k], fl)
  <2> DEFINE s == q[k]
             D == Done(q, k - 1)
             old == doc[k - 1]
  <2>1. s \in S /\ s \notin D /\ Done(q, k) = D \cup {s}
    BY <1>2 DEF DoneOnce
  <2>2. k \in Nat /\ k - 1 \in Nat
    BY <1>3
  <2>3. old = Partly(st, Staged(d), both \cup D, D) /\ doc[k] = Partly(st, Staged(d), both \cup (D \cup {s}), D \cup {s})
    BY <2>1, <2>2
  <2>4. Reads(u, old, fl)
    BY <1>6
  <2>5. d.stages[s] \in [Field -> Whatever] /\ s \in StageName
    BY <1>1, <2>1 DEF Drawn
  <2> HIDE DEF doc, old, s, D
  <2>6. CASE s \in DOMAIN st
    <3>1. s \in DOMAIN old /\ old[s] = st[s]
      BY <2>1, <2>3, <2>6 DEF Partly
    <3>2. Altered(d, s) \in SUBSET (Field \ {"routes"})
      BY DEF Altered
    <3>3. Reads(PatchFields(u, s, Altered(d, s), d.stages[s]),
              [old EXCEPT ![s] = Redone(old[s], Altered(d, s), d.stages[s])], fl)
      BY <2>4, <2>5, <3>1, <3>2, FieldsRead
    <3>4. Staged(d)[s] = Redone(st[s], Altered(d, s), d.stages[s])
      BY <1>1, <2>1, <2>6, StagedIs
    <3>5. [old EXCEPT ![s] = Staged(d)[s]] = doc[k]
      <4>1. s \in both
        BY <2>1, <2>6
      <4>2. both \cup (D \cup {s}) = both \cup D
        BY <4>1
      <4> QED
        BY <2>3, <4>1, <4>2 DEF Partly
    <3>6. PatchStage(u, d, s, "insert or patch") = PatchFields(u, s, Altered(d, s), d.stages[s])
      BY <2>6 DEF PatchStage
    <3> QED
      BY <3>1, <3>3, <3>4, <3>5, <3>6 DEF s
  <2>7. CASE s \notin DOMAIN st
    <3>1. s \in StageName \ DOMAIN old
      BY <2>1, <2>3, <2>5, <2>7 DEF Partly
    <3>2. [d.stages[s] EXCEPT !.routes = Absent] = Staged(d)[s]
      BY <1>1, <2>1, <2>7, StagedIs
    <3>3. [d.stages[s] EXCEPT !.routes = Absent] \in [Field -> Whatever]
      BY <2>5 DEF Whatever
    <3>4. Reads(InsertStage(u, s, Staged(d)[s]), Joined(old, s, Staged(d)[s]), fl)
      BY <2>4, <3>1, <3>2, <3>3, InsertReads
    <3>5. Joined(old, s, Staged(d)[s]) = doc[k]
      <4>1. DOMAIN old \cup {s} = both \cup (D \cup {s})
        BY <2>3 DEF Partly
      <4>2. ASSUME NEW r \in both \cup (D \cup {s})
            PROVE  (IF r = s THEN Staged(d)[s] ELSE old[r]) = IF r \in D \cup {s} THEN Staged(d)[r] ELSE st[r]
        BY <2>3 DEF Partly
      <4> QED
        BY <2>3, <4>1, <4>2 DEF Partly, Joined
    <3>6. PatchStage(u, d, s, "insert or patch") = InsertStage(u, s, Staged(d)[s])
      BY <2>7, <3>2 DEF PatchStage
    <3> QED
      BY <3>4, <3>5, <3>6 DEF s
  <2> QED
    BY <2>6, <2>7
<1> HIDE DEF doc
<1>7. Reads(t, doc[0], fl)
  BY <1>5
<1>8. Reads(EachStage(t, d, q, "insert or patch"), doc[Len(q)], fl)
  BY <1>3, <1>6, <1>7, EachStageReads
<1> QED
  BY <1>5, <1>8 DEF q

LEMMA StagesRouted ==
  ASSUME NEW t, NEW fl, NEW d, Drawn(d), MeantTyped(meant.stages, meant.flow), Reads(t, Staged(d), fl)
  PROVE  Reads(EachStage(t, d, SetToSeq(DOMAIN d.stages), "routes"), [s \in DOMAIN d.stages |-> Asked(s, d.stages[s])], fl)
<1> DEFINE S == DOMAIN d.stages
           asked == [s \in S |-> Asked(s, d.stages[s])]
           q == SetToSeq(S)
           doc == [k \in Nat |-> Partly(Staged(d), asked, S, Done(q, k))]
<1>1. S \in SUBSET StageName /\ meant.stages \in [DOMAIN meant.stages -> [Field -> Whatever]]
  BY DEF Drawn, MeantTyped
<1>2. DoneOnce(q, S)
  BY <1>1, OneByOne
<1> HIDE DEF q
<1>3. Len(q) \in Nat /\ Done(q, 0) = {} /\ Done(q, Len(q)) = S
  BY <1>2 DEF DoneOnce
<1>4. DOMAIN Staged(d) = S /\ Staged(d) = [r \in S |-> Staged(d)[r]]
  BY DEF Staged
<1>5. doc[0] = Staged(d) /\ doc[Len(q)] = asked
  <2>2. doc[0] = Partly(Staged(d), asked, S, {}) /\ doc[Len(q)] = Partly(Staged(d), asked, S, S)
    BY <1>3
  <2>3. asked = [r \in S |-> asked[r]]
    OBVIOUS
  <2> HIDE DEF doc, asked
  <2> QED
    BY <1>4, <2>2, <2>3 DEF Partly
<1>6. ASSUME NEW k \in 1 .. Len(q), NEW u, Reads(u, doc[k - 1], fl)
      PROVE  Reads(PatchStage(u, d, q[k], "routes"), doc[k], fl)
  <2> DEFINE s == q[k]
             D == Done(q, k - 1)
             old == doc[k - 1]
  <2>1. s \in S /\ s \notin D /\ Done(q, k) = D \cup {s}
    BY <1>2 DEF DoneOnce
  <2>2. k \in Nat /\ k - 1 \in Nat
    BY <1>3
  <2>3. old = Partly(Staged(d), asked, S, D) /\ doc[k] = Partly(Staged(d), asked, S, D \cup {s})
    BY <2>1, <2>2
  <2>4. Reads(u, old, fl)
    BY <1>6
  <2>5. d.stages[s] \in [Field -> Whatever] /\ asked[s] = Asked(s, d.stages[s]) /\ "routes" \in Field
    BY <1>1, <2>1 DEF Drawn, Field
  <2>6. d.stages[s].routes \in Whatever
    BY <2>5
  <2>7. [Staged(d)[s] EXCEPT !["routes"] = d.stages[s].routes] = asked[s]
    BY <1>1, <2>1, <2>5, StagedIs
  <2> HIDE DEF doc, old, s, D, asked
  <2>8. s \in DOMAIN old /\ old[s] = Staged(d)[s]
    BY <2>1, <2>3 DEF Partly
  <2>9. Reads(PatchField(u, s, "routes", d.stages[s].routes), [old EXCEPT ![s]["routes"] = d.stages[s].routes], fl)
    BY <2>4, <2>5, <2>6, <2>8, FieldReads
  <2>10. [old EXCEPT ![s]["routes"] = d.stages[s].routes] = doc[k]
    <3>1. [old EXCEPT ![s]["routes"] = d.stages[s].routes] = [old EXCEPT ![s] = asked[s]]
      BY <2>7, <2>8
    <3>2. [old EXCEPT ![s] = asked[s]] = doc[k]
      BY <2>1, <2>3 DEF Partly
    <3> QED
      BY <3>1, <3>2
  <2>11. PatchStage(u, d, s, "routes") = PatchField(u, s, "routes", d.stages[s].routes)
    BY DEF PatchStage
  <2> QED
    BY <2>9, <2>10, <2>11 DEF s
<1> HIDE DEF doc, asked
<1>7. Reads(t, doc[0], fl)
  BY <1>5
<1>8. Reads(EachStage(t, d, q, "routes"), doc[Len(q)], fl)
  BY <1>3, <1>6, <1>7, EachStageReads
<1> QED
  BY <1>5, <1>8 DEF q, asked

(* What studio_graph_save leaves reads as the drawing. *)
LEMMA DrawingRead ==
  ASSUME NEW d, Drawn(d), d.flow \in Seq(StageName), Reads(text, meant.stages, meant.flow)
  PROVE  Reads(Redrawn(d), [s \in DOMAIN d.stages |-> Asked(s, d.stages[s])], d.flow)
<1> DEFINE st == meant.stages
           removed == EachStage(text, d, SetToSeq(DOMAIN st \ DOMAIN d.stages), "remove")
           staged == EachStage(removed, d, SetToSeq(DOMAIN d.stages), "insert or patch")
<1>0. MeantTyped(meant.stages, meant.flow)
  BY ReadsTyped
<1>1. Reads(removed, [r \in DOMAIN st \ (DOMAIN st \ DOMAIN d.stages) |-> st[r]], meant.flow)
  BY StagesRemoved
<1>2. DOMAIN st \ (DOMAIN st \ DOMAIN d.stages) = DOMAIN st \cap DOMAIN d.stages
  OBVIOUS
<1>3. Reads(removed, [r \in DOMAIN st \cap DOMAIN d.stages |-> st[r]], meant.flow)
  BY <1>1, <1>2
<1>4. Redrawn(d) = EachStage(ReplaceFlow(staged, d.flow), d, SetToSeq(DOMAIN d.stages), "routes")
  BY DEF Redrawn
<1> HIDE DEF removed
<1>5. Reads(staged, Staged(d), meant.flow)
  BY <1>0, <1>3, StagesStaged
<1> HIDE DEF staged
<1>6. Reads(ReplaceFlow(staged, d.flow), Staged(d), d.flow)
  BY <1>5, FlowReads
<1> QED
  BY <1>0, <1>4, <1>6, StagesRouted

(* Among gathers what the lines of a kind say, line after line. *)
Said(t) == {t[i].what : i \in 1 .. Len(t)}
Gathered(h, t, kind) ==
  /\ h[0] = <<>> /\ \A k \in 0 .. Len(t) : h[k] \in Seq(Said(t))
  /\ \A k \in 1 .. Len(t) : /\ t[k].is = kind => h[k] = Append(h[k - 1], t[k].what)
                            /\ t[k].is # kind => h[k] = h[k - 1]
  /\ Among(t, kind) = h[Len(t)]
LEMMA AmongSteps ==
  ASSUME NEW t \in Seq(TextLine), NEW kind
  PROVE  \E h : Gathered(h, t, kind)
<1> DEFINE n == Len(t)
           W == Said(t)
           ss == [i \in 1 .. n |-> IF t[i].is = kind THEN <<t[i].what>> ELSE <<>>]
<1>0. n \in Nat /\ \A k \in 1 .. n : t[k].what \in W
  BY DEF Said
<1>1. ss \in [1 .. n -> Seq(W)]
  <2>1. \A k \in 1 .. n : <<t[k].what>> \in Seq(W) /\ <<>> \in Seq(W)
    BY <1>0
  <2> HIDE DEF n, W
  <2> QED
    BY <2>1
<1>2. Among(t, kind) = FlattenSeq(ss)
  BY DEF Among
<1>3. \A k \in 1 .. n : ss[k] = IF t[k].is = kind THEN <<t[k].what>> ELSE <<>>
  OBVIOUS
<1> HIDE DEF ss, n, W
<1>4. PICK h \in [0 .. n -> Seq(W)] : Flattened(h, ss, n)
  BY <1>0, <1>1, FlattenSteps
<1>5. ASSUME NEW k \in 1 .. n
      PROVE  /\ t[k].is = kind => h[k] = Append(h[k - 1], t[k].what)
             /\ t[k].is # kind => h[k] = h[k - 1]
  <2>1. h[k] = h[k - 1] \o ss[k] /\ h[k - 1] \in Seq(W)
    <3>1. k - 1 \in 0 .. n
      BY <1>0
    <3> QED
      BY <1>4, <3>1 DEF Flattened
  <2>2. t[k].is = kind => h[k] = Append(h[k - 1], t[k].what)
    <3>1. Append(h[k - 1], t[k].what) = h[k - 1] \o <<t[k].what>>
      BY <1>0, <2>1, AppendIsConcat
    <3> QED
      BY <1>3, <2>1, <3>1
  <2>3. t[k].is # kind => h[k] = h[k - 1]
    <3>1. h[k - 1] \o <<>> = h[k - 1]
      BY <2>1, ConcatEmptySeq
    <3> QED
      BY <1>3, <2>1, <3>1
  <2> QED
    BY <2>2, <2>3
<1>6. h[0] = <<>> /\ Among(t, kind) = h[n]
  BY <1>2, <1>4 DEF Flattened
<1> QED
  BY <1>4, <1>5, <1>6 DEF Gathered, n, W

(* h is what v begins with, up to n. *)
Partial(h, v, n) == Len(h) = n /\ \A i \in 1 .. n : h[i] = v[i]
LEMMA PartialGrows ==
  ASSUME NEW W, NEW h \in Seq(W), NEW x \in W, NEW v, NEW n \in Nat, Partial(h, v, n), x = v[n + 1]
  PROVE  Partial(Append(h, x), v, n + 1)
<1> DEFINE g == Append(h, x)
<1>1. /\ Len(g) = Len(h) + 1 /\ \A i \in 1 .. Len(h) : g[i] = h[i]
      /\ g[Len(h) + 1] = x
  BY AppendProperties
<1>2. \A i \in 1 .. n + 1 : i \in 1 .. n \/ i = n + 1
  OBVIOUS
<1> HIDE DEF g
<1>3. Len(g) = n + 1 /\ \A i \in 1 .. n + 1 : g[i] = v[i]
  BY <1>1, <1>2 DEF Partial
<1> QED
  BY <1>3 DEF Partial, g

LEMMA PartialAll ==
  ASSUME NEW W, NEW h \in Seq(W), NEW V, NEW v \in Seq(V), Partial(h, v, Len(v))
  PROVE  h = v
<1>1. Len(h) = Len(v) /\ \A i \in 1 .. Len(v) : h[i] = v[i]
  BY DEF Partial
<1> QED
  BY <1>1

LEMMA NothingYet == ASSUME NEW v PROVE Partial(<<>>, v, 0)
BY DEF Partial

(* One line of the flow or of a value. *)
LEMMA StepFlow ==
  ASSUME NEW st, NEW fl, NEW p, NEW l, NEW q, Moves(p, l, q, st, fl), p.at = "flow", l.is # "head"
  PROVE  /\ l.is = "item" => p.n \in Nat /\ q.n = p.n + 1 /\ l.what = fl[p.n + 1]
         /\ l.is # "item" => q = p
<1>1. l.is \notin {"stage", "field", "deep"}
  BY SpotsAre DEF Moves
<1>2. l.is # "more"
  BY SpotsAre DEF Moves
<1>3. CASE l.is = "item"
  <2>1. PICK n \in Nat : p = InFlow(n) /\ n + 1 <= Len(fl) /\ l.what = fl[n + 1] /\ q = InFlow(n + 1)
    BY <1>3 DEF Moves
  <2>2. p.n = n /\ q.n = n + 1
    BY <2>1, SpotsAre
  <2> QED
    BY <1>3, <2>1, <2>2
<1>4. CASE l.is # "item"
  <2>1. q = Closed(p)
    BY <1>1, <1>2, <1>4 DEF Moves
  <2> QED
    BY <1>4, <2>1 DEF Closed
<1> QED
  BY <1>3, <1>4

LEMMA FlowRead ==
  ASSUME NEW t, NEW L, NEW st, NEW fl, Means(t, L, st, fl)
  PROVE  Among(t, "item") = fl
<1> DEFINE k == At(t, "head", "flow")
           e == First(t, k + 1, {"head"})
           len == Len(t)
<1>0. /\ t \in Seq(TextLine) /\ len \in Nat /\ MeantTyped(st, fl) /\ Whole(L[len], st, fl)
      /\ \A i \in 1 .. len : Moves(L[i - 1], t[i], L[i], st, fl)
  BY DEF Means, Parsed
<1>1. FlowBounded(t, L, k, e, st, fl)
  BY FlowBounds
<1>2. PICK h : Gathered(h, t, "item")
  BY <1>0, AmongSteps
<1>3. fl \in Seq(StageName) /\ Len(fl) \in Nat
  BY <1>0 DEF MeantTyped
<1> HIDE DEF k, e
<1>4. /\ k \in 1 .. len /\ e \in k + 1 .. len + 1 /\ t[k].is = "head" /\ t[k].what = "flow"
      /\ \A i \in k .. e - 1 : L[i].at = "flow"
      /\ \A i \in k + 1 .. e - 1 : t[i].is # "head"
      /\ e <= len => t[e].is = "head"
      /\ \A i \in 0 .. len : L[i].at = "flow" => i \in k .. e - 1
  BY <1>1 DEF FlowBounded
<1>5. /\ h[0] = <<>> /\ \A i \in 0 .. len : h[i] \in Seq(Said(t))
      /\ \A i \in 1 .. len : /\ t[i].is = "item" => h[i] = Append(h[i - 1], t[i].what)
                             /\ t[i].is # "item" => h[i] = h[i - 1]
      /\ Among(t, "item") = h[len]
  BY <1>2 DEF Gathered
<1> HIDE DEF len
<1> DEFINE Claim(i) == /\ i < k => h[i] = <<>>
                       /\ k <= i /\ i < e => Partial(h[i], fl, L[i].n)
                       /\ e <= i => Partial(h[i], fl, Len(fl))
           T == {i \in Nat : i <= len => Claim(i)}
<1>6. 0 \in T
  BY <1>0, <1>4, <1>5
<1>7. ASSUME NEW m \in Nat, m \in T PROVE m + 1 \in T
  <2> SUFFICES ASSUME m + 1 <= len PROVE Claim(m + 1)
    OBVIOUS
  <2> DEFINE i == m + 1
  <2>1. i \in 1 .. len /\ i - 1 = m /\ m \in 0 .. len /\ i \in 0 .. len
    BY <1>0
  <2>2. Claim(m)
    BY <1>0, <1>7, <2>1
  <2> HIDE DEF i
  <2>3. Moves(L[m], t[i], L[i], st, fl)
    BY <1>0, <2>1
  <2>4. /\ t[i].is = "item" => h[i] = Append(h[m], t[i].what)
        /\ t[i].is # "item" => h[i] = h[m]
    BY <1>5, <2>1
  <2>5. t[i].is = "item" => L[m].at = "flow" /\ L[i].at = "flow"
    BY <2>3, StepValue
  <2>6. CASE i < k
    <3>1. t[i].is # "item"
      <4>1. i \notin k .. e - 1
        BY <1>0, <1>4, <2>1, <2>6
      <4> QED
        BY <1>4, <2>1, <2>5, <4>1
    <3>2. h[i] = <<>>
      BY <1>0, <1>4, <2>1, <2>2, <2>4, <2>6, <3>1
    <3> QED
      BY <1>0, <1>4, <2>1, <2>6, <3>2 DEF i
  <2>7. CASE i = k
    <3>1. L[i] = InFlow(0)
      BY <1>4, <2>3, <2>7, StepSection
    <3>2. h[i] = <<>> /\ L[i].n = 0
      BY <1>0, <1>4, <2>1, <2>2, <2>4, <2>7, <3>1, SpotsAre
    <3>3. Partial(h[i], fl, L[i].n)
      BY <3>2, NothingYet
    <3> QED
      BY <1>0, <1>4, <2>1, <2>7, <3>3 DEF i
  <2>8. CASE k < i /\ i < e
    <3>1. L[m].at = "flow" /\ t[i].is # "head" /\ k <= m /\ m < e
      BY <1>0, <1>4, <2>1, <2>8
    <3>2. Partial(h[m], fl, L[m].n)
      BY <2>2, <3>1
    <3>3. CASE t[i].is = "item"
      <4>1. L[m].n \in Nat /\ L[i].n = L[m].n + 1 /\ t[i].what = fl[L[m].n + 1]
        BY <2>3, <3>1, <3>3, StepFlow
      <4>2. h[m] \in Seq(Said(t)) /\ t[i].what \in Said(t)
        BY <1>5, <2>1 DEF Said, len
      <4>3. Partial(h[i], fl, L[i].n)
        BY <2>4, <3>2, <3>3, <4>1, <4>2, PartialGrows
      <4> QED
        BY <1>0, <1>4, <2>1, <2>8, <4>3 DEF i
    <3>4. CASE t[i].is # "item"
      <4>1. Partial(h[i], fl, L[i].n)
        BY <2>3, <2>4, <3>1, <3>2, <3>4, StepFlow
      <4> QED
        BY <1>0, <1>4, <2>1, <2>8, <4>1 DEF i
    <3> QED
      BY <3>3, <3>4
  <2>9. CASE i = e
    <3>0. k <= m /\ m < e /\ m \in k .. e - 1 /\ e <= len
      BY <1>0, <1>4, <2>1, <2>9
    <3>1. L[m].at = "flow" /\ t[i].is = "head" /\ k <= m /\ m < e
      BY <1>4, <2>9, <3>0
    <3>2. Whole(L[m], st, fl)
      BY <2>3, <3>1, StepValue
    <3>3. L[m].n = Len(fl)
      BY <3>1, <3>2 DEF Whole
    <3>4. Partial(h[i], fl, Len(fl))
      BY <2>2, <2>4, <3>1, <3>3
    <3> QED
      BY <1>0, <1>4, <2>1, <2>9, <3>4 DEF i
  <2>10. CASE e < i
    <3>1. e <= m /\ i \notin k .. e - 1
      BY <1>0, <1>4, <2>1, <2>10
    <3>2. L[i].at # "flow"
      BY <1>4, <2>1, <3>1
    <3>3. Partial(h[i], fl, Len(fl))
      BY <2>2, <2>4, <2>5, <3>1, <3>2
    <3> QED
      BY <1>0, <1>4, <2>1, <2>10, <3>3 DEF i
  <2>11. i < k \/ i = k \/ (k < i /\ i < e) \/ i = e \/ e < i
    BY <1>0, <1>4, <2>1
  <2> HIDE DEF Claim
  <2> QED
    BY <2>6, <2>7, <2>8, <2>9, <2>10, <2>11
<1>8. Nat \subseteq T
  <2> HIDE DEF T
  <2> QED
    BY <1>6, <1>7, AllNaturals
<1>9. Claim(len)
  <2>1. len \in T
    <3> HIDE DEF T
    <3> QED
      BY <1>0, <1>8
  <2> QED
    BY <1>0, <2>1
<1>10. Partial(h[len], fl, Len(fl))
  <2>1. CASE e <= len
    BY <1>9, <2>1
  <2>2. CASE len < e
    <3>1. k <= len /\ L[len].at = "flow"
      BY <1>0, <1>4, <2>2
    <3>2. L[len].n = Len(fl)
      BY <1>0, <3>1 DEF Whole
    <3> QED
      BY <1>9, <2>2, <3>1, <3>2
  <2> QED
    BY <1>0, <1>4, <2>1, <2>2
<1>11. h[len] \in Seq(Said(t))
  BY <1>0, <1>5
<1> QED
  BY <1>3, <1>5, <1>10, <1>11, PartialAll

LEMMA StepDeeper ==
  ASSUME NEW st, NEW fl, NEW p, NEW l, NEW q, Moves(p, l, q, st, fl), NEW s \in DOMAIN st, p.stage = {s},
         p.at \in {"stage", "value"}, l.is \notin {"field", "stage", "head"}
  PROVE  /\ l.is = "more" => /\ p.at = "value" /\ q.at = "value" /\ p.n \in Nat /\ q.n = p.n + 1
                             /\ l.what = st[s][p.field][p.n + 1]
         /\ l.is # "more" => \/ q = p
                             \/ p.at = "value" /\ Whole(p, st, fl) /\ q.at = "stage"
         /\ q.at = "value" => q.field = p.field
<1>1. l.is # "item"
  BY SpotsAre DEF Moves
<1>2. CASE l.is = "more"
  <2>1. PICK r \in DOMAIN st, f \in Field, n \in Nat :
          /\ p = InValue(r, f, n) /\ n + 1 <= Len(st[r][f]) /\ l.what = st[r][f][n + 1]
          /\ q = InValue(r, f, n + 1)
    BY <1>2 DEF Moves
  <2>2. p.stage = {r} /\ p.field = f /\ p.n = n /\ p.at = "value" /\ q.at = "value" /\ q.n = n + 1 /\ q.field = f
    BY <2>1 DEF InValue
  <2>3. r = s
    BY <2>2
  <2> QED
    BY <1>2, <2>1, <2>2, <2>3
<1>3. CASE l.is = "deep"
  BY <1>3 DEF Moves
<1>4. CASE l.is \notin {"more", "deep"}
  <2>1. Whole(p, st, fl) /\ q = Closed(p)
    BY <1>1, <1>4 DEF Moves
  <2>2. q = p \/ (p.at = "value" /\ q.at = "stage")
    BY <2>1 DEF Closed
  <2> QED
    BY <1>4, <2>1, <2>2
<1> QED
  BY <1>2, <1>3, <1>4

(* What is read behind the first line of a value is the rest of it. *)
Rest(v) == [i \in 1 .. Len(v) - 1 |-> v[i + 1]]
LEMMA ValueRead ==
  ASSUME NEW t, NEW L, NEW st, NEW fl, Means(t, L, st, fl), NEW s \in DOMAIN st, NEW f \in Field,
         NEW i \in 1 .. Len(t), t[i].is = "field", t[i].what = f, L[i].stage = {s}
  PROVE  st[s][f] # Absent /\ ValueAt(t, i) = st[s][f]
<1> DEFINE e == First(t, i + 1, {"field", "stage", "head"})
           u == SubSeq(t, i + 1, e - 1)
           v == st[s][f]
           len == Len(t)
           r == e - 1 - i
<1>0. /\ t \in Seq(TextLine) /\ len \in Nat /\ MeantTyped(st, fl) /\ Whole(L[len], st, fl)
      /\ \A j \in 1 .. len : Moves(L[j - 1], t[j], L[j], st, fl)
  BY DEF Means, Parsed
<1>1. v # Absent /\ t[i].value = v[1] /\ L[i] = InValue(s, f, 1)
  <2>1. Moves(L[i - 1], t[i], L[i], st, fl)
    BY <1>0
  <2>2. PICK x \in DOMAIN st : st[x][t[i].what] # Absent /\ t[i].value = st[x][t[i].what][1]
        /\ L[i] = InValue(x, t[i].what, 1)
    BY <2>1 DEF Moves
  <2>3. L[i].stage = {x}
    BY <2>2, SpotsAre
  <2>4. x = s
    BY <2>3
  <2> QED
    BY <2>2, <2>4
<1>2. v \in Seq(STRING) \ {<<>>}
  BY <1>0, <1>1 DEF MeantTyped, Whatever
<1>3. Len(v) \in Nat /\ 1 <= Len(v)
  BY <1>2
<1> HIDE DEF v
<1>4. /\ e \in i + 1 .. len + 1 /\ \A j \in i + 1 .. e - 1 : t[j].is \notin {"field", "stage", "head"}
      /\ e <= len => t[e].is \in {"field", "stage", "head"}
  <2>1. i + 1 \in 1 .. Len(t) + 1
    BY <1>0
  <2> QED
    BY <1>0, <2>1, FirstLineIs
<1>5. ValueAt(t, i) = <<t[i].value>> \o Among(u, "more")
  BY DEF ValueAt
<1> HIDE DEF e
<1>6. u \in Seq(TextLine) /\ Len(u) = r /\ r \in Nat /\ \A m \in 1 .. r : u[m] = t[i + m]
  <2>0. i \in Nat /\ e \in Nat /\ i < e
    <3>1. e \in i + 1 .. len + 1
      BY <1>4
    <3>2. len \in Nat
      BY <1>0
    <3> QED
      BY <3>1, <3>2
  <2>1. i + 1 \in Int /\ e - 1 \in Int /\ r \in Nat /\ (e - 1) - (i + 1) + 1 = r
    BY <2>0
  <2>2. \A j \in i + 1 .. e - 1 : t[j] \in TextLine
    <3>1. \A j \in i + 1 .. e - 1 : j \in 1 .. len
      BY <1>0, <1>4
    <3>2. \A j \in 1 .. len : t[j] \in TextLine
      BY <1>0
    <3> QED
      BY <3>1, <3>2
  <2>3. /\ u \in Seq(TextLine) /\ Len(u) = IF i + 1 <= e - 1 THEN r ELSE 0
        /\ \A m \in 1 .. r : u[m] = t[(i + 1) + m - 1]
    BY <2>1, <2>2, SubSeqProperties
  <2>4. (IF i + 1 <= e - 1 THEN r ELSE 0) = r
    BY <1>0, <1>4
  <2>5. \A m \in 1 .. r : (i + 1) + m - 1 = i + m
    BY <2>1
  <2> QED
    BY <2>1, <2>3, <2>4, <2>5
<1> HIDE DEF u
<1>7. PICK h : Gathered(h, u, "more")
  BY <1>6, AmongSteps
<1>8. /\ h[0] = <<>> /\ \A m \in 0 .. r : h[m] \in Seq(Said(u))
      /\ \A m \in 1 .. r : /\ t[i + m].is = "more" => h[m] = Append(h[m - 1], t[i + m].what)
                           /\ t[i + m].is # "more" => h[m] = h[m - 1]
      /\ Among(u, "more") = h[r]
  BY <1>6, <1>7 DEF Gathered
<1>9. /\ \A m \in 1 .. r : i + m \in 1 .. len /\ i + m \in i + 1 .. e - 1 /\ (i + m) - 1 = i + (m - 1)
      /\ r = e - 1 - i /\ i + r = e - 1
  BY <1>0, <1>4
<1> HIDE DEF r, len
<1> DEFINE w == Rest(v)
           Claim(m) == /\ L[i + m].stage = {s} /\ L[i + m].at \in {"stage", "value"}
                       /\ L[i + m].at = "value" => L[i + m].field = f /\ L[i + m].n \in Nat /\ Partial(h[m], w, L[i + m].n - 1)
                       /\ L[i + m].at = "stage" => Partial(h[m], w, Len(v) - 1)
           T == {m \in Nat : m <= r => Claim(m)}
<1>10. Len(w) = Len(v) - 1 /\ w \in Seq(STRING) /\ \A j \in 1 .. Len(v) - 1 : w[j] = v[j + 1]
  <2>1. \A j \in 1 .. Len(v) - 1 : v[j + 1] \in STRING
    BY <1>2, <1>3
  <2>2. Len(v) - 1 \in Nat
    BY <1>3
  <2> QED
    BY <2>1, <2>2 DEF Rest
<1> HIDE DEF w
<1>11. 0 \in T
  <2>1. i + 0 = i
    BY <1>0
  <2>2. Partial(h[0], w, 1 - 1)
    BY <1>8, NothingYet
  <2> QED
    BY <1>1, <2>1, <2>2, SpotsAre
<1>12. ASSUME NEW m \in Nat, m \in T PROVE m + 1 \in T
  <2> SUFFICES ASSUME m + 1 <= r PROVE Claim(m + 1)
    OBVIOUS
  <2> DEFINE k == m + 1
             p == L[i + m]
             q == L[i + k]
             l == t[i + k]
  <2>1. k \in 1 .. r /\ k - 1 = m /\ m \in 0 .. r
    BY <1>6
  <2>0. i + m \in 0 .. len
    <3>1. m \in 0 .. r /\ i \in Nat /\ i + r <= len
      BY <1>0, <1>4, <1>9, <2>1
    <3> QED
      BY <1>0, <1>6, <3>1
  <2>2. Claim(m)
    BY <1>6, <1>12, <2>1
  <2>3. Moves(p, l, q, st, fl) /\ l.is \notin {"field", "stage", "head"}
    <3>1. i + k \in 1 .. len /\ i + k \in i + 1 .. e - 1 /\ (i + k) - 1 = i + m
      BY <1>9, <2>1
    <3> HIDE DEF k
    <3> QED
      BY <1>0, <1>4, <3>1
  <2>4. /\ l.is = "more" => h[k] = Append(h[m], l.what)
        /\ l.is # "more" => h[k] = h[m]
    BY <1>8, <2>1
  <2>5. h[m] \in Seq(Said(u)) /\ l.what \in Said(u)
    BY <1>6, <1>8, <2>1 DEF Said
  <2> HIDE DEF k, p, q, l
  <2>6. p.stage = {s} /\ p.at \in {"stage", "value"}
    BY <2>2 DEF p
  <2>7. p.at = "value" => p.field = f /\ p.n \in Nat /\ Partial(h[m], w, p.n - 1)
    BY <2>2 DEF p
  <2>8. p.at = "stage" => Partial(h[m], w, Len(v) - 1)
    BY <2>2 DEF p
  <2>9. /\ l.is = "more" => /\ p.at = "value" /\ q.at = "value" /\ p.n \in Nat /\ q.n = p.n + 1
                             /\ l.what = st[s][p.field][p.n + 1]
        /\ l.is # "more" => \/ q = p
                            \/ p.at = "value" /\ Whole(p, st, fl) /\ q.at = "stage"
        /\ q.at = "value" => q.field = p.field
    BY <2>3, <2>6, StepDeeper
  <2>10. q.stage = {s} /\ q.at \in {"stage", "value"}
    <3>1. Placed(p, st, fl)
      BY <2>0 DEF Means, Parsed, p, len
    <3> QED
      BY <2>3, <2>6, <3>1, StepStage
  <2>11. CASE l.is = "more"
    <3>1. Placed(p, st, fl)
      BY <2>0 DEF Means, Parsed, p, len
    <3>2. 1 <= p.n
      <4>1. PICK x \in DOMAIN st, g \in Field, n \in Nat : 1 <= n /\ p = InValue(x, g, n)
        BY <2>9, <2>11, <3>1, StageSpots
      <4> QED
        BY <4>1, SpotsAre
    <3>3. p.n + 1 <= Len(v)
      <4>1. PICK x \in DOMAIN st, g \in Field, n \in Nat : p = InValue(x, g, n) /\ n + 1 <= Len(st[x][g])
        BY <2>3, <2>11 DEF Moves
      <4>2. p.stage = {x} /\ p.field = g /\ p.n = n /\ p.at = "value"
        BY <4>1, SpotsAre
      <4>3. x = s /\ g = f
        BY <2>6, <2>7, <4>2
      <4> QED
        BY <4>1, <4>2, <4>3 DEF v
    <3>4. l.what = w[(p.n - 1) + 1] /\ p.n - 1 \in Nat /\ (p.n - 1) + 1 = q.n - 1
      <4>1. p.n \in 1 .. Len(v) - 1 /\ l.what = v[p.n + 1] /\ (p.n - 1) + 1 = p.n
        BY <1>3, <2>7, <2>9, <2>11, <3>2, <3>3 DEF v
      <4>2. w[p.n] = v[p.n + 1] /\ q.n = p.n + 1 /\ p.n \in Nat
        BY <1>10, <2>9, <2>11, <4>1
      <4>3. p.n - 1 \in Nat /\ (p.n - 1) + 1 = q.n - 1
        BY <3>2, <4>2
      <4> QED
        BY <4>1, <4>2, <4>3
    <3>5. Partial(Append(h[m], l.what), w, (p.n - 1) + 1)
      <4> DEFINE n == p.n - 1
      <4>1. n \in Nat /\ l.what = w[n + 1] /\ Partial(h[m], w, n)
        BY <2>7, <2>9, <2>11, <3>4
      <4> HIDE DEF n
      <4>2. Partial(Append(h[m], l.what), w, n + 1)
        BY <2>5, <4>1, PartialGrows
      <4> QED
        BY <4>2 DEF n
    <3>6. Partial(h[k], w, q.n - 1)
      BY <2>4, <2>11, <3>4, <3>5
    <3>7. q.at = "value" /\ q.field = f /\ q.n \in Nat
      BY <2>7, <2>9, <2>11
    <3> QED
      BY <2>10, <3>6, <3>7 DEF q, k
  <2>12. CASE l.is # "more"
    <3>1. CASE q = p
      BY <2>4, <2>6, <2>7, <2>8, <2>12, <3>1 DEF q, k
    <3>2. CASE p.at = "value" /\ Whole(p, st, fl) /\ q.at = "stage"
      <4>1. p.n = Len(v)
        BY <2>6, <2>7, <3>2 DEF Whole, v
      <4>2. Partial(h[k], w, Len(v) - 1)
        BY <2>4, <2>7, <2>12, <3>2, <4>1
      <4> QED
        BY <2>10, <3>2, <4>2 DEF q, k
    <3> QED
      BY <2>9, <2>12, <3>1, <3>2
  <2> QED
    BY <2>11, <2>12
<1>13. Nat \subseteq T
  <2> HIDE DEF T
  <2> QED
    BY <1>11, <1>12, AllNaturals
<1>14. Claim(r)
  <2>1. r \in T
    <3> HIDE DEF T
    <3> QED
      BY <1>6, <1>13
  <2> QED
    BY <1>6, <2>1
<1>15. Whole(L[e - 1], st, fl)
  <2>1. CASE e <= len
    <3>1. e \in 1 .. len
      BY <1>0, <1>4, <2>1
    <3>2. Moves(L[e - 1], t[e], L[e], st, fl) /\ t[e].is \in {"field", "stage", "head"}
      BY <1>0, <1>4, <2>1, <3>1
    <3> QED
      BY <3>2, StepValue
  <2>2. CASE e = len + 1
    <3>1. e - 1 = len
      BY <1>0, <2>2
    <3> QED
      BY <1>0, <3>1
  <2> QED
    BY <1>0, <1>4, <2>1, <2>2
<1>16. Partial(h[r], w, Len(v) - 1)
  <2> DEFINE p == L[i + r]
  <2>1. Whole(p, st, fl)
    BY <1>9, <1>15
  <2>2. /\ p.stage = {s} /\ p.at \in {"stage", "value"}
        /\ p.at = "value" => p.field = f /\ p.n \in Nat /\ Partial(h[r], w, p.n - 1)
        /\ p.at = "stage" => Partial(h[r], w, Len(v) - 1)
    BY <1>14
  <2> HIDE DEF p
  <2>3. CASE p.at = "value"
    <3>1. p.n = Len(v)
      BY <2>1, <2>2, <2>3 DEF Whole, v
    <3> QED
      BY <2>2, <2>3, <3>1
  <2> QED
    BY <2>2, <2>3
<1>17. h[r] = w
  <2>1. h[r] \in Seq(Said(u))
    BY <1>6, <1>8
  <2> QED
    BY <1>10, <1>16, <2>1, PartialAll
<1>18. <<v[1]>> \o w = v
  <2> DEFINE z == <<v[1]>> \o w
  <2>1. <<v[1]>> \in Seq(STRING) /\ Len(<<v[1]>>) = 1 /\ <<v[1]>>[1] = v[1]
    BY <1>2, <1>3
  <2>2. /\ z \in Seq(STRING) /\ Len(z) = Len(v)
        /\ \A j \in 1 .. Len(v) : z[j] = IF j <= 1 THEN v[1] ELSE w[j - 1]
    <3>1. /\ z \in Seq(STRING) /\ Len(z) = 1 + Len(w)
          /\ \A j \in 1 .. 1 + Len(w) : z[j] = IF j <= 1 THEN <<v[1]>>[j] ELSE w[j - 1]
      BY <1>10, <2>1, ConcatProperties
    <3> HIDE DEF z
    <3>2. 1 + Len(w) = Len(v)
      BY <1>3, <1>10
    <3>3. \A j \in 1 .. Len(v) : j <= 1 => j = 1
      BY <1>3
    <3> QED
      BY <2>1, <3>1, <3>2, <3>3
  <2> HIDE DEF z
  <2>3. \A j \in 1 .. Len(v) : z[j] = v[j]
    <3> TAKE j \in 1 .. Len(v)
    <3>1. CASE j = 1
      BY <2>2, <3>1
    <3>2. CASE j # 1
      <4>1. j - 1 \in 1 .. Len(v) - 1 /\ ~(j <= 1) /\ (j - 1) + 1 = j
        BY <1>3, <3>2
      <4>2. w[j - 1] = v[(j - 1) + 1]
        BY <1>10, <4>1
      <4> QED
        BY <2>2, <4>1, <4>2
    <3> QED
      BY <3>1, <3>2
  <2>4. z = v
    BY <1>2, <2>2, <2>3
  <2> QED
    BY <2>4 DEF z
<1> QED
  BY <1>1, <1>5, <1>8, <1>17, <1>18 DEF v

LEMMA MaxOfOne == ASSUME NEW i \in Nat PROVE Max({i}) = i
BY DEF Max

FieldOf(t, f, own) ==
  IF \E i \in own : t[i].is = "field" /\ t[i].what = f
  THEN ValueAt(t, Max({i \in own : t[i].is = "field" /\ t[i].what = f})) ELSE Absent
LEMMA FieldRead ==
  ASSUME NEW t, NEW L, NEW st, NEW fl, Means(t, L, st, fl), NEW s \in DOMAIN st, NEW f \in Field,
         NEW own, own = StageStart(t, s) + 1 .. StageEnd(t, s) - 1
  PROVE  FieldOf(t, f, own) = st[s][f]
<1> DEFINE k == StageStart(t, s)
           e == StageEnd(t, s)
           len == Len(t)
           Here(i) == t[i].is = "field" /\ t[i].what = f
<1>0. /\ t \in Seq(TextLine) /\ len \in Nat /\ MarkedOnce(t, L) /\ AllShown(t, L, st)
  BY DEF Means, Parsed
<1>1. /\ k \in 1 .. len /\ e \in k + 1 .. len + 1 /\ t[k].is = "stage"
      /\ \A i \in k .. e - 1 : L[i].stage = {s}
      /\ \A i \in 0 .. len : L[i].stage = {s} => i \in k .. e - 1
  <2>1. Bounded(t, L, s, k, e, st, fl)
    BY StageBounds
  <2> QED
    BY <2>1 DEF Bounded
<1>2. own = k + 1 .. e - 1
  OBVIOUS
<1> HIDE DEF k, e, len
<1>3. \A i \in own : i \in 1 .. len /\ L[i].stage = {s} /\ i \in Nat
  <2>1. ASSUME NEW i \in own PROVE i \in k .. e - 1 /\ i \in 1 .. len
    <3>1. i \in k + 1 .. e - 1
      BY <1>2
    <3> QED
      BY <1>0, <1>1, <3>1
  <2> QED
    BY <1>1, <2>1
<1>4. CASE \E i \in own : Here(i)
  <2>1. PICK i \in own : Here(i)
    BY <1>4
  <2>2. i \in 1 .. len /\ L[i].stage = {s} /\ i \in Nat
    BY <1>3
  <2>3. ASSUME NEW j \in own, Here(j) PROVE j = i
    <3>1. j \in 1 .. len /\ L[j].stage = {s}
      BY <1>3
    <3>2. Marked(t[i]) /\ Alike(t[i], L[i], t[j], L[j])
      BY <2>1, <2>2, <2>3, <3>1 DEF Marked, Alike
    <3> QED
      BY <1>0, <2>2, <3>1, <3>2 DEF MarkedOnce, len
  <2>4. {j \in own : Here(j)} = {i}
    BY <2>1, <2>3
  <2>5. Max({j \in own : Here(j)}) = i
    BY <2>2, <2>4, MaxOfOne
  <2>6. ValueAt(t, i) = st[s][f]
    BY <2>1, <2>2, ValueRead DEF len
  <2> QED
    BY <1>4, <2>5, <2>6 DEF FieldOf
<1>5. CASE ~\E i \in own : Here(i)
  <2>1. ASSUME st[s][f] # Absent PROVE FALSE
    <3>1. Shown(t, L, "field", f, {s})
      BY <1>0, <2>1 DEF AllShown
    <3>2. PICK i \in 1 .. len : Here(i) /\ L[i].stage = {s}
      BY <3>1 DEF Shown, len
    <3>3. i \in k .. e - 1 /\ i # k
      BY <1>0, <1>1, <3>2
    <3>4. i \in own
      <4>1. i \in k + 1 .. e - 1
        BY <1>0, <1>1, <3>3
      <4> QED
        BY <1>2, <4>1
    <3> QED
      BY <1>5, <3>2, <3>4
  <2> QED
    BY <1>5, <2>1 DEF FieldOf
<1> QED
  BY <1>4, <1>5

LEMMA StageIsRead ==
  ASSUME NEW t, NEW L, NEW st, NEW fl, Means(t, L, st, fl), NEW s \in DOMAIN st
  PROVE  StageRead(t, s) = st[s]
<1> DEFINE own == StageStart(t, s) + 1 .. StageEnd(t, s) - 1
<1>1. StageRead(t, s) = [f \in Field |-> FieldOf(t, f, own)]
  BY DEF StageRead, StageStart, StageEnd, FieldOf
<1>2. \A f \in Field : FieldOf(t, f, own) = st[s][f]
  BY FieldRead
<1>3. st[s] = [f \in Field |-> st[s][f]]
  BY DEF Means, MeantTyped
<1> HIDE DEF own
<1> QED
  BY <1>1, <1>2, <1>3

LEMMA MeansIsRead ==
  ASSUME NEW t, NEW L, NEW st, NEW fl, Means(t, L, st, fl)
  PROVE  Read(t) = [stages |-> st, flow |-> fl]
<1> DEFINE names == {t[i].what : i \in {k \in DOMAIN t : t[k].is = "stage"}}
<1>0. /\ t \in Seq(TextLine) /\ DOMAIN t = 1 .. Len(t) /\ AllShown(t, L, st)
      /\ \A i \in 1 .. Len(t) : Moves(L[i - 1], t[i], L[i], st, fl)
  BY DEF Means, Parsed
<1>1. names = DOMAIN st
  <2>1. ASSUME NEW i \in 1 .. Len(t), t[i].is = "stage" PROVE t[i].what \in DOMAIN st
    <3>1. Moves(L[i - 1], t[i], L[i], st, fl)
      BY <1>0
    <3> QED
      BY <2>1, <3>1 DEF Moves
  <2>2. ASSUME NEW s \in DOMAIN st PROVE \E i \in 1 .. Len(t) : t[i].is = "stage" /\ t[i].what = s
    BY <1>0 DEF AllShown, Shown
  <2> QED
    BY <1>0, <2>1, <2>2
<1>2. st = [s \in DOMAIN st |-> st[s]]
  BY DEF Means, MeantTyped
<1>3. [s \in names |-> StageRead(t, s)] = st
  <2> HIDE DEF names
  <2>1. \A s \in DOMAIN st : StageRead(t, s) = st[s]
    BY StageIsRead
  <2> QED
    BY <1>1, <1>2, <2>1
<1>4. Among(t, "item") = fl
  BY FlowRead
<1> QED
  BY <1>3, <1>4 DEF Read

LEMMA ReadsIsRead ==
  ASSUME NEW t, NEW st, NEW fl, Reads(t, st, fl)
  PROVE  Read(t) = [stages |-> st, flow |-> fl]
BY MeansIsRead DEF Reads

(* Lines replaced between others. *)
Replaced(x, y, z, new) ==
  /\ (x \o y) \o z \in Seq(TextLine) /\ (x \o new) \o z \in Seq(TextLine)
  /\ Put((x \o y) \o z, Len(x) + 1, Len(x) + Len(y) + 1, new) = (x \o new) \o z
LEMMA PutBetween ==
  ASSUME NEW x \in Seq(TextLine), NEW y \in Seq(TextLine), NEW z \in Seq(TextLine), NEW new \in Seq(TextLine)
  PROVE  Replaced(x, y, z, new)
<1> DEFINE u == x \o y
           t == u \o z
           a == SubSeq(t, 1, Len(x))
           c == SubSeq(t, Len(x) + Len(y) + 1, Len(t))
<1>0. Len(x) \in Nat /\ Len(y) \in Nat /\ Len(z) \in Nat
  OBVIOUS
<1>1. u \in Seq(TextLine) /\ Len(u) = Len(x) + Len(y)
      /\ \A i \in 1 .. Len(x) + Len(y) : u[i] = IF i <= Len(x) THEN x[i] ELSE y[i - Len(x)]
  BY ConcatProperties
<1>2. t \in Seq(TextLine) /\ Len(t) = Len(u) + Len(z)
      /\ \A i \in 1 .. Len(u) + Len(z) : t[i] = IF i <= Len(u) THEN u[i] ELSE z[i - Len(u)]
  <2>1. u \in Seq(TextLine)
    BY <1>1
  <2> HIDE DEF u
  <2> QED
    BY <2>1, ConcatProperties
<1>3. (x \o new) \o z \in Seq(TextLine)
  <2>1. x \o new \in Seq(TextLine)
    BY ConcatProperties
  <2> QED
    BY <2>1, ConcatProperties
<1>4. Put(t, Len(x) + 1, Len(x) + Len(y) + 1, new) = (a \o new) \o c
  <2>1. (Len(x) + 1) - 1 = Len(x)
    BY <1>0
  <2> QED
    BY <2>1 DEF Put
<1> HIDE DEF u, t
<1>5. a = x
  <2>1. \A i \in 1 .. Len(x) : t[i] = x[i] /\ t[i] \in TextLine
    BY <1>0, <1>1, <1>2
  <2>2. /\ a \in Seq(TextLine) /\ Len(a) = IF 1 <= Len(x) THEN Len(x) - 1 + 1 ELSE 0
        /\ \A i \in 1 .. Len(x) - 1 + 1 : a[i] = t[1 + i - 1]
    BY <1>0, <2>1, SubSeqProperties
  <2> HIDE DEF a
  <2>3. Len(a) = Len(x)
    BY <1>0, <2>2
  <2>4. \A i \in 1 .. Len(x) : a[i] = x[i]
    <3> TAKE i \in 1 .. Len(x)
    <3>1. i \in 1 .. Len(x) - 1 + 1 /\ 1 + i - 1 = i
      BY <1>0
    <3> QED
      BY <2>1, <2>2, <3>1
  <2> QED
    BY <2>2, <2>3, <2>4
<1>6. c = z
  <2> DEFINE m == Len(x) + Len(y) + 1
  <2>0. m \in Int /\ Len(t) \in Int /\ Len(u) = m - 1 /\ Len(t) = m - 1 + Len(z) /\ m >= 1
    BY <1>0, <1>1, <1>2
  <2>1. \A i \in m .. Len(t) : t[i] \in TextLine
    BY <1>2, <2>0
  <2>2. /\ c \in Seq(TextLine) /\ Len(c) = IF m <= Len(t) THEN Len(t) - m + 1 ELSE 0
        /\ \A i \in 1 .. Len(t) - m + 1 : c[i] = t[m + i - 1]
    BY <2>0, <2>1, SubSeqProperties
  <2> HIDE DEF c, m
  <2>3. Len(c) = Len(z)
    BY <1>0, <2>0, <2>2
  <2>4. \A i \in 1 .. Len(z) : c[i] = z[i]
    <3> TAKE i \in 1 .. Len(z)
    <3>1. /\ i \in 1 .. Len(t) - m + 1 /\ m + i - 1 \in 1 .. Len(u) + Len(z) /\ ~(m + i - 1 <= Len(u))
          /\ (m + i - 1) - Len(u) = i
      BY <1>0, <2>0
    <3>2. t[m + i - 1] = z[i]
      BY <1>2, <3>1
    <3> QED
      BY <2>2, <3>1, <3>2
  <2>5. c \in Seq(TextLine) /\ \A i \in 1 .. Len(c) : c[i] = z[i]
    BY <2>2, <2>3, <2>4
  <2> QED
    BY <2>3, <2>5, SeqEqual
<1> HIDE DEF a, c
<1>7. Put(t, Len(x) + 1, Len(x) + Len(y) + 1, new) = (x \o new) \o z
  BY <1>4, <1>5, <1>6
<1> QED
  BY <1>2, <1>3, <1>7 DEF Replaced, t, u

InsertedAt(x, z, new) ==
  /\ x \o z \in Seq(TextLine) /\ Len(x) \in 0 .. Len(x \o z)
  /\ Put(x \o z, Len(x) + 1, Len(x) + 1, new) = (x \o new) \o z
LEMMA PutAmong ==
  ASSUME NEW x \in Seq(TextLine), NEW z \in Seq(TextLine), NEW new \in Seq(TextLine)
  PROVE  InsertedAt(x, z, new)
<1>1. <<>> \in Seq(TextLine) /\ Len(<<>>) = 0 /\ x \o <<>> = x /\ Len(x) \in Nat
  BY ConcatEmptySeq
<1>2. Replaced(x, <<>>, z, new)
  BY <1>1, PutBetween
<1>3. Put((x \o <<>>) \o z, Len(x) + 1, Len(x) + 0 + 1, new) = (x \o new) \o z
  BY <1>1, <1>2 DEF Replaced
<1>4. Len(x) + 0 + 1 = Len(x) + 1
  BY <1>1
<1>5. x \o z \in Seq(TextLine) /\ Len(x) \in 0 .. Len(x \o z)
  <2>1. x \o z \in Seq(TextLine) /\ Len(x \o z) = Len(x) + Len(z)
    BY ConcatProperties
  <2> QED
    BY <2>1
<1> QED
  BY <1>1, <1>3, <1>4, <1>5 DEF InsertedAt

(* A comment or a blank line before a head or a Stage, or at the end. *)
Ends(t, a) == a \in 0 .. Len(t) /\ (a < Len(t) => t[a + 1].is \in {"head", "stage"})
LEMMA AsidePut ==
  ASSUME NEW t, NEW st, NEW fl, Reads(t, st, fl), NEW a, Ends(t, a), NEW is \in {"blank", "note"}
  PROVE  Reads(Put(t, a + 1, a + 1, <<Aside(is)>>), st, fl)
<1>0. PICK L : Means(t, L, st, fl)
  BY DEF Reads
<1> DEFINE l == Aside(is)
           q == Closed(L[a])
<1>1. /\ t \in Seq(TextLine) /\ Len(t) \in Nat /\ MeantTyped(st, fl) /\ a \in 0 .. Len(t)
      /\ \A i \in 0 .. Len(t) : Placed(L[i], st, fl)
      /\ \A i \in 1 .. Len(t) : Moves(L[i - 1], t[i], L[i], st, fl)
      /\ Whole(L[Len(t)], st, fl)
      /\ a < Len(t) => t[a + 1].is \in {"head", "stage"}
  BY <1>0 DEF Means, Parsed, Ends
<1>2. l \in TextLine /\ l.is = is
  BY DEF Aside, Line, TextLine
<1> HIDE DEF l, q
<1>3. a < Len(t) => Moves(L[a], t[a + 1], L[a + 1], st, fl) /\ t[a + 1].is \in {"head", "stage"}
  <2> SUFFICES ASSUME a < Len(t) PROVE Moves(L[a], t[a + 1], L[a + 1], st, fl) /\ t[a + 1].is \in {"head", "stage"}
    OBVIOUS
  <2>1. a + 1 \in 1 .. Len(t) /\ (a + 1) - 1 = a
    BY <1>1
  <2> DEFINE b == a + 1
  <2>2. b \in 1 .. Len(t) /\ b - 1 = a /\ t[b].is \in {"head", "stage"}
    BY <1>1, <2>1
  <2> HIDE DEF b
  <2>3. Moves(L[a], t[b], L[b], st, fl)
    BY <1>1, <2>2
  <2> QED
    BY <2>2, <2>3 DEF b
<1>4. Whole(L[a], st, fl)
  <2>1. CASE a < Len(t)
    BY <1>3, <2>1, StepValue
  <2>2. CASE a = Len(t)
    BY <1>1, <2>2
  <2> QED
    BY <1>1, <2>1, <2>2
<1>5. Placed(L[a], st, fl)
  BY <1>1
<1>6. Placed(q, st, fl) /\ Whole(q, st, fl) /\ (q = L[a] \/ (L[a].at = "value" /\ q.at = "stage"))
  <2>1. CASE L[a].at = "value"
    <3>1. PICK s \in DOMAIN st, f \in Field, n \in Nat : L[a] = InValue(s, f, n)
      BY <1>5, <2>1, StageSpots
    <3>2. L[a].stage = {s}
      BY <3>1, SpotsAre
    <3>3. q = InStage(s)
      BY <2>1, <3>2 DEF q, Closed, InStage
    <3>4. q.at = "stage"
      BY <3>3, SpotsAre
    <3> QED
      BY <2>1, <3>3, <3>4 DEF Placed, Whole
  <2>2. CASE L[a].at # "value"
    <3>1. q = L[a]
      BY <2>2 DEF q, Closed
    <3> QED
      BY <1>4, <1>5, <3>1
  <2> QED
    BY <2>1, <2>2
<1>7. Moves(L[a], l, q, st, fl)
  BY <1>2, <1>4 DEF Moves, q
<1>8. a < Len(t) => Moves(q, t[a + 1], L[a + 1], st, fl)
  BY <1>3, <1>6 DEF Moves
<1>9. ~Marked(l)
  BY <1>2 DEF Marked
<1>10. \E M : Means(Put(t, a + 1, a + 1, <<l>>), M, st, fl) /\ M[a + 1] = q
  <2>1. \A i \in 0 .. Len(t) : Agree(L[i], st, fl, st, fl)
    BY AgreesWithItself
  <2>2. Whole(q, st, fl) /\ (Marked(l) => \A j \in 1 .. Len(t) : ~Alike(l, q, t[j], L[j]))
    BY <1>6, <1>9
  <2>3. ASSUME NEW s \in DOMAIN st PROVE s \in DOMAIN st \/ (l.is = "stage" /\ l.what = s /\ q.stage = {s})
    BY <2>3
  <2>4. ASSUME NEW s \in DOMAIN st, NEW f \in Field, st[s][f] # Absent
        PROVE  s \in DOMAIN st /\ st[s][f] # Absent
    BY <2>4
  <2>5. MeantTyped(st, fl) /\ a \in 0 .. Len(t) /\ l \in TextLine /\ Placed(q, st, fl)
    BY <1>1, <1>2, <1>6
  <2> QED
    BY <1>0, <1>7, <1>8, <2>1, <2>2, <2>3, <2>4, <2>5, LineAdded
<1> QED
  BY <1>10 DEF Reads, l

LEMMA GapIs ==
  ASSUME NEW gap \in Gap
  PROVE  /\ gap \in Seq(TextLine)
         /\ gap = <<>> \/ gap = <<Aside("blank")>> \/ gap = <<Aside("note")>> \o <<Aside("blank")>>
<1>1. Aside("blank") \in TextLine /\ Aside("note") \in TextLine
  BY DEF Aside, Line, TextLine
<1>2. <<Aside("note"), Aside("blank")>> = <<Aside("note")>> \o <<Aside("blank")>>
  OBVIOUS
<1>3. gap = <<>> \/ gap = <<Aside("blank")>> \/ gap = <<Aside("note"), Aside("blank")>>
  BY DEF Gap
<1>4. <<>> \in Seq(TextLine) /\ <<Aside("blank")>> \in Seq(TextLine) /\ <<Aside("note"), Aside("blank")>> \in Seq(TextLine)
  BY <1>1
<1> QED
  BY <1>2, <1>3, <1>4

LEMMA LinesConcat ==
  ASSUME NEW x \in Seq(TextLine), NEW y \in Seq(TextLine), NEW z \in Seq(TextLine)
  PROVE  (x \o y) \o z = x \o (y \o z)
BY ConcatAssociative

(* Behind a finished part of the lines. *)
LEMMA GapPut ==
  ASSUME NEW x \in Seq(TextLine), NEW z \in Seq(TextLine), NEW st, NEW fl, Reads(x \o z, st, fl), NEW gap \in Gap,
         z # <<>> => z[1].is \in {"head", "stage"}
  PROVE  Reads((x \o gap) \o z, st, fl)
<1>0. Len(x) \in Nat /\ Len(z) \in Nat /\ gap \in Seq(TextLine)
  BY GapIs
<1>1. ASSUME NEW y \in Seq(TextLine), NEW is \in {"blank", "note"}, Reads(y \o z, st, fl)
      PROVE  Reads((y \o <<Aside(is)>>) \o z, st, fl)
  <2> DEFINE t == y \o z
             a == Len(y)
             l == <<Aside(is)>>
  <2>1. l \in Seq(TextLine)
    BY DEF Aside, Line, TextLine
  <2> HIDE DEF l
  <2>2. InsertedAt(y, z, l)
    BY <2>1, PutAmong
  <2>3. t \in Seq(TextLine) /\ Len(t) = Len(y) + Len(z)
        /\ \A i \in 1 .. Len(y) + Len(z) : t[i] = IF i <= Len(y) THEN y[i] ELSE z[i - Len(y)]
    BY ConcatProperties
  <2> HIDE DEF t
  <2>4. Ends(t, a)
    <3>1. a \in 0 .. Len(t)
      BY <1>0, <2>3
    <3>2. ASSUME a < Len(t) PROVE t[a + 1] = z[1] /\ z # <<>>
      <4>1. a + 1 \in 1 .. Len(y) + Len(z) /\ ~(a + 1 <= Len(y)) /\ (a + 1) - Len(y) = 1
        BY <1>0, <2>3, <3>2
      <4>2. z # <<>>
        BY <2>3, <3>2
      <4> QED
        BY <2>3, <4>1, <4>2
    <3> QED
      BY <3>1, <3>2 DEF Ends
  <2>5. Reads(t, st, fl)
    BY <1>1 DEF t
  <2> HIDE DEF a
  <2>6. Reads(Put(t, a + 1, a + 1, l), st, fl)
    BY <2>4, <2>5, AsidePut DEF l
  <2> QED
    BY <2>2, <2>6 DEF InsertedAt, t, a, l
<1>2. CASE gap = <<>>
  <2>1. x \o gap = x
    BY <1>2, ConcatEmptySeq
  <2> QED
    BY <2>1
<1>3. CASE gap = <<Aside("blank")>>
  BY <1>1, <1>3
<1>4. CASE gap = <<Aside("note")>> \o <<Aside("blank")>>
  <2> DEFINE n == <<Aside("note")>>
             b == <<Aside("blank")>>
             y == x \o n
  <2>1. n \in Seq(TextLine) /\ b \in Seq(TextLine)
    BY DEF Aside, Line, TextLine
  <2>2. Reads(y \o z, st, fl)
    BY <1>1
  <2>5. gap = n \o b
    BY <1>4
  <2> HIDE DEF n
  <2>3. y \in Seq(TextLine)
    BY <2>1, ConcatProperties
  <2> HIDE DEF y
  <2>4. Reads((y \o b) \o z, st, fl)
    BY <1>1, <2>2, <2>3
  <2> HIDE DEF b
  <2>6. y \o b = x \o gap
    <3>1. (x \o n) \o b = x \o (n \o b)
      BY <2>1, LinesConcat
    <3> QED
      BY <2>5, <3>1 DEF y
  <2> QED
    BY <2>4, <2>6
<1> QED
  BY <1>2, <1>3, <1>4, GapIs

(* Where the next Stage may come. *)
Ready(t, a, st, fl) == \E L : Means(t, L, st, fl) /\ Opens(t, L, a, st, fl)
LEMMA ReadyAtHead ==
  ASSUME NEW t, NEW st, NEW fl, Reads(t, st, fl), NEW a \in 1 .. Len(t), t[a].is = "head", t[a].what = "stages",
         Ends(t, a)
  PROVE  Ready(t, a, st, fl)
<1>1. PICK L : Means(t, L, st, fl)
  BY DEF Reads
<1>2. Moves(L[a - 1], t[a], L[a], st, fl)
  BY <1>1 DEF Means, Parsed
<1>3. L[a] = InStages
  BY <1>2, StepSection
<1>4. L[a].at = "stages" /\ Whole(L[a], st, fl)
  BY <1>3, SpotsAre DEF Whole
<1>5. Opens(t, L, a, st, fl)
  BY <1>4 DEF Opens, Ends
<1> QED
  BY <1>1, <1>5 DEF Ready

(* A block: a Stage and the gap behind it. *)
LEMMA ReadyAside ==
  ASSUME NEW t, NEW st, NEW fl, NEW a, Ready(t, a, st, fl), NEW is \in {"blank", "note"}
  PROVE  Ready(Put(t, a + 1, a + 1, <<Aside(is)>>), a + 1, st, fl)
BY AsideAdded DEF Ready

ReadyPut(t, a, new, st, fl) == Ready(Put(t, a + 1, a + 1, new), a + Len(new), st, fl)
LEMMA ReadyOn ==
  ASSUME NEW t \in Seq(TextLine), NEW a \in 0 .. Len(t), NEW x \in Seq(TextLine), NEW y \in Seq(TextLine),
         NEW st, NEW fl, NEW b, b = a + Len(x), ReadyPut(Put(t, a + 1, a + 1, x), b, y, st, fl)
  PROVE  ReadyPut(t, a, x \o y, st, fl)
<1>1. OnPut(t, a, x, b, y)
  BY PutOn
<1>2. Len(x \o y) = Len(x) + Len(y) /\ Len(x) \in Nat /\ Len(y) \in Nat /\ a \in Nat
  BY ConcatProperties
<1>3. b + Len(y) = a + Len(x \o y)
  BY <1>2
<1>4. Ready(Put(Put(t, a + 1, a + 1, x), b + 1, b + 1, y), b + Len(y), st, fl)
  BY DEF ReadyPut
<1> QED
  BY <1>1, <1>3, <1>4 DEF ReadyPut, OnPut

LEMMA ReadyGap ==
  ASSUME NEW t, NEW st, NEW fl, NEW a, Ready(t, a, st, fl), NEW gap \in Gap
  PROVE  ReadyPut(t, a, gap, st, fl)
<1>0. t \in Seq(TextLine) /\ a \in 0 .. Len(t) /\ a \in Nat
  BY DEF Ready, Means, Parsed, Opens
<1>1. CASE gap = <<>>
  <2> DEFINE x == SubSeq(t, 1, a)
             z == SubSeq(t, a + 1, Len(t))
  <2>1. Put(t, a + 1, a + 1, gap) = t
    <3>0. PutIn(t, a, gap)
      <4>1. gap \in Seq(TextLine)
        BY GapIs
      <4> QED
        BY <1>0, <4>1, PutHere
    <3>1. /\ Put(t, a + 1, a + 1, gap) \in Seq(TextLine) /\ Len(Put(t, a + 1, a + 1, gap)) = Len(t) + Len(gap)
          /\ \A i \in 1 .. a : Put(t, a + 1, a + 1, gap)[i] = t[i]
          /\ \A i \in a + 1 .. Len(t) : Put(t, a + 1, a + 1, gap)[i + Len(gap)] = t[i]
      BY <3>0 DEF PutIn
    <3> DEFINE r == Put(t, a + 1, a + 1, gap)
    <3> HIDE DEF r
    <3>2. Len(gap) = 0 /\ Len(t) \in Nat
      BY <1>0, <1>1
    <3>3. r \in Seq(TextLine) /\ Len(r) = Len(t)
      BY <3>1, <3>2 DEF r
    <3>4. \A i \in 1 .. Len(r) : r[i] = t[i]
      <4> TAKE i \in 1 .. Len(r)
      <4>1. CASE i <= a
        BY <3>1, <3>3, <4>1, <1>0 DEF r
      <4>2. CASE a < i
        <5>1. i \in a + 1 .. Len(t) /\ i + Len(gap) = i
          BY <1>0, <3>2, <3>3, <4>2
        <5>2. r[i + Len(gap)] = t[i]
          BY <3>1, <5>1 DEF r
        <5> QED
          BY <5>1, <5>2
      <4> QED
        BY <1>0, <3>2, <3>3, <4>1, <4>2
    <3>5. r = t
      BY <1>0, <3>3, <3>4, SeqEqual
    <3> QED
      BY <3>5 DEF r
  <2>2. a + Len(gap) = a
    BY <1>0, <1>1
  <2> QED
    BY <2>1, <2>2 DEF ReadyPut
<1>2. ASSUME NEW is \in {"blank", "note"}, NEW u, NEW b \in Nat, Ready(u, b, st, fl)
      PROVE  ReadyPut(u, b, <<Aside(is)>>, st, fl)
  <2>1. Len(<<Aside(is)>>) = 1
    OBVIOUS
  <2>2. Ready(Put(u, b + 1, b + 1, <<Aside(is)>>), b + 1, st, fl)
    BY <1>2, ReadyAside
  <2> QED
    BY <2>1, <2>2 DEF ReadyPut
<1>3. CASE gap = <<Aside("blank")>>
  BY <1>0, <1>2, <1>3
<1>4. CASE gap = <<Aside("note")>> \o <<Aside("blank")>>
  <2> DEFINE n == <<Aside("note")>>
             b == <<Aside("blank")>>
             k == a + Len(n)
             u == Put(t, a + 1, a + 1, n)
  <2>1. n \in Seq(TextLine) /\ b \in Seq(TextLine) /\ Len(n) = 1
    BY DEF Aside, Line, TextLine
  <2>2. ReadyPut(t, a, n, st, fl)
    BY <1>0, <1>2
  <2>3. Ready(u, k, st, fl) /\ k \in Nat
    BY <1>0, <2>1, <2>2 DEF ReadyPut
  <2>6. ASSUME NEW v, NEW j \in Nat, Ready(v, j, st, fl) PROVE ReadyPut(v, j, b, st, fl)
    BY <1>2, <2>6
  <2>5. gap = n \o b
    BY <1>4
  <2> HIDE DEF n, b, k, u
  <2>4. ReadyPut(u, k, b, st, fl)
    BY <2>3, <2>6
  <2>7. ReadyPut(t, a, n \o b, st, fl)
    BY <1>0, <2>1, <2>4, ReadyOn DEF k, u
  <2> QED
    BY <2>5, <2>7
<1> QED
  BY <1>1, <1>3, <1>4, GapIs

LEMMA ReadyBlock ==
  ASSUME NEW t, NEW st, NEW fl, NEW a, Ready(t, a, st, fl), NEW gap \in Gap, NEW s \in StageName \ DOMAIN st,
         NEW config \in [Field -> Whatever]
  PROVE  /\ StageLines(s, config, Reverse(FieldOrder), Remarks) \o gap \in Seq(TextLine)
         /\ ReadyPut(t, a, StageLines(s, config, Reverse(FieldOrder), Remarks) \o gap, Joined(st, s, config), fl)
<1> DEFINE x == StageLines(s, config, Reverse(FieldOrder), Remarks)
           st2 == Joined(st, s, config)
           u == Put(t, a + 1, a + 1, x)
           b == a + Len(x)
<1>0. PICK L : Means(t, L, st, fl) /\ Opens(t, L, a, st, fl)
  BY DEF Ready
<1>1. t \in Seq(TextLine) /\ a \in 0 .. Len(t)
  BY <1>0 DEF Means, Parsed, Opens
<1>2. Remarks \in [Field -> Remark] /\ Reverse(FieldOrder) \in {FieldOrder, Reverse(FieldOrder)}
  BY DEF Remarks, Remark
<1>3. x \in Seq(TextLine) /\ Grown(t, a, x, s, st, fl, config)
  BY <1>0, <1>2, StageGrown
<1> HIDE DEF x
<1>4. Ready(u, b, st2, fl)
  <2>1. PICK M : Means(u, M, st2, fl) /\ Room(u, M, b, s, st2, fl)
    BY <1>3 DEF Grown
  <2>2. Opens(u, M, b, st2, fl)
    BY <2>1 DEF Room, Amid, Opens
  <2> QED
    BY <2>1, <2>2 DEF Ready
<1>5. gap \in Seq(TextLine)
  BY GapIs
<1> HIDE DEF st2, u, b
<1>6. ReadyPut(u, b, gap, st2, fl)
  BY <1>4, ReadyGap
<1>7. ReadyPut(t, a, x \o gap, st2, fl)
  BY <1>1, <1>3, <1>5, <1>6, ReadyOn DEF u, b
<1>8. x \o gap \in Seq(TextLine)
  BY <1>3, <1>5, ConcatProperties
<1> QED
  BY <1>7, <1>8 DEF x, st2

(* The blocks of an author's file, put in one after the other. *)
NoStages == [r \in {} |-> Bare]
Block(d, gap, s) == StageLines(s, d.stages[s], Reverse(FieldOrder), Remarks) \o gap
LEMMA BlocksReady ==
  ASSUME NEW base, NEW a, NEW fl, NEW d, Drawn(d), NEW gap \in Gap, Ready(base, a, NoStages, fl),
         NEW order, order = SetToSeq(DOMAIN d.stages), NEW ss, ss = [i \in 1 .. Len(order) |-> Block(d, gap, order[i])]
  PROVE  FlattenSeq(ss) \in Seq(TextLine) /\ ReadyPut(base, a, FlattenSeq(ss), d.stages, fl)
<1> DEFINE S == DOMAIN d.stages
           n == Len(order)
           Sub(k) == [r \in Done(order, k) |-> d.stages[r]]
<1>0. S \in SUBSET StageName /\ d.stages \in [S -> [Field -> Whatever]]
  BY DEF Drawn
<1>1. DoneOnce(order, S)
  BY <1>0, OneByOne
<1>2. /\ n \in Nat /\ Done(order, 0) = {} /\ Done(order, n) = S
      /\ \A k \in 1 .. n : /\ order[k] \in S /\ order[k] \notin Done(order, k - 1)
                           /\ Done(order, k) = Done(order, k - 1) \cup {order[k]}
  BY <1>1 DEF DoneOnce
<1>3. base \in Seq(TextLine) /\ a \in 0 .. Len(base)
  BY DEF Ready, Means, Parsed, Opens
<1>4. ASSUME NEW u, NEW b, NEW st, NEW s \in S \ DOMAIN st, Ready(u, b, st, fl)
      PROVE  Block(d, gap, s) \in Seq(TextLine) /\ ReadyPut(u, b, Block(d, gap, s), Joined(st, s, d.stages[s]), fl)
  BY <1>0, <1>4, ReadyBlock DEF Block
<1>5. ss \in [1 .. n -> Seq(TextLine)] /\ \A k \in 1 .. n : ss[k] = Block(d, gap, order[k])
  <2>1. ASSUME NEW k \in 1 .. n PROVE Block(d, gap, order[k]) \in Seq(TextLine)
    <3>1. order[k] \in S \ DOMAIN NoStages
      BY <1>2 DEF NoStages
    <3> QED
      BY <1>4, <3>1
  <2> QED
    BY <2>1
<1> HIDE DEF S, n
<1>6. PICK h \in [0 .. n -> Seq(TextLine)] : Flattened(h, ss, n)
  BY <1>2, <1>5, FlattenSteps
<1>7. /\ h[0] = <<>> /\ \A k \in 1 .. n : h[k] = h[k - 1] \o ss[k]
      /\ FlattenSeq(ss) = h[n]
  BY <1>6 DEF Flattened
<1> DEFINE T == {k \in Nat : k <= n => ReadyPut(base, a, h[k], Sub(k), fl)}
<1>8. 0 \in T
  <2>1. Sub(0) = NoStages
    BY <1>2 DEF NoStages
  <2>2. <<>> \in Gap
    BY DEF Gap
  <2> HIDE DEF Sub
  <2>3. ReadyPut(base, a, h[0], Sub(0), fl)
    BY <1>7, <2>1, <2>2, ReadyGap
  <2> QED
    BY <2>3
<1>9. ASSUME NEW k \in Nat, k \in T PROVE k + 1 \in T
  <2> SUFFICES ASSUME k + 1 <= n PROVE ReadyPut(base, a, h[k + 1], Sub(k + 1), fl)
    OBVIOUS
  <2> DEFINE j == k + 1
             s == order[j]
             u == Put(base, a + 1, a + 1, h[k])
             b == a + Len(h[k])
  <2>1. j \in 1 .. n /\ j - 1 = k /\ k \in 0 .. n
    BY <1>2
  <2>2. ReadyPut(base, a, h[k], Sub(k), fl)
    BY <1>2, <1>9, <2>1
  <2>3. Ready(u, b, Sub(k), fl)
    BY <2>2 DEF ReadyPut
  <2> HIDE DEF j
  <2>4. s \in S /\ s \notin Done(order, k) /\ Done(order, j) = Done(order, k) \cup {s}
    BY <1>2, <2>1
  <2>5. ss[j] = Block(d, gap, s) /\ h[j] = h[k] \o ss[j] /\ h[k] \in Seq(TextLine) /\ ss[j] \in Seq(TextLine)
    BY <1>5, <1>7, <2>1
  <2>6. Joined(Sub(k), s, d.stages[s]) = Sub(j)
    <3>1. DOMAIN Sub(k) = Done(order, k) /\ \A r \in Done(order, k) : Sub(k)[r] = d.stages[r]
      OBVIOUS
    <3>2. Joined(Sub(k), s, d.stages[s]) = [r \in Done(order, k) \cup {s} |-> IF r = s THEN d.stages[s] ELSE Sub(k)[r]]
      BY <3>1 DEF Joined
    <3>3. \A r \in Done(order, k) \cup {s} : (IF r = s THEN d.stages[s] ELSE Sub(k)[r]) = d.stages[r]
      BY <3>1
    <3> HIDE DEF s
    <3> QED
      BY <2>4, <3>2, <3>3
  <2>7. s \in S \ DOMAIN Sub(k)
    BY <2>4
  <2> HIDE DEF Sub, s, u, b
  <2>8. ReadyPut(u, b, ss[j], Sub(j), fl)
    BY <1>4, <2>3, <2>5, <2>6, <2>7
  <2>9. ReadyPut(base, a, h[k] \o ss[j], Sub(j), fl)
    BY <1>3, <2>5, <2>8, ReadyOn DEF u, b
  <2> QED
    BY <2>5, <2>9 DEF j
<1>10. Nat \subseteq T
  <2> HIDE DEF T
  <2> QED
    BY <1>8, <1>9, AllNaturals
<1>11. ReadyPut(base, a, h[n], Sub(n), fl)
  BY <1>2, <1>10
<1>12. Sub(n) = d.stages
  BY <1>0, <1>2 DEF S
<1>13. h[n] \in Seq(TextLine)
  BY <1>2, <1>6
<1> HIDE DEF Sub
<1> QED
  BY <1>7, <1>11, <1>12, <1>13

(* A file with the two heads and nothing else. *)
HS == <<Line("head", "stages")>>
HF == <<Line("head", "flow")>>
LEMMA HeadsAre ==
  /\ HS \in Seq(TextLine) /\ Len(HS) = 1 /\ HS[1].is = "head" /\ HS[1].what = "stages"
  /\ HF \in Seq(TextLine) /\ Len(HF) = 1 /\ HF[1].is = "head" /\ HF[1].what = "flow"
BY DEF HS, HF, Line, TextLine

LEMMA HeadsRead ==
  ASSUME NEW t, t \in {HS \o HF, HF \o HS}
  PROVE  Reads(t, NoStages, <<>>)
<1> DEFINE i == IF t = HS \o HF THEN 1 ELSE 2
           L == [k \in 0 .. 2 |-> IF k = 0 THEN Nowhere ELSE IF t[k].what = "stages" THEN InStages ELSE InFlow(0)]
<1>1. /\ t \in Seq(TextLine) /\ Len(t) = 2 /\ t[1].is = "head" /\ t[2].is = "head"
      /\ \/ t[1].what = "stages" /\ t[2].what = "flow"
         \/ t[1].what = "flow" /\ t[2].what = "stages"
  <2>1. CASE t = HS \o HF
    <3>1. /\ t \in Seq(TextLine) /\ Len(t) = Len(HS) + Len(HF)
          /\ \A k \in 1 .. Len(HS) + Len(HF) : t[k] = IF k <= Len(HS) THEN HS[k] ELSE HF[k - Len(HS)]
      BY <2>1, HeadsAre, ConcatProperties
    <3>2. Len(t) = 2 /\ t[1] = HS[1] /\ t[2] = HF[1]
      BY <3>1, HeadsAre
    <3> QED
      BY <3>1, <3>2, HeadsAre
  <2>2. CASE t = HF \o HS
    <3>1. /\ t \in Seq(TextLine) /\ Len(t) = Len(HF) + Len(HS)
          /\ \A k \in 1 .. Len(HF) + Len(HS) : t[k] = IF k <= Len(HF) THEN HF[k] ELSE HS[k - Len(HF)]
      BY <2>2, HeadsAre, ConcatProperties
    <3>2. Len(t) = 2 /\ t[1] = HF[1] /\ t[2] = HS[1]
      BY <3>1, HeadsAre
    <3> QED
      BY <3>1, <3>2, HeadsAre
  <2> QED
    BY <2>1, <2>2
<1>2. MeantTyped(NoStages, <<>>) /\ DOMAIN NoStages = {}
  BY DEF MeantTyped, NoStages
<1>3. /\ L[0] = Nowhere
      /\ L[1] = IF t[1].what = "stages" THEN InStages ELSE InFlow(0)
      /\ L[2] = IF t[2].what = "stages" THEN InStages ELSE InFlow(0)
  OBVIOUS
<1> HIDE DEF L
<1>4. /\ Placed(Nowhere, NoStages, <<>>) /\ Placed(InStages, NoStages, <<>>) /\ Placed(InFlow(0), NoStages, <<>>)
      /\ Whole(Nowhere, NoStages, <<>>) /\ Whole(InStages, NoStages, <<>>) /\ Whole(InFlow(0), NoStages, <<>>)
  <2>1. Len(<<>>) = 0
    OBVIOUS
  <2> QED
    BY <2>1, SpotsAre DEF Placed, Whole
<1>5. \A k \in 0 .. 2 : Placed(L[k], NoStages, <<>>) /\ Whole(L[k], NoStages, <<>>)
  <2> TAKE k \in 0 .. 2
  <2>1. k = 0 \/ k = 1 \/ k = 2
    OBVIOUS
  <2>2. L[k] = Nowhere \/ L[k] = InStages \/ L[k] = InFlow(0)
    BY <1>3, <2>1
  <2> QED
    BY <1>4, <2>2
<1>6. ASSUME NEW k \in 1 .. 2 PROVE Moves(L[k - 1], t[k], L[k], NoStages, <<>>)
  <2>1. k - 1 \in 0 .. 2 /\ (k = 1 \/ k = 2)
    OBVIOUS
  <2>2. Whole(L[k - 1], NoStages, <<>>)
    BY <1>5, <2>1
  <2>3. /\ t[k].is = "head" /\ t[k].what \in {"stages", "flow"}
        /\ L[k] = IF t[k].what = "stages" THEN InStages ELSE InFlow(0)
    BY <1>1, <1>3, <2>1
  <2> QED
    BY <2>2, <2>3 DEF Moves
<1>7. Parsed(t, L, NoStages, <<>>)
  BY <1>1, <1>3, <1>5, <1>6 DEF Parsed
<1>8. MarkedOnce(t, L)
  <2> SUFFICES ASSUME NEW k \in 1 .. Len(t), NEW j \in 1 .. Len(t), t[k].what = t[j].what PROVE k = j
    BY DEF MarkedOnce, Alike
  <2>1. (k = 1 \/ k = 2) /\ (j = 1 \/ j = 2)
    BY <1>1
  <2> QED
    BY <1>1, <2>1
<1>9. AllShown(t, L, NoStages)
  <2>1. InStages.stage = {} /\ InFlow(0).stage = {}
    BY SpotsAre
  <2>2. L[1].stage = {} /\ L[2].stage = {} /\ 1 \in 1 .. Len(t) /\ 2 \in 1 .. Len(t)
    BY <1>1, <1>3, <2>1
  <2>3. Shown(t, L, "head", "stages", {}) /\ Shown(t, L, "head", "flow", {})
    BY <1>1, <2>2 DEF Shown
  <2> QED
    BY <1>2, <2>3 DEF AllShown
<1>10. Means(t, L, NoStages, <<>>)
  BY <1>2, <1>7, <1>8, <1>9 DEF Means
<1> QED
  BY <1>10 DEF Reads

(* The flow put in between what comes before its head and behind it. *)
LEMMA FlowPut ==
  ASSUME NEW flow \in Seq(StageName), NEW x, NEW z, \/ x = HS /\ z = <<>>
                                                    \/ x = <<>> /\ z = HS
  PROVE  Reads((x \o FlowLines(flow)) \o z, NoStages, flow)
<1> DEFINE t == (x \o HF) \o z
           F == FlowLines(flow)
           k == At(t, "head", "flow")
           e == First(t, k + 1, {"head"})
<1>0. x \in Seq(TextLine) /\ z \in Seq(TextLine) /\ F \in Seq(TextLine)
  <2>1. F \in Seq(TextLine)
    BY FlowLinesAre
  <2>2. HS \in Seq(TextLine) /\ <<>> \in Seq(TextLine)
    BY HeadsAre
  <2> QED
    BY <2>1, <2>2
<1>1. t \in {HS \o HF, HF \o HS}
  <2>1. HF \in Seq(TextLine) /\ HS \o HF \in Seq(TextLine)
    BY HeadsAre, ConcatProperties
  <2>2. (HS \o HF) \o <<>> = HS \o HF /\ <<>> \o HF = HF
    BY <2>1, ConcatEmptySeq
  <2> QED
    BY <2>2
<1>2. PICK L : Means(t, L, NoStages, <<>>)
  BY <1>1, HeadsRead DEF Reads
<1>3. /\ t \in Seq(TextLine) /\ Len(t) = Len(x) + Len(HF) + Len(z) /\ Len(t) = 2
      /\ t[Len(x) + 1].what = "flow" /\ \A i \in 1 .. 2 : t[i].is = "head" /\ (t[i].what = "flow" => i = Len(x) + 1)
  <2> DEFINE u == x \o HF
  <2>1. /\ u \in Seq(TextLine) /\ Len(u) = Len(x) + Len(HF)
        /\ \A i \in 1 .. Len(x) + Len(HF) : u[i] = IF i <= Len(x) THEN x[i] ELSE HF[i - Len(x)]
    BY <1>0, HeadsAre, ConcatProperties
  <2> HIDE DEF u
  <2>2. /\ u \o z \in Seq(TextLine) /\ Len(u \o z) = Len(u) + Len(z)
        /\ \A i \in 1 .. Len(u) + Len(z) : (u \o z)[i] = IF i <= Len(u) THEN u[i] ELSE z[i - Len(u)]
    <3>1. u \in Seq(TextLine) /\ z \in Seq(TextLine)
      BY <1>0, <2>1
    <3> QED
      BY <3>1, ConcatProperties
  <2> DEFINE r == u \o z
  <2>3. r = t
    BY DEF u
  <2>4. /\ r \in Seq(TextLine) /\ Len(r) = Len(u) + Len(z)
        /\ \A i \in 1 .. Len(u) + Len(z) : r[i] = IF i <= Len(u) THEN u[i] ELSE z[i - Len(u)]
    BY <2>2
  <2> HIDE DEF r, t
  <2>5. CASE x = HS /\ z = <<>>
    <3>1. Len(x) = 1 /\ Len(HF) = 1 /\ Len(z) = 0 /\ Len(u) = 2
      BY <2>1, <2>5, HeadsAre
    <3>2. r[1] = u[1] /\ r[2] = u[2] /\ u[1] = x[1] /\ u[2] = HF[1]
      BY <2>1, <2>4, <3>1
    <3>3. x[1].is = "head" /\ x[1].what = "stages" /\ HF[1].is = "head" /\ HF[1].what = "flow"
      BY <2>5, HeadsAre
    <3>4. \A i \in 1 .. 2 : i = 1 \/ i = 2
      OBVIOUS
    <3> QED
      BY <2>3, <2>4, <3>1, <3>2, <3>3, <3>4
  <2>6. CASE x = <<>> /\ z = HS
    <3>1. Len(x) = 0 /\ Len(HF) = 1 /\ Len(z) = 1 /\ Len(u) = 1
      BY <2>1, <2>6, HeadsAre
    <3>2. r[1] = u[1] /\ r[2] = z[1] /\ u[1] = HF[1]
      BY <2>1, <2>4, <3>1
    <3>3. z[1].is = "head" /\ z[1].what = "stages" /\ HF[1].is = "head" /\ HF[1].what = "flow"
      BY <2>6, HeadsAre
    <3>4. \A i \in 1 .. 2 : i = 1 \/ i = 2
      OBVIOUS
    <3> QED
      BY <2>3, <2>4, <3>1, <3>2, <3>3, <3>4
  <2> QED
    BY <2>5, <2>6
<1> HIDE DEF t
<1>4. k = Len(x) + 1 /\ e = Len(x) + 2
  <2>1. FlowBounded(t, L, k, e, NoStages, <<>>)
    BY <1>2, FlowBounds
  <2> HIDE DEF k, e
  <2>2. /\ k \in 1 .. 2 /\ e \in k + 1 .. 3 /\ t[k].what = "flow" /\ \A i \in k + 1 .. e - 1 : t[i].is # "head"
    <3>1. /\ k \in 1 .. Len(t) /\ e \in k + 1 .. Len(t) + 1 /\ t[k].what = "flow"
          /\ \A i \in k + 1 .. e - 1 : t[i].is # "head"
      BY <2>1 DEF FlowBounded
    <3>2. Len(t) = 2
      BY <1>3
    <3>3. Len(t) + 1 = 3
      BY <3>2
    <3> QED
      BY <3>1, <3>2, <3>3
  <2>3. k = Len(x) + 1
    BY <1>3, <2>2
  <2>4. e = k + 1
    <3>1. ASSUME e # k + 1 PROVE FALSE
      <4>1. k + 1 \in k + 1 .. e - 1 /\ k + 1 \in 1 .. 2
        BY <2>2, <3>1
      <4> QED
        BY <1>3, <2>2, <4>1
    <3> QED
      BY <3>1
  <2>5. Len(x) \in Nat
    BY <1>0
  <2> QED
    BY <2>3, <2>4, <2>5
<1>5. ReplaceFlow(t, flow) = Put(t, k, e, F)
  <2>1. ~(k > Len(t))
    <3>1. Len(x) \in Nat /\ Len(HF) = 1 /\ Len(z) \in Nat
      BY <1>0, HeadsAre
    <3> HIDE DEF k
    <3> QED
      BY <1>3, <1>4, <3>1
  <2> QED
    BY <2>1 DEF ReplaceFlow
<1>6. Put(t, k, e, F) = (x \o F) \o z
  <2>1. Replaced(x, HF, z, F)
    BY <1>0, HeadsAre, PutBetween
  <2>2. Len(x) + Len(HF) + 1 = Len(x) + 2
    BY <1>0, HeadsAre
  <2> HIDE DEF k, e, F
  <2> QED
    BY <1>4, <2>1, <2>2 DEF Replaced, t
<1>7. Reads(ReplaceFlow(t, flow), NoStages, flow)
  BY <1>2, FlowReads DEF Reads
<1> QED
  BY <1>5, <1>6, <1>7

(* The flow and the heads as an author left them, before there is a Stage. *)
LEMMA FlowLast ==
  ASSUME NEW flow \in Seq(StageName), NEW gap \in Gap
  PROVE  Ready(HS \o (FlowLines(flow) \o gap), 1, NoStages, flow)
<1> DEFINE F == FlowLines(flow)
           z == F \o gap
           t == HS \o z
<1>0. /\ F \in Seq(TextLine) /\ Len(F) = Len(flow) + 1 /\ F[1].is = "head" /\ gap \in Seq(TextLine) /\ Len(flow) \in Nat
      /\ HS \in Seq(TextLine) /\ Len(HS) = 1 /\ HS[1].is = "head" /\ HS[1].what = "stages"
  BY FlowLinesAre, GapIs, HeadsAre
<1> HIDE DEF F
<1>1. Reads((HS \o F) \o <<>>, NoStages, flow)
  BY FlowPut DEF F
<1>2. HS \o F \in Seq(TextLine) /\ <<>> \in Seq(TextLine)
  BY <1>0, ConcatProperties
<1>3. Reads(((HS \o F) \o gap) \o <<>>, NoStages, flow)
  BY <1>1, <1>2, GapPut
<1>4. ((HS \o F) \o gap) \o <<>> = t
  <2>1. (HS \o F) \o gap = HS \o (F \o gap)
    <3>1. F \in Seq(TextLine) /\ gap \in Seq(TextLine) /\ HS \in Seq(TextLine)
      BY <1>0
    <3> QED
      BY <3>1, LinesConcat
  <2>2. (HS \o F) \o gap \in Seq(TextLine)
    BY <1>0, <1>2, ConcatProperties
  <2>3. ((HS \o F) \o gap) \o <<>> = (HS \o F) \o gap
    BY <2>2, ConcatEmptySeq
  <2> QED
    BY <2>1, <2>3
<1>5. /\ z \in Seq(TextLine) /\ Len(z) = Len(F) + Len(gap) /\ z[1] = F[1]
  <2>1. /\ z \in Seq(TextLine) /\ Len(z) = Len(F) + Len(gap)
        /\ \A i \in 1 .. Len(F) + Len(gap) : z[i] = IF i <= Len(F) THEN F[i] ELSE gap[i - Len(F)]
    BY <1>0, ConcatProperties
  <2>2. 1 \in 1 .. Len(F) + Len(gap) /\ 1 <= Len(F)
    BY <1>0
  <2> HIDE DEF z
  <2> QED
    BY <2>1, <2>2
<1> HIDE DEF z
<1>6. /\ t \in Seq(TextLine) /\ Len(t) = 1 + Len(z) /\ t[1] = HS[1] /\ t[2] = z[1] /\ Len(z) \in Nat /\ Len(z) >= 1
  <2>1. /\ t \in Seq(TextLine) /\ Len(t) = Len(HS) + Len(z)
        /\ \A i \in 1 .. Len(HS) + Len(z) : t[i] = IF i <= Len(HS) THEN HS[i] ELSE z[i - Len(HS)]
    <3>1. HS \in Seq(TextLine) /\ z \in Seq(TextLine)
      BY <1>0, <1>5
    <3> QED
      BY <3>1, ConcatProperties
  <2>2. Len(z) \in Nat /\ Len(z) >= 1 /\ Len(HS) = 1
    BY <1>0, <1>5
  <2> HIDE DEF t
  <2> QED
    BY <2>1, <2>2
<1>7. Ends(t, 1)
  BY <1>0, <1>5, <1>6 DEF Ends
<1>8. Reads(t, NoStages, flow) /\ 1 \in 1 .. Len(t) /\ t[1].is = "head" /\ t[1].what = "stages"
  <2>1. Reads(t, NoStages, flow)
    BY <1>3, <1>4
  <2> HIDE DEF t
  <2> QED
    BY <1>0, <1>6, <2>1
<1> HIDE DEF t
<1>9. Ready(t, 1, NoStages, flow)
  BY <1>7, <1>8, ReadyAtHead
<1> QED
  BY <1>9 DEF t, z, F

LEMMA FlowFirst ==
  ASSUME NEW flow \in Seq(StageName), NEW gap \in Gap, NEW t, t = (FlowLines(flow) \o gap) \o HS
  PROVE  t \in Seq(TextLine) /\ Ready(t, Len(t), NoStages, flow)
<1> DEFINE F == FlowLines(flow)
           y == F \o gap
<1>0. /\ F \in Seq(TextLine) /\ gap \in Seq(TextLine)
      /\ HS \in Seq(TextLine) /\ Len(HS) = 1 /\ HS[1].is = "head" /\ HS[1].what = "stages"
  BY FlowLinesAre, GapIs, HeadsAre
<1> HIDE DEF F
<1>1. Reads((<<>> \o F) \o HS, NoStages, flow)
  BY FlowPut DEF F
<1>2. <<>> \o F = F
  BY <1>0, ConcatEmptySeq
<1>3. Reads((F \o gap) \o HS, NoStages, flow)
  BY <1>0, <1>1, <1>2, GapPut
<1>4. y \in Seq(TextLine)
  BY <1>0, ConcatProperties
<1>5. t = y \o HS
  BY DEF F
<1>6. Reads(t, NoStages, flow)
  BY <1>3, <1>5
<1> HIDE DEF y
<1>7. /\ t \in Seq(TextLine) /\ Len(t) = Len(y) + 1 /\ t[Len(t)] = HS[1] /\ Len(y) \in Nat
  <2>1. /\ t \in Seq(TextLine) /\ Len(t) = Len(y) + Len(HS)
        /\ \A i \in 1 .. Len(y) + Len(HS) : t[i] = IF i <= Len(y) THEN y[i] ELSE HS[i - Len(y)]
    <3>1. HS \in Seq(TextLine) /\ y \in Seq(TextLine)
      BY <1>0, <1>4
    <3> QED
      BY <1>5, <3>1, ConcatProperties
  <2>2. Len(y) \in Nat
    BY <1>4
  <2>3. Len(t) \in 1 .. Len(y) + Len(HS) /\ ~(Len(t) <= Len(y)) /\ Len(t) - Len(y) = 1
    BY <1>0, <2>1, <2>2
  <2>4. t[Len(t)] = HS[1]
    BY <2>1, <2>3
  <2> QED
    BY <1>0, <2>1, <2>2, <2>4
<1>8. Ends(t, Len(t)) /\ Len(t) \in 1 .. Len(t)
  BY <1>7 DEF Ends
<1> QED
  BY <1>0, <1>6, <1>7, <1>8, ReadyAtHead

(* What an author typed reads as the drawing it was made from. *)
LEMMA AuthoredRead ==
  ASSUME NEW d, Drawn(d), d.flow \in Seq(StageName), NEW gap \in Gap, NEW order, order = SetToSeq(DOMAIN d.stages),
         NEW H, H = FlattenSeq([i \in 1 .. Len(order) |-> Block(d, gap, order[i])])
  PROVE  /\ Reads((FlowLines(d.flow) \o gap) \o (HS \o H), d.stages, d.flow)
         /\ Reads(((HS \o H) \o FlowLines(d.flow)) \o gap, d.stages, d.flow)
<1> DEFINE F == FlowLines(d.flow)
           x == F \o gap
           t == x \o HS
<1>0. F \in Seq(TextLine) /\ gap \in Seq(TextLine) /\ HS \in Seq(TextLine) /\ Len(HS) = 1
  BY FlowLinesAre, GapIs, HeadsAre
<1>1. t \in Seq(TextLine) /\ Ready(t, Len(t), NoStages, d.flow)
  BY FlowFirst
<1>2. Ready(HS \o x, 1, NoStages, d.flow)
  BY FlowLast
<1> HIDE DEF F
<1>3. x \in Seq(TextLine)
  BY <1>0, ConcatProperties
<1> HIDE DEF x
<1> HIDE DEF t
<1>4. H \in Seq(TextLine) /\ ReadyPut(t, Len(t), H, d.stages, d.flow)
  BY <1>1, BlocksReady
<1>5. ReadyPut(HS \o x, 1, H, d.stages, d.flow)
  BY <1>2, BlocksReady
<1>6. Reads(x \o (HS \o H), d.stages, d.flow)
  <2>1. Reads(Put(t, Len(t) + 1, Len(t) + 1, H), d.stages, d.flow)
    BY <1>4 DEF ReadyPut, Ready, Reads
  <2>2. InsertedAt(t, <<>>, H)
    <3>1. t \in Seq(TextLine) /\ <<>> \in Seq(TextLine) /\ H \in Seq(TextLine)
      BY <1>1, <1>4
    <3> QED
      BY <3>1, PutAmong
  <2>3. Put(t \o <<>>, Len(t) + 1, Len(t) + 1, H) = (t \o H) \o <<>>
    BY <2>2 DEF InsertedAt
  <2>4. t \o <<>> = t
    BY <1>1, ConcatEmptySeq
  <2>5. t \o H \in Seq(TextLine)
    BY <1>1, <1>4, ConcatProperties
  <2>6. (t \o H) \o <<>> = t \o H
    BY <2>5, ConcatEmptySeq
  <2>7. t \o H = x \o (HS \o H)
    <3>1. x \in Seq(TextLine) /\ HS \in Seq(TextLine) /\ H \in Seq(TextLine)
      BY <1>0, <1>3, <1>4
    <3>2. (x \o HS) \o H = x \o (HS \o H)
      BY <3>1, LinesConcat
    <3> QED
      BY <3>2 DEF t
  <2> QED
    BY <2>1, <2>3, <2>4, <2>6, <2>7
<1>7. Reads(((HS \o H) \o F) \o gap, d.stages, d.flow)
  <2>1. Reads(Put(HS \o x, 1 + 1, 1 + 1, H), d.stages, d.flow)
    BY <1>5 DEF ReadyPut, Ready, Reads
  <2>2. InsertedAt(HS, x, H)
    BY <1>0, <1>3, <1>4, PutAmong
  <2>3. Put(HS \o x, 1 + 1, 1 + 1, H) = (HS \o H) \o x
    BY <1>0, <2>2 DEF InsertedAt
  <2>4. HS \o H \in Seq(TextLine)
    BY <1>0, <1>4, ConcatProperties
  <2>5. (HS \o H) \o (F \o gap) = ((HS \o H) \o F) \o gap
    <3>1. F \in Seq(TextLine) /\ gap \in Seq(TextLine)
      BY <1>0
    <3> DEFINE u == HS \o H
    <3>2. u \in Seq(TextLine)
      BY <2>4
    <3> HIDE DEF u
    <3>3. (u \o F) \o gap = u \o (F \o gap)
      BY <3>1, <3>2, LinesConcat
    <3> QED
      BY <3>3 DEF u
  <2> QED
    BY <2>1, <2>3, <2>5 DEF x
<1> QED
  BY <1>6, <1>7 DEF x, F

LEMMA ConfigTyped ==
  /\ \A f \in Field : Value[f] \subseteq Whatever
  /\ Config \subseteq [Field -> Whatever]
<1>1. \A f \in Field : Value[f] \subseteq Whatever
  BY PatchAssumption DEF Whatever
<1>2. ASSUME NEW c \in Config PROVE c \in [Field -> Whatever]
  <2> DEFINE V == (UNION {Value[f] : f \in Field}) \cup {Absent}
  <2>1. c \in [Field -> V]
    BY PatchAssumption
  <2> HIDE DEF V
  <2>2. \A f \in Field : c[f] \in Value[f] \cup {Absent}
    BY PatchAssumption
  <2>3. \A f \in Field : c[f] \in Whatever
    BY <1>1, <2>2 DEF Whatever
  <2> QED
    BY <2>1, <2>3
<1> QED
  BY <1>1, <1>2

LEMMA ReverseTyped ==
  ASSUME NEW S, NEW q \in Seq(S)
  PROVE  Reverse(q) \in Seq(S)
<1>1. Len(q) \in Nat
  OBVIOUS
<1>2. \A i \in 1 .. Len(q) : q[(Len(q) - i) + 1] \in S
  <2> TAKE i \in 1 .. Len(q)
  <2>1. (Len(q) - i) + 1 \in 1 .. Len(q)
    BY <1>1
  <2> QED
    BY <2>1
<1> QED
  BY <1>1, <1>2 DEF Reverse

LEMMA NamesTyped ==
  ASSUME NEW S \in SUBSET StageName
  PROVE  SetToSeq(S) \in Seq(S) /\ Reverse(SetToSeq(S)) \in Seq(S)
<1>1. SetToSeq(S) \in Seq(S)
  <2>1. Enumerates(SetToSeq(S), S)
    BY PatchAssumption, FS_Subset, SetToSeqIs
  <2> QED
    BY <2>1 DEF Enumerates
<1> QED
  BY <1>1, ReverseTyped

LEMMA DrawingTyped ==
  ASSUME NEW d \in Drawing
  PROVE  /\ Drawn(d) /\ d.flow \in Seq(DOMAIN d.stages) /\ d.flow \in Seq(StageName)
         /\ d = [stages |-> d.stages, flow |-> d.flow]
<1>1. PICK names \in SUBSET StageName :
        d \in [stages : [names -> Config], flow : {SetToSeq(names), Reverse(SetToSeq(names))}]
  BY DEF Drawing
<1>2. d.stages \in [names -> Config] /\ DOMAIN d.stages = names /\ d = [stages |-> d.stages, flow |-> d.flow]
  BY <1>1
<1>3. d.flow \in Seq(names)
  <2>1. d.flow = SetToSeq(names) \/ d.flow = Reverse(SetToSeq(names))
    BY <1>1
  <2> QED
    BY <2>1, NamesTyped
<1>4. d.flow \in Seq(StageName)
  BY <1>1, <1>3
<1>5. Drawn(d)
  BY <1>2, ConfigTyped DEF Drawn
<1> QED
  BY <1>2, <1>3, <1>4, <1>5

(* The lines are those of what was meant, and the flow has only Stages that are there. *)
TextInv ==
  /\ Reads(text, meant.stages, meant.flow)
  /\ meant = [stages |-> meant.stages, flow |-> meant.flow]
  /\ meant.flow \in Seq(DOMAIN meant.stages)

LEMMA TextInvIs ==
  ASSUME NEW st, NEW fl, meant' = [stages |-> st, flow |-> fl], Reads(text', st, fl), fl \in Seq(DOMAIN st)
  PROVE  TextInv'
<1>1. meant'.stages = st /\ meant'.flow = fl
  OBVIOUS
<1> QED
  BY <1>1 DEF TextInv

LEMMA AuthoredTyped ==
  ASSUME NEW a \in Authored
  PROVE  /\ Reads(a.text, a.meant.stages, a.meant.flow) /\ a.meant = [stages |-> a.meant.stages, flow |-> a.meant.flow]
         /\ a.meant.flow \in Seq(DOMAIN a.meant.stages)
<1> DEFINE Order(d) == SetToSeq(DOMAIN d.stages)
           H(d, gap) == FlattenSeq([i \in 1 .. Len(Order(d)) |-> Block(d, gap, Order(d)[i])])
           blocks(d, gap) == HS \o H(d, gap)
<1>0. PICK d \in Drawing, gap \in Gap, first \in BOOLEAN : a = [text |-> AuthoredText(d, gap, first), meant |-> d]
  BY DEF Authored
<1>1. AuthoredText(d, gap, first) =
        IF first THEN FlowLines(d.flow) \o gap \o blocks(d, gap) ELSE blocks(d, gap) \o FlowLines(d.flow) \o gap
  BY DEF AuthoredText, Block, HS
<1>2. Drawn(d) /\ d.flow \in Seq(DOMAIN d.stages) /\ d.flow \in Seq(StageName) /\ d = [stages |-> d.stages, flow |-> d.flow]
  BY DrawingTyped
<1>3. /\ Reads((FlowLines(d.flow) \o gap) \o (HS \o H(d, gap)), d.stages, d.flow)
      /\ Reads(((HS \o H(d, gap)) \o FlowLines(d.flow)) \o gap, d.stages, d.flow)
  BY <1>2, AuthoredRead
<1> HIDE DEF H
<1>4. Reads(a.text, d.stages, d.flow) /\ a.meant = d
  <2>1. CASE first
    BY <1>0, <1>1, <1>3, <2>1
  <2>2. CASE ~first
    BY <1>0, <1>1, <1>3, <2>2
  <2> QED
    BY <1>0, <2>1, <2>2
<1> QED
  BY <1>2, <1>4

LEMMA AddedRead ==
  ASSUME TextInv, AddStage
  PROVE  TextInv'
<1> DEFINE st == meant.stages
           fl == meant.flow
<1>1. PICK s \in StageName \ DOMAIN st, base \in Value["type"], v \in Value["prompt"] :
        LET config == [f \in Field |-> IF f = "type" THEN base ELSE IF f = "prompt" THEN v ELSE Absent]
            flow == Append(fl, s)
        IN /\ text' = ReplaceFlow(InsertStage(text, s, config), flow)
           /\ meant' = [stages |-> [r \in DOMAIN st \cup {s} |-> IF r = s THEN config ELSE st[r]], flow |-> flow]
  BY DEF AddStage
<1> DEFINE config == [f \in Field |-> IF f = "type" THEN base ELSE IF f = "prompt" THEN v ELSE Absent]
           flow == Append(fl, s)
           st2 == Joined(st, s, config)
<1>2. text' = ReplaceFlow(InsertStage(text, s, config), flow) /\ meant' = [stages |-> st2, flow |-> flow]
  BY <1>1 DEF Joined
<1>3. config \in [Field -> Whatever]
  <2>1. base \in Whatever /\ v \in Whatever /\ Absent \in Whatever
    BY ConfigTyped DEF Field, Whatever
  <2> QED
    BY <2>1
<1> HIDE DEF config
<1>4. Reads(InsertStage(text, s, config), st2, fl)
  BY <1>3, InsertReads DEF TextInv
<1>5. DOMAIN st2 = DOMAIN st \cup {s} /\ DOMAIN st \subseteq StageName
  BY ReadsTyped DEF Joined, TextInv, MeantTyped
<1>6. flow \in Seq(DOMAIN st2) /\ flow \in Seq(StageName)
  <2>1. fl \in Seq(DOMAIN st \cup {s}) /\ s \in DOMAIN st \cup {s}
    BY DEF TextInv
  <2>2. flow \in Seq(DOMAIN st \cup {s})
    BY <2>1, AppendProperties
  <2> HIDE DEF flow, st2
  <2>3. DOMAIN st \cup {s} \subseteq StageName
    BY <1>5
  <2> QED
    BY <1>5, <2>2, <2>3
<1> HIDE DEF st2, flow
<1>7. Reads(text', st2, flow)
  BY <1>2, <1>4, <1>6, FlowReads
<1> QED
  BY <1>2, <1>6, <1>7, TextInvIs

LEMMA DeletedRead ==
  ASSUME TextInv, DeleteStage
  PROVE  TextInv'
<1> DEFINE st == meant.stages
           fl == meant.flow
           n == Len(fl)
<1>1. PICK s \in ToSet(fl) :
        LET flow == FlattenSeq([i \in 1 .. Len(fl) |-> IF fl[i] = s THEN <<>> ELSE <<fl[i]>>])
        IN /\ text' = ReplaceFlow(RemoveStage(text, s), flow)
           /\ meant' = [stages |-> [r \in DOMAIN st \ {s} |-> st[r]], flow |-> flow]
  BY DEF DeleteStage
<1> DEFINE ss == [i \in 1 .. n |-> IF fl[i] = s THEN <<>> ELSE <<fl[i]>>]
           flow == FlattenSeq(ss)
           st2 == Without(st, s)
           E == DOMAIN st \ {s}
<1>2. text' = ReplaceFlow(RemoveStage(text, s), flow) /\ meant' = [stages |-> st2, flow |-> flow]
  BY <1>1 DEF Without
<1>3. /\ fl \in Seq(DOMAIN st) /\ n \in Nat /\ s \in DOMAIN st /\ DOMAIN st \subseteq StageName
      /\ Reads(text, st, fl)
  <2>1. fl \in Seq(DOMAIN st) /\ Reads(text, st, fl)
    BY DEF TextInv
  <2>2. s \in DOMAIN st
    BY <2>1 DEF ToSet
  <2>3. DOMAIN st \subseteq StageName
    BY <2>1, ReadsTyped DEF MeantTyped
  <2> QED
    BY <2>1, <2>2, <2>3
<1>4. ss \in [1 .. n -> Seq(E)]
  <2>1. ASSUME NEW i \in 1 .. n PROVE (IF fl[i] = s THEN <<>> ELSE <<fl[i]>>) \in Seq(E)
    <3>1. fl[i] \in DOMAIN st
      BY <1>3
    <3>2. fl[i] # s => fl[i] \in E
      BY <3>1
    <3> HIDE DEF E, fl
    <3>3. fl[i] # s => <<fl[i]>> \in Seq(E)
      BY <3>2
    <3> QED
      BY <3>3
  <2> HIDE DEF E
  <2> QED
    BY <2>1
<1> HIDE DEF ss, n, E
<1>5. flow \in Seq(E)
  <2>1. PICK h \in [0 .. n -> Seq(E)] : Flattened(h, ss, n)
    BY <1>3, <1>4, FlattenSteps
  <2>2. flow = h[n]
    BY <2>1 DEF Flattened
  <2> QED
    BY <1>3, <2>1, <2>2
<1> HIDE DEF flow
<1>6. DOMAIN st2 = E
  BY DEF Without, E
<1>7. flow \in Seq(StageName)
  <2>1. E \subseteq StageName
    BY <1>3 DEF E
  <2> QED
    BY <1>5, <2>1
<1>8. Reads(RemoveStage(text, s), st2, fl)
  BY <1>3, RemoveReads
<1> HIDE DEF st2
<1>9. Reads(text', st2, flow)
  BY <1>2, <1>7, <1>8, FlowReads
<1> QED
  BY <1>2, <1>5, <1>6, <1>9, TextInvIs

LEMMA StageSavedRead ==
  ASSUME TextInv, SaveStage
  PROVE  TextInv'
<1> DEFINE st == meant.stages
           fl == meant.flow
<1>0. PICK s \in DOMAIN st, f \in Field \ {"type"} :
        \E v \in Value[f] : text' = PatchField(text, s, f, v) /\ meant' = [meant EXCEPT !.stages[s][f] = v]
  BY DEF SaveStage
<1>1. PICK v \in Value[f] :
        text' = PatchField(text, s, f, v) /\ meant' = [meant EXCEPT !.stages[s][f] = v]
  BY <1>0
<1> DEFINE st2 == [st EXCEPT ![s][f] = v]
<1>2. v \in Whatever
  BY ConfigTyped
<1>3. Reads(text', st2, fl)
  BY <1>1, <1>2, FieldReads DEF TextInv
<1>4. meant' = [stages |-> st2, flow |-> fl]
  <2>1. meant = [stages |-> st, flow |-> fl]
    BY DEF TextInv
  <2> QED
    BY <1>1, <2>1
<1>5. fl \in Seq(DOMAIN st2)
  BY DEF TextInv
<1> HIDE DEF st2
<1> QED
  BY <1>3, <1>4, <1>5, TextInvIs

LEMMA FlowSavedRead ==
  ASSUME TextInv, SaveFlow
  PROVE  TextInv'
<1> DEFINE st == meant.stages
           fl == meant.flow
<1>1. PICK flow \in {fl, Reverse(fl), SetToSeq(DOMAIN st)} :
        text' = ReplaceFlow(text, flow) /\ meant' = [meant EXCEPT !.flow = flow]
  BY DEF SaveFlow
<1>2. DOMAIN st \subseteq StageName /\ fl \in Seq(DOMAIN st) /\ Reads(text, st, fl) /\ meant = [stages |-> st, flow |-> fl]
  BY ReadsTyped DEF TextInv, MeantTyped
<1>3. flow \in Seq(DOMAIN st)
  BY <1>2, ReverseTyped, NamesTyped
<1>4. flow \in Seq(StageName)
  BY <1>2, <1>3
<1>5. Reads(text', st, flow)
  BY <1>1, <1>2, <1>4, FlowReads
<1>6. meant' = [stages |-> st, flow |-> flow]
  BY <1>1, <1>2
<1> QED
  BY <1>3, <1>5, <1>6, TextInvIs

LEMMA DrawingSavedRead ==
  ASSUME TextInv, SaveDrawing
  PROVE  TextInv'
<1>1. PICK d \in Drawing :
        /\ text' = Redrawn(d)
        /\ meant' = [stages |-> [s \in DOMAIN d.stages |-> Asked(s, d.stages[s])], flow |-> d.flow]
  BY DEF SaveDrawing
<1> DEFINE st2 == [s \in DOMAIN d.stages |-> Asked(s, d.stages[s])]
<1>2. Drawn(d) /\ d.flow \in Seq(DOMAIN d.stages) /\ d.flow \in Seq(StageName)
  BY DrawingTyped
<1>3. Reads(text', st2, d.flow)
  BY <1>1, <1>2, DrawingRead DEF TextInv
<1>4. meant' = [stages |-> st2, flow |-> d.flow] /\ d.flow \in Seq(DOMAIN st2)
  BY <1>1, <1>2
<1> HIDE DEF st2
<1> QED
  BY <1>3, <1>4, TextInvIs

LEMMA TextSavedRead ==
  ASSUME SaveText
  PROVE  TextInv'
<1>1. PICK a \in Authored : text' = a.text /\ meant' = a.meant
  BY DEF SaveText
<1> QED
  BY <1>1, AuthoredTyped, TextInvIs

(* Whatever edits patch the lines, and whatever comments and blank lines an author left,   *)
(* the file reads as what the edits asked for (workflow_studio_state.py:782-877,           *)
(* 1221-1426).                                                              *)
THEOREM TextStaysMeant == TextInit /\ [][TextNext]_textVars => []TextIsMeant
<1>1. TextInit => TextInv
  <2> SUFFICES ASSUME TextInit PROVE TextInv
    OBVIOUS
  <2>1. PICK a \in Authored : text = a.text /\ meant = a.meant
    BY DEF TextInit
  <2> QED
    BY <2>1, AuthoredTyped DEF TextInv
<1>2. TextInv /\ [TextNext]_textVars => TextInv'
  <2> SUFFICES ASSUME TextInv, [TextNext]_textVars PROVE TextInv'
    OBVIOUS
  <2>1. CASE SaveDrawing
    BY <2>1, DrawingSavedRead
  <2>2. CASE SaveStage
    BY <2>2, StageSavedRead
  <2>3. CASE SaveFlow
    BY <2>3, FlowSavedRead
  <2>4. CASE AddStage
    BY <2>4, AddedRead
  <2>5. CASE DeleteStage
    BY <2>5, DeletedRead
  <2>6. CASE SaveText
    BY <2>6, TextSavedRead
  <2>7. CASE UNCHANGED textVars
    BY <2>7 DEF TextInv, textVars
  <2> QED
    BY <2>1, <2>2, <2>3, <2>4, <2>5, <2>6, <2>7 DEF TextNext
<1>3. TextInv => TextIsMeant
  BY ReadsIsRead DEF TextInv, TextIsMeant
<1> QED
  BY <1>1, <1>2, <1>3, PTL

==============================================================================
