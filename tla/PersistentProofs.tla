-------------------------- MODULE PersistentProofs --------------------------
(***************************************************************************)
(* Proofs about the persistent facts and aggregates of a node, for any     *)
(* number of senders and facts.                                            *)
(*                                                                         *)
(* The facts of a predicate and the values of an aggregate are lists of    *)
(* leaves, one for each tuple (Leaves); insertion and removal change one   *)
(* leaf.  The facts that wait are a way for the counts to go (Takes): they *)
(* end at what the senders hold, and no count falls below zero.            *)
(***************************************************************************)
EXTENDS Persistent, LibraryProofs

-----------------------------------------------------------------------------
(* Lists of leaves. *)

\* A count for each of finitely many depths.
Counts(c) == c \in [DOMAIN c -> Nat] /\ IsFiniteSet(DOMAIN c)

Leaf(l) ==
  /\ l \in [tpl : {l.tpl}, count : Nat, cyclic : BOOLEAN, depths : {l.depths}]
  /\ Counts(l.depths)

\* A list of leaves for different tuples.
Distinct(s) ==
  /\ s \in Seq(ToSet(s)) /\ Once(s)
  /\ \A l \in ToSet(s) : Leaf(l)
  /\ \A l, m \in ToSet(s) : l.tpl = m.tpl => l = m

\* None of them is to be deleted.
Leaves(s) == Distinct(s) /\ \A l \in ToSet(s) : l.count # 0

\* The tuples of a list of leaves.
TuplesOf(s) == {l.tpl : l \in ToSet(s)}

\* What a sequence of leaves is made of.
LEMMA LeafFact ==
  ASSUME NEW s, s \in Seq(ToSet(s))
  PROVE  /\ Len(s) \in Nat /\ DOMAIN s = 1 .. Len(s)
         /\ \A i \in DOMAIN s : s[i] \in ToSet(s)
         /\ \A l \in ToSet(s) : \E i \in DOMAIN s : s[i] = l
         /\ \A t : Entries(s, t) = {} <=> t \notin TuplesOf(s)
<1>1. Len(s) \in Nat /\ DOMAIN s = 1 .. Len(s) /\ \A i \in DOMAIN s : s[i] \in ToSet(s)
  BY LenProperties
<1>2. \A l \in ToSet(s) : \E i \in DOMAIN s : s[i] = l
  BY DEF ToSet
<1>3. \A t : Entries(s, t) = {} <=> t \notin TuplesOf(s)
  BY <1>1, <1>2 DEF Entries, TuplesOf
<1> QED
  BY <1>1, <1>2, <1>3

\* The count of a tuple is that of its leaf.
LEMMA CountIs ==
  ASSUME NEW s, Distinct(s)
  PROVE  /\ \A l \in ToSet(s) : CountOf(s, l.tpl) = l.count
         /\ \A t : t \notin TuplesOf(s) => CountOf(s, t) = 0
         /\ \A t : CountOf(s, t) \in Nat
<1> DEFINE f == [i \in DOMAIN s |-> s[i].count]
<1>1. \A t : CountOf(s, t) = SumFunctionOnSet(f, Entries(s, t))
  BY DEF CountOf
<1>2. s \in Seq(ToSet(s))
  BY DEF Distinct
<1>3. \A i \in DOMAIN s : f[i] \in Int /\ f[i] = s[i].count
  BY <1>2, LeafFact DEF Distinct, Leaf
<1> HIDE DEF f
<1>4. ASSUME NEW l \in ToSet(s) PROVE CountOf(s, l.tpl) = l.count
  <2>1. PICK i \in DOMAIN s : s[i] = l
    BY <1>2, LeafFact
  <2>2. Entries(s, l.tpl) = {i}
    BY <1>2, <2>1, LeafFact DEF Entries, Distinct, Once
  <2>3. IsFiniteSet({i}) /\ \A j \in {i} : f[j] \in Int
    BY <1>3, FS_Singleton
  <2>4. SumFunctionOnSet(f, {i}) = f[i] + SumFunctionOnSet(f, {i} \ {i})
    BY <2>3, SumRemove
  <2>5. SumFunctionOnSet(f, {i} \ {i}) = 0
    <3>1. {i} \ {i} = {}
      OBVIOUS
    <3> QED
      BY <3>1, SumEmpty
  <2>6. l.count \in Nat /\ f[i] = l.count
    BY <1>3, <2>1 DEF Distinct, Leaf
  <2>7. f[i] + 0 = l.count
    BY <2>6
  <2> QED
    BY <1>1, <2>2, <2>4, <2>5, <2>7
<1>5. ASSUME NEW t, t \notin TuplesOf(s) PROVE CountOf(s, t) = 0
  <2>1. Entries(s, t) = {}
    BY <1>2, <1>5, LeafFact
  <2> QED
    BY <1>1, <2>1, SumEmpty
<1>6. ASSUME NEW t PROVE CountOf(s, t) \in Nat
  <2>1. CASE t \in TuplesOf(s)
    <3>1. PICK l \in ToSet(s) : l.tpl = t
      BY <2>1 DEF TuplesOf
    <3> QED
      BY <1>4, <3>1 DEF Distinct, Leaf
  <2>2. CASE t \notin TuplesOf(s)
    BY <1>5, <2>2
  <2> QED
    BY <2>1, <2>2
<1> QED
  BY <1>4, <1>5, <1>6

\* One leaf is replaced by another for the same tuple.
LEMMA ReplacedIs ==
  ASSUME NEW s, Distinct(s), NEW x \in ToSet(s), NEW y, Leaf(y), y.tpl = x.tpl,
         NEW w, w = [i \in DOMAIN s |-> IF i \in Entries(s, x.tpl) THEN y ELSE s[i]]
  PROVE  Distinct(w) /\ ToSet(w) = (ToSet(s) \ {x}) \cup {y}
<1>1. s \in Seq(ToSet(s)) /\ Once(s)
  BY DEF Distinct
<1>2. PICK k \in DOMAIN s : s[k] = x
  BY <1>1, LeafFact
<1>3. Entries(s, x.tpl) = {k}
  BY <1>1, <1>2, LeafFact DEF Entries, Distinct, Once
<1>4. /\ DOMAIN w = DOMAIN s /\ w[k] = y
      /\ \A i \in DOMAIN s : i # k => w[i] = s[i] /\ s[i] # x
  BY <1>1, <1>2, <1>3 DEF Once
<1>5. ToSet(w) = (ToSet(s) \ {x}) \cup {y}
  BY <1>1, <1>2, <1>4 DEF ToSet
<1>6. w \in Seq(ToSet(w))
  <2>1. Len(s) \in Nat /\ DOMAIN w = 1 .. Len(s)
    BY <1>1, <1>4, LeafFact
  <2>2. w = [i \in DOMAIN w |-> w[i]] /\ \A i \in DOMAIN w : w[i] \in ToSet(w)
    BY DEF ToSet
  <2> DEFINE T == ToSet(w)
             n == Len(s)
  <2>3. n \in Nat /\ w \in [1 .. n -> T]
    BY <2>1, <2>2
  <2> HIDE DEF T, n
  <2>4. w \in Seq(T)
    BY <2>3, SeqDef
  <2> QED
    BY <2>4 DEF T
<1>7. \A l \in ToSet(s) \ {x} : l.tpl # y.tpl
  BY DEF Distinct
<1>8. y \notin ToSet(s) \ {x}
  BY <1>7
<1>9. Once(w)
  BY <1>1, <1>2, <1>4, <1>8 DEF Once, ToSet
<1> QED
  BY <1>5, <1>6, <1>7, <1>9 DEF Distinct

\* Counting up and down at a depth.
LEMMA DepthsIs ==
  ASSUME NEW c, Counts(c), NEW d
  PROVE  Counts(depth_add(c, d)) /\ Counts(depth_sub(c, d)) /\ Counts(Restrict(c, DOMAIN c \ Above(c, d)))
<1>1. c = [x \in DOMAIN c |-> c[x]] /\ (\A x \in DOMAIN c : c[x] \in Nat) /\ IsFiniteSet(DOMAIN c)
  BY DEF Counts
<1>2. \A x : get_count(c, x) \in Nat
  BY <1>1 DEF get_count
<1>3. Counts(depth_add(c, d))
  <2> DEFINE a == depth_add(c, d)
  <2>1. /\ DOMAIN a = DOMAIN c \cup {d}
        /\ \A x \in DOMAIN a : a[x] = get_count(c, x) + IF x = d THEN 1 ELSE 0
        /\ a = [x \in DOMAIN a |-> a[x]]
    BY DEF depth_add
  <2> HIDE DEF a
  <2>2. \A x \in DOMAIN a : a[x] \in Nat
    BY <1>2, <2>1
  <2>3. IsFiniteSet(DOMAIN a)
    BY <1>1, <2>1, FS_AddElement
  <2> QED
    BY <2>1, <2>2, <2>3 DEF Counts, a
<1>4. ASSUME NEW S, S \subseteq DOMAIN c PROVE Counts(Restrict(c, S))
  <2>1. IsFiniteSet(S)
    BY <1>1, <1>4, FS_Subset
  <2> QED
    BY <1>1, <1>4, <2>1 DEF Counts, Restrict
<1>5. Counts(depth_sub(c, d))
  <2>1. CASE get_count(c, d) <= 1
    <3>1. DOMAIN c \ {d} \subseteq DOMAIN c
      OBVIOUS
    <3>2. depth_sub(c, d) = Restrict(c, DOMAIN c \ {d})
      BY <2>1 DEF depth_sub
    <3> QED
      BY <1>4, <3>1, <3>2
  <2>2. CASE ~(get_count(c, d) <= 1)
    <3>1. depth_sub(c, d) = [c EXCEPT ![d] = @ - 1]
      BY <2>2 DEF depth_sub
    <3>2. d \in DOMAIN c /\ c[d] - 1 \in Nat
      BY <1>1, <1>2, <2>2 DEF get_count
    <3> QED
      BY <1>1, <3>1, <3>2 DEF Counts
  <2> QED
    BY <2>1, <2>2
<1>6. DOMAIN c \ Above(c, d) \subseteq DOMAIN c
  OBVIOUS
<1> QED
  BY <1>3, <1>4, <1>5, <1>6

\* A leaf with another count and other depths.
Recounted(w, l, n, c) == Leaf(l) /\ n \in Nat /\ Counts(c) /\ w = [l EXCEPT !.count = n, !.depths = c]

\* What it keeps.
LEMMA LeafExcept ==
  ASSUME NEW w, NEW l, NEW n, NEW c, Recounted(w, l, n, c)
  PROVE  Leaf(w) /\ w.tpl = l.tpl /\ w.count = n /\ w.cyclic = l.cyclic /\ w.depths = c
<1>1. l \in [tpl : {l.tpl}, count : Nat, cyclic : BOOLEAN, depths : {l.depths}]
  BY DEF Leaf, Recounted
<1>2. PICK A, D : /\ l \in [tpl : A, count : Nat, cyclic : BOOLEAN, depths : D]
                  /\ A = {l.tpl} /\ D = {l.depths, c}
  BY <1>1
<1>3. w \in [tpl : A, count : Nat, cyclic : BOOLEAN, depths : D]
  BY <1>2 DEF Recounted
<1>4. w.tpl = l.tpl /\ w.count = n /\ w.cyclic = l.cyclic /\ w.depths = c
  BY <1>2 DEF Recounted
<1>5. w \in [tpl : {w.tpl}, count : Nat, cyclic : BOOLEAN, depths : {w.depths}]
  BY <1>3
<1> QED
  BY <1>4, <1>5 DEF Leaf, Recounted

\* A derivation more.
LEMMA AddIs ==
  ASSUME NEW l, Leaf(l), NEW d
  PROVE  /\ Leaf(add_new(l, d)) /\ add_new(l, d).tpl = l.tpl
         /\ add_new(l, d).count = l.count + 1 /\ add_new(l, d).cyclic = l.cyclic
<1> DEFINE c == IF l.cyclic THEN depth_add(l.depths, d) ELSE l.depths
<1>1. add_new(l, d) = [l EXCEPT !.count = l.count + 1, !.depths = c]
  BY DEF add_new
<1>2. Counts(c)
  BY DepthsIs DEF Leaf
<1>3. l.count + 1 \in Nat
  BY DEF Leaf
<1>4. Recounted(add_new(l, d), l, l.count + 1, c)
  BY <1>1, <1>2, <1>3 DEF Recounted
<1> HIDE DEF c
<1> QED
  BY <1>4, LeafExcept

\* The first derivation.
LEMMA NewIs ==
  ASSUME NEW t, NEW c \in BOOLEAN, NEW d
  PROVE  /\ Leaf(tuple_trie_leaf(t, c, d)) /\ tuple_trie_leaf(t, c, d).tpl = t
         /\ tuple_trie_leaf(t, c, d).count = 1 /\ tuple_trie_leaf(t, c, d).cyclic = c
<1> DEFINE z == [tpl |-> t, count |-> 0, cyclic |-> c, depths |-> NoDepths]
<1>1. Counts(NoDepths)
  BY FS_EmptySet DEF Counts, NoDepths
<1>2. Leaf(z) /\ z.tpl = t /\ z.count = 0 /\ z.cyclic = c
  BY <1>1 DEF Leaf
<1>3. tuple_trie_leaf(t, c, d) = add_new(z, d)
  BY DEF tuple_trie_leaf
<1> HIDE DEF z
<1>4. z.count + 1 = 1
  BY <1>2
<1> QED
  BY <1>2, <1>3, <1>4, AddIs

\* A derivation less, and those above its depth.
LEMMA LessIs ==
  ASSUME NEW l, Leaf(l), NEW d
  PROVE  /\ Leaf(Less(l, d)) /\ Less(l, d).tpl = l.tpl /\ Less(l, d).cyclic = l.cyclic
         /\ ~l.cyclic /\ l.count # 0 => Less(l, d).count = l.count - 1
<1> DEFINE m == sub(l, d)
           n == IF l.count = 0 THEN 0 ELSE l.count - 1
           e == IF l.cyclic THEN depth_sub(l.depths, d) ELSE l.depths
<1>1. m = [l EXCEPT !.count = n, !.depths = e]
  BY DEF sub
<1>2. Counts(e)
  BY DepthsIs DEF Leaf
<1>3. n \in Nat /\ (l.count # 0 => n = l.count - 1)
  BY DEF Leaf
<1> HIDE DEF m, n, e
<1>0. Recounted(m, l, n, e)
  BY <1>1, <1>2, <1>3 DEF Recounted
<1>4. Leaf(m) /\ m.tpl = l.tpl /\ m.cyclic = l.cyclic /\ (l.count # 0 => m.count = l.count - 1)
  BY <1>0, <1>3, LeafExcept
<1> DEFINE a == delete_depths_above(m, d)
<1>5. Leaf(a) /\ a.tpl = m.tpl /\ a.cyclic = m.cyclic
  <2> DEFINE k == (m.count - CountAbove(m.depths, d)) % RefLimit
             c == Restrict(m.depths, DOMAIN m.depths \ Above(m.depths, d))
  <2>1. a = [m EXCEPT !.count = k, !.depths = c]
    BY DEF delete_depths_above
  <2>2. Counts(c)
    BY <1>4, DepthsIs DEF Leaf
  <2>3. CountAbove(m.depths, d) \in Int
    <3>1. IsFiniteSet(Above(m.depths, d))
      BY <1>4, FS_Subset DEF Leaf, Counts, Above
    <3>2. \A x \in Above(m.depths, d) : m.depths[x] \in Int
      BY <1>4 DEF Leaf, Counts, Above
    <3> QED
      BY <3>1, <3>2, SumType DEF CountAbove
  <2>4. k \in Nat
    <3>1. m.count - CountAbove(m.depths, d) \in Int
      BY <1>4, <2>3 DEF Leaf
    <3>2. \A i \in Int : i % RefLimit \in Nat
      BY RefLimitAssumption
    <3> QED
      BY <3>1, <3>2
  <2> HIDE DEF k, c, a
  <2>5. Recounted(a, m, k, c)
    BY <1>4, <2>1, <2>2, <2>4 DEF Recounted
  <2> QED
    BY <2>5, LeafExcept
<1> HIDE DEF a
<1>6. Less(l, d) = IF ~to_delete(m) /\ m.cyclic /\ get_count(m.depths, d) = 0 THEN a ELSE m
  BY DEF Less, m, a
<1> QED
  BY <1>4, <1>5, <1>6

\* No leaf of the list counts by depth.
Plain(s) == \A l \in ToSet(s) : ~l.cyclic

\* What holds of a list of leaves after a derivation of t.
Gains(w, s, t, c) ==
  /\ Leaves(w) /\ w # <<>> /\ TuplesOf(w) = TuplesOf(s) \cup {t}
  /\ \A u : CountOf(w, u) = CountOf(s, u) + IF u = t THEN 1 ELSE 0
  /\ Plain(s) /\ ~c => Plain(w)

\* Insertion does it.
LEMMA InsertedIs ==
  ASSUME NEW s, Leaves(s), NEW t, NEW c \in BOOLEAN, NEW d
  PROVE  Gains(Inserted(s, t, c, d), s, t, c)
<1>1. s \in Seq(ToSet(s)) /\ Distinct(s)
  BY DEF Leaves, Distinct
<1>2. \A u : CountOf(s, u) \in Nat
  BY <1>1, CountIs
<1>3. CASE t \notin TuplesOf(s)
  <2> DEFINE x == tuple_trie_leaf(t, c, d)
             w == Append(s, x)
             D == ToSet(s) \cup {x}
  <2>1. Inserted(s, t, c, d) = w
    BY <1>1, <1>3, LeafFact DEF Inserted
  <2>2. Leaf(x) /\ x.tpl = t /\ x.count = 1 /\ x.cyclic = c
    BY NewIs
  <2> HIDE DEF x
  <2>3. x \notin ToSet(s) /\ x \in D
    BY <1>3, <2>2 DEF TuplesOf
  <2>4. s \in Seq(D)
    <3>1. Len(s) \in Nat /\ s \in [1 .. Len(s) -> ToSet(s)]
      BY <1>1, LenProperties
    <3>2. s \in [1 .. Len(s) -> D]
      BY <3>1
    <3> HIDE DEF D
    <3> QED
      BY <3>1, <3>2, SeqDef
  <2>5. w \in Seq(D) /\ w # <<>> /\ ToSet(w) = ToSet(s) \cup {x} /\ Once(w)
    BY <1>1, <2>3, <2>4, SeqAppend DEF Distinct
  <2> HIDE DEF w
  <2>6. w \in Seq(ToSet(w))
    BY <2>5
  <2>7. Leaves(w)
    <3>1. \A l \in ToSet(s) : l.tpl # x.tpl
      BY <1>3, <2>2 DEF TuplesOf
    <3> QED
      BY <2>2, <2>5, <2>6, <3>1 DEF Leaves, Distinct
  <2>8. TuplesOf(w) = TuplesOf(s) \cup {t}
    BY <2>2, <2>5 DEF TuplesOf
  <2>9. ASSUME NEW u PROVE CountOf(w, u) = CountOf(s, u) + IF u = t THEN 1 ELSE 0
    <3>1. Distinct(w) /\ x \in ToSet(w) /\ ToSet(s) \subseteq ToSet(w)
      BY <2>5, <2>7 DEF Leaves
    <3>2. CASE u = t
      <4>1. CountOf(w, u) = 1 /\ CountOf(s, u) = 0
        BY <1>1, <1>3, <2>2, <3>1, <3>2, CountIs
      <4> QED
        BY <3>2, <4>1
    <3>3. CASE u # t
      <4>1. CountOf(w, u) = CountOf(s, u)
        <5>1. CASE u \in TuplesOf(s)
          <6>1. PICK l \in ToSet(s) : l.tpl = u
            BY <5>1 DEF TuplesOf
          <6> QED
            BY <1>1, <3>1, <6>1, CountIs
        <5>2. CASE u \notin TuplesOf(s)
          BY <1>1, <2>8, <3>1, <3>3, <5>2, CountIs
        <5> QED
          BY <5>1, <5>2
      <4> QED
        BY <1>2, <3>3, <4>1
    <3> QED
      BY <3>2, <3>3
  <2>10. Plain(s) /\ ~c => Plain(w)
    BY <2>2, <2>5 DEF Plain
  <2> QED
    BY <2>1, <2>5, <2>7, <2>8, <2>9, <2>10 DEF Gains
<1>4. CASE t \in TuplesOf(s)
  <2>1. PICK x \in ToSet(s) : x.tpl = t
    BY <1>4 DEF TuplesOf
  <2> DEFINE y == add_new(x, d)
             w == [i \in DOMAIN s |-> IF i \in Entries(s, x.tpl) THEN y ELSE s[i]]
  <2>2. Inserted(s, t, c, d) = w
    <3>1. \A i \in Entries(s, t) : s[i] = x
      BY <1>1, <2>1, LeafFact DEF Entries, Distinct
    <3>2. Entries(s, t) # {}
      BY <1>1, <1>4, LeafFact
    <3> QED
      BY <2>1, <3>1, <3>2 DEF Inserted
  <2>3. Leaf(y) /\ y.tpl = t /\ y.count = x.count + 1 /\ y.cyclic = x.cyclic /\ Leaf(x)
    BY <1>1, <2>1, AddIs DEF Distinct
  <2> HIDE DEF y
  <2>4. Distinct(w) /\ ToSet(w) = (ToSet(s) \ {x}) \cup {y}
    BY <1>1, <2>1, <2>3, ReplacedIs
  <2> HIDE DEF w
  <2>5. y.count # 0 /\ x.count \in Nat
    BY <2>3 DEF Leaf
  <2>6. Leaves(w)
    BY <2>4, <2>5 DEF Leaves
  <2>7. TuplesOf(w) = TuplesOf(s) \cup {t}
    BY <1>4, <2>1, <2>3, <2>4 DEF TuplesOf
  <2>8. w # <<>>
    <3>1. w \in Seq(ToSet(w)) /\ ToSet(w) # {}
      BY <2>4 DEF Distinct
    <3> QED
      BY <3>1, SeqSet
  <2>9. ASSUME NEW u PROVE CountOf(w, u) = CountOf(s, u) + IF u = t THEN 1 ELSE 0
    <3>1. CASE u = t
      <4>1. CountOf(w, u) = y.count /\ CountOf(s, u) = x.count
        BY <1>1, <2>1, <2>3, <2>4, <3>1, CountIs
      <4> QED
        BY <2>3, <3>1, <4>1
    <3>2. CASE u # t
      <4>1. CountOf(w, u) = CountOf(s, u)
        <5>1. CASE u \in TuplesOf(s)
          <6>1. PICK l \in ToSet(s) : l.tpl = u
            BY <5>1 DEF TuplesOf
          <6>2. l \in ToSet(w)
            BY <2>1, <2>4, <3>2, <6>1
          <6> QED
            BY <1>1, <2>4, <6>1, <6>2, CountIs
        <5>2. CASE u \notin TuplesOf(s)
          BY <1>1, <2>4, <2>7, <3>2, <5>2, CountIs
        <5> QED
          BY <5>1, <5>2
      <4> QED
        BY <1>2, <3>2, <4>1
    <3> QED
      BY <3>1, <3>2
  <2>10. Plain(s) /\ ~c => Plain(w)
    BY <2>1, <2>3, <2>4 DEF Plain
  <2> QED
    BY <2>2, <2>6, <2>7, <2>8, <2>9, <2>10 DEF Gains
<1> QED
  BY <1>3, <1>4

\* The leaves that are kept.
LEMMA KeptIs ==
  ASSUME NEW s, Distinct(s)
  PROVE  Leaves(Kept(s)) /\ ToSet(Kept(s)) = {l \in ToSet(s) : l.count # 0}
<1> DEFINE S == {l \in ToSet(s) : ~to_delete(l)}
           w == Only(s, S)
<1>1. s \in Seq(ToSet(s)) /\ Once(s)
  BY DEF Distinct
<1>2. w \in Seq(ToSet(s)) /\ ToSet(w) = ToSet(s) \cap S /\ Once(w)
  BY <1>1, OnlyIs
<1>3. Kept(s) = w
  BY DEF Kept
<1> HIDE DEF w
<1>4. ToSet(w) = {l \in ToSet(s) : l.count # 0}
  BY <1>2 DEF to_delete
<1>5. w \in Seq(ToSet(w))
  BY <1>2, SeqSet
<1>6. Leaves(w)
  BY <1>2, <1>4, <1>5 DEF Leaves, Distinct
<1> QED
  BY <1>3, <1>4, <1>6

\* The last derivation of t goes, when one at depth d does.
Gone(s, t, d) == \E i \in Entries(Lessened(s, t, d), t) : to_delete(Lessened(s, t, d)[i])

\* What holds of a list of leaves after a derivation of t is retracted.
Loses(w, s, t, gone) ==
  /\ Leaves(w) /\ TuplesOf(w) = IF gone THEN TuplesOf(s) \ {t} ELSE TuplesOf(s)
  /\ gone => t \in TuplesOf(s)
  /\ Plain(s) => /\ Plain(w)
                 /\ \A u : CountOf(w, u) = IF u = t /\ t \in TuplesOf(s) THEN CountOf(s, u) - 1
                                           ELSE CountOf(s, u)

\* Retraction does it.
LEMMA RetractedIs ==
  ASSUME NEW s, Leaves(s), NEW t, NEW d
  PROVE  Loses(Kept(Lessened(s, t, d)), s, t, Gone(s, t, d))
<1> DEFINE m == Lessened(s, t, d)
           w == Kept(m)
<1>1. s \in Seq(ToSet(s)) /\ Distinct(s) /\ \A l \in ToSet(s) : l.count # 0
  BY DEF Leaves, Distinct
<1>2. CASE t \notin TuplesOf(s)
  <2>1. Entries(s, t) = {}
    BY <1>1, <1>2, LeafFact
  <2>2. m = s
    <3>1. m = [i \in DOMAIN s |-> s[i]]
      BY <2>1 DEF Lessened
    <3>2. s = [i \in DOMAIN s |-> s[i]]
      BY <1>1, LenProperties
    <3> QED
      BY <3>1, <3>2
  <2>3. ~Gone(s, t, d)
    BY <2>1, <2>2 DEF Gone
  <2>4. Leaves(w) /\ ToSet(w) = ToSet(s)
    BY <1>1, <2>2, KeptIs
  <2>5. \A u : CountOf(w, u) = CountOf(s, u)
    <3>1. Distinct(w) /\ TuplesOf(w) = TuplesOf(s)
      BY <2>4 DEF Leaves, TuplesOf
    <3> HIDE DEF w
    <3>2. ASSUME NEW u PROVE CountOf(w, u) = CountOf(s, u)
      <4>1. CASE u \in TuplesOf(s)
        <5>1. PICK l \in ToSet(s) : l.tpl = u
          BY <4>1 DEF TuplesOf
        <5> QED
          BY <1>1, <2>4, <3>1, <5>1, CountIs
      <4>2. CASE u \notin TuplesOf(s)
        BY <1>1, <3>1, <4>2, CountIs
      <4> QED
        BY <4>1, <4>2
    <3> QED
      BY <3>2
  <2> HIDE DEF w
  <2>6. TuplesOf(w) = TuplesOf(s) /\ (Plain(s) => Plain(w))
    BY <2>4 DEF TuplesOf, Plain
  <2>7. Loses(w, s, t, Gone(s, t, d))
    BY <1>2, <2>3, <2>4, <2>5, <2>6 DEF Loses
  <2> QED
    BY <2>7 DEF w
<1>3. CASE t \in TuplesOf(s)
  <2>1. PICK x \in ToSet(s) : x.tpl = t
    BY <1>3 DEF TuplesOf
  <2> DEFINE y == Less(x, d)
             v == [i \in DOMAIN s |-> IF i \in Entries(s, x.tpl) THEN y ELSE s[i]]
  <2>2. m = v
    <3>1. \A i \in Entries(s, t) : s[i] = x
      BY <1>1, <2>1, LeafFact DEF Entries, Distinct
    <3> QED
      BY <2>1, <3>1 DEF Lessened
  <2>3. Leaf(x) /\ x.count # 0
    BY <1>1 DEF Distinct
  <2>4. /\ Leaf(y) /\ y.tpl = t /\ y.cyclic = x.cyclic
        /\ ~x.cyclic => y.count = x.count - 1
    BY <2>1, <2>3, LessIs
  <2> HIDE DEF y
  <2>5. Distinct(v) /\ ToSet(v) = (ToSet(s) \ {x}) \cup {y}
    BY <1>1, <2>1, <2>4, ReplacedIs
  <2> HIDE DEF v, m
  <2>6. Leaves(w) /\ ToSet(w) = {l \in (ToSet(s) \ {x}) \cup {y} : l.count # 0}
    BY <2>2, <2>5, KeptIs
  <2> HIDE DEF w
  <2>7. Gone(s, t, d) <=> y.count = 0
    <3>1. \A i \in DOMAIN m : m[i] \in ToSet(m)
      BY DEF ToSet
    <3>2. \A i \in Entries(m, t) : m[i] = y
      BY <2>1, <2>2, <2>4, <2>5, <3>1 DEF Entries, Distinct
    <3>3. \E i \in Entries(m, t) : m[i] = y
      <4>1. PICK i \in DOMAIN m : m[i] = y
        BY <2>2, <2>5 DEF ToSet
      <4> QED
        BY <2>4, <4>1 DEF Entries
    <3>4. Gone(s, t, d) <=> \E i \in Entries(m, t) : to_delete(m[i])
      BY DEF Gone, m
    <3> QED
      BY <3>2, <3>3, <3>4 DEF to_delete
  <2>8. \A l \in ToSet(s) : l # x => l.tpl # t /\ l \in ToSet(w)
    BY <1>1, <2>1, <2>6 DEF Distinct
  <2>9. \A l \in ToSet(w) : (l = y /\ y.count # 0) \/ (l \in ToSet(s) /\ l # x)
    BY <2>6
  <2>10. TuplesOf(w) = IF Gone(s, t, d) THEN TuplesOf(s) \ {t} ELSE TuplesOf(s)
    <3>1. CASE y.count = 0
      BY <2>1, <2>4, <2>7, <2>8, <2>9, <3>1 DEF TuplesOf
    <3>2. CASE y.count # 0
      <4>1. y \in ToSet(w)
        BY <2>6, <3>2
      <4> QED
        BY <2>1, <2>4, <2>7, <2>8, <2>9, <3>2, <4>1 DEF TuplesOf
    <3> QED
      BY <3>1, <3>2
  <2>11. ASSUME Plain(s)
         PROVE  /\ Plain(w)
                /\ \A u : CountOf(w, u) = IF u = t THEN CountOf(s, u) - 1 ELSE CountOf(s, u)
    <3>1. Plain(w)
      BY <2>1, <2>4, <2>9, <2>11 DEF Plain
    <3>2. x.count \in Nat /\ y.count = x.count - 1
      BY <2>1, <2>3, <2>4, <2>11 DEF Plain, Leaf
    <3>3. Distinct(w)
      BY <2>6 DEF Leaves
    <3>4. CountOf(s, t) = x.count
      BY <1>1, <2>1, CountIs
    <3>5. CountOf(w, t) = y.count
      <4>1. CASE y.count = 0
        BY <2>7, <2>10, <3>3, <4>1, CountIs
      <4>2. CASE y.count # 0
        <5>1. y \in ToSet(w)
          BY <2>6, <4>2
        <5> QED
          BY <2>4, <3>3, <5>1, CountIs
      <4> QED
        BY <4>1, <4>2
    <3>6. ASSUME NEW u, u # t PROVE CountOf(w, u) = CountOf(s, u)
      <4>1. CASE u \in TuplesOf(s)
        <5>1. PICK l \in ToSet(s) : l.tpl = u
          BY <4>1 DEF TuplesOf
        <5>2. l \in ToSet(w)
          BY <2>1, <2>8, <3>6, <5>1
        <5> QED
          BY <1>1, <3>3, <5>1, <5>2, CountIs
      <4>2. CASE u \notin TuplesOf(s)
        <5>1. u \notin TuplesOf(w)
          BY <2>10, <4>2
        <5> QED
          BY <1>1, <3>3, <4>2, <5>1, CountIs
      <4> QED
        BY <4>1, <4>2
    <3> QED
      BY <3>1, <3>2, <3>4, <3>5, <3>6
  <2>12. Loses(w, s, t, Gone(s, t, d))
    BY <1>3, <2>6, <2>10, <2>11 DEF Loses
  <2> QED
    BY <2>12 DEF w, m
<1> QED
  BY <1>2, <1>3

-----------------------------------------------------------------------------
(* The rules of a fact. *)

\* The inductive invariant of RulesFollowFacts: the facts are leaves of different
\* tuples, each with a derivation.
RulesInv ==
  /\ pred \in Preds /\ runs \in [AllTuples -> Int]
  /\ ~pred.reused => /\ Leaves(facts) /\ (~pred.cyclic => exists = (facts # <<>>))
                     /\ \A t \in AllTuples : runs[t] = IF t \in TuplesOf(facts) THEN 1 ELSE 0

\* An empty list of leaves.
LEMMA NoLeaves == Leaves(<<>>) /\ TuplesOf(<<>>) = {} /\ Plain(<<>>)
<1>1. ToSet(<<>>) = {} /\ <<>> \in Seq({})
  BY DEF ToSet
<1> QED
  BY <1>1 DEF Leaves, Distinct, Once, TuplesOf, Plain

\* The rules of u ran d times more, or once less.
RunsBy(w, r, u, d) ==
  /\ r \in [AllTuples -> Int] /\ d \in Int
  /\ \/ w = [r EXCEPT ![u] = @ + d]
     \/ \E e \in Int : d = 0 - e /\ w = [r EXCEPT ![u] = @ - e]

\* The rules of the other facts did not run.
LEMMA RunsStep ==
  ASSUME NEW r, NEW u, NEW d, NEW w, RunsBy(w, r, u, d)
  PROVE  /\ w \in [AllTuples -> Int]
         /\ \A t \in AllTuples : w[t] = IF t = u THEN r[t] + d ELSE r[t]
<1> DEFINE A == AllTuples
<1>1. r \in [A -> Int] /\ d \in Int
  BY DEF RunsBy
<1> HIDE DEF A
<1>2. ASSUME NEW x \in Int, w = [r EXCEPT ![u] = x], u \in A => x = r[u] + d
      PROVE  w \in [A -> Int] /\ \A t \in A : w[t] = IF t = u THEN r[t] + d ELSE r[t]
  BY <1>1, <1>2
<1>3. ASSUME NEW x, w = [r EXCEPT ![u] = x], u \notin A
      PROVE  w \in [A -> Int] /\ \A t \in A : w[t] = IF t = u THEN r[t] + d ELSE r[t]
  BY <1>1, <1>3
<1>4. \E x : w = [r EXCEPT ![u] = x] /\ (u \in A => x \in Int /\ x = r[u] + d)
  <2>1. CASE w = [r EXCEPT ![u] = @ + d]
    <3>1. u \in A => r[u] + d \in Int /\ r[u] + d = r[u] + d
      BY <1>1
    <3> QED
      BY <2>1, <3>1, Zenon
  <2>2. ASSUME NEW e \in Int, d = 0 - e, w = [r EXCEPT ![u] = @ - e]
        PROVE  \E x : w = [r EXCEPT ![u] = x] /\ (u \in A => x \in Int /\ x = r[u] + d)
    <3>1. u \in A => r[u] - e \in Int /\ r[u] - e = r[u] + d
      BY <1>1, <2>2
    <3> QED
      BY <2>2, <3>1
  <2> QED
    BY <2>1, <2>2 DEF RunsBy
<1>5. w \in [A -> Int] /\ \A t \in A : w[t] = IF t = u THEN r[t] + d ELSE r[t]
  BY <1>2, <1>3, <1>4
<1> QED
  BY <1>5 DEF A

\* Every step keeps it.
LEMMA RulesStep == RulesInv /\ [FactsNext]_factVars => RulesInv'
<1> SUFFICES ASSUME RulesInv, [FactsNext]_factVars PROVE RulesInv'
  OBVIOUS
<1>1. ASSUME UNCHANGED <<pred, facts, exists, runs>> PROVE RulesInv'
  BY <1>1 DEF RulesInv, Leaves, TuplesOf
<1>2. ASSUME NEW s \in Senders, NEW t \in Tuples,
             (\E d \in Depths : Derive(s, t, d)) \/ Retract(s, t)
      PROVE  RulesInv'
  BY <1>1, <1>2 DEF Derive, Retract
<1>3. ASSUME Cancel \/ add_to_aggregate PROVE RulesInv'
  BY <1>1, <1>3 DEF Cancel, add_to_aggregate
<1>4. ASSUME process_persistent_tuple PROVE RulesInv'
  <2> DEFINE f == Head(list)
  <2>1. pred' = pred /\ pred \in Preds /\ pred.cyclic \in BOOLEAN /\ pred.reused \in BOOLEAN
    BY <1>4, FactsAssumption DEF process_persistent_tuple, RulesInv
  <2>2. \/ AssertFact(f)
        \/ RetractReused(f) /\ pred.reused
        \/ RetractFact(f) /\ ~pred.reused
    BY <1>4, <2>1 DEF process_persistent_tuple
  <2> HIDE DEF f
  <2>3. runs \in [AllTuples -> Int]
    BY DEF RulesInv
  <2>4. CASE AssertFact(f)
    <3> DEFINE new == pred.reused \/ Entries(facts, f.tpl) = {}
               d == IF new THEN 1 ELSE 0
    <3>1. d \in Int /\ runs' = [runs EXCEPT ![f.tpl] = @ + d]
      BY <2>4 DEF AssertFact
    <3>2. /\ runs' \in [AllTuples -> Int]
          /\ \A t \in AllTuples : runs'[t] = IF t = f.tpl THEN runs[t] + d ELSE runs[t]
      <4>1. RunsBy(runs', runs, f.tpl, d)
        BY <2>3, <3>1 DEF RunsBy
      <4> HIDE DEF d
      <4> QED
        BY <4>1, RunsStep
    <3>3. ASSUME ~pred.reused
          PROVE  /\ Leaves(facts') /\ exists' = (facts' # <<>>)
                 /\ \A t \in AllTuples : runs'[t] = IF t \in TuplesOf(facts') THEN 1 ELSE 0
      <4>1. Leaves(facts) /\ facts' = Inserted(facts, f.tpl, pred.cyclic, depth) /\ exists' = TRUE
        BY <2>4, <3>3 DEF RulesInv, AssertFact
      <4>2. Gains(facts', facts, f.tpl, pred.cyclic)
        BY <2>1, <4>1, InsertedIs
      <4>3. Leaves(facts') /\ facts' # <<>> /\ TuplesOf(facts') = TuplesOf(facts) \cup {f.tpl}
        BY <4>2 DEF Gains
      <4>4. new <=> f.tpl \notin TuplesOf(facts)
        BY <3>3, <4>1, LeafFact DEF Leaves, Distinct
      <4>5. exists' = (facts' # <<>>)
        BY <4>1, <4>3
      <4>6. ASSUME NEW t \in AllTuples PROVE runs'[t] = IF t \in TuplesOf(facts') THEN 1 ELSE 0
        <5>1. runs[t] = IF t \in TuplesOf(facts) THEN 1 ELSE 0
          BY <3>3 DEF RulesInv
        <5> QED
          BY <3>2, <4>3, <4>4, <5>1
      <4> QED
        BY <4>3, <4>5, <4>6
    <3> QED
      BY <2>1, <3>2, <3>3 DEF RulesInv, Leaves, TuplesOf
  <2>5. CASE RetractReused(f) /\ pred.reused
    <3>1. RunsBy(runs', runs, f.tpl, 0 - 1)
      <4>1. runs' = [runs EXCEPT ![f.tpl] = @ - 1]
        BY <2>5 DEF RetractReused
      <4>2. 1 \in Int /\ 0 - 1 \in Int
        OBVIOUS
      <4> QED
        BY <2>3, <4>1, <4>2, Zenon DEF RunsBy
    <3>2. runs' \in [AllTuples -> Int]
      BY <3>1, RunsStep
    <3> QED
      BY <2>1, <2>5, <3>2 DEF RulesInv
  <2>6. CASE RetractFact(f) /\ ~pred.reused
    <3> DEFINE gone == Gone(facts, f.tpl, f.depth)
               e == IF gone THEN 1 ELSE 0
               d == 0 - e
    <3>1. /\ facts' = Kept(Lessened(facts, f.tpl, f.depth))
          /\ ~pred.cyclic => exists' = (facts' # <<>>)
          /\ runs' = [runs EXCEPT ![f.tpl] = @ - IF gone THEN 1 ELSE 0]
      BY <2>6 DEF RetractFact, Gone, new_persistent_count
    <3>2. Leaves(facts)
      BY <2>6 DEF RulesInv
    <3>3. Loses(facts', facts, f.tpl, gone)
      BY <3>1, <3>2, RetractedIs
    <3> HIDE DEF gone
    <3>4. RunsBy(runs', runs, f.tpl, d)
      <4>1. e \in Int /\ d \in Int /\ d = 0 - e /\ runs' = [runs EXCEPT ![f.tpl] = @ - e]
        BY <3>1
      <4> HIDE DEF e, d
      <4> QED
        BY <2>3, <4>1 DEF RunsBy
    <3>5. /\ runs' \in [AllTuples -> Int]
          /\ \A t \in AllTuples : runs'[t] = IF t = f.tpl THEN runs[t] + d ELSE runs[t]
      <4> HIDE DEF d
      <4> QED
        BY <3>4, RunsStep
    <3>6. ASSUME NEW t \in AllTuples PROVE runs'[t] = IF t \in TuplesOf(facts') THEN 1 ELSE 0
      <4>1. runs[t] = IF t \in TuplesOf(facts) THEN 1 ELSE 0
        BY <2>6 DEF RulesInv
      <4>2. /\ TuplesOf(facts') = IF gone THEN TuplesOf(facts) \ {f.tpl} ELSE TuplesOf(facts)
            /\ gone => f.tpl \in TuplesOf(facts)
        BY <3>3 DEF Loses
      <4>3. CASE gone
        BY <3>5, <4>1, <4>2, <4>3
      <4>4. CASE ~gone
        BY <3>5, <4>1, <4>2, <4>4
      <4> QED
        BY <4>3, <4>4
    <3>7. Leaves(facts')
      BY <3>3 DEF Loses
    <3> QED
      BY <2>1, <2>6, <3>1, <3>5, <3>6, <3>7 DEF RulesInv, Leaves, TuplesOf
  <2> QED
    BY <2>2, <2>4, <2>5, <2>6
<1>5. ASSUME UNCHANGED factVars PROVE RulesInv'
  BY <1>1, <1>5 DEF factVars
<1> QED
  BY <1>2, <1>3, <1>4, <1>5 DEF FactsNext

\* For any senders, facts and depths, also of cycle predicates: the rules of a
\* fact ran once more than they ran for its removal exactly while the fact is in
\* the database.  For the other predicates, the matcher knows whether there are
\* facts (process_persistent_tuple).
THEOREM RulesFollow == FactsSpec => []RulesFollowFacts
<1>1. FactsInit => RulesInv
  <2> SUFFICES ASSUME FactsInit PROVE RulesInv
    OBVIOUS
  <2>1. pred \in Preds /\ facts = <<>> /\ exists = FALSE /\ runs = [t \in AllTuples |-> 0]
    BY DEF FactsInit
  <2>2. Leaves(facts) /\ TuplesOf(facts) = {}
    BY <2>1, NoLeaves
  <2>3. runs \in [AllTuples -> Int] /\ \A t \in AllTuples : runs[t] = 0
    BY <2>1
  <2>4. exists = (facts # <<>>)
    BY <2>1
  <2> QED
    BY <2>1, <2>2, <2>3, <2>4 DEF RulesInv
<1>2. RulesInv => RulesFollowFacts
  <2> SUFFICES ASSUME RulesInv, ~pred.reused PROVE RulesFollowFacts
    BY DEF RulesFollowFacts
  <2>1. \A t : Entries(facts, t) = {} <=> t \notin TuplesOf(facts)
    BY LeafFact DEF RulesInv, Leaves, Distinct
  <2>2. \A t \in AllTuples : runs[t] = IF Entries(facts, t) = {} THEN 0 ELSE 1
    BY <2>1 DEF RulesInv
  <2> QED
    BY <2>2 DEF RulesFollowFacts, RulesInv
<1> QED
  BY <1>1, <1>2, RulesStep, PTL DEF FactsSpec

-----------------------------------------------------------------------------
(* The list of facts that wait.  A fact or its removal changes the count   *)
(* of one tuple; on the way through the list no count falls below zero.    *)

\* What x does to the count of t, as an aggregated fact (a) or as a value.
Weight(x, t, a) == IF x.tpl = t /\ x.agg = a THEN x.dir ELSE 0

\* b[i] is the count after i facts of the list.
Path(b, l, t, a) ==
  /\ b \in [0 .. Len(l) -> Nat]
  /\ \A i \in 1 .. Len(l) : b[i] = b[i - 1] + Weight(l[i], t, a)

\* Facts and their removals.
Waits(l, D) == l \in Seq(D) /\ \A x \in D : x.dir \in {1, -1}

\* The list takes the count of t from n to m.
Takes(l, t, a, n, m) == \E b : Path(b, l, t, a) /\ b[0] = n /\ b[Len(l)] = m

\* What such a list is made of.
LEMMA WaitsFact ==
  ASSUME NEW l, NEW D, Waits(l, D)
  PROVE  /\ Len(l) \in Nat /\ DOMAIN l = 1 .. Len(l)
         /\ \A i \in 1 .. Len(l) : l[i] \in D /\ l[i].dir \in {1, -1}
         /\ \A i \in 1 .. Len(l) : \A t, a : Weight(l[i], t, a) \in {0, 1, -1}
<1>1. Len(l) \in Nat /\ DOMAIN l = 1 .. Len(l) /\ \A i \in 1 .. Len(l) : l[i] \in D
  BY LenProperties DEF Waits
<1>2. \A i \in 1 .. Len(l) : l[i] \in D /\ l[i].dir \in {1, -1}
  BY <1>1 DEF Waits
<1> QED
  BY <1>1, <1>2 DEF Weight

\* An empty list changes nothing.
LEMMA TakesNothing ==
  ASSUME NEW t, NEW a
  PROVE  /\ \A n, m : Takes(<<>>, t, a, n, m) => n = m
         /\ \A n \in Nat : Takes(<<>>, t, a, n, n)
<1>1. Len(<<>>) = 0
  OBVIOUS
<1>2. ASSUME NEW n \in Nat PROVE Takes(<<>>, t, a, n, n)
  <2> DEFINE b == [i \in 0 .. 0 |-> n]
  <2>1. Path(b, <<>>, t, a) /\ b[0] = n
    BY <1>1 DEF Path
  <2> HIDE DEF b
  <2> QED
    BY <1>1, <2>1 DEF Takes
<1> QED
  BY <1>1, <1>2 DEF Takes

\* The count stays a number.
LEMMA TakesType ==
  ASSUME NEW l, NEW D, Waits(l, D), NEW t, NEW a, NEW n, NEW m, Takes(l, t, a, n, m)
  PROVE  n \in Nat /\ m \in Nat
<1>1. PICK b : Path(b, l, t, a) /\ b[0] = n /\ b[Len(l)] = m
  BY DEF Takes
<1>2. Len(l) \in Nat
  BY WaitsFact
<1>3. 0 \in 0 .. Len(l) /\ Len(l) \in 0 .. Len(l)
  BY <1>2
<1> QED
  BY <1>1, <1>3 DEF Path

\* The first fact is processed.
LEMMA TakesTail ==
  ASSUME NEW l, NEW D, Waits(l, D), l # <<>>, NEW t, NEW a, NEW n, NEW m, Takes(l, t, a, n, m)
  PROVE  /\ Waits(Tail(l), D) /\ Head(l) \in D /\ Head(l).dir \in {1, -1}
         /\ n + Weight(Head(l), t, a) \in Nat
         /\ Takes(Tail(l), t, a, n + Weight(Head(l), t, a), m)
<1> DEFINE k == Len(l)
           u == Tail(l)
<1>1. k \in Nat /\ DOMAIN l = 1 .. k /\ \A i \in 1 .. k : l[i] \in D /\ l[i].dir \in {1, -1}
  BY WaitsFact
<1>2. l \in Seq(D) /\ k # 0
  BY EmptySeq DEF Waits
<1>3. Head(l) = l[1] /\ u \in Seq(D) /\ Len(u) = k - 1 /\ \A i \in 1 .. k - 1 : u[i] = l[i + 1]
  BY <1>2, HeadTailProperties
<1>4. PICK b : Path(b, l, t, a) /\ b[0] = n /\ b[k] = m
  BY DEF Takes
<1> HIDE DEF k, u
<1>5. 1 \in 1 .. k /\ 1 \in 0 .. k /\ 1 - 1 = 0
  BY <1>1, <1>2
<1>6. b \in [0 .. k -> Nat] /\ \A i \in 1 .. k : b[i] = b[i - 1] + Weight(l[i], t, a)
  BY <1>4 DEF Path, k
<1>7. b[1] = n + Weight(Head(l), t, a) /\ b[1] \in Nat
  BY <1>3, <1>4, <1>5, <1>6
<1> DEFINE c == [i \in 0 .. k - 1 |-> b[i + 1]]
<1>8. Path(c, u, t, a)
  <2>1. c \in [0 .. k - 1 -> Nat]
    <3>1. \A i \in 0 .. k - 1 : i + 1 \in 0 .. k
      BY <1>1, <1>2
    <3> QED
      BY <1>6, <3>1
  <2>2. ASSUME NEW i \in 1 .. k - 1 PROVE c[i] = c[i - 1] + Weight(u[i], t, a)
    <3>1. i + 1 \in 1 .. k /\ i - 1 + 1 = i /\ i \in 0 .. k - 1 /\ i - 1 \in 0 .. k - 1 /\ i + 1 - 1 = i
      BY <1>1, <1>2
    <3>2. b[i + 1] = b[i] + Weight(l[i + 1], t, a)
      BY <1>6, <3>1
    <3>3. c[i] = b[i + 1] /\ c[i - 1] = b[i]
      BY <3>1
    <3> QED
      BY <1>3, <3>2, <3>3
  <2> HIDE DEF c
  <2> QED
    BY <1>3, <2>1, <2>2 DEF Path
<1>9. c[0] = b[1] /\ c[k - 1] = m
  <2>1. 0 \in 0 .. k - 1 /\ 0 + 1 = 1 /\ k - 1 \in 0 .. k - 1 /\ k - 1 + 1 = k
    BY <1>1, <1>2
  <2> QED
    BY <1>4, <2>1
<1> HIDE DEF c
<1>10. Takes(u, t, a, b[1], m)
  BY <1>3, <1>8, <1>9 DEF Takes
<1>11. Waits(u, D)
  BY <1>3 DEF Waits
<1> QED
  BY <1>1, <1>3, <1>5, <1>7, <1>10, <1>11 DEF u

\* A fact is added to the list.
LEMMA TakesAppend ==
  ASSUME NEW l, NEW D, Waits(l, D), NEW x \in D, NEW t, NEW a, NEW n, NEW m, Takes(l, t, a, n, m),
         m + Weight(x, t, a) \in Nat
  PROVE  Waits(Append(l, x), D) /\ Takes(Append(l, x), t, a, n, m + Weight(x, t, a))
<1> DEFINE k == Len(l)
           u == Append(l, x)
<1>1. k \in Nat /\ l \in Seq(D)
  BY WaitsFact DEF Waits
<1>2. u \in Seq(D) /\ Len(u) = k + 1 /\ u[k + 1] = x /\ \A i \in 1 .. k : u[i] = l[i]
  BY <1>1, AppendProperties
<1>3. PICK b : Path(b, l, t, a) /\ b[0] = n /\ b[k] = m
  BY DEF Takes
<1> HIDE DEF k, u
<1>4. b \in [0 .. k -> Nat] /\ \A i \in 1 .. k : b[i] = b[i - 1] + Weight(l[i], t, a)
  BY <1>3 DEF Path, k
<1> DEFINE e == m + Weight(x, t, a)
           c == [i \in 0 .. k + 1 |-> IF i = k + 1 THEN e ELSE b[i]]
<1>5. e \in Nat /\ e = m + Weight(x, t, a)
  OBVIOUS
<1> HIDE DEF e
<1>6. /\ \A i \in 0 .. k : c[i] = b[i]
      /\ c[k + 1] = e /\ c \in [0 .. k + 1 -> Nat]
  <2>1. \A i \in 0 .. k : i \in 0 .. k + 1 /\ i # k + 1
    BY <1>1
  <2>2. \A i \in 0 .. k + 1 : i # k + 1 => i \in 0 .. k
    BY <1>1
  <2>3. k + 1 \in 0 .. k + 1
    BY <1>1
  <2> QED
    BY <1>4, <1>5, <2>1, <2>2, <2>3
<1> HIDE DEF c
<1>7. ASSUME NEW i \in 1 .. k + 1 PROVE c[i] = c[i - 1] + Weight(u[i], t, a)
  <2>1. CASE i = k + 1
    <3>1. i - 1 = k /\ k \in 0 .. k
      BY <1>1, <2>1
    <3> QED
      BY <1>2, <1>3, <1>5, <1>6, <2>1, <3>1
  <2>2. CASE i # k + 1
    <3>1. i \in 1 .. k /\ i \in 0 .. k /\ i - 1 \in 0 .. k
      BY <1>1, <2>2
    <3> QED
      BY <1>2, <1>4, <1>6, <3>1
  <2> QED
    BY <2>1, <2>2
<1>8. Path(c, u, t, a)
  BY <1>2, <1>6, <1>7 DEF Path
<1>9. c[0] = n
  <2>1. 0 \in 0 .. k
    BY <1>1
  <2> QED
    BY <1>3, <1>6, <2>1
<1>10. Takes(u, t, a, n, e)
  BY <1>2, <1>6, <1>8, <1>9 DEF Takes
<1>11. Waits(u, D)
  BY <1>2 DEF Waits
<1> QED
  BY <1>10, <1>11 DEF u, e

\* A fact and its removal leave the list together: before the removal the count
\* is at least the one that the fact added, so it can do without.
LEMMA TakesCancel ==
  ASSUME NEW l, NEW D, Waits(l, D), l # <<>>, Head(l).dir = 1,
         NEW p \in search_for_negative_tuple(Tail(l), Head(l)),
         NEW t, NEW a, NEW n, NEW m, Takes(l, t, a, n, m)
  PROVE  Takes(RemoveAt(Tail(l), p), t, a, n, m)
<1> DEFINE k == Len(l)
           u == Tail(l)
           h == Head(l)
           v == RemoveAt(u, p)
           w == Weight(h, t, a)
<1>1. k \in Nat /\ DOMAIN l = 1 .. k /\ \A i \in 1 .. k : \A s, e : Weight(l[i], s, e) \in {0, 1, -1}
  BY WaitsFact
<1>2. l \in Seq(D) /\ k # 0
  BY EmptySeq DEF Waits
<1>3. h = l[1] /\ u \in Seq(D) /\ Len(u) = k - 1 /\ \A i \in 1 .. k - 1 : u[i] = l[i + 1]
  BY <1>2, HeadTailProperties
<1>4. /\ p \in DOMAIN u /\ u[p].tpl = h.tpl /\ u[p].agg = h.agg /\ u[p].dir = -1
      /\ \A j \in 1 .. (p - 1) : ~(u[j].tpl = h.tpl /\ u[j].agg = h.agg /\ u[j].dir = -1)
  BY DEF search_for_negative_tuple
<1>5. p \in 1 .. k - 1 /\ p \in Nat /\ p # 0 /\ p + 1 \in 1 .. k
  <2>1. DOMAIN u = 1 .. k - 1
    BY <1>3, LenProperties
  <2> QED
    BY <1>1, <1>2, <1>4, <2>1
<1>6. v \in Seq(D) /\ Len(v) = k - 2 /\ \A j \in 1 .. k - 2 : v[j] = IF j < p THEN l[j + 1] ELSE l[j + 2]
  <2> HIDE DEF u, k
  <2>1. p \in 1 .. Len(u)
    BY <1>3, <1>5
  <2>2. /\ v \in Seq(D) /\ Len(v) = Len(u) - 1
        /\ \A j \in 1 .. Len(u) - 1 : v[j] = IF j < p THEN u[j] ELSE u[j + 1]
    BY <1>3, <2>1, SeqRemoveAt
  <2> HIDE DEF v
  <2>3. /\ v \in Seq(D) /\ Len(v) = k - 1 - 1
        /\ \A j \in 1 .. k - 1 - 1 : v[j] = IF j < p THEN u[j] ELSE u[j + 1]
    BY <1>3, <2>2
  <2>4. k - 1 - 1 = k - 2
    BY <1>1
  <2>5. ASSUME NEW j \in 1 .. k - 2 PROVE u[j] = l[j + 1] /\ u[j + 1] = l[j + 2]
    <3>1. j \in 1 .. k - 1 /\ j + 1 \in 1 .. k - 1 /\ j + 1 + 1 = j + 2
      BY <1>1
    <3>2. u[j + 1] = l[j + 1 + 1]
      BY <1>3, <3>1
    <3> QED
      BY <1>3, <3>1, <3>2
  <2> QED
    BY <2>3, <2>4, <2>5
<1>7. w \in {0, 1} /\ (w = 1 => h.tpl = t /\ h.agg = a)
  BY DEF Weight
<1>8. Weight(l[p + 1], t, a) = 0 - w
  <2>1. u[p] = l[p + 1]
    BY <1>3, <1>5
  <2> QED
    BY <1>4, <2>1 DEF Weight
<1>9. PICK b : Path(b, l, t, a) /\ b[0] = n /\ b[k] = m
  BY DEF Takes
<1>10. b \in [0 .. k -> Nat] /\ \A i \in 1 .. k : b[i] = b[i - 1] + Weight(l[i], t, a)
  BY <1>9 DEF Path
<1>11. w = 1 => \A j \in 1 .. p - 1 : Weight(l[j + 1], t, a) \in {0, 1}
  <2> SUFFICES ASSUME w = 1, NEW j \in 1 .. p - 1 PROVE Weight(l[j + 1], t, a) \in {0, 1}
    OBVIOUS
  <2>1. u[j] = l[j + 1] /\ j + 1 \in 1 .. k
    BY <1>3, <1>5
  <2>2. ~(l[j + 1].tpl = t /\ l[j + 1].agg = a /\ l[j + 1].dir = -1)
    BY <1>4, <1>7, <2>1
  <2>3. Weight(l[j + 1], t, a) \in {0, 1, -1}
    BY <1>1, <2>1
  <2> QED
    BY <2>2, <2>3 DEF Weight
<1>12. b[1] = n + w /\ n \in Nat
  <2>1. 1 \in 1 .. k /\ 1 - 1 = 0 /\ 0 \in 0 .. k
    BY <1>1, <1>2
  <2>2. b[1] = b[1 - 1] + Weight(l[1], t, a)
    BY <1>10, <2>1
  <2> QED
    BY <1>3, <1>9, <1>10, <2>1, <2>2
<1> HIDE DEF k, u, h, v, w
<1>13. \A j \in 1 .. p : b[j] >= w
  <2> DEFINE Bad == {j \in 1 .. p : ~(b[j] >= w)}
  <2> SUFFICES ASSUME Bad # {} PROVE FALSE
    OBVIOUS
  <2>1. Bad \subseteq Nat
    BY <1>5
  <2>2. PICK j \in Bad : \A i \in Bad : j <= i
    <3> HIDE DEF Bad
    <3> QED
      BY <2>1, SmallestNat
  <2>3. j \in 1 .. p /\ ~(b[j] >= w)
    BY <2>2
  <2>4. j # 1
    BY <1>7, <1>12, <2>3
  <2>5. j - 1 \in 1 .. p - 1 /\ j - 1 \in 1 .. p /\ j - 1 + 1 = j /\ ~(j <= j - 1)
    BY <1>5, <2>3, <2>4
  <2>6. b[j - 1] >= w
    BY <2>2, <2>5
  <2>7. j \in 1 .. k /\ j \in 0 .. k /\ j - 1 \in 0 .. k
    BY <1>1, <1>5, <2>3, <2>4
  <2>8. b[j] = b[j - 1] + Weight(l[j], t, a) /\ b[j] \in Nat /\ b[j - 1] \in Nat
    BY <1>10, <2>7
  <2>9. w = 1 => Weight(l[j], t, a) \in {0, 1}
    BY <1>11, <2>5
  <2> QED
    BY <1>7, <2>3, <2>6, <2>8, <2>9
<1> DEFINE c == [j \in 0 .. k - 2 |-> IF j < p THEN b[j + 1] - w ELSE b[j + 2]]
<1>14. k - 2 \in Nat
  BY <1>1, <1>5
<1>15. \A j \in 0 .. k - 2 : c[j] = IF j < p THEN b[j + 1] - w ELSE b[j + 2]
  OBVIOUS
<1>16. c \in [0 .. k - 2 -> Nat]
  <2>1. ASSUME NEW j \in 0 .. k - 2 PROVE (IF j < p THEN b[j + 1] - w ELSE b[j + 2]) \in Nat
    <3>1. j + 1 \in 0 .. k /\ j + 2 \in 0 .. k
      BY <1>1
    <3>2. b[j + 1] \in Nat /\ b[j + 2] \in Nat
      BY <1>10, <3>1
    <3>3. CASE j < p
      <4>1. j + 1 \in 1 .. p
        BY <1>5, <3>3
      <4>2. b[j + 1] >= w
        BY <1>13, <4>1
      <4> QED
        BY <1>7, <3>2, <3>3, <4>2
    <3> QED
      BY <3>2, <3>3
  <2> QED
    BY <2>1
<1> HIDE DEF c
<1>17. b[p + 1] = b[p] - w /\ b[p] \in Nat
  <2>1. p + 1 - 1 = p /\ p \in 0 .. k
    BY <1>1, <1>5
  <2>2. b[p + 1] = b[p] + (0 - w) /\ b[p] \in Nat
    BY <1>5, <1>8, <1>10, <2>1
  <2> QED
    BY <1>7, <2>2
<1>18. ASSUME NEW j \in 1 .. k - 2 PROVE c[j] = c[j - 1] + Weight(v[j], t, a)
  <2>1. /\ j \in 0 .. k - 2 /\ j - 1 \in 0 .. k - 2 /\ j - 1 + 1 = j /\ j - 1 + 2 = j + 1
        /\ j + 1 \in 1 .. k /\ j + 2 \in 1 .. k /\ j + 1 - 1 = j /\ j + 2 - 1 = j + 1
        /\ j \in 0 .. k
    BY <1>1, <1>14
  <2>2. b[j + 1] = b[j] + Weight(l[j + 1], t, a) /\ b[j + 2] = b[j + 1] + Weight(l[j + 2], t, a)
    BY <1>10, <2>1
  <2>3. CASE j < p
    <3>1. j - 1 < p
      BY <1>5, <2>3
    <3>2. c[j] = b[j + 1] - w /\ c[j - 1] = b[j] - w /\ v[j] = l[j + 1]
      BY <1>6, <1>15, <2>1, <2>3, <3>1
    <3>3. Weight(l[j + 1], t, a) \in Int /\ b[j] \in Nat
      BY <1>1, <1>10, <2>1
    <3> QED
      BY <1>7, <2>2, <3>2, <3>3
  <2>4. CASE j = p
    <3>1. j - 1 < p /\ ~(j < p)
      BY <1>5, <2>4
    <3>2. c[j] = b[j + 2] /\ c[j - 1] = b[j] - w /\ v[j] = l[j + 2]
      BY <1>6, <1>15, <2>1, <3>1
    <3> QED
      BY <1>17, <2>2, <2>4, <3>2
  <2>5. CASE p < j
    <3>1. ~(j - 1 < p) /\ ~(j < p)
      BY <1>5, <2>5
    <3>2. c[j] = b[j + 2] /\ c[j - 1] = b[j + 1] /\ v[j] = l[j + 2]
      BY <1>6, <1>15, <2>1, <3>1
    <3> QED
      BY <2>2, <3>2
  <2>6. j < p \/ j = p \/ p < j
    BY <1>5
  <2> QED
    BY <2>3, <2>4, <2>5, <2>6
<1>19. Path(c, v, t, a)
  BY <1>6, <1>16, <1>18 DEF Path
<1>20. c[0] = n
  <2>1. 0 \in 0 .. k - 2 /\ 0 < p /\ 0 + 1 = 1
    BY <1>5, <1>14
  <2>2. c[0] = b[1] - w
    BY <1>15, <2>1
  <2> QED
    BY <1>7, <1>12, <2>2
<1>21. c[k - 2] = m
  <2>1. k - 2 \in 0 .. k - 2 /\ k - 2 + 2 = k /\ k - 2 + 1 = k - 1
    BY <1>1, <1>14
  <2>2. CASE k - 2 < p
    <3>1. p = k - 1 /\ p + 1 = k
      BY <1>1, <1>5, <2>2
    <3>2. c[k - 2] = b[k - 1] - w
      BY <1>15, <2>1, <2>2
    <3> QED
      BY <1>9, <1>17, <3>1, <3>2
  <2>3. CASE ~(k - 2 < p)
    <3>1. c[k - 2] = b[k]
      BY <1>15, <2>1, <2>3
    <3> QED
      BY <1>9, <3>1
  <2> QED
    BY <2>2, <2>3
<1>22. Takes(v, t, a, n, m)
  BY <1>6, <1>19, <1>20, <1>21 DEF Takes
<1> QED
  BY <1>22 DEF v, u

-----------------------------------------------------------------------------
(* The facts and values when nothing waits. *)

\* The leaves after fact f, or its removal, was processed.
Processed(w, s, f) ==
  /\ Leaves(w) /\ Plain(w) /\ TuplesOf(w) \subseteq TuplesOf(s) \cup {f.tpl}
  /\ \A u : CountOf(w, u) = CountOf(s, u) + IF u = f.tpl THEN f.dir ELSE 0

\* A fact is there to be removed when its count allows it.
LEMMA ProcessedIs ==
  ASSUME NEW s, Leaves(s), Plain(s), NEW f, NEW d
  PROVE  /\ f.dir = 1 => Processed(Inserted(s, f.tpl, FALSE, d), s, f)
         /\ f.dir = -1 /\ CountOf(s, f.tpl) + f.dir \in Nat =>
               Processed(Kept(Lessened(s, f.tpl, d)), s, f)
<1>1. \A u : CountOf(s, u) \in Nat
  BY CountIs DEF Leaves
<1>2. ASSUME f.dir = 1 PROVE Processed(Inserted(s, f.tpl, FALSE, d), s, f)
  <2>1. Gains(Inserted(s, f.tpl, FALSE, d), s, f.tpl, FALSE)
    BY InsertedIs
  <2> QED
    BY <1>2, <2>1 DEF Gains, Processed
<1>3. ASSUME f.dir = -1, CountOf(s, f.tpl) + f.dir \in Nat
      PROVE  Processed(Kept(Lessened(s, f.tpl, d)), s, f)
  <2> DEFINE w == Kept(Lessened(s, f.tpl, d))
  <2>1. Loses(w, s, f.tpl, Gone(s, f.tpl, d))
    BY RetractedIs
  <2>2. f.tpl \in TuplesOf(s)
    <3>1. CountOf(s, f.tpl) # 0
      BY <1>1, <1>3
    <3> QED
      BY <3>1, CountIs DEF Leaves
  <2> HIDE DEF w
  <2>3. Leaves(w) /\ Plain(w) /\ TuplesOf(w) \subseteq TuplesOf(s) \cup {f.tpl}
    BY <2>1 DEF Loses
  <2>4. \A u : CountOf(w, u) = IF u = f.tpl THEN CountOf(s, u) - 1 ELSE CountOf(s, u)
    BY <2>1, <2>2 DEF Loses
  <2>5. \A u : CountOf(w, u) = CountOf(s, u) + IF u = f.tpl THEN f.dir ELSE 0
    BY <1>1, <1>3, <2>4
  <2> QED
    BY <2>3, <2>5 DEF Processed, w
<1> QED
  BY <1>2, <1>3

\* A sequence over a set is one over a larger set.
LEMMA SeqMore ==
  ASSUME NEW D, NEW l \in Seq(D), NEW E, D \subseteq E
  PROVE  l \in Seq(E)
<1>1. Len(l) \in Nat /\ l \in [1 .. Len(l) -> D]
  BY LenProperties
<1>2. l \in [1 .. Len(l) -> E]
  BY <1>1
<1> QED
  BY <1>1, <1>2, SeqDef

\* A sender derives or retracts a fact.
LEMMA HoldersChange ==
  ASSUME derived \in [Senders -> [Tuples -> Depths \cup {None}]],
         NEW s \in Senders, NEW t \in Tuples, NEW d \in Depths \cup {None},
         derived' = [derived EXCEPT ![s][t] = d]
  PROVE  /\ derived' \in [Senders -> [Tuples -> Depths \cup {None}]]
         /\ \A u \in Tuples : u # t => Holders(u)' = Holders(u)
         /\ \A u \in Tuples : Holders(u) \in Nat
         /\ derived[s][t] = None /\ d # None => Holders(t)' = Holders(t) + 1
         /\ derived[s][t] # None /\ d = None => Holders(t)' = Holders(t) - 1
<1> DEFINE By(u) == {r \in Senders : derived[r][u] # None}
           Then(u) == {r \in Senders : derived'[r][u] # None}
           T == Tuples
           V == Depths \cup {None}
<1>0. derived \in [Senders -> [T -> V]] /\ t \in T /\ d \in V /\ derived' = [derived EXCEPT ![s][t] = d]
  OBVIOUS
<1> HIDE DEF T, V
<1>1. derived' \in [Senders -> [T -> V]]
  BY <1>0
<1>2. \A r \in Senders, u \in T : derived'[r][u] = IF r = s /\ u = t THEN d ELSE derived[r][u]
  BY <1>0
<1>3. \A u \in T : u # t => Then(u) = By(u)
  BY <1>2
<1>4. ASSUME NEW u PROVE IsFiniteSet(By(u)) /\ Cardinality(By(u)) \in Nat
  BY FactsAssumption, FS_Subset, FS_CardinalityType
<1>5. ASSUME derived[s][t] = None, d # None PROVE Cardinality(Then(t)) = Cardinality(By(t)) + 1
  <2>1. Then(t) = By(t) \cup {s} /\ s \notin By(t)
    BY <1>0, <1>2, <1>5
  <2> HIDE DEF Then, By
  <2> QED
    BY <1>4, <2>1, FS_AddElement
<1>6. ASSUME derived[s][t] # None, d = None PROVE Cardinality(Then(t)) = Cardinality(By(t)) - 1
  <2>1. Then(t) = By(t) \ {s} /\ s \in By(t)
    BY <1>0, <1>2, <1>6
  <2> HIDE DEF Then, By
  <2> QED
    BY <1>4, <2>1, FS_RemoveElement
<1>7. \A u : Holders(u) = Cardinality(By(u)) /\ Holders(u)' = Cardinality(Then(u))
  BY DEF Holders
<1>8. \A u : Cardinality(By(u)) \in Nat
  BY <1>4
<1> HIDE DEF By, Then
<1>9. \A u \in T : u # t => Holders(u)' = Holders(u)
  BY <1>3, <1>7
<1>10. \A u \in T : Holders(u) \in Nat
  BY <1>7, <1>8
<1> QED
  BY <1>1, <1>5, <1>6, <1>7, <1>9, <1>10 DEF T, V

\* The generated fact of the values of key k.
Generated(g, v, k) ==
  LET ts == TuplesOf(v)
  IN  /\ g \in {k} \X Int
      /\ pred.agg = "first" => g \in ts
      /\ pred.agg = "max" => g \in ts /\ \A u \in ts : u[2] <= g[2]
      /\ pred.agg = "min" => g \in ts /\ \A u \in ts : g[2] <= u[2]
      /\ pred.agg = "sum" => g = <<k, SumFunctionOnSet([u \in ts |-> CountOf(v, u) * u[2]], ts)>>

\* The values of key k.
Values(v, k) == Leaves(v) /\ Plain(v) /\ TuplesOf(v) \subseteq {k} \X Vals

\* The leaves of the values of a key.
LEMMA ValuesFact ==
  ASSUME NEW v, NEW k, Values(v, k), v # <<>>
  PROVE  /\ IsFiniteSet(DOMAIN v) /\ 1 \in DOMAIN v /\ DOMAIN v \subseteq Nat
         /\ \A i \in DOMAIN v : /\ v[i] \in ToSet(v) /\ v[i].tpl \in TuplesOf(v) /\ v[i].count \in Nat
                                /\ v[i].tpl \in {k} \X Int /\ val_of(v[i]) = v[i].tpl[2]
                                /\ val_of(v[i]) \in Int
         /\ \A u \in TuplesOf(v) : \E i \in DOMAIN v : v[i].tpl = u
         /\ \A i, j \in DOMAIN v : v[i].tpl = v[j].tpl => i = j
<1>1. v \in Seq(ToSet(v)) /\ Once(v) /\ Distinct(v)
  BY DEF Values, Leaves, Distinct
<1>2. Len(v) \in Nat /\ DOMAIN v = 1 .. Len(v)
  BY <1>1, LeafFact
<1>3. Len(v) # 0
  BY <1>1, EmptySeq
<1>4. IsFiniteSet(DOMAIN v) /\ 1 \in DOMAIN v /\ DOMAIN v \subseteq Nat
  <2>1. IsFiniteSet(1 .. Len(v))
    BY <1>2, FS_Interval
  <2> QED
    BY <1>2, <1>3, <2>1
<1>5. ASSUME NEW i \in DOMAIN v
      PROVE  /\ v[i] \in ToSet(v) /\ v[i].tpl \in TuplesOf(v) /\ v[i].count \in Nat
             /\ v[i].tpl \in {k} \X Int /\ val_of(v[i]) = v[i].tpl[2] /\ val_of(v[i]) \in Int
  <2>1. v[i] \in ToSet(v) /\ v[i].tpl \in TuplesOf(v)
    BY <1>1, LeafFact DEF TuplesOf
  <2>2. v[i].count \in Nat
    BY <1>1, <2>1 DEF Distinct, Leaf
  <2>3. v[i].tpl \in {k} \X Int
    BY <2>1, FactsAssumption DEF Values
  <2> QED
    BY <2>1, <2>2, <2>3 DEF val_of
<1>6. \A u \in TuplesOf(v) : \E i \in DOMAIN v : v[i].tpl = u
  BY <1>1, LeafFact DEF TuplesOf
<1>7. \A i, j \in DOMAIN v : v[i].tpl = v[j].tpl => i = j
  BY <1>1, <1>5 DEF Distinct, Once
<1> QED
  BY <1>4, <1>5, <1>6, <1>7

\* What an aggregate generates.
LEMMA GeneratedIs ==
  ASSUME pred \in Preds, pred.agg # "none", NEW v, NEW k, Values(v, k), v # <<>>
  PROVE  Generated(do_generate(v), v, k)
<1> DEFINE I == DOMAIN v
           val == [i \in I |-> val_of(v[i])]
<1>1. /\ IsFiniteSet(I) /\ 1 \in I /\ I \subseteq Nat
      /\ \A i \in I : /\ v[i] \in ToSet(v) /\ v[i].tpl \in TuplesOf(v) /\ v[i].count \in Nat
                      /\ v[i].tpl \in {k} \X Int /\ val_of(v[i]) = v[i].tpl[2] /\ val_of(v[i]) \in Int
      /\ \A u \in TuplesOf(v) : \E i \in I : v[i].tpl = u
      /\ \A i, j \in I : v[i].tpl = v[j].tpl => i = j
  BY ValuesFact
<1>2. pred.agg \in {"first", "max", "min", "sum"}
  BY FactsAssumption
<1>3. (\E m \in I : \A j \in I : val_of(v[j]) <= val_of(v[m])) /\ (\E m \in I : \A j \in I : val_of(v[m]) <= val_of(v[j]))
  <2> DEFINE V == {val[i] : i \in I}
  <2>1. val \in Surjection(I, V)
    BY DEF Surjection
  <2>2. V # {} /\ \A x \in V : x \in Int
    BY <1>1
  <2>3. IsFiniteSet(V)
    <3> HIDE DEF V, val, I
    <3> QED
      BY <1>1, <2>1, FS_Surjection
  <2>4. (\E x \in V : \A y \in V : y <= x) /\ (\E x \in V : \A y \in V : x <= y)
    <3> HIDE DEF V
    <3> QED
      BY <2>2, <2>3, FiniteBounds
  <2>5. \A x \in V : \E i \in I : x = val_of(v[i])
    OBVIOUS
  <2>6. \A i \in I : val_of(v[i]) \in V
    OBVIOUS
  <2> HIDE DEF V
  <2> QED
    BY <2>4, <2>5, <2>6
<1>4. ASSUME NEW B, B \subseteq I, B # {} PROVE Min(B) \in B
  <2>1. \E x \in B : \A y \in B : x <= y
    <3>1. B \subseteq Nat
      BY <1>1, <1>4
    <3> QED
      BY <1>4, <3>1, SmallestNat
  <2> QED
    BY <2>1 DEF Min
<1>5. CASE pred.agg = "first"
  <2>1. do_generate(v) = v[1].tpl
    BY <1>5 DEF do_generate, generate_first
  <2> QED
    BY <1>1, <1>5, <2>1 DEF Generated
<1>6. CASE pred.agg = "max"
  <2> DEFINE B == {i \in I : \A j \in I : val_of(v[j]) <= val_of(v[i])}
             m == Min(B)
  <2>1. m \in B
    BY <1>3, <1>4
  <2>2. do_generate(v) = v[m].tpl
    BY <1>6 DEF do_generate, generate_max
  <2> HIDE DEF m
  <2>3. m \in I /\ \A j \in I : val_of(v[j]) <= val_of(v[m])
    BY <2>1
  <2>4. \A u \in TuplesOf(v) : u[2] <= v[m].tpl[2]
    BY <1>1, <2>3
  <2> QED
    BY <1>1, <1>6, <2>2, <2>3, <2>4 DEF Generated
<1>7. CASE pred.agg = "min"
  <2> DEFINE B == {i \in I : \A j \in I : val_of(v[i]) <= val_of(v[j])}
             m == Min(B)
  <2>1. m \in B
    BY <1>3, <1>4
  <2>2. do_generate(v) = v[m].tpl
    BY <1>7 DEF do_generate, generate_min
  <2> HIDE DEF m
  <2>3. m \in I /\ \A j \in I : val_of(v[m]) <= val_of(v[j])
    BY <2>1
  <2>4. \A u \in TuplesOf(v) : v[m].tpl[2] <= u[2]
    BY <1>1, <2>3
  <2> QED
    BY <1>1, <1>7, <2>2, <2>3, <2>4 DEF Generated
<1>8. CASE pred.agg = "sum"
  <2> DEFINE f == [i \in I |-> v[i].count * val_of(v[i])]
             g == [u \in TuplesOf(v) |-> CountOf(v, u) * u[2]]
             h == [i \in I |-> v[i].tpl]
  <2>1. do_generate(v) = [v[1].tpl EXCEPT ![2] = SumFunctionOnSet(f, I)]
    BY <1>8 DEF do_generate, generate_sum
  <2>2. \A i \in I : CountOf(v, v[i].tpl) = v[i].count
    BY <1>1, CountIs DEF Values, Leaves
  <2>3. \A x, y \in I : h[x] = h[y] => x = y
    BY <1>1
  <2>4. \A x \in I : f[x] \in Int /\ g[h[x]] = f[x]
    BY <1>1, <2>2
  <2>5. {h[x] : x \in I} = TuplesOf(v)
    BY <1>1
  <2> HIDE DEF f, g, h
  <2>6. SumFunctionOnSet(f, I) = SumFunctionOnSet(g, {h[x] : x \in I})
    <3>1. IsFiniteSet(I)
      BY <1>1
    <3> HIDE DEF I
    <3> QED
      BY <2>3, <2>4, <3>1, SumImage
  <2>7. SumFunctionOnSet(f, I) \in Int
    BY <1>1, <2>4, SumType
  <2> DEFINE s == SumFunctionOnSet(f, I)
  <2>8. do_generate(v) = [v[1].tpl EXCEPT ![2] = s] /\ s \in Int /\ s = SumFunctionOnSet(g, TuplesOf(v))
    BY <2>1, <2>5, <2>6, <2>7
  <2> HIDE DEF s, I
  <2>9. PICK n \in Int : v[1].tpl = <<k, n>>
    BY <1>1
  <2>10. do_generate(v) = <<k, s>>
    BY <2>8, <2>9
  <2> QED
    BY <1>8, <2>8, <2>10 DEF Generated, g
<1> QED
  BY <1>2, <1>5, <1>6, <1>7, <1>8

\* What the list makes of an aggregated fact of a key.
Due(g, t) == IF g = t THEN 1 ELSE 0

\* What joins the list when the aggregated fact of a key changes from old to gen.
New(w, old, gen) ==
  \/ w = <<>> /\ old = gen
  \/ \E d, e : /\ old # gen
               /\ w = (IF old # <<>> THEN <<full_tuple(old, -1, d, TRUE)>> ELSE <<>>)
                      \o (IF gen # <<>> THEN <<full_tuple(gen, 1, e, TRUE)>> ELSE <<>>)

\* Then the list takes the counts to where the new aggregated fact is due.
LEMMA TakesNew ==
  ASSUME NEW l, NEW D, Waits(l, D), NEW w, NEW old, NEW gen, New(w, old, gen)
  PROVE  /\ \E E : /\ Waits(l \o w, E)
                   /\ \A x \in E : x \in D \/ (/\ x.agg = TRUE /\ x.dir \in {1, -1}
                                               /\ x.tpl \in {old, gen} /\ x.tpl # <<>>)
         /\ \A t, a, n, m : Takes(l, t, a, n, m) /\ (a = FALSE \/ t \notin {old, gen}) =>
                              Takes(l \o w, t, a, n, m)
         /\ \A t, n : t # <<>> /\ Takes(l, t, TRUE, n, Due(old, t)) => Takes(l \o w, t, TRUE, n, Due(gen, t))
<1>0. l \in Seq(D) /\ \A x \in D : x.dir \in {1, -1}
  BY DEF Waits
<1>1. CASE w = <<>> /\ old = gen
  <2>1. l \o w = l
    BY <1>0, <1>1, ConcatEmptySeq
  <2> QED
    BY <1>1, <2>1
<1>2. CASE ~(w = <<>> /\ old = gen)
  <2>1. PICK d, e : /\ old # gen
                    /\ w = (IF old # <<>> THEN <<full_tuple(old, -1, d, TRUE)>> ELSE <<>>)
                           \o (IF gen # <<>> THEN <<full_tuple(gen, 1, e, TRUE)>> ELSE <<>>)
    BY <1>2 DEF New
  <2> DEFINE x == full_tuple(old, -1, d, TRUE)
             y == full_tuple(gen, 1, e, TRUE)
             E == D \cup {z \in {x, y} : z.tpl # <<>>}
             o == IF old # <<>> THEN <<x>> ELSE <<>>
             i == IF gen # <<>> THEN <<y>> ELSE <<>>
             A == IF old # <<>> THEN Append(l, x) ELSE l
             B == IF gen # <<>> THEN Append(A, y) ELSE A
  <2>2. w = o \o i
    BY <2>1
  <2>3. /\ x.tpl = old /\ x.dir = -1 /\ x.agg = TRUE
        /\ y.tpl = gen /\ y.dir = 1 /\ y.agg = TRUE
    BY DEF full_tuple
  <2> HIDE DEF x, y
  <2>4. /\ old # <<>> => x \in E
        /\ gen # <<>> => y \in E
        /\ D \subseteq E
        /\ \A z \in E : z.dir \in {1, -1}
        /\ \A z \in E : z \in D \/ (z.agg = TRUE /\ z.dir \in {1, -1} /\ z.tpl \in {old, gen} /\ z.tpl # <<>>)
    BY <1>0, <2>3
  <2> HIDE DEF E
  <2>5. l \in Seq(E) /\ Waits(l, E)
    BY <1>0, <2>4, SeqMore DEF Waits
  <2>6. o \in Seq(E) /\ i \in Seq(E)
    BY <2>4
  <2>7. A \in Seq(E) /\ A = l \o o
    <3>1. CASE old # <<>>
      BY <2>4, <2>5, <3>1, AppendIsConcat, AppendProperties
    <3>2. CASE old = <<>>
      BY <2>5, <3>2, ConcatEmptySeq
    <3> QED
      BY <3>1, <3>2
  <2> HIDE DEF A
  <2>8. B \in Seq(E) /\ B = A \o i
    <3>1. CASE gen # <<>>
      BY <2>4, <2>7, <3>1, AppendIsConcat, AppendProperties
    <3>2. CASE gen = <<>>
      BY <2>7, <3>2, ConcatEmptySeq
    <3> QED
      BY <3>1, <3>2
  <2> HIDE DEF B, o, i
  <2>9. l \o w = B
    <3>1. (l \o o) \o i = l \o (o \o i)
      BY <2>5, <2>6, ConcatAssociative
    <3> QED
      BY <2>2, <2>7, <2>8, <3>1
  <2>10. Waits(A, E) /\ Waits(B, E)
    BY <2>4, <2>7, <2>8 DEF Waits
  <2>11. ASSUME NEW t, NEW a, NEW n, NEW m, Takes(l, t, a, n, m), NEW r \in Nat,
                r = m + IF old # <<>> THEN Weight(x, t, a) ELSE 0
         PROVE  Takes(A, t, a, n, r)
    <3>1. CASE old # <<>>
      <4>1. r = m + Weight(x, t, a) /\ x \in E /\ A = Append(l, x)
        BY <2>4, <2>11, <3>1 DEF A
      <4>2. Takes(Append(l, x), t, a, n, m + Weight(x, t, a))
        BY <2>5, <2>11, <4>1, TakesAppend
      <4> QED
        BY <4>1, <4>2
    <3>2. CASE old = <<>>
      <4>1. m \in Nat
        BY <2>5, <2>11, TakesType
      <4>2. r = m /\ A = l
        BY <2>11, <3>2, <4>1 DEF A
      <4> QED
        BY <2>11, <4>2
    <3> QED
      BY <3>1, <3>2
  <2>12. ASSUME NEW t, NEW a, NEW n, NEW m, Takes(A, t, a, n, m), NEW r \in Nat,
                r = m + IF gen # <<>> THEN Weight(y, t, a) ELSE 0
         PROVE  Takes(B, t, a, n, r)
    <3>1. CASE gen # <<>>
      <4>1. r = m + Weight(y, t, a) /\ y \in E /\ B = Append(A, y)
        BY <2>4, <2>12, <3>1 DEF B
      <4>2. Takes(Append(A, y), t, a, n, m + Weight(y, t, a))
        BY <2>10, <2>12, <4>1, TakesAppend
      <4> QED
        BY <4>1, <4>2
    <3>2. CASE gen = <<>>
      <4>1. m \in Nat
        BY <2>10, <2>12, TakesType
      <4>2. r = m /\ B = A
        BY <2>12, <3>2, <4>1 DEF B
      <4> QED
        BY <2>12, <4>2
    <3> QED
      BY <3>1, <3>2
  <2>13. ASSUME NEW t, NEW a, NEW n, NEW m, Takes(l, t, a, n, m), a = FALSE \/ t \notin {old, gen}
         PROVE  Takes(B, t, a, n, m)
    <3>1. m \in Nat
      BY <2>5, <2>13, TakesType
    <3>2. Weight(x, t, a) = 0 /\ Weight(y, t, a) = 0
      BY <2>3, <2>13 DEF Weight
    <3>3. /\ m = m + IF old # <<>> THEN Weight(x, t, a) ELSE 0
          /\ m = m + IF gen # <<>> THEN Weight(y, t, a) ELSE 0
      <4>1. (IF old # <<>> THEN Weight(x, t, a) ELSE 0) = 0 /\ (IF gen # <<>> THEN Weight(y, t, a) ELSE 0) = 0
        BY <3>2
      <4>2. m = m + 0
        BY <3>1
      <4> QED
        BY <4>1, <4>2
    <3> QED
      BY <2>11, <2>12, <2>13, <3>1, <3>3
  <2>14. ASSUME NEW t, NEW n, t # <<>>, Takes(l, t, TRUE, n, Due(old, t)) PROVE Takes(B, t, TRUE, n, Due(gen, t))
    <3> DEFINE m == Due(old, t)
               r == IF old = t THEN 0 ELSE m
               q == Due(gen, t)
    <3>1. m \in Nat /\ r \in Nat /\ q \in Nat
      BY DEF Due
    <3>2. Weight(x, t, TRUE) = (IF old = t THEN -1 ELSE 0) /\ Weight(y, t, TRUE) = (IF gen = t THEN 1 ELSE 0)
      BY <2>3 DEF Weight
    <3>3. /\ r = m + IF old # <<>> THEN Weight(x, t, TRUE) ELSE 0
          /\ q = r + IF gen # <<>> THEN Weight(y, t, TRUE) ELSE 0
      <4>1. (IF old # <<>> THEN Weight(x, t, TRUE) ELSE 0) = IF old = t THEN -1 ELSE 0
        BY <2>14, <3>2
      <4>2. (IF gen # <<>> THEN Weight(y, t, TRUE) ELSE 0) = IF gen = t THEN 1 ELSE 0
        BY <2>14, <3>2
      <4>3. r = m + IF old = t THEN -1 ELSE 0
        BY DEF Due
      <4>4. q = r + IF gen = t THEN 1 ELSE 0
        BY <2>1 DEF Due
      <4> QED
        BY <4>1, <4>2, <4>3, <4>4
    <3>4. Takes(l, t, TRUE, n, m)
      BY <2>14
    <3> HIDE DEF m, r, q
    <3>5. Takes(A, t, TRUE, n, r)
      BY <2>11, <3>1, <3>3, <3>4
    <3>6. Takes(B, t, TRUE, n, q)
      BY <2>12, <3>1, <3>3, <3>5
    <3> QED
      BY <3>6 DEF q
  <2> QED
    BY <2>4, <2>9, <2>10, <2>13, <2>14
<1> QED
  BY <1>1, <1>2

\* The configuration of a key.
IsConf(c) == c \in [vals : {c.vals}, corresponds : {c.corresponds}, last_depth : {c.last_depth}]

\* Its assignments: other values, another aggregated fact.
OtherVals(w, c, v) == IsConf(c) /\ w = [c EXCEPT !.vals = v]
OtherFact(w, c, g, d) == IsConf(c) /\ w = [c EXCEPT !.corresponds = g, !.last_depth = d]

\* What they leave.
LEMMA ConfExcept ==
  /\ \A w, c, v : OtherVals(w, c, v) => IsConf(w) /\ w.vals = v /\ w.corresponds = c.corresponds
  /\ \A w, c, g, d : OtherFact(w, c, g, d) => IsConf(w) /\ w.vals = c.vals /\ w.corresponds = g
<1>1. ASSUME NEW w, NEW c, NEW v, OtherVals(w, c, v)
      PROVE  IsConf(w) /\ w.vals = v /\ w.corresponds = c.corresponds
  <2>1. c \in [vals : {c.vals}, corresponds : {c.corresponds}, last_depth : {c.last_depth}]
    BY <1>1 DEF OtherVals, IsConf
  <2>2. PICK V, C, L : /\ c \in [vals : V, corresponds : C, last_depth : L]
                       /\ V = {c.vals, v} /\ C = {c.corresponds} /\ L = {c.last_depth}
    <3>1. c \in [vals : {c.vals, v}, corresponds : {c.corresponds}, last_depth : {c.last_depth}]
      BY <2>1
    <3> QED
      BY <3>1
  <2>3. w \in [vals : V, corresponds : C, last_depth : L] /\ w.vals = v /\ w.corresponds = c.corresponds
    BY <1>1, <2>2 DEF OtherVals
  <2>4. w \in [vals : {w.vals}, corresponds : {w.corresponds}, last_depth : {w.last_depth}]
    BY <2>3
  <2> QED
    BY <2>3, <2>4 DEF IsConf
<1>2. ASSUME NEW w, NEW c, NEW g, NEW d, OtherFact(w, c, g, d)
      PROVE  IsConf(w) /\ w.vals = c.vals /\ w.corresponds = g
  <2>1. c \in [vals : {c.vals}, corresponds : {c.corresponds}, last_depth : {c.last_depth}]
    BY <1>2 DEF OtherFact, IsConf
  <2>2. PICK V, C, L : /\ c \in [vals : V, corresponds : C, last_depth : L]
                       /\ V = {c.vals} /\ C = {c.corresponds, g} /\ L = {c.last_depth, d}
    <3>1. c \in [vals : {c.vals}, corresponds : {c.corresponds, g}, last_depth : {c.last_depth, d}]
      BY <2>1
    <3> QED
      BY <3>1
  <2>3. w \in [vals : V, corresponds : C, last_depth : L] /\ w.vals = c.vals /\ w.corresponds = g
    BY <1>2, <2>2 DEF OtherFact
  <2>4. w \in [vals : {w.vals}, corresponds : {w.corresponds}, last_depth : {w.last_depth}]
    BY <2>3
  <2> QED
    BY <2>3, <2>4 DEF IsConf
<1> QED
  BY <1>1, <1>2

\* A configuration whose aggregated fact is the one of its values.
Current(c, k) == IsConf(c) /\ Values(c.vals, k) /\ c.corresponds = do_generate(c.vals)

\* A value or its removal is added to a configuration.
Adds(g, c, k, f) ==
  /\ pred \in Preds /\ ~pred.cyclic /\ Current(c, k)
  /\ f.dir \in {1, -1} /\ f.tpl \in {k} \X Vals /\ CountOf(c.vals, f.tpl) + f.dir \in Nat
  /\ g = generate(add_to_set(c, f))

\* The new configuration, and what joins the list.
LEMMA ConfStep ==
  ASSUME NEW g, NEW c, NEW k, NEW f, Adds(g, c, k, f)
  PROVE  /\ Current(g.conf, k) /\ New(g.new, c.corresponds, g.conf.corresponds)
         /\ \A u : CountOf(g.conf.vals, u) = CountOf(c.vals, u) + IF u = f.tpl THEN f.dir ELSE 0
<1> DEFINE v == IF f.dir = 1 THEN Inserted(c.vals, f.tpl, pred.cyclic, f.depth)
                ELSE Kept(Lessened(c.vals, f.tpl, f.depth))
           b == [c EXCEPT !.vals = v]
           gen == do_generate(v)
           d == IF gen = <<>> THEN 0 ELSE GeneratedDepth(v)
           z == [b EXCEPT !.corresponds = gen, !.last_depth = d]
<1>0. /\ pred \in Preds /\ ~pred.cyclic /\ Current(c, k)
      /\ f.dir \in {1, -1} /\ f.tpl \in {k} \X Vals /\ CountOf(c.vals, f.tpl) + f.dir \in Nat
      /\ g = generate(add_to_set(c, f))
  BY DEF Adds
<1>1. add_to_set(c, f) = b
  BY DEF add_to_set
<1>2. Processed(v, c.vals, f)
  <2>1. pred.cyclic = FALSE
    BY <1>0, FactsAssumption
  <2>2. Leaves(c.vals) /\ Plain(c.vals)
    BY <1>0 DEF Current, Values
  <2>3. CASE f.dir = 1
    BY <2>1, <2>2, <2>3, ProcessedIs
  <2>4. CASE f.dir = -1
    <3>1. v = Kept(Lessened(c.vals, f.tpl, f.depth))
      BY <2>4
    <3> HIDE DEF v
    <3> QED
      BY <1>0, <2>2, <2>4, <3>1, ProcessedIs
  <2> QED
    BY <1>0, <2>3, <2>4
<1> HIDE DEF v
<1>3. Values(v, k)
  BY <1>0, <1>2 DEF Processed, Values, Current
<1>4. \A u : CountOf(v, u) = CountOf(c.vals, u) + IF u = f.tpl THEN f.dir ELSE 0
  BY <1>2 DEF Processed
<1>5. IsConf(b) /\ b.vals = v /\ b.corresponds = c.corresponds
  <2>1. OtherVals(b, c, v)
    BY <1>0 DEF OtherVals, Current
  <2> HIDE DEF b
  <2> QED
    BY <2>1, ConfExcept
<1> HIDE DEF b
<1>6. g = IF gen = c.corresponds THEN [conf |-> b, new |-> <<>>]
          ELSE [conf |-> z,
                new |-> (IF c.corresponds # <<>> THEN <<full_tuple(c.corresponds, -1, b.last_depth, TRUE)>> ELSE <<>>)
                        \o (IF gen # <<>> THEN <<full_tuple(gen, 1, GeneratedDepth(v), TRUE)>> ELSE <<>>)]
  BY <1>0, <1>1, <1>5 DEF generate
<1>7. IsConf(z) /\ z.vals = v /\ z.corresponds = gen
  <2>1. OtherFact(z, b, gen, d)
    BY <1>5 DEF OtherFact
  <2> HIDE DEF z, gen, d
  <2> QED
    BY <1>5, <2>1, ConfExcept
<1> HIDE DEF z, d
<1>8. CASE gen = c.corresponds
  <2>1. g.conf = b /\ g.new = <<>>
    BY <1>6, <1>8
  <2> QED
    BY <1>3, <1>4, <1>5, <1>8, <2>1 DEF Current, New
<1>9. CASE gen # c.corresponds
  <2>1. /\ g.conf = z
        /\ g.new = (IF c.corresponds # <<>> THEN <<full_tuple(c.corresponds, -1, b.last_depth, TRUE)>> ELSE <<>>)
                   \o (IF gen # <<>> THEN <<full_tuple(gen, 1, GeneratedDepth(v), TRUE)>> ELSE <<>>)
    BY <1>6, <1>9
  <2>2. New(g.new, c.corresponds, gen)
    BY <1>9, <2>1 DEF New
  <2> QED
    BY <1>3, <1>4, <1>7, <2>1, <2>2 DEF Current
<1> QED
  BY <1>8, <1>9

\* A fact, or the removal of a fact, of a predicate with aggregate g.
Waiting(x, g) ==
  /\ x.dir \in {1, -1} /\ x.agg \in BOOLEAN /\ x.tpl \in Keys \X Int
  /\ IF x.agg THEN g # "none" ELSE x.tpl \in Tuples

\* How often a fact is stored: in the trie, or among the values of its key.
Stored(t) == IF pred.agg = "none" THEN CountOf(facts, t) ELSE CountOf(confs[t[1]].vals, t)

\* The inductive invariant of SettledRight.  The facts that wait take the count of
\* every fact to the number of its holders, and never below zero on the way.  The
\* aggregated fact of a key is always the one of its values, and the facts that
\* wait take the trie to the aggregated facts.
SettledInv ==
  /\ pred \in Preds /\ DOMAIN confs = Keys
  /\ derived \in [Senders -> [Tuples -> Depths \cup {None}]]
  /\ pred.reused => facts = <<>>
  /\ ~pred.reused =>
       /\ Leaves(facts) /\ Plain(facts)
       /\ \E D : Waits(list, D) /\ \A x \in D : Waiting(x, pred.agg)
       /\ \A t \in Tuples : Takes(list, t, FALSE, Stored(t), Holders(t))
       /\ pred.agg # "none" =>
            /\ TuplesOf(facts) \subseteq Keys \X Int
            /\ \A k \in Keys : Current(confs[k], k)
            /\ \A t \in Keys \X Int :
                  Takes(list, t, TRUE, CountOf(facts, t), Due(confs[t[1]].corresponds, t))

\* The aggregate of a predicate does not change.
LEMMA CurrentSame ==
  ASSUME pred' = pred, NEW CONSTANT c, NEW CONSTANT k, Current(c, k)
  PROVE  Current(c, k)'
BY DEF Current, do_generate, generate_first, generate_max, generate_min, generate_sum

\* A key that is left alone.
LEMMA CurrentKept ==
  ASSUME pred' = pred, NEW CONSTANT k, Current(confs[k], k), confs'[k] = confs[k]
  PROVE  Current(confs[k], k)'
<1>1. PICK c : c = confs[k]
  OBVIOUS
<1>2. Current(c, k)'
  BY <1>1, CurrentSame
<1>3. c = confs'[k]
  BY <1>1
<1> QED
  BY <1>2, <1>3

\* The counts of the facts are numbers.
LEMMA StoredType ==
  ASSUME SettledInv, ~pred.reused, NEW t \in Tuples
  PROVE  /\ Stored(t) \in Nat /\ t \in Keys \X Int
         /\ \A u : CountOf(facts, u) \in Nat
<1>1. \A u : CountOf(facts, u) \in Nat
  BY CountIs DEF SettledInv, Leaves
<1>2. t \in Keys \X Int /\ t[1] \in Keys
  BY FactsAssumption DEF Tuples
<1>3. CASE pred.agg = "none"
  BY <1>1, <1>2, <1>3 DEF Stored
<1>4. CASE pred.agg # "none"
  <2>1. Distinct(confs[t[1]].vals)
    BY <1>2, <1>4 DEF SettledInv, Current, Values, Leaves
  <2> QED
    BY <1>1, <1>2, <1>4, <2>1, CountIs DEF Stored
<1> QED
  BY <1>3, <1>4

\* A sender's fact or removal joins the list.
Sends(x) ==
  /\ UNCHANGED <<pred, facts, confs>> /\ list' = Append(list, x)
  /\ derived' \in [Senders -> [Tuples -> Depths \cup {None}]]
  /\ x.dir \in {1, -1} /\ x.agg = FALSE /\ x.tpl \in Tuples
  /\ \A u \in Tuples : Holders(u)' \in Nat /\ Holders(u)' = Holders(u) + IF u = x.tpl THEN x.dir ELSE 0

\* The list takes the count of its fact to the new number of holders.
LEMMA SendStep ==
  ASSUME SettledInv, ~pred.reused, NEW CONSTANT x, Sends(x)
  PROVE  SettledInv'
<1>0. /\ UNCHANGED <<pred, facts, confs>> /\ list' = Append(list, x)
      /\ derived' \in [Senders -> [Tuples -> Depths \cup {None}]]
      /\ x.dir \in {1, -1} /\ x.agg = FALSE /\ x.tpl \in Tuples
      /\ \A u \in Tuples : Holders(u)' \in Nat /\ Holders(u)' = Holders(u) + IF u = x.tpl THEN x.dir ELSE 0
  BY DEF Sends
<1>1. PICK D : Waits(list, D) /\ \A y \in D : Waiting(y, pred.agg)
  BY DEF SettledInv
<1> DEFINE E == D \cup {x}
<1>2. x \in E /\ D \subseteq E /\ \A y \in E : Waiting(y, pred.agg)
  <2>1. x.tpl \in Keys \X Int
    BY <1>0, FactsAssumption DEF Tuples
  <2>2. Waiting(x, pred.agg)
    BY <1>0, <2>1 DEF Waiting
  <2> QED
    BY <1>1, <2>2
<1> HIDE DEF E
<1>3. Waits(list, E)
  BY <1>1, <1>2, SeqMore DEF Waits, Waiting
<1>4. Waits(list', E)
  <2>1. list' \in Seq(E)
    BY <1>0, <1>2, <1>3, AppendProperties DEF Waits
  <2> QED
    BY <1>3, <2>1 DEF Waits
<1>5. ASSUME NEW t \in Tuples PROVE Takes(list', t, FALSE, Stored(t), Holders(t)')
  <2>1. Weight(x, t, FALSE) = IF t = x.tpl THEN x.dir ELSE 0
    BY <1>0 DEF Weight
  <2>2. Holders(t)' \in Nat /\ Holders(t)' = Holders(t) + Weight(x, t, FALSE)
    BY <1>0, <2>1
  <2>3. Takes(list, t, FALSE, Stored(t), Holders(t))
    BY DEF SettledInv
  <2>4. Takes(Append(list, x), t, FALSE, Stored(t), Holders(t) + Weight(x, t, FALSE))
    BY <1>2, <1>3, <2>2, <2>3, TakesAppend
  <2> QED
    BY <1>0, <2>2, <2>4
<1>6. ASSUME NEW t, NEW n, NEW m, Takes(list, t, TRUE, n, m) PROVE Takes(list', t, TRUE, n, m)
  <2>1. Weight(x, t, TRUE) = 0
    BY <1>0 DEF Weight
  <2>2. m \in Nat
    BY <1>3, <1>6, TakesType
  <2>3. m + Weight(x, t, TRUE) = m
    <3>1. m + 0 = m
      BY <2>2
    <3> QED
      BY <2>1, <3>1, Zenon
  <2>4. Takes(Append(list, x), t, TRUE, n, m + Weight(x, t, TRUE))
    BY <1>2, <1>3, <1>6, <2>2, <2>3, TakesAppend
  <2> QED
    BY <1>0, <2>3, <2>4
<1>7. \A t : Stored(t)' = Stored(t)
  BY <1>0 DEF Stored
<1>8. \A t \in Tuples : (Takes(list, t, FALSE, Stored(t), Holders(t)))'
  BY <1>5, <1>7
<1>9. ASSUME pred.agg # "none"
      PROVE  /\ TuplesOf(facts) \subseteq Keys \X Int
             /\ \A k \in Keys : Current(confs[k], k)'
             /\ \A t \in Keys \X Int :
                   Takes(list', t, TRUE, CountOf(facts, t), Due(confs[t[1]].corresponds, t))
  <2>1. \A k \in Keys : Current(confs[k], k)'
    BY <1>0, <1>9, CurrentKept DEF SettledInv
  <2> QED
    BY <1>6, <1>9, <2>1 DEF SettledInv
<1>10. (\E F : Waits(list, F) /\ \A y \in F : Waiting(y, pred.agg))'
  BY <1>0, <1>2, <1>4
<1> QED
  BY <1>0, <1>8, <1>9, <1>10 DEF SettledInv

\* A fact and its removal leave the list.
LEMMA CancelStep ==
  ASSUME SettledInv, ~pred.reused, Cancel
  PROVE  SettledInv'
<1>1. PICK D : Waits(list, D) /\ \A y \in D : Waiting(y, pred.agg)
  BY DEF SettledInv
<1>2. /\ list # <<>> /\ Head(list).dir = 1
      /\ UNCHANGED <<pred, derived, facts, confs>>
  BY DEF Cancel
<1>3. PICK p \in search_for_negative_tuple(Tail(list), Head(list)) : list' = RemoveAt(Tail(list), p)
  BY DEF Cancel
<1>4. ASSUME NEW t, NEW a, NEW n, NEW m, Takes(list, t, a, n, m)
      PROVE  Takes(list', t, a, n, m)
  BY <1>1, <1>2, <1>3, <1>4, TakesCancel
<1>5. Waits(list', D)
  <2>1. Tail(list) \in Seq(D)
    BY <1>1, <1>2, HeadTailProperties DEF Waits
  <2>2. p \in 1 .. Len(Tail(list))
    BY <1>3, <2>1, LenProperties DEF search_for_negative_tuple
  <2> QED
    BY <1>1, <1>3, <2>1, <2>2, SeqRemoveAt DEF Waits
<1>6. \A t : Stored(t)' = Stored(t) /\ Holders(t)' = Holders(t)
  BY <1>2 DEF Stored, Holders
<1>7. \A t \in Tuples : (Takes(list, t, FALSE, Stored(t), Holders(t)))'
  BY <1>4, <1>6 DEF SettledInv
<1>8. ASSUME pred.agg # "none"
      PROVE  /\ TuplesOf(facts) \subseteq Keys \X Int
             /\ \A k \in Keys : Current(confs[k], k)'
             /\ \A t \in Keys \X Int :
                   Takes(list', t, TRUE, CountOf(facts, t), Due(confs[t[1]].corresponds, t))
  <2>1. \A k \in Keys : Current(confs[k], k)'
    BY <1>2, <1>8, CurrentKept DEF SettledInv
  <2> QED
    BY <1>4, <1>8, <2>1 DEF SettledInv
<1>9. (\E F : Waits(list, F) /\ \A y \in F : Waiting(y, pred.agg))'
  BY <1>1, <1>2, <1>5
<1> QED
  BY <1>2, <1>7, <1>8, <1>9 DEF SettledInv

\* The aggregated fact of a key is none, or a fact of the key.
LEMMA CorrespondsIs ==
  ASSUME pred \in Preds, pred.agg # "none", NEW c, NEW k, Current(c, k)
  PROVE  /\ c.vals = <<>> => c.corresponds = <<>>
         /\ c.vals # <<>> => Generated(c.corresponds, c.vals, k) /\ c.corresponds \in {k} \X Int
<1>1. c.vals = <<>> => c.corresponds = <<>>
  BY DEF Current, do_generate
<1>2. ASSUME c.vals # <<>> PROVE Generated(c.corresponds, c.vals, k)
  BY <1>2, GeneratedIs DEF Current
<1> QED
  BY <1>1, <1>2 DEF Generated

\* The first fact of the list.
LEMMA FirstFact ==
  ASSUME SettledInv, ~pred.reused, list # <<>>
  PROVE  /\ Waiting(Head(list), pred.agg)
         /\ \E D : Waits(Tail(list), D) /\ \A y \in D : Waiting(y, pred.agg)
         /\ \A t, a, n, m : Takes(list, t, a, n, m) =>
               /\ n + Weight(Head(list), t, a) \in Nat
               /\ Takes(Tail(list), t, a, n + Weight(Head(list), t, a), m)
<1>1. PICK D : Waits(list, D) /\ \A y \in D : Waiting(y, pred.agg)
  BY DEF SettledInv
<1>2. Head(list) \in D /\ Tail(list) \in Seq(D)
  <2>1. list \in Seq(D)
    BY <1>1 DEF Waits
  <2>2. Len(list) \in Nat /\ Len(list) # 0 /\ \A i \in 1 .. Len(list) : list[i] \in D
    BY <2>1, EmptySeq, LenProperties
  <2> QED
    BY <2>1, <2>2, HeadTailProperties
<1>3. Waits(Tail(list), D)
  BY <1>1, <1>2 DEF Waits
<1>4. ASSUME NEW t, NEW a, NEW n, NEW m, Takes(list, t, a, n, m)
      PROVE  /\ n + Weight(Head(list), t, a) \in Nat
             /\ Takes(Tail(list), t, a, n + Weight(Head(list), t, a), m)
  BY <1>1, <1>4, TakesTail
<1> QED
  BY <1>1, <1>2, <1>3, <1>4

\* A fact is stored or removed.
LEMMA ProcessStep ==
  ASSUME SettledInv, ~pred.reused, ~pred.cyclic, process_persistent_tuple
  PROVE  SettledInv'
<1>1. PICK f : f = Head(list)
  OBVIOUS
<1>2. /\ list # <<>> /\ list' = Tail(list) /\ UNCHANGED <<pred, derived, confs>>
      /\ pred.agg # "none" => f.agg
  BY <1>1 DEF process_persistent_tuple, tuple_for_assertion
<1>3. Waiting(f, pred.agg)
  BY <1>1, <1>2, FirstFact
<1>4. f.agg = (pred.agg # "none") /\ f.dir \in {1, -1} /\ f.tpl \in Keys \X Int /\ (~f.agg => f.tpl \in Tuples)
  BY <1>2, <1>3 DEF Waiting
<1>5. ASSUME NEW t, NEW a, NEW n, NEW m, Takes(list, t, a, n, m)
      PROVE  n + Weight(f, t, a) \in Nat /\ Takes(list', t, a, n + Weight(f, t, a), m)
  BY <1>1, <1>2, <1>5, FirstFact
<1>6. \A t : /\ Weight(f, t, f.agg) = IF t = f.tpl THEN f.dir ELSE 0
             /\ \A a : a # f.agg => Weight(f, t, a) = 0
  BY DEF Weight
<1>7. CountOf(facts, f.tpl) + f.dir \in Nat
  <2>1. CASE pred.agg = "none"
    <3>1. f.agg = FALSE /\ f.tpl \in Tuples
      BY <1>4, <2>1
    <3>2. Takes(list, f.tpl, f.agg, CountOf(facts, f.tpl), Holders(f.tpl))
      BY <2>1, <3>1 DEF SettledInv, Stored
    <3> QED
      BY <1>5, <1>6, <3>2
  <2>2. CASE pred.agg # "none"
    <3>1. f.agg = TRUE
      BY <1>4, <2>2
    <3>2. Takes(list, f.tpl, f.agg, CountOf(facts, f.tpl), Due(confs[f.tpl[1]].corresponds, f.tpl))
      BY <1>4, <2>2, <3>1 DEF SettledInv
    <3> QED
      BY <1>5, <1>6, <3>2
  <2> QED
    BY <2>1, <2>2
<1>8. Processed(facts', facts, f)
  <2>1. Leaves(facts) /\ Plain(facts) /\ pred.cyclic = FALSE
    BY FactsAssumption DEF SettledInv
  <2>2. CASE f.dir = 1
    <3>1. facts' = Inserted(facts, f.tpl, FALSE, depth)
      BY <1>1, <2>1, <2>2 DEF process_persistent_tuple, AssertFact
    <3> QED
      BY <2>1, <2>2, <3>1, ProcessedIs
  <2>3. CASE f.dir = -1
    <3>1. facts' = Kept(Lessened(facts, f.tpl, f.depth))
      BY <1>1, <2>3 DEF process_persistent_tuple, RetractFact
    <3> QED
      BY <1>7, <2>1, <2>3, <3>1, ProcessedIs
  <2> QED
    BY <1>4, <2>2, <2>3
<1>9. /\ Leaves(facts') /\ Plain(facts') /\ TuplesOf(facts') \subseteq TuplesOf(facts) \cup {f.tpl}
      /\ \A t : CountOf(facts', t) = CountOf(facts, t) + Weight(f, t, f.agg)
  BY <1>6, <1>8 DEF Processed
<1>10. ASSUME NEW t \in Tuples PROVE (Takes(list, t, FALSE, Stored(t), Holders(t)))'
  <2>1. Takes(list, t, FALSE, Stored(t), Holders(t)) /\ Holders(t)' = Holders(t)
    BY <1>2 DEF SettledInv, Holders
  <2>2. Takes(list', t, FALSE, Stored(t) + Weight(f, t, FALSE), Holders(t))
    BY <1>5, <2>1
  <2>3. Stored(t)' = Stored(t) + Weight(f, t, FALSE)
    <3>1. CASE pred.agg = "none"
      <4>1. f.agg = FALSE
        BY <1>4, <3>1
      <4> QED
        BY <1>2, <1>9, <3>1, <4>1 DEF Stored
    <3>2. CASE pred.agg # "none"
      <4>1. Weight(f, t, FALSE) = 0
        BY <1>4, <1>6, <3>2
      <4>2. Stored(t)' = Stored(t) /\ Stored(t) \in Nat
        BY <1>2, <3>2, StoredType DEF Stored
      <4>3. Stored(t) + 0 = Stored(t)
        BY <4>2
      <4> QED
        BY <4>1, <4>2, <4>3
    <3> QED
      BY <3>1, <3>2
  <2> QED
    BY <2>1, <2>2, <2>3
<1>11. ASSUME pred.agg # "none"
       PROVE  /\ TuplesOf(facts') \subseteq Keys \X Int
              /\ \A k \in Keys : Current(confs[k], k)'
              /\ \A t \in Keys \X Int :
                    Takes(list', t, TRUE, CountOf(facts', t), Due(confs'[t[1]].corresponds, t))
  <2>1. TuplesOf(facts) \subseteq Keys \X Int /\ f.agg = TRUE
    BY <1>4, <1>11 DEF SettledInv
  <2>2. \A k \in Keys : Current(confs[k], k)'
    BY <1>2, <1>11, CurrentKept DEF SettledInv
  <2>3. ASSUME NEW t \in Keys \X Int
        PROVE  Takes(list', t, TRUE, CountOf(facts', t), Due(confs'[t[1]].corresponds, t))
    <3>1. Takes(list, t, TRUE, CountOf(facts, t), Due(confs[t[1]].corresponds, t))
      BY <1>11 DEF SettledInv
    <3>2. Takes(list', t, TRUE, CountOf(facts, t) + Weight(f, t, TRUE), Due(confs[t[1]].corresponds, t))
      BY <1>5, <3>1
    <3> QED
      BY <1>2, <1>9, <2>1, <3>2
  <2> QED
    BY <1>4, <1>9, <2>1, <2>2, <2>3
<1>12. (\E F : Waits(list, F) /\ \A y \in F : Waiting(y, pred.agg))'
  BY <1>2, FirstFact
<1> QED
  BY <1>2, <1>9, <1>10, <1>11, <1>12 DEF SettledInv

\* A value or its removal is added to its key.
LEMMA AggregateStep ==
  ASSUME SettledInv, ~pred.reused, ~pred.cyclic, add_to_aggregate
  PROVE  SettledInv'
<1>1. PICK f : f = Head(list)
  OBVIOUS
<1>2. list # <<>> /\ UNCHANGED <<pred, derived, facts>> /\ pred.agg # "none" /\ ~f.agg
  BY <1>1 DEF add_to_aggregate, tuple_for_assertion
<1>3. f.agg = FALSE /\ f.dir \in {1, -1} /\ f.tpl \in Tuples
  BY <1>1, <1>2, FirstFact DEF Waiting
<1>4. PICK k, g : /\ k = f.tpl[1] /\ g = generate(add_to_set(confs[k], f))
                  /\ confs' = [confs EXCEPT ![k] = g.conf] /\ list' = Tail(list) \o g.new
  BY <1>1 DEF add_to_aggregate, key
<1>5. PICK c : c = confs[k]
  OBVIOUS
<1>6. k \in Keys /\ f.tpl \in {k} \X Vals /\ Current(c, k) /\ pred \in Preds /\ DOMAIN confs = Keys
  <2>1. k \in Keys /\ f.tpl \in {k} \X Vals
    BY <1>3, <1>4 DEF Tuples
  <2> QED
    BY <1>2, <1>5, <2>1 DEF SettledInv
<1>7. ASSUME NEW t, NEW a, NEW n, NEW m, Takes(list, t, a, n, m)
      PROVE  n + Weight(f, t, a) \in Nat /\ Takes(Tail(list), t, a, n + Weight(f, t, a), m)
  BY <1>1, <1>2, <1>7, FirstFact
<1>8. \A t : /\ Weight(f, t, FALSE) = IF t = f.tpl THEN f.dir ELSE 0
             /\ Weight(f, t, TRUE) = 0
  BY <1>3 DEF Weight
<1>9. CountOf(c.vals, f.tpl) + f.dir \in Nat
  <2>1. Takes(list, f.tpl, FALSE, CountOf(c.vals, f.tpl), Holders(f.tpl))
    BY <1>2, <1>3, <1>4, <1>5 DEF SettledInv, Stored
  <2> QED
    BY <1>7, <1>8, <2>1
<1>10. /\ Current(g.conf, k) /\ New(g.new, c.corresponds, g.conf.corresponds)
       /\ \A u : CountOf(g.conf.vals, u) = CountOf(c.vals, u) + IF u = f.tpl THEN f.dir ELSE 0
  <2>1. g = generate(add_to_set(c, f))
    BY <1>4, <1>5
  <2> QED
    <3>1. Adds(g, c, k, f)
      BY <1>3, <1>6, <1>9, <2>1 DEF Adds
    <3> QED
      BY <3>1, ConfStep
<1>11. PICK old, gen : old = c.corresponds /\ gen = g.conf.corresponds
  OBVIOUS
<1>12. \A u \in {old, gen} : u = <<>> \/ u \in {k} \X Int
  BY <1>2, <1>6, <1>10, <1>11, CorrespondsIs
<1>13. PICK D : Waits(Tail(list), D) /\ \A y \in D : Waiting(y, pred.agg)
  BY <1>2, FirstFact
<1>14. /\ \E E : /\ Waits(list', E)
                 /\ \A x \in E : x \in D \/ (/\ x.agg = TRUE /\ x.dir \in {1, -1}
                                             /\ x.tpl \in {old, gen} /\ x.tpl # <<>>)
       /\ \A t, a, n, m : Takes(Tail(list), t, a, n, m) /\ (a = FALSE \/ t \notin {old, gen}) =>
                            Takes(list', t, a, n, m)
       /\ \A t, n : t # <<>> /\ Takes(Tail(list), t, TRUE, n, Due(old, t)) => Takes(list', t, TRUE, n, Due(gen, t))
  <2>1. New(g.new, old, gen)
    BY <1>10, <1>11
  <2>2. PICK u, w : u = Tail(list) /\ w = g.new
    OBVIOUS
  <2>3. New(w, old, gen) /\ Waits(u, D)
    BY <1>13, <2>1, <2>2
  <2>4. list' = u \o w
    BY <1>4, <2>2
  <2>5. /\ \E E : /\ Waits(u \o w, E)
                  /\ \A x \in E : x \in D \/ (/\ x.agg = TRUE /\ x.dir \in {1, -1}
                                              /\ x.tpl \in {old, gen} /\ x.tpl # <<>>)
        /\ \A t, a, n, m : Takes(u, t, a, n, m) /\ (a = FALSE \/ t \notin {old, gen}) =>
                             Takes(u \o w, t, a, n, m)
        /\ \A t, n : t # <<>> /\ Takes(u, t, TRUE, n, Due(old, t)) => Takes(u \o w, t, TRUE, n, Due(gen, t))
    BY <2>3, TakesNew, Zenon
  <2> QED
    BY <2>2, <2>4, <2>5, Zenon
<1>15. confs'[k] = g.conf /\ \A j \in Keys : j # k => confs'[j] = confs[j]
  BY <1>4, <1>6
<1>16. ASSUME NEW t \in Tuples PROVE (Takes(list, t, FALSE, Stored(t), Holders(t)))'
  <2>1. Takes(list, t, FALSE, Stored(t), Holders(t)) /\ Holders(t)' = Holders(t)
    BY <1>2 DEF SettledInv, Holders
  <2>2. Takes(Tail(list), t, FALSE, Stored(t) + Weight(f, t, FALSE), Holders(t))
    BY <1>7, <2>1
  <2>3. Takes(list', t, FALSE, Stored(t) + Weight(f, t, FALSE), Holders(t))
    BY <1>14, <2>2
  <2>4. Stored(t)' = Stored(t) + Weight(f, t, FALSE)
    <3>1. CASE t[1] = k
      <4>1. Stored(t)' = CountOf(g.conf.vals, t) /\ Stored(t) = CountOf(c.vals, t)
        BY <1>2, <1>5, <1>15, <3>1 DEF Stored
      <4> QED
        BY <1>8, <1>10, <4>1
    <3>2. CASE t[1] # k
      <4>1. t[1] \in Keys
        BY DEF Tuples
      <4>2. Stored(t)' = Stored(t) /\ Stored(t) \in Nat
        BY <1>2, <1>15, <3>2, <4>1, StoredType DEF Stored
      <4>3. Weight(f, t, FALSE) = 0
        BY <1>4, <1>8, <3>2
      <4>4. Stored(t) + 0 = Stored(t)
        BY <4>2
      <4> QED
        BY <4>2, <4>3, <4>4
    <3> QED
      BY <3>1, <3>2
  <2> QED
    BY <2>1, <2>3, <2>4
<1>17. ASSUME NEW t \in Keys \X Int
       PROVE  Takes(list', t, TRUE, CountOf(facts, t), Due(confs'[t[1]].corresponds, t))
  <2>1. Takes(list, t, TRUE, CountOf(facts, t), Due(confs[t[1]].corresponds, t))
    BY <1>2 DEF SettledInv
  <2>2. Takes(Tail(list), t, TRUE, CountOf(facts, t), Due(confs[t[1]].corresponds, t))
    <3>1. CountOf(facts, t) \in Nat
      BY CountIs DEF SettledInv, Leaves
    <3>2. CountOf(facts, t) + 0 = CountOf(facts, t)
      BY <3>1
    <3>3. Takes(Tail(list), t, TRUE, CountOf(facts, t) + Weight(f, t, TRUE), Due(confs[t[1]].corresponds, t))
      BY <1>7, <2>1
    <3> QED
      BY <1>8, <3>2, <3>3
  <2>3. CASE t[1] = k
    <3>1. confs[t[1]].corresponds = old /\ confs'[t[1]].corresponds = gen /\ t # <<>>
      BY <1>5, <1>11, <1>15, <2>3
    <3> QED
      BY <1>14, <2>2, <3>1
  <2>4. CASE t[1] # k
    <3>1. t \notin {old, gen}
      BY <1>12, <2>4
    <3>2. confs'[t[1]] = confs[t[1]]
      BY <1>15, <2>4
    <3> QED
      BY <1>14, <2>2, <3>1, <3>2
  <2> QED
    BY <2>3, <2>4
<1>18. ASSUME NEW j \in Keys PROVE Current(confs[j], j)'
  <2>1. CASE j = k
    <3>1. PICK z : z = g.conf
      OBVIOUS
    <3>2. Current(z, k)'
      BY <1>2, <1>10, <3>1, CurrentSame
    <3>3. z = confs'[j]
      BY <1>15, <2>1, <3>1
    <3> QED
      BY <2>1, <3>2, <3>3
  <2>2. CASE j # k
    BY <1>2, <1>15, <2>2, CurrentKept DEF SettledInv
  <2> QED
    BY <2>1, <2>2
<1>19. (\E F : Waits(list, F) /\ \A y \in F : Waiting(y, pred.agg))'
  <2>1. PICK E : /\ Waits(list', E)
                 /\ \A x \in E : x \in D \/ (/\ x.agg = TRUE /\ x.dir \in {1, -1}
                                             /\ x.tpl \in {old, gen} /\ x.tpl # <<>>)
    BY <1>14
  <2>2. ASSUME NEW x \in E PROVE Waiting(x, pred.agg)
    <3>1. CASE x \in D
      BY <1>13, <3>1
    <3>2. CASE x \notin D
      <4>1. x.agg = TRUE /\ x.dir \in {1, -1} /\ x.tpl \in {k} \X Int
        BY <1>12, <2>1, <3>2
      <4> QED
        BY <1>2, <1>6, <4>1 DEF Waiting
    <3> QED
      BY <3>1, <3>2
  <2> QED
    BY <1>2, <2>1, <2>2
<1>20. DOMAIN confs' = Keys
  BY <1>4, <1>6
<1> QED
  BY <1>2, <1>16, <1>17, <1>18, <1>19, <1>20 DEF SettledInv

\* Every step keeps it, if no predicate takes part in a cycle of rules.
LEMMA SettledStep ==
  ASSUME \A p \in Preds : ~p.cyclic
  PROVE  SettledInv /\ [FactsNext]_factVars => SettledInv'
<1> SUFFICES ASSUME SettledInv, [FactsNext]_factVars PROVE SettledInv'
  OBVIOUS
<1>1. pred \in Preds /\ ~pred.cyclic /\ pred.reused \in BOOLEAN
  BY FactsAssumption DEF SettledInv
<1>2. ASSUME NEW s \in Senders, NEW t \in Tuples, NEW d \in Depths, Derive(s, t, d) PROVE SettledInv'
  <2>1. /\ derived' = [derived EXCEPT ![s][t] = d] /\ derived[s][t] = None
        /\ list' = Append(list, full_tuple(t, 1, d, FALSE)) /\ UNCHANGED <<pred, facts, confs>>
    BY <1>2 DEF Derive
  <2>2. d \in Depths \cup {None} /\ d # None
    BY FactsAssumption DEF None
  <2>3. /\ derived' \in [Senders -> [Tuples -> Depths \cup {None}]]
        /\ \A u \in Tuples : u # t => Holders(u)' = Holders(u)
        /\ \A u \in Tuples : Holders(u) \in Nat
        /\ Holders(t)' = Holders(t) + 1
    BY <2>1, <2>2, HoldersChange DEF SettledInv
  <2>4. CASE pred.reused
    BY <2>1, <2>3, <2>4 DEF SettledInv
  <2>5. CASE ~pred.reused
    <3>1. PICK x : x = full_tuple(t, 1, d, FALSE)
      OBVIOUS
    <3>2. x.dir = 1 /\ x.agg = FALSE /\ x.tpl = t /\ list' = Append(list, x)
      BY <2>1, <3>1 DEF full_tuple
    <3>3. ASSUME NEW u \in Tuples
          PROVE  Holders(u)' \in Nat /\ Holders(u)' = Holders(u) + IF u = x.tpl THEN x.dir ELSE 0
      <4>1. CASE u = t
        BY <2>3, <3>2, <4>1
      <4>2. CASE u # t
        BY <2>3, <3>2, <4>2
      <4> QED
        BY <4>1, <4>2
    <3> QED
      <4>1. Sends(x)
        BY <2>1, <2>3, <3>2, <3>3 DEF Sends
      <4> QED
        BY <2>5, <4>1, SendStep
  <2> QED
    BY <2>4, <2>5
<1>3. ASSUME NEW s \in Senders, NEW t \in Tuples, Retract(s, t) PROVE SettledInv'
  <2>1. /\ derived' = [derived EXCEPT ![s][t] = None] /\ derived[s][t] # None
        /\ list' = Append(list, full_tuple(t, -1, derived[s][t], FALSE)) /\ UNCHANGED <<pred, facts, confs>>
    BY <1>3 DEF Retract
  <2>2. /\ derived' \in [Senders -> [Tuples -> Depths \cup {None}]]
        /\ \A u \in Tuples : u # t => Holders(u)' = Holders(u)
        /\ \A u \in Tuples : Holders(u) \in Nat
        /\ Holders(t)' = Holders(t) - 1
    BY <2>1, HoldersChange DEF SettledInv
  <2>3. CASE pred.reused
    BY <2>1, <2>2, <2>3 DEF SettledInv
  <2>4. CASE ~pred.reused
    <3>1. PICK x : x = full_tuple(t, -1, derived[s][t], FALSE)
      OBVIOUS
    <3>2. x.dir = -1 /\ x.agg = FALSE /\ x.tpl = t /\ list' = Append(list, x)
      BY <2>1, <3>1 DEF full_tuple
    <3>3. Holders(t)' \in Nat
      <4>1. IsFiniteSet({r \in Senders : derived'[r][t] # None})
        BY FactsAssumption, FS_Subset
      <4> QED
        BY <4>1, FS_CardinalityType DEF Holders
    <3>4. ASSUME NEW u \in Tuples
          PROVE  Holders(u)' \in Nat /\ Holders(u)' = Holders(u) + IF u = x.tpl THEN x.dir ELSE 0
      <4>1. CASE u = t
        BY <2>2, <3>2, <3>3, <4>1
      <4>2. CASE u # t
        BY <2>2, <3>2, <4>2
      <4> QED
        BY <4>1, <4>2
    <3> QED
      <4>1. Sends(x)
        BY <2>1, <2>2, <3>2, <3>4 DEF Sends
      <4> QED
        BY <2>4, <4>1, SendStep
  <2> QED
    BY <2>3, <2>4
<1>4. ASSUME Cancel PROVE SettledInv'
  BY <1>4, CancelStep DEF Cancel
<1>5. ASSUME process_persistent_tuple PROVE SettledInv'
  <2>1. CASE pred.reused
    <3>1. UNCHANGED <<pred, derived, confs>> /\ facts' = facts
      BY <1>5, <2>1 DEF process_persistent_tuple, AssertFact, RetractReused
    <3> QED
      BY <2>1, <3>1 DEF SettledInv
  <2> QED
    BY <1>1, <1>5, <2>1, ProcessStep
<1>6. ASSUME add_to_aggregate PROVE SettledInv'
  <2>1. CASE pred.reused
    <3>1. UNCHANGED <<pred, derived, facts>> /\ DOMAIN confs' = DOMAIN confs
      BY <1>6 DEF add_to_aggregate
    <3> QED
      BY <2>1, <3>1 DEF SettledInv
  <2> QED
    BY <1>1, <1>6, <2>1, AggregateStep
<1>7. ASSUME UNCHANGED factVars PROVE SettledInv'
  <2>1. UNCHANGED <<pred, derived, list, facts, confs>>
    BY <1>7 DEF factVars
  <2>2. \A t : Stored(t)' = Stored(t) /\ Holders(t)' = Holders(t)
    BY <2>1 DEF Stored, Holders
  <2>3. ~pred.reused /\ pred.agg # "none" => \A k \in Keys : Current(confs[k], k)'
    BY <2>1, CurrentKept DEF SettledInv
  <2> QED
    BY <2>1, <2>2, <2>3 DEF SettledInv
<1> QED
  BY <1>2, <1>3, <1>4, <1>5, <1>6, <1>7 DEF FactsNext

\* When nothing waits, the values of a key are the ones that somebody holds.
LEMMA HeldIs ==
  ASSUME SettledInv, ~pred.reused, pred.agg # "none", list = <<>>, NEW k \in Keys
  PROVE  /\ TuplesOf(confs[k].vals) = HeldBy(k)
         /\ \A t \in HeldBy(k) : CountOf(confs[k].vals, t) = Holders(t)
<1>1. Leaves(confs[k].vals) /\ Distinct(confs[k].vals) /\ TuplesOf(confs[k].vals) \subseteq {k} \X Vals
  BY DEF SettledInv, Current, Values, Leaves
<1>2. ASSUME NEW t \in Tuples, t[1] = k PROVE CountOf(confs[k].vals, t) = Holders(t)
  <2>1. Takes(<<>>, t, FALSE, Stored(t), Holders(t)) /\ Stored(t) = CountOf(confs[k].vals, t)
    BY <1>2 DEF SettledInv, Stored
  <2> QED
    BY <2>1, TakesNothing
<1>3. ASSUME NEW t PROVE t \in TuplesOf(confs[k].vals) <=> (CountOf(confs[k].vals, t) > 0)
  <2>1. CASE t \in TuplesOf(confs[k].vals)
    <3>1. PICK l \in ToSet(confs[k].vals) : l.tpl = t
      BY <2>1 DEF TuplesOf
    <3>2. CountOf(confs[k].vals, t) = l.count /\ l.count \in Nat /\ l.count # 0
      BY <1>1, <3>1, CountIs DEF Leaves, Distinct, Leaf
    <3> QED
      BY <2>1, <3>2
  <2>2. CASE t \notin TuplesOf(confs[k].vals)
    BY <1>1, <2>2, CountIs
  <2> QED
    BY <2>1, <2>2
<1>4. \A t \in {k} \X Vals : t \in Tuples /\ t[1] = k
  BY DEF Tuples
<1>5. \A t : t \in HeldBy(k) <=> (t \in Tuples /\ t[1] = k /\ Holders(t) > 0)
  BY DEF HeldBy, key
<1>6. TuplesOf(confs[k].vals) = HeldBy(k)
  BY <1>1, <1>2, <1>3, <1>4, <1>5
<1> QED
  BY <1>2, <1>5, <1>6

\* When nothing waits, the trie has the aggregated facts.
LEMMA SettledAggregate ==
  ASSUME SettledInv, ~pred.reused, pred.agg # "none", list = <<>>
  PROVE  /\ \A i \in DOMAIN facts : facts[i].count = 1
         /\ \A k \in Keys : LET mine == {i \in DOMAIN facts : key(facts[i].tpl) = k}
                            IN  /\ Cardinality(mine) = IF HeldBy(k) = {} THEN 0 ELSE 1
                                /\ \A i \in mine : IsAggregate(facts[i].tpl, k)
<1>1. Leaves(facts) /\ Distinct(facts) /\ Once(facts) /\ facts \in Seq(ToSet(facts)) /\ TuplesOf(facts) \subseteq Keys \X Int
  BY DEF SettledInv, Leaves, Distinct
<1>2. ASSUME NEW t \in Keys \X Int PROVE CountOf(facts, t) = Due(confs[t[1]].corresponds, t)
  <2>1. Takes(<<>>, t, TRUE, CountOf(facts, t), Due(confs[t[1]].corresponds, t))
    BY DEF SettledInv
  <2> QED
    BY <2>1, TakesNothing
<1>3. ASSUME NEW i \in DOMAIN facts
      PROVE  /\ facts[i].tpl \in Keys \X Int /\ facts[i].count = 1
             /\ confs[facts[i].tpl[1]].corresponds = facts[i].tpl
  <2>1. PICK l \in ToSet(facts) : l = facts[i]
    BY <1>1, LeafFact
  <2>2. l.tpl \in Keys \X Int /\ l.count # 0 /\ CountOf(facts, l.tpl) = l.count
    BY <1>1, CountIs DEF Leaves, TuplesOf
  <2>3. l.count = Due(confs[l.tpl[1]].corresponds, l.tpl)
    BY <1>2, <2>2
  <2>4. l.count = 1 /\ confs[l.tpl[1]].corresponds = l.tpl
    BY <2>2, <2>3 DEF Due
  <2> QED
    BY <2>1, <2>2, <2>4
<1>4. ASSUME NEW k \in Keys
      PROVE  LET mine == {i \in DOMAIN facts : key(facts[i].tpl) = k}
             IN  /\ Cardinality(mine) = IF HeldBy(k) = {} THEN 0 ELSE 1
                 /\ \A i \in mine : IsAggregate(facts[i].tpl, k)
  <2> DEFINE mine == {i \in DOMAIN facts : key(facts[i].tpl) = k}
             c == confs[k]
  <2>1. \A i \in mine : i \in DOMAIN facts /\ c.corresponds = facts[i].tpl /\ facts[i].tpl \in Keys \X Int
    BY <1>3 DEF key
  <2>2. Current(c, k) /\ pred \in Preds
    BY DEF SettledInv
  <2>3. TuplesOf(c.vals) = HeldBy(k) /\ \A t \in HeldBy(k) : CountOf(c.vals, t) = Holders(t)
    BY HeldIs
  <2>4. c.vals \in Seq(ToSet(c.vals))
    BY <2>2 DEF Current, Values, Leaves, Distinct
  <2>5. HeldBy(k) = {} <=> c.vals = <<>>
    <3>1. c.vals = <<>> => TuplesOf(c.vals) = {}
      BY NoLeaves
    <3>2. TuplesOf(c.vals) = {} => ToSet(c.vals) = {}
      BY DEF TuplesOf
    <3>3. ToSet(c.vals) = {} => c.vals = <<>>
      BY <2>4, SeqSet
    <3> QED
      BY <2>3, <3>1, <3>2, <3>3
  <2>6. CASE HeldBy(k) = {}
    <3>1. c.corresponds = <<>>
      BY <2>2, <2>5, <2>6, CorrespondsIs
    <3>2. \A t \in Keys \X Int : t # <<>>
      OBVIOUS
    <3>3. mine = {}
      BY <2>1, <3>1, <3>2
    <3>4. Cardinality({}) = 0
      BY FS_EmptySet
    <3> QED
      BY <2>6, <3>3, <3>4
  <2>7. CASE HeldBy(k) # {}
    <3>1. Generated(c.corresponds, c.vals, k) /\ c.corresponds \in {k} \X Int
      BY <2>2, <2>5, <2>7, CorrespondsIs
    <3>2. PICK t : t = c.corresponds
      OBVIOUS
    <3>3. t \in Keys \X Int /\ t[1] = k
      BY <3>1, <3>2
    <3>4. CountOf(facts, t) = 1
      BY <1>2, <3>2, <3>3 DEF Due
    <3>5. t \in TuplesOf(facts)
      BY <1>1, <3>4, CountIs
    <3>6. PICK j \in DOMAIN facts : facts[j].tpl = t
      BY <1>1, <3>5, LeafFact DEF TuplesOf
    <3>7. mine = {j}
      <4>1. j \in mine
        BY <3>3, <3>6 DEF key
      <4>2. ASSUME NEW i \in mine PROVE i = j
        <5>1. facts[i].tpl = facts[j].tpl /\ i \in DOMAIN facts
          BY <2>1, <3>2, <3>6
        <5>2. facts[i] \in ToSet(facts) /\ facts[j] \in ToSet(facts)
          BY <1>1, <5>1, LeafFact
        <5>3. facts[i] = facts[j]
          BY <1>1, <5>1, <5>2 DEF Distinct
        <5> QED
          BY <1>1, <5>1, <5>3 DEF Once
      <4> HIDE DEF mine
      <4> QED
        BY <4>1, <4>2
    <3>8. Cardinality({j}) = 1
      BY FS_Singleton
    <3>9. IsAggregate(t, k)
      <4>1. pred.agg \in {"first", "max", "min", "sum"}
        BY <2>2, FactsAssumption
      <4>2. [u \in HeldBy(k) |-> CountOf(c.vals, u) * u[2]] = [u \in HeldBy(k) |-> Holders(u) * u[2]]
        BY <2>3
      <4>3. CASE pred.agg = "first"
        BY <2>3, <3>1, <3>2, <4>3 DEF IsAggregate, Generated
      <4>4. CASE pred.agg = "max"
        BY <2>3, <3>1, <3>2, <4>4 DEF IsAggregate, Generated
      <4>5. CASE pred.agg = "min"
        BY <2>3, <3>1, <3>2, <4>5 DEF IsAggregate, Generated
      <4>6. CASE pred.agg = "sum"
        <5>1. t = <<k, SumFunctionOnSet([u \in HeldBy(k) |-> CountOf(c.vals, u) * u[2]], HeldBy(k))>>
          BY <2>3, <3>1, <3>2, <4>6 DEF Generated
        <5> QED
          BY <4>2, <4>6, <5>1 DEF IsAggregate
      <4> QED
        BY <4>1, <4>3, <4>4, <4>5, <4>6
    <3> QED
      BY <2>7, <3>6, <3>7, <3>8, <3>9
  <2> QED
    BY <2>6, <2>7
<1> QED
  BY <1>3, <1>4

\* For any senders, facts and bounds, and every aggregate: when nothing waits, the
\* database is what the derivations that senders hold make it, whatever was derived,
\* retracted and cancelled on the way.  Cycle predicates are left out: the code
\* stores their facts with the depth of another one.
THEOREM SettledFacts ==
  ASSUME \A p \in Preds : ~p.cyclic
  PROVE  FactsSpec => []SettledRight
<1>1. FactsInit => SettledInv
  <2> SUFFICES ASSUME FactsInit PROVE SettledInv
    OBVIOUS
  <2>1. /\ pred \in Preds /\ list = <<>> /\ facts = <<>> /\ confs = [k \in Keys |-> NoConf]
        /\ derived = [s \in Senders |-> [t \in Tuples |-> None]]
    BY DEF FactsInit
  <2>2. derived \in [Senders -> [Tuples -> Depths \cup {None}]] /\ DOMAIN confs = Keys
    BY <2>1
  <2>3. Leaves(facts) /\ TuplesOf(facts) = {} /\ Plain(facts)
    BY <2>1, NoLeaves
  <2>4. \A t : CountOf(<<>>, t) = 0
    BY NoLeaves, CountIs DEF Leaves
  <2>5. \A k \in Keys : confs[k] = NoConf
    BY <2>1
  <2>6. IsConf(NoConf) /\ NoConf.vals = <<>> /\ NoConf.corresponds = <<>>
    BY DEF IsConf, NoConf
  <2>7. \A k : Current(NoConf, k)
    <3>1. \A k : Values(<<>>, k)
      BY NoLeaves DEF Values
    <3>2. do_generate(<<>>) = <<>>
      BY DEF do_generate
    <3> QED
      BY <2>6, <3>1, <3>2 DEF Current
  <2>8. \A t \in Tuples : Holders(t) = 0
    <3> SUFFICES ASSUME NEW t \in Tuples PROVE Holders(t) = 0
      OBVIOUS
    <3>1. {s \in Senders : derived[s][t] # None} = {}
      BY <2>1
    <3> QED
      BY <3>1, FS_EmptySet DEF Holders
  <2>9. \A t \in Tuples : Stored(t) = 0
    <3> SUFFICES ASSUME NEW t \in Tuples PROVE Stored(t) = 0
      OBVIOUS
    <3>1. confs[t[1]].vals = <<>>
      BY <2>5, <2>6 DEF Tuples
    <3> QED
      BY <2>1, <2>4, <3>1 DEF Stored
  <2>10. \A t \in Keys \X Int : CountOf(facts, t) = 0 /\ Due(confs[t[1]].corresponds, t) = 0
    <3> SUFFICES ASSUME NEW t \in Keys \X Int PROVE CountOf(facts, t) = 0 /\ Due(confs[t[1]].corresponds, t) = 0
      OBVIOUS
    <3>1. confs[t[1]].corresponds = <<>> /\ t # <<>>
      BY <2>5, <2>6
    <3> QED
      BY <2>1, <2>4, <3>1 DEF Due
  <2>11. \A t, a : Takes(list, t, a, 0, 0)
    BY <2>1, TakesNothing
  <2>12. Waits(list, {})
    BY <2>1 DEF Waits
  <2> QED
    BY <2>1, <2>2, <2>3, <2>5, <2>7, <2>8, <2>9, <2>10, <2>11, <2>12 DEF SettledInv
<1>2. SettledInv => SettledRight
  <2> SUFFICES ASSUME SettledInv, list = <<>> PROVE SettledRight
    BY DEF SettledRight
  <2>1. pred.reused \in BOOLEAN
    BY FactsAssumption DEF SettledInv
  <2>2. CASE pred.reused
    BY <2>2 DEF SettledInv, SettledRight
  <2>3. CASE ~pred.reused /\ pred.agg = "none"
    <3>1. ASSUME NEW t \in Tuples PROVE CountOf(facts, t) = Holders(t)
      <4>1. Takes(<<>>, t, FALSE, CountOf(facts, t), Holders(t))
        BY <2>3 DEF SettledInv, Stored
      <4> QED
        BY <4>1, TakesNothing
    <3> QED
      BY <2>3, <3>1 DEF SettledRight
  <2>4. CASE ~pred.reused /\ pred.agg # "none"
    BY <2>4, SettledAggregate DEF SettledRight
  <2> QED
    BY <2>1, <2>2, <2>3, <2>4
<1> QED
  BY <1>1, <1>2, SettledStep, PTL DEF FactsSpec

=============================================================================
