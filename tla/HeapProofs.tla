------------------------------ MODULE HeapProofs ------------------------------
(***************************************************************************)
(* Proofs about the priority queues of a thread, for any number of nodes   *)
(* and any priorities, in both orders.                                     *)
(*                                                                         *)
(* A sift is a loop.  While heapifyup is at index i, all nodes but the one *)
(* at i are in order with their parents, and the children of i with the    *)
(* parent of i; while heapifydown is, all nodes but the children of i are. *)
(* When the loop has ended the heap is in order.  The loops are functions  *)
(* of the number of turns: what holds before a turn and is kept by it      *)
(* holds after any number, because a smallest number of turns after which  *)
(* it does not hold would follow one after which it does.                  *)
(*                                                                         *)
(* The inductive invariant of the two queues is HeapsInv: each vector is a *)
(* heap, whose nodes know their indices, of the nodes marked with its      *)
(* queue.                                                                  *)
(***************************************************************************)
EXTENDS ComplexPqueue, FiniteSetTheorems, SequenceTheorems, TLAPS

-----------------------------------------------------------------------------
(* Loops: B does one turn, and the states the loop can be in are X. *)

\* A set of natural numbers has a smallest member.
LEMMA Smallest ==
  ASSUME NEW T, T \subseteq Nat, T # {}
  PROVE  \E x \in T : \A y \in T : x <= y
<1>1. PICK x \in T : \A y \in T : ~(<<y, x>> \in OpToRel(<, Nat))
  BY NatLessThanWellFounded, WFMin
<1>2. \A y \in T : ~(y < x)
  BY <1>1 DEF OpToRel
<1> QED
  BY <1>2

\* F is the sequence of states of the loop that begins in x.
Runs(F, B, x, n) == F[0] = x /\ \A k \in 1 .. n : F[k] = B[F[k - 1]]

\* A loop can be run for any number of turns.
LEMMA LoopRuns ==
  ASSUME NEW X, NEW B \in [X -> X], NEW x \in X
  PROVE  \A n \in Nat : \E F \in [0 .. n -> X] : Runs(F, B, x, n)
<1> DEFINE Good(n) == \E F \in [0 .. n -> X] : Runs(F, B, x, n)
           Bad == {n \in Nat : ~Good(n)}
<1> SUFFICES ASSUME Bad # {} PROVE FALSE
  OBVIOUS
<1>1. Bad \subseteq Nat
  OBVIOUS
<1>2. PICK n \in Bad : \A m \in Bad : n <= m
  <2> HIDE DEF Bad
  <2> QED
    BY <1>1, Smallest
<1>3. n \in Nat /\ ~Good(n)
  BY <1>2
<1>4. CASE n = 0
  <2>1. [k \in 0 .. 0 |-> x] \in [0 .. 0 -> X] /\ Runs([k \in 0 .. 0 |-> x], B, x, 0)
    BY DEF Runs
  <2> QED
    BY <1>3, <1>4, <2>1
<1>5. CASE n # 0
  <2>1. n - 1 \in Nat /\ n - 1 \notin Bad
    <3> HIDE DEF Bad
    <3> QED
      BY <1>1, <1>2, <1>5
  <2>2. PICK F \in [0 .. n - 1 -> X] : Runs(F, B, x, n - 1)
    BY <2>1
  <2> DEFINE G == [k \in 0 .. n |-> IF k < n THEN F[k] ELSE B[F[n - 1]]]
  <2>3. F[n - 1] \in X /\ B[F[n - 1]] \in X
    BY <2>1, <2>2
  <2>4. G \in [0 .. n -> X]
    BY <1>3, <2>2, <2>3
  <2>5. \A k \in 0 .. n - 1 : G[k] = F[k]
    BY <1>3
  <2>6. G[n] = B[F[n - 1]]
    BY <1>3
  <2> HIDE DEF G
  <2>7. G[0] = x
    BY <2>1, <2>2, <2>5 DEF Runs
  <2>8. ASSUME NEW k \in 1 .. n PROVE G[k] = B[G[k - 1]]
    <3>1. CASE k = n
      BY <1>3, <2>1, <2>5, <2>6, <3>1
    <3>2. CASE k # n
      <4>1. k \in 1 .. n - 1 /\ k \in 0 .. n - 1 /\ k - 1 \in 0 .. n - 1
        BY <1>3, <2>8, <3>2
      <4> QED
        BY <2>2, <2>5, <4>1 DEF Runs
    <3> QED
      BY <3>1, <3>2
  <2>9. Runs(G, B, x, n)
    BY <2>7, <2>8 DEF Runs
  <2> QED
    BY <1>3, <2>4, <2>9
<1> QED
  BY <1>4, <1>5

\* G begins as F does and goes on as F does.
Follows(F, G, n) == F[0] = G[0] /\ \A k \in 1 .. n : F[k - 1] = G[k - 1] => F[k] = G[k]

\* What follows a run is the run.
LEMMA RunsAgree ==
  ASSUME NEW n \in Nat, NEW F, NEW G, Follows(F, G, n)
  PROVE  \A k \in 0 .. n : F[k] = G[k]
<1> USE DEF Follows
<1> DEFINE Bad == {k \in 0 .. n : F[k] # G[k]}
<1> SUFFICES ASSUME Bad # {} PROVE FALSE
  OBVIOUS
<1>1. Bad \subseteq Nat
  OBVIOUS
<1>2. PICK k \in Bad : \A m \in Bad : k <= m
  <2> HIDE DEF Bad
  <2> QED
    BY <1>1, Smallest
<1>3. k \in 1 .. n /\ k - 1 \in 0 .. n
  BY <1>2
<1>4. k - 1 \notin Bad
  <2> HIDE DEF Bad
  <2> QED
    BY <1>2, <1>3
<1> QED
  BY <1>2, <1>3, <1>4

\* The measure mu of a loop goes down in every turn that changes something.
Descends(B, X, mu) ==
  /\ mu \in [X -> Int] /\ \A L \in X : 0 <= mu[L]
  /\ \A L \in X : B[L] = L \/ mu[B[L]] < mu[L]

\* A loop whose measure goes down in every turn that changes something has ended
\* after as many turns.
LEMMA LoopEnds ==
  ASSUME NEW X, NEW B \in [X -> X], NEW x \in X, NEW n \in Nat,
         NEW F \in [0 .. n -> X], Runs(F, B, x, n),
         NEW mu, Descends(B, X, mu), mu[x] <= n
  PROVE  B[F[n]] = F[n]
<1> USE DEF Descends
<1> DEFINE Bad == {k \in 0 .. n : B[F[k]] # F[k] /\ mu[F[k]] > n - k}
<1>1. Bad = {}
  <2> SUFFICES ASSUME Bad # {} PROVE FALSE
    OBVIOUS
  <2>1. Bad \subseteq Nat
    OBVIOUS
  <2>2. PICK k \in Bad : \A m \in Bad : k <= m
    <3> HIDE DEF Bad
    <3> QED
      BY <2>1, Smallest
  <2>3. k \in 0 .. n /\ B[F[k]] # F[k] /\ mu[F[k]] > n - k
    BY <2>2
  <2>4. k # 0
    BY <2>3 DEF Runs
  <2>5. k - 1 \notin Bad
    <3> HIDE DEF Bad
    <3> QED
      BY <2>1, <2>2, <2>3, <2>4
  <2>6. k - 1 \in 0 .. n /\ k \in 1 .. n /\ F[k - 1] \in X /\ F[k] \in X /\ F[k] = B[F[k - 1]]
    BY <2>3, <2>4 DEF Runs
  <2> DEFINE a == mu[F[k - 1]]
             b == mu[F[k]]
  <2>7. a \in Int /\ b \in Int
    BY <2>6
  <2>8. B[F[k - 1]] # F[k - 1]
    BY <2>3, <2>6
  <2>9. b < a
    BY <2>6, <2>8
  <2>10. ~(a > n - (k - 1))
    BY <2>5, <2>6, <2>8
  <2> HIDE DEF a, b
  <2>11. b > n - k
    BY <2>3 DEF b
  <2> QED
    BY <2>3, <2>7, <2>9, <2>10, <2>11
<1>2. n \in 0 .. n /\ F[n] \in X
  OBVIOUS
<1>3. CASE B[F[n]] = F[n]
  BY <1>3
<1>4. CASE B[F[n]] # F[n]
  <2>1. mu[B[F[n]]] < mu[F[n]] /\ 0 <= mu[B[F[n]]] /\ mu[B[F[n]]] \in Int /\ mu[F[n]] \in Int
    BY <1>2, <1>4
  <2>2. ~(mu[F[n]] > n - n)
    BY <1>1, <1>2, <1>4
  <2> QED
    BY <2>1, <2>2
<1> QED
  BY <1>3, <1>4

-----------------------------------------------------------------------------
(* The order of the keys of a heap of m nodes *)

\* The parent of an index.
LEMMA ParentFact ==
  ASSUME NEW i \in Nat, i # 0
  PROVE  /\ Parent(i) \in Nat /\ Parent(i) < i
         /\ i = 2 * Parent(i) + 1 \/ i = 2 * Parent(i) + 2
  BY DEF Parent

\* The children of an index.
LEMMA ChildFact ==
  ASSUME NEW i \in Nat
  PROVE  Parent(2 * i + 1) = i /\ Parent(2 * i + 2) = i
  BY DEF Parent

\* Compare is a total order on the priorities.
LEMMA CompareFact ==
  /\ \A a \in Int : Compare(a, a)
  /\ \A a, b \in Int : Compare(a, b) \/ Compare(b, a)
  /\ \A a, b, c \in Int : Compare(a, b) /\ Compare(b, c) => Compare(a, c)
  BY DEF Compare

\* No node is better than its parent.
InOrder(K, m) == \A j \in 1 .. m - 1 : Compare(K[Parent(j)], K[j])

\* The children of i are in order with the parent of i.
Across(K, m, i) ==
  i > 0 => \A j \in 1 .. m - 1 : Parent(j) = i => Compare(K[Parent(i)], K[j])

\* The order while the node at i goes up, and while it goes down.
UpOrder(K, m, i) ==
  Across(K, m, i) /\ \A j \in 1 .. m - 1 : j # i => Compare(K[Parent(j)], K[j])
DownOrder(K, m, i) ==
  Across(K, m, i) /\ \A j \in 1 .. m - 1 : Parent(j) # i => Compare(K[Parent(j)], K[j])

\* J is K with the keys at i and k exchanged.
Swapped(K, J, m, i, k) ==
  J[i] = K[k] /\ J[k] = K[i] /\ \A j \in 0 .. m - 1 : j # i /\ j # k => J[j] = K[j]

\* The parents of the indices of a heap are indices of it.
LEMMA ParentIn ==
  ASSUME NEW m \in Nat, NEW j \in 1 .. m - 1
  PROVE  Parent(j) \in 0 .. m - 1 /\ Parent(j) # j
  BY ParentFact

\* A turn of heapifyup keeps the order of its loop.
LEMMA UpKeeps ==
  ASSUME NEW m \in Nat, NEW K \in [0 .. m - 1 -> Int], NEW J \in [0 .. m - 1 -> Int],
         NEW i \in 1 .. m - 1, UpOrder(K, m, i), ~Compare(K[Parent(i)], K[i]),
         Swapped(K, J, m, i, Parent(i))
  PROVE  UpOrder(J, m, Parent(i))
<1> DEFINE p == Parent(i)
<1>1. p \in 0 .. m - 1 /\ p < i /\ p \in Nat
  BY ParentFact
<1>2. K[p] \in Int /\ K[i] \in Int /\ Compare(K[i], K[p])
  BY <1>1, CompareFact
<1>3. ASSUME NEW j \in 1 .. m - 1, j # p PROVE Compare(J[Parent(j)], J[j])
  <2>1. Parent(j) \in 0 .. m - 1 /\ Parent(j) # j /\ K[Parent(j)] \in Int /\ K[j] \in Int
    BY ParentIn
  <2>2. CASE j = i
    BY <1>2, <2>2 DEF Swapped
  <2>3. CASE j # i /\ Parent(j) = p
    <3>1. Compare(K[p], K[j]) /\ J[j] = K[j] /\ J[p] = K[i]
      BY <1>3, <2>3 DEF UpOrder, Swapped
    <3> QED
      BY <1>2, <2>1, <2>3, <3>1, CompareFact
  <2>4. CASE j # i /\ Parent(j) = i
    <3>1. Compare(K[p], K[j]) /\ J[j] = K[j] /\ J[i] = K[p]
      BY <1>1, <1>3, <2>4 DEF UpOrder, Across, Swapped
    <3> QED
      BY <2>4, <3>1
  <2>5. CASE j # i /\ Parent(j) # p /\ Parent(j) # i
    BY <1>3, <2>1, <2>5 DEF UpOrder, Swapped
  <2> QED
    BY <2>2, <2>3, <2>4, <2>5
<1>4. Across(J, m, p)
  <2> SUFFICES ASSUME p > 0, NEW j \in 1 .. m - 1, Parent(j) = p
               PROVE  Compare(J[Parent(p)], J[j])
    BY DEF Across
  <2>1. p \in 1 .. m - 1 /\ Parent(p) \in 0 .. m - 1 /\ Parent(p) < p /\ p # i
    <3> HIDE DEF p
    <3>1. p # 0 /\ p \in Nat
      BY <1>1
    <3>2. Parent(p) \in Nat /\ Parent(p) < p
      BY <3>1, ParentFact
    <3> QED
      BY <1>1, <3>1, <3>2
  <2>2. Compare(K[Parent(p)], K[p]) /\ J[Parent(p)] = K[Parent(p)] /\ K[Parent(p)] \in Int
    <3> HIDE DEF p
    <3>1. p # i => Compare(K[Parent(p)], K[p])
      BY <2>1 DEF UpOrder
    <3>2. Parent(p) # i /\ Parent(p) # p
      BY <1>1, <2>1
    <3>3. J[Parent(p)] = K[Parent(p)]
      BY <2>1, <3>2 DEF Swapped, p
    <3> QED
      BY <2>1, <3>1, <3>3
  <2>3. CASE j = i
    BY <2>2, <2>3 DEF Swapped
  <2>4. CASE j # i
    <3>1. j # p
      BY <2>1, ParentIn
    <3>2. Compare(K[p], K[j]) /\ J[j] = K[j] /\ K[j] \in Int
      BY <2>4, <3>1 DEF UpOrder, Swapped
    <3> QED
      BY <1>2, <2>2, <3>2, CompareFact
  <2> QED
    BY <2>3, <2>4
<1> QED
  BY <1>3, <1>4 DEF UpOrder

\* A turn of heapifydown keeps the order of its loop: c is the better child of i,
\* and better than i.
LEMMA DownKeeps ==
  ASSUME NEW m \in Nat, NEW K \in [0 .. m - 1 -> Int], NEW J \in [0 .. m - 1 -> Int],
         NEW i \in 0 .. m - 1, NEW c \in 1 .. m - 1, Parent(c) = i,
         DownOrder(K, m, i), Compare(K[c], K[i]),
         \A j \in 1 .. m - 1 : Parent(j) = i => Compare(K[c], K[j]),
         Swapped(K, J, m, i, c)
  PROVE  DownOrder(J, m, c)
<1>1. c # i /\ K[i] \in Int /\ K[c] \in Int /\ J[i] = K[c] /\ J[c] = K[i] /\ c \in 0 .. m - 1
  BY ParentIn DEF Swapped
<1>2. ASSUME NEW j \in 1 .. m - 1, Parent(j) # c PROVE Compare(J[Parent(j)], J[j])
  <2>1. Parent(j) \in 0 .. m - 1 /\ Parent(j) # j /\ K[Parent(j)] \in Int /\ K[j] \in Int
    BY ParentIn
  <2>2. CASE j = c
    BY <1>1, <2>2
  <2>3. CASE j # c /\ Parent(j) = i
    <3>1. J[j] = K[j]
      BY <2>1, <2>3 DEF Swapped
    <3> QED
      BY <1>1, <2>3, <3>1
  <2>4. CASE j = i
    <3>1. Compare(K[Parent(i)], K[c]) /\ J[Parent(i)] = K[Parent(i)]
      BY <1>2, <2>1, <2>4 DEF DownOrder, Across, Swapped
    <3> QED
      BY <1>1, <2>4, <3>1
  <2>5. CASE j # c /\ j # i /\ Parent(j) # i
    <3>1. Compare(K[Parent(j)], K[j])
      BY <2>5 DEF DownOrder
    <3>2. J[j] = K[j] /\ J[Parent(j)] = K[Parent(j)]
      BY <1>2, <2>1, <2>5 DEF Swapped
    <3> QED
      BY <3>1, <3>2
  <2> QED
    BY <2>2, <2>3, <2>4, <2>5
<1>3. Across(J, m, c)
  <2> SUFFICES ASSUME NEW j \in 1 .. m - 1, Parent(j) = c
               PROVE  Compare(J[i], J[j])
    BY DEF Across
  <2>1. Parent(j) # i /\ j # c /\ j # i
    <3>1. j \in Nat /\ j # 0 /\ c \in Nat /\ c # 0
      OBVIOUS
    <3>2. Parent(j) < j /\ Parent(c) < c
      BY <3>1, ParentFact
    <3> QED
      BY <1>1, <3>1, <3>2
  <2>2. Compare(K[Parent(j)], K[j])
    BY <2>1 DEF DownOrder
  <2>3. J[j] = K[j]
    BY <2>1 DEF Swapped
  <2> QED
    BY <1>1, <2>2, <2>3
<1> QED
  BY <1>2, <1>3 DEF DownOrder

\* The first node of a heap in order is a best one.
LEMMA FirstIsBest ==
  ASSUME NEW m \in Nat, NEW K \in [0 .. m - 1 -> Int], InOrder(K, m)
  PROVE  \A j \in 0 .. m - 1 : Compare(K[0], K[j])
<1> DEFINE Bad == {j \in 0 .. m - 1 : ~Compare(K[0], K[j])}
<1> SUFFICES ASSUME Bad # {} PROVE FALSE
  OBVIOUS
<1>1. Bad \subseteq Nat
  OBVIOUS
<1>2. PICK j \in Bad : \A k \in Bad : j <= k
  <2> HIDE DEF Bad
  <2> QED
    BY <1>1, Smallest
<1>3. j \in 0 .. m - 1 /\ 0 \in 0 .. m - 1
  BY <1>2
<1>4. j # 0
  BY <1>2, <1>3, CompareFact
<1>5. j \in 1 .. m - 1 /\ Parent(j) \in 0 .. m - 1 /\ Parent(j) < j
  BY <1>3, <1>4, ParentFact
<1>6. Parent(j) \notin Bad
  <2> HIDE DEF Bad
  <2> QED
    BY <1>2, <1>5
<1>7. Compare(K[0], K[Parent(j)]) /\ Compare(K[Parent(j)], K[j])
  BY <1>5, <1>6 DEF InOrder
<1> QED
  BY <1>2, <1>3, <1>5, <1>7, CompareFact

-----------------------------------------------------------------------------
(* The vector of a heap and the indices stored in its nodes *)

Vecs == [v : Seq(Nodes), pos : [Nodes -> Int]]

\* Every node in the vector knows its index.
Indexed(S) == S \in Vecs /\ \A i \in 0 .. Size(S) - 1 : S.pos[Obj(S, i)] = i

Members(S) == {Obj(S, i) : i \in 0 .. Size(S) - 1}
Keys(S, pr) == [i \in 0 .. Size(S) - 1 |-> pr[Obj(S, i)]]

\* T has the nodes of S in some order, and nothing else was changed.
Permuted(S, T) ==
  /\ Indexed(T) /\ Size(T) = Size(S) /\ Members(T) = Members(S)
  /\ \A n \in Nodes \ Members(S) : T.pos[n] = S.pos[n]

\* The sorts of the parts of a vector.
LEMMA VecFact ==
  ASSUME NEW S \in Vecs
  PROVE  /\ Size(S) \in Nat /\ S.v \in Seq(Nodes) /\ Len(S.v) = Size(S)
         /\ S.v \in [1 .. Size(S) -> Nodes] /\ S.pos \in [Nodes -> Int]
         /\ \A i \in 0 .. Size(S) - 1 : Obj(S, i) \in Nodes
<1>1. S.v \in Seq(Nodes) /\ S.pos \in [Nodes -> Int] /\ Size(S) = Len(S.v)
  BY DEF Vecs, Size
<1>2. Len(S.v) \in Nat /\ S.v \in [1 .. Len(S.v) -> Nodes]
  BY <1>1, LenProperties
<1>3. \A i \in 0 .. Size(S) - 1 : i + 1 \in 1 .. Len(S.v)
  BY <1>1, <1>2
<1> QED
  BY <1>1, <1>2, <1>3 DEF Obj

\* A permutation of a permutation is one.
LEMMA PermutedTrans ==
  ASSUME NEW S, NEW T, NEW U, Permuted(S, T), Permuted(T, U)
  PROVE  Permuted(S, U)
  BY DEF Permuted

\* A function that is a sequence of nodes.
LEMMA IsVec ==
  ASSUME NEW m \in Nat, NEW f \in [1 .. m -> Nodes], NEW q \in [Nodes -> Int]
  PROVE  [v |-> f, pos |-> q] \in Vecs /\ Size([v |-> f, pos |-> q]) = m
<1>1. f \in Seq(Nodes) /\ Len(f) = m
  OBVIOUS
<1> QED
  BY <1>1 DEF Vecs, Size

\* HEAP_SET_INDEX writes the vector and the index of the node.
LEMMA SetIndexIs ==
  ASSUME NEW S \in Vecs, NEW i \in 0 .. Size(S) - 1, NEW n \in Nodes, NEW T, T = SetIndex(S, i, n)
  PROVE  /\ T \in Vecs /\ Size(T) = Size(S)
         /\ \A k \in 0 .. Size(S) - 1 : Obj(T, k) = IF k = i THEN n ELSE Obj(S, k)
         /\ T.pos = [S.pos EXCEPT ![n] = i]
<1> DEFINE f == [S.v EXCEPT ![i + 1] = n]
           q == [S.pos EXCEPT ![n] = i]
<1>1. Size(S) \in Nat /\ S.v \in [1 .. Size(S) -> Nodes] /\ S.pos \in [Nodes -> Int]
  BY VecFact
<1>2. f \in [1 .. Size(S) -> Nodes] /\ q \in [Nodes -> Int]
  BY <1>1
<1>3. T = [v |-> f, pos |-> q]
  BY DEF SetIndex
<1>4. \A k \in 0 .. Size(S) - 1 : f[k + 1] = IF k = i THEN n ELSE S.v[k + 1]
  BY <1>1
<1> HIDE DEF f
<1>5. T \in Vecs /\ Size(T) = Size(S)
  <2> DEFINE m == Size(S)
  <2>1. m \in Nat /\ f \in [1 .. m -> Nodes] /\ q \in [Nodes -> Int]
    BY <1>1, <1>2
  <2> HIDE DEF q, m
  <2>2. [v |-> f, pos |-> q] \in Vecs /\ Size([v |-> f, pos |-> q]) = m
    BY <2>1, IsVec
  <2> QED
    BY <1>3, <2>2 DEF m
<1> QED
  BY <1>3, <1>4, <1>5 DEF Obj

\* The nodes of a vector are told apart by their indices.
LEMMA Distinct ==
  ASSUME NEW S, Indexed(S), NEW i \in 0 .. Size(S) - 1, NEW k \in 0 .. Size(S) - 1, i # k
  PROVE  Obj(S, i) # Obj(S, k)
  BY DEF Indexed

\* Two nodes change places.
LEMMA ExchangeIs ==
  ASSUME NEW S, Indexed(S), NEW i \in 0 .. Size(S) - 1, NEW k \in 0 .. Size(S) - 1, i # k,
         NEW T, T = Exchange(S, i, k)
  PROVE  /\ Permuted(S, T)
         /\ \A j \in 0 .. Size(S) - 1 :
              Obj(T, j) = IF j = i THEN Obj(S, k) ELSE IF j = k THEN Obj(S, i) ELSE Obj(S, j)
<1> DEFINE a == Obj(S, i)
           b == Obj(S, k)
           R == SetIndex(S, i, b)
           m == Size(S)
<1>1. S \in Vecs /\ m \in Nat /\ a \in Nodes /\ b \in Nodes /\ S.pos \in [Nodes -> Int]
      /\ \A j \in 0 .. m - 1 : Obj(S, j) \in Nodes /\ S.pos[Obj(S, j)] = j
  BY VecFact DEF Indexed
<1>2. a # b
  BY Distinct
<1>3. T = SetIndex(R, k, a)
  BY DEF Exchange
<1> HIDE DEF a, b, R
<1>4. /\ R \in Vecs /\ Size(R) = m /\ R.pos = [S.pos EXCEPT ![b] = i]
      /\ \A j \in 0 .. m - 1 : Obj(R, j) = IF j = i THEN b ELSE Obj(S, j)
  BY <1>1, SetIndexIs DEF R
<1>5. /\ T \in Vecs /\ Size(T) = m /\ T.pos = [R.pos EXCEPT ![a] = k]
      /\ \A j \in 0 .. m - 1 : Obj(T, j) = IF j = k THEN a ELSE Obj(R, j)
  <2>1. k \in 0 .. Size(R) - 1 /\ R \in Vecs /\ a \in Nodes
    BY <1>1, <1>4
  <2>2. /\ T \in Vecs /\ Size(T) = Size(R) /\ T.pos = [R.pos EXCEPT ![a] = k]
        /\ \A j \in 0 .. Size(R) - 1 : Obj(T, j) = IF j = k THEN a ELSE Obj(R, j)
    BY <1>3, <2>1, SetIndexIs
  <2> QED
    BY <1>4, <2>2
<1> HIDE DEF m
<1>6. i \in 0 .. m - 1 /\ k \in 0 .. m - 1 /\ a = Obj(S, i) /\ b = Obj(S, k)
  BY DEF a, b, m
<1>7. \A j \in 0 .. m - 1 : Obj(T, j) = IF j = i THEN b ELSE IF j = k THEN a ELSE Obj(S, j)
  BY <1>4, <1>5, <1>6
<1>8. \A n \in Nodes : T.pos[n] = IF n = a THEN k ELSE IF n = b THEN i ELSE S.pos[n]
  BY <1>1, <1>2, <1>4, <1>5
<1>9. \A j \in 0 .. m - 1 : T.pos[Obj(T, j)] = j
  <2> SUFFICES ASSUME NEW j \in 0 .. m - 1 PROVE T.pos[Obj(T, j)] = j
    OBVIOUS
  <2>1. CASE j = i
    BY <1>1, <1>2, <1>7, <1>8, <2>1
  <2>2. CASE j = k
    BY <1>1, <1>6, <1>7, <1>8, <2>2
  <2>3. CASE j # i /\ j # k
    <3>1. Obj(T, j) = Obj(S, j) /\ Obj(S, j) # a /\ Obj(S, j) # b
      BY <1>1, <1>6, <1>7, <2>3
    <3> QED
      BY <1>1, <1>8, <3>1
  <2> QED
    BY <2>1, <2>2, <2>3
<1>10. Members(T) = Members(S)
  <2>1. \A j \in 0 .. m - 1 : \E l \in 0 .. m - 1 : Obj(T, j) = Obj(S, l)
    BY <1>6, <1>7
  <2>2. \A j \in 0 .. m - 1 : \E l \in 0 .. m - 1 : Obj(S, j) = Obj(T, l)
    BY <1>6, <1>7
  <2> QED
    BY <1>5, <2>1, <2>2 DEF Members, m
<1>11. \A n \in Nodes \ Members(S) : n # a /\ n # b
  BY <1>6 DEF Members, m
<1> QED
  BY <1>5, <1>7, <1>8, <1>9, <1>10, <1>11 DEF Permuted, Indexed, m, a, b

-----------------------------------------------------------------------------
(* heapifyup and heapifydown *)

\* The first node is a best one.
Best(S, pr) == \A n \in Members(S) : Compare(pr[Obj(S, 0)], pr[n])

\* The keys of a vector.
LEMMA KeysFact ==
  ASSUME NEW S, Indexed(S), NEW pr \in [Nodes -> Int]
  PROVE  /\ Size(S) \in Nat /\ Keys(S, pr) \in [0 .. Size(S) - 1 -> Int]
         /\ \A j \in 0 .. Size(S) - 1 :
              Keys(S, pr)[j] = pr[Obj(S, j)] /\ Obj(S, j) \in Members(S) /\ Obj(S, j) \in Nodes
  BY VecFact DEF Indexed, Keys, Members

\* T is S with two nodes exchanged.
Exchanged(S, T, m, i, k) ==
  /\ Indexed(S) /\ m = Size(S) /\ T = Exchange(S, i, k)
  /\ i \in 0 .. m - 1 /\ k \in 0 .. m - 1 /\ i # k

\* The keys after an exchange.
LEMMA KeysSwapped ==
  ASSUME NEW S, NEW T, NEW m, NEW i, NEW k, Exchanged(S, T, m, i, k), NEW pr \in [Nodes -> Int]
  PROVE  /\ Permuted(S, T) /\ Keys(T, pr) \in [0 .. m - 1 -> Int]
         /\ Swapped(Keys(S, pr), Keys(T, pr), m, i, k)
         /\ 0 # i /\ 0 # k => Obj(T, 0) = Obj(S, 0)
<1>0. Indexed(S) /\ m = Size(S) /\ m \in Nat /\ i \in 0 .. m - 1 /\ k \in 0 .. m - 1
  BY VecFact DEF Exchanged, Indexed
<1>1. /\ Permuted(S, T)
      /\ \A j \in 0 .. m - 1 :
           Obj(T, j) = IF j = i THEN Obj(S, k) ELSE IF j = k THEN Obj(S, i) ELSE Obj(S, j)
  BY <1>0, ExchangeIs DEF Exchanged
<1>2. Indexed(T) /\ Size(T) = m
  BY <1>0, <1>1 DEF Permuted
<1>3. /\ Keys(T, pr) \in [0 .. m - 1 -> Int]
      /\ \A j \in 0 .. m - 1 : Keys(T, pr)[j] = pr[Obj(T, j)] /\ Keys(S, pr)[j] = pr[Obj(S, j)]
  BY <1>0, <1>2, KeysFact
<1>4. Swapped(Keys(S, pr), Keys(T, pr), m, i, k)
  BY <1>0, <1>1, <1>3 DEF Swapped
<1>5. 0 \in 0 .. m - 1
  BY <1>0
<1> QED
  BY <1>1, <1>3, <1>4, <1>5

\* The states of the loop of heapifyup that begins with vector S.
UpStates(S, pr) ==
  {L \in [S : Vecs, i : 0 .. Size(S) - 1] :
     /\ Permuted(S, L.S) /\ UpOrder(Keys(L.S, pr), Size(S), L.i)
     /\ Best(S, pr) => Obj(L.S, 0) = Obj(S, 0)}

\* A turn of heapifyup stays in these states; it ends with the heap in order or
\* goes up.
LEMMA UpTurnIn ==
  ASSUME NEW S, Indexed(S), NEW pr \in [Nodes -> Int], NEW L \in UpStates(S, pr),
         NEW M, M = UpTurn(L, pr)
  PROVE  /\ M \in UpStates(S, pr)
         /\ M # L => M.i < L.i
         /\ M = L => InOrder(Keys(L.S, pr), Size(S))
<1> DEFINE m == Size(S)
           i == L.i
           p == Parent(L.i)
           V == L.S
           K == Keys(L.S, pr)
           T == Exchange(L.S, L.i, Parent(L.i))
<1>1. /\ L = [S |-> V, i |-> i] /\ V \in Vecs /\ i \in 0 .. m - 1
      /\ Permuted(S, V) /\ UpOrder(K, m, i) /\ (Best(S, pr) => Obj(V, 0) = Obj(S, 0))
  BY DEF UpStates
<1>2. Indexed(V) /\ Size(V) = m /\ Members(V) = Members(S)
  BY <1>1 DEF Permuted
<1>3. /\ m \in Nat /\ K \in [0 .. m - 1 -> Int]
      /\ \A j \in 0 .. m - 1 : K[j] = pr[Obj(V, j)] /\ Obj(V, j) \in Members(S)
  BY <1>2, KeysFact
<1>4. M = IF i > 0 /\ ~Compare(pr[Obj(V, p)], pr[Obj(V, i)]) THEN [S |-> T, i |-> p] ELSE L
  BY DEF UpTurn
<1> HIDE DEF m, i, V, K
<1>5. i > 0 => i \in 1 .. m - 1 /\ p \in 0 .. m - 1 /\ p < i /\ p \in Nat
  <2> SUFFICES ASSUME i > 0 PROVE i \in 1 .. m - 1 /\ p \in 0 .. m - 1 /\ p < i /\ p \in Nat
    OBVIOUS
  <2>1. i \in Nat /\ i # 0 /\ p = Parent(i)
    BY <1>1 DEF i
  <2>2. p \in Nat /\ p < i
    BY <2>1, ParentFact
  <2> QED
    BY <1>1, <1>3, <2>2
<1>6. p = Parent(i) /\ T = Exchange(V, i, p) /\ K = Keys(V, pr)
  BY DEF i, V, K
<1> HIDE DEF p, T
<1>7. CASE i > 0 /\ ~Compare(K[p], K[i])
  <2>1. M = [S |-> T, i |-> p] /\ i \in 0 .. m - 1 /\ i # p
    BY <1>1, <1>3, <1>4, <1>5, <1>7
  <2> DEFINE J == Keys(T, pr)
  <2>2. /\ Permuted(V, T) /\ J \in [0 .. m - 1 -> Int] /\ Swapped(K, J, m, i, p)
        /\ 0 # i /\ 0 # p => Obj(T, 0) = Obj(V, 0)
    <3>1. Exchanged(V, T, m, i, p)
      BY <1>2, <1>3, <1>5, <1>6, <1>7, <2>1 DEF Exchanged
    <3>2. /\ Permuted(V, T) /\ Keys(T, pr) \in [0 .. m - 1 -> Int]
          /\ Swapped(Keys(V, pr), Keys(T, pr), m, i, p)
          /\ 0 # i /\ 0 # p => Obj(T, 0) = Obj(V, 0)
      BY <3>1, KeysSwapped
    <3> QED
      BY <1>6, <3>2
  <2> HIDE DEF J
  <2>3. UpOrder(J, m, p)
    BY <1>1, <1>3, <1>5, <1>6, <1>7, <2>2, UpKeeps
  <2>4. Permuted(S, T) /\ T \in Vecs
    BY <1>1, <2>2, PermutedTrans DEF Permuted, Indexed
  <2>5. Best(S, pr) => Obj(T, 0) = Obj(S, 0)
    <3>1. Best(S, pr) => Compare(K[0], K[i])
      BY <1>1, <1>3, <1>5, <1>7 DEF Best
    <3> QED
      BY <1>1, <1>7, <2>2, <3>1
  <2>6. M \in UpStates(S, pr)
    BY <1>5, <1>7, <2>1, <2>3, <2>4, <2>5 DEF UpStates, J, m
  <2> QED
    BY <1>1, <1>5, <1>7, <2>1, <2>6 DEF i
<1>8. CASE ~(i > 0 /\ ~Compare(K[p], K[i]))
  <2>1. M = L
    BY <1>1, <1>3, <1>4, <1>5, <1>8
  <2>2. \A j \in 1 .. m - 1 : j = i => Compare(K[Parent(j)], K[j])
    BY <1>6, <1>8
  <2>3. InOrder(K, m)
    BY <1>1, <2>2 DEF InOrder, UpOrder
  <2> QED
    BY <2>1, <2>3 DEF K, V, m
<1> QED
  BY <1>7, <1>8

\* heapifyup puts a heap in order in which only the node at i may be too low.
LEMMA HeapifyUpIs ==
  ASSUME NEW S, Indexed(S), NEW pr \in [Nodes -> Int], NEW i \in 0 .. Size(S) - 1,
         UpOrder(Keys(S, pr), Size(S), i), NEW T, T = HeapifyUp(S, pr, i)
  PROVE  /\ Permuted(S, T) /\ InOrder(Keys(T, pr), Size(S))
         /\ Best(S, pr) => Obj(T, 0) = Obj(S, 0)
<1> DEFINE X == UpStates(S, pr)
           B == [L \in X |-> UpTurn(L, pr)]
           x == [S |-> S, i |-> i]
           mu == [L \in X |-> L.i]
           Turns(F) == F = [k \in 0 .. i |-> IF k = 0 THEN x ELSE UpTurn(F[k - 1], pr)]
           G == CHOOSE F : Turns(F)
<1>1. T = G[i].S
  BY DEF HeapifyUp
<1>2. Size(S) \in Nat /\ i \in Nat
  BY VecFact DEF Indexed
<1>3. x \in X
  BY DEF UpStates, Permuted, Indexed
<1>4. B \in [X -> X] /\ \A L \in X : B[L] = UpTurn(L, pr)
  <2>1. \A L \in X : UpTurn(L, pr) \in X
    BY UpTurnIn
  <2> HIDE DEF X
  <2> QED
    BY <2>1
<1>5. Descends(B, X, mu) /\ mu[x] <= i
  <2>1. \A L \in X : L.i \in 0 .. Size(S) - 1
    BY DEF UpStates
  <2>2. \A L \in X : UpTurn(L, pr) = L \/ UpTurn(L, pr).i < L.i
    BY UpTurnIn
  <2>3. x.i = i
    OBVIOUS
  <2> HIDE DEF X, x
  <2>4. mu \in [X -> Int] /\ \A L \in X : mu[L] = L.i
    BY <1>2, <2>1
  <2>5. \A L \in X : 0 <= mu[L]
    BY <1>2, <2>1, <2>4
  <2> HIDE DEF mu, B
  <2>6. \A L \in X : B[L] = L \/ mu[B[L]] < mu[L]
    <3> SUFFICES ASSUME NEW L \in X PROVE B[L] = L \/ mu[B[L]] < mu[L]
      OBVIOUS
    <3>1. B[L] \in X /\ B[L] = UpTurn(L, pr)
      BY <1>4
    <3>2. mu[B[L]] = B[L].i /\ mu[L] = L.i
      BY <2>4, <3>1
    <3> QED
      BY <2>2, <3>1, <3>2
  <2> QED
    BY <1>2, <1>3, <2>3, <2>4, <2>5, <2>6 DEF Descends
<1> HIDE DEF X, B, x, mu
<1>6. PICK F \in [0 .. i -> X] : Runs(F, B, x, i)
  BY <1>2, <1>3, <1>4, LoopRuns
<1>7. B[F[i]] = F[i]
  BY <1>2, <1>3, <1>4, <1>5, <1>6, LoopEnds
<1>8. \A k \in 1 .. i : F[k - 1] \in X /\ F[k] = UpTurn(F[k - 1], pr)
  <2> SUFFICES ASSUME NEW k \in 1 .. i PROVE F[k - 1] \in X /\ F[k] = UpTurn(F[k - 1], pr)
    OBVIOUS
  <2>1. F[k - 1] \in X
    BY <1>2, <1>6
  <2> QED
    BY <1>4, <1>6, <2>1 DEF Runs
<1>9. Turns(F)
  <2>1. F = [k \in 0 .. i |-> F[k]]
    BY <1>6
  <2>2. \A k \in 0 .. i : F[k] = IF k = 0 THEN x ELSE UpTurn(F[k - 1], pr)
    BY <1>2, <1>6, <1>8 DEF Runs
  <2> QED
    BY <2>1, <2>2
<1>10. Turns(G)
  BY <1>9
<1>11. G[0] = x /\ \A k \in 1 .. i : G[k] = UpTurn(G[k - 1], pr)
  <2> HIDE DEF G
  <2>1. \A k \in 0 .. i : G[k] = IF k = 0 THEN x ELSE UpTurn(G[k - 1], pr)
    BY <1>10, Zenon
  <2> QED
    BY <1>2, <2>1
<1> HIDE DEF G
<1>12. \A k \in 0 .. i : F[k] = G[k]
  <2>1. F[0] = G[0]
    BY <1>6, <1>11 DEF Runs
  <2>2. Follows(F, G, i)
    BY <1>8, <1>11, <2>1 DEF Follows
  <2> QED
    BY <1>2, <2>2, RunsAgree
<1>13. G[i] = F[i] /\ F[i] \in X /\ UpTurn(F[i], pr) = F[i]
  BY <1>2, <1>4, <1>6, <1>7, <1>12
<1>14. InOrder(Keys(F[i].S, pr), Size(S))
  BY <1>13, UpTurnIn DEF X
<1>15. Permuted(S, F[i].S) /\ (Best(S, pr) => Obj(F[i].S, 0) = Obj(S, 0))
  BY <1>13 DEF X, UpStates
<1> QED
  BY <1>1, <1>13, <1>14, <1>15

\* c is the child that heapifydown exchanges with the node at i.
GoesUp(S, m, pr, i, c) ==
  Indexed(S) /\ m = Size(S) /\ i \in 0 .. m - 1 /\ c = SmallerChild(S, pr, i)

\* The child that goes up is better than its parent and its sibling; when there is
\* none, the children are in order.
LEMMA SmallerChildIs ==
  ASSUME NEW S, NEW m, NEW pr \in [Nodes -> Int], NEW i, NEW c, GoesUp(S, m, pr, i, c),
         NEW K, K = Keys(S, pr)
  PROVE  \/ c < 0 /\ \A j \in 1 .. m - 1 : Parent(j) = i => Compare(K[i], K[j])
         \/ /\ c \in 1 .. m - 1 /\ c > i /\ Parent(c) = i /\ Compare(K[c], K[i])
            /\ \A j \in 1 .. m - 1 : Parent(j) = i => Compare(K[c], K[j])
<1> DEFINE l == Left(S, i)
           r == Right(S, i)
<1>0. Indexed(S) /\ m = Size(S) /\ m \in Nat /\ i \in 0 .. m - 1 /\ i \in Nat
  BY VecFact DEF GoesUp, Indexed
<1>1. /\ K \in [0 .. m - 1 -> Int] /\ \A j \in 0 .. m - 1 : K[j] = pr[Obj(S, j)]
  BY <1>0, KeysFact
<1>2. /\ l = (IF 2 * i + 1 < m THEN 2 * i + 1 ELSE -1)
      /\ r = (IF 2 * i + 2 < m THEN 2 * i + 2 ELSE -1)
  BY <1>0 DEF Left, Right
<1>3. \A j \in 1 .. m - 1 : Parent(j) = i => j = l \/ j = r
  <2> SUFFICES ASSUME NEW j \in 1 .. m - 1, Parent(j) = i PROVE j = l \/ j = r
    OBVIOUS
  <2>1. j = 2 * i + 1 \/ j = 2 * i + 2
    <3>1. j \in Nat /\ j # 0
      BY <1>0
    <3> QED
      BY <3>1, ParentFact
  <2> QED
    BY <1>0, <1>2, <2>1
<1>4. c = IF l < 0 \/ (Compare(pr[Obj(S, i)], pr[Obj(S, l)])
                        /\ (r < 0 \/ Compare(pr[Obj(S, i)], pr[Obj(S, r)]))) THEN -1
          ELSE IF r >= 0 /\ Compare(pr[Obj(S, r)], pr[Obj(S, l)]) THEN r ELSE l
  BY DEF GoesUp, SmallerChild
<1>5. /\ l \in Int /\ r \in Int
      /\ l >= 0 => l \in 1 .. m - 1 /\ l > i /\ Parent(l) = i
      /\ r >= 0 => r \in 1 .. m - 1 /\ r > i /\ Parent(r) = i /\ l >= 0
  BY <1>0, <1>2, ChildFact
<1> HIDE DEF l, r
<1>6. CASE l < 0
  BY <1>0, <1>3, <1>4, <1>5, <1>6
<1>7. CASE l >= 0 /\ r < 0
  <2>1. c = IF Compare(K[i], K[l]) THEN -1 ELSE l
    BY <1>0, <1>1, <1>4, <1>5, <1>7
  <2>2. K[i] \in Int /\ K[l] \in Int /\ \A j \in 1 .. m - 1 : Parent(j) = i => j = l
    BY <1>0, <1>1, <1>3, <1>5, <1>7
  <2> QED
    BY <1>5, <1>7, <2>1, <2>2, CompareFact
<1>8. CASE l >= 0 /\ r >= 0
  <2>1. c = IF Compare(K[i], K[l]) /\ Compare(K[i], K[r]) THEN -1
            ELSE IF Compare(K[r], K[l]) THEN r ELSE l
    BY <1>0, <1>1, <1>4, <1>5, <1>8
  <2>2. K[i] \in Int /\ K[l] \in Int /\ K[r] \in Int
    BY <1>0, <1>1, <1>5, <1>8
  <2>3. CASE Compare(K[i], K[l]) /\ Compare(K[i], K[r])
    BY <1>3, <2>1, <2>3
  <2>4. CASE ~(Compare(K[i], K[l]) /\ Compare(K[i], K[r])) /\ Compare(K[r], K[l])
    <3>1. c = r /\ Compare(K[r], K[i]) /\ Compare(K[r], K[r])
      BY <2>1, <2>2, <2>4, CompareFact
    <3> QED
      BY <1>3, <1>5, <1>8, <2>4, <3>1
  <2>5. CASE ~(Compare(K[i], K[l]) /\ Compare(K[i], K[r])) /\ ~Compare(K[r], K[l])
    <3>1. c = l /\ Compare(K[l], K[r]) /\ Compare(K[l], K[i]) /\ Compare(K[l], K[l])
      BY <2>1, <2>2, <2>5, CompareFact
    <3> QED
      BY <1>3, <1>5, <1>8, <3>1
  <2> QED
    BY <2>3, <2>4, <2>5
<1> QED
  BY <1>5, <1>6, <1>7, <1>8

\* The states of the loop of heapifydown that begins with vector S at index i.
DownStates(S, pr, i) ==
  {L \in [S : Vecs, i : 0 .. Size(S) - 1] :
     /\ Permuted(S, L.S) /\ DownOrder(Keys(L.S, pr), Size(S), L.i)
     /\ i # 0 => L.i # 0 /\ Obj(L.S, 0) = Obj(S, 0)}

\* A turn of heapifydown stays in these states; it ends with the heap in order or
\* goes down.
LEMMA DownTurnIn ==
  ASSUME NEW S, Indexed(S), NEW pr \in [Nodes -> Int], NEW i0, NEW L \in DownStates(S, pr, i0),
         NEW M, M = DownTurn(L, pr)
  PROVE  /\ M \in DownStates(S, pr, i0)
         /\ M # L => M.i > L.i
         /\ M = L => InOrder(Keys(L.S, pr), Size(S))
<1> DEFINE m == Size(S)
           i == L.i
           V == L.S
           K == Keys(L.S, pr)
           c == SmallerChild(L.S, pr, L.i)
           T == Exchange(L.S, L.i, c)
<1>1. /\ L = [S |-> V, i |-> i] /\ V \in Vecs /\ i \in 0 .. m - 1
      /\ Permuted(S, V) /\ DownOrder(K, m, i) /\ (i0 # 0 => i # 0 /\ Obj(V, 0) = Obj(S, 0))
  BY DEF DownStates
<1>2. Indexed(V) /\ Size(V) = m /\ Members(V) = Members(S)
  BY <1>1 DEF Permuted
<1>3. m \in Nat /\ K \in [0 .. m - 1 -> Int]
  BY <1>2, KeysFact
<1>4. M = IF c < 0 THEN L ELSE [S |-> T, i |-> c]
  BY DEF DownTurn
<1>5. c = SmallerChild(V, pr, i) /\ T = Exchange(V, i, c) /\ K = Keys(V, pr)
  OBVIOUS
<1> HIDE DEF m, i, V, K, c, T
<1>6. \/ c < 0 /\ \A j \in 1 .. m - 1 : Parent(j) = i => Compare(K[i], K[j])
      \/ /\ c \in 1 .. m - 1 /\ c > i /\ Parent(c) = i /\ Compare(K[c], K[i])
         /\ \A j \in 1 .. m - 1 : Parent(j) = i => Compare(K[c], K[j])
  <2>1. GoesUp(V, m, pr, i, c)
    BY <1>1, <1>2, <1>5 DEF GoesUp
  <2> QED
    BY <1>5, <2>1, SmallerChildIs
<1>7. CASE c < 0
  <2>1. M = L /\ \A j \in 1 .. m - 1 : Parent(j) = i => Compare(K[i], K[j])
    BY <1>3, <1>4, <1>6, <1>7
  <2>2. InOrder(K, m)
    BY <1>1, <2>1 DEF InOrder, DownOrder
  <2> QED
    BY <2>1, <2>2 DEF K, V, m
<1>8. CASE ~(c < 0)
  <2>1. /\ M = [S |-> T, i |-> c] /\ c \in 1 .. m - 1 /\ c > i /\ Parent(c) = i
        /\ Compare(K[c], K[i]) /\ \A j \in 1 .. m - 1 : Parent(j) = i => Compare(K[c], K[j])
    BY <1>4, <1>6, <1>8
  <2> DEFINE J == Keys(T, pr)
  <2>2. /\ Permuted(V, T) /\ J \in [0 .. m - 1 -> Int] /\ Swapped(K, J, m, i, c)
        /\ 0 # i /\ 0 # c => Obj(T, 0) = Obj(V, 0)
    <3>1. Exchanged(V, T, m, i, c)
      BY <1>1, <1>2, <1>3, <1>5, <2>1 DEF Exchanged
    <3>2. /\ Permuted(V, T) /\ Keys(T, pr) \in [0 .. m - 1 -> Int]
          /\ Swapped(Keys(V, pr), Keys(T, pr), m, i, c)
          /\ 0 # i /\ 0 # c => Obj(T, 0) = Obj(V, 0)
      BY <3>1, KeysSwapped
    <3> QED
      BY <1>5, <3>2
  <2> HIDE DEF J
  <2>3. DownOrder(J, m, c)
    BY <1>1, <1>3, <2>1, <2>2, DownKeeps
  <2>4. Permuted(S, T) /\ T \in Vecs
    BY <1>1, <2>2, PermutedTrans DEF Permuted, Indexed
  <2>5. i0 # 0 => c # 0 /\ Obj(T, 0) = Obj(S, 0)
    BY <1>1, <2>1, <2>2
  <2>6. M \in DownStates(S, pr, i0)
    BY <1>3, <2>1, <2>3, <2>4, <2>5 DEF DownStates, J, m
  <2> QED
    BY <1>1, <2>1, <2>6 DEF i
<1> QED
  BY <1>7, <1>8

\* heapifydown puts a heap in order in which only the node at i may be too high.
LEMMA HeapifyDownIs ==
  ASSUME NEW S, Indexed(S), NEW pr \in [Nodes -> Int], NEW i \in 0 .. Size(S) - 1,
         DownOrder(Keys(S, pr), Size(S), i), NEW T, T = HeapifyDown(S, pr, i)
  PROVE  /\ Permuted(S, T) /\ InOrder(Keys(T, pr), Size(S))
         /\ i # 0 => Obj(T, 0) = Obj(S, 0)
<1> DEFINE X == DownStates(S, pr, i)
           B == [L \in X |-> DownTurn(L, pr)]
           x == [S |-> S, i |-> i]
           n == Size(S)
           mu == [L \in X |-> Size(S) - L.i]
           Turns(F) == F = [k \in 0 .. n |-> IF k = 0 THEN x ELSE DownTurn(F[k - 1], pr)]
           G == CHOOSE F : Turns(F)
<1>1. T = G[n].S
  BY DEF HeapifyDown
<1>2. n \in Nat /\ i \in Nat
  BY VecFact DEF Indexed
<1>3. x \in X
  BY DEF DownStates, Permuted, Indexed
<1>4. B \in [X -> X] /\ \A L \in X : B[L] = DownTurn(L, pr)
  <2>1. \A L \in X : DownTurn(L, pr) \in X
    BY DownTurnIn
  <2> HIDE DEF X
  <2> QED
    BY <2>1
<1>5. Descends(B, X, mu) /\ mu[x] <= n
  <2>1. \A L \in X : L.i \in 0 .. n - 1
    BY DEF DownStates
  <2>2. \A L \in X : DownTurn(L, pr) = L \/ DownTurn(L, pr).i > L.i
    BY DownTurnIn
  <2>3. x.i = i /\ mu = [L \in X |-> n - L.i]
    OBVIOUS
  <2> HIDE DEF X, x, n, mu
  <2>4. mu \in [X -> Int] /\ \A L \in X : mu[L] = n - L.i
    BY <1>2, <2>1, <2>3
  <2>5. \A L \in X : 0 <= mu[L]
    BY <1>2, <2>1, <2>4
  <2> HIDE DEF B
  <2>6. \A L \in X : B[L] = L \/ mu[B[L]] < mu[L]
    <3> SUFFICES ASSUME NEW L \in X PROVE B[L] = L \/ mu[B[L]] < mu[L]
      OBVIOUS
    <3>1. B[L] \in X /\ B[L] = DownTurn(L, pr)
      BY <1>4
    <3>2. mu[B[L]] = n - B[L].i /\ mu[L] = n - L.i /\ B[L].i \in 0 .. n - 1 /\ L.i \in 0 .. n - 1
      BY <2>1, <2>4, <3>1
    <3> QED
      BY <1>2, <2>2, <3>1, <3>2
  <2> QED
    BY <1>2, <1>3, <2>3, <2>4, <2>5, <2>6 DEF Descends
<1> HIDE DEF X, B, x, mu, n
<1>6. PICK F \in [0 .. n -> X] : Runs(F, B, x, n)
  BY <1>2, <1>3, <1>4, LoopRuns
<1>7. B[F[n]] = F[n]
  BY <1>2, <1>3, <1>4, <1>5, <1>6, LoopEnds
<1>8. \A k \in 1 .. n : F[k - 1] \in X /\ F[k] = DownTurn(F[k - 1], pr)
  <2> SUFFICES ASSUME NEW k \in 1 .. n PROVE F[k - 1] \in X /\ F[k] = DownTurn(F[k - 1], pr)
    OBVIOUS
  <2>1. F[k - 1] \in X
    BY <1>2, <1>6
  <2> QED
    BY <1>4, <1>6, <2>1 DEF Runs
<1>9. Turns(F)
  <2>1. F = [k \in 0 .. n |-> F[k]]
    BY <1>6
  <2>2. \A k \in 0 .. n : F[k] = IF k = 0 THEN x ELSE DownTurn(F[k - 1], pr)
    BY <1>2, <1>6, <1>8 DEF Runs
  <2> QED
    BY <2>1, <2>2
<1>10. Turns(G)
  BY <1>9
<1>11. G[0] = x /\ \A k \in 1 .. n : G[k] = DownTurn(G[k - 1], pr)
  <2> HIDE DEF G
  <2>1. \A k \in 0 .. n : G[k] = IF k = 0 THEN x ELSE DownTurn(G[k - 1], pr)
    BY <1>10, Zenon
  <2> QED
    BY <1>2, <2>1
<1> HIDE DEF G
<1>12. \A k \in 0 .. n : F[k] = G[k]
  <2>1. F[0] = G[0]
    BY <1>6, <1>11 DEF Runs
  <2>2. Follows(F, G, n)
    BY <1>8, <1>11, <2>1 DEF Follows
  <2> QED
    BY <1>2, <2>2, RunsAgree
<1>13. G[n] = F[n] /\ F[n] \in X /\ DownTurn(F[n], pr) = F[n]
  BY <1>2, <1>4, <1>6, <1>7, <1>12
<1>14. InOrder(Keys(F[n].S, pr), Size(S))
  BY <1>13, DownTurnIn DEF X
<1>15. Permuted(S, F[n].S) /\ (i # 0 => Obj(F[n].S, 0) = Obj(S, 0))
  BY <1>13 DEF X, DownStates
<1> QED
  BY <1>1, <1>13, <1>14, <1>15

-----------------------------------------------------------------------------
(* The operations of a heap *)

\* A vector that is a heap under the priorities pr.
Heap(S, pr) == Indexed(S) /\ InOrder(Keys(S, pr), Size(S))

\* J has another key than K at i.
Rekeyed(K, J, m, i) ==
  /\ m \in Nat /\ i \in 0 .. m - 1 /\ \A k \in 0 .. m - 1 : K[k] \in Int /\ J[k] \in Int
  /\ \A k \in 0 .. m - 1 : k # i => J[k] = K[k]

\* A node with a new key may be too low or too high, not both.
LEMMA OneWay ==
  ASSUME NEW m, NEW K, NEW J, NEW i, Rekeyed(K, J, m, i), InOrder(K, m)
  PROVE  /\ Compare(J[i], K[i]) => UpOrder(J, m, i)
         /\ i # 0 /\ Compare(J[i], J[Parent(i)]) => UpOrder(J, m, i)
         /\ Compare(K[i], J[i]) => DownOrder(J, m, i)
         /\ i = 0 \/ Compare(J[Parent(i)], J[i]) => DownOrder(J, m, i)
<1>1. /\ m \in Nat /\ i \in 0 .. m - 1 /\ \A k \in 0 .. m - 1 : K[k] \in Int /\ J[k] \in Int
      /\ \A k \in 0 .. m - 1 : k # i => J[k] = K[k]
  BY DEF Rekeyed
<1>2. \A j \in 1 .. m - 1 : Parent(j) \in 0 .. m - 1 /\ Parent(j) # j /\ j \in 0 .. m - 1
                            /\ Compare(K[Parent(j)], K[j])
  BY <1>1, ParentIn DEF InOrder
<1>3. \A j \in 1 .. m - 1 : j # i /\ Parent(j) # i => Compare(J[Parent(j)], J[j])
  <2> SUFFICES ASSUME NEW j \in 1 .. m - 1, j # i, Parent(j) # i
               PROVE  Compare(J[Parent(j)], J[j])
    OBVIOUS
  <2>1. J[Parent(j)] = K[Parent(j)] /\ J[j] = K[j]
    BY <1>1, <1>2
  <2> QED
    BY <1>2, <2>1
<1>4. \A j \in 1 .. m - 1 : Parent(j) = i => j # i /\ J[j] = K[j] /\ Compare(K[i], J[j])
  BY <1>1, <1>2
<1>5. i # 0 => /\ i \in 1 .. m - 1 /\ Parent(i) \in 0 .. m - 1
               /\ J[Parent(i)] = K[Parent(i)] /\ Compare(J[Parent(i)], K[i])
  BY <1>1, <1>2
<1>6. Across(J, m, i)
  <2> SUFFICES ASSUME i > 0, NEW j \in 1 .. m - 1, Parent(j) = i
               PROVE  Compare(J[Parent(i)], J[j])
    BY DEF Across
  <2>1. Compare(J[Parent(i)], K[i]) /\ Compare(K[i], J[j]) /\ Parent(i) \in 0 .. m - 1
        /\ j \in 0 .. m - 1
    BY <1>4, <1>5
  <2> QED
    BY <1>1, <2>1, CompareFact
<1>7. ASSUME \A j \in 1 .. m - 1 : Parent(j) = i => Compare(J[i], J[j])
      PROVE  UpOrder(J, m, i)
  BY <1>3, <1>6, <1>7 DEF UpOrder
<1>8. ASSUME i # 0 => Compare(J[Parent(i)], J[i])
      PROVE  DownOrder(J, m, i)
  BY <1>3, <1>6, <1>8 DEF DownOrder
<1>9. ASSUME Compare(J[i], K[i]) PROVE UpOrder(J, m, i)
  <2>1. ASSUME NEW j \in 1 .. m - 1, Parent(j) = i PROVE Compare(J[i], J[j])
    BY <1>1, <1>4, <1>9, <2>1, CompareFact
  <2> QED
    BY <1>7, <2>1
<1>10. ASSUME i # 0, Compare(J[i], J[Parent(i)]) PROVE UpOrder(J, m, i)
  <2>1. ASSUME NEW j \in 1 .. m - 1, Parent(j) = i PROVE Compare(J[i], J[j])
    <3>1. Compare(J[i], K[i])
      BY <1>1, <1>5, <1>10, CompareFact
    <3> QED
      BY <1>1, <1>4, <2>1, <3>1, CompareFact
  <2> QED
    BY <1>7, <2>1
<1>11. ASSUME Compare(K[i], J[i]) PROVE DownOrder(J, m, i)
  <2>1. i # 0 => Compare(J[Parent(i)], J[i])
    BY <1>1, <1>5, <1>11, CompareFact
  <2> QED
    BY <1>8, <2>1
<1> QED
  BY <1>8, <1>9, <1>10, <1>11

\* The vector without its last node.
LEMMA PopBackIs ==
  ASSUME NEW S \in Vecs, Size(S) # 0, NEW T, T = PopBack(S)
  PROVE  /\ T \in Vecs /\ Size(T) = Size(S) - 1 /\ T.pos = S.pos
         /\ \A k \in 0 .. Size(S) - 2 : Obj(T, k) = Obj(S, k)
<1> DEFINE m == Size(S)
           s == S.v
           f == SubSeq(S.v, 1, Len(S.v) - 1)
<1>1. m \in Nat /\ s \in Seq(Nodes) /\ Len(s) = m /\ S.pos \in [Nodes -> Int] /\ m # 0
  BY VecFact
<1>2. T = [v |-> f, pos |-> S.pos]
  BY DEF PopBack, Vecs
<1>3. f = SubSeq(s, 1, m - 1)
  BY <1>1
<1> HIDE DEF m, s, f
<1>4. f \in Seq(Nodes) /\ Len(f) = m - 1 /\ \A k \in 1 .. m - 1 : f[k] = s[k]
  BY <1>1, <1>3
<1>5. \A k \in 0 .. m - 2 : k + 1 \in 1 .. m - 1
  BY <1>1
<1>6. T \in Vecs /\ Size(T) = m - 1 /\ T.pos = S.pos
  BY <1>1, <1>2, <1>4 DEF Vecs, Size
<1>7. \A k \in 0 .. m - 2 : Obj(T, k) = Obj(S, k)
  BY <1>2, <1>4, <1>5 DEF Obj, s
<1> QED
  BY <1>6, <1>7 DEF m

\* The last node of S has taken the place of the one at index i.
Filled(S, U, m, i) ==
  /\ m = Size(S) /\ i \in 0 .. m - 2 /\ U \in Vecs /\ Size(U) = m - 1
  /\ U.pos = [S.pos EXCEPT ![Obj(S, m - 1)] = i]
  /\ \A k \in 0 .. m - 2 : Obj(U, k) = IF k = i THEN Obj(S, m - 1) ELSE Obj(S, k)

\* S has lost node n.
Lost(S, U, n) ==
  /\ Indexed(U) /\ Size(U) = Size(S) - 1 /\ Members(U) = Members(S) \ {n}
  /\ \A k \in Nodes \ Members(S) : U.pos[k] = S.pos[k]

\* The node that was at index i is gone, and the others know their indices.
LEMMA FilledIs ==
  ASSUME NEW S, Indexed(S), NEW U, NEW m, NEW i, Filled(S, U, m, i)
  PROVE  Lost(S, U, Obj(S, i))
<1> DEFINE b == Obj(S, m - 1)
<1>1. /\ m = Size(S) /\ m \in Nat /\ i \in 0 .. m - 2 /\ m - 1 \in 0 .. m - 1 /\ i \in 0 .. m - 1
      /\ S.pos \in [Nodes -> Int]
      /\ \A k \in 0 .. m - 1 : Obj(S, k) \in Nodes /\ S.pos[Obj(S, k)] = k
  BY VecFact DEF Indexed, Filled
<1>2. /\ U \in Vecs /\ Size(U) = m - 1 /\ U.pos = [S.pos EXCEPT ![b] = i]
      /\ \A k \in 0 .. m - 2 : Obj(U, k) = IF k = i THEN b ELSE Obj(S, k)
  BY DEF Filled
<1>3. b \in Nodes /\ S.pos[b] = m - 1 /\ b = Obj(S, m - 1)
  BY <1>1
<1> HIDE DEF b
<1>4. \A n \in Nodes : U.pos[n] = IF n = b THEN i ELSE S.pos[n]
  BY <1>1, <1>2, <1>3
<1>5. \A k \in 0 .. m - 2 : U.pos[Obj(U, k)] = k
  <2> SUFFICES ASSUME NEW k \in 0 .. m - 2 PROVE U.pos[Obj(U, k)] = k
    OBVIOUS
  <2>1. CASE k = i
    BY <1>2, <1>3, <1>4, <2>1
  <2>2. CASE k # i
    <3>1. k \in 0 .. m - 1 /\ k # m - 1 /\ Obj(U, k) = Obj(S, k)
      BY <1>1, <1>2, <2>2
    <3>2. Obj(S, k) \in Nodes /\ S.pos[Obj(S, k)] = k /\ Obj(S, k) # b
      BY <1>1, <1>3, <3>1
    <3> QED
      BY <1>4, <3>1, <3>2
  <2> QED
    BY <2>1, <2>2
<1>6. Indexed(U)
  <2>1. 0 .. Size(U) - 1 = 0 .. m - 2
    BY <1>1, <1>2
  <2> QED
    BY <1>2, <1>5, <2>1 DEF Indexed
<1>7. Members(U) = Members(S) \ {Obj(S, i)}
  <2>1. Members(U) = {Obj(U, k) : k \in 0 .. m - 2}
    <3>1. 0 .. Size(U) - 1 = 0 .. m - 2
      BY <1>1, <1>2
    <3> QED
      BY <3>1 DEF Members
  <2>2. Members(S) = {Obj(S, k) : k \in 0 .. m - 1}
    BY <1>1 DEF Members
  <2>3. ASSUME NEW k \in 0 .. m - 2
        PROVE  \E l \in 0 .. m - 1 : Obj(U, k) = Obj(S, l) /\ l # i
    <3>1. CASE k = i
      BY <1>1, <1>2, <1>3, <3>1
    <3>2. CASE k # i
      BY <1>1, <1>2, <3>2
    <3> QED
      BY <3>1, <3>2
  <2>4. ASSUME NEW l \in 0 .. m - 1, l # i
        PROVE  \E k \in 0 .. m - 2 : Obj(U, k) = Obj(S, l)
    <3>1. CASE l = m - 1
      BY <1>1, <1>2, <1>3, <3>1
    <3>2. CASE l # m - 1
      <4>1. l \in 0 .. m - 2
        BY <1>1, <3>2
      <4> QED
        BY <1>2, <2>4, <4>1
    <3> QED
      BY <3>1, <3>2
  <2>5. \A l \in 0 .. m - 1 : l # i => Obj(S, l) # Obj(S, i)
    BY <1>1
  <2>6. Members(U) \subseteq Members(S) \ {Obj(S, i)}
    BY <2>1, <2>2, <2>3, <2>5
  <2>7. Members(S) \ {Obj(S, i)} \subseteq Members(U)
    BY <2>1, <2>2, <2>4
  <2> QED
    BY <2>6, <2>7
<1>8. \A n \in Nodes \ Members(S) : U.pos[n] = S.pos[n]
  <2>1. b \in Members(S)
    BY <1>1, <1>3 DEF Members
  <2> QED
    BY <1>4, <2>1
<1> QED
  BY <1>1, <1>2, <1>6, <1>7, <1>8 DEF Lost

\* A loss and a permutation after it.
LEMMA LostPermuted ==
  ASSUME NEW S, NEW U, NEW T, NEW n, Lost(S, U, n), Permuted(U, T)
  PROVE  Lost(S, T, n)
  BY DEF Lost, Permuted

\* A heap that lost its last node.
LEMMA LastLost ==
  ASSUME NEW S, NEW pr \in [Nodes -> Int], Heap(S, pr), Size(S) # 0, NEW T, T = PopBack(S)
  PROVE  Lost(S, T, Obj(S, Size(S) - 1)) /\ Heap(T, pr) /\ (Size(S) > 1 => Obj(T, 0) = Obj(S, 0))
<1> DEFINE m == Size(S)
<1>1. /\ m \in Nat /\ m # 0 /\ S \in Vecs /\ InOrder(Keys(S, pr), m) /\ Indexed(S)
      /\ \A k \in 0 .. m - 1 : Obj(S, k) \in Nodes /\ S.pos[Obj(S, k)] = k
  BY VecFact DEF Heap, Indexed
<1>2. /\ T \in Vecs /\ Size(T) = m - 1 /\ T.pos = S.pos
      /\ \A k \in 0 .. m - 2 : Obj(T, k) = Obj(S, k)
  BY <1>1, PopBackIs
<1> HIDE DEF m
<1>3. 0 .. Size(T) - 1 = 0 .. m - 2 /\ 0 .. m - 2 \subseteq 0 .. m - 1
  BY <1>1, <1>2
<1>4. Indexed(T)
  BY <1>1, <1>2, <1>3 DEF Indexed
<1>5. Members(T) = Members(S) \ {Obj(S, m - 1)}
  <2>1. Members(T) = {Obj(S, k) : k \in 0 .. m - 2}
    BY <1>2, <1>3 DEF Members
  <2>2. Members(S) = {Obj(S, k) : k \in 0 .. m - 1}
    BY DEF Members, m
  <2>3. 0 .. m - 2 = (0 .. m - 1) \ {m - 1} /\ m - 1 \in 0 .. m - 1
    BY <1>1
  <2>4. \A k \in 0 .. m - 1 : k # m - 1 => Obj(S, k) # Obj(S, m - 1)
    BY <1>1, <2>3
  <2> QED
    BY <2>1, <2>2, <2>3, <2>4
<1>6. InOrder(Keys(T, pr), m - 1)
  <2>1. \A k \in 0 .. m - 2 : Keys(T, pr)[k] = Keys(S, pr)[k]
    <3>1. \A k \in 0 .. m - 2 : Keys(T, pr)[k] = pr[Obj(T, k)]
      BY <1>2, <1>3, <1>4, KeysFact
    <3>2. \A k \in 0 .. m - 2 : Keys(S, pr)[k] = pr[Obj(S, k)]
      BY <1>1, <1>3, KeysFact DEF m
    <3> QED
      BY <1>2, <3>1, <3>2
  <2> SUFFICES ASSUME NEW j \in 1 .. (m - 1) - 1
               PROVE  Compare(Keys(T, pr)[Parent(j)], Keys(T, pr)[j])
    BY DEF InOrder
  <2>2. j \in 1 .. m - 1 /\ j \in 0 .. m - 2 /\ Parent(j) \in 0 .. m - 2
    <3>1. m - 1 \in Nat
      BY <1>1
    <3>2. Parent(j) \in 0 .. (m - 1) - 1
      BY <3>1, ParentIn
    <3> QED
      BY <1>1, <3>2
  <2> QED
    BY <1>1, <2>1, <2>2 DEF InOrder
<1>7. Lost(S, T, Obj(S, m - 1))
  BY <1>2, <1>4, <1>5 DEF Lost, m
<1>8. m > 1 => Obj(T, 0) = Obj(S, 0)
  BY <1>1, <1>2
<1> QED
  BY <1>2, <1>4, <1>6, <1>7, <1>8 DEF Heap, m

\* The keys of a heap whose hole at i was filled with the last node.
LEMMA FilledKeys ==
  ASSUME NEW S, NEW pr \in [Nodes -> Int], Heap(S, pr), NEW U, NEW m, NEW i, Filled(S, U, m, i)
  PROVE  /\ Rekeyed(Keys(S, pr), Keys(U, pr), m - 1, i) /\ InOrder(Keys(S, pr), m - 1)
         /\ i # 0 => Obj(U, 0) = Obj(S, 0)
<1>1. Indexed(S) /\ m = Size(S) /\ m \in Nat /\ i \in 0 .. m - 2 /\ InOrder(Keys(S, pr), m)
  BY VecFact DEF Heap, Indexed, Filled
<1>2. Indexed(U) /\ Size(U) = m - 1 /\ m - 1 \in Nat /\ i \in 0 .. (m - 1) - 1
  BY <1>1, FilledIs DEF Lost
<1>3. \A k \in 0 .. m - 1 : Keys(S, pr)[k] = pr[Obj(S, k)] /\ Keys(S, pr)[k] \in Int
  BY <1>1, KeysFact
<1>4. \A k \in 0 .. (m - 1) - 1 : Keys(U, pr)[k] = pr[Obj(U, k)] /\ Keys(U, pr)[k] \in Int
  BY <1>2, KeysFact
<1>5. \A k \in 0 .. (m - 1) - 1 :
         k \in 0 .. m - 1 /\ (k # i => Keys(U, pr)[k] = Keys(S, pr)[k] /\ Obj(U, k) = Obj(S, k))
  <2> SUFFICES ASSUME NEW k \in 0 .. (m - 1) - 1
               PROVE  k \in 0 .. m - 1
                      /\ (k # i => Keys(U, pr)[k] = Keys(S, pr)[k] /\ Obj(U, k) = Obj(S, k))
    OBVIOUS
  <2>1. k \in 0 .. m - 1 /\ k \in 0 .. m - 2
    BY <1>1
  <2>2. k # i => Obj(U, k) = Obj(S, k)
    BY <2>1 DEF Filled
  <2> QED
    BY <1>3, <1>4, <2>1, <2>2
<1>6. Rekeyed(Keys(S, pr), Keys(U, pr), m - 1, i)
  BY <1>2, <1>3, <1>4, <1>5 DEF Rekeyed
<1>7. InOrder(Keys(S, pr), m - 1)
  <2>1. \A j \in 1 .. (m - 1) - 1 : j \in 1 .. m - 1
    BY <1>1
  <2> QED
    BY <1>1, <2>1 DEF InOrder
<1>8. 0 \in 0 .. (m - 1) - 1
  BY <1>2
<1> QED
  BY <1>5, <1>6, <1>7, <1>8

\* do_pop takes out the first node.
LEMMA DoPopIs ==
  ASSUME NEW S, NEW pr \in [Nodes -> Int], Heap(S, pr), Size(S) # 0, NEW T, T = DoPop(S, pr)
  PROVE  Lost(S, T, Obj(S, 0)) /\ Heap(T, pr)
<1> DEFINE m == Size(S)
           b == Obj(S, m - 1)
           R == SetIndex(S, 0, b)
           U == PopBack(R)
<1>1. /\ m \in Nat /\ m # 0 /\ S \in Vecs /\ Indexed(S) /\ b \in Nodes
  BY VecFact DEF Heap, Indexed
<1>2. T = IF m > 1 THEN HeapifyDown(U, pr, 0) ELSE PopBack(S)
  BY DEF DoPop
<1>3. CASE ~(m > 1)
  <2>1. m - 1 = 0 /\ T = PopBack(S)
    BY <1>1, <1>2, <1>3
  <2> QED
    BY <1>1, <2>1, LastLost
<1>4. CASE m > 1
  <2>1. 0 \in 0 .. m - 1
    BY <1>1
  <2> HIDE DEF b, R, U
  <2>2. /\ R \in Vecs /\ Size(R) = m /\ R.pos = [S.pos EXCEPT ![b] = 0]
        /\ \A k \in 0 .. m - 1 : Obj(R, k) = IF k = 0 THEN b ELSE Obj(S, k)
    BY <1>1, <2>1, SetIndexIs DEF R
  <2>3. /\ U \in Vecs /\ Size(U) = m - 1 /\ U.pos = R.pos
        /\ \A k \in 0 .. m - 2 : Obj(U, k) = Obj(R, k)
    <3>1. Size(R) # 0
      BY <1>1, <2>2
    <3>2. /\ U \in Vecs /\ Size(U) = Size(R) - 1 /\ U.pos = R.pos
          /\ \A k \in 0 .. Size(R) - 2 : Obj(U, k) = Obj(R, k)
      BY <2>2, <3>1, PopBackIs DEF U
    <3> QED
      BY <2>2, <3>2
  <2>4. Filled(S, U, m, 0)
    <3>1. 0 \in 0 .. m - 2 /\ 0 .. m - 2 \subseteq 0 .. m - 1
      BY <1>1, <1>4
    <3> QED
      BY <2>2, <2>3, <3>1 DEF Filled, b
  <2>5. Lost(S, U, Obj(S, 0))
    BY <1>1, <2>4, FilledIs
  <2>6. Rekeyed(Keys(S, pr), Keys(U, pr), m - 1, 0) /\ InOrder(Keys(S, pr), m - 1)
    BY <2>4, FilledKeys
  <2>7. DownOrder(Keys(U, pr), m - 1, 0)
    BY <2>6, OneWay
  <2>8. Indexed(U) /\ Size(U) = m - 1 /\ 0 \in 0 .. Size(U) - 1
    BY <1>1, <1>4, <2>3, <2>5 DEF Lost
  <2>9. Permuted(U, T) /\ InOrder(Keys(T, pr), Size(U))
    <3>1. T = HeapifyDown(U, pr, 0) /\ DownOrder(Keys(U, pr), Size(U), 0)
      BY <1>2, <1>4, <2>7, <2>8
    <3> QED
      BY <2>8, <3>1, HeapifyDownIs
  <2> QED
    BY <2>5, <2>9, LostPermuted DEF Heap, Permuted
<1> QED
  BY <1>3, <1>4

\* do_remove takes out the node it is given, and leaves the first one where it is
\* unless that is the node.
LEMMA DoRemoveIs ==
  ASSUME NEW S, NEW pr \in [Nodes -> Int], Heap(S, pr), NEW n \in Members(S),
         NEW V, V = DoRemove(S, pr, n)
  PROVE  Lost(S, V, n) /\ Heap(V, pr) /\ (n # Obj(S, 0) => Obj(V, 0) = Obj(S, 0))
<1> DEFINE m == Size(S)
           i == S.pos[n]
           b == Obj(S, m - 1)
           T == PopBack(S)
           U == SetIndex(T, i, b)
<1>1. /\ m \in Nat /\ S \in Vecs /\ Indexed(S) /\ InOrder(Keys(S, pr), m)
      /\ \A k \in 0 .. m - 1 : Obj(S, k) \in Nodes /\ S.pos[Obj(S, k)] = k
  BY VecFact DEF Heap, Indexed
<1>2. i \in 0 .. m - 1 /\ Obj(S, i) = n /\ m # 0 /\ b \in Nodes
  BY <1>1 DEF Members
<1>3. V = IF Size(T) = 0 \/ i = Size(T) THEN T
          ELSE IF i # 0 /\ Compare(pr[b], pr[Obj(U, Parent(i))])
            THEN HeapifyUp(U, pr, i) ELSE HeapifyDown(U, pr, i)
  BY DEF DoRemove
<1>4. /\ T \in Vecs /\ Size(T) = m - 1 /\ T.pos = S.pos
      /\ \A k \in 0 .. m - 2 : Obj(T, k) = Obj(S, k)
  BY <1>1, <1>2, PopBackIs
<1>5. n # Obj(S, 0) => i # 0
  BY <1>2
<1>6. CASE Size(T) = 0 \/ i = Size(T)
  <2>1. V = T /\ i = m - 1
    BY <1>1, <1>2, <1>3, <1>4, <1>6
  <2>2. Lost(S, T, b) /\ Heap(T, pr) /\ (m > 1 => Obj(T, 0) = Obj(S, 0))
    BY <1>2, LastLost
  <2>3. i # 0 => m > 1
    BY <1>1, <1>2, <2>1
  <2> QED
    BY <1>2, <1>5, <2>1, <2>2, <2>3
<1>7. CASE ~(Size(T) = 0 \/ i = Size(T))
  <2>1. i \in 0 .. m - 2 /\ i \in 0 .. Size(T) - 1
    BY <1>1, <1>2, <1>4, <1>7
  <2> HIDE DEF b, T, U, i
  <2>2. /\ U \in Vecs /\ Size(U) = Size(T) /\ U.pos = [T.pos EXCEPT ![b] = i]
        /\ \A k \in 0 .. Size(T) - 1 : Obj(U, k) = IF k = i THEN b ELSE Obj(T, k)
    BY <1>2, <1>4, <2>1, SetIndexIs DEF U
  <2>3. Filled(S, U, m, i)
    <3>1. 0 .. Size(T) - 1 = 0 .. m - 2
      BY <1>1, <1>4
    <3> QED
      BY <1>4, <2>1, <2>2, <3>1 DEF Filled, b
  <2>4. Lost(S, U, n)
    BY <1>1, <1>2, <2>3, FilledIs
  <2> DEFINE K == Keys(S, pr)
             J == Keys(U, pr)
  <2>5. Rekeyed(K, J, m - 1, i) /\ InOrder(K, m - 1) /\ (i # 0 => Obj(U, 0) = Obj(S, 0))
    BY <2>3, FilledKeys
  <2>6. Indexed(U) /\ Size(U) = m - 1 /\ i \in 0 .. Size(U) - 1
    BY <1>4, <2>1, <2>2, <2>4 DEF Lost
  <2>7. \A k \in 0 .. (m - 1) - 1 : J[k] = pr[Obj(U, k)] /\ J[k] \in Int
    BY <2>6, KeysFact
  <2>8. i \in 0 .. (m - 1) - 1 /\ J[i] = pr[b] /\ m - 1 \in Nat
    <3>1. i \in 0 .. (m - 1) - 1 /\ Obj(U, i) = b /\ m - 1 \in Nat
      BY <1>1, <2>1, <2>2
    <3> QED
      BY <2>7, <3>1
  <2>9. i # 0 => Parent(i) \in 0 .. (m - 1) - 1 /\ J[Parent(i)] = pr[Obj(U, Parent(i))]
    <3> SUFFICES ASSUME i # 0
                 PROVE  Parent(i) \in 0 .. (m - 1) - 1 /\ J[Parent(i)] = pr[Obj(U, Parent(i))]
      OBVIOUS
    <3>1. i \in 1 .. (m - 1) - 1
      BY <2>8
    <3>2. Parent(i) \in 0 .. (m - 1) - 1
      BY <2>8, <3>1, ParentIn
    <3> QED
      BY <2>7, <3>2
  <2>10. CASE i # 0 /\ Compare(J[i], J[Parent(i)])
    <3>1. V = HeapifyUp(U, pr, i)
      BY <1>3, <1>7, <2>8, <2>9, <2>10
    <3>2. UpOrder(J, Size(U), i)
      BY <2>5, <2>6, <2>10, OneWay
    <3>3. Permuted(U, V) /\ InOrder(Keys(V, pr), Size(U)) /\ (Best(U, pr) => Obj(V, 0) = Obj(U, 0))
      BY <2>6, <3>1, <3>2, HeapifyUpIs
    <3>4. Best(U, pr)
      <4>1. \A k \in 0 .. m - 1 : K[k] = pr[Obj(S, k)]
        BY <1>1, KeysFact
      <4>2. \A k \in 0 .. m - 1 : Compare(K[0], K[k])
        <5>1. K \in [0 .. m - 1 -> Int]
          BY <1>1, KeysFact
        <5> HIDE DEF K, m
        <5> QED
          BY <1>1, <5>1, FirstIsBest DEF K
      <4>3. Obj(U, 0) = Obj(S, 0) /\ 0 \in 0 .. m - 1
        BY <1>1, <1>2, <2>5, <2>10
      <4>4. \A k \in Members(S) : \E j \in 0 .. m - 1 : k = Obj(S, j)
        BY DEF Members
      <4>5. Members(U) \subseteq Members(S)
        BY <2>4 DEF Lost
      <4> QED
        BY <4>1, <4>2, <4>3, <4>4, <4>5 DEF Best
    <3> QED
      BY <2>4, <2>5, <2>10, <3>3, <3>4, LostPermuted DEF Heap, Permuted
  <2>11. CASE ~(i # 0 /\ Compare(J[i], J[Parent(i)]))
    <3>1. V = HeapifyDown(U, pr, i)
      BY <1>3, <1>7, <2>8, <2>9, <2>11
    <3>2. i = 0 \/ Compare(J[Parent(i)], J[i])
      BY <2>7, <2>8, <2>9, <2>11, CompareFact
    <3>3. DownOrder(J, Size(U), i)
      BY <2>5, <2>6, <3>2, OneWay
    <3>4. Permuted(U, V) /\ InOrder(Keys(V, pr), Size(U)) /\ (i # 0 => Obj(V, 0) = Obj(U, 0))
      BY <2>6, <3>1, <3>3, HeapifyDownIs
    <3> QED
      BY <1>5, <2>4, <2>5, <3>4, LostPermuted DEF Heap, Permuted
  <2> QED
    BY <2>10, <2>11
<1> QED
  BY <1>6, <1>7

\* do_insert adds a node.
LEMMA DoInsertIs ==
  ASSUME NEW S, NEW pr \in [Nodes -> Int], Heap(S, pr), NEW n \in Nodes \ Members(S),
         NEW V, V = DoInsert(S, pr, n)
  PROVE  /\ Heap(V, pr) /\ Members(V) = Members(S) \cup {n}
         /\ \A k \in Nodes \ (Members(S) \cup {n}) : V.pos[k] = S.pos[k]
<1> DEFINE m == Size(S)
           f == Append(S.v, n)
           q == [S.pos EXCEPT ![n] = Len(S.v)]
           T == [v |-> f, pos |-> q]
<1>1. /\ m \in Nat /\ S.v \in Seq(Nodes) /\ Len(S.v) = m /\ S.pos \in [Nodes -> Int]
      /\ Indexed(S) /\ InOrder(Keys(S, pr), m)
      /\ \A k \in 0 .. m - 1 : Obj(S, k) \in Nodes /\ S.pos[Obj(S, k)] = k
  BY VecFact DEF Heap, Indexed
<1>2. V = HeapifyUp(T, pr, Size(T) - 1)
  BY DEF DoInsert
<1>3. /\ f \in Seq(Nodes) /\ Len(f) = m + 1 /\ f[m + 1] = n
      /\ \A k \in 1 .. m : f[k] = S.v[k]
  BY <1>1
<1>4. q \in [Nodes -> Int] /\ q[n] = m /\ \A k \in Nodes : k # n => q[k] = S.pos[k]
  BY <1>1
<1>5. T.v = f /\ T.pos = q
  OBVIOUS
<1> HIDE DEF f, q
<1>6. T \in Vecs /\ Size(T) = m + 1
  BY <1>3, <1>4 DEF Vecs, Size
<1> HIDE DEF T
<1>7. Obj(T, m) = n /\ \A k \in 0 .. m - 1 : Obj(T, k) = Obj(S, k)
  <2>1. \A k \in 0 .. m - 1 : k + 1 \in 1 .. m
    BY <1>1
  <2> QED
    BY <1>3, <1>5, <2>1 DEF Obj
<1> HIDE DEF m
<1>8. 0 .. Size(T) - 1 = 0 .. m /\ 0 .. m = (0 .. m - 1) \cup {m} /\ m \in 0 .. m
  BY <1>1, <1>6
<1>9. \A k \in 0 .. m - 1 : Obj(S, k) \in Members(S) /\ Obj(S, k) # n
  BY DEF Members, m
<1>10. Members(S) = {Obj(S, k) : k \in 0 .. m - 1}
  BY DEF Members, m
<1>11. Indexed(T)
  <2>1. \A k \in 0 .. m - 1 : q[Obj(T, k)] = k
    BY <1>1, <1>4, <1>7, <1>9 DEF m
  <2> QED
    BY <1>4, <1>5, <1>6, <1>7, <1>8, <2>1 DEF Indexed
<1>12. Members(T) = Members(S) \cup {n}
  <2>1. Members(T) = {Obj(T, k) : k \in 0 .. m}
    BY <1>8 DEF Members
  <2> QED
    BY <1>7, <1>8, <1>10, <2>1
<1> DEFINE K == Keys(S, pr)
           J == Keys(T, pr)
<1>13. \A k \in 0 .. m - 1 : J[k] = K[k]
  <2>1. \A k \in 0 .. m - 1 : J[k] = pr[Obj(T, k)]
    BY <1>8, <1>11, KeysFact
  <2>2. \A k \in 0 .. m - 1 : K[k] = pr[Obj(S, k)]
    BY <1>1, KeysFact DEF m
  <2> QED
    BY <1>7, <2>1, <2>2
<1>14. UpOrder(J, Size(T), m)
  <2>1. \A j \in 1 .. Size(T) - 1 : Parent(j) \in 0 .. m - 1 /\ Parent(j) # m /\ (j # m => j \in 1 .. m - 1)
    <3> SUFFICES ASSUME NEW j \in 1 .. Size(T) - 1
                 PROVE  Parent(j) \in 0 .. m - 1 /\ Parent(j) # m /\ (j # m => j \in 1 .. m - 1)
      OBVIOUS
    <3>1. j \in Nat /\ j # 0 /\ j <= m
      BY <1>1, <1>6 DEF m
    <3>2. Parent(j) \in Nat /\ Parent(j) < j
      BY <3>1, ParentFact
    <3> QED
      BY <1>1, <3>1, <3>2 DEF m
  <2>2. Across(J, Size(T), m)
    BY <2>1 DEF Across
  <2>3. ASSUME NEW j \in 1 .. Size(T) - 1, j # m PROVE Compare(J[Parent(j)], J[j])
    <3>1. j \in 1 .. m - 1 /\ j \in 0 .. m - 1 /\ Parent(j) \in 0 .. m - 1
      BY <2>1, <2>3
    <3>2. Compare(K[Parent(j)], K[j])
      BY <1>1, <3>1 DEF InOrder, m
    <3> QED
      BY <1>13, <3>1, <3>2
  <2> QED
    BY <2>2, <2>3 DEF UpOrder
<1>15. Permuted(T, V) /\ InOrder(Keys(V, pr), Size(T))
  <2>1. Size(T) - 1 = m /\ m \in 0 .. Size(T) - 1
    BY <1>1, <1>6 DEF m
  <2> QED
    BY <1>2, <1>11, <1>14, <2>1, HeapifyUpIs
<1>16. \A k \in Nodes \ (Members(S) \cup {n}) : V.pos[k] = S.pos[k]
  BY <1>4, <1>5, <1>12, <1>15 DEF Permuted
<1> QED
  BY <1>12, <1>15, <1>16 DEF Heap, Permuted

\* move_node gives a node another priority.
LEMMA DoMoveNodeIs ==
  ASSUME NEW S, NEW old \in [Nodes -> Int], Heap(S, old), NEW n \in Members(S), NEW p \in Int,
         NEW pr, pr = [old EXCEPT ![n] = p], NEW V, V = DoMoveNode(S, pr, old[n], n)
  PROVE  Permuted(S, V) /\ Heap(V, pr)
<1> DEFINE m == Size(S)
           i == S.pos[n]
           K == Keys(S, old)
           J == Keys(S, pr)
<1>1. /\ m \in Nat /\ Indexed(S) /\ InOrder(K, m)
      /\ \A k \in 0 .. m - 1 : Obj(S, k) \in Nodes /\ S.pos[Obj(S, k)] = k
  BY VecFact DEF Heap, Indexed
<1>2. i \in 0 .. m - 1 /\ Obj(S, i) = n /\ n \in Nodes
  BY <1>1 DEF Members
<1>3. pr \in [Nodes -> Int] /\ pr[n] = p /\ \A k \in Nodes : k # n => pr[k] = old[k]
  BY <1>2
<1>4. \A f \in [Nodes -> Int] : \A k \in 0 .. m - 1 :
        Keys(S, f)[k] = f[Obj(S, k)] /\ Keys(S, f)[k] \in Int
  <2> SUFFICES ASSUME NEW f \in [Nodes -> Int]
               PROVE  \A k \in 0 .. m - 1 : Keys(S, f)[k] = f[Obj(S, k)] /\ Keys(S, f)[k] \in Int
    OBVIOUS
  <2>1. Indexed(S)
    BY <1>1
  <2> QED
    BY <2>1, KeysFact
<1>5. \A k \in 0 .. m - 1 : K[k] = old[Obj(S, k)] /\ K[k] \in Int
  BY <1>4
<1>6. \A k \in 0 .. m - 1 : J[k] = pr[Obj(S, k)] /\ J[k] \in Int
  BY <1>4, <1>3
<1>7. V = IF Compare(pr[n], old[n]) THEN HeapifyUp(S, pr, i) ELSE HeapifyDown(S, pr, i)
  BY DEF DoMoveNode
<1>8. Rekeyed(K, J, m, i)
  <2>1. \A k \in 0 .. m - 1 : k # i => Obj(S, k) # n /\ Obj(S, k) \in Nodes
    BY <1>1
  <2> HIDE DEF m, i, K, J
  <2>2. \A k \in 0 .. m - 1 : k # i => J[k] = K[k]
    BY <1>3, <1>5, <1>6, <2>1
  <2> QED
    BY <1>1, <1>2, <1>5, <1>6, <2>2 DEF Rekeyed
<1>9. J[i] = pr[n] /\ K[i] = old[n] /\ J[i] \in Int /\ K[i] \in Int
  BY <1>2, <1>5, <1>6
<1> HIDE DEF m, i, K, J
<1>10. CASE Compare(pr[n], old[n])
  <2>1. V = HeapifyUp(S, pr, i) /\ UpOrder(J, m, i)
    BY <1>1, <1>7, <1>8, <1>9, <1>10, OneWay
  <2>2. Permuted(S, V) /\ InOrder(Keys(V, pr), m)
    BY <1>1, <1>2, <1>3, <2>1, HeapifyUpIs DEF m, J
  <2> QED
    BY <2>2 DEF Heap, Permuted, m
<1>11. CASE ~Compare(pr[n], old[n])
  <2>1. Compare(K[i], J[i])
    BY <1>9, <1>11, CompareFact
  <2>2. V = HeapifyDown(S, pr, i) /\ DownOrder(J, m, i)
    BY <1>1, <1>7, <1>8, <1>11, <2>1, OneWay
  <2>3. Permuted(S, V) /\ InOrder(Keys(V, pr), m)
    BY <1>1, <1>2, <1>3, <2>2, HeapifyDownIs DEF m, J
  <2> QED
    BY <2>3 DEF Heap, Permuted, m
<1> QED
  BY <1>10, <1>11

\* The states of the loop of do_pop_half that begins with heap S: what was taken is
\* out of the heap, and the first node is still in it.
HalfStates(S, pr) ==
  {H \in [S : Vecs, got : SUBSET Members(S), i : Nat, j : Nat, level : Nat] :
     /\ Heap(H.S, pr) /\ Members(H.S) = Members(S) \ H.got
     /\ Size(H.S) + Cardinality(H.got) = Size(S) /\ Cardinality(H.got) <= Half(S)
     /\ H.i >= 1 /\ Obj(S, 0) \notin H.got /\ Obj(H.S, 0) = Obj(S, 0)
     /\ \A k \in Nodes \ Members(S) : H.S.pos[k] = S.pos[k]}

\* A turn of do_pop_half stays in these states.
LEMMA HalfTurnIn ==
  ASSUME NEW S, Indexed(S), NEW pr \in [Nodes -> Int], NEW H \in HalfStates(S, pr),
         NEW M, M = HalfTurn(H, pr, Half(S))
  PROVE  M \in HalfStates(S, pr)
<1> DEFINE m == Size(S)
           half == Half(S)
           V == H.S
           w == Size(H.S)
           got == H.got
           c == Cardinality(H.got)
           idx == IF H.i + H.j < w - 1 THEN H.i + H.j ELSE w - 1
           n == Obj(V, idx)
           T == DoRemove(V, pr, n)
           G == got \cup {n}
<1>1. /\ V \in Vecs /\ got \subseteq Members(S) /\ H.i \in Nat /\ H.j \in Nat /\ H.level \in Nat
      /\ Heap(V, pr) /\ Members(V) = Members(S) \ got /\ w + c = m /\ c <= half
      /\ H.i >= 1 /\ Obj(S, 0) \notin got /\ Obj(V, 0) = Obj(S, 0)
      /\ \A k \in Nodes \ Members(S) : V.pos[k] = S.pos[k]
  BY DEF HalfStates
<1>2. M = H \/ /\ c # half
               /\ M.S = T /\ M.got = G
               /\ M.i \in {H.i, H.i + H.level} /\ M.j \in {H.j + 1, 0}
               /\ M.level \in {H.level, 2 * H.level}
               /\ M = [S |-> M.S, got |-> M.got, i |-> M.i, j |-> M.j, level |-> M.level]
  BY DEF HalfTurn
<1>3. m \in Nat /\ w \in Nat /\ Members(S) \subseteq Nodes /\ Indexed(V)
  BY <1>1, VecFact DEF Indexed, Members, Heap
<1>4. half \in Nat /\ 2 * half <= m
  <2>1. m \div 2 \in Nat /\ 2 * (m \div 2) <= m
    BY <1>3
  <2>2. half = IF m \div 2 < StealMax THEN m \div 2 ELSE StealMax
    BY DEF Half
  <2> HIDE DEF half, m
  <2> QED
    BY <1>3, <2>1, <2>2, HeapAssumption
<1>5. IsFiniteSet(got) /\ c \in Nat
  BY <1>1, <1>3, HeapAssumption, FS_Subset, FS_CardinalityType
<1> HIDE DEF m, half, V, w, got, c, T, G
<1>6. CASE M = H
  BY <1>6
<1>7. CASE M # H
  <2>1. /\ c # half /\ M.S = T /\ M.got = G
        /\ M.i \in {H.i, H.i + H.level} /\ M.j \in {H.j + 1, 0}
        /\ M.level \in {H.level, 2 * H.level}
        /\ M = [S |-> M.S, got |-> M.got, i |-> M.i, j |-> M.j, level |-> M.level]
    BY <1>2, <1>7
  <2>2. w >= 2 /\ c + 1 <= half
    BY <1>1, <1>3, <1>4, <1>5, <2>1
  <2>3. idx \in 0 .. w - 1 /\ idx # 0 /\ 0 \in 0 .. w - 1
    BY <1>1, <1>3, <2>2
  <2> HIDE DEF idx
  <2>4. n \in Members(V) /\ n # Obj(V, 0)
    BY <1>3, <2>3, Distinct DEF Members, w, V
  <2> HIDE DEF n
  <2>5. Lost(V, T, n) /\ Heap(T, pr) /\ Obj(T, 0) = Obj(V, 0)
    BY <1>1, <2>4, DoRemoveIs DEF T
  <2>6. Size(T) = w - 1 /\ Members(T) = Members(V) \ {n} /\ T \in Vecs
        /\ \A k \in Nodes \ Members(V) : T.pos[k] = V.pos[k]
    BY <2>5 DEF Lost, Indexed, w, V
  <2>7. n \in Members(S) /\ n \notin got
    BY <1>1, <2>4
  <2>8. Cardinality(G) = c + 1
    BY <1>5, <2>7, FS_AddElement DEF G, c, got
  <2>9. G \subseteq Members(S) /\ Members(T) = Members(S) \ G /\ Obj(S, 0) \notin G
    BY <1>1, <2>4, <2>6, <2>7 DEF G
  <2>10. Size(T) + Cardinality(G) = m /\ Cardinality(G) <= half
    BY <1>1, <1>3, <1>5, <2>2, <2>6, <2>8
  <2>11. \A k \in Nodes \ Members(S) : T.pos[k] = S.pos[k]
    BY <1>1, <2>6
  <2>12. M.i \in Nat /\ M.j \in Nat /\ M.level \in Nat /\ M.i >= 1
    BY <1>1, <2>1
  <2>13. M \in [S : Vecs, got : SUBSET Members(S), i : Nat, j : Nat, level : Nat]
    BY <2>1, <2>6, <2>9, <2>12
  <2> QED
    BY <1>1, <2>1, <2>5, <2>9, <2>10, <2>11, <2>12, <2>13 DEF HalfStates, m, half
<1> QED
  BY <1>6, <1>7

\* do_pop_half takes up to half of the nodes, and not the first.
LEMMA DoPopHalfIs ==
  ASSUME NEW S, NEW pr \in [Nodes -> Int], Heap(S, pr), NEW R, R = DoPopHalf(S, pr)
  PROVE  R \in HalfStates(S, pr)
<1> DEFINE X == HalfStates(S, pr)
           n == Half(S)
           B == [L \in X |-> HalfTurn(L, pr, n)]
           x == [S |-> S, got |-> {}, i |-> 1, j |-> 0, level |-> 2]
           Turns(F) == F = [k \in 0 .. n |-> IF k = 0 THEN x ELSE HalfTurn(F[k - 1], pr, n)]
           G == CHOOSE F : Turns(F)
<1>1. R = G[n]
  BY DEF DoPopHalf
<1>2. n \in Nat /\ Indexed(S) /\ Size(S) \in Nat
  <2>1. Indexed(S) /\ Size(S) \in Nat
    BY VecFact DEF Heap, Indexed
  <2>2. Size(S) \div 2 \in Nat
    BY <2>1
  <2> QED
    BY <2>1, <2>2, HeapAssumption DEF Half
<1>3. x \in X
  <2>1. Cardinality({}) = 0
    BY FS_EmptySet
  <2> HIDE DEF n
  <2> QED
    BY <1>2, <2>1 DEF HalfStates, Indexed, n
<1>4. B \in [X -> X] /\ \A L \in X : B[L] = HalfTurn(L, pr, n)
  <2>1. \A L \in X : HalfTurn(L, pr, n) \in X
    BY <1>2, HalfTurnIn
  <2> HIDE DEF X, n
  <2> QED
    BY <2>1
<1> HIDE DEF X, B, x, n
<1>5. PICK F \in [0 .. n -> X] : Runs(F, B, x, n)
  BY <1>2, <1>3, <1>4, LoopRuns
<1>6. \A k \in 1 .. n : F[k] = HalfTurn(F[k - 1], pr, n)
  <2> SUFFICES ASSUME NEW k \in 1 .. n PROVE F[k] = HalfTurn(F[k - 1], pr, n)
    OBVIOUS
  <2>1. F[k - 1] \in X
    BY <1>2, <1>5
  <2> QED
    BY <1>4, <1>5, <2>1 DEF Runs
<1>7. Turns(F)
  <2>1. F = [k \in 0 .. n |-> F[k]]
    BY <1>5
  <2>2. \A k \in 0 .. n : F[k] = IF k = 0 THEN x ELSE HalfTurn(F[k - 1], pr, n)
    BY <1>2, <1>5, <1>6 DEF Runs
  <2> QED
    BY <2>1, <2>2
<1>8. Turns(G)
  BY <1>7
<1>9. G[0] = x /\ \A k \in 1 .. n : G[k] = HalfTurn(G[k - 1], pr, n)
  <2> HIDE DEF G
  <2>1. \A k \in 0 .. n : G[k] = IF k = 0 THEN x ELSE HalfTurn(G[k - 1], pr, n)
    BY <1>8, Zenon
  <2> QED
    BY <1>2, <2>1
<1> HIDE DEF G
<1>10. \A k \in 0 .. n : F[k] = G[k]
  <2>1. F[0] = G[0]
    BY <1>5, <1>9 DEF Runs
  <2>2. Follows(F, G, n)
    BY <1>6, <1>9, <2>1 DEF Follows
  <2> QED
    BY <1>2, <2>2, RunsAgree
<1> QED
  BY <1>1, <1>2, <1>5, <1>10 DEF X

-----------------------------------------------------------------------------
(* The two heaps *)

\* A vector has as many nodes as indices.
LEMMA MembersSize ==
  ASSUME NEW S, Indexed(S)
  PROVE  IsFiniteSet(Members(S)) /\ Cardinality(Members(S)) = Size(S) /\ Members(S) \subseteq Nodes
<1> DEFINE m == Size(S)
           f == S.v
           Q == Members(S)
<1>1. /\ m \in Nat /\ f \in [1 .. m -> Nodes]
      /\ \A i \in 0 .. m - 1 : f[i + 1] \in Nodes /\ S.pos[f[i + 1]] = i
  BY VecFact DEF Indexed, Obj
<1>2. Q = {f[i + 1] : i \in 0 .. m - 1}
  BY DEF Members, Obj
<1> HIDE DEF m, f, Q
<1>3. \A k \in 1 .. m : k - 1 \in 0 .. m - 1 /\ (k - 1) + 1 = k
  BY <1>1
<1>4. \A k \in 1 .. m : f[k] \in Q /\ S.pos[f[k]] = k - 1
  <2> SUFFICES ASSUME NEW k \in 1 .. m PROVE f[k] \in Q /\ S.pos[f[k]] = k - 1
    OBVIOUS
  <2>1. k - 1 \in 0 .. m - 1 /\ (k - 1) + 1 = k
    BY <1>3
  <2>2. f[(k - 1) + 1] \in Q /\ S.pos[f[(k - 1) + 1]] = k - 1
    BY <1>1, <1>2, <2>1
  <2> QED
    BY <2>1, <2>2
<1>5. f \in Injection(1 .. m, Q)
  <2>1. f \in [1 .. m -> Q]
    BY <1>1, <1>4
  <2>2. ASSUME NEW k \in 1 .. m, NEW l \in 1 .. m, f[k] = f[l] PROVE k = l
    <3>1. k - 1 = l - 1 /\ k \in Int /\ l \in Int
      BY <1>1, <1>4, <2>2
    <3> QED
      BY <3>1
  <2> QED
    BY <2>1, <2>2 DEF Injection, IsInjective
<1>6. f \in Surjection(1 .. m, Q)
  <2>1. \A n \in Q : \E k \in 1 .. m : f[k] = n
    <3> SUFFICES ASSUME NEW i \in 0 .. m - 1 PROVE \E k \in 1 .. m : f[k] = f[i + 1]
      BY <1>2
    <3>1. i + 1 \in 1 .. m
      BY <1>1
    <3> QED
      BY <3>1
  <2> QED
    BY <1>5, <2>1 DEF Injection, Surjection
<1>7. ExistsBijection(1 .. m, Q)
  BY <1>5, <1>6 DEF ExistsBijection, Bijection
<1>8. IsFiniteSet(1 .. m) /\ Cardinality(1 .. m) = m
  <2>1. IsFiniteSet(1 .. m) /\ Cardinality(1 .. m) = IF 1 > m THEN 0 ELSE m - 1 + 1
    BY <1>1, FS_Interval
  <2> QED
    BY <1>1, <2>1
<1>9. Q \subseteq Nodes
  BY <1>1, <1>2
<1> QED
  BY <1>7, <1>8, <1>9, FS_Bijection DEF Q, m

\* The nodes marked with a queue.
Queued(h) == {n \in Nodes : queue[n] = h}

\* The inductive invariant: each vector is a heap of the nodes marked with its queue.
HeapsInv ==
  /\ heap \in [Heaps -> Seq(Nodes)] /\ pos \in [Nodes -> Int] /\ prio \in [Nodes -> Priorities]
  /\ queue \in [Nodes -> Heaps \cup {"none"}]
  /\ ret \in {"none", "pop", "pop_best", "pop_half", "remove"}
  /\ \A n \in Nodes : queue[n] = "none" => pos[n] = 0
  /\ \A h \in Heaps : Heap(Rec(h), prio) /\ Members(Rec(h)) = Queued(h)

\* The invariant implies what the runs check.
LEMMA InvImplies ==
  ASSUME HeapsInv
  PROVE  HeapInv
<1> DEFINE N == Cardinality(Nodes)
<1>1. N \in Nat
  BY HeapAssumption, FS_CardinalityType
<1>2. ASSUME NEW h \in Heaps
      PROVE  /\ Len(heap[h]) \in 0 .. N /\ heap[h] \in [1 .. Len(heap[h]) -> Nodes]
             /\ Cardinality(Queued(h)) = Len(heap[h])
             /\ \A i \in 1 .. Len(heap[h]) - 1 :
                  Compare(prio[heap[h][Parent(i) + 1]], prio[heap[h][i + 1]])
             /\ \A n \in Queued(h) :
                  pos[n] \in 0 .. Len(heap[h]) - 1 /\ heap[h][pos[n] + 1] = n
  <2> DEFINE S == Rec(h)
             m == Len(heap[h])
  <2>1. /\ Indexed(S) /\ InOrder(Keys(S, prio), Size(S)) /\ Members(S) = Queued(h)
        /\ Size(S) = m /\ S.pos = pos /\ S.v = heap[h]
    BY DEF HeapsInv, Heap, Rec, Size
  <2> HIDE DEF S, m
  <2>2. m \in Nat /\ heap[h] \in [1 .. m -> Nodes]
    BY <2>1, VecFact DEF Indexed
  <2>3. IsFiniteSet(Members(S)) /\ Cardinality(Members(S)) = m /\ Members(S) \subseteq Nodes
    BY <2>1, MembersSize
  <2>4. Cardinality(Queued(h)) = m /\ m \in 0 .. N
    <3>1. Cardinality(Members(S)) <= N
      BY <2>3, HeapAssumption, FS_Subset
    <3> QED
      BY <1>1, <2>1, <2>2, <2>3, <3>1
  <2>5. \A i \in 0 .. m - 1 : Keys(S, prio)[i] = prio[heap[h][i + 1]]
    BY <2>1 DEF Keys, Obj
  <2>6. ASSUME NEW i \in 1 .. m - 1
        PROVE  Compare(prio[heap[h][Parent(i) + 1]], prio[heap[h][i + 1]])
    <3>1. i \in 0 .. m - 1 /\ Parent(i) \in 0 .. m - 1
      BY <2>2, ParentIn
    <3> QED
      BY <2>1, <2>5, <3>1 DEF InOrder
  <2>7. ASSUME NEW n \in Queued(h)
        PROVE  pos[n] \in 0 .. m - 1 /\ heap[h][pos[n] + 1] = n
    <3>1. PICK i \in 0 .. m - 1 : n = Obj(S, i)
      BY <2>1 DEF Members
    <3>2. pos[n] = i
      BY <2>1, <3>1 DEF Indexed
    <3> QED
      BY <2>1, <3>1, <3>2 DEF Obj
  <2> QED
    BY <2>2, <2>4, <2>6, <2>7 DEF m
<1>3. TypeOK
  <2>1. heap \in [Heaps -> UNION {[1 .. k -> Nodes] : k \in 0 .. N}]
    <3>1. \A h \in Heaps : heap[h] \in UNION {[1 .. k -> Nodes] : k \in 0 .. N}
      BY <1>2
    <3> QED
      BY <3>1 DEF HeapsInv
  <2>2. ASSUME NEW n \in Nodes PROVE pos[n] \in 0 .. N - 1
    <3>1. queue[n] \in Heaps \/ queue[n] = "none"
      BY DEF HeapsInv
    <3>2. CASE queue[n] \in Heaps
      <4>1. PICK h \in Heaps : queue[n] = h
        BY <3>2
      <4>2. pos[n] \in 0 .. Len(heap[h]) - 1 /\ Len(heap[h]) \in 0 .. N
        BY <1>2, <4>1 DEF Queued
      <4> QED
        BY <1>1, <4>2
    <3>3. CASE queue[n] = "none"
      <4>1. pos[n] = 0
        BY <3>3 DEF HeapsInv
      <4>2. N # 0
        BY HeapAssumption, FS_EmptySet
      <4> QED
        BY <1>1, <4>1, <4>2
    <3> QED
      BY <3>1, <3>2, <3>3
  <2>3. pos \in [Nodes -> 0 .. N - 1]
    BY <2>2 DEF HeapsInv
  <2> QED
    BY <2>1, <2>3 DEF TypeOK, HeapsInv
<1>4. HeapOrder
  BY <1>2 DEF HeapOrder
<1>5. \A n \in Nodes, h \in Heaps : queue[n] = h =>
        pos[n] < Len(heap[h]) /\ heap[h][pos[n] + 1] = n
  <2> SUFFICES ASSUME NEW n \in Nodes, NEW h \in Heaps, queue[n] = h
               PROVE  pos[n] < Len(heap[h]) /\ heap[h][pos[n] + 1] = n
    OBVIOUS
  <2>1. pos[n] \in 0 .. Len(heap[h]) - 1 /\ heap[h][pos[n] + 1] = n /\ Len(heap[h]) \in 0 .. N
    BY <1>2 DEF Queued
  <2> QED
    BY <1>1, <2>1
<1>6. \A h \in Heaps : Cardinality({n \in Nodes : queue[n] = h}) = Len(heap[h])
  BY <1>2 DEF Queued
<1> QED
  BY <1>3, <1>4, <1>5, <1>6 DEF HeapInv, PositionsRight

\* T has the vector of S, and its nodes have the same fields.
SameFields(S, pr, T, pr2) ==
  /\ T \in Vecs /\ T.v = S.v /\ pr \in [Nodes -> Int] /\ pr2 \in [Nodes -> Int]
  /\ \A n \in Members(S) : T.pos[n] = S.pos[n] /\ pr2[n] = pr[n]

\* A heap stays one while its vector and the fields of its nodes do.
LEMMA SameHeap ==
  ASSUME NEW S, NEW pr, Heap(S, pr), NEW T, NEW pr2, SameFields(S, pr, T, pr2)
  PROVE  Heap(T, pr2) /\ Members(T) = Members(S)
<1> USE DEF SameFields
<1> DEFINE m == Size(S)
<1>1. /\ m \in Nat /\ Size(T) = m /\ Indexed(S) /\ InOrder(Keys(S, pr), m)
      /\ \A i \in 0 .. m - 1 : Obj(T, i) = Obj(S, i) /\ Obj(S, i) \in Members(S)
  BY VecFact DEF Heap, Indexed, Size, Obj, Members
<1>2. Members(T) = Members(S)
  BY <1>1 DEF Members
<1>3. Indexed(T)
  BY <1>1 DEF Indexed
<1>4. \A i \in 0 .. m - 1 : Keys(S, pr)[i] = pr[Obj(S, i)]
  BY <1>1, KeysFact
<1>5. \A i \in 0 .. m - 1 : Keys(T, pr2)[i] = pr2[Obj(T, i)]
  BY <1>1, <1>3, KeysFact
<1> HIDE DEF m
<1>6. \A i \in 0 .. m - 1 : Keys(T, pr2)[i] = Keys(S, pr)[i]
  BY <1>1, <1>4, <1>5
<1>7. ASSUME NEW j \in 1 .. m - 1 PROVE Compare(Keys(T, pr2)[Parent(j)], Keys(T, pr2)[j])
  <2>1. j \in 0 .. m - 1 /\ Parent(j) \in 0 .. m - 1
    BY <1>1, ParentIn
  <2> QED
    BY <1>1, <1>6, <2>1 DEF InOrder
<1> QED
  BY <1>1, <1>2, <1>3, <1>7 DEF Heap, InOrder

\* Priorities are integers.
LEMMA PrioInt ==
  ASSUME NEW f \in [Nodes -> Priorities]
  PROVE  f \in [Nodes -> Int]
  BY HeapAssumption

\* The initial heaps.
LEMMA InitInv ==
  ASSUME Init
  PROVE  HeapsInv
<1> DEFINE N == Cardinality(Nodes)
           Full == {f \in [1 .. N -> Nodes] : \A n \in Nodes : \E i \in DOMAIN f : f[i] = n}
<1>1. PICK p \in Priorities, s \in {<<>>} \cup Full :
       /\ heap = [h \in Heaps |-> IF h = "moving" THEN s ELSE <<>>]
       /\ prio = [n \in Nodes |-> p]
       /\ pos = [n \in Nodes |-> IF s = <<>> THEN 0
                                 ELSE (CHOOSE i \in DOMAIN s : s[i] = n) - 1]
       /\ queue = [n \in Nodes |-> IF s = <<>> THEN "none" ELSE "moving"]
  BY DEF Init
<1>2. N \in Nat /\ p \in Int /\ ret = "none"
  BY HeapAssumption, FS_CardinalityType DEF Init
<1>3. s \in Seq(Nodes) /\ (s # <<>> => s \in Full)
  <2>1. Full \subseteq Seq(Nodes)
    BY <1>2
  <2> HIDE DEF Full
  <2>2. <<>> \in Seq(Nodes) /\ (s = <<>> \/ s \in Full)
    BY <1>1
  <2> QED
    BY <2>1, <2>2
<1>4. \A n \in Nodes : s # <<>> =>
        pos[n] = (CHOOSE i \in DOMAIN s : s[i] = n) - 1 /\ pos[n] + 1 \in 1 .. N /\ s[pos[n] + 1] = n
  <2> SUFFICES ASSUME NEW n \in Nodes, s # <<>>
               PROVE  pos[n] = (CHOOSE i \in DOMAIN s : s[i] = n) - 1
                      /\ pos[n] + 1 \in 1 .. N /\ s[pos[n] + 1] = n
    OBVIOUS
  <2> DEFINE c == CHOOSE i \in DOMAIN s : s[i] = n
  <2>1. pos[n] = c - 1
    BY <1>1
  <2>2. s \in [1 .. N -> Nodes] /\ \E i \in DOMAIN s : s[i] = n
    BY <1>3
  <2>3. c \in DOMAIN s /\ s[c] = n
    BY <2>2
  <2>4. c \in 1 .. N
    BY <2>2, <2>3
  <2> HIDE DEF c
  <2>5. pos[n] + 1 = c
    BY <1>2, <2>1, <2>4
  <2> QED
    BY <2>1, <2>3, <2>4, <2>5 DEF c
<1>5. pos \in [Nodes -> Int] /\ (s = <<>> => \A n \in Nodes : pos[n] = 0)
  <2>1. CASE s = <<>>
    BY <1>1, <2>1
  <2>2. CASE s # <<>>
    <3>1. \A n \in Nodes : (CHOOSE i \in DOMAIN s : s[i] = n) \in Int
      <4> SUFFICES ASSUME NEW n \in Nodes PROVE (CHOOSE i \in DOMAIN s : s[i] = n) \in Int
        OBVIOUS
      <4>1. s \in [1 .. N -> Nodes] /\ \E i \in DOMAIN s : s[i] = n
        BY <1>3, <2>2
      <4>2. (CHOOSE i \in DOMAIN s : s[i] = n) \in 1 .. N
        BY <4>1
      <4> QED
        BY <1>2, <4>2
    <3>2. \A n \in Nodes : pos[n] = (CHOOSE i \in DOMAIN s : s[i] = n) - 1
      BY <1>4, <2>2
    <3>3. \A n \in Nodes : pos[n] \in Int
      BY <3>1, <3>2
    <3>4. pos = [n \in Nodes |-> pos[n]]
      BY <1>1
    <3> QED
      BY <2>2, <3>3, <3>4
  <2> QED
    BY <2>1, <2>2
<1>6. heap \in [Heaps -> Seq(Nodes)] /\ heap["moving"] = s /\ heap["stati"] = <<>>
  BY <1>1, <1>3 DEF Heaps
<1>7. prio \in [Nodes -> Priorities] /\ prio \in [Nodes -> Int] /\ \A n \in Nodes : prio[n] = p
  BY <1>1, <1>2
<1>8. /\ queue \in [Nodes -> Heaps \cup {"none"}]
      /\ \A n \in Nodes : queue[n] = IF s = <<>> THEN "none" ELSE "moving"
  BY <1>1 DEF Heaps
<1> HIDE DEF N, Full
<1>9. ASSUME NEW h \in Heaps, heap[h] = <<>>
      PROVE  Heap(Rec(h), prio) /\ Members(Rec(h)) = {}
  <2>1. Rec(h) \in Vecs /\ Size(Rec(h)) = 0
    BY <1>5, <1>9 DEF Vecs, Rec, Size
  <2> QED
    BY <2>1 DEF Heap, Indexed, Members, InOrder
<1>10. CASE s = <<>>
  <2>1. \A h \in Heaps : heap[h] = <<>> /\ Queued(h) = {}
    BY <1>6, <1>8, <1>10 DEF Heaps, Queued
  <2> QED
    BY <1>2, <1>5, <1>6, <1>7, <1>8, <1>9, <1>10, <2>1 DEF HeapsInv
<1>11. CASE s # <<>>
  <2> DEFINE S == Rec("moving")
  <2>1. s \in [1 .. N -> Nodes] /\ s \in Surjection(1 .. N, Nodes)
    BY <1>3, <1>11 DEF Full, Surjection
  <2>2. s \in Injection(1 .. N, Nodes)
    <3>1. IsFiniteSet(1 .. N) /\ Cardinality(1 .. N) = IF 1 > N THEN 0 ELSE N - 1 + 1
      BY <1>2, FS_Interval
    <3>2. Cardinality(1 .. N) = Cardinality(Nodes)
      BY <1>2, <3>1 DEF N
    <3> QED
      BY <2>1, <3>1, <3>2, FS_SurjSameCardinalityImpliesInj
  <2>3. \A k, l \in 1 .. N : s[k] = s[l] => k = l
    BY <2>1, <2>2 DEF Injection, IsInjective
  <2>4. S \in Vecs /\ Size(S) = N /\ S.v = s /\ S.pos = pos
    <3>1. Len(s) = N
      BY <1>2, <2>1
    <3> QED
      BY <1>3, <1>5, <1>6, <3>1 DEF Vecs, Rec, Size
  <2> HIDE DEF S
  <2>5. ASSUME NEW i \in 0 .. N - 1 PROVE Obj(S, i) \in Nodes /\ S.pos[Obj(S, i)] = i
    <3>1. i + 1 \in 1 .. N /\ Obj(S, i) = s[i + 1] /\ s[i + 1] \in Nodes /\ i \in Int
      BY <1>2, <2>1, <2>4 DEF Obj
    <3> DEFINE n == s[i + 1]
    <3>2. n \in Nodes /\ pos[n] \in Int /\ pos[n] + 1 \in 1 .. N /\ s[pos[n] + 1] = n
      BY <1>4, <1>5, <1>11, <3>1
    <3>3. pos[n] + 1 = i + 1
      BY <2>3, <3>1, <3>2
    <3> QED
      BY <2>4, <3>1, <3>2, <3>3
  <2>6. Indexed(S)
    BY <2>4, <2>5 DEF Indexed
  <2>7. InOrder(Keys(S, prio), N)
    <3>1. \A j \in 0 .. N - 1 : Keys(S, prio)[j] = p
      BY <1>7, <2>4, <2>5 DEF Keys
    <3> SUFFICES ASSUME NEW j \in 1 .. N - 1
                 PROVE  Compare(Keys(S, prio)[Parent(j)], Keys(S, prio)[j])
      BY DEF InOrder
    <3>2. j \in 0 .. N - 1 /\ Parent(j) \in 0 .. N - 1
      BY <1>2, ParentIn
    <3> QED
      BY <1>2, <3>1, <3>2, CompareFact
  <2>8. Members(S) = Nodes
    <3>1. Nodes \subseteq Members(S)
      <4> SUFFICES ASSUME NEW n \in Nodes PROVE n \in Members(S)
        OBVIOUS
      <4>1. pos[n] \in Int /\ pos[n] + 1 \in 1 .. N /\ s[pos[n] + 1] = n
        BY <1>4, <1>5, <1>11
      <4>2. pos[n] \in 0 .. Size(S) - 1 /\ Obj(S, pos[n]) = n
        BY <1>2, <2>4, <4>1 DEF Obj
      <4> QED
        BY <4>2 DEF Members
    <3> QED
      BY <2>4, <2>5, <3>1 DEF Members
  <2>9. Queued("moving") = Nodes /\ Queued("stati") = {}
    BY <1>8, <1>11 DEF Queued
  <2>10. Heap(Rec("moving"), prio) /\ Members(Rec("moving")) = Queued("moving")
    BY <2>4, <2>6, <2>7, <2>8, <2>9 DEF Heap, S
  <2>11. Heap(Rec("stati"), prio) /\ Members(Rec("stati")) = Queued("stati")
    BY <1>6, <1>9, <2>9 DEF Heaps
  <2>12. \A h \in Heaps : h = "moving" \/ h = "stati"
    BY DEF Heaps
  <2>13. \A n \in Nodes : queue[n] # "none"
    BY <1>8, <1>11
  <2> QED
    BY <1>2, <1>5, <1>6, <1>7, <1>8, <2>10, <2>11, <2>12, <2>13 DEF HeapsInv
<1> QED
  BY <1>10, <1>11

\* What a step does to the heap h: its vector becomes that of V.  The nodes of the
\* other heap keep their fields.
Replaces(h, V) ==
  /\ heap' = [heap EXCEPT ![h] = V.v] /\ Heap(V, prio') /\ Members(V) = Queued(h)'
  /\ pos' \in [Nodes -> Int] /\ prio' \in [Nodes -> Priorities]
  /\ queue' \in [Nodes -> Heaps \cup {"none"}]
  /\ ret' \in {"none", "pop", "pop_best", "pop_half", "remove"}
  /\ \A n \in Nodes : queue'[n] = "none" => pos'[n] = 0
  /\ \A n \in Members(V) : pos'[n] = V.pos[n]
  /\ \A n \in Nodes, g \in Heaps \ {h} :
       /\ queue'[n] = g <=> queue[n] = g
       /\ queue[n] = g => pos'[n] = pos[n] /\ prio'[n] = prio[n]

\* Such a step keeps the invariant.
LEMMA ReplacesKeeps ==
  ASSUME HeapsInv, NEW h \in Heaps, NEW V, Replaces(h, V)
  PROVE  HeapsInv'
<1>1. /\ heap \in [Heaps -> Seq(Nodes)] /\ prio \in [Nodes -> Int] /\ prio' \in [Nodes -> Int]
      /\ pos' \in [Nodes -> Int]
  BY PrioInt DEF HeapsInv, Replaces
<1>2. V \in Vecs /\ V.v \in Seq(Nodes)
  BY VecFact DEF Replaces, Heap, Indexed
<1>3. heap' \in [Heaps -> Seq(Nodes)] /\ heap'[h] = V.v /\ \A g \in Heaps \ {h} : heap'[g] = heap[g]
  BY <1>1, <1>2 DEF Replaces
<1>4. ASSUME NEW g \in Heaps PROVE Heap(Rec(g)', prio') /\ Members(Rec(g)') = Queued(g)'
  <2> DEFINE T == Rec(g)'
  <2>1. T \in Vecs /\ T.v = heap'[g] /\ T.pos = pos'
    BY <1>1, <1>3 DEF Rec, Vecs
  <2> HIDE DEF T
  <2>2. CASE g = h
    <3>1. T.v = V.v /\ Heap(V, prio') /\ \A n \in Members(V) : T.pos[n] = V.pos[n]
      BY <1>3, <2>1, <2>2 DEF Replaces
    <3>2. SameFields(V, prio', T, prio')
      BY <1>1, <2>1, <3>1 DEF SameFields
    <3>3. Heap(T, prio') /\ Members(T) = Members(V)
      BY <3>1, <3>2, SameHeap
    <3> QED
      BY <2>2, <3>3 DEF Replaces, T
  <2>3. CASE g # h
    <3> DEFINE S == Rec(g)
    <3>1. Heap(S, prio) /\ Members(S) = Queued(g) /\ S.v = heap[g] /\ S.pos = pos
      BY DEF HeapsInv, Rec
    <3> HIDE DEF S
    <3>2. Queued(g)' = Queued(g)
      BY <2>3 DEF Queued, Replaces
    <3>3. T.v = S.v /\ \A n \in Members(S) : T.pos[n] = S.pos[n] /\ prio'[n] = prio[n]
      BY <1>3, <2>1, <2>3, <3>1 DEF Queued, Replaces
    <3>4. SameFields(S, prio, T, prio')
      BY <1>1, <2>1, <3>3 DEF SameFields
    <3>5. Heap(T, prio') /\ Members(T) = Members(S)
      BY <3>1, <3>4, SameHeap
    <3> QED
      BY <3>1, <3>2, <3>5 DEF T
  <2> QED
    BY <2>2, <2>3
<1> QED
  BY <1>1, <1>3, <1>4 DEF HeapsInv, Replaces

\* The nodes of each heap, which is what PriorityBags sees.
Items == [h \in Heaps |-> Queued(h)]

\* The first node of a heap is a best one of it.
LEMMA HeapFirst ==
  ASSUME NEW S, NEW pr \in [Nodes -> Int], Heap(S, pr), Size(S) # 0
  PROVE  Best(S, pr) /\ Obj(S, 0) \in Members(S)
<1> DEFINE m == Size(S)
           K == Keys(S, pr)
<1>1. /\ m \in Nat /\ m # 0 /\ K \in [0 .. m - 1 -> Int] /\ InOrder(K, m)
      /\ \A k \in 0 .. m - 1 : K[k] = pr[Obj(S, k)]
  BY KeysFact DEF Heap
<1>2. 0 \in 0 .. m - 1 /\ \A k \in Members(S) : \E j \in 0 .. m - 1 : k = Obj(S, j)
  BY <1>1 DEF Members
<1>3. Obj(S, 0) \in Members(S)
  BY <1>2 DEF Members
<1> HIDE DEF m, K
<1>4. \A k \in 0 .. m - 1 : Compare(K[0], K[k])
  BY <1>1, FirstIsBest
<1> QED
  BY <1>1, <1>2, <1>3, <1>4 DEF Best

\* What the operations of a heap get: a heap with the nodes of its queue.
LEMMA HeapOf ==
  ASSUME HeapsInv, NEW h \in Heaps, NEW S, S = Rec(h)
  PROVE  /\ prio \in [Nodes -> Int] /\ Heap(S, prio) /\ Members(S) = Queued(h)
         /\ Size(S) = Len(heap[h]) /\ S.pos = pos /\ Obj(S, 0) = heap[h][1]
         /\ S \in Vecs /\ Queued(h) \subseteq Nodes
         /\ heap[h] # <<>> <=> Size(S) # 0
<1>1. prio \in [Nodes -> Int] /\ heap[h] \in Seq(Nodes)
  BY PrioInt DEF HeapsInv
<1>2. Size(S) = Len(heap[h]) /\ S.pos = pos /\ Obj(S, 0) = heap[h][1]
  BY DEF Rec, Size, Obj
<1>3. heap[h] # <<>> <=> Len(heap[h]) # 0
  BY <1>1
<1> QED
  BY <1>1, <1>2, <1>3 DEF HeapsInv, Heap, Indexed, Queued

\* An operation that takes nodes out of a heap and leaves a heap of the others.
TakesOut(op, h, V, taken) ==
  /\ op \in {"pop", "pop_best", "pop_half", "remove"} /\ h \in Heaps /\ taken \subseteq Queued(h)
  /\ TakeOut(op, h, V, taken) /\ Heap(V, prio) /\ Members(V) = Queued(h) \ taken
  /\ \A k \in Nodes \ Queued(h) : V.pos[k] = pos[k]

\* It keeps the invariant.
LEMMA TakesOutKeeps ==
  ASSUME HeapsInv, NEW op, NEW h, NEW V, NEW taken, TakesOut(op, h, V, taken)
  PROVE  /\ HeapsInv' /\ prio' = prio /\ ret' = op
         /\ Items' = [Items EXCEPT ![h] = @ \ taken]
<1>1. /\ h \in Heaps /\ taken \subseteq Queued(h) /\ op \in {"pop", "pop_best", "pop_half", "remove"}
      /\ Heap(V, prio) /\ Members(V) = Queued(h) \ taken
      /\ \A k \in Nodes \ Queued(h) : V.pos[k] = pos[k]
  BY DEF TakesOut
<1>2. /\ heap' = [heap EXCEPT ![h] = V.v] /\ ret' = op /\ prio' = prio
      /\ pos' = [n \in Nodes |-> IF n \in taken THEN 0 ELSE V.pos[n]]
      /\ queue' = [n \in Nodes |-> IF n \in taken THEN "none" ELSE queue[n]]
  BY DEF TakesOut, TakeOut
<1>3. V.pos \in [Nodes -> Int] /\ prio \in [Nodes -> Priorities]
      /\ queue \in [Nodes -> Heaps \cup {"none"}]
      /\ \A n \in Nodes : queue[n] = "none" => pos[n] = 0
  BY <1>1, VecFact DEF Heap, Indexed, HeapsInv
<1>4. \A n \in Nodes : /\ queue'[n] = IF n \in taken THEN "none" ELSE queue[n]
                       /\ pos'[n] = IF n \in taken THEN 0 ELSE V.pos[n]
  BY <1>2
<1>5. \A g \in Heaps : g # "none"
  BY DEF Heaps
<1>6. Queued(h)' = Queued(h) \ taken
  <2>1. \A n \in Nodes : queue'[n] = h <=> queue[n] = h /\ n \notin taken
    BY <1>1, <1>4, <1>5
  <2> QED
    BY <2>1 DEF Queued
<1>7. \A n \in Nodes, g \in Heaps \ {h} :
        /\ queue'[n] = g <=> queue[n] = g
        /\ queue[n] = g => pos'[n] = pos[n]
  <2> SUFFICES ASSUME NEW n \in Nodes, NEW g \in Heaps \ {h}
               PROVE  /\ queue'[n] = g <=> queue[n] = g
                      /\ queue[n] = g => pos'[n] = pos[n]
    OBVIOUS
  <2>1. n \in taken => queue[n] = h
    BY <1>1 DEF Queued
  <2>2. queue[n] # h => pos'[n] = pos[n]
    BY <1>1, <1>4, <2>1 DEF Queued
  <2> QED
    BY <1>4, <1>5, <2>1, <2>2
<1>8. ASSUME NEW n \in Nodes, queue'[n] = "none" PROVE pos'[n] = 0
  <2>1. CASE n \in taken
    BY <1>4, <2>1
  <2>2. CASE n \notin taken
    <3>1. queue[n] = "none" /\ n \notin Queued(h)
      BY <1>1, <1>4, <1>5, <1>8, <2>2 DEF Queued
    <3> QED
      BY <1>1, <1>3, <1>4, <2>2, <3>1
  <2> QED
    BY <2>1, <2>2
<1>9. Replaces(h, V)
  <2>1. pos' \in [Nodes -> Int] /\ queue' \in [Nodes -> Heaps \cup {"none"}]
    BY <1>2, <1>3
  <2>2. \A n \in Members(V) : pos'[n] = V.pos[n]
    BY <1>1, <1>4 DEF Queued
  <2> QED
    BY <1>1, <1>2, <1>3, <1>6, <1>7, <1>8, <2>1, <2>2 DEF Replaces
<1>10. Items' = [Items EXCEPT ![h] = @ \ taken]
  <2>1. \A g \in Heaps \ {h} : Queued(g)' = Queued(g)
    BY <1>7 DEF Queued
  <2> QED
    BY <1>1, <1>6, <2>1 DEF Items
<1> QED
  BY <1>1, <1>2, <1>9, <1>10, ReplacesKeeps

\* pop takes out a best node of the heap, its first.
LEMMA PopStep ==
  ASSUME HeapsInv, NEW op \in {"pop", "pop_best"}, NEW h \in Heaps, PopFrom(op, h)
  PROVE  /\ HeapsInv' /\ prio' = prio /\ ret' = op
         /\ Items' = [Items EXCEPT ![h] = @ \ {heap[h][1]}]
         /\ heap[h][1] \in Queued(h)
         /\ \A n \in Queued(h) : Compare(prio[heap[h][1]], prio[n])
<1> DEFINE S == Rec(h)
           V == DoPop(S, prio)
           n == heap[h][1]
<1>1. /\ prio \in [Nodes -> Int] /\ Heap(S, prio) /\ Members(S) = Queued(h)
      /\ S.pos = pos /\ Obj(S, 0) = n /\ Size(S) # 0
  BY HeapOf DEF PopFrom
<1>2. TakeOut(op, h, V, {n})
  BY DEF PopFrom
<1> HIDE DEF S, V, n
<1>3. Lost(S, V, n) /\ Heap(V, prio)
  BY <1>1, DoPopIs DEF V
<1>4. n \in Queued(h) /\ \A k \in Queued(h) : Compare(prio[n], prio[k])
  BY <1>1, HeapFirst DEF Best
<1>5. TakesOut(op, h, V, {n})
  BY <1>1, <1>2, <1>3, <1>4 DEF TakesOut, Lost
<1> QED
  BY <1>4, <1>5, TakesOutKeeps DEF n

\* remove takes out the node it is given.
LEMMA RemoveStep ==
  ASSUME HeapsInv, NEW h \in Heaps, NEW n \in Nodes, Remove(h, n)
  PROVE  /\ HeapsInv' /\ prio' = prio /\ ret' = "remove" /\ n \in Queued(h)
         /\ Items' = [Items EXCEPT ![h] = @ \ {n}]
<1> DEFINE S == Rec(h)
           V == DoRemove(S, prio, n)
<1>1. /\ prio \in [Nodes -> Int] /\ Heap(S, prio) /\ Members(S) = Queued(h) /\ S.pos = pos
  BY HeapOf
<1>2. TakeOut("remove", h, V, {n}) /\ n \in Queued(h)
  BY DEF Remove, Queued
<1> HIDE DEF S, V
<1>3. Lost(S, V, n) /\ Heap(V, prio)
  BY <1>1, <1>2, DoRemoveIs DEF V
<1>4. TakesOut("remove", h, V, {n})
  BY <1>1, <1>2, <1>3 DEF TakesOut, Lost
<1> QED
  BY <1>2, <1>4, TakesOutKeeps

\* pop_half takes out up to half of the nodes, and not the first.
LEMMA PopHalfStep ==
  ASSUME HeapsInv, NEW h \in Heaps, PopHalf(h)
  PROVE  /\ HeapsInv' /\ prio' = prio /\ ret' = "pop_half"
         /\ \E taken \in SUBSET Queued(h) :
              /\ Items' = [Items EXCEPT ![h] = @ \ taken]
              /\ Cardinality(taken) \in 1 .. Half(Rec(h))
              /\ \E n \in Queued(h) \ taken : \A k \in Queued(h) : Compare(prio[n], prio[k])
<1> DEFINE S == Rec(h)
           R == DoPopHalf(S, prio)
           V == R.S
           taken == R.got
           c == Cardinality(taken)
<1>1. /\ prio \in [Nodes -> Int] /\ Heap(S, prio) /\ Members(S) = Queued(h)
      /\ S.pos = pos /\ S \in Vecs /\ Queued(h) \subseteq Nodes
  BY HeapOf
<1>2. TakeOut("pop_half", h, V, taken) /\ taken # {}
  BY DEF PopHalf
<1> HIDE DEF S
<1>3. R \in HalfStates(S, prio)
  BY <1>1, DoPopHalfIs
<1> HIDE DEF R
<1>4. /\ V \in Vecs /\ taken \subseteq Queued(h) /\ Heap(V, prio) /\ Members(V) = Queued(h) \ taken
      /\ Size(V) + c = Size(S) /\ c <= Half(S) /\ Obj(S, 0) \notin taken
      /\ \A k \in Nodes \ Queued(h) : V.pos[k] = pos[k]
  BY <1>1, <1>3 DEF HalfStates
<1> HIDE DEF V, taken
<1>5. TakesOut("pop_half", h, V, taken)
  BY <1>2, <1>4 DEF TakesOut
<1>6. IsFiniteSet(taken) /\ c \in Nat /\ c # 0
  <2>1. IsFiniteSet(taken)
    BY <1>1, <1>4, HeapAssumption, FS_Subset
  <2> QED
    BY <1>2, <2>1, FS_CardinalityType, FS_EmptySet
<1>7. Size(S) \in Nat /\ Size(V) \in Nat
  BY <1>1, <1>4, VecFact
<1>8. Half(S) \in Nat
  <2>1. Size(S) \div 2 \in Nat
    BY <1>7
  <2> QED
    BY <2>1, HeapAssumption DEF Half
<1>9. c \in 1 .. Half(S) /\ Size(S) # 0
  <2> HIDE DEF c
  <2> QED
    BY <1>4, <1>6, <1>7, <1>8
<1>10. Obj(S, 0) \in Queued(h) \ taken /\ \A k \in Queued(h) : Compare(prio[Obj(S, 0)], prio[k])
  BY <1>1, <1>4, <1>9, HeapFirst DEF Best
<1>11. HeapsInv' /\ prio' = prio /\ ret' = "pop_half" /\ Items' = [Items EXCEPT ![h] = @ \ taken]
  BY <1>5, TakesOutKeeps
<1> QED
  BY <1>4, <1>9, <1>10, <1>11 DEF S

\* insert adds a node that is in no queue.
LEMMA InsertStep ==
  ASSUME HeapsInv, NEW h \in Heaps, NEW n \in Nodes, NEW p \in Priorities, Insert(h, n, p)
  PROVE  /\ HeapsInv' /\ prio' = [prio EXCEPT ![n] = p] /\ ret' = "none" /\ queue[n] = "none"
         /\ Items' = [Items EXCEPT ![h] = @ \cup {n}]
<1> DEFINE S == Rec(h)
           V == DoInsert(S, prio', n)
<1>1. /\ prio \in [Nodes -> Int] /\ Heap(S, prio) /\ Members(S) = Queued(h)
      /\ S.pos = pos /\ S \in Vecs /\ Queued(h) \subseteq Nodes
  BY HeapOf
<1>2. /\ queue[n] = "none" /\ prio' = [prio EXCEPT ![n] = p] /\ queue' = [queue EXCEPT ![n] = h]
      /\ heap' = [heap EXCEPT ![h] = V.v] /\ pos' = V.pos /\ ret' = "none"
  BY DEF Insert, Store
<1> HIDE DEF S, V
<1>3. /\ prio \in [Nodes -> Priorities] /\ queue \in [Nodes -> Heaps \cup {"none"}]
      /\ \A k \in Nodes : queue[k] = "none" => pos[k] = 0
  BY DEF HeapsInv
<1>4. \A g \in Heaps : g # "none"
  BY DEF Heaps
<1>5. /\ prio' \in [Nodes -> Priorities] /\ queue' \in [Nodes -> Heaps \cup {"none"}]
      /\ queue'[n] = h /\ \A k \in Nodes \ {n} : prio'[k] = prio[k] /\ queue'[k] = queue[k]
  BY <1>2, <1>3
<1>6. prio' \in [Nodes -> Int]
  BY <1>5, PrioInt
<1>7. n \notin Queued(h)
  BY <1>2, <1>4 DEF Queued
<1>8. Heap(S, prio')
  <2>1. \A k \in Members(S) : prio'[k] = prio[k]
    BY <1>1, <1>5, <1>7
  <2>2. SameFields(S, prio, S, prio')
    BY <1>1, <1>6, <2>1 DEF SameFields
  <2> QED
    BY <1>1, <2>2, SameHeap
<1>9. /\ Heap(V, prio') /\ Members(V) = Queued(h) \cup {n}
      /\ \A k \in Nodes \ (Queued(h) \cup {n}) : V.pos[k] = pos[k]
  <2>1. n \in Nodes \ Members(S)
    BY <1>1, <1>7
  <2>2. /\ Heap(V, prio') /\ Members(V) = Members(S) \cup {n}
        /\ \A k \in Nodes \ (Members(S) \cup {n}) : V.pos[k] = S.pos[k]
    BY <1>6, <1>8, <2>1, DoInsertIs DEF V
  <2> QED
    BY <1>1, <2>2
<1>10. Queued(h)' = Queued(h) \cup {n}
  <2>1. \A k \in Nodes : queue'[k] = h <=> (queue[k] = h \/ k = n)
    BY <1>5
  <2> QED
    BY <2>1 DEF Queued
<1>11. \A k \in Nodes, g \in Heaps \ {h} :
         /\ queue'[k] = g <=> queue[k] = g
         /\ queue[k] = g => pos'[k] = pos[k] /\ prio'[k] = prio[k]
  <2> SUFFICES ASSUME NEW k \in Nodes, NEW g \in Heaps \ {h}
               PROVE  /\ queue'[k] = g <=> queue[k] = g
                      /\ queue[k] = g => pos'[k] = pos[k] /\ prio'[k] = prio[k]
    OBVIOUS
  <2>1. CASE k = n
    BY <1>2, <1>4, <1>5, <2>1
  <2>2. CASE k # n
    <3>1. queue[k] = g => k \notin Queued(h) \cup {n}
      BY <2>2 DEF Queued
    <3> QED
      BY <1>2, <1>5, <1>9, <2>2, <3>1
  <2> QED
    BY <2>1, <2>2
<1>12. ASSUME NEW k \in Nodes, queue'[k] = "none" PROVE pos'[k] = 0
  <2>1. k # n /\ queue[k] = "none"
    BY <1>4, <1>5, <1>12
  <2>2. k \notin Queued(h) \cup {n}
    BY <1>4, <2>1 DEF Queued
  <2> QED
    BY <1>2, <1>3, <1>9, <2>1, <2>2
<1>13. Replaces(h, V)
  <2>1. pos' \in [Nodes -> Int]
    BY <1>2, <1>9, VecFact DEF Heap, Indexed
  <2> QED
    BY <1>2, <1>5, <1>9, <1>10, <1>11, <1>12, <2>1 DEF Replaces
<1>14. Items' = [Items EXCEPT ![h] = @ \cup {n}]
  <2>1. \A g \in Heaps \ {h} : Queued(g)' = Queued(g)
    BY <1>11 DEF Queued
  <2> QED
    BY <1>10, <2>1 DEF Items
<1> QED
  BY <1>2, <1>13, <1>14, ReplacesKeeps

\* move_node changes the priority of a node of the heap.
LEMMA MoveNodeStep ==
  ASSUME HeapsInv, NEW h \in Heaps, NEW n \in Nodes, NEW p \in Priorities, MoveNode(h, n, p)
  PROVE  /\ HeapsInv' /\ prio' = [prio EXCEPT ![n] = p] /\ ret' = "none" /\ n \in Queued(h)
         /\ Items' = Items
<1> DEFINE S == Rec(h)
           V == DoMoveNode(S, prio', prio[n], n)
<1>1. /\ prio \in [Nodes -> Int] /\ Heap(S, prio) /\ Members(S) = Queued(h)
      /\ S.pos = pos /\ S \in Vecs /\ Queued(h) \subseteq Nodes
  BY HeapOf
<1>2. /\ n \in Queued(h) /\ prio' = [prio EXCEPT ![n] = p] /\ queue' = queue
      /\ heap' = [heap EXCEPT ![h] = V.v] /\ pos' = V.pos /\ ret' = "none"
  BY DEF MoveNode, Store, Queued
<1> HIDE DEF S, V
<1>3. /\ prio \in [Nodes -> Priorities] /\ queue \in [Nodes -> Heaps \cup {"none"}]
      /\ \A k \in Nodes : queue[k] = "none" => pos[k] = 0
  BY DEF HeapsInv
<1>4. \A g \in Heaps : g # "none"
  BY DEF Heaps
<1>5. prio' \in [Nodes -> Priorities] /\ \A k \in Nodes \ {n} : prio'[k] = prio[k]
  BY <1>2, <1>3
<1>6. Permuted(S, V) /\ Heap(V, prio')
  <2>1. n \in Members(S) /\ p \in Int
    BY <1>1, <1>2, HeapAssumption
  <2> QED
    BY <1>1, <1>2, <2>1, DoMoveNodeIs DEF V
<1>7. /\ Members(V) = Queued(h) /\ V \in Vecs
      /\ \A k \in Nodes \ Queued(h) : V.pos[k] = pos[k]
  BY <1>1, <1>6 DEF Permuted, Indexed
<1>8. \A k \in Nodes : queue[k] # h => k \notin Queued(h) /\ k # n
  BY <1>2 DEF Queued
<1>9. \A g : Queued(g)' = Queued(g)
  BY <1>2 DEF Queued
<1>10. Replaces(h, V)
  <2>1. pos' \in [Nodes -> Int]
    BY <1>2, <1>7, VecFact
  <2>2. \A k \in Nodes : queue'[k] = "none" => pos'[k] = 0
    BY <1>2, <1>3, <1>4, <1>7, <1>8
  <2>3. \A k \in Nodes : queue[k] # h => pos'[k] = pos[k] /\ prio'[k] = prio[k]
    BY <1>2, <1>5, <1>7, <1>8
  <2> QED
    BY <1>2, <1>3, <1>5, <1>6, <1>7, <1>9, <2>1, <2>2, <2>3 DEF Replaces
<1>11. Items' = Items
  BY <1>9 DEF Items
<1> QED
  BY <1>2, <1>10, <1>11, ReplacesKeeps

\* pop_best takes out a best node of both heaps.
LEMMA PopBestStep ==
  ASSUME HeapsInv, PopBest
  PROVE  /\ HeapsInv' /\ prio' = prio /\ ret' = "pop_best"
         /\ \E h \in Heaps : \E n \in Queued(h) :
              /\ Items' = [Items EXCEPT ![h] = @ \ {n}]
              /\ \A g \in Heaps : \A k \in Queued(g) : Compare(prio[n], prio[k])
<1> DEFINE m == heap["moving"]
           s == heap["stati"]
           movingFirst == s = <<>> \/ (m # <<>> /\ Compare(prio[m[1]], prio[s[1]]))
           h == IF movingFirst THEN "moving" ELSE "stati"
           n == heap[h][1]
<1>1. h \in Heaps /\ PopFrom("pop_best", h) /\ \A g \in Heaps : g = "moving" \/ g = "stati"
  BY DEF PopBest, Heaps
<1>2. /\ HeapsInv' /\ prio' = prio /\ ret' = "pop_best"
      /\ Items' = [Items EXCEPT ![h] = @ \ {n}] /\ n \in Queued(h)
      /\ \A k \in Queued(h) : Compare(prio[n], prio[k])
  <2> HIDE DEF h
  <2> QED
    BY <1>1, PopStep
<1>3. heap[h] # <<>> /\ "moving" \in Heaps /\ "stati" \in Heaps
  BY <1>1 DEF PopFrom, Heaps
<1>4. ASSUME NEW g \in Heaps
      PROVE  /\ heap[g] = <<>> => Queued(g) = {}
             /\ heap[g] # <<>> => /\ prio[heap[g][1]] \in Int
                                  /\ \A k \in Queued(g) : /\ Compare(prio[heap[g][1]], prio[k])
                                                          /\ prio[k] \in Int
  <2> DEFINE S == Rec(g)
  <2>1. /\ prio \in [Nodes -> Int] /\ Heap(S, prio) /\ Members(S) = Queued(g)
        /\ Obj(S, 0) = heap[g][1] /\ Queued(g) \subseteq Nodes /\ S \in Vecs
        /\ heap[g] # <<>> <=> Size(S) # 0
    BY HeapOf
  <2> HIDE DEF S
  <2>2. Size(S) = 0 => Members(S) = {}
    BY DEF Members
  <2>3. Size(S) # 0 => Best(S, prio) /\ Obj(S, 0) \in Members(S)
    BY <2>1, HeapFirst
  <2> QED
    BY <2>1, <2>2, <2>3 DEF Best
<1> DEFINE Top(g) == heap[g][1]
<1>5. ASSUME NEW g \in Heaps, heap[g] # <<>> PROVE Compare(prio[n], prio[Top(g)])
  <2>1. prio[Top(g)] \in Int /\ prio[n] \in Int
    BY <1>1, <1>3, <1>4, <1>5
  <2>2. CASE g = h
    BY <2>1, <2>2, CompareFact
  <2>3. CASE g # h
    <3>1. CASE movingFirst
      BY <1>1, <1>5, <2>3, <3>1
    <3>2. CASE ~movingFirst
      <4>1. g = "moving" /\ Top(g) = m[1] /\ n = s[1] /\ ~Compare(prio[m[1]], prio[s[1]])
        BY <1>1, <1>5, <2>3, <3>2
      <4> QED
        BY <2>1, <4>1, CompareFact
    <3> QED
      BY <3>1, <3>2
  <2> QED
    BY <2>2, <2>3
<1>6. ASSUME NEW g \in Heaps, NEW k \in Queued(g) PROVE Compare(prio[n], prio[k])
  <2>1. heap[g] # <<>> /\ Compare(prio[Top(g)], prio[k]) /\ prio[k] \in Int /\ prio[Top(g)] \in Int
    BY <1>4
  <2>2. Compare(prio[n], prio[Top(g)]) /\ prio[n] \in Int
    BY <1>1, <1>3, <1>4, <1>5, <2>1
  <2> QED
    BY <2>1, <2>2, CompareFact
<1> HIDE DEF h, n
<1> QED
  BY <1>1, <1>2, <1>6

-----------------------------------------------------------------------------
(* The theorems *)

\* Every step keeps the invariant.
LEMMA NextInv ==
  ASSUME HeapsInv, [Next]_vars
  PROVE  HeapsInv'
<1>1. CASE PopBest
  BY <1>1, PopBestStep
<1>2. ASSUME NEW h \in Heaps, Pop(h) PROVE HeapsInv'
  BY <1>2, PopStep DEF Pop
<1>3. ASSUME NEW h \in Heaps, PopHalf(h) PROVE HeapsInv'
  BY <1>3, PopHalfStep
<1>4. ASSUME NEW h \in Heaps, NEW n \in Nodes, Remove(h, n) PROVE HeapsInv'
  BY <1>4, RemoveStep
<1>5. ASSUME NEW h \in Heaps, NEW n \in Nodes, NEW p \in Priorities, Insert(h, n, p)
      PROVE  HeapsInv'
  BY <1>5, InsertStep
<1>6. ASSUME NEW h \in Heaps, NEW n \in Nodes, NEW p \in Priorities, MoveNode(h, n, p)
      PROVE  HeapsInv'
  BY <1>6, MoveNodeStep
<1>7. CASE UNCHANGED vars
  BY <1>7 DEF vars, HeapsInv, Rec, Queued
<1> QED
  BY <1>1, <1>2, <1>3, <1>4, <1>5, <1>6, <1>7 DEF Next

\* The invariant holds in every state.
THEOREM AlwaysHeaps == Spec => []HeapsInv
<1>1. Init => HeapsInv
  BY InitInv
<1>2. HeapsInv /\ [Next]_vars => HeapsInv'
  BY NextInv
<1> QED
  BY <1>1, <1>2, PTL DEF Spec

\* In every state no node of a heap is better than its parent, and the index and the
\* queue mark stored in a node lead to the node's place, for any number of nodes, any
\* priorities and both orders.
THEOREM HeapsWellFormed == Spec => []HeapInv
<1>1. HeapsInv => HeapInv
  BY InvImplies
<1> QED
  BY <1>1, AlwaysHeaps, PTL

\* The nodes of the heaps as PriorityBags sees them.
LEMMA BagsItems ==
  ASSUME HeapsInv
  PROVE  /\ \A h \in Heaps : Items[h] = Queued(h)
         /\ \A n \in Nodes : queue[n] = "none" => \A h \in Heaps : n \notin Queued(h)
         /\ \A h \in Heaps : Half(Rec(h)) = IF Cardinality(Queued(h)) \div 2 < StealMax
                                              THEN Cardinality(Queued(h)) \div 2 ELSE StealMax
<1>1. \A h \in Heaps : Items[h] = Queued(h)
  BY DEF Items
<1>2. \A n \in Nodes : queue[n] = "none" => \A h \in Heaps : n \notin Queued(h)
  BY DEF Queued, Heaps
<1>3. ASSUME NEW h \in Heaps PROVE Cardinality(Queued(h)) = Size(Rec(h))
  BY MembersSize DEF HeapsInv, Heap
<1> QED
  BY <1>1, <1>2, <1>3 DEF Half

\* Every step is one of the bags, or changes nothing they see.
LEMMA StepImplements ==
  ASSUME HeapsInv, [Next]_vars
  PROVE  [Bags!Next]_(Bags!bagVars)
<1>1. Items = [h \in Heaps |-> {n \in Nodes : queue[n] = h}]
  BY DEF Items, Queued
<1>2. Items' = [h \in Heaps |-> {n \in Nodes : queue'[n] = h}]
  BY DEF Items, Queued
<1>3. \A h \in Heaps : Items[h] = Queued(h)
  BY BagsItems
<1>4. \A p, q : Bags!Compare(p, q) <=> Compare(p, q)
  BY DEF Bags!Compare, Compare
<1>5. CASE PopBest
  <2>1. prio' = prio /\ ret' = "pop_best"
    BY <1>5, PopBestStep
  <2>2. PICK h \in Heaps : \E n \in Queued(h) :
          /\ Items' = [Items EXCEPT ![h] = @ \ {n}]
          /\ \A g \in Heaps : \A k \in Queued(g) : Compare(prio[n], prio[k])
    BY <1>5, PopBestStep
  <2>3. PICK n \in Queued(h) :
          /\ Items' = [Items EXCEPT ![h] = @ \ {n}]
          /\ \A g \in Heaps : \A k \in Queued(g) : Compare(prio[n], prio[k])
    BY <2>2
  <2>4. \A k \in Bags!All : Bags!Compare(prio[n], prio[k])
    BY <1>4, <2>3 DEF Bags!All, Queued
  <2>5. Bags!BestOf(Bags!All, n)
    BY <2>4 DEF Bags!BestOf
  <2>6. Bags!Take("pop_best", h, {n})
    BY <1>1, <1>2, <2>1, <2>3 DEF Bags!Take
  <2>7. n \in [g \in Heaps |-> {k \in Nodes : queue[k] = g}][h]
    BY <1>1, <1>3, <2>3
  <2>8. Bags!PopBest
    BY <2>1, <2>5, <2>6, <2>7 DEF Bags!PopBest
  <2> QED
    BY <2>8 DEF Bags!Next
<1>6. ASSUME NEW h \in Heaps, Pop(h) PROVE Bags!Pop(h)
  <2> DEFINE n == heap[h][1]
  <2>1. /\ prio' = prio /\ ret' = "pop" /\ Items' = [Items EXCEPT ![h] = @ \ {n}]
        /\ n \in Queued(h) /\ \A k \in Queued(h) : Compare(prio[n], prio[k])
    BY <1>6, PopStep DEF Pop
  <2> HIDE DEF n
  <2>2. n \in Items[h] /\ \A k \in Items[h] : Bags!Compare(prio[n], prio[k])
    BY <1>3, <1>4, <2>1
  <2> QED
    BY <1>1, <1>2, <2>1, <2>2 DEF Bags!Pop, Bags!BestOf, Bags!Take
<1>7. ASSUME NEW h \in Heaps, PopHalf(h) PROVE Bags!PopHalf(h)
  <2>1. prio' = prio /\ ret' = "pop_half"
    BY <1>7, PopHalfStep
  <2>2. PICK taken \in SUBSET Queued(h) :
          /\ Items' = [Items EXCEPT ![h] = @ \ taken]
          /\ Cardinality(taken) \in 1 .. Half(Rec(h))
          /\ \E n \in Queued(h) \ taken : \A k \in Queued(h) : Compare(prio[n], prio[k])
    BY <1>7, PopHalfStep
  <2>3. PICK n \in Queued(h) \ taken : \A k \in Queued(h) : Compare(prio[n], prio[k])
    BY <2>2
  <2>4. /\ taken \in SUBSET Items[h] /\ n \in Items[h] \ taken
        /\ \A k \in taken : Bags!Compare(prio[n], prio[k])
    BY <1>3, <1>4, <2>3
  <2>5. Half(Rec(h)) = IF Cardinality(Items[h]) \div 2 < StealMax
                         THEN Cardinality(Items[h]) \div 2 ELSE StealMax
    BY <1>3, BagsItems
  <2>6. Bags!BestOf(taken, n)
    BY <2>4 DEF Bags!BestOf
  <2>7. Bags!Take("pop_half", h, taken)
    BY <1>1, <1>2, <2>1, <2>2 DEF Bags!Take
  <2> DEFINE I == [g \in Heaps |-> {k \in Nodes : queue[k] = g}]
             size == Bags!Cardinality(I[h])
             half == IF size \div 2 < StealMax THEN size \div 2 ELSE StealMax
  <2>8. \A S : Bags!Cardinality(S) = Cardinality(S)
    BY DEF Bags!Cardinality, Cardinality
  <2>9. I = Items /\ Bags!Cardinality(taken) \in 1 .. half
    BY <1>1, <2>2, <2>5, <2>8
  <2>10. \E S \in SUBSET I[h] :
           /\ Bags!Cardinality(S) \in 1 .. half
           /\ \E k \in I[h] \ S : Bags!BestOf(S, k)
           /\ Bags!Take("pop_half", h, S) /\ UNCHANGED prio
    <3> HIDE DEF I, size, half
    <3> QED
      BY <2>1, <2>4, <2>6, <2>7, <2>9
  <2> QED
    BY <2>10 DEF Bags!PopHalf
<1>8. ASSUME NEW h \in Heaps, NEW n \in Nodes, Remove(h, n) PROVE Bags!Remove(h, n)
  <2>1. /\ prio' = prio /\ ret' = "remove" /\ n \in Queued(h)
        /\ Items' = [Items EXCEPT ![h] = @ \ {n}]
    BY <1>8, RemoveStep
  <2> QED
    BY <1>1, <1>2, <1>3, <2>1 DEF Bags!Remove, Bags!Take
<1>9. ASSUME NEW h \in Heaps, NEW n \in Nodes, NEW p \in Priorities, Insert(h, n, p)
      PROVE  Bags!Insert(h, n, p)
  <2>1. /\ prio' = [prio EXCEPT ![n] = p] /\ ret' = "none" /\ queue[n] = "none"
        /\ Items' = [Items EXCEPT ![h] = @ \cup {n}]
    BY <1>9, InsertStep
  <2>2. n \notin Bags!All
    BY <2>1, BagsItems DEF Bags!All, Queued
  <2> QED
    BY <1>1, <1>2, <2>1, <2>2 DEF Bags!Insert
<1>10. ASSUME NEW h \in Heaps, NEW n \in Nodes, NEW p \in Priorities, MoveNode(h, n, p)
       PROVE  Bags!MoveNode(h, n, p)
  <2>1. /\ prio' = [prio EXCEPT ![n] = p] /\ ret' = "none" /\ n \in Queued(h) /\ Items' = Items
    BY <1>10, MoveNodeStep
  <2> QED
    BY <1>1, <1>2, <1>3, <2>1 DEF Bags!MoveNode
<1>11. CASE UNCHANGED vars
  BY <1>11 DEF vars, Bags!bagVars
<1> QED
  BY <1>5, <1>6, <1>7, <1>8, <1>9, <1>10, <1>11 DEF Next, Bags!Next

\* The heaps are priority queues: what pop and pop_best take is a best node of the
\* heap or of both, and a thief's pop_half takes at most half and leaves a node as
\* good as the best it takes.
THEOREM HeapsImplementBags == Spec => ImplementsBags
<1>1. HeapsInv /\ [Next]_vars => [Bags!Next]_(Bags!bagVars)
  BY StepImplements
<1> QED
  BY <1>1, AlwaysHeaps, PTL DEF Spec, ImplementsBags, Bags!Spec
================================================================================
