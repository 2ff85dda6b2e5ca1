---------------------------- MODULE ComplexPqueue ----------------------------
(***************************************************************************)
(* The priority queues of a thread (queue/safe_complex_pqueue.hpp,         *)
(* queue/heap_implementation.hpp): binary heaps of nodes, where each node  *)
(* stores its own priority and its index in the heap.  The operations hold *)
(* the mutex of the heap (pop_best those of both), so each is one step.    *)
(* Indices count from 0 as in the code.                                    *)
(***************************************************************************)
EXTENDS Integers, Sequences, FiniteSets

CONSTANTS
  Nodes, Priorities,
  StealMax,      \* NODE_BUFFER_SIZE
  Desc,          \* HEAP_DESC rather than HEAP_ASC
  StaticMax      \* bound: nodes that wait in the static queue

ASSUME HeapAssumption == /\ IsFiniteSet(Nodes) /\ Priorities \subseteq Int /\ StealMax \in Nat
                         /\ Desc \in BOOLEAN /\ StaticMax \in Nat

Heaps == {"moving", "stati"}     \* prios.moving, prios.stati

VARIABLES
  heap,      \* the vector of each queue
  pos,       \* __INTRUSIVE_POS of each node
  prio,      \* __INTRUSIVE_PRIORITY of each node
  queue,     \* __INTRUSIVE_QUEUE of each node: a heap or "none"
  ret        \* the last operation, "none" when it took no node out

vars == <<heap, pos, prio, queue, ret>>

\* HEAP_COMPARE
Compare(p, q) == IF Desc THEN p >= q ELSE p <= q

-----------------------------------------------------------------------------
(* The heap algorithms work on a record S of a vector `v' and the indices  *)
(* `pos', under the priorities pr.                                         *)

Size(S) == Len(S.v)
Obj(S, i) == S.v[i + 1]
Parent(i) == (i - 1) \div 2
Left(S, i) == IF 2 * i + 1 < Size(S) THEN 2 * i + 1 ELSE -1
Right(S, i) == IF 2 * i + 2 < Size(S) THEN 2 * i + 2 ELSE -1

\* HEAP_SET_INDEX
SetIndex(S, i, n) == [v |-> [S.v EXCEPT ![i + 1] = n], pos |-> [S.pos EXCEPT ![n] = i]]
Exchange(S, i, j) == SetIndex(SetIndex(S, i, Obj(S, j)), j, Obj(S, i))
PopBack(S) == [S EXCEPT !.v = SubSeq(@, 1, Len(@) - 1)]

\* a turn of the loop of heapifyup at index L.i; a loop that has ended stays as it is
UpTurn(L, pr) ==
  IF L.i > 0 /\ ~Compare(pr[Obj(L.S, Parent(L.i))], pr[Obj(L.S, L.i)])
    THEN [S |-> Exchange(L.S, L.i, Parent(L.i)), i |-> Parent(L.i)]
    ELSE L

\* the index goes down in every turn
HeapifyUp(S, pr, i) ==
  LET turn[k \in 0 .. i] == IF k = 0 THEN [S |-> S, i |-> i] ELSE UpTurn(turn[k - 1], pr)
  IN  turn[i].S

\* the child that goes up, -1 when the node may stay
SmallerChild(S, pr, i) ==
  LET l == Left(S, i)
      r == Right(S, i)
      stays(c) == Compare(pr[Obj(S, i)], pr[Obj(S, c)])
  IN  IF l < 0 \/ (stays(l) /\ (r < 0 \/ stays(r))) THEN -1
      ELSE IF r >= 0 /\ Compare(pr[Obj(S, r)], pr[Obj(S, l)]) THEN r ELSE l

DownTurn(L, pr) ==
  LET c == SmallerChild(L.S, pr, L.i)
  IN  IF c < 0 THEN L ELSE [S |-> Exchange(L.S, L.i, c), i |-> c]

\* the index goes up in every turn
HeapifyDown(S, pr, i) ==
  LET turn[k \in 0 .. Size(S)] ==
        IF k = 0 THEN [S |-> S, i |-> i] ELSE DownTurn(turn[k - 1], pr)
  IN  turn[Size(S)].S

DoInsert(S, pr, n) ==
  LET T == [v |-> Append(S.v, n), pos |-> [S.pos EXCEPT ![n] = Len(S.v)]]
  IN  HeapifyUp(T, pr, Size(T) - 1)

DoPop(S, pr) ==
  IF Size(S) > 1
    THEN HeapifyDown(PopBack(SetIndex(S, 0, Obj(S, Size(S) - 1))), pr, 0)
    ELSE PopBack(S)

\* mutant: the node that fills the hole is only sifted down
DoRemoveDownOnly(S, pr, n) ==
  LET index == S.pos[n]
      T == PopBack(S)
  IN  IF Size(T) = 0 \/ index = Size(T) THEN T
      ELSE HeapifyDown(SetIndex(T, index, Obj(S, Size(S) - 1)), pr, index)

DoRemove(S, pr, n) ==
  LET index == S.pos[n]
      tmp == Obj(S, Size(S) - 1)
      T == PopBack(S)
      U == SetIndex(T, index, tmp)
  IN  IF Size(T) = 0 \/ index = Size(T) THEN T
      ELSE IF index # 0 /\ Compare(pr[tmp], pr[Obj(U, Parent(index))])
        THEN HeapifyUp(U, pr, index)
        ELSE HeapifyDown(U, pr, index)

\* pr has the new priority of n, old is the one it had
DoMoveNode(S, pr, old, n) ==
  IF Compare(pr[n], old) THEN HeapifyUp(S, pr, S.pos[n])
                         ELSE HeapifyDown(S, pr, S.pos[n])

\* a turn of the loops of do_pop_half: level by level from index 1, never the root
HalfTurn(H, pr, half) ==
  LET idx == IF H.i + H.j < Size(H.S) - 1 THEN H.i + H.j ELSE Size(H.S) - 1
      n == Obj(H.S, idx)
      inner == H.j + 1 < H.level \div 2
  IN  IF Cardinality(H.got) = half \/ (H.j = 0 /\ H.i >= Size(H.S)) THEN H
      ELSE [S |-> DoRemove(H.S, pr, n), got |-> H.got \cup {n},
            i |-> IF inner THEN H.i ELSE H.i + H.level,
            j |-> IF inner THEN H.j + 1 ELSE 0,
            level |-> IF inner THEN H.level ELSE 2 * H.level]

Half(S) == IF Size(S) \div 2 < StealMax THEN Size(S) \div 2 ELSE StealMax

\* every turn gets a node
DoPopHalf(S, pr) ==
  LET turn[k \in 0 .. Half(S)] ==
        IF k = 0 THEN [S |-> S, got |-> {}, i |-> 1, j |-> 0, level |-> 2]
                 ELSE HalfTurn(turn[k - 1], pr, Half(S))
  IN  turn[Half(S)]

-----------------------------------------------------------------------------

Init ==
  \* init() of a thread with scheduling by priority fills the moving queue with
  \* its nodes, all of the same priority; otherwise the queues start empty
  /\ \E p \in Priorities, s \in {<<>>} \cup {f \in [1 .. Cardinality(Nodes) -> Nodes] :
                                          \A n \in Nodes : \E i \in DOMAIN f : f[i] = n} :
       /\ heap = [h \in Heaps |-> IF h = "moving" THEN s ELSE <<>>]
       /\ prio = [n \in Nodes |-> p]
       /\ pos = [n \in Nodes |-> IF s = <<>> THEN 0
                                 ELSE (CHOOSE i \in DOMAIN s : s[i] = n) - 1]
       /\ queue = [n \in Nodes |-> IF s = <<>> THEN "none" ELSE "moving"]
  /\ ret = "none"

Rec(h) == [v |-> heap[h], pos |-> pos]
Store(h, S) == heap' = [heap EXCEPT ![h] = S.v] /\ pos' = S.pos
\* the index of a node in no heap is never read: callers test in_queue first;
\* it is set to 0 here so that it tells no states apart
TakeOut(op, h, S, taken) ==
  /\ heap' = [heap EXCEPT ![h] = S.v]
  /\ pos' = [n \in Nodes |-> IF n \in taken THEN 0 ELSE S.pos[n]]
  /\ queue' = [n \in Nodes |-> IF n \in taken THEN "none" ELSE queue[n]]
  /\ ret' = op
  /\ UNCHANGED prio

\* the node comes out of another queue, its fields hold anything
Insert(h, n, p) ==
  /\ queue[n] = "none"
  /\ h = "stati" => Len(heap[h]) < StaticMax
  /\ prio' = [prio EXCEPT ![n] = p]
  /\ queue' = [queue EXCEPT ![n] = h]
  /\ Store(h, DoInsert(Rec(h), prio', n))
  /\ ret' = "none"

PopFrom(op, h) ==
  heap[h] # <<>> /\ TakeOut(op, h, DoPop(Rec(h), prio), {heap[h][1]})
Pop(h) == PopFrom("pop", h)

\* mutant: the moving queue goes first whenever it has a node
PopBestMovingFirst ==
  \/ PopFrom("pop_best", "moving")
  \/ heap["moving"] = <<>> /\ PopFrom("pop_best", "stati")

PopBest ==
  LET m == heap["moving"]
      s == heap["stati"]
      movingFirst == s = <<>> \/ (m # <<>> /\ Compare(prio[m[1]], prio[s[1]]))
  IN  PopFrom("pop_best", IF movingFirst THEN "moving" ELSE "stati")

Remove(h, n) == queue[n] = h /\ TakeOut("remove", h, DoRemove(Rec(h), prio, n), {n})

MoveNode(h, n, p) ==
  /\ queue[n] = h
  /\ prio' = [prio EXCEPT ![n] = p]
  /\ Store(h, DoMoveNode(Rec(h), prio', prio[n], n))
  /\ ret' = "none"
  /\ UNCHANGED queue

PopHalf(h) ==
  LET result == DoPopHalf(Rec(h), prio)
  IN  result.got # {} /\ TakeOut("pop_half", h, result.S, result.got)

Next ==
  \/ PopBest
  \/ \E h \in Heaps :
       \/ Pop(h) \/ PopHalf(h)
       \/ \E n \in Nodes : \/ Remove(h, n)
                           \/ \E p \in Priorities : Insert(h, n, p) \/ MoveNode(h, n, p)

Spec == Init /\ [][Next]_vars

-----------------------------------------------------------------------------

\* Types of the vectors and of the fields stored in the nodes
TypeOK ==
  /\ heap \in [Heaps -> UNION {[1 .. k -> Nodes] : k \in 0 .. Cardinality(Nodes)}]
  /\ pos \in [Nodes -> 0 .. Cardinality(Nodes) - 1]
  /\ prio \in [Nodes -> Priorities]
  /\ queue \in [Nodes -> Heaps \cup {"none"}]
  /\ ret \in {"none", "pop", "pop_best", "pop_half", "remove"}

\* What assert_heap checks: no node is better than its parent.
HeapOrder ==
  \A h \in Heaps : \A i \in 1 .. Len(heap[h]) - 1 :
    Compare(prio[heap[h][Parent(i) + 1]], prio[heap[h][i + 1]])

\* The index and the queue mark stored in a node lead to the node's place in
\* its heap, which remove and move_node rely on.
PositionsRight ==
  /\ TypeOK
  /\ \A n \in Nodes, h \in Heaps : queue[n] = h =>
       pos[n] < Len(heap[h]) /\ heap[h][pos[n] + 1] = n
  /\ \A h \in Heaps : Cardinality({n \in Nodes : queue[n] = h}) = Len(heap[h])

\* The heaps are well formed in themselves and with the fields of the nodes: every
\* sift goes far enough, up or down, and writes the indices it changes.
HeapInv == HeapOrder /\ PositionsRight

Bags == INSTANCE PriorityBags WITH items <- [h \in Heaps |-> {n \in Nodes : queue[n] = h}]

\* The heaps are priority queues: what leaves them is what should.
ImplementsBags == Bags!Spec
================================================================================
