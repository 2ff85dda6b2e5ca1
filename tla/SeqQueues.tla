------------------------------ MODULE SeqQueues ------------------------------
(***************************************************************************)
(* What the doubly linked queues of the scheduler promise: each queue is a *)
(* sequence of nodes and a node is in at most one of them.                 *)
(***************************************************************************)
EXTENDS Integers, SequencesExt

CONSTANTS
  Queues, Nodes,
  StealMax        \* the `max' argument of pop_tail_half

VARIABLE lists    \* the nodes of each queue, head first

Queued(n) == \E q \in Queues : n \in Range(lists[q])
Set(q, s) == lists' = [lists EXCEPT ![q] = s]

Init == lists = [q \in Queues |-> <<>>]

PushTail(q, n) == ~Queued(n) /\ Set(q, Append(lists[q], n))
PopHead(q) == lists[q] # <<>> /\ Set(q, Tail(lists[q]))
PopTail(q) == lists[q] # <<>> /\ Set(q, Front(lists[q]))

\* half of the queue, from the head
PopTailHalf(q) ==
  LET len == Len(lists[q])
      half == IF len \div 2 < StealMax THEN len \div 2 ELSE StealMax
  IN  half > 0 /\ Set(q, SubSeq(lists[q], half + 1, len))

\* n is the k-th node of queue q
At(q, n, k) == k \in DOMAIN lists[q] /\ lists[q][k] = n

RemoveNode(q, n) == \E k \in DOMAIN lists[q] : At(q, n, k) /\ Set(q, RemoveAt(lists[q], k))
MoveUp(q, n) == \E k \in DOMAIN lists[q] : At(q, n, k) /\ Set(q, <<n>> \o RemoveAt(lists[q], k))

Next == \E q \in Queues :
          \/ PopHead(q) \/ PopTail(q) \/ PopTailHalf(q)
          \/ \E n \in Nodes : PushTail(q, n) \/ RemoveNode(q, n) \/ MoveUp(q, n)

Spec == Init /\ [][Next]_lists
================================================================================
