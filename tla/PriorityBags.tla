---------------------------- MODULE PriorityBags -----------------------------
(***************************************************************************)
(* What the two priority queues of a thread promise: each is a set of      *)
(* nodes with priorities, and what is popped is a node of best priority.   *)
(***************************************************************************)
EXTENDS Integers, FiniteSets

CONSTANTS
  Nodes, Priorities, Heaps,
  StealMax,          \* the `max' argument of pop_half
  Desc               \* is_priority_desc()

VARIABLES
  items,             \* the nodes of each queue
  prio,              \* the priority a queued node has in its queue
  ret                \* the last operation, "none" when it took no node out

bagVars == <<items, prio, ret>>

Compare(p, q) == IF Desc THEN p >= q ELSE p <= q

All == UNION {items[h] : h \in Heaps}
BestOf(S, n) == \A m \in S : Compare(prio[n], prio[m])
Take(op, h, S) == items' = [items EXCEPT ![h] = @ \ S] /\ ret' = op

Insert(h, n, p) ==
  /\ n \notin All
  /\ items' = [items EXCEPT ![h] = @ \cup {n}]
  /\ prio' = [prio EXCEPT ![n] = p]
  /\ ret' = "none"

MoveNode(h, n, p) ==
  /\ n \in items[h]
  /\ prio' = [prio EXCEPT ![n] = p]
  /\ ret' = "none"
  /\ UNCHANGED items

Remove(h, n) == n \in items[h] /\ Take("remove", h, {n}) /\ UNCHANGED prio

Pop(h) == \E n \in items[h] :
            BestOf(items[h], n) /\ Take("pop", h, {n}) /\ UNCHANGED prio

\* the best node of all the queues
PopBest == \E h \in Heaps : \E n \in items[h] :
             BestOf(All, n) /\ Take("pop_best", h, {n}) /\ UNCHANGED prio

\* a thief gets up to half of the nodes; one as good as the best of them stays
PopHalf(h) ==
  LET size == Cardinality(items[h])
      half == IF size \div 2 < StealMax THEN size \div 2 ELSE StealMax
  IN  \E S \in SUBSET items[h] :
        /\ Cardinality(S) \in 1 .. half
        /\ \E n \in items[h] \ S : BestOf(S, n)
        /\ Take("pop_half", h, S) /\ UNCHANGED prio

Next == \/ PopBest
        \/ \E h \in Heaps :
             \/ Pop(h) \/ PopHalf(h)
             \/ \E n \in Nodes : \/ Remove(h, n)
                                 \/ \E p \in Priorities : Insert(h, n, p) \/ MoveNode(h, n, p)

Spec == [][Next]_bagVars
================================================================================
