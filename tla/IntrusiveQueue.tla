---------------------------- MODULE IntrusiveQueue ----------------------------
(***************************************************************************)
(* The intrusive doubly linked node queues (queue/safe_double_queue.hpp,   *)
(* queue/intrusive_implementation.hpp, queue/intrusive.hpp) at the level   *)
(* of their pointers.  An operation holds the mutex of its queue from      *)
(* beginning to end, so it is one step.                                    *)
(*                                                                         *)
(* The queues here are those of one kind in every thread: they have the    *)
(* same queue_number, so in_queue(n) says that n is in SOME of them.  The  *)
(* link fields of a node are unions with the fields of the heap, so a node *)
(* that was in a priority queue comes back with values that are no         *)
(* pointers (Junk).                                                        *)
(***************************************************************************)
EXTENDS Integers, Sequences, FiniteSets

CONSTANTS
  Queues, Nodes, NullNode, Junk,
  StealMax,       \* NODE_BUFFER_SIZE
  SizeMod         \* size_t counts modulo SizeMod

\* null and junk are no nodes, and the counter can count all nodes
ASSUME QueueAssumption ==
  /\ IsFiniteSet(Nodes)
  /\ {NullNode, Junk} \cap Nodes = {} /\ NullNode # Junk
  /\ StealMax \in Nat /\ SizeMod \in Nat /\ Cardinality(Nodes) < SizeMod

VARIABLES
  head, qtail,    \* the fields of each queue
  total,
  qnext, prev,    \* __intrusive_next and __intrusive_prev of each node
  in_queue        \* __intrusive_queue == queue_number, for each node

queueVars == <<head, qtail, total, qnext, prev, in_queue>>

QueueInit ==
  /\ head = [q \in Queues |-> NullNode]
  /\ qtail = [q \in Queues |-> NullNode]
  /\ total = [q \in Queues |-> 0]
  /\ qnext = [n \in Nodes |-> NullNode]
  /\ prev = [n \in Nodes |-> NullNode]
  /\ in_queue = [n \in Nodes |-> FALSE]

\* the list as a reader finds it, from `from' along `link'; one node more than
\* there are shows a cycle
Follow(link, from) ==
  LET at[i \in 1 .. Cardinality(Nodes) + 1] ==
        IF i = 1 THEN from ELSE IF at[i - 1] \in Nodes THEN link[at[i - 1]] ELSE NullNode
  IN  [i \in {j \in 1 .. Cardinality(Nodes) + 1 : at[j] \in Nodes} |-> at[i]]
List(q) == Follow(qnext, head[q])

AddTotal(q, d) == total' = [total EXCEPT ![q] = (@ + SizeMod + d) % SizeMod]

\* field[n] = v through a pointer that may be null: the code tests it first
SetLink(field, n, v) == IF n = NullNode THEN field ELSE [field EXCEPT ![n] = v]

-----------------------------------------------------------------------------

PushTail(q, n) ==
  /\ ~in_queue[n]
  /\ head' = [head EXCEPT ![q] = IF @ = NullNode THEN n ELSE @]
  /\ prev' = [prev EXCEPT ![n] = qtail[q]]
  /\ qnext' = [SetLink(qnext, qtail[q], n) EXCEPT ![n] = NullNode]
  /\ in_queue' = [in_queue EXCEPT ![n] = TRUE]
  /\ qtail' = [qtail EXCEPT ![q] = n]
  /\ AddTotal(q, 1)

\* the links of the popped node stay as they were
PopHead(q) ==
  LET data == head[q] IN
  /\ data # NullNode
  /\ head' = [head EXCEPT ![q] = qnext[data]]
  /\ prev' = SetLink(prev, qnext[data], NullNode)
  /\ qtail' = [qtail EXCEPT ![q] = IF qnext[data] = NullNode THEN NullNode ELSE @]
  /\ in_queue' = [in_queue EXCEPT ![data] = FALSE]
  /\ AddTotal(q, -1)
  /\ UNCHANGED qnext

PopTail(q) ==
  LET data == qtail[q] IN
  /\ head[q] # NullNode
  /\ qtail' = [qtail EXCEPT ![q] = prev[data]]
  /\ qnext' = SetLink(qnext, prev[data], NullNode)
  /\ head' = [head EXCEPT ![q] = IF prev[data] = NullNode THEN NullNode ELSE @]
  /\ in_queue' = [in_queue EXCEPT ![data] = FALSE]
  /\ AddTotal(q, -1)
  /\ UNCHANGED prev

Half(q) == IF total[q] \div 2 < StealMax THEN total[q] \div 2 ELSE StealMax

\* mutant: more than half, rounding up, so that the last node can go too
PopTailHalfRoundUp(q) ==
  LET half == (total[q] + 1) \div 2
      nodes == List(q)
  IN  /\ half # 0
      /\ head' = [head EXCEPT ![q] = qnext[nodes[half]]]
      /\ prev' = SetLink(prev, qnext[nodes[half]], NullNode)
      /\ in_queue' = [n \in Nodes |-> in_queue[n] /\ \A i \in 1 .. half : nodes[i] # n]
      /\ AddTotal(q, -half)
      /\ UNCHANGED <<qnext, qtail>>

\* it takes the nodes from the head, whatever its name says
PopTailHalf(q) ==
  LET half == Half(q)
      nodes == List(q)
  IN  /\ half # 0
      /\ head' = [head EXCEPT ![q] = qnext[nodes[half]]]
      /\ prev' = SetLink(prev, qnext[nodes[half]], NullNode)
      /\ in_queue' = [n \in Nodes |-> in_queue[n] /\ \A i \in 1 .. half : nodes[i] # n]
      /\ AddTotal(q, -half)
      /\ UNCHANGED <<qnext, qtail>>

\* a caller of remove or move_up names the queue of the owner of the node, and
\* in_queue() then tells whether the node is still there
Callee(q, n) == in_queue[n] /\ \E i \in DOMAIN List(q) : List(q)[i] = n

\* mutant: the back link of the successor is not repaired
RemoveNodeOneWay(q, n) ==
  /\ Callee(q, n)
  /\ head' = [head EXCEPT ![q] = IF @ = n THEN qnext[n] ELSE @]
  /\ qtail' = [qtail EXCEPT ![q] = IF @ = n THEN prev[n] ELSE @]
  /\ qnext' = [SetLink(qnext, prev[n], qnext[n]) EXCEPT ![n] = NullNode]
  /\ prev' = [prev EXCEPT ![n] = NullNode]
  /\ in_queue' = [in_queue EXCEPT ![n] = FALSE]
  /\ AddTotal(q, -1)

RemoveNode(q, n) ==
  /\ Callee(q, n)
  /\ head' = [head EXCEPT ![q] = IF @ = n THEN qnext[n] ELSE @]
  /\ qtail' = [qtail EXCEPT ![q] = IF @ = n THEN prev[n] ELSE @]
  /\ qnext' = [SetLink(qnext, prev[n], qnext[n]) EXCEPT ![n] = NullNode]
  /\ prev' = [SetLink(prev, qnext[n], prev[n]) EXCEPT ![n] = NullNode]
  /\ in_queue' = [in_queue EXCEPT ![n] = FALSE]
  /\ AddTotal(q, -1)

MoveUp(q, n) ==
  /\ Callee(q, n)
  /\ prev[n] # NullNode
  /\ qtail' = [qtail EXCEPT ![q] = IF qnext[n] = NullNode THEN prev[n] ELSE @]
  /\ qnext' = [qnext EXCEPT ![prev[n]] = qnext[n], ![n] = head[q]]
  /\ prev' = [SetLink(prev, qnext[n], prev[n]) EXCEPT ![n] = NullNode, ![head[q]] = n]
  /\ head' = [head EXCEPT ![q] = n]
  /\ UNCHANGED <<total, in_queue>>

\* a node passes through a priority queue, which uses the same memory
HeapUse(n) ==
  /\ ~in_queue[n]
  /\ qnext' = [qnext EXCEPT ![n] = Junk]
  /\ prev' = [prev EXCEPT ![n] = Junk]
  /\ UNCHANGED <<head, qtail, total, in_queue>>

QueueNext ==
  \/ \E q \in Queues : \/ PopHead(q) \/ PopTail(q) \/ PopTailHalf(q)
                       \/ \E n \in Nodes : \/ PushTail(q, n) \/ RemoveNode(q, n)
                                           \/ MoveUp(q, n)
  \/ \E n \in Nodes : HeapUse(n)

QueueSpec == QueueInit /\ [][QueueNext]_queueVars

-----------------------------------------------------------------------------

\* Types: a link field is a node, null or the remains of a heap field
QueueTypeOK ==
  LET Ptr == Nodes \cup {NullNode} IN
  /\ head \in [Queues -> Ptr] /\ qtail \in [Queues -> Ptr]
  /\ total \in [Queues -> 0 .. SizeMod - 1]
  /\ qnext \in [Nodes -> Ptr \cup {Junk}] /\ prev \in [Nodes -> Ptr \cup {Junk}]
  /\ in_queue \in [Nodes -> BOOLEAN]

\* The two directions of every list agree from end to end, the list is as long
\* as total says, and it holds exactly nodes marked as queued, each in one
\* list only: no junk of an earlier use of a node is ever reached.
WellLinked ==
  LET At(q, n) == \E i \in DOMAIN List(q) : List(q)[i] = n IN
  /\ QueueTypeOK
  /\ \A q \in Queues :
       /\ Len(List(q)) = total[q]
       /\ Follow(prev, qtail[q]) = [i \in DOMAIN List(q) |-> List(q)[Len(List(q)) + 1 - i]]
       /\ head[q] # NullNode => prev[head[q]] = NullNode /\ qnext[qtail[q]] = NullNode
       /\ head[q] = NullNode <=> qtail[q] = NullNode
  /\ \A n \in Nodes : in_queue[n] <=> Cardinality({q \in Queues : At(q, n)}) = 1
  /\ \A n \in Nodes : ~in_queue[n] => \A q \in Queues : ~At(q, n)

Seqs == INSTANCE SeqQueues WITH lists <- [q \in Queues |-> List(q)]

\* Every operation does to the lists what its name says of sequences.
ImplementsSequences == Seqs!Spec
================================================================================
