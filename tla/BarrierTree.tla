----------------------------- MODULE BarrierTree -----------------------------
(***************************************************************************)
(* The tree that the constructor of tree_barrier builds: nodes are         *)
(* numbered in the order in which build reaches them and no more than      *)
(* `size' are made.                                                        *)
(***************************************************************************)
EXTENDS Integers, Sequences

RECURSIVE Depth(_, _)
Depth(s, radix) == IF s > 1 THEN 1 + Depth(s \div radix, radix) ELSE 0

\* parents is the sequence of the parents of the nodes made so far
RECURSIVE Build(_, _, _, _, _)
Build(parents, parent, depth, size, radix) ==
  IF Len(parents) = size THEN parents
  ELSE LET id == Len(parents)
           Below[i \in 0 .. radix] ==
             IF i = 0 \/ depth = 0 THEN Append(parents, parent)
             ELSE Build(Below[i - 1], id, depth - 1, size, radix)
       IN  Below[radix]

\* the parent of each node; the root gets `none'
Tree(size, radix, none) ==
  LET parents == Build(<<>>, none, Depth(size, radix), size, radix)
  IN  [i \in 0 .. size - 1 |-> parents[i + 1]]

\* With radix 2, the only one in use, the depth computed by division leaves room
\* for every thread: as many nodes are made as there are threads, each below a
\* node made before it.  (With radix 3 five threads would get four nodes.)
ASSUME EveryThreadHasANode ==
  \A size \in 1 .. 20 :
    LET parents == Build(<<>>, -1, Depth(size, 2), size, 2)
    IN  /\ Len(parents) = size
        /\ \A i \in 1 .. size : parents[i] = -1 <=> i = 1
        /\ \A i \in 2 .. size : parents[i] \in 0 .. i - 2
================================================================================
