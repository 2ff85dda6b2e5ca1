---- MODULE TrieLeaf ----
(***************************************************************************)
(* The leaf of a tuple trie (src/db/trie.hpp): the fact it stores, how     *)
(* many derivations the fact has, and, for a predicate that takes part in  *)
(* a cycle of rules, how many of them there are at each depth.             *)
(***************************************************************************)
EXTENDS Integers, Sequences, FiniteSets, FiniteSetsExt, Functions

CONSTANT RefLimit  \* the number of values of a ref_count (2^64 in the code)

ASSUME RefLimitAssumption == RefLimit \in Nat \ {0, 1}

\* A depth_counter is a function from the depths that have a count.
NoDepths == [d \in {} |-> 0]

get_count(counts, depth) == IF depth \in DOMAIN counts THEN counts[depth] ELSE 0

min_depth(counts) == IF DOMAIN counts = {} THEN 0 ELSE Min(DOMAIN counts)

max_depth(counts) == IF DOMAIN counts = {} THEN 0 ELSE Max(DOMAIN counts)

depth_add(counts, depth) ==
    [d \in DOMAIN counts \cup {depth} |-> get_count(counts, d) + IF d = depth THEN 1 ELSE 0]

\* A depth that is not counted is left alone; a count of 0 is erased.
depth_sub(counts, depth) ==
    IF get_count(counts, depth) <= 1
    THEN Restrict(counts, DOMAIN counts \ {depth})
    ELSE [counts EXCEPT ![depth] = @ - 1]

Above(counts, depth) == {d \in DOMAIN counts : d > depth}

CountAbove(counts, depth) == SumFunctionOnSet(counts, Above(counts, depth))

(***************************************************************************)
(* The operations of tuple_trie_leaf.  depths is only kept for a cycle     *)
(* predicate.                                                              *)
(***************************************************************************)
add_new(leaf, depth) ==
    [leaf EXCEPT !.count = @ + 1,
                 !.depths = IF leaf.cyclic THEN depth_add(@, depth) ELSE @]

tuple_trie_leaf(tpl, cyclic, depth) ==
    add_new([tpl |-> tpl, count |-> 0, cyclic |-> cyclic, depths |-> NoDepths], depth)

sub(leaf, depth) ==
    [leaf EXCEPT !.count = IF @ = 0 THEN 0 ELSE @ - 1,
                 !.depths = IF leaf.cyclic THEN depth_sub(@, depth) ELSE @]

to_delete(leaf) == leaf.count = 0

\* The subtraction is the one of an unsigned integer.
delete_depths_above(leaf, depth) ==
    [leaf EXCEPT !.count = (@ - CountAbove(leaf.depths, depth)) % RefLimit,
                 !.depths = Restrict(@, DOMAIN @ \ Above(@, depth))]

(***************************************************************************)
(* The facts of a predicate, as the list of their leaves.                  *)
(***************************************************************************)
Entries(facts, tpl) == {i \in DOMAIN facts : facts[i].tpl = tpl}

CountOf(facts, tpl) ==
    SumFunctionOnSet([i \in DOMAIN facts |-> facts[i].count], Entries(facts, tpl))

Inserted(facts, tpl, cyclic, depth) ==
    IF Entries(facts, tpl) = {} THEN Append(facts, tuple_trie_leaf(tpl, cyclic, depth))
    ELSE [i \in DOMAIN facts |-> IF i \in Entries(facts, tpl) THEN add_new(facts[i], depth)
                                                             ELSE facts[i]]

\* One derivation less; when it was the last one of its depth, the ones
\* above that depth go with it.
Less(leaf, depth) ==
    LET l == sub(leaf, depth)
    IN  IF ~to_delete(l) /\ l.cyclic /\ get_count(l.depths, depth) = 0
        THEN delete_depths_above(l, depth) ELSE l

Lessened(facts, tpl, depth) ==
    [i \in DOMAIN facts |-> IF i \in Entries(facts, tpl) THEN Less(facts[i], depth)
                                                         ELSE facts[i]]

Without(facts, P(_)) == SelectSeq(facts, LAMBDA l : ~P(l.tpl))
====
