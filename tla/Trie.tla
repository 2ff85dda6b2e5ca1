---- MODULE Trie ----
(***************************************************************************)
(* The tries that hold the persistent facts of a node, the values of an    *)
(* aggregate and its configurations (src/db/trie.hpp, src/db/trie.cpp).  A *)
(* fact is a branch: every field is one symbol or, for a list or a         *)
(* structure, the symbols of its parts.  The children of a node are a list *)
(* and, when the list gets long, a table of buckets that doubles when a    *)
(* bucket gets long.                                                       *)
(***************************************************************************)
EXTENDS Sequences, SequencesExt, TrieLeaf

CONSTANTS
    Preds,        \* the predicates: [types, values (of each field), cyclic, agg,
                  \* max (a bound on the derivations of a fact), absent (whether
                  \* facts that are not there may be retracted)]
    Threshold,    \* TRIE_HASH_LIST_THRESHOLD
    BaseBuckets,  \* TRIE_HASH_BASE_BUCKETS
    Depths,       \* the depths of derivations
    MaxLeaves     \* bound: the facts

ASSUME TrieAssumption == Threshold \in Nat \ {0} /\ BaseBuckets \in Nat \ {0}

VARIABLES
    pred,    \* the predicate of this trie
    nodes,   \* the live nodes, each named by the symbols that lead to it
    leaf,    \* the leaf of every node that has one
    leaves,  \* the leaf list, from first_leaf to last_leaf
    number_of_references,
    info,    \* the delete_info of a removal whose rules are running, or NoInfo
    status   \* live, wiped when the trie was destroyed, or crashed

vars == <<pred, nodes, leaf, leaves, number_of_references, info, status>>

root == <<>>
NoInfo == [node |-> <<>>, decrease |-> 0]

\* The sequences that take one element from each of the sets.
Product(sets) ==
    FoldLeft(LAMBDA acc, S : {Append(t, v) : t \in acc, v \in S}, {<<>>}, sets)

FactsOf(p) == Product(p.values)

\* The symbols of a value: what match and insert take from the match stack
\* and push back for the parts of the value.
Symbols(type, v) ==
    CASE type = "list" -> FlattenSeq([i \in DOMAIN v |-> <<1, v[i]>>]) \o <<0>>
      [] type = "pair" -> <<Len(v)>> \o v
      [] OTHER -> <<v>>

Path(p, t) == FlattenSeq([i \in DOMAIN t |-> Symbols(p.types[i], t[i])])

\* kids: the symbols of the children, in their list or in their buckets;
\* bucket: the bucket the node thinks it is in, or 0.
trie_node(bucket) == [hashed |-> FALSE, bucket |-> bucket, kids |-> << <<>> >>, total |-> 0]

data(n) == Last(n)
parent(n) == Front(n)
Child(n, symbol) == Append(n, symbol)

Init ==
    /\ pred \in Preds
    /\ nodes = (root :> trie_node(0))
    /\ leaf = [n \in {} |-> 0]
    /\ leaves = <<>>
    /\ number_of_references = 0
    /\ info = NoInfo
    /\ status = "live"

----------------------------------------------------------------------------
(***************************************************************************)
(* Lookup and insertion.                                                   *)
(***************************************************************************)
is_leaf(n) == n \in DOMAIN leaf

\* The children list, or the bucket of the symbol.
hash_item(num_buckets, symbol) == (symbol % num_buckets) + 1

Chain(N, n, symbol) ==
    IF N[n].hashed THEN N[n].kids[hash_item(Len(N[n].kids), symbol)] ELSE N[n].kids[1]

match(N, n, symbol) == symbol \in Range(Chain(N, n, symbol))

\* Walk down as far as the branch exists: the node reached and what is left.
RECURSIVE Walk(_, _)
Walk(n, path) ==
    IF path # <<>> /\ ~is_leaf(n) /\ match(nodes, n, Head(path))
    THEN Walk(Child(n, Head(path)), Tail(path))
    ELSE [node |-> n, rest |-> path]

\* Every child is put at the head of its bucket, in the order of the old ones.
Rehash(N, n, num_buckets) ==
    LET kids == FlattenSeq(N[n].kids)
        table == [b \in 1..num_buckets |->
                     Reverse(SelectSeq(kids, LAMBDA k : hash_item(num_buckets, k) = b))]
    IN  [c \in DOMAIN N |->
            IF c = n THEN [N[c] EXCEPT !.kids = table, !.hashed = TRUE, !.total = Len(kids)]
            ELSE IF c # root /\ parent(c) = n
            THEN [N[c] EXCEPT !.bucket = hash_item(num_buckets, data(c))]
            ELSE N[c]]

convert_hash(N, n) == Rehash(N, n, BaseBuckets)

expand(N, n) == Rehash(N, n, 2 * Len(N[n].kids))

Grow(N, n, symbol) ==
    LET count == Len(Chain(N, n, symbol)) + 1
    IN  IF count > Threshold /\ ~N[n].hashed THEN convert_hash(N, n)
        ELSE IF N[n].hashed /\ count > Threshold \div 2 THEN expand(N, n)
        ELSE N

insert(N, n, symbol) ==
    LET b == IF N[n].hashed THEN hash_item(Len(N[n].kids), symbol) ELSE 1
    IN  (Child(n, symbol) :> trie_node(IF N[n].hashed THEN b ELSE 0))
           @@ [N EXCEPT ![n].kids[b] = <<symbol>> \o @,
                        ![n].total = IF N[n].hashed THEN @ + 1 ELSE @]

\* The branch below n.
RECURSIVE Branch(_, _, _)
Branch(N, n, path) ==
    IF path = <<>> THEN N
    ELSE Branch(insert(N, n, Head(path)), Child(n, Head(path)), Tail(path))

\* check_insert for a positive derivation.
check_insert(tpl, path, depth, counted) ==
    LET at == Walk(root, path)
        room == IF at.rest = <<>> THEN nodes ELSE Grow(nodes, at.node, Head(at.rest))
    IN  IF is_leaf(at.node)
        THEN /\ leaf' = [leaf EXCEPT ![at.node] = IF counted THEN add_new(@, depth) ELSE @]
             /\ UNCHANGED <<nodes, leaves>>
        ELSE /\ nodes' = Branch(room, at.node, at.rest)
             /\ leaf' = (path :> tuple_trie_leaf(tpl, pred.cyclic, depth)) @@ leaf
             /\ leaves' = Append(leaves, path)

Idle == info = NoInfo /\ status = "live"

insert_tuple(tpl, depth) ==
    /\ Idle /\ ~pred.agg
    /\ \A n \in DOMAIN leaf : leaf[n].tpl = tpl => leaf[n].count < pred.max
    /\ Len(leaves) < MaxLeaves \/ \E n \in DOMAIN leaf : leaf[n].tpl = tpl
    /\ number_of_references' = number_of_references + 1
    /\ check_insert(tpl, Path(pred, tpl), depth, TRUE)
    /\ UNCHANGED <<pred, info, status>>

\* The configuration of an aggregate: one leaf for the fields before the
\* aggregated one, made when it is not there.
find_configuration(tpl) ==
    /\ Idle /\ pred.agg
    /\ Len(leaves) < MaxLeaves \/ \E n \in DOMAIN leaf : leaf[n].tpl = tpl
    /\ number_of_references' = number_of_references
           + IF is_leaf(Walk(root, Path(pred, tpl)).node) THEN 0 ELSE 1
    /\ check_insert(tpl, Path(pred, tpl), 0, FALSE)
    /\ UNCHANGED <<pred, info, status>>

----------------------------------------------------------------------------
(***************************************************************************)
(* Removal.                                                                *)
(***************************************************************************)
\* Unlink a node, and the nodes above it that lead to it alone.
RECURSIVE delete_path(_, _)
delete_path(N, n) ==
    LET p == parent(n)
        b == IF N[n].bucket = 0 THEN 1 ELSE N[n].bucket
        first == Head(N[p].kids[b]) = data(n)
        P == [N[p] EXCEPT !.kids[b] = SelectSeq(@, LAMBDA c : c # data(n)),
                          !.total = IF N[n].bucket # 0 THEN @ - 1 ELSE @]
        emptied == first /\ IF N[n].bucket # 0 THEN P.total = 0 ELSE P.kids[b] = <<>>
        rest == Restrict(N, DOMAIN N \ {n})
    IN  IF n = root THEN [N EXCEPT ![root].hashed = FALSE]
        ELSE IF emptied THEN delete_path([rest EXCEPT ![p] = [P EXCEPT !.kids = << <<>> >>]], p)
        ELSE [rest EXCEPT ![p] = P]

inner_delete_by_leaf(n) ==
    /\ leaves' = SelectSeq(leaves, LAMBDA l : l # n)
    /\ leaf' = Restrict(leaf, DOMAIN leaf \ {n})
    /\ nodes' = delete_path(nodes, n)

\* delete_tuple, and what its callers do at once for a cycle predicate when
\* no derivation of that depth is left.
delete_tuple(tpl, depth) ==
    LET at == Walk(root, Path(pred, tpl))
        l == sub(leaf[at.node], depth)
        cut == ~to_delete(l) /\ pred.cyclic /\ get_count(l.depths, depth) = 0
        kept == IF cut THEN delete_depths_above(l, depth) ELSE l
    IN  /\ Idle /\ ~pred.agg
        /\ at.rest = <<>> /\ is_leaf(at.node)
        /\ leaf' = [leaf EXCEPT ![at.node] = kept]
        /\ number_of_references' = IF to_delete(l) THEN number_of_references
                                   ELSE number_of_references - 1
        /\ info' = IF ~to_delete(kept) THEN NoInfo
                   ELSE [node |-> at.node,
                         decrease |-> IF to_delete(l) THEN 1 ELSE CountAbove(l.depths, depth)]
        /\ UNCHANGED <<pred, nodes, leaves, status>>

\* The fact is not there: nothing is done.  For a predicate without fields
\* check_insert returns the root all the same, and its null leaf is read.
delete_absent(tpl, depth) ==
    LET at == Walk(root, Path(pred, tpl))
    IN  /\ Idle /\ ~pred.agg /\ pred.absent
        /\ ~is_leaf(at.node)
        /\ status' = IF at.node = root /\ at.rest = <<>> THEN "crashed" ELSE status
        /\ UNCHANGED <<pred, nodes, leaf, leaves, number_of_references, info>>

\* Mutant: the reference of the last derivation is not given back.
commit_delete_kept ==
    /\ info # NoInfo
    /\ inner_delete_by_leaf(info.node)
    /\ info' = NoInfo
    /\ UNCHANGED <<pred, number_of_references, status>>

\* perform_delete, once the rules have run for the removal.
commit_delete ==
    /\ info # NoInfo
    /\ number_of_references' = number_of_references - info.decrease
    /\ inner_delete_by_leaf(info.node)
    /\ info' = NoInfo
    /\ UNCHANGED <<pred, status>>

delete_by_leaf(n, depth) ==
    LET l == sub(leaf[n], depth)
    IN  /\ Idle /\ ~pred.agg
        /\ number_of_references' = number_of_references - 1
        /\ IF to_delete(l) THEN inner_delete_by_leaf(n)
           ELSE leaf' = [leaf EXCEPT ![n] = l] /\ UNCHANGED <<nodes, leaves>>
        /\ UNCHANGED <<pred, info, status>>

\* agg_trie::erase: the configuration of an empty aggregate goes.
erase(n) ==
    /\ Idle /\ pred.agg
    /\ number_of_references' = number_of_references - 1
    /\ inner_delete_by_leaf(n)
    /\ UNCHANGED <<pred, info, status>>

RECURSIVE Below(_)
Below(n) == {n} \cup UNION {Below(Child(n, c)) : c \in Range(FlattenSeq(nodes[n].kids))}

References(S) == MapThenSumSet(LAMBDA n : leaf[n].count, S \cap DOMAIN leaf)

\* Everything below n, its own leaf included, but not n itself.
delete_branch(n) ==
    /\ leaves' = SelectSeq(leaves, LAMBDA l : l \notin Below(n))
    /\ leaf' = Restrict(leaf, DOMAIN leaf \ Below(n))

Pruned(n) == [Restrict(nodes, (DOMAIN nodes \ Below(n)) \cup {n}) EXCEPT
                 ![n].kids = << <<>> >>, ![n].total = 0]

\* Mutant: the early return when the values are not found is gone.
delete_by_index_near(tpl, fields) ==
    LET at == Walk(root, SubSeq(Path(pred, tpl), 1, fields))
    IN  /\ Idle
        /\ \A i \in 1..fields : pred.types[i] = "int"
        /\ number_of_references' = number_of_references - References(Below(at.node))
        /\ delete_branch(at.node)
        /\ nodes' = delete_path(Pruned(at.node), at.node)
        /\ UNCHANGED <<pred, info, status>>

\* The facts whose leading fields have the given values.
delete_by_index(tpl, fields) ==
    LET at == Walk(root, SubSeq(Path(pred, tpl), 1, fields))
    IN  /\ Idle
        /\ \A i \in 1..fields : pred.types[i] = "int"
        /\ IF at.rest # <<>> THEN UNCHANGED vars
           ELSE /\ number_of_references' = number_of_references - References(Below(at.node))
                /\ delete_branch(at.node)
                /\ nodes' = delete_path(Pruned(at.node), at.node)
                /\ UNCHANGED <<pred, info, status>>

\* The children go; the root keeps its hashed flag.
wipeout ==
    /\ Idle
    /\ delete_branch(root)
    /\ nodes' = Pruned(root)
    /\ number_of_references' = 0
    /\ status' = "wiped"
    /\ UNCHANGED <<pred, info>>

\* A derivation is retracted at the depth it was made at.
Retractable(n) == IF pred.cyclic THEN DOMAIN leaf[n].depths ELSE Depths

Next ==
    \/ \E tpl \in FactsOf(pred), depth \in Depths :
          \/ insert_tuple(tpl, depth)
          \/ delete_absent(tpl, depth)
    \/ \E n \in DOMAIN leaf : \E depth \in Retractable(n) :
          \/ delete_tuple(leaf[n].tpl, depth)
          \/ delete_by_leaf(n, depth)
    \/ \E tpl \in FactsOf(pred) : find_configuration(tpl)
    \/ commit_delete
    \/ \E n \in DOMAIN leaf : erase(n)
    \/ \E tpl \in FactsOf(pred) : \E fields \in 0..Len(tpl) :
          delete_by_index(tpl, fields)
    \/ wipeout

Spec == Init /\ [][Next]_vars

----------------------------------------------------------------------------
(***************************************************************************)
(* Properties.                                                             *)
(***************************************************************************)
Kids(n) == FlattenSeq(nodes[n].kids)

\* Every live node but the root is linked once, under the parent it names and
\* in the bucket where its symbol is looked for; siblings differ; the total of
\* a table counts its nodes; and the inner nodes are the ones on the way to a
\* leaf (match, insert, convert_hash, expand, delete_path).
WellFormed ==
    /\ \A n \in DOMAIN nodes \ {root} :
          /\ parent(n) \in DOMAIN nodes
          /\ match(nodes, parent(n), data(n))
          /\ (nodes[n].bucket # 0) = nodes[parent(n)].hashed
          /\ nodes[n].bucket # 0 => data(n) \in Range(nodes[parent(n)].kids[nodes[n].bucket])
          /\ (Kids(n) = <<>>) = is_leaf(n)
    /\ \A n \in DOMAIN nodes :
          /\ \A c \in Range(Kids(n)) : Child(n, c) \in DOMAIN nodes
          /\ IsInjective(Kids(n))
          /\ nodes[n].hashed => nodes[n].total = Len(Kids(n))
    /\ IsInjective(leaves) /\ Range(leaves) = DOMAIN leaf

\* What basic_invariants asserts and match_predicate relies on: the root has
\* no child exactly when there are no references.
BasicInvariants == (number_of_references = 0) = (Kids(root) = <<>> /\ ~is_leaf(root))

\* number_of_references counts the derivations of the facts, the ones of a
\* removal that is not committed included (insert_tuple, delete_tuple,
\* commit_delete and delete_by_index each change it in another place).
RefsCounted ==
    /\ number_of_references = References(DOMAIN leaf) + info.decrease
    /\ BasicInvariants

\* The nodes, their tables and the counters of the trie fit together.
TrieKept == WellFormed /\ RefsCounted

Counts == INSTANCE TupleCounts WITH
            facts <- [i \in DOMAIN leaves |-> leaf[leaves[i]]],
            doomed <- IF info = NoInfo THEN {} ELSE {leaf[info.node].tpl}

\* Every operation does to the counted facts what it promises, with the
\* arguments it was called with: no other fact is touched, the order of the
\* leaf list is kept, a table that grows or shrinks shows nothing, and no null
\* leaf is read.
ImplementsCounts ==
    /\ Counts!Init
    /\ [][/\ status' # "crashed"
          /\ \A tpl \in FactsOf(pred), depth \in Depths :
               /\ insert_tuple(tpl, depth) => Counts!Insert(tpl, depth)
               /\ find_configuration(tpl) => Counts!Insert(tpl, 0)
               /\ delete_absent(tpl, depth) => Counts!Delete(tpl, depth)
          /\ \A n \in DOMAIN leaf : \A depth \in Retractable(n) :
               /\ delete_tuple(leaf[n].tpl, depth) => Counts!Delete(leaf[n].tpl, depth)
               /\ delete_by_leaf(n, depth) => Counts!DeleteNow(leaf[n].tpl, depth)
               /\ erase(n) => Counts!Erase(leaf[n].tpl)
          /\ commit_delete => Counts!Commit
          /\ wipeout => Counts!DeleteByIndex(<<>>)
          /\ \A tpl \in FactsOf(pred) : \A fields \in 0..Len(tpl) :
               delete_by_index(tpl, fields) => Counts!DeleteByIndex(SubSeq(tpl, 1, fields))]_vars
====
