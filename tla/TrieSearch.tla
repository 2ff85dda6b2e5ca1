---- MODULE TrieSearch ----
(***************************************************************************)
(* The search of a trie for the facts that match a pattern                 *)
(* (src/db/trie.cpp, tuple_search_iterator; src/vm/match.hpp).  Rules look *)
(* for persistent facts with it, also while a removal waits for its rules  *)
(* to run.  The iterator goes down the branches; at a level that the       *)
(* pattern leaves open it pushes a frame with the next child, and takes it *)
(* up again when the branch is done.                                       *)
(***************************************************************************)
EXTENDS Trie

\* A field of a pattern: exact, with the value, or open.  A list is exact as
\* nil, as cons (any list that is not empty) or as parts (head and tail).
Open(type) == [exact |-> FALSE, ty |-> type]
Exact(v) == [exact |-> TRUE, ty |-> "int", field |-> v]
ExactList(k) == [exact |-> TRUE, ty |-> "list", kind |-> k]
Parts(head, tail) == [exact |-> TRUE, ty |-> "list", kind |-> "parts", head |-> head, tail |-> tail]

ListPatterns ==
    {Open("list"), ExactList("nil"), ExactList("cons")}
       \cup {Parts(h, t) : h \in {Open("int"), Exact(0)},
                           t \in {Open("list"), ExactList("nil"), ExactList("cons")}}

FieldPatterns(type, values) ==
    CASE type = "int" -> {Open(type)} \cup {Exact(v) : v \in values}
      [] type = "list" -> ListPatterns
      [] OTHER -> {Open(type)}

Patterns(p) == Product([i \in DOMAIN p.types |-> FieldPatterns(p.types[i], p.values[i])])

any_exact(m) == \E i \in DOMAIN m : m[i].exact

----------------------------------------------------------------------------
\* Where a frame stands: at a child, named by its bucket and its place there,
\* or at the table of a hashed node.
Table == <<0, 0>>

FirstChild(n) == IF nodes[n].hashed THEN Table ELSE <<1, 1>>

At(n, pos) == nodes[n].kids[pos[1]][pos[2]]

\* The heads of the buckets that are not empty, from the given one.
Heads(n, from) == {b \in from..Len(nodes[n].kids) : nodes[n].kids[b] # <<>>}

\* Mutant: the end of a bucket ends the level.
Alternatives_bucket(n, pos) ==
    IF pos[2] < Len(nodes[n].kids[pos[1]]) THEN << <<pos[1], pos[2] + 1>> >> ELSE <<>>

\* The next child: in the list, else the head of a later bucket.
Alternatives(n, pos) ==
    IF pos[2] < Len(nodes[n].kids[pos[1]]) THEN << <<pos[1], pos[2] + 1>> >>
    ELSE IF Heads(n, pos[1] + 1) # {} THEN << <<Min(Heads(n, pos[1] + 1)), 1>> >>
    ELSE <<>>

Wanted(f) == CASE f.ty = "int" -> f.field
               [] f.ty = "list" -> IF f.kind = "nil" THEN 0 ELSE 1

\* What the match stack holds for the children of a node that matched.
ExactRest(f, rest) ==
    IF f.ty = "int" \/ f.kind = "nil" THEN rest
    ELSE IF f.kind = "cons" THEN <<Open("int"), Open("list")>> \o rest
    ELSE <<f.head, f.tail>> \o rest

OpenRest(f, symbol, rest) ==
    CASE f.ty = "int" -> rest
      [] f.ty = "list" -> IF symbol = 0 THEN rest ELSE <<Open("int"), f>> \o rest
      [] OTHER -> <<f>> \o rest

NoMatch == [found |-> <<>>, cont |-> <<>>, misread |-> FALSE]
Misread == [NoMatch EXCEPT !.misread = TRUE]

RECURSIVE find_next(_, _, _), try_again(_, _)

\* A frame is restored as one that goes down during the first call.
try_again(cont, force_down) ==
    IF cont = <<>> THEN NoMatch
    ELSE find_next([Last(cont) EXCEPT !.down = force_down], Front(cont), force_down)

match_succeeded(n, mstk, cont, force_down) ==
    IF ~is_leaf(n)
    THEN find_next([mstk |-> mstk, parent |-> n, node |-> FirstChild(n), down |-> TRUE],
                   cont, force_down)
    ELSE IF leaf[n].count = 0 THEN try_again(cont, force_down)
    ELSE [found |-> <<n>>, cont |-> cont, misread |-> FALSE]

find_next(frm, cont, force_down) ==
    LET f == Head(frm.mstk)
        n == frm.parent
        pos == IF frm.node = Table THEN <<Min(Heads(n, 1)), 1>> ELSE frm.node
        alts == [i \in DOMAIN Alternatives(n, pos) |->
                    [frm EXCEPT !.node = Alternatives(n, pos)[i]]]
    IN  IF nodes[n].hashed /\ frm.node # Table /\ (frm.down \/ f.exact)
        THEN Misread  \* a node is taken for a table
        ELSE IF ~f.exact
        THEN match_succeeded(Child(n, At(n, pos)), OpenRest(f, At(n, pos), Tail(frm.mstk)),
                             cont \o alts, force_down)
        ELSE IF match(nodes, n, Wanted(f))
        THEN match_succeeded(Child(n, Wanted(f)), ExactRest(f, Tail(frm.mstk)), cont, force_down)
        ELSE try_again(cont, force_down)

\* The matches in the order in which the iterator gives them.
RECURSIVE Collect(_)
Collect(r) ==
    IF r.found = <<>> THEN r
    ELSE LET more == Collect(try_again(r.cont, FALSE))
         IN  [more EXCEPT !.found = r.found \o @]

match_predicate(m) ==
    IF ~any_exact(m) THEN [NoMatch EXCEPT !.found = leaves]
    ELSE IF number_of_references = 0 THEN NoMatch
    ELSE Collect(find_next([mstk |-> m, parent |-> root, node |-> FirstChild(root), down |-> TRUE],
                           <<>>, TRUE))

----------------------------------------------------------------------------
(***************************************************************************)
(* What a search should find: the reference for the iterator.              *)
(***************************************************************************)
RECURSIVE FieldMatches(_, _)
FieldMatches(f, v) ==
    \/ ~f.exact
    \/ f.ty = "int" /\ v = f.field
    \/ f.ty = "list" /\ CASE f.kind = "nil" -> v = <<>>
                          [] f.kind = "cons" -> v # <<>>
                          [] OTHER -> /\ v # <<>>
                                      /\ FieldMatches(f.head, Head(v))
                                      /\ FieldMatches(f.tail, Tail(v))

do_matches(m, tpl) == \A i \in DOMAIN m : FieldMatches(m[i], tpl[i])

\* A search gives every fact that matches and nothing else, each once; a fact
\* that waits for its removal is only given when no field is exact.  Searches
\* that take a node for a table are left to SearchReadsTables.
SearchExact ==
    \A m \in Patterns(pred) :
       LET r == match_predicate(m)
       IN  r.misread \/ /\ IsInjective(r.found)
                        /\ Range(r.found) = {n \in DOMAIN leaf :
                                                /\ do_matches(m, leaf[n].tpl)
                                                /\ any_exact(m) => leaf[n].count > 0}

\* "this iterator uses a continuation stack to retrieve the next valid match"
\* (trie.hpp): a frame of that stack is never taken for the table of a hashed
\* node.
SearchReadsTables == \A m \in Patterns(pred) : ~match_predicate(m).misread
====
