---- MODULE MCTrie ----
EXTENDS TrieSearch
Pred(types, values, max) ==
    [types |-> types, values |-> values, cyclic |-> FALSE, agg |-> FALSE, max |-> max,
     absent |-> types # <<>>]
Four == {0, 1, 2, 4}
MCPreds == {Pred(<<"int">>, <<Four>>, 2),
            Pred(<<"int", "int">>, <<{0, 1, 2}, {0, 1}>>, 1),
            Pred(<<"list">>, <<{<<>>, <<0>>, <<1>>, <<0, 1>>}>>, 2),
            Pred(<<>>, <<>>, 2),
            [Pred(<<"int">>, <<Four>>, 1) EXCEPT !.agg = TRUE],
            [Pred(<<"int">>, <<{0, 1, 2}>>, 3) EXCEPT !.cyclic = TRUE]}

\* For the runs that end in a violation.
PairPreds == {Pred(<<"int", "int">>, <<{0, 1, 2}, {0, 1}>>, 1)}
CyclePreds == {[Pred(<<"int">>, <<{0}>>, 3) EXCEPT !.cyclic = TRUE]}
AbsentPreds == {[Pred(<<>>, <<>>, 2) EXCEPT !.absent = TRUE]}
StructPreds == {Pred(<<"pair", "int">>, <<{<<0, 0>>}, {0, 1}>>, 1)}
====
