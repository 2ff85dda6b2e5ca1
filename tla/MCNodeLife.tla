----------------------------- MODULE MCNodeLife -----------------------------
\* Instances of NodeLife: what the rules of the checked programs do.
EXTENDS NodeLife

Drop == [new |-> FALSE, head |-> {}]
Keep(h) == [new |-> FALSE, head |-> {<<"self", "arg">>} \cup h]
Pass(h) == [new |-> FALSE, head |-> h]
Spawn(h) == [new |-> TRUE, head |-> h]

\* References are dropped, kept, and passed on to another thread; nodes get facts from
\* whoever holds or just gave up a reference, and may refer to themselves.
MCRules ==
  {Drop,
   Pass({<<"away", "arg">>}), Pass({<<"arg", "none">>}), Pass({<<"arg", "self">>}),
   Keep({<<"arg", "none">>}), Pass({<<"away", "none">>}),
   Spawn({<<"new", "none">>, <<"self", "new">>}), Spawn({<<"new", "new">>})}
=============================================================================
