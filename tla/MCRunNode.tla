----------------------------- MODULE MCRunNode -----------------------------
\* Instances of RunNode: rules over a linear, a thread, a persistent and a reused predicate.
EXTENDS RunNode

Threads == {"t1", "t2"}
Nodes == {"n1", "n2"}
MCThreadNode == "t1" :> "h1" @@ "t2" :> "h2"
MCOwner == "n1" :> "t1" @@ "n2" :> "t2"

\* Rule 0 has the highest priority.
MixedBody == 0 :> {"a", "t"} @@ 1 :> {"a"} @@ 2 :> {"a", "p"} @@ 3 :> {"p", "u"}
PlainBody == 0 :> {"a"}
ThreadBody == 0 :> {"a"} @@ 1 :> {"t"}
============================================================================
