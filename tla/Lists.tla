------------------------------- MODULE Lists -------------------------------
\* The lists of the code are sequences; a node or a fact is on a list at most once.
EXTENDS Naturals, Sequences

\* The members of S in sequence s, in their order.
Only(s, S) ==
  LET F[i \in 0..Len(s)] ==
        IF i = 0 THEN <<>> ELSE IF s[i] \in S THEN Append(F[i - 1], s[i]) ELSE F[i - 1]
  IN  F[Len(s)]
============================================================================
