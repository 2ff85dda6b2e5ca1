---- MODULE TupleCounts ----
(***************************************************************************)
(* What a trie promises its users (src/db/trie.hpp): the facts of one      *)
(* predicate in the order in which they first came, each with the number   *)
(* of its derivations.  A fact whose last derivation goes stays, with the  *)
(* count 0, until the rules have run for its removal.                      *)
(***************************************************************************)
EXTENDS Sequences, SequencesExt, TrieLeaf

CONSTANTS
    Preds,       \* the predicates: [cyclic, agg]; with agg, a key has one
                 \* entry, which is not counted
    FactsOf(_),  \* the facts of a predicate, as sequences of values
    Depths       \* the depths of the derivations

VARIABLES
    pred,      \* the predicate
    facts,     \* the leaves, in the order of the leaf list
    doomed     \* the facts that wait for their removal (at most one)

vars == <<pred, facts, doomed>>

Init == pred \in Preds /\ facts = <<>> /\ doomed = {}

Insert(tpl, depth) ==
    /\ doomed = {}
    /\ facts' = IF pred.agg /\ Entries(facts, tpl) # {} THEN facts
                ELSE Inserted(facts, tpl, pred.cyclic, depth)
    /\ UNCHANGED <<pred, doomed>>

Delete(tpl, depth) ==
    /\ doomed = {}
    /\ facts' = Lessened(facts, tpl, depth)
    /\ doomed' = {facts[i].tpl : i \in {j \in Entries(facts, tpl) :
                                          to_delete(Less(facts[j], depth))}}
    /\ UNCHANGED pred

Commit ==
    /\ doomed # {}
    /\ facts' = Without(facts, LAMBDA t : t \in doomed)
    /\ doomed' = {}
    /\ UNCHANGED pred

\* A derivation goes and, when it was the last one, its fact in the same step.
DeleteNow(tpl, depth) ==
    /\ doomed = {}
    /\ facts' = SelectSeq([i \in DOMAIN facts |-> IF i \in Entries(facts, tpl)
                                                  THEN sub(facts[i], depth) ELSE facts[i]],
                          LAMBDA l : ~to_delete(l))
    /\ UNCHANGED <<pred, doomed>>

Erase(tpl) ==
    /\ doomed = {}
    /\ facts' = Without(facts, LAMBDA t : t = tpl)
    /\ UNCHANGED <<pred, doomed>>

DeleteByIndex(values) ==
    /\ doomed = {}
    /\ facts' = Without(facts, LAMBDA t : SubSeq(t, 1, Len(values)) = values)
    /\ UNCHANGED <<pred, doomed>>

Next ==
    \/ \E tpl \in FactsOf(pred), depth \in Depths :
          \/ Insert(tpl, depth)
          \/ Delete(tpl, depth)
          \/ DeleteNow(tpl, depth)
    \/ Commit
    \/ \E tpl \in FactsOf(pred) : Erase(tpl)
    \/ \E tpl \in FactsOf(pred) : \E n \in 0..Len(tpl) : DeleteByIndex(SubSeq(tpl, 1, n))

Spec == Init /\ [][Next]_vars
====
