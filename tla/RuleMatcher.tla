---------------------------- MODULE RuleMatcher ----------------------------
(***************************************************************************)
(* The rule matcher of a node (src/vm/rule_matcher.hpp): which predicates  *)
(* have facts, how many predicates of each rule have them, and which rules *)
(* are to be tried next.                                                   *)
(*                                                                         *)
(* `rules' is an array of bytes.  The availability of a predicate and the  *)
(* counts of the rules that use it are kept together by two operations;    *)
(* remove_thread changes the first without the second in the matcher of    *)
(* the thread node.                                                        *)
(***************************************************************************)
EXTENDS Integers, FiniteSets, FiniteSetsExt

CONSTANTS
  Pred,          \* predicates of the program
  ThreadPred,    \* theProgram->thread_predicates_map
  NumRules,      \* theProgram->num_rules()
  Body           \* the predicates of each rule

Rule == 0..NumRules - 1

\* The byte code gives the number of predicates in one byte.
ASSUME MatcherAssumption ==
  /\ IsFiniteSet(Pred) /\ Cardinality(Pred) < 256
  /\ ThreadPred \subseteq Pred
  /\ NumRules \in Nat
  /\ Body \in [Rule -> SUBSET Pred]
  /\ \A r \in Rule : Body[r] # {}

\* A rule has at least one predicate and the array of counts starts at zero.
rule_matcher == [rules |-> [r \in Rule |-> 0], predicate_existence |-> {}, rule_queue |-> {}]

Matchers == [rules : [Rule -> 0..255], predicate_existence : SUBSET Pred, rule_queue : SUBSET Rule]

num_predicates(r) == Cardinality(Body[r])
linear_rules(id) == {r \in Rule : id \in Body[r]}

\* The rules that use `id' and whose predicates are all available.
ReadyWith(rules, id) == {r \in linear_rules(id) : rules[r] = num_predicates(r)}

Counted(rules, id, d) == [r \in Rule |-> IF r \in linear_rules(id) THEN (rules[r] + d) % 256 ELSE rules[r]]

register_predicate_unavailability(m, id) ==
  [rules               |-> Counted(m.rules, id, -1),
   predicate_existence |-> m.predicate_existence \ {id},
   rule_queue          |-> m.rule_queue \ ReadyWith(m.rules, id)]

register_predicate_availability(m, id) ==
  LET rules == Counted(m.rules, id, 1)
  IN  [rules               |-> rules,
       predicate_existence |-> m.predicate_existence \cup {id},
       rule_queue          |-> m.rule_queue \cup ReadyWith(rules, id)]

\* Mutant: a new fact of a predicate that already has facts queues nothing.
register_predicate_update_silent(m, id) == m

register_predicate_update(m, id) ==
  [m EXCEPT !.rule_queue = @ \cup ReadyWith(m.rules, id)]

new_linear_fact(m, id) ==
  IF id \in m.predicate_existence
  THEN register_predicate_update(m, id)
  ELSE register_predicate_availability(m, id)

new_persistent_fact(m, id) == new_linear_fact(m, id)

\* Mutant: the last fact is gone, the rules keep their counts.
empty_predicate_uncounted(m, id) == [m EXCEPT !.predicate_existence = @ \ {id}]

empty_predicate(m, id) ==
  IF id \in m.predicate_existence THEN register_predicate_unavailability(m, id) ELSE m

\* The iterates of a rule tell the matcher what they updated and what they emptied.
update_all(m, ps) == FoldSet(LAMBDA id, acc : register_predicate_update(acc, id), m, ps)
empty_all(m, ps) == FoldSet(LAMBDA id, acc : empty_predicate(acc, id), m, ps)

new_persistent_count(m, id, count) ==
  IF count = 0 THEN empty_predicate(m, id) ELSE new_persistent_fact(m, id)

\* `m' takes over the facts marked in the matcher of the thread node.
add_thread(m, tm) ==
  FoldSet(LAMBDA id, acc : new_linear_fact(acc, id), m, tm.predicate_existence)

\* The marks go back to the thread node: only its bits, not its counts.
remove_thread(m, tm) ==
  [node   |-> empty_all(m, ThreadPred),
   thread |-> [tm EXCEPT !.predicate_existence = ThreadPred \cap m.predicate_existence]]

\* bitmap::remove_front: the rule with the lowest number, that is the highest priority.
remove_front(queue) == CHOOSE r \in queue : \A s \in queue : r <= s
============================================================================
