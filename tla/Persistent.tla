---- MODULE Persistent ----
(***************************************************************************)
(* How a node processes its persistent facts and aggregates                *)
(* (src/vm/state.cpp, do_persistent_tuples and what it calls;              *)
(* src/db/persistent_store.cpp, tuple_aggregate.cpp,                       *)
(* agg_configuration.cpp; src/vm/full_tuple.hpp).  Other nodes derive      *)
(* facts and retract them; each sender's facts arrive in the order in      *)
(* which it sent them.  A fact of an aggregate goes into the values of its *)
(* key, and the aggregated fact joins the same list when it changes.       *)
(***************************************************************************)
EXTENDS SequencesExt, TrieLeaf, Lists

CONSTANTS
    Senders, Keys, Vals,  \* who derives, and the facts <<key, value>>
    Preds,                \* the predicates: [agg (the aggregate or "none"), cyclic, reused]
    Depths,               \* the depths that come with the facts
    MaxList, MaxLinear    \* bounds: the facts that wait, the linear facts left

\* values are numbers, a derivation has a depth, and an aggregate is one of the four
ASSUME FactsAssumption ==
    /\ IsFiniteSet(Senders) /\ IsFiniteSet(Vals) /\ Vals \subseteq Int /\ Depths \subseteq Nat
    /\ Preds \subseteq [agg : {"none", "first", "max", "min", "sum"},
                       cyclic : BOOLEAN, reused : BOOLEAN]

VARIABLES
    pred,
    derived,   \* derived[s][t]: the depth of the derivation of t by s, or None
    list,      \* node_persistent_tuples: the full tuples that wait
    facts,     \* the trie of the predicate
    confs,     \* the configuration of every key of the aggregate
    depth,     \* state.depth
    linear,    \* the linear facts a reused predicate leaves
    exists,    \* the rule matcher knows that the predicate has facts
    runs       \* how often the rules of a fact ran for it, less the runs for its removal

factVars == <<pred, derived, list, facts, confs, depth, linear, exists, runs>>

None == -1
Tuples == Keys \X Vals
key(t) == t[1]
AllTuples == Keys \X (0..(Max(Vals) * Cardinality(Senders) * Cardinality(Vals)))

full_tuple(tpl, dir, dpt, agg) == [tpl |-> tpl, dir |-> dir, depth |-> dpt, agg |-> agg]

NoConf == [vals |-> <<>>, corresponds |-> <<>>, last_depth |-> 0]

FactsInit ==
    /\ pred \in Preds
    /\ derived = [s \in Senders |-> [t \in Tuples |-> None]]
    /\ list = <<>>
    /\ facts = <<>>
    /\ confs = [k \in Keys |-> NoConf]
    /\ depth = 0
    /\ linear = [t \in Tuples |-> 0]
    /\ exists = FALSE
    /\ runs = [t \in AllTuples |-> 0]

----------------------------------------------------------------------------
(***************************************************************************)
(* The senders.                                                            *)
(***************************************************************************)
Derive(s, t, d) ==
    /\ Len(list) < MaxList
    /\ derived[s][t] = None /\ linear[t] < MaxLinear
    /\ derived' = [derived EXCEPT ![s][t] = d]
    /\ list' = Append(list, full_tuple(t, 1, d, FALSE))
    /\ UNCHANGED <<pred, facts, confs, depth, linear, exists, runs>>

Retract(s, t) ==
    /\ Len(list) < MaxList
    /\ derived[s][t] # None
    /\ derived' = [derived EXCEPT ![s][t] = None]
    /\ list' = Append(list, full_tuple(t, -1, derived[s][t], FALSE))
    /\ UNCHANGED <<pred, facts, confs, depth, linear, exists, runs>>

----------------------------------------------------------------------------
(***************************************************************************)
(* One turn of the loop of do_persistent_tuples.                           *)
(***************************************************************************)
\* Mutant: an aggregated fact and a value of the aggregate cancel.
search_for_negative_tuple_any(ls, f) ==
    {i \in DOMAIN ls : /\ ls[i].tpl = f.tpl /\ ls[i].dir = -1
                       /\ \A j \in 1..(i - 1) : ~(ls[j].tpl = f.tpl /\ ls[j].dir = -1)}

\* The first later removal of the same fact, if there is one.
search_for_negative_tuple(ls, f) ==
    {i \in DOMAIN ls : /\ ls[i].tpl = f.tpl /\ ls[i].agg = f.agg /\ ls[i].dir = -1
                       /\ \A j \in 1..(i - 1) : ~(/\ ls[j].tpl = f.tpl /\ ls[j].agg = f.agg
                                                  /\ ls[j].dir = -1)}

tuple_for_assertion(f) == pred.agg # "none" => f.agg

\* setup_depth: the depth of the facts that the rules derive now.
setup_depth(d) == IF pred.cyclic THEN d + 1 ELSE 0

\* A removal meets its fact in the list: both go.
Cancel ==
    /\ list # <<>> /\ Head(list).dir = 1 /\ ~pred.reused
    /\ \E i \in search_for_negative_tuple(Tail(list), Head(list)) :
          list' = RemoveAt(Tail(list), i)
    /\ UNCHANGED <<pred, derived, facts, confs, depth, linear, exists, runs>>

Uncancelled == pred.reused \/ search_for_negative_tuple(Tail(list), Head(list)) = {}

\* Mutant: the rules run for every derivation.
AssertFact_always(f) ==
    /\ facts' = IF pred.reused THEN facts ELSE Inserted(facts, f.tpl, pred.cyclic, depth)
    /\ depth' = setup_depth(f.depth)
    /\ runs' = [runs EXCEPT ![f.tpl] = @ + 1]
    /\ linear' = IF pred.reused THEN [linear EXCEPT ![f.tpl] = @ + 1] ELSE linear
    /\ exists' = TRUE

\* The fact is stored with the depth of the state, which is the one of the
\* last fact whose rules ran; the rules run when the fact is new.
AssertFact(f) ==
    LET is_new == pred.reused \/ Entries(facts, f.tpl) = {}
    IN  /\ facts' = IF pred.reused THEN facts ELSE Inserted(facts, f.tpl, pred.cyclic, depth)
        /\ depth' = IF is_new THEN setup_depth(f.depth) ELSE depth
        /\ runs' = [runs EXCEPT ![f.tpl] = @ + IF is_new THEN 1 ELSE 0]
        /\ linear' = IF pred.reused THEN [linear EXCEPT ![f.tpl] = @ + 1] ELSE linear
        /\ exists' = TRUE

\* A reused fact is only stored as a linear fact: its removal runs the rules.
RetractReused(f) ==
    /\ depth' = setup_depth(f.depth)
    /\ runs' = [runs EXCEPT ![f.tpl] = @ - 1]
    /\ UNCHANGED <<facts, linear, exists>>

\* The leaves that are not to be deleted.
Kept(leaves) == Only(leaves, {l \in ToSet(leaves) : ~to_delete(l)})

\* new_persistent_count gets the references of the trie, which are the counts of
\* its leaves: there are none exactly when there is no leaf.  A cycle predicate's
\* derivations that go with a depth keep their references unless the leaf goes
\* too, so that the two differ there: what the matcher is told is left open.
new_persistent_count(leaves) == IF pred.cyclic THEN BOOLEAN ELSE {leaves # <<>>}

\* The rules run for the removal before the fact leaves the trie.
RetractFact(f) ==
    LET less == Lessened(facts, f.tpl, f.depth)
        gone == \E i \in Entries(less, f.tpl) : to_delete(less[i])
        rest == Kept(less)
    IN  /\ facts' = rest
        /\ depth' = IF gone THEN setup_depth(f.depth) ELSE depth
        /\ runs' = [runs EXCEPT ![f.tpl] = @ - IF gone THEN 1 ELSE 0]
        /\ exists' \in new_persistent_count(rest)
        /\ UNCHANGED linear

process_persistent_tuple ==
    /\ list # <<>>
    /\ Head(list).dir = 1 => Uncancelled
    /\ tuple_for_assertion(Head(list))
    /\ IF Head(list).dir = 1 THEN AssertFact(Head(list))
       ELSE IF pred.reused THEN RetractReused(Head(list))
       ELSE RetractFact(Head(list))
    /\ list' = Tail(list)
    /\ UNCHANGED <<pred, derived, confs>>

----------------------------------------------------------------------------
(***************************************************************************)
(* Aggregates.                                                             *)
(***************************************************************************)
add_to_set(conf, f) ==
    [conf EXCEPT !.vals = IF f.dir = 1 THEN Inserted(@, f.tpl, pred.cyclic, f.depth)
                          ELSE Kept(Lessened(@, f.tpl, f.depth))]

val_of(l) == l.tpl[2]

generate_first(vals) == vals[1].tpl

\* The first leaf with the largest value; generate_min is alike.
generate_max(vals) ==
    LET best == {i \in DOMAIN vals : \A j \in DOMAIN vals : val_of(vals[j]) <= val_of(vals[i])}
    IN  vals[Min(best)].tpl

generate_min(vals) ==
    LET best == {i \in DOMAIN vals : \A j \in DOMAIN vals : val_of(vals[i]) <= val_of(vals[j])}
    IN  vals[Min(best)].tpl

\* The first fact with the sum of the values, each as often as it is derived.
generate_sum(vals) ==
    [vals[1].tpl EXCEPT ![2] = SumFunctionOnSet([i \in DOMAIN vals |-> vals[i].count * val_of(vals[i])],
                                                DOMAIN vals)]

do_generate(vals) ==
    IF vals = <<>> THEN <<>>
    ELSE CASE pred.agg = "first" -> generate_first(vals)
           [] pred.agg = "max" -> generate_max(vals)
           [] pred.agg = "min" -> generate_min(vals)
           [] pred.agg = "sum" -> generate_sum(vals)

\* The depth of an aggregated fact: the largest of its values.
GeneratedDepth(vals) ==
    Max({0} \cup {max_depth(vals[i].depths) : i \in DOMAIN vals})

\* What changes: the old aggregated fact goes, the new one comes.
generate(conf) ==
    LET generated == do_generate(conf.vals)
        old == conf.corresponds
        dpt == GeneratedDepth(conf.vals)
        out == IF old # <<>> THEN <<full_tuple(old, -1, conf.last_depth, TRUE)>> ELSE <<>>
        in == IF generated # <<>> THEN <<full_tuple(generated, 1, dpt, TRUE)>> ELSE <<>>
    IN  IF generated = old THEN [conf |-> conf, new |-> <<>>]
        ELSE [conf |-> [conf EXCEPT !.corresponds = generated,
                                    !.last_depth = IF generated = <<>> THEN 0 ELSE dpt],
              new |-> out \o in]

add_to_aggregate ==
    /\ list # <<>>
    /\ Head(list).dir = 1 => Uncancelled
    /\ ~tuple_for_assertion(Head(list))
    /\ LET k == key(Head(list).tpl)
           g == generate(add_to_set(confs[k], Head(list)))
       IN  /\ confs' = [confs EXCEPT ![k] = g.conf]
           /\ list' = Tail(list) \o g.new
    /\ UNCHANGED <<pred, derived, facts, depth, linear, exists, runs>>

FactsNext ==
    \/ \E s \in Senders, t \in Tuples :
          \/ \E d \in Depths : Derive(s, t, d)
          \/ Retract(s, t)
    \/ Cancel
    \/ process_persistent_tuple
    \/ add_to_aggregate

FactsSpec == FactsInit /\ [][FactsNext]_factVars

----------------------------------------------------------------------------
(***************************************************************************)
(* Properties.                                                             *)
(***************************************************************************)
\* How many senders hold a derivation of a fact.
Holders(t) == Cardinality({s \in Senders : derived[s][t] # None})

HeldBy(k) == {t \in Tuples : key(t) = k /\ Holders(t) > 0}

\* The aggregate of a key, from the derivations themselves.
IsAggregate(t, k) ==
    CASE pred.agg = "first" -> t \in HeldBy(k)
      [] pred.agg = "max" -> t \in HeldBy(k) /\ \A u \in HeldBy(k) : u[2] <= t[2]
      [] pred.agg = "min" -> t \in HeldBy(k) /\ \A u \in HeldBy(k) : t[2] <= u[2]
      [] pred.agg = "sum" -> t = <<k, SumFunctionOnSet([u \in HeldBy(k) |-> Holders(u) * u[2]], HeldBy(k))>>

\* When nothing waits, the facts are the ones that somebody holds, each counted
\* once for every holder; for an aggregate, a key has its one aggregated fact
\* if somebody holds a value for it, and none otherwise.  Retractions,
\* cancellations and aggregates that change back on the way leave no trace
\* (do_persistent_tuples, agg_configuration::generate).
SettledRight ==
    list = <<>> =>
       CASE pred.reused -> facts = <<>>
         [] ~pred.reused /\ pred.agg = "none" ->
               \A t \in Tuples : CountOf(facts, t) = Holders(t)
         [] OTHER -> /\ \A i \in DOMAIN facts : facts[i].count = 1
                     /\ \A k \in Keys : LET mine == {i \in DOMAIN facts : key(facts[i].tpl) = k}
                                        IN  /\ Cardinality(mine) = IF HeldBy(k) = {} THEN 0 ELSE 1
                                            /\ \A i \in mine : IsAggregate(facts[i].tpl, k)

\* The rules of a fact ran once more than they ran for its removal exactly
\* while the fact is in the database, so that what they derived is taken back
\* once; and the matcher knows whether the predicate has facts, unless it is a
\* cycle predicate (process_persistent_tuple).
RulesFollowFacts ==
    ~pred.reused => /\ \A t \in AllTuples : runs[t] = IF Entries(facts, t) = {} THEN 0 ELSE 1
                    /\ ~pred.cyclic => exists = (facts # <<>>)
====
