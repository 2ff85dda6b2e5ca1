------------------------------ MODULE RunNode ------------------------------
(***************************************************************************)
(* What state::run_node does with a node (src/vm/state.cpp 637-790) and    *)
(* how facts reach it: the temporary store, the linear and the persistent  *)
(* database, the rule matcher, the facts a rule derives, and the buffer    *)
(* that holds facts for other nodes until the run ends                     *)
(* (src/db/node.hpp, src/db/temporary_store.hpp, src/vm/helpers.cpp,       *)
(* src/vm/buffer.hpp, src/thread/thread.hpp).                              *)
(*                                                                         *)
(* A fact is a number, in the order the facts are derived, and `info'      *)
(* records its predicate and the node whose rule derived it.  Its fields   *)
(* are abstracted: whether a rule whose predicates all have facts also     *)
(* matches, what it consumes, updates and derives is a choice.  The queues *)
(* a node waits in are modelled in NodeSched; here a thread may run any    *)
(* node of its own that has unprocessed facts, and its thread node when    *)
(* there is no other.                                                      *)
(***************************************************************************)
EXTENDS RuleMatcher, SequencesExt, Lists

CONSTANTS
  Thread,
  Node,          \* the regular nodes
  thread_node,   \* the thread node of each thread
  owner0,        \* owner of each node at the start
  LinearPred,    \* linear predicates
  ReusedPred,    \* linear predicates that are also handled like persistent ones
  InitPred,      \* predicate of the axioms
  InitNode,      \* nodes that start with an axiom
  SelfDest,      \* predicates a rule may send to a destination that is its own node
  MaxFacts,      \* bound: facts derived
  MaxMoves       \* bound: times a running node is given to another thread

ThreadNode == {thread_node[t] : t \in Thread}
AllNode == Node \cup ThreadNode

\* There is a node, and every thread makes a thread node of its own.
ASSUME RunAssumption ==
  /\ IsFiniteSet(Node) /\ Node # {}
  /\ thread_node \in [Thread -> ThreadNode] /\ ThreadNode \cap Node = {}
  /\ \A t, u \in Thread : thread_node[t] = thread_node[u] => t = u
  /\ owner0 \in [Node -> Thread]
  /\ ReusedPred \subseteq LinearPred /\ LinearPred \subseteq Pred
  /\ InitPred \in LinearPred \ (ThreadPred \cup ReusedPred) /\ InitNode \subseteq Node
  /\ SelfDest \subseteq Pred \ ThreadPred
  /\ MaxFacts \in Nat /\ MaxMoves \in Nat

VARIABLES
  info,               \* the facts derived so far
  owner,              \* node::owner
  linear,             \* node::linear, a list of facts for each linear predicate
  pers_store,         \* node::pers_store, the facts of persistent predicates
  incoming,           \* temporary_store::incoming
  incoming_persistent,\* temporary_store::incoming_persistent_tuples
  matcher,            \* node::matcher
  unprocessed_facts,  \* node::unprocessed_facts
  run,                \* what each thread is doing, and the registers and lists of its state
  facts_to_send,      \* state::facts_to_send
  moves,              \* how often a node was given away
  fresh               \* rules with a fact that came since they were last tried

vars == <<info, owner, linear, pers_store, incoming, incoming_persistent, matcher,
          unprocessed_facts, run, facts_to_send, moves, fresh>>

Fact == 1..MaxFacts

Slow(p) == p \notin LinearPred \/ p \in ReusedPred
NoFacts == [p \in LinearPred |-> <<>>]
Idle == [pc |-> "idle", node |-> CHOOSE n \in Node : TRUE, rule |-> 0, used |-> {},
         generated |-> NoFacts, node_persistent |-> <<>>, thread_persistent |-> <<>>,
         leave |-> FALSE]

\* The axioms are in the databases; every node waits to be run for the first time.
Init ==
  LET first == SetToSeq(InitNode)
      Born(n) == CHOOSE i \in 1..Len(first) : first[i] = n
  IN  /\ info = [i \in 1..Len(first) |->
                   [pred |-> InitPred, from |-> first[i]]]
      /\ owner = [n \in AllNode |-> IF n \in Node THEN owner0[n]
                                    ELSE CHOOSE t \in Thread : thread_node[t] = n]
      /\ linear = [n \in AllNode |->
                     [p \in LinearPred |-> IF n \in InitNode /\ p = InitPred THEN <<Born(n)>> ELSE <<>>]]
      /\ pers_store = [n \in AllNode |-> {}]
      /\ incoming = [n \in AllNode |-> NoFacts]
      /\ incoming_persistent = [n \in AllNode |-> <<>>]
      /\ matcher = [n \in AllNode |->
                      IF n \in InitNode THEN new_linear_fact(rule_matcher, InitPred) ELSE rule_matcher]
      /\ unprocessed_facts = [n \in AllNode |-> n \in Node \/ ThreadPred # {}]
      /\ run = [t \in Thread |-> Idle]
      /\ facts_to_send = [t \in Thread |-> [n \in Node |-> NoFacts]]
      /\ moves = 0
      /\ fresh = [n \in AllNode |-> IF n \in InitNode THEN linear_rules(InitPred) ELSE {}]

\* The rules that lists of facts concern.
Concerned(lists) == UNION {linear_rules(p) : p \in {q \in LinearPred : lists[q] # <<>>}}
ConcernedBy(seq) == UNION {linear_rules(info[f].pred) : f \in ToSet(seq)}

\* linear_store::increment_database and add_fact_list, for every predicate.
increment_database(db, lists) == [p \in LinearPred |-> db[p] \o lists[p]]

\* rule_matcher::new_linear_fact once for every list that is not empty.
MarkLists(m, lists) ==
  FoldSet(LAMBDA p, acc : new_linear_fact(acc, p), m, {p \in LinearPred : lists[p] # <<>>})

(***************************************************************************)
(* do_persistent_tuples for positive facts, into node n while the matcher  *)
(* in use is that of node `cur'.  A reused fact goes to the linear store   *)
(* of n and is marked in the matcher of n itself.                          *)
(***************************************************************************)
Reused(list) == [p \in LinearPred |-> Only(list, {f \in ToSet(list) : info[f].pred = p})]

process_persistent(m, cur, n, list) ==
  LET slow == {info[f].pred : f \in ToSet(list)}
      kept == FoldSet(LAMBDA p, acc : new_persistent_fact(acc, p), m[cur], slow \ ReusedPred)
      step == [m EXCEPT ![cur] = kept]
  IN  [step EXCEPT ![n] = MarkLists(@, Reused(list))]

Stored(n, list) == pers_store[n] \cup {f \in ToSet(list) : info[f].pred \notin LinearPred}

process_incoming(m, cur, n) == [m EXCEPT ![cur] = MarkLists(@, incoming[n])]

\* run_node up to the release of main_lock, and the persistent tuples that came.
Begin(t) ==
  /\ run[t].pc = "idle"
  /\ \E n \in {k \in AllNode : unprocessed_facts[k] /\ owner[k] = t} :
       LET list == incoming_persistent[n]
       IN  /\ n \in ThreadNode => ~\E k \in Node : unprocessed_facts[k] /\ owner[k] = t
           /\ matcher' = process_persistent(process_incoming(matcher, n, n), n, n, list)
           /\ linear' = [linear EXCEPT ![n] = increment_database(
                                         increment_database(@, incoming[n]), Reused(list))]
           /\ pers_store' = [pers_store EXCEPT ![n] = Stored(n, list)]
           /\ incoming' = [incoming EXCEPT ![n] = NoFacts]
           /\ incoming_persistent' = [incoming_persistent EXCEPT ![n] = <<>>]
           /\ unprocessed_facts' = [unprocessed_facts EXCEPT ![n] = FALSE]
           /\ fresh' = [fresh EXCEPT ![n] = @ \cup Concerned(incoming[n]) \cup ConcernedBy(list)]
           /\ run' = [run EXCEPT ![t] = [Idle EXCEPT
                        !.node = n, !.thread_persistent = run[t].thread_persistent,
                        !.pc = IF ThreadPred # {} /\ n # thread_node[t] THEN "thread" ELSE "rules"]]
  /\ UNCHANGED <<info, owner, facts_to_send, moves>>

\* The facts of the thread node join the matcher of the node.
AddThread(t) ==
  LET n == run[t].node
      h == thread_node[t]
      list == incoming_persistent[h]
      m == process_persistent(process_incoming(matcher, n, h), n, h, list)
  IN  /\ run[t].pc = "thread"
      /\ matcher' = [m EXCEPT ![n] = add_thread(@, m[h])]
      /\ linear' = [linear EXCEPT ![h] = increment_database(
                                    increment_database(@, incoming[h]), Reused(list))]
      /\ pers_store' = [pers_store EXCEPT ![h] = Stored(h, list)]
      /\ incoming' = [incoming EXCEPT ![h] = NoFacts]
      /\ incoming_persistent' = [incoming_persistent EXCEPT ![h] = <<>>]
      /\ unprocessed_facts' = [unprocessed_facts EXCEPT ![h] = FALSE]
      /\ fresh' = [fresh EXCEPT ![n] = @ \cup Concerned(incoming[h]) \cup ConcernedBy(list)]
      /\ run' = [run EXCEPT ![t].pc = "rules"]
      /\ UNCHANGED <<info, owner, facts_to_send, moves>>

\* The loop takes the first rule of the queue.
NextRule(t) ==
  LET n == run[t].node
      r == remove_front(matcher[n].rule_queue)
  IN  /\ run[t].pc = "rules"
      /\ matcher[n].rule_queue # {}
      /\ matcher' = [matcher EXCEPT ![n].rule_queue = @ \ {r}]
      /\ fresh' = [fresh EXCEPT ![n] = @ \ {r}]
      /\ run' = [run EXCEPT ![t].pc = "match", ![t].rule = r]
      /\ UNCHANGED <<info, owner, linear, pers_store, incoming, incoming_persistent,
                     unprocessed_facts, facts_to_send, moves>>

\* The node whose store holds the facts of p while t runs node n.
Home(t, n, p) == IF p \in ThreadPred THEN thread_node[t] ELSE n

\* The facts of p that thread t can see.
Visible(t, p) ==
  LET h == Home(t, run[t].node, p)
  IN  IF p \in LinearPred THEN ToSet(linear[h][p])
      ELSE {f \in pers_store[h] : info[f].pred = p}

\* The iterates of a rule found a fact for every predicate of its body.
Match(t) ==
  /\ run[t].pc = "match"
  /\ \E used \in [Body[run[t].rule] -> Fact] :
       /\ \A p \in Body[run[t].rule] : used[p] \in Visible(t, p)
       /\ run' = [run EXCEPT ![t].pc = "fire", ![t].used = {used[p] : p \in Body[run[t].rule]}]
  /\ UNCHANGED <<info, owner, linear, pers_store, incoming, incoming_persistent, matcher,
                 unprocessed_facts, facts_to_send, moves, fresh>>

\* The database of a node is locked from Begin to EndRun.
DatabaseLocked(n) ==
  \E u \in Thread : run[u].node = n /\ run[u].pc \notin {"idle", "sync"}

\* buffer::add_into_buffer_node: facts of one predicate are kept in one list.
add_into_buffer_node(b, f, p) == [b EXCEPT ![p] = <<f>> \o @]

\* buffer::add: one entry for each destination.
buffer_add(buffer, n, f, p) == [buffer EXCEPT ![n] = add_into_buffer_node(@, f, p)]

(***************************************************************************)
(* A fact for the node that runs or for its thread, put on a list of the   *)
(* state.  A reused fact for the own thread goes to either list:           *)
(* execute_thread_send0 treats it as linear, ADDTPERS as persistent.       *)
(***************************************************************************)
Enqueued(r, f, p) ==
  LET generated == [r EXCEPT !.generated[p] = Append(@, f)]
  IN  IF p \notin ReusedPred THEN {generated}
      ELSE IF p \in ThreadPred
           THEN {generated, [r EXCEPT !.thread_persistent = Append(@, f)]}
           ELSE {[r EXCEPT !.node_persistent = Append(@, f)]}

\* execute_add_linear0: the fact enters the database at once.
AddLinear(t, f, p) ==
  LET n == run[t].node
  IN  /\ linear' = [linear EXCEPT ![n][p] = Append(@, f)]
      /\ matcher' = [matcher EXCEPT ![n] = new_linear_fact(@, p)]
      /\ fresh' = [fresh EXCEPT ![n] = @ \cup linear_rules(p)]
      /\ UNCHANGED <<run, pers_store, incoming, incoming_persistent, unprocessed_facts, facts_to_send>>

\* execute_add_node_persistent0 and execute_add_thread_persistent0, a predicate with
\* no code and no aggregate.  The facts of the others wait on a list of the state;
\* here those are the reused ones (Enqueued), and what becomes of the rest is in
\* module Persistent.
AddPersistent(t, f, p) ==
  LET n == run[t].node
  IN  /\ pers_store' = [pers_store EXCEPT ![Home(t, n, p)] = @ \cup {f}]
      /\ matcher' = [matcher EXCEPT ![n] = new_persistent_fact(@, p)]
      /\ fresh' = [fresh EXCEPT ![n] = @ \cup linear_rules(p)]
      /\ UNCHANGED <<run, incoming, incoming_persistent, unprocessed_facts, facts_to_send>>

\* A fact for another thread: new_thread_work.
NewThreadWork(h, f, p) ==
  /\ IF Slow(p)
     THEN incoming_persistent' = [incoming_persistent EXCEPT ![h] = Append(@, f)]
          /\ UNCHANGED incoming
     ELSE incoming' = [incoming EXCEPT ![h][p] = Append(@, f)]
          /\ UNCHANGED incoming_persistent
  /\ unprocessed_facts' = [unprocessed_facts EXCEPT ![h] = TRUE]
  /\ UNCHANGED <<run, matcher, pers_store, facts_to_send, fresh>>

(***************************************************************************)
(* execute_send0 to a destination held in a register.  Facts that are not  *)
(* buffered go to the node at once by new_work, which locks the database   *)
(* of a node of the same thread: thread t waits for itself when that is    *)
(* the node it runs.                                                       *)
(***************************************************************************)
Send(t, n, f, p) ==
  /\ IF ~Slow(p)
     THEN /\ facts_to_send' = [facts_to_send EXCEPT ![t] = buffer_add(@, n, f, p)]
          /\ UNCHANGED <<run, incoming_persistent, unprocessed_facts>>
     ELSE /\ IF n = run[t].node
             THEN run' = [run EXCEPT ![t].pc = "locked out"] /\ UNCHANGED <<incoming_persistent, unprocessed_facts>>
             ELSE /\ incoming_persistent' = [incoming_persistent EXCEPT ![n] = Append(@, f)]
                  /\ unprocessed_facts' = [unprocessed_facts EXCEPT ![n] = TRUE]
                  /\ UNCHANGED run
          /\ UNCHANGED facts_to_send
  /\ UNCHANGED <<incoming, matcher, pers_store, fresh>>

\* The rule derives one more fact.  REMOTE_UPDATE, which may instead change fields
\* of a fact of another node in place and registers nothing with its matcher
\* (execute_remote_update), changes nothing here: facts have no fields.
Derive(t) ==
  LET n == run[t].node
      f == Len(info) + 1
  IN  /\ run[t].pc = "fire" /\ f \in Fact
      /\ \E p \in Pred : \E to \in IF p \in ThreadPred THEN ThreadNode ELSE Node :
           /\ info' = Append(info, [pred |-> p, from |-> n])
           /\ \/ to = n /\ p \in LinearPred \ (ThreadPred \cup ReusedPred) /\ AddLinear(t, f, p)
              \/ /\ \/ /\ to = Home(t, n, p) /\ p \in LinearPred
                       /\ \E r \in Enqueued(run[t], f, p) : run' = [run EXCEPT ![t] = r]
                       /\ UNCHANGED <<matcher, pers_store, incoming, incoming_persistent,
                                      unprocessed_facts, facts_to_send, fresh>>
                    \/ to = Home(t, n, p) /\ p \notin LinearPred /\ AddPersistent(t, f, p)
                    \/ to # Home(t, n, p) /\ p \in ThreadPred /\ NewThreadWork(to, f, p)
                    \/ (to = n => p \in SelfDest) /\ p \notin ThreadPred /\ Send(t, to, f, p)
                 /\ UNCHANGED linear
      /\ UNCHANGED <<owner, moves>>

(***************************************************************************)
(* The body of the rule is done and the iterates unwind: facts consumed    *)
(* are erased and destroyed, facts updated are put on the generated list   *)
(* (or stay where they are, in the first iterate).  The retraction that    *)
(* execute_remove adds for a reused fact changes no matcher and is in      *)
(* module Persistent.  An iterate over an ordered selection                *)
(* (execute_olinear_iter) does not report that it emptied its list: the    *)
(* facts consumed by one are `silent'.                                     *)
(***************************************************************************)
GiveUp(t, consumed, updated, stay, silent) ==
  LET n == run[t].node
      gone == consumed \cup (updated \ stay)
      db == [h \in AllNode |->
               [p \in LinearPred |-> Only(linear[h][p], ToSet(linear[h][p]) \ gone)]]
      emptied == {p \in LinearPred : db[Home(t, n, p)][p] = <<>>
                    /\ \E f \in consumed \ silent : info[f].pred = p}
      tried == {info[f].pred : f \in updated}
  IN  /\ linear' = db
      /\ info' = [f \in DOMAIN info |->
           IF f \in updated THEN [info[f] EXCEPT !.from = n] ELSE info[f]]
      /\ matcher' = [matcher EXCEPT ![n] = empty_all(update_all(@, tried), emptied)]
      /\ fresh' = [fresh EXCEPT ![n] = @ \cup UNION {linear_rules(p) : p \in tried}]
      /\ run' = [run EXCEPT ![t].pc = "match", ![t].used = {},
           ![t].generated = [p \in LinearPred |->
              @[p] \o SetToSeq({f \in updated \ stay : info[f].pred = p})]]

Unwind(t) ==
  LET used == {f \in run[t].used : info[f].pred \in LinearPred}
  IN  /\ run[t].pc = "fire"
      /\ \E consumed \in SUBSET used : \E updated \in SUBSET (used \ consumed) :
         \E stay \in SUBSET updated : \E silent \in SUBSET consumed :
           Cardinality(stay) <= 1 /\ GiveUp(t, consumed, updated, stay, silent)
      /\ UNCHANGED <<owner, pers_store, incoming, incoming_persistent, unprocessed_facts,
                     facts_to_send, moves>>

(***************************************************************************)
(* execute_rule returned: generated facts enter the databases, then the    *)
(* persistent ones; those of the thread wait when its own node runs.  The  *)
(* run is cut short when the node has a new owner.                         *)
(***************************************************************************)
EndRule(t) ==
  LET n == run[t].node
      h == thread_node[t]
      lists == run[t].generated
      thread == IF n = h THEN <<>> ELSE run[t].thread_persistent
      ForNode(k) == [p \in LinearPred |-> IF k = Home(t, n, p) THEN lists[p] ELSE <<>>]
      m0 == [matcher EXCEPT ![n] = MarkLists(@, lists)]
      m1 == process_persistent(m0, n, n, run[t].node_persistent)
      m2 == process_persistent(m1, n, h, thread)
      d0 == [linear EXCEPT ![n] = increment_database(@, ForNode(n)),
                           ![h] = IF h = n THEN @ ELSE increment_database(@, ForNode(h))]
      d1 == [d0 EXCEPT ![n] = increment_database(@, Reused(run[t].node_persistent))]
  IN  /\ run[t].pc = "match"
      /\ \E leave \in {FALSE} \cup (IF n \in Node /\ moves < MaxMoves THEN {TRUE} ELSE {}) :
           /\ run' = [run EXCEPT ![t] = [Idle EXCEPT !.node = n, !.leave = leave,
                        !.pc = IF leave THEN "end" ELSE "rules",
                        !.thread_persistent = IF n = h THEN run[t].thread_persistent ELSE <<>>]]
           /\ unprocessed_facts' = [unprocessed_facts EXCEPT ![n] = @ \/ leave]
           /\ moves' = IF leave THEN moves + 1 ELSE moves
      /\ matcher' = m2
      /\ linear' = [d1 EXCEPT ![h] = increment_database(@, Reused(thread))]
      /\ fresh' = [fresh EXCEPT ![n] = @ \cup Concerned(lists)
                     \cup ConcernedBy(run[t].node_persistent \o thread)]
      /\ UNCHANGED <<info, owner, pers_store, incoming, incoming_persistent, facts_to_send>>

\* No rule is left: the marks of the thread go back to it and the database is unlocked.
EndRun(t) ==
  LET n == run[t].node
      h == thread_node[t]
      back == remove_thread(matcher[n], matcher[h])
  IN  /\ \/ run[t].pc = "rules" /\ matcher[n].rule_queue = {}
         \/ run[t].pc = "end"
      /\ matcher' = IF ThreadPred # {} /\ n # h
                    THEN [matcher EXCEPT ![n] = back.node, ![h] = back.thread] ELSE matcher
      /\ run' = [run EXCEPT ![t].pc = "sync"]
      /\ UNCHANGED <<info, owner, linear, pers_store, incoming, incoming_persistent,
                     unprocessed_facts, facts_to_send, moves, fresh>>

\* Mutant: the list of the last destination is not cleared after it was sent.
Sent_kept(buffer, n) ==
  IF \E k \in Node \ {n} : buffer[k] # NoFacts THEN [buffer EXCEPT ![n] = NoFacts] ELSE buffer

\* The buffer without the entry that was sent.
Sent(buffer, n) == [buffer EXCEPT ![n] = NoFacts]

(***************************************************************************)
(* state::sync hands one destination its lists: new_work_list.  The first  *)
(* eight destinations are taken in the order they were added, the others   *)
(* in the order of their addresses: here in any order.                     *)
(***************************************************************************)
Sync(t) ==
  /\ run[t].pc = "sync"
  /\ \E n \in Node :
       LET lists == facts_to_send[t][n]
       IN  /\ lists # NoFacts
           /\ IF owner[n] = t \/ ~DatabaseLocked(n)
              THEN /\ matcher' = [matcher EXCEPT ![n] = MarkLists(@, lists)]
                   /\ linear' = [linear EXCEPT ![n] = increment_database(@, lists)]
                   /\ fresh' = [fresh EXCEPT ![n] = @ \cup Concerned(lists)]
                   /\ UNCHANGED incoming
              ELSE /\ incoming' = [incoming EXCEPT ![n] = increment_database(@, lists)]
                   /\ UNCHANGED <<matcher, linear, fresh>>
           /\ unprocessed_facts' = [unprocessed_facts EXCEPT ![n] = TRUE]
           /\ facts_to_send' = [facts_to_send EXCEPT ![t] = Sent(@, n)]
  /\ UNCHANGED <<info, owner, pers_store, incoming_persistent, run, moves>>

\* cleanup, and check_if_current_useless for a node that was given away.
Done(t) ==
  /\ run[t].pc = "sync" /\ \A n \in Node : facts_to_send[t][n] = NoFacts
  /\ IF run[t].leave
     THEN \E u \in Thread \ {t} : owner' = [owner EXCEPT ![run[t].node] = u]
     ELSE UNCHANGED owner
  /\ run' = [run EXCEPT ![t] = [Idle EXCEPT !.thread_persistent = run[t].thread_persistent]]
  /\ UNCHANGED <<info, linear, pers_store, incoming, incoming_persistent, matcher,
                 unprocessed_facts, facts_to_send, moves, fresh>>

Run(t) == \/ Begin(t) \/ AddThread(t) \/ NextRule(t) \/ Match(t) \/ Derive(t)
          \/ Unwind(t) \/ EndRule(t) \/ EndRun(t) \/ Sync(t) \/ Done(t)

Next == \E t \in Thread : Run(t)

Spec == Init /\ [][Next]_vars

----------------------------------------------------------------------------
\* The matcher in use is that of the node that runs; it also counts the facts of the thread.
Running(n) == \E t \in Thread : run[t].node = n /\ run[t].pc \notin {"idle", "thread", "sync"}

\* The facts of p in node n, and in the thread node for a node that runs.
Here(n, p) ==
  LET t == owner[n]
  IN  IF p \in LinearPred THEN linear[Home(t, n, p)][p] # <<>>
      ELSE \E f \in pers_store[Home(t, n, p)] : info[f].pred = p

(***************************************************************************)
(* The counts of a regular node never part from its marks (the assertions  *)
(* of rule_matcher.hpp): a rule is counted once for each marked predicate, *)
(* only rules with all predicates marked are queued, and a predicate that  *)
(* has facts in the node, or in the thread while the node runs, is marked. *)
(***************************************************************************)
MatcherExact ==
  \A n \in Node :
    LET m == matcher[n]
    IN  /\ \A r \in Rule : m.rules[r] = Cardinality(Body[r] \cap m.predicate_existence)
        /\ \A r \in m.rule_queue : Body[r] \subseteq m.predicate_existence
        /\ \A p \in Pred : (p \notin ThreadPred \/ Running(n)) /\ Here(n, p) => p \in m.predicate_existence

\* Node n is neither running nor waiting to be run.
Resting(n) ==
  ~unprocessed_facts[n] /\ ~\E t \in Thread : run[t].node = n /\ run[t].pc \notin {"idle", "sync"}

(***************************************************************************)
(* No rule is forgotten (docs/manual.tex 326, "when no more rules are      *)
(* applicable, computation stops at this node"): when a regular node is    *)
(* not scheduled any more, every rule all of whose predicates have facts   *)
(* in it was tried after the last of these facts came or was updated.      *)
(* Rules over facts of a thread are tried again in every run instead.      *)
(***************************************************************************)
NothingForgotten ==
  \A n \in Node : Resting(n) =>
    \A r \in fresh[n] : Body[r] \cap ThreadPred = {} => \E p \in Body[r] : ~Here(n, p)

(***************************************************************************)
(* The same for a thread node and the rules over facts of the thread only, *)
(* which run on it when its thread has no other node to run.               *)
(***************************************************************************)
ThreadNothingForgotten ==
  \A n \in ThreadNode : Resting(n) =>
    \A r \in fresh[n] : Body[r] \subseteq ThreadPred => \E p \in Body[r] : ~Here(n, p)

\* The places of fact f in a list: its indexes there.
At(f, place, s) == {<<place, i>> : i \in {j \in DOMAIN s : s[j] = f}}

\* The places of fact f at node n.
AtNode(f, n) ==
  LET InLists(p) == At(f, <<"linear", n, p>>, linear[n][p])
                      \cup At(f, <<"incoming", n, p>>, incoming[n][p])
  IN  (UNION {InLists(p) : p \in LinearPred})
        \cup At(f, <<"incoming", n>>, incoming_persistent[n])
        \cup (IF f \in pers_store[n] THEN {<<<<"stored", n>>, 0>>} ELSE {})

\* The places of fact f in the run and the buffer of thread t.
AtThread(f, t) ==
  LET Buffered(p) == UNION {At(f, <<"buffer", t, n, p>>, facts_to_send[t][n][p]) : n \in Node}
      InLists(p) == At(f, <<"generated", t, p>>, run[t].generated[p]) \cup Buffered(p)
  IN  (UNION {InLists(p) : p \in LinearPred})
        \cup At(f, <<"node", t>>, run[t].node_persistent)
        \cup At(f, <<"thread", t>>, run[t].thread_persistent)

\* The places that hold fact f.
Places(f) == (UNION {AtNode(f, n) : n \in AllNode}) \cup (UNION {AtThread(f, t) : t \in Thread})

(***************************************************************************)
(* A fact is never in two places: not in a database and still in a buffer, *)
(* an incoming list or the generated list, whatever was sent, moved or cut *)
(* short; and what a rule holds in its registers is still in its store.    *)
(***************************************************************************)
FactInOnePlace ==
  /\ \A f \in DOMAIN info : \A a, b \in Places(f) : a = b
  /\ \A t \in Thread : \A f \in run[t].used : f \in Visible(t, info[f].pred)

(***************************************************************************)
(* docs/manual.tex 328: facts sent to a node appear in the order in which  *)
(* they are sent.  Stated for facts of one predicate that one node sends   *)
(* to another, which wait side by side in the same list.                   *)
(***************************************************************************)
FactOrder ==
  \A n \in Node : \A p \in LinearPred :
    \A i, j \in DOMAIN linear[n][p] :
      LET a == linear[n][p][i]
          b == linear[n][p][j]
      IN  i < j /\ info[a].from = info[b].from /\ info[a].from # n => a < b

(***************************************************************************)
(* helpers.cpp 163-175: a fact a rule sends to the node it runs on is      *)
(* added to it ("same node") and the thread goes on.                       *)
(***************************************************************************)
NotLockedOut == \A t \in Thread : run[t].pc # "locked out"

(***************************************************************************)
(* state.cpp: "unmark all thread facts and save state in 'thread_node'":   *)
(* a thread between two runs has its facts marked in its matcher.          *)
(***************************************************************************)
ThreadFactsMarked ==
  \A t \in Thread : run[t].pc = "idle" =>
    \A p \in LinearPred : linear[thread_node[t]][p] # <<>> =>
      p \in matcher[thread_node[t]].predicate_existence
============================================================================
