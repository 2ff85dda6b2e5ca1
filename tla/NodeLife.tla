------------------------------ MODULE NodeLife ------------------------------
(***************************************************************************)
(* The life of nodes created by rules: their identifiers and the lists a   *)
(* thread keeps of them (src/thread/ids.cpp), the counting of references   *)
(* in facts (src/vm/tuple.cpp) and the collection of nodes nobody refers   *)
(* to, at the end of a run (src/vm/state.cpp 764-778) and when a node      *)
(* comes to rest (src/thread/thread.cpp 361-393).                          *)
(*                                                                         *)
(* A node is a number: 1 .. NUM_THREADS are the initial nodes, one for     *)
(* each thread, the others are created one after the other.  A node that   *)
(* takes the memory and the identifier of a deleted one is a new number,   *)
(* so a pointer to a deleted node is told from one to its successor.  A    *)
(* fact is the one node it refers to, or None.  Every critical section     *)
(* under a node's main_lock is one step; reference counts and the test     *)
(* that makes a node a candidate take no lock and are steps of their own.  *)
(* Following a pointer to a deleted node is undefined: `misuse' records    *)
(* the thread and the node, and nothing happens afterwards.                *)
(***************************************************************************)
EXTENDS Naturals, Sequences, SequencesExt, FiniteSetsExt, Bags, Lists

CONSTANTS
  NUM_THREADS,
  MaxCreated,      \* bound: nodes created
  Fuel,            \* bound: rules applied that derive facts
  Rules,           \* what a rule may do, see Rule
  ALLOCATED_IDS,   \* identifiers a thread asks for at the start
  FREED_MAX,       \* deleted nodes a thread keeps for reuse
  None

Thread == 1..NUM_THREADS
Initial == 1..NUM_THREADS
Created == NUM_THREADS + 1 .. NUM_THREADS + MaxCreated
Node == Initial \cup Created
Fact == Node \cup {None}

(***************************************************************************)
(* A rule consumes one fact of the node it runs on, may create a node, and *)
(* derives a fact for each pair <<destination, reference>> of its head.    *)
(* "self" is the node that runs, "arg" the node the consumed fact refers   *)
(* to, "new" the created one, "home" and "away" are initial nodes.         *)
(***************************************************************************)
Rule == [new : BOOLEAN,
         head : SUBSET ({"self", "arg", "new", "home", "away"}
                        \X {"none", "self", "arg", "new"})]

ASSUME LifeAssumption ==
  /\ NUM_THREADS \in Nat \ {0} /\ MaxCreated \in Nat /\ Fuel \in Nat
  /\ ALLOCATED_IDS \in Nat \ {0} /\ FREED_MAX \in Nat
  /\ Rules \subseteq Rule /\ None \notin Nat

VARIABLES
  created,           \* how many nodes were created
  live,              \* the nodes that are constructed
  id,                \* node::id
  refs,              \* node::refs
  creator,           \* node::creator, the thread or None
  owner,             \* node::owner
  linear,            \* the facts the matcher of a node counts, a bag
  store,             \* node::store, a bag
  unprocessed_facts, \* node::unprocessed_facts
  active,            \* nodes in a queue or running: node::active_node
  database_lock,     \* nodes whose database_lock is held by a run
  queue,             \* nodes queued at each thread
  run,               \* what each thread is doing
  facts_to_send,     \* state::facts_to_send
  gc_nodes,          \* state::gc_nodes
  ids,               \* thread::node_handler
  max_node_id,       \* database::max_node_id
  fuel,
  deleter,           \* who deleted a node (history)
  misuse             \* the first use of a deleted node

facts == <<linear, store, unprocessed_facts, active, database_lock, queue>>
names == <<created, live, id, creator, owner, ids, max_node_id, deleter>>
vars == <<facts, names, refs, run, facts_to_send, gc_nodes, fuel, misuse>>

Idle == [at |-> "idle", node |-> None, used |-> None, generated |-> EmptyBag]

(***************************************************************************)
(* ids::ids, one allocation of identifiers for each thread; thread::init,  *)
(* init_node and setup_node: every thread starts with its initial node     *)
(* queued, which has the axiom `init'.                                     *)
(***************************************************************************)
Init ==
  /\ created = 0 /\ live = Initial /\ fuel = Fuel /\ misuse = None
  /\ id = [n \in Node |-> IF n \in Initial THEN n ELSE 0]
  /\ refs = [n \in Node |-> IF n \in Initial THEN 1 ELSE 0]
  /\ creator = [n \in Node |-> None] /\ deleter = [n \in Node |-> None]
  /\ owner = [n \in Node |-> IF n \in Initial THEN n ELSE None]
  /\ linear = [n \in Node |-> IF n \in Initial THEN SetToBag({None}) ELSE EmptyBag]
  /\ store = [n \in Node |-> EmptyBag]
  /\ unprocessed_facts = [n \in Node |-> n \in Initial]
  /\ active = Initial /\ database_lock = {}
  /\ queue = [t \in Thread |-> {t}]
  /\ run = [t \in Thread |-> Idle]
  /\ facts_to_send = [t \in Thread |-> EmptyBag]
  /\ gc_nodes = [t \in Thread |-> {}]
  /\ ids = [t \in Thread |->
              [allocated_nodes |-> <<>>, freed_nodes |-> <<>>, committed |-> {},
               deleted_by_others |-> 0,
               next_available_id |-> NUM_THREADS + (t - 1) * ALLOCATED_IDS + 1,
               end_available_id |-> NUM_THREADS + t * ALLOCATED_IDS + 1,
               next_allocation |-> ALLOCATED_IDS]]
  /\ max_node_id = NUM_THREADS * (1 + ALLOCATED_IDS)

At(t, where) == run[t].at = where /\ misuse = None
Goto(t, where) == run' = [run EXCEPT ![t].at = where]

\* The thread follows a pointer to n.
Misuse(t, n) ==
  /\ n \notin live
  /\ misuse' = <<t, n>>
  /\ UNCHANGED <<facts, names, refs, run, facts_to_send, gc_nodes, fuel>>

\* database::is_initial_node compares identifiers; IdsKept shows that it comes to the same.
is_initial_node(n) == n \in Initial

garbage_collect(n) ==
  refs[n] = 0 /\ linear[n] = EmptyBag /\ ~unprocessed_facts[n]

-----------------------------------------------------------------------------
(* ids: the nodes a thread created, and those it can use again. *)

\* ids::remove_node_from_allocated
remove_node_from_allocated(h, n) ==
  [h EXCEPT !.allocated_nodes = Only(@, ToSet(@) \ {n}),
            !.freed_nodes = IF Len(@) = FREED_MAX THEN @ ELSE <<n>> \o @]

\* ids::free_destroyed_nodes; the counter is decremented by a constant zero.
free_destroyed_nodes(h) ==
  LET destroyed == Only(h.allocated_nodes, {m \in ToSet(h.allocated_nodes) : creator[m] = None})
      F[i \in 0..Len(destroyed)] ==
        IF i = 0 THEN h ELSE remove_node_from_allocated(F[i - 1], destroyed[i])
  IN  F[Len(destroyed)]

\* The list of ids::create_node before it looks for a node.
Swept(h) ==
  IF h.deleted_by_others > Len(h.allocated_nodes) \div 2 /\ Len(h.allocated_nodes) > 0
  THEN free_destroyed_nodes(h) ELSE h

\* Mutant: the last identifier of the block is also the first of the next one.
allocate_more_ids_overlap(h) ==
  [h EXCEPT !.next_allocation = @ * 4,
            !.next_available_id = max_node_id,
            !.end_available_id = max_node_id + 1 + h.next_allocation * 4]

\* ids::allocate_more_ids, database::allocate_ids
allocate_more_ids(h) ==
  [h EXCEPT !.next_allocation = @ * 4,
            !.next_available_id = max_node_id + 1,
            !.end_available_id = max_node_id + 1 + h.next_allocation * 4]

(***************************************************************************)
(* ids::create_node and thread::setup_node: n is the node created.  It     *)
(* gets the axiom and the flag, but no place in a queue.                   *)
(***************************************************************************)
create_node(t, n) ==
  LET h == Swept(ids[t])
      spent == h.next_available_id = h.end_available_id
      g == IF spent THEN allocate_more_ids(h) ELSE h
      used == [h EXCEPT !.freed_nodes = Tail(@), !.allocated_nodes = <<n>> \o @]
      new == [g EXCEPT !.next_available_id = @ + 1, !.allocated_nodes = <<n>> \o @]
  IN /\ created' = created + 1
     /\ live' = live \cup {n}
     /\ creator' = [creator EXCEPT ![n] = t]
     /\ owner' = [owner EXCEPT ![n] = t]
     /\ IF h.freed_nodes # <<>>
        THEN /\ id' = [id EXCEPT ![n] = id[Head(h.freed_nodes)]]
             /\ ids' = [ids EXCEPT ![t] = used]
             /\ UNCHANGED max_node_id
        ELSE /\ id' = [id EXCEPT ![n] = g.next_available_id]
             /\ ids' = [ids EXCEPT ![t] = new]
             /\ max_node_id' = IF spent THEN max_node_id + g.next_allocation ELSE max_node_id
     /\ unprocessed_facts' = [unprocessed_facts EXCEPT ![n] = TRUE]
     /\ UNCHANGED deleter

\* ids::delete_node; main_lock stays locked for ever.  The creator, a field of its
\* own, is cleared before deleted_by_others is counted up; the two are one step,
\* and in between the creator has not yet been told.
delete_node(t, n) ==
  /\ live' = live \ {n}
  /\ deleter' = [deleter EXCEPT ![n] = t]
  /\ IF creator[n] = t
     THEN /\ ids' = [ids EXCEPT ![t] = remove_node_from_allocated(@, n)]
          /\ UNCHANGED creator
     ELSE /\ ids' = [ids EXCEPT ![creator[n]].deleted_by_others = @ + 1]
          /\ creator' = [creator EXCEPT ![n] = None]
  /\ UNCHANGED <<created, id, owner, max_node_id>>

-----------------------------------------------------------------------------
(* A run. *)

\* thread::set_next_node
GetNode(t) ==
  /\ At(t, "idle")
  /\ \E n \in queue[t] :
       /\ queue' = [queue EXCEPT ![t] = @ \ {n}]
       /\ run' = [run EXCEPT ![t] = [Idle EXCEPT !.at = "begin", !.node = n]]
  /\ UNCHANGED <<linear, store, unprocessed_facts, active, database_lock, names, refs,
                 facts_to_send, gc_nodes, fuel, misuse>>

\* state::run_node: incoming facts join the database under main_lock.
Begin(t) ==
  LET n == run[t].node IN
  /\ At(t, "begin") /\ n \in live
  /\ linear' = [linear EXCEPT ![n] = @ (+) store[n]]
  /\ store' = [store EXCEPT ![n] = EmptyBag]
  /\ unprocessed_facts' = [unprocessed_facts EXCEPT ![n] = FALSE]
  /\ database_lock' = database_lock \cup {n}
  /\ Goto(t, "rules")
  /\ UNCHANGED <<active, queue, names, refs, facts_to_send, gc_nodes, fuel, misuse>>

\* The nodes a name in the head of a rule may stand for.
Denotes(name, t, n, f, m) ==
  CASE name = "self" -> {n}
    [] name = "arg" -> {f}
    [] name = "new" -> {m}
    [] name = "none" -> {None}
    [] name = "home" -> {t}
    [] name = "away" -> Initial \ {t}

\* The derived facts, as pairs of destination and reference.
Derived(r, t, n, f, m) ==
  UNION {Denotes(h[1], t, n, f, m) \X Denotes(h[2], t, n, f, m) : h \in r.head}

\* Mutant: facts for other nodes are not counted.
CountUp_local(heads) ==
  [n \in Node |-> IF is_initial_node(n) THEN refs[n]
                  ELSE refs[n] + Cardinality({d \in heads : d[2] = n /\ d[1] \in database_lock})]

\* tuple::set_node: every derived fact counts as a reference to a created node.
CountUp(heads) ==
  [n \in Node |-> IF is_initial_node(n) THEN refs[n]
                  ELSE refs[n] + Cardinality({d \in heads : d[2] = n})]

(***************************************************************************)
(* A rule matches a fact f of the node: the body runs, with a new node     *)
(* (execute_new_node), local facts (state::add_generated) and facts for    *)
(* other nodes (buffer::add); then the tuple is destroyed                  *)
(* (tuple::destructor), which takes back its reference.  The matcher still *)
(* counts f while it is tested whether the node referred to is garbage.    *)
(***************************************************************************)
Fire(t) ==
  LET n == run[t].node
      m == NUM_THREADS + created + 1
  IN
  /\ At(t, "rules") /\ n \in live
  /\ \E f \in BagToSet(linear[n]), r \in Rules :
       LET heads == Derived(r, t, n, f, m)
           own == {d \in heads : d[1] = n}
           counted == CountUp(heads)
           dropped == f # None /\ ~is_initial_node(f)
       IN /\ r.head # {} => fuel > 0
          /\ r.new => m \in Created
          /\ \A h \in r.head : {h[1], h[2]} \cap {"arg"} # {} => f # None
          /\ \A h \in r.head : {h[1], h[2]} \cap {"new"} # {} => r.new
          /\ fuel' = IF r.head = {} THEN fuel ELSE fuel - 1
          /\ refs' = IF dropped THEN [counted EXCEPT ![f] = @ - 1] ELSE counted
          /\ run' = [run EXCEPT ![t].used = f,
                                ![t].generated = SetToBag({d[2] : d \in own}),
                                ![t].at = IF dropped /\ refs'[f] = 0 THEN "test" ELSE "erase"]
          /\ facts_to_send' = [facts_to_send EXCEPT ![t] = @ (+) SetToBag(heads \ own)]
          /\ IF r.new THEN create_node(t, m) /\ linear' = [linear EXCEPT ![m] = SetToBag({None})]
             ELSE UNCHANGED <<names, unprocessed_facts, linear>>
  /\ UNCHANGED <<store, active, database_lock, queue, gc_nodes, misuse>>

\* node::try_garbage_collect, its second half.
Test(t) ==
  LET f == run[t].used IN
  /\ At(t, "test") /\ f \in live
  /\ gc_nodes' = [gc_nodes EXCEPT ![t] = IF garbage_collect(f) THEN @ \cup {f} ELSE @]
  /\ Goto(t, "erase")
  /\ UNCHANGED <<facts, names, refs, facts_to_send, fuel, misuse>>

\* rule_matcher::empty_predicate: the matcher no longer counts the fact.
Erase(t) ==
  LET n == run[t].node IN
  /\ At(t, "erase") /\ n \in live
  /\ linear' = [linear EXCEPT ![n] = @ (-) SetToBag({run[t].used})]
  /\ run' = [run EXCEPT ![t].at = "generated", ![t].used = None]
  /\ UNCHANGED <<store, unprocessed_facts, active, database_lock, queue, names, refs,
                 facts_to_send, gc_nodes, fuel, misuse>>

\* The facts the rule derived for the node itself join its database.
EndRule(t) ==
  LET n == run[t].node IN
  /\ At(t, "generated") /\ n \in live
  /\ linear' = [linear EXCEPT ![n] = @ (+) run[t].generated]
  /\ run' = [run EXCEPT ![t].at = "rules", ![t].generated = EmptyBag]
  /\ UNCHANGED <<store, unprocessed_facts, active, database_lock, queue, names, refs,
                 facts_to_send, gc_nodes, fuel, misuse>>

\* No rule is left, or none of those left matches.
EndRules(t) ==
  LET n == run[t].node IN
  /\ At(t, "rules") /\ n \in live
  /\ database_lock' = database_lock \ {n}
  /\ Goto(t, "sync")
  /\ UNCHANGED <<linear, store, unprocessed_facts, active, queue, names, refs,
                 facts_to_send, gc_nodes, fuel, misuse>>

\* state::sync, thread::new_work_list: all the facts for one node.
Send(t) ==
  /\ At(t, "sync")
  /\ \E n \in {d[1] : d \in BagToSet(facts_to_send[t])} :
       LET sent == Restrict(facts_to_send[t], {d \in BagToSet(facts_to_send[t]) : d[1] = n})
           b == [r \in {d[2] : d \in DOMAIN sent} |-> sent[<<n, r>>]]
           direct == owner[n] = t \/ n \notin database_lock
       IN /\ n \in live
          /\ linear' = IF direct THEN [linear EXCEPT ![n] = @ (+) b] ELSE linear
          /\ store' = IF direct THEN store ELSE [store EXCEPT ![n] = @ (+) b]
          /\ unprocessed_facts' = [unprocessed_facts EXCEPT ![n] = TRUE]
          /\ active' = active \cup {n}
          /\ queue' = IF n \in active THEN queue
                      ELSE [queue EXCEPT ![owner[n]] = @ \cup {n}]
          /\ facts_to_send' = [facts_to_send EXCEPT ![t] = @ (-) sent]
  /\ UNCHANGED <<database_lock, names, refs, run, gc_nodes, fuel, misuse>>

\* Mutant: the candidates are looked at before the facts are sent.
SyncDone_early(t) ==
  /\ At(t, "sync")
  /\ Goto(t, "gc")
  /\ UNCHANGED <<facts, names, refs, facts_to_send, gc_nodes, fuel, misuse>>

\* All facts are sent: only now the candidates are looked at.
SyncDone(t) ==
  /\ At(t, "sync") /\ facts_to_send[t] = EmptyBag
  /\ Goto(t, "gc")
  /\ UNCHANGED <<facts, names, refs, facts_to_send, gc_nodes, fuel, misuse>>

\* One candidate of the loop at the end of state::run_node.
Collect(t) ==
  /\ At(t, "gc")
  /\ \E n \in gc_nodes[t] :
       /\ n \in live
       /\ IF garbage_collect(n) THEN delete_node(t, n) ELSE UNCHANGED names
       /\ gc_nodes' = [gc_nodes EXCEPT ![t] = @ \ {n}]
  /\ UNCHANGED <<facts, refs, run, facts_to_send, fuel, misuse>>

CollectDone(t) ==
  /\ At(t, "gc") /\ gc_nodes[t] = {}
  /\ Goto(t, "check")
  /\ UNCHANGED <<facts, names, refs, facts_to_send, gc_nodes, fuel, misuse>>

\* thread::check_if_current_useless: the node has new facts and runs again ...
Again(t) ==
  LET n == run[t].node IN
  /\ At(t, "check") /\ n \in live /\ unprocessed_facts[n]
  /\ Goto(t, "begin")
  /\ UNCHANGED <<facts, names, refs, facts_to_send, gc_nodes, fuel, misuse>>

\* Mutant: a node is only collected by the thread that drops the last reference.
Rest_kept(t) ==
  LET n == run[t].node IN
  /\ At(t, "check") /\ n \in live /\ ~unprocessed_facts[n]
  /\ active' = active \ {n}
  /\ UNCHANGED names
  /\ run' = [run EXCEPT ![t] = Idle]
  /\ UNCHANGED <<linear, store, unprocessed_facts, database_lock, queue, refs, facts_to_send,
                 gc_nodes, fuel, misuse>>

\* ... or comes to rest, and is deleted when nobody refers to it.
Rest(t) ==
  LET n == run[t].node IN
  /\ At(t, "check") /\ n \in live /\ ~unprocessed_facts[n]
  /\ active' = active \ {n}
  /\ IF garbage_collect(n) THEN delete_node(t, n) ELSE UNCHANGED names
  /\ run' = [run EXCEPT ![t] = Idle]
  /\ UNCHANGED <<linear, store, unprocessed_facts, database_lock, queue, refs, facts_to_send,
                 gc_nodes, fuel, misuse>>

\* A step of the thread meets a node that somebody deleted.
FollowDeleted(t) ==
  \/ At(t, "test") /\ Misuse(t, run[t].used)
  \/ run[t].at \in {"begin", "rules", "erase", "generated", "check"} /\ misuse = None
     /\ Misuse(t, run[t].node)
  \/ At(t, "sync") /\ \E d \in BagToSet(facts_to_send[t]) : Misuse(t, d[1])
  \/ At(t, "gc") /\ \E n \in gc_nodes[t] : Misuse(t, n)

\* ids::commit, after all threads ended: what others deleted is given back, the rest stays.
Commit(t) ==
  /\ misuse = None
  /\ \A u \in Thread : run[u].at \in {"idle", "committed"} /\ queue[u] = {}
  /\ At(t, "idle")
  /\ ids' = [ids EXCEPT ![t].committed = {n \in ToSet(ids[t].allocated_nodes) : creator[n] # None},
                        ![t].allocated_nodes = <<>>,
                        ![t].deleted_by_others = 0]
  /\ Goto(t, "committed")
  /\ UNCHANGED <<facts, created, live, id, creator, owner, max_node_id, deleter, refs,
                 facts_to_send, gc_nodes, fuel, misuse>>

Next ==
  \E t \in Thread :
    \/ GetNode(t) \/ Begin(t) \/ Fire(t) \/ Test(t) \/ Erase(t) \/ EndRule(t) \/ EndRules(t)
    \/ Send(t) \/ SyncDone(t) \/ Collect(t) \/ CollectDone(t) \/ Again(t) \/ Rest(t)
    \/ FollowDeleted(t) \/ Commit(t)

Spec == Init /\ [][Next]_vars

-----------------------------------------------------------------------------
(* What reference counting and the lists of nodes promise. *)

\* How often a bag of facts holds the fact b.
CountIn(bag, b) == IF b \in BagToSet(bag) THEN bag[b] ELSE 0

\* The facts that refer to n: in the database of a node, and on their way in a thread.
InNode(n, m) == CountIn(linear[m], n) + CountIn(store[m], n)
InThread(n, t) ==
  CountIn(run[t].generated, n)
  + SumFunctionOnSet([m \in Node |-> CountIn(facts_to_send[t], <<m, n>>)], Node)

References(n) == SumFunctionOnSet([m \in Node |-> InNode(n, m)], Node)
                 + SumFunctionOnSet([t \in Thread |-> InThread(n, t)], Thread)

\* The facts being destroyed: their reference is taken back, the matcher still counts them.
Dying(n) == Cardinality({t \in Thread : run[t].at \in {"test", "erase"} /\ run[t].used = n})

(***************************************************************************)
(* The count of a created node is the number of facts that refer to it,    *)
(* wherever they are (tuple::set_node, tuple::destructor), and no fact     *)
(* refers to a node that is gone.  It holds until a deleted node is used.  *)
(***************************************************************************)
RefsExact ==
  misuse = None =>
    \A n \in Created :
      /\ n \in live => refs[n] + Dying(n) = References(n)
      /\ n \notin live => References(n) = Dying(n)

(***************************************************************************)
(* No two nodes alive have the same identifier, and none has that of an    *)
(* initial node; a node alive is on the list of its creator, once; a       *)
(* deleted one is on no list twice, so that it is used again or given back *)
(* only once, and a thread knows of the nodes others deleted               *)
(* (ids::create_node, delete_node, free_destroyed_nodes, commit).          *)
(***************************************************************************)
IdsKept ==
  /\ \A m, n \in live : id[m] = id[n] => m = n
  /\ \A n \in live \ Initial : NUM_THREADS < id[n] /\ id[n] <= max_node_id
  /\ \A t \in Thread :
       LET h == ids[t] IN
       /\ IsInjective(h.allocated_nodes \o h.freed_nodes)
       /\ ToSet(h.freed_nodes) \cap live = {} /\ Len(h.freed_nodes) <= FREED_MAX
       /\ ToSet(h.allocated_nodes) \cap live = {n \in live : creator[n] = t} \ h.committed
       /\ Cardinality(ToSet(h.allocated_nodes) \ live) <= h.deleted_by_others

(***************************************************************************)
(* Nobody loses a node that is garbage: it is queued or running, a         *)
(* candidate of some thread or about to be tested by one.  So when all     *)
(* threads rest, every created node is referred to or has facts.           *)
(***************************************************************************)
GarbageFound ==
  misuse = None =>
    \A n \in live : garbage_collect(n) =>
      \/ n \in active
      \/ \E t \in Thread : n \in gc_nodes[t] \/ (run[t].at = "test" /\ run[t].used = n)

(***************************************************************************)
(* A thread never uses a node after it deleted it itself: it sends before  *)
(* it collects, and never collects the node it runs.                       *)
(***************************************************************************)
OwnDeletesSafe == misuse # None => deleter[misuse[2]] # misuse[1]

(***************************************************************************)
(* The locks make deletion safe: nobody follows a pointer to a deleted     *)
(* node ("need to lock node since it may have pending facts",              *)
(* src/vm/state.cpp 769).                                                  *)
(***************************************************************************)
NoUseAfterFree == misuse = None
=============================================================================
