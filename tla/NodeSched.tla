------------------------------ MODULE NodeSched ------------------------------
(***************************************************************************)
(* Where the nodes of the program are while the threads run, send facts,   *)
(* steal and coordinate (thread/thread.cpp, thread/thread.hpp,             *)
(* thread/coord.cpp, thread/coord-include.hpp, db/node.hpp, run_node of    *)
(* vm/state.cpp and REMOTE_UPDATE of vm/exec.cpp).                         *)
(*                                                                         *)
(* A node has an owner, a queue mark (node_state), a thread it is static   *)
(* to, a priority, a flag for unprocessed facts, a main lock and a         *)
(* database lock.  The queues of a thread are sets here: SeqQueues and     *)
(* PriorityBags say what IntrusiveQueue and ComplexPqueue make of them.    *)
(* Popping a queue takes only the lock of the queue, everything else that  *)
(* changes the place of a node takes its main lock: what a pop can         *)
(* interleave with is split into steps.  Sleeping and termination are in   *)
(* module Termination; here a thread without work polls.                   *)
(***************************************************************************)
EXTENDS Integers, FiniteSets

CONSTANTS
  Threads, Nodes, Nobody,
  WorkStealing,
  Ops,              \* the coordination instructions of the program
  Foreign,          \* those that may name nodes of other threads
  JustMoved,        \* the program has the special fact just-moved
  SelfSends,        \* unbuffered facts may name the node that runs
  Home,             \* the owner init() gives each node
  StealMax,         \* NODE_BUFFER_SIZE
  Facts,            \* bound: facts the program sends or updates remotely
  Instructions      \* bound: coordination instructions it executes

OpNames == {"set_priority", "remove_priority", "schedule_next",
            "set_static", "set_moving", "set_owner"}

ASSUME NobodyAssumption == Nobody \notin Threads \cup Nodes
ASSUME HomeAssumption == Home \in [Nodes -> Threads]
ASSUME SchedFlags == /\ {WorkStealing, JustMoved, SelfSends} \subseteq BOOLEAN
                     /\ Ops \subseteq OpNames /\ Foreign \subseteq Ops
ASSUME SchedBounds == StealMax \in Nat /\ Facts \in Nat /\ Instructions \in Nat

VARIABLES
  \* of each node
  owner,             \* node::owner
  static_node,       \* node::static_node
  node_state,        \* __intrusive_queue
  priority,          \* priority_level: 0 is no_priority_value(), 1 is higher
  unprocessed,       \* unprocessed_facts
  moved_fact,        \* a just-moved fact is in the temporary store
  main_lock,         \* holder of main_lock
  database_lock,     \* holder of database_lock
  \* of each thread
  queued,            \* the nodes in its four queues
  current_node,
  buffer,            \* node_buffer and the victim of go_steal_nodes
  victim,
  target,            \* the node that a send or an instruction works on
  instr,             \* that instruction, the node state it read, new owner
  pc,
  back,              \* where the thread goes on after a send or instruction
  facts, instructions

nodeVars == <<owner, static_node, node_state, priority, unprocessed, moved_fact>>
lockVars == <<main_lock, database_lock>>
localVars == <<buffer, victim, target, instr, back>>
vars == <<nodeVars, lockVars, queued, current_node, localVars, pc, facts, instructions>>

\* NORMAL_QUEUE_MOVING, NORMAL_QUEUE_STATIC, PRIORITY_MOVING, PRIORITY_STATIC
Kinds == {"queue_moving", "queue_static", "prio_moving", "prio_static"}
\* the marks of a node outside the queues; the STATE_..._CHANGE marks are only
\* seen by the holder of the main lock, within one step
NodeStates == Kinds \cup {"idle", "working", "stealing"}

Labels == {"next", "popq", "wait", "steal", "got", "rundb", "rules", "sync",
           "check", "leave", "leaving", "rest", "send", "remote", "instr", "abort"}

NoInstr == [op |-> "none", state |-> "idle", new |-> Nobody]

Init ==
  /\ owner = Home
  /\ static_node = [n \in Nodes |-> Nobody]
  /\ node_state = [n \in Nodes |-> "queue_moving"]
  /\ priority = [n \in Nodes |-> 0]
  /\ unprocessed = [n \in Nodes |-> TRUE]
  /\ moved_fact = [n \in Nodes |-> FALSE]
  /\ main_lock = [n \in Nodes |-> Nobody]
  /\ database_lock = [n \in Nodes |-> Nobody]
  /\ queued = [t \in Threads |-> [k \in Kinds |->
                 {n \in Nodes : k = "queue_moving" /\ Home[n] = t}]]
  /\ current_node = [t \in Threads |-> Nobody]
  /\ buffer = [t \in Threads |-> {}]
  /\ victim = [t \in Threads |-> Nobody]
  /\ target = [t \in Threads |-> Nobody]
  /\ instr = [t \in Threads |-> NoInstr]
  /\ pc = [t \in Threads |-> "next"]
  /\ back = [t \in Threads |-> "sync"]
  /\ facts = Facts
  /\ instructions = Instructions

-----------------------------------------------------------------------------

Goto(t, l) == pc' = [pc EXCEPT ![t] = l]
NewOwnerPending(n) == static_node[n] # Nobody /\ owner[n] # static_node[n]
Active(n) == node_state[n] # "idle"

\* the queue add_to_queue chooses for a node with this priority and static mark
KindFor(prio, static) ==
  IF prio > 0 THEN IF static = Nobody THEN "prio_moving" ELSE "prio_static"
              ELSE IF static = Nobody THEN "queue_moving" ELSE "queue_static"

\* queues after n was put in a queue of u
With(qs, u, k, n) == [qs EXCEPT ![u][k] = @ \cup {n}]
Without(qs, u, k, S) == [qs EXCEPT ![u][k] = @ \ S]

\* add_to_queue of thread u, from queues without n
AddToQueue(qs, u, n, prio, static) ==
  /\ queued' = With(qs, u, KindFor(prio, static), n)
  /\ node_state' = [node_state EXCEPT ![n] = KindFor(prio, static)]

Buffered(n) == moved_fact' = [moved_fact EXCEPT ![n] = @ \/ JustMoved]

-----------------------------------------------------------------------------
(* set_next_node without a current node: the priority queues first, then   *)
(* the static queue, then the moving one.                                  *)

TakeCurrent(t, k, n) ==
  /\ queued' = Without(queued, t, k, {n})
  /\ node_state' = [node_state EXCEPT ![n] = "working"]
  /\ current_node' = [current_node EXCEPT ![t] = n]
  /\ Goto(t, "got")
  /\ UNCHANGED <<owner, static_node, priority, unprocessed, moved_fact, lockVars,
                 localVars, facts, instructions>>

Prios(t) == queued[t]["prio_moving"] \cup queued[t]["prio_static"]

PopPriority(t) ==
  /\ pc[t] = "next"
  /\ \E k \in {"prio_moving", "prio_static"}, n \in Prios(t) :
       /\ n \in queued[t][k]
       /\ \A m \in Prios(t) : priority[m] <= priority[n]
       /\ TakeCurrent(t, k, n)

NoPriority(t) ==
  /\ pc[t] = "next"
  /\ Prios(t) = {}
  /\ Goto(t, "popq")
  /\ UNCHANGED <<nodeVars, lockVars, queued, current_node, localVars, facts,
                 instructions>>

PopQueue(t) ==
  /\ pc[t] = "popq"
  /\ \E k \in {"queue_static", "queue_moving"} :
       /\ k = "queue_moving" => queued[t]["queue_static"] = {}
       /\ \E n \in queued[t][k] : TakeCurrent(t, k, n)

NoQueued(t) ==
  /\ pc[t] = "popq"
  /\ queued[t]["queue_static"] = {} /\ queued[t]["queue_moving"] = {}
  /\ Goto(t, "wait")
  /\ UNCHANGED <<nodeVars, lockVars, queued, current_node, localVars, facts,
                 instructions>>

HasWork(t) == \E k \in Kinds : queued[t][k] # {}

PollAgain(t) ==
  /\ pc[t] = "wait"
  /\ HasWork(t)
  /\ Goto(t, "next")
  /\ UNCHANGED <<nodeVars, lockVars, queued, current_node, localVars, facts,
                 instructions>>

-----------------------------------------------------------------------------
(* Work stealing: half of the moving queue, or up to half of the moving    *)
(* priority queue, is marked and carried to the thief, who then takes each *)
(* node under its main lock.                                               *)

\* steal_flag, which every thief flips without a lock, chooses the first queue
StealFrom(t, u, k) ==
  LET size == Cardinality(queued[u][k])
      half == IF size \div 2 < StealMax THEN size \div 2 ELSE StealMax
  IN  \E S \in SUBSET queued[u][k] :
        /\ IF k = "queue_moving" THEN Cardinality(S) = half
                                 ELSE Cardinality(S) \in 1 .. half
        /\ S # {}
        /\ queued' = Without(queued, u, k, S)
        /\ node_state' = [n \in Nodes |-> IF n \in S THEN "stealing" ELSE node_state[n]]
        /\ buffer' = [buffer EXCEPT ![t] = S]

StealNodes(t) ==
  /\ WorkStealing
  /\ pc[t] = "wait"
  /\ \E u \in Threads \ {t}, k \in {"queue_moving", "prio_moving"} :
       /\ StealFrom(t, u, k)
       /\ victim' = [victim EXCEPT ![t] = u]
  /\ Goto(t, "steal")
  /\ UNCHANGED <<owner, static_node, priority, unprocessed, moved_fact, lockVars,
                 current_node, target, instr, back, facts, instructions>>

\* mutant: the thief forgets to take the node over
KeepStolenOldOwner(t, n) ==
  /\ AddToQueue(queued, t, n, priority[n], static_node[n])
  /\ UNCHANGED <<owner, static_node, moved_fact>>

\* the node was moved to another thread meanwhile, or it becomes the thief's,
\* static to the thief when it is static
KeepStolen(t, n) ==
  IF static_node[n] # Nobody /\ owner[n] # victim[t]
    THEN /\ AddToQueue(queued, owner[n], n, priority[n], static_node[n])
         /\ Buffered(n)
         /\ UNCHANGED <<owner, static_node>>
    ELSE LET static == IF static_node[n] = Nobody THEN Nobody ELSE t
         IN  /\ AddToQueue(queued, t, n, priority[n], static)
             /\ static_node' = [static_node EXCEPT ![n] = static]
             /\ owner' = [owner EXCEPT ![n] = t]
             /\ UNCHANGED moved_fact

\* that the node is still marked, which the thief looks at, is in InOnePlace
StealTake(t) ==
  /\ pc[t] = "steal"
  /\ \E n \in buffer[t] :
       /\ main_lock[n] = Nobody
       /\ KeepStolen(t, n)
       /\ buffer' = [buffer EXCEPT ![t] = @ \ {n}]
  /\ UNCHANGED <<priority, unprocessed, lockVars, current_node, victim, target, instr,
                 back, pc, facts, instructions>>

StealEnd(t) ==
  /\ pc[t] = "steal"
  /\ buffer[t] = {}
  /\ victim' = [victim EXCEPT ![t] = Nobody]
  /\ Goto(t, "next")
  /\ UNCHANGED <<nodeVars, lockVars, queued, current_node, buffer, target, instr, back,
                 facts, instructions>>

-----------------------------------------------------------------------------
(* run_node: main lock, then database lock; the pending facts are taken,   *)
(* the main lock is released and the rules run under the database lock.    *)

RunLock(t) ==
  /\ pc[t] = "got"
  /\ main_lock[current_node[t]] = Nobody
  /\ main_lock' = [main_lock EXCEPT ![current_node[t]] = t]
  /\ Goto(t, "rundb")
  /\ UNCHANGED <<nodeVars, database_lock, queued, current_node, localVars, facts,
                 instructions>>

RunTakeFacts(t) ==
  LET n == current_node[t] IN
  /\ pc[t] = "rundb"
  /\ database_lock[n] = Nobody
  /\ database_lock' = [database_lock EXCEPT ![n] = t]
  /\ main_lock' = [main_lock EXCEPT ![n] = Nobody]
  /\ unprocessed' = [unprocessed EXCEPT ![n] = FALSE]
  /\ moved_fact' = [moved_fact EXCEPT ![n] = FALSE]
  /\ Goto(t, "rules")
  /\ UNCHANGED <<owner, static_node, node_state, priority, queued, current_node,
                 localVars, facts, instructions>>

\* the loop ends when no rule is left, or early, with the remaining rules kept
\* for the next run, when the node was found after a rule to have a new owner;
\* whether a rule ran after the last change of static_node is left open
RulesEnd(t) ==
  LET n == current_node[t] IN
  /\ pc[t] = "rules"
  /\ \/ UNCHANGED unprocessed
     \/ NewOwnerPending(n) /\ unprocessed' = [unprocessed EXCEPT ![n] = TRUE]
  /\ database_lock' = [database_lock EXCEPT ![n] = Nobody]
  /\ Goto(t, "sync")
  /\ UNCHANGED <<owner, static_node, node_state, priority, moved_fact, main_lock, queued,
                 current_node, localVars, facts, instructions>>

SyncEnd(t) ==
  /\ pc[t] = "sync"
  /\ Goto(t, "check")
  /\ UNCHANGED <<nodeVars, lockVars, queued, current_node, localVars, facts,
                 instructions>>

-----------------------------------------------------------------------------
(* new_work and new_work_list.  The main lock of the target is taken; the  *)
(* owner waits for the database lock, any other thread only tries it and   *)
(* leaves the fact in the temporary store when it is taken.                *)
(* execute_send0 does not recognise the node that runs as a destination:   *)
(* what was buffered for it is delivered by sync, which has no database    *)
(* lock; what is sent at once waits for the lock its own thread holds.     *)

SendLock(t) ==
  /\ pc[t] \in {"rules", "sync"}
  /\ facts > 0
  /\ \E n \in Nodes :
       /\ n = current_node[t] => pc[t] = "sync" \/ SelfSends
       /\ main_lock[n] = Nobody
       /\ main_lock' = [main_lock EXCEPT ![n] = t]
       /\ target' = [target EXCEPT ![t] = n]
  /\ back' = [back EXCEPT ![t] = pc[t]]
  /\ facts' = facts - 1
  /\ Goto(t, "send")
  /\ UNCHANGED <<nodeVars, database_lock, queued, current_node, buffer, victim, instr,
                 instructions>>

\* back to the rules, with the main lock released
Return(t) ==
  /\ main_lock' = [main_lock EXCEPT ![target[t]] = Nobody]
  /\ target' = [target EXCEPT ![t] = Nobody]
  /\ instr' = [instr EXCEPT ![t] = NoInstr]
  /\ Goto(t, back[t])

\* mutant: only an idle node of another thread is queued
SendEnqueueOthersOnly(t, n) ==
  IF Active(n) \/ owner[n] = t THEN UNCHANGED <<queued, node_state>>
               ELSE AddToQueue(queued, owner[n], n, priority[n], static_node[n])

SendEnqueue(t, n) ==
  IF Active(n) THEN UNCHANGED <<queued, node_state>>
               ELSE AddToQueue(queued, owner[n], n, priority[n], static_node[n])

SendFact(t) ==
  LET n == target[t] IN
  /\ pc[t] = "send"
  /\ owner[n] = t => database_lock[n] = Nobody
  /\ unprocessed' = [unprocessed EXCEPT ![n] = TRUE]
  /\ SendEnqueue(t, n)
  /\ Return(t)
  /\ UNCHANGED <<owner, static_node, priority, moved_fact, database_lock, current_node,
                 buffer, victim, back, facts, instructions>>

(* execute_remote_update tries the database lock of any node, without its  *)
(* main lock, and changes a fact there in place.  When the lock is taken,  *)
(* as that of the running node is, or no fact matches, a fact is sent      *)
(* instead: a SendLock of its own.                                         *)

RemoteUpdate(t) ==
  /\ pc[t] = "rules"
  /\ facts > 0
  /\ \E n \in Nodes :
       /\ database_lock[n] = Nobody
       /\ database_lock' = [database_lock EXCEPT ![n] = t]
       /\ target' = [target EXCEPT ![t] = n]
  /\ facts' = facts - 1
  /\ Goto(t, "remote")
  /\ UNCHANGED <<nodeVars, main_lock, queued, current_node, buffer, victim, instr, back,
                 instructions>>

RemoteUpdated(t) ==
  /\ pc[t] = "remote"
  /\ database_lock' = [database_lock EXCEPT ![target[t]] = Nobody]
  /\ target' = [target EXCEPT ![t] = Nobody]
  /\ Goto(t, "rules")
  /\ UNCHANGED <<nodeVars, main_lock, queued, current_node, buffer, victim, instr, back,
                 facts, instructions>>

-----------------------------------------------------------------------------
(* check_if_current_useless.  The first test of each kind reads without    *)
(* the main lock; the second kind is repeated under it.                    *)

\* mutant: a node without facts rests although it was given away
CheckNodeRestsFirst(t) ==
  LET n == current_node[t] IN
  /\ pc[t] = "check"
  /\ Goto(t, IF ~unprocessed[n] THEN "rest"
             ELSE IF NewOwnerPending(n) THEN "leave" ELSE "got")
  /\ UNCHANGED <<nodeVars, lockVars, queued, current_node, localVars, facts,
                 instructions>>

CheckNode(t) ==
  LET n == current_node[t] IN
  /\ pc[t] = "check"
  /\ Goto(t, IF NewOwnerPending(n) THEN "leave"
             ELSE IF unprocessed[n] THEN "got" ELSE "rest")
  /\ UNCHANGED <<nodeVars, lockVars, queued, current_node, localVars, facts,
                 instructions>>

LeaveLock(t) ==
  LET n == current_node[t] IN
  /\ pc[t] = "leave"
  /\ main_lock[n] = Nobody
  /\ main_lock' = [main_lock EXCEPT ![n] = t]
  /\ Goto(t, "leaving")
  /\ UNCHANGED <<nodeVars, database_lock, queued, current_node, localVars, facts,
                 instructions>>

\* the new owner is what static_node holds now; the queues of a null owner are
\* a crash
Leave(t) ==
  LET n == current_node[t]
      new == static_node[n]
  IN
  /\ pc[t] = "leaving"
  /\ owner' = [owner EXCEPT ![n] = new]
  /\ priority' = [priority EXCEPT ![n] = 0]
  /\ Buffered(n)
  /\ IF new = Nobody
       THEN UNCHANGED <<queued, node_state, main_lock, current_node>> /\ Goto(t, "abort")
       ELSE /\ AddToQueue(queued, new, n, 0, new)
            /\ main_lock' = [main_lock EXCEPT ![n] = Nobody]
            /\ current_node' = [current_node EXCEPT ![t] = Nobody]
            /\ Goto(t, "next")
  /\ UNCHANGED <<static_node, unprocessed, database_lock, localVars, facts, instructions>>

\* mutant: the flag is not read again under the lock
RestUnchecked(t) ==
  LET n == current_node[t] IN
  /\ pc[t] = "rest"
  /\ main_lock[n] = Nobody
  /\ node_state' = [node_state EXCEPT ![n] = "idle"]
  /\ priority' = [priority EXCEPT ![n] = 0]
  /\ current_node' = [current_node EXCEPT ![t] = Nobody]
  /\ Goto(t, "next")
  /\ UNCHANGED <<owner, static_node, unprocessed, moved_fact, lockVars, queued, localVars,
                 facts, instructions>>

Rest(t) ==
  LET n == current_node[t] IN
  /\ pc[t] = "rest"
  /\ main_lock[n] = Nobody
  /\ IF unprocessed[n]
       THEN UNCHANGED <<node_state, priority, current_node>> /\ Goto(t, "got")
       ELSE /\ node_state' = [node_state EXCEPT ![n] = "idle"]
            /\ priority' = [priority EXCEPT ![n] = 0]
            /\ current_node' = [current_node EXCEPT ![t] = Nobody]
            /\ Goto(t, "next")
  /\ UNCHANGED <<owner, static_node, unprocessed, moved_fact, lockVars, queued, localVars,
                 facts, instructions>>

-----------------------------------------------------------------------------
(* Coordination instructions on the node that runs.  Only set_node_owner   *)
(* takes the lock of the node for it.                                      *)

InstrCurrent(t) ==
  LET n == current_node[t] IN
  /\ pc[t] = "rules"
  /\ instructions > 0
  /\ instructions' = instructions - 1
  /\ \/ /\ "schedule_next" \in Ops /\ owner[n] = t
        /\ priority' = [priority EXCEPT ![n] = 1] /\ UNCHANGED static_node
     \/ /\ "remove_priority" \in Ops
        /\ priority' = [priority EXCEPT ![n] = 0] /\ UNCHANGED static_node
     \/ /\ "set_static" \in Ops
        /\ static_node' = [static_node EXCEPT ![n] = t] /\ UNCHANGED priority
     \/ /\ "set_moving" \in Ops
        /\ static_node' = [static_node EXCEPT ![n] = Nobody] /\ UNCHANGED priority
     \/ /\ "set_owner" \in Ops /\ main_lock[n] = Nobody
        /\ \E u \in Threads : static_node' = [static_node EXCEPT ![n] = u]
        /\ UNCHANGED priority
  /\ UNCHANGED <<owner, node_state, unprocessed, moved_fact, lockVars, queued,
                 current_node, localVars, pc, facts>>

(* On another node: its main lock is taken and its state read; when the    *)
(* state names a queue, the node is removed from there, unless a pop has   *)
(* been faster, and put in another queue.                                  *)

InstrLock(t) ==
  /\ pc[t] \in {"rules", "sync"}
  /\ instructions > 0
  /\ \E n \in Nodes \ {current_node[t]}, op \in Ops, u \in Threads :
       /\ main_lock[n] = Nobody
       /\ op # "set_owner" => u = t
       /\ pc[t] = "sync" => op = "set_priority"
       /\ op \in Foreign \/ owner[n] = t
       /\ main_lock' = [main_lock EXCEPT ![n] = t]
       /\ target' = [target EXCEPT ![t] = n]
       /\ instr' = [instr EXCEPT ![t] = [op |-> op, state |-> node_state[n], new |-> u]]
  /\ back' = [back EXCEPT ![t] = pc[t]]
  /\ instructions' = instructions - 1
  /\ Goto(t, "instr")
  /\ UNCHANGED <<nodeVars, database_lock, queued, current_node, buffer, victim, facts>>

At(t, op) == pc[t] = "instr" /\ instr[t].op = op

\* n was found in queue k and is still there
StillIn(n, k) == k \in Kinds /\ node_state[n] = k

\* what the queues can look like after thread t removed n from ITS queue k: a
\* queue of another thread is cut at its ends or not, and a heap gives up the
\* node that sits at the position of n
RemoveFrom(t, k, n) ==
  IF n \in queued[t][k] THEN {Without(queued, t, k, {n})}
  ELSE IF k \in {"queue_moving", "queue_static"}
    THEN {queued, [u \in Threads |-> [queued[u] EXCEPT ![k] = @ \ {n}]]}
    ELSE {Without(queued, t, k, {m}) : m \in queued[t][k]}

\* the removed node goes to queue `to' of thread t
Requeue(t, n, from, to) ==
  \E qs \in RemoveFrom(t, from, n) :
    /\ queued' = With(qs, t, to, n)
    /\ node_state' = [node_state EXCEPT ![n] = to]

WithPrio(k) == IF k = "queue_moving" THEN "prio_moving" ELSE "prio_static"
NoPrio(k) == IF k = "prio_moving" THEN "queue_moving" ELSE "queue_static"

InstrFrame == UNCHANGED <<unprocessed, database_lock, current_node, buffer, victim, back,
                          facts, instructions>>

\* do_set_node_priority and do_set_node_priority_other: the queues of the owner
SetPriority(t) ==
  LET n == target[t]
      st == instr[t].state
  IN
  /\ At(t, "set_priority")
  /\ priority' = [priority EXCEPT ![n] = IF st = "working" /\ owner[n] # t THEN @ ELSE 1]
  /\ IF priority[n] = 0 /\ st \in {"queue_moving", "queue_static"} /\ StillIn(n, st)
       THEN Requeue(owner[n], n, st, WithPrio(st))
       ELSE UNCHANGED <<queued, node_state>>
  /\ Return(t)
  /\ InstrFrame /\ UNCHANGED <<owner, static_node, moved_fact>>

\* schedule_next does nothing to a node of another thread, and queues an idle one
ScheduleNext(t) ==
  LET n == target[t]
      st == instr[t].state
  IN
  /\ At(t, "schedule_next")
  /\ IF owner[n] # t
       THEN UNCHANGED <<priority, queued, node_state>>
       ELSE /\ priority' = [priority EXCEPT ![n] = 1]
            /\ IF st = "idle" THEN AddToQueue(queued, t, n, 1, static_node[n])
               ELSE IF st \in {"queue_moving", "queue_static"} /\ StillIn(n, st)
                 THEN Requeue(t, n, st, WithPrio(st))
                 ELSE UNCHANGED <<queued, node_state>>
  /\ Return(t)
  /\ InstrFrame /\ UNCHANGED <<owner, static_node, moved_fact>>

\* do_remove_node_priority, and do_remove_node_priority_other, which aborts on
\* an idle node
RemovePriority(t) ==
  LET n == target[t]
      st == instr[t].state
  IN
  /\ At(t, "remove_priority")
  /\ IF owner[n] # t /\ st = "idle"
       THEN /\ Goto(t, "abort")
            /\ UNCHANGED <<priority, queued, node_state, main_lock, target, instr>>
       ELSE /\ priority' = [priority EXCEPT ![n] =
                              IF st = "working" /\ owner[n] # t THEN @ ELSE 0]
            /\ IF st \in {"prio_moving", "prio_static"} /\ StillIn(n, st)
                 THEN Requeue(owner[n], n, st, NoPrio(st))
                 ELSE UNCHANGED <<queued, node_state>>
            /\ Return(t)
  /\ InstrFrame /\ UNCHANGED <<owner, static_node, moved_fact>>

ToStatic(k) == IF k = "queue_moving" THEN "queue_static" ELSE "prio_static"
ToMoving(k) == IF k = "queue_static" THEN "queue_moving" ELSE "prio_moving"
CanRemove(t, k, n) == StillIn(n, k) /\ RemoveFrom(t, k, n) # {}

\* mutant: the queue is changed although the node has been popped meanwhile
SetStaticBlind(t) ==
  LET n == target[t]
      st == instr[t].state
  IN
  /\ At(t, "set_static")
  /\ static_node' = [static_node EXCEPT ![n] = t]
  /\ IF st \in {"queue_moving", "prio_moving"}
       THEN Requeue(t, n, st, ToStatic(st))
       ELSE UNCHANGED <<queued, node_state>>
  /\ Return(t)
  /\ InstrFrame /\ UNCHANGED <<owner, priority, moved_fact>>

\* mutant: the mark is set and the node stays in the moving queue
SetStaticMarkOnly(t) ==
  /\ At(t, "set_static")
  /\ static_node' = [static_node EXCEPT ![target[t]] = t]
  /\ UNCHANGED <<queued, node_state>>
  /\ Return(t)
  /\ InstrFrame /\ UNCHANGED <<owner, priority, moved_fact>>

\* set_node_static: the calling thread changes its OWN queues
SetStatic(t) ==
  LET n == target[t]
      st == instr[t].state
  IN
  /\ At(t, "set_static")
  /\ IF static_node[n] # Nobody
       THEN UNCHANGED <<static_node, queued, node_state>>
       ELSE /\ static_node' = [static_node EXCEPT ![n] = t]
            /\ IF st \in {"queue_moving", "prio_moving"} /\ CanRemove(t, st, n)
                 THEN Requeue(t, n, st, ToStatic(st))
                 ELSE UNCHANGED <<queued, node_state>>
  /\ Return(t)
  /\ InstrFrame /\ UNCHANGED <<owner, priority, moved_fact>>

SetMoving(t) ==
  LET n == target[t]
      st == instr[t].state
  IN
  /\ At(t, "set_moving")
  /\ static_node' = [static_node EXCEPT ![n] = Nobody]
  /\ IF static_node[n] # Nobody /\ st \in {"queue_static", "prio_static"}
                                /\ CanRemove(t, st, n)
       THEN Requeue(t, n, st, ToMoving(st))
       ELSE UNCHANGED <<queued, node_state>>
  /\ Return(t)
  /\ InstrFrame /\ UNCHANGED <<owner, priority, moved_fact>>

\* set_node_owner reads the state again until the removal succeeds; the calling
\* thread changes its OWN queues
SetOwner(t) ==
  LET n == target[t]
      new == instr[t].new
      st == node_state[n]
      owned == [owner EXCEPT ![n] = new]
  IN
  /\ At(t, "set_owner")
  /\ static_node' = [static_node EXCEPT ![n] = new]
  /\ \/ owner[n] = new /\ Buffered(n) /\ UNCHANGED <<owner, queued, node_state>>
     \/ /\ owner[n] # new /\ st \in Kinds
        /\ owner' = owned /\ Buffered(n)
        /\ \E qs \in RemoveFrom(t, st, n) : AddToQueue(qs, new, n, priority[n], new)
     \/ /\ owner[n] # new /\ st \notin Kinds
        /\ owner' = IF st = "working" THEN owner ELSE owned
        /\ IF st = "idle" THEN Buffered(n) ELSE UNCHANGED moved_fact
        /\ UNCHANGED <<queued, node_state>>
  /\ Return(t)
  /\ InstrFrame /\ UNCHANGED priority

-----------------------------------------------------------------------------

Schedule(t) == \/ PopPriority(t) \/ NoPriority(t) \/ PopQueue(t) \/ NoQueued(t)
               \/ PollAgain(t) \/ StealNodes(t) \/ StealTake(t) \/ StealEnd(t)
Run(t) == \/ RunLock(t) \/ RunTakeFacts(t) \/ RulesEnd(t) \/ SyncEnd(t)
          \/ SendLock(t) \/ SendFact(t) \/ RemoteUpdate(t) \/ RemoteUpdated(t)
          \/ CheckNode(t) \/ LeaveLock(t) \/ Leave(t) \/ Rest(t)
Coordinate(t) == \/ InstrCurrent(t) \/ InstrLock(t)
                 \/ SetPriority(t) \/ ScheduleNext(t) \/ RemovePriority(t)
                 \/ SetStatic(t) \/ SetMoving(t) \/ SetOwner(t)

Step(t) == Schedule(t) \/ Run(t) \/ Coordinate(t)

Next == \E t \in Threads : Step(t)

Spec == Init /\ [][Next]_vars

\* Threads are run by the operating system and a lock goes to the threads that
\* wait for it in turn (QueuedSpinlock).
FairSpec == Spec /\ \A t \in Threads : WF_vars(Step(t))

-----------------------------------------------------------------------------

\* Types, and which labels hold a current node or a victim: get_work returns
\* with no current node, and go_steal_nodes runs only then
TypeOK ==
  LET Thread == Threads \cup {Nobody}
      Node == Nodes \cup {Nobody}
  IN
  /\ owner \in [Nodes -> Thread] /\ static_node \in [Nodes -> Thread]
  /\ node_state \in [Nodes -> NodeStates] /\ priority \in [Nodes -> 0 .. 1]
  /\ unprocessed \in [Nodes -> BOOLEAN] /\ moved_fact \in [Nodes -> BOOLEAN]
  /\ main_lock \in [Nodes -> Thread] /\ database_lock \in [Nodes -> Thread]
  /\ queued \in [Threads -> [Kinds -> SUBSET Nodes]]
  /\ current_node \in [Threads -> Node] /\ buffer \in [Threads -> SUBSET Nodes]
  /\ victim \in [Threads -> Thread] /\ target \in [Threads -> Node]
  /\ pc \in [Threads -> Labels] /\ back \in [Threads -> {"rules", "sync"}]
  /\ facts \in 0 .. Facts /\ instructions \in 0 .. Instructions
  /\ \A t \in Threads :
       /\ current_node[t] = Nobody <=> pc[t] \in {"next", "popq", "wait", "steal"}
       /\ victim[t] # Nobody <=> pc[t] = "steal"

\* A node is in one place only and its mark says where: in the queue that the
\* mark names of the thread that owns it, run by its owner, carried by a thief,
\* or nowhere.  So no node is run twice at a time and none is lost, and a
\* stolen node is never found queued again when the thief comes to it.
InOnePlace ==
  /\ TypeOK
  /\ \A n \in Nodes :
       LET queues == {q \in Threads \X Kinds : n \in queued[q[1]][q[2]]}
           runners == {t \in Threads : current_node[t] = n}
           thieves == {t \in Threads : n \in buffer[t]}
       IN
       /\ queues = IF node_state[n] \in Kinds THEN {<<owner[n], node_state[n]>>} ELSE {}
       /\ runners = IF node_state[n] = "working" THEN {owner[n]} ELSE {}
       /\ Cardinality(thieves) = IF node_state[n] = "stealing" THEN 1 ELSE 0

\* A node that has facts to process is queued, stolen or being run: the sender
\* that finds it active relies on its runner to look at the flag once more.
NoFactStranded == \A n \in Nodes : unprocessed[n] => node_state[n] # "idle"

\* The two waits for a database lock, in run_node and in new_work for an own
\* node, are made while the main lock of the node is held, and rules that hold
\* a database lock wait for main locks.  Who keeps them waiting is in the middle
\* of a remote update, which waits for nothing: the locks cannot deadlock.
DatabaseWaitsEnd ==
  LET Ends(n) == database_lock[n] # Nobody => pc[database_lock[n]] = "remote"
  IN  \A t \in Threads :
        /\ pc[t] = "rundb" => Ends(current_node[t])
        /\ pc[t] = "send" /\ owner[target[t]] = t => Ends(target[t])

\* A node that is static waits in a static queue, where no thief looks: the
\* mark "indicates if the node should not be stolen" (db/node.hpp).
StaticNotStealable ==
  \A n \in Nodes : node_state[n] \in {"queue_moving", "prio_moving"} =>
                     static_node[n] = Nobody

\* Facts that reach a node are processed.
FactsProcessed == \A n \in Nodes : unprocessed[n] ~> ~unprocessed[n]

\* A node whose owner is not the thread it is static to is being run: only then
\* does set_node_owner leave the change of owner to somebody else, the thread
\* that runs the node, who must not put it to rest before.
MovesSettle == \A n \in Nodes : NewOwnerPending(n) => node_state[n] = "working"

\* A node that is given to another thread while it runs gets there.
MovesHappen == \A n \in Nodes : NewOwnerPending(n) ~> ~NewOwnerPending(n)

\* A thread that gives its node away finds another thread to give it to, as
\* check_if_current_useless asserts.
LeavesToOther ==
  \A t \in Threads : pc[t] = "leaving" =>
                       static_node[current_node[t]] \notin {t, Nobody}

\* The instructions that change priorities have a case for every state in which
\* they can find a node: abort() is not reached.
NoAbort == \A t \in Threads : pc[t] # "abort"

\* A queue holds nodes that carry its number, as every pop asserts.
QueuedNodesMarked ==
  \A t \in Threads, k \in Kinds : \A n \in queued[t][k] : node_state[n] = k

\* A node stops only when no fact is left that a rule could use.
NoFactLeft == \A n \in Nodes : node_state[n] = "idle" => ~unprocessed[n] /\ ~moved_fact[n]
================================================================================
