---------------------------- MODULE NodeSchedProofs ----------------------------
(***************************************************************************)
(* A node is in one place, keeps no fact while it is idle and is not       *)
(* stolen once it is static, for any number of threads and nodes, when the *)
(* instructions that move a node are used on the nodes of the own thread.  *)
(***************************************************************************)
EXTENDS NodeSched, FiniteSetTheorems, TLAPS

\* set_node_static, set_node_moving and set_node_owner change the queues of the
\* calling thread: the program uses them on nodes of that thread only
OwnNodesMoved == Foreign \subseteq {"set_priority", "schedule_next", "remove_priority"}

QueueTypes == [Threads -> [Kinds -> SUBSET Nodes]]
InstrTypes == [op : OpNames \cup {"none"}, state : NodeStates, new : Threads \cup {Nobody}]

(* TypeOK in three parts, with the type of the instructions; an owner is   *)
(* always a thread.                                                        *)
NodeTypes ==
  /\ owner \in [Nodes -> Threads] /\ static_node \in [Nodes -> Threads \cup {Nobody}]
  /\ node_state \in [Nodes -> NodeStates] /\ priority \in [Nodes -> 0 .. 1]
  /\ unprocessed \in [Nodes -> BOOLEAN] /\ moved_fact \in [Nodes -> BOOLEAN]
  /\ main_lock \in [Nodes -> Threads \cup {Nobody}]
  /\ database_lock \in [Nodes -> Threads \cup {Nobody}]
ThreadTypes ==
  /\ queued \in QueueTypes
  /\ current_node \in [Threads -> Nodes \cup {Nobody}]
  /\ buffer \in [Threads -> SUBSET Nodes]
  /\ victim \in [Threads -> Threads \cup {Nobody}]
  /\ target \in [Threads -> Nodes \cup {Nobody}]
  /\ instr \in [Threads -> InstrTypes]
  /\ pc \in [Threads -> Labels] /\ back \in [Threads -> {"rules", "sync"}]
  /\ facts \in 0 .. Facts /\ instructions \in 0 .. Instructions
ControlTypes ==
  \A t \in Threads :
    /\ current_node[t] = Nobody <=> pc[t] \in {"next", "popq", "wait", "steal"}
    /\ victim[t] # Nobody <=> pc[t] = "steal"
WellTyped == NodeTypes /\ ThreadTypes /\ ControlTypes

(* The mark and the owner of a node say where it is.                       *)

QueuedRight ==
  \A t \in Threads, k \in Kinds, n \in Nodes :
    n \in queued[t][k] <=> node_state[n] = k /\ owner[n] = t
RunRight ==
  \A t \in Threads, n \in Nodes :
    current_node[t] = n <=> node_state[n] = "working" /\ owner[n] = t
StolenRight ==
  /\ \A n \in Nodes : node_state[n] = "stealing" <=> \E t \in Threads : n \in buffer[t]
  /\ \A t, u \in Threads, n \in Nodes : n \in buffer[t] /\ n \in buffer[u] => t = u
  /\ \A t \in Threads : buffer[t] # {} => pc[t] = "steal"
PlaceInv == QueuedRight /\ RunRight /\ StolenRight

(* Who holds which lock, and what cannot change meanwhile.                 *)

MainLocks ==
  \A t \in Threads :
    /\ pc[t] \in {"rundb", "leaving"} => main_lock[current_node[t]] = t
    /\ pc[t] \in {"send", "instr"} => target[t] \in Nodes /\ main_lock[target[t]] = t
    /\ pc[t] = "remote" => target[t] \in Nodes
    /\ \/ pc[t] = "instr"
       \/ pc[t] = "send" /\ back[t] = "rules" /\ ~SelfSends
       => target[t] # current_node[t]

\* the node is not queued or put to rest while an instruction holds its lock
InstrKnown ==
  \A t \in Threads :
    pc[t] = "instr" =>
      /\ instr[t].op \in Ops /\ instr[t].new \in Threads
      /\ instr[t].op \in Foreign \/ owner[target[t]] = t
      /\ instr[t].state = "idle" => node_state[target[t]] = "idle"
      /\ node_state[target[t]] \in Kinds => node_state[target[t]] = instr[t].state

\* a pending change of owner is left to the thread that runs the node
MovePending ==
  /\ MovesSettle
  /\ \A t \in Threads :
       /\ pc[t] \in {"leave", "leaving"} => NewOwnerPending(current_node[t])
       /\ pc[t] = "rest" => ~ NewOwnerPending(current_node[t])

InRules(t) == \/ pc[t] = "rules"
              \/ pc[t] = "remote"
              \/ pc[t] \in {"send", "instr", "abort"} /\ back[t] = "rules"
DatabaseLocks ==
  \A t \in Threads, n \in Nodes :
    database_lock[n] = t => \/ current_node[t] = n /\ InRules(t)
                            \/ target[t] = n /\ pc[t] = "remote"

LockInv == MainLocks /\ InstrKnown /\ MovePending /\ DatabaseLocks

SchedInv == WellTyped /\ PlaceInv /\ LockInv /\ NoFactStranded

-----------------------------------------------------------------------------
(* Queues as functions of a thread and a kind of queue.                    *)

\* Putting a node in a queue adds it there and nowhere else.
LEMMA WithFact ==
  ASSUME NEW qs \in QueueTypes, NEW u \in Threads, NEW k \in Kinds, NEW n \in Nodes
  PROVE  /\ With(qs, u, k, n) \in QueueTypes
         /\ \A t \in Threads, j \in Kinds, m \in Nodes :
              m \in With(qs, u, k, n)[t][j]
                <=> m \in qs[t][j] \/ (t = u /\ j = k /\ m = n)
  BY DEF With, QueueTypes

\* Taking nodes out of a queue takes them from there and from nowhere else.
LEMMA WithoutFact ==
  ASSUME NEW qs \in QueueTypes, NEW u \in Threads, NEW k \in Kinds, NEW S
  PROVE  /\ Without(qs, u, k, S) \in QueueTypes
         /\ \A t \in Threads, j \in Kinds, m \in Nodes :
              m \in Without(qs, u, k, S)[t][j]
                <=> m \in qs[t][j] /\ ~ (t = u /\ j = k /\ m \in S)
  BY DEF Without, QueueTypes

\* add_to_queue chooses one of the four queues, a moving one for a moving node.
LEMMA KindForFact ==
  ASSUME NEW p \in 0 .. 1, NEW s
  PROVE  /\ KindFor(p, s) \in Kinds
         /\ KindFor(p, s) \in {"queue_moving", "prio_moving"} <=> s = Nobody
  BY DEF KindFor, Kinds

\* n, which is in no queue but perhaps queue k of its owner, goes to queue j of u
PutIn(n, u, j) ==
  /\ queued' \in QueueTypes
  /\ \A t \in Threads, i \in Kinds, m \in Nodes :
       m \in queued'[t][i] <=> IF m = n THEN t = u /\ i = j ELSE m \in queued[t][i]
  /\ node_state' = [node_state EXCEPT ![n] = j]

\* add_to_queue on queues without n leaves n in that queue alone.
LEMMA AddedAlone ==
  ASSUME NEW qs \in QueueTypes, NEW n \in Nodes, NEW u \in Threads, NEW p \in 0 .. 1,
         NEW s, AddToQueue(qs, u, n, p, s),
         \A t \in Threads, i \in Kinds, m \in Nodes :
           m \in qs[t][i] <=> m \in queued[t][i] /\ m # n
  PROVE  PutIn(n, u, KindFor(p, s))
<1>1. PICK k \in Kinds : k = KindFor(p, s)
  BY KindForFact
<1>2. queued' = With(qs, u, k, n) /\ node_state' = [node_state EXCEPT ![n] = k]
  BY <1>1 DEF AddToQueue
<1>3. /\ queued' \in QueueTypes
      /\ \A t \in Threads, j \in Kinds, m \in Nodes :
           m \in queued'[t][j] <=> m \in qs[t][j] \/ (t = u /\ j = k /\ m = n)
  BY <1>2, WithFact
<1>4. \A t \in Threads, i \in Kinds, m \in Nodes :
        m \in queued'[t][i] <=> IF m = n THEN t = u /\ i = k ELSE m \in queued[t][i]
  BY <1>3
<1>5. PutIn(n, u, k)
  BY <1>2, <1>3, <1>4 DEF PutIn
<1> QED BY <1>1, <1>5

\* A node outside the queues is added to one of them.
LEMMA AddFact ==
  ASSUME SchedInv, NEW n \in Nodes, NEW u \in Threads, NEW p \in 0 .. 1, NEW s,
         node_state[n] \notin Kinds, AddToQueue(queued, u, n, p, s)
  PROVE  PutIn(n, u, KindFor(p, s))
<1>1. queued \in QueueTypes /\ KindFor(p, s) \in Kinds
  BY KindForFact DEF SchedInv, WellTyped, NodeTypes, ThreadTypes, QueueTypes
<1>2. \A t \in Threads, i \in Kinds : n \notin queued[t][i]
  BY DEF SchedInv, PlaceInv, QueuedRight
<1>3. \A t \in Threads, i \in Kinds, m \in Nodes :
        m \in queued[t][i] <=> m \in queued[t][i] /\ m # n
  BY <1>2
<1> QED BY <1>1, <1>3, AddedAlone

\* A queued node is removed from its queue and put in another one of the owner.
LEMMA RequeueFact ==
  ASSUME SchedInv, NEW n \in Nodes, NEW k \in Kinds, NEW j \in Kinds,
         node_state[n] = k, Requeue(owner[n], n, k, j)
  PROVE  PutIn(n, owner[n], j)
<1>1. queued \in QueueTypes /\ owner[n] \in Threads
  BY DEF SchedInv, WellTyped, NodeTypes, ThreadTypes, QueueTypes
<1>2. \A t \in Threads, i \in Kinds : n \in queued[t][i] <=> i = k /\ t = owner[n]
  BY DEF SchedInv, PlaceInv, QueuedRight
<1>3. RemoveFrom(owner[n], k, n) = {Without(queued, owner[n], k, {n})}
  BY <1>1, <1>2 DEF RemoveFrom
<1> DEFINE qs == Without(queued, owner[n], k, {n})
<1>4. queued' = With(qs, owner[n], j, n) /\ node_state' = [node_state EXCEPT ![n] = j]
  BY <1>3 DEF Requeue
<1>5. qs \in QueueTypes /\ \A t \in Threads, i \in Kinds, m \in Nodes :
              m \in qs[t][i] <=> m \in queued[t][i] /\ m # n
  BY <1>1, <1>2, WithoutFact
<1> HIDE DEF qs
<1> QED BY <1>1, <1>4, <1>5, WithFact DEF PutIn

\* What the queues look like after an instruction on node n: as before, or with
\* the node, queued or idle before, in some queue of its owner
QueueStep(n) ==
  \/ UNCHANGED <<queued, node_state>>
  \/ /\ node_state[n] \in Kinds \cup {"idle"}
     /\ \E j \in Kinds : PutIn(n, owner[n], j)

\* The sender queues an idle node with its owner.
LEMMA SendEffect ==
  ASSUME SchedInv, NEW t \in Threads, SendFact(t)
  PROVE  QueueStep(target[t]) /\ node_state'[target[t]] # "idle"
<1>1. target[t] \in Nodes /\ owner[target[t]] \in Threads
  BY DEF SchedInv, LockInv, MainLocks, SendFact, WellTyped, NodeTypes
<1> DEFINE n == target[t]
<1>2. priority[n] \in 0 .. 1 /\ node_state \in [Nodes -> NodeStates]
  BY <1>1 DEF SchedInv, WellTyped, NodeTypes, ThreadTypes
<1> HIDE DEF n
<1>3. CASE node_state[n] # "idle"
  <2>1. UNCHANGED <<queued, node_state>>
    BY <1>3 DEF SendFact, SendEnqueue, Active, n
  <2> QED BY <1>1, <1>2, <1>3, <2>1 DEF QueueStep, n
<1>4. CASE node_state[n] = "idle"
  <2>1. AddToQueue(queued, owner[n], n, priority[n], static_node[n])
    BY <1>4 DEF SendFact, SendEnqueue, Active, n
  <2>2. node_state[n] \notin Kinds
    BY <1>4 DEF Kinds
  <2>3. PutIn(n, owner[n], KindFor(priority[n], static_node[n]))
    BY <1>1, <1>2, <2>1, <2>2, AddFact DEF n
  <2>4. KindFor(priority[n], static_node[n]) \in Kinds
    BY <1>2, KindForFact
  <2>5. node_state'[n] = KindFor(priority[n], static_node[n])
    BY <1>1, <1>2, <2>3 DEF PutIn, n
  <2> QED BY <1>4, <2>3, <2>4, <2>5 DEF QueueStep, n, Kinds
<1> QED BY <1>3, <1>4

\* An instruction that leaves the owner alone requeues a node that is still in
\* the queue in which it was found; schedule_next also queues an idle one.
LEMMA InstrEffect ==
  ASSUME SchedInv, OwnNodesMoved, NEW t \in Threads,
         \/ SetPriority(t) \/ ScheduleNext(t) \/ RemovePriority(t)
         \/ SetStatic(t) \/ SetMoving(t)
  PROVE  QueueStep(target[t])
<1> DEFINE n == target[t]
           st == instr[t].state
<1>1. /\ n \in Nodes /\ owner[n] \in Threads /\ priority[n] \in 0 .. 1
      /\ instr[t].op \in Foreign \/ owner[n] = t
      /\ st = "idle" => node_state[n] = "idle"
  <2>1. pc[t] = "instr"
    BY DEF SetPriority, ScheduleNext, RemovePriority, SetStatic, SetMoving, At
  <2>2. n \in Nodes /\ owner[n] \in Threads
    BY <2>1 DEF SchedInv, WellTyped, NodeTypes, LockInv, MainLocks
  <2> QED BY <2>1, <2>2 DEF SchedInv, WellTyped, NodeTypes, ThreadTypes, LockInv, InstrKnown
<1> HIDE DEF n, st
<1>2. ASSUME NEW j \in Kinds, st \in Kinds, node_state[n] = st, Requeue(owner[n], n, st, j)
      PROVE  QueueStep(n)
  BY <1>1, <1>2, RequeueFact DEF QueueStep
<1>3. ASSUME instr[t].op \in {"set_static", "set_moving"} PROVE owner[n] = t
  BY <1>1, <1>3 DEF OwnNodesMoved
<1>4. CASE SetPriority(t)
  BY <1>2, <1>4 DEF SetPriority, StillIn, Kinds, WithPrio, QueueStep, n, st
<1>5. CASE ScheduleNext(t)
  <2>1. CASE owner[n] = t /\ st = "idle"
    <3>1. AddToQueue(queued, owner[n], n, 1, static_node[n]) /\ node_state[n] = "idle"
      BY <1>1, <1>5, <2>1 DEF ScheduleNext, n, st
    <3>2. PutIn(n, owner[n], KindFor(1, static_node[n]))
      BY <1>1, <3>1, AddFact DEF Kinds
    <3>3. KindFor(1, static_node[n]) \in Kinds
      BY KindForFact
    <3> QED BY <3>1, <3>2, <3>3 DEF QueueStep, n
  <2>2. CASE ~ (owner[n] = t /\ st = "idle")
    BY <1>2, <1>5, <2>2 DEF ScheduleNext, StillIn, Kinds, WithPrio, QueueStep, n, st
  <2> QED BY <2>1, <2>2
<1>6. CASE RemovePriority(t)
  BY <1>2, <1>6 DEF RemovePriority, StillIn, Kinds, NoPrio, QueueStep, n, st
<1>7. CASE SetStatic(t)
  BY <1>2, <1>3, <1>7 DEF SetStatic, At, CanRemove, StillIn, Kinds, ToStatic, QueueStep, n, st
<1>8. CASE SetMoving(t)
  BY <1>2, <1>3, <1>8 DEF SetMoving, At, CanRemove, StillIn, Kinds, ToMoving, QueueStep, n, st
<1> QED BY <1>4, <1>5, <1>6, <1>7, <1>8 DEF n

\* set_node_owner on a node of the own thread: the node goes to the new owner,
\* with its queue mark, or stays where it is.
LEMMA OwnerEffect ==
  ASSUME SchedInv, OwnNodesMoved, NEW t \in Threads, SetOwner(t)
  PROVE  LET n == target[t]
             new == instr[t].new
         IN /\ n \in Nodes /\ new \in Threads
            /\ owner[n] = t
            /\ static_node' = [static_node EXCEPT ![n] = new]
            /\ \/ UNCHANGED <<queued, node_state, owner>>
               \/ /\ node_state[n] \in Kinds /\ owner' = [owner EXCEPT ![n] = new]
                  /\ PutIn(n, new, KindFor(priority[n], new))
               \/ /\ node_state[n] \in {"idle", "stealing"}
                  /\ owner' = [owner EXCEPT ![n] = new] /\ UNCHANGED <<queued, node_state>>
            /\ owner' = owner => node_state[n] = "working" \/ owner[n] = new
<1> DEFINE n == target[t]
           new == instr[t].new
           st == node_state[n]
           qs == Without(queued, t, st, {n})
<1>1. /\ n \in Nodes /\ new \in Threads /\ owner[n] = t
      /\ priority[n] \in 0 .. 1 /\ node_state[n] \in NodeStates
      /\ owner \in [Nodes -> Threads] /\ queued \in QueueTypes
  <2>1. pc[t] = "instr" /\ instr[t].op = "set_owner"
    BY DEF SetOwner, At
  <2>2. n \in Nodes
    BY <2>1 DEF SchedInv, LockInv, MainLocks
  <2> QED BY <2>1, <2>2 DEF SchedInv, WellTyped, NodeTypes, ThreadTypes, LockInv, InstrKnown, OwnNodesMoved,
                            QueueTypes
<1>2. static_node' = [static_node EXCEPT ![n] = new]
  BY DEF SetOwner
<1>3. CASE owner[n] = new
  <2>1. UNCHANGED <<queued, node_state, owner>>
    BY <1>3 DEF SetOwner
  <2> QED BY <1>1, <1>2, <1>3, <2>1
<1>4. CASE owner[n] # new /\ st \in Kinds
  <2>1. \A u \in Threads, i \in Kinds : n \in queued[u][i] <=> i = st /\ u = t
    BY <1>1, <1>4 DEF SchedInv, PlaceInv, QueuedRight
  <2>2. RemoveFrom(t, st, n) = {qs}
    BY <1>1, <1>4, <2>1 DEF RemoveFrom
  <2>3. /\ owner' = [owner EXCEPT ![n] = new]
        /\ AddToQueue(qs, new, n, priority[n], new)
    BY <1>4, <2>2 DEF SetOwner
  <2>4. qs \in QueueTypes /\ \A u \in Threads, i \in Kinds, m \in Nodes :
              m \in qs[u][i] <=> m \in queued[u][i] /\ m # n
    BY <1>1, <1>4, <2>1, WithoutFact
  <2>5. KindFor(priority[n], new) \in Kinds
    BY <1>1, KindForFact
  <2>6. PutIn(n, new, KindFor(priority[n], new))
    BY <1>1, <2>3, <2>4, AddedAlone
  <2>7. owner' # owner
    BY <1>1, <1>4, <2>3
  <2> QED BY <1>1, <1>2, <1>4, <2>3, <2>6, <2>7
<1>5. CASE owner[n] # new /\ st \notin Kinds
  <2>1. /\ owner' = IF st = "working" THEN owner ELSE [owner EXCEPT ![n] = new]
        /\ UNCHANGED <<queued, node_state>>
    BY <1>5 DEF SetOwner
  <2>2. st \in {"idle", "working", "stealing"}
    BY <1>1, <1>5 DEF NodeStates
  <2>3. st # "working" => owner' # owner
    BY <1>1, <1>5, <2>1
  <2> HIDE DEF st
  <2> QED BY <1>1, <1>2, <2>1, <2>2, <2>3 DEF st
<1> QED BY <1>3, <1>4, <1>5

\* The thread hands its node to the queues of the thread it is static to.
LEMMA LeaveEffect ==
  ASSUME SchedInv, NEW t \in Threads, Leave(t)
  PROVE  LET n == current_node[t]
             new == static_node[n]
         IN /\ n \in Nodes /\ new \in Threads
            /\ owner' = [owner EXCEPT ![n] = new]
            /\ PutIn(n, new, KindFor(0, new))
            /\ main_lock' = [main_lock EXCEPT ![n] = Nobody]
            /\ current_node' = [current_node EXCEPT ![t] = Nobody]
            /\ pc' = [pc EXCEPT ![t] = "next"]
<1> DEFINE n == current_node[t]
           new == static_node[n]
<1>1. pc[t] = "leaving"
  BY DEF Leave
<1>2. n \in Nodes
  BY <1>1 DEF SchedInv, WellTyped, NodeTypes, ThreadTypes, ControlTypes
<1>3. new \in Threads
  BY <1>1, <1>2 DEF SchedInv, WellTyped, NodeTypes, ThreadTypes, LockInv, MovePending, NewOwnerPending
<1>4. node_state[n] = "working"
  BY <1>2 DEF SchedInv, PlaceInv, RunRight
<1>5. new # Nobody
  BY <1>3, NobodyAssumption
<1>6. AddToQueue(queued, new, n, 0, new)
  BY <1>5 DEF Leave
<1>7. PutIn(n, new, KindFor(0, new))
  BY <1>2, <1>3, <1>4, <1>6, AddFact DEF Kinds
<1> QED BY <1>2, <1>3, <1>5, <1>7 DEF Leave, Goto

\* A stolen node goes to a queue of its owner, who may be the thief now.
LEMMA StealEffect ==
  ASSUME SchedInv, NEW t \in Threads, NEW n \in buffer[t], KeepStolen(t, n)
  PROVE  /\ n \in Nodes /\ node_state[n] = "stealing" /\ owner' \in [Nodes -> Threads]
         /\ static_node' \in [Nodes -> Threads \cup {Nobody}]
         /\ moved_fact' \in [Nodes -> BOOLEAN]
         /\ \E p \in 0 .. 1 : PutIn(n, owner'[n], KindFor(p, static_node'[n]))
         /\ \A m \in Nodes \ {n} : owner'[m] = owner[m] /\ static_node'[m] = static_node[m]
         /\ static_node'[n] \in {Nobody, owner'[n]}
<1>1. /\ n \in Nodes /\ owner \in [Nodes -> Threads] /\ priority[n] \in 0 .. 1
      /\ static_node \in [Nodes -> Threads \cup {Nobody}]
      /\ moved_fact \in [Nodes -> BOOLEAN]
  BY DEF SchedInv, WellTyped, NodeTypes, ThreadTypes
<1>2. node_state[n] = "stealing"
  BY <1>1 DEF SchedInv, PlaceInv, StolenRight
<1>3. ~ NewOwnerPending(n)
  BY <1>1, <1>2 DEF SchedInv, LockInv, MovePending, MovesSettle
<1>4. CASE static_node[n] # Nobody /\ owner[n] # victim[t]
  <2>1. /\ AddToQueue(queued, owner[n], n, priority[n], static_node[n])
        /\ UNCHANGED <<owner, static_node>>
        /\ moved_fact' = [moved_fact EXCEPT ![n] = @ \/ JustMoved]
    BY <1>4 DEF KeepStolen, Buffered
  <2>2. PutIn(n, owner[n], KindFor(priority[n], static_node[n]))
    BY <1>1, <1>2, <2>1, AddFact DEF Kinds
  <2>3. moved_fact' \in [Nodes -> BOOLEAN]
    BY <1>1, <2>1, SchedFlags
  <2> QED BY <1>1, <1>2, <1>3, <2>1, <2>2, <2>3 DEF NewOwnerPending
<1>5. CASE ~ (static_node[n] # Nobody /\ owner[n] # victim[t])
  <2> DEFINE static == IF static_node[n] = Nobody THEN Nobody ELSE t
  <2>1. /\ AddToQueue(queued, t, n, priority[n], static)
        /\ static_node' = [static_node EXCEPT ![n] = static]
        /\ owner' = [owner EXCEPT ![n] = t]
        /\ UNCHANGED moved_fact
    BY <1>5 DEF KeepStolen
  <2>2. PutIn(n, t, KindFor(priority[n], static))
    BY <1>1, <1>2, <2>1, AddFact DEF Kinds
  <2>3. static \in {Nobody, t}
    OBVIOUS
  <2> HIDE DEF static
  <2>4. owner'[n] = t /\ static_node'[n] = static
    BY <1>1, <2>1
  <2>5. /\ owner' \in [Nodes -> Threads]
        /\ static_node' \in [Nodes -> Threads \cup {Nobody}]
    BY <1>1, <2>1, <2>3
  <2>6. \A m \in Nodes \ {n} : owner'[m] = owner[m] /\ static_node'[m] = static_node[m]
    BY <1>1, <2>1
  <2> QED BY <1>1, <1>2, <2>1, <2>2, <2>3, <2>4, <2>5, <2>6
<1> QED BY <1>4, <1>5

-----------------------------------------------------------------------------
(* Type correctness.                                                       *)

\* The three parts give the type invariant of the module.
LEMMA TypesGiven == WellTyped => TypeOK
  BY DEF WellTyped, NodeTypes, ThreadTypes, ControlTypes, TypeOK, QueueTypes

\* An instruction keeps the queues and the marks well typed.
LEMMA QueueStepTyped ==
  ASSUME SchedInv, NEW n \in Nodes, QueueStep(n)
  PROVE  queued' \in QueueTypes /\ node_state' \in [Nodes -> NodeStates]
<1>1. queued \in QueueTypes /\ node_state \in [Nodes -> NodeStates]
  BY DEF SchedInv, WellTyped, NodeTypes, ThreadTypes
<1>2. ASSUME NEW j \in Kinds, PutIn(n, owner[n], j)
      PROVE  queued' \in QueueTypes /\ node_state' \in [Nodes -> NodeStates]
  BY <1>1, <1>2 DEF PutIn, NodeStates
<1> QED BY <1>1, <1>2 DEF QueueStep

\* The node of a send or an instruction is a node.
LEMMA TargetKnown ==
  ASSUME SchedInv, NEW t \in Threads, pc[t] \in {"send", "instr"}
  PROVE  target[t] \in Nodes
  BY DEF SchedInv, LockInv, MainLocks

\* init() leaves a well typed state.
LEMMA InitTyped == Init => WellTyped
<1> SUFFICES ASSUME Init PROVE WellTyped
  OBVIOUS
<1>1. NodeTypes
  BY HomeAssumption DEF Init, NodeTypes, NodeStates, Kinds
<1>2. ThreadTypes
  <2>1. instr \in [Threads -> InstrTypes]
    BY DEF Init, InstrTypes, NoInstr, NodeStates
  <2>2. queued \in QueueTypes
    BY DEF Init, QueueTypes
  <2> QED BY <2>1, <2>2, SchedBounds DEF Init, ThreadTypes, Labels
<1>3. ControlTypes
  BY DEF Init, ControlTypes
<1> QED BY <1>1, <1>2, <1>3 DEF WellTyped

\* Every step of every thread keeps the state well typed.
LEMMA StepTyped ==
  ASSUME SchedInv, OwnNodesMoved, [Next]_vars
  PROVE  WellTyped'
<1>0. /\ NodeTypes /\ ThreadTypes /\ ControlTypes
      /\ NoInstr \in InstrTypes
  BY DEF SchedInv, WellTyped, InstrTypes, NoInstr, NodeStates
<1> USE <1>0, NobodyAssumption DEF WellTyped, Goto, nodeVars, lockVars, localVars
<1>1. ASSUME NEW t \in Threads, PopPriority(t) PROVE WellTyped'
  <2>1. PICK k \in {"prio_moving", "prio_static"}, n \in Nodes :
          n \in queued[t][k] /\ TakeCurrent(t, k, n)
    BY <1>1 DEF PopPriority, Prios, ThreadTypes, QueueTypes, Kinds
  <2>2. k \in Kinds /\ queued \in QueueTypes
    BY <2>1 DEF Kinds, ThreadTypes
  <2>3. queued' \in QueueTypes
    BY <2>1, <2>2, WithoutFact DEF TakeCurrent
  <2>4. pc[t] \in {"next", "popq"} /\ n # Nobody
    BY <1>1 DEF PopPriority
  <2>11. NodeTypes'
    BY <1>1, <2>1, <2>3, <2>4 DEF NodeTypes, TakeCurrent, Labels, NodeStates, Kinds
  <2>12. ThreadTypes'
    BY <1>1, <2>1, <2>3, <2>4 DEF ThreadTypes, TakeCurrent, Labels, NodeStates, Kinds
  <2>13. ControlTypes'
    BY <1>1, <2>1, <2>3, <2>4 DEF ThreadTypes, ControlTypes, TakeCurrent, Labels, NodeStates, Kinds
  <2> QED BY <2>11, <2>12, <2>13
<1>2. ASSUME NEW t \in Threads, NoPriority(t) PROVE WellTyped'
  <2>11. NodeTypes'
    BY <1>2 DEF NodeTypes, NoPriority, Labels, NodeStates
  <2>12. ThreadTypes'
    BY <1>2 DEF ThreadTypes, NoPriority, Labels, NodeStates
  <2>13. ControlTypes'
    BY <1>2 DEF ThreadTypes, ControlTypes, NoPriority, Labels, NodeStates
  <2> QED BY <2>11, <2>12, <2>13
<1>3. ASSUME NEW t \in Threads, PopQueue(t) PROVE WellTyped'
  <2>1. PICK k \in {"queue_moving", "queue_static"}, n \in Nodes :
          n \in queued[t][k] /\ TakeCurrent(t, k, n)
    BY <1>3 DEF PopQueue, Prios, ThreadTypes, QueueTypes, Kinds
  <2>2. k \in Kinds /\ queued \in QueueTypes
    BY <2>1 DEF Kinds, ThreadTypes
  <2>3. queued' \in QueueTypes
    BY <2>1, <2>2, WithoutFact DEF TakeCurrent
  <2>4. pc[t] \in {"next", "popq"} /\ n # Nobody
    BY <1>3 DEF PopQueue
  <2>11. NodeTypes'
    BY <1>3, <2>1, <2>3, <2>4 DEF NodeTypes, TakeCurrent, Labels, NodeStates, Kinds
  <2>12. ThreadTypes'
    BY <1>3, <2>1, <2>3, <2>4 DEF ThreadTypes, TakeCurrent, Labels, NodeStates, Kinds
  <2>13. ControlTypes'
    BY <1>3, <2>1, <2>3, <2>4 DEF ThreadTypes, ControlTypes, TakeCurrent, Labels, NodeStates, Kinds
  <2> QED BY <2>11, <2>12, <2>13
<1>4. ASSUME NEW t \in Threads, NoQueued(t) PROVE WellTyped'
  <2>11. NodeTypes'
    BY <1>4 DEF NodeTypes, NoQueued, Labels, NodeStates
  <2>12. ThreadTypes'
    BY <1>4 DEF ThreadTypes, NoQueued, Labels, NodeStates
  <2>13. ControlTypes'
    BY <1>4 DEF ThreadTypes, ControlTypes, NoQueued, Labels, NodeStates
  <2> QED BY <2>11, <2>12, <2>13
<1>5. ASSUME NEW t \in Threads, PollAgain(t) PROVE WellTyped'
  <2>11. NodeTypes'
    BY <1>5 DEF NodeTypes, PollAgain, Labels, NodeStates
  <2>12. ThreadTypes'
    BY <1>5 DEF ThreadTypes, PollAgain, Labels, NodeStates
  <2>13. ControlTypes'
    BY <1>5 DEF ThreadTypes, ControlTypes, PollAgain, Labels, NodeStates
  <2> QED BY <2>11, <2>12, <2>13
<1>6. ASSUME NEW t \in Threads, StealNodes(t) PROVE WellTyped'
  <2>1. PICK u \in Threads \ {t}, k \in {"queue_moving", "prio_moving"} :
          StealFrom(t, u, k) /\ victim' = [victim EXCEPT ![t] = u]
    BY <1>6 DEF StealNodes
  <2>2. PICK S \in SUBSET queued[u][k] :
          /\ queued' = Without(queued, u, k, S)
          /\ node_state' = [n \in Nodes |-> IF n \in S THEN "stealing" ELSE node_state[n]]
          /\ buffer' = [buffer EXCEPT ![t] = S]
    BY <2>1 DEF StealFrom
  <2>3. k \in Kinds /\ queued \in QueueTypes /\ S \subseteq Nodes
    BY <2>1, <2>2 DEF Kinds, QueueTypes, ThreadTypes
  <2>4. queued' \in QueueTypes
    BY <2>1, <2>2, <2>3, WithoutFact
  <2>5. node_state' \in [Nodes -> NodeStates]
    BY <2>2 DEF NodeTypes, NodeStates
  <2>11. NodeTypes'
    BY <1>6, <2>1, <2>2, <2>3, <2>4, <2>5 DEF NodeTypes, StealNodes, Labels
  <2>12. ThreadTypes'
    BY <1>6, <2>1, <2>2, <2>3, <2>4, <2>5 DEF ThreadTypes, StealNodes, Labels
  <2>13. ControlTypes'
    BY <1>6, <2>1, <2>2, <2>3, <2>4, <2>5 DEF ThreadTypes, ControlTypes, StealNodes, Labels
  <2> QED BY <2>11, <2>12, <2>13
<1>7. ASSUME NEW t \in Threads, StealTake(t) PROVE WellTyped'
  <2>1. PICK n \in buffer[t] : KeepStolen(t, n) /\ buffer' = [buffer EXCEPT ![t] = buffer[t] \ {n}]
    BY <1>7 DEF StealTake
  <2>2. /\ n \in Nodes /\ owner' \in [Nodes -> Threads]
        /\ static_node' \in [Nodes -> Threads \cup {Nobody}]
        /\ moved_fact' \in [Nodes -> BOOLEAN]
        /\ \E p \in 0 .. 1 : PutIn(n, owner'[n], KindFor(p, static_node'[n]))
    BY <2>1, StealEffect
  <2>3. queued' \in QueueTypes /\ node_state' \in [Nodes -> NodeStates]
    BY <2>2, KindForFact DEF PutIn, NodeTypes, NodeStates
  <2>11. NodeTypes'
    BY <1>7, <2>1, <2>2, <2>3 DEF NodeTypes, StealTake
  <2>12. ThreadTypes'
    BY <1>7, <2>1, <2>2, <2>3 DEF ThreadTypes, StealTake
  <2>13. ControlTypes'
    BY <1>7, <2>1, <2>2, <2>3 DEF ThreadTypes, ControlTypes, StealTake
  <2> QED BY <2>11, <2>12, <2>13
<1>8. ASSUME NEW t \in Threads, StealEnd(t) PROVE WellTyped'
  <2>11. NodeTypes'
    BY <1>8 DEF NodeTypes, StealEnd, Labels, NodeStates
  <2>12. ThreadTypes'
    BY <1>8 DEF ThreadTypes, StealEnd, Labels, NodeStates
  <2>13. ControlTypes'
    BY <1>8 DEF ThreadTypes, ControlTypes, StealEnd, Labels, NodeStates
  <2> QED BY <2>11, <2>12, <2>13
<1>9. ASSUME NEW t \in Threads, RunLock(t) PROVE WellTyped'
  <2>11. NodeTypes'
    BY <1>9 DEF NodeTypes, RunLock, Labels, NodeStates
  <2>12. ThreadTypes'
    BY <1>9 DEF ThreadTypes, RunLock, Labels, NodeStates
  <2>13. ControlTypes'
    BY <1>9 DEF ThreadTypes, ControlTypes, RunLock, Labels, NodeStates
  <2> QED BY <2>11, <2>12, <2>13
<1>10. ASSUME NEW t \in Threads, RunTakeFacts(t) PROVE WellTyped'
  <2>11. NodeTypes'
    BY <1>10 DEF NodeTypes, RunTakeFacts, Labels, NodeStates
  <2>12. ThreadTypes'
    BY <1>10 DEF ThreadTypes, RunTakeFacts, Labels, NodeStates
  <2>13. ControlTypes'
    BY <1>10 DEF ThreadTypes, ControlTypes, RunTakeFacts, Labels, NodeStates
  <2> QED BY <2>11, <2>12, <2>13
<1>11. ASSUME NEW t \in Threads, RulesEnd(t) PROVE WellTyped'
  <2>11. NodeTypes'
    BY <1>11 DEF NodeTypes, RulesEnd, Labels, NodeStates
  <2>12. ThreadTypes'
    BY <1>11 DEF ThreadTypes, RulesEnd, Labels, NodeStates
  <2>13. ControlTypes'
    BY <1>11 DEF ThreadTypes, ControlTypes, RulesEnd, Labels, NodeStates
  <2> QED BY <2>11, <2>12, <2>13
<1>12. ASSUME NEW t \in Threads, SyncEnd(t) PROVE WellTyped'
  <2>11. NodeTypes'
    BY <1>12 DEF NodeTypes, SyncEnd, Labels, NodeStates
  <2>12. ThreadTypes'
    BY <1>12 DEF ThreadTypes, SyncEnd, Labels, NodeStates
  <2>13. ControlTypes'
    BY <1>12 DEF ThreadTypes, ControlTypes, SyncEnd, Labels, NodeStates
  <2> QED BY <2>11, <2>12, <2>13
<1>13. ASSUME NEW t \in Threads, SendLock(t) PROVE WellTyped'
  <2>11. NodeTypes'
    BY <1>13, SchedBounds DEF NodeTypes, SendLock, Labels, NodeStates
  <2>12. ThreadTypes'
    BY <1>13, SchedBounds DEF ThreadTypes, SendLock, Labels, NodeStates
  <2>13. ControlTypes'
    BY <1>13, SchedBounds DEF ThreadTypes, ControlTypes, SendLock, Labels, NodeStates
  <2> QED BY <2>11, <2>12, <2>13
<1>14. ASSUME NEW t \in Threads, SendFact(t) PROVE WellTyped'
  <2>1. target[t] \in Nodes
    BY <1>14, TargetKnown DEF SendFact
  <2>2. queued' \in QueueTypes /\ node_state' \in [Nodes -> NodeStates]
    BY <1>14, <2>1, SendEffect, QueueStepTyped
  <2>3. instr' \in [Threads -> InstrTypes]
    BY <1>14 DEF SendFact, Return, ThreadTypes
  <2>11. NodeTypes'
    BY <1>14, <2>1, <2>2, <2>3 DEF NodeTypes, SendFact, Return, Labels
  <2>12. ThreadTypes'
    BY <1>14, <2>1, <2>2, <2>3 DEF ThreadTypes, SendFact, Return, Labels
  <2>13. ControlTypes'
    BY <1>14, <2>1, <2>2, <2>3 DEF ThreadTypes, ControlTypes, SendFact, Return, Labels
  <2> QED BY <2>11, <2>12, <2>13
<1>15. ASSUME NEW t \in Threads, CheckNode(t) PROVE WellTyped'
  <2>11. NodeTypes'
    BY <1>15 DEF NodeTypes, CheckNode, Labels, NodeStates
  <2>12. ThreadTypes'
    BY <1>15 DEF ThreadTypes, CheckNode, Labels, NodeStates
  <2>13. ControlTypes'
    BY <1>15 DEF ThreadTypes, ControlTypes, CheckNode, Labels, NodeStates
  <2> QED BY <2>11, <2>12, <2>13
<1>16. ASSUME NEW t \in Threads, LeaveLock(t) PROVE WellTyped'
  <2>11. NodeTypes'
    BY <1>16 DEF NodeTypes, LeaveLock, Labels, NodeStates
  <2>12. ThreadTypes'
    BY <1>16 DEF ThreadTypes, LeaveLock, Labels, NodeStates
  <2>13. ControlTypes'
    BY <1>16 DEF ThreadTypes, ControlTypes, LeaveLock, Labels, NodeStates
  <2> QED BY <2>11, <2>12, <2>13
<1>17. ASSUME NEW t \in Threads, Leave(t) PROVE WellTyped'
  <2> DEFINE n == current_node[t]
             new == static_node[n]
  <2>1. /\ n \in Nodes /\ new \in Threads
        /\ owner' = [owner EXCEPT ![n] = new]
        /\ PutIn(n, new, KindFor(0, new))
        /\ main_lock' = [main_lock EXCEPT ![n] = Nobody]
        /\ current_node' = [current_node EXCEPT ![t] = Nobody]
        /\ pc' = [pc EXCEPT ![t] = "next"]
    BY <1>17, LeaveEffect
  <2>2. queued' \in QueueTypes /\ node_state' \in [Nodes -> NodeStates]
    BY <2>1, KindForFact DEF PutIn, NodeTypes, NodeStates
  <2>3. /\ moved_fact' \in [Nodes -> BOOLEAN]
        /\ priority' = [priority EXCEPT ![n] = 0] /\ pc[t] = "leaving"
        /\ UNCHANGED <<static_node, unprocessed, database_lock, localVars, facts, instructions>>
    BY <1>17, SchedFlags DEF Leave, Buffered, NodeTypes
  <2> HIDE DEF n, new
  <2>11. NodeTypes'
    BY <2>1, <2>2, <2>3 DEF NodeTypes, Labels
  <2>12. ThreadTypes'
    BY <2>1, <2>2, <2>3 DEF ThreadTypes, Labels
  <2>13. ControlTypes'
    BY <2>1, <2>2, <2>3 DEF ThreadTypes, ControlTypes, Labels
  <2> QED BY <2>11, <2>12, <2>13
<1>18. ASSUME NEW t \in Threads, Rest(t) PROVE WellTyped'
  <2>1. CASE unprocessed[current_node[t]]
    <3>1. NodeTypes'
      BY <1>18, <2>1 DEF NodeTypes, Rest, Labels, NodeStates
    <3>2. ThreadTypes'
      BY <1>18, <2>1 DEF ThreadTypes, Rest, Labels, NodeStates
    <3>3. ControlTypes'
      BY <1>18, <2>1 DEF ThreadTypes, ControlTypes, Rest, Labels, NodeStates
    <3> QED BY <3>1, <3>2, <3>3
  <2>2. CASE ~ unprocessed[current_node[t]]
    <3>1. NodeTypes'
      BY <1>18, <2>2 DEF NodeTypes, Rest, Labels, NodeStates
    <3>2. ThreadTypes'
      BY <1>18, <2>2 DEF ThreadTypes, Rest, Labels, NodeStates
    <3>3. ControlTypes'
      BY <1>18, <2>2 DEF ThreadTypes, ControlTypes, Rest, Labels, NodeStates
    <3> QED BY <3>1, <3>2, <3>3
  <2> QED BY <2>1, <2>2
<1>19. ASSUME NEW t \in Threads, InstrCurrent(t) PROVE WellTyped'
  <2>11. NodeTypes'
    BY <1>19, SchedBounds DEF NodeTypes, InstrCurrent, Labels, NodeStates
  <2>12. ThreadTypes'
    BY <1>19, SchedBounds DEF ThreadTypes, InstrCurrent, Labels, NodeStates
  <2>13. ControlTypes'
    BY <1>19, SchedBounds DEF ThreadTypes, ControlTypes, InstrCurrent, Labels, NodeStates
  <2> QED BY <2>11, <2>12, <2>13
<1>20. ASSUME NEW t \in Threads, InstrLock(t) PROVE WellTyped'
  <2>1. PICK n \in Nodes, op \in Ops, u \in Threads :
          /\ main_lock' = [main_lock EXCEPT ![n] = t]
          /\ target' = [target EXCEPT ![t] = n]
          /\ instr' = [instr EXCEPT ![t] = [op |-> op, state |-> node_state[n], new |-> u]]
    BY <1>20 DEF InstrLock
  <2>2. [op |-> op, state |-> node_state[n], new |-> u] \in InstrTypes
    BY <2>1, SchedFlags DEF InstrTypes, NodeTypes
  <2>3. instr' \in [Threads -> InstrTypes]
    BY <2>1, <2>2 DEF ThreadTypes
  <2>4. instructions' \in 0 .. Instructions
    BY <1>20, SchedBounds DEF InstrLock, ThreadTypes
  <2>11. NodeTypes'
    BY <1>20, <2>1, <2>3, <2>4 DEF NodeTypes, InstrLock, Labels
  <2>12. ThreadTypes'
    BY <1>20, <2>1, <2>3, <2>4 DEF ThreadTypes, InstrLock, Labels
  <2>13. ControlTypes'
    BY <1>20, <2>1, <2>3, <2>4 DEF ThreadTypes, ControlTypes, InstrLock, Labels
  <2> QED BY <2>11, <2>12, <2>13
<1>21. ASSUME NEW t \in Threads, SetPriority(t) PROVE WellTyped'
  <2>1. target[t] \in Nodes
    BY <1>21, TargetKnown DEF SetPriority, At
  <2>2. queued' \in QueueTypes /\ node_state' \in [Nodes -> NodeStates]
    BY <1>21, <2>1, InstrEffect, QueueStepTyped
  <2>3. \/ Return(t)
        \/ UNCHANGED <<main_lock, target, instr>> /\ pc' = [pc EXCEPT ![t] = "abort"]
    BY <1>21 DEF SetPriority, Goto
  <2>4. pc[t] = "instr" /\ InstrFrame
    BY <1>21 DEF SetPriority, At
  <2>14. /\ priority' \in [Nodes -> 0 .. 1] /\ UNCHANGED <<owner, moved_fact>>
         /\ static_node' \in [Nodes -> Threads \cup {Nobody}]
    BY <1>21, <2>1 DEF NodeTypes, SetPriority
  <2>5. NodeTypes'
    BY <2>1, <2>2, <2>3, <2>4, <2>14 DEF NodeTypes, Return, InstrFrame
  <2>6. instr' \in [Threads -> InstrTypes]
    BY <2>3 DEF ThreadTypes, Return
  <2>7. pc' \in [Threads -> Labels] /\ (pc'[t] \in {"rules", "sync", "abort"})
        /\ \A u \in Threads \ {t} : pc'[u] = pc[u]
    BY <2>3 DEF ThreadTypes, Return, Goto, Labels
  <2>8. ThreadTypes'
    BY <2>2, <2>3, <2>4, <2>6, <2>7 DEF ThreadTypes, Return, InstrFrame
  <2>9. ControlTypes'
    BY <2>4, <2>7 DEF ControlTypes, InstrFrame
  <2> QED BY <2>5, <2>8, <2>9
<1>22. ASSUME NEW t \in Threads, ScheduleNext(t) PROVE WellTyped'
  <2>1. target[t] \in Nodes
    BY <1>22, TargetKnown DEF ScheduleNext, At
  <2>2. queued' \in QueueTypes /\ node_state' \in [Nodes -> NodeStates]
    BY <1>22, <2>1, InstrEffect, QueueStepTyped
  <2>3. \/ Return(t)
        \/ UNCHANGED <<main_lock, target, instr>> /\ pc' = [pc EXCEPT ![t] = "abort"]
    BY <1>22 DEF ScheduleNext, Goto
  <2>4. pc[t] = "instr" /\ InstrFrame
    BY <1>22 DEF ScheduleNext, At
  <2>14. /\ priority' \in [Nodes -> 0 .. 1] /\ UNCHANGED <<owner, moved_fact>>
         /\ static_node' \in [Nodes -> Threads \cup {Nobody}]
    BY <1>22, <2>1 DEF NodeTypes, ScheduleNext
  <2>5. NodeTypes'
    BY <2>1, <2>2, <2>3, <2>4, <2>14 DEF NodeTypes, Return, InstrFrame
  <2>6. instr' \in [Threads -> InstrTypes]
    BY <2>3 DEF ThreadTypes, Return
  <2>7. pc' \in [Threads -> Labels] /\ (pc'[t] \in {"rules", "sync", "abort"})
        /\ \A u \in Threads \ {t} : pc'[u] = pc[u]
    BY <2>3 DEF ThreadTypes, Return, Goto, Labels
  <2>8. ThreadTypes'
    BY <2>2, <2>3, <2>4, <2>6, <2>7 DEF ThreadTypes, Return, InstrFrame
  <2>9. ControlTypes'
    BY <2>4, <2>7 DEF ControlTypes, InstrFrame
  <2> QED BY <2>5, <2>8, <2>9
<1>23. ASSUME NEW t \in Threads, RemovePriority(t) PROVE WellTyped'
  <2>1. target[t] \in Nodes
    BY <1>23, TargetKnown DEF RemovePriority, At
  <2>2. queued' \in QueueTypes /\ node_state' \in [Nodes -> NodeStates]
    BY <1>23, <2>1, InstrEffect, QueueStepTyped
  <2>3. \/ Return(t)
        \/ UNCHANGED <<main_lock, target, instr>> /\ pc' = [pc EXCEPT ![t] = "abort"]
    BY <1>23 DEF RemovePriority, Goto
  <2>4. pc[t] = "instr" /\ InstrFrame
    BY <1>23 DEF RemovePriority, At
  <2>14. /\ priority' \in [Nodes -> 0 .. 1] /\ UNCHANGED <<owner, moved_fact>>
         /\ static_node' \in [Nodes -> Threads \cup {Nobody}]
    BY <1>23, <2>1 DEF NodeTypes, RemovePriority
  <2>5. NodeTypes'
    BY <2>1, <2>2, <2>3, <2>4, <2>14 DEF NodeTypes, Return, InstrFrame
  <2>6. instr' \in [Threads -> InstrTypes]
    BY <2>3 DEF ThreadTypes, Return
  <2>7. pc' \in [Threads -> Labels] /\ (pc'[t] \in {"rules", "sync", "abort"})
        /\ \A u \in Threads \ {t} : pc'[u] = pc[u]
    BY <2>3 DEF ThreadTypes, Return, Goto, Labels
  <2>8. ThreadTypes'
    BY <2>2, <2>3, <2>4, <2>6, <2>7 DEF ThreadTypes, Return, InstrFrame
  <2>9. ControlTypes'
    BY <2>4, <2>7 DEF ControlTypes, InstrFrame
  <2> QED BY <2>5, <2>8, <2>9
<1>24. ASSUME NEW t \in Threads, SetStatic(t) PROVE WellTyped'
  <2>1. target[t] \in Nodes
    BY <1>24, TargetKnown DEF SetStatic, At
  <2>2. queued' \in QueueTypes /\ node_state' \in [Nodes -> NodeStates]
    BY <1>24, <2>1, InstrEffect, QueueStepTyped
  <2>3. \/ Return(t)
        \/ UNCHANGED <<main_lock, target, instr>> /\ pc' = [pc EXCEPT ![t] = "abort"]
    BY <1>24 DEF SetStatic, Goto
  <2>4. pc[t] = "instr" /\ InstrFrame
    BY <1>24 DEF SetStatic, At
  <2>14. /\ priority' \in [Nodes -> 0 .. 1] /\ UNCHANGED <<owner, moved_fact>>
         /\ static_node' \in [Nodes -> Threads \cup {Nobody}]
    BY <1>24, <2>1 DEF NodeTypes, SetStatic
  <2>5. NodeTypes'
    BY <2>1, <2>2, <2>3, <2>4, <2>14 DEF NodeTypes, Return, InstrFrame
  <2>6. instr' \in [Threads -> InstrTypes]
    BY <2>3 DEF ThreadTypes, Return
  <2>7. pc' \in [Threads -> Labels] /\ (pc'[t] \in {"rules", "sync", "abort"})
        /\ \A u \in Threads \ {t} : pc'[u] = pc[u]
    BY <2>3 DEF ThreadTypes, Return, Goto, Labels
  <2>8. ThreadTypes'
    BY <2>2, <2>3, <2>4, <2>6, <2>7 DEF ThreadTypes, Return, InstrFrame
  <2>9. ControlTypes'
    BY <2>4, <2>7 DEF ControlTypes, InstrFrame
  <2> QED BY <2>5, <2>8, <2>9
<1>25. ASSUME NEW t \in Threads, SetMoving(t) PROVE WellTyped'
  <2>1. target[t] \in Nodes
    BY <1>25, TargetKnown DEF SetMoving, At
  <2>2. queued' \in QueueTypes /\ node_state' \in [Nodes -> NodeStates]
    BY <1>25, <2>1, InstrEffect, QueueStepTyped
  <2>3. \/ Return(t)
        \/ UNCHANGED <<main_lock, target, instr>> /\ pc' = [pc EXCEPT ![t] = "abort"]
    BY <1>25 DEF SetMoving, Goto
  <2>4. pc[t] = "instr" /\ InstrFrame
    BY <1>25 DEF SetMoving, At
  <2>14. /\ priority' \in [Nodes -> 0 .. 1] /\ UNCHANGED <<owner, moved_fact>>
         /\ static_node' \in [Nodes -> Threads \cup {Nobody}]
    BY <1>25, <2>1 DEF NodeTypes, SetMoving
  <2>5. NodeTypes'
    BY <2>1, <2>2, <2>3, <2>4, <2>14 DEF NodeTypes, Return, InstrFrame
  <2>6. instr' \in [Threads -> InstrTypes]
    BY <2>3 DEF ThreadTypes, Return
  <2>7. pc' \in [Threads -> Labels] /\ (pc'[t] \in {"rules", "sync", "abort"})
        /\ \A u \in Threads \ {t} : pc'[u] = pc[u]
    BY <2>3 DEF ThreadTypes, Return, Goto, Labels
  <2>8. ThreadTypes'
    BY <2>2, <2>3, <2>4, <2>6, <2>7 DEF ThreadTypes, Return, InstrFrame
  <2>9. ControlTypes'
    BY <2>4, <2>7 DEF ControlTypes, InstrFrame
  <2> QED BY <2>5, <2>8, <2>9
<1>26. ASSUME NEW t \in Threads, SetOwner(t) PROVE WellTyped'
  <2>1. target[t] \in Nodes
    BY <1>26, TargetKnown DEF SetOwner, At
  <2>2. /\ owner' \in [Nodes -> Threads] /\ queued' \in QueueTypes
        /\ node_state' \in [Nodes -> NodeStates]
        /\ static_node' \in [Nodes -> Threads \cup {Nobody}]
    <3> DEFINE n == target[t]
               new == instr[t].new
               k == KindFor(priority[n], new)
    <3>1. /\ n \in Nodes /\ new \in Threads
          /\ static_node' = [static_node EXCEPT ![n] = new]
          /\ \/ UNCHANGED <<queued, node_state, owner>>
             \/ /\ node_state[n] \in Kinds /\ owner' = [owner EXCEPT ![n] = new]
                /\ PutIn(n, new, k)
             \/ /\ node_state[n] \in {"idle", "stealing"}
                /\ owner' = [owner EXCEPT ![n] = new] /\ UNCHANGED <<queued, node_state>>
      BY <1>26, OwnerEffect
    <3>2. k \in Kinds
      BY <3>1, KindForFact DEF NodeTypes
    <3> HIDE DEF n, new, k
    <3>3. static_node' \in [Nodes -> Threads \cup {Nobody}]
      BY <3>1 DEF NodeTypes
    <3>4. owner' \in [Nodes -> Threads]
      BY <3>1 DEF NodeTypes
    <3>5. queued' \in QueueTypes
      BY <3>1 DEF PutIn, ThreadTypes
    <3>6. node_state' \in [Nodes -> NodeStates]
      <4>1. k \in NodeStates
        BY <3>2 DEF NodeStates
      <4> QED BY <3>1, <4>1 DEF PutIn, NodeTypes
    <3> QED BY <3>3, <3>4, <3>5, <3>6
  <2>3. moved_fact' \in [Nodes -> BOOLEAN]
    BY <1>26, SchedFlags DEF SetOwner, Buffered, NodeTypes
  <2>4. instr' \in [Threads -> InstrTypes]
    BY <1>26 DEF SetOwner, Return, ThreadTypes
  <2>5. Return(t) /\ InstrFrame /\ pc[t] = "instr" /\ UNCHANGED priority
    BY <1>26 DEF SetOwner, At
  <2>11. NodeTypes'
    BY <2>1, <2>2, <2>3, <2>4, <2>5 DEF NodeTypes, Return, InstrFrame, Labels
  <2>12. ThreadTypes'
    BY <2>1, <2>2, <2>3, <2>4, <2>5 DEF ThreadTypes, Return, InstrFrame, Labels
  <2>13. ControlTypes'
    BY <2>1, <2>2, <2>3, <2>4, <2>5 DEF ThreadTypes, ControlTypes, Return, InstrFrame, Labels
  <2> QED BY <2>11, <2>12, <2>13
<1>27. ASSUME NEW t \in Threads, RemoteUpdate(t) PROVE WellTyped'
  <2>11. NodeTypes'
    BY <1>27, SchedBounds DEF NodeTypes, RemoteUpdate, Labels, NodeStates
  <2>12. ThreadTypes'
    BY <1>27, SchedBounds DEF ThreadTypes, RemoteUpdate, Labels, NodeStates
  <2>13. ControlTypes'
    BY <1>27, SchedBounds DEF ThreadTypes, ControlTypes, RemoteUpdate, Labels, NodeStates
  <2> QED BY <2>11, <2>12, <2>13
<1>28. ASSUME NEW t \in Threads, RemoteUpdated(t) PROVE WellTyped'
  <2>11. NodeTypes'
    BY <1>28, SchedBounds DEF NodeTypes, RemoteUpdated, Labels, NodeStates
  <2>12. ThreadTypes'
    BY <1>28, SchedBounds DEF ThreadTypes, RemoteUpdated, Labels, NodeStates
  <2>13. ControlTypes'
    BY <1>28, SchedBounds DEF ThreadTypes, ControlTypes, RemoteUpdated, Labels, NodeStates
  <2> QED BY <2>11, <2>12, <2>13
<1>29. CASE UNCHANGED vars
  BY <1>29 DEF vars, NodeTypes, ThreadTypes, ControlTypes
<1> QED
  BY <1>1, <1>2, <1>3, <1>4, <1>5, <1>6, <1>7, <1>8, <1>9, <1>10, <1>11, <1>12,
     <1>13, <1>14, <1>15, <1>16, <1>17, <1>18, <1>19, <1>20, <1>21, <1>22, <1>23,
     <1>24, <1>25, <1>26, <1>27, <1>28, <1>29
     DEF Next, Step, Schedule, Run, Coordinate

-----------------------------------------------------------------------------
(* Places.                                                                 *)

\* init() queues every node with its owner.
LEMMA InitPlace == Init => PlaceInv
<1> SUFFICES ASSUME Init PROVE PlaceInv
  OBVIOUS
<1>1. QueuedRight
  BY HomeAssumption DEF Init, QueuedRight
<1>2. RunRight /\ StolenRight
  BY NobodyAssumption DEF Init, RunRight, StolenRight
<1> QED BY <1>1, <1>2 DEF PlaceInv

\* A node that is put in a queue of its owner, and is neither run nor carried by
\* a thief any more, is in one place.
LEMMA PlacePut ==
  ASSUME SchedInv, WellTyped', NEW n \in Nodes, NEW u \in Threads, NEW j \in Kinds,
         PutIn(n, u, j), owner'[n] = u, \A m \in Nodes \ {n} : owner'[m] = owner[m],
         \A t \in Threads :
           /\ current_node'[t] = IF current_node[t] = n THEN Nobody ELSE current_node[t]
           /\ buffer'[t] = buffer[t] \ {n}
           /\ buffer'[t] # {} => pc'[t] = "steal"
  PROVE  PlaceInv'
<1>0. /\ QueuedRight /\ RunRight /\ StolenRight
      /\ node_state \in [Nodes -> NodeStates]
  BY DEF SchedInv, PlaceInv, WellTyped, NodeTypes
<1>1. /\ node_state'[n] = j /\ j \notin {"working", "stealing"}
      /\ \A m \in Nodes \ {n} : node_state'[m] = node_state[m]
  BY <1>0 DEF PutIn, Kinds
<1>2. QueuedRight'
  <2> SUFFICES ASSUME NEW t \in Threads, NEW k \in Kinds, NEW m \in Nodes
               PROVE (m \in queued[t][k] <=> node_state[m] = k /\ owner[m] = t)'
    BY DEF QueuedRight
  <2>1. m \in queued'[t][k] <=> IF m = n THEN t = u /\ k = j ELSE m \in queued[t][k]
    BY DEF PutIn
  <2> QED BY <1>0, <1>1, <2>1 DEF QueuedRight
<1>3. RunRight'
  BY <1>0, <1>1, NobodyAssumption DEF RunRight
<1>4. StolenRight'
  BY <1>0, <1>1 DEF StolenRight
<1> QED BY <1>2, <1>3, <1>4 DEF PlaceInv

\* The same for a node that was queued or idle before.
LEMMA PlaceQueueStep ==
  ASSUME SchedInv, WellTyped', NEW n \in Nodes, QueueStep(n), NEW t \in Threads,
         pc[t] # "steal", \A v \in Threads \ {t} : pc'[v] = pc[v],
         UNCHANGED <<owner, current_node, buffer>>
  PROVE  PlaceInv'
<1>0. /\ QueuedRight /\ RunRight /\ StolenRight /\ owner[n] \in Threads
  BY DEF SchedInv, PlaceInv, WellTyped, NodeTypes
<1>1. \A v \in Threads : buffer[v] # {} => pc'[v] = "steal"
  BY <1>0 DEF StolenRight
<1>2. CASE UNCHANGED <<queued, node_state>>
  BY <1>0, <1>1, <1>2 DEF PlaceInv, QueuedRight, RunRight, StolenRight
<1>3. ASSUME node_state[n] \in Kinds \cup {"idle"}, NEW j \in Kinds, PutIn(n, owner[n], j)
      PROVE  PlaceInv'
  <2>1. \A v \in Threads : current_node[v] # n /\ n \notin buffer[v]
    BY <1>0, <1>3 DEF RunRight, StolenRight, Kinds
  <2>2. \A v \in Threads :
          /\ current_node'[v] = IF current_node[v] = n THEN Nobody ELSE current_node[v]
          /\ buffer'[v] = buffer[v] \ {n}
          /\ buffer'[v] # {} => pc'[v] = "steal"
    BY <1>1, <2>1
  <2> QED BY <1>0, <1>3, <2>2, PlacePut
<1> QED BY <1>2, <1>3 DEF QueueStep

\* A popped node is in no queue and is run by its owner alone.
LEMMA TakePlace ==
  ASSUME SchedInv, NEW t \in Threads, NEW k \in Kinds, NEW n \in Nodes,
         n \in queued[t][k], TakeCurrent(t, k, n), pc[t] \in {"next", "popq"}
  PROVE  PlaceInv'
<1>0. /\ QueuedRight /\ RunRight /\ StolenRight
      /\ node_state \in [Nodes -> NodeStates] /\ queued \in QueueTypes
      /\ current_node \in [Threads -> Nodes \cup {Nobody}] /\ current_node[t] = Nobody
      /\ pc \in [Threads -> Labels]
  BY DEF SchedInv, PlaceInv, WellTyped, NodeTypes, ThreadTypes, ControlTypes
<1>1. node_state[n] = k /\ owner[n] = t /\ k \notin {"working", "stealing"}
  BY <1>0 DEF QueuedRight, Kinds
<1>2. /\ node_state'[n] = "working" /\ "working" \notin Kinds
      /\ \A m \in Nodes \ {n} : node_state'[m] = node_state[m]
      /\ current_node'[t] = n /\ \A v \in Threads \ {t} : current_node'[v] = current_node[v]
      /\ UNCHANGED <<owner, buffer>> /\ \A v \in Threads \ {t} : pc'[v] = pc[v]
  BY <1>0 DEF TakeCurrent, localVars, Goto, Kinds
<1>3. \A v \in Threads, j \in Kinds, m \in Nodes :
        m \in queued'[v][j] <=> m \in queued[v][j] /\ ~ (v = t /\ j = k /\ m = n)
  BY <1>0, WithoutFact DEF TakeCurrent
<1>4. QueuedRight'
  BY <1>0, <1>1, <1>2, <1>3 DEF QueuedRight
<1>5. RunRight'
  BY <1>0, <1>1, <1>2, NobodyAssumption DEF RunRight
<1>6. StolenRight'
  BY <1>0, <1>1, <1>2 DEF StolenRight
<1> QED BY <1>4, <1>5, <1>6 DEF PlaceInv

\* Every step leaves every node in one place.
LEMMA StepPlace ==
  ASSUME SchedInv, OwnNodesMoved, [Next]_vars, WellTyped'
  PROVE  PlaceInv'
<1>0. /\ QueuedRight /\ RunRight /\ StolenRight
      /\ owner \in [Nodes -> Threads] /\ node_state \in [Nodes -> NodeStates]
      /\ priority \in [Nodes -> 0 .. 1]
      /\ queued \in QueueTypes /\ current_node \in [Threads -> Nodes \cup {Nobody}]
      /\ buffer \in [Threads -> SUBSET Nodes] /\ pc \in [Threads -> Labels]
      /\ ControlTypes
  BY DEF SchedInv, WellTyped, PlaceInv, NodeTypes, ThreadTypes
<1> USE <1>0, NobodyAssumption DEF PlaceInv, QueuedRight, RunRight, StolenRight, Goto,
      nodeVars, lockVars, localVars
<1>1. ASSUME NEW t \in Threads, PopPriority(t) PROVE PlaceInv'
  <2>1. PICK k \in {"prio_moving", "prio_static"}, n \in Nodes :
          n \in queued[t][k] /\ TakeCurrent(t, k, n)
    BY <1>1 DEF PopPriority, Prios, QueueTypes, Kinds
  <2>2. k \in Kinds /\ pc[t] \in {"next", "popq"}
    BY <1>1, <2>1 DEF Kinds, PopPriority
  <2> QED BY <2>1, <2>2, TakePlace
<1>2. ASSUME NEW t \in Threads, NoPriority(t) PROVE PlaceInv'
  BY <1>2 DEF NoPriority
<1>3. ASSUME NEW t \in Threads, PopQueue(t) PROVE PlaceInv'
  <2>1. PICK k \in {"queue_moving", "queue_static"}, n \in Nodes :
          n \in queued[t][k] /\ TakeCurrent(t, k, n)
    BY <1>3 DEF PopQueue, Prios, QueueTypes, Kinds
  <2>2. k \in Kinds /\ pc[t] \in {"next", "popq"}
    BY <1>3, <2>1 DEF Kinds, PopQueue
  <2> QED BY <2>1, <2>2, TakePlace
<1>4. ASSUME NEW t \in Threads, NoQueued(t) PROVE PlaceInv'
  BY <1>4 DEF NoQueued
<1>5. ASSUME NEW t \in Threads, PollAgain(t) PROVE PlaceInv'
  BY <1>5 DEF PollAgain
<1>6. ASSUME NEW t \in Threads, StealNodes(t) PROVE PlaceInv'
  <2>1. PICK u \in Threads \ {t}, k \in {"queue_moving", "prio_moving"} : StealFrom(t, u, k)
    BY <1>6 DEF StealNodes
  <2>2. PICK S \in SUBSET queued[u][k] :
          /\ queued' = Without(queued, u, k, S)
          /\ node_state' = [n \in Nodes |-> IF n \in S THEN "stealing" ELSE node_state[n]]
          /\ buffer' = [buffer EXCEPT ![t] = S]
    BY <2>1 DEF StealFrom
  <2>3. k \in Kinds /\ S \subseteq Nodes
    BY <2>1, <2>2 DEF Kinds, QueueTypes
  <2>4. \A m \in S : node_state[m] = k /\ owner[m] = u
    BY <2>1, <2>2, <2>3
  <2>5. \A v \in Threads, j \in Kinds, m \in Nodes :
          m \in queued'[v][j] <=> m \in queued[v][j] /\ ~ (v = u /\ j = k /\ m \in S)
    BY <2>2, <2>3, WithoutFact
  <2>6. /\ pc[t] = "wait" /\ pc' = [pc EXCEPT ![t] = "steal"]
        /\ UNCHANGED <<owner, current_node>>
    BY <1>6 DEF StealNodes
  <2>7. \A m \in Nodes : node_state'[m] = IF m \in S THEN "stealing" ELSE node_state[m]
    BY <2>2
  <2>8. QueuedRight'
    BY <2>3, <2>4, <2>5, <2>6, <2>7 DEF Kinds
  <2>9. RunRight'
    BY <2>3, <2>4, <2>6, <2>7 DEF Kinds
  <2>10. /\ buffer[t] = {} /\ buffer'[t] = S
         /\ \A v \in Threads \ {t} : buffer'[v] = buffer[v]
    BY <2>2, <2>6
  <2>11. \A m \in S, v \in Threads : m \notin buffer[v]
    BY <2>3, <2>4 DEF Kinds
  <2>12. \A m \in Nodes : node_state'[m] = "stealing" <=> \E v \in Threads : m \in buffer'[v]
    <3> SUFFICES ASSUME NEW m \in Nodes
                 PROVE node_state'[m] = "stealing" <=> \E v \in Threads : m \in buffer'[v]
      OBVIOUS
    <3>1. CASE m \in S
      BY <2>7, <2>10, <3>1
    <3>2. CASE m \notin S
      BY <2>7, <2>10, <3>2
    <3> QED BY <3>1, <3>2
  <2>13. \A v, w \in Threads, m \in Nodes : m \in buffer'[v] /\ m \in buffer'[w] => v = w
    BY <2>10, <2>11
  <2>14. StolenRight'
    BY <2>6, <2>10, <2>12, <2>13
  <2> QED BY <2>8, <2>9, <2>14
<1>7. ASSUME NEW t \in Threads, StealTake(t) PROVE PlaceInv'
  <2>1. PICK n \in buffer[t] : KeepStolen(t, n) /\ buffer' = [buffer EXCEPT ![t] = buffer[t] \ {n}]
    BY <1>7 DEF StealTake
  <2>2. /\ n \in Nodes /\ owner' \in [Nodes -> Threads]
        /\ \E p \in 0 .. 1 : PutIn(n, owner'[n], KindFor(p, static_node'[n]))
        /\ \A m \in Nodes \ {n} : owner'[m] = owner[m]
        /\ node_state[n] = "stealing"
    BY <2>1, StealEffect
  <2>3. PICK j \in Kinds : PutIn(n, owner'[n], j)
    BY <2>2, KindForFact
  <2>4. UNCHANGED <<current_node, pc>>
    BY <1>7 DEF StealTake
  <2>5. \A v \in Threads :
          /\ current_node'[v] = IF current_node[v] = n THEN Nobody ELSE current_node[v]
          /\ buffer'[v] = buffer[v] \ {n}
          /\ buffer'[v] # {} => pc'[v] = "steal"
    BY <2>1, <2>2, <2>4
  <2>6. PICK u \in Threads : u = owner'[n]
    BY <2>2
  <2>7. PutIn(n, u, j)
    BY <2>3, <2>6
  <2> QED BY <2>2, <2>5, <2>6, <2>7, PlacePut
<1>8. ASSUME NEW t \in Threads, StealEnd(t) PROVE PlaceInv'
  BY <1>8 DEF StealEnd
<1>9. ASSUME NEW t \in Threads, RunLock(t) PROVE PlaceInv'
  BY <1>9 DEF RunLock
<1>10. ASSUME NEW t \in Threads, RunTakeFacts(t) PROVE PlaceInv'
  BY <1>10 DEF RunTakeFacts
<1>11. ASSUME NEW t \in Threads, RulesEnd(t) PROVE PlaceInv'
  BY <1>11 DEF RulesEnd
<1>12. ASSUME NEW t \in Threads, SyncEnd(t) PROVE PlaceInv'
  BY <1>12 DEF SyncEnd
<1>13. ASSUME NEW t \in Threads, SendLock(t) PROVE PlaceInv'
  <2>1. /\ UNCHANGED <<queued, node_state, owner, current_node, buffer>>
        /\ pc[t] # "steal" /\ \A v \in Threads \ {t} : pc'[v] = pc[v]
    BY <1>13 DEF SendLock
  <2> QED BY <2>1
<1>14. ASSUME NEW t \in Threads, SendFact(t) PROVE PlaceInv'
  <2>1. pc[t] = "send" /\ target[t] \in Nodes
    BY <1>14, TargetKnown DEF SendFact
  <2>2. QueueStep(target[t])
    BY <1>14, SendEffect
  <2>3. /\ UNCHANGED <<owner, current_node, buffer>>
        /\ \A v \in Threads \ {t} : pc'[v] = pc[v]
    BY <1>14 DEF SendFact, Return
  <2> QED BY <2>1, <2>2, <2>3, PlaceQueueStep
<1>15. ASSUME NEW t \in Threads, CheckNode(t) PROVE PlaceInv'
  BY <1>15 DEF CheckNode
<1>16. ASSUME NEW t \in Threads, LeaveLock(t) PROVE PlaceInv'
  BY <1>16 DEF LeaveLock
<1>17. ASSUME NEW t \in Threads, Leave(t) PROVE PlaceInv'
  <2> DEFINE n == current_node[t]
             new == static_node[n]
  <2>1. /\ n \in Nodes /\ new \in Threads
        /\ owner' = [owner EXCEPT ![n] = new]
        /\ PutIn(n, new, KindFor(0, new))
        /\ current_node' = [current_node EXCEPT ![t] = Nobody]
        /\ pc' = [pc EXCEPT ![t] = "next"]
    BY <1>17, LeaveEffect
  <2>2. pc[t] = "leaving" /\ buffer' = buffer
    BY <1>17 DEF Leave
  <2>3. PICK j \in Kinds : PutIn(n, new, j)
    BY <2>1, KindForFact
  <2>4. \A v \in Threads : n \notin buffer[v] /\ (v # t => current_node[v] # n)
    BY <2>1
  <2>5. \A v \in Threads :
          /\ current_node'[v] = IF current_node[v] = n THEN Nobody ELSE current_node[v]
          /\ buffer'[v] = buffer[v] \ {n}
          /\ buffer'[v] # {} => pc'[v] = "steal"
    BY <2>1, <2>2, <2>4
  <2>6. owner'[n] = new /\ \A m \in Nodes \ {n} : owner'[m] = owner[m]
    BY <2>1
  <2> HIDE DEF n, new
  <2> QED BY <2>1, <2>3, <2>5, <2>6, PlacePut
<1>18. ASSUME NEW t \in Threads, Rest(t) PROVE PlaceInv'
  <2> DEFINE n == current_node[t]
  <2>1. pc[t] = "rest" /\ n \in Nodes /\ node_state[n] = "working" /\ owner[n] = t
    BY <1>18 DEF Rest, ControlTypes
  <2>2. /\ UNCHANGED <<queued, owner, buffer>>
        /\ \A v \in Threads \ {t} : pc'[v] = pc[v]
        /\ \/ UNCHANGED <<node_state, current_node>>
           \/ /\ node_state' = [node_state EXCEPT ![n] = "idle"]
              /\ current_node' = [current_node EXCEPT ![t] = Nobody]
    BY <1>18 DEF Rest
  <2>3. \A v \in Threads : buffer'[v] # {} => pc'[v] = "steal"
    BY <2>1, <2>2
  <2> HIDE DEF n
  <2>4. CASE UNCHANGED <<node_state, current_node>>
    BY <2>2, <2>3, <2>4
  <2>5. CASE /\ node_state' = [node_state EXCEPT ![n] = "idle"]
             /\ current_node' = [current_node EXCEPT ![t] = Nobody]
    <3>1. \A m \in Nodes : node_state'[m] = IF m = n THEN "idle" ELSE node_state[m]
      BY <2>5
    <3>2. QueuedRight'
      BY <2>1, <2>2, <3>1 DEF Kinds
    <3>3. RunRight'
      BY <2>1, <2>2, <2>5, <3>1 DEF n
    <3>4. StolenRight'
      BY <2>1, <2>2, <2>3, <3>1
    <3> QED BY <3>2, <3>3, <3>4
  <2> QED BY <2>2, <2>4, <2>5
<1>19. ASSUME NEW t \in Threads, InstrCurrent(t) PROVE PlaceInv'
  BY <1>19 DEF InstrCurrent
<1>20. ASSUME NEW t \in Threads, InstrLock(t) PROVE PlaceInv'
  BY <1>20 DEF InstrLock
<1>21. ASSUME NEW t \in Threads, SetPriority(t) PROVE PlaceInv'
  <2>1. pc[t] = "instr" /\ target[t] \in Nodes
    BY <1>21, TargetKnown DEF SetPriority, At
  <2>2. QueueStep(target[t])
    BY <1>21, InstrEffect
  <2>3. /\ UNCHANGED <<owner, current_node, buffer>>
        /\ \A v \in Threads \ {t} : pc'[v] = pc[v]
    BY <1>21 DEF SetPriority, InstrFrame, Return
  <2> QED BY <2>1, <2>2, <2>3, PlaceQueueStep
<1>22. ASSUME NEW t \in Threads, ScheduleNext(t) PROVE PlaceInv'
  <2>1. pc[t] = "instr" /\ target[t] \in Nodes
    BY <1>22, TargetKnown DEF ScheduleNext, At
  <2>2. QueueStep(target[t])
    BY <1>22, InstrEffect
  <2>3. /\ UNCHANGED <<owner, current_node, buffer>>
        /\ \A v \in Threads \ {t} : pc'[v] = pc[v]
    BY <1>22 DEF ScheduleNext, InstrFrame, Return
  <2> QED BY <2>1, <2>2, <2>3, PlaceQueueStep
<1>23. ASSUME NEW t \in Threads, RemovePriority(t) PROVE PlaceInv'
  <2>1. pc[t] = "instr" /\ target[t] \in Nodes
    BY <1>23, TargetKnown DEF RemovePriority, At
  <2>2. QueueStep(target[t])
    BY <1>23, InstrEffect
  <2>3. /\ UNCHANGED <<owner, current_node, buffer>>
        /\ \A v \in Threads \ {t} : pc'[v] = pc[v]
    BY <1>23 DEF RemovePriority, InstrFrame, Return
  <2> QED BY <2>1, <2>2, <2>3, PlaceQueueStep
<1>24. ASSUME NEW t \in Threads, SetStatic(t) PROVE PlaceInv'
  <2>1. pc[t] = "instr" /\ target[t] \in Nodes
    BY <1>24, TargetKnown DEF SetStatic, At
  <2>2. QueueStep(target[t])
    BY <1>24, InstrEffect
  <2>3. /\ UNCHANGED <<owner, current_node, buffer>>
        /\ \A v \in Threads \ {t} : pc'[v] = pc[v]
    BY <1>24 DEF SetStatic, InstrFrame, Return
  <2> QED BY <2>1, <2>2, <2>3, PlaceQueueStep
<1>25. ASSUME NEW t \in Threads, SetMoving(t) PROVE PlaceInv'
  <2>1. pc[t] = "instr" /\ target[t] \in Nodes
    BY <1>25, TargetKnown DEF SetMoving, At
  <2>2. QueueStep(target[t])
    BY <1>25, InstrEffect
  <2>3. /\ UNCHANGED <<owner, current_node, buffer>>
        /\ \A v \in Threads \ {t} : pc'[v] = pc[v]
    BY <1>25 DEF SetMoving, InstrFrame, Return
  <2> QED BY <2>1, <2>2, <2>3, PlaceQueueStep
<1>26. ASSUME NEW t \in Threads, SetOwner(t) PROVE PlaceInv'
  <2> DEFINE n == target[t]
             new == instr[t].new
             k == KindFor(priority[n], new)
  <2>1. /\ n \in Nodes /\ new \in Threads
        /\ \/ UNCHANGED <<queued, node_state, owner>>
           \/ /\ node_state[n] \in Kinds /\ owner' = [owner EXCEPT ![n] = new]
              /\ PutIn(n, new, k)
           \/ /\ node_state[n] \in {"idle", "stealing"}
              /\ owner' = [owner EXCEPT ![n] = new] /\ UNCHANGED <<queued, node_state>>
    BY <1>26, OwnerEffect
  <2>2. k \in Kinds
    BY <2>1, KindForFact
  <2>3. /\ pc[t] = "instr" /\ UNCHANGED <<current_node, buffer>>
        /\ \A v \in Threads \ {t} : pc'[v] = pc[v]
    BY <1>26 DEF SetOwner, At, InstrFrame, Return
  <2>4. \A v \in Threads : buffer'[v] # {} => pc'[v] = "steal"
    BY <2>3
  <2> HIDE DEF n, new, k
  <2>5. CASE UNCHANGED <<queued, node_state, owner>>
    BY <2>3, <2>4, <2>5
  <2>6. CASE /\ node_state[n] \in Kinds /\ owner' = [owner EXCEPT ![n] = new]
             /\ PutIn(n, new, k)
    <3>1. \A v \in Threads : current_node[v] # n /\ n \notin buffer[v]
      BY <2>1, <2>6 DEF Kinds
    <3>2. owner'[n] = new /\ \A m \in Nodes \ {n} : owner'[m] = owner[m]
      BY <2>1, <2>6
    <3>3. \A v \in Threads :
            /\ current_node'[v] = IF current_node[v] = n THEN Nobody ELSE current_node[v]
            /\ buffer'[v] = buffer[v] \ {n}
            /\ buffer'[v] # {} => pc'[v] = "steal"
      BY <2>3, <2>4, <3>1
    <3> QED BY <2>1, <2>2, <2>6, <3>2, <3>3, PlacePut
  <2>7. CASE /\ node_state[n] \in {"idle", "stealing"}
             /\ owner' = [owner EXCEPT ![n] = new] /\ UNCHANGED <<queued, node_state>>
    <3>1. QueuedRight'
      BY <2>1, <2>7 DEF Kinds
    <3>2. RunRight' /\ StolenRight'
      BY <2>1, <2>3, <2>4, <2>7
    <3> QED BY <3>1, <3>2
  <2> QED BY <2>1, <2>5, <2>6, <2>7
<1>27. ASSUME NEW t \in Threads, RemoteUpdate(t) PROVE PlaceInv'
  <2>1. /\ UNCHANGED <<queued, node_state, owner, current_node, buffer>>
        /\ pc[t] # "steal" /\ \A v \in Threads \ {t} : pc'[v] = pc[v]
    BY <1>27 DEF RemoteUpdate
  <2> QED BY <2>1
<1>28. ASSUME NEW t \in Threads, RemoteUpdated(t) PROVE PlaceInv'
  <2>1. /\ UNCHANGED <<queued, node_state, owner, current_node, buffer>>
        /\ pc[t] # "steal" /\ \A v \in Threads \ {t} : pc'[v] = pc[v]
    BY <1>28 DEF RemoteUpdated
  <2> QED BY <2>1
<1>29. CASE UNCHANGED vars
  BY <1>29 DEF vars
<1> QED
  BY <1>1, <1>2, <1>3, <1>4, <1>5, <1>6, <1>7, <1>8, <1>9, <1>10, <1>11, <1>12,
     <1>13, <1>14, <1>15, <1>16, <1>17, <1>18, <1>19, <1>20, <1>21, <1>22, <1>23,
     <1>24, <1>25, <1>26, <1>27, <1>28, <1>29
     DEF Next, Step, Schedule, Run, Coordinate

-----------------------------------------------------------------------------
(* Locks.                                                                  *)

\* The marks after an instruction or a send on node n.
LEMMA QueueStepMarks ==
  ASSUME SchedInv, NEW n \in Nodes, QueueStep(n)
  PROVE  /\ \A m \in Nodes \ {n} : node_state'[m] = node_state[m]
         /\ \/ node_state'[n] = node_state[n]
            \/ node_state[n] \in Kinds \cup {"idle"} /\ node_state'[n] \in Kinds
<1>1. node_state \in [Nodes -> NodeStates]
  BY DEF SchedInv, WellTyped, NodeTypes
<1>2. ASSUME NEW j \in Kinds, PutIn(n, owner[n], j)
      PROVE  /\ \A m \in Nodes \ {n} : node_state'[m] = node_state[m]
             /\ node_state'[n] = j
  BY <1>1, <1>2 DEF PutIn
<1> QED BY <1>2 DEF QueueStep

\* At the start no lock is held.
LEMMA InitLocks == Init => LockInv
<1> SUFFICES ASSUME Init PROVE LockInv
  OBVIOUS
<1>1. MainLocks /\ InstrKnown
  BY DEF Init, MainLocks, InstrKnown
<1>2. MovePending /\ DatabaseLocks
  BY NobodyAssumption DEF Init, MovePending, MovesSettle, NewOwnerPending, DatabaseLocks
<1> QED BY <1>1, <1>2 DEF LockInv

\* A main lock is released only by its holder.
LEMMA StepMainLocks ==
  ASSUME SchedInv, [Next]_vars
  PROVE  MainLocks'
<1>0. /\ MainLocks /\ ControlTypes
      /\ pc \in [Threads -> Labels] /\ current_node \in [Threads -> Nodes \cup {Nobody}]
      /\ target \in [Threads -> Nodes \cup {Nobody}]
      /\ main_lock \in [Nodes -> Threads \cup {Nobody}]
      /\ back \in [Threads -> {"rules", "sync"}]
  BY DEF SchedInv, LockInv, WellTyped, NodeTypes, ThreadTypes
<1> USE <1>0, NobodyAssumption DEF MainLocks, ControlTypes, Goto, nodeVars, lockVars, localVars
<1>1. ASSUME NEW t \in Threads, PopPriority(t) PROVE MainLocks'
  BY <1>1 DEF PopPriority, TakeCurrent
<1>2. ASSUME NEW t \in Threads, NoPriority(t) PROVE MainLocks'
  BY <1>2 DEF NoPriority
<1>3. ASSUME NEW t \in Threads, PopQueue(t) PROVE MainLocks'
  BY <1>3 DEF PopQueue, TakeCurrent
<1>4. ASSUME NEW t \in Threads, NoQueued(t) PROVE MainLocks'
  BY <1>4 DEF NoQueued
<1>5. ASSUME NEW t \in Threads, PollAgain(t) PROVE MainLocks'
  BY <1>5 DEF PollAgain
<1>6. ASSUME NEW t \in Threads, StealNodes(t) PROVE MainLocks'
  BY <1>6 DEF StealNodes
<1>7. ASSUME NEW t \in Threads, StealTake(t) PROVE MainLocks'
  BY <1>7 DEF StealTake
<1>8. ASSUME NEW t \in Threads, StealEnd(t) PROVE MainLocks'
  BY <1>8 DEF StealEnd
<1>9. ASSUME NEW t \in Threads, RunLock(t) PROVE MainLocks'
  BY <1>9 DEF RunLock
<1>10. ASSUME NEW t \in Threads, RunTakeFacts(t) PROVE MainLocks'
  BY <1>10 DEF RunTakeFacts
<1>11. ASSUME NEW t \in Threads, RulesEnd(t) PROVE MainLocks'
  BY <1>11 DEF RulesEnd
<1>12. ASSUME NEW t \in Threads, SyncEnd(t) PROVE MainLocks'
  BY <1>12 DEF SyncEnd
<1>13. ASSUME NEW t \in Threads, SendLock(t) PROVE MainLocks'
  BY <1>13 DEF SendLock
<1>14. ASSUME NEW t \in Threads, SendFact(t) PROVE MainLocks'
  BY <1>14 DEF SendFact, At, Return, InstrFrame
<1>15. ASSUME NEW t \in Threads, CheckNode(t) PROVE MainLocks'
  BY <1>15 DEF CheckNode
<1>16. ASSUME NEW t \in Threads, LeaveLock(t) PROVE MainLocks'
  BY <1>16 DEF LeaveLock
<1>17. ASSUME NEW t \in Threads, Leave(t) PROVE MainLocks'
  BY <1>17 DEF Leave
<1>18. ASSUME NEW t \in Threads, Rest(t) PROVE MainLocks'
  BY <1>18 DEF Rest
<1>19. ASSUME NEW t \in Threads, InstrCurrent(t) PROVE MainLocks'
  BY <1>19 DEF InstrCurrent
<1>20. ASSUME NEW t \in Threads, InstrLock(t) PROVE MainLocks'
  BY <1>20 DEF InstrLock
<1>21. ASSUME NEW t \in Threads, SetPriority(t) PROVE MainLocks'
  BY <1>21 DEF SetPriority, At, Return, InstrFrame
<1>22. ASSUME NEW t \in Threads, ScheduleNext(t) PROVE MainLocks'
  BY <1>22 DEF ScheduleNext, At, Return, InstrFrame
<1>23. ASSUME NEW t \in Threads, RemovePriority(t) PROVE MainLocks'
  BY <1>23 DEF RemovePriority, At, Return, InstrFrame
<1>24. ASSUME NEW t \in Threads, SetStatic(t) PROVE MainLocks'
  BY <1>24 DEF SetStatic, At, Return, InstrFrame
<1>25. ASSUME NEW t \in Threads, SetMoving(t) PROVE MainLocks'
  BY <1>25 DEF SetMoving, At, Return, InstrFrame
<1>26. ASSUME NEW t \in Threads, SetOwner(t) PROVE MainLocks'
  BY <1>26 DEF SetOwner, At, Return, InstrFrame
<1>27. ASSUME NEW t \in Threads, RemoteUpdate(t) PROVE MainLocks'
  BY <1>27 DEF RemoteUpdate
<1>28. ASSUME NEW t \in Threads, RemoteUpdated(t) PROVE MainLocks'
  BY <1>28 DEF RemoteUpdated
<1>29. CASE UNCHANGED vars
  BY <1>29 DEF vars
<1> QED
  BY <1>1, <1>2, <1>3, <1>4, <1>5, <1>6, <1>7, <1>8, <1>9, <1>10, <1>11, <1>12,
     <1>13, <1>14, <1>15, <1>16, <1>17, <1>18, <1>19, <1>20, <1>21, <1>22, <1>23,
     <1>24, <1>25, <1>26, <1>27, <1>28, <1>29
     DEF Next, Step, Schedule, Run, Coordinate

\* Only the thread that runs the rules of a node holds its database lock.
LEMMA StepDatabaseLocks ==
  ASSUME SchedInv, [Next]_vars
  PROVE  DatabaseLocks'
<1>0. /\ DatabaseLocks /\ ControlTypes /\ MainLocks
      /\ pc \in [Threads -> Labels] /\ current_node \in [Threads -> Nodes \cup {Nobody}]
      /\ target \in [Threads -> Nodes \cup {Nobody}]
      /\ database_lock \in [Nodes -> Threads \cup {Nobody}]
      /\ back \in [Threads -> {"rules", "sync"}]
  BY DEF SchedInv, LockInv, WellTyped, NodeTypes, ThreadTypes
<1> USE <1>0, NobodyAssumption DEF DatabaseLocks, InRules, ControlTypes, Goto, nodeVars,
      lockVars, localVars
<1>1. ASSUME NEW t \in Threads, PopPriority(t) PROVE DatabaseLocks'
  BY <1>1 DEF PopPriority, TakeCurrent
<1>2. ASSUME NEW t \in Threads, NoPriority(t) PROVE DatabaseLocks'
  BY <1>2 DEF NoPriority
<1>3. ASSUME NEW t \in Threads, PopQueue(t) PROVE DatabaseLocks'
  BY <1>3 DEF PopQueue, TakeCurrent
<1>4. ASSUME NEW t \in Threads, NoQueued(t) PROVE DatabaseLocks'
  BY <1>4 DEF NoQueued
<1>5. ASSUME NEW t \in Threads, PollAgain(t) PROVE DatabaseLocks'
  BY <1>5 DEF PollAgain
<1>6. ASSUME NEW t \in Threads, StealNodes(t) PROVE DatabaseLocks'
  BY <1>6 DEF StealNodes
<1>7. ASSUME NEW t \in Threads, StealTake(t) PROVE DatabaseLocks'
  BY <1>7 DEF StealTake
<1>8. ASSUME NEW t \in Threads, StealEnd(t) PROVE DatabaseLocks'
  BY <1>8 DEF StealEnd
<1>9. ASSUME NEW t \in Threads, RunLock(t) PROVE DatabaseLocks'
  BY <1>9 DEF RunLock
<1>10. ASSUME NEW t \in Threads, RunTakeFacts(t) PROVE DatabaseLocks'
  BY <1>10 DEF RunTakeFacts
<1>11. ASSUME NEW t \in Threads, RulesEnd(t) PROVE DatabaseLocks'
  BY <1>11 DEF RulesEnd
<1>12. ASSUME NEW t \in Threads, SyncEnd(t) PROVE DatabaseLocks'
  BY <1>12 DEF SyncEnd
<1>13. ASSUME NEW t \in Threads, SendLock(t) PROVE DatabaseLocks'
  BY <1>13 DEF SendLock
<1>14. ASSUME NEW t \in Threads, SendFact(t) PROVE DatabaseLocks'
  BY <1>14 DEF SendFact, At, Return, InstrFrame
<1>15. ASSUME NEW t \in Threads, CheckNode(t) PROVE DatabaseLocks'
  BY <1>15 DEF CheckNode
<1>16. ASSUME NEW t \in Threads, LeaveLock(t) PROVE DatabaseLocks'
  BY <1>16 DEF LeaveLock
<1>17. ASSUME NEW t \in Threads, Leave(t) PROVE DatabaseLocks'
  BY <1>17 DEF Leave
<1>18. ASSUME NEW t \in Threads, Rest(t) PROVE DatabaseLocks'
  BY <1>18 DEF Rest
<1>19. ASSUME NEW t \in Threads, InstrCurrent(t) PROVE DatabaseLocks'
  BY <1>19 DEF InstrCurrent
<1>20. ASSUME NEW t \in Threads, InstrLock(t) PROVE DatabaseLocks'
  BY <1>20 DEF InstrLock
<1>21. ASSUME NEW t \in Threads, SetPriority(t) PROVE DatabaseLocks'
  BY <1>21 DEF SetPriority, At, Return, InstrFrame
<1>22. ASSUME NEW t \in Threads, ScheduleNext(t) PROVE DatabaseLocks'
  BY <1>22 DEF ScheduleNext, At, Return, InstrFrame
<1>23. ASSUME NEW t \in Threads, RemovePriority(t) PROVE DatabaseLocks'
  BY <1>23 DEF RemovePriority, At, Return, InstrFrame
<1>24. ASSUME NEW t \in Threads, SetStatic(t) PROVE DatabaseLocks'
  BY <1>24 DEF SetStatic, At, Return, InstrFrame
<1>25. ASSUME NEW t \in Threads, SetMoving(t) PROVE DatabaseLocks'
  BY <1>25 DEF SetMoving, At, Return, InstrFrame
<1>26. ASSUME NEW t \in Threads, SetOwner(t) PROVE DatabaseLocks'
  BY <1>26 DEF SetOwner, At, Return, InstrFrame
<1>27. ASSUME NEW t \in Threads, RemoteUpdate(t) PROVE DatabaseLocks'
  BY <1>27 DEF RemoteUpdate
<1>28. ASSUME NEW t \in Threads, RemoteUpdated(t) PROVE DatabaseLocks'
  BY <1>28 DEF RemoteUpdated
<1>29. CASE UNCHANGED vars
  BY <1>29 DEF vars
<1> QED
  BY <1>1, <1>2, <1>3, <1>4, <1>5, <1>6, <1>7, <1>8, <1>9, <1>10, <1>11, <1>12,
     <1>13, <1>14, <1>15, <1>16, <1>17, <1>18, <1>19, <1>20, <1>21, <1>22, <1>23,
     <1>24, <1>25, <1>26, <1>27, <1>28, <1>29
     DEF Next, Step, Schedule, Run, Coordinate

\* What an instruction knows of its node stays true while it holds the lock.
LEMMA StepInstr ==
  ASSUME SchedInv, OwnNodesMoved, [Next]_vars
  PROVE  InstrKnown'
<1>0. /\ InstrKnown /\ MainLocks /\ ControlTypes /\ QueuedRight
      /\ pc \in [Threads -> Labels] /\ current_node \in [Threads -> Nodes \cup {Nobody}]
      /\ target \in [Threads -> Nodes \cup {Nobody}]
      /\ instr \in [Threads -> InstrTypes]
      /\ owner \in [Nodes -> Threads] /\ node_state \in [Nodes -> NodeStates]
      /\ queued \in QueueTypes /\ back \in [Threads -> {"rules", "sync"}]
  BY DEF SchedInv, LockInv, PlaceInv, WellTyped, NodeTypes, ThreadTypes
<1> USE <1>0, NobodyAssumption DEF InstrKnown, Goto, nodeVars, lockVars, localVars
<1>1. ASSUME NEW t \in Threads, PopPriority(t) PROVE InstrKnown'
  <2>1. PICK k \in {"prio_moving", "prio_static"}, n \in Nodes :
          n \in queued[t][k] /\ TakeCurrent(t, k, n)
    BY <1>1 DEF PopPriority, Prios, QueueTypes, Kinds
  <2>2. node_state[n] \in Kinds
    BY <2>1 DEF Kinds, QueuedRight
  <2>3. \A m \in Nodes : \/ node_state'[m] = node_state[m]
                         \/ node_state[m] \in Kinds /\ node_state'[m] = "working"
    BY <2>1, <2>2 DEF TakeCurrent
  <2>4. /\ UNCHANGED <<owner, target, instr>> /\ pc[t] \in {"next", "popq"}
        /\ pc' = [pc EXCEPT ![t] = "got"]
    BY <1>1, <2>1 DEF PopPriority, TakeCurrent
  <2> QED BY <2>3, <2>4 DEF MainLocks, Kinds
<1>2. ASSUME NEW t \in Threads, NoPriority(t) PROVE InstrKnown'
  BY <1>2 DEF NoPriority
<1>3. ASSUME NEW t \in Threads, PopQueue(t) PROVE InstrKnown'
  <2>1. PICK k \in {"queue_moving", "queue_static"}, n \in Nodes :
          n \in queued[t][k] /\ TakeCurrent(t, k, n)
    BY <1>3 DEF PopQueue, Prios, QueueTypes, Kinds
  <2>2. node_state[n] \in Kinds
    BY <2>1 DEF Kinds, QueuedRight
  <2>3. \A m \in Nodes : \/ node_state'[m] = node_state[m]
                         \/ node_state[m] \in Kinds /\ node_state'[m] = "working"
    BY <2>1, <2>2 DEF TakeCurrent
  <2>4. /\ UNCHANGED <<owner, target, instr>> /\ pc[t] \in {"next", "popq"}
        /\ pc' = [pc EXCEPT ![t] = "got"]
    BY <1>3, <2>1 DEF PopQueue, TakeCurrent
  <2> QED BY <2>3, <2>4 DEF MainLocks, Kinds
<1>4. ASSUME NEW t \in Threads, NoQueued(t) PROVE InstrKnown'
  BY <1>4 DEF NoQueued
<1>5. ASSUME NEW t \in Threads, PollAgain(t) PROVE InstrKnown'
  BY <1>5 DEF PollAgain
<1>6. ASSUME NEW t \in Threads, StealNodes(t) PROVE InstrKnown'
  <2>1. PICK u \in Threads \ {t}, k \in {"queue_moving", "prio_moving"} : StealFrom(t, u, k)
    BY <1>6 DEF StealNodes
  <2>2. PICK S \in SUBSET queued[u][k] :
          node_state' = [n \in Nodes |-> IF n \in S THEN "stealing" ELSE node_state[n]]
    BY <2>1 DEF StealFrom
  <2>3. k \in Kinds /\ S \subseteq Nodes /\ \A m \in S : node_state[m] \in Kinds
    BY <2>1, <2>2 DEF Kinds, QueueTypes, QueuedRight
  <2>4. \A m \in Nodes : \/ node_state'[m] = node_state[m]
                         \/ node_state[m] \in Kinds /\ node_state'[m] = "stealing"
    BY <2>2, <2>3
  <2>5. UNCHANGED <<owner, target, instr>> /\ pc[t] = "wait" /\ pc' = [pc EXCEPT ![t] = "steal"]
    BY <1>6 DEF StealNodes
  <2> QED BY <2>4, <2>5 DEF MainLocks, Kinds
<1>7. ASSUME NEW t \in Threads, StealTake(t) PROVE InstrKnown'
  <2>1. PICK n \in buffer[t] : KeepStolen(t, n) /\ main_lock[n] = Nobody
    BY <1>7 DEF StealTake
  <2>2. /\ n \in Nodes /\ \E p \in 0 .. 1 : PutIn(n, owner'[n], KindFor(p, static_node'[n]))
        /\ \A m \in Nodes \ {n} : owner'[m] = owner[m]
    BY <2>1, StealEffect
  <2>3. \A m \in Nodes \ {n} : node_state'[m] = node_state[m]
    BY <2>2 DEF PutIn
  <2>4. \A u \in Threads : pc[u] = "instr" => target[u] # n /\ target[u] \in Nodes
    BY <2>1 DEF MainLocks
  <2>5. UNCHANGED <<target, instr, pc>>
    BY <1>7 DEF StealTake
  <2> QED BY <2>2, <2>3, <2>4, <2>5
<1>8. ASSUME NEW t \in Threads, StealEnd(t) PROVE InstrKnown'
  BY <1>8 DEF StealEnd
<1>9. ASSUME NEW t \in Threads, RunLock(t) PROVE InstrKnown'
  BY <1>9 DEF RunLock
<1>10. ASSUME NEW t \in Threads, RunTakeFacts(t) PROVE InstrKnown'
  BY <1>10 DEF RunTakeFacts
<1>11. ASSUME NEW t \in Threads, RulesEnd(t) PROVE InstrKnown'
  BY <1>11 DEF RulesEnd
<1>12. ASSUME NEW t \in Threads, SyncEnd(t) PROVE InstrKnown'
  BY <1>12 DEF SyncEnd
<1>13. ASSUME NEW t \in Threads, SendLock(t) PROVE InstrKnown'
  BY <1>13 DEF SendLock
<1>14. ASSUME NEW t \in Threads, SendFact(t) PROVE InstrKnown'
  <2>1. pc[t] = "send" /\ target[t] \in Nodes
    BY <1>14, TargetKnown DEF SendFact
  <2>2. \A m \in Nodes \ {target[t]} : node_state'[m] = node_state[m]
    BY <1>14, <2>1, SendEffect, QueueStepMarks
  <2>3. \A u \in Threads \ {t} : pc[u] = "instr" => target[u] # target[t] /\ target[u] \in Nodes
    BY <2>1 DEF MainLocks
  <2>4. /\ owner' = owner /\ pc'[t] # "instr"
        /\ \A u \in Threads \ {t} : /\ pc'[u] = pc[u] /\ target'[u] = target[u]
                                     /\ instr'[u] = instr[u]
    BY <1>14 DEF SendFact, Return
  <2> QED BY <2>2, <2>3, <2>4
<1>15. ASSUME NEW t \in Threads, CheckNode(t) PROVE InstrKnown'
  BY <1>15 DEF CheckNode
<1>16. ASSUME NEW t \in Threads, LeaveLock(t) PROVE InstrKnown'
  BY <1>16 DEF LeaveLock
<1>17. ASSUME NEW t \in Threads, Leave(t) PROVE InstrKnown'
  <2>1. pc[t] = "leaving" /\ current_node[t] \in Nodes
    BY <1>17, LeaveEffect DEF Leave
  <2>2. /\ pc' = [pc EXCEPT ![t] = "next"]
        /\ \A m \in Nodes \ {current_node[t]} : node_state'[m] = node_state[m]
                                              /\ owner'[m] = owner[m]
    BY <1>17, <2>1, LeaveEffect DEF PutIn
  <2>3. \A u \in Threads \ {t} : pc[u] = "instr" => target[u] # current_node[t]
                                                 /\ target[u] \in Nodes
    BY <2>1 DEF MainLocks
  <2>4. UNCHANGED <<target, instr>>
    BY <1>17 DEF Leave
  <2> QED BY <2>2, <2>3, <2>4
<1>18. ASSUME NEW t \in Threads, Rest(t) PROVE InstrKnown'
  <2>1. pc[t] = "rest" /\ current_node[t] \in Nodes /\ main_lock[current_node[t]] = Nobody
    BY <1>18 DEF Rest, ControlTypes
  <2>2. /\ \A m \in Nodes \ {current_node[t]} : node_state'[m] = node_state[m]
        /\ UNCHANGED <<owner, target, instr>> /\ pc'[t] # "instr"
        /\ \A u \in Threads \ {t} : pc'[u] = pc[u]
    BY <1>18 DEF Rest
  <2>3. \A u \in Threads \ {t} : pc[u] = "instr" => target[u] # current_node[t]
                                                 /\ target[u] \in Nodes
    BY <2>1 DEF MainLocks
  <2> QED BY <2>2, <2>3
<1>19. ASSUME NEW t \in Threads, InstrCurrent(t) PROVE InstrKnown'
  BY <1>19 DEF InstrCurrent
<1>20. ASSUME NEW t \in Threads, InstrLock(t) PROVE InstrKnown'
  <2>1. PICK n \in Nodes, op \in Ops, u \in Threads :
          /\ op \in Foreign \/ owner[n] = t
          /\ target' = [target EXCEPT ![t] = n]
          /\ instr' = [instr EXCEPT ![t] = [op |-> op, state |-> node_state[n], new |-> u]]
    <3> HIDE <1>0
    <3> QED BY <1>20 DEF InstrLock
  <2>2. target'[t] = n /\ instr'[t] = [op |-> op, state |-> node_state[n], new |-> u]
    BY <2>1
  <2>3. /\ UNCHANGED <<owner, node_state>>
        /\ \A v \in Threads \ {t} : /\ pc'[v] = pc[v] /\ target'[v] = target[v]
                                     /\ instr'[v] = instr[v]
    BY <1>20, <2>1 DEF InstrLock
  <2> QED BY <2>1, <2>2, <2>3
<1>21. ASSUME NEW t \in Threads, SetPriority(t) PROVE InstrKnown'
  <2>1. pc[t] = "instr" /\ target[t] \in Nodes
    BY <1>21, TargetKnown DEF SetPriority, At
  <2>2. \A m \in Nodes \ {target[t]} : node_state'[m] = node_state[m]
    BY <1>21, <2>1, InstrEffect, QueueStepMarks
  <2>3. \A u \in Threads \ {t} : pc[u] = "instr" => target[u] # target[t] /\ target[u] \in Nodes
    BY <2>1 DEF MainLocks
  <2>4. /\ owner' = owner /\ pc'[t] # "instr"
        /\ \A u \in Threads \ {t} : /\ pc'[u] = pc[u] /\ target'[u] = target[u]
                                     /\ instr'[u] = instr[u]
    BY <1>21 DEF SetPriority, Return
  <2> QED BY <2>2, <2>3, <2>4
<1>22. ASSUME NEW t \in Threads, ScheduleNext(t) PROVE InstrKnown'
  <2>1. pc[t] = "instr" /\ target[t] \in Nodes
    BY <1>22, TargetKnown DEF ScheduleNext, At
  <2>2. \A m \in Nodes \ {target[t]} : node_state'[m] = node_state[m]
    BY <1>22, <2>1, InstrEffect, QueueStepMarks
  <2>3. \A u \in Threads \ {t} : pc[u] = "instr" => target[u] # target[t] /\ target[u] \in Nodes
    BY <2>1 DEF MainLocks
  <2>4. /\ owner' = owner /\ pc'[t] # "instr"
        /\ \A u \in Threads \ {t} : /\ pc'[u] = pc[u] /\ target'[u] = target[u]
                                     /\ instr'[u] = instr[u]
    BY <1>22 DEF ScheduleNext, Return
  <2> QED BY <2>2, <2>3, <2>4
<1>23. ASSUME NEW t \in Threads, RemovePriority(t) PROVE InstrKnown'
  <2>1. pc[t] = "instr" /\ target[t] \in Nodes
    BY <1>23, TargetKnown DEF RemovePriority, At
  <2>2. \A m \in Nodes \ {target[t]} : node_state'[m] = node_state[m]
    BY <1>23, <2>1, InstrEffect, QueueStepMarks
  <2>3. \A u \in Threads \ {t} : pc[u] = "instr" => target[u] # target[t] /\ target[u] \in Nodes
    BY <2>1 DEF MainLocks
  <2>4. /\ owner' = owner /\ pc'[t] # "instr"
        /\ \A u \in Threads \ {t} : /\ pc'[u] = pc[u] /\ target'[u] = target[u]
                                     /\ instr'[u] = instr[u]
    BY <1>23 DEF RemovePriority, Return
  <2> QED BY <2>2, <2>3, <2>4
<1>24. ASSUME NEW t \in Threads, SetStatic(t) PROVE InstrKnown'
  <2>1. pc[t] = "instr" /\ target[t] \in Nodes
    BY <1>24, TargetKnown DEF SetStatic, At
  <2>2. \A m \in Nodes \ {target[t]} : node_state'[m] = node_state[m]
    BY <1>24, <2>1, InstrEffect, QueueStepMarks
  <2>3. \A u \in Threads \ {t} : pc[u] = "instr" => target[u] # target[t] /\ target[u] \in Nodes
    BY <2>1 DEF MainLocks
  <2>4. /\ owner' = owner /\ pc'[t] # "instr"
        /\ \A u \in Threads \ {t} : /\ pc'[u] = pc[u] /\ target'[u] = target[u]
                                     /\ instr'[u] = instr[u]
    BY <1>24 DEF SetStatic, Return
  <2> QED BY <2>2, <2>3, <2>4
<1>25. ASSUME NEW t \in Threads, SetMoving(t) PROVE InstrKnown'
  <2>1. pc[t] = "instr" /\ target[t] \in Nodes
    BY <1>25, TargetKnown DEF SetMoving, At
  <2>2. \A m \in Nodes \ {target[t]} : node_state'[m] = node_state[m]
    BY <1>25, <2>1, InstrEffect, QueueStepMarks
  <2>3. \A u \in Threads \ {t} : pc[u] = "instr" => target[u] # target[t] /\ target[u] \in Nodes
    BY <2>1 DEF MainLocks
  <2>4. /\ owner' = owner /\ pc'[t] # "instr"
        /\ \A u \in Threads \ {t} : /\ pc'[u] = pc[u] /\ target'[u] = target[u]
                                     /\ instr'[u] = instr[u]
    BY <1>25 DEF SetMoving, Return
  <2> QED BY <2>2, <2>3, <2>4
<1>26. ASSUME NEW t \in Threads, SetOwner(t) PROVE InstrKnown'
  <2>1. pc[t] = "instr" /\ target[t] \in Nodes
    BY <1>26, TargetKnown DEF SetOwner, At
  <2>2. \A m \in Nodes \ {target[t]} : node_state'[m] = node_state[m] /\ owner'[m] = owner[m]
    BY <1>26, <2>1, OwnerEffect DEF PutIn
  <2>3. \A u \in Threads \ {t} : pc[u] = "instr" => target[u] # target[t] /\ target[u] \in Nodes
    BY <2>1 DEF MainLocks
  <2>4. /\ pc'[t] # "instr"
        /\ \A u \in Threads \ {t} : /\ pc'[u] = pc[u] /\ target'[u] = target[u]
                                     /\ instr'[u] = instr[u]
    BY <1>26 DEF SetOwner, Return
  <2> QED BY <2>2, <2>3, <2>4
<1>27. ASSUME NEW t \in Threads, RemoteUpdate(t) PROVE InstrKnown'
  BY <1>27 DEF RemoteUpdate
<1>28. ASSUME NEW t \in Threads, RemoteUpdated(t) PROVE InstrKnown'
  BY <1>28 DEF RemoteUpdated
<1>29. CASE UNCHANGED vars
  BY <1>29 DEF vars
<1> QED
  BY <1>1, <1>2, <1>3, <1>4, <1>5, <1>6, <1>7, <1>8, <1>9, <1>10, <1>11, <1>12,
     <1>13, <1>14, <1>15, <1>16, <1>17, <1>18, <1>19, <1>20, <1>21, <1>22, <1>23,
     <1>24, <1>25, <1>26, <1>27, <1>28, <1>29
     DEF Next, Step, Schedule, Run, Coordinate

\* A pending change of owner stays with the thread that runs the node: a step of
\* thread t that changes the owner or the static mark of one node.
LEMMA PendingMoved ==
  ASSUME SchedInv, NEW t \in Threads, NEW n \in Nodes,
         \A m \in Nodes \ {n} :
           /\ owner'[m] = owner[m] /\ static_node'[m] = static_node[m]
           /\ node_state[m] = "working" => node_state'[m] = "working",
         static_node'[n] # Nobody /\ owner'[n] # static_node'[n] => node_state'[n] = "working",
         \A u \in Threads \ {t} :
           /\ current_node[u] # n /\ current_node'[u] = current_node[u] /\ pc'[u] = pc[u],
         pc'[t] \notin {"leave", "leaving", "rest"}
  PROVE  MovePending'
<1>0. /\ MovesSettle /\ ControlTypes
      /\ current_node \in [Threads -> Nodes \cup {Nobody}]
      /\ \A u \in Threads :
           /\ pc[u] \in {"leave", "leaving"} => NewOwnerPending(current_node[u])
           /\ pc[u] = "rest" => ~ NewOwnerPending(current_node[u])
  BY DEF SchedInv, LockInv, MovePending, WellTyped, ThreadTypes
<1>1. MovesSettle'
  BY <1>0 DEF MovesSettle, NewOwnerPending
<1>2. ASSUME NEW u \in Threads, pc'[u] \in {"leave", "leaving", "rest"}
      PROVE  /\ pc'[u] = pc[u] /\ current_node'[u] = current_node[u]
             /\ NewOwnerPending(current_node[u])' <=> NewOwnerPending(current_node[u])
  <2>1. u # t
    BY <1>2
  <2>2. current_node[u] \in Nodes \ {n} /\ pc'[u] = pc[u] /\ current_node'[u] = current_node[u]
    BY <1>0, <1>2, <2>1 DEF ControlTypes
  <2> QED BY <2>2 DEF NewOwnerPending
<1> QED BY <1>0, <1>1, <1>2 DEF MovePending

\* A pending change of owner stays with the thread that runs the node.
LEMMA StepPending ==
  ASSUME SchedInv, OwnNodesMoved, [Next]_vars
  PROVE  MovePending'
<1>0. /\ MovePending /\ InstrKnown /\ MainLocks /\ ControlTypes /\ QueuedRight /\ RunRight
      /\ pc \in [Threads -> Labels] /\ current_node \in [Threads -> Nodes \cup {Nobody}]
      /\ target \in [Threads -> Nodes \cup {Nobody}] /\ priority \in [Nodes -> 0 .. 1]
      /\ instr \in [Threads -> InstrTypes] /\ static_node \in [Nodes -> Threads \cup {Nobody}]
      /\ owner \in [Nodes -> Threads] /\ node_state \in [Nodes -> NodeStates]
      /\ queued \in QueueTypes /\ back \in [Threads -> {"rules", "sync"}]
  BY DEF SchedInv, LockInv, PlaceInv, WellTyped, NodeTypes, ThreadTypes
<1> USE <1>0, NobodyAssumption DEF MovePending, MovesSettle, NewOwnerPending, Goto,
      nodeVars, lockVars, localVars
<1>1. ASSUME NEW t \in Threads, PopPriority(t) PROVE MovePending'
  <2>1. PICK k \in {"prio_moving", "prio_static"}, n \in Nodes :
          n \in queued[t][k] /\ TakeCurrent(t, k, n)
    BY <1>1 DEF PopPriority, Prios, QueueTypes, Kinds
  <2>2. \A m \in Nodes : node_state[m] = "working" => node_state'[m] = "working"
    BY <2>1 DEF TakeCurrent
  <2>3. /\ UNCHANGED <<owner, static_node>> /\ pc' = [pc EXCEPT ![t] = "got"]
        /\ \A u \in Threads \ {t} : current_node'[u] = current_node[u]
    BY <1>1, <2>1 DEF PopPriority, TakeCurrent
  <2> QED BY <2>2, <2>3
<1>2. ASSUME NEW t \in Threads, NoPriority(t) PROVE MovePending'
  BY <1>2 DEF NoPriority
<1>3. ASSUME NEW t \in Threads, PopQueue(t) PROVE MovePending'
  <2>1. PICK k \in {"queue_moving", "queue_static"}, n \in Nodes :
          n \in queued[t][k] /\ TakeCurrent(t, k, n)
    BY <1>3 DEF PopQueue, Prios, QueueTypes, Kinds
  <2>2. \A m \in Nodes : node_state[m] = "working" => node_state'[m] = "working"
    BY <2>1 DEF TakeCurrent
  <2>3. /\ UNCHANGED <<owner, static_node>> /\ pc' = [pc EXCEPT ![t] = "got"]
        /\ \A u \in Threads \ {t} : current_node'[u] = current_node[u]
    BY <1>3, <2>1 DEF PopQueue, TakeCurrent
  <2> QED BY <2>2, <2>3
<1>4. ASSUME NEW t \in Threads, NoQueued(t) PROVE MovePending'
  BY <1>4 DEF NoQueued
<1>5. ASSUME NEW t \in Threads, PollAgain(t) PROVE MovePending'
  BY <1>5 DEF PollAgain
<1>6. ASSUME NEW t \in Threads, StealNodes(t) PROVE MovePending'
  <2>1. PICK u \in Threads \ {t}, k \in {"queue_moving", "prio_moving"} : StealFrom(t, u, k)
    BY <1>6 DEF StealNodes
  <2>2. PICK S \in SUBSET queued[u][k] :
          node_state' = [n \in Nodes |-> IF n \in S THEN "stealing" ELSE node_state[n]]
    BY <2>1 DEF StealFrom
  <2>3. k \in Kinds /\ S \subseteq Nodes /\ \A m \in S : node_state[m] \in Kinds
    BY <2>1, <2>2 DEF Kinds, QueueTypes, QueuedRight
  <2>4. \A m \in Nodes : node_state[m] = "working" => node_state'[m] = "working"
    BY <2>2, <2>3 DEF Kinds
  <2>5. UNCHANGED <<owner, static_node, current_node>> /\ pc' = [pc EXCEPT ![t] = "steal"]
    BY <1>6 DEF StealNodes
  <2> QED BY <2>4, <2>5
<1>7. ASSUME NEW t \in Threads, StealTake(t) PROVE MovePending'
  <2>1. PICK n \in buffer[t] : KeepStolen(t, n)
    BY <1>7 DEF StealTake
  <2>2. /\ n \in Nodes /\ \E p \in 0 .. 1 : PutIn(n, owner'[n], KindFor(p, static_node'[n]))
        /\ \A m \in Nodes \ {n} : owner'[m] = owner[m] /\ static_node'[m] = static_node[m]
        /\ static_node'[n] \in {Nobody, owner'[n]} /\ node_state[n] = "stealing"
    BY <2>1, StealEffect
  <2>3. \A m \in Nodes \ {n} : node_state'[m] = node_state[m]
    BY <2>2 DEF PutIn
  <2>4. \A u \in Threads : current_node[u] # n
    BY <2>2 DEF RunRight
  <2>5. UNCHANGED <<pc, current_node>>
    BY <1>7 DEF StealTake
  <2>6. pc[t] = "steal"
    BY <1>7 DEF StealTake
  <2> QED BY <2>2, <2>3, <2>4, <2>5, <2>6, PendingMoved
<1>8. ASSUME NEW t \in Threads, StealEnd(t) PROVE MovePending'
  BY <1>8 DEF StealEnd
<1>9. ASSUME NEW t \in Threads, RunLock(t) PROVE MovePending'
  BY <1>9 DEF RunLock
<1>10. ASSUME NEW t \in Threads, RunTakeFacts(t) PROVE MovePending'
  BY <1>10 DEF RunTakeFacts
<1>11. ASSUME NEW t \in Threads, RulesEnd(t) PROVE MovePending'
  BY <1>11 DEF RulesEnd
<1>12. ASSUME NEW t \in Threads, SyncEnd(t) PROVE MovePending'
  BY <1>12 DEF SyncEnd
<1>13. ASSUME NEW t \in Threads, SendLock(t) PROVE MovePending'
  BY <1>13 DEF SendLock
<1>14. ASSUME NEW t \in Threads, SendFact(t) PROVE MovePending'
  <2>1. pc[t] = "send" /\ target[t] \in Nodes
    BY <1>14, TargetKnown DEF SendFact
  <2>2. \A m \in Nodes : node_state[m] = "working" => node_state'[m] = "working"
    BY <1>14, <2>1, SendEffect, QueueStepMarks DEF Kinds
  <2>3. /\ UNCHANGED <<owner, static_node, current_node>>
        /\ pc'[t] \notin {"leave", "leaving", "rest"}
        /\ \A u \in Threads \ {t} : pc'[u] = pc[u]
    BY <1>14 DEF SendFact, Return
  <2> QED BY <2>2, <2>3
<1>15. ASSUME NEW t \in Threads, CheckNode(t) PROVE MovePending'
  BY <1>15 DEF CheckNode
<1>16. ASSUME NEW t \in Threads, LeaveLock(t) PROVE MovePending'
  BY <1>16 DEF LeaveLock
<1>17. ASSUME NEW t \in Threads, Leave(t) PROVE MovePending'
  <2> DEFINE n == current_node[t]
             new == static_node[n]
  <2>1. /\ n \in Nodes /\ new \in Threads
        /\ owner' = [owner EXCEPT ![n] = new]
        /\ \A m \in Nodes \ {n} : node_state'[m] = node_state[m]
        /\ current_node' = [current_node EXCEPT ![t] = Nobody]
        /\ pc' = [pc EXCEPT ![t] = "next"]
    BY <1>17, LeaveEffect DEF PutIn
  <2>2. static_node' = static_node
    BY <1>17 DEF Leave
  <2>3. \A u \in Threads \ {t} : current_node[u] # n
    BY <2>1 DEF RunRight
  <2>4. /\ owner'[n] = static_node'[n]
        /\ \A m \in Nodes \ {n} : owner'[m] = owner[m] /\ static_node'[m] = static_node[m]
    BY <2>1, <2>2
  <2>5. pc'[t] = "next" /\ \A u \in Threads \ {t} : /\ current_node'[u] = current_node[u]
                                                  /\ pc'[u] = pc[u]
    BY <2>1
  <2> HIDE DEF n, new
  <2> QED BY <2>1, <2>3, <2>4, <2>5, PendingMoved
<1>18. ASSUME NEW t \in Threads, Rest(t) PROVE MovePending'
  <2> DEFINE n == current_node[t]
  <2>1. pc[t] = "rest" /\ n \in Nodes /\ UNCHANGED <<owner, static_node>>
    BY <1>18 DEF Rest, ControlTypes
  <2>2. \A m \in Nodes : node_state[m] = "working" => m = n \/ node_state'[m] = "working"
    BY <1>18, <2>1 DEF Rest
  <2>3. \A u \in Threads \ {t} : pc'[u] = pc[u] /\ current_node'[u] = current_node[u]
    BY <1>18 DEF Rest
  <2>4. pc'[t] \notin {"leave", "leaving", "rest"}
    BY <1>18 DEF Rest
  <2>5. ~ NewOwnerPending(n) /\ \A u \in Threads \ {t} : current_node[u] # n
    BY <2>1 DEF RunRight
  <2> HIDE DEF n
  <2> QED BY <2>1, <2>2, <2>3, <2>4, <2>5, PendingMoved
<1>19. ASSUME NEW t \in Threads, InstrCurrent(t) PROVE MovePending'
  <2> DEFINE n == current_node[t]
  <2>1. /\ n \in Nodes /\ node_state[n] = "working" /\ pc[t] = "rules"
        /\ \A u \in Threads \ {t} : current_node[u] # n
    BY <1>19 DEF InstrCurrent, ControlTypes, RunRight
  <2>2. /\ UNCHANGED <<owner, node_state, current_node, pc>>
        /\ \A m \in Nodes \ {n} : static_node'[m] = static_node[m]
    BY <1>19 DEF InstrCurrent
  <2> HIDE DEF n
  <2> QED BY <2>1, <2>2, PendingMoved
<1>20. ASSUME NEW t \in Threads, InstrLock(t) PROVE MovePending'
  BY <1>20 DEF InstrLock
<1>21. ASSUME NEW t \in Threads, SetPriority(t) PROVE MovePending'
  <2>1. pc[t] = "instr" /\ target[t] \in Nodes
    BY <1>21, TargetKnown DEF SetPriority, At
  <2>2. \A m \in Nodes : node_state[m] = "working" => node_state'[m] = "working"
    BY <1>21, <2>1, InstrEffect, QueueStepMarks DEF Kinds
  <2>3. /\ UNCHANGED <<owner, static_node, current_node>>
        /\ pc'[t] \notin {"leave", "leaving", "rest"}
        /\ \A u \in Threads \ {t} : pc'[u] = pc[u]
    BY <1>21 DEF SetPriority, Return, InstrFrame
  <2> QED BY <2>2, <2>3
<1>22. ASSUME NEW t \in Threads, ScheduleNext(t) PROVE MovePending'
  <2>1. pc[t] = "instr" /\ target[t] \in Nodes
    BY <1>22, TargetKnown DEF ScheduleNext, At
  <2>2. \A m \in Nodes : node_state[m] = "working" => node_state'[m] = "working"
    BY <1>22, <2>1, InstrEffect, QueueStepMarks DEF Kinds
  <2>3. /\ UNCHANGED <<owner, static_node, current_node>>
        /\ pc'[t] \notin {"leave", "leaving", "rest"}
        /\ \A u \in Threads \ {t} : pc'[u] = pc[u]
    BY <1>22 DEF ScheduleNext, Return, InstrFrame
  <2> QED BY <2>2, <2>3
<1>23. ASSUME NEW t \in Threads, RemovePriority(t) PROVE MovePending'
  <2>1. pc[t] = "instr" /\ target[t] \in Nodes
    BY <1>23, TargetKnown DEF RemovePriority, At
  <2>2. \A m \in Nodes : node_state[m] = "working" => node_state'[m] = "working"
    BY <1>23, <2>1, InstrEffect, QueueStepMarks DEF Kinds
  <2>3. /\ UNCHANGED <<owner, static_node, current_node>>
        /\ pc'[t] \notin {"leave", "leaving", "rest"}
        /\ \A u \in Threads \ {t} : pc'[u] = pc[u]
    BY <1>23 DEF RemovePriority, Return, InstrFrame
  <2> QED BY <2>2, <2>3
<1>24. ASSUME NEW t \in Threads, SetStatic(t) PROVE MovePending'
  <2>1. pc[t] = "instr" /\ target[t] \in Nodes /\ instr[t].op \notin Foreign
    BY <1>24, TargetKnown DEF SetStatic, At, OwnNodesMoved
  <2>2. \A m \in Nodes : node_state[m] = "working" => node_state'[m] = "working"
    BY <1>24, <2>1, InstrEffect, QueueStepMarks DEF Kinds
  <2>3. owner[target[t]] = t /\ \A u \in Threads : current_node[u] # target[t]
    BY <2>1 DEF InstrKnown, MainLocks, RunRight
  <2>4. /\ UNCHANGED <<owner, current_node>>
        /\ pc'[t] \notin {"leave", "leaving", "rest"}
        /\ \A u \in Threads \ {t} : pc'[u] = pc[u]
    BY <1>24 DEF SetStatic, Return, InstrFrame
  <2>5. /\ \A m \in Nodes \ {target[t]} : static_node'[m] = static_node[m]
        /\ static_node'[target[t]] \in {static_node[target[t]], Nobody, t}
    BY <1>24, <2>1 DEF SetStatic
  <2>6. static_node'[target[t]] # Nobody /\ owner'[target[t]] # static_node'[target[t]]
          => node_state'[target[t]] = "working"
    BY <2>1, <2>2, <2>3, <2>4, <2>5
  <2> QED BY <2>1, <2>2, <2>3, <2>4, <2>5, <2>6, PendingMoved
<1>25. ASSUME NEW t \in Threads, SetMoving(t) PROVE MovePending'
  <2>1. pc[t] = "instr" /\ target[t] \in Nodes /\ instr[t].op \notin Foreign
    BY <1>25, TargetKnown DEF SetMoving, At, OwnNodesMoved
  <2>2. \A m \in Nodes : node_state[m] = "working" => node_state'[m] = "working"
    BY <1>25, <2>1, InstrEffect, QueueStepMarks DEF Kinds
  <2>3. owner[target[t]] = t /\ \A u \in Threads : current_node[u] # target[t]
    BY <2>1 DEF InstrKnown, MainLocks, RunRight
  <2>4. /\ UNCHANGED <<owner, current_node>>
        /\ pc'[t] \notin {"leave", "leaving", "rest"}
        /\ \A u \in Threads \ {t} : pc'[u] = pc[u]
    BY <1>25 DEF SetMoving, Return, InstrFrame
  <2>5. /\ \A m \in Nodes \ {target[t]} : static_node'[m] = static_node[m]
        /\ static_node'[target[t]] \in {static_node[target[t]], Nobody, t}
    BY <1>25, <2>1 DEF SetMoving
  <2>6. static_node'[target[t]] # Nobody /\ owner'[target[t]] # static_node'[target[t]]
          => node_state'[target[t]] = "working"
    BY <2>1, <2>2, <2>3, <2>4, <2>5
  <2> QED BY <2>1, <2>2, <2>3, <2>4, <2>5, <2>6, PendingMoved
<1>26. ASSUME NEW t \in Threads, SetOwner(t) PROVE MovePending'
  <2> DEFINE n == target[t]
             new == instr[t].new
  <2>1. pc[t] = "instr" /\ n \in Nodes
    BY <1>26, TargetKnown DEF SetOwner, At
  <2>2. /\ new \in Threads /\ owner[n] = t
        /\ static_node' = [static_node EXCEPT ![n] = new]
        /\ owner' = owner \/ owner' = [owner EXCEPT ![n] = new]
        /\ owner' = owner => node_state[n] = "working" \/ owner[n] = new
        /\ node_state' = node_state \/ (node_state[n] \in Kinds /\ \E k \in Kinds : node_state' = [node_state EXCEPT ![n] = k])
    <3>1. KindFor(priority[n], instr[t].new) \in Kinds
      BY <2>1, KindForFact
    <3> QED BY <1>26, <3>1, OwnerEffect DEF PutIn
  <2>3. \A u \in Threads : current_node[u] # n
    BY <2>1, <2>2 DEF MainLocks, RunRight
  <2>4. node_state[n] # "working"
    BY <2>1, <2>2, <2>3 DEF RunRight
  <2>5. \A m \in Nodes : node_state[m] = "working" => node_state'[m] = "working"
    BY <2>1, <2>2, <2>4
  <2>6. /\ current_node' = current_node
        /\ pc'[t] \notin {"leave", "leaving", "rest"}
        /\ \A u \in Threads \ {t} : pc'[u] = pc[u]
    BY <1>26 DEF SetOwner, Return, InstrFrame
  <2>7. owner'[n] = new /\ static_node'[n] = new
    BY <2>1, <2>2, <2>4
  <2>8. \A m \in Nodes \ {n} : owner'[m] = owner[m] /\ static_node'[m] = static_node[m]
    BY <2>1, <2>2
  <2> HIDE DEF n, new
  <2> QED BY <2>1, <2>3, <2>5, <2>6, <2>7, <2>8, PendingMoved
<1>27. ASSUME NEW t \in Threads, RemoteUpdate(t) PROVE MovePending'
  BY <1>27 DEF RemoteUpdate
<1>28. ASSUME NEW t \in Threads, RemoteUpdated(t) PROVE MovePending'
  BY <1>28 DEF RemoteUpdated
<1>29. CASE UNCHANGED vars
  BY <1>29 DEF vars
<1> QED
  BY <1>1, <1>2, <1>3, <1>4, <1>5, <1>6, <1>7, <1>8, <1>9, <1>10, <1>11, <1>12,
     <1>13, <1>14, <1>15, <1>16, <1>17, <1>18, <1>19, <1>20, <1>21, <1>22, <1>23,
     <1>24, <1>25, <1>26, <1>27, <1>28, <1>29
     DEF Next, Step, Schedule, Run, Coordinate

\* No step puts a node with facts to rest, or gives facts to a node at rest.
LEMMA StepFacts ==
  ASSUME SchedInv, OwnNodesMoved, [Next]_vars
  PROVE  NoFactStranded'
<1>0. /\ NoFactStranded /\ ControlTypes /\ RunRight
      /\ pc \in [Threads -> Labels] /\ current_node \in [Threads -> Nodes \cup {Nobody}]
      /\ unprocessed \in [Nodes -> BOOLEAN] /\ priority \in [Nodes -> 0 .. 1]
      /\ owner \in [Nodes -> Threads] /\ node_state \in [Nodes -> NodeStates]
  BY DEF SchedInv, LockInv, PlaceInv, WellTyped, NodeTypes, ThreadTypes
<1> USE <1>0, NobodyAssumption DEF NoFactStranded, Goto, nodeVars, lockVars, localVars
<1>1. ASSUME NEW t \in Threads, PopPriority(t) PROVE NoFactStranded'
  BY <1>1 DEF PopPriority, TakeCurrent
<1>2. ASSUME NEW t \in Threads, NoPriority(t) PROVE NoFactStranded'
  BY <1>2 DEF NoPriority
<1>3. ASSUME NEW t \in Threads, PopQueue(t) PROVE NoFactStranded'
  BY <1>3 DEF PopQueue, TakeCurrent
<1>4. ASSUME NEW t \in Threads, NoQueued(t) PROVE NoFactStranded'
  BY <1>4 DEF NoQueued
<1>5. ASSUME NEW t \in Threads, PollAgain(t) PROVE NoFactStranded'
  BY <1>5 DEF PollAgain
<1>6. ASSUME NEW t \in Threads, StealNodes(t) PROVE NoFactStranded'
  <2>1. PICK u \in Threads \ {t}, k \in {"queue_moving", "prio_moving"} : StealFrom(t, u, k)
    BY <1>6 DEF StealNodes
  <2>2. \A m \in Nodes : node_state'[m] = "idle" => node_state[m] = "idle"
    BY <2>1 DEF StealFrom
  <2> QED BY <1>6, <2>2 DEF StealNodes
<1>7. ASSUME NEW t \in Threads, StealTake(t) PROVE NoFactStranded'
  <2>1. PICK n \in buffer[t] : KeepStolen(t, n)
    BY <1>7 DEF StealTake
  <2>2. n \in Nodes /\ \E p \in 0 .. 1 : PutIn(n, owner'[n], KindFor(p, static_node'[n]))
    BY <2>1, StealEffect
  <2>3. \A m \in Nodes : node_state'[m] = "idle" => node_state[m] = "idle"
    BY <2>2, KindForFact DEF PutIn, Kinds
  <2> QED BY <1>7, <2>3 DEF StealTake
<1>8. ASSUME NEW t \in Threads, StealEnd(t) PROVE NoFactStranded'
  BY <1>8 DEF StealEnd
<1>9. ASSUME NEW t \in Threads, RunLock(t) PROVE NoFactStranded'
  BY <1>9 DEF RunLock
<1>10. ASSUME NEW t \in Threads, RunTakeFacts(t) PROVE NoFactStranded'
  BY <1>10 DEF RunTakeFacts
<1>11. ASSUME NEW t \in Threads, RulesEnd(t) PROVE NoFactStranded'
  <2>1. node_state[current_node[t]] = "working" /\ node_state' = node_state
    BY <1>11 DEF RulesEnd, ControlTypes, RunRight
  <2>2. \A m \in Nodes \ {current_node[t]} : unprocessed'[m] = unprocessed[m]
    BY <1>11 DEF RulesEnd
  <2> QED BY <2>1, <2>2
<1>12. ASSUME NEW t \in Threads, SyncEnd(t) PROVE NoFactStranded'
  BY <1>12 DEF SyncEnd
<1>13. ASSUME NEW t \in Threads, SendLock(t) PROVE NoFactStranded'
  BY <1>13 DEF SendLock
<1>14. ASSUME NEW t \in Threads, SendFact(t) PROVE NoFactStranded'
  <2>1. target[t] \in Nodes
    BY <1>14, TargetKnown DEF SendFact
  <2>2. \A m \in Nodes : node_state'[m] = "idle" => node_state[m] = "idle"
    BY <1>14, <2>1, SendEffect, QueueStepMarks DEF Kinds
  <2>3. node_state'[target[t]] # "idle"
    BY <1>14, SendEffect
  <2>4. \A m \in Nodes \ {target[t]} : unprocessed'[m] = unprocessed[m]
    BY <1>14, <2>1 DEF SendFact
  <2> QED BY <2>2, <2>3, <2>4
<1>15. ASSUME NEW t \in Threads, CheckNode(t) PROVE NoFactStranded'
  BY <1>15 DEF CheckNode
<1>16. ASSUME NEW t \in Threads, LeaveLock(t) PROVE NoFactStranded'
  BY <1>16 DEF LeaveLock
<1>17. ASSUME NEW t \in Threads, Leave(t) PROVE NoFactStranded'
  <2>1. current_node[t] \in Nodes /\ static_node[current_node[t]] \in Threads
    BY <1>17, LeaveEffect
  <2>2. KindFor(0, static_node[current_node[t]]) \in Kinds
    BY KindForFact
  <2>3. \A m \in Nodes : node_state'[m] = "idle" => node_state[m] = "idle"
    BY <1>17, <2>1, <2>2, LeaveEffect DEF PutIn, Kinds
  <2> QED BY <1>17, <2>3 DEF Leave
<1>18. ASSUME NEW t \in Threads, Rest(t) PROVE NoFactStranded'
  <2>1. current_node[t] \in Nodes
    BY <1>18 DEF Rest, ControlTypes
  <2>2. \A m \in Nodes : node_state'[m] = "idle" => node_state[m] = "idle" \/ ~ unprocessed[m]
    BY <1>18, <2>1 DEF Rest
  <2> QED BY <1>18, <2>2 DEF Rest
<1>19. ASSUME NEW t \in Threads, InstrCurrent(t) PROVE NoFactStranded'
  BY <1>19 DEF InstrCurrent
<1>20. ASSUME NEW t \in Threads, InstrLock(t) PROVE NoFactStranded'
  BY <1>20 DEF InstrLock
<1>21. ASSUME NEW t \in Threads, SetPriority(t) PROVE NoFactStranded'
  <2>1. pc[t] = "instr" /\ target[t] \in Nodes
    BY <1>21, TargetKnown DEF SetPriority, At
  <2>2. \A m \in Nodes : node_state'[m] = "idle" => node_state[m] = "idle"
    BY <1>21, <2>1, InstrEffect, QueueStepMarks DEF Kinds
  <2> QED BY <1>21, <2>2 DEF SetPriority, InstrFrame
<1>22. ASSUME NEW t \in Threads, ScheduleNext(t) PROVE NoFactStranded'
  <2>1. pc[t] = "instr" /\ target[t] \in Nodes
    BY <1>22, TargetKnown DEF ScheduleNext, At
  <2>2. \A m \in Nodes : node_state'[m] = "idle" => node_state[m] = "idle"
    BY <1>22, <2>1, InstrEffect, QueueStepMarks DEF Kinds
  <2> QED BY <1>22, <2>2 DEF ScheduleNext, InstrFrame
<1>23. ASSUME NEW t \in Threads, RemovePriority(t) PROVE NoFactStranded'
  <2>1. pc[t] = "instr" /\ target[t] \in Nodes
    BY <1>23, TargetKnown DEF RemovePriority, At
  <2>2. \A m \in Nodes : node_state'[m] = "idle" => node_state[m] = "idle"
    BY <1>23, <2>1, InstrEffect, QueueStepMarks DEF Kinds
  <2> QED BY <1>23, <2>2 DEF RemovePriority, InstrFrame
<1>24. ASSUME NEW t \in Threads, SetStatic(t) PROVE NoFactStranded'
  <2>1. pc[t] = "instr" /\ target[t] \in Nodes
    BY <1>24, TargetKnown DEF SetStatic, At
  <2>2. \A m \in Nodes : node_state'[m] = "idle" => node_state[m] = "idle"
    BY <1>24, <2>1, InstrEffect, QueueStepMarks DEF Kinds
  <2> QED BY <1>24, <2>2 DEF SetStatic, InstrFrame
<1>25. ASSUME NEW t \in Threads, SetMoving(t) PROVE NoFactStranded'
  <2>1. pc[t] = "instr" /\ target[t] \in Nodes
    BY <1>25, TargetKnown DEF SetMoving, At
  <2>2. \A m \in Nodes : node_state'[m] = "idle" => node_state[m] = "idle"
    BY <1>25, <2>1, InstrEffect, QueueStepMarks DEF Kinds
  <2> QED BY <1>25, <2>2 DEF SetMoving, InstrFrame
<1>26. ASSUME NEW t \in Threads, SetOwner(t) PROVE NoFactStranded'
  <2>1. target[t] \in Nodes /\ instr[t].new \in Threads
    BY <1>26, OwnerEffect
  <2>2. KindFor(priority[target[t]], instr[t].new) \in Kinds
    BY <2>1, KindForFact
  <2>3. \A m \in Nodes : node_state'[m] = "idle" => node_state[m] = "idle"
    BY <1>26, <2>1, <2>2, OwnerEffect DEF PutIn, Kinds
  <2> QED BY <1>26, <2>3 DEF SetOwner, InstrFrame
<1>27. ASSUME NEW t \in Threads, RemoteUpdate(t) PROVE NoFactStranded'
  BY <1>27 DEF RemoteUpdate
<1>28. ASSUME NEW t \in Threads, RemoteUpdated(t) PROVE NoFactStranded'
  BY <1>28 DEF RemoteUpdated
<1>29. CASE UNCHANGED vars
  BY <1>29 DEF vars
<1> QED
  BY <1>1, <1>2, <1>3, <1>4, <1>5, <1>6, <1>7, <1>8, <1>9, <1>10, <1>11, <1>12,
     <1>13, <1>14, <1>15, <1>16, <1>17, <1>18, <1>19, <1>20, <1>21, <1>22, <1>23,
     <1>24, <1>25, <1>26, <1>27, <1>28, <1>29
     DEF Next, Step, Schedule, Run, Coordinate

-----------------------------------------------------------------------------
(* The theorems, for any finite or infinite set of threads and nodes.      *)

\* The parts of the invariant hold together in every reachable state.
LEMMA SchedInductive ==
  ASSUME OwnNodesMoved PROVE Spec => []SchedInv
<1>1. Init => SchedInv
  BY InitTyped, InitPlace, InitLocks DEF SchedInv, Init, NoFactStranded
<1>2. SchedInv /\ [Next]_vars => SchedInv'
  <2> SUFFICES ASSUME SchedInv, [Next]_vars PROVE SchedInv'
    OBVIOUS
  <2>1. WellTyped'
    BY StepTyped
  <2>2. PlaceInv'
    BY <2>1, StepPlace
  <2>3. MainLocks' /\ DatabaseLocks'
    BY StepMainLocks, StepDatabaseLocks
  <2>4. InstrKnown' /\ MovePending' /\ NoFactStranded'
    BY StepInstr, StepPending, StepFacts
  <2> QED BY <2>1, <2>2, <2>3, <2>4 DEF SchedInv, LockInv
<1> QED BY <1>1, <1>2, PTL DEF Spec

(* A node is in the queue its mark names of the thread that owns it, run   *)
(* by its owner, carried by one thief, or nowhere: it is never run twice   *)
(* at a time and never lost, however pops, thieves, senders and            *)
(* instructions interleave.                                                *)
THEOREM NodesInOnePlace ==
  ASSUME OwnNodesMoved PROVE Spec => []InOnePlace
<1>1. SchedInv => InOnePlace
  <2> SUFFICES ASSUME SchedInv PROVE InOnePlace
    OBVIOUS
  <2>1. TypeOK
    BY TypesGiven DEF SchedInv
  <2>2. ASSUME NEW n \in Nodes
        PROVE  {q \in Threads \X Kinds : n \in queued[q[1]][q[2]]}
                 = IF node_state[n] \in Kinds THEN {<<owner[n], node_state[n]>>} ELSE {}
    <3>1. owner[n] \in Threads
      BY DEF SchedInv, WellTyped, NodeTypes
    <3>2. \A q \in Threads \X Kinds :
            n \in queued[q[1]][q[2]] <=> node_state[n] = q[2] /\ owner[n] = q[1]
      BY DEF SchedInv, PlaceInv, QueuedRight
    <3> QED BY <3>1, <3>2
  <2>3. ASSUME NEW n \in Nodes
        PROVE  {t \in Threads : current_node[t] = n}
                 = IF node_state[n] = "working" THEN {owner[n]} ELSE {}
    BY DEF SchedInv, WellTyped, NodeTypes, PlaceInv, RunRight
  <2>4. ASSUME NEW n \in Nodes
        PROVE  Cardinality({t \in Threads : n \in buffer[t]})
                 = IF node_state[n] = "stealing" THEN 1 ELSE 0
    <3>1. CASE node_state[n] = "stealing"
      <4>1. PICK t \in Threads : n \in buffer[t]
        BY <3>1 DEF SchedInv, PlaceInv, StolenRight
      <4>2. {u \in Threads : n \in buffer[u]} = {t}
        BY <4>1 DEF SchedInv, PlaceInv, StolenRight
      <4> QED BY <3>1, <4>2, FS_Singleton
    <3>2. CASE node_state[n] # "stealing"
      <4>1. {u \in Threads : n \in buffer[u]} = {}
        BY <3>2 DEF SchedInv, PlaceInv, StolenRight
      <4> QED BY <3>2, <4>1, FS_EmptySet
    <3> QED BY <3>1, <3>2
  <2> QED BY <2>1, <2>2, <2>3, <2>4 DEF InOnePlace
<1> QED BY <1>1, SchedInductive, PTL

(* A node that has facts to process is queued, stolen or being run: the    *)
(* sender who finds it active and the runner who puts it to rest do not    *)
(* miss each other.                                                        *)
THEOREM FactsNotStranded ==
  ASSUME OwnNodesMoved PROVE Spec => []NoFactStranded
<1>1. SchedInv => NoFactStranded
  BY DEF SchedInv
<1> QED BY <1>1, SchedInductive, PTL

(* Who waits for a database lock while it holds a main lock, in run_node   *)
(* or in new_work for an own node, waits for a remote update only, which   *)
(* takes no lock before it gives its own back: main and database locks     *)
(* cannot form a cycle, unless an unbuffered fact is sent to the node that *)
(* runs.                                                                   *)
THEOREM DatabaseLockNotDeadlocked ==
  ASSUME OwnNodesMoved, ~SelfSends PROVE Spec => []DatabaseWaitsEnd
<1>1. SchedInv => DatabaseWaitsEnd
  <2> SUFFICES ASSUME SchedInv PROVE DatabaseWaitsEnd
    OBVIOUS
  <2>1. /\ RunRight /\ MainLocks /\ DatabaseLocks /\ ControlTypes
        /\ database_lock \in [Nodes -> Threads \cup {Nobody}]
        /\ current_node \in [Threads -> Nodes \cup {Nobody}]
        /\ back \in [Threads -> {"rules", "sync"}]
    BY DEF SchedInv, PlaceInv, LockInv, WellTyped, NodeTypes, ThreadTypes
  <2>2. ASSUME NEW t \in Threads, NEW n \in Nodes,
               \/ pc[t] = "rundb" /\ n = current_node[t]
               \/ pc[t] = "send" /\ owner[n] = t /\ n = target[t],
               database_lock[n] # Nobody
        PROVE  pc[database_lock[n]] = "remote"
    <3>1. PICK u \in Threads : u = database_lock[n]
      BY <2>1, <2>2
    <3>2. ASSUME current_node[u] = n, InRules(u) PROVE FALSE
      <4>1. owner[n] = u
        BY <2>1, <3>2 DEF RunRight
      <4>2. CASE pc[t] = "rundb" /\ n = current_node[t]
        <5>1. u = t
          BY <2>1, <4>1, <4>2 DEF RunRight
        <5> QED BY <3>2, <4>2, <5>1 DEF InRules
      <4>3. CASE pc[t] = "send" /\ owner[n] = t /\ n = target[t]
        <5>1. u = t /\ target[t] = current_node[t] /\ back[t] = "rules"
          BY <3>2, <4>1, <4>3 DEF InRules
        <5> QED BY <2>1, <4>3, <5>1 DEF MainLocks
      <4> QED BY <2>2, <4>2, <4>3
    <3> QED BY <2>1, <3>1, <3>2 DEF DatabaseLocks
  <2>3. ASSUME NEW t \in Threads, pc[t] = "rundb" PROVE current_node[t] \in Nodes
    BY <2>1, <2>3 DEF ControlTypes
  <2>4. ASSUME NEW t \in Threads, pc[t] = "send" PROVE target[t] \in Nodes
    BY <2>1, <2>4 DEF MainLocks
  <2> QED BY <2>2, <2>3, <2>4 DEF DatabaseWaitsEnd
<1> QED BY <1>1, SchedInductive, PTL

(* A change of owner is pending only for a node that is being run, and the *)
(* thread that leaves its node to a new owner finds one, which is not      *)
(* itself, as check_if_current_useless asserts.                            *)
THEOREM OwnerChangesSettle ==
  ASSUME OwnNodesMoved PROVE Spec => [](MovesSettle /\ LeavesToOther)
<1>1. SchedInv => MovesSettle /\ LeavesToOther
  <2> SUFFICES ASSUME SchedInv PROVE MovesSettle /\ LeavesToOther
    OBVIOUS
  <2>1. ASSUME NEW t \in Threads, pc[t] = "leaving"
        PROVE  static_node[current_node[t]] \notin {t, Nobody}
    <3>1. NewOwnerPending(current_node[t]) /\ current_node[t] \in Nodes
      BY <2>1 DEF SchedInv, LockInv, MovePending, WellTyped, ThreadTypes, ControlTypes
    <3>2. owner[current_node[t]] = t
      BY <3>1 DEF SchedInv, PlaceInv, RunRight
    <3> QED BY <3>1, <3>2 DEF NewOwnerPending
  <2> QED BY <2>1 DEF LeavesToOther, SchedInv, LockInv, MovePending
<1> QED BY <1>1, SchedInductive, PTL

-----------------------------------------------------------------------------
(* Nodes that are static.                                                  *)

\* No step leaves a static node where a thief looks.
LEMMA StepStatic ==
  ASSUME SchedInv, OwnNodesMoved, "set_owner" \notin Ops, StaticNotStealable, [Next]_vars
  PROVE  StaticNotStealable'
<1>0. /\ StaticNotStealable /\ ControlTypes /\ QueuedRight /\ RunRight /\ InstrKnown
      /\ pc \in [Threads -> Labels] /\ current_node \in [Threads -> Nodes \cup {Nobody}]
      /\ static_node \in [Nodes -> Threads \cup {Nobody}] /\ priority \in [Nodes -> 0 .. 1]
      /\ owner \in [Nodes -> Threads] /\ node_state \in [Nodes -> NodeStates]
  BY DEF SchedInv, LockInv, PlaceInv, WellTyped, NodeTypes, ThreadTypes
<1> USE <1>0, NobodyAssumption DEF StaticNotStealable, Goto, nodeVars, lockVars, localVars
<1>1. ASSUME NEW t \in Threads, PopPriority(t) PROVE StaticNotStealable'
  BY <1>1 DEF PopPriority, TakeCurrent
<1>2. ASSUME NEW t \in Threads, NoPriority(t) PROVE StaticNotStealable'
  BY <1>2 DEF NoPriority
<1>3. ASSUME NEW t \in Threads, PopQueue(t) PROVE StaticNotStealable'
  BY <1>3 DEF PopQueue, TakeCurrent
<1>4. ASSUME NEW t \in Threads, NoQueued(t) PROVE StaticNotStealable'
  BY <1>4 DEF NoQueued
<1>5. ASSUME NEW t \in Threads, PollAgain(t) PROVE StaticNotStealable'
  BY <1>5 DEF PollAgain
<1>6. ASSUME NEW t \in Threads, StealNodes(t) PROVE StaticNotStealable'
  <2>1. \A m \in Nodes : node_state'[m] \in {node_state[m], "stealing"}
    BY <1>6 DEF StealNodes, StealFrom
  <2> QED BY <1>6, <2>1 DEF StealNodes
<1>7. ASSUME NEW t \in Threads, StealTake(t) PROVE StaticNotStealable'
  <2>1. PICK n \in buffer[t] : KeepStolen(t, n)
    BY <1>7 DEF StealTake
  <2>2. /\ n \in Nodes /\ \E p \in 0 .. 1 : PutIn(n, owner'[n], KindFor(p, static_node'[n]))
        /\ \A m \in Nodes \ {n} : static_node'[m] = static_node[m]
    BY <2>1, StealEffect
  <2>3. PICK p \in 0 .. 1 : node_state' = [node_state EXCEPT ![n] = KindFor(p, static_node'[n])]
    BY <2>2 DEF PutIn
  <2> QED BY <2>2, <2>3, KindForFact
<1>8. ASSUME NEW t \in Threads, StealEnd(t) PROVE StaticNotStealable'
  BY <1>8 DEF StealEnd
<1>9. ASSUME NEW t \in Threads, RunLock(t) PROVE StaticNotStealable'
  BY <1>9 DEF RunLock
<1>10. ASSUME NEW t \in Threads, RunTakeFacts(t) PROVE StaticNotStealable'
  BY <1>10 DEF RunTakeFacts
<1>11. ASSUME NEW t \in Threads, RulesEnd(t) PROVE StaticNotStealable'
  BY <1>11 DEF RulesEnd
<1>12. ASSUME NEW t \in Threads, SyncEnd(t) PROVE StaticNotStealable'
  BY <1>12 DEF SyncEnd
<1>13. ASSUME NEW t \in Threads, SendLock(t) PROVE StaticNotStealable'
  BY <1>13 DEF SendLock
<1>14. ASSUME NEW t \in Threads, SendFact(t) PROVE StaticNotStealable'
  <2>1. target[t] \in Nodes
    BY <1>14, TargetKnown DEF SendFact
  <2>2. \/ node_state' = node_state
        \/ node_state' = [node_state EXCEPT ![target[t]] =
                            KindFor(priority[target[t]], static_node[target[t]])]
    BY <1>14 DEF SendFact, SendEnqueue, AddToQueue
  <2>3. priority[target[t]] \in 0 .. 1 /\ static_node' = static_node
    BY <1>14, <2>1 DEF SendFact
  <2> QED BY <2>1, <2>2, <2>3, KindForFact
<1>15. ASSUME NEW t \in Threads, CheckNode(t) PROVE StaticNotStealable'
  BY <1>15 DEF CheckNode
<1>16. ASSUME NEW t \in Threads, LeaveLock(t) PROVE StaticNotStealable'
  BY <1>16 DEF LeaveLock
<1>17. ASSUME NEW t \in Threads, Leave(t) PROVE StaticNotStealable'
  <2> DEFINE n == current_node[t]
             new == static_node[n]
  <2>1. n \in Nodes /\ node_state' = [node_state EXCEPT ![n] = KindFor(0, new)]
    BY <1>17, LeaveEffect DEF PutIn
  <2>2. static_node' = static_node
    BY <1>17 DEF Leave
  <2> HIDE DEF n
  <2> QED BY <2>1, <2>2, KindForFact
<1>18. ASSUME NEW t \in Threads, Rest(t) PROVE StaticNotStealable'
  BY <1>18 DEF Rest
<1>19. ASSUME NEW t \in Threads, InstrCurrent(t) PROVE StaticNotStealable'
  BY <1>19 DEF InstrCurrent, ControlTypes, RunRight
<1>20. ASSUME NEW t \in Threads, InstrLock(t) PROVE StaticNotStealable'
  BY <1>20 DEF InstrLock
<1>21. ASSUME NEW t \in Threads, SetPriority(t) PROVE StaticNotStealable'
  <2>1. target[t] \in Nodes
    BY <1>21, TargetKnown DEF SetPriority, At
  <2>2. \/ node_state' = node_state
        \/ /\ node_state[target[t]] = instr[t].state
           /\ instr[t].state \in {"queue_moving", "queue_static"}
           /\ node_state' = [node_state EXCEPT ![target[t]] = WithPrio(instr[t].state)]
    BY <1>21 DEF SetPriority, StillIn, Requeue
  <2>3. static_node' = static_node
    BY <1>21 DEF SetPriority
  <2> QED BY <2>1, <2>2, <2>3 DEF WithPrio
<1>22. ASSUME NEW t \in Threads, ScheduleNext(t) PROVE StaticNotStealable'
  <2>1. target[t] \in Nodes
    BY <1>22, TargetKnown DEF ScheduleNext, At
  <2>2. \/ node_state' = node_state
        \/ node_state' = [node_state EXCEPT ![target[t]] = KindFor(1, static_node[target[t]])]
        \/ /\ node_state[target[t]] = instr[t].state
           /\ instr[t].state \in {"queue_moving", "queue_static"}
           /\ node_state' = [node_state EXCEPT ![target[t]] = WithPrio(instr[t].state)]
    BY <1>22 DEF ScheduleNext, StillIn, Requeue, AddToQueue
  <2>3. static_node' = static_node
    BY <1>22 DEF ScheduleNext
  <2> QED BY <2>1, <2>2, <2>3, KindForFact DEF WithPrio
<1>23. ASSUME NEW t \in Threads, RemovePriority(t) PROVE StaticNotStealable'
  <2>1. target[t] \in Nodes
    BY <1>23, TargetKnown DEF RemovePriority, At
  <2>2. \/ node_state' = node_state
        \/ /\ node_state[target[t]] = instr[t].state
           /\ instr[t].state \in {"prio_moving", "prio_static"}
           /\ node_state' = [node_state EXCEPT ![target[t]] = NoPrio(instr[t].state)]
    BY <1>23 DEF RemovePriority, StillIn, Requeue
  <2>3. static_node' = static_node
    BY <1>23 DEF RemovePriority
  <2> QED BY <2>1, <2>2, <2>3 DEF NoPrio
<1>24. ASSUME NEW t \in Threads, SetStatic(t) PROVE StaticNotStealable'
  <2> DEFINE n == target[t]
             st == instr[t].state
  <2>1. /\ n \in Nodes /\ owner[n] = t
        /\ node_state[n] \in Kinds => node_state[n] = st
    BY <1>24, TargetKnown DEF SetStatic, At, InstrKnown, OwnNodesMoved
  <2>2. ASSUME node_state[n] \in {"queue_moving", "prio_moving"} PROVE CanRemove(t, st, n)
    <3>1. node_state[n] = st /\ n \in queued[t][st] /\ st \in Kinds
      BY <2>1, <2>2 DEF QueuedRight, Kinds
    <3> QED BY <3>1 DEF CanRemove, StillIn, RemoveFrom
  <2>3. \A m \in Nodes \ {n} : node_state'[m] = node_state[m] /\ static_node'[m] = static_node[m]
    BY <1>24 DEF SetStatic, Requeue
  <2>4. CASE static_node[n] # Nobody
    BY <1>24, <2>3, <2>4 DEF SetStatic
  <2>5. CASE static_node[n] = Nobody /\ node_state[n] \in {"queue_moving", "prio_moving"}
    <3>1. Requeue(t, n, st, ToStatic(st))
      BY <1>24, <2>1, <2>2, <2>5 DEF SetStatic, Kinds
    <3>2. node_state'[n] \notin {"queue_moving", "prio_moving"}
      BY <2>1, <3>1 DEF Requeue, ToStatic
    <3> QED BY <2>3, <3>2
  <2>6. CASE static_node[n] = Nobody /\ node_state[n] \notin {"queue_moving", "prio_moving"}
    <3>1. \/ node_state' = node_state
          \/ node_state' = [node_state EXCEPT ![n] = ToStatic(st)]
      BY <1>24 DEF SetStatic, Requeue
    <3>2. node_state'[n] \notin {"queue_moving", "prio_moving"}
      BY <2>1, <2>6, <3>1 DEF ToStatic
    <3> QED BY <2>3, <3>2
  <2> QED BY <2>4, <2>5, <2>6
<1>25. ASSUME NEW t \in Threads, SetMoving(t) PROVE StaticNotStealable'
  <2>1. /\ target[t] \in Nodes /\ static_node'[target[t]] = Nobody
        /\ \A m \in Nodes \ {target[t]} : static_node'[m] = static_node[m]
    BY <1>25, TargetKnown DEF SetMoving, At
  <2>2. \A m \in Nodes \ {target[t]} : node_state'[m] = node_state[m]
    BY <1>25, <2>1, InstrEffect, QueueStepMarks
  <2> QED BY <2>1, <2>2
<1>26. ASSUME NEW t \in Threads, SetOwner(t) PROVE StaticNotStealable'
  BY <1>26 DEF SetOwner, At, InstrKnown
<1>27. ASSUME NEW t \in Threads, RemoteUpdate(t) PROVE StaticNotStealable'
  BY <1>27 DEF RemoteUpdate
<1>28. ASSUME NEW t \in Threads, RemoteUpdated(t) PROVE StaticNotStealable'
  BY <1>28 DEF RemoteUpdated
<1>29. CASE UNCHANGED vars
  BY <1>29 DEF vars
<1> QED
  BY <1>1, <1>2, <1>3, <1>4, <1>5, <1>6, <1>7, <1>8, <1>9, <1>10, <1>11, <1>12,
     <1>13, <1>14, <1>15, <1>16, <1>17, <1>18, <1>19, <1>20, <1>21, <1>22, <1>23,
     <1>24, <1>25, <1>26, <1>27, <1>28, <1>29
     DEF Next, Step, Schedule, Run, Coordinate

(* A node that is static waits in a static queue, where no thief looks, in *)
(* a program without set-affinity (set_node_owner marks a node that is     *)
(* with its owner already and leaves it in the moving queue).              *)
THEOREM StaticNodesNotStolen ==
  ASSUME OwnNodesMoved, "set_owner" \notin Ops PROVE Spec => []StaticNotStealable
<1>1. Init => StaticNotStealable
  BY DEF Init, StaticNotStealable
<1>2. SchedInv /\ StaticNotStealable /\ [Next]_vars => StaticNotStealable'
  BY StepStatic
<1> QED BY <1>1, <1>2, SchedInductive, PTL DEF Spec

\* No step of a thread reaches abort().
LEMMA StepNoAbort ==
  ASSUME SchedInv, OwnNodesMoved, "remove_priority" \notin Foreign, NoAbort, [Next]_vars
  PROVE  NoAbort'
<1>0. /\ NoAbort /\ InstrKnown /\ pc \in [Threads -> Labels]
      /\ back \in [Threads -> {"rules", "sync"}]
  BY DEF SchedInv, LockInv, WellTyped, ThreadTypes
<1> USE <1>0 DEF NoAbort, Goto, nodeVars, lockVars, localVars
<1>1. ASSUME NEW t \in Threads, PopPriority(t) PROVE NoAbort'
  BY <1>1 DEF PopPriority, TakeCurrent
<1>2. ASSUME NEW t \in Threads, NoPriority(t) PROVE NoAbort'
  BY <1>2 DEF NoPriority
<1>3. ASSUME NEW t \in Threads, PopQueue(t) PROVE NoAbort'
  BY <1>3 DEF PopQueue, TakeCurrent
<1>4. ASSUME NEW t \in Threads, NoQueued(t) PROVE NoAbort'
  BY <1>4 DEF NoQueued
<1>5. ASSUME NEW t \in Threads, PollAgain(t) PROVE NoAbort'
  BY <1>5 DEF PollAgain
<1>6. ASSUME NEW t \in Threads, StealNodes(t) PROVE NoAbort'
  BY <1>6 DEF StealNodes
<1>7. ASSUME NEW t \in Threads, StealTake(t) PROVE NoAbort'
  BY <1>7 DEF StealTake
<1>8. ASSUME NEW t \in Threads, StealEnd(t) PROVE NoAbort'
  BY <1>8 DEF StealEnd
<1>9. ASSUME NEW t \in Threads, RunLock(t) PROVE NoAbort'
  BY <1>9 DEF RunLock
<1>10. ASSUME NEW t \in Threads, RunTakeFacts(t) PROVE NoAbort'
  BY <1>10 DEF RunTakeFacts
<1>11. ASSUME NEW t \in Threads, RulesEnd(t) PROVE NoAbort'
  BY <1>11 DEF RulesEnd
<1>12. ASSUME NEW t \in Threads, SyncEnd(t) PROVE NoAbort'
  BY <1>12 DEF SyncEnd
<1>13. ASSUME NEW t \in Threads, SendLock(t) PROVE NoAbort'
  BY <1>13 DEF SendLock
<1>14. ASSUME NEW t \in Threads, SendFact(t) PROVE NoAbort'
  BY <1>14 DEF SendFact, Return
<1>15. ASSUME NEW t \in Threads, CheckNode(t) PROVE NoAbort'
  BY <1>15 DEF CheckNode
<1>16. ASSUME NEW t \in Threads, LeaveLock(t) PROVE NoAbort'
  BY <1>16 DEF LeaveLock
<1>17. ASSUME NEW t \in Threads, Leave(t) PROVE NoAbort'
  BY <1>17, LeaveEffect
<1>18. ASSUME NEW t \in Threads, Rest(t) PROVE NoAbort'
  BY <1>18 DEF Rest
<1>19. ASSUME NEW t \in Threads, InstrCurrent(t) PROVE NoAbort'
  BY <1>19 DEF InstrCurrent
<1>20. ASSUME NEW t \in Threads, InstrLock(t) PROVE NoAbort'
  BY <1>20 DEF InstrLock
<1>21. ASSUME NEW t \in Threads, SetPriority(t) PROVE NoAbort'
  BY <1>21 DEF SetPriority, Return
<1>22. ASSUME NEW t \in Threads, ScheduleNext(t) PROVE NoAbort'
  BY <1>22 DEF ScheduleNext, Return
<1>23. ASSUME NEW t \in Threads, RemovePriority(t) PROVE NoAbort'
  <2>1. owner[target[t]] = t
    BY <1>23 DEF RemovePriority, At, InstrKnown
  <2> QED BY <1>23, <2>1 DEF RemovePriority, Return
<1>24. ASSUME NEW t \in Threads, SetStatic(t) PROVE NoAbort'
  BY <1>24 DEF SetStatic, Return
<1>25. ASSUME NEW t \in Threads, SetMoving(t) PROVE NoAbort'
  BY <1>25 DEF SetMoving, Return
<1>26. ASSUME NEW t \in Threads, SetOwner(t) PROVE NoAbort'
  BY <1>26 DEF SetOwner, Return
<1>27. ASSUME NEW t \in Threads, RemoteUpdate(t) PROVE NoAbort'
  BY <1>27 DEF RemoteUpdate
<1>28. ASSUME NEW t \in Threads, RemoteUpdated(t) PROVE NoAbort'
  BY <1>28 DEF RemoteUpdated
<1>29. CASE UNCHANGED vars
  BY <1>29 DEF vars
<1> QED
  BY <1>1, <1>2, <1>3, <1>4, <1>5, <1>6, <1>7, <1>8, <1>9, <1>10, <1>11, <1>12,
     <1>13, <1>14, <1>15, <1>16, <1>17, <1>18, <1>19, <1>20, <1>21, <1>22, <1>23,
     <1>24, <1>25, <1>26, <1>27, <1>28, <1>29
     DEF Next, Step, Schedule, Run, Coordinate

(* Neither abort() of the priority instructions nor the queues of a null   *)
(* owner are reached when priorities are removed from own nodes only.      *)
THEOREM AbortNotReached ==
  ASSUME OwnNodesMoved, "remove_priority" \notin Foreign PROVE Spec => []NoAbort
<1>1. Init => NoAbort
  BY DEF Init, NoAbort
<1>2. SchedInv /\ NoAbort /\ [Next]_vars => NoAbort'
  BY StepNoAbort
<1> QED BY <1>1, <1>2, SchedInductive, PTL DEF Spec

================================================================================
