----------------------------- MODULE Termination -----------------------------
(***************************************************************************)
(* How the scheduler threads of the Meld virtual machine go to sleep, wake *)
(* each other up, steal work and decide that the program has finished      *)
(* (thread/thread.hpp, thread/thread.cpp, thread/termination_barrier.hpp). *)
(*                                                                         *)
(* Each thread owns a byte `tstate', changed with compare-and-swap by the  *)
(* thread itself and by the threads that send it work.  A shared counter   *)
(* `active_threads' is updated by a SEPARATE atomic operation after the    *)
(* swap; the thread that brings it to zero sets `done'.  The window        *)
(* between the swap and the counter update is the variable `pending'.      *)
(*                                                                         *)
(* Nodes and facts are abstracted to counts: `work[t]' is the number of    *)
(* nodes in the four queues of t, `tfacts[t]' says that the thread node of *)
(* t has unprocessed facts.  A node run derives facts nondeterministically *)
(* until the bound Fuel is used up.                                        *)
(***************************************************************************)
EXTENDS Integers, FiniteSets

CONSTANTS
  NUM_THREADS,           \* All->NUM_THREADS
  WorkStealing,          \* work_stealing && !is_static_priority()
  HasThreadPredicates,   \* theProgram->has_thread_predicates()
  CanStop,               \* the program contains a STOP PROGRAM instruction
  InitialNodes,          \* nodes that init() puts in the queues of a thread
  Fuel                   \* bound: facts that wake a node, sent by the program

ASSUME NumThreadsAssumption == NUM_THREADS \in Nat \ {0}
ASSUME FlagsAssumption == /\ WorkStealing \in BOOLEAN
                          /\ HasThreadPredicates \in BOOLEAN
                          /\ CanStop \in BOOLEAN
ASSUME BoundsAssumption == InitialNodes \in Nat /\ Fuel \in Nat

Threads == 0 .. NUM_THREADS - 1

VARIABLES
  tstate,          \* thread::tstate
  active_threads,  \* termination_barrier::active_threads
  done,            \* termination_barrier::done
  stop_flag,       \* thread::stop_flag
  pending,         \* barrier update owed by a thread after its last swap
  work,            \* number of nodes in queues and prios of a thread
  tfacts,          \* thread_node->unprocessed_facts
  comm,            \* thread::comm_threads
  pc,              \* where each thread is
  next_thread,     \* thread::next_thread
  scan,            \* loop counter i of go_steal_nodes
  activated,       \* local of go_steal_nodes
  has_work,        \* local of go_steal_nodes
  stolen,          \* nodes held in node_buffer of go_steal_nodes
  prio_owner,      \* owner of the node whose priority this thread changes
  resume,          \* where busy_wait goes on when go_steal_nodes says false
  fuel             \* facts the program may still send

stealVars == <<next_thread, scan, activated, has_work, stolen, resume, prio_owner>>
barrierVars == <<active_threads, done>>
vars == <<tstate, active_threads, done, stop_flag, pending, work, tfacts, comm,
          pc, next_thread, scan, activated, has_work, stolen, resume,
          prio_owner, fuel>>

\* THREAD_ACTIVE, THREAD_INACTIVE, THREAD_ACTIVE | THREAD_NEW_WORK
TStates == {"active", "inactive", "active_new"}

Labels == {"next", "tnode", "haswork", "got", "run", "notify", "enter", "loop",
           "setinact", "chkdone", "setact", "steal", "steal_pop", "steal_add",
           "return_null", "kill", "end",
           "prio_put", "prio_act"}

IsActive(t) == tstate[t] # "inactive"

-----------------------------------------------------------------------------
(* Every thread starts active, counted by the barrier, with its share of   *)
(* the nodes queued; setup_thread_node leaves facts in the thread node.    *)

Init ==
  /\ tstate = [t \in Threads |-> "active"]
  /\ active_threads = NUM_THREADS
  /\ done = FALSE
  /\ stop_flag = FALSE
  /\ pending = [t \in Threads |-> "none"]
  /\ work = [t \in Threads |-> InitialNodes]
  /\ tfacts = [t \in Threads |-> HasThreadPredicates]
  /\ comm = [t \in Threads |-> {}]
  /\ pc = [t \in Threads |-> "next"]
  /\ next_thread \in IF WorkStealing THEN [Threads -> Threads]
                                     ELSE {[t \in Threads |-> 0]}
  /\ scan = [t \in Threads |-> 0]
  /\ activated = [t \in Threads |-> FALSE]
  /\ has_work = [t \in Threads |-> FALSE]
  /\ stolen = [t \in Threads |-> 0]
  /\ resume = [t \in Threads |-> "loop"]
  /\ prio_owner = [t \in Threads |-> t]
  /\ fuel = Fuel

-----------------------------------------------------------------------------
(* The barrier: the counter update that follows a successful swap.  The    *)
(* thread that owes it can do nothing else first.                          *)

At(t, l) == pc[t] = l /\ pending[t] = "none"
Goto(t, l) == pc' = [pc EXCEPT ![t] = l]

CountActive(t) ==
  /\ pending[t] = "inc"
  /\ active_threads' = active_threads + 1
  /\ pending' = [pending EXCEPT ![t] = "none"]
  /\ UNCHANGED <<tstate, done, stop_flag, work, tfacts, comm, pc, stealVars, fuel>>

CountInactive(t) ==
  /\ pending[t] = "dec"
  /\ active_threads' = active_threads - 1
  /\ pending' = [pending EXCEPT ![t] =
                   IF active_threads = 1 THEN "done" ELSE "none"]
  /\ UNCHANGED <<tstate, done, stop_flag, work, tfacts, comm, pc, stealVars, fuel>>

SetDone(t) ==
  /\ pending[t] = "done"
  /\ done' = TRUE
  /\ pending' = [pending EXCEPT ![t] = "none"]
  /\ UNCHANGED <<tstate, active_threads, stop_flag, work, tfacts, comm, pc,
                 stealVars, fuel>>

(* The four operations on tstate.  A compare-and-swap that fails is retried *)
(* and changes nothing, so each operation is one step on the value found.  *)

\* another thread calls activate_thread on u; `caller' owes the increment
ActivateThread(caller, u) ==
  /\ tstate' = [tstate EXCEPT ![u] = "active_new"]
  /\ pending' = IF tstate[u] = "inactive"
                  THEN [pending EXCEPT ![caller] = "inc"] ELSE pending

\* mutant: a thread that is active already is counted again
SetActiveRecount(t) ==
  /\ tstate' = [tstate EXCEPT ![t] = "active"]
  /\ pending' = [pending EXCEPT ![t] = "inc"]

\* set_active_if_inactive leaves the thread in THREAD_ACTIVE in every case
SetActiveIfInactive(t) ==
  /\ tstate' = [tstate EXCEPT ![t] = "active"]
  /\ pending' = IF tstate[t] = "inactive"
                  THEN [pending EXCEPT ![t] = "inc"] ELSE pending

\* mutant: announced work does not keep the thread awake
SetInactiveDropsNewWork(t) ==
  /\ tstate' = [tstate EXCEPT ![t] = "inactive"]
  /\ pending' = IF IsActive(t) THEN [pending EXCEPT ![t] = "dec"] ELSE pending

\* set_inactive_if_no_work; it returns true exactly when tstate[t] = "active_new"
SetInactiveIfNoWork(t) ==
  /\ tstate' = [tstate EXCEPT ![t] =
                  IF tstate[t] = "active_new" THEN "active" ELSE "inactive"]
  /\ pending' = IF tstate[t] = "active"
                  THEN [pending EXCEPT ![t] = "dec"] ELSE pending

\* set_force_inactive: nothing is subtracted when new work was announced
SetForceInactive(t) ==
  /\ tstate' = [tstate EXCEPT ![t] = "inactive"]
  /\ pending' = IF tstate[t] = "active"
                  THEN [pending EXCEPT ![t] = "dec"] ELSE pending

-----------------------------------------------------------------------------
(* set_next_node: pop a node, else run the thread node, else wait.  The    *)
(* queues, the thread node and has_work() are read one after the other.    *)

PopNode(t) ==
  /\ At(t, "next")
  /\ work[t] > 0
  /\ work' = [work EXCEPT ![t] = @ - 1]
  /\ Goto(t, "got")
  /\ UNCHANGED <<tstate, barrierVars, stop_flag, pending, tfacts, comm, stealVars,
                 fuel>>

NoNodeQueued(t) ==
  /\ At(t, "next")
  /\ work[t] = 0
  /\ Goto(t, "tnode")
  /\ UNCHANGED <<tstate, barrierVars, stop_flag, pending, work, tfacts, comm,
                 stealVars, fuel>>

CheckThreadNode(t) ==
  /\ At(t, "tnode")
  /\ Goto(t, IF tfacts[t] THEN "got" ELSE "haswork")
  /\ UNCHANGED <<tstate, barrierVars, stop_flag, pending, work, tfacts, comm,
                 stealVars, fuel>>

CheckHasWork(t) ==
  /\ At(t, "haswork")
  /\ Goto(t, IF work[t] > 0 THEN "next" ELSE "notify")
  /\ UNCHANGED <<tstate, barrierVars, stop_flag, pending, work, tfacts, comm,
                 stealVars, fuel>>

\* the bitmap is walked upwards and cleared once every thread was activated
NotifyOne(t) ==
  /\ At(t, "notify")
  /\ \E u \in comm[t] :
       /\ \A v \in comm[t] : u <= v
       /\ ActivateThread(t, u)
       /\ comm' = [comm EXCEPT ![t] = @ \ {u}]
  /\ UNCHANGED <<barrierVars, stop_flag, work, tfacts, pc, stealVars, fuel>>

\* mutant: the bitmap is cleared before every thread was activated
NotifyEndEarly(t) ==
  /\ At(t, "notify")
  /\ comm' = [comm EXCEPT ![t] = {}]
  /\ Goto(t, "enter")
  /\ UNCHANGED <<tstate, barrierVars, stop_flag, pending, work, tfacts, stealVars,
                 fuel>>

NotifyEnd(t) ==
  /\ At(t, "notify")
  /\ comm[t] = {}
  /\ Goto(t, "enter")
  /\ UNCHANGED <<tstate, barrierVars, stop_flag, pending, work, tfacts, comm,
                 stealVars, fuel>>

-----------------------------------------------------------------------------
(* Running a node.  run_node takes the facts of the node and of the thread *)
(* node; rules then send facts, each of which may queue a node somewhere.  *)

StartRun(t) ==
  /\ At(t, "got")
  /\ tfacts' = [tfacts EXCEPT ![t] = FALSE]
  /\ Goto(t, "run")
  /\ UNCHANGED <<tstate, barrierVars, stop_flag, pending, work, comm, stealVars,
                 fuel>>

\* new_work, new_work_list: the target node was idle, so its owner queues it
NewWork(t, owner) ==
  /\ At(t, "run")
  /\ fuel > 0
  /\ fuel' = fuel - 1
  /\ work' = [work EXCEPT ![owner] = @ + 1]
  /\ comm' = IF owner = t THEN comm ELSE [comm EXCEPT ![t] = @ \cup {owner}]
  /\ UNCHANGED <<tstate, barrierVars, stop_flag, pending, tfacts, pc, stealVars>>

\* execute_thread_send0: a fact for another thread goes to its thread node
NewThreadWork(t, to) ==
  /\ At(t, "run")
  /\ HasThreadPredicates
  /\ to # t
  /\ fuel > 0
  /\ fuel' = fuel - 1
  /\ tfacts' = [tfacts EXCEPT ![to] = TRUE]
  /\ comm' = [comm EXCEPT ![t] = @ \cup {to}]
  /\ UNCHANGED <<tstate, barrierVars, stop_flag, pending, work, pc, stealVars>>

StopProgram(t) ==
  /\ At(t, "run")
  /\ CanStop
  /\ stop_flag' = TRUE
  /\ UNCHANGED <<tstate, barrierVars, pending, work, tfacts, comm, pc, stealVars,
                 fuel>>

\* do_loop after run_node: the stop flag wins, otherwise back to get_work
EndRun(t) ==
  /\ At(t, "run")
  /\ Goto(t, IF stop_flag THEN "kill" ELSE "next")
  /\ UNCHANGED <<tstate, barrierVars, stop_flag, pending, work, tfacts, comm,
                 stealVars, fuel>>

\* check_if_current_useless keeps a node that received facts while it ran
KeepCurrent(t) ==
  /\ At(t, "run")
  /\ ~ stop_flag
  /\ \/ tfacts[t] /\ fuel' = fuel              \* it is the thread node
     \/ fuel > 0 /\ fuel' = fuel - 1           \* it is another node
  /\ Goto(t, "got")
  /\ UNCHANGED <<tstate, barrierVars, stop_flag, pending, work, tfacts, comm,
                 stealVars>>

\* check_if_current_useless hands the node over to its new owner
MoveCurrent(t, owner) ==
  /\ At(t, "run")
  /\ ~ stop_flag
  /\ owner # t
  /\ fuel > 0
  /\ fuel' = fuel - 1
  /\ work' = [work EXCEPT ![owner] = @ + 1]
  /\ comm' = [comm EXCEPT ![t] = @ \cup {owner}]
  /\ Goto(t, "next")
  /\ UNCHANGED <<tstate, barrierVars, stop_flag, pending, tfacts, stealVars>>

\* set_node_owner on a node waiting in the queues of this thread
MoveQueued(t, owner) ==
  /\ At(t, "run")
  /\ owner # t
  /\ work[t] > 0
  /\ fuel > 0
  /\ fuel' = fuel - 1
  /\ work' = [work EXCEPT ![t] = @ - 1, ![owner] = @ + 1]
  /\ comm' = [comm EXCEPT ![t] = @ \cup {owner}]
  /\ UNCHANGED <<tstate, barrierVars, stop_flag, pending, tfacts, pc, stealVars>>

\* do_set_node_priority_other, do_remove_node_priority_other: the node leaves
\* one queue of its owner, enters another, and the owner is activated at once
PrioRemove(t, owner) ==
  /\ At(t, "run")
  /\ owner # t
  /\ work[owner] > 0
  /\ fuel > 0
  /\ fuel' = fuel - 1
  /\ work' = [work EXCEPT ![owner] = @ - 1]
  /\ prio_owner' = [prio_owner EXCEPT ![t] = owner]
  /\ Goto(t, "prio_put")
  /\ UNCHANGED <<tstate, barrierVars, stop_flag, pending, tfacts, comm, next_thread,
                 scan, activated, has_work, stolen, resume>>

PrioInsert(t) ==
  /\ At(t, "prio_put")
  /\ work' = [work EXCEPT ![prio_owner[t]] = @ + 1]
  /\ Goto(t, "prio_act")
  /\ UNCHANGED <<tstate, barrierVars, stop_flag, pending, tfacts, comm, stealVars,
                 fuel>>

PrioActivate(t) ==
  /\ At(t, "prio_act")
  /\ ActivateThread(t, prio_owner[t])
  /\ prio_owner' = [prio_owner EXCEPT ![t] = t]
  /\ Goto(t, "run")
  /\ UNCHANGED <<barrierVars, stop_flag, work, tfacts, comm, next_thread, scan,
                 activated, has_work, stolen, resume, fuel>>

-----------------------------------------------------------------------------
(* busy_wait: steal, poll the queues, go inactive, look at `done'.         *)

\* a call of go_steal_nodes; on a false result busy_wait goes on at label l
CallSteal(t, l) ==
  /\ WorkStealing
  /\ resume' = [resume EXCEPT ![t] = l]
  /\ Goto(t, "steal")
  /\ UNCHANGED <<next_thread, scan, activated, has_work, stolen, prio_owner>>

\* the locals of go_steal_nodes go out of scope
ReturnSteal(t, l) ==
  /\ scan' = [scan EXCEPT ![t] = 0]
  /\ activated' = [activated EXCEPT ![t] = FALSE]
  /\ has_work' = [has_work EXCEPT ![t] = FALSE]
  /\ resume' = [resume EXCEPT ![t] = "loop"]
  /\ Goto(t, l)

EnterBusyWait(t) ==
  /\ At(t, "enter")
  /\ \/ CallSteal(t, "loop")
     \/ ~ WorkStealing /\ Goto(t, "loop") /\ UNCHANGED stealVars
  /\ UNCHANGED <<tstate, barrierVars, stop_flag, pending, work, tfacts, comm, fuel>>

\* stealing is tried again every `backoff' rounds: any round may be one
PollQueues(t) ==
  /\ At(t, "loop")
  /\ \/ work[t] > 0 /\ Goto(t, "setact") /\ UNCHANGED stealVars
     \/ work[t] = 0 /\ Goto(t, "setinact") /\ UNCHANGED stealVars
     \/ work[t] = 0 /\ CallSteal(t, "setinact")
  /\ UNCHANGED <<tstate, barrierVars, stop_flag, pending, work, tfacts, comm, fuel>>

GoInactive(t) ==
  /\ At(t, "setinact")
  /\ SetInactiveIfNoWork(t)
  /\ Goto(t, IF tstate[t] = "active_new" THEN "next" ELSE "chkdone")
  /\ UNCHANGED <<barrierVars, stop_flag, work, tfacts, comm, stealVars, fuel>>

\* mutant: a waiting thread only looks at the barrier
CheckDoneNoStop(t) ==
  /\ At(t, "chkdone")
  /\ Goto(t, IF done THEN "return_null" ELSE "loop")
  /\ UNCHANGED <<tstate, barrierVars, stop_flag, pending, work, tfacts, comm,
                 stealVars, fuel>>

CheckDone(t) ==
  /\ At(t, "chkdone")
  /\ Goto(t, IF done \/ stop_flag THEN "return_null" ELSE "loop")
  /\ UNCHANGED <<tstate, barrierVars, stop_flag, pending, work, tfacts, comm,
                 stealVars, fuel>>

LeaveBusyWait(t) ==
  /\ At(t, "setact")
  /\ SetActiveIfInactive(t)
  /\ Goto(t, "next")
  /\ UNCHANGED <<barrierVars, stop_flag, work, tfacts, comm, stealVars, fuel>>

-----------------------------------------------------------------------------
(* go_steal_nodes: visit the other threads starting at next_thread.        *)

Target(t) == (next_thread[t] + scan[t]) % NUM_THREADS
Stealable(t) == /\ Target(t) # t
                /\ IsActive(Target(t))
                /\ work[Target(t)] > 0

StealSkip(t) ==
  /\ At(t, "steal")
  /\ scan[t] < NUM_THREADS
  /\ ~ Stealable(t)
  /\ scan' = [scan EXCEPT ![t] = @ + 1]
  /\ UNCHANGED <<tstate, barrierVars, stop_flag, pending, work, tfacts, comm, pc,
                 next_thread, activated, has_work, stolen, resume, prio_owner, fuel>>

\* mutant: the thief stays inactive while it steals
StealTryAsleep(t) ==
  /\ At(t, "steal")
  /\ scan[t] < NUM_THREADS
  /\ Stealable(t)
  /\ activated' = [activated EXCEPT ![t] = TRUE]
  /\ Goto(t, "steal_pop")
  /\ UNCHANGED <<tstate, pending, barrierVars, stop_flag, work, tfacts, comm,
                 next_thread, scan, has_work, stolen, resume, prio_owner, fuel>>

\* The victim is tested without a lock, and the thief wakes up behind the test: one
\* step, since what the victim does in between it may as well do after it.
StealTry(t) ==
  /\ At(t, "steal")
  /\ scan[t] < NUM_THREADS
  /\ Stealable(t)
  /\ IF activated[t]
       THEN UNCHANGED <<tstate, pending, activated, has_work>>
       ELSE /\ SetActiveIfInactive(t)
            /\ has_work' = [has_work EXCEPT ![t] = @ \/ tstate[t] = "active_new"]
            /\ activated' = [activated EXCEPT ![t] = TRUE]
  /\ Goto(t, "steal_pop")
  /\ UNCHANGED <<barrierVars, stop_flag, work, tfacts, comm, next_thread, scan,
                 stolen, resume, prio_owner, fuel>>

\* steal_nodes takes half of ONE of the moving queues: at most half of the work
StealPop(t) ==
  /\ At(t, "steal_pop")
  /\ \E k \in 0 .. work[Target(t)] \div 2 :
       /\ work' = [work EXCEPT ![Target(t)] = @ - k]
       /\ stolen' = [stolen EXCEPT ![t] = k]
       /\ has_work' = [has_work EXCEPT ![t] = @ \/ k > 0]
       /\ scan' = [scan EXCEPT ![t] = IF k = 0 THEN @ + 1 ELSE @]
       /\ Goto(t, IF k = 0 THEN "steal" ELSE "steal_add")
  /\ UNCHANGED <<tstate, barrierVars, stop_flag, pending, tfacts, comm,
                 next_thread, activated, resume, prio_owner, fuel>>

\* a stolen node goes to the queue of the thief, or, through
\* move_node_to_new_owner, to the thread that set-affinity gave it meanwhile
StealAdd(t) ==
  /\ At(t, "steal_add")
  /\ stolen[t] > 0
  /\ stolen' = [stolen EXCEPT ![t] = @ - 1]
  /\ \E owner \in Threads \ {Target(t)} :
       /\ work' = [work EXCEPT ![owner] = @ + 1]
       /\ \/ owner = t /\ comm' = comm
          \/ comm' = [comm EXCEPT ![t] = @ \cup {owner}]
  /\ UNCHANGED <<tstate, barrierVars, stop_flag, pending, tfacts, pc, next_thread,
                 scan, activated, has_work, resume, prio_owner, fuel>>

\* returns true
StealDone(t) ==
  /\ At(t, "steal_add")
  /\ stolen[t] = 0
  /\ next_thread' = [next_thread EXCEPT ![t] = Target(t)]
  /\ ReturnSteal(t, "next")
  /\ UNCHANGED <<tstate, barrierVars, stop_flag, pending, work, tfacts, comm,
                 stolen, prio_owner, fuel>>

\* nothing was stolen; the result of set_inactive_if_no_work is not looked at
StealGiveUp(t) ==
  /\ At(t, "steal")
  /\ scan[t] = NUM_THREADS
  /\ IF activated[t] /\ ~ has_work[t]
       THEN SetInactiveIfNoWork(t) ELSE UNCHANGED <<tstate, pending>>
  /\ ReturnSteal(t, IF activated[t] /\ has_work[t] THEN "next" ELSE resume[t])
  /\ UNCHANGED <<barrierVars, stop_flag, work, tfacts, comm, next_thread, stolen,
                 prio_owner, fuel>>

-----------------------------------------------------------------------------
(* The end of do_loop: get_work returned NULL, or the program was stopped. *)

ReturnNull(t) ==
  /\ At(t, "return_null")
  /\ Goto(t, IF stop_flag THEN "kill" ELSE "end")
  /\ UNCHANGED <<tstate, barrierVars, stop_flag, pending, work, tfacts, comm,
                 stealVars, fuel>>

KilledWhileActive(t) ==
  /\ At(t, "kill")
  /\ SetForceInactive(t)
  /\ Goto(t, "end")
  /\ UNCHANGED <<barrierVars, stop_flag, work, tfacts, comm, stealVars, fuel>>

ThreadStep(t) ==
  \/ CountActive(t) \/ CountInactive(t) \/ SetDone(t)
  \/ PopNode(t) \/ NoNodeQueued(t) \/ CheckThreadNode(t) \/ CheckHasWork(t)
  \/ NotifyOne(t) \/ NotifyEnd(t)
  \/ StartRun(t) \/ EndRun(t) \/ KeepCurrent(t) \/ StopProgram(t)
  \/ \E u \in Threads : \/ NewWork(t, u) \/ NewThreadWork(t, u)
                         \/ MoveCurrent(t, u) \/ MoveQueued(t, u) \/ PrioRemove(t, u)
  \/ PrioInsert(t) \/ PrioActivate(t)
  \/ EnterBusyWait(t) \/ PollQueues(t) \/ GoInactive(t) \/ CheckDone(t)
  \/ LeaveBusyWait(t)
  \/ StealSkip(t) \/ StealTry(t) \/ StealPop(t) \/ StealAdd(t) \/ StealDone(t)
  \/ StealGiveUp(t)
  \/ ReturnNull(t) \/ KilledWhileActive(t)

\* loop() ends in end(); the machine joins the threads
AllEnded == \A t \in Threads : At(t, "end")
Finished == AllEnded /\ UNCHANGED vars

Next == (\E t \in Threads : ThreadStep(t)) \/ Finished

Spec == Init /\ [][Next]_vars
\* the operating system runs every thread; a node run ends (EndRun is enabled
\* all through it, the other steps of a run use up the fuel)
FairSpec == Spec /\ \A t \in Threads : WF_vars(ThreadStep(t))

-----------------------------------------------------------------------------
\* Types of the scheduler state; active_threads is an Int so that an underflow
\* of the size_t counter would show
TypeOK ==
  /\ tstate \in [Threads -> TStates]
  /\ active_threads \in Int
  /\ done \in BOOLEAN /\ stop_flag \in BOOLEAN
  /\ pending \in [Threads -> {"none", "inc", "dec", "done"}]
  /\ work \in [Threads -> Nat]
  /\ tfacts \in [Threads -> BOOLEAN]
  /\ comm \in [Threads -> SUBSET Threads]
  /\ pc \in [Threads -> Labels]
  /\ next_thread \in [Threads -> Threads]
  /\ scan \in [Threads -> Nat]
  /\ activated \in [Threads -> BOOLEAN]
  /\ has_work \in [Threads -> BOOLEAN]
  /\ stolen \in [Threads -> Nat]
  /\ resume \in [Threads -> {"loop", "setinact"}]
  /\ prio_owner \in [Threads -> Threads]
  /\ fuel \in Nat

Pending(k) == {t \in Threads : pending[t] = k}
ActiveSet == {t \in Threads : IsActive(t)}

\* assert(active_threads > 0) of termination_barrier::is_inactive: the counter
\* never runs below zero, whatever the order of swaps and counter updates
NoUnderflow == \A t \in Threads : pending[t] = "dec" => active_threads > 0

\* While nobody stopped the program, the counter and the tstate bytes disagree
\* exactly by the updates still owed, whoever owes them
CounterMatchesStates ==
  ~ stop_flag =>
    active_threads + Cardinality(Pending("inc"))
      = Cardinality(ActiveSet) + Cardinality(Pending("dec"))

\* With or without a stop the counter is never too small: set_force_inactive
\* may leave it too large, which keeps `done' false, never the reverse
CounterNotTooSmall ==
  active_threads + Cardinality(Pending("inc"))
    >= Cardinality(ActiveSet) + Cardinality(Pending("dec"))

\* The counter of termination_barrier is what the threads make of it: it differs
\* from the number of active threads by the updates still owed, is never too small
\* and never wraps, so that `done' is not set while a thread that owes nothing is
\* active, nor missed because of an underflow
CounterKept == CounterMatchesStates /\ CounterNotTooSmall /\ NoUnderflow

WorkLabels == {"next", "tnode", "haswork", "got", "run", "notify",
               "prio_put", "prio_act", "steal_pop", "steal_add"}

\* assert(is_active()) of new_work, new_work_list and busy_wait: a thread that
\* looks for a node, runs one, sends, announces or steals is active, and so is
\* every thread that owes an increment
WorkersActive ==
  \A t \in Threads : pc[t] \in WorkLabels \/ pending[t] = "inc" => IsActive(t)

\* go_steal_nodes woke the thread up and nobody else can put it to sleep
StealersActive ==
  \A t \in Threads :
    /\ activated[t] => pc[t] \in {"steal", "steal_pop", "steal_add"} /\ IsActive(t)
    /\ pc[t] \in {"steal_pop", "steal_add"} => activated[t]

\* A thread that goes to sleep over a fact for its thread node, which has_work()
\* does not see, is still on the list of the thread that sent the fact
ThreadFactAnnounced ==
  \A t \in Threads :
    tfacts[t] /\ ~ IsActive(t) /\ ~ stop_flag => \E u \in Threads : t \in comm[u]

\* No node waits in a queue and no thread node has facts to process
NoWorkLeft == \A t \in Threads : work[t] = 0 /\ ~ tfacts[t] /\ stolen[t] = 0

\* The decrement that reaches zero while no increment is owed finds no work:
\* the counter detects termination soundly outside the swap-to-count window
ZeroMeansNoWork ==
  [][ ( /\ active_threads = 1 /\ active_threads' = 0
        /\ Pending("inc") = {} /\ ~ stop_flag ) => NoWorkLeft ]_vars

\* Every thread leaves its loop once the program has run out of facts to send,
\* or was stopped
EveryThreadEnds == <>[]AllEnded

\* the assertion in the destructor of thread: a thread ends inactive
EndsInactive == AllEnded => ActiveSet = {}

\* assert_end: a thread that left do_loop finds the barrier done
EndsFinished == \A t \in Threads : At(t, "end") => done

=============================================================================
