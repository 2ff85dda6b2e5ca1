----------------------------- MODULE MCPrimitives -----------------------------
(***************************************************************************)
(* The building blocks of the scheduler, one of which is in use in a       *)
(* behaviour: the queued spinlock, the ticket lock (the alternative of the *)
(* build), the tree barrier of the start-up and the linked node queues.    *)
(***************************************************************************)
EXTENDS QueuedSpinlock, TicketLock, TreeBarrier, BarrierTree, IntrusiveQueue

CONSTANT NUM_THREADS

VARIABLE kind    \* the block of this behaviour

spinVars == vars
allVars == <<kind, spinVars, ticketVars, barrierVars, queueVars>>

ThreadIds == 0 .. NUM_THREADS - 1
Built == Tree(NUM_THREADS, 2, NoParent)

AnyInit ==
  /\ kind \in {"spinlock", "ticket", "barrier", "queue"}
  /\ Init /\ TicketInit /\ BarrierInit /\ QueueInit

Spinlock(A) == kind = "spinlock" /\ A /\ UNCHANGED <<kind, ticketVars, barrierVars, queueVars>>
Tickets(A) == kind = "ticket" /\ A /\ UNCHANGED <<kind, spinVars, barrierVars, queueVars>>
Barrier(A) == kind = "barrier" /\ A /\ UNCHANGED <<kind, spinVars, ticketVars, queueVars>>
NodeQueue(A) == kind = "queue" /\ A /\ UNCHANGED <<kind, spinVars, ticketVars, barrierVars>>

AnyNext == \/ Spinlock(Next) \/ Tickets(TicketNext)
           \/ Barrier(BarrierNext) \/ NodeQueue(QueueNext)

\* A call that has begun goes on, a critical section ends, and init() is run to
\* its end by every thread; nobody has to call lock or try_lock.
Goes(t) ==
  \/ t \in Threads /\ Spinlock(Progress(t))
  \/ t \in Callers /\ Tickets(TicketProgress(t))
  \/ t \in Tid /\ Barrier(Wait(t))

AnySpec == AnyInit /\ [][AnyNext]_allVars /\ \A t \in ThreadIds : WF_allVars(Goes(t))

-----------------------------------------------------------------------------

\* Every thread gets through every round of the barrier.
BarrierOpens == kind = "barrier" => EveryoneGetsThrough
================================================================================
