------------------------------ MODULE TicketLock ------------------------------
(***************************************************************************)
(* The ticket lock behind utils::mutex when the build defines USE_SPINLOCK *)
(* (utils/spinlock.hpp): two 16-bit counters in one 32-bit word.  lock     *)
(* draws a ticket and waits until it is called, unlock calls the next one, *)
(* try_lock swaps the whole word if it says that nobody is here.           *)
(***************************************************************************)
EXTENDS Integers, FiniteSets

CONSTANTS
  Callers,
  Width       \* bits of `ticket' and `users': 16 in the code

M == 2 ^ Width

\* with as many threads as tickets a full lock would look like a free one
ASSUME TicketsSuffice ==
  /\ Width \in Nat \ {0} /\ M \in Nat
  /\ IsFiniteSet(Callers) /\ Cardinality(Callers) < M

VARIABLES
  ticket,   \* t.s.ticket, the ticket that is called
  users,    \* t.s.users, the next ticket to draw
  me,       \* local of lock and try_lock; in unlock, the ticket it has read
  tpc

ticketVars == <<ticket, users, me, tpc>>

TicketLabels == {"out", "wait", "try", "in", "unlock"}
Called == {"in", "unlock"}
Here == Called \cup {"wait"}

TicketInit ==
  /\ ticket = 0 /\ users = 0
  /\ me = [t \in Callers |-> 0]
  /\ tpc = [t \in Callers |-> "out"]

TicketGoto(t, l) == tpc' = [tpc EXCEPT ![t] = l]

-----------------------------------------------------------------------------

\* atomic_xadd(&t.s.users, 1)
DrawTicket(t) ==
  /\ tpc[t] = "out"
  /\ me' = [me EXCEPT ![t] = users]
  /\ users' = (users + 1) % M
  /\ TicketGoto(t, "wait")
  /\ UNCHANGED ticket

\* while (t.s.ticket != me)
WaitForCall(t) ==
  /\ tpc[t] = "wait"
  /\ ticket = me[t]
  /\ TicketGoto(t, "in")
  /\ UNCHANGED <<ticket, users, me>>

TryRead(t) ==
  /\ tpc[t] = "out"
  /\ me' = [me EXCEPT ![t] = users]
  /\ TicketGoto(t, "try")
  /\ UNCHANGED <<ticket, users>>

\* mutant: the swap compares the users half only
TrySwapUsersOnly(t) ==
  /\ tpc[t] = "try"
  /\ IF users = me[t]
       THEN users' = (me[t] + 1) % M /\ TicketGoto(t, "in")
       ELSE UNCHANGED users /\ TicketGoto(t, "out")
  /\ UNCHANGED <<ticket, me>>

\* both halves are compared with the number of users read before
TrySwap(t) ==
  /\ tpc[t] = "try"
  /\ IF users = me[t] /\ ticket = me[t]
       THEN users' = (me[t] + 1) % M /\ TicketGoto(t, "in")
       ELSE UNCHANGED users /\ TicketGoto(t, "out")
  /\ UNCHANGED <<ticket, me>>

\* t.s.ticket++ is no atomic instruction: a read and a write
UnlockRead(t) ==
  /\ tpc[t] = "in"
  /\ me' = [me EXCEPT ![t] = ticket]
  /\ TicketGoto(t, "unlock")
  /\ UNCHANGED <<ticket, users>>

\* mutant: the ticket is not cut off at its width
UnlockWriteWide(t) ==
  /\ tpc[t] = "unlock"
  /\ ticket' = me[t] + 1
  /\ TicketGoto(t, "out")
  /\ UNCHANGED <<users, me>>

UnlockWrite(t) ==
  /\ tpc[t] = "unlock"
  /\ ticket' = (me[t] + 1) % M
  /\ TicketGoto(t, "out")
  /\ UNCHANGED <<users, me>>

TicketProgress(t) == \/ WaitForCall(t) \/ TrySwap(t) \/ UnlockRead(t) \/ UnlockWrite(t)

TicketNext == \E t \in Callers : DrawTicket(t) \/ TryRead(t) \/ TicketProgress(t)

TicketSpec == TicketInit /\ [][TicketNext]_ticketVars

-----------------------------------------------------------------------------

\* how many tickets lie between the one that is called and this one
Place(p) == (p - ticket) % M
Holders == {t \in Callers : tpc[t] \in Here}

\* The counters and tickets are numbers of the given width, and the tickets
\* that were drawn and not called off are those of the threads in the lock:
\* one each, from `ticket' up to `users', around the end of the range.
TicketInv ==
  /\ ticket \in 0 .. M - 1 /\ users \in 0 .. M - 1
  /\ me \in [Callers -> 0 .. M - 1] /\ tpc \in [Callers -> TicketLabels]
  /\ Place(users) = Cardinality(Holders)
  /\ \A t \in Holders : Place(me[t]) < Place(users)
  /\ \A t, u \in Holders : me[t] = me[u] => t = u
  /\ \A t \in Callers : tpc[t] \in Called => me[t] = ticket

\* The thread that holds the i-th ticket from the one that is called.
TicketFifo == INSTANCE FifoLock WITH
                Threads <- Callers,
                queue <- [i \in 1 .. Place(users) |->
                            CHOOSE t \in Holders : Place(me[t]) = i - 1],
                inside <- {t \in Callers : tpc[t] \in Called}

\* Callers enter in the order of their tickets, also when the counters wrap
\* around, a try_lock succeeds only on a free lock, and no two are inside.
TicketOrder == TicketFifo!Spec

\* A ticket that was drawn is called.
TicketCalled == \A t \in Callers : tpc[t] = "wait" ~> tpc[t] = "in"
================================================================================
