---------------------------- MODULE QueuedSpinlock ----------------------------
(***************************************************************************)
(* The queued spinlock behind every mutex of the default build             *)
(* (utils/queued_spinlock.hpp, LOCK_ALGORITHM=queued): a linked list of    *)
(* qsl_entry records that live on the stacks of the callers, with one      *)
(* shared pointer `tail'.  One step per access to shared memory.           *)
(*                                                                         *)
(* A thread is a caller of this lock and stands for the entry it passes:   *)
(* `next' and `state' are the fields of that entry.  A thread uses a fresh *)
(* entry per call, so a thread is in at most one call at a time here.      *)
(***************************************************************************)
EXTENDS Integers, Sequences, FiniteSets

CONSTANTS Threads, NullPtr

ASSUME NullAssumption == NullPtr \notin Threads

VARIABLES
  tail,    \* qspinlock::tail
  next,    \* qsl_entry::next
  state,   \* qsl_entry::state, TRUE once access is granted
  stail,   \* local of lock: the entry found in tail
  pc,      \* next access of each thread
  order    \* auxiliary: entries in the list, oldest first

vars == <<tail, next, state, stail, pc, order>>

\* out of the lock; before the swap; before stail->next = ent; spinning;
\* before the swap of try_lock; inside; the accesses of unlock
Labels == {"out", "xchg", "link", "spin", "try", "in",
           "cas", "waitnext", "grant"}

\* the labels of a thread that owns the lock, and of one whose entry is listed
Owning == {"in", "cas", "waitnext", "grant"}
InList == Owning \cup {"link", "spin"}

Init ==
  /\ tail = NullPtr
  /\ next = [t \in Threads |-> NullPtr]
  /\ state = [t \in Threads |-> FALSE]
  /\ stail = [t \in Threads |-> NullPtr]
  /\ pc = [t \in Threads |-> "out"]
  /\ order = <<>>

Goto(t, l) == pc' = [pc EXCEPT ![t] = l]

-----------------------------------------------------------------------------

\* ent->next = nullptr; ent->state = 0 (the entry is still private)
ClearEntry(t, l) ==
  /\ pc[t] = "out"
  /\ next' = [next EXCEPT ![t] = NullPtr]
  /\ state' = [state EXCEPT ![t] = FALSE]
  /\ Goto(t, l)
  /\ UNCHANGED <<tail, stail, order>>

LockStart(t) == ClearEntry(t, "xchg")

LockXchg(t) ==
  /\ pc[t] = "xchg"
  /\ stail' = [stail EXCEPT ![t] = tail]
  /\ tail' = t
  /\ order' = Append(order, t)
  /\ Goto(t, IF tail = NullPtr THEN "in" ELSE "link")
  /\ UNCHANGED <<next, state>>

LockLink(t) ==
  /\ pc[t] = "link"
  /\ next' = [next EXCEPT ![stail[t]] = t]
  /\ Goto(t, "spin")
  /\ UNCHANGED <<tail, state, stail, order>>

\* mutant: the wait ends without the grant
LockSpinNoWait(t) ==
  /\ pc[t] = "spin"
  /\ Goto(t, "in")
  /\ UNCHANGED <<tail, next, state, stail, order>>

LockSpin(t) ==
  /\ pc[t] = "spin"
  /\ state[t]
  /\ Goto(t, "in")
  /\ UNCHANGED <<tail, next, state, stail, order>>

TryStart(t) == ClearEntry(t, "try")

TryCas(t) ==
  /\ pc[t] = "try"
  /\ IF tail = NullPtr
       THEN tail' = t /\ order' = Append(order, t) /\ Goto(t, "in")
       ELSE UNCHANGED <<tail, order>> /\ Goto(t, "out")
  /\ UNCHANGED <<next, state, stail>>

\* if(!ent->next)
UnlockReadNext(t) ==
  /\ pc[t] = "in"
  /\ Goto(t, IF next[t] = NullPtr THEN "cas" ELSE "grant")
  /\ UNCHANGED <<tail, next, state, stail, order>>

\* mutant: the tail is reset without the comparison
UnlockCasBlind(t) ==
  /\ pc[t] = "cas"
  /\ tail' = NullPtr
  /\ order' = Tail(order)
  /\ Goto(t, "out")
  /\ UNCHANGED <<next, state, stail>>

UnlockCas(t) ==
  /\ pc[t] = "cas"
  /\ IF tail = t
       THEN tail' = NullPtr /\ order' = Tail(order) /\ Goto(t, "out")
       ELSE UNCHANGED <<tail, order>> /\ Goto(t, "waitnext")
  /\ UNCHANGED <<next, state, stail>>

\* mutant: no wait for the successor that has swapped and not linked yet
UnlockWaitSkip(t) ==
  /\ pc[t] = "waitnext"
  /\ order' = Tail(order)
  /\ Goto(t, "out")
  /\ UNCHANGED <<tail, next, state, stail>>

UnlockWait(t) ==
  /\ pc[t] = "waitnext"
  /\ next[t] # NullPtr
  /\ Goto(t, "grant")
  /\ UNCHANGED <<tail, next, state, stail, order>>

UnlockGrant(t) ==
  /\ pc[t] = "grant"
  /\ state' = [state EXCEPT ![next[t]] = TRUE]
  /\ order' = Tail(order)
  /\ Goto(t, "out")
  /\ UNCHANGED <<tail, next, stail>>

Lock(t) == LockStart(t) \/ LockXchg(t) \/ LockLink(t) \/ LockSpin(t)
TryLock(t) == TryStart(t) \/ TryCas(t)
Unlock(t) == UnlockReadNext(t) \/ UnlockCas(t) \/ UnlockWait(t) \/ UnlockGrant(t)

Next == \E t \in Threads : Lock(t) \/ TryLock(t) \/ Unlock(t)

Spec == Init /\ [][Next]_vars

\* A call that has begun goes on and a critical section ends; nobody has to
\* call lock or try_lock.
Progress(t) == (Lock(t) /\ pc[t] # "out") \/ TryCas(t) \/ Unlock(t)
FairSpec == Spec /\ \A t \in Threads : WF_vars(Progress(t))

-----------------------------------------------------------------------------

\* Types of the shared pointer, the entries and the locals of lock
TypeOK ==
  /\ tail \in Threads \cup {NullPtr}
  /\ next \in [Threads -> Threads \cup {NullPtr}]
  /\ state \in [Threads -> BOOLEAN]
  /\ stail \in [Threads -> Threads \cup {NullPtr}]
  /\ pc \in [Threads -> Labels]
  /\ order \in Seq(Threads)

\* The entries in `order' are those of the calls in progress, each once; tail
\* is the youngest.  The oldest owns the lock or has been granted it, no other
\* has, and each `next' is set exactly once the successor has linked itself.
ListInv ==
  /\ TypeOK
  /\ \A t \in Threads : pc[t] \in InList <=> \E i \in 1 .. Len(order) : order[i] = t
  /\ \A i, j \in 1 .. Len(order) : order[i] = order[j] => i = j
  /\ tail = IF Len(order) = 0 THEN NullPtr ELSE order[Len(order)]
  /\ \A t \in Threads : pc[t] \in {"xchg", "try"} => next[t] = NullPtr /\ ~state[t]
  /\ \A i \in 1 .. Len(order) : LET t == order[i] IN
       /\ i = 1 => pc[t] \in Owning \/ (pc[t] = "spin" /\ state[t])
       /\ i > 1 => pc[t] \in {"link", "spin"} /\ ~state[t]
       /\ pc[t] = "link" => stail[t] = order[i - 1] /\ next[order[i - 1]] = NullPtr
       /\ pc[t] = "spin" /\ i > 1 => next[order[i - 1]] = t
       /\ i = Len(order) => next[t] = NullPtr /\ pc[t] # "waitnext"
       /\ pc[t] = "grant" => next[t] # NullPtr

\* Two threads never own the lock together, from the moment a call of lock
\* or try_lock returns to the last access of unlock.
MutualExclusion ==
  \A t, u \in Threads : pc[t] \in Owning /\ pc[u] \in Owning => t = u

\* A pointer that a thread is about to write through leads to an entry whose
\* call has not returned: stail->next in lock and ent->next->state in unlock
\* never reach a stack frame that is gone.
NoDeadEntry ==
  \A t \in Threads :
    /\ pc[t] = "link" => /\ stail[t] \in Threads
                         /\ pc[stail[t]] \in InList
    /\ pc[t] = "grant" => next[t] \in Threads /\ pc[next[t]] = "spin"

\* The queued spinlock is safe to use: the list is well formed, one thread owns
\* the lock, and no write goes through a pointer into a frame that is gone.
LockInv == ListInv /\ MutualExclusion /\ NoDeadEntry

\* The list implements the first-come first-served lock.
Fifo == INSTANCE FifoLock WITH
          queue <- order,
          inside <- {t \in Threads : pc[t] \in Owning}

\* Threads enter in the order of their swaps on tail, a try_lock succeeds only
\* on a free lock, and unlock hands the lock to the next in line only.
FifoOrder == Fifo!Spec

\* A thread that has entered the list of waiting entries gets the lock,
\* whatever the threads that use try_lock do.
EveryWaiterEnters == \A t \in Threads : pc[t] = "link" ~> pc[t] = "in"
================================================================================
