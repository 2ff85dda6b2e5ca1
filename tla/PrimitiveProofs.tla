--------------------------- MODULE PrimitiveProofs ---------------------------
(***************************************************************************)
(* Proofs about the two locks, each a FIFO lock for any set of threads,    *)
(* about the tree barrier, and about the linked node queues.               *)
(***************************************************************************)
EXTENDS QueuedSpinlock, TicketLock, TreeBarrier, IntrusiveQueue, LibraryProofs

-----------------------------------------------------------------------------
(* The queued spinlock.  ListInv is inductive for any set of threads;      *)
(* mutual exclusion, the absence of writes to dead entries and the         *)
(* refinement of the FIFO lock follow from it.                             *)

USE NullAssumption

\* ListInv holds of the unlocked lock.
LEMMA InitList == Init => ListInv
  BY DEF Init, ListInv, TypeOK, Labels, InList, Owning

\* ListInv is preserved by every step.
LEMMA StepList == ListInv /\ [Next]_vars => ListInv'
<1> SUFFICES ASSUME ListInv, [Next]_vars PROVE ListInv'
  OBVIOUS
<1> USE DEF ListInv, TypeOK, Labels, InList, Owning
<1>1. ASSUME NEW t \in Threads, LockStart(t) PROVE ListInv'
  BY <1>1 DEF LockStart, ClearEntry, Goto
<1>2. ASSUME NEW t \in Threads, LockXchg(t) PROVE ListInv'
  BY <1>2 DEF LockXchg, Goto
<1>3. ASSUME NEW t \in Threads, LockLink(t) PROVE ListInv'
  <2>1. PICK i \in 1 .. Len(order) : order[i] = t
    BY <1>3 DEF LockLink
  <2>2. /\ i > 1 /\ i - 1 \in 1 .. Len(order)
        /\ stail[t] = order[i - 1] /\ order[i - 1] \in Threads
    BY <1>3, <2>1 DEF LockLink
  <2>3. /\ next' = [next EXCEPT ![order[i - 1]] = t]
        /\ pc' = [pc EXCEPT ![t] = "spin"]
        /\ UNCHANGED <<tail, state, stail, order>>
    BY <1>3, <2>2 DEF LockLink, Goto
  <2>4. TypeOK'
    BY <2>2, <2>3
  <2>5. ASSUME NEW j \in 1 .. Len(order)
        PROVE  next'[order[j]] = IF j = i - 1 THEN t ELSE next[order[j]]
    BY <2>2, <2>3
  <2>6. ASSUME NEW j \in 1 .. Len(order)
        PROVE  pc'[order[j]] = IF j = i THEN "spin" ELSE pc[order[j]]
    BY <2>1, <2>3
  <2>7. \A u \in Threads : pc'[u] \in InList <=>
                             \E j \in 1 .. Len(order') : order'[j] = u
    BY <1>3, <2>3 DEF LockLink
  <2>8. \A u \in Threads : pc'[u] \in {"xchg", "try"} => next'[u] = NullPtr /\ ~state'[u]
    BY <1>3, <2>2, <2>3 DEF LockLink
  <2>9. ASSUME NEW j \in 1 .. Len(order)
        PROVE  /\ j = 1 => \/ pc'[order[j]] \in Owning
                           \/ pc'[order[j]] = "spin" /\ state[order[j]]
               /\ j > 1 => pc'[order[j]] \in {"link", "spin"} /\ ~state[order[j]]
               /\ pc'[order[j]] = "grant" => next'[order[j]] # NullPtr
               /\ j = Len(order) => next'[order[j]] = NullPtr /\ pc'[order[j]] # "waitnext"
    BY <2>1, <2>2, <2>5, <2>6
  <2>10. ASSUME NEW j \in 1 .. Len(order), j > 1
         PROVE  /\ pc'[order[j]] = "link" => /\ stail[order[j]] = order[j - 1]
                                             /\ next'[order[j - 1]] = NullPtr
                /\ pc'[order[j]] = "spin" => next'[order[j - 1]] = order[j]
    <3>1. j - 1 \in 1 .. Len(order) /\ (j - 1 = i - 1 <=> j = i)
      BY <2>2, <2>10
    <3> QED
      BY <2>1, <2>2, <2>5, <2>6, <2>10, <3>1
  <2> QED
    BY <2>3, <2>4, <2>7, <2>8, <2>9, <2>10
<1>4. ASSUME NEW t \in Threads, LockSpin(t) PROVE ListInv'
  BY <1>4 DEF LockSpin, Goto
<1>5. ASSUME NEW t \in Threads, TryStart(t) PROVE ListInv'
  BY <1>5 DEF TryStart, ClearEntry, Goto
<1>6. ASSUME NEW t \in Threads, TryCas(t) PROVE ListInv'
  BY <1>6 DEF TryCas, Goto
<1>7. ASSUME NEW t \in Threads, UnlockReadNext(t) PROVE ListInv'
  BY <1>7 DEF UnlockReadNext, Goto
<1>8. ASSUME NEW t \in Threads, UnlockCas(t) PROVE ListInv'
  BY <1>8 DEF UnlockCas, Goto
<1>9. ASSUME NEW t \in Threads, UnlockWait(t) PROVE ListInv'
  BY <1>9 DEF UnlockWait, Goto
<1>10. ASSUME NEW t \in Threads, UnlockGrant(t) PROVE ListInv'
  <2>1. t = order[1] /\ 1 \in 1 .. Len(order) /\ next[t] # NullPtr
    BY <1>10 DEF UnlockGrant
  <2>2. Len(order) > 1 /\ 2 \in 1 .. Len(order)
    BY <2>1
  <2>3. next[t] = order[2] /\ pc[order[2]] = "spin" /\ order[2] \in Threads
    BY <2>1, <2>2
  <2>4. /\ state' = [state EXCEPT ![order[2]] = TRUE]
        /\ pc' = [pc EXCEPT ![t] = "out"]
        /\ order' = Tail(order)
        /\ UNCHANGED <<tail, next, stail>>
    BY <1>10, <2>3 DEF UnlockGrant, Goto
  <2>5. /\ Len(order') = Len(order) - 1
        /\ \A j \in 1 .. Len(order') : order'[j] = order[j + 1]
        /\ order' \in Seq(Threads)
    BY <2>2, <2>4
  <2> HIDE DEF InList
  <2>6. ASSUME NEW u \in Threads
        PROVE  (\E j \in 1 .. Len(order') : order'[j] = u) <=>
               (u # t /\ \E j \in 1 .. Len(order) : order[j] = u)
    <3>1. ASSUME NEW j \in 1 .. Len(order'), order'[j] = u
          PROVE  u # t /\ \E k \in 1 .. Len(order) : order[k] = u
      <4>1. j + 1 \in 1 .. Len(order) /\ order[j + 1] = u /\ j + 1 # 1
        BY <2>5, <2>2, <3>1
      <4> QED
        BY <2>1, <4>1
    <3>2. ASSUME NEW k \in 1 .. Len(order), order[k] = u, u # t
          PROVE  \E j \in 1 .. Len(order') : order'[j] = u
      <4>1. k - 1 \in 1 .. Len(order') /\ order'[k - 1] = order[k]
        BY <2>1, <2>2, <2>5, <3>2
      <4> QED
        BY <3>2, <4>1
    <3> QED
      BY <3>1, <3>2
  <2>7. \A u \in Threads : pc'[u] \in InList <=>
                             \E j \in 1 .. Len(order') : order'[j] = u
    BY <2>4, <2>6 DEF InList
  <2>8. ASSUME NEW j \in 1 .. Len(order')
        PROVE  /\ order'[j] = order[j + 1] /\ j + 1 \in 1 .. Len(order)
               /\ pc'[order'[j]] = pc[order[j + 1]]
               /\ state'[order'[j]] = IF j = 1 THEN TRUE ELSE state[order[j + 1]]
    <3>1. order'[j] = order[j + 1] /\ j + 1 \in 1 .. Len(order) /\ j + 1 # 1
      BY <2>2, <2>5
    <3>2. /\ order[j + 1] # t /\ order[j + 1] \in Threads
          /\ order[j + 1] = order[2] <=> j = 1
      BY <2>1, <2>2, <3>1
    <3> QED
      BY <2>3, <2>4, <3>1, <3>2, ZenonT(40)
  <2>9. ASSUME NEW j \in 1 .. Len(order')
        PROVE  /\ j = 1 => pc'[order'[j]] \in Owning \/
                            (pc'[order'[j]] = "spin" /\ state'[order'[j]])
               /\ j > 1 => pc'[order'[j]] \in {"link", "spin"} /\ ~state'[order'[j]]
               /\ j = Len(order') => /\ next'[order'[j]] = NullPtr
                                     /\ pc'[order'[j]] # "waitnext"
               /\ pc'[order'[j]] = "grant" => next'[order'[j]] # NullPtr
    <3>1. j + 1 > 1 /\ j \in Nat /\ (j = Len(order') <=> j + 1 = Len(order))
      BY <2>2, <2>5
    <3>2. /\ pc[order[j + 1]] \in {"link", "spin"} /\ ~state[order[j + 1]]
          /\ j + 1 = Len(order) => next[order[j + 1]] = NullPtr
      BY <2>8, <3>1
    <3>3. /\ pc'[order'[j]] = pc[order[j + 1]] /\ next'[order'[j]] = next[order[j + 1]]
          /\ state'[order'[j]] = IF j = 1 THEN TRUE ELSE state[order[j + 1]]
      BY <2>4, <2>8
    <3>4. j = 1 => pc[order[j + 1]] = "spin"
      <4>1. j = 1 => j + 1 = 2
        OBVIOUS
      <4> QED
        BY <2>3, <4>1
    <3> QED
      BY <3>1, <3>2, <3>3, <3>4
  <2>10. ASSUME NEW j \in 1 .. Len(order')
         PROVE  /\ pc'[order'[j]] = "link" => /\ stail'[order'[j]] = order'[j - 1]
                                              /\ next'[order'[j - 1]] = NullPtr
                /\ pc'[order'[j]] = "spin" /\ j > 1 => next'[order'[j - 1]] = order'[j]
    <3>1. CASE j = 1
      <4>1. j + 1 = 2
        BY <3>1
      <4>2. pc'[order'[j]] = pc[order[2]]
        BY <2>8, <4>1, ZenonT(40)
      <4> QED
        BY <2>3, <3>1, <4>2
    <3>2. CASE j > 1
      <4>1. j - 1 \in 1 .. Len(order') /\ order'[j - 1] = order[j]
        BY <2>5, <3>2
      <4> QED
        BY <2>4, <2>8, <3>2, <4>1
    <3> QED
      BY <2>5, <3>1, <3>2
  <2>11. TypeOK'
    BY <2>3, <2>4, <2>5
  <2>12. /\ \A i, j \in 1 .. Len(order') : order'[i] = order'[j] => i = j
         /\ tail' = IF Len(order') = 0 THEN NullPtr ELSE order'[Len(order')]
    <3>1. Len(order') # 0 /\ Len(order') \in 1 .. Len(order')
          /\ order'[Len(order')] = order[Len(order)]
      BY <2>2, <2>5
    <3>2. ASSUME NEW i \in 1 .. Len(order'), NEW j \in 1 .. Len(order'),
                 order'[i] = order'[j]
          PROVE  i = j
      <4>1. i + 1 \in 1 .. Len(order) /\ j + 1 \in 1 .. Len(order)
            /\ order[i + 1] = order[j + 1]
        BY <2>2, <2>5, <3>2
      <4>2. i + 1 = j + 1
        BY <4>1
      <4> QED
        BY <4>2
    <3> QED
      BY <2>2, <2>4, <3>1, <3>2
  <2>13. \A u \in Threads : pc'[u] \in {"xchg", "try"} => next'[u] = NullPtr /\ ~state'[u]
    BY <2>1, <2>3, <2>4
  <2> QED
    BY <2>7, <2>9, <2>10, <2>11, <2>12, <2>13
<1>11. CASE UNCHANGED vars
  BY <1>11 DEF vars
<1> QED
  BY <1>1, <1>2, <1>3, <1>4, <1>5, <1>6, <1>7, <1>8, <1>9, <1>10, <1>11
     DEF Next, Lock, TryLock, Unlock

\* The list of entries is well formed in every reachable state.
THEOREM ListCorrect == Spec => []ListInv
  BY InitList, StepList, PTL DEF Spec

\* No two threads own the lock at the same time, however many compete.
THEOREM Exclusion == Spec => []MutualExclusion
<1>1. ListInv => MutualExclusion
  BY DEF ListInv, TypeOK, MutualExclusion, InList, Owning
<1> QED
  BY <1>1, ListCorrect, PTL

\* lock and unlock never write to an entry whose call has returned.
THEOREM EntriesAlive == Spec => []NoDeadEntry
<1>1. ListInv => NoDeadEntry
  <2> SUFFICES ASSUME ListInv, NEW t \in Threads
               PROVE  /\ pc[t] = "link" => stail[t] \in Threads /\ pc[stail[t]] \in InList
                      /\ pc[t] = "grant" => next[t] \in Threads /\ pc[next[t]] = "spin"
    BY DEF NoDeadEntry
  <2> USE DEF ListInv, TypeOK, Owning, InList
  <2>1. ASSUME pc[t] = "link" PROVE stail[t] \in Threads /\ pc[stail[t]] \in InList
    <3>1. PICK i \in 1 .. Len(order) : order[i] = t
      BY <2>1
    <3>2. i - 1 \in 1 .. Len(order) /\ stail[t] = order[i - 1] /\ order[i - 1] \in Threads
      BY <2>1, <3>1
    <3> QED
      BY <3>2
  <2>2. ASSUME pc[t] = "grant" PROVE next[t] \in Threads /\ pc[next[t]] = "spin"
    <3>1. t = order[1] /\ 2 \in 1 .. Len(order) /\ order[2] \in Threads
      BY <2>2
    <3>2. pc[order[2]] = "spin" /\ next[t] = order[2]
      BY <2>2, <3>1
    <3> QED
      BY <3>1, <3>2
  <2> QED
    BY <2>1, <2>2
<1> QED
  BY <1>1, ListCorrect, PTL

\* What the steps do to the abstract queue and critical section.
LEMMA StepFifo == ListInv /\ [Next]_vars => [Fifo!Next]_(Fifo!lockVars)
<1> SUFFICES ASSUME ListInv, [Next]_vars PROVE [Fifo!Next]_(Fifo!lockVars)
  OBVIOUS
<1> DEFINE inside == {t \in Threads : pc[t] \in Owning}
<1> USE DEF ListInv, TypeOK
<1>1. ASSUME NEW t \in Threads,
             LockStart(t) \/ LockLink(t) \/ TryStart(t) \/ UnlockReadNext(t) \/ UnlockWait(t)
      PROVE  order' = order /\ inside' = inside
  BY <1>1 DEF LockStart, LockLink, TryStart, UnlockReadNext, UnlockWait, ClearEntry,
              Goto, Owning
<1>2. ASSUME NEW t \in Threads, LockXchg(t) PROVE Fifo!EnterFree(t) \/ Fifo!Arrive(t)
  <2>1. CASE tail = NullPtr
    <3>1. order = <<>>
      BY <2>1
    <3>2. inside' = {t}
      BY <1>2, <2>1, <3>1 DEF LockXchg, Goto, Owning, InList
    <3> QED
      BY <1>2, <3>1, <3>2 DEF LockXchg, Fifo!EnterFree
  <2>2. CASE tail # NullPtr
    <3>1. order # <<>> /\ ~ \E i \in 1 .. Len(order) : order[i] = t
      BY <1>2, <2>2 DEF LockXchg, Owning, InList
    <3>2. inside' = inside
      BY <1>2, <2>2 DEF LockXchg, Goto, Owning
    <3> QED
      BY <1>2, <3>1, <3>2 DEF LockXchg, Fifo!Arrive, Fifo!Waiting
  <2> QED
    BY <2>1, <2>2
<1>3. ASSUME NEW t \in Threads, LockSpin(t) PROVE Fifo!EnterNext(t)
  <2>1. Len(order) > 0 /\ order[1] = t /\ order # <<>>
    BY <1>3 DEF LockSpin, InList, Owning
  <2>2. inside = {}
    BY <1>3, <2>1 DEF LockSpin, InList, Owning
  <2>3. inside' = {t} /\ order' = order
    BY <1>3, <2>2 DEF LockSpin, Goto, Owning
  <2> QED
    BY <2>1, <2>2, <2>3 DEF Fifo!EnterNext
<1>4. ASSUME NEW t \in Threads, TryCas(t)
      PROVE  Fifo!EnterFree(t) \/ (order' = order /\ inside' = inside)
  <2>1. CASE tail = NullPtr
    <3>1. order = <<>>
      BY <2>1
    <3>2. inside' = {t}
      BY <1>4, <2>1, <3>1 DEF TryCas, Goto, Owning, InList
    <3> QED
      BY <1>4, <2>1, <3>1, <3>2 DEF TryCas, Fifo!EnterFree
  <2>2. CASE tail # NullPtr
    BY <1>4, <2>2 DEF TryCas, Goto, Owning
  <2> QED
    BY <2>1, <2>2
<1>5. ASSUME NEW t \in Threads, pc[t] \in Owning,
             pc' = [pc EXCEPT ![t] = "out"], order' = Tail(order)
      PROVE  Fifo!Leave(t)
  <2>1. inside = {t} /\ order # <<>>
    <3>1. Len(order) > 0 /\ order[1] = t
      BY <1>5 DEF InList, Owning
    <3>2. \A u \in Threads : pc[u] \in Owning => u = t
      BY <3>1 DEF InList, Owning
    <3> QED
      BY <1>5, <3>1, <3>2
  <2>2. inside' = {}
    BY <1>5, <2>1 DEF Owning
  <2> QED
    BY <1>5, <2>1, <2>2 DEF Fifo!Leave
<1>6. ASSUME NEW t \in Threads, UnlockCas(t)
      PROVE  Fifo!Leave(t) \/ (order' = order /\ inside' = inside)
  <2>1. CASE tail = t
    BY <1>5, <1>6, <2>1 DEF UnlockCas, Goto, Owning
  <2>2. CASE tail # t
    BY <1>6, <2>2 DEF UnlockCas, Goto, Owning
  <2> QED
    BY <2>1, <2>2
<1>7. ASSUME NEW t \in Threads, UnlockGrant(t) PROVE Fifo!Leave(t)
  BY <1>5, <1>7 DEF UnlockGrant, Goto, Owning
<1>8. CASE UNCHANGED vars
  BY <1>8 DEF vars, Fifo!lockVars
<1> HIDE DEF inside, ListInv
<1>9. CASE Next
  <2>1. PICK t \in Threads : Lock(t) \/ TryLock(t) \/ Unlock(t)
    BY <1>9 DEF Next
  <2>2. \/ Fifo!EnterFree(t) \/ Fifo!Arrive(t) \/ Fifo!EnterNext(t) \/ Fifo!Leave(t)
        \/ order' = order /\ inside' = inside
    BY <1>1, <1>2, <1>3, <1>4, <1>6, <1>7, <2>1 DEF Lock, TryLock, Unlock
  <2> QED
    BY <2>2 DEF Fifo!Next, Fifo!lockVars, inside
<1> QED
  BY <1>8, <1>9

\* What users of the queued spinlock rely on, together: the list is well formed,
\* one thread owns the lock and no write reaches a frame that is gone.
THEOREM LockSafe == Spec => []LockInv
BY ListCorrect, Exclusion, EntriesAlive, PTL DEF LockInv

\* The queued spinlock implements the first-come first-served lock.
THEOREM ImplementsFifo == Spec => FifoOrder
<1>1. Init => Fifo!Init
  BY DEF Init, Fifo!Init, Owning
<1> QED
  BY <1>1, ListCorrect, StepFifo, PTL DEF Spec, FifoOrder, Fifo!Spec

-----------------------------------------------------------------------------
(* The ticket lock, for any width of its counters and any set of threads   *)
(* that has fewer members than there are tickets.                          *)
(*                                                                         *)
(* The argument is about distances on the circle of tickets: the threads   *)
(* in the lock hold exactly the tickets at distance 0, 1, ... from the one *)
(* that is called, up to the one to be drawn next (QueueInv).  Since there *)
(* are fewer threads than tickets the last distance never comes round.     *)

Ticket == 0 .. M - 1

\* from ticket a up to ticket p; the ticket after p
Dist(a, p) == (p - a) % M
Succ(p) == (p + 1) % M

\* The remainders that occur.
LEMMA ModFact ==
  ASSUME NEW K \in Nat \ {0}, NEW a \in Int
  PROVE  /\ 0 <= a /\ a < K => a % K = a
         /\ 0 - K <= a /\ a < 0 => a % K = a + K
         /\ a = K => a % K = 0
  OBVIOUS

\* There is at least one ticket.
LEMMA SomeTickets == M \in Nat \ {0}
  BY TicketsSuffice, FS_CardinalityType

\* Distances by cases.
LEMMA DistFact ==
  ASSUME NEW a \in Ticket, NEW p \in Ticket
  PROVE  /\ Dist(a, p) = IF p >= a THEN p - a ELSE p - a + M
         /\ Dist(a, p) \in Ticket
<1>1. M \in Nat \ {0} /\ p - a \in Int /\ 0 - M <= p - a /\ p - a < M
  BY SomeTickets DEF Ticket
<1>2. (p - a) % M = IF p >= a THEN p - a ELSE p - a + M
  <2>1. CASE p >= a
    <3>1. 0 <= p - a
      BY <2>1 DEF Ticket
    <3> QED
      BY <1>1, <2>1, <3>1, ModFact
  <2>2. CASE p < a
    <3>1. p - a < 0 /\ ~(p >= a)
      BY <2>2 DEF Ticket
    <3> QED
      BY <1>1, <3>1, ModFact
  <2> QED
    BY <2>1, <2>2 DEF Ticket
<1> QED
  BY <1>2, SomeTickets DEF Dist, Ticket

\* The next ticket, by cases.
LEMMA SuccFact ==
  ASSUME NEW p \in Ticket
  PROVE  Succ(p) = (IF p = M - 1 THEN 0 ELSE p + 1) /\ Succ(p) \in Ticket
<1>1. M \in Nat \ {0} /\ p + 1 \in Int /\ 0 <= p + 1 /\ p + 1 <= M
  BY SomeTickets DEF Ticket
<1>2. CASE p + 1 = M
  BY <1>1, <1>2, SomeTickets, ModFact DEF Succ, Ticket
<1>3. CASE p + 1 < M
  <2>1. (p + 1) % M = p + 1
    BY <1>1, <1>3, ModFact
  <2> QED
    BY <1>1, <1>3, <2>1 DEF Succ, Ticket
<1> QED
  BY <1>1, <1>2, <1>3 DEF Ticket

\* Tickets at the same distance are the same; the called one is at distance 0.
LEMMA DistInjective ==
  ASSUME NEW a \in Ticket, NEW p \in Ticket, NEW q \in Ticket
  PROVE  /\ Dist(a, p) = Dist(a, q) <=> p = q
         /\ Dist(a, p) = 0 <=> p = a
<1>1. /\ Dist(a, p) = IF p >= a THEN p - a ELSE p - a + M
      /\ Dist(a, q) = IF q >= a THEN q - a ELSE q - a + M
  BY DistFact
<1> QED
  BY <1>1, SomeTickets DEF Ticket

\* Drawing a ticket and calling one change distances by one.
LEMMA DistStep ==
  ASSUME NEW a \in Ticket, NEW p \in Ticket
  PROVE  /\ Dist(a, p) < M - 1 => Dist(a, Succ(p)) = Dist(a, p) + 1
         /\ p # a => Dist(Succ(a), p) = Dist(a, p) - 1
<1>1. Succ(p) \in Ticket /\ Succ(a) \in Ticket
  BY SuccFact
<1>2. /\ Dist(a, p) = IF p >= a THEN p - a ELSE p - a + M
      /\ Dist(a, Succ(p)) = IF Succ(p) >= a THEN Succ(p) - a ELSE Succ(p) - a + M
      /\ Dist(Succ(a), p) = IF p >= Succ(a) THEN p - Succ(a) ELSE p - Succ(a) + M
  BY <1>1, DistFact
<1>3. /\ Succ(p) = IF p = M - 1 THEN 0 ELSE p + 1
      /\ Succ(a) = IF a = M - 1 THEN 0 ELSE a + 1
  BY SuccFact
<1> QED
  BY <1>2, <1>3, SomeTickets DEF Ticket

-----------------------------------------------------------------------------

\* Every ticket between the called one and the next one is held by a thread.
Held == \A i \in 0 .. Place(users) - 1 : \E t \in Holders : Place(me[t]) = i

QueueInv == TicketInv /\ Held

\* QueueInv with the definitions that the steps need.
Shape ==
  /\ ticket \in Ticket /\ users \in Ticket
  /\ me \in [Callers -> Ticket] /\ tpc \in [Callers -> TicketLabels]
  /\ Dist(ticket, users) = Cardinality(Holders)
  /\ \A t \in Holders : Dist(ticket, me[t]) < Dist(ticket, users)
  /\ \A t, u \in Holders : me[t] = me[u] => t = u
  /\ \A t \in Callers : tpc[t] \in Called => me[t] = ticket
  /\ \A i \in 0 .. Dist(ticket, users) - 1 : \E t \in Holders : Dist(ticket, me[t]) = i

\* Shape is QueueInv.
LEMMA ShapeIs == QueueInv <=> Shape
  BY DEF QueueInv, TicketInv, Held, Shape, Place, Dist, Ticket

\* The threads in the lock are finitely many, and a thread outside leaves room
\* for its ticket.
LEMMA RoomFor ==
  /\ IsFiniteSet(Holders) /\ Cardinality(Holders) \in Nat
  /\ \A t \in Callers \ Holders : Cardinality(Holders) < M - 1
<1>1. Holders \subseteq Callers
  BY DEF Holders
<1>2. IsFiniteSet(Holders) /\ Cardinality(Holders) \in Nat
  BY <1>1, TicketsSuffice, FS_Subset, FS_CardinalityType
<1>3. ASSUME NEW t \in Callers \ Holders PROVE Cardinality(Holders) < M - 1
  <2>1. Holders \cup {t} \subseteq Callers
    BY <1>1
  <2>2. Cardinality(Holders \cup {t}) = Cardinality(Holders) + 1
    BY <1>2, FS_AddElement
  <2>3. Cardinality(Holders \cup {t}) <= Cardinality(Callers)
    BY <2>1, TicketsSuffice, FS_Subset
  <2> QED
    BY <1>2, <2>2, <2>3, SomeTickets, TicketsSuffice, FS_CardinalityType
<1> QED
  BY <1>2, <1>3

\* The lock starts empty.
LEMMA InitQueue == TicketInit => QueueInv
<1> SUFFICES ASSUME TicketInit PROVE Shape
  BY ShapeIs
<1>1. Holders = {}
  BY DEF TicketInit, Holders, Here, Called
<1>2. 0 \in Ticket /\ Dist(0, 0) = 0 /\ Cardinality(Holders) = 0
  BY <1>1, SomeTickets, DistFact, FS_EmptySet DEF Ticket
<1> QED
  BY <1>1, <1>2 DEF TicketInit, Shape, TicketLabels, Called

\* A thread that gets ticket `users' at the end of the queue.
LEMMA JoinShape ==
  ASSUME Shape, NEW t \in Callers \ Holders, NEW l \in Here,
         users' = Succ(users), ticket' = ticket,
         me' = [me EXCEPT ![t] = users], tpc' = [tpc EXCEPT ![t] = l],
         l \in Called => users = ticket
  PROVE  Shape'
<1>1. Holders' = Holders \cup {t} /\ t \notin Holders
  BY DEF Holders, Shape, Here, Called, TicketLabels
<1>2. Cardinality(Holders') = Cardinality(Holders) + 1
  BY <1>1, RoomFor, FS_AddElement
<1>3. /\ users \in Ticket /\ ticket \in Ticket /\ users' \in Ticket
      /\ Dist(ticket, users') = Dist(ticket, users) + 1
      /\ Dist(ticket, users) \in Nat
  BY RoomFor, DistStep, SuccFact, DistFact DEF Shape, Ticket
<1>4. /\ \A u \in Holders : me'[u] = me[u] /\ me[u] \in Ticket
      /\ me'[t] = users
  BY <1>1 DEF Shape, Holders
<1>5. /\ me' \in [Callers -> Ticket] /\ tpc' \in [Callers -> TicketLabels]
      /\ \A u \in Callers : tpc'[u] \in Called => me'[u] = ticket
  BY <1>3 DEF Shape, TicketLabels, Here, Called
<1>6. \A u \in Holders' : Dist(ticket, me'[u]) < Dist(ticket, users')
  <2> SUFFICES ASSUME NEW u \in Holders' PROVE Dist(ticket, me'[u]) < Dist(ticket, users')
    OBVIOUS
  <2>1. CASE u = t
    BY <1>3, <1>4, <2>1
  <2>2. CASE u \in Holders
    <3>1. Dist(ticket, me[u]) < Dist(ticket, users) /\ Dist(ticket, me[u]) \in Ticket
      BY <1>3, <1>4, <2>2, DistFact DEF Shape
    <3> QED
      BY <1>3, <1>4, <2>2, <3>1 DEF Ticket
  <2> QED
    BY <1>1, <2>1, <2>2
<1>7. \A u, v \in Holders' : me'[u] = me'[v] => u = v
  <2>1. \A u \in Holders : me[u] # users
    BY <1>3, <1>4 DEF Shape
  <2> QED
    BY <1>1, <1>4, <2>1 DEF Shape
<1>8. \A i \in 0 .. Dist(ticket, users') - 1 : \E u \in Holders' : Dist(ticket, me'[u]) = i
  <2> SUFFICES ASSUME NEW i \in 0 .. Dist(ticket, users)
               PROVE  \E u \in Holders' : Dist(ticket, me'[u]) = i
    BY <1>3
  <2>1. CASE i = Dist(ticket, users)
    BY <1>1, <1>4, <2>1
  <2>2. CASE i < Dist(ticket, users)
    <3>1. PICK u \in Holders : Dist(ticket, me[u]) = i
      BY <1>3, <2>2 DEF Shape
    <3> QED
      BY <1>1, <1>4, <3>1
  <2> QED
    BY <1>3, <2>1, <2>2
<1>9. Dist(ticket', users') = Cardinality(Holders')
  BY <1>2, <1>3 DEF Shape
<1> QED
  BY <1>3, <1>5, <1>6, <1>7, <1>8, <1>9 DEF Shape

\* A step that moves no thread into or out of the lock.
LEMMA StayShape ==
  ASSUME Shape, NEW t \in Callers, NEW l \in TicketLabels, NEW m \in Ticket,
         UNCHANGED <<ticket, users>>,
         me' = [me EXCEPT ![t] = m], tpc' = [tpc EXCEPT ![t] = l],
         l \in Here <=> t \in Holders,
         t \in Holders => m = me[t],
         l \in Called => m = ticket
  PROVE  Shape' /\ Holders' = Holders
<1>1. Holders' = Holders
  BY DEF Holders, Shape
<1>2. \A u \in Holders : me'[u] = me[u]
  BY DEF Holders, Shape
<1>3. /\ me' \in [Callers -> Ticket] /\ tpc' \in [Callers -> TicketLabels]
      /\ \A u \in Callers : tpc'[u] \in Called => me'[u] = ticket
  BY DEF Shape
<1> QED
  BY <1>1, <1>2, <1>3 DEF Shape

\* The called thread leaves and the next ticket is called.
LEMMA LeaveShape ==
  ASSUME Shape, NEW t \in Callers, tpc[t] \in Called,
         ticket' = Succ(ticket), UNCHANGED <<users, me>>,
         tpc' = [tpc EXCEPT ![t] = "out"]
  PROVE  Shape'
<1>1. Holders' = Holders \ {t} /\ t \in Holders /\ me[t] = ticket
  BY DEF Holders, Shape, Here, Called, TicketLabels
<1>2. Cardinality(Holders') = Cardinality(Holders) - 1
  BY <1>1, RoomFor, FS_RemoveElement
<1>3. /\ users \in Ticket /\ ticket \in Ticket /\ ticket' \in Ticket
      /\ users # ticket
      /\ Dist(ticket', users) = Dist(ticket, users) - 1
  <2>1. Dist(ticket, me[t]) < Dist(ticket, users) /\ ticket \in Ticket /\ users \in Ticket
    BY <1>1 DEF Shape
  <2>2. Dist(ticket, ticket) = 0
    BY <2>1, DistInjective
  <2>3. users # ticket
    BY <1>1, <2>1, <2>2
  <2> QED
    BY <2>1, <2>3, SuccFact, DistStep
<1>4. \A u \in Holders' : /\ me[u] \in Ticket /\ me[u] # ticket
                          /\ Dist(ticket', me[u]) = Dist(ticket, me[u]) - 1
  BY <1>1, <1>3, DistStep DEF Shape, Holders
<1>5. /\ tpc' \in [Callers -> TicketLabels]
      /\ \A u \in Callers : tpc'[u] \notin Called
  <2>1. \A u \in Callers : tpc[u] \in Called => u = t
    BY <1>1 DEF Shape, Holders, Here
  <2> QED
    BY <2>1 DEF Shape, TicketLabels, Called
<1>6. \A u \in Holders' : Dist(ticket', me[u]) < Dist(ticket', users)
  <2> SUFFICES ASSUME NEW u \in Holders' PROVE Dist(ticket', me[u]) < Dist(ticket', users)
    OBVIOUS
  <2>1. Dist(ticket, me[u]) < Dist(ticket, users) /\ me[u] \in Ticket
    BY <1>1, <1>4 DEF Shape
  <2>2. Dist(ticket, me[u]) \in Int /\ Dist(ticket, users) \in Int
    <3>1. Dist(ticket, me[u]) \in Ticket /\ Dist(ticket, users) \in Ticket
      BY <1>3, <2>1, DistFact
    <3> QED
      BY <3>1, SomeTickets DEF Ticket
  <2> QED
    BY <1>3, <1>4, <2>1, <2>2
<1>7. \A i \in 0 .. Dist(ticket', users) - 1 : \E u \in Holders' : Dist(ticket', me[u]) = i
  <2> SUFFICES ASSUME NEW i \in 0 .. Dist(ticket', users) - 1
               PROVE  \E u \in Holders' : Dist(ticket', me[u]) = i
    OBVIOUS
  <2>1. i + 1 \in 0 .. Dist(ticket, users) - 1
    BY <1>3, DistFact DEF Ticket
  <2>2. PICK u \in Holders : Dist(ticket, me[u]) = i + 1
    BY <2>1 DEF Shape
  <2>3. u # t
    BY <1>1, <1>3, <2>2, DistInjective
  <2> QED
    BY <1>1, <1>4, <2>2, <2>3
<1>8. Dist(ticket', users') = Cardinality(Holders')
  BY <1>2, <1>3 DEF Shape
<1> QED
  BY <1>1, <1>3, <1>5, <1>6, <1>7, <1>8 DEF Shape

-----------------------------------------------------------------------------

\* The refinement mapping: the threads in the lock by the distance of their tickets.
Line == [i \in 1 .. Place(users) |-> CHOOSE t \in Holders : Place(me[t]) = i - 1]
Inside == {t \in Callers : tpc[t] \in Called}

\* What is known of the line.
LineFact ==
  /\ Line \in Seq(Callers) /\ Len(Line) = Dist(ticket, users)
  /\ \A i \in 1 .. Len(Line) : Line[i] \in Holders /\ Dist(ticket, me[Line[i]]) = i - 1
  /\ \A t \in Holders : Dist(ticket, me[t]) + 1 \in 1 .. Len(Line)
                        /\ Line[Dist(ticket, me[t]) + 1] = t

\* The line holds the threads in the lock, each at the place of its ticket.
LEMMA LineIs == Shape => LineFact
<1> SUFFICES ASSUME Shape PROVE LineFact
  OBVIOUS
<1> DEFINE n == Dist(ticket, users)
<1>1. /\ ticket \in Ticket /\ users \in Ticket
      /\ \A t \in Holders : t \in Callers /\ me[t] \in Ticket
  BY DEF Shape, Holders
<1>2. n \in Nat
  <2>1. n \in Ticket
    BY <1>1, DistFact
  <2> QED
    BY <2>1, SomeTickets DEF Ticket
<1>3. Line = [i \in 1 .. n |-> CHOOSE t \in Holders : Dist(ticket, me[t]) = i - 1]
  BY DEF Line, Place, Dist
<1>4. ASSUME NEW i \in 1 .. n
      PROVE  Line[i] \in Holders /\ Dist(ticket, me[Line[i]]) = i - 1
  <2>1. i - 1 \in 0 .. n - 1
    BY <1>2
  <2>2. \E t \in Holders : Dist(ticket, me[t]) = i - 1
    BY <2>1 DEF Shape
  <2> HIDE DEF n
  <2>3. Line[i] = CHOOSE t \in Holders : Dist(ticket, me[t]) = i - 1
    BY <1>3
  <2> QED
    BY <2>2, <2>3
<1>5. Line \in Seq(Callers) /\ Len(Line) = n
  <2> HIDE DEF n
  <2>1. DOMAIN Line = 1 .. n /\ \A i \in 1 .. n : Line[i] \in Callers
    BY <1>1, <1>3, <1>4
  <2>2. Line \in [1 .. n -> Callers]
    BY <1>3, <2>1
  <2> QED
    BY <1>2, <2>2, SeqDef, LenProperties
<1>6. ASSUME NEW t \in Holders
      PROVE  Dist(ticket, me[t]) + 1 \in 1 .. n /\ Line[Dist(ticket, me[t]) + 1] = t
  <2>1. Dist(ticket, me[t]) < n
    BY DEF Shape
  <2>2. Dist(ticket, me[t]) \in Nat
    <3>1. Dist(ticket, me[t]) \in Ticket
      BY <1>1, DistFact
    <3> QED
      BY <3>1, SomeTickets DEF Ticket
  <2>3. Dist(ticket, me[t]) + 1 \in 1 .. n
    BY <1>2, <2>1, <2>2
  <2> DEFINE u == Line[Dist(ticket, me[t]) + 1]
  <2>4. u \in Holders /\ Dist(ticket, me[u]) = Dist(ticket, me[t])
    BY <1>4, <2>2, <2>3
  <2> HIDE DEF u
  <2>5. me[u] = me[t]
    BY <1>1, <2>4, DistInjective
  <2>6. u = t
    BY <2>4, <2>5 DEF Shape
  <2> QED
    BY <2>3, <2>6 DEF u
<1> QED
  BY <1>4, <1>5, <1>6 DEF LineFact

\* The same of the next state.
LEMMA LineIsNext == Shape' => LineFact'
  BY LineIs, PTL

\* A sequence with the right threads in the right places is the line.
LEMMA SameLine ==
  ASSUME LineFact', NEW s \in Seq(Callers), Len(s) = Dist(ticket, users)',
         \A i \in 1 .. Len(s) : s[i] \in Holders' /\ Dist(ticket', me'[s[i]]) = i - 1
  PROVE  Line' = s
<1>1. ASSUME NEW i \in 1 .. Len(s) PROVE s[i] = Line'[i]
  <2>1. Line'[Dist(ticket', me'[s[i]]) + 1] = s[i] /\ Dist(ticket', me'[s[i]]) = i - 1
    BY DEF LineFact
  <2> QED
    BY <2>1
<1> QED
  BY <1>1, SeqEqual DEF LineFact

\* A step that moves no thread into or out of the lock keeps the line.
LEMMA StayLine ==
  ASSUME Shape, Shape', Holders' = Holders, UNCHANGED <<ticket, users>>,
         \A t \in Holders : me'[t] = me[t]
  PROVE  Line' = Line
<1>1. LineFact /\ LineFact'
  BY LineIs, LineIsNext
<1> QED
  BY <1>1, SameLine DEF LineFact

\* Whoever is called is at the head of the line, and nobody else is inside.
LEMMA CalledFirst ==
  ASSUME Shape, NEW t \in Holders, me[t] = ticket
  PROVE  /\ Line # <<>> /\ Head(Line) = t
         /\ Inside \subseteq {t}
<1>1. LineFact
  BY LineIs
<1>2. Dist(ticket, me[t]) = 0
  BY DistInjective DEF Shape
<1>3. 1 \in 1 .. Len(Line) /\ Line[1] = t
  BY <1>1, <1>2 DEF LineFact
<1>4. Line # <<>> /\ Head(Line) = t
  BY <1>1, <1>3 DEF LineFact
<1>5. Inside \subseteq {t}
  BY DEF Shape, Inside, Holders, Here
<1> QED
  BY <1>4, <1>5

\* lock draws a ticket: the thread arrives at the end of the line.
LEMMA StepDraw ==
  ASSUME Shape, NEW t \in Callers, DrawTicket(t)
  PROVE  Shape' /\ TicketFifo!Arrive(t)
<1>1. t \in Callers \ Holders
  BY DEF DrawTicket, Holders, Here, Called
<1>2. Shape'
  BY <1>1, JoinShape DEF DrawTicket, TicketGoto, Succ, Here, Called
<1>3. LineFact /\ LineFact'
  BY <1>2, LineIs, LineIsNext
<1>4. /\ Holders' = Holders \cup {t} /\ me'[t] = users
      /\ \A u \in Holders : me'[u] = me[u]
      /\ Inside' = Inside /\ ticket' = ticket
  BY <1>1 DEF DrawTicket, TicketGoto, Holders, Inside, Shape, Here, Called, TicketLabels
<1>5. Dist(ticket', users') = Dist(ticket, users) + 1
  BY <1>1, RoomFor, DistStep DEF DrawTicket, Shape, Succ
<1>6. Line' = Append(Line, t)
  <2> DEFINE s == Append(Line, t)
  <2>1. /\ s \in Seq(Callers) /\ Len(s) = Len(Line) + 1
        /\ s[Len(Line) + 1] = t
        /\ \A i \in 1 .. Len(Line) : s[i] = Line[i]
    BY <1>3 DEF LineFact
  <2>2. ASSUME NEW i \in 1 .. Len(s)
        PROVE  s[i] \in Holders' /\ Dist(ticket', me'[s[i]]) = i - 1
    <3> HIDE DEF s
    <3>1. Len(Line) \in Nat
      BY <1>3, LenProperties DEF LineFact
    <3>2. CASE i = Len(Line) + 1
      BY <1>3, <1>4, <2>1, <3>1, <3>2 DEF LineFact
    <3>3. CASE i \in 1 .. Len(Line)
      <4>1. Line[i] \in Holders /\ Dist(ticket, me[Line[i]]) = i - 1
        BY <1>3, <3>3 DEF LineFact
      <4>2. s[i] = Line[i]
        BY <2>1, <3>3
      <4> QED
        BY <1>4, <4>1, <4>2
    <3> QED
      BY <2>1, <3>1, <3>2, <3>3
  <2>3. Len(s) = Dist(ticket', users')
    BY <1>3, <1>5, <2>1 DEF LineFact
  <2> HIDE DEF s
  <2>4. Line' = s
    BY <1>3, <2>1, <2>2, <2>3, SameLine
  <2> QED
    BY <2>4 DEF s
<1>7. ~\E i \in DOMAIN Line : Line[i] = t
  BY <1>1, <1>3 DEF LineFact
<1> QED
  BY <1>2, <1>4, <1>6, <1>7 DEF TicketFifo!Arrive, TicketFifo!Waiting, Line, Inside

\* try_lock finds the lock free: the thread is alone.
LEMMA StepTrySwap ==
  ASSUME Shape, NEW t \in Callers, TrySwap(t)
  PROVE  Shape' /\ (TicketFifo!EnterFree(t) \/ UNCHANGED <<Line, Inside>>)
<1>1. t \in Callers \ Holders
  BY DEF TrySwap, Holders, Here, Called
<1>2. CASE users = me[t] /\ ticket = me[t]
  <2>1. /\ me' = [me EXCEPT ![t] = users]
        /\ users' = Succ(users) /\ ticket' = ticket /\ tpc' = [tpc EXCEPT ![t] = "in"]
    BY <1>2 DEF TrySwap, TicketGoto, Succ, Shape
  <2>2. Shape'
    BY <1>1, <1>2, <2>1, JoinShape DEF Here, Called
  <2>3. LineFact /\ LineFact'
    BY <2>2, LineIs, LineIsNext
  <2>4. Dist(ticket, users) = 0 /\ Dist(ticket', users') = 1
    <3>1. Dist(ticket, users) = 0 /\ ticket \in Ticket /\ users \in Ticket
      BY <1>2, DistInjective DEF Shape
    <3> QED
      BY <1>1, <2>1, <3>1, RoomFor, DistStep DEF Shape
  <2>5. Line = <<>> /\ Holders = {}
    BY <2>3, <2>4 DEF LineFact
  <2>6. Holders' = {t} /\ Inside' = {t}
    BY <2>1, <2>5 DEF Holders, Inside, Shape, Here, Called, TicketLabels
  <2>7. Line' = <<t>>
    BY <2>3, <2>4, <2>6 DEF LineFact
  <2> QED
    BY <2>2, <2>5, <2>6, <2>7 DEF TicketFifo!EnterFree, Line, Inside
<1>3. CASE ~(users = me[t] /\ ticket = me[t])
  <2>1. /\ me' = [me EXCEPT ![t] = me[t]] /\ me[t] \in Ticket
        /\ UNCHANGED <<ticket, users>> /\ tpc' = [tpc EXCEPT ![t] = "out"]
    BY <1>3 DEF TrySwap, TicketGoto, Shape
  <2>2. Shape' /\ Holders' = Holders
    BY <1>1, <2>1, StayShape DEF TicketLabels, Here, Called
  <2>3. Line' = Line
    BY <1>3, <2>1, <2>2, StayLine DEF TrySwap
  <2>4. Inside' = Inside
    BY <2>1, <1>1 DEF Inside, Shape, Holders, Here, Called, TicketLabels
  <2> QED
    BY <2>2, <2>3, <2>4
<1> QED
  BY <1>2, <1>3

\* The other steps of lock and try_lock.
LEMMA StepWait ==
  ASSUME Shape, NEW t \in Callers
  PROVE  /\ WaitForCall(t) => Shape' /\ TicketFifo!EnterNext(t)
         /\ TryRead(t) => Shape' /\ UNCHANGED <<Line, Inside>>
<1>1. ASSUME WaitForCall(t) PROVE Shape' /\ TicketFifo!EnterNext(t)
  <2>1. /\ me' = [me EXCEPT ![t] = me[t]] /\ me[t] \in Ticket /\ me[t] = ticket
        /\ UNCHANGED <<ticket, users, me>> /\ tpc' = [tpc EXCEPT ![t] = "in"]
        /\ tpc[t] = "wait"
    BY <1>1 DEF WaitForCall, TicketGoto, Shape
  <2>2. t \in Holders
    BY <2>1 DEF Holders, Here
  <2>3. Shape' /\ Holders' = Holders
    BY <2>1, <2>2, StayShape DEF TicketLabels, Here, Called
  <2>4. Line' = Line
    BY <2>1, <2>3, StayLine
  <2>5. /\ Line # <<>> /\ Head(Line) = t
        /\ Inside \subseteq {t}
    BY <2>1, <2>2, CalledFirst
  <2>6. Inside = {} /\ Inside' = {t}
    BY <2>1, <2>5 DEF Inside, Shape, Called
  <2> QED
    BY <2>3, <2>4, <2>5, <2>6 DEF TicketFifo!EnterNext, Line, Inside
<1>2. ASSUME TryRead(t) PROVE Shape' /\ UNCHANGED <<Line, Inside>>
  <2>1. /\ me' = [me EXCEPT ![t] = users] /\ users \in Ticket
        /\ UNCHANGED <<ticket, users>> /\ tpc' = [tpc EXCEPT ![t] = "try"]
        /\ t \notin Holders
    BY <1>2 DEF TryRead, TicketGoto, Shape, Holders, Here, Called
  <2>2. Shape' /\ Holders' = Holders
    BY <2>1, StayShape DEF TicketLabels, Here, Called
  <2>3. Line' = Line
    BY <2>1, <2>2, StayLine DEF Shape, Holders
  <2>4. Inside' = Inside
    BY <2>1 DEF Inside, Shape, Holders, Here, Called, TicketLabels
  <2> QED
    BY <2>2, <2>3, <2>4
<1> QED
  BY <1>1, <1>2

\* unlock: the read changes nothing, the write lets the first of the line leave.
LEMMA StepUnlock ==
  ASSUME Shape, NEW t \in Callers
  PROVE  /\ UnlockRead(t) => Shape' /\ UNCHANGED <<Line, Inside>>
         /\ UnlockWrite(t) => Shape' /\ TicketFifo!Leave(t)
<1>1. ASSUME UnlockRead(t) PROVE Shape' /\ UNCHANGED <<Line, Inside>>
  <2>1. /\ me' = [me EXCEPT ![t] = ticket] /\ me[t] = ticket /\ ticket \in Ticket
        /\ UNCHANGED <<ticket, users>> /\ tpc' = [tpc EXCEPT ![t] = "unlock"]
        /\ t \in Holders
    BY <1>1 DEF UnlockRead, TicketGoto, Shape, Holders, Here, Called
  <2>2. Shape' /\ Holders' = Holders
    BY <2>1, StayShape DEF TicketLabels, Here, Called
  <2>3. Line' = Line
    BY <2>1, <2>2, StayLine DEF Shape, Holders
  <2>4. Inside' = Inside
    BY <1>1, <2>1 DEF UnlockRead, Inside, Shape, Called
  <2> QED
    BY <2>2, <2>3, <2>4
<1>2. ASSUME UnlockWrite(t) PROVE Shape' /\ TicketFifo!Leave(t)
  <2>1. /\ me[t] = ticket /\ tpc[t] \in Called /\ t \in Holders
        /\ ticket' = Succ(ticket) /\ UNCHANGED <<users, me>>
        /\ tpc' = [tpc EXCEPT ![t] = "out"]
    BY <1>2 DEF UnlockWrite, TicketGoto, Shape, Holders, Here, Called, Succ
  <2>2. Shape'
    BY <2>1, LeaveShape
  <2>3. LineFact /\ LineFact'
    BY <2>2, LineIs, LineIsNext
  <2>4. Line # <<>> /\ Head(Line) = t /\ Inside \subseteq {t}
    BY <2>1, CalledFirst
  <2>5. Inside = {t} /\ Inside' = {}
    BY <2>1, <2>4 DEF Inside, Shape, Called
  <2>6. Holders' = Holders \ {t}
    BY <2>1 DEF Holders, Shape, Here, Called
  <2>7. Line' = Tail(Line)
    <3> DEFINE s == Tail(Line)
    <3>1. /\ s \in Seq(Callers) /\ Len(s) = Len(Line) - 1 /\ Len(Line) \in Nat \ {0}
          /\ \A i \in 1 .. Len(s) : i + 1 \in 1 .. Len(Line) /\ s[i] = Line[i + 1]
      BY <2>3, <2>4 DEF LineFact
    <3> HIDE DEF s
    <3>2. ASSUME NEW i \in 1 .. Len(s)
          PROVE  s[i] \in Holders' /\ Dist(ticket', me'[s[i]]) = i - 1
      <4>1. s[i] \in Holders /\ Dist(ticket, me[s[i]]) = i /\ i # 0 /\ i \in Int
        BY <2>3, <3>1 DEF LineFact
      <4>2. /\ ticket \in Ticket /\ me[s[i]] \in Ticket
            /\ Dist(ticket, ticket) = 0
        BY <4>1, DistInjective DEF Shape, Holders
      <4>3. me[s[i]] # ticket
        BY <4>1, <4>2
      <4> QED
        BY <2>1, <2>6, <4>1, <4>2, <4>3, DistStep
    <3>3. Dist(ticket', users') = Len(Line) - 1
      <4>1. ticket \in Ticket /\ users \in Ticket /\ Dist(ticket, users) # 0
        BY <2>3, <3>1 DEF LineFact, Shape
      <4>2. users # ticket
        BY <4>1, DistInjective
      <4> QED
        BY <2>1, <2>3, <4>1, <4>2, DistStep DEF LineFact
    <3>4. Line' = s
      BY <2>3, <3>1, <3>2, <3>3, SameLine
    <3> QED
      BY <3>4 DEF s
  <2> QED
    BY <2>2, <2>4, <2>5, <2>7 DEF TicketFifo!Leave, Line, Inside
<1> QED
  BY <1>1, <1>2

\* Every step keeps the shape of the queue of tickets and is a step of the FIFO
\* lock or leaves its state as it is.
LEMMA StepTicket ==
  Shape /\ [TicketNext]_ticketVars => Shape' /\ [TicketFifo!Next]_(TicketFifo!lockVars)
<1> SUFFICES ASSUME Shape, [TicketNext]_ticketVars
             PROVE  Shape' /\ (TicketFifo!Next \/ UNCHANGED TicketFifo!lockVars)
  OBVIOUS
<1>1. UNCHANGED <<Line, Inside>> => UNCHANGED TicketFifo!lockVars
  BY DEF TicketFifo!lockVars, Line, Inside
<1>2. ASSUME NEW t \in Callers, DrawTicket(t) \/ TryRead(t) \/ TicketProgress(t)
      PROVE  Shape' /\ (TicketFifo!Next \/ UNCHANGED <<Line, Inside>>)
  BY <1>2, StepDraw, StepTrySwap, StepWait, StepUnlock DEF TicketProgress, TicketFifo!Next
<1>3. ASSUME UNCHANGED ticketVars PROVE Shape' /\ UNCHANGED <<Line, Inside>>
  <2>1. Holders' = Holders /\ Inside' = Inside /\ UNCHANGED <<ticket, users, me, tpc>>
    BY <1>3 DEF ticketVars, Holders, Inside
  <2>2. Shape'
    BY <2>1 DEF Shape
  <2>3. Line' = Line
    BY <2>1, <2>2, StayLine
  <2> QED
    BY <2>1, <2>2, <2>3
<1> QED
  BY <1>1, <1>2, <1>3 DEF TicketNext

\* The threads in the lock hold the tickets from the called one to the next one
\* to be drawn, one each, for any width of the counters.
THEOREM TicketsCorrect == TicketSpec => []QueueInv
<1>1. TicketInit => Shape
  BY InitQueue, ShapeIs
<1> QED
  BY <1>1, StepTicket, ShapeIs, PTL DEF TicketSpec

\* The ticket lock of the USE_SPINLOCK build implements the FIFO lock: threads
\* enter in the order in which they drew tickets, across the wrap of the
\* counters, try_lock takes only a free lock and no two threads are inside.
THEOREM TicketImplementsFifo == TicketSpec => TicketOrder
<1>1. TicketInit => Shape
  BY InitQueue, ShapeIs
<1>2. TicketInit => TicketFifo!Init
  <2> SUFFICES ASSUME TicketInit PROVE Line = <<>> /\ Inside = {}
    BY DEF TicketFifo!Init, Line, Inside
  <2>1. Dist(ticket, users) = 0
    BY <1>1, DistInjective DEF TicketInit, Shape
  <2>2. LineFact
    BY <1>1, LineIs
  <2> QED
    BY <2>1, <2>2 DEF LineFact, Inside, TicketInit, Called
<1> QED
  BY <1>1, <1>2, StepTicket, PTL DEF TicketSpec, TicketOrder, TicketFifo!Spec

-----------------------------------------------------------------------------
(* The tree barrier keeps every thread back until all have arrived, for    *)
(* any tree and any number of rounds.                                      *)
(*                                                                         *)
(* The round of the root is the round of the barrier: every thread is in   *)
(* it, or still spins at the end of the one before (InRound).  Once a node *)
(* has seen its count at zero, all its children spin in the same round     *)
(* (ChildrenSignalled); so when the root turns the sense, every node that  *)
(* can be reached from it spins, and that is everybody.                    *)

Root == CHOOSE r \in Tid : \A t \in Tid : Parent[t] = NoParent <=> t = r

\* Everybody is in the round of the root or waits to be let into it, and the
\* sense of a thread tells which.
InRound ==
  \A t \in Tid :
    /\ passed[t] = passed[Root] \/ (passed[t] + 1 = passed[Root] /\ bpc[t] = "spin")
    /\ thread_sense[t] = thread_sense[Root] <=> passed[t] = passed[Root]

\* The root turns, everybody else signals and spins, and only for the rounds there are.
Roles ==
  \A t \in Tid :
    /\ bpc[t] = "turn" => t = Root
    /\ bpc[t] \in {"signal", "spin"} => t # Root
    /\ bpc[t] # "out" => passed[t] < Rounds

\* A node that has seen its count at zero has only spinning children.
ChildrenSignalled ==
  \A t, c \in Tid :
    Parent[c] = t /\ passed[t] = passed[Root] /\ bpc[t] \in {"reset", "signal", "spin", "turn"}
      => passed[c] = passed[Root] /\ bpc[c] = "spin"

\* The children that have not signalled in the round t counts for.
Missing(t) ==
  {c \in Children(t) : ~(passed[c] = CountedRound(t) /\ bpc[c] = "spin")}

BarrierInv ==
  /\ BarrierTypeOK
  /\ sense # thread_sense[Root]
  /\ InRound /\ Roles /\ ChildrenSignalled
  /\ \A t \in Tid : children_count[t] = Cardinality(Missing(t))

-----------------------------------------------------------------------------

\* The root is the one node without a parent, and a set that contains it and the
\* children of its members contains every node.
LEMMA RootFact ==
  /\ Root \in Tid
  /\ \A t \in Tid : Parent[t] = NoParent <=> t = Root
  /\ \A S \in SUBSET Tid :
       Root \in S /\ (\A t \in Tid : Parent[t] \in S => t \in S) => S = Tid
<1>1. PICK r \in Tid :
        /\ \A t \in Tid : Parent[t] = NoParent <=> t = r
        /\ \A S \in SUBSET Tid :
             r \in S /\ (\A t \in Tid : Parent[t] \in S => t \in S) => S = Tid
  BY TreeAssumption
<1>2. Root \in Tid /\ \A t \in Tid : Parent[t] = NoParent <=> t = Root
  BY <1>1 DEF Root
<1>3. Root = r
  BY <1>1, <1>2
<1> QED
  BY <1>1, <1>2, <1>3

\* Sets of children are finite and counts are numbers.
LEMMA MissingFinite ==
  ASSUME NEW t \in Tid
  PROVE  IsFiniteSet(Missing(t)) /\ Cardinality(Missing(t)) \in Nat
<1>1. Missing(t) \subseteq Tid
  BY DEF Missing, Children
<1> QED
  BY <1>1, TreeAssumption, FS_Subset, FS_CardinalityType

\* BarrierInv holds of the new barrier.
LEMMA InitBarrier == BarrierInit => BarrierInv
<1> SUFFICES ASSUME BarrierInit PROVE BarrierInv
  OBVIOUS
<1>1. ASSUME NEW t \in Tid PROVE Missing(t) = Children(t)
  BY DEF Missing, Children, BarrierInit
<1>2. ASSUME NEW t \in Tid PROVE Count(t) \in Int /\ Count(t) = Cardinality(Missing(t))
  BY <1>1, MissingFinite DEF Count
<1>3. BarrierTypeOK
  <2>1. children_count \in [Tid -> Int] /\ passed \in [Tid -> 0 .. Rounds]
    BY <1>2, TreeAssumption DEF BarrierInit
  <2>2. thread_sense \in [Tid -> BOOLEAN] /\ sense \in BOOLEAN /\ bpc \in [Tid -> BarrierLabels]
    BY DEF BarrierInit, BarrierLabels
  <2> QED
    BY <2>1, <2>2 DEF BarrierTypeOK
<1> QED
  BY <1>2, <1>3, RootFact DEF BarrierInit, BarrierInv, InRound, Roles, ChildrenSignalled

\* BarrierInv is preserved by every step.
LEMMA StepBarrier == BarrierInv /\ [BarrierNext]_barrierVars => BarrierInv'
<1> SUFFICES ASSUME BarrierInv, [BarrierNext]_barrierVars PROVE BarrierInv'
  OBVIOUS
<1> USE RootFact
<1> USE TreeAssumption DEF BarrierInv, BarrierTypeOK, BarrierLabels
<1>1. ASSUME NEW t \in Tid, Arrive(t) PROVE BarrierInv'
  <2> USE <1>1 DEF Arrive, BarrierGoto
  <2>1. ASSUME NEW u \in Tid PROVE Missing(u)' = Missing(u)
    BY DEF Missing, Children, CountedRound
  <2> QED
    BY <2>1 DEF InRound, Roles, ChildrenSignalled
<1>2. ASSUME NEW t \in Tid, ChildrenReady(t) PROVE BarrierInv'
  <2> USE <1>2 DEF ChildrenReady, BarrierGoto
  <2>1. ASSUME NEW u \in Tid PROVE Missing(u)' = Missing(u)
    BY DEF Missing, Children, CountedRound
  <2>2. Missing(t) = {}
    BY MissingFinite, FS_EmptySet
  <2>3. \A c \in Tid : Parent[c] = t => passed[c] = passed[t] /\ bpc[c] = "spin"
    BY <2>2 DEF Missing, Children, CountedRound
  <2>4. passed[t] = passed[Root]
    BY DEF InRound
  <2>5. ChildrenSignalled'
    BY <2>3, <2>4 DEF ChildrenSignalled
  <2> QED
    BY <2>1, <2>5 DEF InRound, Roles
<1>3. ASSUME NEW t \in Tid, Reset(t) PROVE BarrierInv'
  <2> USE <1>3 DEF Reset, BarrierGoto
  <2>1. ASSUME NEW u \in Tid, u # t PROVE Missing(u)' = Missing(u)
    BY <2>1 DEF Missing, Children, CountedRound
  <2>2. passed[t] = passed[Root]
    BY DEF InRound
  <2>3. CountedRound(t)' = passed[Root] + 1
    BY <2>2 DEF CountedRound
  <2>4. Missing(t)' = Children(t)
    BY <2>3 DEF Missing, Children, InRound
  <2>5. Count(t) = Cardinality(Missing(t)') /\ Count(t) \in Int
    <3>1. Children(t) \subseteq Tid
      BY DEF Children
    <3> QED
      BY <2>4, <3>1, FS_Subset, FS_CardinalityType DEF Count
  <2>6. \A u \in Tid : children_count'[u] = Cardinality(Missing(u)')
    BY <2>1, <2>5
  <2>7. BarrierTypeOK' /\ InRound' /\ Roles'
    BY <2>5 DEF InRound, Roles
  <2>8. ChildrenSignalled'
    BY DEF ChildrenSignalled
  <2> QED
    BY <2>6, <2>7, <2>8
<1>4. ASSUME NEW t \in Tid, Signal(t) PROVE BarrierInv'
  <2> USE <1>4 DEF Signal, BarrierGoto
  <2>1. /\ passed[t] = passed[Root] /\ t # Root
        /\ Parent[t] \in Tid /\ Parent[t] # t
    BY DEF InRound, Roles, ChildrenSignalled
  <2>2. CountedRound(Parent[t]) = passed[Root] /\ CountedRound(Parent[t])' = passed[Root]
    BY <2>1 DEF InRound, ChildrenSignalled, CountedRound
  <2>3. ASSUME NEW u \in Tid, u # Parent[t] PROVE Missing(u)' = Missing(u)
    BY <2>3 DEF Missing, Children, CountedRound
  <2>4. t \in Missing(Parent[t])
    BY DEF Missing, Children
  <2>5. Missing(Parent[t])' = Missing(Parent[t]) \ {t}
    BY <2>1, <2>2 DEF Missing, Children
  <2>6. Cardinality(Missing(Parent[t])') = children_count[Parent[t]] - 1
    <3>1. Cardinality(Missing(Parent[t]) \ {t}) = Cardinality(Missing(Parent[t])) - 1
      BY <2>1, <2>4, MissingFinite, FS_RemoveElement, ZenonT(40)
    <3> QED
      BY <2>1, <2>5, <3>1
  <2>7. \A u \in Tid : children_count'[u] = Cardinality(Missing(u)')
    BY <2>1, <2>3, <2>6
  <2>8. BarrierTypeOK' /\ InRound' /\ Roles'
    BY <2>1 DEF InRound, Roles
  <2>9. ChildrenSignalled'
    BY <2>1 DEF ChildrenSignalled
  <2> QED
    BY <2>7, <2>8, <2>9
<1>5. ASSUME NEW t \in Tid, Spin(t) PROVE BarrierInv'
  <2> USE <1>5 DEF Spin, LeaveBarrier, BarrierGoto
  <2>1. passed[t] + 1 = passed[Root] /\ t # Root
    BY DEF InRound, Roles
  <2>2. passed'[t] = passed[Root] /\ thread_sense'[t] = thread_sense[Root] /\ bpc'[t] = "out"
    BY <2>1 DEF InRound
  <2>3. \A u \in Tid : u # t => /\ passed'[u] = passed[u] /\ bpc'[u] = bpc[u]
                                /\ thread_sense'[u] = thread_sense[u]
    OBVIOUS
  <2>4. ASSUME NEW u \in Tid PROVE CountedRound(u)' = CountedRound(u)
    BY <2>1, <2>2, <2>3 DEF CountedRound
  <2>5. ASSUME NEW u \in Tid PROVE Missing(u)' = Missing(u)
    <3>1. CASE Parent[t] = u
      <4>1. CountedRound(u) = passed[Root]
        BY <2>1, <3>1 DEF CountedRound, InRound, ChildrenSignalled
      <4> QED
        BY <2>1, <2>2, <2>3, <2>4, <4>1 DEF Missing, Children
    <3>2. CASE Parent[t] # u
      BY <2>3, <2>4, <3>2 DEF Missing, Children
    <3> QED
      BY <3>1, <3>2
  <2>6. BarrierTypeOK' /\ Roles'
    BY <2>1 DEF Roles
  <2>7. InRound' /\ sense' # thread_sense'[Root]
    BY <2>1, <2>2, <2>3 DEF InRound
  <2>8. ChildrenSignalled'
    BY <2>1, <2>2, <2>3 DEF ChildrenSignalled
  <2> QED
    BY <2>5, <2>6, <2>7, <2>8
<1>6. ASSUME NEW t \in Tid, Turn(t) PROVE BarrierInv'
  <2> USE <1>6 DEF Turn, LeaveBarrier, BarrierGoto
  <2> DEFINE Spinning == {u \in Tid : passed[u] = passed[Root] /\ bpc[u] = "spin"}
  <2>1. t = Root
    BY DEF Roles
  <2>2. \A u \in Tid : Parent[u] \in Spinning \cup {Root} => u \in Spinning \cup {Root}
    BY <2>1 DEF ChildrenSignalled
  <2>3. Spinning \cup {Root} = Tid
    <3>1. Spinning \cup {Root} \in SUBSET Tid /\ Root \in Spinning \cup {Root}
      OBVIOUS
    <3> HIDE DEF Spinning
    <3> QED
      BY <2>2, <3>1
  <2>4. \A u \in Tid : u # Root => passed[u] = passed[Root] /\ bpc[u] = "spin"
    BY <2>3
  <2> HIDE DEF Spinning
  <2>5. /\ passed'[Root] = passed[Root] + 1 /\ bpc'[Root] = "out"
        /\ thread_sense'[Root] = ~thread_sense[Root]
        /\ \A u \in Tid : u # Root => /\ passed'[u] = passed[u] /\ bpc'[u] = bpc[u]
                                      /\ thread_sense'[u] = thread_sense[u]
    BY <2>1
  <2>6. ASSUME NEW u \in Tid PROVE CountedRound(u)' = CountedRound(u)
    BY <2>1, <2>5 DEF CountedRound
  <2>7. ASSUME NEW u \in Tid PROVE Missing(u)' = Missing(u)
    <3>1. Root \notin Children(u)
      BY DEF Children
    <3> QED
      BY <2>5, <2>6, <3>1 DEF Missing, Children
  <2>8. BarrierTypeOK' /\ Roles'
    BY <2>1 DEF Roles
  <2>9. InRound' /\ sense' # thread_sense'[Root]
    BY <2>4, <2>5 DEF InRound
  <2>10. ChildrenSignalled'
    BY <2>4, <2>5 DEF ChildrenSignalled
  <2> QED
    BY <2>7, <2>8, <2>9, <2>10
<1>7. CASE UNCHANGED barrierVars
  <2> USE <1>7 DEF barrierVars
  <2>1. ASSUME NEW u \in Tid PROVE Missing(u)' = Missing(u)
    BY DEF Missing, Children, CountedRound
  <2> QED
    BY <2>1 DEF InRound, Roles, ChildrenSignalled
<1> QED
  BY <1>1, <1>2, <1>3, <1>4, <1>5, <1>6, <1>7 DEF BarrierNext, Wait, BarrierDone

\* BarrierInv is an invariant of the barrier.
LEMMA InductiveBarrier == BarrierSpec => []BarrierInv
  BY InitBarrier, StepBarrier, PTL DEF BarrierSpec

\* tree_barrier::wait lets nobody through before everybody has arrived, loses no
\* signal of a child that is a round ahead and tells the rounds apart by one
\* bit, for any number of threads, any tree and any number of rounds.
THEOREM BarrierCorrect == BarrierSpec => []BarrierHolds
<1>1. BarrierInv => NobodyEarly
  BY RootFact DEF BarrierInv, BarrierTypeOK, InRound, NobodyEarly
<1>2. BarrierInv => CountsChildren
  BY DEF BarrierInv, CountsChildren, Missing
<1>3. BarrierInv => SenseTellsRounds
  <2> SUFFICES ASSUME BarrierInv, NEW t \in Tid
               PROVE  /\ bpc[t] = "spin" =>
                           (sense = thread_sense[t] <=> \E u \in Tid : passed[u] > passed[t])
                      /\ bpc[t] = "turn" => sense # thread_sense[t]
    BY DEF SenseTellsRounds
  <2>1. sense = thread_sense[t] <=> passed[t] + 1 = passed[Root]
    BY RootFact DEF BarrierInv, BarrierTypeOK, InRound
  <2>2. (\E u \in Tid : passed[u] > passed[t]) <=> passed[t] + 1 = passed[Root]
    BY RootFact DEF BarrierInv, BarrierTypeOK, InRound
  <2> QED
    BY <2>1, <2>2 DEF BarrierInv, Roles
<1> QED
  BY <1>1, <1>2, <1>3, InductiveBarrier, PTL DEF BarrierHolds

-----------------------------------------------------------------------------
(* The linked node queues, for any number of queues and nodes and any size *)
(* of a steal.                                                             *)
(*                                                                         *)
(* The inductive invariant is that the pointers spell some sequences L,    *)
(* one for each queue (Spells): going along next and prev from a node of a *)
(* sequence leads to its neighbours, head and tail are its ends, total is  *)
(* its length, no node is in two places, and the nodes in the sequences    *)
(* are those marked in_queue.  What a reader finds who follows the links   *)
(* is then that sequence (FollowIs), and every operation changes one of    *)
(* the sequences as SeqQueues says and no link of the others (Becomes).    *)

USE QueueAssumption

-----------------------------------------------------------------------------

\* The ends of a list.
First(s) == IF Len(s) = 0 THEN NullNode ELSE s[1]
Final(s) == IF Len(s) = 0 THEN NullNode ELSE s[Len(s)]

Has(s, n) == \E i \in 1 .. Len(s) : s[i] = n

\* The links of one direction lead through s.
Leads(s, link) == \A i \in 1 .. Len(s) : link[s[i]] = IF i = Len(s) THEN NullNode ELSE s[i + 1]

\* A list without repetition, through which both links lead.
Spelled(s, nx, pv) ==
  /\ s \in Seq(Nodes) /\ Once(s) /\ Leads(s, nx)
  /\ \A i \in 1 .. Len(s) : pv[s[i]] = IF i = 1 THEN NullNode ELSE s[i - 1]

\* The pointers spell the sequences L.
Spells(L) ==
  /\ QueueTypeOK /\ L \in [Queues -> Seq(Nodes)]
  /\ \A q \in Queues : /\ Spelled(L[q], qnext, prev)
                       /\ head[q] = First(L[q]) /\ qtail[q] = Final(L[q]) /\ total[q] = Len(L[q])
  /\ \A q, r \in Queues : \A n \in Nodes : Has(L[q], n) /\ Has(L[r], n) => q = r
  /\ \A n \in Nodes : in_queue[n] <=> \E q \in Queues : Has(L[q], n)

SpellInv == \E L : Spells(L)

\* The domain of a sequence, and its length when it holds no node twice.
LEMMA ListFact ==
  ASSUME NEW s \in Seq(Nodes)
  PROVE  /\ Len(s) \in Nat /\ DOMAIN s = 1 .. Len(s) /\ \A i \in 1 .. Len(s) : s[i] \in Nodes
         /\ Cardinality(Nodes) \in Nat
         /\ Once(s) => Len(s) <= Cardinality(Nodes)
<1>1. Len(s) \in Nat /\ DOMAIN s = 1 .. Len(s) /\ s \in [1 .. Len(s) -> Nodes]
  BY LenProperties
<1>2. Cardinality(Nodes) \in Nat
  BY FS_CardinalityType
<1>3. ASSUME Once(s) PROVE Len(s) <= Cardinality(Nodes)
  <2>1. s \in Injection(1 .. Len(s), Nodes)
    BY <1>1, <1>3 DEF Injection, IsInjective, Once
  <2>2. Cardinality(1 .. Len(s)) <= Cardinality(Nodes)
    BY <2>1, FS_Injection
  <2>3. Cardinality(1 .. Len(s)) = Len(s)
    <3>1. Len(s) \in Int /\ 1 \in Int
      BY <1>1
    <3>2. Cardinality(1 .. Len(s)) = IF 1 > Len(s) THEN 0 ELSE Len(s) - 1 + 1
      BY <3>1, FS_Interval, Zenon
    <3> QED
      BY <1>1, <3>2
  <2> QED
    BY <2>2, <2>3
<1> QED
  BY <1>1, <1>2, <1>3

\* Who follows links that lead through s finds s.
LEMMA FollowIs ==
  ASSUME NEW s \in Seq(Nodes), Once(s), NEW link, Leads(s, link)
  PROVE  Follow(link, First(s)) = s
<1> DEFINE N == Cardinality(Nodes) + 1
           from == First(s)
           Walk(F) == F = [i \in 1 .. N |-> IF i = 1 THEN from ELSE
                             IF F[i - 1] \in Nodes THEN link[F[i - 1]] ELSE NullNode]
           G == CHOOSE F : Walk(F)
           W == [i \in 1 .. N |-> IF i <= Len(s) THEN s[i] ELSE NullNode]
<1>1. /\ Len(s) \in Nat /\ DOMAIN s = 1 .. Len(s) /\ N \in Nat /\ Len(s) < N
      /\ \A i \in 1 .. Len(s) : s[i] \in Nodes
  BY ListFact
<1>2. Follow(link, from) = [i \in {j \in 1 .. N : G[j] \in Nodes} |-> G[i]]
  BY DEF Follow
<1> HIDE DEF N
<1>3. NullNode \notin Nodes
  OBVIOUS
<1>4. \A i \in 1 .. N : /\ i <= Len(s) => W[i] = s[i] /\ W[i] \in Nodes
                        /\ i > Len(s) => W[i] = NullNode
  BY <1>1
<1>5. Walk(W)
  <2>1. ASSUME NEW i \in 1 .. N
        PROVE  W[i] = IF i = 1 THEN from ELSE IF W[i - 1] \in Nodes THEN link[W[i - 1]] ELSE NullNode
    <3>1. CASE i = 1
      BY <1>1, <1>4, <3>1 DEF First
    <3>2. CASE i # 1 /\ i - 1 <= Len(s)
      <4>1. i - 1 \in 1 .. N /\ i - 1 \in 1 .. Len(s)
        BY <1>1, <3>2
      <4>2. W[i - 1] = s[i - 1] /\ s[i - 1] \in Nodes
        BY <1>4, <3>2, <4>1
      <4>3. link[s[i - 1]] = IF i - 1 = Len(s) THEN NullNode ELSE s[i - 1 + 1]
        BY <4>1 DEF Leads
      <4> QED
        BY <1>1, <1>4, <3>2, <4>1, <4>2, <4>3
    <3>3. CASE i # 1 /\ i - 1 > Len(s)
      <4>1. i - 1 \in 1 .. N /\ i > Len(s)
        BY <1>1, <3>3
      <4> QED
        BY <1>3, <1>4, <3>3, <4>1
    <3> QED
      BY <1>1, <3>1, <3>2, <3>3
  <2> DEFINE e == [i \in 1 .. N |-> IF i = 1 THEN from ELSE
                     IF W[i - 1] \in Nodes THEN link[W[i - 1]] ELSE NullNode]
  <2>2. \A i \in 1 .. N : W[i] = e[i]
    BY <2>1
  <2>3. W = [i \in 1 .. N |-> W[i]] /\ e = [i \in 1 .. N |-> e[i]]
    OBVIOUS
  <2> HIDE DEF W, e
  <2>4. W = e
    BY <2>2, <2>3, Zenon
  <2> QED
    BY <2>4 DEF e
<1> HIDE DEF W
<1>6. Walk(G)
  BY <1>5, ZenonT(60)
<1> HIDE DEF G
<1>7. ASSUME NEW F, Walk(F)
      PROVE  \A i \in 1 .. N :
               F[i] = IF i = 1 THEN from ELSE IF F[i - 1] \in Nodes THEN link[F[i - 1]] ELSE NullNode
  <2> DEFINE e == [i \in 1 .. N |-> IF i = 1 THEN from ELSE
                     IF F[i - 1] \in Nodes THEN link[F[i - 1]] ELSE NullNode]
  <2>1. \A i \in 1 .. N :
          e[i] = IF i = 1 THEN from ELSE IF F[i - 1] \in Nodes THEN link[F[i - 1]] ELSE NullNode
    OBVIOUS
  <2>2. F = e
    BY <1>7
  <2> HIDE DEF e
  <2> QED
    BY <2>1, <2>2, Zenon
<1>8. /\ \A i \in 1 .. N :
           G[i] = IF i = 1 THEN from ELSE IF G[i - 1] \in Nodes THEN link[G[i - 1]] ELSE NullNode
      /\ \A i \in 1 .. N :
           W[i] = IF i = 1 THEN from ELSE IF W[i - 1] \in Nodes THEN link[W[i - 1]] ELSE NullNode
  BY <1>5, <1>6, <1>7, Zenon
<1> HIDE DEF Walk
<1>9. \A i \in 1 .. N : G[i] = W[i]
  <2> DEFINE Bad == {i \in 1 .. N : G[i] # W[i]}
  <2> SUFFICES ASSUME Bad # {} PROVE FALSE
    OBVIOUS
  <2>1. PICK i \in Bad : \A j \in Bad : i <= j
    <3>1. Bad \subseteq Nat
      OBVIOUS
    <3> HIDE DEF Bad
    <3> QED
      BY <3>1, SmallestNat
  <2>2. i \in 1 .. N /\ G[i] # W[i]
    BY <2>1
  <2>3. i # 1
    BY <1>8, <2>2
  <2>4. i - 1 \in 1 .. N /\ i - 1 \notin Bad
    BY <1>1, <2>1, <2>2, <2>3
  <2>5. G[i - 1] = W[i - 1]
    BY <2>4
  <2> QED
    BY <1>8, <2>2, <2>3, <2>5
<1>10. {j \in 1 .. N : G[j] \in Nodes} = 1 .. Len(s)
  BY <1>1, <1>3, <1>4, <1>9
<1>11. \A i \in 1 .. Len(s) : G[i] = s[i]
  BY <1>1, <1>4, <1>9
<1>12. s = [i \in 1 .. Len(s) |-> s[i]]
  BY <1>1
<1> QED
  BY <1>2, <1>10, <1>11, <1>12

\* Going back along prev from the tail, a reader finds the list backwards.
LEMMA BackIs ==
  ASSUME NEW s, NEW nx, NEW pv, Spelled(s, nx, pv)
  PROVE  Follow(pv, Final(s)) = [i \in 1 .. Len(s) |-> s[Len(s) + 1 - i]]
<1> DEFINE R == [i \in 1 .. Len(s) |-> s[Len(s) + 1 - i]]
<1>1. /\ s \in Seq(Nodes) /\ Len(s) \in Nat /\ \A i \in 1 .. Len(s) : s[i] \in Nodes
      /\ \A i, j \in 1 .. Len(s) : s[i] = s[j] => i = j
  BY ListFact DEF Spelled, Once
<1>2. \A i \in 1 .. Len(s) : Len(s) + 1 - i \in 1 .. Len(s) /\ R[i] = s[Len(s) + 1 - i]
  BY <1>1
<1>3. R \in [1 .. Len(s) -> Nodes]
  BY <1>1, <1>2
<1> HIDE DEF R
<1>4. R \in Seq(Nodes) /\ Len(R) = Len(s) /\ DOMAIN R = 1 .. Len(R)
  BY <1>1, <1>3, IsASeq, LenProperties
<1>5. Once(R)
  <2> SUFFICES ASSUME NEW i \in 1 .. Len(s), NEW j \in 1 .. Len(s), R[i] = R[j] PROVE i = j
    BY <1>4 DEF Once
  <2>1. Len(s) + 1 - i = Len(s) + 1 - j
    BY <1>1, <1>2
  <2> QED
    BY <1>1, <2>1
<1>6. Leads(R, pv)
  <2> SUFFICES ASSUME NEW i \in 1 .. Len(s)
               PROVE  pv[R[i]] = IF i = Len(s) THEN NullNode ELSE R[i + 1]
    BY <1>4 DEF Leads
  <2> DEFINE k == Len(s) + 1 - i
  <2>1. k \in 1 .. Len(s) /\ (k = 1 <=> i = Len(s)) /\ R[i] = s[k]
    BY <1>1, <1>2
  <2>2. pv[s[k]] = IF k = 1 THEN NullNode ELSE s[k - 1]
    BY <2>1 DEF Spelled
  <2>3. i # Len(s) => R[i + 1] = s[k - 1]
    <3> SUFFICES ASSUME i # Len(s) PROVE R[i + 1] = s[k - 1]
      OBVIOUS
    <3>1. i + 1 \in 1 .. Len(s) /\ Len(s) + 1 - (i + 1) = k - 1
      BY <1>1
    <3> QED
      BY <1>2, <3>1
  <2> HIDE DEF k
  <2> QED
    BY <2>1, <2>2, <2>3
<1>7. First(R) = Final(s)
  <2>1. CASE Len(s) = 0
    BY <1>4, <2>1 DEF First, Final
  <2>2. CASE Len(s) # 0
    <3>1. 1 \in 1 .. Len(s) /\ Len(s) + 1 - 1 = Len(s)
      BY <1>1, <2>2
    <3> QED
      BY <1>2, <1>4, <2>2, <3>1 DEF First, Final
  <2> QED
    BY <2>1, <2>2
<1> QED
  BY <1>4, <1>5, <1>6, <1>7, FollowIs DEF R

\* A reader finds the sequences that the pointers spell.
LEMMA ListIs ==
  ASSUME NEW L, Spells(L), NEW q \in Queues
  PROVE  /\ List(q) = L[q]
         /\ Follow(prev, qtail[q]) = [i \in 1 .. Len(L[q]) |-> L[q][Len(L[q]) + 1 - i]]
<1>1. /\ Spelled(L[q], qnext, prev) /\ head[q] = First(L[q]) /\ qtail[q] = Final(L[q])
  BY DEF Spells
<1>2. List(q) = L[q]
  BY <1>1, FollowIs DEF List, Spelled
<1> QED
  BY <1>1, <1>2, BackIs, ZenonT(40)

\* The pointers of queues that spell sequences are well linked.
LEMMA SpelledWell == ASSUME NEW L, Spells(L) PROVE WellLinked
<1> DEFINE At(q, n) == \E i \in DOMAIN List(q) : List(q)[i] = n
<1>1. ASSUME NEW q \in Queues
      PROVE  /\ List(q) = L[q] /\ L[q] \in Seq(Nodes) /\ Len(L[q]) \in Nat
             /\ DOMAIN L[q] = 1 .. Len(L[q]) /\ \A i \in 1 .. Len(L[q]) : L[q][i] \in Nodes
             /\ Spelled(L[q], qnext, prev)
             /\ head[q] = First(L[q]) /\ qtail[q] = Final(L[q]) /\ total[q] = Len(L[q])
  BY ListIs, ListFact DEF Spells
<1>2. ASSUME NEW q \in Queues
      PROVE  /\ Len(List(q)) = total[q]
             /\ Follow(prev, qtail[q]) = [i \in DOMAIN List(q) |-> List(q)[Len(List(q)) + 1 - i]]
  BY <1>1, ListIs
<1>3. ASSUME NEW q \in Queues
      PROVE  /\ head[q] # NullNode => prev[head[q]] = NullNode /\ qnext[qtail[q]] = NullNode
             /\ head[q] = NullNode <=> qtail[q] = NullNode
  <2>1. CASE Len(L[q]) = 0
    BY <1>1, <2>1 DEF First, Final
  <2>2. CASE Len(L[q]) # 0
    <3>1. 1 \in 1 .. Len(L[q]) /\ Len(L[q]) \in 1 .. Len(L[q])
      BY <1>1, <2>2
    <3>2. head[q] = L[q][1] /\ qtail[q] = L[q][Len(L[q])]
      BY <1>1, <2>2 DEF First, Final
    <3>3. prev[L[q][1]] = NullNode
      BY <1>1, <3>1 DEF Spelled
    <3>4. qnext[L[q][Len(L[q])]] = NullNode
      BY <1>1, <3>1 DEF Spelled, Leads
    <3>5. head[q] # NullNode /\ qtail[q] # NullNode
      BY <1>1, <3>1, <3>2
    <3> QED
      BY <3>2, <3>3, <3>4, <3>5
  <2> QED
    BY <2>1, <2>2
<1>4. \A q \in Queues : \A n \in Nodes : At(q, n) <=> Has(L[q], n)
  BY <1>1 DEF Has
<1> HIDE DEF At
<1>5. \A n \in Nodes : /\ in_queue[n] <=> Cardinality({q \in Queues : At(q, n)}) = 1
                       /\ ~in_queue[n] => \A q \in Queues : ~At(q, n)
  <2> SUFFICES ASSUME NEW n \in Nodes
               PROVE  /\ in_queue[n] <=> Cardinality({q \in Queues : At(q, n)}) = 1
                      /\ ~in_queue[n] => \A q \in Queues : ~At(q, n)
    OBVIOUS
  <2> DEFINE Q == {q \in Queues : At(q, n)}
  <2>1. in_queue[n] <=> \E q \in Queues : At(q, n)
    BY <1>4 DEF Spells
  <2>2. \A q, r \in Queues : At(q, n) /\ At(r, n) => q = r
    BY <1>4 DEF Spells
  <2>3. CASE in_queue[n]
    <3>1. PICK q \in Queues : At(q, n)
      BY <2>1, <2>3
    <3>2. Q = {q}
      BY <2>2, <3>1
    <3>3. Cardinality({q}) = 1
      BY FS_Singleton
    <3> QED
      BY <2>3, <3>2, <3>3
  <2>4. CASE ~in_queue[n]
    <3>1. Q = {}
      BY <2>1, <2>4
    <3>2. Cardinality({}) = 0
      BY FS_EmptySet
    <3> QED
      BY <2>4, <3>1, <3>2
  <2> QED
    BY <2>3, <2>4
<1>6. QueueTypeOK
  BY DEF Spells
<1> QED
  BY <1>2, <1>3, <1>5, <1>6 DEF WellLinked, At

-----------------------------------------------------------------------------
(* A step changes one list. *)

\* n is in another queue than q.
Elsewhere(L, q, n) == \E r \in Queues : r # q /\ Has(L[r], n)

\* The step makes s of queue q and leaves the links of the other queues alone.
Becomes(L, q, s) ==
  /\ Spelled(s, qnext', prev')
  /\ head' = [head EXCEPT ![q] = First(s)] /\ qtail' = [qtail EXCEPT ![q] = Final(s)]
  /\ total' = [total EXCEPT ![q] = Len(s)]
  /\ qnext' \in [Nodes -> Nodes \cup {NullNode} \cup {Junk}]
  /\ prev' \in [Nodes -> Nodes \cup {NullNode} \cup {Junk}]
  /\ in_queue' \in [Nodes -> BOOLEAN]
  /\ \A n \in Nodes : Elsewhere(L, q, n) => /\ qnext'[n] = qnext[n] /\ prev'[n] = prev[n]
                                            /\ ~Has(s, n)
  /\ \A n \in Nodes : in_queue'[n] <=> Has(s, n) \/ Elsewhere(L, q, n)

\* The empty queues.
LEMMA InitSpells == ASSUME QueueInit PROVE Spells([q \in Queues |-> <<>>])
<1> DEFINE L == [q \in Queues |-> <<>>]
<1>1. <<>> \in Seq(Nodes) /\ Len(<<>>) = 0
  BY EmptySeq
<1>2. \A q \in Queues : L[q] = <<>>
  OBVIOUS
<1>3. L \in [Queues -> Seq(Nodes)]
  BY <1>1
<1>4. Spelled(<<>>, qnext, prev)
  BY <1>1 DEF Spelled, Once, Leads
<1>5. \A n : ~Has(<<>>, n)
  BY <1>1 DEF Has
<1>6. QueueTypeOK
  BY FS_CardinalityType DEF QueueInit, QueueTypeOK
<1>7. First(<<>>) = NullNode /\ Final(<<>>) = NullNode
  BY <1>1 DEF First, Final
<1> HIDE DEF L
<1> QED
  BY <1>1, <1>2, <1>3, <1>4, <1>5, <1>6, <1>7 DEF Spells, QueueInit, L

\* After the step the pointers spell the changed list and the others.
LEMMA BecomesSpells ==
  ASSUME NEW L, Spells(L), NEW q \in Queues, NEW s, Becomes(L, q, s)
  PROVE  Spells([L EXCEPT ![q] = s])'
<1> DEFINE K == [L EXCEPT ![q] = s]
<1>1. s \in Seq(Nodes) /\ Len(s) \in Nat /\ Once(s) /\ Spelled(s, qnext', prev')
      /\ \A i \in 1 .. Len(s) : s[i] \in Nodes
  BY ListFact DEF Becomes, Spelled
<1>2. /\ L \in [Queues -> Seq(Nodes)] /\ QueueTypeOK
      /\ \A r \in Queues : /\ Spelled(L[r], qnext, prev) /\ head[r] = First(L[r])
                           /\ qtail[r] = Final(L[r]) /\ total[r] = Len(L[r])
      /\ \A r, u \in Queues : \A n \in Nodes : Has(L[r], n) /\ Has(L[u], n) => r = u
  BY DEF Spells
<1>3. K \in [Queues -> Seq(Nodes)] /\ K[q] = s /\ \A r \in Queues : r # q => K[r] = L[r]
  BY <1>1, <1>2
<1> HIDE DEF K
<1>4. QueueTypeOK'
  <2>1. First(s) \in Nodes \cup {NullNode} /\ Final(s) \in Nodes \cup {NullNode}
    BY <1>1 DEF First, Final
  <2>2. Len(s) \in 0 .. SizeMod - 1
    <3>1. Len(s) <= Cardinality(Nodes) /\ Cardinality(Nodes) \in Nat
      BY <1>1, ListFact
    <3> QED
      BY <1>1, <3>1
  <2>3. head' \in [Queues -> Nodes \cup {NullNode}] /\ qtail' \in [Queues -> Nodes \cup {NullNode}]
    BY <1>2, <2>1 DEF Becomes, QueueTypeOK
  <2>4. total' \in [Queues -> 0 .. SizeMod - 1]
    <3>1. total \in [Queues -> 0 .. SizeMod - 1] /\ total' = [total EXCEPT ![q] = Len(s)]
      BY <1>2 DEF Becomes, QueueTypeOK
    <3> QED
      BY <2>2, <3>1
  <2> QED
    BY <2>3, <2>4 DEF QueueTypeOK, Becomes
<1>5. /\ head'[q] = First(s) /\ qtail'[q] = Final(s) /\ total'[q] = Len(s)
      /\ \A r \in Queues : r # q => /\ head'[r] = head[r] /\ qtail'[r] = qtail[r]
                                    /\ total'[r] = total[r]
  BY <1>2 DEF Becomes, QueueTypeOK
<1>6. ASSUME NEW r \in Queues, r # q PROVE Spelled(L[r], qnext', prev')
  <2>1. /\ L[r] \in Seq(Nodes) /\ Once(L[r])
        /\ \A i \in 1 .. Len(L[r]) : /\ L[r][i] \in Nodes
                                     /\ qnext[L[r][i]] = IF i = Len(L[r]) THEN NullNode ELSE L[r][i + 1]
                                     /\ prev[L[r][i]] = IF i = 1 THEN NullNode ELSE L[r][i - 1]
    BY <1>2, ListFact DEF Spelled, Leads
  <2>2. \A i \in 1 .. Len(L[r]) : Elsewhere(L, q, L[r][i])
    BY <1>6 DEF Elsewhere, Has
  <2>3. \A i \in 1 .. Len(L[r]) : qnext'[L[r][i]] = qnext[L[r][i]] /\ prev'[L[r][i]] = prev[L[r][i]]
    BY <2>1, <2>2 DEF Becomes
  <2> QED
    BY <2>1, <2>3 DEF Spelled, Leads
<1>7. ASSUME NEW r \in Queues, NEW u \in Queues, NEW n \in Nodes, Has(K[r], n), Has(K[u], n)
      PROVE  r = u
  <2>1. \A v \in Queues : v # q /\ Has(L[v], n) => ~Has(s, n)
    BY DEF Becomes, Elsewhere
  <2> QED
    BY <1>2, <1>3, <1>7, <2>1
<1>8. ASSUME NEW n \in Nodes PROVE in_queue'[n] <=> \E r \in Queues : Has(K[r], n)
  <2>1. in_queue'[n] <=> Has(s, n) \/ \E r \in Queues : r # q /\ Has(L[r], n)
    BY DEF Becomes, Elsewhere
  <2> QED
    BY <1>3, <2>1
<1>9. ASSUME NEW r \in Queues
      PROVE  /\ Spelled(K[r], qnext', prev') /\ head'[r] = First(K[r])
             /\ qtail'[r] = Final(K[r]) /\ total'[r] = Len(K[r])
  BY <1>1, <1>2, <1>3, <1>5, <1>6
<1>10. Spells(K)'
  BY <1>3, <1>4, <1>7, <1>8, <1>9 DEF Spells
<1> QED
  BY <1>10 DEF K

\* The counter counts modulo SizeMod, and never gets there.
LEMMA TotalIs ==
  ASSUME NEW L, Spells(L), NEW q \in Queues, NEW d \in Int, AddTotal(q, d),
         NEW s \in Seq(Nodes), Once(s), Len(s) = Len(L[q]) + d
  PROVE  total' = [total EXCEPT ![q] = Len(s)]
<1>1. Len(s) \in Nat /\ Len(s) < SizeMod /\ SizeMod \in Nat \ {0}
  <2>1. Len(s) \in Nat /\ Len(s) <= Cardinality(Nodes) /\ Cardinality(Nodes) \in Nat
    BY ListFact
  <2> QED
    BY <2>1
<1>2. total[q] = Len(L[q]) /\ Len(L[q]) \in Nat
  BY ListFact DEF Spells
<1>3. ASSUME NEW K \in Nat \ {0}, NEW a \in Nat, a < K PROVE (a + K) % K = a
  BY <1>3
<1>4. total[q] + SizeMod + d = Len(s) + SizeMod
  BY <1>1, <1>2
<1>5. (total[q] + SizeMod + d) % SizeMod = Len(s)
  BY <1>1, <1>3, <1>4
<1> QED
  BY <1>5 DEF AddTotal

-----------------------------------------------------------------------------
(* The operations. *)

Links == [Nodes -> Nodes \cup {NullNode} \cup {Junk}]

\* What is known of queue q and its list s before a step.
QueueHere(L, q, s) ==
  /\ s \in Seq(Nodes) /\ Len(s) \in Nat /\ \A i \in 1 .. Len(s) : s[i] \in Nodes
  /\ \A i, j \in 1 .. Len(s) : s[i] = s[j] => i = j
  /\ \A i \in 1 .. Len(s) : /\ qnext[s[i]] = IF i = Len(s) THEN NullNode ELSE s[i + 1]
                            /\ prev[s[i]] = IF i = 1 THEN NullNode ELSE s[i - 1]
  /\ head[q] = First(s) /\ qtail[q] = Final(s) /\ total[q] = Len(s)
  /\ \A n \in Nodes : /\ Has(s, n) => ~Elsewhere(L, q, n)
                      /\ in_queue[n] <=> Has(s, n) \/ Elsewhere(L, q, n)
  /\ qnext \in Links /\ prev \in Links /\ in_queue \in [Nodes -> BOOLEAN]
  /\ head \in [Queues -> Nodes \cup {NullNode}] /\ qtail \in [Queues -> Nodes \cup {NullNode}]

\* It is so for the sequence that the queue spells.
LEMMA HereIs ==
  ASSUME NEW L, Spells(L), NEW q \in Queues
  PROVE  QueueHere(L, q, L[q])
<1> DEFINE s == L[q]
<1>1. s \in Seq(Nodes) /\ Spelled(s, qnext, prev)
      /\ head[q] = First(s) /\ qtail[q] = Final(s) /\ total[q] = Len(s)
  BY DEF Spells
<1>2. /\ \A n \in Nodes : Has(s, n) => ~Elsewhere(L, q, n)
      /\ \A n \in Nodes : in_queue[n] <=> Has(s, n) \/ Elsewhere(L, q, n)
  BY DEF Spells, Elsewhere
<1> HIDE DEF s
<1>3. /\ Len(s) \in Nat /\ \A i \in 1 .. Len(s) : s[i] \in Nodes
      /\ \A i, j \in 1 .. Len(s) : s[i] = s[j] => i = j
  BY <1>1, ListFact DEF Spelled, Once
<1>4. \A i \in 1 .. Len(s) : /\ qnext[s[i]] = IF i = Len(s) THEN NullNode ELSE s[i + 1]
                             /\ prev[s[i]] = IF i = 1 THEN NullNode ELSE s[i - 1]
  BY <1>1 DEF Spelled, Leads
<1>5. /\ qnext \in Links /\ prev \in Links /\ in_queue \in [Nodes -> BOOLEAN]
      /\ head \in [Queues -> Nodes \cup {NullNode}] /\ qtail \in [Queues -> Nodes \cup {NullNode}]
  BY DEF Spells, QueueTypeOK, Links
<1>6. QueueHere(L, q, s)
  BY <1>1, <1>2, <1>3, <1>4, <1>5 DEF QueueHere
<1> QED
  BY <1>6 DEF s

\* The list s of length m, member by member.
Neighbours(s, m, nx, pv) ==
  /\ \A i, j \in 1 .. m : s[i] = s[j] => i = j
  /\ \A i \in 1 .. m : nx[s[i]] = IF i = m THEN NullNode ELSE s[i + 1]
  /\ \A i \in 1 .. m : pv[s[i]] = IF i = 1 THEN NullNode ELSE s[i - 1]

\* Its links spell the list.
LEMMA SpelledBy ==
  ASSUME NEW s \in Seq(Nodes), NEW m, m = Len(s), NEW nx, NEW pv, Neighbours(s, m, nx, pv)
  PROVE  Spelled(s, nx, pv) /\ Once(s)
<1>1. Once(s)
  BY ListFact DEF Once, Neighbours
<1> QED
  BY <1>1 DEF Spelled, Leads, Neighbours

\* Field g is f, except that it is v in node n.
Linked(g, f, n, v) == g \in Links /\ \A m \in Nodes : g[m] = IF m = n THEN v ELSE f[m]

\* A write through a pointer that may be null.
LEMMA SetLinkIs ==
  ASSUME NEW f \in Links, NEW n \in Nodes \cup {NullNode}, NEW v \in Nodes \cup {NullNode}
  PROVE  Linked(SetLink(f, n, v), f, n, v)
  BY DEF SetLink, Links, Linked

\* push_tail appends a node that is in no queue.
LEMMA PushTailIs ==
  ASSUME NEW L, Spells(L), NEW q \in Queues, NEW n \in Nodes, PushTail(q, n)
  PROVE  /\ Becomes(L, q, Append(L[q], n))
         /\ \A r \in Queues : ~Has(L[r], n)
<1> DEFINE s == L[q]
           w == Append(s, n)
           m == Len(s)
<1>1. QueueHere(L, q, s)
  BY HereIs
<1>2. \A r \in Queues : ~Has(L[r], n)
  BY DEF PushTail, Spells
<1>3. ~Has(s, n) /\ ~Elsewhere(L, q, n)
  BY <1>2 DEF Elsewhere
<1> HIDE DEF s
<1>4. /\ s \in Seq(Nodes) /\ m \in Nat /\ qnext \in Links /\ prev \in Links
      /\ qtail[q] = Final(s) /\ qtail[q] \in Nodes \cup {NullNode}
  BY <1>1 DEF QueueHere
<1>5. /\ w \in Seq(Nodes) /\ Len(w) = m + 1 /\ w[m + 1] = n
      /\ \A i \in 1 .. m : w[i] = s[i] /\ s[i] \in Nodes /\ s[i] # n
  BY <1>1, <1>3, AppendProperties DEF QueueHere, Has
<1> HIDE DEF w
<1>6. /\ qnext' \in Links
      /\ \A x \in Nodes : qnext'[x] = IF x = n THEN NullNode ELSE IF x = qtail[q] THEN n ELSE qnext[x]
  <2> DEFINE g == SetLink(qnext, qtail[q], n)
  <2>1. Linked(g, qnext, qtail[q], n)
    BY <1>4, SetLinkIs
  <2>2. qnext' = [g EXCEPT ![n] = NullNode]
    BY DEF PushTail
  <2> HIDE DEF g
  <2> QED
    BY <2>1, <2>2 DEF Links, Linked
<1>7. /\ prev' \in Links
      /\ \A x \in Nodes : prev'[x] = IF x = n THEN qtail[q] ELSE prev[x]
  BY <1>4 DEF PushTail, Links
<1>8. /\ in_queue' \in [Nodes -> BOOLEAN]
      /\ \A x \in Nodes : in_queue'[x] <=> x = n \/ in_queue[x]
  BY <1>1 DEF PushTail, QueueHere
<1>9. /\ m = 0 => qtail[q] = NullNode
      /\ m # 0 => m \in 1 .. m /\ qtail[q] = s[m]
  BY <1>4 DEF Final
<1>10. \A i, j \in 1 .. m : s[i] = s[j] => i = j
  BY <1>1 DEF QueueHere
<1>11. Spelled(w, qnext', prev') /\ Once(w)
  <2>1. ASSUME NEW i \in 1 .. m + 1, NEW j \in 1 .. m + 1, w[i] = w[j] PROVE i = j
    <3>1. \A k \in 1 .. m + 1 : k = m + 1 \/ k \in 1 .. m
      BY <1>4
    <3> QED
      BY <1>5, <1>10, <2>1, <3>1
  <2>2. ASSUME NEW i \in 1 .. m + 1
        PROVE  qnext'[w[i]] = IF i = m + 1 THEN NullNode ELSE w[i + 1]
    <3>1. CASE i = m + 1
      BY <1>5, <1>6, <3>1
    <3>2. CASE i # m + 1 /\ i = m
      <4>1. i \in 1 .. m /\ w[i] = qtail[q]
        BY <1>4, <1>5, <1>9, <3>2
      <4> QED
        BY <1>5, <1>6, <3>2, <4>1
    <3>3. CASE i # m + 1 /\ i # m
      <4>1. i \in 1 .. m /\ i + 1 \in 1 .. m /\ m # 0 /\ m \in 1 .. m
        BY <1>4, <3>3
      <4>2. s[i] # s[m] /\ qnext[s[i]] = s[i + 1]
        BY <1>1, <3>3, <4>1 DEF QueueHere
      <4> QED
        BY <1>5, <1>6, <1>9, <3>3, <4>1, <4>2
    <3> QED
      BY <3>1, <3>2, <3>3
  <2>3. ASSUME NEW i \in 1 .. m + 1
        PROVE  prev'[w[i]] = IF i = 1 THEN NullNode ELSE w[i - 1]
    <3>1. CASE i = m + 1
      <4>1. prev'[w[i]] = qtail[q]
        BY <1>5, <1>7, <3>1
      <4>2. m # 0 => i # 1 /\ i - 1 = m /\ i - 1 \in 1 .. m
        BY <1>4, <3>1
      <4> QED
        BY <1>5, <1>9, <3>1, <4>1, <4>2
    <3>2. CASE i # m + 1
      <4>1. i \in 1 .. m /\ (i # 1 => i - 1 \in 1 .. m)
        BY <1>4, <3>2
      <4>2. prev[s[i]] = IF i = 1 THEN NullNode ELSE s[i - 1]
        BY <1>1, <4>1 DEF QueueHere
      <4> QED
        BY <1>5, <1>7, <4>1, <4>2
    <3> QED
      BY <3>1, <3>2
  <2>4. Neighbours(w, m + 1, qnext', prev')
    BY <2>1, <2>2, <2>3 DEF Neighbours
  <2> QED
    BY <1>5, <2>4, SpelledBy
<1>12. head' = [head EXCEPT ![q] = First(w)] /\ qtail' = [qtail EXCEPT ![q] = Final(w)]
  <2>1. First(w) = IF head[q] = NullNode THEN n ELSE head[q]
    <3>1. head[q] = First(s)
      BY <1>1 DEF QueueHere
    <3>2. CASE m = 0
      BY <1>5, <3>1, <3>2 DEF First
    <3>3. CASE m # 0
      <4>1. 1 \in 1 .. m
        BY <1>4, <3>3
      <4> QED
        BY <1>4, <1>5, <3>1, <3>3, <4>1 DEF First
    <3> QED
      BY <3>2, <3>3
  <2>2. Final(w) = n
    BY <1>4, <1>5 DEF Final
  <2> QED
    BY <2>1, <2>2 DEF PushTail
<1>13. total' = [total EXCEPT ![q] = Len(w)]
  <2>1. AddTotal(q, 1)
    BY DEF PushTail
  <2> QED
    BY <1>5, <1>11, <2>1, TotalIs DEF s
<1>14. \A x \in Nodes : Has(w, x) <=> x = n \/ Has(s, x)
  <2>1. 1 .. m + 1 = 1 .. m \cup {m + 1}
    BY <1>4
  <2> QED
    BY <1>5, <2>1 DEF Has
<1>15. ASSUME NEW x \in Nodes, Elsewhere(L, q, x)
       PROVE  qnext'[x] = qnext[x] /\ prev'[x] = prev[x] /\ ~Has(w, x)
  <2>1. x # n /\ ~Has(s, x)
    BY <1>1, <1>3, <1>15 DEF QueueHere
  <2>2. x # qtail[q]
    BY <1>9, <2>1 DEF Has
  <2> QED
    BY <1>6, <1>7, <1>14, <2>1, <2>2
<1>16. \A x \in Nodes : in_queue'[x] <=> Has(w, x) \/ Elsewhere(L, q, x)
  BY <1>1, <1>8, <1>14 DEF QueueHere
<1>17. Becomes(L, q, w)
  BY <1>6, <1>7, <1>8, <1>11, <1>12, <1>13, <1>15, <1>16 DEF Becomes, Links
<1> QED
  BY <1>2, <1>17 DEF w, s

\* The first h nodes of list s of queue q are taken.
TakesHead(q, s, h) ==
  /\ h \in 1 .. Len(s)
  /\ head' = [head EXCEPT ![q] = qnext[s[h]]]
  /\ qtail' = [qtail EXCEPT ![q] = IF h = Len(s) THEN NullNode ELSE @]
  /\ prev' = SetLink(prev, qnext[s[h]], NullNode) /\ qnext' = qnext
  /\ in_queue' \in [Nodes -> BOOLEAN]
  /\ \A n \in Nodes : in_queue'[n] <=> in_queue[n] /\ \A i \in 1 .. h : s[i] # n
  /\ AddTotal(q, -h)

\* The rest of the list stays, from the node after them.
LEMMA TakesHeadIs ==
  ASSUME NEW L, Spells(L), NEW q \in Queues, NEW h \in Nat, TakesHead(q, L[q], h)
  PROVE  Becomes(L, q, SubSeq(L[q], h + 1, Len(L[q])))
<1> DEFINE s == L[q]
           m == Len(s)
           w == SubSeq(s, h + 1, m)
<1>1. QueueHere(L, q, s)
  BY HereIs
<1>2. TakesHead(q, s, h)
  OBVIOUS
<1> HIDE DEF s
<1>3. /\ s \in Seq(Nodes) /\ m \in Nat /\ \A i \in 1 .. m : s[i] \in Nodes
      /\ \A i, j \in 1 .. m : s[i] = s[j] => i = j
      /\ \A i \in 1 .. m : /\ qnext[s[i]] = IF i = m THEN NullNode ELSE s[i + 1]
                           /\ prev[s[i]] = IF i = 1 THEN NullNode ELSE s[i - 1]
      /\ qnext \in Links /\ prev \in Links
  BY <1>1 DEF QueueHere
<1>4. h \in 1 .. m
  BY <1>2 DEF TakesHead
<1>5. /\ w \in Seq(Nodes) /\ Len(w) = m - h
      /\ \A i \in 1 .. m - h : w[i] = s[h + i] /\ h + i \in 1 .. m
  <2>1. \A i \in h + 1 .. m : s[i] \in Nodes
    BY <1>3, <1>4
  <2>2. h + 1 \in Int /\ m \in Int
    BY <1>3
  <2>3. /\ w \in Seq(Nodes) /\ Len(w) = IF h + 1 <= m THEN m - (h + 1) + 1 ELSE 0
        /\ \A i \in 1 .. m - (h + 1) + 1 : w[i] = s[h + 1 + i - 1]
    BY <2>1, <2>2, SubSeqProperties
  <2> HIDE DEF w
  <2>4. m - (h + 1) + 1 = m - h /\ \A i \in 1 .. m - h : h + 1 + i - 1 = h + i /\ h + i \in 1 .. m
    BY <1>3
  <2>5. Len(w) = m - h
    BY <1>3, <1>4, <2>3
  <2>6. \A i \in 1 .. m - h : w[i] = s[h + i]
    BY <2>3, <2>4
  <2> QED
    BY <2>3, <2>4, <2>5, <2>6
<1> HIDE DEF w, m
<1>6. m - h \in Nat
  BY <1>3, <1>4
<1>7. /\ h = m => qnext[s[h]] = NullNode
      /\ h # m => h + 1 \in 1 .. m /\ qnext[s[h]] = s[h + 1]
  BY <1>3, <1>4
<1>8. Linked(prev', prev, qnext[s[h]], NullNode)
  <2>1. qnext[s[h]] \in Nodes \cup {NullNode}
    BY <1>3, <1>7
  <2> QED
    <3>1. NullNode \in Nodes \cup {NullNode}
      OBVIOUS
    <3>2. Linked(SetLink(prev, qnext[s[h]], NullNode), prev, qnext[s[h]], NullNode)
      BY <1>3, <2>1, <3>1, SetLinkIs
    <3> QED
      BY <1>2, <3>2 DEF TakesHead
<1>9. qnext' = qnext
  BY <1>2 DEF TakesHead
<1>10. Spelled(w, qnext', prev') /\ Once(w)
  <2>1. ASSUME NEW i \in 1 .. m - h, NEW j \in 1 .. m - h, w[i] = w[j] PROVE i = j
    <3>1. h + i = h + j
      BY <1>3, <1>5, <2>1
    <3> QED
      BY <1>4, <3>1
  <2>2. ASSUME NEW i \in 1 .. m - h PROVE qnext[w[i]] = IF i = m - h THEN NullNode ELSE w[i + 1]
    <3>1. qnext[s[h + i]] = IF h + i = m THEN NullNode ELSE s[h + i + 1]
      BY <1>3, <1>5
    <3>2. h + i = m <=> i = m - h
      BY <1>3
    <3>3. i # m - h => i + 1 \in 1 .. m - h /\ h + (i + 1) = h + i + 1
      BY <1>6
    <3> QED
      BY <1>5, <3>1, <3>2, <3>3
  <2>3. ASSUME NEW i \in 1 .. m - h PROVE prev'[w[i]] = IF i = 1 THEN NullNode ELSE w[i - 1]
    <3>1. h # m /\ h + 1 \in 1 .. m /\ qnext[s[h]] = s[h + 1] /\ h + i \in 1 .. m
      BY <1>3, <1>4, <1>5, <1>7
    <3>2. prev'[w[i]] = IF s[h + i] = s[h + 1] THEN NullNode ELSE prev[s[h + i]]
      BY <1>3, <1>5, <1>8, <3>1, ZenonT(40) DEF Linked
    <3>3. s[h + i] = s[h + 1] <=> i = 1
      <4>1. s[h + i] = s[h + 1] <=> h + i = h + 1
        BY <1>3, <3>1
      <4>2. h + i = h + 1 <=> i = 1
        OBVIOUS
      <4> QED
        BY <4>1, <4>2
    <3>4. prev[s[h + i]] = s[h + i - 1]
      <4>1. h + i # 1
        BY <1>4
      <4> QED
        BY <1>3, <3>1, <4>1
    <3>5. i # 1 => i - 1 \in 1 .. m - h /\ h + (i - 1) = h + i - 1
      BY <1>6
    <3> QED
      BY <1>5, <3>2, <3>3, <3>4, <3>5
  <2>4. Neighbours(w, m - h, qnext', prev')
    BY <1>9, <2>1, <2>2, <2>3 DEF Neighbours
  <2> QED
    BY <1>5, <2>4, SpelledBy
<1>11. head' = [head EXCEPT ![q] = First(w)] /\ qtail' = [qtail EXCEPT ![q] = Final(w)]
  <2>1. CASE h = m
    <3>1. Len(w) = 0
      BY <1>3, <1>5, <2>1
    <3> QED
      BY <1>2, <1>7, <2>1, <3>1 DEF TakesHead, First, Final, m
  <2>2. CASE h # m
    <3>1. Len(w) # 0 /\ 1 \in 1 .. m - h /\ m - h \in 1 .. m - h /\ h + (m - h) = m
      BY <1>3, <1>4, <1>5, <2>2
    <3>2. First(w) = s[h + 1]
      BY <1>5, <3>1 DEF First
    <3>3. Final(w) = s[m]
      BY <1>5, <3>1 DEF Final
    <3>4. qtail[q] = s[m]
      <4>1. m # 0
        BY <1>4
      <4> QED
        BY <1>1, <4>1 DEF QueueHere, Final, m
    <3> QED
      BY <1>1, <1>2, <1>7, <2>2, <3>2, <3>3, <3>4, ZenonT(40) DEF TakesHead, m, QueueHere
  <2> QED
    BY <2>1, <2>2
<1>12. total' = [total EXCEPT ![q] = Len(w)]
  <2>1. AddTotal(q, -h) /\ -h \in Int
    BY <1>2 DEF TakesHead
  <2>2. Len(w) = m + (-h)
    BY <1>3, <1>5
  <2> QED
    BY <1>5, <1>10, <2>1, <2>2, TotalIs DEF s, m
<1>13. \A x \in Nodes : Has(w, x) <=> Has(s, x) /\ \A i \in 1 .. h : s[i] # x
  <2> SUFFICES ASSUME NEW x \in Nodes
               PROVE  Has(w, x) <=> Has(s, x) /\ \A i \in 1 .. h : s[i] # x
    OBVIOUS
  <2>1. ASSUME Has(w, x) PROVE Has(s, x) /\ \A i \in 1 .. h : s[i] # x
    <3>1. PICK i \in 1 .. m - h : w[i] = x
      BY <1>5, <2>1 DEF Has
    <3>2. s[h + i] = x /\ h + i \in 1 .. m
      BY <1>5, <3>1
    <3>3. \A j \in 1 .. h : j \in 1 .. m /\ j # h + i
      BY <1>3, <1>4
    <3> QED
      BY <1>3, <3>2, <3>3 DEF Has, m
  <2>2. ASSUME Has(s, x), \A i \in 1 .. h : s[i] # x PROVE Has(w, x)
    <3>1. PICK i \in 1 .. m : s[i] = x
      BY <2>2 DEF Has, m
    <3>2. i \notin 1 .. h
      BY <2>2, <3>1
    <3>3. i - h \in 1 .. m - h /\ h + (i - h) = i
      BY <1>3, <1>4, <3>2
    <3>4. w[i - h] = x
      BY <1>5, <3>1, <3>3
    <3> QED
      BY <1>5, <3>3, <3>4 DEF Has
  <2> QED
    BY <2>1, <2>2
<1>14. ASSUME NEW x \in Nodes, Elsewhere(L, q, x)
       PROVE  qnext'[x] = qnext[x] /\ prev'[x] = prev[x] /\ ~Has(w, x)
  <2>1. ~Has(s, x)
    BY <1>1, <1>14 DEF QueueHere
  <2>2. x # qnext[s[h]]
    BY <1>7, <2>1 DEF Has, m
  <2> QED
    BY <1>8, <1>9, <1>13, <2>1, <2>2 DEF Linked
<1>15. \A x \in Nodes : in_queue'[x] <=> Has(w, x) \/ Elsewhere(L, q, x)
  <2> SUFFICES ASSUME NEW x \in Nodes
               PROVE  in_queue'[x] <=> Has(w, x) \/ Elsewhere(L, q, x)
    OBVIOUS
  <2>1. in_queue'[x] <=> (Has(s, x) \/ Elsewhere(L, q, x)) /\ \A i \in 1 .. h : s[i] # x
    BY <1>1, <1>2 DEF TakesHead, QueueHere
  <2>2. Elsewhere(L, q, x) => \A i \in 1 .. h : s[i] # x
    <3>1. Elsewhere(L, q, x) => ~Has(s, x)
      BY <1>1 DEF QueueHere
    <3>2. \A i \in 1 .. h : i \in 1 .. m
      BY <1>3, <1>4
    <3> QED
      BY <3>1, <3>2 DEF Has, m
  <2> QED
    BY <1>13, <2>1, <2>2
<1>16. qnext' \in Links /\ prev' \in Links /\ in_queue' \in [Nodes -> BOOLEAN]
  BY <1>2, <1>3, <1>8, <1>9 DEF Linked, TakesHead
<1>17. Becomes(L, q, w)
  BY <1>10, <1>11, <1>12, <1>14, <1>15, <1>16 DEF Becomes, Links
<1> QED
  BY <1>17 DEF w, s, m

\* pop_head takes the first node.
LEMMA PopHeadIs ==
  ASSUME NEW L, Spells(L), NEW q \in Queues, PopHead(q)
  PROVE  Len(L[q]) # 0 /\ TakesHead(q, L[q], 1)
<1> DEFINE s == L[q]
<1>1. QueueHere(L, q, s)
  BY HereIs
<1> HIDE DEF s
<1>2. head[q] = First(s) /\ Len(s) \in Nat /\ \A i \in 1 .. Len(s) : s[i] \in Nodes
  BY <1>1 DEF QueueHere
<1>3. Len(s) # 0 /\ head[q] = s[1] /\ 1 \in 1 .. Len(s)
  BY <1>2 DEF PopHead, First
<1>4. qnext[s[1]] = NullNode <=> 1 = Len(s)
  <2>1. qnext[s[1]] = IF 1 = Len(s) THEN NullNode ELSE s[1 + 1]
    BY <1>1, <1>3 DEF QueueHere
  <2> DEFINE m == Len(s)
  <2>2. 1 # m => 1 + 1 \in 1 .. m
    <3>1. m \in Nat /\ m # 0
      BY <1>2, <1>3
    <3> HIDE DEF m
    <3> QED
      BY <3>1
  <2> QED
    BY <1>2, <2>1, <2>2
<1>5. qtail' = [qtail EXCEPT ![q] = IF 1 = Len(s) THEN NullNode ELSE @]
  BY <1>3, <1>4 DEF PopHead
<1>6. \A i \in 1 .. 1 : i = 1
  OBVIOUS
<1>7. in_queue' \in [Nodes -> BOOLEAN] /\
      \A n \in Nodes : in_queue'[n] <=> in_queue[n] /\ \A i \in 1 .. 1 : s[i] # n
  BY <1>1, <1>2, <1>3, <1>6 DEF PopHead, QueueHere
<1>8. TakesHead(q, s, 1)
  BY <1>3, <1>5, <1>7 DEF PopHead, TakesHead
<1> QED
  BY <1>3, <1>8 DEF s

\* pop_tail_half takes half of the nodes, and never all.
LEMMA PopTailHalfIs ==
  ASSUME NEW L, Spells(L), NEW q \in Queues, PopTailHalf(q)
  PROVE  /\ Half(q) \in Nat \ {0} /\ Half(q) < Len(L[q]) /\ TakesHead(q, L[q], Half(q))
         /\ Half(q) = IF Len(L[q]) \div 2 < StealMax THEN Len(L[q]) \div 2 ELSE StealMax
<1> DEFINE s == L[q]
           h == Half(q)
<1>1. QueueHere(L, q, s) /\ List(q) = s
  BY HereIs, ListIs
<1>2. /\ h # 0 /\ head' = [head EXCEPT ![q] = qnext[List(q)[h]]]
      /\ prev' = SetLink(prev, qnext[List(q)[h]], NullNode)
      /\ in_queue' = [n \in Nodes |-> in_queue[n] /\ \A i \in 1 .. h : List(q)[i] # n]
      /\ AddTotal(q, -h) /\ UNCHANGED <<qnext, qtail>>
  BY DEF PopTailHalf
<1> HIDE DEF s
<1>3. h = IF Len(s) \div 2 < StealMax THEN Len(s) \div 2 ELSE StealMax
  BY <1>1 DEF QueueHere, Half
<1> HIDE DEF h
<1>4. h \in Nat \ {0} /\ h < Len(s)
  <2>1. Len(s) \in Nat /\ StealMax \in Nat
    BY <1>1 DEF QueueHere
  <2> DEFINE c == Len(s) \div 2
  <2>2. c \in Nat /\ (c = 0 \/ c < Len(s))
    BY <2>1
  <2> HIDE DEF c
  <2>3. h = IF c < StealMax THEN c ELSE StealMax
    BY <1>3 DEF c
  <2> QED
    BY <1>2, <2>1, <2>2, <2>3
<1>5. h \in 1 .. Len(s) /\ h # Len(s)
  BY <1>1, <1>4 DEF QueueHere
<1>6. qtail' = [qtail EXCEPT ![q] = IF h = Len(s) THEN NullNode ELSE @]
  BY <1>1, <1>2, <1>5 DEF QueueHere
<1>7. TakesHead(q, s, h)
  BY <1>1, <1>2, <1>5, <1>6 DEF TakesHead, QueueHere
<1> QED
  BY <1>3, <1>4, <1>7 DEF s, h

\* List w is s without its k-th node.
Dropped(w, s, k) ==
  /\ w \in Seq(Nodes) /\ Len(w) = Len(s) - 1
  /\ \A i \in 1 .. Len(s) - 1 : w[i] = IF i < k THEN s[i] ELSE s[i + 1]

\* RemoveAt gives it.
LEMMA RemoveAtIs ==
  ASSUME NEW s \in Seq(Nodes), NEW k \in 1 .. Len(s)
  PROVE  Dropped(RemoveAt(s, k), s, k)
<1>1. /\ RemoveAt(s, k) \in Seq(Nodes) /\ Len(RemoveAt(s, k)) = Len(s) - 1
      /\ \A i \in 1 .. Len(s) - 1 : RemoveAt(s, k)[i] = IF i < k THEN s[i] ELSE s[i + 1]
  BY SeqRemoveAt
<1> QED
  BY <1>1 DEF Dropped

\* The k-th node of list s of queue q is taken out.
TakesOut(q, s, k) ==
  LET n == s[k] IN
  /\ k \in 1 .. Len(s)
  /\ head' = [head EXCEPT ![q] = IF k = 1 THEN qnext[n] ELSE @]
  /\ qtail' = [qtail EXCEPT ![q] = IF k = Len(s) THEN prev[n] ELSE @]
  /\ qnext' \in Links
  /\ \A x \in Nodes : x # n => qnext'[x] = IF x = prev[n] THEN qnext[n] ELSE qnext[x]
  /\ prev' \in Links
  /\ \A x \in Nodes : x # n => prev'[x] = IF x = qnext[n] THEN prev[n] ELSE prev[x]
  /\ in_queue' = [in_queue EXCEPT ![n] = FALSE]
  /\ AddTotal(q, -1)

\* Its neighbours become neighbours.
LEMMA TakesOutIs ==
  ASSUME NEW L, Spells(L), NEW q \in Queues, NEW k, TakesOut(q, L[q], k), NEW w, Dropped(w, L[q], k)
  PROVE  Becomes(L, q, w)
<1> DEFINE s == L[q]
           m == Len(s)
           n == s[k]
<1>1. QueueHere(L, q, s) /\ TakesOut(q, s, k) /\ Dropped(w, s, k)
  BY HereIs
<1>2. AddTotal(q, -1)
  BY DEF TakesOut
<1> HIDE DEF s
<1>3. /\ s \in Seq(Nodes) /\ m \in Nat /\ \A i \in 1 .. m : s[i] \in Nodes
      /\ \A i, j \in 1 .. m : s[i] = s[j] => i = j
      /\ \A i \in 1 .. m : /\ qnext[s[i]] = IF i = m THEN NullNode ELSE s[i + 1]
                           /\ prev[s[i]] = IF i = 1 THEN NullNode ELSE s[i - 1]
      /\ head[q] = First(s) /\ qtail[q] = Final(s)
  BY <1>1 DEF QueueHere
<1>4. /\ k \in 1 .. m /\ k \in Nat /\ n \in Nodes
      /\ \A x \in Nodes : x # n => qnext'[x] = IF x = prev[n] THEN qnext[n] ELSE qnext[x]
      /\ \A x \in Nodes : x # n => prev'[x] = IF x = qnext[n] THEN prev[n] ELSE prev[x]
  BY <1>1, <1>3 DEF TakesOut
<1>5. /\ w \in Seq(Nodes) /\ Len(w) = m - 1
      /\ \A i \in 1 .. m - 1 : w[i] = IF i < k THEN s[i] ELSE s[i + 1]
  BY <1>1 DEF Dropped
<1>6. /\ qnext[n] = IF k = m THEN NullNode ELSE s[k + 1]
      /\ prev[n] = IF k = 1 THEN NullNode ELSE s[k - 1]
  BY <1>3, <1>4
<1> HIDE DEF m
<1>7. \A i \in 1 .. m - 1 : i \in 1 .. m /\ i + 1 \in 1 .. m
  BY <1>3
<1>8. \A i \in 1 .. m : i # k => s[i] # n /\ s[i] \in Nodes
  BY <1>3, <1>4
<1>9. ASSUME NEW i \in 1 .. m, i # k
      PROVE  /\ qnext'[s[i]] = IF i = k - 1 THEN qnext[n] ELSE IF i = m THEN NullNode ELSE s[i + 1]
             /\ prev'[s[i]] = IF i = k + 1 THEN prev[n] ELSE IF i = 1 THEN NullNode ELSE s[i - 1]
  <2>1. s[i] = prev[n] <=> i = k - 1
    <3>1. CASE k = 1
      BY <1>3, <1>6, <1>8, <1>9, <3>1
    <3>2. CASE k # 1
      <4>1. k - 1 \in 1 .. m /\ prev[n] = s[k - 1]
        BY <1>3, <1>4, <1>6, <3>2
      <4> QED
        BY <1>3, <4>1
    <3> QED
      BY <3>1, <3>2
  <2>2. s[i] = qnext[n] <=> i = k + 1
    <3>1. CASE k = m
      BY <1>3, <1>6, <1>8, <1>9, <3>1
    <3>2. CASE k # m
      <4>1. k + 1 \in 1 .. m /\ qnext[n] = s[k + 1]
        BY <1>3, <1>4, <1>6, <3>2
      <4> QED
        BY <1>3, <4>1
    <3> QED
      BY <3>1, <3>2
  <2>3. /\ qnext'[s[i]] = IF s[i] = prev[n] THEN qnext[n] ELSE qnext[s[i]]
        /\ prev'[s[i]] = IF s[i] = qnext[n] THEN prev[n] ELSE prev[s[i]]
    BY <1>4, <1>8, <1>9
  <2> HIDE DEF n
  <2>4. /\ qnext[s[i]] = IF i = m THEN NullNode ELSE s[i + 1]
        /\ prev[s[i]] = IF i = 1 THEN NullNode ELSE s[i - 1]
    BY <1>3
  <2> QED
    BY <2>1, <2>2, <2>3, <2>4
<1> HIDE DEF n
<1>10. Spelled(w, qnext', prev') /\ Once(w)
  <2>1. ASSUME NEW i \in 1 .. m - 1, NEW j \in 1 .. m - 1, w[i] = w[j] PROVE i = j
    <3>1. \A x, y \in 1 .. m : s[x] = s[y] => x = y
      BY <1>3
    <3>2. i \in 1 .. m /\ i + 1 \in 1 .. m /\ j \in 1 .. m /\ j + 1 \in 1 .. m
      BY <1>7
    <3>3. w[i] = IF i < k THEN s[i] ELSE s[i + 1]
      BY <1>5
    <3>4. w[j] = IF j < k THEN s[j] ELSE s[j + 1]
      BY <1>5
    <3>5. CASE i < k /\ j < k
      BY <2>1, <3>1, <3>2, <3>3, <3>4, <3>5
    <3>6. CASE i < k /\ ~(j < k)
      <4>1. i = j + 1
        BY <2>1, <3>1, <3>2, <3>3, <3>4, <3>6
      <4> QED
        BY <1>4, <3>6, <4>1
    <3>7. CASE ~(i < k) /\ j < k
      <4>1. i + 1 = j
        BY <2>1, <3>1, <3>2, <3>3, <3>4, <3>7
      <4> QED
        BY <1>4, <3>7, <4>1
    <3>8. CASE ~(i < k) /\ ~(j < k)
      <4>1. i + 1 = j + 1
        BY <2>1, <3>1, <3>2, <3>3, <3>4, <3>8
      <4> QED
        BY <4>1
    <3> QED
      BY <3>5, <3>6, <3>7, <3>8
  <2>2. ASSUME NEW i \in 1 .. m - 1
        PROVE  /\ qnext'[w[i]] = IF i = m - 1 THEN NullNode ELSE w[i + 1]
               /\ prev'[w[i]] = IF i = 1 THEN NullNode ELSE w[i - 1]
    <3>1. /\ i # m - 1 => w[i + 1] = IF i + 1 < k THEN s[i + 1] ELSE s[i + 1 + 1]
          /\ i # 1 => w[i - 1] = IF i - 1 < k THEN s[i - 1] ELSE s[i - 1 + 1]
      <4>1. /\ i # m - 1 => i + 1 \in 1 .. m - 1
            /\ i # 1 => i - 1 \in 1 .. m - 1
        BY <1>3
      <4> QED
        BY <1>5, <4>1
    <3>2. CASE i < k
      <4>1. w[i] = s[i] /\ i \in 1 .. m /\ i # k
        BY <1>5, <1>7, <3>2
      <4>2. /\ qnext'[s[i]] = IF i = k - 1 THEN qnext[n] ELSE IF i = m THEN NullNode ELSE s[i + 1]
            /\ prev'[s[i]] = IF i = k + 1 THEN prev[n] ELSE IF i = 1 THEN NullNode ELSE s[i - 1]
        BY <1>9, <4>1
      <4>3. prev'[w[i]] = IF i = 1 THEN NullNode ELSE w[i - 1]
        <5>1. i # k + 1 /\ i - 1 < k
          BY <1>4, <3>2
        <5> QED
          BY <3>1, <4>1, <4>2, <5>1
      <4>4. CASE i = k - 1
        <5>1. k - 1 + 1 = k /\ ~(i + 1 < k) /\ (i = m - 1 <=> k = m) /\ i + 1 + 1 = k + 1
          BY <1>3, <1>4, <4>4
        <5> QED
          BY <1>6, <3>1, <4>1, <4>2, <4>3, <4>4, <5>1
      <4>5. CASE i # k - 1
        <5>1. i + 1 < k /\ i # m /\ i # m - 1
          BY <1>3, <1>4, <3>2, <4>5
        <5> QED
          BY <3>1, <4>1, <4>2, <4>3, <4>5, <5>1
      <4> QED
        BY <4>4, <4>5
    <3>3. CASE ~(i < k)
      <4>1. w[i] = s[i + 1] /\ i + 1 \in 1 .. m /\ i + 1 # k
        BY <1>4, <1>5, <1>7, <3>3
      <4>2. /\ qnext'[s[i + 1]] = IF i + 1 = k - 1 THEN qnext[n] ELSE
                                    IF i + 1 = m THEN NullNode ELSE s[i + 1 + 1]
            /\ prev'[s[i + 1]] = IF i + 1 = k + 1 THEN prev[n] ELSE
                                   IF i + 1 = 1 THEN NullNode ELSE s[i + 1 - 1]
        BY <1>9, <4>1
      <4>3. qnext'[w[i]] = IF i = m - 1 THEN NullNode ELSE w[i + 1]
        <5>1. i + 1 # k - 1 /\ ~(i + 1 < k) /\ (i + 1 = m <=> i = m - 1)
          <6>1. m \in Nat /\ k \in Nat
            BY <1>3, <1>4
          <6> QED
            BY <3>3, <6>1
        <5> QED
          BY <3>1, <4>1, <4>2, <5>1
      <4>4. CASE i = k
        <5>1. i + 1 = k + 1 /\ i - 1 < k /\ i - 1 = k - 1 /\ (i = 1 <=> k = 1)
          BY <1>4, <4>4
        <5> QED
          BY <1>6, <3>1, <4>1, <4>2, <4>3, <5>1
      <4>5. CASE i # k
        <5>1. i + 1 # k + 1 /\ i + 1 # 1 /\ i # 1 /\ ~(i - 1 < k) /\ i + 1 - 1 = i /\ i - 1 + 1 = i
          BY <1>4, <3>3, <4>5
        <5> QED
          BY <3>1, <4>1, <4>2, <4>3, <5>1
      <4> QED
        BY <4>4, <4>5
    <3> QED
      BY <3>2, <3>3
  <2>3. Neighbours(w, m - 1, qnext', prev')
    BY <2>1, <2>2 DEF Neighbours
  <2> QED
    BY <1>5, <2>3, SpelledBy
<1>11. head' = [head EXCEPT ![q] = First(w)]
  <2>1. First(w) = IF k = 1 THEN qnext[n] ELSE head[q]
    <3>1. head[q] = s[1]
      BY <1>3, <1>4 DEF First, m
    <3>2. CASE m = 1
      <4>1. k = 1 /\ k = m /\ Len(w) = 0
        BY <1>4, <1>5, <3>2
      <4> QED
        BY <1>6, <4>1 DEF First
    <3>3. CASE m # 1
      <4>1. 1 \in 1 .. m - 1 /\ Len(w) # 0
        BY <1>3, <1>4, <1>5, <3>3
      <4>2. w[1] = IF 1 < k THEN s[1] ELSE s[1 + 1]
        BY <1>5, <4>1
      <4>3. First(w) = w[1]
        BY <4>1 DEF First
      <4>4. CASE k = 1
        BY <1>6, <3>3, <4>2, <4>3, <4>4
      <4>5. CASE k # 1
        <5>1. 1 < k
          BY <1>4, <4>5
        <5> QED
          BY <3>1, <4>2, <4>3, <4>5, <5>1
      <4> QED
        BY <4>4, <4>5
    <3> QED
      BY <3>2, <3>3
  <2> QED
    BY <1>1, <2>1 DEF TakesOut, n
<1>12. qtail' = [qtail EXCEPT ![q] = Final(w)]
  <2>1. Final(w) = IF k = m THEN prev[n] ELSE qtail[q]
    <3>1. qtail[q] = s[m]
      BY <1>3, <1>4 DEF Final, m
    <3>2. CASE m = 1
      <4>1. k = 1 /\ k = m /\ Len(w) = 0
        BY <1>4, <1>5, <3>2
      <4> QED
        BY <1>6, <4>1 DEF Final
    <3>3. CASE m # 1
      <4>1. m - 1 \in 1 .. m - 1 /\ Len(w) # 0 /\ m - 1 + 1 = m
        BY <1>3, <1>4, <1>5, <3>3
      <4>2. w[m - 1] = IF m - 1 < k THEN s[m - 1] ELSE s[m]
        BY <1>5, <4>1
      <4>3. Final(w) = w[m - 1]
        BY <1>5, <4>1 DEF Final
      <4>4. CASE k = m
        <5>1. m - 1 < k /\ k # 1 /\ k - 1 = m - 1
          BY <1>4, <3>3, <4>4
        <5> QED
          BY <1>6, <4>2, <4>3, <4>4, <5>1
      <4>5. CASE k # m
        <5>1. ~(m - 1 < k)
          BY <1>3, <1>4, <4>5
        <5> QED
          BY <3>1, <4>2, <4>3, <4>5, <5>1
      <4> QED
        BY <4>4, <4>5
    <3> QED
      BY <3>2, <3>3
  <2> QED
    BY <1>1, <2>1 DEF TakesOut, n, m
<1>13. total' = [total EXCEPT ![q] = Len(w)]
  <2>1. Len(w) = m + (-1) /\ -1 \in Int
    BY <1>3, <1>5
  <2>2. Len(w) = Len(L[q]) + (-1)
    BY <2>1 DEF s, m
  <2> QED
    BY <1>2, <1>5, <1>10, <2>1, <2>2, TotalIs
<1>14. \A x \in Nodes : Has(w, x) <=> Has(s, x) /\ x # n
  <2> SUFFICES ASSUME NEW x \in Nodes PROVE Has(w, x) <=> Has(s, x) /\ x # n
    OBVIOUS
  <2>1. ASSUME Has(w, x) PROVE Has(s, x) /\ x # n
    <3>1. PICK i \in 1 .. m - 1 : w[i] = x
      BY <1>5, <2>1 DEF Has
    <3>2. \E j \in 1 .. m : j # k /\ s[j] = x
      <4>1. CASE i < k
        BY <1>4, <1>5, <1>7, <3>1, <4>1
      <4>2. CASE ~(i < k)
        <5>1. i + 1 # k /\ i + 1 \in 1 .. m /\ s[i + 1] = x
          BY <1>4, <1>5, <1>7, <3>1, <4>2
        <5> QED
          BY <5>1
      <4> QED
        BY <4>1, <4>2
    <3> QED
      BY <1>8, <3>2 DEF Has, m
  <2>2. ASSUME Has(s, x), x # n PROVE Has(w, x)
    <3>1. PICK i \in 1 .. m : s[i] = x
      BY <2>2 DEF Has, m
    <3>2. i # k
      BY <2>2, <3>1 DEF n
    <3>3. CASE i < k
      <4>1. i \in 1 .. m - 1
        BY <1>3, <1>4, <3>3
      <4> QED
        BY <1>5, <3>1, <3>3, <4>1 DEF Has
    <3>4. CASE ~(i < k)
      <4>1. i - 1 \in 1 .. m - 1 /\ ~(i - 1 < k) /\ i - 1 + 1 = i
        BY <1>3, <1>4, <3>2, <3>4
      <4>2. w[i - 1] = x
        BY <1>5, <3>1, <4>1
      <4> QED
        BY <1>5, <4>1, <4>2 DEF Has
    <3> QED
      BY <3>3, <3>4
  <2> QED
    BY <2>1, <2>2
<1>15. ASSUME NEW x \in Nodes, Elsewhere(L, q, x)
       PROVE  qnext'[x] = qnext[x] /\ prev'[x] = prev[x] /\ ~Has(w, x)
  <2>1. ~Has(s, x)
    BY <1>1, <1>15 DEF QueueHere
  <2>2. \A i \in 1 .. m : s[i] # x
    BY <2>1 DEF Has, m
  <2>3. x # n
    BY <1>4, <2>2 DEF n
  <2>4. x # prev[n]
    <3>1. k # 1 => k - 1 \in 1 .. m
      BY <1>3, <1>4
    <3> QED
      BY <1>6, <2>2, <3>1
  <2>5. x # qnext[n]
    <3>1. k # m => k + 1 \in 1 .. m
      BY <1>3, <1>4
    <3> QED
      BY <1>6, <2>2, <3>1
  <2> QED
    BY <1>4, <1>14, <2>1, <2>3, <2>4, <2>5
<1>16. \A x \in Nodes : in_queue'[x] <=> Has(w, x) \/ Elsewhere(L, q, x)
  <2> SUFFICES ASSUME NEW x \in Nodes PROVE in_queue'[x] <=> Has(w, x) \/ Elsewhere(L, q, x)
    OBVIOUS
  <2>1. in_queue'[x] <=> in_queue[x] /\ x # n
    BY <1>1, <1>4 DEF TakesOut, QueueHere, n
  <2>2. ~Elsewhere(L, q, n)
    <3>1. Has(s, n)
      BY <1>4 DEF Has, m, n
    <3> QED
      BY <1>1, <1>4, <3>1 DEF QueueHere
  <2>3. in_queue[x] <=> Has(s, x) \/ Elsewhere(L, q, x)
    BY <1>1 DEF QueueHere
  <2> QED
    BY <1>14, <2>1, <2>2, <2>3
<1>17. qnext' \in Links /\ prev' \in Links /\ in_queue' \in [Nodes -> BOOLEAN]
  BY <1>1, <1>4 DEF TakesOut, QueueHere, n
<1> QED
  BY <1>10, <1>11, <1>12, <1>13, <1>15, <1>16, <1>17 DEF Becomes, Links

\* pop_tail takes out the last node.
LEMMA PopTailIs ==
  ASSUME NEW L, Spells(L), NEW q \in Queues, PopTail(q)
  PROVE  Len(L[q]) # 0 /\ TakesOut(q, L[q], Len(L[q]))
<1> DEFINE s == L[q]
           m == Len(s)
           n == s[m]
<1>1. QueueHere(L, q, s)
  BY HereIs
<1> HIDE DEF s
<1>2. /\ head[q] = First(s) /\ qtail[q] = Final(s) /\ m \in Nat /\ \A i \in 1 .. m : s[i] \in Nodes
      /\ qnext \in Links /\ prev \in Links /\ head \in [Queues -> Nodes \cup {NullNode}]
      /\ \A i \in 1 .. m : /\ qnext[s[i]] = IF i = m THEN NullNode ELSE s[i + 1]
                           /\ prev[s[i]] = IF i = 1 THEN NullNode ELSE s[i - 1]
  BY <1>1 DEF QueueHere
<1>3. m # 0
  BY <1>2 DEF PopTail, First
<1>4. m \in 1 .. m /\ qtail[q] = n /\ n \in Nodes
  BY <1>2, <1>3 DEF Final
<1>5. qnext[n] = NullNode /\ prev[n] = IF m = 1 THEN NullNode ELSE s[m - 1]
  BY <1>2, <1>4
<1>6. prev[n] \in Nodes \cup {NullNode} /\ (prev[n] = NullNode <=> m = 1)
  <2>1. m # 1 => m - 1 \in 1 .. m
    <3>1. m \in Nat /\ m # 0
      BY <1>2, <1>3
    <3> HIDE DEF m
    <3> QED
      BY <3>1
  <2> QED
    BY <1>2, <1>5, <2>1
<1> HIDE DEF m, n
<1>7. Linked(qnext', qnext, prev[n], NullNode)
  <2>1. NullNode \in Nodes \cup {NullNode}
    OBVIOUS
  <2>2. Linked(SetLink(qnext, prev[n], NullNode), qnext, prev[n], NullNode)
    BY <1>2, <1>6, <2>1, SetLinkIs
  <2> QED
    BY <1>4, <2>2 DEF PopTail
<1>8. head' = [head EXCEPT ![q] = IF m = 1 THEN NullNode ELSE @]
  BY <1>4, <1>6 DEF PopTail
<1>9. TakesOut(q, s, m)
  <2>1. qtail' = [qtail EXCEPT ![q] = prev[n]] /\ prev' = prev /\ AddTotal(q, -1)
        /\ in_queue' = [in_queue EXCEPT ![n] = FALSE]
    BY <1>4 DEF PopTail
  <2>2. \A x \in Nodes : x # qnext[n]
    BY <1>5
  <2> QED
    BY <1>2, <1>4, <1>5, <1>7, <1>8, <2>1, <2>2 DEF TakesOut, Linked, n, m
<1> QED
  BY <1>3, <1>9 DEF s, m

\* A node that the caller finds in the queue has a place in its list.
LEMMA CalleeIs ==
  ASSUME NEW L, Spells(L), NEW q \in Queues, NEW n \in Nodes, Callee(q, n)
  PROVE  \E k \in 1 .. Len(L[q]) : L[q][k] = n
<1>1. List(q) = L[q] /\ L[q] \in Seq(Nodes)
  BY ListIs DEF Spells
<1>2. DOMAIN L[q] = 1 .. Len(L[q])
  BY <1>1, ListFact
<1> QED
  BY <1>1, <1>2 DEF Callee

\* remove takes the node out.
LEMMA RemoveNodeIs ==
  ASSUME NEW L, Spells(L), NEW q \in Queues, NEW n \in Nodes, RemoveNode(q, n)
  PROVE  \E k \in 1 .. Len(L[q]) : L[q][k] = n /\ TakesOut(q, L[q], k)
<1> DEFINE s == L[q]
           m == Len(s)
<1>1. QueueHere(L, q, s)
  BY HereIs
<1>2. PICK k \in 1 .. m : s[k] = n
  BY CalleeIs DEF RemoveNode
<1> HIDE DEF s
<1>3. /\ head[q] = First(s) /\ qtail[q] = Final(s) /\ m \in Nat /\ \A i \in 1 .. m : s[i] \in Nodes
      /\ \A i, j \in 1 .. m : s[i] = s[j] => i = j
      /\ qnext \in Links /\ prev \in Links
      /\ \A i \in 1 .. m : /\ qnext[s[i]] = IF i = m THEN NullNode ELSE s[i + 1]
                           /\ prev[s[i]] = IF i = 1 THEN NullNode ELSE s[i - 1]
  BY <1>1 DEF QueueHere
<1>4. /\ qnext[n] = IF k = m THEN NullNode ELSE s[k + 1]
      /\ prev[n] = IF k = 1 THEN NullNode ELSE s[k - 1]
  BY <1>2, <1>3
<1>5. m # 0 /\ 1 \in 1 .. m /\ m \in 1 .. m
  BY <1>2, <1>3
<1>6. head[q] = s[1] /\ qtail[q] = s[m]
  BY <1>3, <1>5 DEF First, Final
<1> HIDE DEF m
<1>7. (head[q] = n <=> k = 1) /\ (qtail[q] = n <=> k = m)
  BY <1>2, <1>3, <1>5, <1>6
<1>8. qnext[n] \in Nodes \cup {NullNode} /\ prev[n] \in Nodes \cup {NullNode}
  <2>1. (k # m => k + 1 \in 1 .. m) /\ (k # 1 => k - 1 \in 1 .. m)
    BY <1>3
  <2> QED
    BY <1>3, <1>4, <2>1
<1>9. /\ Linked(SetLink(qnext, prev[n], qnext[n]), qnext, prev[n], qnext[n])
      /\ Linked(SetLink(prev, qnext[n], prev[n]), prev, qnext[n], prev[n])
  BY <1>3, <1>8, SetLinkIs
<1>10. /\ qnext' \in Links
       /\ \A x \in Nodes : x # n => qnext'[x] = IF x = prev[n] THEN qnext[n] ELSE qnext[x]
  <2> DEFINE g == SetLink(qnext, prev[n], qnext[n])
  <2>1. qnext' = [g EXCEPT ![n] = NullNode]
    BY DEF RemoveNode
  <2>2. Linked(g, qnext, prev[n], qnext[n])
    BY <1>9
  <2> HIDE DEF g
  <2> QED
    BY <2>1, <2>2 DEF Linked, Links
<1>11. /\ prev' \in Links
       /\ \A x \in Nodes : x # n => prev'[x] = IF x = qnext[n] THEN prev[n] ELSE prev[x]
  <2> DEFINE g == SetLink(prev, qnext[n], prev[n])
  <2>1. prev' = [g EXCEPT ![n] = NullNode]
    BY DEF RemoveNode
  <2>2. Linked(g, prev, qnext[n], prev[n])
    BY <1>9
  <2> HIDE DEF g
  <2> QED
    BY <2>1, <2>2 DEF Linked, Links
<1>12. TakesOut(q, s, k)
  <2>1. /\ head' = [head EXCEPT ![q] = IF k = 1 THEN qnext[n] ELSE @]
        /\ qtail' = [qtail EXCEPT ![q] = IF k = m THEN prev[n] ELSE @]
        /\ in_queue' = [in_queue EXCEPT ![n] = FALSE] /\ AddTotal(q, -1)
    BY <1>7 DEF RemoveNode
  <2> QED
    BY <1>2, <1>10, <1>11, <2>1 DEF TakesOut, m
<1> QED
  BY <1>2, <1>12 DEF s, m

\* A heap uses the links of nodes that are in no list.
LEMMA HeapUseIs ==
  ASSUME NEW L, Spells(L), NEW n \in Nodes, HeapUse(n)
  PROVE  Spells(L)'
<1>1. \A q \in Queues : ~Has(L[q], n)
  BY DEF Spells, HeapUse
<1>2. \A x \in Nodes : x # n => qnext'[x] = qnext[x] /\ prev'[x] = prev[x]
  BY DEF HeapUse, Spells, QueueTypeOK
<1>3. UNCHANGED <<head, qtail, total, in_queue>>
  BY DEF HeapUse
<1>4. QueueTypeOK'
  BY DEF HeapUse, Spells, QueueTypeOK
<1>5. ASSUME NEW q \in Queues PROVE Spelled(L[q], qnext', prev')
  <2> DEFINE s == L[q]
  <2>1. s \in Seq(Nodes) /\ Spelled(s, qnext, prev) /\ ~Has(s, n)
    BY <1>1 DEF Spells
  <2> HIDE DEF s
  <2>2. \A i \in 1 .. Len(s) : s[i] \in Nodes /\ s[i] # n
    BY <2>1, ListFact DEF Has
  <2>3. \A i \in 1 .. Len(s) : qnext'[s[i]] = qnext[s[i]] /\ prev'[s[i]] = prev[s[i]]
    BY <1>2, <2>2
  <2>4. Spelled(s, qnext', prev')
    BY <2>1, <2>3 DEF Spelled, Leads
  <2> QED
    BY <2>4 DEF s
<1> QED
  BY <1>3, <1>4, <1>5 DEF Spells

\* List w is s with its k-th node in front.
Raised(w, s, k) ==
  /\ w \in Seq(Nodes) /\ Len(w) = Len(s) /\ w[1] = s[k]
  /\ \A i \in 2 .. Len(s) : w[i] = IF i <= k THEN s[i - 1] ELSE s[i]

\* It is the k-th node and what RemoveAt leaves.
LEMMA RaisedIs ==
  ASSUME NEW s \in Seq(Nodes), NEW k \in 1 .. Len(s)
  PROVE  Raised(<<s[k]>> \o RemoveAt(s, k), s, k)
<1> DEFINE m == Len(s)
           b == RemoveAt(s, k)
           a == <<s[k]>>
           w == a \o b
<1>1. m \in Nat /\ s[k] \in Nodes
  BY ListFact
<1>2. Dropped(b, s, k)
  BY RemoveAtIs
<1>3. a \in Seq(Nodes) /\ Len(a) = 1 /\ a[1] = s[k]
  BY <1>1
<1> HIDE DEF a, b
<1>4. /\ w \in Seq(Nodes) /\ Len(w) = Len(a) + Len(b)
      /\ \A i \in 1 .. Len(a) + Len(b) : w[i] = IF i <= Len(a) THEN a[i] ELSE b[i - Len(a)]
  BY <1>2, <1>3, ConcatProperties, ZenonT(40) DEF Dropped
<1> HIDE DEF w
<1>5. Len(b) = m - 1 /\ \A i \in 1 .. m - 1 : b[i] = IF i < k THEN s[i] ELSE s[i + 1]
  BY <1>2 DEF Dropped
<1> HIDE DEF m
<1>6. Len(w) = m /\ m # 0 /\ \A i \in 1 .. m : w[i] = IF i <= 1 THEN a[i] ELSE b[i - 1]
  <2>1. m # 0 /\ Len(a) + Len(b) = m
    BY <1>1, <1>3, <1>5 DEF m
  <2> QED
    BY <1>3, <1>4, <2>1
<1>7. w[1] = s[k]
  BY <1>1, <1>3, <1>6
<1>8. ASSUME NEW i \in 2 .. m PROVE w[i] = IF i <= k THEN s[i - 1] ELSE s[i]
  <2>1. i \in 1 .. m /\ ~(i <= 1) /\ i - 1 \in 1 .. m - 1 /\ (i - 1 < k <=> i <= k) /\ i - 1 + 1 = i
    BY <1>1 DEF m
  <2>2. w[i] = b[i - 1]
    BY <1>6, <2>1
  <2>3. b[i - 1] = IF i - 1 < k THEN s[i - 1] ELSE s[i - 1 + 1]
    BY <1>5, <2>1
  <2> QED
    BY <2>1, <2>2, <2>3
<1>9. Raised(w, s, k)
  BY <1>4, <1>6, <1>7, <1>8 DEF Raised, m
<1> QED
  BY <1>9 DEF w, a, b

\* move_up brings a node, that is not the first, to the front.
LEMMA MoveUpIs ==
  ASSUME NEW L, Spells(L), NEW q \in Queues, NEW n \in Nodes, MoveUp(q, n)
  PROVE  \E k \in 1 .. Len(L[q]) : /\ L[q][k] = n
                                   /\ \A w : Raised(w, L[q], k) => Becomes(L, q, w)
<1> DEFINE s == L[q]
           m == Len(s)
<1>1. QueueHere(L, q, s)
  BY HereIs
<1>2. PICK k \in 1 .. m : s[k] = n
  BY CalleeIs DEF MoveUp
<1>3. SUFFICES ASSUME NEW w, Raised(w, s, k) PROVE Becomes(L, q, w)
  BY <1>2
<1> HIDE DEF s
<1>4. /\ head[q] = First(s) /\ qtail[q] = Final(s) /\ m \in Nat /\ \A i \in 1 .. m : s[i] \in Nodes
      /\ \A i, j \in 1 .. m : s[i] = s[j] => i = j
      /\ qnext \in Links /\ prev \in Links /\ total[q] = m
      /\ \A i \in 1 .. m : /\ qnext[s[i]] = IF i = m THEN NullNode ELSE s[i + 1]
                           /\ prev[s[i]] = IF i = 1 THEN NullNode ELSE s[i - 1]
  BY <1>1 DEF QueueHere
<1>5. /\ w \in Seq(Nodes) /\ Len(w) = m /\ w[1] = n
      /\ \A i \in 2 .. m : w[i] = IF i <= k THEN s[i - 1] ELSE s[i]
  BY <1>2, <1>3 DEF Raised
<1>6. m # 0 /\ 1 \in 1 .. m /\ m \in 1 .. m
  BY <1>2, <1>4
<1>7. head[q] = s[1] /\ qtail[q] = s[m]
  BY <1>4, <1>6 DEF First, Final
<1> HIDE DEF m
<1>8. k # 1 /\ k \in Nat /\ k - 1 \in 1 .. m /\ prev[n] = s[k - 1]
  <2>1. prev[n] = IF k = 1 THEN NullNode ELSE s[k - 1]
    BY <1>2, <1>4
  <2>2. prev[n] # NullNode
    BY DEF MoveUp
  <2> QED
    BY <1>4, <2>1, <2>2
<1>9. /\ qnext[n] = IF k = m THEN NullNode ELSE s[k + 1]
      /\ k # m => k + 1 \in 1 .. m
      /\ qnext[n] \in Nodes \cup {NullNode} /\ prev[n] \in Nodes
      /\ qnext[n] = NullNode <=> k = m
  <2>1. qnext[n] = IF k = m THEN NullNode ELSE s[k + 1]
    BY <1>2, <1>4
  <2>2. k # m => k + 1 \in 1 .. m
    BY <1>4
  <2> QED
    BY <1>4, <1>8, <2>1, <2>2
<1>10. s[1] # n /\ s[1] \in Nodes /\ s[k - 1] # n
  <2>1. k - 1 # k
    BY <1>8
  <2> QED
    BY <1>2, <1>4, <1>6, <1>8, <2>1
<1>11. /\ qnext' \in Links
       /\ \A x \in Nodes : qnext'[x] = IF x = n THEN s[1] ELSE IF x = prev[n] THEN qnext[n] ELSE qnext[x]
  <2>1. qnext' = [qnext EXCEPT ![prev[n]] = qnext[n], ![n] = s[1]]
    BY <1>7 DEF MoveUp
  <2> QED
    BY <1>4, <1>9, <1>10, <2>1 DEF Links
<1>12. /\ prev' \in Links
       /\ \A x \in Nodes : prev'[x] = IF x = s[1] THEN n ELSE IF x = n THEN NullNode ELSE
                                        IF x = qnext[n] THEN prev[n] ELSE prev[x]
  <2> DEFINE g == SetLink(prev, qnext[n], prev[n])
  <2>1. Linked(g, prev, qnext[n], prev[n])
    BY <1>4, <1>9, SetLinkIs
  <2>2. prev' = [g EXCEPT ![n] = NullNode, ![s[1]] = n]
    BY <1>7 DEF MoveUp
  <2> HIDE DEF g
  <2> QED
    BY <1>10, <2>1, <2>2 DEF Linked, Links
<1>13. ASSUME NEW j \in 1 .. m
       PROVE  /\ qnext'[s[j]] = IF j = k THEN s[1] ELSE IF j = k - 1 THEN qnext[n] ELSE
                                  IF j = m THEN NullNode ELSE s[j + 1]
              /\ prev'[s[j]] = IF j = 1 THEN n ELSE IF j = k THEN NullNode ELSE
                                 IF j = k + 1 THEN s[k - 1] ELSE s[j - 1]
  <2>1. s[j] \in Nodes /\ (s[j] = n <=> j = k) /\ (s[j] = s[1] <=> j = 1) /\ (s[j] = prev[n] <=> j = k - 1)
    BY <1>2, <1>4, <1>6, <1>8
  <2>2. s[j] = qnext[n] <=> j = k + 1
    <3>1. CASE k = m
      <4>1. j # k + 1
        BY <1>4, <3>1
      <4> QED
        BY <1>9, <2>1, <3>1, <4>1
    <3>2. CASE k # m
      BY <1>4, <1>9, <3>2
    <3> QED
      BY <3>1, <3>2
  <2>3. /\ qnext[s[j]] = IF j = m THEN NullNode ELSE s[j + 1]
        /\ prev[s[j]] = IF j = 1 THEN NullNode ELSE s[j - 1]
    BY <1>4
  <2>4. qnext'[s[j]] = IF s[j] = n THEN s[1] ELSE IF s[j] = prev[n] THEN qnext[n] ELSE qnext[s[j]]
    BY <1>11, <2>1
  <2>5. prev'[s[j]] = IF s[j] = s[1] THEN n ELSE IF s[j] = n THEN NullNode ELSE
                        IF s[j] = qnext[n] THEN prev[n] ELSE prev[s[j]]
    BY <1>12, <2>1
  <2> QED
    BY <1>8, <2>1, <2>2, <2>3, <2>4, <2>5
<1>14. Spelled(w, qnext', prev') /\ Once(w)
  <2>1. 2 \in 2 .. m /\ w[2] = s[1] /\ 1 # m
    <3>1. 2 \in 2 .. m /\ 2 <= k /\ 1 # m
      BY <1>4, <1>8
    <3> QED
      BY <1>5, <3>1
  <2>2. ASSUME NEW i \in 1 .. m, i # 1
        PROVE  i \in 2 .. m /\ i - 1 \in 1 .. m /\ w[i] = IF i <= k THEN s[i - 1] ELSE s[i]
    BY <1>4, <1>5, <2>2
  <2>3. ASSUME NEW i \in 1 .. m
        PROVE  \E j \in 1 .. m : w[i] = s[j] /\ j = IF i = 1 THEN k ELSE IF i <= k THEN i - 1 ELSE i
    <3>1. CASE i = 1
      BY <1>2, <1>5, <3>1
    <3>2. CASE i # 1
      BY <2>2, <3>2
    <3> QED
      BY <3>1, <3>2
  <2>4. ASSUME NEW i \in 1 .. m, NEW j \in 1 .. m, w[i] = w[j] PROVE i = j
    <3>1. PICK a \in 1 .. m : w[i] = s[a] /\ a = IF i = 1 THEN k ELSE IF i <= k THEN i - 1 ELSE i
      BY <2>3
    <3>2. PICK b \in 1 .. m : w[j] = s[b] /\ b = IF j = 1 THEN k ELSE IF j <= k THEN j - 1 ELSE j
      BY <2>3
    <3>3. a = b
      <4>1. s[a] = s[b]
        BY <2>4, <3>1, <3>2
      <4> QED
        BY <1>4, <4>1
    <3>4. a = IF i = 1 THEN k ELSE IF i <= k THEN i - 1 ELSE i
      BY <3>1
    <3>5. b = IF j = 1 THEN k ELSE IF j <= k THEN j - 1 ELSE j
      BY <3>2
    <3>6. k \in Nat /\ i \in Nat /\ j \in Nat
      BY <1>8
    <3>7. ASSUME NEW c \in Nat, NEW d \in Nat,
                 (IF c = 1 THEN k ELSE IF c <= k THEN c - 1 ELSE c)
                   = (IF d = 1 THEN k ELSE IF d <= k THEN d - 1 ELSE d)
          PROVE  c = d
      <4>1. CASE c = 1
        BY <3>6, <3>7, <4>1
      <4>2. CASE c # 1 /\ c <= k
        BY <3>6, <3>7, <4>2
      <4>3. CASE c # 1 /\ ~(c <= k)
        BY <3>6, <3>7, <4>3
      <4> QED
        BY <4>1, <4>2, <4>3
    <3> QED
      BY <3>3, <3>4, <3>5, <3>6, <3>7
  <2>5. ASSUME NEW i \in 1 .. m, i # 1, i <= k
        PROVE  /\ qnext'[w[i]] = IF i = m THEN NullNode ELSE w[i + 1]
               /\ prev'[w[i]] = w[i - 1]
    <3>1. w[i] = s[i - 1] /\ i - 1 \in 1 .. m
      BY <2>2, <2>5
    <3>2. /\ qnext'[s[i - 1]] = IF i - 1 = k THEN s[1] ELSE IF i - 1 = k - 1 THEN qnext[n] ELSE
                                  IF i - 1 = m THEN NullNode ELSE s[i - 1 + 1]
          /\ prev'[s[i - 1]] = IF i - 1 = 1 THEN n ELSE IF i - 1 = k THEN NullNode ELSE
                                 IF i - 1 = k + 1 THEN s[k - 1] ELSE s[i - 1 - 1]
      BY <1>13, <3>1
    <3>3. i - 1 # k /\ i - 1 # k + 1 /\ (i - 1 = k - 1 <=> i = k) /\ i - 1 # m /\ i - 1 + 1 = i
      BY <1>4, <1>8, <2>5
    <3>4. qnext'[w[i]] = IF i = m THEN NullNode ELSE w[i + 1]
      <4>1. CASE i = k /\ k = m
        BY <1>9, <3>1, <3>2, <3>3, <4>1
      <4>2. CASE i = k /\ k # m
        <5>1. k + 1 \in 1 .. m /\ k + 1 # 1 /\ ~(k + 1 <= k)
          BY <1>8, <1>9, <4>2
        <5>2. w[k + 1] = s[k + 1]
          BY <2>2, <5>1
        <5> QED
          BY <1>9, <3>1, <3>2, <3>3, <4>2, <5>2
      <4>3. CASE i # k
        <5>1. i + 1 \in 1 .. m /\ i + 1 # 1 /\ i + 1 <= k /\ i # m /\ i + 1 - 1 = i
          BY <1>4, <1>8, <2>5, <4>3
        <5>2. w[i + 1] = s[i]
          BY <2>2, <5>1
        <5> QED
          BY <3>1, <3>2, <3>3, <4>3, <5>1, <5>2
      <4> QED
        BY <4>1, <4>2, <4>3
    <3>5. prev'[w[i]] = w[i - 1]
      <4>1. CASE i - 1 = 1
        BY <1>5, <3>1, <3>2, <4>1
      <4>2. CASE i - 1 # 1
        <5>1. i - 1 <= k
          BY <1>8, <2>5
        <5>2. w[i - 1] = s[i - 1 - 1]
          BY <2>2, <3>1, <4>2, <5>1
        <5> QED
          BY <3>1, <3>2, <3>3, <4>2, <5>2
      <4> QED
        BY <4>1, <4>2
    <3> QED
      BY <3>4, <3>5
  <2>6. ASSUME NEW i \in 1 .. m, i # 1, ~(i <= k)
        PROVE  /\ qnext'[w[i]] = IF i = m THEN NullNode ELSE w[i + 1]
               /\ prev'[w[i]] = w[i - 1]
    <3>1. w[i] = s[i] /\ i - 1 \in 1 .. m
      BY <2>2, <2>6
    <3>2. /\ qnext'[s[i]] = IF i = k THEN s[1] ELSE IF i = k - 1 THEN qnext[n] ELSE
                              IF i = m THEN NullNode ELSE s[i + 1]
          /\ prev'[s[i]] = IF i = 1 THEN n ELSE IF i = k THEN NullNode ELSE
                             IF i = k + 1 THEN s[k - 1] ELSE s[i - 1]
      BY <1>13
    <3>3. i # k /\ i # k - 1
      BY <1>8, <2>6
    <3>4. i # m => w[i + 1] = s[i + 1]
      <4>1. i # m => i + 1 \in 1 .. m /\ i + 1 # 1 /\ ~(i + 1 <= k)
        BY <1>4, <1>8, <2>6
      <4> QED
        BY <2>2, <4>1
    <3>5. w[i - 1] = IF i = k + 1 THEN s[k - 1] ELSE s[i - 1]
      <4>1. CASE i = k + 1
        <5>1. i - 1 = k /\ k \in 1 .. m /\ k # 1 /\ k <= k
          BY <1>8, <4>1
        <5>2. w[k] = s[k - 1]
          BY <2>2, <5>1
        <5> QED
          BY <4>1, <5>1, <5>2
      <4>2. CASE i # k + 1
        <5>1. i - 1 # 1 /\ ~(i - 1 <= k)
          BY <1>8, <2>6, <4>2
        <5> QED
          BY <2>2, <3>1, <4>2, <5>1
      <4> QED
        BY <4>1, <4>2
    <3> QED
      BY <2>6, <3>1, <3>2, <3>3, <3>4, <3>5
  <2>7. ASSUME NEW i \in 1 .. m
        PROVE  /\ qnext'[w[i]] = IF i = m THEN NullNode ELSE w[i + 1]
               /\ prev'[w[i]] = IF i = 1 THEN NullNode ELSE w[i - 1]
    <3>1. CASE i = 1
      <4>1. qnext'[n] = s[1] /\ prev'[n] = NullNode
        BY <1>10, <1>11, <1>12
      <4> QED
        BY <1>5, <2>1, <3>1, <4>1
    <3>2. CASE i # 1
      BY <2>5, <2>6, <3>2
    <3> QED
      BY <3>1, <3>2
  <2>8. Neighbours(w, m, qnext', prev')
    BY <2>4, <2>7 DEF Neighbours
  <2> QED
    BY <1>5, <2>8, SpelledBy
<1>15. head' = [head EXCEPT ![q] = First(w)] /\ qtail' = [qtail EXCEPT ![q] = Final(w)]
  <2>1. First(w) = n
    BY <1>5, <1>6 DEF First
  <2>2. Final(w) = w[m]
    BY <1>5, <1>6 DEF Final
  <2>3. m \in 2 .. m /\ (m <= k <=> k = m)
    BY <1>4, <1>8
  <2>4. w[m] = IF k = m THEN s[m - 1] ELSE s[m]
    BY <1>5, <2>3
  <2>5. Final(w) = IF qnext[n] = NullNode THEN prev[n] ELSE qtail[q]
    BY <1>7, <1>8, <1>9, <2>2, <2>4
  <2> QED
    BY <2>1, <2>5 DEF MoveUp
<1>16. total' = [total EXCEPT ![q] = Len(w)]
  <2>1. total' = total /\ total \in [Queues -> 0 .. SizeMod - 1]
    BY DEF MoveUp, Spells, QueueTypeOK
  <2> QED
    BY <1>4, <1>5, <2>1
<1>17. \A x \in Nodes : Has(w, x) <=> Has(s, x)
  <2> SUFFICES ASSUME NEW x \in Nodes PROVE Has(w, x) <=> Has(s, x)
    OBVIOUS
  <2>1. ASSUME Has(w, x) PROVE Has(s, x)
    <3>1. PICK i \in 1 .. m : w[i] = x
      BY <1>5, <2>1 DEF Has
    <3>2. CASE i = 1
      BY <1>2, <1>5, <3>1, <3>2 DEF Has, m
    <3>3. CASE i # 1
      <4>1. i \in 2 .. m /\ i - 1 \in 1 .. m
        BY <1>4, <3>3
      <4> QED
        BY <1>5, <3>1, <4>1 DEF Has, m
    <3> QED
      BY <3>2, <3>3
  <2>2. ASSUME Has(s, x) PROVE Has(w, x)
    <3>1. PICK j \in 1 .. m : s[j] = x
      BY <2>2 DEF Has, m
    <3>2. CASE j = k
      BY <1>2, <1>5, <1>6, <3>1, <3>2 DEF Has
    <3>3. CASE j < k
      <4>1. j + 1 \in 2 .. m /\ j + 1 \in 1 .. m /\ j + 1 <= k /\ j + 1 - 1 = j
        BY <1>4, <1>8, <3>3
      <4>2. w[j + 1] = x
        BY <1>5, <3>1, <4>1
      <4> QED
        BY <1>5, <4>1, <4>2 DEF Has
    <3>4. CASE j > k
      <4>1. j \in 2 .. m /\ ~(j <= k)
        BY <1>4, <1>8, <3>4
      <4> QED
        BY <1>5, <3>1, <4>1 DEF Has
    <3> QED
      BY <1>8, <3>2, <3>3, <3>4
  <2> QED
    BY <2>1, <2>2
<1>18. ASSUME NEW x \in Nodes, Elsewhere(L, q, x)
       PROVE  qnext'[x] = qnext[x] /\ prev'[x] = prev[x] /\ ~Has(w, x)
  <2>1. ~Has(s, x)
    BY <1>1, <1>18 DEF QueueHere
  <2>2. \A i \in 1 .. m : s[i] # x
    BY <2>1 DEF Has, m
  <2>3. x # n /\ x # s[1] /\ x # prev[n] /\ x # qnext[n]
    BY <1>2, <1>6, <1>8, <1>9, <2>2
  <2> QED
    BY <1>11, <1>12, <1>17, <2>1, <2>3
<1>19. in_queue' \in [Nodes -> BOOLEAN] /\ \A x \in Nodes : in_queue'[x] <=> Has(w, x) \/ Elsewhere(L, q, x)
  <2>1. in_queue' = in_queue
    BY DEF MoveUp
  <2> QED
    BY <1>1, <1>17, <2>1 DEF QueueHere
<1> QED
  BY <1>11, <1>12, <1>14, <1>15, <1>16, <1>18, <1>19 DEF Becomes, Links

-----------------------------------------------------------------------------
(* The theorems. *)

\* Without its last node a list is its front.
LEMMA FrontDropped ==
  ASSUME NEW s \in Seq(Nodes), Len(s) # 0
  PROVE  Len(s) \in 1 .. Len(s) /\ Dropped(SubSeq(s, 1, Len(s) - 1), s, Len(s))
<1> DEFINE m == Len(s)
           a == SubSeq(s, 1, m - 1)
<1>1. m \in Nat /\ m # 0 /\ \A i \in 1 .. m : s[i] \in Nodes
  BY ListFact
<1> HIDE DEF m
<1>2. 1 \in Int /\ m - 1 \in Int /\ \A i \in 1 .. m - 1 : s[i] \in Nodes
  BY <1>1
<1>3. /\ a \in Seq(Nodes) /\ Len(a) = IF 1 <= m - 1 THEN m - 1 - 1 + 1 ELSE 0
      /\ \A i \in 1 .. m - 1 - 1 + 1 : a[i] = s[1 + i - 1]
  BY <1>2, SubSeqProperties
<1> HIDE DEF a
<1>4. m - 1 - 1 + 1 = m - 1 /\ \A i \in 1 .. m - 1 : 1 + i - 1 = i /\ i < m
  BY <1>1
<1>5. Len(a) = m - 1
  BY <1>1, <1>3
<1>6. m \in 1 .. m
  BY <1>1
<1>7. Dropped(a, s, m)
  BY <1>3, <1>4, <1>5 DEF Dropped, m
<1> QED
  BY <1>6, <1>7 DEF a, m

\* What a step does to the lists.
Changes(L, K) ==
  \/ K = L
  \/ \E q \in Queues :
       LET s == L[q]
           h == IF Len(s) \div 2 < StealMax THEN Len(s) \div 2 ELSE StealMax
       IN  \/ s # <<>> /\ K = [L EXCEPT ![q] = Tail(s)]
           \/ s # <<>> /\ K = [L EXCEPT ![q] = SubSeq(s, 1, Len(s) - 1)]
           \/ h > 0 /\ K = [L EXCEPT ![q] = SubSeq(s, h + 1, Len(s))]
           \/ \E n \in Nodes :
                \/ /\ \A r \in Queues : ~Has(L[r], n)
                   /\ K = [L EXCEPT ![q] = Append(s, n)]
                \/ \E k \in 1 .. Len(s) :
                     /\ s[k] = n
                     /\ \/ K = [L EXCEPT ![q] = RemoveAt(s, k)]
                        \/ K = [L EXCEPT ![q] = <<n>> \o RemoveAt(s, k)]

\* Every step leads from lists to lists, and changes them so.
LEMMA QueueStep ==
  ASSUME NEW L, Spells(L), [QueueNext]_queueVars
  PROVE  \E K : Spells(K)' /\ Changes(L, K)
<1>1. \A q \in Queues : L[q] \in Seq(Nodes) /\ Len(L[q]) \in Nat
  BY ListFact DEF Spells
<1>2. \A q \in Queues : Len(L[q]) # 0 => L[q] # <<>>
  BY <1>1, EmptySeq
<1>3. ASSUME NEW q \in Queues, PopHead(q) PROVE \E K : Spells(K)' /\ Changes(L, K)
  <2>1. Len(L[q]) # 0 /\ TakesHead(q, L[q], 1)
    BY <1>3, PopHeadIs
  <2>2. Becomes(L, q, SubSeq(L[q], 1 + 1, Len(L[q])))
    BY <2>1, TakesHeadIs
  <2>3. Tail(L[q]) = SubSeq(L[q], 2, Len(L[q])) /\ L[q] # <<>>
    BY <1>1, <1>2, <2>1, TailIsSubSeq
  <2>4. Becomes(L, q, Tail(L[q]))
    <3> DEFINE w == SubSeq(L[q], 1 + 1, Len(L[q]))
    <3>1. 1 + 1 = 2
      OBVIOUS
    <3>2. Tail(L[q]) = w
      BY <2>3, <3>1, Zenon
    <3>3. Becomes(L, q, w)
      BY <2>2
    <3> HIDE DEF w
    <3> QED
      BY <3>2, <3>3, Zenon
  <2>5. Spells([L EXCEPT ![q] = Tail(L[q])])'
    BY <2>4, BecomesSpells
  <2>6. Changes(L, [L EXCEPT ![q] = Tail(L[q])])
    BY <2>3 DEF Changes
  <2> QED
    BY <2>5, <2>6
<1>4. ASSUME NEW q \in Queues, PopTail(q) PROVE \E K : Spells(K)' /\ Changes(L, K)
  <2> DEFINE w == SubSeq(L[q], 1, Len(L[q]) - 1)
  <2>1. Len(L[q]) # 0 /\ TakesOut(q, L[q], Len(L[q]))
    BY <1>4, PopTailIs
  <2>2. Dropped(w, L[q], Len(L[q]))
    BY <1>1, <2>1, FrontDropped
  <2>3. Becomes(L, q, w)
    BY <2>1, <2>2, TakesOutIs
  <2>4. Spells([L EXCEPT ![q] = w])'
    BY <2>3, BecomesSpells
  <2>5. Changes(L, [L EXCEPT ![q] = w])
    BY <1>2, <2>1 DEF Changes
  <2> QED
    BY <2>4, <2>5
<1>5. ASSUME NEW q \in Queues, PopTailHalf(q) PROVE \E K : Spells(K)' /\ Changes(L, K)
  <2>1. PICK h : /\ h \in Nat \ {0} /\ TakesHead(q, L[q], h)
                 /\ h = IF Len(L[q]) \div 2 < StealMax THEN Len(L[q]) \div 2 ELSE StealMax
    BY <1>5, PopTailHalfIs
  <2> DEFINE w == SubSeq(L[q], h + 1, Len(L[q]))
  <2>2. Becomes(L, q, w)
    BY <2>1, TakesHeadIs
  <2>3. Changes(L, [L EXCEPT ![q] = w])
    <3>1. \A k \in Nat \ {0} : k > 0
      OBVIOUS
    <3>2. h > 0
      BY <2>1, <3>1, Zenon
    <3> QED
      BY <2>1, <3>2, Zenon DEF Changes
  <2> HIDE DEF w
  <2>4. Spells([L EXCEPT ![q] = w])'
    BY <2>2, BecomesSpells
  <2> QED
    BY <2>3, <2>4
<1>6. ASSUME NEW q \in Queues, NEW n \in Nodes, PushTail(q, n)
      PROVE  \E K : Spells(K)' /\ Changes(L, K)
  <2> DEFINE w == Append(L[q], n)
  <2>1. Becomes(L, q, w) /\ \A r \in Queues : ~Has(L[r], n)
    BY <1>6, PushTailIs
  <2>2. Spells([L EXCEPT ![q] = w])'
    BY <2>1, BecomesSpells
  <2>3. Changes(L, [L EXCEPT ![q] = w])
    BY <2>1 DEF Changes
  <2> QED
    BY <2>2, <2>3
<1>7. ASSUME NEW q \in Queues, NEW n \in Nodes, RemoveNode(q, n)
      PROVE  \E K : Spells(K)' /\ Changes(L, K)
  <2>1. PICK k \in 1 .. Len(L[q]) : L[q][k] = n /\ TakesOut(q, L[q], k)
    BY <1>7, RemoveNodeIs
  <2> DEFINE w == RemoveAt(L[q], k)
  <2>2. Dropped(w, L[q], k)
    BY <1>1, RemoveAtIs
  <2>3. Becomes(L, q, w)
    BY <2>1, <2>2, TakesOutIs
  <2>4. Spells([L EXCEPT ![q] = w])'
    BY <2>3, BecomesSpells
  <2>5. Changes(L, [L EXCEPT ![q] = w])
    BY <2>1 DEF Changes
  <2> QED
    BY <2>4, <2>5
<1>8. ASSUME NEW q \in Queues, NEW n \in Nodes, MoveUp(q, n)
      PROVE  \E K : Spells(K)' /\ Changes(L, K)
  <2>1. PICK k \in 1 .. Len(L[q]) : /\ L[q][k] = n
                                    /\ \A w : Raised(w, L[q], k) => Becomes(L, q, w)
    BY <1>8, MoveUpIs
  <2> DEFINE w == <<n>> \o RemoveAt(L[q], k)
  <2>2. Raised(w, L[q], k)
    BY <1>1, <2>1, RaisedIs
  <2>3. Becomes(L, q, w)
    BY <2>1, <2>2
  <2>4. Spells([L EXCEPT ![q] = w])'
    BY <2>3, BecomesSpells
  <2>5. Changes(L, [L EXCEPT ![q] = w])
    BY <2>1 DEF Changes
  <2> QED
    BY <2>4, <2>5
<1>9. ASSUME NEW n \in Nodes, HeapUse(n) PROVE \E K : Spells(K)' /\ Changes(L, K)
  BY <1>9, HeapUseIs DEF Changes
<1>10. ASSUME UNCHANGED queueVars PROVE \E K : Spells(K)' /\ Changes(L, K)
  <2>1. Spells(L)'
    BY <1>10 DEF queueVars, Spells, QueueTypeOK
  <2> QED
    BY <2>1 DEF Changes
<1> QED
  BY <1>3, <1>4, <1>5, <1>6, <1>7, <1>8, <1>9, <1>10 DEF QueueNext

\* After a step too a reader finds the sequences that the pointers spell.
LEMMA ListsThen ==
  ASSUME NEW L, Spells(L)'
  PROVE  [q \in Queues |-> List(q)]' = L
<1>1. L \in [Queues -> Seq(Nodes)]
  BY DEF Spells
<1>2. ASSUME NEW q \in Queues PROVE List(q)' = L[q]
  <2>1. Spelled(L[q], qnext', prev') /\ head'[q] = First(L[q])
    BY DEF Spells
  <2>2. Follow(qnext', First(L[q])) = L[q]
    BY <2>1, FollowIs DEF Spelled
  <2>3. List(q)' = Follow(qnext', head'[q])
    BY DEF List, Follow
  <2> QED
    BY <2>1, <2>2, <2>3
<1> QED
  BY <1>1, <1>2

\* A change of the lists is a step of SeqQueues.
LEMMA ChangesAre ==
  ASSUME NEW L, Spells(L), NEW K, Spells(K)', Changes(L, K)
  PROVE  [Seqs!Next]_([q \in Queues |-> List(q)])
<1> DEFINE now == [q \in Queues |-> List(q)]
<1>1. L \in [Queues -> Seq(Nodes)]
  BY DEF Spells
<1>2. now = L
  BY <1>1, ListIs
<1>3. now' = K
  BY ListsThen
<1>4. \A q \in Queues : /\ now[q] = L[q] /\ DOMAIN L[q] = 1 .. Len(L[q])
  BY <1>1, <1>2, ListFact
<1> HIDE DEF now
<1>5. CASE K = L
  BY <1>2, <1>3, <1>5 DEF now
<1>6. ASSUME NEW q \in Queues, L[q] # <<>>, K = [L EXCEPT ![q] = Tail(L[q])] PROVE Seqs!Next
  <2>1. Seqs!PopHead(q)
    BY <1>2, <1>3, <1>6 DEF Seqs!PopHead, Seqs!Set, now
  <2> QED
    BY <2>1 DEF Seqs!Next
<1>7. ASSUME NEW q \in Queues, L[q] # <<>>, K = [L EXCEPT ![q] = SubSeq(L[q], 1, Len(L[q]) - 1)]
      PROVE  Seqs!Next
  <2>1. Seqs!PopTail(q)
    BY <1>2, <1>3, <1>7 DEF Seqs!PopTail, Seqs!Set, Seqs!Front, now
  <2> QED
    BY <2>1 DEF Seqs!Next
<1>8. ASSUME NEW q \in Queues, NEW h, h > 0,
             h = IF Len(L[q]) \div 2 < StealMax THEN Len(L[q]) \div 2 ELSE StealMax,
             K = [L EXCEPT ![q] = SubSeq(L[q], h + 1, Len(L[q]))]
      PROVE  Seqs!Next
  <2>1. Seqs!PopTailHalf(q)
    BY <1>2, <1>3, <1>8 DEF Seqs!PopTailHalf, Seqs!Set, now
  <2> QED
    BY <2>1 DEF Seqs!Next
<1>9. ASSUME NEW q \in Queues, NEW n \in Nodes, \A r \in Queues : ~Has(L[r], n),
             K = [L EXCEPT ![q] = Append(L[q], n)]
      PROVE  Seqs!Next
  <2>1. ~Seqs!Queued(n)
    BY <1>2, <1>4, <1>9 DEF Seqs!Queued, Seqs!Range, Has, now
  <2>2. Seqs!PushTail(q, n)
    BY <1>2, <1>3, <1>9, <2>1 DEF Seqs!PushTail, Seqs!Set, now
  <2> QED
    BY <2>2 DEF Seqs!Next
<1>10. ASSUME NEW q \in Queues, NEW n \in Nodes, NEW k \in 1 .. Len(L[q]), L[q][k] = n,
              K = [L EXCEPT ![q] = RemoveAt(L[q], k)]
       PROVE  Seqs!Next
  <2>1. Seqs!RemoveNode(q, n)
    BY <1>2, <1>3, <1>4, <1>10, ZenonT(40) DEF Seqs!RemoveNode, Seqs!At, Seqs!Set, Seqs!RemoveAt, RemoveAt, now
  <2> QED
    BY <2>1 DEF Seqs!Next
<1>11. ASSUME NEW q \in Queues, NEW n \in Nodes, NEW k \in 1 .. Len(L[q]), L[q][k] = n,
              K = [L EXCEPT ![q] = <<n>> \o RemoveAt(L[q], k)]
       PROVE  Seqs!Next
  <2> DEFINE w == <<n>> \o RemoveAt(L[q], k)
  <2>1. Seqs!At(q, n, k)
    BY <1>4, <1>11 DEF Seqs!At, now
  <2>2. w = <<n>> \o Seqs!RemoveAt(now[q], k)
    BY <1>4 DEF Seqs!RemoveAt, RemoveAt
  <2>3. now' = [now EXCEPT ![q] = w]
    BY <1>2, <1>3, <1>11
  <2>4. Seqs!Set(q, <<n>> \o Seqs!RemoveAt(now[q], k))
    BY <2>2, <2>3, Zenon DEF Seqs!Set, now
  <2>5. Seqs!MoveUp(q, n)
    BY <1>4, <2>1, <2>4, Zenon DEF Seqs!MoveUp, now
  <2> QED
    BY <2>5 DEF Seqs!Next
<1> QED
  BY <1>5, <1>6, <1>7, <1>8, <1>9, <1>10, <1>11 DEF Changes

\* The pointers of the node queues spell sequences in every reachable state, for
\* any number of queues and nodes: after any order of pushes, pops, steals,
\* removals and moves to the front, and whatever a heap left in the links.
THEOREM QueuesSpell == QueueSpec => []SpellInv
<1>1. QueueInit => SpellInv
  BY InitSpells DEF SpellInv
<1>2. SpellInv /\ [QueueNext]_queueVars => SpellInv'
  <2> SUFFICES ASSUME SpellInv, [QueueNext]_queueVars PROVE SpellInv'
    OBVIOUS
  <2>1. PICK L : Spells(L)
    BY DEF SpellInv
  <2>2. PICK K : Spells(K)'
    BY <2>1, QueueStep
  <2> QED
    BY <2>2 DEF SpellInv
<1> QED
  BY <1>1, <1>2, PTL DEF QueueSpec

\* The two directions of every list agree from end to end, total is its length,
\* and the nodes marked as queued are those in the lists, each in one place.
THEOREM QueuesWellLinked == QueueSpec => []WellLinked
<1>1. SpellInv => WellLinked
  BY SpelledWell DEF SpellInv
<1> QED
  BY <1>1, QueuesSpell, PTL

\* Every operation on the pointers does to the lists what SeqQueues says: no
\* node is lost, taken twice or left in the wrong place.
THEOREM QueuesImplementSequences == QueueSpec => ImplementsSequences
<1>1. QueueInit => Seqs!Init
  <2> SUFFICES ASSUME QueueInit PROVE Seqs!Init
    OBVIOUS
  <2> DEFINE E == [q \in Queues |-> <<>>]
  <2>1. Spells(E) /\ \A q \in Queues : E[q] = <<>>
    BY InitSpells
  <2> HIDE DEF E
  <2>2. \A q \in Queues : List(q) = <<>>
    BY <2>1, ListIs
  <2> QED
    BY <2>2 DEF Seqs!Init
<1>2. SpellInv /\ [QueueNext]_queueVars => [Seqs!Next]_([q \in Queues |-> List(q)])
  <2> SUFFICES ASSUME SpellInv, [QueueNext]_queueVars
               PROVE  [Seqs!Next]_([q \in Queues |-> List(q)])
    OBVIOUS
  <2>1. PICK L : Spells(L)
    BY DEF SpellInv
  <2>2. PICK K : Spells(K)' /\ Changes(L, K)
    BY <2>1, QueueStep
  <2> QED
    BY <2>1, <2>2, ChangesAre
<1> QED
  BY <1>1, <1>2, QueuesSpell, PTL DEF QueueSpec, ImplementsSequences, Seqs!Spec

==============================================================================
