------------------------------- MODULE FifoLock -------------------------------
(***************************************************************************)
(* What utils::mutex promises to the code that takes it: at most one       *)
(* thread is inside, threads that call lock1 enter in the order in which   *)
(* they arrived, and try_lock1 succeeds only when nobody holds the lock or *)
(* waits for it.                                                           *)
(***************************************************************************)
EXTENDS Sequences

CONSTANT Threads

VARIABLES
  queue,    \* threads that arrived and have not left, oldest first
  inside    \* threads in the critical section

lockVars == <<queue, inside>>

Waiting(t) == \E i \in DOMAIN queue : queue[i] = t

Init == queue = <<>> /\ inside = {}

\* the lock is free: arrive and enter at once (lock1 or try_lock1)
EnterFree(t) ==
  /\ queue = <<>>
  /\ queue' = <<t>>
  /\ inside' = {t}

\* a lock may also be taken in two steps when it is free
Arrive(t) ==
  /\ ~Waiting(t)
  /\ queue' = Append(queue, t)
  /\ UNCHANGED inside

EnterNext(t) ==
  /\ inside = {}
  /\ queue # <<>>
  /\ t = Head(queue)
  /\ inside' = {t}
  /\ UNCHANGED queue

Leave(t) ==
  /\ inside = {t}
  /\ queue # <<>>
  /\ inside' = {}
  /\ queue' = Tail(queue)

Next == \E t \in Threads : EnterFree(t) \/ Arrive(t) \/ EnterNext(t) \/ Leave(t)

Spec == Init /\ [][Next]_lockVars
================================================================================
