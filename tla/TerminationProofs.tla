-------------------------- MODULE TerminationProofs --------------------------
(***************************************************************************)
(* The counter of the termination barrier never underflows, and differs    *)
(* from the tstate bytes exactly by the updates still owed, for every      *)
(* number of threads; when nodes are not stolen, nobody sleeps over work   *)
(* that is not announced, and the counter reaches zero only when there is  *)
(* none.                                                                   *)
(***************************************************************************)
EXTENDS Termination, FiniteSetTheorems, TLAPS

\* f with the value of one thread replaced
Upd(f, e, x) == [f EXCEPT ![e] = x]

\* Number of threads whose value in f lies in V
CountIn(f, V) == Cardinality({t \in Threads : f[t] \in V})

(* The threads are finitely many, and so is every set of threads.          *)
LEMMA ThreadsFinite ==
  /\ IsFiniteSet(Threads)
  /\ \A S \in SUBSET Threads : IsFiniteSet(S) /\ Cardinality(S) \in Nat
<1>1. IsFiniteSet(Threads)
  BY FS_Interval, NumThreadsAssumption DEF Threads
<1>2. \A S \in SUBSET Threads : IsFiniteSet(S) /\ Cardinality(S) \in Nat
  BY <1>1, FS_Subset, FS_CardinalityType
<1> QED BY <1>1, <1>2

(* Changing the value of one thread changes the count by that thread only. *)
LEMMA CountExcept ==
  ASSUME NEW f, NEW X, f \in [Threads -> X], NEW e \in Threads, NEW x \in X, NEW V
  PROVE  CountIn(Upd(f, e, x), V)
           = CountIn(f, V) - (IF f[e] \in V THEN 1 ELSE 0)
                           + (IF x \in V THEN 1 ELSE 0)
<1> DEFINE g == Upd(f, e, x)
           F == {t \in Threads : f[t] \in V}
           G == {t \in Threads : g[t] \in V}
           R == F \ {e}
<1>1. /\ IsFiniteSet(F) /\ Cardinality(F) \in Nat
      /\ IsFiniteSet(G) /\ Cardinality(G) \in Nat
      /\ IsFiniteSet(R) /\ Cardinality(R) \in Nat
  <2>1. F \in SUBSET Threads /\ G \in SUBSET Threads /\ R \in SUBSET Threads
    OBVIOUS
  <2> QED BY <2>1, ThreadsFinite
<1> HIDE DEF g, F, G, R
<1>2. Cardinality(F) = Cardinality(R) + (IF f[e] \in V THEN 1 ELSE 0)
  <2>1. CASE f[e] \in V
    <3>1. F = R \cup {e} /\ e \notin R  BY <2>1 DEF F, R
    <3> QED BY <1>1, <2>1, <3>1, FS_AddElement
  <2>2. CASE f[e] \notin V
    <3>1. F = R  BY <2>2 DEF F, R
    <3> QED BY <1>1, <2>2, <3>1
  <2> QED BY <2>1, <2>2
<1>3. Cardinality(G) = Cardinality(R) + (IF x \in V THEN 1 ELSE 0)
  <2>1. CASE x \in V
    <3>1. G = R \cup {e} /\ e \notin R  BY <2>1 DEF F, G, R, g, Upd
    <3> QED BY <1>1, <2>1, <3>1, FS_AddElement
  <2>2. CASE x \notin V
    <3>1. G = R  BY <2>2 DEF F, G, R, g, Upd
    <3> QED BY <1>1, <2>2, <3>1
  <2> QED BY <2>1, <2>2
<1>4. CountIn(g, V) = Cardinality(G) /\ CountIn(f, V) = Cardinality(F)
  BY DEF CountIn, F, G
<1> QED BY <1>1, <1>2, <1>3, <1>4 DEF g

(* Target(t) names a thread.                                               *)
LEMMA TargetIsThread ==
  ASSUME TypeOK, NEW t \in Threads PROVE Target(t) \in Threads
<1>1. next_thread[t] \in Threads /\ scan[t] \in Nat
  BY DEF TypeOK
<1>2. next_thread[t] + scan[t] \in Nat
  BY <1>1, NumThreadsAssumption DEF Threads
<1>3. \A n \in Nat, m \in Nat \ {0} : n % m \in 0 .. m - 1
  OBVIOUS
<1> QED BY <1>2, <1>3, NumThreadsAssumption DEF Target, Threads

-----------------------------------------------------------------------------
(* Type correctness.                                                       *)

\* The state that init() leaves behind is well typed.
LEMMA InitType == Init => TypeOK
<1> SUFFICES ASSUME Init PROVE TypeOK
  OBVIOUS
<1> USE NumThreadsAssumption, FlagsAssumption, BoundsAssumption
<1>1. 0 \in Threads
  BY DEF Threads
<1>2. next_thread \in [Threads -> Threads]
  BY <1>1 DEF Init
<1>3. /\ tstate \in [Threads -> TStates]
      /\ pending \in [Threads -> {"none", "inc", "dec", "done"}]
      /\ pc \in [Threads -> Labels]
      /\ resume \in [Threads -> {"loop", "setinact"}]
  BY DEF Init, TStates, Labels
<1>4. /\ active_threads \in Int /\ fuel \in Nat
      /\ work \in [Threads -> Nat] /\ stolen \in [Threads -> Nat]
  BY DEF Init
<1>5. /\ done \in BOOLEAN /\ stop_flag \in BOOLEAN
      /\ tfacts \in [Threads -> BOOLEAN]
      /\ activated \in [Threads -> BOOLEAN] /\ has_work \in [Threads -> BOOLEAN]
      /\ comm \in [Threads -> SUBSET Threads]
      /\ prio_owner \in [Threads -> Threads]
      /\ scan \in [Threads -> Nat]
  BY <1>1 DEF Init
<1> QED BY <1>2, <1>3, <1>4, <1>5 DEF TypeOK

\* Every step of every thread keeps the state well typed.
LEMMA StepType == TypeOK /\ [Next]_vars => TypeOK'
<1> SUFFICES ASSUME TypeOK, [Next]_vars PROVE TypeOK'
  OBVIOUS
<1> USE DEF TypeOK, TStates, Labels, Goto, At, barrierVars, stealVars
<1>1. ASSUME NEW t \in Threads, CountActive(t) PROVE TypeOK'
  BY <1>1 DEF CountActive
<1>2. ASSUME NEW t \in Threads, CountInactive(t) PROVE TypeOK'
  BY <1>2 DEF CountInactive
<1>3. ASSUME NEW t \in Threads, SetDone(t) PROVE TypeOK'
  BY <1>3 DEF SetDone
<1>4. ASSUME NEW t \in Threads, PopNode(t) PROVE TypeOK'
  BY <1>4 DEF PopNode
<1>5. ASSUME NEW t \in Threads, NoNodeQueued(t) PROVE TypeOK'
  BY <1>5 DEF NoNodeQueued
<1>6. ASSUME NEW t \in Threads, CheckThreadNode(t) PROVE TypeOK'
  BY <1>6 DEF CheckThreadNode
<1>7. ASSUME NEW t \in Threads, CheckHasWork(t) PROVE TypeOK'
  BY <1>7 DEF CheckHasWork
<1>8. ASSUME NEW t \in Threads, NotifyOne(t) PROVE TypeOK'
  BY <1>8 DEF NotifyOne, ActivateThread
<1>9. ASSUME NEW t \in Threads, NotifyEnd(t) PROVE TypeOK'
  BY <1>9 DEF NotifyEnd
<1>10. ASSUME NEW t \in Threads, StartRun(t) PROVE TypeOK'
  BY <1>10 DEF StartRun
<1>11. ASSUME NEW t \in Threads, EndRun(t) PROVE TypeOK'
  BY <1>11 DEF EndRun
<1>12. ASSUME NEW t \in Threads, KeepCurrent(t) PROVE TypeOK'
  BY <1>12 DEF KeepCurrent
<1>13. ASSUME NEW t \in Threads, StopProgram(t) PROVE TypeOK'
  BY <1>13 DEF StopProgram
<1>14. ASSUME NEW t \in Threads, PrioInsert(t) PROVE TypeOK'
  BY <1>14 DEF PrioInsert
<1>15. ASSUME NEW t \in Threads, PrioActivate(t) PROVE TypeOK'
  BY <1>15 DEF PrioActivate, ActivateThread
<1>16. ASSUME NEW t \in Threads, EnterBusyWait(t) PROVE TypeOK'
  <2>1. CASE CallSteal(t, "loop")
    BY <1>16, <2>1 DEF EnterBusyWait, CallSteal
  <2>2. CASE ~ WorkStealing /\ Goto(t, "loop") /\ UNCHANGED stealVars
    BY <1>16, <2>2 DEF EnterBusyWait
  <2> QED BY <1>16, <2>1, <2>2 DEF EnterBusyWait
<1>17. ASSUME NEW t \in Threads, PollQueues(t) PROVE TypeOK'
  <2>1. CASE work[t] > 0 /\ Goto(t, "setact") /\ UNCHANGED stealVars
    BY <1>17, <2>1 DEF PollQueues
  <2>2. CASE work[t] = 0 /\ Goto(t, "setinact") /\ UNCHANGED stealVars
    BY <1>17, <2>2 DEF PollQueues
  <2>3. CASE work[t] = 0 /\ CallSteal(t, "setinact")
    BY <1>17, <2>3 DEF PollQueues, CallSteal
  <2> QED BY <1>17, <2>1, <2>2, <2>3 DEF PollQueues
<1>18. ASSUME NEW t \in Threads, GoInactive(t) PROVE TypeOK'
  BY <1>18 DEF GoInactive, SetInactiveIfNoWork
<1>19. ASSUME NEW t \in Threads, CheckDone(t) PROVE TypeOK'
  BY <1>19 DEF CheckDone
<1>20. ASSUME NEW t \in Threads, LeaveBusyWait(t) PROVE TypeOK'
  BY <1>20 DEF LeaveBusyWait, SetActiveIfInactive
<1>21. ASSUME NEW t \in Threads, StealSkip(t) PROVE TypeOK'
  BY <1>21 DEF StealSkip
<1>22. ASSUME NEW t \in Threads, StealTry(t) PROVE TypeOK'
  BY <1>22 DEF StealTry, SetActiveIfInactive
<1>23. ASSUME NEW t \in Threads, StealPop(t) PROVE TypeOK'
  <2>1. Target(t) \in Threads
    BY TargetIsThread
  <2>2. PICK k \in 0 .. work[Target(t)] \div 2 :
          /\ work' = [work EXCEPT ![Target(t)] = @ - k]
          /\ stolen' = [stolen EXCEPT ![t] = k]
          /\ has_work' = [has_work EXCEPT ![t] = @ \/ k > 0]
          /\ scan' = [scan EXCEPT ![t] = IF k = 0 THEN @ + 1 ELSE @]
          /\ Goto(t, IF k = 0 THEN "steal" ELSE "steal_add")
    BY <1>23 DEF StealPop
  <2>3. work[Target(t)] \in Nat
    BY <2>1
  <2>4. k \in Nat /\ work[Target(t)] - k \in Nat
    BY <2>2, <2>3
  <2>6. work' \in [Threads -> Nat] /\ stolen' \in [Threads -> Nat]
    BY <2>1, <2>2, <2>4
  <2>7. scan' \in [Threads -> Nat]
    BY <2>2
  <2>8. pc' \in [Threads -> Labels] /\ has_work' \in [Threads -> BOOLEAN]
    BY <2>2
  <2> QED BY <1>23, <2>6, <2>7, <2>8 DEF StealPop
<1>24. ASSUME NEW t \in Threads, StealAdd(t) PROVE TypeOK'
  <2>1. PICK owner \in Threads :
          /\ work' = [work EXCEPT ![owner] = @ + 1]
          /\ \/ owner = t /\ comm' = comm
             \/ comm' = [comm EXCEPT ![t] = @ \cup {owner}]
    BY <1>24 DEF StealAdd
  <2>2. work' \in [Threads -> Nat]
    BY <2>1
  <2>3. comm' \in [Threads -> SUBSET Threads]
    <3>1. comm[t] \cup {owner} \in SUBSET Threads
      BY <2>1
    <3> QED BY <2>1, <3>1
  <2>4. stolen' \in [Threads -> Nat]
    BY <1>24 DEF StealAdd
  <2> QED BY <1>24, <2>2, <2>3, <2>4 DEF StealAdd
<1>25. ASSUME NEW t \in Threads, StealDone(t) PROVE TypeOK'
  <2>1. Target(t) \in Threads
    BY TargetIsThread
  <2> QED BY <1>25, <2>1 DEF StealDone, ReturnSteal
<1>26. ASSUME NEW t \in Threads, StealGiveUp(t) PROVE TypeOK'
  <2>2. tstate' \in [Threads -> TStates]
        /\ pending' \in [Threads -> {"none", "inc", "dec", "done"}]
    BY <1>26 DEF StealGiveUp, SetInactiveIfNoWork
  <2>3. /\ scan' \in [Threads -> Nat]
        /\ activated' \in [Threads -> BOOLEAN]
        /\ has_work' \in [Threads -> BOOLEAN]
        /\ resume' \in [Threads -> {"loop", "setinact"}]
        /\ pc' \in [Threads -> Labels]
    BY <1>26 DEF StealGiveUp, ReturnSteal
  <2> QED BY <1>26, <2>2, <2>3 DEF StealGiveUp
<1>27. ASSUME NEW t \in Threads, ReturnNull(t) PROVE TypeOK'
  BY <1>27 DEF ReturnNull
<1>28. ASSUME NEW t \in Threads, KilledWhileActive(t) PROVE TypeOK'
  BY <1>28 DEF KilledWhileActive, SetForceInactive
<1>29. ASSUME NEW t \in Threads, NEW u \in Threads, NewWork(t, u) PROVE TypeOK'
  BY <1>29 DEF NewWork
<1>30. ASSUME NEW t \in Threads, NEW u \in Threads, NewThreadWork(t, u) PROVE TypeOK'
  BY <1>30 DEF NewThreadWork
<1>31. ASSUME NEW t \in Threads, NEW u \in Threads, MoveCurrent(t, u) PROVE TypeOK'
  BY <1>31 DEF MoveCurrent
<1>32. ASSUME NEW t \in Threads, NEW u \in Threads, MoveQueued(t, u) PROVE TypeOK'
  BY <1>32 DEF MoveQueued
<1>33. ASSUME NEW t \in Threads, NEW u \in Threads, PrioRemove(t, u) PROVE TypeOK'
  BY <1>33 DEF PrioRemove
<1>34. CASE UNCHANGED vars
  BY <1>34 DEF vars
<1> QED
  BY <1>1, <1>2, <1>3, <1>4, <1>5, <1>6, <1>7, <1>8, <1>9, <1>10, <1>11, <1>12,
     <1>13, <1>14, <1>15, <1>16, <1>17, <1>18, <1>19, <1>20, <1>21, <1>22, <1>23,
     <1>24, <1>25, <1>26, <1>27, <1>28, <1>29, <1>30, <1>31, <1>32, <1>33, <1>34
     DEF Next, ThreadStep, Finished
-----------------------------------------------------------------------------
(* A thread that works is active: only the thread itself gives up the      *)
(* active state, and it does so in busy_wait or when it is killed.         *)

KilledOnlyAfterStop == \A t \in Threads : pc[t] = "kill" => stop_flag

AwakeInv == WorkersActive /\ StealersActive /\ KilledOnlyAfterStop

\* Every thread starts active, outside go_steal_nodes, and is not killed.
LEMMA InitAwake == Init => AwakeInv
  BY DEF Init, AwakeInv, WorkersActive, StealersActive, KilledOnlyAfterStop,
         WorkLabels, IsActive

\* No step puts a working or stealing thread to sleep, or kills one unasked.
LEMMA StepAwake == TypeOK /\ AwakeInv /\ [Next]_vars => AwakeInv'
<1> SUFFICES ASSUME TypeOK, AwakeInv, [Next]_vars PROVE AwakeInv'
  OBVIOUS
<1>0. /\ tstate \in [Threads -> TStates]
      /\ pending \in [Threads -> {"none", "inc", "dec", "done"}]
      /\ pc \in [Threads -> Labels]
      /\ activated \in [Threads -> BOOLEAN]
      /\ prio_owner \in [Threads -> Threads]
      /\ comm \in [Threads -> SUBSET Threads]
      /\ resume \in [Threads -> {"loop", "setinact"}]
  BY DEF TypeOK
<1> USE <1>0 DEF AwakeInv, WorkersActive, StealersActive, KilledOnlyAfterStop,
                 WorkLabels, IsActive, Goto, At, barrierVars, stealVars
<1>1. ASSUME NEW t \in Threads, CountActive(t) PROVE AwakeInv'
  BY <1>1 DEF CountActive
<1>2. ASSUME NEW t \in Threads, CountInactive(t) PROVE AwakeInv'
  BY <1>2 DEF CountInactive
<1>3. ASSUME NEW t \in Threads, SetDone(t) PROVE AwakeInv'
  BY <1>3 DEF SetDone
<1>4. ASSUME NEW t \in Threads, PopNode(t) PROVE AwakeInv'
  BY <1>4 DEF PopNode
<1>5. ASSUME NEW t \in Threads, NoNodeQueued(t) PROVE AwakeInv'
  BY <1>5 DEF NoNodeQueued
<1>6. ASSUME NEW t \in Threads, CheckThreadNode(t) PROVE AwakeInv'
  BY <1>6 DEF CheckThreadNode
<1>7. ASSUME NEW t \in Threads, CheckHasWork(t) PROVE AwakeInv'
  BY <1>7 DEF CheckHasWork
<1>8. ASSUME NEW t \in Threads, NotifyOne(t) PROVE AwakeInv'
  BY <1>8 DEF NotifyOne, ActivateThread
<1>9. ASSUME NEW t \in Threads, NotifyEnd(t) PROVE AwakeInv'
  BY <1>9 DEF NotifyEnd
<1>10. ASSUME NEW t \in Threads, StartRun(t) PROVE AwakeInv'
  BY <1>10 DEF StartRun
<1>11. ASSUME NEW t \in Threads, EndRun(t) PROVE AwakeInv'
  BY <1>11 DEF EndRun
<1>12. ASSUME NEW t \in Threads, KeepCurrent(t) PROVE AwakeInv'
  BY <1>12 DEF KeepCurrent
<1>13. ASSUME NEW t \in Threads, StopProgram(t) PROVE AwakeInv'
  BY <1>13 DEF StopProgram
<1>14. ASSUME NEW t \in Threads, PrioInsert(t) PROVE AwakeInv'
  BY <1>14 DEF PrioInsert
<1>15. ASSUME NEW t \in Threads, PrioActivate(t) PROVE AwakeInv'
  BY <1>15 DEF PrioActivate, ActivateThread
<1>16. ASSUME NEW t \in Threads, EnterBusyWait(t) PROVE AwakeInv'
  BY <1>16 DEF EnterBusyWait, CallSteal
<1>17. ASSUME NEW t \in Threads, PollQueues(t) PROVE AwakeInv'
  BY <1>17 DEF PollQueues, CallSteal
<1>18. ASSUME NEW t \in Threads, GoInactive(t) PROVE AwakeInv'
  BY <1>18 DEF GoInactive, SetInactiveIfNoWork
<1>19. ASSUME NEW t \in Threads, CheckDone(t) PROVE AwakeInv'
  BY <1>19 DEF CheckDone
<1>20. ASSUME NEW t \in Threads, LeaveBusyWait(t) PROVE AwakeInv'
  BY <1>20 DEF LeaveBusyWait, SetActiveIfInactive
<1>21. ASSUME NEW t \in Threads, StealSkip(t) PROVE AwakeInv'
  BY <1>21 DEF StealSkip
<1>22. ASSUME NEW t \in Threads, StealTry(t) PROVE AwakeInv'
  BY <1>22 DEF StealTry, SetActiveIfInactive
<1>23. ASSUME NEW t \in Threads, StealPop(t) PROVE AwakeInv'
  BY <1>23 DEF StealPop
<1>24. ASSUME NEW t \in Threads, StealAdd(t) PROVE AwakeInv'
  BY <1>24 DEF StealAdd
<1>25. ASSUME NEW t \in Threads, StealDone(t) PROVE AwakeInv'
  BY <1>25 DEF StealDone, ReturnSteal
<1>26. ASSUME NEW t \in Threads, StealGiveUp(t) PROVE AwakeInv'
  BY <1>26 DEF StealGiveUp, ReturnSteal, SetInactiveIfNoWork
<1>27. ASSUME NEW t \in Threads, ReturnNull(t) PROVE AwakeInv'
  BY <1>27 DEF ReturnNull
<1>28. ASSUME NEW t \in Threads, KilledWhileActive(t) PROVE AwakeInv'
  BY <1>28 DEF KilledWhileActive, SetForceInactive
<1>29. ASSUME NEW t \in Threads, NEW u \in Threads, NewWork(t, u) PROVE AwakeInv'
  BY <1>29 DEF NewWork
<1>30. ASSUME NEW t \in Threads, NEW u \in Threads, NewThreadWork(t, u) PROVE AwakeInv'
  BY <1>30 DEF NewThreadWork
<1>31. ASSUME NEW t \in Threads, NEW u \in Threads, MoveCurrent(t, u) PROVE AwakeInv'
  BY <1>31 DEF MoveCurrent
<1>32. ASSUME NEW t \in Threads, NEW u \in Threads, MoveQueued(t, u) PROVE AwakeInv'
  BY <1>32 DEF MoveQueued
<1>33. ASSUME NEW t \in Threads, NEW u \in Threads, PrioRemove(t, u) PROVE AwakeInv'
  BY <1>33 DEF PrioRemove
<1>34. CASE UNCHANGED vars
  BY <1>34 DEF vars
<1> QED
  BY <1>1, <1>2, <1>3, <1>4, <1>5, <1>6, <1>7, <1>8, <1>9, <1>10, <1>11, <1>12,
     <1>13, <1>14, <1>15, <1>16, <1>17, <1>18, <1>19, <1>20, <1>21, <1>22, <1>23,
     <1>24, <1>25, <1>26, <1>27, <1>28, <1>29, <1>30, <1>31, <1>32, <1>33, <1>34
     DEF Next, ThreadStep, Finished

-----------------------------------------------------------------------------
(* The accounting.  Slack is what the counter shows too much, once the     *)
(* updates still owed are taken into account.                              *)

Awake == {"active", "active_new"}
Owed == {"none", "inc", "dec", "done"}
SlackOf(n, s, p) == n + CountIn(p, {"inc"}) - CountIn(s, Awake) - CountIn(p, {"dec"})
Slack == SlackOf(active_threads, tstate, pending)

\* what one thread contributes to the slack
OwedBy(p) == IF p = "inc" THEN 1 ELSE IF p = "dec" THEN -1 ELSE 0
ShownBy(s) == IF s = "inactive" THEN 0 ELSE 1

\* The number of threads with a value in V is a natural number.
LEMMA CountType == ASSUME NEW f, NEW V PROVE CountIn(f, V) \in Nat
<1>1. {t \in Threads : f[t] \in V} \in SUBSET Threads
  OBVIOUS
<1> QED BY <1>1, ThreadsFinite DEF CountIn

\* The cardinalities in the properties of the counter are these counts.
LEMMA CountsOfSets ==
  ASSUME TypeOK
  PROVE  /\ Cardinality(Pending("inc")) = CountIn(pending, {"inc"})
         /\ Cardinality(Pending("dec")) = CountIn(pending, {"dec"})
         /\ Cardinality(ActiveSet) = CountIn(tstate, Awake)
<1>1. \A t \in Threads : tstate[t] # "inactive" <=> tstate[t] \in Awake
  BY DEF TypeOK, TStates, Awake
<1>2. ActiveSet = {t \in Threads : tstate[t] \in Awake}
  BY <1>1 DEF ActiveSet, IsActive
<1>3. /\ Pending("inc") = {t \in Threads : pending[t] \in {"inc"}}
      /\ Pending("dec") = {t \in Threads : pending[t] \in {"dec"}}
  BY DEF Pending
<1> QED BY <1>2, <1>3 DEF CountIn

(* The slack after one tstate byte and one owed update have changed.       *)
LEMMA SlackUpdate ==
  ASSUME NEW n \in Int,
         NEW s \in [Threads -> TStates], NEW u \in Threads, NEW y \in TStates,
         NEW p \in [Threads -> Owed], NEW c \in Threads, NEW x \in Owed
  PROVE  SlackOf(n, Upd(s, u, y), Upd(p, c, x))
           = SlackOf(n, s, p) + (OwedBy(x) - OwedBy(p[c]))
                              - (ShownBy(y) - ShownBy(s[u]))
<1> DEFINE s2 == Upd(s, u, y)
           p2 == Upd(p, c, x)
<1>1. CountIn(s2, Awake) = CountIn(s, Awake) - ShownBy(s[u]) + ShownBy(y)
  <2>1. CountIn(s2, Awake) =
          CountIn(s, Awake) - (IF s[u] \in Awake THEN 1 ELSE 0)
                            + (IF y \in Awake THEN 1 ELSE 0)
    BY CountExcept
  <2>2. \A z \in TStates : ShownBy(z) = (IF z \in Awake THEN 1 ELSE 0)
    BY DEF TStates, Awake, ShownBy
  <2>3. s[u] \in TStates
    OBVIOUS
  <2> QED BY <2>1, <2>2, <2>3
<1>2. /\ CountIn(p2, {"inc"}) = CountIn(p, {"inc"})
           - (IF p[c] \in {"inc"} THEN 1 ELSE 0) + (IF x \in {"inc"} THEN 1 ELSE 0)
      /\ CountIn(p2, {"dec"}) = CountIn(p, {"dec"})
           - (IF p[c] \in {"dec"} THEN 1 ELSE 0) + (IF x \in {"dec"} THEN 1 ELSE 0)
  BY CountExcept
<1>3. /\ CountIn(s, Awake) \in Nat /\ CountIn(s2, Awake) \in Nat
      /\ CountIn(p, {"inc"}) \in Nat /\ CountIn(p2, {"inc"}) \in Nat
      /\ CountIn(p, {"dec"}) \in Nat /\ CountIn(p2, {"dec"}) \in Nat
  BY CountType
<1> HIDE DEF s2, p2
<1>4. CountIn(p2, {"inc"}) = CountIn(p, {"inc"})
        - (IF p[c] = "inc" THEN 1 ELSE 0) + (IF x = "inc" THEN 1 ELSE 0)
  BY <1>2
<1>5. CountIn(p2, {"dec"}) = CountIn(p, {"dec"})
        - (IF p[c] = "dec" THEN 1 ELSE 0) + (IF x = "dec" THEN 1 ELSE 0)
  BY <1>2
<1>6. \A z : OwedBy(z) = (IF z = "inc" THEN 1 ELSE 0) - (IF z = "dec" THEN 1 ELSE 0)
  BY DEF OwedBy
<1>7. CountIn(p2, {"inc"}) - CountIn(p2, {"dec"})
        = CountIn(p, {"inc"}) - CountIn(p, {"dec"}) + (OwedBy(x) - OwedBy(p[c]))
  BY <1>3, <1>4, <1>5, <1>6
<1>8. /\ OwedBy(x) \in Int /\ OwedBy(p[c]) \in Int
      /\ ShownBy(s[u]) \in Int /\ ShownBy(y) \in Int
  BY DEF OwedBy, ShownBy
<1>9. SlackOf(n, s2, p2)
        = SlackOf(n, s, p) + (OwedBy(x) - OwedBy(p[c]))
                           - (ShownBy(y) - ShownBy(s[u]))
  BY <1>1, <1>3, <1>7, <1>8 DEF SlackOf
<1> QED BY <1>9 DEF s2, p2

(* The operations on tstate leave the slack alone; set_force_inactive may  *)
(* increase it.                                                            *)
LEMMA OperationsKeepSlack ==
  ASSUME TypeOK, NEW t \in Threads, NEW u \in Threads, pending[t] = "none",
         UNCHANGED active_threads
  PROVE  /\ ActivateThread(t, u) => Slack' = Slack
         /\ SetActiveIfInactive(t) => Slack' = Slack
         /\ SetInactiveIfNoWork(t) => Slack' = Slack
         /\ SetForceInactive(t) => Slack' >= Slack
<1>1. /\ tstate \in [Threads -> TStates] /\ pending \in [Threads -> Owed]
      /\ active_threads \in Int
  BY DEF TypeOK, Owed
<1>2. pending = [pending EXCEPT ![t] = "none"]
  BY <1>1
<1>3. "none" \in Owed /\ "inc" \in Owed /\ "dec" \in Owed
  BY DEF Owed
<1>4. OwedBy("none") = 0 /\ OwedBy("inc") = 1 /\ OwedBy("dec") = -1
  BY DEF OwedBy
<1>5. ShownBy("inactive") = 0 /\ ShownBy("active") = 1 /\ ShownBy("active_new") = 1
  BY DEF ShownBy
<1>6. TStates = {"inactive", "active", "active_new"}
  BY DEF TStates
<1>7. \A v \in Threads : tstate[v] \in TStates
  BY <1>1
<1>8. Slack \in Int
  BY <1>1, CountType DEF Slack, SlackOf
<1>9. ASSUME NEW v \in Threads, NEW y \in TStates, NEW x \in Owed,
             tstate' = [tstate EXCEPT ![v] = y], pending' = [pending EXCEPT ![t] = x]
      PROVE  Slack' = Slack + OwedBy(x) - (ShownBy(y) - ShownBy(tstate[v]))
  <2>1. SlackOf(active_threads, Upd(tstate, v, y), Upd(pending, t, x))
          = SlackOf(active_threads, tstate, pending) + (OwedBy(x) - OwedBy(pending[t]))
              - (ShownBy(y) - ShownBy(tstate[v]))
    BY <1>1, SlackUpdate
  <2>2. Slack' = SlackOf(active_threads, Upd(tstate, v, y), Upd(pending, t, x))
    BY <1>9 DEF Slack, Upd
  <2>3. OwedBy(x) \in Int
    BY DEF OwedBy
  <2> QED BY <1>4, <1>8, <2>1, <2>2, <2>3 DEF Slack
<1>10. ASSUME ActivateThread(t, u) PROVE Slack' = Slack
  <2>1. CASE tstate[u] = "inactive"
    <3>1. /\ tstate' = [tstate EXCEPT ![u] = "active_new"]
          /\ pending' = [pending EXCEPT ![t] = "inc"]
      BY <1>10, <2>1 DEF ActivateThread
    <3>2. Slack' = Slack + OwedBy("inc")
                     - (ShownBy("active_new") - ShownBy(tstate[u]))
      BY <1>3, <1>6, <1>9, <3>1
    <3> QED BY <1>4, <1>5, <1>8, <2>1, <3>2
  <2>2. CASE tstate[u] # "inactive"
    <3>1. /\ tstate' = [tstate EXCEPT ![u] = "active_new"]
          /\ pending' = [pending EXCEPT ![t] = "none"]
      BY <1>2, <1>10, <2>2 DEF ActivateThread
    <3>2. Slack' = Slack + OwedBy("none")
                     - (ShownBy("active_new") - ShownBy(tstate[u]))
      BY <1>3, <1>6, <1>9, <3>1
    <3>3. ShownBy(tstate[u]) = 1
      BY <2>2 DEF ShownBy
    <3> QED BY <1>4, <1>5, <1>8, <3>2, <3>3
  <2> QED BY <2>1, <2>2
<1>11. ASSUME SetActiveIfInactive(t) PROVE Slack' = Slack
  <2>1. CASE tstate[t] = "inactive"
    <3>1. /\ tstate' = [tstate EXCEPT ![t] = "active"]
          /\ pending' = [pending EXCEPT ![t] = "inc"]
      BY <1>11, <2>1 DEF SetActiveIfInactive
    <3>2. Slack' = Slack + OwedBy("inc") - (ShownBy("active") - ShownBy(tstate[t]))
      BY <1>3, <1>6, <1>9, <3>1
    <3> QED BY <1>4, <1>5, <1>8, <2>1, <3>2
  <2>2. CASE tstate[t] # "inactive"
    <3>1. /\ tstate' = [tstate EXCEPT ![t] = "active"]
          /\ pending' = [pending EXCEPT ![t] = "none"]
      BY <1>2, <1>11, <2>2 DEF SetActiveIfInactive
    <3>2. Slack' = Slack + OwedBy("none") - (ShownBy("active") - ShownBy(tstate[t]))
      BY <1>3, <1>6, <1>9, <3>1
    <3>3. ShownBy(tstate[t]) = 1
      BY <2>2 DEF ShownBy
    <3> QED BY <1>4, <1>5, <1>8, <3>2, <3>3
  <2> QED BY <2>1, <2>2
<1>12. ASSUME SetInactiveIfNoWork(t) PROVE Slack' = Slack
  <2>1. CASE tstate[t] = "active"
    <3>1. /\ tstate' = [tstate EXCEPT ![t] = "inactive"]
          /\ pending' = [pending EXCEPT ![t] = "dec"]
      BY <1>12, <2>1 DEF SetInactiveIfNoWork
    <3>2. Slack' = Slack + OwedBy("dec") - (ShownBy("inactive") - ShownBy(tstate[t]))
      BY <1>3, <1>6, <1>9, <3>1
    <3> QED BY <1>4, <1>5, <1>8, <2>1, <3>2
  <2>2. CASE tstate[t] = "inactive"
    <3>1. /\ tstate' = [tstate EXCEPT ![t] = "inactive"]
          /\ pending' = [pending EXCEPT ![t] = "none"]
      BY <1>2, <1>12, <2>2 DEF SetInactiveIfNoWork
    <3>2. Slack' = Slack + OwedBy("none") - (ShownBy("inactive") - ShownBy(tstate[t]))
      BY <1>3, <1>6, <1>9, <3>1
    <3> QED BY <1>4, <1>5, <1>8, <2>2, <3>2
  <2>3. CASE tstate[t] = "active_new"
    <3>1. /\ tstate' = [tstate EXCEPT ![t] = "active"]
          /\ pending' = [pending EXCEPT ![t] = "none"]
      BY <1>2, <1>12, <2>3 DEF SetInactiveIfNoWork
    <3>2. Slack' = Slack + OwedBy("none") - (ShownBy("active") - ShownBy(tstate[t]))
      BY <1>3, <1>6, <1>9, <3>1
    <3> QED BY <1>4, <1>5, <1>8, <2>3, <3>2
  <2> QED BY <1>6, <1>7, <2>1, <2>2, <2>3
<1>13. ASSUME SetForceInactive(t) PROVE Slack' >= Slack
  <2>1. CASE tstate[t] = "active"
    <3>1. /\ tstate' = [tstate EXCEPT ![t] = "inactive"]
          /\ pending' = [pending EXCEPT ![t] = "dec"]
      BY <1>13, <2>1 DEF SetForceInactive
    <3>2. Slack' = Slack + OwedBy("dec") - (ShownBy("inactive") - ShownBy(tstate[t]))
      BY <1>3, <1>6, <1>9, <3>1
    <3> QED BY <1>4, <1>5, <1>8, <2>1, <3>2
  <2>2. CASE tstate[t] # "active"
    <3>1. /\ tstate' = [tstate EXCEPT ![t] = "inactive"]
          /\ pending' = [pending EXCEPT ![t] = "none"]
      BY <1>2, <1>13, <2>2 DEF SetForceInactive
    <3>2. Slack' = Slack + OwedBy("none") - (ShownBy("inactive") - ShownBy(tstate[t]))
      BY <1>3, <1>6, <1>9, <3>1
    <3>3. ShownBy(tstate[t]) \in {0, 1}
      BY DEF ShownBy
    <3> QED BY <1>4, <1>5, <1>8, <3>2, <3>3
  <2> QED BY <2>1, <2>2
<1> QED BY <1>10, <1>11, <1>12, <1>13

-----------------------------------------------------------------------------
(* The counter follows the tstate bytes.                                   *)

CountInv == Slack >= 0 /\ (~ stop_flag => Slack = 0)

\* The barrier is constructed with the number of threads, all active.
LEMMA InitCount == Init => CountInv
<1> SUFFICES ASSUME Init PROVE CountInv
  OBVIOUS
<1>1. CountIn(tstate, Awake) = NUM_THREADS
  <2>1. {t \in Threads : tstate[t] \in Awake} = 0 .. NUM_THREADS - 1
    BY DEF Init, Awake, Threads
  <2>2. Cardinality(0 .. NUM_THREADS - 1) = NUM_THREADS
    <3>1. /\ 0 \in Int /\ NUM_THREADS - 1 \in Int /\ ~ 0 > NUM_THREADS - 1
          /\ (NUM_THREADS - 1) - 0 + 1 = NUM_THREADS
      BY NumThreadsAssumption
    <3>2. Cardinality(0 .. NUM_THREADS - 1) = (NUM_THREADS - 1) - 0 + 1
      BY <3>1, FS_Interval
    <3> QED BY <3>1, <3>2
  <2> QED BY <2>1, <2>2 DEF CountIn
<1>2. CountIn(pending, {"inc"}) = 0 /\ CountIn(pending, {"dec"}) = 0
  <2>1. /\ {t \in Threads : pending[t] \in {"inc"}} = {}
        /\ {t \in Threads : pending[t] \in {"dec"}} = {}
    BY DEF Init
  <2> QED BY <2>1, FS_EmptySet DEF CountIn
<1>3. active_threads = NUM_THREADS
  BY DEF Init
<1> QED BY <1>1, <1>2, <1>3, NumThreadsAssumption DEF CountInv, Slack, SlackOf

(* The update of the barrier that a thread owes turns the debt into a      *)
(* change of the counter.                                                  *)
LEMMA BarrierKeepsSlack ==
  ASSUME TypeOK, NEW t \in Threads, CountActive(t) \/ CountInactive(t) \/ SetDone(t)
  PROVE  Slack' = Slack
<1>1. /\ tstate \in [Threads -> TStates] /\ pending \in [Threads -> Owed]
      /\ active_threads \in Int
  BY DEF TypeOK, Owed
<1>2. tstate' = Upd(tstate, t, tstate[t])
  BY <1>1 DEF CountActive, CountInactive, SetDone, Upd
<1>3. /\ "none" \in Owed /\ "done" \in Owed
      /\ OwedBy("none") = 0 /\ OwedBy("done") = 0
      /\ OwedBy("inc") = 1 /\ OwedBy("dec") = -1
      /\ tstate[t] \in TStates /\ ShownBy(tstate[t]) \in Int
  BY <1>1 DEF Owed, OwedBy, ShownBy
<1>4. ASSUME NEW x \in {"none", "done"}, pending' = Upd(pending, t, x),
             active_threads' \in Int
      PROVE  Slack' = Slack + (active_threads' - active_threads) - OwedBy(pending[t])
  <2>1. SlackOf(active_threads', Upd(tstate, t, tstate[t]), Upd(pending, t, x))
          = SlackOf(active_threads', tstate, pending)
              + (OwedBy(x) - OwedBy(pending[t]))
              - (ShownBy(tstate[t]) - ShownBy(tstate[t]))
    BY <1>1, <1>3, <1>4, SlackUpdate
  <2>2. Slack' = SlackOf(active_threads', Upd(tstate, t, tstate[t]), Upd(pending, t, x))
    BY <1>2, <1>4 DEF Slack
  <2>3. /\ SlackOf(active_threads', tstate, pending)
             = Slack + (active_threads' - active_threads)
        /\ Slack \in Int
    BY <1>1, <1>4, CountType DEF Slack, SlackOf
  <2>4. OwedBy(pending[t]) \in Int /\ OwedBy(x) = 0
    BY <1>3, <1>4 DEF OwedBy
  <2> QED BY <1>1, <1>3, <1>4, <2>1, <2>2, <2>3, <2>4
<1>5. Slack \in Int
  BY <1>1, CountType DEF Slack, SlackOf
<1>6. CASE CountActive(t)
  <2>1. /\ pending' = Upd(pending, t, "none") /\ pending[t] = "inc"
        /\ active_threads' = active_threads + 1
    BY <1>6 DEF CountActive, Upd
  <2>2. Slack' = Slack + (active_threads' - active_threads) - OwedBy(pending[t])
    BY <1>1, <1>4, <2>1
  <2> QED BY <1>1, <1>3, <1>5, <2>1, <2>2
<1>7. CASE CountInactive(t)
  <2>1. /\ pending' = Upd(pending, t, IF active_threads = 1 THEN "done" ELSE "none")
        /\ pending[t] = "dec" /\ active_threads' = active_threads - 1
    BY <1>7 DEF CountInactive, Upd
  <2>2. Slack' = Slack + (active_threads' - active_threads) - OwedBy(pending[t])
    BY <1>1, <1>4, <2>1
  <2> QED BY <1>1, <1>3, <1>5, <2>1, <2>2
<1>8. CASE SetDone(t)
  <2>1. /\ pending' = Upd(pending, t, "none") /\ pending[t] = "done"
        /\ active_threads' = active_threads
    BY <1>8 DEF SetDone, Upd
  <2>2. Slack' = Slack + (active_threads' - active_threads) - OwedBy(pending[t])
    BY <1>1, <1>4, <2>1
  <2> QED BY <1>1, <1>3, <1>5, <2>1, <2>2
<1> QED BY <1>6, <1>7, <1>8

\* Swaps and counter updates keep the counter in line with the tstate bytes.
LEMMA StepCount == TypeOK /\ AwakeInv /\ CountInv /\ [Next]_vars => CountInv'
<1> SUFFICES ASSUME TypeOK, AwakeInv, CountInv, [Next]_vars PROVE CountInv'
  OBVIOUS
<1>0. Slack \in Int
  BY CountType DEF TypeOK, Slack, SlackOf
<1>1. ASSUME UNCHANGED <<tstate, pending, active_threads>>,
             stop_flag' = stop_flag \/ stop_flag' = TRUE
      PROVE  CountInv'
  BY <1>1 DEF CountInv, Slack
<1>2. ASSUME Slack' = Slack, stop_flag' = stop_flag PROVE CountInv'
  BY <1>2 DEF CountInv
<1>3. ASSUME NEW t \in Threads, CountActive(t) \/ CountInactive(t) \/ SetDone(t)
      PROVE  CountInv'
  BY <1>2, <1>3, BarrierKeepsSlack DEF CountActive, CountInactive, SetDone
<1>4. ASSUME NEW t \in Threads, NotifyOne(t) PROVE CountInv'
  <2>1. PICK u \in comm[t] : ActivateThread(t, u)
    BY <1>4 DEF NotifyOne
  <2>2. u \in Threads
    BY <2>1 DEF TypeOK
  <2>3. pending[t] = "none" /\ UNCHANGED <<active_threads, stop_flag>>
    BY <1>4 DEF NotifyOne, At, barrierVars
  <2> QED BY <1>2, <2>1, <2>2, <2>3, OperationsKeepSlack
<1>5. ASSUME NEW t \in Threads, PrioActivate(t) PROVE CountInv'
  <2>1. prio_owner[t] \in Threads
    BY DEF TypeOK
  <2>2. /\ ActivateThread(t, prio_owner[t]) /\ pending[t] = "none"
        /\ UNCHANGED <<active_threads, stop_flag>>
    BY <1>5 DEF PrioActivate, At, barrierVars
  <2> QED BY <1>2, <2>1, <2>2, OperationsKeepSlack
<1>6. ASSUME NEW t \in Threads, GoInactive(t) PROVE CountInv'
  <2>1. /\ SetInactiveIfNoWork(t) /\ pending[t] = "none"
        /\ UNCHANGED <<active_threads, stop_flag>>
    BY <1>6 DEF GoInactive, At, barrierVars
  <2> QED BY <1>2, <2>1, OperationsKeepSlack
<1>7. ASSUME NEW t \in Threads, LeaveBusyWait(t) PROVE CountInv'
  <2>1. /\ SetActiveIfInactive(t) /\ pending[t] = "none"
        /\ UNCHANGED <<active_threads, stop_flag>>
    BY <1>7 DEF LeaveBusyWait, At, barrierVars
  <2> QED BY <1>2, <2>1, OperationsKeepSlack
<1>8. ASSUME NEW t \in Threads, StealTry(t) PROVE CountInv'
  <2>1. pending[t] = "none" /\ UNCHANGED <<active_threads, stop_flag>>
    BY <1>8 DEF StealTry, At, barrierVars
  <2>2. SetActiveIfInactive(t) \/ UNCHANGED <<tstate, pending>>
    BY <1>8 DEF StealTry
  <2> QED BY <1>1, <1>2, <2>1, <2>2, OperationsKeepSlack
<1>9. ASSUME NEW t \in Threads, StealGiveUp(t) PROVE CountInv'
  <2>1. pending[t] = "none" /\ UNCHANGED <<active_threads, stop_flag>>
    BY <1>9 DEF StealGiveUp, At, barrierVars
  <2>2. SetInactiveIfNoWork(t) \/ UNCHANGED <<tstate, pending>>
    BY <1>9 DEF StealGiveUp
  <2> QED BY <1>1, <1>2, <2>1, <2>2, OperationsKeepSlack
<1>10. ASSUME NEW t \in Threads, KilledWhileActive(t) PROVE CountInv'
  <2>1. /\ SetForceInactive(t) /\ pending[t] = "none" /\ pc[t] = "kill"
        /\ UNCHANGED <<active_threads, stop_flag>>
    BY <1>10 DEF KilledWhileActive, At, barrierVars
  <2>2. stop_flag'
    BY <2>1 DEF AwakeInv, KilledOnlyAfterStop
  <2>3. Slack' >= Slack
    BY <2>1, OperationsKeepSlack
  <2>4. Slack' \in Int
    BY <2>1, CountType DEF TypeOK, Slack, SlackOf
  <2> QED BY <1>0, <2>2, <2>3, <2>4 DEF CountInv
<1>11. ASSUME NEW t \in Threads, StopProgram(t) PROVE CountInv'
  BY <1>1, <1>11 DEF StopProgram, barrierVars
<1>12. CASE UNCHANGED vars
  BY <1>1, <1>12 DEF vars
<1>13. ASSUME NEW t \in Threads, PopNode(t) PROVE CountInv'
  BY <1>1, <1>13 DEF PopNode, barrierVars
<1>14. ASSUME NEW t \in Threads, NoNodeQueued(t) PROVE CountInv'
  BY <1>1, <1>14 DEF NoNodeQueued, barrierVars
<1>15. ASSUME NEW t \in Threads, CheckThreadNode(t) PROVE CountInv'
  BY <1>1, <1>15 DEF CheckThreadNode, barrierVars
<1>16. ASSUME NEW t \in Threads, CheckHasWork(t) PROVE CountInv'
  BY <1>1, <1>16 DEF CheckHasWork, barrierVars
<1>17. ASSUME NEW t \in Threads, NotifyEnd(t) PROVE CountInv'
  BY <1>1, <1>17 DEF NotifyEnd, barrierVars
<1>18. ASSUME NEW t \in Threads, StartRun(t) PROVE CountInv'
  BY <1>1, <1>18 DEF StartRun, barrierVars
<1>19. ASSUME NEW t \in Threads, EndRun(t) PROVE CountInv'
  BY <1>1, <1>19 DEF EndRun, barrierVars
<1>20. ASSUME NEW t \in Threads, KeepCurrent(t) PROVE CountInv'
  BY <1>1, <1>20 DEF KeepCurrent, barrierVars
<1>21. ASSUME NEW t \in Threads, PrioInsert(t) PROVE CountInv'
  BY <1>1, <1>21 DEF PrioInsert, barrierVars
<1>22. ASSUME NEW t \in Threads, EnterBusyWait(t) PROVE CountInv'
  BY <1>1, <1>22 DEF EnterBusyWait, barrierVars
<1>23. ASSUME NEW t \in Threads, PollQueues(t) PROVE CountInv'
  BY <1>1, <1>23 DEF PollQueues, barrierVars
<1>24. ASSUME NEW t \in Threads, CheckDone(t) PROVE CountInv'
  BY <1>1, <1>24 DEF CheckDone, barrierVars
<1>25. ASSUME NEW t \in Threads, StealSkip(t) PROVE CountInv'
  BY <1>1, <1>25 DEF StealSkip, barrierVars
<1>26. ASSUME NEW t \in Threads, StealPop(t) PROVE CountInv'
  BY <1>1, <1>26 DEF StealPop, barrierVars
<1>27. ASSUME NEW t \in Threads, StealAdd(t) PROVE CountInv'
  BY <1>1, <1>27 DEF StealAdd, barrierVars
<1>28. ASSUME NEW t \in Threads, StealDone(t) PROVE CountInv'
  BY <1>1, <1>28 DEF StealDone, barrierVars
<1>29. ASSUME NEW t \in Threads, ReturnNull(t) PROVE CountInv'
  BY <1>1, <1>29 DEF ReturnNull, barrierVars
<1>30. ASSUME NEW t \in Threads, NEW u \in Threads, NewWork(t, u) PROVE CountInv'
  BY <1>1, <1>30 DEF NewWork, barrierVars
<1>31. ASSUME NEW t \in Threads, NEW u \in Threads, NewThreadWork(t, u) PROVE CountInv'
  BY <1>1, <1>31 DEF NewThreadWork, barrierVars
<1>32. ASSUME NEW t \in Threads, NEW u \in Threads, MoveCurrent(t, u) PROVE CountInv'
  BY <1>1, <1>32 DEF MoveCurrent, barrierVars
<1>33. ASSUME NEW t \in Threads, NEW u \in Threads, MoveQueued(t, u) PROVE CountInv'
  BY <1>1, <1>33 DEF MoveQueued, barrierVars
<1>34. ASSUME NEW t \in Threads, NEW u \in Threads, PrioRemove(t, u) PROVE CountInv'
  BY <1>1, <1>34 DEF PrioRemove, barrierVars
<1> QED
  BY <1>3, <1>4, <1>5, <1>6, <1>7, <1>8, <1>9, <1>10, <1>11, <1>12, <1>13, <1>14,
     <1>15, <1>16, <1>17, <1>18, <1>19, <1>20, <1>21, <1>22, <1>23, <1>24, <1>25,
     <1>26, <1>27, <1>28, <1>29, <1>30, <1>31, <1>32, <1>33, <1>34
     DEF Next, ThreadStep, Finished

-----------------------------------------------------------------------------
(* For every number of threads, with and without stealing, thread          *)
(* predicates and stops: the state of the threads and the barrier is well  *)
(* typed.                                                                  *)
THEOREM TypeCorrect == Spec => []TypeOK
<1>1. Init => TypeOK
  BY InitType
<1>2. TypeOK /\ [Next]_vars => TypeOK'
  BY StepType
<1> QED BY <1>1, <1>2, PTL DEF Spec

IndInv == TypeOK /\ AwakeInv /\ CountInv

\* The three parts of the invariant hold together in every reachable state.
LEMMA Inductive == Spec => []IndInv
<1>1. Init => IndInv
  BY InitType, InitAwake, InitCount DEF IndInv
<1>2. IndInv /\ [Next]_vars => IndInv'
  BY StepType, StepAwake, StepCount DEF IndInv
<1> QED BY <1>1, <1>2, PTL DEF Spec

(* The assertions is_active() of new_work, new_work_list and busy_wait:    *)
(* whoever looks for a node, runs one, sends or steals is active.          *)
THEOREM WorkersAreActive == Spec => []WorkersActive
<1>1. IndInv => WorkersActive
  BY DEF IndInv, AwakeInv
<1> QED BY <1>1, Inductive, PTL

(* While the program was not stopped, the barrier's counter and the tstate *)
(* bytes differ exactly by the updates still owed.                         *)
THEOREM CounterCorrect == Spec => []CounterMatchesStates
<1>1. IndInv => CounterMatchesStates
  <2> SUFFICES ASSUME IndInv, ~ stop_flag
               PROVE active_threads + Cardinality(Pending("inc"))
                       = Cardinality(ActiveSet) + Cardinality(Pending("dec"))
    BY DEF CounterMatchesStates
  <2>1. TypeOK /\ active_threads \in Int /\ Slack = 0
    BY DEF IndInv, CountInv, TypeOK
  <2>2. /\ CountIn(pending, {"inc"}) \in Nat /\ CountIn(pending, {"dec"}) \in Nat
        /\ CountIn(tstate, Awake) \in Nat
    BY CountType
  <2>3. active_threads + CountIn(pending, {"inc"})
          = CountIn(tstate, Awake) + CountIn(pending, {"dec"})
    BY <2>1, <2>2 DEF Slack, SlackOf
  <2> QED BY <2>1, <2>3, CountsOfSets
<1> QED BY <1>1, Inductive, PTL

(* A stop can leave the counter too large, never too small.                *)
THEOREM CounterSafe == Spec => []CounterNotTooSmall
<1>1. IndInv => CounterNotTooSmall
  <2> SUFFICES ASSUME IndInv PROVE CounterNotTooSmall
    OBVIOUS
  <2>1. TypeOK /\ Slack >= 0
    BY DEF IndInv, CountInv
  <2> QED BY <2>1, CountsOfSets, CountType DEF CounterNotTooSmall, Slack, SlackOf, TypeOK
<1> QED BY <1>1, Inductive, PTL

(* The assertion active_threads > 0 of is_inactive: every increment owed   *)
(* is owed by a thread that is itself active, so the threads counted are   *)
(* at least as many as the increments missing.                             *)
THEOREM CounterNeverUnderflows == Spec => []NoUnderflow
<1>1. IndInv => NoUnderflow
  <2> SUFFICES ASSUME IndInv, NEW t \in Threads, pending[t] = "dec"
               PROVE active_threads > 0
    BY DEF NoUnderflow
  <2>1. TypeOK /\ Slack >= 0 /\ WorkersActive
    BY DEF IndInv, CountInv, AwakeInv
  <2>2. Pending("inc") \subseteq ActiveSet
    BY <2>1 DEF Pending, ActiveSet, WorkersActive
  <2>3. IsFiniteSet(ActiveSet) /\ IsFiniteSet(Pending("dec"))
    BY ThreadsFinite DEF ActiveSet, Pending
  <2>4. Cardinality(Pending("inc")) <= Cardinality(ActiveSet)
    BY <2>2, <2>3, FS_Subset
  <2>5. Cardinality(Pending("dec")) > 0
    <3>1. Pending("dec") # {}
      BY DEF Pending
    <3> QED BY <2>3, <3>1, FS_EmptySet, FS_CardinalityType
  <2> QED BY <2>1, <2>4, <2>5, CountsOfSets, CountType DEF Slack, SlackOf, TypeOK
<1> QED BY <1>1, Inductive, PTL

(***************************************************************************)
(* The three facts about active_threads together, as the run checks them.  *)
(***************************************************************************)
THEOREM CounterAlwaysKept == Spec => []CounterKept
<1>1. CounterMatchesStates /\ CounterNotTooSmall /\ NoUnderflow => CounterKept
  BY DEF CounterKept
<1> QED BY <1>1, CounterCorrect, CounterSafe, CounterNeverUnderflows, PTL

-----------------------------------------------------------------------------
(* Announced work, when stealing is off.  Work that a thread has not seen  *)
(* yet keeps it awake, or is on the list of a thread that will wake it up. *)

StealLabels == {"steal", "steal_pop", "steal_add"}

\* t will be activated: it is on a list, or its node just changed queues
ToBeWoken(t) ==
  \E u \in Threads : \/ t \in comm[u]
                     \/ pc[u] = "prio_act" /\ prio_owner[u] = t

\* t reads its thread node, or its queues, before it can go to sleep
WillSeeFacts(t) ==
  \/ tstate[t] = "active_new"
  \/ tstate[t] = "active" /\ pc[t] \in {"next", "tnode", "got"}
WillSeeNodes(t) ==
  \/ tstate[t] = "active_new"
  \/ /\ tstate[t] = "active"
     /\ pc[t] \in {"next", "tnode", "haswork", "got", "run", "prio_put", "prio_act"}

NobodySteals == \A t \in Threads : pc[t] \notin StealLabels /\ stolen[t] = 0
ListedByWorkers ==
  \A u \in Threads : comm[u] # {} /\ ~ stop_flag => pc[u] \in WorkLabels
FactsSeen ==
  \A t \in Threads :
    tfacts[t] /\ ~ stop_flag => WillSeeFacts(t) \/ \E u \in Threads : t \in comm[u]
NodesSeen ==
  \A t \in Threads :
    work[t] > 0 /\ ~ stop_flag => WillSeeNodes(t) \/ ToBeWoken(t)

AnnounceInv == NobodySteals /\ ListedByWorkers /\ FactsSeen /\ NodesSeen

\* At the start every thread is about to look at its queues and thread node.
LEMMA InitAnnounce == Init => AnnounceInv
  BY DEF Init, AnnounceInv, NobodySteals, ListedByWorkers, FactsSeen, NodesSeen,
         WillSeeFacts, WillSeeNodes, StealLabels

\* No step loses a signal when go_steal_nodes is not there to swallow it.
LEMMA StepAnnounce ==
  ASSUME ~ WorkStealing, TypeOK, AwakeInv, AnnounceInv, [Next]_vars
  PROVE  AnnounceInv'
<1>0. /\ tstate \in [Threads -> TStates]
      /\ pc \in [Threads -> Labels]
      /\ work \in [Threads -> Nat]
      /\ tfacts \in [Threads -> BOOLEAN]
      /\ stolen \in [Threads -> Nat]
      /\ prio_owner \in [Threads -> Threads]
      /\ comm \in [Threads -> SUBSET Threads]
  BY DEF TypeOK
<1>a. WorkersActive /\ KilledOnlyAfterStop
  BY DEF AwakeInv
<1> USE <1>0, <1>a DEF AnnounceInv, NobodySteals, ListedByWorkers, FactsSeen,
      NodesSeen, WillSeeFacts, WillSeeNodes, ToBeWoken, StealLabels, WorkLabels,
      WorkersActive, KilledOnlyAfterStop, IsActive, TStates, Goto, At, barrierVars,
      stealVars
<1>1. ASSUME NEW t \in Threads, CountActive(t) PROVE AnnounceInv'
  BY <1>1 DEF CountActive
<1>2. ASSUME NEW t \in Threads, CountInactive(t) PROVE AnnounceInv'
  BY <1>2 DEF CountInactive
<1>3. ASSUME NEW t \in Threads, SetDone(t) PROVE AnnounceInv'
  BY <1>3 DEF SetDone
<1>4. ASSUME NEW t \in Threads, PopNode(t) PROVE AnnounceInv'
  BY <1>4 DEF PopNode
<1>5. ASSUME NEW t \in Threads, NoNodeQueued(t) PROVE AnnounceInv'
  BY <1>5 DEF NoNodeQueued
<1>6. ASSUME NEW t \in Threads, CheckThreadNode(t) PROVE AnnounceInv'
  BY <1>6 DEF CheckThreadNode
<1>7. ASSUME NEW t \in Threads, CheckHasWork(t) PROVE AnnounceInv'
  BY <1>7 DEF CheckHasWork
<1>8. ASSUME NEW t \in Threads, NotifyOne(t) PROVE AnnounceInv'
  BY <1>8 DEF NotifyOne, ActivateThread
<1>9. ASSUME NEW t \in Threads, NotifyEnd(t) PROVE AnnounceInv'
  BY <1>9 DEF NotifyEnd
<1>10. ASSUME NEW t \in Threads, StartRun(t) PROVE AnnounceInv'
  BY <1>10 DEF StartRun
<1>11. ASSUME NEW t \in Threads, EndRun(t) PROVE AnnounceInv'
  BY <1>11 DEF EndRun
<1>12. ASSUME NEW t \in Threads, KeepCurrent(t) PROVE AnnounceInv'
  BY <1>12 DEF KeepCurrent
<1>13. ASSUME NEW t \in Threads, StopProgram(t) PROVE AnnounceInv'
  BY <1>13 DEF StopProgram
<1>14. ASSUME NEW t \in Threads, PrioInsert(t) PROVE AnnounceInv'
  BY <1>14 DEF PrioInsert
<1>15. ASSUME NEW t \in Threads, PrioActivate(t) PROVE AnnounceInv'
  BY <1>15 DEF PrioActivate, ActivateThread
<1>16. ASSUME NEW t \in Threads, EnterBusyWait(t) PROVE AnnounceInv'
  BY <1>16 DEF EnterBusyWait, CallSteal
<1>17. ASSUME NEW t \in Threads, PollQueues(t) PROVE AnnounceInv'
  BY <1>17 DEF PollQueues, CallSteal
<1>18. ASSUME NEW t \in Threads, GoInactive(t) PROVE AnnounceInv'
  BY <1>18 DEF GoInactive, SetInactiveIfNoWork
<1>19. ASSUME NEW t \in Threads, CheckDone(t) PROVE AnnounceInv'
  BY <1>19 DEF CheckDone
<1>20. ASSUME NEW t \in Threads, LeaveBusyWait(t) PROVE AnnounceInv'
  BY <1>20 DEF LeaveBusyWait, SetActiveIfInactive
<1>21. ASSUME NEW t \in Threads, ReturnNull(t) PROVE AnnounceInv'
  BY <1>21 DEF ReturnNull
<1>22. ASSUME NEW t \in Threads, KilledWhileActive(t) PROVE AnnounceInv'
  BY <1>22 DEF KilledWhileActive, SetForceInactive
<1>23. ASSUME NEW t \in Threads, NEW u \in Threads, NewWork(t, u) PROVE AnnounceInv'
  BY <1>23 DEF NewWork
<1>24. ASSUME NEW t \in Threads, NEW u \in Threads, NewThreadWork(t, u) PROVE AnnounceInv'
  BY <1>24 DEF NewThreadWork
<1>25. ASSUME NEW t \in Threads, NEW u \in Threads, MoveCurrent(t, u) PROVE AnnounceInv'
  BY <1>25 DEF MoveCurrent
<1>26. ASSUME NEW t \in Threads, NEW u \in Threads, MoveQueued(t, u) PROVE AnnounceInv'
  BY <1>26 DEF MoveQueued
<1>27. ASSUME NEW t \in Threads, NEW u \in Threads, PrioRemove(t, u) PROVE AnnounceInv'
  BY <1>27 DEF PrioRemove
<1>28. ASSUME NEW t \in Threads, StealSkip(t) PROVE AnnounceInv'
  BY <1>28 DEF StealSkip
<1>29. ASSUME NEW t \in Threads, StealTry(t) PROVE AnnounceInv'
  BY <1>29 DEF StealTry
<1>30. ASSUME NEW t \in Threads, StealPop(t) PROVE AnnounceInv'
  BY <1>30 DEF StealPop
<1>31. ASSUME NEW t \in Threads, StealAdd(t) PROVE AnnounceInv'
  BY <1>31 DEF StealAdd
<1>32. ASSUME NEW t \in Threads, StealDone(t) PROVE AnnounceInv'
  BY <1>32 DEF StealDone
<1>33. ASSUME NEW t \in Threads, StealGiveUp(t) PROVE AnnounceInv'
  BY <1>33 DEF StealGiveUp
<1>34. CASE UNCHANGED vars
  BY <1>34 DEF vars
<1> QED
  BY <1>1, <1>2, <1>3, <1>4, <1>5, <1>6, <1>7, <1>8, <1>9, <1>10, <1>11, <1>12,
     <1>13, <1>14, <1>15, <1>16, <1>17, <1>18, <1>19, <1>20, <1>21, <1>22, <1>23,
     <1>24, <1>25, <1>26, <1>27, <1>28, <1>29, <1>30, <1>31, <1>32, <1>33, <1>34
     DEF Next, ThreadStep, Finished

\* All parts of the invariant together, for a machine that does not steal.
LEMMA InductiveAnnounce ==
  ASSUME ~ WorkStealing PROVE Spec => [](IndInv /\ AnnounceInv)
<1>1. Init => AnnounceInv
  BY InitAnnounce
<1>2. IndInv /\ AnnounceInv /\ [Next]_vars => AnnounceInv'
  BY StepAnnounce DEF IndInv
<1> QED BY <1>1, <1>2, Inductive, PTL DEF Spec

(* A thread that sleeps over a fact for its thread node is still on the    *)
(* list of a thread that will activate it, for every number of threads and *)
(* every program, as long as nodes are not stolen.                         *)
THEOREM ThreadFactsAnnounced ==
  ASSUME ~ WorkStealing PROVE Spec => []ThreadFactAnnounced
<1>1. AnnounceInv => ThreadFactAnnounced
  BY DEF AnnounceInv, FactsSeen, WillSeeFacts, ThreadFactAnnounced, IsActive
<1> QED BY <1>1, InductiveAnnounce, PTL

\* The counter at one, no increment owed and a decrement owed: everybody sleeps.
LEMMA LastOneSleeps ==
  ASSUME IndInv, ~ stop_flag, active_threads = 1, Pending("inc") = {},
         NEW t \in Threads, pending[t] = "dec"
  PROVE  ActiveSet = {}
<1>1. /\ IsFiniteSet(ActiveSet) /\ Cardinality(ActiveSet) \in Nat
      /\ IsFiniteSet(Pending("dec")) /\ Cardinality(Pending("dec")) \in Nat
  BY ThreadsFinite DEF ActiveSet, Pending
<1>2. Cardinality(Pending("dec")) # 0
  <2>1. Pending("dec") # {}
    BY DEF Pending
  <2> QED BY <1>1, <2>1, FS_EmptySet
<1>3. CountIn(pending, {"inc"}) = 0
  <2>1. {u \in Threads : pending[u] \in {"inc"}} = {}
    BY DEF Pending
  <2> QED BY <2>1, FS_EmptySet DEF CountIn
<1>4. 1 = Cardinality(ActiveSet) + Cardinality(Pending("dec"))
  <2>1. TypeOK /\ Slack = 0
    BY DEF IndInv, CountInv
  <2> QED BY <1>1, <1>3, <2>1, CountsOfSets DEF Slack, SlackOf
<1>5. Cardinality(ActiveSet) = 0
  BY <1>1, <1>2, <1>4
<1> QED BY <1>1, <1>5, FS_EmptySet

(* The decrement that reaches zero while no increment is owed finds no     *)
(* node in a queue and no fact in a thread node, for every number of       *)
(* threads and every program: everybody sleeps then, so nobody has a       *)
(* thread left to wake up, and the work that is left would have been seen. *)
THEOREM TerminationDetectedSoundly ==
  ASSUME ~ WorkStealing PROVE Spec => ZeroMeansNoWork
<1>1. IndInv /\ AnnounceInv /\ [Next]_vars
        => [ ( /\ active_threads = 1 /\ active_threads' = 0
               /\ Pending("inc") = {} /\ ~ stop_flag ) => NoWorkLeft ]_vars
  <2> SUFFICES ASSUME IndInv, AnnounceInv, [Next]_vars, active_threads = 1,
                      active_threads' = 0, Pending("inc") = {}, ~ stop_flag
               PROVE  NoWorkLeft
    OBVIOUS
  <2>1. PICK t \in Threads : pending[t] = "dec"
    <3>1. active_threads' # active_threads
      OBVIOUS
    <3>2. \E t \in Threads : ThreadStep(t)
      BY <3>1 DEF Next, Finished, vars
    <3>3. PICK t \in Threads : ThreadStep(t)
      BY <3>2
    <3>4. CountActive(t) \/ CountInactive(t)
      BY <3>1, <3>3 DEF ThreadStep, SetDone, PopNode, NoNodeQueued, CheckThreadNode,
           CheckHasWork, NotifyOne, NotifyEnd, StartRun, EndRun, KeepCurrent,
           StopProgram, PrioInsert, PrioActivate, EnterBusyWait, PollQueues,
           GoInactive, CheckDone, LeaveBusyWait, ReturnNull, KilledWhileActive,
           NewWork, NewThreadWork, MoveCurrent, MoveQueued, PrioRemove, StealSkip,
           StealTry, StealPop, StealAdd, StealDone, StealGiveUp, barrierVars
    <3>5. ~ CountActive(t)
      BY DEF CountActive
    <3> QED BY <3>4, <3>5 DEF CountInactive
  <2>2. \A u \in Threads : ~ IsActive(u)
    BY <2>1, LastOneSleeps DEF ActiveSet
  <2>3. \A u \in Threads : comm[u] = {} /\ pc[u] # "prio_act"
    BY <2>2 DEF IndInv, AwakeInv, WorkersActive, AnnounceInv, ListedByWorkers, WorkLabels
  <2>4. ASSUME NEW u \in Threads PROVE work[u] = 0 /\ ~ tfacts[u] /\ stolen[u] = 0
    <3>1. ~ WillSeeNodes(u) /\ ~ WillSeeFacts(u) /\ ~ ToBeWoken(u)
      BY <2>2, <2>3 DEF WillSeeNodes, WillSeeFacts, ToBeWoken, IsActive
    <3>2. ~ (work[u] > 0) /\ ~ tfacts[u] /\ stolen[u] = 0
      BY <2>3, <3>1 DEF AnnounceInv, FactsSeen, NodesSeen, NobodySteals
    <3>3. work[u] \in Nat
      BY DEF IndInv, TypeOK
    <3> QED BY <3>2, <3>3
  <2> QED BY <2>4 DEF NoWorkLeft
<1> QED BY <1>1, InductiveAnnounce, PTL DEF Spec, ZeroMeansNoWork

=============================================================================
