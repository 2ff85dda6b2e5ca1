----------------------------- MODULE TreeBarrier -----------------------------
(***************************************************************************)
(* The sense-reversing combining tree with which the threads wait for each *)
(* other during init() (utils/tree_barrier.hpp).  Thread i waits in node i *)
(* of the tree until its children have signalled, signals its parent and   *)
(* spins until the root turns `sense' around.  One step per access to      *)
(* shared memory; the shape of the tree is a parameter (BarrierTree builds *)
(* the one that the constructor builds).                                   *)
(***************************************************************************)
EXTENDS Integers, FiniteSets

CONSTANTS
  Tid,
  Parent,      \* inner_node::parent, NoParent at the root
  NoParent,
  Rounds       \* bound: how often each thread waits

\* the tree has one node per thread: one root, from which every node can be
\* reached (BarrierTree evaluates that for the tree that is built)
ASSUME TreeAssumption ==
  /\ Rounds \in Nat /\ IsFiniteSet(Tid)
  /\ Parent \in [Tid -> Tid \cup {NoParent}] /\ NoParent \notin Tid
  /\ \E r \in Tid :
       /\ \A t \in Tid : Parent[t] = NoParent <=> t = r
       /\ \A S \in SUBSET Tid :
            r \in S /\ (\A t \in Tid : Parent[t] \in S => t \in S) => S = Tid

VARIABLES
  children_count,   \* inner_node::children_count
  thread_sense,     \* inner_node::thread_sense
  sense,            \* tree_barrier::sense
  bpc,
  passed            \* auxiliary: how many waits each thread has completed

barrierVars == <<children_count, thread_sense, sense, bpc, passed>>

Children(t) == {u \in Tid : Parent[u] = t}
Count(t) == Cardinality(Children(t))

\* outside; waiting for the children; before children_count = count; before
\* the signal to the parent; spinning; before the root turns the sense
BarrierLabels == {"out", "children", "reset", "signal", "spin", "turn"}

BarrierInit ==
  /\ children_count = [t \in Tid |-> Count(t)]
  /\ thread_sense = [t \in Tid |-> TRUE]
  /\ sense = FALSE
  /\ bpc = [t \in Tid |-> "out"]
  /\ passed = [t \in Tid |-> 0]

BarrierGoto(t, l) == bpc' = [bpc EXCEPT ![t] = l]

-----------------------------------------------------------------------------

Arrive(t) ==
  /\ bpc[t] = "out"
  /\ passed[t] < Rounds
  /\ BarrierGoto(t, "children")
  /\ UNCHANGED <<children_count, thread_sense, sense, passed>>

\* while(children_count > 0)
ChildrenReady(t) ==
  /\ bpc[t] = "children"
  /\ children_count[t] = 0
  /\ BarrierGoto(t, "reset")
  /\ UNCHANGED <<children_count, thread_sense, sense, passed>>

Reset(t) ==
  /\ bpc[t] = "reset"
  /\ children_count' = [children_count EXCEPT ![t] = Count(t)]
  /\ BarrierGoto(t, IF Parent[t] = NoParent THEN "turn" ELSE "signal")
  /\ UNCHANGED <<thread_sense, sense, passed>>

Signal(t) ==
  /\ bpc[t] = "signal"
  /\ children_count' = [children_count EXCEPT ![Parent[t]] = @ - 1]
  /\ BarrierGoto(t, "spin")
  /\ UNCHANGED <<thread_sense, sense, passed>>

\* thread_sense = !my_sense
LeaveBarrier(t) ==
  /\ thread_sense' = [thread_sense EXCEPT ![t] = ~@]
  /\ passed' = [passed EXCEPT ![t] = @ + 1]
  /\ BarrierGoto(t, "out")

\* mutant: the thread waits for the same sense in every round
SpinKeepsSense(t) ==
  /\ bpc[t] = "spin"
  /\ sense = thread_sense[t]
  /\ passed' = [passed EXCEPT ![t] = @ + 1]
  /\ BarrierGoto(t, "out")
  /\ UNCHANGED <<children_count, thread_sense, sense>>

Spin(t) ==
  /\ bpc[t] = "spin"
  /\ sense = thread_sense[t]
  /\ LeaveBarrier(t)
  /\ UNCHANGED <<children_count, sense>>

\* mutant: the root does not turn its own sense
TurnKeepsSense(t) ==
  /\ bpc[t] = "turn"
  /\ sense' = ~sense
  /\ passed' = [passed EXCEPT ![t] = @ + 1]
  /\ BarrierGoto(t, "out")
  /\ UNCHANGED <<children_count, thread_sense>>

Turn(t) ==
  /\ bpc[t] = "turn"
  /\ sense' = ~sense
  /\ LeaveBarrier(t)
  /\ UNCHANGED children_count

Wait(t) == Arrive(t) \/ ChildrenReady(t) \/ Reset(t) \/ Signal(t) \/ Spin(t) \/ Turn(t)

AllPassed == \A t \in Tid : passed[t] = Rounds /\ bpc[t] = "out"
BarrierDone == AllPassed /\ UNCHANGED barrierVars

BarrierNext == (\E t \in Tid : Wait(t)) \/ BarrierDone

BarrierSpec == BarrierInit /\ [][BarrierNext]_barrierVars

-----------------------------------------------------------------------------

\* Types of the tree nodes and of the barrier
BarrierTypeOK ==
  /\ children_count \in [Tid -> Int] /\ thread_sense \in [Tid -> BOOLEAN]
  /\ sense \in BOOLEAN /\ bpc \in [Tid -> BarrierLabels]
  /\ passed \in [Tid -> 0 .. Rounds]

\* the round for which children_count[t] counts: the next one after the reset
CountedRound(t) ==
  IF bpc[t] \in {"signal", "spin", "turn"} THEN passed[t] + 1 ELSE passed[t]

\* children_count counts the children that have not signalled yet in the round
\* it is set up for, also when a fast child signals for the next round while its
\* parent still spins in this one: the reset loses no signal.
CountsChildren ==
  /\ BarrierTypeOK
  /\ \A t \in Tid :
       children_count[t] = Cardinality({c \in Children(t) :
                              ~(passed[c] = CountedRound(t) /\ bpc[c] = "spin")})

\* No thread passes the barrier before every thread has arrived, and none runs
\* ahead by a round.
NobodyEarly ==
  \A t, u \in Tid :
    /\ passed[t] <= passed[u] + 1
    /\ passed[t] = passed[u] + 1 => bpc[u] # "out"

\* One bit tells the rounds apart: a spinning thread finds its sense exactly when
\* the root has passed its round, and the root, as wait asserts, turns the sense
\* into the one it waits for itself.
SenseTellsRounds ==
  \A t \in Tid :
    /\ bpc[t] = "spin" => (sense = thread_sense[t] <=> \E u \in Tid : passed[u] > passed[t])
    /\ bpc[t] = "turn" => sense # thread_sense[t]

\* No thread passes the barrier before every thread has arrived, and none runs
\* ahead by a round; children_count loses no signal of a fast child and the one
\* sense bit tells the rounds apart.
BarrierHolds == NobodyEarly /\ CountsChildren /\ SenseTellsRounds

\* Every thread gets through every round.
EveryoneGetsThrough == <>AllPassed
================================================================================
