---------------------------- MODULE NodeLifeProofs ----------------------------
(***************************************************************************)
(* Proofs about NodeLife, for every number of threads, of creatable nodes  *)
(* and of identifiers, and every set of rules.                             *)
(*                                                                         *)
(* LifeInv is the inductive invariant.  Its heart is Counted: refs[n] is    *)
(* the number of facts that refer to n, less the facts whose destruction   *)
(* has begun (the reference is given back before the fact leaves its       *)
(* database).  The hard step is that a thread may not match a fact whose   *)
(* node is already deleted.  Every fact being destroyed still is in the    *)
(* database of a node that runs (RunShape), and two threads never run the  *)
(* same node (Places); so a fact that another thread can match is a        *)
(* reference besides those being destroyed (Matched), its node is counted  *)
(* by it, and is alive.                                                    *)
(*                                                                         *)
(* IdsInv is the invariant of the identifiers: no block of identifiers     *)
(* still to be given out has one that is in use, and each node is on the   *)
(* lists of one thread.                                                    *)
(***************************************************************************)
EXTENDS NodeLife, LibraryProofs

\* The bags with members in S.
BagsOver(S) == UNION {[T -> Nat \ {0}] : T \in SUBSET S}

\* The points of a node's run between which other threads may step.
Ats == {"idle", "begin", "rules", "test", "erase", "generated", "sync", "gc", "check",
        "committed"}

\* What a thread is doing, as a set of records.
RunTypes == [at : Ats, node : Fact, used : Fact, generated : BagsOver(Fact)]

\* Thread t is running a node.
Busy(t) == run[t].at \notin {"idle", "committed"}

\* The sorts of the variables; a node not created yet is empty, and the nodes of the
\* axioms keep the reference they begin with.
LifeTypes ==
  /\ created \in 0 .. MaxCreated
  /\ live \in SUBSET Node /\ Initial \subseteq live
  /\ \A k \in live : k <= NUM_THREADS + created
  /\ refs \in [Node -> Int] /\ \A k \in Initial : refs[k] = 1
  /\ linear \in [Node -> BagsOver(Fact)] /\ store \in [Node -> BagsOver(Fact)]
  /\ \A k \in Created : k > NUM_THREADS + created => refs[k] = 0 /\ linear[k] = EmptyBag
  /\ owner \in [Node -> Thread \cup {None}] /\ \A k \in live : owner[k] \in Thread
  /\ unprocessed_facts \in [Node -> BOOLEAN]
  /\ active \in SUBSET Node /\ queue \in [Thread -> SUBSET Node]
  /\ run \in [Thread -> RunTypes]
  /\ facts_to_send \in [Thread -> BagsOver(Node \X Fact)]
  /\ gc_nodes \in [Thread -> SUBSET Node]
  /\ deleter \in [Node -> Thread \cup {None}]

\* A node is run by at most one thread or is in at most one queue; a queued node and
\* one about to be run is alive and has facts.
Places ==
  /\ \A t \in Thread : Busy(t) => run[t].node \in active
  /\ \A t, u \in Thread : Busy(t) /\ Busy(u) /\ run[t].node = run[u].node => t = u
  /\ \A t \in Thread : \A n \in queue[t] : n \in active /\ n \in live /\ unprocessed_facts[n]
  /\ \A t, u \in Thread : \A n \in queue[t] : n \in queue[u] => t = u
  /\ \A t, u \in Thread : Busy(u) => run[u].node \notin queue[t]
  /\ \A t \in Thread :
       run[t].at = "begin" => run[t].node \in live /\ unprocessed_facts[run[t].node]

\* What a thread holds at each point of a run: the fact it destroys is still in the
\* database, the buffers are empty outside of the steps that fill them, and the node
\* that runs is no candidate for collection.
RunShape ==
  \A t \in Thread :
    /\ run[t].at \in {"test", "erase"} => run[t].used \in BagToSet(linear[run[t].node])
    /\ run[t].at \notin {"test", "erase", "generated"} => run[t].generated = EmptyBag
    /\ run[t].at \in {"idle", "committed", "begin", "gc", "check"} => facts_to_send[t] = EmptyBag
    /\ run[t].at \in {"idle", "committed", "begin", "check"} => gc_nodes[t] = {}
    /\ Busy(t) => run[t].node \notin gc_nodes[t]

\* Thread t did not delete n.
Mine(t, n) == n \in live \/ deleter[n] # t
\* Nothing that a thread holds refers to a node it deleted itself.
OwnDeletes ==
  /\ \A t \in Thread :
       /\ Busy(t) => Mine(t, run[t].node)
       /\ run[t].at = "test" => run[t].used \in Node /\ Mine(t, run[t].used)
       /\ \A d \in BagToSet(facts_to_send[t]) : Mine(t, d[1])
       /\ \A n \in gc_nodes[t] : Mine(t, n)
  /\ OwnDeletesSafe

\* The counter of a node is the number of its references that are not being given back.
Counted ==
  \A n \in Created :
    /\ n \in live => refs[n] + Dying(n) = References(n)
    /\ n \notin live => References(n) = Dying(n)

\* Some thread will still look at a node that can be collected.
GarbageKnown ==
  \A n \in live : garbage_collect(n) =>
    \/ n \in active
    \/ \E t \in Thread : n \in gc_nodes[t] \/ (run[t].at = "test" /\ run[t].used = n)

\* The inductive invariant.
LifeInv == LifeTypes /\ Places /\ RunShape /\ OwnDeletes /\ Counted /\ GarbageKnown

-----------------------------------------------------------------------------
(* Bags of facts. *)

\* A bag over S is a function to positive numbers on a subset of S.
LEMMA BagsOverIs ==
  ASSUME NEW S, NEW B
  PROVE  B \in BagsOver(S) <=> B \in [DOMAIN B -> Nat \ {0}] /\ DOMAIN B \subseteq S
<1>1. ASSUME B \in BagsOver(S) PROVE B \in [DOMAIN B -> Nat \ {0}] /\ DOMAIN B \subseteq S
  <2>1. PICK T \in SUBSET S : B \in [T -> Nat \ {0}]
    BY <1>1 DEF BagsOver
  <2> QED
    BY <2>1
<1>2. ASSUME B \in [DOMAIN B -> Nat \ {0}], DOMAIN B \subseteq S PROVE B \in BagsOver(S)
  BY <1>2 DEF BagsOver
<1> QED
  BY <1>1, <1>2

\* The count of a member, and of any value in the empty bag.
LEMMA BagCount ==
  ASSUME NEW S, NEW B \in BagsOver(S), NEW k
  PROVE  /\ CountIn(B, k) \in Nat
         /\ CountIn(B, k) > 0 <=> k \in BagToSet(B)
         /\ CountIn(EmptyBag, k) = 0 /\ EmptyBag \in BagsOver(S)
         /\ k \in BagToSet(B) => B # EmptyBag /\ k \in S
<1>1. B \in [DOMAIN B -> Nat \ {0}] /\ DOMAIN B \subseteq S
  BY BagsOverIs
<1>2. DOMAIN EmptyBag = {} /\ EmptyBag \in [DOMAIN EmptyBag -> Nat \ {0}]
  BY DEF EmptyBag, SetToBag
<1>3. EmptyBag \in BagsOver(S)
  BY <1>2, BagsOverIs
<1> QED
  BY <1>1, <1>2, <1>3 DEF CountIn, BagToSet

\* The bag of a set has one copy of each member.
LEMMA BagOfSet ==
  ASSUME NEW S, NEW T, T \subseteq S, NEW k
  PROVE  /\ SetToBag(T) \in BagsOver(S)
         /\ BagToSet(SetToBag(T)) = T
         /\ CountIn(SetToBag(T), k) = IF k \in T THEN 1 ELSE 0
<1>1. SetToBag(T) \in [DOMAIN SetToBag(T) -> Nat \ {0}] /\ DOMAIN SetToBag(T) = T
  BY DEF SetToBag
<1> QED
  BY <1>1, BagsOverIs DEF CountIn, BagToSet, SetToBag

\* Counts in a sum of bags add up.
LEMMA BagPlus ==
  ASSUME NEW S, NEW A \in BagsOver(S), NEW B \in BagsOver(S), NEW k
  PROVE  /\ A (+) B \in BagsOver(S)
         /\ BagToSet(A (+) B) = BagToSet(A) \cup BagToSet(B)
         /\ CountIn(A (+) B, k) = CountIn(A, k) + CountIn(B, k)
<1>1. /\ A \in [DOMAIN A -> Nat \ {0}] /\ DOMAIN A \subseteq S
      /\ B \in [DOMAIN B -> Nat \ {0}] /\ DOMAIN B \subseteq S
  BY BagsOverIs
<1>2. DOMAIN (A (+) B) = DOMAIN A \cup DOMAIN B
  BY DEF (+)
<1>3. \A e \in DOMAIN (A (+) B) : (A (+) B)[e] = CountIn(A, e) + CountIn(B, e)
  BY DEF (+), CountIn, BagToSet
<1>4. \A e : CountIn(A, e) \in Nat /\ CountIn(B, e) \in Nat
             /\ (e \in DOMAIN A => CountIn(A, e) > 0) /\ (e \in DOMAIN B => CountIn(B, e) > 0)
             /\ (e \notin DOMAIN A => CountIn(A, e) = 0)
             /\ (e \notin DOMAIN B => CountIn(B, e) = 0)
  BY <1>1 DEF CountIn, BagToSet
<1>5. A (+) B = [e \in DOMAIN (A (+) B) |-> (A (+) B)[e]]
  BY DEF (+)
<1>6. \A e \in DOMAIN (A (+) B) : (A (+) B)[e] \in Nat \ {0}
  BY <1>2, <1>3, <1>4
<1>7. A (+) B \in [DOMAIN (A (+) B) -> Nat \ {0}]
  BY <1>5, <1>6
<1>8. CountIn(A (+) B, k) = CountIn(A, k) + CountIn(B, k)
  <2>1. CASE k \in DOMAIN (A (+) B)
    BY <1>3, <2>1 DEF CountIn, BagToSet
  <2>2. CASE k \notin DOMAIN (A (+) B)
    <3>1. CountIn(A (+) B, k) = 0
      BY <2>2 DEF CountIn, BagToSet
    <3>2. CountIn(A, k) = 0 /\ CountIn(B, k) = 0
      BY <1>2, <1>4, <2>2
    <3> QED
      BY <3>1, <3>2
  <2> QED
    BY <2>1, <2>2
<1>9. A (+) B \in BagsOver(S)
  <2>1. DOMAIN (A (+) B) \subseteq S
    BY <1>1, <1>2
  <2> QED
    BY <1>7, <2>1, BagsOverIs
<1> QED
  BY <1>2, <1>8, <1>9 DEF BagToSet

\* Taking one copy of a member out of a bag.
LEMMA BagTake ==
  ASSUME NEW S, NEW B \in BagsOver(S), NEW x \in BagToSet(B), NEW k
  PROVE  /\ B (-) SetToBag({x}) \in BagsOver(S)
         /\ CountIn(B (-) SetToBag({x}), k) = CountIn(B, k) - (IF k = x THEN 1 ELSE 0)
<1>1. B \in [DOMAIN B -> Nat \ {0}] /\ DOMAIN B \subseteq S /\ x \in DOMAIN B
  BY BagsOverIs DEF BagToSet
<1> DEFINE N == B (-) SetToBag({x})
           V(e) == IF e = x THEN B[e] - 1 ELSE B[e]
<1>2. N = [e \in {d \in DOMAIN B : V(d) > 0} |-> V(e)]
  <2>1. DOMAIN SetToBag({x}) = {x} /\ SetToBag({x})[x] = 1
    BY DEF SetToBag
  <2> DEFINE C == [e \in DOMAIN B |-> IF e \in DOMAIN SetToBag({x}) THEN B[e] - SetToBag({x})[e]
                                      ELSE B[e]]
  <2>2. N = [e \in {d \in DOMAIN C : C[d] > 0} |-> C[e]]
    BY DEF (-)
  <2>3. DOMAIN C = DOMAIN B /\ \A e \in DOMAIN B : C[e] = V(e)
    BY <2>1
  <2> HIDE DEF N, C
  <2>4. {d \in DOMAIN C : C[d] > 0} = {d \in DOMAIN B : V(d) > 0}
    BY <2>3
  <2> QED
    BY <2>2, <2>3, <2>4
<1> HIDE DEF N
<1>3. \A e \in DOMAIN B : V(e) \in Nat
  BY <1>1
<1>4. DOMAIN N = {d \in DOMAIN B : V(d) > 0} /\ \A e \in DOMAIN N : N[e] = V(e)
  BY <1>2
<1>5. N \in [DOMAIN N -> Nat \ {0}]
  <2>1. \A e \in DOMAIN N : N[e] \in Nat \ {0}
    BY <1>3, <1>4
  <2>2. N = [e \in DOMAIN N |-> N[e]]
    BY <1>2
  <2> QED
    BY <2>1, <2>2
<1>6. N \in BagsOver(S)
  <2>1. DOMAIN N \subseteq S
    BY <1>1, <1>4
  <2> QED
    BY <1>5, <2>1, BagsOverIs
<1>7. CountIn(N, k) = CountIn(B, k) - (IF k = x THEN 1 ELSE 0)
  BY <1>1, <1>3, <1>4 DEF CountIn, BagToSet
<1> QED
  BY <1>6, <1>7 DEF N

\* What Send takes out of a buffer F for n, and what n gets.
SentTo(F, n) == Restrict(F, {d \in BagToSet(F) : d[1] = n})
FactsFor(F, n) == [r \in {d[2] : d \in DOMAIN SentTo(F, n)} |-> SentTo(F, n)[<<n, r>>]]

\* A bag whose elements are pairs, the form facts_to_send has.
PairBag(F) == /\ F \in [DOMAIN F -> Nat \ {0}]
              /\ \A d \in DOMAIN F : d = <<d[1], d[2]>>

\* What Send takes out of the bag and what it leaves there, entry by entry.
LEMMA SentIs ==
  ASSUME NEW F, NEW n, PairBag(F)
  PROVE  /\ FactsFor(F, n) = [j \in DOMAIN FactsFor(F, n) |-> F[<<n, j>>]]
         /\ \A j : j \in DOMAIN FactsFor(F, n) <=> <<n, j>> \in DOMAIN F
         /\ F (-) SentTo(F, n) = [d \in {e \in DOMAIN F : e[1] # n} |-> F[d]]
<1> DEFINE sent == SentTo(F, n)
           b == FactsFor(F, n)
           N == F (-) sent
<1>1. F \in [DOMAIN F -> Nat \ {0}] /\ \A d \in DOMAIN F : d = <<d[1], d[2]>>
  BY DEF PairBag
<1>2. /\ DOMAIN sent = {d \in DOMAIN F : d[1] = n}
      /\ \A d \in DOMAIN sent : sent[d] = F[d]
  BY DEF SentTo, Restrict, BagToSet
<1>3. b = [r \in {d[2] : d \in DOMAIN sent} |-> sent[<<n, r>>]]
  BY DEF FactsFor
<1> HIDE DEF sent, b
<1>4. \A j : j \in DOMAIN b <=> <<n, j>> \in DOMAIN F
  <2>1. DOMAIN b = {d[2] : d \in DOMAIN sent}
    BY <1>3
  <2>2. ASSUME NEW j, j \in DOMAIN b PROVE <<n, j>> \in DOMAIN F
    <3>1. PICK d \in DOMAIN sent : j = d[2]
      BY <2>1, <2>2
    <3> QED
      BY <1>1, <1>2, <3>1
  <2>3. ASSUME NEW j, <<n, j>> \in DOMAIN F PROVE j \in DOMAIN b
    <3>1. <<n, j>> \in DOMAIN sent
      BY <1>2, <2>3
    <3> QED
      BY <2>1, <3>1
  <2> QED
    BY <2>2, <2>3
<1>5. b = [j \in DOMAIN b |-> F[<<n, j>>]]
  <2>1. \A j \in DOMAIN b : b[j] = F[<<n, j>>]
    <3> SUFFICES ASSUME NEW j \in DOMAIN b PROVE b[j] = F[<<n, j>>]
      OBVIOUS
    <3>1. <<n, j>> \in DOMAIN sent
      BY <1>2, <1>4
    <3> QED
      BY <1>2, <1>3, <3>1
  <2>2. b = [j \in DOMAIN b |-> b[j]]
    BY <1>3
  <2> QED
    BY <2>1, <2>2
<1>6. N = [d \in {e \in DOMAIN F : e[1] # n} |-> F[d]]
  <2> DEFINE C == [e \in DOMAIN F |-> IF e \in DOMAIN sent THEN F[e] - sent[e] ELSE F[e]]
  <2>1. N = [e \in {d \in DOMAIN C : C[d] > 0} |-> C[e]]
    BY DEF (-)
  <2>2. DOMAIN C = DOMAIN F /\ \A e \in DOMAIN F : C[e] = IF e[1] = n THEN 0 ELSE F[e]
    BY <1>1, <1>2
  <2> HIDE DEF C, N
  <2>3. {d \in DOMAIN C : C[d] > 0} = {d \in DOMAIN F : d[1] # n}
    BY <1>1, <2>2
  <2>4. \A e \in {d \in DOMAIN F : d[1] # n} : C[e] = F[e]
    BY <2>2
  <2> QED
    BY <2>1, <2>3, <2>4
<1> QED
  BY <1>4, <1>5, <1>6 DEF b, N, sent

\* The facts Send delivers, as a count of one fact.
LEMMA SentCount ==
  ASSUME NEW F, NEW n, NEW k, PairBag(F)
  PROVE  CountIn(FactsFor(F, n), k) = CountIn(F, <<n, k>>)
<1> DEFINE b == FactsFor(F, n)
<1>1. /\ b = [j \in DOMAIN b |-> F[<<n, j>>]]
      /\ \A j : j \in DOMAIN b <=> <<n, j>> \in DOMAIN F
      /\ F (-) SentTo(F, n) = [d \in {e \in DOMAIN F : e[1] # n} |-> F[d]]
  BY SentIs
<1> HIDE DEF b
<1>2. CountIn(b, k) = CountIn(F, <<n, k>>)
  BY <1>1 DEF CountIn, BagToSet
<1> QED
  BY <1>2 DEF b

\* The facts Send leaves, as a count of one fact.
LEMMA LeftCount ==
  ASSUME NEW F, NEW n, NEW m, NEW k, PairBag(F)
  PROVE  CountIn(F (-) SentTo(F, n), <<m, k>>) = IF m = n THEN 0 ELSE CountIn(F, <<m, k>>)
<1> DEFINE N == F (-) SentTo(F, n)
<1>1. N = [d \in {e \in DOMAIN F : e[1] # n} |-> F[d]]
  BY SentIs
<1> HIDE DEF N
<1>2. <<m, k>> \in DOMAIN N <=> <<m, k>> \in DOMAIN F /\ m # n
  BY <1>1
<1>3. CountIn(N, <<m, k>>) = IF m = n THEN 0 ELSE CountIn(F, <<m, k>>)
  BY <1>1, <1>2 DEF CountIn, BagToSet
<1> QED
  BY <1>3 DEF N

\* Send moves facts without changing the sort of the bags.
LEMMA BagSent ==
  ASSUME NEW S, NEW T, NEW F \in BagsOver(S \X T), NEW n \in S
  PROVE  /\ PairBag(F)
         /\ FactsFor(F, n) \in BagsOver(T) /\ F (-) SentTo(F, n) \in BagsOver(S \X T)
         /\ BagToSet(F (-) SentTo(F, n)) \subseteq BagToSet(F)
<1> DEFINE b == FactsFor(F, n)
           N == F (-) SentTo(F, n)
<1>1. F \in [DOMAIN F -> Nat \ {0}] /\ DOMAIN F \subseteq S \X T
  BY BagsOverIs
<1>2. PairBag(F)
  BY <1>1 DEF PairBag
<1>3. /\ b = [j \in DOMAIN b |-> F[<<n, j>>]]
      /\ \A j : j \in DOMAIN b <=> <<n, j>> \in DOMAIN F
      /\ N = [d \in {e \in DOMAIN F : e[1] # n} |-> F[d]]
  BY <1>2, SentIs
<1> HIDE DEF b, N
<1>4. b \in BagsOver(T)
  <2>1. \A j \in DOMAIN b : F[<<n, j>>] \in Nat \ {0} /\ j \in T
    <3> SUFFICES ASSUME NEW j \in DOMAIN b PROVE F[<<n, j>>] \in Nat \ {0} /\ j \in T
      OBVIOUS
    <3>1. <<n, j>> \in DOMAIN F
      BY <1>3
    <3> QED
      BY <1>1, <3>1
  <2>2. b \in [DOMAIN b -> Nat \ {0}] /\ DOMAIN b \subseteq T
    BY <1>3, <2>1
  <2> QED
    BY <2>2, BagsOverIs
<1>5. N \in BagsOver(S \X T) /\ BagToSet(N) \subseteq BagToSet(F)
  <2>1. N \in [DOMAIN N -> Nat \ {0}] /\ DOMAIN N \subseteq DOMAIN F
    BY <1>1, <1>3
  <2>2. DOMAIN N \subseteq S \X T
    BY <1>1, <2>1
  <2> QED
    BY <2>1, <2>2, BagsOverIs DEF BagToSet
<1> QED
  BY <1>2, <1>4, <1>5 DEF b, N

-----------------------------------------------------------------------------
(* The sums of references. *)

\* What the constants are, from LifeAssumption.
LEMMA Constants ==
  /\ IsFiniteSet(Node) /\ IsFiniteSet(Thread) /\ Thread = Initial
  /\ Node \subseteq Nat /\ None \notin Node /\ Initial \cap Created = {}
  /\ NUM_THREADS \in Nat /\ MaxCreated \in Nat
  /\ Created = {k \in Nat : NUM_THREADS < k /\ k <= NUM_THREADS + MaxCreated}
<1>1. IsFiniteSet(Initial) /\ IsFiniteSet(Created)
  <2>1. 1 \in Int /\ NUM_THREADS \in Int /\ NUM_THREADS + 1 \in Int
        /\ NUM_THREADS + MaxCreated \in Int
    BY LifeAssumption
  <2> QED
    BY <2>1, FS_Interval DEF Initial, Created
<1>2. IsFiniteSet(Node)
  BY <1>1, FS_Union DEF Node
<1> QED
  BY <1>1, <1>2, LifeAssumption DEF Node, Initial, Created, Thread

\* Numbers of references are natural numbers.
ReferencesNatural ==
  \A k : /\ \A m \in Node : InNode(k, m) \in Nat
         /\ \A t \in Thread : InThread(k, t) \in Nat
         /\ References(k) \in Nat

\* Every number of references is natural when the variables have their sorts.
LEMMA ReferenceTypes == LifeTypes => ReferencesNatural
<1> SUFFICES ASSUME LifeTypes, NEW k
             PROVE  /\ \A m \in Node : InNode(k, m) \in Nat
                    /\ \A t \in Thread : InThread(k, t) \in Nat
                    /\ References(k) \in Nat
  BY DEF ReferencesNatural
<1>1. \A m \in Node : InNode(k, m) \in Nat
  <2> SUFFICES ASSUME NEW m \in Node PROVE InNode(k, m) \in Nat
    OBVIOUS
  <2>1. linear[m] \in BagsOver(Fact) /\ store[m] \in BagsOver(Fact)
    BY DEF LifeTypes
  <2>2. CountIn(linear[m], k) \in Nat /\ CountIn(store[m], k) \in Nat
    BY <2>1, BagCount
  <2> QED
    BY <2>2 DEF InNode
<1>2. \A t \in Thread : InThread(k, t) \in Nat
  <2> SUFFICES ASSUME NEW t \in Thread PROVE InThread(k, t) \in Nat
    OBVIOUS
  <2>1. run[t].generated \in BagsOver(Fact) /\ facts_to_send[t] \in BagsOver(Node \X Fact)
    BY DEF LifeTypes, RunTypes
  <2>2. CountIn(run[t].generated, k) \in Nat
    BY <2>1, BagCount
  <2>3. \A m \in Node : CountIn(facts_to_send[t], <<m, k>>) \in Nat
    BY <2>1, BagCount
  <2>4. SumFunctionOnSet([m \in Node |-> CountIn(facts_to_send[t], <<m, k>>)], Node) \in Nat
    BY <2>3, SumType, Constants
  <2> QED
    BY <2>2, <2>4 DEF InThread
<1>3. SumFunctionOnSet([m \in Node |-> InNode(k, m)], Node) \in Nat
  BY <1>1, SumType, Constants
<1>4. SumFunctionOnSet([t \in Thread |-> InThread(k, t)], Thread) \in Nat
  BY <1>2, SumType, Constants
<1> QED
  BY <1>1, <1>2, <1>3, <1>4 DEF References

\* Arithmetic of two sums that change in one place each.
LEMMA Rearranged ==
  ASSUME NEW a \in Int, NEW b \in Int, NEW c \in Int, NEW d \in Int, NEW x \in Int, NEW y \in Int
  PROVE  (a + x - c) + (b + y - d) = (a + b) + x - c + y - d
  OBVIOUS

\* When one node and one thread change, the references change by what these hold.
LEMMA ReferencesStep ==
  ASSUME LifeTypes, LifeTypes', NEW k, NEW n \in Node, NEW t \in Thread,
         \A m \in Node \ {n} : InNode(k, m)' = InNode(k, m),
         \A u \in Thread \ {t} : InThread(k, u)' = InThread(k, u)
  PROVE  References(k)' = References(k) + InNode(k, n)' - InNode(k, n)
                                        + InThread(k, t)' - InThread(k, t)
<1>1. /\ \A m \in Node : InNode(k, m) \in Nat
      /\ \A u \in Thread : InThread(k, u) \in Nat
  BY ReferenceTypes DEF ReferencesNatural
<1>2. /\ \A m \in Node : InNode(k, m)' \in Nat
      /\ \A u \in Thread : InThread(k, u)' \in Nat
  <2>1. LifeTypes' => ReferencesNatural'
    BY ReferenceTypes, PTL
  <2> QED
    BY <2>1 DEF ReferencesNatural
<1> DEFINE f == [m \in Node |-> InNode(k, m)]
           g == [m \in Node |-> InNode(k, m)']
           h == [u \in Thread |-> InThread(k, u)]
           i == [u \in Thread |-> InThread(k, u)']
<1>3. SumFunctionOnSet(g, Node) = SumFunctionOnSet(f, Node) + InNode(k, n)' - InNode(k, n)
  <2>1. \A y \in Node : f[y] \in Int /\ g[y] \in Int
    BY <1>1, <1>2
  <2>2. \A y \in Node : y # n => g[y] = f[y]
    OBVIOUS
  <2>3. g[n] = InNode(k, n)' /\ f[n] = InNode(k, n)
    OBVIOUS
  <2>4. IsFiniteSet(Node)
    BY Constants
  <2> HIDE DEF f, g
  <2>5. SumFunctionOnSet(g, Node) = SumFunctionOnSet(f, Node) + g[n] - f[n]
    BY <2>1, <2>2, <2>4, SumUpdate
  <2> QED
    BY <2>3, <2>5
<1>4. SumFunctionOnSet(i, Thread) = SumFunctionOnSet(h, Thread) + InThread(k, t)' - InThread(k, t)
  <2>1. \A y \in Thread : h[y] \in Int /\ i[y] \in Int
    BY <1>1, <1>2
  <2>2. \A y \in Thread : y # t => i[y] = h[y]
    OBVIOUS
  <2>3. i[t] = InThread(k, t)' /\ h[t] = InThread(k, t)
    OBVIOUS
  <2>4. IsFiniteSet(Thread)
    BY Constants
  <2> HIDE DEF h, i
  <2>5. SumFunctionOnSet(i, Thread) = SumFunctionOnSet(h, Thread) + i[t] - h[t]
    BY <2>1, <2>2, <2>4, SumUpdate
  <2> QED
    BY <2>3, <2>5
<1>5. SumFunctionOnSet(f, Node) \in Int /\ SumFunctionOnSet(h, Thread) \in Int
  <2>1. \A y \in Node : f[y] \in Int
    BY <1>1
  <2>2. \A y \in Thread : h[y] \in Int
    BY <1>1
  <2> HIDE DEF f, h
  <2> QED
    BY <2>1, <2>2, SumType, Constants
<1>6. References(k) = SumFunctionOnSet(f, Node) + SumFunctionOnSet(h, Thread)
  BY DEF References
<1>7. References(k)' = SumFunctionOnSet(g, Node) + SumFunctionOnSet(i, Thread)
  BY DEF References
<1>8. InNode(k, n) \in Int /\ InNode(k, n)' \in Int /\ InThread(k, t) \in Int
      /\ InThread(k, t)' \in Int
  BY <1>1, <1>2
<1> HIDE DEF f, g, h, i
<1>9. (SumFunctionOnSet(f, Node) + InNode(k, n)' - InNode(k, n))
         + (SumFunctionOnSet(h, Thread) + InThread(k, t)' - InThread(k, t))
       = (SumFunctionOnSet(f, Node) + SumFunctionOnSet(h, Thread))
         + InNode(k, n)' - InNode(k, n) + InThread(k, t)' - InThread(k, t)
  BY <1>5, <1>8, Rearranged
<1> QED
  BY <1>3, <1>4, <1>6, <1>7, <1>9

\* Every fact being destroyed is in the database of another node, so there are no
\* fewer references, and the facts of nodes that destroy none are references besides.
LEMMA Surplus ==
  ASSUME LifeTypes, Places, RunShape, NEW f, NEW X \in SUBSET Node,
         \A m \in X : /\ f \in BagToSet(linear[m])
                      /\ \A u \in Thread : run[u].at \in {"test", "erase"} => run[u].node # m
  PROVE  /\ References(f) >= Dying(f) + Cardinality(X)
         /\ Dying(f) \in Nat /\ References(f) \in Nat
<1> DEFINE D == {u \in Thread : run[u].at \in {"test", "erase"} /\ run[u].used = f}
           h == [m \in Node |-> InNode(f, m)]
           T == {m \in Node : h[m] > 0}
           g == [u \in D |-> run[u].node]
<1>1. \A u \in Thread : Busy(u) => run[u].node \in Node
  BY DEF LifeTypes, Places
<1>2. ASSUME NEW m \in Node, f \in BagToSet(linear[m]) PROVE m \in T
  <2>1. linear[m] \in BagsOver(Fact) /\ store[m] \in BagsOver(Fact)
    BY DEF LifeTypes
  <2>2. CountIn(linear[m], f) \in Nat /\ CountIn(linear[m], f) > 0
        /\ CountIn(store[m], f) \in Nat
    BY <1>2, <2>1, BagCount
  <2> QED
    BY <2>2 DEF InNode
<1>3. X \subseteq T
  BY <1>2
<1>4. \A u \in D : run[u].node \in T \ X
  <2> SUFFICES ASSUME NEW u \in D PROVE run[u].node \in T \ X
    OBVIOUS
  <2>1. run[u].node \in Node /\ f \in BagToSet(linear[run[u].node])
    BY <1>1 DEF RunShape, Busy
  <2>2. run[u].node \in T
    BY <1>2, <2>1
  <2> HIDE DEF T
  <2> QED
    BY <2>2
<1>5. /\ IsFiniteSet(T) /\ IsFiniteSet(T \ X) /\ IsFiniteSet(X)
      /\ Cardinality(T \ X) = Cardinality(T) - Cardinality(X)
      /\ Cardinality(T) \in Nat /\ Cardinality(X) \in Nat
  <2>1. IsFiniteSet(T) /\ IsFiniteSet(X)
    BY Constants, FS_Subset
  <2>2. T \cap X = X
    BY <1>3
  <2> HIDE DEF T
  <2> QED
    BY <2>1, <2>2, FS_Difference, FS_CardinalityType
<1>6. g \in Injection(D, T \ X)
  <2>1. g \in [D -> T \ X]
    BY <1>4
  <2>2. ASSUME NEW u \in D, NEW v \in D, g[u] = g[v] PROVE u = v
    BY <2>2 DEF Places, Busy
  <2> HIDE DEF D, T
  <2> QED
    BY <2>1, <2>2 DEF Injection, IsInjective
<1>7. IsFiniteSet(D) /\ Cardinality(D) <= Cardinality(T \ X)
  <2> HIDE DEF g, D, T
  <2> QED
    BY <1>5, <1>6, FS_Injection
<1>8. Cardinality(D) \in Nat
  BY <1>7, FS_CardinalityType
<1>9. Cardinality(T) <= SumFunctionOnSet(h, Node) /\ SumFunctionOnSet(h, Node) \in Nat
  <2>1. \A y \in Node : h[y] \in Nat
    BY ReferenceTypes DEF ReferencesNatural
  <2> HIDE DEF h
  <2> QED
    BY <2>1, SumAtLeast, SumType, Constants
<1>10. SumFunctionOnSet([u \in Thread |-> InThread(f, u)], Thread) \in Nat
  <2>1. \A u \in Thread : InThread(f, u) \in Nat
    BY ReferenceTypes DEF ReferencesNatural
  <2> QED
    BY <2>1, SumType, Constants
<1>11. References(f) = SumFunctionOnSet(h, Node)
                       + SumFunctionOnSet([u \in Thread |-> InThread(f, u)], Thread)
  BY DEF References
<1>12. Dying(f) = Cardinality(D)
  BY DEF Dying
<1> HIDE DEF D, h, T, g
<1> QED
  BY <1>5, <1>7, <1>8, <1>9, <1>10, <1>11, <1>12

\* No more facts are being destroyed than there are.
LEMMA Enough ==
  ASSUME LifeTypes, Places, RunShape, NEW f
  PROVE  References(f) >= Dying(f) /\ Dying(f) \in Nat /\ References(f) \in Nat
<1>1. References(f) >= Dying(f) + Cardinality({}) /\ Dying(f) \in Nat /\ References(f) \in Nat
  BY Surplus
<1> QED
  BY <1>1, FS_EmptySet

\* A fact that a rule may match is a reference besides those being destroyed.
LEMMA Matched ==
  ASSUME LifeTypes, Places, RunShape, NEW t \in Thread, run[t].at = "rules",
         NEW f \in BagToSet(linear[run[t].node])
  PROVE  References(f) > Dying(f) /\ Dying(f) \in Nat
<1> DEFINE n == run[t].node
<1>1. n \in Node /\ \A u \in Thread : run[u].at \in {"test", "erase"} => run[u].node # n
  BY DEF LifeTypes, Places, Busy
<1> HIDE DEF n
<1>2. f \in BagToSet(linear[n])
  BY DEF n
<1>3. References(f) >= Dying(f) + Cardinality({n}) /\ Dying(f) \in Nat /\ References(f) \in Nat
  BY <1>1, <1>2, Surplus
<1>4. Cardinality({n}) = 1
  BY FS_Singleton
<1> QED
  BY <1>3, <1>4

-----------------------------------------------------------------------------
(* What Fire does, with the fact f and the rule r. *)

\* The node that rule r creates, and the facts it derives.
New(r) == IF r.new THEN {NUM_THREADS + created + 1} ELSE {}
HeadsOf(t, f, r) == Derived(r, t, run[t].node, f, NUM_THREADS + created + 1)

\* When rule r fires on fact f, the nodes it names are alive or the one it creates.
FireFacts(t, f, r) ==
  /\ f \in Fact /\ (f # None => f \in live)
  /\ New(r) \subseteq Created /\ New(r) \cap live = {}
  /\ HeadsOf(t, f, r) \subseteq Node \X Fact /\ IsFiniteSet(HeadsOf(t, f, r))
  /\ \A d \in HeadsOf(t, f, r) : /\ d[1] \in live \cup New(r)
                                 /\ d[2] \in live \cup New(r) \cup {None}

\* Whatever Fire picks, FireFacts holds of it: this is where Matched is needed.
LEMMA FireGives ==
  ASSUME LifeInv, NEW t \in Thread, run[t].at = "rules", run[t].node \in live,
         NEW f \in BagToSet(linear[run[t].node]), NEW r \in Rules,
         r.new => NUM_THREADS + created + 1 \in Created,
         \A h \in r.head : {h[1], h[2]} \cap {"arg"} # {} => f # None,
         \A h \in r.head : {h[1], h[2]} \cap {"new"} # {} => r.new
  PROVE  FireFacts(t, f, r)
<1> DEFINE n == run[t].node
           m == NUM_THREADS + created + 1
<1> USE DEF LifeInv
<1>1. linear[n] \in BagsOver(Fact) /\ live \subseteq Node /\ Initial \subseteq live /\ t \in Initial
      /\ created \in Nat
  <2>1. live \in SUBSET Node /\ Initial \subseteq live /\ created \in 0 .. MaxCreated
        /\ linear \in [Node -> BagsOver(Fact)]
    BY DEF LifeTypes
  <2>2. n \in Node /\ t \in Initial
    BY <2>1, Constants
  <2>3. created \in Nat
    BY <2>1, Constants
  <2> QED
    BY <2>1, <2>2, <2>3
<1>2. f \in Fact
  BY <1>1, BagCount
<1>3. f # None => f \in live
  <2> SUFFICES ASSUME f # None, f \notin live PROVE FALSE
    OBVIOUS
  <2>1. f \in Created
    BY <1>1, <1>2 DEF Fact, Node
  <2>2. References(f) > Dying(f) /\ Dying(f) \in Nat
    BY Matched
  <2>3. References(f) = Dying(f)
    BY <2>1 DEF Counted
  <2> QED
    BY <2>2, <2>3
<1>4. New(r) \subseteq Created /\ New(r) \cap live = {}
  <2>1. \A k \in live : k <= NUM_THREADS + created /\ k \in Nat
    BY Constants DEF LifeTypes
  <2> QED
    BY <1>1, <2>1, Constants DEF New
<1>5. ASSUME NEW h \in r.head
      PROVE  /\ Denotes(h[1], t, n, f, m) \subseteq live \cup New(r)
             /\ Denotes(h[2], t, n, f, m) \subseteq live \cup New(r) \cup {None}
  <2>1. /\ h[1] \in {"self", "arg", "new", "home", "away"}
        /\ h[2] \in {"none", "self", "arg", "new"}
    BY <1>5, LifeAssumption DEF Rule
  <2>2. /\ h[1] = "arg" \/ h[2] = "arg" => f \in live
        /\ h[1] = "new" \/ h[2] = "new" => New(r) = {m}
    BY <1>3, <1>5 DEF New
  <2>3. Denotes(h[1], t, n, f, m) \subseteq live \cup New(r)
    BY <1>1, <2>1, <2>2 DEF Denotes
  <2>4. Denotes(h[2], t, n, f, m) \subseteq live \cup New(r) \cup {None}
    BY <1>1, <2>1, <2>2 DEF Denotes
  <2> QED
    BY <2>3, <2>4
<1>6. ASSUME NEW d \in HeadsOf(t, f, r)
      PROVE  /\ d[1] \in live \cup New(r) /\ d[2] \in live \cup New(r) \cup {None}
             /\ d \in Node \X Fact
  <2>1. PICK h \in r.head : d \in Denotes(h[1], t, n, f, m) \X Denotes(h[2], t, n, f, m)
    BY <1>6 DEF HeadsOf, Derived
  <2>2. d[1] \in live \cup New(r) /\ d[2] \in live \cup New(r) \cup {None}
        /\ d = <<d[1], d[2]>>
    BY <1>5, <2>1
  <2>3. live \cup New(r) \subseteq Node
    BY <1>1, <1>4 DEF Node
  <2> QED
    BY <2>2, <2>3 DEF Fact
<1>7. IsFiniteSet(HeadsOf(t, f, r))
  <2>1. IsFiniteSet(Fact)
    BY Constants, FS_AddElement DEF Fact
  <2>2. IsFiniteSet(Node \X Fact)
    BY <2>1, Constants, FS_Product
  <2>3. HeadsOf(t, f, r) \subseteq Node \X Fact
    BY <1>6
  <2> QED
    BY <2>2, <2>3, FS_Subset
<1> QED
  BY <1>2, <1>3, <1>4, <1>6, <1>7 DEF FireFacts

\* The references to k among the derived facts.
To(k, heads) == {d \in heads : d[2] = k}

\* The next state of Fire, variable by variable.
FireChanges(t, f, r) ==
  LET n == run[t].node
      m == NUM_THREADS + created + 1
      heads == HeadsOf(t, f, r)
      own == {d \in heads : d[1] = n}
  IN
  /\ run[t].at = "rules" /\ n \in live /\ f \in BagToSet(linear[n])
  /\ created' = IF r.new THEN created + 1 ELSE created
  /\ live' = live \cup New(r)
  /\ owner' = IF r.new THEN [owner EXCEPT ![m] = t] ELSE owner
  /\ unprocessed_facts' = IF r.new THEN [unprocessed_facts EXCEPT ![m] = TRUE]
                          ELSE unprocessed_facts
  /\ linear' = IF r.new THEN [linear EXCEPT ![m] = SetToBag({None})] ELSE linear
  /\ refs' = [k \in Node |-> IF k \in Initial THEN refs[k]
                             ELSE refs[k] + Cardinality(To(k, heads)) - (IF k = f THEN 1 ELSE 0)]
  /\ run' = [run EXCEPT ![t].used = f,
                        ![t].generated = SetToBag({d[2] : d \in own}),
                        ![t].at = IF f # None /\ f \notin Initial /\ refs'[f] = 0
                                  THEN "test" ELSE "erase"]
  /\ facts_to_send' = [facts_to_send EXCEPT ![t] = @ (+) SetToBag(heads \ own)]
  /\ UNCHANGED <<store, active, queue, gc_nodes, deleter, misuse>>

\* Fire makes the changes FireChanges lists.
LEMMA FireIs ==
  ASSUME LifeInv, NEW t \in Thread, Fire(t)
  PROVE  \E f \in Fact, r \in Rules : FireFacts(t, f, r) /\ FireChanges(t, f, r)
<1> DEFINE n == run[t].node
           m == NUM_THREADS + created + 1
           heads(f, r) == Derived(r, t, n, f, m)
           own(f, r) == {d \in heads(f, r) : d[1] = n}
           dropped(f) == f # None /\ ~is_initial_node(f)
<1>1. PICK f \in BagToSet(linear[n]), r \in Rules :
          /\ r.new => m \in Created
          /\ \A h \in r.head : {h[1], h[2]} \cap {"arg"} # {} => f # None
          /\ \A h \in r.head : {h[1], h[2]} \cap {"new"} # {} => r.new
          /\ refs' = IF dropped(f) THEN [CountUp(heads(f, r)) EXCEPT ![f] = @ - 1]
                     ELSE CountUp(heads(f, r))
          /\ run' = [run EXCEPT ![t].used = f,
                                ![t].generated = SetToBag({d[2] : d \in own(f, r)}),
                                ![t].at = IF dropped(f) /\ refs'[f] = 0 THEN "test" ELSE "erase"]
          /\ facts_to_send' = [facts_to_send EXCEPT ![t] = @ (+) SetToBag(heads(f, r) \ own(f, r))]
          /\ IF r.new THEN create_node(t, m) /\ linear' = [linear EXCEPT ![m] = SetToBag({None})]
             ELSE UNCHANGED <<names, unprocessed_facts, linear>>
  BY DEF Fire
<1>2. run[t].at = "rules" /\ n \in live /\ UNCHANGED <<store, active, queue, gc_nodes, misuse>>
  BY DEF Fire, At
<1>3. FireFacts(t, f, r)
  BY <1>1, <1>2, FireGives
<1>4. f \in Fact
  BY <1>3 DEF FireFacts
<1>5. heads(f, r) = HeadsOf(t, f, r)
  BY DEF HeadsOf
<1>6. /\ created' = IF r.new THEN created + 1 ELSE created
      /\ live' = live \cup New(r)
      /\ owner' = IF r.new THEN [owner EXCEPT ![m] = t] ELSE owner
      /\ unprocessed_facts' = IF r.new THEN [unprocessed_facts EXCEPT ![m] = TRUE]
                              ELSE unprocessed_facts
      /\ linear' = IF r.new THEN [linear EXCEPT ![m] = SetToBag({None})] ELSE linear
      /\ deleter' = deleter
  <2> HIDE DEF heads, own, dropped
  <2>1. CASE r.new
    BY <1>1, <2>1 DEF create_node, New
  <2>2. CASE ~r.new
    BY <1>1, <2>2 DEF names, New
  <2> QED
    BY <2>1, <2>2
<1>7. refs' = [k \in Node |->
                 IF k \in Initial THEN refs[k]
                 ELSE refs[k] + Cardinality(To(k, heads(f, r))) - (IF k = f THEN 1 ELSE 0)]
  <2> DEFINE c == CountUp(heads(f, r))
             C(k) == Cardinality(To(k, heads(f, r)))
  <2>1. c = [k \in Node |-> IF k \in Initial THEN refs[k] ELSE refs[k] + C(k)]
    BY DEF CountUp, To, is_initial_node
  <2>2. refs' = IF dropped(f) THEN [c EXCEPT ![f] = @ - 1] ELSE c
    BY <1>1
  <2>3. dropped(f) <=> f \in Node /\ f \notin Initial
    BY <1>4, Constants DEF is_initial_node, Fact
  <2>4. \A k \in Node : C(k) \in Nat /\ refs[k] \in Int
    <3>1. \A k \in Node : To(k, heads(f, r)) \subseteq HeadsOf(t, f, r)
      BY <1>5 DEF To
    <3>2. IsFiniteSet(HeadsOf(t, f, r))
      BY <1>3 DEF FireFacts
    <3>3. \A k \in Node : IsFiniteSet(To(k, heads(f, r)))
      BY <3>1, <3>2, FS_Subset
    <3>4. refs \in [Node -> Int]
      BY DEF LifeInv, LifeTypes
    <3> QED
      BY <3>3, <3>4, FS_CardinalityType
  <2> HIDE DEF C, dropped, heads
  <2>5. refs' = [k \in Node |->
                   IF k \in Initial THEN refs[k] ELSE refs[k] + C(k) - (IF k = f THEN 1 ELSE 0)]
    BY <2>1, <2>2, <2>3, <2>4
  <2> QED
    BY <2>5 DEF C
<1>8. run' = [run EXCEPT ![t].used = f,
                         ![t].generated = SetToBag({d[2] : d \in own(f, r)}),
                         ![t].at = IF f # None /\ f \notin Initial /\ refs'[f] = 0
                                   THEN "test" ELSE "erase"]
  BY <1>1 DEF is_initial_node
<1>9. facts_to_send' = [facts_to_send EXCEPT ![t] = @ (+) SetToBag(heads(f, r) \ own(f, r))]
  BY <1>1
<1>10. FireChanges(t, f, r)
  BY <1>1, <1>2, <1>5, <1>6, <1>7, <1>8, <1>9 DEF FireChanges
<1> QED
  BY <1>3, <1>4, <1>10

\* A step of thread t.
Step(t) ==
  \/ GetNode(t) \/ Begin(t) \/ Fire(t) \/ Test(t) \/ Erase(t) \/ EndRule(t) \/ EndRules(t)
  \/ Send(t) \/ SyncDone(t) \/ Collect(t) \/ CollectDone(t) \/ Again(t) \/ Rest(t)
  \/ FollowDeleted(t) \/ Commit(t)

-----------------------------------------------------------------------------
(* Types. *)

\* The parts of what a thread is doing are changed one by one.
LEMMA RunMoves ==
  ASSUME LifeTypes, NEW t \in Thread
  PROVE  /\ \A a \in Ats : [run EXCEPT ![t].at = a] \in [Thread -> RunTypes]
         /\ \A a \in Ats, x \in Fact :
              [run EXCEPT ![t].at = a, ![t].used = x] \in [Thread -> RunTypes]
         /\ \A a \in Ats, B \in BagsOver(Fact) :
              [run EXCEPT ![t].at = a, ![t].generated = B] \in [Thread -> RunTypes]
         /\ \A a \in Ats, x \in Fact, B \in BagsOver(Fact) :
              [run EXCEPT ![t].used = x, ![t].generated = B, ![t].at = a] \in [Thread -> RunTypes]
         /\ {"rules", "test", "erase", "generated", "sync", "gc", "check", "begin", "committed"}
              \subseteq Ats
<1>1. run \in [Thread -> RunTypes]
  BY DEF LifeTypes
<1>2. run[t] \in RunTypes
  BY <1>1
<1> QED
  BY <1>1, <1>2 DEF RunTypes, Ats

\* A node that is not created yet is not alive.
LEMMA Unborn ==
  ASSUME LifeTypes, NEW k \in Created, k > NUM_THREADS + created
  PROVE  k \in Node /\ k \notin live /\ k \notin Initial /\ k # None
<1>1. NUM_THREADS + created \in Nat /\ k \in Nat /\ k \in Node
  BY Constants DEF LifeTypes, Node
<1>2. \A j \in live : j <= NUM_THREADS + created /\ j \in Nat
  BY Constants DEF LifeTypes
<1> QED
  BY <1>1, <1>2, Constants

\* Every step keeps the sorts of the variables.
LEMMA TypesStep ==
  ASSUME LifeInv, NEW t \in Thread, Step(t)
  PROVE  LifeTypes'
<1> USE DEF LifeInv
<1> DEFINE n == run[t].node
<1>0. Busy(t) => n \in Node
  BY DEF LifeTypes, Places
<1>e. EmptyBag \in BagsOver(Fact)
  <2>1. SetToBag({}) \in BagsOver(Fact)
    BY BagOfSet
  <2> QED
    BY <2>1 DEF EmptyBag
<1>1. CASE GetNode(t)
  <2>1. PICK k \in queue[t] :
          /\ queue' = [queue EXCEPT ![t] = @ \ {k}]
          /\ run' = [run EXCEPT ![t] = [Idle EXCEPT !.at = "begin", !.node = k]]
    BY <1>1 DEF GetNode
  <2>2. [Idle EXCEPT !.at = "begin", !.node = k]
          \in RunTypes
    BY <2>1, <1>e DEF Idle, Ats, Fact, LifeTypes, RunTypes
  <2>3. run' \in [Thread -> RunTypes]
    BY <2>1, <2>2 DEF LifeTypes
  <2>4. queue' \in [Thread -> SUBSET Node]
    BY <2>1 DEF LifeTypes
  <2> QED
    BY <1>1, <2>3, <2>4 DEF GetNode, LifeTypes, names
<1>2. CASE Begin(t)
  <2>1. n \in live /\ n \in Node
    BY <1>2 DEF Begin, LifeTypes
  <2>2. linear[n] (+) store[n] \in BagsOver(Fact)
    BY <2>1, BagPlus DEF LifeTypes
  <2>3. linear' \in [Node -> BagsOver(Fact)] /\ store' \in [Node -> BagsOver(Fact)]
    BY <1>2, <1>e, <2>1, <2>2 DEF Begin, LifeTypes
  <2>4. \A k \in Created : k > NUM_THREADS + created => linear'[k] = EmptyBag
    <3>1. \A k \in Created : k > NUM_THREADS + created => k # n /\ k \in Node
      BY <2>1, Unborn
    <3> QED
      BY <1>2, <3>1 DEF Begin, LifeTypes
  <2>5. run' \in [Thread -> RunTypes]
    BY <1>2, RunMoves DEF Begin, Goto
  <2>6. unprocessed_facts' \in [Node -> BOOLEAN]
    BY <1>2 DEF Begin, LifeTypes
  <2> QED
    BY <1>2, <2>3, <2>4, <2>5, <2>6 DEF Begin, LifeTypes, names
<1>3. CASE Fire(t)
  <2>1. PICK f \in Fact, r \in Rules : FireFacts(t, f, r) /\ FireChanges(t, f, r)
    BY <1>3, FireIs
  <2> DEFINE m == NUM_THREADS + created + 1
             heads == HeadsOf(t, f, r)
             own == {d \in heads : d[1] = n}
  <2>2. NUM_THREADS \in Nat /\ created \in Nat /\ m \in Nat /\ MaxCreated \in Nat
    BY Constants DEF LifeTypes
  <2>3. r.new => m \in Created /\ m \in Node /\ New(r) = {m} /\ created + 1 <= MaxCreated
    BY <2>1, <2>2, Constants DEF FireFacts, New, Node
  <2>4. created' \in 0 .. MaxCreated /\ created' \in Nat
    <3>1. created' = IF r.new THEN created + 1 ELSE created
      BY <2>1 DEF FireChanges
    <3>2. created <= MaxCreated
      BY <2>2 DEF LifeTypes
    <3> QED
      BY <2>2, <2>3, <3>1, <3>2
  <2>5. live' \in SUBSET Node /\ Initial \subseteq live'
    BY <2>1, <2>3 DEF FireChanges, LifeTypes, New
  <2>6. \A k \in live' : k <= NUM_THREADS + created'
    <3>1. \A k \in live : k <= NUM_THREADS + created /\ k \in Nat
      BY Constants DEF LifeTypes
    <3>2. r \in Rules /\ (live' = live \cup New(r))
          /\ created' = IF r.new THEN created + 1 ELSE created
      BY <2>1 DEF FireChanges
    <3> QED
      BY <2>2, <3>1, <3>2 DEF New
  <2>7. refs' \in [Node -> Int] /\ \A k \in Initial : refs'[k] = 1
    <3>1. \A k \in Node : Cardinality(To(k, heads)) \in Nat
      <4>1. \A k \in Node : To(k, heads) \subseteq heads
        BY DEF To
      <4>2. IsFiniteSet(heads)
        BY <2>1 DEF FireFacts
      <4>3. \A k \in Node : IsFiniteSet(To(k, heads))
        BY <4>1, <4>2, FS_Subset
      <4> QED
        BY <4>3, FS_CardinalityType
    <3>2. refs' = [k \in Node |-> IF k \in Initial THEN refs[k]
                                  ELSE refs[k] + Cardinality(To(k, heads)) - (IF k = f THEN 1 ELSE 0)]
      BY <2>1 DEF FireChanges
    <3> HIDE DEF heads
    <3>3. refs \in [Node -> Int] /\ \A k \in Initial : refs[k] = 1
      BY DEF LifeTypes
    <3>4. Initial \subseteq Node
      BY DEF Node
    <3> QED
      BY <3>1, <3>2, <3>3, <3>4
  <2>8. linear' \in [Node -> BagsOver(Fact)] /\ store' = store
    <3>1. SetToBag({None}) \in BagsOver(Fact)
      BY BagOfSet DEF Fact
    <3>2. linear' = IF r.new THEN [linear EXCEPT ![m] = SetToBag({None})] ELSE linear
      BY <2>1 DEF FireChanges
    <3> QED
      BY <2>1, <3>1, <3>2 DEF LifeTypes, FireChanges
  <2>9. \A k \in Created : k > NUM_THREADS + created' => refs'[k] = 0 /\ linear'[k] = EmptyBag
    <3> SUFFICES ASSUME NEW k \in Created, k > NUM_THREADS + created'
                 PROVE  refs'[k] = 0 /\ linear'[k] = EmptyBag
      OBVIOUS
    <3>1. k \in Nat /\ k > NUM_THREADS + created /\ (r.new => k # m) /\ k \in Node /\ k \notin Initial
      <4>1. created' = IF r.new THEN created + 1 ELSE created
        BY <2>1 DEF FireChanges
      <4> QED
        BY <2>2, <4>1, Constants DEF Node
    <3>2. k \notin live /\ k \notin New(r) /\ k # None
      BY <2>2, <3>1, Constants DEF LifeTypes, New
    <3>3. To(k, heads) = {} /\ k # f
      BY <2>1, <3>2 DEF To, FireFacts
    <3>4. Cardinality(To(k, heads)) = 0
      BY <3>3, FS_EmptySet
    <3>5. refs[k] = 0 /\ linear[k] = EmptyBag
      BY <3>1 DEF LifeTypes
    <3>6. refs'[k] = refs[k] + Cardinality(To(k, heads)) - (IF k = f THEN 1 ELSE 0)
      BY <2>1, <3>1 DEF FireChanges
    <3>7. linear'[k] = linear[k]
      BY <2>1, <3>1 DEF FireChanges, LifeTypes
    <3>8. refs'[k] = 0 + 0 - 0
      BY <3>3, <3>4, <3>5, <3>6
    <3> QED
      BY <3>5, <3>7, <3>8
  <2>10. owner' \in [Node -> Thread \cup {None}] /\ \A k \in live' : owner'[k] \in Thread
    <3>1. owner' = (IF r.new THEN [owner EXCEPT ![m] = t] ELSE owner) /\ live' = live \cup New(r)
      BY <2>1 DEF FireChanges
    <3> QED
      BY <2>3, <3>1 DEF LifeTypes, New
  <2>11. unprocessed_facts' \in [Node -> BOOLEAN]
    BY <2>1, <2>3 DEF FireChanges, LifeTypes
  <2>12. run' \in [Thread -> RunTypes]
    <3>1. {d[2] : d \in own} \subseteq Fact
      BY <2>1 DEF FireFacts
    <3>2. SetToBag({d[2] : d \in own}) \in BagsOver(Fact)
      BY <3>1, BagOfSet
    <3>3. run' = [run EXCEPT ![t].used = f, ![t].generated = SetToBag({d[2] : d \in own}),
                             ![t].at = IF f # None /\ f \notin Initial /\ refs'[f] = 0
                                       THEN "test" ELSE "erase"]
      BY <2>1 DEF FireChanges
    <3> HIDE DEF own
    <3> QED
      BY <3>2, <3>3, RunMoves
  <2>13. facts_to_send' \in [Thread -> BagsOver(Node \X Fact)]
    <3>1. heads \ own \subseteq Node \X Fact
      BY <2>1 DEF FireFacts
    <3>2. SetToBag(heads \ own) \in BagsOver(Node \X Fact)
      BY <3>1, BagOfSet
    <3>3. facts_to_send[t] (+) SetToBag(heads \ own) \in BagsOver(Node \X Fact)
      BY <3>2, BagPlus DEF LifeTypes
    <3>4. facts_to_send' = [facts_to_send EXCEPT ![t] = @ (+) SetToBag(heads \ own)]
      BY <2>1 DEF FireChanges
    <3> HIDE DEF heads, own
    <3> QED
      BY <3>3, <3>4 DEF LifeTypes
  <2>14. /\ active' \in SUBSET Node /\ queue' \in [Thread -> SUBSET Node]
         /\ gc_nodes' \in [Thread -> SUBSET Node] /\ deleter' \in [Node -> Thread \cup {None}]
    BY <2>1 DEF FireChanges, LifeTypes
  <2> QED
    BY <2>4, <2>5, <2>6, <2>7, <2>8, <2>9, <2>10, <2>11, <2>12, <2>13, <2>14 DEF LifeTypes
<1>4. CASE Test(t)
  <2>1. gc_nodes' \in [Thread -> SUBSET Node]
    BY <1>4 DEF Test, LifeTypes
  <2>2. run' \in [Thread -> RunTypes]
    BY <1>4, RunMoves DEF Test, Goto
  <2> QED
    BY <1>4, <2>1, <2>2 DEF Test, LifeTypes, names, facts
<1>5. CASE Erase(t)
  <2>1. n \in live /\ n \in Node /\ run[t].at = "erase"
    BY <1>5 DEF Erase, LifeTypes, At
  <2>2. linear[n] (-) SetToBag({run[t].used}) \in BagsOver(Fact)
    <3>1. run[t].used \in BagToSet(linear[n]) /\ linear[n] \in BagsOver(Fact)
      BY <2>1 DEF RunShape, LifeTypes
    <3> QED
      BY <3>1, BagTake
  <2>3. linear' \in [Node -> BagsOver(Fact)]
    BY <1>5, <2>1, <2>2 DEF Erase, LifeTypes
  <2>4. \A k \in Created : k > NUM_THREADS + created => linear'[k] = EmptyBag
    <3>1. \A k \in Created : k > NUM_THREADS + created => k # n /\ k \in Node
      BY <2>1, Unborn
    <3> QED
      BY <1>5, <3>1 DEF Erase, LifeTypes
  <2>5. run' \in [Thread -> RunTypes]
    BY <1>5, RunMoves DEF Erase, Fact
  <2> QED
    BY <1>5, <2>3, <2>4, <2>5 DEF Erase, LifeTypes, names
<1>6. CASE EndRule(t)
  <2>1. n \in live /\ n \in Node
    BY <1>6 DEF EndRule, LifeTypes, At
  <2>2. linear[n] (+) run[t].generated \in BagsOver(Fact)
    <3>1. linear[n] \in BagsOver(Fact) /\ run[t].generated \in BagsOver(Fact)
      BY <2>1 DEF LifeTypes, RunTypes
    <3> QED
      BY <3>1, BagPlus
  <2>3. linear' \in [Node -> BagsOver(Fact)]
    BY <1>6, <2>1, <2>2 DEF EndRule, LifeTypes
  <2>4. \A k \in Created : k > NUM_THREADS + created => linear'[k] = EmptyBag
    <3>1. \A k \in Created : k > NUM_THREADS + created => k # n /\ k \in Node
      BY <2>1, Unborn
    <3> QED
      BY <1>6, <3>1 DEF EndRule, LifeTypes
  <2>5. run' \in [Thread -> RunTypes]
    BY <1>6, <1>e, RunMoves DEF EndRule
  <2> QED
    BY <1>6, <2>3, <2>4, <2>5 DEF EndRule, LifeTypes, names
<1>7. CASE EndRules(t)
  <2>1. run' \in [Thread -> RunTypes]
    BY <1>7, RunMoves DEF EndRules, Goto
  <2> QED
    BY <1>7, <2>1 DEF EndRules, LifeTypes, names
<1>8. CASE Send(t)
  <2> DEFINE F == facts_to_send[t]
             direct(k) == owner[k] = t \/ k \notin database_lock
  <2>1. PICK k : /\ k \in live
                 /\ linear' = IF direct(k) THEN [linear EXCEPT ![k] = @ (+) FactsFor(F, k)] ELSE linear
                 /\ store' = IF direct(k) THEN store ELSE [store EXCEPT ![k] = @ (+) FactsFor(F, k)]
                 /\ unprocessed_facts' = [unprocessed_facts EXCEPT ![k] = TRUE]
                 /\ active' = active \cup {k}
                 /\ queue' = IF k \in active THEN queue
                             ELSE [queue EXCEPT ![owner[k]] = @ \cup {k}]
                 /\ facts_to_send' = [facts_to_send EXCEPT ![t] = @ (-) SentTo(F, k)]
    BY <1>8 DEF Send, SentTo, FactsFor
  <2>2. k \in Node /\ F \in BagsOver(Node \X Fact)
    BY <2>1 DEF LifeTypes
  <2>3. FactsFor(F, k) \in BagsOver(Fact) /\ F (-) SentTo(F, k) \in BagsOver(Node \X Fact)
    BY <2>2, BagSent
  <2> HIDE DEF direct
  <2>4. linear[k] (+) FactsFor(F, k) \in BagsOver(Fact) /\ store[k] (+) FactsFor(F, k) \in BagsOver(Fact)
    BY <2>2, <2>3, BagPlus DEF LifeTypes
  <2>5. linear' \in [Node -> BagsOver(Fact)] /\ store' \in [Node -> BagsOver(Fact)]
    BY <2>1, <2>2, <2>4 DEF LifeTypes
  <2>6. \A j \in Created : j > NUM_THREADS + created => linear'[j] = EmptyBag
    <3>1. \A j \in Created : j > NUM_THREADS + created => k # j /\ j \in Node
      BY <2>1, Unborn
    <3> QED
      BY <2>1, <3>1 DEF LifeTypes
  <2>7. facts_to_send' \in [Thread -> BagsOver(Node \X Fact)]
    BY <2>1, <2>3 DEF LifeTypes
  <2>8. unprocessed_facts' \in [Node -> BOOLEAN] /\ active' \in SUBSET Node
        /\ queue' \in [Thread -> SUBSET Node]
    BY <2>1, <2>2 DEF LifeTypes
  <2> QED
    BY <1>8, <2>5, <2>6, <2>7, <2>8 DEF Send, LifeTypes, names
<1>9. CASE SyncDone(t) \/ CollectDone(t) \/ Again(t)
  <2>1. run' \in [Thread -> RunTypes]
    <3>1. PICK a \in Ats : run' = [run EXCEPT ![t].at = a]
      BY <1>9 DEF SyncDone, CollectDone, Again, Goto, Ats
    <3>2. [run EXCEPT ![t].at = a] \in [Thread -> RunTypes]
      BY RunMoves
    <3> QED
      BY <3>1, <3>2
  <2> QED
    BY <1>9, <2>1 DEF SyncDone, CollectDone, Again, LifeTypes, names, facts
<1>10. ASSUME NEW k \in Node, delete_node(t, k), garbage_collect(k)
       PROVE  /\ live' = live \ {k} /\ live' \in SUBSET Node /\ Initial \subseteq live'
              /\ UNCHANGED <<created, owner>>
              /\ deleter' \in [Node -> Thread \cup {None}]
  <2>1. k \notin Initial
    BY <1>10 DEF garbage_collect, LifeTypes
  <2> QED
    BY <1>10, <2>1 DEF delete_node, LifeTypes
<1>11. CASE Collect(t)
  <2>1. PICK k \in gc_nodes[t] :
          /\ IF garbage_collect(k) THEN delete_node(t, k) ELSE UNCHANGED names
          /\ gc_nodes' = [gc_nodes EXCEPT ![t] = @ \ {k}]
    BY <1>11 DEF Collect
  <2>2. gc_nodes' \in [Thread -> SUBSET Node] /\ k \in Node
    BY <2>1 DEF LifeTypes
  <2>3. UNCHANGED <<linear, store, unprocessed_facts, active, queue, refs, run, facts_to_send>>
    BY <1>11 DEF Collect, facts
  <2>4. CASE garbage_collect(k)
    BY <1>10, <2>1, <2>2, <2>3, <2>4 DEF LifeTypes
  <2>5. CASE ~garbage_collect(k)
    <3>1. UNCHANGED <<created, live, owner, deleter>>
      BY <2>1, <2>5 DEF names
    <3> QED
      BY <2>2, <2>3, <3>1 DEF LifeTypes
  <2> QED
    BY <2>4, <2>5
<1>12. CASE Rest(t)
  <2>1. n \in Node /\ n \in live
    BY <1>12 DEF Rest, LifeTypes
  <2>2. Idle \in RunTypes
    BY <1>e DEF Idle, Ats, Fact, RunTypes
  <2>3. run' \in [Thread -> RunTypes]
        /\ active' \in SUBSET Node
    BY <1>12, <2>2 DEF Rest, LifeTypes
  <2>4. CASE garbage_collect(n)
    BY <1>10, <1>12, <2>1, <2>3, <2>4 DEF Rest, LifeTypes
  <2>5. CASE ~garbage_collect(n)
    BY <1>12, <2>3, <2>5 DEF Rest, LifeTypes, names
  <2> QED
    BY <2>4, <2>5
<1>13. CASE FollowDeleted(t)
  BY <1>13 DEF FollowDeleted, Misuse, LifeTypes, facts, names
<1>14. CASE Commit(t)
  <2>1. run' \in [Thread -> RunTypes]
    BY <1>14, RunMoves DEF Commit, Goto
  <2> QED
    BY <1>14, <2>1 DEF Commit, LifeTypes, facts
<1> QED
  BY <1>1, <1>2, <1>3, <1>4, <1>5, <1>6, <1>7, <1>8, <1>9, <1>11, <1>12, <1>13, <1>14 DEF Step

-----------------------------------------------------------------------------
(* Places. *)

\* Thread t goes on at a, with the same node.
Moved(t, a) ==
  \A u \in Thread : /\ run'[u].at = IF u = t THEN a ELSE run[u].at
                    /\ run'[u].node = run[u].node
                    /\ u # t => run'[u] = run[u]
\* ... and with the same fact and derived facts.
Keeps(t) == run'[t].used = run[t].used /\ run'[t].generated = run[t].generated

\* Goto changes the point of the run only.
LEMMA GotoMoves ==
  ASSUME LifeTypes, NEW t \in Thread, NEW a, Goto(t, a)
  PROVE  Moved(t, a) /\ Keeps(t)
<1>1. run \in [Thread -> RunTypes] /\ run[t] \in RunTypes
  BY DEF LifeTypes
<1> QED
  BY <1>1 DEF Goto, Moved, Keeps, RunTypes

\* Where Fire and Erase leave the thread.
LEMMA RuleMoves ==
  ASSUME LifeTypes, NEW t \in Thread
  PROVE  /\ \A f, r : FireChanges(t, f, r) =>
              /\ run'[t].used = f
              /\ run'[t].generated =
                   SetToBag({d[2] : d \in {d \in HeadsOf(t, f, r) : d[1] = run[t].node}})
              /\ IF f # None /\ f \notin Initial /\ refs'[f] = 0
                 THEN Moved(t, "test") ELSE Moved(t, "erase")
         /\ Erase(t) => Moved(t, "generated") /\ run'[t].generated = run[t].generated
         /\ EndRule(t) => Moved(t, "rules") /\ run'[t].generated = EmptyBag
<1>1. run \in [Thread -> RunTypes] /\ run[t] \in RunTypes
  BY DEF LifeTypes
<1>2. Erase(t) => Moved(t, "generated") /\ run'[t].generated = run[t].generated
  BY <1>1 DEF Erase, Moved, RunTypes
<1>3. EndRule(t) => Moved(t, "rules") /\ run'[t].generated = EmptyBag
  BY <1>1 DEF EndRule, Moved, RunTypes
<1>4. ASSUME NEW f, NEW r, FireChanges(t, f, r)
      PROVE  /\ run'[t].used = f
             /\ run'[t].generated =
                  SetToBag({d[2] : d \in {d \in HeadsOf(t, f, r) : d[1] = run[t].node}})
             /\ IF f # None /\ f \notin Initial /\ refs'[f] = 0
                THEN Moved(t, "test") ELSE Moved(t, "erase")
  <2> DEFINE B == SetToBag({d[2] : d \in {d \in HeadsOf(t, f, r) : d[1] = run[t].node}})
             a == IF f # None /\ f \notin Initial /\ refs'[f] = 0 THEN "test" ELSE "erase"
  <2>1. run' = [run EXCEPT ![t].used = f, ![t].generated = B, ![t].at = a]
    BY <1>4 DEF FireChanges
  <2> HIDE DEF B, a
  <2>2. Moved(t, a) /\ run'[t].used = f /\ run'[t].generated = B
    BY <1>1, <2>1 DEF Moved, RunTypes
  <2> QED
    BY <2>2 DEF B, a
<1> QED
  BY <1>2, <1>3, <1>4

\* Every step keeps a node in one place.
LEMMA PlacesStep ==
  ASSUME LifeInv, NEW t \in Thread, Step(t)
  PROVE  Places'
<1> USE DEF LifeInv
<1> DEFINE n == run[t].node
<1>1. CASE GetNode(t)
  <2>1. PICK k \in queue[t] :
          /\ queue' = [queue EXCEPT ![t] = @ \ {k}]
          /\ run' = [run EXCEPT ![t] = [Idle EXCEPT !.at = "begin", !.node = k]]
    BY <1>1 DEF GetNode
  <2>2. run'[t].at = "begin" /\ run'[t].node = k /\ \A u \in Thread : u # t => run'[u] = run[u]
    BY <2>1 DEF Idle, LifeTypes
  <2>3. UNCHANGED <<active, live, unprocessed_facts>>
    BY <1>1 DEF GetNode, names
  <2>4. \A u \in Thread : queue'[u] = IF u = t THEN queue[t] \ {k} ELSE queue[u]
    BY <2>1 DEF LifeTypes
  <2> QED
    BY <2>1, <2>2, <2>3, <2>4 DEF Places, Busy
<1>2. CASE Begin(t)
  <2>1. Moved(t, "rules") /\ run[t].at = "begin" /\ n \in live /\ n \in Node
    BY <1>2, GotoMoves DEF Begin, At, LifeTypes
  <2>2. UNCHANGED <<active, live, queue>>
        /\ unprocessed_facts' = [unprocessed_facts EXCEPT ![n] = FALSE]
    BY <1>2 DEF Begin, names
  <2>3. \A k \in Node : k # n => unprocessed_facts'[k] = unprocessed_facts[k]
    BY <2>2 DEF LifeTypes
  <2>4. \A u \in Thread : n \notin queue[u] /\ queue[u] \subseteq Node
    BY <2>1 DEF Places, Busy, LifeTypes
  <2>5. \A u \in Thread : Busy(u) => run[u].node \in Node
    BY DEF Places, LifeTypes
  <2> QED
    BY <2>1, <2>2, <2>3, <2>4, <2>5 DEF Places, Busy, Moved
<1>3. CASE Fire(t)
  <2>1. PICK f \in Fact, r \in Rules : FireFacts(t, f, r) /\ FireChanges(t, f, r)
    BY <1>3, FireIs
  <2>2. (Moved(t, "test") \/ Moved(t, "erase")) /\ run[t].at = "rules"
    <3>1. run[t].at = "rules"
      BY <2>1 DEF FireChanges
    <3> QED
      BY <2>1, <3>1, RuleMoves
  <2>3. UNCHANGED <<active, queue>> /\ live \subseteq live'
        /\ \A k \in Node : unprocessed_facts[k] => unprocessed_facts'[k]
    BY <2>1 DEF FireChanges, LifeTypes
  <2>4. \A u \in Thread : queue[u] \subseteq Node
    BY DEF LifeTypes
  <2>5. \A u \in Thread : Busy(u) => run[u].node \in Node
    BY DEF Places, LifeTypes
  <2> QED
    BY <2>2, <2>3, <2>4, <2>5 DEF Places, Busy, Moved
<1>4. CASE Test(t) \/ EndRules(t) \/ SyncDone(t) \/ CollectDone(t)
  <2>1. \E a \in {"erase", "sync", "gc", "check"} : Moved(t, a)
    BY <1>4, GotoMoves DEF Test, EndRules, SyncDone, CollectDone
  <2>2. Busy(t) /\ UNCHANGED <<active, queue, live, unprocessed_facts>>
    BY <1>4 DEF Test, EndRules, SyncDone, CollectDone, At, Busy, names, facts
  <2> QED
    BY <2>1, <2>2 DEF Places, Busy, Moved
<1>5. CASE Erase(t) \/ EndRule(t)
  <2>1. \E a \in {"generated", "rules"} : Moved(t, a)
    BY <1>5, RuleMoves
  <2>2. Busy(t) /\ UNCHANGED <<active, queue, live, unprocessed_facts>>
    BY <1>5 DEF Erase, EndRule, At, Busy, names
  <2> QED
    BY <2>1, <2>2 DEF Places, Busy, Moved
<1>6. CASE Send(t)
  <2>1. PICK k : /\ k \in live
                 /\ unprocessed_facts' = [unprocessed_facts EXCEPT ![k] = TRUE]
                 /\ active' = active \cup {k}
                 /\ queue' = IF k \in active THEN queue
                             ELSE [queue EXCEPT ![owner[k]] = @ \cup {k}]
    BY <1>6 DEF Send
  <2>2. k \in Node /\ UNCHANGED <<run, live>> /\ owner[k] \in Thread
    BY <1>6, <2>1 DEF Send, LifeTypes, names
  <2>3. \A j \in Node : unprocessed_facts[j] => unprocessed_facts'[j]
    BY <2>1 DEF LifeTypes
  <2>4. unprocessed_facts'[k]
    BY <2>1, <2>2 DEF LifeTypes
  <2>5. \A u \in Thread : queue[u] \subseteq Node
    BY DEF LifeTypes
  <2>6. \A u \in Thread : Busy(u) => run[u].node \in Node
    BY DEF Places, LifeTypes
  <2>7. CASE k \in active
    BY <2>1, <2>2, <2>3, <2>5, <2>6, <2>7 DEF Places, Busy
  <2>8. CASE k \notin active
    <3>1. \A u \in Thread : queue'[u] = IF u = owner[k] THEN queue[u] \cup {k} ELSE queue[u]
      BY <2>1, <2>2, <2>8 DEF LifeTypes
    <3>2. \A u \in Thread : k \notin queue[u] /\ (Busy(u) => run[u].node # k)
      BY <2>8 DEF Places
    <3> QED
      BY <2>1, <2>2, <2>3, <2>4, <2>5, <2>6, <3>1, <3>2 DEF Places, Busy
  <2> QED
    BY <2>7, <2>8
<1>7. CASE Collect(t)
  <2>1. PICK k \in gc_nodes[t] :
          IF garbage_collect(k) THEN delete_node(t, k) ELSE UNCHANGED names
    BY <1>7 DEF Collect
  <2>2. UNCHANGED <<active, queue, unprocessed_facts, run>>
    BY <1>7 DEF Collect, facts
  <2>3. live' = live \/ (live' = live \ {k} /\ ~unprocessed_facts[k])
    BY <2>1 DEF delete_node, garbage_collect, names
  <2> QED
    BY <2>2, <2>3 DEF Places, Busy
<1>8. CASE Again(t)
  <2>1. Moved(t, "begin") /\ run[t].at = "check" /\ n \in live /\ unprocessed_facts[n]
    BY <1>8, GotoMoves DEF Again, At
  <2>2. UNCHANGED <<active, queue, live, unprocessed_facts>>
    BY <1>8 DEF Again, names, facts
  <2> QED
    BY <2>1, <2>2 DEF Places, Busy, Moved
<1>9. CASE Rest(t)
  <2>1. run'[t].at = "idle" /\ \A u \in Thread : u # t => run'[u] = run[u]
    BY <1>9 DEF Rest, Idle, LifeTypes
  <2>2. /\ UNCHANGED <<queue, unprocessed_facts>> /\ active' = active \ {n}
        /\ run[t].at = "check" /\ ~unprocessed_facts[n]
        /\ live' = live \/ live' = live \ {n}
    BY <1>9 DEF Rest, At, delete_node, names
  <2> QED
    BY <2>1, <2>2 DEF Places, Busy
<1>10. CASE FollowDeleted(t)
  <2>1. UNCHANGED <<run, active, queue, live, unprocessed_facts>>
    BY <1>10 DEF FollowDeleted, Misuse, facts, names
  <2> QED
    BY <2>1 DEF Places, Busy
<1>11. CASE Commit(t)
  <2>1. Moved(t, "committed") /\ UNCHANGED <<active, queue, live, unprocessed_facts>>
        /\ run[t].at = "idle"
    BY <1>11, GotoMoves DEF Commit, At, facts
  <2> QED
    BY <2>1 DEF Places, Busy, Moved
<1> QED
  BY <1>1, <1>2, <1>3, <1>4, <1>5, <1>6, <1>7, <1>8, <1>9, <1>10, <1>11 DEF Step

-----------------------------------------------------------------------------
(* What a thread holds at each point of a run. *)

\* Every step leaves a thread with what it may hold at its next point.
LEMMA ShapeStep ==
  ASSUME LifeInv, NEW t \in Thread, Step(t)
  PROVE  RunShape'
<1> USE DEF LifeInv
<1> DEFINE n == run[t].node
<1>0. \A u \in Thread : Busy(u) => run[u].node \in Node
  BY DEF Places, LifeTypes
<1>a. \A u \in Thread : Busy(u) /\ Busy(t) /\ u # t => run[u].node # n
  BY DEF Places
<1>1. CASE GetNode(t)
  <2>1. PICK k \in queue[t] :
          run' = [run EXCEPT ![t] = [Idle EXCEPT !.at = "begin", !.node = k]]
    BY <1>1 DEF GetNode
  <2>2. /\ run'[t].at = "begin" /\ run'[t].node = k /\ run'[t].generated = EmptyBag
        /\ \A u \in Thread : u # t => run'[u] = run[u]
    BY <2>1 DEF Idle, LifeTypes
  <2>3. UNCHANGED <<linear, facts_to_send, gc_nodes>> /\ run[t].at = "idle"
    BY <1>1 DEF GetNode, At
  <2> QED
    BY <2>2, <2>3 DEF RunShape, Busy
<1>2. CASE Begin(t)
  <2>1. Moved(t, "rules") /\ Keeps(t) /\ run[t].at = "begin" /\ n \in live /\ n \in Node
    BY <1>2, GotoMoves DEF Begin, At, LifeTypes
  <2>2. UNCHANGED <<facts_to_send, gc_nodes>> /\ \A k \in Node : k # n => linear'[k] = linear[k]
    BY <1>2 DEF Begin, LifeTypes
  <2>3. \A u \in Thread : u # t /\ Busy(u) => linear'[run[u].node] = linear[run[u].node]
    BY <1>0, <1>a, <2>1, <2>2 DEF Busy
  <2> QED
    BY <2>1, <2>2, <2>3 DEF RunShape, Busy, Moved, Keeps
<1>3. CASE Fire(t)
  <2>1. PICK f \in Fact, r \in Rules : FireFacts(t, f, r) /\ FireChanges(t, f, r)
    BY <1>3, FireIs
  <2>2. run[t].at = "rules" /\ n \in live /\ n \in Node /\ f \in BagToSet(linear[n])
        /\ gc_nodes' = gc_nodes
    BY <2>1 DEF FireChanges, LifeTypes
  <2>3. (Moved(t, "test") \/ Moved(t, "erase")) /\ run'[t].used = f
    BY <2>1, RuleMoves
  <2>4. \A u \in Thread : u # t => facts_to_send'[u] = facts_to_send[u]
    BY <2>1 DEF FireChanges, LifeTypes
  <2>5. ASSUME NEW k \in Node, NEW x \in BagToSet(linear[k]) PROVE x \in BagToSet(linear'[k])
    <3>1. linear[k] \in BagsOver(Fact)
      BY DEF LifeTypes
    <3>2. linear[k] # EmptyBag
      BY <2>5, <3>1, BagCount
    <3>3. r.new => k # NUM_THREADS + created + 1
      <4> SUFFICES ASSUME r.new, k = NUM_THREADS + created + 1 PROVE FALSE
        OBVIOUS
      <4>1. k \in Created
        BY <2>1 DEF FireFacts, New
      <4>2. k > NUM_THREADS + created
        BY Constants DEF LifeTypes
      <4> QED
        BY <3>2, <4>1, <4>2 DEF LifeTypes
    <3>4. linear'[k] = linear[k]
      BY <2>1, <3>3 DEF FireChanges, LifeTypes
    <3> QED
      BY <2>5, <3>4
  <2>6. \A u \in Thread : Busy(u) => run[u].node \in Node
    BY <1>0
  <2> QED
    BY <2>2, <2>3, <2>4, <2>5, <2>6 DEF RunShape, Busy, Moved
<1>4. CASE Test(t)
  <2>1. Moved(t, "erase") /\ Keeps(t) /\ run[t].at = "test"
    BY <1>4, GotoMoves DEF Test, At
  <2>2. UNCHANGED <<linear, facts_to_send>>
    BY <1>4 DEF Test, facts
  <2>3. n \in Node /\ linear[n] # EmptyBag
    <3>1. n \in Node
      BY <1>0, <2>1 DEF Busy
    <3>2. linear[n] \in BagsOver(Fact) /\ run[t].used \in BagToSet(linear[n])
      BY <2>1, <3>1 DEF RunShape, LifeTypes
    <3> QED
      BY <3>1, <3>2, BagCount
  <2>4. /\ \A u \in Thread : u # t => gc_nodes'[u] = gc_nodes[u]
        /\ gc_nodes'[t] = gc_nodes[t]
           \/ (garbage_collect(run[t].used) /\ gc_nodes'[t] = gc_nodes[t] \cup {run[t].used})
    BY <1>4 DEF Test, LifeTypes
  <2>5. n \notin gc_nodes'[t]
    BY <2>1, <2>3, <2>4 DEF garbage_collect, RunShape, Busy
  <2> QED
    BY <2>1, <2>2, <2>4, <2>5 DEF RunShape, Busy, Moved, Keeps
<1>5. CASE Erase(t) \/ EndRule(t)
  <2>1. /\ Erase(t) => Moved(t, "generated") /\ run[t].at = "erase"
        /\ EndRule(t) => Moved(t, "rules") /\ run'[t].generated = EmptyBag /\ run[t].at = "generated"
    BY RuleMoves DEF Erase, EndRule, At
  <2>2. UNCHANGED <<facts_to_send, gc_nodes>> /\ \A k \in Node : k # n => linear'[k] = linear[k]
    BY <1>5 DEF Erase, EndRule, LifeTypes
  <2>3. \A u \in Thread : u # t /\ Busy(u) => linear'[run[u].node] = linear[run[u].node]
    BY <1>0, <1>5, <1>a, <2>1, <2>2 DEF Busy
  <2> QED
    BY <1>5, <2>1, <2>2, <2>3 DEF RunShape, Busy, Moved
<1>6. CASE EndRules(t)
  <2>1. Moved(t, "sync") /\ Keeps(t) /\ run[t].at = "rules"
        /\ UNCHANGED <<linear, facts_to_send, gc_nodes>>
    BY <1>6, GotoMoves DEF EndRules, At
  <2> QED
    BY <2>1 DEF RunShape, Busy, Moved, Keeps
<1>7. CASE Send(t)
  <2> DEFINE direct(k) == owner[k] = t \/ k \notin database_lock
             F == facts_to_send[t]
  <2>1. PICK k : /\ k \in live
                 /\ linear' = IF direct(k) THEN [linear EXCEPT ![k] = @ (+) FactsFor(F, k)] ELSE linear
                 /\ facts_to_send' = [facts_to_send EXCEPT ![t] = @ (-) SentTo(F, k)]
    BY <1>7 DEF Send, SentTo, FactsFor
  <2>2. run' = run /\ gc_nodes' = gc_nodes /\ run[t].at = "sync"
    BY <1>7 DEF Send, At
  <2>3. \A u \in Thread : u # t => facts_to_send'[u] = facts_to_send[u]
    BY <2>1 DEF LifeTypes
  <2>4. k \in Node /\ FactsFor(F, k) \in BagsOver(Fact)
    <3>1. k \in Node /\ F \in BagsOver(Node \X Fact)
      BY <2>1 DEF LifeTypes
    <3> QED
      BY <3>1, BagSent
  <2>5. ASSUME NEW j \in Node, NEW x \in BagToSet(linear[j]) PROVE x \in BagToSet(linear'[j])
    <3> HIDE DEF direct
    <3>1. linear'[j] = linear[j] \/ linear'[j] = linear[j] (+) FactsFor(F, k)
      BY <2>1 DEF LifeTypes
    <3>2. linear[j] \in BagsOver(Fact)
      BY DEF LifeTypes
    <3>3. BagToSet(linear[j] (+) FactsFor(F, k)) = BagToSet(linear[j]) \cup BagToSet(FactsFor(F, k))
      BY <2>4, <3>2, BagPlus
    <3> QED
      BY <2>5, <3>1, <3>3
  <2> QED
    BY <1>0, <2>2, <2>3, <2>5 DEF RunShape, Busy
<1>8. CASE SyncDone(t)
  <2>1. Moved(t, "gc") /\ Keeps(t) /\ run[t].at = "sync" /\ facts_to_send[t] = EmptyBag
    BY <1>8, GotoMoves DEF SyncDone, At
  <2>2. UNCHANGED <<linear, facts_to_send, gc_nodes>>
    BY <1>8 DEF SyncDone, facts
  <2> QED
    BY <2>1, <2>2 DEF RunShape, Busy, Moved, Keeps
<1>9. CASE Collect(t)
  <2>1. PICK k \in gc_nodes[t] : gc_nodes' = [gc_nodes EXCEPT ![t] = @ \ {k}]
    BY <1>9 DEF Collect
  <2>2. UNCHANGED <<run, linear, facts_to_send>>
    BY <1>9 DEF Collect, facts
  <2>3. \A u \in Thread : gc_nodes'[u] \subseteq gc_nodes[u]
    BY <2>1 DEF LifeTypes
  <2> QED
    BY <2>2, <2>3 DEF RunShape, Busy
<1>10. CASE CollectDone(t)
  <2>1. Moved(t, "check") /\ Keeps(t) /\ run[t].at = "gc" /\ gc_nodes[t] = {}
    BY <1>10, GotoMoves DEF CollectDone, At
  <2>2. UNCHANGED <<linear, facts_to_send, gc_nodes>>
    BY <1>10 DEF CollectDone, facts
  <2> QED
    BY <2>1, <2>2 DEF RunShape, Busy, Moved, Keeps
<1>11. CASE Again(t)
  <2>1. Moved(t, "begin") /\ Keeps(t) /\ run[t].at = "check"
    BY <1>11, GotoMoves DEF Again, At
  <2>2. UNCHANGED <<linear, facts_to_send, gc_nodes>>
    BY <1>11 DEF Again, facts
  <2> QED
    BY <2>1, <2>2 DEF RunShape, Busy, Moved, Keeps
<1>12. CASE Rest(t)
  <2>1. run'[t].at = "idle" /\ run'[t].generated = EmptyBag
        /\ \A u \in Thread : u # t => run'[u] = run[u]
    BY <1>12 DEF Rest, Idle, LifeTypes
  <2>2. UNCHANGED <<linear, facts_to_send, gc_nodes>> /\ run[t].at = "check"
    BY <1>12 DEF Rest, At
  <2> QED
    BY <2>1, <2>2 DEF RunShape, Busy
<1>13. CASE FollowDeleted(t)
  <2>1. UNCHANGED <<run, linear, facts_to_send, gc_nodes>>
    BY <1>13 DEF FollowDeleted, Misuse, facts
  <2> QED
    BY <2>1 DEF RunShape, Busy
<1>14. CASE Commit(t)
  <2>1. Moved(t, "committed") /\ Keeps(t) /\ run[t].at = "idle"
        /\ UNCHANGED <<linear, facts_to_send, gc_nodes>>
    BY <1>14, GotoMoves DEF Commit, At, facts
  <2> QED
    BY <2>1 DEF RunShape, Busy, Moved, Keeps
<1> QED
  BY <1>1, <1>2, <1>3, <1>4, <1>5, <1>6, <1>7, <1>8, <1>9, <1>10, <1>11, <1>12, <1>13, <1>14
     DEF Step

-----------------------------------------------------------------------------
(* Nodes a thread deleted itself. *)

\* Mine in the next state.
MineNext(u, x) == x \in live' \/ deleter'[x] # u

\* No step makes a thread hold a node it deleted.
LEMMA OwnStep ==
  ASSUME LifeInv, NEW t \in Thread, Step(t)
  PROVE  OwnDeletes'
<1> USE DEF LifeInv
<1> DEFINE n == run[t].node
<1>0. /\ \A u \in Thread : Busy(u) => run[u].node \in Node
      /\ \A u \in Thread : gc_nodes[u] \subseteq Node /\ BagToSet(facts_to_send[u]) \subseteq Node \X Fact
  <2>1. \A u \in Thread : Busy(u) => run[u].node \in Node
    BY DEF Places, LifeTypes
  <2>2. \A u \in Thread : gc_nodes[u] \subseteq Node /\ facts_to_send[u] \in BagsOver(Node \X Fact)
    BY DEF LifeTypes
  <2> QED
    BY <2>1, <2>2, BagCount
<1>a. \A d \in BagToSet(EmptyBag) : FALSE
  BY DEF EmptyBag, SetToBag, BagToSet
<1>b. ASSUME live \subseteq live', deleter' = deleter, NEW u, NEW x, Mine(u, x)
      PROVE  MineNext(u, x)
  BY <1>b DEF Mine, MineNext
<1>c. ASSUME misuse = None, misuse' = misuse PROVE OwnDeletesSafe'
  BY <1>c DEF OwnDeletesSafe
<1>d. ASSUME NEW k \in Node, delete_node(t, k), NEW u \in Thread, NEW x \in Node, Mine(u, x),
             u # t \/ x # k
      PROVE  MineNext(u, x)
  BY <1>d DEF Mine, MineNext, delete_node, LifeTypes
<1>1. CASE GetNode(t)
  <2>1. PICK k \in queue[t] :
          run' = [run EXCEPT ![t] = [Idle EXCEPT !.at = "begin", !.node = k]]
    BY <1>1 DEF GetNode
  <2>2. /\ run'[t].at = "begin" /\ run'[t].node = k
        /\ \A u \in Thread : u # t => run'[u] = run[u]
    BY <2>1 DEF Idle, LifeTypes
  <2>3. UNCHANGED <<live, deleter, facts_to_send, gc_nodes, misuse>> /\ misuse = None
    BY <1>1 DEF GetNode, At, names
  <2>4. k \in live
    BY <2>1 DEF Places
  <2> QED
    BY <1>c, <2>2, <2>3, <2>4 DEF OwnDeletes, Busy, Mine
<1>2. CASE Begin(t) \/ EndRules(t) \/ SyncDone(t) \/ CollectDone(t) \/ Again(t)
  <2>1. PICK a \in Ats \ {"idle", "committed", "test"} : Moved(t, a)
    BY <1>2, GotoMoves DEF Begin, EndRules, SyncDone, CollectDone, Again, Ats
  <2>2. UNCHANGED <<live, deleter, facts_to_send, gc_nodes, misuse>> /\ misuse = None /\ Busy(t)
    BY <1>2 DEF Begin, EndRules, SyncDone, CollectDone, Again, At, names, Busy
  <2> QED
    BY <1>c, <2>1, <2>2 DEF OwnDeletes, Busy, Mine, Moved
<1>3. CASE Erase(t) \/ EndRule(t)
  <2>1. PICK a \in Ats \ {"idle", "committed", "test"} : Moved(t, a)
    BY <1>3, RuleMoves DEF Ats
  <2>2. UNCHANGED <<live, deleter, facts_to_send, gc_nodes, misuse>> /\ misuse = None /\ Busy(t)
    BY <1>3 DEF Erase, EndRule, At, names, Busy
  <2> QED
    BY <1>c, <2>1, <2>2 DEF OwnDeletes, Busy, Mine, Moved
<1>4. CASE Fire(t)
  <2>1. PICK f \in Fact, r \in Rules : FireFacts(t, f, r) /\ FireChanges(t, f, r)
    BY <1>4, FireIs
  <2> DEFINE heads == HeadsOf(t, f, r)
             own == {d \in heads : d[1] = n}
  <2>2. /\ run[t].at = "rules" /\ live' = live \cup New(r) /\ deleter' = deleter
        /\ gc_nodes' = gc_nodes /\ misuse' = misuse
        /\ facts_to_send' = [facts_to_send EXCEPT ![t] = @ (+) SetToBag(heads \ own)]
    BY <2>1 DEF FireChanges
  <2>3. misuse = None
    BY <1>4 DEF Fire, At
  <2>4. \A u \in Thread : u # t => facts_to_send'[u] = facts_to_send[u] /\ run'[u] = run[u]
    <3>1. Moved(t, "test") \/ Moved(t, "erase")
      BY <2>1, RuleMoves
    <3> QED
      BY <2>2, <3>1 DEF LifeTypes, Moved
  <2>5. run'[t].used = f /\ run'[t].node = n /\ (run'[t].at = "test" => f # None)
    <3>1. run'[t].used = f /\ IF f # None /\ f \notin Initial /\ refs'[f] = 0
                              THEN Moved(t, "test") ELSE Moved(t, "erase")
      BY <2>1, RuleMoves
    <3> QED
      BY <3>1 DEF Moved
  <2>6. run'[t].at = "test" => run'[t].used \in Node /\ MineNext(t, run'[t].used)
    BY <2>1, <2>2, <2>5 DEF FireFacts, MineNext, Fact
  <2>7. ASSUME NEW d \in BagToSet(facts_to_send'[t]) PROVE MineNext(t, d[1])
    <3>1. heads \ own \subseteq Node \X Fact
      BY <2>1 DEF FireFacts
    <3> HIDE DEF own
    <3>2. facts_to_send[t] \in BagsOver(Node \X Fact)
          /\ facts_to_send'[t] = facts_to_send[t] (+) SetToBag(heads \ own)
      BY <2>2 DEF LifeTypes
    <3>3. SetToBag(heads \ own) \in BagsOver(Node \X Fact)
          /\ BagToSet(SetToBag(heads \ own)) = heads \ own
      BY <3>1, BagOfSet
    <3>4. BagToSet(facts_to_send'[t]) = BagToSet(facts_to_send[t]) \cup (heads \ own)
      <4>1. BagToSet(facts_to_send[t] (+) SetToBag(heads \ own))
              = BagToSet(facts_to_send[t]) \cup BagToSet(SetToBag(heads \ own))
        BY <3>2, <3>3, BagPlus
      <4> QED
        BY <3>2, <3>3, <4>1
    <3>5. CASE d \in BagToSet(facts_to_send[t])
      BY <1>b, <2>2, <3>5 DEF OwnDeletes
    <3>6. CASE d \in heads
      BY <2>1, <2>2, <3>6 DEF FireFacts, MineNext
    <3> QED
      BY <2>7, <3>4, <3>5, <3>6
  <2> HIDE DEF heads, own
  <2>8. \A u, x : Mine(u, x) => MineNext(u, x)
    BY <1>b, <2>2
  <2>9. ASSUME NEW u \in Thread
        PROVE  /\ Busy(u)' => MineNext(u, run'[u].node)
               /\ run'[u].at = "test" => run'[u].used \in Node /\ MineNext(u, run'[u].used)
               /\ \A d \in BagToSet(facts_to_send'[u]) : MineNext(u, d[1])
               /\ \A x \in gc_nodes'[u] : MineNext(u, x)
    BY <2>2, <2>4, <2>5, <2>6, <2>7, <2>8 DEF OwnDeletes, Busy
  <2>10. OwnDeletesSafe'
    BY <1>c, <2>2, <2>3
  <2> QED
    BY <2>9, <2>10 DEF OwnDeletes, Mine, MineNext
<1>5. CASE Test(t)
  <2>1. Moved(t, "erase") /\ run[t].at = "test"
    BY <1>5, GotoMoves DEF Test, At
  <2>2. /\ UNCHANGED <<live, deleter, facts_to_send, misuse>> /\ misuse = None
        /\ run[t].used \in live
    BY <1>5 DEF Test, At, names
  <2>3. /\ \A u \in Thread : u # t => gc_nodes'[u] = gc_nodes[u]
        /\ gc_nodes'[t] \subseteq gc_nodes[t] \cup {run[t].used}
    BY <1>5 DEF Test, LifeTypes
  <2> QED
    BY <1>c, <2>1, <2>2, <2>3 DEF OwnDeletes, Busy, Mine, Moved
<1>6. CASE Send(t)
  <2> DEFINE F == facts_to_send[t]
  <2>1. PICK k : k \in live /\ facts_to_send' = [facts_to_send EXCEPT ![t] = @ (-) SentTo(F, k)]
    BY <1>6 DEF Send, SentTo
  <2>2. UNCHANGED <<live, deleter, run, gc_nodes, misuse>> /\ misuse = None
    BY <1>6 DEF Send, At, names
  <2>3. BagToSet(F (-) SentTo(F, k)) \subseteq BagToSet(F)
    <3>1. k \in Node /\ F \in BagsOver(Node \X Fact)
      BY <2>1 DEF LifeTypes
    <3> QED
      BY <3>1, BagSent
  <2>4. \A u \in Thread : BagToSet(facts_to_send'[u]) \subseteq BagToSet(facts_to_send[u])
    BY <2>1, <2>3 DEF LifeTypes
  <2> QED
    BY <1>c, <2>2, <2>4 DEF OwnDeletes, Busy, Mine
<1>7. CASE Collect(t)
  <2>1. PICK k \in gc_nodes[t] :
          /\ IF garbage_collect(k) THEN delete_node(t, k) ELSE UNCHANGED names
          /\ gc_nodes' = [gc_nodes EXCEPT ![t] = @ \ {k}]
    BY <1>7 DEF Collect
  <2>2. UNCHANGED <<run, facts_to_send, misuse>> /\ misuse = None /\ run[t].at = "gc"
    BY <1>7 DEF Collect, At
  <2>3. \A u \in Thread : gc_nodes'[u] = IF u = t THEN gc_nodes[t] \ {k} ELSE gc_nodes[u]
    BY <2>1 DEF LifeTypes
  <2>4. facts_to_send[t] = EmptyBag /\ n \notin gc_nodes[t] /\ k \in Node
    BY <1>0, <2>1, <2>2 DEF RunShape, Busy
  <2>5. \A u \in Thread : \A x \in Node : Mine(u, x) /\ (u # t \/ x # k) => MineNext(u, x)
    <3>1. CASE garbage_collect(k)
      BY <1>d, <2>1, <2>4, <3>1
    <3>2. CASE ~garbage_collect(k)
      BY <2>1, <3>2 DEF names, Mine, MineNext
    <3> QED
      BY <3>1, <3>2
  <2>6. ASSUME NEW u \in Thread
        PROVE  /\ Busy(u) => MineNext(u, run[u].node)
               /\ run[u].at = "test" => run[u].used \in Node /\ MineNext(u, run[u].used)
               /\ \A d \in BagToSet(facts_to_send[u]) : MineNext(u, d[1])
               /\ \A x \in gc_nodes'[u] : MineNext(u, x)
    <3>1. Busy(u) => MineNext(u, run[u].node)
      BY <1>0, <2>1, <2>4, <2>5 DEF OwnDeletes
    <3>2. run[u].at = "test" => run[u].used \in Node /\ MineNext(u, run[u].used)
      BY <2>2, <2>5 DEF OwnDeletes
    <3>3. \A d \in BagToSet(facts_to_send[u]) : MineNext(u, d[1])
      <4> SUFFICES ASSUME NEW d \in BagToSet(facts_to_send[u]) PROVE MineNext(u, d[1])
        OBVIOUS
      <4>1. d[1] \in Node /\ Mine(u, d[1])
        BY <1>0 DEF OwnDeletes
      <4>2. u # t
        BY <1>a, <2>4
      <4> QED
        BY <2>5, <4>1, <4>2
    <3>4. \A x \in gc_nodes'[u] : MineNext(u, x)
      BY <1>0, <2>3, <2>5 DEF OwnDeletes
    <3> QED
      BY <3>1, <3>2, <3>3, <3>4
  <2>7. OwnDeletesSafe'
    BY <1>c, <2>2
  <2> QED
    BY <2>2, <2>6, <2>7 DEF OwnDeletes, Busy, Mine, MineNext
<1>8. CASE Rest(t)
  <2>1. run'[t].at = "idle" /\ \A u \in Thread : u # t => run'[u] = run[u]
    BY <1>8 DEF Rest, Idle, LifeTypes
  <2>2. /\ UNCHANGED <<facts_to_send, gc_nodes, misuse>> /\ misuse = None /\ run[t].at = "check"
        /\ IF garbage_collect(n) THEN delete_node(t, n) ELSE UNCHANGED names
    BY <1>8 DEF Rest, At
  <2>3. facts_to_send[t] = EmptyBag /\ gc_nodes[t] = {} /\ n \in Node
    BY <1>0, <2>2 DEF RunShape, Busy
  <2>4. \A u \in Thread : \A x \in Node : Mine(u, x) /\ u # t => MineNext(u, x)
    <3>1. CASE garbage_collect(n)
      BY <1>d, <2>2, <2>3, <3>1
    <3>2. CASE ~garbage_collect(n)
      BY <2>2, <3>2 DEF names, Mine, MineNext
    <3> QED
      BY <3>1, <3>2
  <2>5. ASSUME NEW u \in Thread
        PROVE  /\ Busy(u)' => MineNext(u, run'[u].node)
               /\ run'[u].at = "test" => run'[u].used \in Node /\ MineNext(u, run'[u].used)
               /\ \A d \in BagToSet(facts_to_send[u]) : MineNext(u, d[1])
               /\ \A x \in gc_nodes[u] : MineNext(u, x)
    <3>1. CASE u = t
      BY <1>a, <2>1, <2>3, <3>1 DEF Busy
    <3>2. CASE u # t
      <4>1. run'[u] = run[u] /\ (Busy(u)' <=> Busy(u))
        BY <2>1, <3>2 DEF Busy
      <4>2. Busy(u)' => MineNext(u, run'[u].node)
        BY <1>0, <2>4, <3>2, <4>1 DEF OwnDeletes
      <4>3. run'[u].at = "test" => run'[u].used \in Node /\ MineNext(u, run'[u].used)
        BY <2>4, <3>2, <4>1 DEF OwnDeletes
      <4>4. \A d \in BagToSet(facts_to_send[u]) : d[1] \in Node /\ Mine(u, d[1])
        BY <1>0 DEF OwnDeletes
      <4>5. \A x \in gc_nodes[u] : x \in Node /\ Mine(u, x)
        BY <1>0 DEF OwnDeletes
      <4> QED
        BY <2>4, <3>2, <4>2, <4>3, <4>4, <4>5
    <3> QED
      BY <3>1, <3>2
  <2>6. OwnDeletesSafe'
    BY <1>c, <2>2
  <2> QED
    BY <2>2, <2>5, <2>6 DEF OwnDeletes, Mine, MineNext
<1>9. CASE FollowDeleted(t)
  <2>1. UNCHANGED <<run, facts_to_send, gc_nodes, live, deleter>>
    BY <1>9 DEF FollowDeleted, Misuse, names
  <2>2. PICK x : misuse' = <<t, x>> /\ x \notin live /\ Mine(t, x)
    BY <1>9 DEF FollowDeleted, Misuse, At, OwnDeletes, Busy
  <2>3. OwnDeletesSafe'
    BY <2>1, <2>2 DEF OwnDeletesSafe, Mine
  <2> QED
    BY <2>1, <2>3 DEF OwnDeletes, Busy, Mine
<1>10. CASE Commit(t)
  <2>1. Moved(t, "committed") /\ run[t].at = "idle" /\ misuse = None
        /\ UNCHANGED <<live, deleter, facts_to_send, gc_nodes, misuse>>
    BY <1>10, GotoMoves DEF Commit, At
  <2> QED
    BY <1>c, <2>1 DEF OwnDeletes, Busy, Mine, Moved
<1> QED
  BY <1>1, <1>2, <1>3, <1>4, <1>5, <1>6, <1>7, <1>8, <1>9, <1>10 DEF Step

-----------------------------------------------------------------------------
(* Garbage. *)

\* A step that makes a node collectable leaves it known to some thread.
LEMMA GarbageStep ==
  ASSUME LifeInv, NEW t \in Thread, Step(t)
  PROVE  GarbageKnown'
<1> USE DEF LifeInv
<1> DEFINE n == run[t].node
           Known(k) == \/ k \in active
                       \/ \E u \in Thread : k \in gc_nodes[u] \/ (run[u].at = "test" /\ run[u].used = k)
<1>0. \A k \in live : garbage_collect(k) => Known(k)
  BY DEF GarbageKnown
<1>1. SUFFICES ASSUME NEW k \in live', garbage_collect(k)' PROVE Known(k)'
  BY DEF GarbageKnown
<1>2. CASE GetNode(t)
  <2>1. /\ UNCHANGED <<live, refs, linear, unprocessed_facts, active, gc_nodes>>
        /\ run[t].at = "idle" /\ \A u \in Thread : u # t => run'[u] = run[u]
    BY <1>2 DEF GetNode, At, names, LifeTypes
  <2> QED
    BY <1>0, <1>1, <2>1 DEF garbage_collect
<1>3. CASE Begin(t) \/ Erase(t) \/ EndRule(t)
  <2>1. UNCHANGED <<live, refs, active, gc_nodes>> /\ Busy(t) /\ run[t].at # "test"
        /\ \A u \in Thread : u # t => run'[u] = run[u]
    BY <1>3 DEF Begin, Erase, EndRule, At, names, Busy, LifeTypes, Goto
  <2>2. \A j \in Node : j # n => linear'[j] = linear[j] /\ unprocessed_facts'[j] = unprocessed_facts[j]
    BY <1>3 DEF Begin, Erase, EndRule, LifeTypes
  <2>3. n \in active /\ k \in Node
    BY <1>1, <2>1 DEF Places, LifeTypes
  <2> QED
    BY <1>0, <1>1, <2>1, <2>2, <2>3 DEF garbage_collect
<1>4. CASE Fire(t)
  <2>1. PICK f \in Fact, r \in Rules : FireFacts(t, f, r) /\ FireChanges(t, f, r)
    BY <1>4, FireIs
  <2>2. run[t].at = "rules" /\ UNCHANGED <<active, gc_nodes>> /\ live' = live \cup New(r)
        /\ n \in live
    BY <2>1 DEF FireChanges
  <2>3. k \notin New(r)
    <3> SUFFICES ASSUME k \in New(r) PROVE FALSE
      OBVIOUS
    <3>1. r.new /\ k = NUM_THREADS + created + 1
      BY DEF New
    <3>2. k \in Node
      BY <2>1 DEF FireFacts, Node
    <3>3. unprocessed_facts'[k]
      BY <2>1, <3>1, <3>2 DEF FireChanges, LifeTypes
    <3> QED
      BY <1>1, <3>3 DEF garbage_collect
  <2>4. k \in live /\ k \in Node
    BY <1>1, <2>2, <2>3 DEF LifeTypes
  <2>5. linear'[k] = linear[k] /\ unprocessed_facts'[k] = unprocessed_facts[k]
    BY <2>1, <2>3, <2>4 DEF FireChanges, LifeTypes, New
  <2>6. run'[t].used = f /\ (IF f # None /\ f \notin Initial /\ refs'[f] = 0
                             THEN Moved(t, "test") ELSE Moved(t, "erase"))
    BY <2>1, RuleMoves
  <2>7. \A u \in Thread : u # t => run'[u] = run[u]
    BY <2>6 DEF Moved
  <2>8. CASE k = f
    <3>1. refs'[k] = 0 /\ k # None
      BY <1>1, <2>4, Constants DEF garbage_collect
    <3>2. k \notin Initial
      <4>1. \A j \in Initial : refs'[j] = refs[j] /\ refs[j] = 1
        BY <2>1 DEF FireChanges, LifeTypes, Node
      <4> QED
        BY <3>1, <4>1
    <3>3. Moved(t, "test")
      BY <2>6, <2>8, <3>1, <3>2
    <3> QED
      BY <2>6, <2>8, <3>3 DEF Moved
  <2>9. CASE k # f
    <3>1. refs[k] = 0
      <4> DEFINE c == Cardinality(To(k, HeadsOf(t, f, r)))
      <4>1. refs'[k] = 0 /\ refs[k] \in Int
        BY <1>1, <2>4 DEF garbage_collect, LifeTypes
      <4>2. k \notin Initial => refs'[k] = refs[k] + c - 0
        BY <2>1, <2>4, <2>9 DEF FireChanges
      <4>3. k \in Initial => refs'[k] = refs[k]
        BY <2>1, <2>4 DEF FireChanges
      <4>4. c \in Nat
        <5>1. To(k, HeadsOf(t, f, r)) \subseteq HeadsOf(t, f, r) /\ IsFiniteSet(HeadsOf(t, f, r))
          BY <2>1 DEF To, FireFacts
        <5> QED
          BY <5>1, FS_Subset, FS_CardinalityType
      <4>5. CASE k \in Initial
        BY <4>1, <4>3, <4>5
      <4>6. CASE k \notin Initial
        <5>1. refs[k] >= 0
          <6>1. k \in Created /\ References(k) = refs[k] + Dying(k)
            BY <2>4, <4>6 DEF Node, Counted
          <6>2. References(k) >= Dying(k) /\ Dying(k) \in Nat /\ References(k) \in Nat
            BY Enough
          <6> QED
            BY <4>1, <6>1, <6>2
        <5> HIDE DEF c
        <5> QED
          BY <4>1, <4>2, <4>4, <4>6, <5>1
      <4> QED
        BY <4>5, <4>6
    <3>2. Known(k)
      BY <1>0, <1>1, <2>4, <2>5, <3>1 DEF garbage_collect
    <3> QED
      BY <2>2, <2>7, <3>2
  <2> QED
    BY <2>8, <2>9
<1>5. CASE Test(t)
  <2>1. UNCHANGED <<live, refs, linear, unprocessed_facts, active>> /\ run[t].at = "test"
        /\ \A u \in Thread : u # t => run'[u] = run[u]
    BY <1>5 DEF Test, At, names, facts, LifeTypes, Goto
  <2>2. /\ \A u \in Thread : gc_nodes[u] \subseteq gc_nodes'[u]
        /\ garbage_collect(run[t].used) => run[t].used \in gc_nodes'[t]
    BY <1>5 DEF Test, LifeTypes
  <2> QED
    BY <1>0, <1>1, <2>1, <2>2 DEF garbage_collect
<1>6. CASE EndRules(t) \/ SyncDone(t) \/ CollectDone(t) \/ Again(t) \/ Commit(t)
  <2>1. UNCHANGED <<live, refs, linear, unprocessed_facts, active, gc_nodes>> /\ run[t].at # "test"
        /\ \A u \in Thread : u # t => run'[u] = run[u]
    BY <1>6 DEF EndRules, SyncDone, CollectDone, Again, Commit, At, names, facts, LifeTypes, Goto
  <2> QED
    BY <1>0, <1>1, <2>1 DEF garbage_collect
<1>7. CASE Send(t)
  <2>1. PICK x : x \in live /\ active' = active \cup {x}
                 /\ unprocessed_facts' = [unprocessed_facts EXCEPT ![x] = TRUE]
                 /\ \A j \in Node : j # x => linear'[j] = linear[j]
    <3> DEFINE direct(x) == owner[x] = t \/ x \notin database_lock
               F == facts_to_send[t]
    <3>1. PICK x : /\ x \in live
                   /\ linear' = IF direct(x) THEN [linear EXCEPT ![x] = @ (+) FactsFor(F, x)] ELSE linear
                   /\ unprocessed_facts' = [unprocessed_facts EXCEPT ![x] = TRUE]
                   /\ active' = active \cup {x}
      BY <1>7 DEF Send, SentTo, FactsFor
    <3> HIDE DEF direct, F
    <3>2. \A j \in Node : j # x => linear'[j] = linear[j]
      BY <3>1 DEF LifeTypes
    <3> QED
      BY <3>1, <3>2
  <2>2. UNCHANGED <<live, refs, run, gc_nodes>>
    BY <1>7 DEF Send, names
  <2>3. k \in Node /\ (k # x => unprocessed_facts'[k] = unprocessed_facts[k])
    BY <1>1, <2>1, <2>2 DEF LifeTypes
  <2> QED
    BY <1>0, <1>1, <2>1, <2>2, <2>3 DEF garbage_collect
<1>8. CASE Collect(t)
  <2>1. PICK x \in gc_nodes[t] :
          /\ IF garbage_collect(x) THEN delete_node(t, x) ELSE UNCHANGED names
          /\ gc_nodes' = [gc_nodes EXCEPT ![t] = @ \ {x}]
    BY <1>8 DEF Collect
  <2>2. UNCHANGED <<refs, linear, unprocessed_facts, active, run>>
    BY <1>8 DEF Collect, facts
  <2>3. /\ garbage_collect(x) => live' = live \ {x}
        /\ ~garbage_collect(x) => live' = live
    BY <2>1 DEF delete_node, names
  <2>4. garbage_collect(k) /\ k # x /\ k \in live
    BY <1>1, <2>2, <2>3 DEF garbage_collect
  <2>5. \A u \in Thread : k \in gc_nodes[u] => k \in gc_nodes'[u]
    BY <2>1, <2>4 DEF LifeTypes
  <2> QED
    BY <1>0, <2>2, <2>4, <2>5
<1>9. CASE Rest(t)
  <2>1. /\ UNCHANGED <<refs, linear, unprocessed_facts, gc_nodes>> /\ active' = active \ {n}
        /\ IF garbage_collect(n) THEN delete_node(t, n) ELSE UNCHANGED names
        /\ run[t].at = "check" /\ \A u \in Thread : u # t => run'[u] = run[u]
    BY <1>9 DEF Rest, At, LifeTypes
  <2>2. /\ garbage_collect(n) => live' = live \ {n}
        /\ ~garbage_collect(n) => live' = live
    BY <2>1 DEF delete_node, names
  <2>3. garbage_collect(k) /\ k # n /\ k \in live
    BY <1>1, <2>1, <2>2 DEF garbage_collect
  <2> QED
    BY <1>0, <2>1, <2>3
<1>10. CASE FollowDeleted(t)
  <2>1. UNCHANGED <<live, refs, linear, unprocessed_facts, active, gc_nodes, run>>
    BY <1>10 DEF FollowDeleted, Misuse, facts, names
  <2> QED
    BY <1>0, <1>1, <2>1 DEF garbage_collect
<1> QED
  BY <1>2, <1>3, <1>4, <1>5, <1>6, <1>7, <1>8, <1>9, <1>10 DEF Step

-----------------------------------------------------------------------------
(* References. *)

\* Steps that move no fact change no reference.
LEMMA SameReferences ==
  ASSUME NEW k, UNCHANGED <<linear, store, facts_to_send>>,
         \A u \in Thread : run'[u].generated = run[u].generated
  PROVE  References(k)' = References(k)
<1>1. \A m \in Node : InNode(k, m)' = InNode(k, m)
  BY DEF InNode
<1>2. \A u \in Thread : InThread(k, u)' = InThread(k, u)
  BY DEF InThread
<1>3. [m \in Node |-> InNode(k, m)'] = [m \in Node |-> InNode(k, m)]
  BY <1>1
<1>4. [u \in Thread |-> InThread(k, u)'] = [u \in Thread |-> InThread(k, u)]
  BY <1>2
<1> QED
  BY <1>3, <1>4 DEF References

\* The facts on their way change with the bag of local facts and the buffer only.
LEMMA SameInThread ==
  ASSUME NEW k, NEW u, run'[u].generated = run[u].generated,
         facts_to_send'[u] = facts_to_send[u]
  PROVE  InThread(k, u)' = InThread(k, u)
  BY DEF InThread

\* Thread u is destroying a fact that refers to k.
Dies(u, k) == run[u].at \in {"test", "erase"} /\ run[u].used = k

\* The number of facts being destroyed: a step that neither begins nor ends one,
LEMMA DyingSame ==
  ASSUME NEW k, \A u \in Thread : Dies(u, k)' <=> Dies(u, k)
  PROVE  Dying(k)' = Dying(k)
<1>1. {u \in Thread : Dies(u, k)'} = {u \in Thread : Dies(u, k)}
  OBVIOUS
<1> QED
  BY <1>1 DEF Dying, Dies

\* one that begins one,
LEMMA DyingBegins ==
  ASSUME NEW k, NEW t \in Thread, \A u \in Thread : u # t => run'[u] = run[u],
         ~Dies(t, k), Dies(t, k)'
  PROVE  Dying(k)' = Dying(k) + 1
<1> DEFINE D == {u \in Thread : Dies(u, k)}
           E == {u \in Thread : Dies(u, k)'}
<1>1. \A u \in Thread : u # t => (Dies(u, k)' <=> Dies(u, k))
  BY DEF Dies
<1>2. E = D \cup {t} /\ t \notin D
  BY <1>1
<1>3. IsFiniteSet(D)
  BY Constants, FS_Subset
<1>4. Dying(k) = Cardinality(D) /\ Dying(k)' = Cardinality(E)
  BY DEF Dying, Dies
<1> HIDE DEF D, E
<1> QED
  BY <1>2, <1>3, <1>4, FS_AddElement

\* and one that ends one.
LEMMA DyingEnds ==
  ASSUME NEW k, NEW t \in Thread, \A u \in Thread : u # t => run'[u] = run[u],
         Dies(t, k), ~Dies(t, k)'
  PROVE  Dying(k)' = Dying(k) - 1
<1> DEFINE D == {u \in Thread : Dies(u, k)}
           E == {u \in Thread : Dies(u, k)'}
<1>1. \A u \in Thread : u # t => (Dies(u, k)' <=> Dies(u, k))
  BY DEF Dies
<1>2. E = D \ {t} /\ t \in D
  BY <1>1
<1>3. IsFiniteSet(D)
  BY Constants, FS_Subset
<1>4. Dying(k) = Cardinality(D) /\ Dying(k)' = Cardinality(E)
  BY DEF Dying, Dies
<1> HIDE DEF D, E
<1> QED
  BY <1>2, <1>3, <1>4, FS_RemoveElement

\* Fire: the derived facts that refer to k are counted where they are put.
LEMMA FireReferences ==
  ASSUME LifeInv, LifeTypes', NEW t \in Thread, NEW f \in Fact, NEW r \in Rules,
         FireFacts(t, f, r), FireChanges(t, f, r), NEW k \in Created
  PROVE  References(k)' = References(k) + Cardinality(To(k, HeadsOf(t, f, r)))
<1> USE DEF LifeInv
<1> DEFINE n == run[t].node
           m == NUM_THREADS + created + 1
           heads == HeadsOf(t, f, r)
           own == {d \in heads : d[1] = n}
           F == facts_to_send[t]
           G == SetToBag(heads \ own)
           R == {d[2] : d \in own}
           B == SetToBag(R)
<1>0. k \in Node /\ k # None /\ n \in Node /\ run[t].at = "rules" /\ heads \subseteq Node \X Fact
  <2>1. k \in Node /\ k # None
    BY Constants DEF Node
  <2>2. n \in live /\ run[t].at = "rules"
    BY DEF FireChanges
  <2>3. live \subseteq Node
    BY DEF LifeTypes
  <2>4. heads \subseteq Node \X Fact
    BY DEF FireFacts
  <2> QED
    BY <2>1, <2>2, <2>3, <2>4
<1>1. \A j \in Node : InNode(k, j)' = InNode(k, j)
  <2> SUFFICES ASSUME NEW j \in Node PROVE InNode(k, j)' = InNode(k, j)
    OBVIOUS
  <2>1. store' = store
    BY DEF FireChanges
  <2>2. CountIn(linear'[j], k) = CountIn(linear[j], k)
    <3>1. CASE r.new /\ j = m
      <4>1. j \in Created /\ j > NUM_THREADS + created
        BY <3>1, Constants DEF FireFacts, New, LifeTypes
      <4>2. linear[j] = EmptyBag
        BY <4>1 DEF LifeTypes
      <4>3. linear'[j] = SetToBag({None})
        BY <3>1 DEF FireChanges, LifeTypes
      <4>4. CountIn(SetToBag({None}), k) = 0 /\ CountIn(SetToBag({}), k) = 0
        BY <1>0, BagOfSet
      <4> QED
        BY <4>2, <4>3, <4>4 DEF EmptyBag
    <3>2. CASE ~(r.new /\ j = m)
      <4>1. linear'[j] = linear[j]
        BY <3>2 DEF FireChanges, LifeTypes
      <4> QED
        BY <4>1
    <3> QED
      BY <3>1, <3>2
  <2> QED
    BY <2>1, <2>2 DEF InNode
<1>2. \A u \in Thread : u # t => InThread(k, u)' = InThread(k, u)
  <2> SUFFICES ASSUME NEW u \in Thread, u # t PROVE InThread(k, u)' = InThread(k, u)
    OBVIOUS
  <2>1. Moved(t, "test") \/ Moved(t, "erase")
    BY RuleMoves
  <2>2. run'[u].generated = run[u].generated /\ facts_to_send'[u] = facts_to_send[u]
    BY <2>1 DEF Moved, FireChanges, LifeTypes
  <2> QED
    BY <2>2, SameInThread
<1>3. /\ run[t].generated = EmptyBag /\ run'[t].generated = B
      /\ F \in BagsOver(Node \X Fact) /\ facts_to_send'[t] = F (+) G
  <2>1. run[t].generated = EmptyBag
    BY <1>0 DEF RunShape
  <2>2. run'[t].generated = B
    BY RuleMoves
  <2>3. facts_to_send' = [facts_to_send EXCEPT ![t] = @ (+) G]
    BY DEF FireChanges
  <2>4. facts_to_send \in [Thread -> BagsOver(Node \X Fact)]
    BY DEF LifeTypes
  <2> HIDE DEF G
  <2> QED
    BY <2>1, <2>2, <2>3, <2>4
<1> DEFINE c == [j \in Node |-> CountIn(F, <<j, k>>)]
           e == [j \in Node |-> CountIn(F (+) G, <<j, k>>)]
           i == [j \in Node |-> IF <<j, k>> \in heads THEN 1 ELSE 0]
           x == [j \in Node |-> IF <<j, k>> \in heads /\ j # n THEN 1 ELSE 0]
<1>4. SumFunctionOnSet(e, Node) = SumFunctionOnSet(c, Node) + SumFunctionOnSet(x, Node)
  <2>1. G \in BagsOver(Node \X Fact) /\ \A j : CountIn(G, <<j, k>>) = IF <<j, k>> \in heads /\ j # n THEN 1 ELSE 0
    <3>1. heads \ own \subseteq Node \X Fact
      BY <1>0
    <3>2. \A j : <<j, k>> \in heads \ own <=> <<j, k>> \in heads /\ j # n
      OBVIOUS
    <3> HIDE DEF heads, own
    <3>3. G \in BagsOver(Node \X Fact)
      BY <3>1, BagOfSet
    <3>4. \A j : CountIn(G, <<j, k>>) = IF <<j, k>> \in heads \ own THEN 1 ELSE 0
      BY <3>1, BagOfSet
    <3> QED
      BY <3>2, <3>3, <3>4
  <2> HIDE DEF G, F, heads, own
  <2>2. \A j : CountIn(F (+) G, <<j, k>>) = CountIn(F, <<j, k>>) + CountIn(G, <<j, k>>)
    BY <1>3, <2>1, BagPlus
  <2>3. \A j : CountIn(F, <<j, k>>) \in Nat
    BY <1>3, BagCount
  <2>4. \A j \in Node : c[j] \in Int /\ x[j] \in Int /\ e[j] = c[j] + x[j]
    BY <2>1, <2>2, <2>3
  <2> HIDE DEF c, e, x
  <2> QED
    BY <2>4, SumPlus, Constants
<1>5. SumFunctionOnSet(x, Node) + CountIn(B, k) = SumFunctionOnSet(i, Node)
  <2>1. CountIn(B, k) = i[n]
    <3>1. R \subseteq Fact
      BY <1>0
    <3>2. k \in {d[2] : d \in own} <=> <<n, k>> \in heads
      <4>1. \A d \in heads : d = <<d[1], d[2]>>
        BY <1>0
      <4>2. ASSUME <<n, k>> \in heads PROVE k \in {d[2] : d \in own}
        <5>1. <<n, k>> \in own /\ <<n, k>>[2] = k
          BY <4>2
        <5> QED
          BY <5>1
      <4> QED
        BY <4>1, <4>2
    <3>3. CountIn(B, k) = IF k \in R THEN 1 ELSE 0
      <4> HIDE DEF R
      <4> QED
        BY <3>1, BagOfSet
    <3> QED
      BY <1>0, <3>2, <3>3
  <2>2. \A j \in Node : x[j] \in Int /\ i[j] \in Int /\ (j # n => i[j] = x[j])
    OBVIOUS
  <2>3. x[n] = 0 /\ i[n] \in Int
    BY <1>0
  <2>4. SumFunctionOnSet(x, Node) \in Int
    <3> HIDE DEF x, i
    <3> QED
      BY <2>2, SumType, Constants
  <2>5. SumFunctionOnSet(i, Node) = SumFunctionOnSet(x, Node) + i[n] - x[n]
    <3>1. IsFiniteSet(Node) /\ n \in Node
      BY <1>0, Constants
    <3>2. \A j \in Node : x[j] \in Int /\ i[j] \in Int
      BY <2>2
    <3>3. \A j \in Node : j # n => i[j] = x[j]
      BY <2>2
    <3> HIDE DEF x, i, n
    <3> QED
      BY <3>1, <3>2, <3>3, SumUpdate
  <2> HIDE DEF x, i, B
  <2> QED
    BY <2>1, <2>3, <2>4, <2>5
<1>6. SumFunctionOnSet(i, Node) = Cardinality(To(k, heads))
  <2> DEFINE N == {j \in Node : i[j] = 1}
             g == [j \in N |-> <<j, k>>]
  <2>1. SumFunctionOnSet(i, Node) = Cardinality(N)
    <3>1. \A j \in Node : i[j] \in {0, 1}
      OBVIOUS
    <3> HIDE DEF i
    <3> QED
      BY <3>1, SumCounts, Constants
  <2>2. N = {j \in Node : <<j, k>> \in heads}
    OBVIOUS
  <2>3. g \in Bijection(N, To(k, heads))
    <3>1. g \in [N -> To(k, heads)]
      BY <2>2 DEF To
    <3>2. \A a, b \in N : g[a] = g[b] => a = b
      OBVIOUS
    <3>3. ASSUME NEW d \in To(k, heads) PROVE \E a \in N : g[a] = d
      <4>1. d \in heads /\ d[2] = k /\ d = <<d[1], d[2]>> /\ d[1] \in Node
        BY <1>0, <3>3 DEF To
      <4>2. d[1] \in N
        BY <2>2, <4>1
      <4> QED
        BY <4>1, <4>2
    <3> HIDE DEF N, g, heads
    <3> QED
      BY <3>1, <3>2, <3>3 DEF Bijection, Injection, Surjection, IsInjective
  <2>4. IsFiniteSet(N)
    BY Constants, FS_Subset
  <2> HIDE DEF N, g, i
  <2>5. ExistsBijection(N, To(k, heads))
    BY <2>3 DEF ExistsBijection
  <2> QED
    BY <2>1, <2>4, <2>5, FS_Bijection
<1>7. InThread(k, t) = SumFunctionOnSet(c, Node)
  <2>1. CountIn(EmptyBag, k) = 0
    <3>1. CountIn(SetToBag({}), k) = 0
      BY BagOfSet
    <3> QED
      BY <3>1 DEF EmptyBag
  <2>2. SumFunctionOnSet(c, Node) \in Nat
    <3>1. \A j : CountIn(F, <<j, k>>) \in Nat
      BY <1>3, BagCount
    <3>2. \A j \in Node : c[j] \in Nat
      BY <3>1
    <3> HIDE DEF c
    <3> QED
      BY <3>2, SumType, Constants
  <2>3. InThread(k, t) = CountIn(run[t].generated, k) + SumFunctionOnSet(c, Node)
    BY DEF InThread
  <2> HIDE DEF c
  <2> QED
    BY <1>3, <2>1, <2>2, <2>3
<1>8. InThread(k, t)' = CountIn(B, k) + SumFunctionOnSet(e, Node)
  BY <1>3 DEF InThread
<1>9. References(k)' = References(k) + InThread(k, t)' - InThread(k, t)
  <2>1. PICK j \in Node : j = n
    BY <1>0
  <2>2. /\ \A p \in Node \ {j} : InNode(k, p)' = InNode(k, p)
        /\ \A u \in Thread \ {t} : InThread(k, u)' = InThread(k, u)
        /\ InNode(k, j)' = InNode(k, j)
    BY <1>1, <1>2
  <2>3. LifeTypes
    OBVIOUS
  <2> HIDE DEF LifeInv
  <2>4. References(k)' = References(k) + InNode(k, j)' - InNode(k, j)
                                       + InThread(k, t)' - InThread(k, t)
    BY <2>2, <2>3, ReferencesStep
  <2>5. References(k) \in Int /\ InNode(k, j) \in Int /\ InThread(k, t) \in Int
    BY <2>3, ReferenceTypes DEF ReferencesNatural
  <2>6. InThread(k, t)' \in Int
    <3>1. LifeTypes' => ReferencesNatural'
      BY ReferenceTypes, PTL
    <3> QED
      BY <3>1 DEF ReferencesNatural
  <2> QED
    BY <2>2, <2>4, <2>5, <2>6
<1>10. References(k) \in Int /\ InThread(k, t) \in Int
  BY ReferenceTypes DEF ReferencesNatural
<1>11. Cardinality(To(k, heads)) \in Int /\ CountIn(B, k) \in Int /\ SumFunctionOnSet(x, Node) \in Int
  <2>1. \A j \in Node : x[j] \in Int
    OBVIOUS
  <2>2. SumFunctionOnSet(x, Node) \in Int
    <3> HIDE DEF x
    <3> QED
      BY <2>1, SumType, Constants
  <2>3. \A j \in Node : i[j] \in Int
    OBVIOUS
  <2>4. SumFunctionOnSet(i, Node) \in Int
    <3> HIDE DEF i
    <3> QED
      BY <2>3, SumType, Constants
  <2>5. R \subseteq Fact
    BY <1>0
  <2>6. CountIn(B, k) = IF k \in R THEN 1 ELSE 0
    <3> HIDE DEF R
    <3> QED
      BY <2>5, BagOfSet
  <2>7. CountIn(B, k) \in Int
    BY <2>6
  <2> QED
    BY <1>6, <2>2, <2>4, <2>7
<1> HIDE DEF c, e, i, x, B, G, F, heads, own, n
<1>12. InThread(k, t)' = InThread(k, t) + Cardinality(To(k, heads))
  BY <1>4, <1>5, <1>6, <1>7, <1>8, <1>10, <1>11
<1>13. References(k)' = References(k) + Cardinality(To(k, heads))
  BY <1>9, <1>10, <1>11, <1>12
<1> QED
  BY <1>13 DEF heads

\* Every step keeps the counters right.
LEMMA CountedStep ==
  ASSUME LifeInv, NEW t \in Thread, Step(t)
  PROVE  Counted'
<1> USE DEF LifeInv
<1>t. LifeTypes'
  BY TypesStep
<1>n. ASSUME Busy(t) PROVE \E n \in Node : n = run[t].node
  BY <1>n DEF Places, LifeTypes
<1>s. ASSUME NEW k \in Created, References(k)' = References(k), Dying(k)' = Dying(k),
             UNCHANGED refs, UNCHANGED live
      PROVE  /\ k \in live' => refs'[k] + Dying(k)' = References(k)'
             /\ k \notin live' => References(k)' = Dying(k)'
  BY <1>s DEF Counted
<1>d. ASSUME NEW k \in Created, NEW x, garbage_collect(x) => live' = live \ {x},
             ~garbage_collect(x) => live' = live, UNCHANGED refs,
             References(k)' = References(k), Dying(k)' = Dying(k)
      PROVE  /\ k \in live' => refs'[k] + Dying(k)' = References(k)'
             /\ k \notin live' => References(k)' = Dying(k)'
  <2>1. Dying(k) \in Nat
    BY Enough
  <2>2. CASE k \in live /\ k \notin live'
    <3>1. refs[k] = 0 /\ refs[k] + Dying(k) = References(k)
      BY <1>d, <2>2 DEF garbage_collect, Counted
    <3> QED
      BY <1>d, <2>1, <2>2, <3>1
  <2>3. CASE k \in live <=> k \in live'
    BY <1>d, <2>3 DEF Counted
  <2> QED
    BY <1>d, <2>2, <2>3
<1>1. SUFFICES ASSUME NEW k \in Created
               PROVE  /\ k \in live' => refs'[k] + Dying(k)' = References(k)'
                      /\ k \notin live' => References(k)' = Dying(k)'
  BY DEF Counted
<1>k. k \in Node /\ k # None /\ k \notin Initial
  BY Constants DEF Node
<1>r. References(k) \in Int /\ \A m \in Node : InNode(k, m) \in Int /\ InThread(k, t) \in Int
  BY ReferenceTypes DEF ReferencesNatural
<1>2. CASE GetNode(t)
  <2>1. /\ UNCHANGED <<linear, store, facts_to_send, refs, live>> /\ run[t].at = "idle"
        /\ run'[t].at = "begin" /\ run'[t].generated = EmptyBag
        /\ \A u \in Thread : u # t => run'[u] = run[u]
    BY <1>2 DEF GetNode, At, names, LifeTypes, Idle
  <2>2. References(k)' = References(k)
    BY <2>1, SameReferences DEF RunShape
  <2>3. Dying(k)' = Dying(k)
    BY <2>1, DyingSame DEF Dies
  <2> QED
    BY <1>s, <2>1, <2>2, <2>3
<1>3. CASE Begin(t)
  <2>1. PICK n \in Node : n = run[t].node
    BY <1>3, <1>n DEF Begin, At, Busy
  <2>2. /\ UNCHANGED <<facts_to_send, refs, live>> /\ run[t].at = "begin"
        /\ linear'[n] = linear[n] (+) store[n] /\ store'[n] = EmptyBag
        /\ \A m \in Node : m # n => linear'[m] = linear[m] /\ store'[m] = store[m]
    BY <1>3, <2>1 DEF Begin, At, names, LifeTypes
  <2>3. Moved(t, "rules") /\ Keeps(t)
    BY <1>3, GotoMoves DEF Begin
  <2>4. \A m \in Node : InNode(k, m)' = InNode(k, m)
    <3>1. linear[n] \in BagsOver(Fact) /\ store[n] \in BagsOver(Fact)
      BY DEF LifeTypes
    <3>2. CountIn(linear[n], k) \in Nat /\ CountIn(store[n], k) \in Nat
          /\ CountIn(EmptyBag, k) = 0
      BY <3>1, BagCount
    <3>3. CountIn(linear[n] (+) store[n], k) = CountIn(linear[n], k) + CountIn(store[n], k)
      BY <3>1, BagPlus
    <3>4. InNode(k, n)' = InNode(k, n)
      BY <2>2, <3>2, <3>3 DEF InNode
    <3>5. \A m \in Node : m # n => InNode(k, m)' = InNode(k, m)
      BY <2>2 DEF InNode
    <3> QED
      BY <3>4, <3>5
  <2>5. \A u \in Thread : InThread(k, u)' = InThread(k, u)
    BY <2>2, <2>3, SameInThread DEF Moved, Keeps
  <2>6. References(k)' = References(k) + InNode(k, n)' - InNode(k, n)
                                       + InThread(k, t)' - InThread(k, t)
    BY <1>t, <2>4, <2>5, ReferencesStep
  <2>7. References(k)' = References(k)
    BY <1>r, <2>4, <2>5, <2>6
  <2>8. Dying(k)' = Dying(k)
    BY <2>2, <2>3, DyingSame DEF Dies, Moved
  <2> QED
    BY <1>s, <2>2, <2>7, <2>8
<1>4. CASE Fire(t)
  <2>1. PICK f \in Fact, r \in Rules : FireFacts(t, f, r) /\ FireChanges(t, f, r)
    BY <1>4, FireIs
  <2> DEFINE c == Cardinality(To(k, HeadsOf(t, f, r)))
             gone == IF k = f THEN 1 ELSE 0
  <2>2. References(k)' = References(k) + c
    BY <1>t, <2>1, FireReferences
  <2>3. run[t].at = "rules" /\ live' = live \cup New(r) /\ refs'[k] = refs[k] + c - gone
    BY <1>k, <2>1 DEF FireChanges
  <2>4. /\ run'[t].used = f /\ run'[t].at \in {"test", "erase"}
        /\ \A u \in Thread : u # t => run'[u] = run[u]
    <3>1. run'[t].used = f /\ (Moved(t, "test") \/ Moved(t, "erase"))
      BY <2>1, RuleMoves
    <3> QED
      BY <3>1 DEF Moved
  <2>5. Dying(k)' = Dying(k) + gone
    <3>0. Dying(k) \in Nat
      BY Enough
    <3>1. CASE k = f
      <4>1. ~Dies(t, k) /\ Dies(t, k)'
        BY <2>3, <2>4, <3>1 DEF Dies
      <4>2. Dying(k)' = Dying(k) + 1
        BY <2>4, <4>1, DyingBegins
      <4> QED
        BY <3>1, <4>2
    <3>2. CASE k # f
      <4>1. Dying(k)' = Dying(k)
        BY <2>3, <2>4, <3>2, DyingSame DEF Dies
      <4> QED
        BY <3>0, <3>2, <4>1
    <3> QED
      BY <3>1, <3>2
  <2>6. c \in Nat
    <3>1. To(k, HeadsOf(t, f, r)) \subseteq HeadsOf(t, f, r) /\ IsFiniteSet(HeadsOf(t, f, r))
      BY <2>1 DEF To, FireFacts
    <3> QED
      BY <3>1, FS_Subset, FS_CardinalityType
  <2>7. gone \in Int /\ refs[k] \in Int /\ Dying(k) \in Int /\ References(k) \in Int
    <3>1. Dying(k) \in Nat /\ References(k) \in Nat
      BY Enough
    <3>2. refs[k] \in Int
      BY <1>k DEF LifeTypes
    <3> QED
      BY <3>1, <3>2
  <2>8. CASE k \in live
    <3>1. refs[k] + Dying(k) = References(k) /\ k \in live'
      BY <2>3, <2>8 DEF Counted
    <3> HIDE DEF c, gone
    <3> QED
      BY <2>2, <2>3, <2>5, <2>6, <2>7, <3>1
  <2>9. CASE k \in New(r)
    <3>1. k \in live' /\ k \notin live /\ k > NUM_THREADS + created
      BY <2>1, <2>3, <2>9, Constants DEF FireFacts, New, LifeTypes
    <3>2. refs[k] = 0
      BY <3>1 DEF LifeTypes
    <3>3. References(k) = Dying(k)
      BY <3>1 DEF Counted
    <3> HIDE DEF c, gone
    <3> QED
      BY <2>2, <2>3, <2>5, <2>6, <2>7, <3>1, <3>2, <3>3
  <2>10. CASE k \notin live /\ k \notin New(r)
    <3>1. To(k, HeadsOf(t, f, r)) = {} /\ k # f
      BY <1>k, <2>1, <2>10 DEF To, FireFacts
    <3>2. c = 0 /\ gone = 0
      BY <3>1, FS_EmptySet
    <3>3. References(k) = Dying(k) /\ k \notin live'
      BY <2>3, <2>10 DEF Counted
    <3> HIDE DEF c, gone
    <3> QED
      BY <2>2, <2>5, <2>7, <3>2, <3>3
  <2> QED
    BY <2>8, <2>9, <2>10
<1>5. CASE Test(t) \/ EndRules(t) \/ SyncDone(t) \/ CollectDone(t) \/ Again(t) \/ Commit(t)
  <2>1. UNCHANGED <<linear, store, facts_to_send, refs, live>>
    BY <1>5 DEF Test, EndRules, SyncDone, CollectDone, Again, Commit, names, facts
  <2>2. PICK a \in Ats : Goto(t, a) /\ (a \in {"test", "erase"} <=> run[t].at \in {"test", "erase"})
    BY <1>5 DEF Test, EndRules, SyncDone, CollectDone, Again, Commit, At, Ats
  <2>3. Moved(t, a) /\ Keeps(t)
    BY <2>2, GotoMoves
  <2>4. References(k)' = References(k)
    BY <2>1, <2>3, SameReferences DEF Moved, Keeps
  <2>5. Dying(k)' = Dying(k)
    BY <2>2, <2>3, DyingSame DEF Dies, Moved, Keeps
  <2> QED
    BY <1>s, <2>1, <2>4, <2>5
<1>6. CASE Erase(t)
  <2>1. PICK n \in Node : n = run[t].node
    BY <1>6, <1>n DEF Erase, At, Busy
  <2> DEFINE x == run[t].used
             gone == IF k = x THEN 1 ELSE 0
  <2>2. /\ UNCHANGED <<store, facts_to_send, refs, live>> /\ run[t].at = "erase"
        /\ linear'[n] = linear[n] (-) SetToBag({x})
        /\ \A m \in Node : m # n => linear'[m] = linear[m]
    BY <1>6, <2>1 DEF Erase, At, names, LifeTypes
  <2>3. Moved(t, "generated") /\ run'[t].generated = run[t].generated
    BY <1>6, RuleMoves
  <2>4. InNode(k, n)' = InNode(k, n) - gone
    <3>1. linear[n] \in BagsOver(Fact) /\ store[n] \in BagsOver(Fact) /\ x \in BagToSet(linear[n])
      BY <2>1, <2>2 DEF LifeTypes, RunShape
    <3>2. CountIn(linear[n], k) \in Nat /\ CountIn(store[n], k) \in Nat
      BY <3>1, BagCount
    <3> HIDE DEF x
    <3>3. CountIn(linear[n] (-) SetToBag({x}), k) = CountIn(linear[n], k) - gone
      BY <3>1, BagTake
    <3> QED
      BY <2>2, <3>2, <3>3 DEF InNode
  <2>5. \A m \in Node \ {n} : InNode(k, m)' = InNode(k, m)
    BY <2>2 DEF InNode
  <2>6. \A u \in Thread : InThread(k, u)' = InThread(k, u)
    BY <2>2, <2>3, SameInThread DEF Moved
  <2>7. References(k)' = References(k) + InNode(k, n)' - InNode(k, n)
                                       + InThread(k, t)' - InThread(k, t)
    BY <1>t, <2>5, <2>6, ReferencesStep
  <2>8. References(k)' = References(k) - gone
    <3> HIDE DEF x
    <3> QED
      BY <1>r, <2>4, <2>6, <2>7
  <2>9. Dying(k)' = Dying(k) - gone
    <3>0. Dying(k) \in Nat
      BY Enough
    <3>1. run'[t].at = "generated" /\ \A u \in Thread : u # t => run'[u] = run[u]
      BY <2>3 DEF Moved
    <3>2. CASE k = x
      <4>1. Dies(t, k) /\ ~Dies(t, k)'
        BY <2>2, <3>1, <3>2 DEF Dies
      <4>2. Dying(k)' = Dying(k) - 1
        BY <3>1, <4>1, DyingEnds
      <4> QED
        BY <3>2, <4>2
    <3>3. CASE k # x
      <4>1. Dying(k)' = Dying(k)
        BY <3>1, <3>3, DyingSame DEF Dies
      <4> QED
        BY <3>0, <3>3, <4>1
    <3> QED
      BY <3>2, <3>3
  <2>10. /\ k \in live => refs[k] + Dying(k) = References(k)
         /\ k \notin live => References(k) = Dying(k)
    BY DEF Counted
  <2>11. Dying(k) \in Nat /\ refs[k] \in Int /\ gone \in Int
    <3>1. Dying(k) \in Nat
      BY Enough
    <3>2. refs[k] \in Int
      BY <1>k DEF LifeTypes
    <3> QED
      BY <3>1, <3>2
  <2> HIDE DEF x, gone
  <2> QED
    BY <1>r, <2>2, <2>8, <2>9, <2>10, <2>11
<1>7. CASE EndRule(t)
  <2>1. PICK n \in Node : n = run[t].node
    BY <1>7, <1>n DEF EndRule, At, Busy
  <2> DEFINE B == run[t].generated
  <2>2. /\ UNCHANGED <<store, facts_to_send, refs, live>> /\ run[t].at = "generated"
        /\ linear'[n] = linear[n] (+) B
        /\ \A m \in Node : m # n => linear'[m] = linear[m]
    BY <1>7, <2>1 DEF EndRule, At, names, LifeTypes
  <2>3. Moved(t, "rules") /\ run'[t].generated = EmptyBag
    BY <1>7, RuleMoves
  <2>4. linear[n] \in BagsOver(Fact) /\ store[n] \in BagsOver(Fact) /\ B \in BagsOver(Fact)
    BY DEF LifeTypes, RunTypes
  <2>5. /\ CountIn(linear[n], k) \in Nat /\ CountIn(store[n], k) \in Nat
        /\ CountIn(B, k) \in Nat /\ CountIn(EmptyBag, k) = 0
    BY <2>4, BagCount
  <2>6. InNode(k, n)' = InNode(k, n) + CountIn(B, k)
    <3>1. CountIn(linear[n] (+) B, k) = CountIn(linear[n], k) + CountIn(B, k)
      BY <2>4, BagPlus
    <3> HIDE DEF B
    <3> QED
      BY <2>2, <2>5, <3>1 DEF InNode
  <2>7. \A m \in Node \ {n} : InNode(k, m)' = InNode(k, m)
    BY <2>2 DEF InNode
  <2>8. \A u \in Thread \ {t} : InThread(k, u)' = InThread(k, u)
    BY <2>2, <2>3, SameInThread DEF Moved
  <2>9. InThread(k, t)' = InThread(k, t) - CountIn(B, k)
    <3> DEFINE s == SumFunctionOnSet([m \in Node |-> CountIn(facts_to_send[t], <<m, k>>)], Node)
    <3>1. InThread(k, t) = CountIn(B, k) + s
      BY DEF InThread
    <3>2. InThread(k, t)' = CountIn(EmptyBag, k) + s
      BY <2>2, <2>3 DEF InThread
    <3>3. s \in Nat
      <4>1. facts_to_send[t] \in BagsOver(Node \X Fact)
        BY DEF LifeTypes
      <4>2. \A m \in Node : CountIn(facts_to_send[t], <<m, k>>) \in Nat
        BY <4>1, BagCount
      <4> QED
        BY <4>2, SumType, Constants
    <3> HIDE DEF s, B
    <3> QED
      BY <2>5, <3>1, <3>2, <3>3
  <2>10. References(k)' = References(k) + InNode(k, n)' - InNode(k, n)
                                        + InThread(k, t)' - InThread(k, t)
    BY <1>t, <2>7, <2>8, ReferencesStep
  <2>11. References(k)' = References(k)
    <3> HIDE DEF B
    <3> QED
      BY <1>r, <2>5, <2>6, <2>9, <2>10
  <2>12. Dying(k)' = Dying(k)
    BY <2>2, <2>3, DyingSame DEF Dies, Moved
  <2> QED
    BY <1>s, <2>2, <2>11, <2>12
<1>8. CASE Send(t)
  <2> DEFINE F == facts_to_send[t]
             direct(n) == owner[n] = t \/ n \notin database_lock
  <2>1. PICK n : /\ n \in live
                 /\ linear' = IF direct(n) THEN [linear EXCEPT ![n] = @ (+) FactsFor(F, n)] ELSE linear
                 /\ store' = IF direct(n) THEN store ELSE [store EXCEPT ![n] = @ (+) FactsFor(F, n)]
                 /\ facts_to_send' = [facts_to_send EXCEPT ![t] = @ (-) SentTo(F, n)]
    BY <1>8 DEF Send, SentTo, FactsFor
  <2>2. UNCHANGED <<run, refs, live>>
    BY <1>8 DEF Send, names
  <2>3. n \in Node /\ F \in BagsOver(Node \X Fact)
        /\ linear[n] \in BagsOver(Fact) /\ store[n] \in BagsOver(Fact)
    BY <2>1 DEF LifeTypes
  <2>4. /\ FactsFor(F, n) \in BagsOver(Fact)
        /\ CountIn(FactsFor(F, n), k) = CountIn(F, <<n, k>>)
        /\ \A m : CountIn(F (-) SentTo(F, n), <<m, k>>)
                    = IF m = n THEN 0 ELSE CountIn(F, <<m, k>>)
    <3>0. n \in Node /\ F \in BagsOver(Node \X Fact)
      BY <2>3
    <3> HIDE DEF F
    <3>1. FactsFor(F, n) \in BagsOver(Fact)
      BY <3>0, BagSent
    <3>p. PairBag(F)
      BY <3>0, BagSent
    <3>2. CountIn(FactsFor(F, n), k) = CountIn(F, <<n, k>>)
      BY <3>p, SentCount
    <3>3. ASSUME NEW m
          PROVE  CountIn(F (-) SentTo(F, n), <<m, k>>) = IF m = n THEN 0 ELSE CountIn(F, <<m, k>>)
      BY <3>p, LeftCount
    <3> QED
      BY <3>1, <3>2, <3>3
  <2> HIDE DEF direct
  <2>5. /\ linear'[n] = (IF direct(n) THEN linear[n] (+) FactsFor(F, n) ELSE linear[n])
        /\ store'[n] = (IF direct(n) THEN store[n] ELSE store[n] (+) FactsFor(F, n))
        /\ facts_to_send'[t] = F (-) SentTo(F, n)
        /\ \A u \in Thread : u # t => facts_to_send'[u] = facts_to_send[u]
        /\ \A m \in Node : m # n => linear'[m] = linear[m] /\ store'[m] = store[m]
    BY <2>1, <2>3 DEF LifeTypes
  <2>6. InNode(k, n)' = InNode(k, n) + CountIn(F, <<n, k>>)
    <3>1. /\ CountIn(linear[n] (+) FactsFor(F, n), k)
               = CountIn(linear[n], k) + CountIn(FactsFor(F, n), k)
          /\ CountIn(store[n] (+) FactsFor(F, n), k)
               = CountIn(store[n], k) + CountIn(FactsFor(F, n), k)
      BY <2>3, <2>4, BagPlus
    <3>2. CountIn(linear[n], k) \in Nat /\ CountIn(store[n], k) \in Nat
          /\ CountIn(FactsFor(F, n), k) \in Nat
      BY <2>3, <2>4, BagCount
    <3> HIDE DEF F
    <3> QED
      BY <2>4, <2>5, <3>1, <3>2 DEF InNode
  <2>7. \A m \in Node \ {n} : InNode(k, m)' = InNode(k, m)
    BY <2>5 DEF InNode
  <2>8. \A u \in Thread \ {t} : InThread(k, u)' = InThread(k, u)
    BY <2>2, <2>5, SameInThread
  <2>9. InThread(k, t)' = InThread(k, t) - CountIn(F, <<n, k>>)
    <3> DEFINE c == [m \in Node |-> CountIn(F, <<m, k>>)]
               e == [m \in Node |-> CountIn(F (-) SentTo(F, n), <<m, k>>)]
    <3>1. \A m \in Node : CountIn(F, <<m, k>>) \in Nat
      BY <2>3, BagCount
    <3>2. \A m \in Node : c[m] \in Int /\ e[m] \in Int
      <4> HIDE DEF F
      <4> QED
        BY <2>4, <3>1
    <3>3. \A m \in Node : m # n => e[m] = c[m]
      <4> HIDE DEF F
      <4> QED
        BY <2>4
    <3>4. c[n] = CountIn(F, <<n, k>>) /\ e[n] = 0
      <4> HIDE DEF F
      <4> QED
        BY <2>3, <2>4
    <3>5. InThread(k, t) = CountIn(run[t].generated, k) + SumFunctionOnSet(c, Node)
      BY DEF InThread
    <3>6. InThread(k, t)' = CountIn(run[t].generated, k) + SumFunctionOnSet(e, Node)
      BY <2>2, <2>5 DEF InThread
    <3>7. CountIn(run[t].generated, k) \in Nat
      <4>1. run[t].generated \in BagsOver(Fact)
        BY DEF LifeTypes, RunTypes
      <4> QED
        BY <4>1, BagCount
    <3>8. IsFiniteSet(Node)
      BY Constants
    <3> HIDE DEF c, e, F
    <3>9. SumFunctionOnSet(e, Node) = SumFunctionOnSet(c, Node) + e[n] - c[n]
      BY <2>3, <3>2, <3>3, <3>8, SumUpdate
    <3>10. SumFunctionOnSet(c, Node) \in Int
      BY <3>2, <3>8, SumType
    <3>11. CountIn(F, <<n, k>>) \in Int
      BY <2>3, <3>1
    <3> QED
      BY <3>4, <3>5, <3>6, <3>7, <3>9, <3>10, <3>11
  <2>10. References(k)' = References(k) + InNode(k, n)' - InNode(k, n)
                                        + InThread(k, t)' - InThread(k, t)
    BY <1>t, <2>3, <2>7, <2>8, ReferencesStep
  <2>11. References(k)' = References(k)
    <3>1. CountIn(F, <<n, k>>) \in Nat
      BY <2>3, BagCount
    <3> HIDE DEF F
    <3> QED
      BY <1>r, <2>3, <2>6, <2>9, <2>10, <3>1
  <2>12. Dying(k)' = Dying(k)
    BY <2>2, DyingSame DEF Dies
  <2> QED
    BY <1>s, <2>2, <2>11, <2>12
<1>9. CASE Collect(t)
  <2>1. PICK x \in gc_nodes[t] : IF garbage_collect(x) THEN delete_node(t, x) ELSE UNCHANGED names
    BY <1>9 DEF Collect
  <2>2. UNCHANGED <<linear, store, facts_to_send, refs, run>>
    BY <1>9 DEF Collect, facts
  <2>3. (garbage_collect(x) => live' = live \ {x}) /\ (~garbage_collect(x) => live' = live)
    BY <2>1 DEF delete_node, names
  <2>4. References(k)' = References(k)
    BY <2>2, SameReferences
  <2>5. Dying(k)' = Dying(k)
    BY <2>2, DyingSame DEF Dies
  <2> QED
    BY <1>d, <2>2, <2>3, <2>4, <2>5
<1>10. CASE Rest(t)
  <2>1. PICK n \in Node : n = run[t].node
    BY <1>10, <1>n DEF Rest, At, Busy
  <2>2. /\ UNCHANGED <<linear, store, facts_to_send, refs>> /\ run[t].at = "check"
        /\ IF garbage_collect(n) THEN delete_node(t, n) ELSE UNCHANGED names
        /\ run'[t].generated = EmptyBag /\ run'[t].at = "idle"
        /\ \A u \in Thread : u # t => run'[u] = run[u]
    BY <1>10, <2>1 DEF Rest, At, Idle, LifeTypes
  <2>3. (garbage_collect(n) => live' = live \ {n}) /\ (~garbage_collect(n) => live' = live)
    BY <2>2 DEF delete_node, names
  <2>4. References(k)' = References(k)
    BY <2>2, SameReferences DEF RunShape
  <2>5. Dying(k)' = Dying(k)
    BY <2>2, DyingSame DEF Dies
  <2> QED
    BY <1>d, <2>2, <2>3, <2>4, <2>5
<1>11. CASE FollowDeleted(t)
  <2>1. UNCHANGED <<linear, store, facts_to_send, refs, live, run>>
    BY <1>11 DEF FollowDeleted, Misuse, facts, names
  <2>2. References(k)' = References(k)
    BY <2>1, SameReferences
  <2>3. Dying(k)' = Dying(k)
    BY <2>1, DyingSame DEF Dies
  <2> QED
    BY <1>s, <2>1, <2>2, <2>3
<1> QED
  BY <1>2, <1>3, <1>4, <1>5, <1>6, <1>7, <1>8, <1>9, <1>10, <1>11 DEF Step

-----------------------------------------------------------------------------

\* LifeInv holds initially, is kept by every step, and so always holds.
LEMMA LifeInit == Init => LifeInv
<1> SUFFICES ASSUME Init PROVE LifeInv
  OBVIOUS
<1>1. /\ SetToBag({None}) \in BagsOver(Fact) /\ EmptyBag \in BagsOver(Fact)
      /\ EmptyBag \in BagsOver(Node \X Fact) /\ BagToSet(EmptyBag) = {}
  <2>1. {} \subseteq Fact /\ {None} \subseteq Fact /\ {} \subseteq Node \X Fact
    BY DEF Fact
  <2> QED
    BY <2>1, BagOfSet DEF EmptyBag
<1>2. \A t \in Thread : run[t].at = "idle" /\ run[t].generated = EmptyBag
  BY DEF Init, Idle
<1>3. LifeTypes
  <2>1. run \in [Thread -> RunTypes]
    BY <1>1 DEF Init, Idle, RunTypes, Ats, Fact
  <2>2. Initial \subseteq Node /\ Thread = Initial /\ Initial \cap Created = {}
        /\ NUM_THREADS \in Nat /\ MaxCreated \in Nat
    BY Constants DEF Node
  <2>3. created = 0 /\ created \in 0 .. MaxCreated
    BY <2>2 DEF Init
  <2>4. \A k \in Initial : k <= NUM_THREADS + created
    BY <2>2, <2>3 DEF Initial
  <2>5. /\ linear \in [Node -> BagsOver(Fact)] /\ store \in [Node -> BagsOver(Fact)]
        /\ \A k \in Created : refs[k] = 0 /\ linear[k] = EmptyBag
    BY <1>1, <2>2 DEF Init, Node
  <2>6. refs \in [Node -> Int] /\ \A k \in Initial : refs[k] = 1
    BY <2>2 DEF Init
  <2>7. owner \in [Node -> Thread \cup {None}] /\ \A k \in Initial : owner[k] \in Thread
    BY <2>2 DEF Init
  <2>8. /\ unprocessed_facts \in [Node -> BOOLEAN] /\ active \in SUBSET Node
        /\ queue \in [Thread -> SUBSET Node] /\ gc_nodes \in [Thread -> SUBSET Node]
        /\ deleter \in [Node -> Thread \cup {None}] /\ live = Initial
    BY <2>2 DEF Init
  <2>9. facts_to_send \in [Thread -> BagsOver(Node \X Fact)]
    BY <1>1 DEF Init
  <2> QED
    BY <2>1, <2>2, <2>3, <2>4, <2>5, <2>6, <2>7, <2>8, <2>9 DEF LifeTypes
<1>4. Places
  <2>1. /\ queue = [t \in Thread |-> {t}] /\ active = Initial /\ live = Initial
        /\ unprocessed_facts = [n \in Node |-> n \in Initial]
    BY DEF Init
  <2>2. Thread = Initial /\ Initial \subseteq Node
    BY Constants DEF Node
  <2> QED
    BY <1>2, <2>1, <2>2 DEF Places, Busy
<1>5. RunShape
  <2>1. \A t \in Thread : facts_to_send[t] = EmptyBag /\ gc_nodes[t] = {}
    BY DEF Init
  <2> QED
    BY <1>2, <2>1 DEF RunShape, Busy
<1>6. OwnDeletes
  <2>1. \A t \in Thread : facts_to_send[t] = EmptyBag /\ gc_nodes[t] = {}
    BY DEF Init
  <2>2. misuse = None
    BY DEF Init
  <2> QED
    BY <1>1, <1>2, <2>1, <2>2 DEF OwnDeletes, Busy, OwnDeletesSafe
<1>7. Counted
  <2> SUFFICES ASSUME NEW k \in Created
               PROVE  k \notin live /\ References(k) = Dying(k)
    BY DEF Counted
  <2>1. k \notin live /\ k # None
    BY Constants DEF Init, Node
  <2>2. CountIn(SetToBag({None}), k) = 0 /\ CountIn(EmptyBag, k) = 0
        /\ \A m : CountIn(EmptyBag, <<m, k>>) = 0
    <3>1. CountIn(SetToBag({None}), k) = 0 /\ \A x : CountIn(SetToBag({}), x) = 0
      BY <2>1, BagOfSet
    <3> QED
      BY <3>1 DEF EmptyBag
  <2>3. \A m \in Node : InNode(k, m) = 0
    BY <2>2 DEF Init, InNode
  <2>4. \A t \in Thread : InThread(k, t) = 0
    <3> SUFFICES ASSUME NEW t \in Thread PROVE InThread(k, t) = 0
      OBVIOUS
    <3> DEFINE c == [m \in Node |-> CountIn(facts_to_send[t], <<m, k>>)]
    <3>1. \A m \in Node : c[m] = 0 /\ c[m] \in Nat
      BY <2>2 DEF Init
    <3>2. InThread(k, t) = 0 + SumFunctionOnSet(c, Node)
      BY <1>2, <2>2 DEF InThread
    <3> HIDE DEF c
    <3>3. SumFunctionOnSet(c, Node) = 0
      BY <3>1, SumBounds, Constants
    <3> QED
      BY <3>2, <3>3
  <2> DEFINE h == [m \in Node |-> InNode(k, m)]
             i == [t \in Thread |-> InThread(k, t)]
  <2>5. (\A m \in Node : h[m] = 0 /\ h[m] \in Nat) /\ (\A t \in Thread : i[t] = 0 /\ i[t] \in Nat)
    BY <2>3, <2>4
  <2>6. References(k) = SumFunctionOnSet(h, Node) + SumFunctionOnSet(i, Thread)
    BY DEF References
  <2> HIDE DEF h, i
  <2>7. SumFunctionOnSet(h, Node) = 0 /\ SumFunctionOnSet(i, Thread) = 0
    BY <2>5, SumBounds, Constants
  <2>8. {t \in Thread : run[t].at \in {"test", "erase"} /\ run[t].used = k} = {}
    BY <1>2
  <2>9. Dying(k) = 0
    BY <2>8, FS_EmptySet DEF Dying
  <2> QED
    BY <2>1, <2>6, <2>7, <2>9
<1>8. GarbageKnown
  BY DEF Init, GarbageKnown
<1> QED
  BY <1>3, <1>4, <1>5, <1>6, <1>7, <1>8 DEF LifeInv

\* Every step keeps the invariant of the life cycle.
LEMMA LifeStep == LifeInv /\ [Next]_vars => LifeInv'
<1>1. ASSUME LifeInv, NEW t \in Thread, Step(t) PROVE LifeInv'
  BY <1>1, TypesStep, PlacesStep, ShapeStep, OwnStep, CountedStep, GarbageStep DEF LifeInv
<1>2. ASSUME LifeInv, UNCHANGED vars PROVE LifeInv'
  <2>1. UNCHANGED <<created, live, refs, linear, store, owner, unprocessed_facts, active, queue,
                    run, facts_to_send, gc_nodes, deleter, misuse>>
    BY <1>2 DEF vars, facts, names
  <2>2. LifeTypes'
    BY <1>2, <2>1 DEF LifeInv, LifeTypes
  <2>3. Places' /\ RunShape'
    BY <1>2, <2>1 DEF LifeInv, Places, RunShape, Busy
  <2>4. OwnDeletes'
    BY <1>2, <2>1 DEF LifeInv, OwnDeletes, OwnDeletesSafe, Mine, Busy
  <2>5. Counted'
    <3>1. \A k : References(k)' = References(k)
      BY <2>1, SameReferences
    <3>2. \A k : Dying(k)' = Dying(k)
      BY <2>1, DyingSame DEF Dies
    <3> QED
      BY <1>2, <2>1, <3>1, <3>2 DEF LifeInv, Counted
  <2>6. GarbageKnown'
    BY <1>2, <2>1 DEF LifeInv, GarbageKnown, garbage_collect
  <2> QED
    BY <2>2, <2>3, <2>4, <2>5, <2>6 DEF LifeInv
<1> QED
  BY <1>1, <1>2 DEF Next, Step

\* The invariant of the life cycle holds in every reachable state.
LEMMA LifeHolds == Spec => []LifeInv
  BY LifeInit, LifeStep, PTL DEF Spec

\* The count of a created node is the number of facts that refer to it, less those
\* that are being destroyed, and no other fact refers to a deleted node
\* (tuple::set_node, tuple::destructor).
THEOREM ReferencesCounted == Spec => []RefsExact
<1>1. LifeInv => RefsExact
  BY DEF LifeInv, Counted, RefsExact
<1> QED
  BY <1>1, LifeHolds, PTL

\* A node nobody refers to is queued, running, a candidate of a thread or about to be
\* tested by one (node::try_garbage_collect, thread::check_if_current_useless).
THEOREM NoGarbageLost == Spec => []GarbageFound
<1>1. LifeInv => GarbageFound
  BY DEF LifeInv, GarbageKnown, GarbageFound
<1> QED
  BY <1>1, LifeHolds, PTL

\* A thread does not follow a pointer to a node it deleted itself (state::run_node
\* sends before it collects, and never collects the node that runs).
THEOREM OwnDeletesHarmless == Spec => []OwnDeletesSafe
<1>1. LifeInv => OwnDeletesSafe
  BY DEF LifeInv, OwnDeletes
<1> QED
  BY <1>1, LifeHolds, PTL
-----------------------------------------------------------------------------
(* Identifiers and the lists of nodes. *)

\* The lists and the block of identifiers of a thread, as sets.
Handlers ==
  [allocated_nodes : Seq(Node), freed_nodes : Seq(Node), committed : SUBSET Node,
   deleted_by_others : Nat, next_available_id : Nat, end_available_id : Nat,
   next_allocation : Nat \ {0}]
Allocated(h) == ToSet(h.allocated_nodes)
Freed(h) == ToSet(h.freed_nodes)
Block(h) == h.next_available_id .. h.end_available_id - 1

\* A handler whose lists hold no node twice, within the limit of freed nodes.
Sound(h) ==
  /\ h \in Handlers
  /\ Once(h.allocated_nodes) /\ Once(h.freed_nodes) /\ Allocated(h) \cap Freed(h) = {}
  /\ Len(h.freed_nodes) <= FREED_MAX

\* The nodes whose identifier is taken: they are alive, or their memory is kept by a thread.
Held(n) == n \in live \/ \E t \in Thread : n \in Allocated(ids[t]) \cup Freed(ids[t])

HandlerTypes ==
  /\ id \in [Node -> Nat] /\ creator \in [Node -> Thread \cup {None}]
  /\ max_node_id \in Nat /\ NUM_THREADS <= max_node_id
  /\ ids \in [Thread -> Handlers] /\ \A t \in Thread : Sound(ids[t])

\* A node is on the lists of one thread; a freed node is not alive, and an allocated one has
\* lost its creator exactly when it was deleted by another thread.
OnLists ==
  /\ \A t, u \in Thread : t # u =>
       (Allocated(ids[t]) \cup Freed(ids[t])) \cap (Allocated(ids[u]) \cup Freed(ids[u])) = {}
  /\ \A t \in Thread : \A n \in Allocated(ids[t]) \cup Freed(ids[t]) :
       n \in Created /\ n <= NUM_THREADS + created
  /\ \A t \in Thread : Freed(ids[t]) \cap live = {}
  /\ \A t \in Thread : \A n \in Allocated(ids[t]) : creator[n] = IF n \in live THEN t ELSE None

\* A node alive is on the list of its creator, until the thread ends.
Creators ==
  /\ \A n \in live \ Initial :
       creator[n] \in Thread /\ n \in Allocated(ids[creator[n]]) \cup ids[creator[n]].committed
  /\ \A n \in Initial : creator[n] = None
  /\ \A t \in Thread : \A n \in ids[t].committed :
       n \in live /\ creator[n] = t /\ n \notin Allocated(ids[t])

\* When a thread has given its lists back, no thread will run a node.
Ended ==
  /\ \A t \in Thread : ids[t].committed # {} => run[t].at = "committed"
  /\ (\E t \in Thread : run[t].at = "committed") => \A u \in Thread : ~Busy(u) /\ queue[u] = {}

\* The identifiers that are not taken yet are in the blocks of the threads.
Blocks ==
  /\ \A t \in Thread : /\ NUM_THREADS < ids[t].next_available_id
                       /\ ids[t].next_available_id <= ids[t].end_available_id
                       /\ ids[t].end_available_id <= max_node_id + 1
  /\ \A t, u \in Thread : t # u => Block(ids[t]) \cap Block(ids[u]) = {}

Unique ==
  /\ \A m, n \in Node : Held(m) /\ Held(n) /\ id[m] = id[n] => m = n
  /\ \A n \in Node : Held(n) /\ n \notin Initial => NUM_THREADS < id[n] /\ id[n] <= max_node_id
  /\ \A n \in Initial : id[n] = n
  /\ \A n \in Node : Held(n) => \A t \in Thread : id[n] \notin Block(ids[t])

\* A thread was told of the deleted nodes on its list.
Told ==
  \A t \in Thread : Cardinality(Allocated(ids[t]) \ live) <= ids[t].deleted_by_others

\* The inductive invariant of the identifiers, besides LifeInv.
IdsInv == HandlerTypes /\ OnLists /\ Creators /\ Ended /\ Blocks /\ Unique /\ Told

-----------------------------------------------------------------------------
(* What the operations of a handler do. *)

\* g is h without the nodes of S, some of which it keeps for reuse.
Without(h, g, S) ==
  /\ Sound(g)
  /\ Allocated(g) = Allocated(h) \ S
  /\ Freed(h) \subseteq Freed(g) /\ Freed(g) \subseteq Freed(h) \cup S
  /\ g.committed = h.committed /\ g.deleted_by_others = h.deleted_by_others
  /\ g.next_available_id = h.next_available_id /\ g.end_available_id = h.end_available_id
  /\ g.next_allocation = h.next_allocation

\* A node in front of a list.
LEMMA InFront ==
  ASSUME NEW D, NEW s \in Seq(D), NEW x \in D
  PROVE  /\ <<x>> \o s \in Seq(D) /\ Len(<<x>> \o s) = Len(s) + 1 /\ Len(s) \in Nat
         /\ ToSet(<<x>> \o s) = ToSet(s) \cup {x}
         /\ Once(s) /\ x \notin ToSet(s) => Once(<<x>> \o s)
<1> DEFINE u == <<x>>
<1>1. u \in Seq(D) /\ Len(u) = 1 /\ ToSet(u) = {x} /\ Once(u)
  BY DEF ToSet, Once
<1> HIDE DEF u
<1>2. /\ u \o s \in Seq(D) /\ ToSet(u \o s) = ToSet(u) \cup ToSet(s)
      /\ Once(u) /\ Once(s) /\ ToSet(u) \cap ToSet(s) = {} => Once(u \o s)
  BY <1>1, SeqConcat
<1>3. Len(s) \in Nat /\ Len(u \o s) = Len(u) + Len(s)
  BY <1>1, ConcatProperties, LenProperties
<1>4. x \notin ToSet(s) => {x} \cap ToSet(s) = {}
  OBVIOUS
<1>5. Len(u \o s) = Len(s) + 1
  BY <1>1, <1>3
<1> QED
  BY <1>1, <1>2, <1>3, <1>4, <1>5 DEF u

\* ids::remove_node_from_allocated, of a node on the list or not.
LEMMA RemoveIs ==
  ASSUME NEW h, Sound(h), NEW n \in Node, n \notin Freed(h)
  PROVE  Without(h, remove_node_from_allocated(h, n), {n})
<1> DEFINE a == h.allocated_nodes
           d == h.freed_nodes
           b == Only(a, ToSet(a) \ {n})
           e == IF Len(d) = FREED_MAX THEN d ELSE <<n>> \o d
           g == remove_node_from_allocated(h, n)
<1>1. /\ h \in Handlers /\ a \in Seq(Node) /\ d \in Seq(Node)
      /\ Once(a) /\ Once(d) /\ ToSet(a) \cap ToSet(d) = {} /\ Len(d) <= FREED_MAX
      /\ n \notin ToSet(d)
  BY DEF Sound, Handlers, Allocated, Freed
<1>2. g = [h EXCEPT !.allocated_nodes = b, !.freed_nodes = e]
  BY DEF remove_node_from_allocated
<1>3. b \in Seq(Node) /\ ToSet(b) = ToSet(a) \cap (ToSet(a) \ {n}) /\ (Once(a) => Once(b))
  BY <1>1, OnlyIs
<1>4. ToSet(b) = ToSet(a) \ {n} /\ Once(b)
  BY <1>1, <1>3
<1>5. /\ e \in Seq(Node) /\ Once(e) /\ Len(e) <= FREED_MAX
      /\ ToSet(d) \subseteq ToSet(e) /\ ToSet(e) \subseteq ToSet(d) \cup {n}
  <2>1. CASE Len(d) = FREED_MAX
    BY <1>1, <2>1
  <2>2. CASE Len(d) # FREED_MAX
    <3>1. /\ <<n>> \o d \in Seq(Node) /\ Len(<<n>> \o d) = Len(d) + 1 /\ Len(d) \in Nat
          /\ ToSet(<<n>> \o d) = ToSet(d) \cup {n}
          /\ Once(d) /\ n \notin ToSet(d) => Once(<<n>> \o d)
      BY <1>1, InFront
    <3>2. Len(d) + 1 <= FREED_MAX
      BY <1>1, <2>2, <3>1, LifeAssumption
    <3>3. e = <<n>> \o d
      BY <2>2
    <3> HIDE DEF e
    <3> QED
      BY <1>1, <3>1, <3>2, <3>3
  <2> QED
    BY <2>1, <2>2
<1> HIDE DEF b, e
<1>6. /\ g.allocated_nodes = b /\ g.freed_nodes = e /\ g.committed = h.committed
      /\ g.deleted_by_others = h.deleted_by_others /\ g.next_available_id = h.next_available_id
      /\ g.end_available_id = h.end_available_id /\ g.next_allocation = h.next_allocation
      /\ g \in Handlers
  BY <1>1, <1>2, <1>3, <1>5 DEF Handlers
<1> HIDE DEF g
<1>7. Allocated(g) = ToSet(a) \ {n} /\ Freed(g) = ToSet(e) /\ Allocated(h) = ToSet(a) /\ Freed(h) = ToSet(d)
  BY <1>4, <1>6 DEF Allocated, Freed
<1>8. Allocated(g) \cap Freed(g) = {}
  BY <1>1, <1>5, <1>7
<1>9. Sound(g)
  BY <1>4, <1>5, <1>6, <1>8 DEF Sound
<1> QED
  BY <1>5, <1>6, <1>7, <1>9 DEF Without, g

\* One removal after others.
LEMMA WithoutTwice ==
  ASSUME NEW h, NEW g, NEW f, NEW S, NEW T, Without(h, g, S), Without(g, f, T)
  PROVE  Without(h, f, S \cup T)
<1>1. /\ Allocated(g) = Allocated(h) \ S /\ Allocated(f) = Allocated(g) \ T
      /\ Freed(h) \subseteq Freed(g) /\ Freed(g) \subseteq Freed(h) \cup S
      /\ Freed(g) \subseteq Freed(f) /\ Freed(f) \subseteq Freed(g) \cup T
  BY DEF Without
<1>2. /\ Allocated(f) = Allocated(h) \ (S \cup T)
      /\ Freed(h) \subseteq Freed(f) /\ Freed(f) \subseteq Freed(h) \cup (S \cup T)
  BY <1>1
<1> QED
  BY <1>2 DEF Without

\* ids::free_destroyed_nodes takes the nodes without a creator off the list.
LEMMA FreeIs ==
  ASSUME NEW h, Sound(h)
  PROVE  Without(h, free_destroyed_nodes(h), {m \in Allocated(h) : creator[m] = None})
<1> DEFINE a == h.allocated_nodes
           Dead == {m \in ToSet(a) : creator[m] = None}
           s == Only(a, Dead)
           Rec(F, k) == F = [i \in 0..k |-> IF i = 0 THEN h
                                            ELSE remove_node_from_allocated(F[i - 1], s[i])]
           G == CHOOSE F : Rec(F, Len(s))
<1>1. free_destroyed_nodes(h) = G[Len(s)]
  BY DEF free_destroyed_nodes
<1>2. a \in Seq(Node) /\ Once(a)
  BY DEF Sound, Handlers
<1>3. s \in Seq(Node) /\ ToSet(s) = ToSet(a) \cap Dead /\ Once(s)
  BY <1>2, OnlyIs
<1>4. ToSet(s) = Dead
  BY <1>3
<1> HIDE DEF s
<1>5. Len(s) \in Nat /\ DOMAIN s = 1..Len(s) /\ \A i \in 1..Len(s) : s[i] \in Node
  BY <1>3, LenProperties
<1>6. \A k \in Nat : \E F : Rec(F, k)
  <2> DEFINE Bad == {k \in Nat : ~\E F : Rec(F, k)}
  <2> SUFFICES ASSUME Bad # {} PROVE FALSE
    OBVIOUS
  <2>1. Bad \subseteq Nat
    OBVIOUS
  <2>2. PICK k \in Bad : \A j \in Bad : k <= j
    <3> HIDE DEF Bad
    <3> QED
      BY <2>1, SmallestNat
  <2>3. CASE k = 0
    <3>1. Rec([i \in 0..0 |-> h], 0)
      OBVIOUS
    <3> QED
      BY <2>2, <2>3, <3>1
  <2>4. CASE k # 0
    <3>1. k - 1 \in Nat /\ k - 1 \notin Bad
      <4> HIDE DEF Bad
      <4> QED
        BY <2>1, <2>2, <2>4
    <3>2. PICK E : Rec(E, k - 1)
      BY <3>1
    <3> DEFINE F == [i \in 0..k |-> IF i < k THEN E[i] ELSE remove_node_from_allocated(E[k - 1], s[k])]
    <3>3. ASSUME NEW i \in 0..k
          PROVE  F[i] = IF i = 0 THEN h ELSE remove_node_from_allocated(F[i - 1], s[i])
      <4>1. CASE i = 0
        BY <2>4, <3>2, <4>1
      <4>2. CASE i # 0 /\ i < k
        <5>1. i \in 0..k - 1 /\ i - 1 \in 0..k - 1 /\ i - 1 \in 0..k /\ i - 1 < k
          BY <3>1, <3>3, <4>2
        <5>2. F[i] = E[i] /\ F[i - 1] = E[i - 1]
          BY <3>3, <4>2, <5>1
        <5> QED
          BY <3>2, <4>2, <5>1, <5>2
      <4>3. CASE i = k
        <5>1. i - 1 \in 0..k /\ i - 1 < k /\ ~(i < k)
          BY <3>1, <4>3
        <5>2. F[i - 1] = E[k - 1]
          BY <4>3, <5>1
        <5> QED
          BY <2>4, <3>3, <4>3, <5>1, <5>2
      <4> QED
        BY <3>1, <4>1, <4>2, <4>3
    <3>4. F = [i \in 0..k |-> F[i]]
      OBVIOUS
    <3> HIDE DEF F
    <3>5. Rec(F, k)
      BY <3>3, <3>4
    <3> QED
      BY <2>2, <3>5
  <2> QED
    BY <2>3, <2>4
<1>7. Rec(G, Len(s))
  BY <1>5, <1>6
<1> HIDE DEF G
<1> DEFINE Pre(i) == {s[j] : j \in 1..i}
           Good(i) == Without(h, G[i], Pre(i))
           Bad == {i \in 0..Len(s) : ~Good(i)}
<1>8. Bad = {}
  <2> SUFFICES ASSUME Bad # {} PROVE FALSE
    OBVIOUS
  <2>1. Bad \subseteq Nat
    BY <1>5
  <2>2. PICK k \in Bad : \A j \in Bad : k <= j
    <3> HIDE DEF Bad
    <3> QED
      BY <2>1, SmallestNat
  <2>3. k \in 0..Len(s) /\ k \in Nat
    BY <1>5, <2>2
  <2>4. k # 0
    <3>1. G[0] = h /\ Pre(0) = {}
      BY <1>5, <1>7
    <3>2. Without(h, h, {})
      BY DEF Without
    <3>3. Good(0)
      BY <3>1, <3>2
    <3> QED
      BY <2>2, <3>3
  <2>5. k - 1 \notin Bad /\ k - 1 \in 0..Len(s) /\ k \in 1..Len(s)
    <3> HIDE DEF Bad
    <3> QED
      BY <1>5, <2>2, <2>3, <2>4
  <2>6. Good(k - 1)
    BY <2>5
  <2>7. G[k] = remove_node_from_allocated(G[k - 1], s[k])
    BY <1>7, <2>3, <2>4
  <2>8. Pre(k) = Pre(k - 1) \cup {s[k]}
    <3>1. 1..k = 1..k - 1 \cup {k}
      BY <2>3, <2>4
    <3> QED
      BY <3>1
  <2>9. s[k] \notin Pre(k - 1)
    BY <1>3, <1>5, <2>5 DEF Once
  <2>10. s[k] \in Node /\ s[k] \notin Freed(h)
    <3>1. s[k] \in ToSet(s)
      BY <1>5, <2>5 DEF ToSet
    <3>2. s[k] \in Allocated(h)
      BY <1>4, <3>1 DEF Allocated
    <3> QED
      BY <1>5, <2>5, <3>2 DEF Sound
  <2> HIDE DEF Pre
  <2>11. Sound(G[k - 1]) /\ s[k] \notin Freed(G[k - 1])
    BY <2>6, <2>9, <2>10 DEF Without
  <2>12. Without(G[k - 1], G[k], {s[k]})
    BY <2>7, <2>10, <2>11, RemoveIs
  <2>13. Good(k)
    BY <2>6, <2>8, <2>12, WithoutTwice
  <2> QED
    BY <2>2, <2>13
<1>9. Good(Len(s))
  <2>1. Len(s) \in 0..Len(s)
    BY <1>5
  <2> HIDE DEF Good
  <2> QED
    BY <1>8, <2>1
<1>10. Pre(Len(s)) = Dead
  BY <1>4, <1>5 DEF ToSet
<1> QED
  BY <1>1, <1>9, <1>10 DEF Allocated

\* What ids::create_node begins with: only destroyed nodes have left the list.
LEMMA SweptIs ==
  ASSUME NEW h, Sound(h)
  PROVE  \E S : /\ S \subseteq Allocated(h) /\ (\A m \in S : creator[m] = None)
                /\ Without(h, Swept(h), S)
<1> DEFINE Dead == {m \in Allocated(h) : creator[m] = None}
<1>1. Without(h, h, {})
  BY DEF Without
<1>2. Without(h, free_destroyed_nodes(h), Dead)
  BY FreeIs
<1>3. Swept(h) = h \/ Swept(h) = free_destroyed_nodes(h)
  BY DEF Swept
<1>4. Dead \subseteq Allocated(h) /\ \A m \in Dead : creator[m] = None
  OBVIOUS
<1> HIDE DEF Dead
<1> QED
  BY <1>1, <1>2, <1>3, <1>4

-----------------------------------------------------------------------------
(* Deletion, creation and the end. *)

\* The part of IdsInv that is about the lists and the identifiers.
ListInv == HandlerTypes /\ OnLists /\ Creators /\ Blocks /\ Unique /\ Told

\* One thread's handler changes.
LEMMA OneHandler ==
  ASSUME HandlerTypes, NEW t \in Thread, NEW w \in Handlers, ids' = [ids EXCEPT ![t] = w]
  PROVE  ids' \in [Thread -> Handlers] /\ ids'[t] = w /\ \A u \in Thread \ {t} : ids'[u] = ids[u]
  BY DEF HandlerTypes

\* The lists are finite sets of nodes.
LEMMA HandlerSets ==
  ASSUME NEW h, Sound(h)
  PROVE  /\ Allocated(h) \subseteq Node /\ Freed(h) \subseteq Node
         /\ \A S : IsFiniteSet(Allocated(h) \ S) /\ Cardinality(Allocated(h) \ S) \in Nat
         /\ h \in Handlers
<1>1. h.allocated_nodes \in Seq(Node) /\ h.freed_nodes \in Seq(Node) /\ h \in Handlers
  BY DEF Sound, Handlers
<1>2. Allocated(h) \subseteq Node /\ Freed(h) \subseteq Node
  BY <1>1, SeqSet DEF Allocated, Freed
<1>3. ASSUME NEW S PROVE IsFiniteSet(Allocated(h) \ S) /\ Cardinality(Allocated(h) \ S) \in Nat
  <2>1. Allocated(h) \ S \subseteq Node
    BY <1>2
  <2> QED
    BY <2>1, Constants, FS_Subset, FS_CardinalityType
<1> QED
  BY <1>1, <1>2, <1>3

\* The handler of the creator after another thread deleted one of its nodes.
ToldOf(h) == [h EXCEPT !.deleted_by_others = @ + 1]

\* A handler that is told of a deletion by another thread only counts it.
LEMMA ToldOfIs ==
  ASSUME NEW h, Sound(h)
  PROVE  /\ Sound(ToldOf(h)) /\ Allocated(ToldOf(h)) = Allocated(h) /\ Freed(ToldOf(h)) = Freed(h)
         /\ ToldOf(h).committed = h.committed
         /\ ToldOf(h).next_available_id = h.next_available_id
         /\ ToldOf(h).end_available_id = h.end_available_id
         /\ ToldOf(h).deleted_by_others = h.deleted_by_others + 1
<1> DEFINE g == ToldOf(h)
<1>1. h \in Handlers
  BY DEF Sound
<1>2. /\ g \in Handlers /\ g.allocated_nodes = h.allocated_nodes /\ g.freed_nodes = h.freed_nodes
      /\ g.committed = h.committed /\ g.next_available_id = h.next_available_id
      /\ g.end_available_id = h.end_available_id
      /\ g.deleted_by_others = h.deleted_by_others + 1
  <2> DEFINE k == h.deleted_by_others + 1
  <2>1. k \in Nat /\ g = [h EXCEPT !.deleted_by_others = k]
    BY <1>1 DEF Handlers, ToldOf
  <2> HIDE DEF g, k
  <2>2. /\ g \in Handlers /\ g.allocated_nodes = h.allocated_nodes /\ g.freed_nodes = h.freed_nodes
        /\ g.committed = h.committed /\ g.next_available_id = h.next_available_id
        /\ g.end_available_id = h.end_available_id /\ g.deleted_by_others = k
    BY <1>1, <2>1 DEF Handlers
  <2> QED
    BY <2>2 DEF k
<1> HIDE DEF g
<1>3. Allocated(g) = Allocated(h) /\ Freed(g) = Freed(h)
  BY <1>2 DEF Allocated, Freed
<1>4. Sound(g)
  BY <1>2, <1>3 DEF Sound
<1> QED
  BY <1>2, <1>3, <1>4 DEF g

\* ids::delete_node, of a node created by a rule.
LEMMA DeleteKeeps ==
  ASSUME LifeTypes, ListInv, \A u \in Thread : ids[u].committed = {},
         NEW t \in Thread, NEW n \in live \ Initial, delete_node(t, n)
  PROVE  ListInv' /\ \A u \in Thread : ids'[u].committed = {}
<1> USE DEF ListInv
<1> DEFINE c == creator[n]
           h == ids[c]
           w == IF c = t THEN remove_node_from_allocated(h, n) ELSE ToldOf(h)
<1>1. c \in Thread /\ n \in Allocated(h) /\ Sound(h) /\ n \in Node /\ n \notin Freed(h)
  BY DEF Creators, HandlerTypes, LifeTypes, OnLists
<1>2. /\ live' = live \ {n} /\ created' = created /\ id' = id /\ max_node_id' = max_node_id
      /\ ids' = [ids EXCEPT ![c] = w]
      /\ creator' = IF c = t THEN creator ELSE [creator EXCEPT ![n] = None]
  BY DEF delete_node, ToldOf
<1>3. c = t => Without(h, w, {n})
  BY <1>1, RemoveIs
<1>4. c # t => /\ Sound(w) /\ Allocated(w) = Allocated(h) /\ Freed(w) = Freed(h)
               /\ w.committed = h.committed /\ w.next_available_id = h.next_available_id
               /\ w.end_available_id = h.end_available_id
               /\ w.deleted_by_others = h.deleted_by_others + 1
  BY <1>1, ToldOfIs
<1> HIDE DEF w
<1>5. /\ Sound(w) /\ w \in Handlers /\ w.committed = {}
      /\ w.next_available_id = h.next_available_id /\ w.end_available_id = h.end_available_id
  BY <1>1, <1>3, <1>4 DEF Without, Sound
<1>6. /\ Allocated(w) = IF c = t THEN Allocated(h) \ {n} ELSE Allocated(h)
      /\ Freed(h) \subseteq Freed(w)
      /\ Freed(w) \subseteq IF c = t THEN Freed(h) \cup {n} ELSE Freed(h)
      /\ w.deleted_by_others = IF c = t THEN h.deleted_by_others ELSE h.deleted_by_others + 1
  BY <1>3, <1>4 DEF Without
<1>7. ids' \in [Thread -> Handlers] /\ ids'[c] = w /\ \A u \in Thread \ {c} : ids'[u] = ids[u]
  BY <1>1, <1>2, <1>5, OneHandler
<1>8. \A u \in Thread : ids'[u].committed = {}
  BY <1>5, <1>7
<1>9. HandlerTypes'
  <2>1. \A u \in Thread : Sound(ids'[u])
    BY <1>5, <1>7 DEF HandlerTypes
  <2>2. creator' \in [Node -> Thread \cup {None}]
    BY <1>2 DEF HandlerTypes
  <2> QED
    BY <1>2, <1>7, <2>1, <2>2 DEF HandlerTypes
<1>10. \A u \in Thread : /\ Allocated(ids'[u]) \subseteq Allocated(ids[u])
                         /\ Freed(ids'[u]) \subseteq Freed(ids[u]) \cup (IF u = c THEN {n} ELSE {})
                         /\ n \in Freed(ids'[u]) => c = t
                         /\ Block(ids'[u]) = Block(ids[u])
  <2>1. Block(w) = Block(h)
    BY <1>5 DEF Block
  <2>2. \A u \in Thread : n \notin Freed(ids[u])
    BY DEF OnLists
  <2> QED
    BY <1>6, <1>7, <2>1, <2>2
<1>11. \A u \in Thread : Allocated(ids'[u]) \cup Freed(ids'[u]) \subseteq Allocated(ids[u]) \cup Freed(ids[u])
  BY <1>1, <1>10
<1>12. OnLists'
  <2>1. \A u, v \in Thread : u # v =>
          (Allocated(ids'[u]) \cup Freed(ids'[u])) \cap (Allocated(ids'[v]) \cup Freed(ids'[v])) = {}
    <3>1. \A u, v \in Thread : u # v =>
            (Allocated(ids[u]) \cup Freed(ids[u])) \cap (Allocated(ids[v]) \cup Freed(ids[v])) = {}
      BY DEF OnLists
    <3> QED
      BY <1>11, <3>1
  <2>2. \A u \in Thread : \A k \in Allocated(ids'[u]) \cup Freed(ids'[u]) :
          k \in Created /\ k <= NUM_THREADS + created
    BY <1>11 DEF OnLists
  <2>3. \A u \in Thread : Freed(ids'[u]) \cap live' = {}
    BY <1>2, <1>10 DEF OnLists
  <2>4. ASSUME NEW u \in Thread, NEW k \in Allocated(ids'[u])
        PROVE  creator'[k] = IF k \in live' THEN u ELSE None
    <3>1. k \in Allocated(ids[u]) /\ k \in Node
      BY <1>10, <2>4, HandlerSets DEF HandlerTypes
    <3>2. creator[k] = IF k \in live THEN u ELSE None
      BY <3>1 DEF OnLists
    <3>3. CASE k = n
      <4>1. u = c
        BY <1>1, <3>1, <3>3 DEF OnLists
      <4>2. c # t
        BY <1>6, <1>7, <2>4, <3>3, <4>1
      <4> QED
        BY <1>2, <3>1, <3>3, <4>2 DEF HandlerTypes
    <3>4. CASE k # n
      BY <1>2, <3>1, <3>2, <3>4 DEF HandlerTypes
    <3> QED
      BY <3>3, <3>4
  <2> QED
    BY <1>2, <2>1, <2>2, <2>3, <2>4 DEF OnLists
<1>13. Creators'
  <2>1. ASSUME NEW k \in live' \ Initial
        PROVE  creator'[k] \in Thread /\ k \in Allocated(ids'[creator'[k]])
    <3>1. k \in live \ Initial /\ k # n /\ k \in Node
      BY <1>2, <2>1 DEF LifeTypes
    <3>2. creator'[k] = creator[k]
      BY <1>2, <3>1 DEF HandlerTypes
    <3>3. creator[k] \in Thread /\ k \in Allocated(ids[creator[k]])
      BY <3>1 DEF Creators
    <3>4. k \in Allocated(ids'[creator[k]])
      BY <1>6, <1>7, <3>1, <3>3
    <3> QED
      BY <3>2, <3>3, <3>4
  <2>2. \A k \in Initial : creator'[k] = None
    <3>1. \A k \in Initial : creator[k] = None /\ k # n /\ k \in Node
      BY DEF Creators, Node
    <3> QED
      BY <1>2, <3>1 DEF HandlerTypes
  <2> QED
    BY <1>8, <2>1, <2>2 DEF Creators
<1>14. Blocks'
  <2>1. \A u \in Thread : /\ ids'[u].next_available_id = ids[u].next_available_id
                          /\ ids'[u].end_available_id = ids[u].end_available_id
    BY <1>5, <1>7
  <2> QED
    BY <1>2, <1>10, <2>1 DEF Blocks
<1>15. Unique'
  <2>1. \A k \in Node : Held(k)' => Held(k)
    <3>1. ASSUME NEW k \in Node, Held(k)' PROVE Held(k)
      <4>1. k \in live' \/ \E u \in Thread : k \in Allocated(ids'[u]) \cup Freed(ids'[u])
        BY <3>1 DEF Held
      <4> QED
        BY <1>2, <1>11, <4>1 DEF Held
    <3> QED
      BY <3>1
  <2> HIDE DEF Held
  <2> QED
    BY <1>2, <1>10, <2>1 DEF Unique
<1>16. Told'
  <2> SUFFICES ASSUME NEW u \in Thread
               PROVE  Cardinality(Allocated(ids'[u]) \ live') <= ids'[u].deleted_by_others
    BY DEF Told
  <2>1. Cardinality(Allocated(ids[u]) \ live) <= ids[u].deleted_by_others
    BY DEF Told
  <2>2. CASE u # c
    <3>1. ids'[u] = ids[u]
      BY <1>7, <2>2
    <3>2. n \notin Allocated(ids[u])
      BY <1>1, <2>2 DEF OnLists
    <3>3. Allocated(ids[u]) \ live' = Allocated(ids[u]) \ live
      BY <1>2, <3>2
    <3> QED
      BY <2>1, <3>1, <3>3
  <2>3. CASE u = c /\ c = t
    <3>1. Allocated(w) \ live' = Allocated(h) \ live
      BY <1>2, <1>6, <2>3
    <3> QED
      BY <1>6, <1>7, <2>1, <2>3, <3>1
  <2>4. CASE u = c /\ c # t
    <3>1. Allocated(w) \ live' = (Allocated(h) \ live) \cup {n} /\ n \notin Allocated(h) \ live
      BY <1>1, <1>2, <1>6, <2>4
    <3>2. IsFiniteSet(Allocated(h) \ live) /\ Cardinality(Allocated(h) \ live) \in Nat
      BY <1>1, HandlerSets
    <3>3. Cardinality(Allocated(w) \ live') = Cardinality(Allocated(h) \ live) + 1
      BY <3>1, <3>2, FS_AddElement
    <3>4. h.deleted_by_others \in Nat
      BY <1>1 DEF Sound, Handlers
    <3> QED
      <4> DEFINE x == Cardinality(Allocated(h) \ live)
                 y == h.deleted_by_others
      <4>1. ids'[u] = w /\ x <= y /\ w.deleted_by_others = y + 1
        BY <1>6, <1>7, <2>1, <2>4
      <4>2. x \in Nat /\ y \in Nat /\ Cardinality(Allocated(w) \ live') = x + 1
        BY <3>2, <3>3, <3>4
      <4> HIDE DEF x, y
      <4>3. x + 1 <= y + 1
        BY <4>1, <4>2
      <4> QED
        BY <4>1, <4>2, <4>3
  <2> QED
    BY <2>2, <2>3, <2>4
<1> QED
  BY <1>8, <1>9, <1>12, <1>13, <1>14, <1>15, <1>16

\* What is left of a list without its first member.
LEMMA RestIs ==
  ASSUME NEW D, NEW s \in Seq(D), Once(s), s # <<>>
  PROVE  /\ Tail(s) \in Seq(D) /\ Once(Tail(s)) /\ Len(Tail(s)) <= Len(s)
         /\ Head(s) \in ToSet(s) /\ ToSet(Tail(s)) = ToSet(s) \ {Head(s)}
<1> DEFINE r == Tail(s)
<1>1. /\ Len(s) \in Nat \ {0} /\ DOMAIN s = 1..Len(s) /\ Head(s) = s[1]
      /\ r \in Seq(D) /\ Len(r) = Len(s) - 1 /\ DOMAIN r = 1..Len(s) - 1
      /\ \A i \in 1..Len(s) - 1 : r[i] = s[i + 1]
  BY HeadTailProperties, LenProperties, EmptySeq
<1> HIDE DEF r
<1>2. Once(r)
  <2> SUFFICES ASSUME NEW i \in DOMAIN r, NEW j \in DOMAIN r, r[i] = r[j] PROVE i = j
    BY DEF Once
  <2>1. i + 1 \in DOMAIN s /\ j + 1 \in DOMAIN s /\ s[i + 1] = s[j + 1] /\ i \in Int /\ j \in Int
    BY <1>1
  <2>2. i + 1 = j + 1
    BY <2>1 DEF Once
  <2> QED
    BY <2>1, <2>2
<1>3. ASSUME NEW x \in ToSet(r) PROVE x \in ToSet(s) /\ x # Head(s)
  <2>1. PICK i \in DOMAIN r : x = r[i]
    BY <1>3 DEF ToSet
  <2>2. i + 1 \in DOMAIN s /\ x = s[i + 1] /\ i + 1 # 1 /\ 1 \in DOMAIN s
    BY <1>1, <2>1
  <2> QED
    BY <1>1, <2>2 DEF ToSet, Once
<1>4. ASSUME NEW x \in ToSet(s), x # Head(s) PROVE x \in ToSet(r)
  <2>1. PICK i \in DOMAIN s : x = s[i]
    BY <1>4 DEF ToSet
  <2>2. i # 1 /\ i \in 1..Len(s)
    BY <1>1, <1>4, <2>1
  <2>3. i - 1 \in DOMAIN r /\ (i - 1) + 1 = i
    BY <1>1, <2>2
  <2>4. r[i - 1] = s[(i - 1) + 1]
    BY <1>1, <2>3
  <2> QED
    BY <2>1, <2>3, <2>4 DEF ToSet
<1>5. Head(s) \in ToSet(s)
  BY <1>1 DEF ToSet
<1> QED
  BY <1>1, <1>2, <1>3, <1>4, <1>5 DEF r

\* w is handler h with node m in front of its list, and g its freed nodes.
Listed(h, w, m, g) ==
  /\ w \in Handlers /\ w.allocated_nodes = <<m>> \o h.allocated_nodes /\ w.freed_nodes = g
  /\ w.committed = h.committed /\ w.deleted_by_others = h.deleted_by_others

\* A handler that gives out m and is left with the freed nodes g stays sound.
LEMMA ListedIs ==
  ASSUME NEW h, Sound(h), NEW w, NEW m \in Node, NEW g, Listed(h, w, m, g),
         m \notin Allocated(h) \cup Freed(h),
         g \in Seq(Node), Once(g), Len(g) <= Len(h.freed_nodes), ToSet(g) \subseteq Freed(h)
  PROVE  /\ Sound(w) /\ Allocated(w) = Allocated(h) \cup {m} /\ Freed(w) = ToSet(g)
<1> DEFINE a == h.allocated_nodes
           b == <<m>> \o a
<1>1. /\ a \in Seq(Node) /\ Once(a) /\ Len(h.freed_nodes) <= FREED_MAX
      /\ h.freed_nodes \in Seq(Node) /\ ToSet(a) = Allocated(h) /\ Allocated(h) \cap Freed(h) = {}
  BY DEF Sound, Handlers, Allocated
<1>2. b \in Seq(Node) /\ ToSet(b) = ToSet(a) \cup {m} /\ Once(b)
  BY <1>1, InFront
<1> HIDE DEF a, b
<1>3. w \in Handlers /\ w.allocated_nodes = b /\ w.freed_nodes = g
  BY DEF Listed, a, b
<1>4. Allocated(w) = Allocated(h) \cup {m} /\ Freed(w) = ToSet(g)
  BY <1>1, <1>2, <1>3 DEF Allocated, Freed
<1>5. Len(g) <= FREED_MAX
  BY <1>1, LenProperties, LifeAssumption
<1>6. Allocated(w) \cap Freed(w) = {}
  BY <1>1, <1>4
<1> QED
  BY <1>2, <1>3, <1>4, <1>5, <1>6 DEF Sound

\* The node m created by thread t gets the identifier x and the handler becomes w: what was
\* alive stays on the list, what is taken was free.
Gets(t, m, w, x) ==
  LET h == ids[t] IN
  /\ Sound(w) /\ w.committed = h.committed /\ w.deleted_by_others = h.deleted_by_others
  /\ m \in Allocated(w) /\ Allocated(w) \subseteq Allocated(h) \cup {m}
  /\ \A k \in Allocated(h) : k \in live => k \in Allocated(w)
  /\ Freed(w) \subseteq (Allocated(h) \cup Freed(h)) \ live
  /\ x \in Nat /\ NUM_THREADS < x /\ x <= max_node_id'
  /\ max_node_id' \in Nat /\ max_node_id <= max_node_id'
  /\ NUM_THREADS < w.next_available_id /\ w.next_available_id <= w.end_available_id
  /\ w.end_available_id <= max_node_id' + 1
  /\ \A y \in Block(w) : y # x /\ (y \in Block(h) \/ y > max_node_id)
  /\ \A u \in Thread \ {t} : x \notin Block(ids[u])
  /\ \A k \in Node : Held(k) /\ id[k] = x => k \in Freed(h) \cup Allocated(h) /\ k \notin live
                                             /\ k \notin Allocated(w) \cup Freed(w)

\* ids::create_node: a freed node gives its identifier to the new one.
LEMMA ReuseGets ==
  ASSUME LifeTypes, ListInv, NEW t \in Thread, NEW m \in Node,
         m \notin Allocated(ids[t]) \cup Freed(ids[t]),
         NEW h, NEW S, Without(ids[t], h, S), S \subseteq Allocated(ids[t]), S \cap live = {},
         h.freed_nodes # <<>>, max_node_id' = max_node_id
  PROVE  Gets(t, m, [h EXCEPT !.freed_nodes = Tail(@), !.allocated_nodes = <<m>> \o @],
              id[Head(h.freed_nodes)])
<1> DEFINE o == ids[t]
           d == h.freed_nodes
           z == Head(d)
           w == [h EXCEPT !.freed_nodes = Tail(d), !.allocated_nodes = <<m>> \o h.allocated_nodes]
<1>1. /\ Sound(h) /\ Sound(o) /\ Allocated(h) = Allocated(o) \ S
      /\ Freed(h) \subseteq Freed(o) \cup S
      /\ h.committed = o.committed /\ h.deleted_by_others = o.deleted_by_others
      /\ h.next_available_id = o.next_available_id /\ h.end_available_id = o.end_available_id
  BY DEF Without, ListInv, HandlerTypes
<1>2. /\ h \in Handlers /\ h.allocated_nodes \in Seq(Node) /\ d \in Seq(Node) /\ Once(d)
      /\ Freed(h) = ToSet(d) /\ Allocated(h) \cap Freed(h) = {}
  BY <1>1 DEF Sound, Handlers, Freed
<1>3. /\ Tail(d) \in Seq(Node) /\ Once(Tail(d)) /\ Len(Tail(d)) <= Len(d)
      /\ z \in ToSet(d) /\ ToSet(Tail(d)) = ToSet(d) \ {z}
  BY <1>2, RestIs
<1>4. m \notin Allocated(h) \cup Freed(h)
  BY <1>1
<1>5. <<m>> \o h.allocated_nodes \in Seq(Node)
  BY <1>2, InFront
<1>6. /\ Listed(h, w, m, Tail(d)) /\ w.next_available_id = h.next_available_id
      /\ w.end_available_id = h.end_available_id
  <2> DEFINE a == <<m>> \o h.allocated_nodes
             e == Tail(d)
  <2>1. a \in Seq(Node) /\ e \in Seq(Node) /\ w = [h EXCEPT !.freed_nodes = e, !.allocated_nodes = a]
    BY <1>3, <1>5
  <2> HIDE DEF a, e, w
  <2>2. /\ w \in Handlers /\ w.allocated_nodes = a /\ w.freed_nodes = e /\ w.committed = h.committed
        /\ w.deleted_by_others = h.deleted_by_others
        /\ w.next_available_id = h.next_available_id /\ w.end_available_id = h.end_available_id
    BY <1>2, <2>1 DEF Handlers
  <2> QED
    BY <2>2 DEF Listed, a, e
<1> HIDE DEF w, z, d
<1>7. Sound(w) /\ Allocated(w) = Allocated(h) \cup {m} /\ Freed(w) = Freed(h) \ {z}
  <2>1. ToSet(Tail(d)) \subseteq Freed(h) /\ Len(Tail(d)) <= Len(h.freed_nodes)
    BY <1>2, <1>3 DEF d
  <2>2. Sound(w) /\ Allocated(w) = Allocated(h) \cup {m} /\ Freed(w) = ToSet(Tail(d))
    <3> DEFINE e == Tail(d)
    <3>1. Sound(h)
      BY <1>1
    <3>2. e \in Seq(Node) /\ Once(e)
      BY <1>3
    <3>3. Len(e) <= Len(h.freed_nodes) /\ ToSet(e) \subseteq Freed(h)
      BY <2>1
    <3>4. Listed(h, w, m, e)
      BY <1>6
    <3> HIDE DEF e
    <3>5. Sound(w) /\ Allocated(w) = Allocated(h) \cup {m} /\ Freed(w) = ToSet(e)
      BY <1>4, <3>1, <3>2, <3>3, <3>4, ListedIs
    <3> QED
      BY <3>5 DEF e
  <2> QED
    BY <1>2, <1>3, <2>2
<1>8. z \in Freed(o) \cup S /\ z \notin live /\ z \in Node /\ Held(z)
  <2>1. z \in Freed(h) /\ Freed(o) \cap live = {}
    BY <1>2, <1>3 DEF ListInv, OnLists
  <2>2. z \in Node
    BY <1>1, <2>1, HandlerSets
  <2> QED
    BY <1>1, <2>1, <2>2 DEF Held
<1>9. z \notin Initial
  BY <1>8 DEF LifeTypes
<1> DEFINE x == id[z]
<1>10. x \in Nat /\ NUM_THREADS < x /\ x <= max_node_id /\ \A u \in Thread : x \notin Block(ids[u])
  BY <1>8, <1>9 DEF ListInv, Unique, HandlerTypes
<1>11. \A k \in Node : Held(k) /\ id[k] = x => k = z
  BY <1>8 DEF ListInv, Unique
<1>12. z \notin Allocated(w) \cup Freed(w)
  <2>1. z \in Freed(h) /\ z # m
    BY <1>2, <1>3, <1>4
  <2> QED
    BY <1>2, <1>7, <2>1
<1>13. Block(w) = Block(o)
  BY <1>1, <1>6 DEF Block
<1>14. /\ NUM_THREADS < w.next_available_id /\ w.next_available_id <= w.end_available_id
       /\ w.end_available_id <= max_node_id + 1 /\ max_node_id \in Nat
  BY <1>1, <1>6 DEF ListInv, Blocks, HandlerTypes
<1>15. w.committed = o.committed /\ w.deleted_by_others = o.deleted_by_others
  BY <1>1, <1>6 DEF Listed
<1>16. /\ m \in Allocated(w) /\ Allocated(w) \subseteq Allocated(o) \cup {m}
       /\ \A k \in Allocated(o) : k \in live => k \in Allocated(w)
       /\ Freed(w) \subseteq (Allocated(o) \cup Freed(o)) \ live
  <2>1. Freed(o) \cap live = {}
    BY DEF ListInv, OnLists
  <2> QED
    BY <1>1, <1>7, <2>1
<1>17. \A y \in Block(w) : y # x /\ y \in Block(o)
  BY <1>10, <1>13
<1>18. \A k \in Node : Held(k) /\ id[k] = x => k \in Freed(o) \cup Allocated(o) /\ k \notin live
                                                /\ k \notin Allocated(w) \cup Freed(w)
  BY <1>8, <1>11, <1>12
<1> HIDE DEF x
<1>19. max_node_id' \in Nat /\ max_node_id <= max_node_id'
  BY <1>14
<1>20. Gets(t, m, w, x)
  BY <1>7, <1>10, <1>14, <1>15, <1>16, <1>17, <1>18, <1>19 DEF Gets
<1> QED
  BY <1>20 DEF w, x, z, d

\* ids::create_node: the new node gets the next identifier of the block, or the first one of
\* a new block.
LEMMA NextGets ==
  ASSUME LifeTypes, ListInv, NEW t \in Thread, NEW m \in Node,
         m \notin Allocated(ids[t]) \cup Freed(ids[t]),
         NEW h, NEW S, Without(ids[t], h, S), S \subseteq Allocated(ids[t]), S \cap live = {},
         NEW g, g = IF h.next_available_id = h.end_available_id THEN allocate_more_ids(h) ELSE h,
         max_node_id' = IF h.next_available_id = h.end_available_id
                        THEN max_node_id + g.next_allocation ELSE max_node_id
  PROVE  Gets(t, m, [g EXCEPT !.next_available_id = @ + 1, !.allocated_nodes = <<m>> \o @],
              g.next_available_id)
<1> DEFINE o == ids[t]
           x == g.next_available_id
           w == [g EXCEPT !.next_available_id = x + 1, !.allocated_nodes = <<m>> \o g.allocated_nodes]
           spent == h.next_available_id = h.end_available_id
<1>1. /\ Sound(h) /\ Sound(o) /\ Allocated(h) = Allocated(o) \ S
      /\ Freed(h) \subseteq Freed(o) \cup S
      /\ h.committed = o.committed /\ h.deleted_by_others = o.deleted_by_others
      /\ h.next_available_id = o.next_available_id /\ h.end_available_id = o.end_available_id
  BY DEF Without, ListInv, HandlerTypes
<1>2. /\ h \in Handlers /\ h.allocated_nodes \in Seq(Node) /\ h.freed_nodes \in Seq(Node)
      /\ Once(h.freed_nodes) /\ Freed(h) = ToSet(h.freed_nodes)
      /\ h.next_available_id \in Nat /\ h.end_available_id \in Nat /\ h.next_allocation \in Nat \ {0}
  BY <1>1 DEF Sound, Handlers, Freed
<1>3. /\ NUM_THREADS < h.next_available_id /\ h.next_available_id <= h.end_available_id
      /\ h.end_available_id <= max_node_id + 1 /\ max_node_id \in Nat /\ NUM_THREADS <= max_node_id
      /\ NUM_THREADS \in Nat
  BY <1>1, LifeAssumption DEF ListInv, Blocks, HandlerTypes
<1> DEFINE a == h.next_allocation * 4
<1>4. a \in Nat /\ a >= 1
  BY <1>2
<1>5. /\ g \in Handlers /\ g.allocated_nodes = h.allocated_nodes /\ g.freed_nodes = h.freed_nodes
      /\ g.committed = h.committed /\ g.deleted_by_others = h.deleted_by_others
      /\ g.next_available_id = IF spent THEN max_node_id + 1 ELSE h.next_available_id
      /\ g.end_available_id = IF spent THEN max_node_id + 1 + a ELSE h.end_available_id
      /\ max_node_id' = IF spent THEN max_node_id + a ELSE max_node_id
  <2>1. CASE spent
    <3> DEFINE p == max_node_id + 1
               q == max_node_id + 1 + a
    <3>1. p \in Nat /\ q \in Nat /\ a \in Nat \ {0}
      BY <1>3, <1>4
    <3>2. g = [h EXCEPT !.next_allocation = a, !.next_available_id = p, !.end_available_id = q]
      BY <2>1 DEF allocate_more_ids
    <3> HIDE DEF a, p, q
    <3>3. /\ g \in Handlers /\ g.allocated_nodes = h.allocated_nodes /\ g.freed_nodes = h.freed_nodes
          /\ g.committed = h.committed /\ g.deleted_by_others = h.deleted_by_others
          /\ g.next_available_id = p /\ g.end_available_id = q /\ g.next_allocation = a
      BY <1>2, <3>1, <3>2 DEF Handlers
    <3> QED
      BY <2>1, <3>3 DEF p, q
  <2>2. CASE ~spent
    BY <1>2, <2>2
  <2> QED
    BY <2>1, <2>2
<1> HIDE DEF a
<1>6. m \notin Allocated(h) \cup Freed(h)
  BY <1>1
<1>7. <<m>> \o h.allocated_nodes \in Seq(Node)
  BY <1>2, InFront
<1>8. x \in Nat
  BY <1>5 DEF Handlers
<1>9. /\ Listed(h, w, m, h.freed_nodes) /\ w.next_available_id = x + 1
      /\ w.end_available_id = g.end_available_id
  <2> DEFINE b == <<m>> \o g.allocated_nodes
             y == x + 1
  <2>1. b = <<m>> \o h.allocated_nodes /\ b \in Seq(Node) /\ y \in Nat
    BY <1>5, <1>7, <1>8
  <2>2. w = [g EXCEPT !.next_available_id = y, !.allocated_nodes = b]
    OBVIOUS
  <2> HIDE DEF b, y, w, x
  <2>3. /\ w \in Handlers /\ w.allocated_nodes = b /\ w.freed_nodes = h.freed_nodes
        /\ w.committed = h.committed /\ w.deleted_by_others = h.deleted_by_others
        /\ w.next_available_id = y /\ w.end_available_id = g.end_available_id
    BY <1>5, <2>1, <2>2 DEF Handlers
  <2> QED
    BY <2>1, <2>3 DEF Listed, y
<1> HIDE DEF w
<1>10. Sound(w) /\ Allocated(w) = Allocated(h) \cup {m} /\ Freed(w) = Freed(h)
  <2>1. ToSet(h.freed_nodes) \subseteq Freed(h) /\ Len(h.freed_nodes) <= Len(h.freed_nodes)
    BY <1>2, LenProperties
  <2>2. Sound(w) /\ Allocated(w) = Allocated(h) \cup {m} /\ Freed(w) = ToSet(h.freed_nodes)
    <3> DEFINE e == h.freed_nodes
    <3>1. Sound(h)
      BY <1>1
    <3>2. e \in Seq(Node) /\ Once(e)
      BY <1>2
    <3>3. Len(e) <= Len(h.freed_nodes) /\ ToSet(e) \subseteq Freed(h)
      BY <2>1
    <3>4. Listed(h, w, m, e)
      BY <1>9
    <3> HIDE DEF e
    <3>5. Sound(w) /\ Allocated(w) = Allocated(h) \cup {m} /\ Freed(w) = ToSet(e)
      BY <1>6, <3>1, <3>2, <3>3, <3>4, ListedIs
    <3> QED
      BY <3>5 DEF e
  <2> QED
    BY <1>2, <2>2
<1>11. /\ NUM_THREADS < x /\ x <= max_node_id' /\ max_node_id' \in Nat /\ max_node_id <= max_node_id'
       /\ NUM_THREADS < w.next_available_id /\ w.next_available_id <= w.end_available_id
       /\ w.end_available_id <= max_node_id' + 1
  BY <1>2, <1>3, <1>4, <1>5, <1>9
<1>12. x \in Block(o) \/ x > max_node_id
  BY <1>1, <1>2, <1>3, <1>5 DEF Block
<1>13. \A y \in Block(w) : y # x /\ (y \in Block(o) \/ y > max_node_id)
  BY <1>1, <1>2, <1>3, <1>4, <1>5, <1>9 DEF Block
<1>14. \A u \in Thread \ {t} : x \notin Block(ids[u])
  <2> SUFFICES ASSUME NEW u \in Thread \ {t}, x \in Block(ids[u]) PROVE FALSE
    OBVIOUS
  <2>1. ids[u].end_available_id <= max_node_id + 1 /\ Block(ids[t]) \cap Block(ids[u]) = {}
    BY DEF ListInv, Blocks
  <2>2. ids[u].end_available_id \in Nat /\ ids[u].next_available_id \in Nat
    BY DEF ListInv, HandlerTypes, Handlers
  <2>3. x <= max_node_id
    BY <1>3, <1>8, <2>1, <2>2 DEF Block
  <2> QED
    BY <1>3, <1>8, <1>12, <2>1, <2>3
<1>15. \A k \in Node : Held(k) => id[k] # x
  <2> SUFFICES ASSUME NEW k \in Node, Held(k), id[k] = x PROVE FALSE
    OBVIOUS
  <2>1. id[k] \notin Block(o) /\ id[k] <= max_node_id
    <3>1. k \in Initial => id[k] = k /\ k <= NUM_THREADS /\ k \in Nat
      BY <1>3 DEF ListInv, Unique, Initial
    <3>2. k \notin Initial => id[k] <= max_node_id
      BY DEF ListInv, Unique
    <3>3. id[k] \notin Block(o)
      BY DEF ListInv, Unique
    <3> QED
      BY <1>3, <3>1, <3>2, <3>3
  <2> QED
    BY <1>3, <1>8, <1>12, <2>1
<1>16. w.committed = o.committed /\ w.deleted_by_others = o.deleted_by_others
  BY <1>1, <1>9 DEF Listed
<1>17. /\ m \in Allocated(w) /\ Allocated(w) \subseteq Allocated(o) \cup {m}
       /\ \A k \in Allocated(o) : k \in live => k \in Allocated(w)
       /\ Freed(w) \subseteq (Allocated(o) \cup Freed(o)) \ live
  <2>1. Freed(o) \cap live = {}
    BY DEF ListInv, OnLists
  <2> QED
    BY <1>1, <1>10, <2>1
<1> HIDE DEF x
<1>18. Gets(t, m, w, x)
  BY <1>8, <1>10, <1>11, <1>13, <1>14, <1>15, <1>16, <1>17 DEF Gets
<1> QED
  BY <1>18 DEF w, x

\* ids::create_node, for the next node of the model.
LEMMA CreateGets ==
  ASSUME LifeTypes, ListInv, NEW t \in Thread, NEW m \in Created, m = NUM_THREADS + created + 1,
         create_node(t, m)
  PROVE  \E w, x : /\ Gets(t, m, w, x)
                   /\ ids' = [ids EXCEPT ![t] = w] /\ id' = [id EXCEPT ![m] = x]
<1> DEFINE h == Swept(ids[t])
           spent == h.next_available_id = h.end_available_id
           g == IF spent THEN allocate_more_ids(h) ELSE h
           used == [h EXCEPT !.freed_nodes = Tail(@), !.allocated_nodes = <<m>> \o @]
           new == [g EXCEPT !.next_available_id = @ + 1, !.allocated_nodes = <<m>> \o @]
<1>1. IF h.freed_nodes # <<>>
      THEN /\ id' = [id EXCEPT ![m] = id[Head(h.freed_nodes)]]
           /\ ids' = [ids EXCEPT ![t] = used]
           /\ max_node_id' = max_node_id
      ELSE /\ id' = [id EXCEPT ![m] = g.next_available_id]
           /\ ids' = [ids EXCEPT ![t] = new]
           /\ max_node_id' = IF spent THEN max_node_id + g.next_allocation ELSE max_node_id
  BY DEF create_node
<1>2. Sound(ids[t])
  BY DEF ListInv, HandlerTypes
<1> HIDE DEF h
<1>3. PICK S : /\ S \subseteq Allocated(ids[t]) /\ (\A k \in S : creator[k] = None)
               /\ Without(ids[t], h, S)
  BY <1>2, SweptIs DEF h
<1>4. S \cap live = {}
  <2>1. \A k \in Allocated(ids[t]) : creator[k] = IF k \in live THEN t ELSE None
    BY DEF ListInv, OnLists
  <2>2. t # None
    BY Constants DEF Node
  <2> QED
    BY <1>3, <2>1, <2>2
<1>5. m \in Node /\ m \notin Allocated(ids[t]) \cup Freed(ids[t])
  <2>1. \A k \in Allocated(ids[t]) \cup Freed(ids[t]) : k <= NUM_THREADS + created
    BY DEF ListInv, OnLists
  <2>2. created \in Nat /\ NUM_THREADS \in Nat
    BY Constants DEF LifeTypes
  <2> QED
    BY <2>1, <2>2 DEF Node
<1>6. CASE h.freed_nodes # <<>>
  <2>1. Gets(t, m, used, id[Head(h.freed_nodes)])
    BY <1>1, <1>3, <1>4, <1>5, <1>6, ReuseGets
  <2> HIDE DEF used
  <2> QED
    BY <1>1, <1>6, <2>1
<1>7. CASE h.freed_nodes = <<>>
  <2> HIDE DEF g
  <2>1. g = IF spent THEN allocate_more_ids(h) ELSE h
    BY DEF g
  <2>2. max_node_id' = IF spent THEN max_node_id + g.next_allocation ELSE max_node_id
    BY <1>1, <1>7
  <2>3. Gets(t, m, new, g.next_available_id)
    BY <1>3, <1>4, <1>5, <2>1, <2>2, NextGets
  <2> HIDE DEF new
  <2> QED
    BY <1>1, <1>7, <2>3
<1> QED
  BY <1>6, <1>7

\* ids::create_node keeps the lists and the identifiers.
LEMMA CreateKeeps ==
  ASSUME LifeTypes, ListInv, \A u \in Thread : ids[u].committed = {},
         NEW t \in Thread, NEW m \in Created, m = NUM_THREADS + created + 1, create_node(t, m)
  PROVE  ListInv' /\ \A u \in Thread : ids'[u].committed = {}
<1> USE DEF ListInv
<1>1. PICK w, x : Gets(t, m, w, x) /\ ids' = [ids EXCEPT ![t] = w] /\ id' = [id EXCEPT ![m] = x]
  BY CreateGets
<1>2. created' = created + 1 /\ live' = live \cup {m} /\ creator' = [creator EXCEPT ![m] = t]
  BY DEF create_node
<1>3. Sound(w) /\ w \in Handlers /\ w.committed = {} /\ w.deleted_by_others = ids[t].deleted_by_others
  BY <1>1 DEF Gets, Sound
<1>4. ids' \in [Thread -> Handlers] /\ ids'[t] = w /\ \A u \in Thread \ {t} : ids'[u] = ids[u]
  BY <1>1, <1>3, OneHandler
<1>5. \A u \in Thread : ids'[u].committed = {}
  BY <1>3, <1>4
<1>6. /\ m \in Node /\ m \notin live /\ m \notin Initial /\ created \in Nat /\ NUM_THREADS \in Nat
      /\ \A u \in Thread : m \notin Allocated(ids[u]) \cup Freed(ids[u])
  <2>1. created \in Nat /\ NUM_THREADS \in Nat /\ m > NUM_THREADS + created
    BY Constants DEF LifeTypes
  <2>2. m \in Node /\ m \notin live /\ m \notin Initial
    BY <2>1, Unborn
  <2>3. \A u \in Thread : \A k \in Allocated(ids[u]) \cup Freed(ids[u]) : k <= NUM_THREADS + created
    BY DEF OnLists
  <2> QED
    BY <2>1, <2>2, <2>3
<1>7. \A k \in Node \ {m} : id'[k] = id[k] /\ creator'[k] = creator[k]
  BY <1>1, <1>2 DEF HandlerTypes
<1>8. id'[m] = x /\ creator'[m] = t /\ x \in Nat
  BY <1>1, <1>2, <1>6 DEF HandlerTypes, Gets
<1>9. HandlerTypes'
  <2>1. \A u \in Thread : Sound(ids'[u])
    BY <1>3, <1>4 DEF HandlerTypes
  <2>2. creator' \in [Node -> Thread \cup {None}] /\ id' \in [Node -> Nat]
    BY <1>1, <1>2, <1>8 DEF HandlerTypes
  <2>3. max_node_id' \in Nat /\ NUM_THREADS <= max_node_id'
    BY <1>1, <1>6 DEF HandlerTypes, Gets
  <2> QED
    BY <1>4, <2>1, <2>2, <2>3 DEF HandlerTypes
<1>10. /\ m \in Allocated(w) /\ Allocated(w) \subseteq Allocated(ids[t]) \cup {m}
       /\ \A k \in Allocated(ids[t]) : k \in live => k \in Allocated(w)
       /\ Freed(w) \subseteq (Allocated(ids[t]) \cup Freed(ids[t])) \ live
  BY <1>1 DEF Gets
<1>11. OnLists'
  <2>1. ASSUME NEW u \in Thread, NEW v \in Thread, u # v
        PROVE  (Allocated(ids'[u]) \cup Freed(ids'[u])) \cap (Allocated(ids'[v]) \cup Freed(ids'[v])) = {}
    <3>1. (Allocated(ids[u]) \cup Freed(ids[u])) \cap (Allocated(ids[v]) \cup Freed(ids[v])) = {}
      BY <2>1 DEF OnLists
    <3>2. \A k \in Thread \ {t} : m \notin Allocated(ids'[k]) \cup Freed(ids'[k])
      BY <1>4, <1>6
    <3>3. \A k \in Thread : Allocated(ids'[k]) \cup Freed(ids'[k])
                              \subseteq Allocated(ids[k]) \cup Freed(ids[k]) \cup {m}
      BY <1>4, <1>10
    <3>4. u # t \/ v # t
      BY <2>1
    <3> QED
      BY <3>1, <3>2, <3>3, <3>4
  <2>2. ASSUME NEW u \in Thread, NEW k \in Allocated(ids'[u]) \cup Freed(ids'[u])
        PROVE  k \in Created /\ k <= NUM_THREADS + created'
    <3>1. k = m \/ k \in Allocated(ids[u]) \cup Freed(ids[u])
      BY <1>4, <1>10, <2>2
    <3>2. k = m \/ (k \in Created /\ k <= NUM_THREADS + created)
      BY <3>1 DEF OnLists
    <3>3. k \in Created /\ k \in Nat
      BY <3>2, Constants
    <3> QED
      BY <1>2, <1>6, <3>2, <3>3
  <2>3. \A u \in Thread : Freed(ids'[u]) \cap live' = {}
    <3>1. \A u \in Thread : m \notin Freed(ids'[u])
      BY <1>4, <1>6, <1>10
    <3>2. \A u \in Thread : Freed(ids'[u]) \cap live = {}
      BY <1>4, <1>10 DEF OnLists
    <3> QED
      BY <1>2, <3>1, <3>2
  <2>4. ASSUME NEW u \in Thread, NEW k \in Allocated(ids'[u])
        PROVE  creator'[k] = IF k \in live' THEN u ELSE None
    <3>1. CASE k = m
      <4>1. u = t
        BY <1>4, <1>6, <2>4, <3>1
      <4> QED
        BY <1>2, <1>8, <3>1, <4>1
    <3>2. CASE k # m
      <4>1. k \in Allocated(ids[u]) /\ k \in Node
        BY <1>4, <1>10, <2>4, <3>2, HandlerSets DEF HandlerTypes
      <4>2. creator[k] = IF k \in live THEN u ELSE None
        BY <4>1 DEF OnLists
      <4> QED
        BY <1>2, <1>7, <3>2, <4>1, <4>2
    <3> QED
      BY <3>1, <3>2
  <2> QED
    BY <2>1, <2>2, <2>3, <2>4 DEF OnLists
<1>12. Creators'
  <2>1. ASSUME NEW k \in live' \ Initial
        PROVE  creator'[k] \in Thread /\ k \in Allocated(ids'[creator'[k]])
    <3>1. CASE k = m
      BY <1>4, <1>8, <1>10, <3>1
    <3>2. CASE k # m
      <4>1. k \in live \ Initial /\ k \in Node
        BY <1>2, <2>1, <3>2 DEF LifeTypes
      <4>2. creator[k] \in Thread /\ k \in Allocated(ids[creator[k]])
        BY <4>1 DEF Creators
      <4>3. k \in Allocated(ids'[creator[k]])
        BY <1>4, <1>10, <4>1, <4>2
      <4> QED
        BY <1>7, <3>2, <4>1, <4>2, <4>3
    <3> QED
      BY <3>1, <3>2
  <2>2. \A k \in Initial : creator'[k] = None
    <3>1. \A k \in Initial : creator[k] = None /\ k # m /\ k \in Node
      BY <1>6 DEF Creators, Node
    <3> QED
      BY <1>7, <3>1
  <2> QED
    BY <1>5, <2>1, <2>2 DEF Creators
<1>13. /\ max_node_id <= max_node_id' /\ max_node_id \in Nat /\ max_node_id' \in Nat
       /\ \A u \in Thread : ids[u].next_available_id \in Nat /\ ids[u].end_available_id \in Nat
       /\ \A u \in Thread : ids'[u].next_available_id \in Nat /\ ids'[u].end_available_id \in Nat
  BY <1>1, <1>4 DEF Gets, HandlerTypes, Handlers
<1>14. \A u \in Thread : \A y \in Block(ids[u]) : y <= max_node_id
  <2>1. \A u \in Thread : ids[u].end_available_id <= max_node_id + 1
    BY DEF Blocks
  <2> QED
    BY <1>13, <2>1 DEF Block
<1>15. \A y \in Block(w) : y # x /\ (y \in Block(ids[t]) \/ y > max_node_id)
  BY <1>1 DEF Gets
<1>16. Blocks'
  <2>1. ASSUME NEW u \in Thread
        PROVE  /\ NUM_THREADS < ids'[u].next_available_id
               /\ ids'[u].next_available_id <= ids'[u].end_available_id
               /\ ids'[u].end_available_id <= max_node_id' + 1
    <3>1. CASE u = t
      BY <1>1, <1>4, <3>1 DEF Gets
    <3>2. CASE u # t
      <4>1. /\ NUM_THREADS < ids[u].next_available_id
            /\ ids[u].next_available_id <= ids[u].end_available_id
            /\ ids[u].end_available_id <= max_node_id + 1
        BY DEF Blocks
      <4>2. ids[u].end_available_id <= max_node_id' + 1
        BY <1>13, <4>1
      <4> QED
        BY <1>4, <3>2, <4>1, <4>2
    <3> QED
      BY <3>1, <3>2
  <2>2. \A u \in Thread \ {t} : Block(w) \cap Block(ids[u]) = {}
    <3> SUFFICES ASSUME NEW u \in Thread \ {t}, NEW y \in Block(w), y \in Block(ids[u]) PROVE FALSE
      OBVIOUS
    <3>1. y <= max_node_id /\ y \in Int
      BY <1>14 DEF Block
    <3>2. y \notin Block(ids[t])
      BY DEF Blocks
    <3> QED
      BY <1>13, <1>15, <3>1, <3>2
  <2>3. \A u, v \in Thread : u # v => Block(ids'[u]) \cap Block(ids'[v]) = {}
    BY <1>4, <2>2 DEF Blocks
  <2> QED
    BY <2>1, <2>3 DEF Blocks
<1>17. \A k \in Node \ {m} : Held(k)' => Held(k) /\ id[k] # x
  <2> SUFFICES ASSUME NEW k \in Node \ {m}, Held(k)' PROVE Held(k) /\ id[k] # x
    OBVIOUS
  <2>1. k \in live' \/ \E u \in Thread : k \in Allocated(ids'[u]) \cup Freed(ids'[u])
    BY DEF Held
  <2>2. Held(k)
    BY <1>2, <1>4, <1>10, <2>1 DEF Held
  <2>3. ASSUME id[k] = x PROVE FALSE
    <3>1. k \in Freed(ids[t]) \cup Allocated(ids[t]) /\ k \notin live /\ k \notin Allocated(w) \cup Freed(w)
      BY <1>1, <2>2, <2>3 DEF Gets
    <3>2. \A u \in Thread \ {t} : k \notin Allocated(ids[u]) \cup Freed(ids[u])
      BY <3>1 DEF OnLists
    <3> QED
      BY <1>2, <1>4, <2>1, <3>1, <3>2
  <2> QED
    BY <2>2, <2>3
<1>18. Unique'
  <2> HIDE DEF Held
  <2>1. \A k, n \in Node : Held(k)' /\ Held(n)' /\ id'[k] = id'[n] => k = n
    <3>1. \A k, n \in Node \ {m} : Held(k)' /\ Held(n)' /\ id'[k] = id'[n] => k = n
      BY <1>7, <1>17 DEF Unique
    <3>2. \A k \in Node \ {m} : Held(k)' => id'[k] # id'[m]
      BY <1>7, <1>8, <1>17
    <3> QED
      BY <3>1, <3>2
  <2>2. ASSUME NEW k \in Node, Held(k)', k \notin Initial
        PROVE  NUM_THREADS < id'[k] /\ id'[k] <= max_node_id'
    <3>1. CASE k = m
      BY <1>1, <1>8, <3>1 DEF Gets
    <3>2. CASE k # m
      <4>1. NUM_THREADS < id[k] /\ id[k] <= max_node_id /\ id'[k] = id[k] /\ id[k] \in Nat
        BY <1>7, <1>17, <2>2, <3>2 DEF Unique, HandlerTypes
      <4> QED
        BY <1>13, <4>1
    <3> QED
      BY <3>1, <3>2
  <2>3. \A k \in Initial : id'[k] = k
    <3>1. \A k \in Initial : k # m /\ k \in Node /\ id[k] = k
      BY <1>6 DEF Unique, Node
    <3> QED
      BY <1>7, <3>1
  <2>4. ASSUME NEW k \in Node, Held(k)', NEW u \in Thread PROVE id'[k] \notin Block(ids'[u])
    <3>1. CASE k = m /\ u = t
      BY <1>4, <1>8, <1>15, <3>1
    <3>2. CASE k = m /\ u # t
      BY <1>1, <1>4, <1>8, <3>2 DEF Gets
    <3>3. CASE k # m
      <4>1. Held(k) /\ id'[k] = id[k] /\ id[k] \in Nat /\ id[k] \notin Block(ids[u])
        BY <1>7, <1>17, <2>4, <3>3 DEF Unique, HandlerTypes
      <4>2. id[k] <= max_node_id
        <5>1. k \in Initial => id[k] = k /\ k <= NUM_THREADS /\ k \in Nat
          BY <1>6 DEF Unique, Initial
        <5>2. k \notin Initial => id[k] <= max_node_id
          BY <4>1 DEF Unique
        <5> QED
          BY <1>6, <1>13, <5>1, <5>2 DEF HandlerTypes
      <4>3. CASE u = t
        BY <1>4, <1>13, <1>15, <4>1, <4>2, <4>3
      <4>4. CASE u # t
        BY <1>4, <4>1, <4>4
      <4> QED
        BY <4>3, <4>4
    <3> QED
      BY <3>1, <3>2, <3>3
  <2> QED
    BY <2>1, <2>2, <2>3, <2>4 DEF Unique
<1>19. Told'
  <2> SUFFICES ASSUME NEW u \in Thread
               PROVE  Cardinality(Allocated(ids'[u]) \ live') <= ids'[u].deleted_by_others
    BY DEF Told
  <2>1. Allocated(ids'[u]) \ live' \subseteq Allocated(ids[u]) \ live
    BY <1>2, <1>4, <1>10
  <2>2. IsFiniteSet(Allocated(ids[u]) \ live) /\ Cardinality(Allocated(ids[u]) \ live) \in Nat
    BY HandlerSets DEF HandlerTypes
  <2>3. Cardinality(Allocated(ids'[u]) \ live') <= Cardinality(Allocated(ids[u]) \ live)
        /\ Cardinality(Allocated(ids'[u]) \ live') \in Nat
    BY <2>1, <2>2, FS_Subset, FS_CardinalityType
  <2>4. ids'[u].deleted_by_others = ids[u].deleted_by_others /\ ids[u].deleted_by_others \in Nat
    BY <1>3, <1>4 DEF HandlerTypes, Handlers
  <2>5. Cardinality(Allocated(ids[u]) \ live) <= ids[u].deleted_by_others
    BY DEF Told
  <2> DEFINE p == Cardinality(Allocated(ids'[u]) \ live')
             q == Cardinality(Allocated(ids[u]) \ live)
             y == ids[u].deleted_by_others
  <2>6. p \in Nat /\ q \in Nat /\ y \in Nat /\ p <= q /\ q <= y
    BY <2>2, <2>3, <2>4, <2>5
  <2> HIDE DEF p, q, y
  <2>7. p <= y
    BY <2>6
  <2> QED
    BY <2>4, <2>7 DEF p, y
<1> QED
  BY <1>5, <1>9, <1>11, <1>12, <1>16, <1>18, <1>19

\* ids::commit: the thread gives its list back; its nodes alive stay.
LEMMA CommitKeeps ==
  ASSUME LifeTypes, IdsInv, NEW t \in Thread, Commit(t)
  PROVE  ListInv' /\ \A u \in Thread \ {t} : ids'[u] = ids[u]
<1> USE DEF IdsInv
<1> DEFINE h == ids[t]
           C == {n \in ToSet(h.allocated_nodes) : creator[n] # None}
           w == [h EXCEPT !.committed = C, !.allocated_nodes = <<>>, !.deleted_by_others = 0]
<1>1. /\ ids' = [ids EXCEPT ![t] = w] /\ run[t].at = "idle"
      /\ UNCHANGED <<created, live, id, creator, max_node_id>>
  BY DEF Commit, At
<1>2. Sound(h) /\ h \in Handlers /\ Allocated(h) \subseteq Node
  BY HandlerSets DEF HandlerTypes, Sound
<1>3. C = Allocated(h) \cap live /\ C \subseteq Node
  <2>1. \A n \in Allocated(h) : creator[n] = IF n \in live THEN t ELSE None
    BY DEF OnLists
  <2>2. t # None
    BY Constants DEF Node
  <2>3. C = {n \in Allocated(h) : creator[n] # None}
    BY DEF Allocated
  <2> HIDE DEF C
  <2> QED
    BY <1>2, <2>1, <2>2, <2>3
<1> HIDE DEF C
<1>4. /\ w \in Handlers /\ w.allocated_nodes = <<>> /\ w.freed_nodes = h.freed_nodes /\ w.committed = C
      /\ w.deleted_by_others = 0 /\ w.next_available_id = h.next_available_id
      /\ w.end_available_id = h.end_available_id
  <2> DEFINE e == <<>>
  <2>1. e \in Seq(Node) /\ 0 \in Nat
    OBVIOUS
  <2>2. w = [h EXCEPT !.committed = C, !.allocated_nodes = e, !.deleted_by_others = 0]
    OBVIOUS
  <2> HIDE DEF e, w
  <2>3. /\ w \in Handlers /\ w.allocated_nodes = e /\ w.freed_nodes = h.freed_nodes /\ w.committed = C
        /\ w.deleted_by_others = 0 /\ w.next_available_id = h.next_available_id
        /\ w.end_available_id = h.end_available_id
    BY <1>2, <1>3, <2>1, <2>2 DEF Handlers
  <2> QED
    BY <2>3 DEF e
<1> HIDE DEF w
<1>5. Allocated(w) = {} /\ Freed(w) = Freed(h) /\ Block(w) = Block(h)
  BY <1>4 DEF Allocated, Freed, Block, ToSet
<1>6. Sound(w)
  <2>1. Once(<<>>)
    BY DEF Once
  <2> QED
    BY <1>2, <1>4, <1>5, <2>1 DEF Sound
<1>7. ids' \in [Thread -> Handlers] /\ ids'[t] = w /\ \A u \in Thread \ {t} : ids'[u] = ids[u]
  BY <1>1, <1>4, OneHandler
<1>8. h.committed = {}
  BY <1>1 DEF Ended
<1>9. \A u \in Thread : /\ Allocated(ids'[u]) \subseteq Allocated(ids[u])
                        /\ Freed(ids'[u]) = Freed(ids[u]) /\ Block(ids'[u]) = Block(ids[u])
  BY <1>5, <1>7
<1>10. HandlerTypes'
  BY <1>1, <1>6, <1>7 DEF HandlerTypes
<1>11. OnLists'
  <2>1. \A u, v \in Thread : u # v =>
          (Allocated(ids'[u]) \cup Freed(ids'[u])) \cap (Allocated(ids'[v]) \cup Freed(ids'[v])) = {}
    <3>1. \A u, v \in Thread : u # v =>
            (Allocated(ids[u]) \cup Freed(ids[u])) \cap (Allocated(ids[v]) \cup Freed(ids[v])) = {}
      BY DEF OnLists
    <3> QED
      BY <1>9, <3>1
  <2> QED
    BY <1>1, <1>9, <2>1 DEF OnLists
<1>12. Creators'
  <2>1. ASSUME NEW k \in live \ Initial
        PROVE  creator[k] \in Thread /\ k \in Allocated(ids'[creator[k]]) \cup ids'[creator[k]].committed
    <3>1. creator[k] \in Thread /\ k \in Allocated(ids[creator[k]]) \cup ids[creator[k]].committed
      BY DEF Creators
    <3>2. CASE creator[k] = t
      BY <1>3, <1>4, <1>7, <1>8, <3>1, <3>2
    <3>3. CASE creator[k] # t
      BY <1>7, <3>1, <3>3
    <3> QED
      BY <3>2, <3>3
  <2>2. ASSUME NEW u \in Thread, NEW k \in ids'[u].committed
        PROVE  k \in live /\ creator[k] = u /\ k \notin Allocated(ids'[u])
    <3>1. CASE u = t
      <4>1. k \in Allocated(h) /\ k \in live
        BY <1>3, <1>4, <1>7, <2>2, <3>1
      <4> QED
        BY <1>5, <1>7, <3>1, <4>1 DEF OnLists
    <3>2. CASE u # t
      BY <1>7, <2>2, <3>2 DEF Creators
    <3> QED
      BY <3>1, <3>2
  <2> QED
    BY <1>1, <2>1, <2>2 DEF Creators
<1>13. Blocks'
  <2>1. \A u \in Thread : /\ ids'[u].next_available_id = ids[u].next_available_id
                          /\ ids'[u].end_available_id = ids[u].end_available_id
    BY <1>4, <1>7
  <2> QED
    BY <1>1, <1>9, <2>1 DEF Blocks
<1>14. Unique'
  <2>1. \A k \in Node : Held(k)' => Held(k)
    BY <1>1, <1>9 DEF Held
  <2> HIDE DEF Held
  <2> QED
    BY <1>1, <1>9, <2>1 DEF Unique
<1>15. Told'
  <2>1. Cardinality(Allocated(w) \ live) = 0
    <3>1. Allocated(w) \ live = {}
      BY <1>5
    <3> QED
      BY <3>1, FS_EmptySet
  <2>2. ASSUME NEW u \in Thread PROVE Cardinality(Allocated(ids'[u]) \ live) <= ids'[u].deleted_by_others
    <3>1. CASE u = t
      <4>1. ids'[u].deleted_by_others = 0 /\ Cardinality(Allocated(ids'[u]) \ live) = 0
        BY <1>4, <1>7, <2>1, <3>1
      <4> QED
        BY <4>1
    <3>2. CASE u # t
      BY <1>7, <3>2 DEF Told
    <3> QED
      BY <3>1, <3>2
  <2> QED
    BY <1>1, <2>2 DEF Told
<1> QED
  BY <1>7, <1>10, <1>11, <1>12, <1>13, <1>14, <1>15 DEF ListInv

\* What does not touch the lists keeps them.
LEMMA SameNames ==
  ASSUME ListInv, UNCHANGED <<created, live, id, creator, ids, max_node_id>>
  PROVE  ListInv'
<1>1. HandlerTypes' /\ OnLists' /\ Creators' /\ Blocks' /\ Told'
  BY DEF ListInv, HandlerTypes, OnLists, Creators, Blocks, Told
<1>2. \A k : Held(k)' <=> Held(k)
  BY DEF Held
<1>3. Unique'
  <2> HIDE DEF Held
  <2> QED
    BY <1>2 DEF ListInv, Unique
<1> QED
  BY <1>1, <1>3 DEF ListInv

\* A step in a run: before and after it no thread has given its lists back.
LEMMA Running ==
  ASSUME IdsInv, NEW t \in Thread, Busy(t) \/ queue[t] # {}
  PROVE  \A u \in Thread : run[u].at # "committed" /\ ids[u].committed = {}
<1>1. \A u \in Thread : run[u].at # "committed"
  BY DEF IdsInv, Ended
<1> QED
  BY <1>1 DEF IdsInv, Ended

\* Every step of a thread keeps the invariant of the identifiers.
LEMMA IdsStep ==
  ASSUME LifeInv, IdsInv, NEW t \in Thread, Step(t)
  PROVE  IdsInv'
<1>1. LifeTypes /\ ListInv /\ Ended
  BY DEF LifeInv, IdsInv, ListInv
<1>2. ASSUME ListInv', \A u \in Thread : ids'[u].committed = {}, \A u \in Thread : run'[u].at # "committed"
      PROVE  IdsInv'
  BY <1>2 DEF ListInv, IdsInv, Ended
<1>3. ASSUME UNCHANGED names, \A u \in Thread : run'[u].at # "committed", Busy(t) \/ queue[t] # {}
      PROVE  IdsInv'
  <2>1. ListInv' /\ ids' = ids
    BY <1>1, <1>3, SameNames DEF names
  <2>2. \A u \in Thread : ids'[u].committed = {}
    BY <1>3, <2>1, Running
  <2> QED
    BY <1>2, <1>3, <2>1, <2>2
<1>4. ASSUME Busy(t) \/ queue[t] # {}, NEW a, a # "committed",
             \A u \in Thread : u # t => run'[u] = run[u], run'[t].at = a
      PROVE  \A u \in Thread : run'[u].at # "committed"
  <2>1. \A u \in Thread : run[u].at # "committed"
    BY <1>4, Running
  <2> QED
    BY <1>4, <2>1
<1>5. run \in [Thread -> RunTypes]
  BY <1>1 DEF LifeTypes
<1>6. CASE GetNode(t)
  <2>1. PICK k \in queue[t] : run' = [run EXCEPT ![t] = [Idle EXCEPT !.at = "begin", !.node = k]]
    BY <1>6 DEF GetNode
  <2>2. run'[t].at = "begin" /\ \A u \in Thread : u # t => run'[u] = run[u]
    BY <1>5, <2>1 DEF Idle
  <2>3. UNCHANGED names
    BY <1>6 DEF GetNode
  <2> QED
    BY <1>3, <1>4, <2>1, <2>2, <2>3
<1>7. ASSUME NEW a, NEW b, a \notin {"idle", "committed"}, b # "committed", run[t].at = a, Moved(t, b),
             UNCHANGED names
      PROVE  IdsInv'
  BY <1>3, <1>4, <1>7 DEF Busy, Moved
<1>8. CASE Begin(t) \/ EndRules(t) \/ Test(t) \/ SyncDone(t) \/ CollectDone(t) \/ Again(t)
  <2>1. PICK a, b : /\ a \notin {"idle", "committed"} /\ b # "committed" /\ run[t].at = a
                    /\ Goto(t, b) /\ UNCHANGED names
    BY <1>8 DEF Begin, EndRules, Test, SyncDone, CollectDone, Again, At
  <2> QED
    BY <1>1, <1>7, <2>1, GotoMoves
<1>9. CASE Erase(t) \/ EndRule(t)
  <2>1. /\ run[t].at \in {"erase", "generated"} /\ UNCHANGED names
        /\ (Moved(t, "generated") \/ Moved(t, "rules"))
    BY <1>1, <1>9, RuleMoves DEF Erase, EndRule, At
  <2> QED
    BY <1>7, <2>1
<1>10. CASE Send(t)
  <2>1. run' = run /\ run[t].at = "sync" /\ UNCHANGED names
    BY <1>10 DEF Send, At
  <2> QED
    BY <1>3, <1>4, <2>1 DEF Busy
<1>11. CASE FollowDeleted(t)
  <2>1. UNCHANGED <<names, run, queue>>
    BY <1>11 DEF FollowDeleted, Misuse, facts
  <2>2. ListInv' /\ ids' = ids
    BY <1>1, <2>1, SameNames DEF names
  <2> QED
    BY <1>1, <2>1, <2>2 DEF IdsInv, ListInv, Ended, Busy
<1>12. CASE Fire(t)
  <2>1. PICK f, r : FireChanges(t, f, r)
    BY <1>12, FireIs
  <2>2. (Moved(t, "test") \/ Moved(t, "erase")) /\ run[t].at = "rules"
    <3>1. Moved(t, "test") \/ Moved(t, "erase")
      BY <1>1, <2>1, RuleMoves
    <3>2. run[t].at = "rules"
      BY <2>1 DEF FireChanges
    <3> QED
      BY <3>1, <3>2
  <2>3. \A u \in Thread : run'[u].at # "committed"
    BY <1>4, <2>2 DEF Moved, Busy
  <2> DEFINE m == NUM_THREADS + created + 1
  <2>4. UNCHANGED names \/ (m \in Created /\ create_node(t, m))
    BY <1>12 DEF Fire
  <2>5. CASE UNCHANGED names
    BY <1>3, <2>2, <2>3, <2>5 DEF Busy
  <2>6. CASE m \in Created /\ create_node(t, m)
    <3>1. \A u \in Thread : ids[u].committed = {}
      BY <2>2, Running DEF Busy
    <3>2. ListInv' /\ \A u \in Thread : ids'[u].committed = {}
      BY <1>1, <2>6, <3>1, CreateKeeps
    <3> QED
      BY <1>2, <2>3, <3>2
  <2> QED
    BY <2>4, <2>5, <2>6
<1>13. ASSUME NEW n \in live, garbage_collect(n), delete_node(t, n), Busy(t),
              \A u \in Thread : run'[u].at # "committed"
       PROVE  IdsInv'
  <2>1. n \notin Initial
    BY <1>1, <1>13 DEF garbage_collect, LifeTypes
  <2>2. \A u \in Thread : ids[u].committed = {}
    BY <1>13, Running
  <2>3. ListInv' /\ \A u \in Thread : ids'[u].committed = {}
    BY <1>1, <1>13, <2>1, <2>2, DeleteKeeps
  <2> QED
    BY <1>2, <1>13, <2>3
<1>14. CASE Collect(t)
  <2>1. PICK n \in live : IF garbage_collect(n) THEN delete_node(t, n) ELSE UNCHANGED names
    BY <1>14 DEF Collect
  <2>2. Busy(t) /\ run' = run
    BY <1>14 DEF Collect, At, Busy
  <2>3. \A u \in Thread : run'[u].at # "committed"
    BY <2>2, Running
  <2> QED
    BY <1>3, <1>13, <2>1, <2>2, <2>3
<1>15. CASE Rest(t)
  <2>1. PICK n \in live : IF garbage_collect(n) THEN delete_node(t, n) ELSE UNCHANGED names
    BY <1>15 DEF Rest
  <2>2. Busy(t) /\ run' = [run EXCEPT ![t] = Idle]
    BY <1>15 DEF Rest, At, Busy
  <2>3. run'[t].at = "idle" /\ \A u \in Thread : u # t => run'[u] = run[u]
    BY <1>5, <2>2 DEF Idle
  <2>4. \A u \in Thread : run'[u].at # "committed"
    BY <1>4, <2>2, <2>3
  <2> QED
    BY <1>3, <1>13, <2>1, <2>2, <2>4
<1>16. CASE Commit(t)
  <2>1. ListInv' /\ \A u \in Thread \ {t} : ids'[u] = ids[u]
    BY <1>1, <1>16, CommitKeeps
  <2>2. Moved(t, "committed") /\ queue' = queue
    BY <1>1, <1>16, GotoMoves DEF Commit, facts
  <2>3. \A u \in Thread : run[u].at \in {"idle", "committed"} /\ queue[u] = {}
    BY <1>16 DEF Commit
  <2>4. \A u \in Thread : run'[u].at \in {"idle", "committed"} /\ queue'[u] = {}
    BY <2>2, <2>3 DEF Moved
  <2>5. \A u \in Thread : ids'[u].committed # {} => run'[u].at = "committed"
    BY <1>1, <2>1, <2>2 DEF Moved, Ended
  <2>6. Ended'
    BY <2>4, <2>5 DEF Ended, Busy
  <2> QED
    BY <2>1, <2>6 DEF IdsInv, ListInv
<1> QED
  BY <1>6, <1>8, <1>9, <1>10, <1>11, <1>12, <1>14, <1>15, <1>16 DEF Step

\* The blocks of the threads at the start: one after the other, up to max_node_id.
LEMMA FirstBlocks ==
  ASSUME NEW t \in Thread, NEW u \in Thread, t < u
  PROVE  /\ t * ALLOCATED_IDS <= (u - 1) * ALLOCATED_IDS
         /\ t * ALLOCATED_IDS \in Nat /\ (t - 1) * ALLOCATED_IDS \in Nat
<1>1. t \in Nat /\ u \in Nat /\ ALLOCATED_IDS \in Nat /\ t >= 1 /\ (u - 1) - t \in Nat /\ t - 1 \in Nat
  BY LifeAssumption DEF Thread
<1> DEFINE k == (u - 1) - t
           A == ALLOCATED_IDS
<1>2. u - 1 = t + k /\ k \in Nat /\ A \in Nat
  BY <1>1
<1> HIDE DEF k, A
<1>3. (t + k) * A = t * A + k * A /\ k * A \in Nat /\ t * A \in Nat
  BY <1>1, <1>2
<1>4. t * A <= (u - 1) * A
  BY <1>2, <1>3
<1>5. (t - 1) * A \in Nat
  BY <1>1, <1>2
<1> QED
  BY <1>3, <1>4, <1>5 DEF A

\* The block of identifiers of a thread lies after the thread nodes and before the next block.
LEMMA BlockEnds ==
  ASSUME NEW t \in Thread
  PROVE  /\ NUM_THREADS + (t - 1) * ALLOCATED_IDS + 1 \in Nat
         /\ NUM_THREADS + t * ALLOCATED_IDS + 1 \in Nat
         /\ NUM_THREADS * (1 + ALLOCATED_IDS) \in Nat
         /\ NUM_THREADS <= NUM_THREADS * (1 + ALLOCATED_IDS)
         /\ NUM_THREADS < NUM_THREADS + (t - 1) * ALLOCATED_IDS + 1
         /\ NUM_THREADS + (t - 1) * ALLOCATED_IDS + 1 <= NUM_THREADS + t * ALLOCATED_IDS + 1
         /\ NUM_THREADS + t * ALLOCATED_IDS + 1 <= NUM_THREADS * (1 + ALLOCATED_IDS) + 1
<1> DEFINE A == ALLOCATED_IDS
           N == NUM_THREADS
           k == N - t
           j == t - 1
<1>1. A \in Nat /\ N \in Nat /\ t \in Nat /\ k \in Nat /\ j \in Nat /\ N = t + k /\ t = j + 1
  BY LifeAssumption DEF Thread
<1> HIDE DEF A, N, k, j
<1>2. N * (1 + A) = N + N * A /\ N * A \in Nat /\ j * A \in Nat /\ t * A \in Nat /\ k * A \in Nat
  BY <1>1
<1>3. N * A = t * A + k * A
  BY <1>1
<1>4. t * A = j * A + A
  BY <1>1
<1>5. /\ N + j * A + 1 \in Nat /\ N + t * A + 1 \in Nat /\ N * (1 + A) \in Nat
      /\ N <= N * (1 + A) /\ N < N + j * A + 1 /\ N + j * A + 1 <= N + t * A + 1
      /\ N + t * A + 1 <= N * (1 + A) + 1
  BY <1>1, <1>2, <1>3, <1>4
<1> QED
  BY <1>5 DEF A, N, j

\* The handler of thread t at the start.
FirstHandler(t) ==
  [allocated_nodes |-> <<>>, freed_nodes |-> <<>>, committed |-> {}, deleted_by_others |-> 0,
   next_available_id |-> NUM_THREADS + (t - 1) * ALLOCATED_IDS + 1,
   end_available_id |-> NUM_THREADS + t * ALLOCATED_IDS + 1,
   next_allocation |-> ALLOCATED_IDS]

\* A new handler has its block of identifiers and no node.
LEMMA FirstHandlerIs ==
  ASSUME NEW t \in Thread
  PROVE  /\ Sound(FirstHandler(t)) /\ FirstHandler(t) \in Handlers
         /\ Allocated(FirstHandler(t)) = {} /\ Freed(FirstHandler(t)) = {}
         /\ FirstHandler(t).committed = {} /\ FirstHandler(t).deleted_by_others = 0
         /\ FirstHandler(t).next_available_id = NUM_THREADS + (t - 1) * ALLOCATED_IDS + 1
         /\ FirstHandler(t).end_available_id = NUM_THREADS + t * ALLOCATED_IDS + 1
<1> DEFINE h == FirstHandler(t)
           a == NUM_THREADS + (t - 1) * ALLOCATED_IDS + 1
           b == NUM_THREADS + t * ALLOCATED_IDS + 1
           e == <<>>
<1>1. a \in Nat /\ b \in Nat /\ ALLOCATED_IDS \in Nat \ {0} /\ FREED_MAX \in Nat
  BY BlockEnds, LifeAssumption
<1>2. e \in Seq(Node) /\ ToSet(e) = {} /\ Once(e) /\ Len(e) = 0
  BY DEF ToSet, Once
<1>3. h = [allocated_nodes |-> e, freed_nodes |-> e, committed |-> {}, deleted_by_others |-> 0,
           next_available_id |-> a, end_available_id |-> b, next_allocation |-> ALLOCATED_IDS]
  BY DEF FirstHandler
<1> HIDE DEF h, a, b, e
<1>4. /\ h \in Handlers /\ h.allocated_nodes = e /\ h.freed_nodes = e /\ h.committed = {}
      /\ h.deleted_by_others = 0 /\ h.next_available_id = a /\ h.end_available_id = b
  BY <1>1, <1>2, <1>3 DEF Handlers
<1>5. Allocated(h) = {} /\ Freed(h) = {}
  BY <1>2, <1>4 DEF Allocated, Freed
<1>6. Len(h.freed_nodes) <= FREED_MAX
  BY <1>1, <1>2, <1>4
<1>7. Sound(h)
  BY <1>2, <1>4, <1>5, <1>6 DEF Sound
<1> QED
  BY <1>4, <1>5, <1>7 DEF h, a, b

\* The invariant of the identifiers holds at the start.
LEMMA IdsInit == Init => IdsInv
<1> SUFFICES ASSUME Init PROVE IdsInv
  OBVIOUS
<1>1. /\ created = 0 /\ live = Initial
      /\ id = [n \in Node |-> IF n \in Initial THEN n ELSE 0] /\ creator = [n \in Node |-> None]
      /\ run = [t \in Thread |-> Idle] /\ ids = [t \in Thread |-> FirstHandler(t)]
      /\ max_node_id = NUM_THREADS * (1 + ALLOCATED_IDS)
  BY DEF Init, FirstHandler
<1>2. /\ Initial \subseteq Node /\ Thread = Initial /\ NUM_THREADS \in Nat /\ Node \subseteq Nat
      /\ \A n \in Initial : n \in Nat /\ n <= NUM_THREADS
  BY Constants DEF Node, Initial
<1>3. ASSUME NEW t \in Thread
      PROVE  /\ ids[t] = FirstHandler(t) /\ Sound(ids[t]) /\ ids[t] \in Handlers
             /\ Allocated(ids[t]) = {} /\ Freed(ids[t]) = {}
             /\ ids[t].committed = {} /\ ids[t].deleted_by_others = 0
             /\ ids[t].next_available_id = NUM_THREADS + (t - 1) * ALLOCATED_IDS + 1
             /\ ids[t].end_available_id = NUM_THREADS + t * ALLOCATED_IDS + 1
  <2>1. ids[t] = FirstHandler(t)
    BY <1>1
  <2> QED
    BY <2>1, FirstHandlerIs
<1>4. 1 \in Thread /\ Thread # {}
  BY LifeAssumption DEF Thread
<1>5. HandlerTypes
  <2>1. max_node_id \in Nat /\ NUM_THREADS <= max_node_id
    BY <1>1, <1>4, BlockEnds
  <2>2. id \in [Node -> Nat] /\ creator \in [Node -> Thread \cup {None}]
    BY <1>1, <1>2
  <2>3. ids \in [Thread -> Handlers]
    BY <1>1, FirstHandlerIs
  <2> QED
    BY <1>3, <2>1, <2>2, <2>3 DEF HandlerTypes
<1>6. OnLists /\ Creators
  BY <1>1, <1>2, <1>3 DEF OnLists, Creators
<1>7. Ended
  BY <1>1, <1>3 DEF Ended, Idle
<1>8. \A t \in Thread : /\ NUM_THREADS < ids[t].next_available_id
                        /\ ids[t].next_available_id <= ids[t].end_available_id
                        /\ ids[t].end_available_id <= max_node_id + 1
                        /\ ids[t].next_available_id \in Nat /\ ids[t].end_available_id \in Nat
  BY <1>1, <1>3, BlockEnds
<1>9. ASSUME NEW t \in Thread, NEW u \in Thread, t < u
      PROVE  ids[t].end_available_id <= ids[u].next_available_id
  <2> DEFINE p == t * ALLOCATED_IDS
             q == (u - 1) * ALLOCATED_IDS
  <2>1. p <= q /\ p \in Int /\ q \in Int
    <3>1. p <= q /\ p \in Nat
      BY <1>9, FirstBlocks
    <3>2. u - 1 \in Int /\ ALLOCATED_IDS \in Int
      BY <1>2, LifeAssumption
    <3> QED
      BY <3>1, <3>2
  <2>2. ids[t].end_available_id = NUM_THREADS + p + 1 /\ ids[u].next_available_id = NUM_THREADS + q + 1
    BY <1>3
  <2> HIDE DEF p, q
  <2> QED
    BY <1>2, <2>1, <2>2
<1>10. ASSUME NEW t \in Thread, NEW u \in Thread, t # u PROVE Block(ids[t]) \cap Block(ids[u]) = {}
  <2>1. t < u \/ u < t
    BY <1>2, <1>10
  <2>2. \/ ids[t].end_available_id <= ids[u].next_available_id
        \/ ids[u].end_available_id <= ids[t].next_available_id
    BY <1>9, <2>1
  <2> QED
    BY <1>8, <2>2 DEF Block
<1>11. Blocks
  BY <1>8, <1>10 DEF Blocks
<1>12. \A n \in Node : Held(n) <=> n \in Initial
  BY <1>1, <1>3 DEF Held
<1>13. Unique
  <2> HIDE DEF Held
  <2>1. \A n \in Initial : id[n] = n
    BY <1>1, <1>2
  <2>2. \A n \in Initial : \A t \in Thread : n \notin Block(ids[t])
    BY <1>2, <1>8 DEF Block
  <2> QED
    BY <1>12, <2>1, <2>2 DEF Unique
<1>14. Told
  <2>1. \A t \in Thread : Allocated(ids[t]) \ live = {} /\ ids[t].deleted_by_others = 0
    BY <1>3
  <2>2. Cardinality({}) = 0
    BY FS_EmptySet
  <2> QED
    BY <2>1, <2>2 DEF Told
<1> QED
  BY <1>5, <1>6, <1>7, <1>11, <1>13, <1>14 DEF IdsInv

\* Both invariants hold in every reachable state.
LEMMA IdsHold == Spec => [](LifeInv /\ IdsInv)
<1>1. Init => LifeInv /\ IdsInv
  BY LifeInit, IdsInit
<1>2. ASSUME LifeInv, IdsInv, [Next]_vars PROVE IdsInv'
  <2>1. CASE UNCHANGED vars
    <3>1. UNCHANGED <<created, live, id, creator, ids, max_node_id, run, queue>>
      BY <2>1 DEF vars, facts, names
    <3>2. ListInv'
      BY <1>2, <3>1, SameNames DEF IdsInv, ListInv
    <3>3. Ended'
      BY <1>2, <3>1 DEF IdsInv, Ended, Busy
    <3> QED
      BY <3>2, <3>3 DEF IdsInv, ListInv
  <2>2. CASE Next
    BY <1>2, <2>2, IdsStep DEF Next, Step
  <2> QED
    BY <1>2, <2>1, <2>2
<1>3. LifeInv /\ IdsInv /\ [Next]_vars => (LifeInv /\ IdsInv)'
  BY <1>2, LifeStep
<1> QED
  BY <1>1, <1>3, PTL DEF Spec

(***************************************************************************)
(* No two nodes alive have the same identifier, whatever threads create,   *)
(* delete and take back: the identifiers not in use are in disjoint blocks *)
(* (database::allocate_ids) or belong to freed nodes, which are on one     *)
(* list of one thread, once (ids::create_node, delete_node,                *)
(* free_destroyed_nodes, commit).                                          *)
(***************************************************************************)
THEOREM IdentifiersKept == Spec => []IdsKept
<1>1. ASSUME LifeInv, IdsInv PROVE IdsKept
  <2> USE <1>1 DEF IdsInv
  <2>1. live \subseteq Node /\ \A n \in live : Held(n)
    BY DEF LifeInv, LifeTypes, Held
  <2>2. \A m, n \in live : id[m] = id[n] => m = n
    BY <2>1 DEF Unique
  <2>3. \A n \in live \ Initial : NUM_THREADS < id[n] /\ id[n] <= max_node_id
    BY <2>1 DEF Unique
  <2>4. ASSUME NEW t \in Thread
        PROVE  LET h == ids[t] IN
               /\ IsInjective(h.allocated_nodes \o h.freed_nodes)
               /\ ToSet(h.freed_nodes) \cap live = {} /\ Len(h.freed_nodes) <= FREED_MAX
               /\ ToSet(h.allocated_nodes) \cap live = {n \in live : creator[n] = t} \ h.committed
               /\ Cardinality(ToSet(h.allocated_nodes) \ live) <= h.deleted_by_others
    <3> DEFINE h == ids[t]
    <3>1. Sound(h) /\ h.allocated_nodes \in Seq(Node) /\ h.freed_nodes \in Seq(Node)
      BY DEF HandlerTypes, Handlers
    <3>2. /\ Once(h.allocated_nodes) /\ Once(h.freed_nodes) /\ Len(h.freed_nodes) <= FREED_MAX
          /\ ToSet(h.allocated_nodes) \cap ToSet(h.freed_nodes) = {}
      BY <3>1 DEF Sound, Allocated, Freed
    <3>3. Once(h.allocated_nodes \o h.freed_nodes)
      BY <3>1, <3>2, SeqConcat
    <3>4. IsInjective(h.allocated_nodes \o h.freed_nodes)
      BY <3>3 DEF Once, IsInjective
    <3>5. ToSet(h.freed_nodes) \cap live = {}
      BY DEF OnLists, Freed
    <3>6. ToSet(h.allocated_nodes) \cap live = {n \in live : creator[n] = t} \ h.committed
      <4>1. t # None
        BY Constants DEF Node
      <4>2. \A n \in live : creator[n] = t => n \in Allocated(h) \cup h.committed
        BY <4>1 DEF Creators
      <4>3. \A n \in Allocated(h) \cap live : creator[n] = t /\ n \notin h.committed
        BY DEF OnLists, Creators
      <4> QED
        BY <4>2, <4>3 DEF Allocated
    <3>7. Cardinality(ToSet(h.allocated_nodes) \ live) <= h.deleted_by_others
      BY DEF Told, Allocated
    <3> QED
      BY <3>2, <3>4, <3>5, <3>6, <3>7
  <2> QED
    BY <2>2, <2>3, <2>4 DEF IdsKept
<1> QED
  BY <1>1, IdsHold, PTL
==============================================================================
