---------------------------- MODULE LibraryProofs ----------------------------
(***************************************************************************)
(* What the modules share: what SumFunctionOnSet of the module Functions   *)
(* computes, and sequences as lists, with Only of the module Lists.  The   *)
(* sum is defined by a fold, that is by recursion over the subsets of a    *)
(* finite set, and Only by recursion over a number; the arguments by       *)
(* induction are arguments about a smallest counterexample.                *)
(***************************************************************************)
EXTENDS Lists, Functions, SequencesExt, FiniteSetTheorems, SequenceTheorems, TLAPS

\* The equation of the fold.
Sums(f, S, g) ==
  g = [s \in SUBSET S |->
         IF s = {} THEN 0
         ELSE LET x == CHOOSE x \in s : TRUE IN f[x] + g[s \ {x}]]

\* A set of subsets of a finite set has a smallest member.
LEMMA SmallestSubset ==
  ASSUME NEW S, IsFiniteSet(S), NEW T, T \subseteq SUBSET S, T # {}
  PROVE  \E x \in T : \A y \in T : y \subseteq x => y = x
<1>1. IsWellFoundedOn(StrictSubsetOrdering(S), FiniteSubsetsOf(S))
  BY FS_StrictSubsetOrderingWellFounded
<1>2. FiniteSubsetsOf(S) = SUBSET S
  BY FS_FiniteSubsetsOfFinite
<1>3. \E x \in T : \A y \in T : ~(<<y, x>> \in StrictSubsetOrdering(S))
  BY <1>1, <1>2, WFMin
<1> QED
  BY <1>2, <1>3 DEF StrictSubsetOrdering

\* The chosen member of a set is a member.
LEMMA Chosen ==
  ASSUME NEW s, s # {}
  PROVE  /\ (CHOOSE x \in s : TRUE) \in s
         /\ s \ {CHOOSE x \in s : TRUE} \subseteq s
         /\ s \ {CHOOSE x \in s : TRUE} # s
  OBVIOUS

\* Two solutions of the equation agree where both are defined.
LEMMA SumsAgree ==
  ASSUME NEW S, IsFiniteSet(S), NEW T \in SUBSET S, NEW f,
         NEW g, Sums(f, S, g), NEW h, Sums(f, T, h)
  PROVE  \A s \in SUBSET T : g[s] = h[s]
<1> DEFINE Bad == {s \in SUBSET T : g[s] # h[s]}
<1> SUFFICES ASSUME Bad # {} PROVE FALSE
  OBVIOUS
<1>1. PICK s \in Bad : \A y \in Bad : y \subseteq s => y = s
  <2>1. Bad \subseteq SUBSET S
    OBVIOUS
  <2> HIDE DEF Bad
  <2> QED
    BY <2>1, SmallestSubset
<1>2. s # {}
  BY <1>1 DEF Sums
<1> DEFINE x == CHOOSE x \in s : TRUE
<1>3. s \ {x} \notin Bad /\ s \ {x} \in SUBSET T
  BY <1>1, <1>2, Chosen
<1>4. g[s] = f[x] + g[s \ {x}] /\ h[s] = f[x] + h[s \ {x}]
  <2>1. s \in SUBSET S /\ s \in SUBSET T
    BY <1>1
  <2> QED
    BY <1>2, <2>1 DEF Sums
<1> HIDE DEF x
<1> QED
  BY <1>1, <1>3, <1>4

\* The equation has a solution.
LEMMA SumsExist ==
  ASSUME NEW S, IsFiniteSet(S), NEW f
  PROVE  \E g : Sums(f, S, g)
<1> DEFINE Bad == {T \in SUBSET S : ~\E g : Sums(f, T, g)}
<1> SUFFICES ASSUME Bad # {} PROVE FALSE
  OBVIOUS
<1>1. PICK T \in Bad : \A y \in Bad : y \subseteq T => y = T
  <2>1. Bad \subseteq SUBSET S
    OBVIOUS
  <2> HIDE DEF Bad
  <2> QED
    BY <2>1, SmallestSubset
<1> DEFINE C(s) == CHOOSE x \in s : TRUE
           G(u) == CHOOSE h : Sums(f, u, h)
           g == [s \in SUBSET T |->
                   IF s = {} THEN 0 ELSE f[C(s)] + G(s \ {C(s)})[s \ {C(s)}]]
<1>2. ASSUME NEW u, u \subseteq T, u # T PROVE Sums(f, u, G(u))
  <2>1. u \notin Bad /\ u \in SUBSET S
    BY <1>1, <1>2
  <2>2. \E h : Sums(f, u, h)
    BY <2>1
  <2> QED
    BY <2>2
<1>3. ASSUME NEW u, u \subseteq T, u # T PROVE G(u)[u] = g[u]
  <2>1. Sums(f, u, G(u))
    BY <1>2, <1>3
  <2>2. CASE u = {}
    <3>1. G(u)[u] = 0
      BY <2>1, <2>2 DEF Sums
    <3> QED
      BY <2>2, <3>1
  <2>3. CASE u # {}
    <3>1. /\ C(u) \in u /\ u \ {C(u)} \subseteq u /\ u \ {C(u)} # T
          /\ u \ {C(u)} \subseteq T /\ u \in SUBSET u
      BY <1>3, <2>3, Chosen
    <3>2. G(u)[u] = f[C(u)] + G(u)[u \ {C(u)}]
      <4> HIDE DEF G
      <4> QED
        BY <2>1, <2>3, <3>1 DEF Sums
    <3>3. Sums(f, u \ {C(u)}, G(u \ {C(u)}))
      BY <1>2, <3>1
    <3>4. IsFiniteSet(u)
      BY <1>1, <1>3, FS_Subset
    <3> HIDE DEF G, C
    <3>5. G(u)[u \ {C(u)}] = G(u \ {C(u)})[u \ {C(u)}]
      BY <2>1, <3>1, <3>3, <3>4, SumsAgree
    <3> QED
      BY <1>3, <2>3, <3>2, <3>5
  <2> QED
    BY <2>2, <2>3
<1>4. Sums(f, T, g)
  <2>1. ASSUME NEW s \in SUBSET T, s # {}
        PROVE  G(s \ {C(s)})[s \ {C(s)}] = g[s \ {C(s)}]
    <3>1. s \ {C(s)} \subseteq T /\ s \ {C(s)} # T
      BY <2>1, Chosen
    <3> HIDE DEF G, C, g
    <3> QED
      BY <1>3, <3>1
  <2>2. \A s \in SUBSET T : g[s] = IF s = {} THEN 0 ELSE f[C(s)] + g[s \ {C(s)}]
    <3> HIDE DEF G, C
    <3> QED
      BY <2>1
  <2>3. g = [s \in SUBSET T |-> g[s]]
    <3> HIDE DEF G, C
    <3> QED
      OBVIOUS
  <2> HIDE DEF g
  <2>4. g = [s \in SUBSET T |-> IF s = {} THEN 0 ELSE f[C(s)] + g[s \ {C(s)}]]
    BY <2>2, <2>3
  <2> QED
    BY <2>4 DEF Sums
<1> QED
  BY <1>1, <1>4

\* The sum over a finite set: zero for the empty set, else the value of the
\* chosen member and the sum over the others.
LEMMA SumUnfolds ==
  ASSUME NEW S, IsFiniteSet(S), NEW f
  PROVE  SumFunctionOnSet(f, S) =
           IF S = {} THEN 0
           ELSE LET x == CHOOSE x \in S : TRUE IN f[x] + SumFunctionOnSet(f, S \ {x})
<1> DEFINE It(T) == CHOOSE g : Sums(f, T, g)
<1>1. ASSUME NEW T PROVE SumFunctionOnSet(f, T) = It(T)[T]
  BY DEF SumFunctionOnSet, FoldFunctionOnSet, MapThenFoldSet, Sums
<1>2. ASSUME NEW T, IsFiniteSet(T) PROVE Sums(f, T, It(T))
  BY <1>2, SumsExist
<1>3. CASE S = {}
  <2>1. Sums(f, S, It(S)) /\ S \in SUBSET S
    BY <1>2
  <2> HIDE DEF It
  <2> QED
    BY <1>1, <1>3, <2>1 DEF Sums
<1>4. CASE S # {}
  <2> DEFINE x == CHOOSE x \in S : TRUE
  <2>1. S \in SUBSET S /\ S \ {x} \in SUBSET S /\ IsFiniteSet(S \ {x})
    BY FS_RemoveElement
  <2>2. Sums(f, S, It(S)) /\ Sums(f, S \ {x}, It(S \ {x}))
    BY <1>2, <2>1
  <2> HIDE DEF It
  <2>3. It(S)[S] = f[x] + It(S)[S \ {x}]
    BY <1>4, <2>1, <2>2 DEF Sums
  <2>4. It(S)[S \ {x}] = It(S \ {x})[S \ {x}]
    BY <2>1, <2>2, SumsAgree
  <2> QED
    BY <1>1, <1>4, <2>3, <2>4
<1> QED
  BY <1>3, <1>4

-----------------------------------------------------------------------------
(* The facts used elsewhere. *)

\* The sum over the empty set.
LEMMA SumEmpty == ASSUME NEW f PROVE SumFunctionOnSet(f, {}) = 0
  BY SumUnfolds, FS_EmptySet

\* Sums of integers are integers, sums of naturals naturals.
LEMMA SumType ==
  ASSUME NEW S, IsFiniteSet(S), NEW f
  PROVE  /\ (\A x \in S : f[x] \in Int) => SumFunctionOnSet(f, S) \in Int
         /\ (\A x \in S : f[x] \in Nat) => SumFunctionOnSet(f, S) \in Nat
<1>1. ASSUME NEW N, 0 \in N, \A i, j \in N : i + j \in N, \A x \in S : f[x] \in N
      PROVE  SumFunctionOnSet(f, S) \in N
  <2> DEFINE Bad == {T \in SUBSET S : SumFunctionOnSet(f, T) \notin N}
  <2> SUFFICES ASSUME Bad # {} PROVE FALSE
    OBVIOUS
  <2>1. Bad \subseteq SUBSET S
    OBVIOUS
  <2>2. PICK T \in Bad : \A y \in Bad : y \subseteq T => y = T
    <3> HIDE DEF Bad
    <3> QED
      BY <2>1, SmallestSubset
  <2>3. T \in SUBSET S /\ IsFiniteSet(T)
    BY <2>2, FS_Subset
  <2>4. T # {}
    BY <1>1, <2>2, SumEmpty
  <2> DEFINE x == CHOOSE x \in T : TRUE
  <2>5. x \in T /\ T \ {x} \notin Bad /\ T \ {x} \in SUBSET S
    BY <2>2, <2>3, <2>4, Chosen
  <2>6. SumFunctionOnSet(f, T) = f[x] + SumFunctionOnSet(f, T \ {x})
    BY <2>3, <2>4, SumUnfolds
  <2> HIDE DEF x
  <2> QED
    BY <1>1, <2>2, <2>3, <2>5, <2>6
<1>2. 0 \in Int /\ \A i, j \in Int : i + j \in Int
  OBVIOUS
<1>3. 0 \in Nat /\ \A i, j \in Nat : i + j \in Nat
  OBVIOUS
<1>4. (\A x \in S : f[x] \in Int) => SumFunctionOnSet(f, S) \in Int
  BY <1>1, <1>2, Zenon
<1>5. (\A x \in S : f[x] \in Nat) => SumFunctionOnSet(f, S) \in Nat
  BY <1>1, <1>3, Zenon
<1> QED
  BY <1>4, <1>5

\* Any member may be taken out first.
LEMMA SumRemove ==
  ASSUME NEW S, IsFiniteSet(S), NEW f, \A y \in S : f[y] \in Int, NEW x \in S
  PROVE  SumFunctionOnSet(f, S) = f[x] + SumFunctionOnSet(f, S \ {x})
<1> DEFINE Sum(T) == SumFunctionOnSet(f, T)
           Bad == {T \in SUBSET S : \E y \in T : Sum(T) # f[y] + Sum(T \ {y})}
<1> SUFFICES ASSUME Bad # {} PROVE FALSE
  OBVIOUS
<1>1. Bad \subseteq SUBSET S
  OBVIOUS
<1>2. PICK T \in Bad : \A y \in Bad : y \subseteq T => y = T
  <2> HIDE DEF Bad
  <2> QED
    BY <1>1, SmallestSubset
<1>3. PICK y \in T : Sum(T) # f[y] + Sum(T \ {y})
  BY <1>2
<1> DEFINE c == CHOOSE c \in T : TRUE
           R == (T \ {y}) \ {c}
<1>4. /\ c \in T /\ T \in SUBSET S /\ IsFiniteSet(T)
      /\ Sum(T) = f[c] + Sum(T \ {c})
  BY <1>2, FS_Subset, SumUnfolds
<1> HIDE DEF c
<1>5. c # y
  BY <1>3, <1>4
<1>6. Sum(T \ {c}) = f[y] + Sum((T \ {c}) \ {y})
  <2>1. T \ {c} \notin Bad /\ T \ {c} \in SUBSET S /\ y \in T \ {c}
    BY <1>2, <1>4, <1>5
  <2> HIDE DEF Sum
  <2> QED
    BY <2>1
<1>7. Sum(T \ {y}) = f[c] + Sum(R)
  <2>1. T \ {y} \notin Bad /\ T \ {y} \in SUBSET S /\ c \in T \ {y}
    BY <1>2, <1>3, <1>4, <1>5
  <2> HIDE DEF Sum
  <2> QED
    BY <2>1
<1>8. (T \ {c}) \ {y} = R
  OBVIOUS
<1>9. f[c] \in Int /\ f[y] \in Int /\ Sum(R) \in Int
  <2>1. R \in SUBSET S /\ IsFiniteSet(R) /\ c \in S /\ y \in S
    BY <1>4, <1>3, FS_Subset
  <2> HIDE DEF R
  <2> QED
    BY <2>1, SumType
<1> HIDE DEF R, Sum
<1>10. Sum(T) = f[c] + (f[y] + Sum(R))
  BY <1>4, <1>6, <1>8
<1>11. f[c] + (f[y] + Sum(R)) = f[y] + (f[c] + Sum(R))
  BY <1>9
<1> QED
  BY <1>3, <1>7, <1>10, <1>11

\* The sum depends on the values at the members only.
LEMMA SumSame ==
  ASSUME NEW S, IsFiniteSet(S), NEW f, NEW g, \A y \in S : f[y] = g[y]
  PROVE  SumFunctionOnSet(f, S) = SumFunctionOnSet(g, S)
<1> DEFINE Bad == {T \in SUBSET S : SumFunctionOnSet(f, T) # SumFunctionOnSet(g, T)}
<1> SUFFICES ASSUME Bad # {} PROVE FALSE
  OBVIOUS
<1>1. Bad \subseteq SUBSET S
  OBVIOUS
<1>2. PICK T \in Bad : \A y \in Bad : y \subseteq T => y = T
  <2> HIDE DEF Bad
  <2> QED
    BY <1>1, SmallestSubset
<1>3. T \in SUBSET S /\ IsFiniteSet(T)
  BY <1>2, FS_Subset
<1>4. T # {}
  BY <1>2, SumEmpty
<1> DEFINE x == CHOOSE x \in T : TRUE
<1>5. x \in T /\ T \ {x} \notin Bad /\ T \ {x} \in SUBSET S
  BY <1>2, <1>3, <1>4, Chosen
<1>6. /\ SumFunctionOnSet(f, T) = f[x] + SumFunctionOnSet(f, T \ {x})
      /\ SumFunctionOnSet(g, T) = g[x] + SumFunctionOnSet(g, T \ {x})
  BY <1>3, <1>4, SumUnfolds
<1> HIDE DEF x
<1> QED
  BY <1>2, <1>3, <1>5, <1>6

\* A change of one value changes the sum by the difference.
LEMMA SumUpdate ==
  ASSUME NEW S, IsFiniteSet(S), NEW f, NEW g, NEW x \in S,
         \A y \in S : f[y] \in Int /\ g[y] \in Int,
         \A y \in S : y # x => g[y] = f[y]
  PROVE  SumFunctionOnSet(g, S) = SumFunctionOnSet(f, S) + g[x] - f[x]
<1>1. /\ SumFunctionOnSet(f, S) = f[x] + SumFunctionOnSet(f, S \ {x})
      /\ SumFunctionOnSet(g, S) = g[x] + SumFunctionOnSet(g, S \ {x})
  BY SumRemove
<1>2. IsFiniteSet(S \ {x}) /\ \A y \in S \ {x} : f[y] = g[y] /\ f[y] \in Int
  BY FS_RemoveElement
<1>3. SumFunctionOnSet(f, S \ {x}) = SumFunctionOnSet(g, S \ {x})
  BY <1>2, SumSame
<1>4. SumFunctionOnSet(f, S \ {x}) \in Int
  BY <1>2, SumType
<1> QED
  BY <1>1, <1>3, <1>4

\* The sum of pointwise sums.
LEMMA SumPlus ==
  ASSUME NEW S, IsFiniteSet(S), NEW f, NEW g, NEW h,
         \A y \in S : f[y] \in Int /\ g[y] \in Int /\ h[y] = f[y] + g[y]
  PROVE  SumFunctionOnSet(h, S) = SumFunctionOnSet(f, S) + SumFunctionOnSet(g, S)
<1> DEFINE Bad == {T \in SUBSET S : SumFunctionOnSet(h, T) #
                     SumFunctionOnSet(f, T) + SumFunctionOnSet(g, T)}
<1> SUFFICES ASSUME Bad # {} PROVE FALSE
  OBVIOUS
<1>1. Bad \subseteq SUBSET S
  OBVIOUS
<1>2. PICK T \in Bad : \A y \in Bad : y \subseteq T => y = T
  <2> HIDE DEF Bad
  <2> QED
    BY <1>1, SmallestSubset
<1>3. T \in SUBSET S /\ IsFiniteSet(T)
  BY <1>2, FS_Subset
<1>4. T # {}
  <2>1. /\ SumFunctionOnSet(f, {}) = 0 /\ SumFunctionOnSet(g, {}) = 0
        /\ SumFunctionOnSet(h, {}) = 0
    BY SumEmpty
  <2>2. 0 + 0 = 0
    OBVIOUS
  <2>3. {} \notin Bad
    BY <2>1, <2>2, Zenon
  <2> HIDE DEF Bad
  <2> QED
    BY <1>2, <2>3
<1> DEFINE x == CHOOSE x \in T : TRUE
<1>5. x \in T /\ T \ {x} \notin Bad /\ T \ {x} \in SUBSET S
  BY <1>2, <1>3, <1>4, Chosen
<1>6. /\ SumFunctionOnSet(f, T) = f[x] + SumFunctionOnSet(f, T \ {x})
      /\ SumFunctionOnSet(g, T) = g[x] + SumFunctionOnSet(g, T \ {x})
      /\ SumFunctionOnSet(h, T) = h[x] + SumFunctionOnSet(h, T \ {x})
  BY <1>3, <1>4, SumUnfolds
<1> HIDE DEF x
<1>7. IsFiniteSet(T \ {x})
  BY <1>3, FS_RemoveElement
<1>8. /\ SumFunctionOnSet(f, T \ {x}) \in Int /\ SumFunctionOnSet(g, T \ {x}) \in Int
      /\ f[x] \in Int /\ g[x] \in Int /\ h[x] = f[x] + g[x]
  BY <1>3, <1>5, <1>7, SumType
<1>9. SumFunctionOnSet(h, T \ {x}) = SumFunctionOnSet(f, T \ {x}) + SumFunctionOnSet(g, T \ {x})
  BY <1>5
<1>10. SumFunctionOnSet(h, T) = SumFunctionOnSet(f, T) + SumFunctionOnSet(g, T)
  BY <1>6, <1>8, <1>9
<1> QED
  BY <1>2, <1>10

\* A sum of naturals is at least each of them, and zero when all are zero.
LEMMA SumBounds ==
  ASSUME NEW S, IsFiniteSet(S), NEW f, \A y \in S : f[y] \in Nat
  PROVE  /\ \A x \in S : f[x] <= SumFunctionOnSet(f, S)
         /\ SumFunctionOnSet(f, S) = 0 <=> \A x \in S : f[x] = 0
<1>1. ASSUME NEW x \in S PROVE f[x] <= SumFunctionOnSet(f, S)
  <2>1. SumFunctionOnSet(f, S) = f[x] + SumFunctionOnSet(f, S \ {x})
    BY SumRemove
  <2>2. IsFiniteSet(S \ {x})
    BY FS_RemoveElement
  <2>3. SumFunctionOnSet(f, S \ {x}) \in Nat
    BY <2>2, SumType
  <2> QED
    BY <2>1, <2>3
<1>2. ASSUME \A x \in S : f[x] = 0 PROVE SumFunctionOnSet(f, S) = 0
  <2> DEFINE z == [y \in S |-> 0]
  <2>1. SumFunctionOnSet(f, S) = SumFunctionOnSet(z, S)
    BY <1>2, SumSame
  <2>2. SumFunctionOnSet(f, S) = SumFunctionOnSet(f, S) + SumFunctionOnSet(z, S)
    BY <1>2, SumPlus
  <2>3. SumFunctionOnSet(f, S) \in Int
    BY SumType
  <2> HIDE DEF z
  <2>4. SumFunctionOnSet(f, S) = SumFunctionOnSet(f, S) + SumFunctionOnSet(f, S)
    BY <2>1, <2>2
  <2>5. \A a \in Int : a = a + a => a = 0
    OBVIOUS
  <2> QED
    BY <2>3, <2>4, <2>5, Zenon
<1>3. SumFunctionOnSet(f, S) \in Nat
  BY SumType
<1>4. ASSUME SumFunctionOnSet(f, S) = 0, NEW x \in S PROVE f[x] = 0
  BY <1>1, <1>4
<1> QED
  BY <1>1, <1>2, <1>4

\* A sum of zeros and ones counts the ones.
LEMMA SumCounts ==
  ASSUME NEW S, IsFiniteSet(S), NEW f, \A y \in S : f[y] \in {0, 1}
  PROVE  SumFunctionOnSet(f, S) = Cardinality({y \in S : f[y] = 1})
<1> DEFINE Ones(T) == {y \in T : f[y] = 1}
           Bad == {T \in SUBSET S : SumFunctionOnSet(f, T) # Cardinality(Ones(T))}
<1> SUFFICES ASSUME Bad # {} PROVE FALSE
  OBVIOUS
<1>1. Bad \subseteq SUBSET S
  OBVIOUS
<1>2. PICK T \in Bad : \A y \in Bad : y \subseteq T => y = T
  <2> HIDE DEF Bad
  <2> QED
    BY <1>1, SmallestSubset
<1>3. T \in SUBSET S /\ IsFiniteSet(T)
  BY <1>2, FS_Subset
<1>4. T # {}
  <2>1. SumFunctionOnSet(f, {}) = 0 /\ Ones({}) = {} /\ Cardinality({}) = 0
    BY SumEmpty, FS_EmptySet
  <2> HIDE DEF Ones
  <2> QED
    BY <1>2, <2>1
<1> DEFINE x == CHOOSE x \in T : TRUE
<1>5. x \in T /\ T \ {x} \notin Bad /\ T \ {x} \in SUBSET S
  BY <1>2, <1>3, <1>4, Chosen
<1>6. SumFunctionOnSet(f, T) = f[x] + SumFunctionOnSet(f, T \ {x})
  BY <1>3, <1>4, SumUnfolds
<1> HIDE DEF x
<1>7. Ones(T \ {x}) = Ones(T) \ {x} /\ (x \in Ones(T) <=> f[x] = 1)
  BY <1>5
<1>8. IsFiniteSet(Ones(T))
  BY <1>3, FS_Subset
<1>9. SumFunctionOnSet(f, T \ {x}) = Cardinality(Ones(T \ {x}))
  BY <1>5
<1>10. f[x] \in {0, 1}
  BY <1>3, <1>5
<1> HIDE DEF Ones
<1>11. Cardinality(Ones(T) \ {x}) = IF x \in Ones(T) THEN Cardinality(Ones(T)) - 1
                                    ELSE Cardinality(Ones(T))
  BY <1>8, FS_RemoveElement
<1>12. Cardinality(Ones(T)) \in Nat
  BY <1>8, FS_CardinalityType
<1>13. SumFunctionOnSet(f, T) = Cardinality(Ones(T))
  <2>1. CASE f[x] = 1
    <3>1. Cardinality(Ones(T \ {x})) = Cardinality(Ones(T)) - 1
      BY <1>7, <1>11, <2>1
    <3>2. SumFunctionOnSet(f, T) = 1 + (Cardinality(Ones(T)) - 1)
      BY <1>6, <1>9, <2>1, <3>1, Zenon
    <3>3. \A c \in Nat : 1 + (c - 1) = c
      OBVIOUS
    <3> QED
      BY <1>12, <3>2, <3>3, Zenon
  <2>2. CASE f[x] = 0
    BY <1>6, <1>7, <1>9, <1>11, <1>12, <2>2
  <2> QED
    BY <1>10, <2>1, <2>2
<1> QED
  BY <1>2, <1>13

\* A sum of naturals is at least the number of members whose value is positive.
LEMMA SumAtLeast ==
  ASSUME NEW S, IsFiniteSet(S), NEW f, \A y \in S : f[y] \in Nat
  PROVE  Cardinality({y \in S : f[y] > 0}) <= SumFunctionOnSet(f, S)
<1> DEFINE one == [y \in S |-> IF f[y] > 0 THEN 1 ELSE 0]
           rest == [y \in S |-> IF f[y] > 0 THEN f[y] - 1 ELSE 0]
<1>1. \A y \in S : one[y] \in {0, 1} /\ (one[y] = 1 <=> f[y] > 0)
  OBVIOUS
<1>2. \A y \in S : one[y] \in Int /\ rest[y] \in Int /\ rest[y] \in Nat
                  /\ f[y] = one[y] + rest[y]
  OBVIOUS
<1> HIDE DEF one, rest
<1>3. SumFunctionOnSet(f, S) = SumFunctionOnSet(one, S) + SumFunctionOnSet(rest, S)
  BY <1>2, SumPlus
<1>4. SumFunctionOnSet(one, S) = Cardinality({y \in S : one[y] = 1})
  BY <1>1, SumCounts
<1>5. {y \in S : one[y] = 1} = {y \in S : f[y] > 0}
  BY <1>1
<1>6. SumFunctionOnSet(rest, S) \in Nat /\ SumFunctionOnSet(one, S) \in Int
  BY <1>2, SumType
<1>7. \A a, c \in Int : c \in Nat => a <= a + c
  OBVIOUS
<1>8. SumFunctionOnSet(rest, S) \in Int
  BY <1>6
<1> QED
  BY <1>3, <1>4, <1>5, <1>6, <1>7, <1>8, Zenon

-----------------------------------------------------------------------------
(* Sequences *)

\* No member twice.
Once(s) == \A i, j \in DOMAIN s : s[i] = s[j] => i = j

\* A set of naturals that is not empty has a smallest member.
LEMMA SmallestNat ==
  ASSUME NEW T, T \subseteq Nat, T # {}
  PROVE  \E x \in T : \A y \in T : x <= y
<1>1. \E x \in T : \A y \in T : ~(<<y, x>> \in OpToRel(<, Nat))
  BY NatLessThanWellFounded, WFMin
<1>2. PICK x \in T : \A y \in T : ~(<<y, x>> \in OpToRel(<, Nat))
  BY <1>1
<1>3. \A y \in T : ~(y < x)
  BY <1>2 DEF OpToRel
<1> QED
  BY <1>3

\* What a sequence holds, and when it holds nothing.
LEMMA SeqSet ==
  ASSUME NEW D, NEW s \in Seq(D)
  PROVE  /\ ToSet(s) \subseteq D /\ s \in Seq(ToSet(s))
         /\ s = <<>> <=> ToSet(s) = {}
<1>1. ToSet(s) \subseteq D
  BY LenProperties DEF ToSet
<1>2. s \in Seq(ToSet(s))
  <2>1. Len(s) \in Nat /\ s \in [1..Len(s) -> D] /\ DOMAIN s = 1..Len(s)
    BY LenProperties
  <2>2. s \in [1..Len(s) -> ToSet(s)]
    BY <2>1 DEF ToSet
  <2> QED
    BY <2>1, <2>2, SeqDef
<1>3. s = <<>> <=> ToSet(s) = {}
  <2>1. s # <<>> => 1 \in DOMAIN s
    BY EmptySeq, LenProperties
  <2> QED
    BY <2>1 DEF ToSet
<1> QED
  BY <1>1, <1>2, <1>3

\* Concatenation.
LEMMA SeqConcat ==
  ASSUME NEW D, NEW s \in Seq(D), NEW u \in Seq(D)
  PROVE  /\ s \o u \in Seq(D)
         /\ s \o u = <<>> <=> s = <<>> /\ u = <<>>
         /\ ToSet(s \o u) = ToSet(s) \cup ToSet(u)
         /\ Once(s) /\ Once(u) /\ ToSet(s) \cap ToSet(u) = {} => Once(s \o u)
<1>1. /\ s \o u \in Seq(D) /\ Len(s \o u) = Len(s) + Len(u)
      /\ \A i \in 1..Len(s) + Len(u) : (s \o u)[i] = IF i <= Len(s) THEN s[i] ELSE u[i - Len(s)]
  BY ConcatProperties
<1>2. /\ Len(s) \in Nat /\ Len(u) \in Nat /\ DOMAIN s = 1..Len(s) /\ DOMAIN u = 1..Len(u)
      /\ DOMAIN (s \o u) = 1..Len(s) + Len(u)
  BY <1>1, LenProperties
<1>3. s \o u = <<>> <=> s = <<>> /\ u = <<>>
  BY ConcatEqualIffEmpty
<1> DEFINE w == s \o u
<1>4. ASSUME NEW i \in DOMAIN w
      PROVE  (i \in DOMAIN s /\ w[i] = s[i]) \/ (i - Len(s) \in DOMAIN u /\ w[i] = u[i - Len(s)] /\ i > Len(s))
  BY <1>1, <1>2, <1>4
<1>5. ASSUME NEW i \in DOMAIN s PROVE i \in DOMAIN w /\ w[i] = s[i]
  BY <1>1, <1>2, <1>5
<1>6. ASSUME NEW i \in DOMAIN u PROVE i + Len(s) \in DOMAIN w /\ w[i + Len(s)] = u[i]
  <2>1. i + Len(s) \in 1..Len(s) + Len(u) /\ ~(i + Len(s) <= Len(s)) /\ i + Len(s) - Len(s) = i
    BY <1>2, <1>6
  <2> QED
    BY <1>1, <1>2, <2>1
<1> HIDE DEF w
<1>7. ToSet(w) = ToSet(s) \cup ToSet(u)
  BY <1>4, <1>5, <1>6 DEF ToSet
<1>8. ASSUME Once(s), Once(u), ToSet(s) \cap ToSet(u) = {}, NEW i \in DOMAIN w, NEW j \in DOMAIN w,
             w[i] = w[j]
      PROVE  i = j
  <2>1. \A k \in DOMAIN s, l \in DOMAIN u : s[k] # u[l]
    BY <1>8 DEF ToSet
  <2>2. CASE i \in DOMAIN s /\ w[i] = s[i] /\ j \in DOMAIN s /\ w[j] = s[j]
    BY <1>8, <2>2 DEF Once
  <2>3. CASE /\ i - Len(s) \in DOMAIN u /\ w[i] = u[i - Len(s)]
             /\ j - Len(s) \in DOMAIN u /\ w[j] = u[j - Len(s)]
    <3>1. i - Len(s) = j - Len(s)
      BY <1>8, <2>3 DEF Once
    <3>2. i \in Int /\ j \in Int
      BY <1>1, <1>2 DEF w
    <3> QED
      BY <1>2, <3>1, <3>2
  <2> QED
    BY <1>4, <1>8, <2>1, <2>2, <2>3
<1> QED
  BY <1>1, <1>3, <1>7, <1>8 DEF w, Once

\* One more member at the end.
LEMMA SeqAppend ==
  ASSUME NEW D, NEW s \in Seq(D), NEW x \in D
  PROVE  /\ Append(s, x) \in Seq(D) /\ Append(s, x) # <<>>
         /\ ToSet(Append(s, x)) = ToSet(s) \cup {x}
         /\ Once(s) /\ x \notin ToSet(s) => Once(Append(s, x))
<1> DEFINE u == <<x>>
<1>1. Append(s, x) = s \o u /\ Append(s, x) # <<>>
  BY AppendIsConcat, AppendProperties
<1>2. u \in Seq(D) /\ ToSet(u) = {x} /\ Once(u)
  BY DEF ToSet, Once
<1> HIDE DEF u
<1>3. /\ s \o u \in Seq(D)
      /\ ToSet(s \o u) = ToSet(s) \cup ToSet(u)
      /\ Once(s) /\ Once(u) /\ ToSet(s) \cap ToSet(u) = {} => Once(s \o u)
  BY <1>2, SeqConcat
<1>4. x \notin ToSet(s) => ToSet(s) \cap {x} = {}
  OBVIOUS
<1> QED
  BY <1>1, <1>2, <1>3, <1>4, Zenon

\* The members of S in a sequence.
LEMMA OnlyIs ==
  ASSUME NEW D, NEW s \in Seq(D), NEW S
  PROVE  /\ Only(s, S) \in Seq(D)
         /\ ToSet(Only(s, S)) = ToSet(s) \cap S
         /\ Once(s) => Once(Only(s, S))
<1> DEFINE Rec(F, k) == F = [i \in 0..k |-> IF i = 0 THEN <<>> ELSE
                               IF s[i] \in S THEN Append(F[i - 1], s[i]) ELSE F[i - 1]]
           G == CHOOSE F : Rec(F, Len(s))
<1>1. Only(s, S) = G[Len(s)]
  BY DEF Only
<1>2. Len(s) \in Nat /\ DOMAIN s = 1..Len(s) /\ \A i \in 1..Len(s) : s[i] \in D
  BY LenProperties
<1>3. \A k \in Nat : \E F : Rec(F, k)
  <2> DEFINE Bad == {k \in Nat : ~\E F : Rec(F, k)}
  <2> SUFFICES ASSUME Bad # {} PROVE FALSE
    OBVIOUS
  <2>1. Bad \subseteq Nat
    OBVIOUS
  <2>2. PICK k \in Bad : \A j \in Bad : k <= j
    <3> HIDE DEF Bad
    <3> QED
      BY <2>1, SmallestNat
  <2>3. CASE k = 0
    <3>1. Rec([i \in 0..0 |-> <<>>], 0)
      OBVIOUS
    <3> QED
      BY <2>2, <2>3, <3>1
  <2>4. CASE k # 0
    <3>1. k - 1 \in Nat /\ k - 1 \notin Bad
      <4> HIDE DEF Bad
      <4> QED
        BY <2>1, <2>2, <2>4
    <3>2. PICK E : Rec(E, k - 1)
      BY <3>1
    <3> DEFINE F == [i \in 0..k |-> IF i < k THEN E[i] ELSE
                       IF s[k] \in S THEN Append(E[k - 1], s[k]) ELSE E[k - 1]]
    <3>3. ASSUME NEW i \in 0..k
          PROVE  F[i] = IF i = 0 THEN <<>> ELSE IF s[i] \in S THEN Append(F[i - 1], s[i]) ELSE F[i - 1]
      <4>1. CASE i = 0
        BY <2>4, <3>2, <4>1
      <4>2. CASE i # 0 /\ i < k
        <5>1. i \in 0..k - 1 /\ i - 1 \in 0..k - 1 /\ i - 1 \in 0..k /\ i - 1 < k
          BY <3>1, <3>3, <4>2
        <5>2. F[i] = E[i] /\ F[i - 1] = E[i - 1]
          BY <3>3, <4>2, <5>1
        <5> QED
          BY <3>2, <4>2, <5>1, <5>2
      <4>3. CASE i = k
        <5>1. i - 1 \in 0..k /\ i - 1 < k /\ ~(i < k)
          BY <3>1, <4>3
        <5>2. F[i - 1] = E[k - 1]
          BY <4>3, <5>1
        <5> QED
          BY <2>4, <3>3, <4>3, <5>1, <5>2
      <4> QED
        BY <3>1, <4>1, <4>2, <4>3
    <3>4. F = [i \in 0..k |-> F[i]]
      OBVIOUS
    <3> HIDE DEF F
    <3>5. Rec(F, k)
      BY <3>3, <3>4
    <3> QED
      BY <2>2, <3>5
  <2> QED
    BY <2>3, <2>4
<1>4. Rec(G, Len(s))
  BY <1>2, <1>3
<1> HIDE DEF G
<1> DEFINE Pre(i) == {s[j] : j \in 1..i}
           Good(i) == /\ G[i] \in Seq(D) /\ ToSet(G[i]) = Pre(i) \cap S
                      /\ Once(s) => Once(G[i])
           Bad == {i \in 0..Len(s) : ~Good(i)}
<1>5. Bad = {}
  <2> SUFFICES ASSUME Bad # {} PROVE FALSE
    OBVIOUS
  <2>1. Bad \subseteq Nat
    BY <1>2
  <2>2. PICK k \in Bad : \A j \in Bad : k <= j
    <3> HIDE DEF Bad
    <3> QED
      BY <2>1, SmallestNat
  <2>3. k \in 0..Len(s) /\ k \in Nat
    BY <1>2, <2>2
  <2>4. k # 0
    <3>1. G[0] = <<>> /\ Pre(0) = {}
      BY <1>2, <1>4
    <3>2. <<>> \in Seq(D) /\ ToSet(<<>>) = {} /\ Once(<<>>)
      BY DEF ToSet, Once
    <3>3. Good(0)
      BY <3>1, <3>2
    <3> QED
      BY <2>2, <3>3
  <2>5. k - 1 \notin Bad /\ k - 1 \in 0..Len(s) /\ k \in 1..Len(s)
    <3> HIDE DEF Bad
    <3> QED
      BY <1>2, <2>2, <2>3, <2>4
  <2>6. Good(k - 1)
    BY <2>5
  <2>7. G[k] = IF s[k] \in S THEN Append(G[k - 1], s[k]) ELSE G[k - 1]
    BY <1>4, <2>3, <2>4
  <2>8. Pre(k) = Pre(k - 1) \cup {s[k]}
    <3>1. 1..k = 1..k - 1 \cup {k}
      BY <2>3, <2>4
    <3> QED
      BY <3>1
  <2>9. Once(s) => s[k] \notin Pre(k - 1)
    BY <1>2, <2>5 DEF Once
  <2> HIDE DEF Pre
  <2>10. CASE s[k] \in S
    <3>1. G[k] = Append(G[k - 1], s[k]) /\ s[k] \in D /\ G[k - 1] \in Seq(D)
      BY <1>2, <2>5, <2>6, <2>7, <2>10
    <3>2. /\ Append(G[k - 1], s[k]) \in Seq(D)
          /\ ToSet(Append(G[k - 1], s[k])) = ToSet(G[k - 1]) \cup {s[k]}
          /\ Once(G[k - 1]) /\ s[k] \notin ToSet(G[k - 1]) => Once(Append(G[k - 1], s[k]))
      BY <3>1, SeqAppend
    <3>3. Good(k)
      BY <2>6, <2>8, <2>9, <2>10, <3>1, <3>2
    <3> QED
      BY <2>2, <3>3
  <2>11. CASE s[k] \notin S
    <3>1. Good(k)
      BY <2>6, <2>7, <2>8, <2>11
    <3> QED
      BY <2>2, <3>1
  <2> QED
    BY <2>10, <2>11
<1>6. Good(Len(s))
  <2>1. Len(s) \in 0..Len(s)
    BY <1>2
  <2> HIDE DEF Good
  <2> QED
    BY <1>5, <2>1
<1>7. Pre(Len(s)) = ToSet(s)
  BY <1>2 DEF ToSet
<1> QED
  BY <1>1, <1>6, <1>7

\* A sum over the images of the members of S, under an injective h, is one over S.
LEMMA SumImage ==
  ASSUME NEW S, IsFiniteSet(S), NEW f, NEW g, NEW h,
         \A x, y \in S : h[x] = h[y] => x = y,
         \A x \in S : f[x] \in Int /\ g[h[x]] = f[x]
  PROVE  SumFunctionOnSet(f, S) = SumFunctionOnSet(g, {h[x] : x \in S})
<1> DEFINE Im(T) == {h[x] : x \in T}
           Bad == {T \in SUBSET S : SumFunctionOnSet(f, T) # SumFunctionOnSet(g, Im(T))}
<1> SUFFICES ASSUME Bad # {} PROVE FALSE
  OBVIOUS
<1>1. Bad \subseteq SUBSET S
  OBVIOUS
<1>2. PICK T \in Bad : \A y \in Bad : y \subseteq T => y = T
  <2> HIDE DEF Bad
  <2> QED
    BY <1>1, SmallestSubset
<1>3. T \subseteq S /\ SumFunctionOnSet(f, T) # SumFunctionOnSet(g, Im(T))
  OBVIOUS
<1>4. T # {}
  <2>1. Im({}) = {}
    OBVIOUS
  <2> QED
    BY <1>3, <2>1, SumEmpty
<1>5. PICK x \in T : TRUE
  BY <1>4
<1>6. T \ {x} \subseteq T /\ T \ {x} # T /\ T \ {x} \in SUBSET S
  BY <1>3
<1>7. SumFunctionOnSet(f, T \ {x}) = SumFunctionOnSet(g, Im(T \ {x}))
  BY <1>2, <1>6
<1>8. Im(T) \ {h[x]} = Im(T \ {x}) /\ h[x] \in Im(T)
  BY <1>3
<1>9. IsFiniteSet(T)
  BY <1>3, FS_Subset
<1>10. IsFiniteSet(Im(T))
  <2> DEFINE e == [y \in T |-> h[y]]
  <2>1. e \in Surjection(T, Im(T))
    BY DEF Surjection
  <2> HIDE DEF e, Im
  <2> QED
    BY <1>9, <2>1, FS_Surjection
<1>11. (\A y \in T : f[y] \in Int) /\ \A z \in Im(T) : g[z] \in Int
  BY <1>3
<1>12. g[h[x]] = f[x]
  BY <1>3
<1> HIDE DEF Im
<1>13. SumFunctionOnSet(f, T) = f[x] + SumFunctionOnSet(f, T \ {x})
  BY <1>9, <1>11, SumRemove
<1>14. SumFunctionOnSet(g, Im(T)) = g[h[x]] + SumFunctionOnSet(g, Im(T) \ {h[x]})
  BY <1>8, <1>10, <1>11, SumRemove
<1> QED
  BY <1>3, <1>7, <1>8, <1>12, <1>13, <1>14

\* A finite set of integers that is not empty has a largest and a smallest member.
LEMMA FiniteBounds ==
  ASSUME NEW S, IsFiniteSet(S), \A x \in S : x \in Int, S # {}
  PROVE  (\E x \in S : \A y \in S : y <= x) /\ (\E x \in S : \A y \in S : x <= y)
<1> DEFINE Good(W) == (\E x \in W : \A y \in W : y <= x) /\ (\E x \in W : \A y \in W : x <= y)
           Bad == {W \in SUBSET S : W # {} /\ ~Good(W)}
<1> SUFFICES ASSUME Bad # {} PROVE FALSE
  BY DEF Bad
<1>1. Bad \subseteq SUBSET S
  OBVIOUS
<1>2. PICK T \in Bad : \A y \in Bad : y \subseteq T => y = T
  <2> HIDE DEF Bad
  <2> QED
    BY <1>1, SmallestSubset
<1>3. T \subseteq S /\ T # {} /\ ~Good(T) /\ T \subseteq Int
  OBVIOUS
<1>4. PICK x \in T : TRUE
  BY <1>3
<1> DEFINE U == T \ {x}
<1>5. U = {} \/ Good(U)
  <2>1. U \in SUBSET S /\ U \subseteq T /\ U # T
    BY <1>3
  <2> HIDE DEF U, Good
  <2> QED
    BY <1>2, <2>1
<1>6. CASE U = {}
  <2>1. T = {x}
    BY <1>6
  <2> QED
    BY <1>3, <2>1
<1>7. CASE Good(U)
  <2>1. PICK m \in U, n \in U : (\A y \in U : y <= m) /\ (\A y \in U : n <= y)
    BY <1>7
  <2>2. \A y \in T : y \in U \/ y = x
    OBVIOUS
  <2>3. m \in Int /\ n \in Int /\ x \in Int /\ m \in T /\ n \in T /\ U \subseteq Int
    BY <1>3
  <2> HIDE DEF U
  <2>4. \E z \in T : \A y \in T : y <= z
    <3>1. CASE x <= m
      BY <2>1, <2>2, <2>3, <3>1
    <3>2. CASE m <= x
      BY <2>1, <2>2, <2>3, <3>2
    <3> QED
      BY <2>3, <3>1, <3>2
  <2>5. \E z \in T : \A y \in T : z <= y
    <3>1. CASE n <= x
      BY <2>1, <2>2, <2>3, <3>1
    <3>2. CASE x <= n
      BY <2>1, <2>2, <2>3, <3>2
    <3> QED
      BY <2>3, <3>1, <3>2
  <2> QED
    BY <1>3, <2>4, <2>5
<1> QED
  BY <1>5, <1>6, <1>7

\* A list without its k-th member.
LEMMA SeqRemoveAt ==
  ASSUME NEW D, NEW s \in Seq(D), NEW k \in 1 .. Len(s)
  PROVE  /\ RemoveAt(s, k) \in Seq(D) /\ Len(RemoveAt(s, k)) = Len(s) - 1
         /\ \A i \in 1 .. Len(s) - 1 : RemoveAt(s, k)[i] = IF i < k THEN s[i] ELSE s[i + 1]
<1> DEFINE m == Len(s)
           a == SubSeq(s, 1, k - 1)
           b == SubSeq(s, k + 1, m)
           w == a \o b
<1>1. m \in Nat /\ \A i \in 1 .. m : s[i] \in D
  BY LenProperties
<1>2. a \in Seq(D) /\ Len(a) = k - 1 /\ \A i \in 1 .. k - 1 : a[i] = s[i]
  <2>1. 1 \in Int /\ k - 1 \in Int /\ \A i \in 1 .. k - 1 : s[i] \in D
    BY <1>1
  <2>2. /\ a \in Seq(D) /\ Len(a) = IF 1 <= k - 1 THEN k - 1 - 1 + 1 ELSE 0
        /\ \A i \in 1 .. k - 1 - 1 + 1 : a[i] = s[1 + i - 1]
    BY <2>1, SubSeqProperties
  <2> HIDE DEF a
  <2>3. k - 1 - 1 + 1 = k - 1 /\ \A i \in 1 .. k - 1 : 1 + i - 1 = i
    BY <1>1
  <2>4. Len(a) = k - 1
    BY <1>1, <2>2
  <2> QED
    BY <2>2, <2>3, <2>4
<1>3. b \in Seq(D) /\ Len(b) = m - k /\ \A i \in 1 .. m - k : b[i] = s[k + i]
  <2>1. k + 1 \in Int /\ m \in Int /\ \A i \in k + 1 .. m : s[i] \in D
    BY <1>1
  <2>2. /\ b \in Seq(D) /\ Len(b) = IF k + 1 <= m THEN m - (k + 1) + 1 ELSE 0
        /\ \A i \in 1 .. m - (k + 1) + 1 : b[i] = s[k + 1 + i - 1]
    BY <2>1, SubSeqProperties
  <2> HIDE DEF b
  <2>3. m - (k + 1) + 1 = m - k /\ \A i \in 1 .. m - k : k + 1 + i - 1 = k + i
    BY <1>1
  <2>4. Len(b) = m - k
    BY <1>1, <2>2
  <2> QED
    BY <2>2, <2>3, <2>4
<1> HIDE DEF a, b
<1>4. /\ w \in Seq(D) /\ Len(w) = Len(a) + Len(b)
      /\ \A i \in 1 .. Len(a) + Len(b) : w[i] = IF i <= Len(a) THEN a[i] ELSE b[i - Len(a)]
  BY <1>2, <1>3, ConcatProperties, ZenonT(40)
<1> HIDE DEF w
<1>5. Len(a) + Len(b) = m - 1
  BY <1>1, <1>2, <1>3
<1>6. ASSUME NEW i \in 1 .. m - 1 PROVE w[i] = IF i < k THEN s[i] ELSE s[i + 1]
  <2>1. w[i] = IF i <= k - 1 THEN a[i] ELSE b[i - (k - 1)]
    BY <1>2, <1>4, <1>5
  <2>2. CASE i < k
    <3>1. i \in 1 .. k - 1
      BY <2>2
    <3> QED
      BY <1>2, <2>1, <2>2, <3>1
  <2>3. CASE ~(i < k)
    <3>1. i - (k - 1) \in 1 .. m - k /\ k + (i - (k - 1)) = i + 1
      BY <1>1, <2>3
    <3> QED
      BY <1>3, <2>1, <2>3, <3>1
  <2> QED
    BY <2>2, <2>3
<1>7. w \in Seq(D) /\ Len(w) = m - 1
  BY <1>4, <1>5
<1>8. RemoveAt(s, k) = w
  BY DEF RemoveAt, w, a, b
<1> QED
  BY <1>6, <1>7, <1>8, Zenon DEF m

=============================================================================
