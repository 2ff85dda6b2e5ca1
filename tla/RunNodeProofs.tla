--------------------------- MODULE RunNodeProofs ---------------------------
(***************************************************************************)
(* Proofs about RunNode and the rule matcher, for any program and any      *)
(* number of threads, nodes and facts: no rule is forgotten, the counts of *)
(* a regular node agree with its marks and its facts, and a fact is never  *)
(* in two places.                                                          *)
(***************************************************************************)
EXTENDS RunNode, LibraryProofs

-----------------------------------------------------------------------------
(* Folds over a finite set *)

\* The equation of a fold with the step F, as a function of the member and of the rest.
Folds(F, base, S, g) ==
  g = [s \in SUBSET S |->
         IF s = {} THEN base ELSE LET x == CHOOSE x \in s : TRUE IN F[x][g[s \ {x}]]]

\* Two solutions agree where both are defined.
LEMMA FoldsAgree ==
  ASSUME NEW S, IsFiniteSet(S), NEW T \in SUBSET S, NEW F, NEW base,
         NEW g, Folds(F, base, S, g), NEW h, Folds(F, base, T, h)
  PROVE  \A s \in SUBSET T : g[s] = h[s]
<1> DEFINE Bad == {s \in SUBSET T : g[s] # h[s]}
<1> SUFFICES ASSUME Bad # {} PROVE FALSE
  OBVIOUS
<1>1. PICK s \in Bad : \A y \in Bad : y \subseteq s => y = s
  <2>1. Bad \subseteq SUBSET S
    OBVIOUS
  <2> HIDE DEF Bad
  <2> QED
    BY <2>1, SmallestSubset
<1>2. s # {}
  BY <1>1 DEF Folds
<1> DEFINE x == CHOOSE x \in s : TRUE
<1>3. s \ {x} \notin Bad /\ s \ {x} \in SUBSET T
  BY <1>1, <1>2, Chosen
<1>4. g[s] = F[x][g[s \ {x}]] /\ h[s] = F[x][h[s \ {x}]]
  <2>1. s \in SUBSET S /\ s \in SUBSET T
    BY <1>1
  <2> QED
    BY <1>2, <2>1 DEF Folds
<1> HIDE DEF x
<1> QED
  BY <1>1, <1>3, <1>4

\* The equation has a solution.
LEMMA FoldsExist ==
  ASSUME NEW S, IsFiniteSet(S), NEW F, NEW base
  PROVE  \E g : Folds(F, base, S, g)
<1> DEFINE Bad == {T \in SUBSET S : ~\E g : Folds(F, base, T, g)}
<1> SUFFICES ASSUME Bad # {} PROVE FALSE
  OBVIOUS
<1>1. PICK T \in Bad : \A y \in Bad : y \subseteq T => y = T
  <2>1. Bad \subseteq SUBSET S
    OBVIOUS
  <2> HIDE DEF Bad
  <2> QED
    BY <2>1, SmallestSubset
<1> DEFINE C(s) == CHOOSE x \in s : TRUE
           G(u) == CHOOSE h : Folds(F, base, u, h)
           g == [s \in SUBSET T |->
                   IF s = {} THEN base ELSE F[C(s)][G(s \ {C(s)})[s \ {C(s)}]]]
<1>2. ASSUME NEW u, u \subseteq T, u # T PROVE Folds(F, base, u, G(u))
  <2>1. u \notin Bad /\ u \in SUBSET S
    BY <1>1, <1>2
  <2>2. \E h : Folds(F, base, u, h)
    BY <2>1
  <2> QED
    BY <2>2
<1>3. ASSUME NEW u, u \subseteq T, u # T PROVE G(u)[u] = g[u]
  <2>1. Folds(F, base, u, G(u))
    BY <1>2, <1>3
  <2>2. CASE u = {}
    <3>1. G(u)[u] = base
      BY <2>1, <2>2 DEF Folds
    <3> QED
      BY <2>2, <3>1
  <2>3. CASE u # {}
    <3>1. /\ C(u) \in u /\ u \ {C(u)} \subseteq u /\ u \ {C(u)} # T
          /\ u \ {C(u)} \subseteq T /\ u \in SUBSET u
      BY <1>3, <2>3, Chosen
    <3>2. G(u)[u] = F[C(u)][G(u)[u \ {C(u)}]]
      <4> HIDE DEF G
      <4> QED
        BY <2>1, <2>3, <3>1 DEF Folds
    <3>3. Folds(F, base, u \ {C(u)}, G(u \ {C(u)}))
      BY <1>2, <3>1
    <3>4. IsFiniteSet(u)
      BY <1>1, <1>3, FS_Subset
    <3> HIDE DEF G, C
    <3>5. G(u)[u \ {C(u)}] = G(u \ {C(u)})[u \ {C(u)}]
      BY <2>1, <3>1, <3>3, <3>4, FoldsAgree
    <3> QED
      BY <1>3, <2>3, <3>2, <3>5
  <2> QED
    BY <2>2, <2>3
<1>4. Folds(F, base, T, g)
  <2>1. ASSUME NEW s \in SUBSET T, s # {}
        PROVE  G(s \ {C(s)})[s \ {C(s)}] = g[s \ {C(s)}]
    <3>1. s \ {C(s)} \subseteq T /\ s \ {C(s)} # T
      BY <2>1, Chosen
    <3> HIDE DEF G, C, g
    <3> QED
      BY <1>3, <3>1
  <2>2. \A s \in SUBSET T : g[s] = IF s = {} THEN base ELSE F[C(s)][g[s \ {C(s)}]]
    <3> HIDE DEF G, C
    <3> QED
      BY <2>1
  <2>3. g = [s \in SUBSET T |-> g[s]]
    <3> HIDE DEF G, C
    <3> QED
      OBVIOUS
  <2> HIDE DEF g
  <2>4. g = [s \in SUBSET T |-> IF s = {} THEN base ELSE F[C(s)][g[s \ {C(s)}]]]
    BY <2>2, <2>3
  <2> QED
    BY <2>4 DEF Folds
<1> QED
  BY <1>1, <1>4

\* The steps of a fold keep in D what starts in D.
LEMMA FoldsStay ==
  ASSUME NEW S, IsFiniteSet(S), NEW F, NEW base, NEW g, Folds(F, base, S, g),
         NEW D, base \in D, \A x \in S : \A a \in D : F[x][a] \in D
  PROVE  \A s \in SUBSET S : g[s] \in D
<1> DEFINE Bad == {s \in SUBSET S : g[s] \notin D}
<1> SUFFICES ASSUME Bad # {} PROVE FALSE
  OBVIOUS
<1>1. Bad \subseteq SUBSET S
  OBVIOUS
<1>2. PICK s \in Bad : \A y \in Bad : y \subseteq s => y = s
  <2> HIDE DEF Bad
  <2> QED
    BY <1>1, SmallestSubset
<1>3. s # {}
  BY <1>2 DEF Folds
<1> DEFINE x == CHOOSE x \in s : TRUE
<1>4. s \ {x} \notin Bad /\ s \ {x} \in SUBSET S /\ x \in S
  BY <1>2, <1>3, Chosen
<1>5. g[s] = F[x][g[s \ {x}]]
  BY <1>2, <1>3 DEF Folds
<1> HIDE DEF x
<1> QED
  BY <1>2, <1>4, <1>5

-----------------------------------------------------------------------------
(* The operations of the rule matcher *)

\* Every rule is counted once for each marked predicate; only complete rules are queued.
Exact(m) ==
  /\ \A r \in Rule : m.rules[r] = Cardinality(Body[r] \cap m.predicate_existence)
  /\ \A r \in m.rule_queue : Body[r] \subseteq m.predicate_existence

\* w is m after the predicates of S were marked.
Marked(m, w, S) ==
  /\ w \in Matchers
  /\ w.predicate_existence = m.predicate_existence \cup S
  /\ m.rule_queue \subseteq w.rule_queue
  /\ Exact(m) =>
       /\ Exact(w)
       /\ \A r \in Rule : Body[r] \cap S # {} /\ Body[r] \subseteq w.predicate_existence
                            => r \in w.rule_queue

\* w is m after the complete rules of the predicates of S were queued.
Updated(m, w, S) ==
  /\ w \in Matchers
  /\ w.predicate_existence = m.predicate_existence
  /\ m.rule_queue \subseteq w.rule_queue
  /\ Exact(m) =>
       /\ Exact(w)
       /\ \A r \in Rule : Body[r] \cap S # {} /\ Body[r] \subseteq w.predicate_existence
                            => r \in w.rule_queue

\* w is m after the predicates of S lost their marks.
Emptied(m, w, S) ==
  /\ w \in Matchers
  /\ w.predicate_existence = m.predicate_existence \ S
  /\ w.rule_queue \subseteq m.rule_queue
  /\ \A r \in m.rule_queue : Body[r] \cap S = {} => r \in w.rule_queue
  /\ Exact(m) => Exact(w)

\* The sets of predicates are finite and smaller than a byte can count.
LEMMA Counts ==
  ASSUME NEW r \in Rule, NEW P \in SUBSET Pred
  PROVE  /\ IsFiniteSet(P) /\ IsFiniteSet(Body[r] \cap P) /\ IsFiniteSet(Body[r])
         /\ Body[r] \in SUBSET Pred
         /\ Cardinality(Body[r] \cap P) \in 0..255
         /\ num_predicates(r) \in Nat
         /\ Cardinality(Body[r] \cap P) = num_predicates(r) <=> Body[r] \subseteq P
<1>1. IsFiniteSet(Pred) /\ Cardinality(Pred) < 256 /\ Body[r] \in SUBSET Pred
  BY MatcherAssumption
<1>2. IsFiniteSet(P) /\ IsFiniteSet(Body[r] \cap P) /\ IsFiniteSet(Body[r])
  BY <1>1, FS_Subset
<1>3. /\ Cardinality(Body[r] \cap P) \in Nat /\ Cardinality(Pred) \in Nat
      /\ Cardinality(Body[r]) \in Nat
  BY <1>1, <1>2, FS_CardinalityType
<1>4. Cardinality(Body[r] \cap P) <= Cardinality(Pred)
  BY <1>1, FS_Subset
<1>5. Cardinality(Body[r] \cap P) = Cardinality(Body[r]) <=> Body[r] \subseteq P
  <2>1. Body[r] \cap P \subseteq Body[r]
    OBVIOUS
  <2>2. Cardinality(Body[r] \cap P) = Cardinality(Body[r]) <=> Body[r] \cap P = Body[r]
    BY <1>2, <2>1, FS_Subset
  <2> QED
    BY <2>2
<1> QED
  BY <1>1, <1>2, <1>3, <1>4, <1>5 DEF num_predicates

\* The predicates of a rule that are marked, when one more is or one is not any more.
LEMMA OneMore ==
  ASSUME NEW r \in Rule, NEW P \in SUBSET Pred, NEW id \in Pred
  PROVE  /\ id \notin P => Cardinality(Body[r] \cap (P \cup {id})) =
              IF r \in linear_rules(id) THEN (Cardinality(Body[r] \cap P) + 1) % 256
              ELSE Cardinality(Body[r] \cap P)
         /\ id \in P => Cardinality(Body[r] \cap (P \ {id})) =
              IF r \in linear_rules(id) THEN (Cardinality(Body[r] \cap P) + (-1)) % 256
              ELSE Cardinality(Body[r] \cap P)
<1>1. P \cup {id} \in SUBSET Pred /\ P \ {id} \in SUBSET Pred
  OBVIOUS
<1>2. /\ IsFiniteSet(Body[r] \cap P)
      /\ Cardinality(Body[r] \cap P) \in 0..255
      /\ Cardinality(Body[r] \cap (P \cup {id})) \in 0..255
      /\ Cardinality(Body[r] \cap (P \ {id})) \in 0..255
  BY <1>1, Counts
<1>3. \A a \in 0..255, b \in 0..255 :
         /\ a = b + 1 => a = (b + 1) % 256
         /\ a = b - 1 => a = (b + (-1)) % 256
  OBVIOUS
<1>4. CASE id \notin Body[r]
  <2>1. Body[r] \cap (P \cup {id}) = Body[r] \cap P /\ Body[r] \cap (P \ {id}) = Body[r] \cap P
    BY <1>4
  <2> QED
    BY <1>4, <2>1 DEF linear_rules
<1>5. CASE id \in Body[r]
  <2>1. /\ Body[r] \cap (P \cup {id}) = (Body[r] \cap P) \cup {id}
        /\ Body[r] \cap (P \ {id}) = (Body[r] \cap P) \ {id}
        /\ r \in linear_rules(id)
    BY <1>5 DEF linear_rules
  <2>2. id \notin P => Cardinality(Body[r] \cap (P \cup {id})) = Cardinality(Body[r] \cap P) + 1
    <3>1. /\ IsFiniteSet(Body[r] \cap P)
          /\ id \notin P => Cardinality((Body[r] \cap P) \cup {id}) = Cardinality(Body[r] \cap P) + 1
      BY <1>2, FS_AddElement
    <3> QED
      BY <2>1, <3>1
  <2>3. id \in P => Cardinality(Body[r] \cap (P \ {id})) = Cardinality(Body[r] \cap P) - 1
    <3> DEFINE B == Body[r] \cap P
    <3>1. IsFiniteSet(B) /\ (id \in P => id \in B)
      BY <1>2, <1>5
    <3> HIDE DEF B
    <3>2. id \in B => Cardinality(B \ {id}) = Cardinality(B) - 1
      BY <3>1, FS_RemoveElement
    <3>3. Body[r] \cap (P \ {id}) = B \ {id}
      BY <2>1 DEF B
    <3> QED
      BY <3>1, <3>2, <3>3 DEF B
  <2> QED
    BY <1>2, <1>3, <2>1, <2>2, <2>3
<1> QED
  BY <1>4, <1>5

\* Nothing marked, nothing changed.
LEMMA MarkedNone == ASSUME NEW m \in Matchers PROVE Marked(m, m, {})
  BY DEF Marked

\* Marks add up.
LEMMA MarkedTwice ==
  ASSUME NEW m, NEW w, NEW x, NEW S, NEW T, Marked(m, w, S), Marked(w, x, T)
  PROVE  Marked(m, x, S \cup T)
  BY DEF Marked

\* So do updates.
LEMMA UpdatedTwice ==
  ASSUME NEW m, NEW w, NEW x, NEW S, NEW T, Updated(m, w, S), Updated(w, x, T)
  PROVE  Updated(m, x, S \cup T)
  BY DEF Updated

\* And so does what is unmarked.
LEMMA EmptiedTwice ==
  ASSUME NEW m, NEW w, NEW x, NEW S, NEW T, Emptied(m, w, S), Emptied(w, x, T)
  PROVE  Emptied(m, x, S \cup T)
  BY DEF Emptied

\* new_linear_fact marks its predicate.
LEMMA NewFactMarks ==
  ASSUME NEW m \in Matchers, NEW id \in Pred
  PROVE  Marked(m, new_linear_fact(m, id), {id})
<1> DEFINE w == new_linear_fact(m, id)
           P == m.predicate_existence
<1>1. /\ m.rules \in [Rule -> 0..255] /\ P \in SUBSET Pred /\ m.rule_queue \in SUBSET Rule
      /\ m = [rules |-> m.rules, predicate_existence |-> P, rule_queue |-> m.rule_queue]
  BY DEF Matchers
<1>2. \A rules, i : ReadyWith(rules, i) \in SUBSET Rule
  BY DEF ReadyWith, linear_rules
<1>3. \A d \in {1, -1} : Counted(m.rules, id, d) \in [Rule -> 0..255]
  <2>1. \A a \in 0..255 : \A d \in {1, -1} : (a + d) % 256 \in 0..255
    OBVIOUS
  <2> SUFFICES ASSUME NEW d \in {1, -1}
               PROVE  Counted(m.rules, id, d) \in [Rule -> 0..255]
    OBVIOUS
  <2> DEFINE B == 0..255
             e(r) == (m.rules[r] + d) % 256
  <2>2. \A r \in Rule : m.rules[r] \in B /\ e(r) \in B
    BY <1>1, <2>1
  <2>3. Counted(m.rules, id, d) = [r \in Rule |-> IF r \in linear_rules(id) THEN e(r) ELSE m.rules[r]]
    BY DEF Counted
  <2> HIDE DEF B, e
  <2>4. [r \in Rule |-> IF r \in linear_rules(id) THEN e(r) ELSE m.rules[r]] \in [Rule -> B]
    BY <2>2
  <2> QED
    BY <2>3, <2>4 DEF B
<1>4. CASE id \in P
  <2>1. w = [m EXCEPT !.rule_queue = @ \cup ReadyWith(m.rules, id)]
    BY <1>4 DEF new_linear_fact, register_predicate_update
  <2>2. /\ w.rules = m.rules /\ w.predicate_existence = P
        /\ w.rule_queue = m.rule_queue \cup ReadyWith(m.rules, id)
        /\ w \in Matchers
    BY <1>1, <1>2, <2>1 DEF Matchers
  <2>3. ASSUME Exact(m), NEW r \in Rule, id \in Body[r]
        PROVE  r \in ReadyWith(m.rules, id) <=> Body[r] \subseteq P
    BY <1>1, <2>3, Counts DEF Exact, ReadyWith, linear_rules
  <2>4. \A r \in ReadyWith(m.rules, id) : r \in Rule /\ id \in Body[r]
    BY DEF ReadyWith, linear_rules
  <2> HIDE DEF w
  <2>5. ASSUME Exact(m) PROVE Exact(w)
    BY <2>2, <2>3, <2>4, <2>5 DEF Exact
  <2>6. P \cup {id} = P /\ \A r \in Rule : Body[r] \cap {id} # {} => id \in Body[r]
    BY <1>4
  <2>7. ASSUME Exact(m), NEW r \in Rule, id \in Body[r], Body[r] \subseteq w.predicate_existence
        PROVE  r \in w.rule_queue
    BY <2>2, <2>3, <2>7
  <2> QED
    BY <2>2, <2>5, <2>6, <2>7 DEF Marked, w
<1>5. CASE id \notin P
  <2> DEFINE c == Counted(m.rules, id, 1)
  <2>1. /\ w.rules = c /\ w.predicate_existence = P \cup {id}
        /\ w.rule_queue = m.rule_queue \cup ReadyWith(c, id)
        /\ w \in Matchers
    BY <1>1, <1>2, <1>3, <1>5 DEF new_linear_fact, register_predicate_availability, Matchers
  <2>2. ASSUME Exact(m), NEW r \in Rule
        PROVE  c[r] = Cardinality(Body[r] \cap (P \cup {id}))
    <3>1. Cardinality(Body[r] \cap (P \cup {id})) =
            IF r \in linear_rules(id) THEN (Cardinality(Body[r] \cap P) + 1) % 256
            ELSE Cardinality(Body[r] \cap P)
      BY <1>1, <1>5, OneMore
    <3>2. m.rules[r] = Cardinality(Body[r] \cap P)
      BY <2>2 DEF Exact
    <3> QED
      BY <3>1, <3>2 DEF Counted
  <2> HIDE DEF c
  <2>3. ASSUME Exact(m), NEW r \in Rule, id \in Body[r]
        PROVE  r \in ReadyWith(c, id) <=> Body[r] \subseteq P \cup {id}
    <3>1. P \cup {id} \in SUBSET Pred
      BY <1>1
    <3>2. Cardinality(Body[r] \cap (P \cup {id})) = num_predicates(r) <=> Body[r] \subseteq P \cup {id}
      BY <3>1, Counts
    <3>3. r \in ReadyWith(c, id) <=> c[r] = num_predicates(r)
      BY <2>3 DEF ReadyWith, linear_rules
    <3> QED
      BY <2>2, <2>3, <3>2, <3>3
  <2>4. \A r \in ReadyWith(c, id) : r \in Rule /\ id \in Body[r]
    BY DEF ReadyWith, linear_rules
  <2> HIDE DEF w
  <2>5. ASSUME Exact(m) PROVE Exact(w)
    BY <1>1, <2>1, <2>2, <2>3, <2>4, <2>5 DEF Exact
  <2>6. \A r \in Rule : Body[r] \cap {id} # {} => id \in Body[r]
    OBVIOUS
  <2>7. ASSUME Exact(m), NEW r \in Rule, id \in Body[r], Body[r] \subseteq w.predicate_existence
        PROVE  r \in w.rule_queue
    BY <2>1, <2>3, <2>7
  <2> QED
    BY <2>1, <2>5, <2>6, <2>7 DEF Marked, w
<1> QED
  BY <1>4, <1>5

\* register_predicate_update queues the complete rules of its predicate.
LEMMA UpdateQueues ==
  ASSUME NEW m \in Matchers, NEW id \in Pred
  PROVE  Updated(m, register_predicate_update(m, id), {id})
<1> DEFINE w == register_predicate_update(m, id)
           P == m.predicate_existence
<1>1. /\ m.rules \in [Rule -> 0..255] /\ P \in SUBSET Pred /\ m.rule_queue \in SUBSET Rule
      /\ m = [rules |-> m.rules, predicate_existence |-> P, rule_queue |-> m.rule_queue]
  BY DEF Matchers
<1>2. \A r \in ReadyWith(m.rules, id) : r \in Rule /\ id \in Body[r]
  BY DEF ReadyWith, linear_rules
<1>3. /\ w.rules = m.rules /\ w.predicate_existence = P
      /\ w.rule_queue = m.rule_queue \cup ReadyWith(m.rules, id)
      /\ w \in Matchers
  BY <1>1, <1>2 DEF register_predicate_update, Matchers
<1>4. ASSUME Exact(m), NEW r \in Rule, id \in Body[r]
      PROVE  r \in ReadyWith(m.rules, id) <=> Body[r] \subseteq P
  BY <1>1, <1>4, Counts DEF Exact, ReadyWith, linear_rules
<1> HIDE DEF w
<1>5. ASSUME Exact(m) PROVE Exact(w)
  BY <1>2, <1>3, <1>4, <1>5 DEF Exact
<1>6. ASSUME Exact(m), NEW r \in Rule, Body[r] \cap {id} # {}, Body[r] \subseteq P
      PROVE  r \in w.rule_queue
  BY <1>3, <1>4, <1>6
<1> QED
  BY <1>3, <1>5, <1>6 DEF Updated, w

\* empty_predicate unmarks its predicate.
LEMMA EmptyUnmarks ==
  ASSUME NEW m \in Matchers, NEW id \in Pred
  PROVE  Emptied(m, empty_predicate(m, id), {id})
<1> DEFINE w == empty_predicate(m, id)
           P == m.predicate_existence
           c == Counted(m.rules, id, -1)
<1>1. /\ m.rules \in [Rule -> 0..255] /\ P \in SUBSET Pred /\ m.rule_queue \in SUBSET Rule
  BY DEF Matchers
<1>2. CASE id \notin P
  <2>1. w = m
    BY <1>2 DEF empty_predicate
  <2> QED
    BY <1>2, <2>1 DEF Emptied
<1>3. CASE id \in P
  <2>1. c \in [Rule -> 0..255]
    <3>1. \A a \in 0..255 : (a + (-1)) % 256 \in 0..255
      OBVIOUS
    <3> QED
      BY <1>1, <3>1 DEF Counted
  <2>2. /\ w.rules = c /\ w.predicate_existence = P \ {id}
        /\ w.rule_queue = m.rule_queue \ ReadyWith(m.rules, id)
        /\ w \in Matchers
    BY <1>1, <1>3, <2>1 DEF empty_predicate, register_predicate_unavailability, Matchers
  <2>3. ASSUME Exact(m), NEW r \in Rule
        PROVE  c[r] = Cardinality(Body[r] \cap (P \ {id}))
    <3>1. Cardinality(Body[r] \cap (P \ {id})) =
            IF r \in linear_rules(id) THEN (Cardinality(Body[r] \cap P) + (-1)) % 256
            ELSE Cardinality(Body[r] \cap P)
      BY <1>1, <1>3, OneMore
    <3>2. m.rules[r] = Cardinality(Body[r] \cap P)
      BY <2>3 DEF Exact
    <3> QED
      BY <3>1, <3>2 DEF Counted
  <2> HIDE DEF c
  <2>4. ASSUME Exact(m), NEW r \in m.rule_queue, id \in Body[r]
        PROVE  r \in ReadyWith(m.rules, id)
    <3>1. r \in Rule /\ Body[r] \subseteq P /\ m.rules[r] = Cardinality(Body[r] \cap P)
      BY <1>1, <2>4 DEF Exact
    <3>2. Cardinality(Body[r] \cap P) = num_predicates(r)
      BY <1>1, <3>1, Counts
    <3> QED
      BY <2>4, <3>1, <3>2 DEF ReadyWith, linear_rules
  <2>5. \A r \in ReadyWith(m.rules, id) : r \in Rule /\ id \in Body[r]
    BY DEF ReadyWith, linear_rules
  <2> HIDE DEF w
  <2>6. ASSUME Exact(m) PROVE Exact(w)
    BY <1>1, <2>2, <2>3, <2>4, <2>6 DEF Exact
  <2>7. ASSUME NEW r \in m.rule_queue, Body[r] \cap {id} = {} PROVE r \in w.rule_queue
    BY <2>2, <2>5, <2>7
  <2> QED
    BY <2>2, <2>6, <2>7 DEF Emptied, w
<1> QED
  BY <1>2, <1>3

-----------------------------------------------------------------------------
(* Operations of the matcher for every predicate of a set *)

\* new_linear_fact for every predicate of S.
LEMMA FoldMarks ==
  ASSUME NEW m \in Matchers, NEW S \in SUBSET Pred
  PROVE  Marked(m, FoldSet(LAMBDA p, acc : new_linear_fact(acc, p), m, S), S)
<1> DEFINE Eq(g) == g = [s \in SUBSET S |->
                           IF s = {} THEN m
                           ELSE LET x == CHOOSE x \in s : TRUE IN new_linear_fact(g[s \ {x}], x)]
           F == [x \in Pred |-> [a \in Matchers |-> new_linear_fact(a, x)]]
           It == CHOOSE g : Eq(g)
<1>1. FoldSet(LAMBDA p, acc : new_linear_fact(acc, p), m, S) = It[S]
  BY DEF FoldSet, MapThenFoldSet
<1>2. IsFiniteSet(S)
  BY MatcherAssumption, FS_Subset
<1>3. \A a \in Matchers : \A x \in Pred : Marked(a, new_linear_fact(a, x), {x}) /\ new_linear_fact(a, x) \in Matchers
  BY NewFactMarks DEF Marked
<1>4. \E g : Eq(g)
  <2>1. PICK g : Folds(F, m, S, g)
    <3> HIDE DEF F
    <3> QED
      BY <1>2, FoldsExist
  <2>2. \A s \in SUBSET S : g[s] \in Matchers
    <3>1. \A x \in S : \A a \in Matchers : F[x][a] \in Matchers
      BY <1>3
    <3> HIDE DEF F
    <3> QED
      BY <1>2, <2>1, <3>1, FoldsStay
  <2>3. ASSUME NEW s \in SUBSET S, s # {}, NEW x, x = CHOOSE y \in s : TRUE
        PROVE  F[x][g[s \ {x}]] = new_linear_fact(g[s \ {x}], x)
    <3>1. x \in Pred /\ g[s \ {x}] \in Matchers
      BY <2>2, <2>3, Chosen
    <3> QED
      BY <3>1
  <2> HIDE DEF F
  <2>4. Eq(g)
    BY <2>1, <2>3 DEF Folds
  <2> QED
    BY <2>4
<1>5. Eq(It)
  BY <1>4
<1> HIDE DEF It
<1> DEFINE Bad == {s \in SUBSET S : ~Marked(m, It[s], s)}
<1> SUFFICES ASSUME Bad # {} PROVE FALSE
  BY <1>1
<1>6. PICK s \in Bad : \A y \in Bad : y \subseteq s => y = s
  <2>1. Bad \subseteq SUBSET S
    OBVIOUS
  <2> HIDE DEF Bad
  <2> QED
    BY <1>2, <2>1, SmallestSubset
<1>7. s # {}
  <2>1. It[{}] = m
    BY <1>5
  <2>2. Marked(m, m, {})
    BY DEF Marked
  <2> QED
    BY <1>6, <2>1, <2>2
<1> DEFINE x == CHOOSE x \in s : TRUE
<1>8. s \ {x} \notin Bad /\ s \ {x} \in SUBSET S /\ x \in Pred /\ (s \ {x}) \cup {x} = s
  BY <1>6, <1>7, Chosen
<1>9. It[s] = new_linear_fact(It[s \ {x}], x)
  BY <1>5, <1>6, <1>7
<1> HIDE DEF x
<1>10. Marked(m, It[s \ {x}], s \ {x})
  BY <1>8
<1>11. Marked(It[s \ {x}], It[s], {x})
  <2>1. It[s \ {x}] \in Matchers
    BY <1>10 DEF Marked
  <2> QED
    BY <1>3, <1>8, <1>9, <2>1
<1>12. Marked(m, It[s], (s \ {x}) \cup {x})
  BY <1>10, <1>11, MarkedTwice
<1> QED
  BY <1>6, <1>8, <1>12

\* register_predicate_update for every predicate of S.
LEMMA FoldQueues ==
  ASSUME NEW m \in Matchers, NEW S \in SUBSET Pred
  PROVE  Updated(m, FoldSet(LAMBDA p, acc : register_predicate_update(acc, p), m, S), S)
<1> DEFINE Eq(g) == g = [s \in SUBSET S |->
                           IF s = {} THEN m
                           ELSE LET x == CHOOSE x \in s : TRUE IN register_predicate_update(g[s \ {x}], x)]
           F == [x \in Pred |-> [a \in Matchers |-> register_predicate_update(a, x)]]
           It == CHOOSE g : Eq(g)
<1>1. FoldSet(LAMBDA p, acc : register_predicate_update(acc, p), m, S) = It[S]
  BY DEF FoldSet, MapThenFoldSet
<1>2. IsFiniteSet(S)
  BY MatcherAssumption, FS_Subset
<1>3. \A a \in Matchers : \A x \in Pred : Updated(a, register_predicate_update(a, x), {x}) /\ register_predicate_update(a, x) \in Matchers
  BY UpdateQueues DEF Updated
<1>4. \E g : Eq(g)
  <2>1. PICK g : Folds(F, m, S, g)
    <3> HIDE DEF F
    <3> QED
      BY <1>2, FoldsExist
  <2>2. \A s \in SUBSET S : g[s] \in Matchers
    <3>1. \A x \in S : \A a \in Matchers : F[x][a] \in Matchers
      BY <1>3
    <3> HIDE DEF F
    <3> QED
      BY <1>2, <2>1, <3>1, FoldsStay
  <2>3. ASSUME NEW s \in SUBSET S, s # {}, NEW x, x = CHOOSE y \in s : TRUE
        PROVE  F[x][g[s \ {x}]] = register_predicate_update(g[s \ {x}], x)
    <3>1. x \in Pred /\ g[s \ {x}] \in Matchers
      BY <2>2, <2>3, Chosen
    <3> QED
      BY <3>1
  <2> HIDE DEF F
  <2>4. Eq(g)
    BY <2>1, <2>3 DEF Folds
  <2> QED
    BY <2>4
<1>5. Eq(It)
  BY <1>4
<1> HIDE DEF It
<1> DEFINE Bad == {s \in SUBSET S : ~Updated(m, It[s], s)}
<1> SUFFICES ASSUME Bad # {} PROVE FALSE
  BY <1>1
<1>6. PICK s \in Bad : \A y \in Bad : y \subseteq s => y = s
  <2>1. Bad \subseteq SUBSET S
    OBVIOUS
  <2> HIDE DEF Bad
  <2> QED
    BY <1>2, <2>1, SmallestSubset
<1>7. s # {}
  <2>1. It[{}] = m
    BY <1>5
  <2>2. Updated(m, m, {})
    BY DEF Updated
  <2> QED
    BY <1>6, <2>1, <2>2
<1> DEFINE x == CHOOSE x \in s : TRUE
<1>8. s \ {x} \notin Bad /\ s \ {x} \in SUBSET S /\ x \in Pred /\ (s \ {x}) \cup {x} = s
  BY <1>6, <1>7, Chosen
<1>9. It[s] = register_predicate_update(It[s \ {x}], x)
  BY <1>5, <1>6, <1>7
<1> HIDE DEF x
<1>10. Updated(m, It[s \ {x}], s \ {x})
  BY <1>8
<1>11. Updated(It[s \ {x}], It[s], {x})
  <2>1. It[s \ {x}] \in Matchers
    BY <1>10 DEF Updated
  <2> QED
    BY <1>3, <1>8, <1>9, <2>1
<1>12. Updated(m, It[s], (s \ {x}) \cup {x})
  BY <1>10, <1>11, UpdatedTwice
<1> QED
  BY <1>6, <1>8, <1>12

\* empty_predicate for every predicate of S.
LEMMA FoldUnmarks ==
  ASSUME NEW m \in Matchers, NEW S \in SUBSET Pred
  PROVE  Emptied(m, FoldSet(LAMBDA p, acc : empty_predicate(acc, p), m, S), S)
<1> DEFINE Eq(g) == g = [s \in SUBSET S |->
                           IF s = {} THEN m
                           ELSE LET x == CHOOSE x \in s : TRUE IN empty_predicate(g[s \ {x}], x)]
           F == [x \in Pred |-> [a \in Matchers |-> empty_predicate(a, x)]]
           It == CHOOSE g : Eq(g)
<1>1. FoldSet(LAMBDA p, acc : empty_predicate(acc, p), m, S) = It[S]
  BY DEF FoldSet, MapThenFoldSet
<1>2. IsFiniteSet(S)
  BY MatcherAssumption, FS_Subset
<1>3. \A a \in Matchers : \A x \in Pred : Emptied(a, empty_predicate(a, x), {x}) /\ empty_predicate(a, x) \in Matchers
  BY EmptyUnmarks DEF Emptied
<1>4. \E g : Eq(g)
  <2>1. PICK g : Folds(F, m, S, g)
    <3> HIDE DEF F
    <3> QED
      BY <1>2, FoldsExist
  <2>2. \A s \in SUBSET S : g[s] \in Matchers
    <3>1. \A x \in S : \A a \in Matchers : F[x][a] \in Matchers
      BY <1>3
    <3> HIDE DEF F
    <3> QED
      BY <1>2, <2>1, <3>1, FoldsStay
  <2>3. ASSUME NEW s \in SUBSET S, s # {}, NEW x, x = CHOOSE y \in s : TRUE
        PROVE  F[x][g[s \ {x}]] = empty_predicate(g[s \ {x}], x)
    <3>1. x \in Pred /\ g[s \ {x}] \in Matchers
      BY <2>2, <2>3, Chosen
    <3> QED
      BY <3>1
  <2> HIDE DEF F
  <2>4. Eq(g)
    BY <2>1, <2>3 DEF Folds
  <2> QED
    BY <2>4
<1>5. Eq(It)
  BY <1>4
<1> HIDE DEF It
<1> DEFINE Bad == {s \in SUBSET S : ~Emptied(m, It[s], s)}
<1> SUFFICES ASSUME Bad # {} PROVE FALSE
  BY <1>1
<1>6. PICK s \in Bad : \A y \in Bad : y \subseteq s => y = s
  <2>1. Bad \subseteq SUBSET S
    OBVIOUS
  <2> HIDE DEF Bad
  <2> QED
    BY <1>2, <2>1, SmallestSubset
<1>7. s # {}
  <2>1. It[{}] = m
    BY <1>5
  <2>2. Emptied(m, m, {})
    BY DEF Emptied
  <2> QED
    BY <1>6, <2>1, <2>2
<1> DEFINE x == CHOOSE x \in s : TRUE
<1>8. s \ {x} \notin Bad /\ s \ {x} \in SUBSET S /\ x \in Pred /\ (s \ {x}) \cup {x} = s
  BY <1>6, <1>7, Chosen
<1>9. It[s] = empty_predicate(It[s \ {x}], x)
  BY <1>5, <1>6, <1>7
<1> HIDE DEF x
<1>10. Emptied(m, It[s \ {x}], s \ {x})
  BY <1>8
<1>11. Emptied(It[s \ {x}], It[s], {x})
  <2>1. It[s \ {x}] \in Matchers
    BY <1>10 DEF Emptied
  <2> QED
    BY <1>3, <1>8, <1>9, <2>1
<1>12. Emptied(m, It[s], (s \ {x}) \cup {x})
  BY <1>10, <1>11, EmptiedTwice
<1> QED
  BY <1>6, <1>8, <1>12

-----------------------------------------------------------------------------
(* The lists of facts *)

\* A finite set as a sequence.
LEMMA SetToSeqIs ==
  ASSUME NEW S, IsFiniteSet(S)
  PROVE  SetToSeq(S) \in Seq(S) /\ Once(SetToSeq(S)) /\ ToSet(SetToSeq(S)) = S
<1> DEFINE N == 1..Cardinality(S)
           q == SetToSeq(S)
<1>1. Cardinality(S) \in Nat /\ ExistsBijection(N, S)
  BY FS_CardinalityType
<1>2. \E f \in [N -> S] : IsInjective(f)
  BY <1>1 DEF ExistsBijection, Bijection, Injection
<1>3. q \in [N -> S] /\ IsInjective(q)
  BY <1>2 DEF SetToSeq
<1> HIDE DEF q
<1>4. q \in Seq(S)
  BY <1>1, <1>3, SeqDef
<1>5. q \in Injection(N, S)
  BY <1>3 DEF Injection
<1>6. IsFiniteSet(N) /\ Cardinality(N) = Cardinality(S)
  BY <1>1, FS_Interval
<1>7. q \in Surjection(N, S)
  BY <1>5, <1>6, FS_Injection
<1>8. ToSet(q) = S
  <2>1. \A x \in S : \E i \in N : q[i] = x
    BY <1>7 DEF Surjection
  <2> QED
    BY <1>3, <2>1 DEF ToSet
<1> QED
  BY <1>3, <1>4, <1>8 DEF q, Once, IsInjective

-----------------------------------------------------------------------------
(* The invariants *)

Lists == [LinearPred -> Seq(Nat)]

PC == {"idle", "thread", "rules", "match", "fire", "locked out", "end", "sync"}

Runs == [pc : PC, node : AllNode, rule : Int, used : SUBSET Fact, generated : Lists,
         node_persistent : Seq(Nat), thread_persistent : Seq(Nat), leave : BOOLEAN]

\* The types of the variables, except that of the matcher.
Types ==
  /\ info \in Seq([pred : Pred, from : AllNode])
  /\ owner \in [AllNode -> Thread]
  /\ linear \in [AllNode -> Lists]
  /\ pers_store \in [AllNode -> SUBSET Nat]
  /\ incoming \in [AllNode -> Lists]
  /\ incoming_persistent \in [AllNode -> Seq(Nat)]
  /\ unprocessed_facts \in [AllNode -> BOOLEAN]
  /\ run \in [Thread -> Runs]
  /\ facts_to_send \in [Thread -> [Node -> Lists]]
  /\ fresh \in [AllNode -> SUBSET Rule]

\* The facts that are not kept by predicate were derived.
Known ==
  /\ \A n \in AllNode : pers_store[n] \cup ToSet(incoming_persistent[n]) \subseteq DOMAIN info
  /\ \A t \in Thread :
       ToSet(run[t].node_persistent) \cup ToSet(run[t].thread_persistent) \subseteq DOMAIN info

\* A thread runs its own nodes; a thread node stays with its thread.
Own ==
  /\ \A t \in Thread : owner[thread_node[t]] = t
  /\ \A t \in Thread : run[t].pc # "idle" => owner[run[t].node] = t
  /\ \A t \in Thread : run[t].pc = "thread" \/ run[t].leave => run[t].node \in Node

\* Node n holds facts of p.
Facts(n, p) ==
  IF p \in LinearPred THEN linear[n][p] # <<>> ELSE \E f \in pers_store[n] : info[f].pred = p

\* The node whose matcher counts the facts of thread t.
InUse(t) == IF run[t].pc \in {"idle", "thread", "sync"} THEN thread_node[t] ELSE run[t].node

\* The facts of a node are marked in its matcher, those of a thread in the matcher in use.
NodeMarked ==
  \A n \in Node : \A p \in Pred \ ThreadPred : Facts(n, p) => p \in matcher[n].predicate_existence

ThreadMarked ==
  \A t \in Thread : \A p \in ThreadPred :
    Facts(thread_node[t], p) => p \in matcher[InUse(t)].predicate_existence

\* A complete rule that waits to be tried is queued.
Tried ==
  \A n \in Node : \A r \in fresh[n] :
    Body[r] \cap ThreadPred = {} /\ Body[r] \subseteq matcher[n].predicate_existence
      => r \in matcher[n].rule_queue

\* A node that rests has an empty queue; one that is left with a queue is to be run again.
Awake ==
  /\ \A n \in Node : Resting(n) => matcher[n].rule_queue = {}
  /\ \A t \in Thread : run[t].pc = "end" => unprocessed_facts[run[t].node]

\* The matchers agree with the facts.
Marks ==
  /\ matcher \in [AllNode -> Matchers]
  /\ \A n \in Node : Exact(matcher[n])
  /\ NodeMarked
  /\ Tried

\* The facts on the list of a thread are reused facts of the thread.
OfThread ==
  \A t \in Thread : \A f \in ToSet(run[t].thread_persistent) : info[f].pred \in ReusedPred \cap ThreadPred

\* There are none.
NoneReused == \A t \in Thread : run[t].thread_persistent = <<>>

-----------------------------------------------------------------------------
(* The operators of the actions *)

NonEmpty(lists) == {p \in LinearPred : lists[p] # <<>>}
Preds(list) == {info[f].pred : f \in ToSet(list)}

\* Two databases together.
LEMMA IncrementIs ==
  ASSUME NEW db \in Lists, NEW lists \in Lists
  PROVE  /\ increment_database(db, lists) \in Lists
         /\ \A p \in LinearPred :
              /\ increment_database(db, lists)[p] = <<>> <=> db[p] = <<>> /\ lists[p] = <<>>
              /\ ToSet(increment_database(db, lists)[p]) = ToSet(db[p]) \cup ToSet(lists[p])
              /\ Once(db[p]) /\ Once(lists[p]) /\ ToSet(db[p]) \cap ToSet(lists[p]) = {}
                   => Once(increment_database(db, lists)[p])
<1>1. ASSUME NEW p \in LinearPred
      PROVE  /\ increment_database(db, lists)[p] = db[p] \o lists[p]
             /\ db[p] \in Seq(Nat) /\ lists[p] \in Seq(Nat)
  BY DEF increment_database, Lists
<1>2. ASSUME NEW p \in LinearPred
      PROVE  /\ db[p] \o lists[p] \in Seq(Nat)
             /\ db[p] \o lists[p] = <<>> <=> db[p] = <<>> /\ lists[p] = <<>>
             /\ ToSet(db[p] \o lists[p]) = ToSet(db[p]) \cup ToSet(lists[p])
             /\ Once(db[p]) /\ Once(lists[p]) /\ ToSet(db[p]) \cap ToSet(lists[p]) = {}
                  => Once(db[p] \o lists[p])
  <2> DEFINE a == db[p]
             b == lists[p]
  <2>1. a \in Seq(Nat) /\ b \in Seq(Nat)
    BY <1>1
  <2> HIDE DEF a, b
  <2>2. /\ a \o b \in Seq(Nat)
        /\ a \o b = <<>> <=> a = <<>> /\ b = <<>>
        /\ ToSet(a \o b) = ToSet(a) \cup ToSet(b)
        /\ Once(a) /\ Once(b) /\ ToSet(a) \cap ToSet(b) = {} => Once(a \o b)
    BY <2>1, SeqConcat
  <2> QED
    BY <2>2 DEF a, b
<1>3. increment_database(db, lists) \in Lists
  BY <1>2 DEF increment_database, Lists
<1> QED
  BY <1>1, <1>2, <1>3, Zenon

\* The reused facts of a list.
LEMMA ReusedIs ==
  ASSUME NEW list \in Seq(Nat)
  PROVE  /\ Reused(list) \in Lists
         /\ \A p \in LinearPred :
              /\ ToSet(Reused(list)[p]) = {f \in ToSet(list) : info[f].pred = p}
              /\ Once(list) => Once(Reused(list)[p])
         /\ NonEmpty(Reused(list)) = Preds(list) \cap LinearPred
<1>1. ASSUME NEW p \in LinearPred
      PROVE  /\ Reused(list)[p] \in Seq(Nat)
             /\ ToSet(Reused(list)[p]) = {f \in ToSet(list) : info[f].pred = p}
             /\ Once(list) => Once(Reused(list)[p])
             /\ Reused(list)[p] = <<>> <=> ToSet(Reused(list)[p]) = {}
  <2> DEFINE S == {f \in ToSet(list) : info[f].pred = p}
             s == Only(list, S)
  <2>1. Reused(list)[p] = s
    BY DEF Reused
  <2>2. ToSet(list) \cap S = S
    OBVIOUS
  <2>3. s \in Seq(Nat) /\ ToSet(s) = ToSet(list) \cap S /\ (Once(list) => Once(s))
    <3> HIDE DEF S
    <3> QED
      BY OnlyIs
  <2> HIDE DEF s
  <2>4. s = <<>> <=> ToSet(s) = {}
    BY <2>3, SeqSet
  <2> QED
    BY <2>1, <2>2, <2>3, <2>4
<1>2. Reused(list) \in Lists
  BY <1>1 DEF Reused, Lists
<1>3. NonEmpty(Reused(list)) = Preds(list) \cap LinearPred
  <2>1. ASSUME NEW p \in LinearPred PROVE Reused(list)[p] # <<>> <=> p \in Preds(list)
    <3>1. Reused(list)[p] # <<>> <=> \E f \in ToSet(list) : info[f].pred = p
      BY <1>1
    <3> QED
      BY <3>1 DEF Preds
  <2> QED
    BY <2>1 DEF NonEmpty
<1> QED
  BY <1>1, <1>2, <1>3

\* The lists of facts without those that are gone.
LEMMA OnlyLists ==
  ASSUME NEW db \in Lists, NEW gone
  PROVE  LET w == [p \in LinearPred |-> Only(db[p], ToSet(db[p]) \ gone)]
         IN  /\ w \in Lists
             /\ \A p \in LinearPred : /\ ToSet(w[p]) = ToSet(db[p]) \ gone
                                      /\ Once(db[p]) => Once(w[p])
                                      /\ w[p] # <<>> => db[p] # <<>>
<1> DEFINE w == [p \in LinearPred |-> Only(db[p], ToSet(db[p]) \ gone)]
<1>1. ASSUME NEW p \in LinearPred
      PROVE  /\ w[p] \in Seq(Nat) /\ ToSet(w[p]) = ToSet(db[p]) \ gone
             /\ Once(db[p]) => Once(w[p])
             /\ w[p] # <<>> => db[p] # <<>>
  <2> DEFINE a == db[p]
             S == ToSet(a) \ gone
             s == Only(a, S)
  <2>1. w[p] = s /\ a \in Seq(Nat)
    BY DEF Lists
  <2>2. ToSet(a) \cap S = S
    OBVIOUS
  <2> HIDE DEF S, a
  <2>3. s \in Seq(Nat) /\ ToSet(s) = ToSet(a) \cap S /\ (Once(a) => Once(s))
    BY <2>1, OnlyIs
  <2> HIDE DEF s
  <2>4. (s = <<>> <=> ToSet(s) = {}) /\ (a = <<>> <=> ToSet(a) = {})
    BY <2>1, <2>3, SeqSet
  <2> HIDE DEF w
  <2> QED
    BY <2>1, <2>2, <2>3, <2>4 DEF S, a
<1>2. w \in Lists
  <2>1. \A p \in LinearPred : Only(db[p], ToSet(db[p]) \ gone) \in Seq(Nat)
    BY <1>1
  <2> QED
    BY <2>1 DEF Lists
<1> HIDE DEF w
<1> QED
  BY <1>1, <1>2 DEF w

\* The predicates of lists are marked.
LEMMA MarkListsIs ==
  ASSUME NEW m \in Matchers, NEW lists
  PROVE  Marked(m, MarkLists(m, lists), NonEmpty(lists))
<1>1. NonEmpty(lists) \in SUBSET Pred
  BY RunAssumption DEF NonEmpty
<1> QED
  BY <1>1, FoldMarks DEF MarkLists, NonEmpty

\* The predicates of a list of persistent facts are known.
LEMMA PredsKnown ==
  ASSUME Types, NEW list, ToSet(list) \subseteq DOMAIN info
  PROVE  Preds(list) \in SUBSET Pred
<1>1. \A f \in DOMAIN info : info[f].pred \in Pred
  <2>1. info \in [1..Len(info) -> [pred : Pred, from : AllNode]]
    BY LenProperties DEF Types
  <2> QED
    BY <2>1
<1> QED
  BY <1>1 DEF Preds

\* w is m after the persistent facts of a list were marked in the matcher in use, that of
\* cur, and the reused ones in that of the node n.
Processed(m, w, cur, n, list) ==
  /\ w \in [AllNode -> Matchers]
  /\ \A k \in AllNode : k # cur /\ k # n => w[k] = m[k]
  /\ cur = n => Marked(m[n], w[n], Preds(list))
  /\ cur # n => /\ Marked(m[cur], w[cur], Preds(list) \ ReusedPred)
                /\ Marked(m[n], w[n], Preds(list) \cap LinearPred)

\* process_persistent marks the predicates of the facts of the list, each where its facts live.
LEMMA ProcessIs ==
  ASSUME Types, NEW m \in [AllNode -> Matchers], NEW cur \in AllNode, NEW n \in AllNode,
         NEW list \in Seq(Nat), ToSet(list) \subseteq DOMAIN info
  PROVE  Processed(m, process_persistent(m, cur, n, list), cur, n, list)
<1> DEFINE w == process_persistent(m, cur, n, list)
           P == Preds(list)
           kept == FoldSet(LAMBDA p, acc : new_persistent_fact(acc, p), m[cur], P \ ReusedPred)
           step == [m EXCEPT ![cur] = kept]
           last == MarkLists(step[n], Reused(list))
<1>1. w = [step EXCEPT ![n] = last]
  BY DEF process_persistent, Preds
<1>2. P \in SUBSET Pred /\ P \ ReusedPred \in SUBSET Pred
  BY PredsKnown
<1>3. NonEmpty(Reused(list)) = P \cap LinearPred
  BY ReusedIs
<1>4. (P \ ReusedPred) \cup (P \cap LinearPred) = P
  BY RunAssumption
<1> HIDE DEF P
<1>5. Marked(m[cur], kept, P \ ReusedPred)
  BY <1>2, FoldMarks DEF new_persistent_fact
<1> HIDE DEF kept
<1>6. kept \in Matchers
  BY <1>5 DEF Marked
<1>7. /\ step \in [AllNode -> Matchers] /\ step[cur] = kept
      /\ \A k \in AllNode : k # cur => step[k] = m[k]
  BY <1>6
<1> HIDE DEF step
<1>8. Marked(step[n], last, P \cap LinearPred)
  BY <1>3, <1>7, MarkListsIs
<1> HIDE DEF last
<1>9. last \in Matchers
  BY <1>8 DEF Marked
<1>10. /\ w \in [AllNode -> Matchers] /\ w[n] = last
       /\ \A k \in AllNode : k # n => w[k] = step[k]
  BY <1>1, <1>7, <1>9
<1> HIDE DEF w
<1>11. ASSUME cur = n PROVE Marked(m[n], w[n], P)
  <2>1. Marked(m[n], kept, P \ ReusedPred) /\ Marked(kept, w[n], P \cap LinearPred)
    BY <1>5, <1>7, <1>8, <1>10, <1>11
  <2>2. Marked(m[n], w[n], (P \ ReusedPred) \cup (P \cap LinearPred))
    BY <2>1, MarkedTwice
  <2> QED
    BY <1>4, <2>2
<1>12. ASSUME cur # n
       PROVE  Marked(m[cur], w[cur], P \ ReusedPred) /\ Marked(m[n], w[n], P \cap LinearPred)
  BY <1>5, <1>7, <1>8, <1>10, <1>12
<1> QED
  BY <1>7, <1>10, <1>11, <1>12 DEF Processed, w, P

-----------------------------------------------------------------------------
(* The types are kept *)

\* A thread that runs no node holds nothing.
LEMMA IdleType ==
  /\ Idle \in Runs /\ Idle.node \in Node /\ Idle.pc = "idle" /\ ~Idle.leave
  /\ Idle.used = {} /\ Idle.generated = NoFacts /\ Idle.node_persistent = <<>>
  /\ Idle.thread_persistent = <<>> /\ NoFacts \in Lists
<1>1. (CHOOSE n \in Node : TRUE) \in Node
  BY RunAssumption
<1>2. NoFacts \in Lists
  BY DEF NoFacts, Lists
<1> HIDE DEF NoFacts
<1> QED
  BY <1>1, <1>2 DEF Idle, Runs, PC, AllNode

\* The node of a thread is not a node of the graph.
LEMMA ThreadNodes ==
  ASSUME NEW t \in Thread
  PROVE  thread_node[t] \in AllNode /\ thread_node[t] \in ThreadNode /\ thread_node[t] \notin Node
  BY RunAssumption DEF AllNode, ThreadNode

\* Facts with other derivations, and one fact more.
LEMMA InfoGrows ==
  ASSUME Types, NEW p \in Pred, NEW n \in AllNode, info' = Append(info, [pred |-> p, from |-> n])
  PROVE  /\ info' \in Seq([pred : Pred, from : AllNode])
         /\ DOMAIN info' = DOMAIN info \cup {Len(info) + 1}
         /\ Len(info) + 1 \in Nat /\ Len(info) + 1 \notin DOMAIN info
         /\ \A f \in DOMAIN info : info'[f] = info[f]
         /\ info'[Len(info) + 1].pred = p
<1> DEFINE R == [pred : Pred, from : AllNode]
           e == [pred |-> p, from |-> n]
<1>1. info \in Seq(R) /\ e \in R
  BY DEF Types
<1> HIDE DEF R
<1>2. /\ Append(info, e) \in Seq(R) /\ Len(Append(info, e)) = Len(info) + 1
      /\ \A i \in 1..Len(info) : Append(info, e)[i] = info[i]
      /\ Append(info, e)[Len(info) + 1] = e
  BY <1>1, AppendProperties
<1>3. Len(info) \in Nat /\ DOMAIN info = 1..Len(info) /\ DOMAIN Append(info, e) = 1..Len(info) + 1
  BY <1>1, <1>2, LenProperties
<1>4. 1..Len(info) + 1 = 1..Len(info) \cup {Len(info) + 1}
  BY <1>3
<1>5. info' = Append(info, e)
  OBVIOUS
<1>6. e.pred = p
  OBVIOUS
<1> HIDE DEF e
<1> QED
  BY <1>2, <1>3, <1>4, <1>5, <1>6 DEF R

\* The fields of the run of a thread.
LEMMA RunFields ==
  ASSUME Types, NEW t \in Thread
  PROVE  /\ run[t] \in Runs /\ run[t].node \in AllNode /\ run[t].generated \in Lists
         /\ run[t].node_persistent \in Seq(Nat) /\ run[t].thread_persistent \in Seq(Nat)
         /\ run[t].used \in SUBSET Nat /\ IsFiniteSet(run[t].used)
<1>1. Fact \subseteq Nat /\ IsFiniteSet(Fact)
  BY RunAssumption, FS_Interval DEF Fact
<1>2. run[t] \in Runs
  BY DEF Types
<1>3. run[t].used \in SUBSET Fact
  BY <1>2 DEF Runs
<1>4. run[t].used \in SUBSET Nat /\ IsFiniteSet(run[t].used)
  BY <1>1, <1>3, FS_Subset
<1> QED
  BY <1>2, <1>4 DEF Runs

\* A step of thread t changes its own run.
LEMMA RunStep ==
  ASSUME Types, NEW t \in Thread, NEW r \in Runs, run' = [run EXCEPT ![t] = r]
  PROVE  /\ run' \in [Thread -> Runs] /\ run'[t] = r
         /\ \A u \in Thread : u # t => run'[u] = run[u]
  BY DEF Types

\* Only rules are concerned by facts.
LEMMA ConcernedType ==
  ASSUME NEW lists
  PROVE  Concerned(lists) \in SUBSET Rule /\ ConcernedBy(lists) \in SUBSET Rule
  BY DEF Concerned, ConcernedBy, linear_rules

\* The start of a run keeps the types.
LEMMA BeginTypes ==
  ASSUME Types, Known, NEW t \in Thread, Begin(t)
  PROVE  Types' /\ Known'
<1>1. PICK n \in AllNode :
        LET list == incoming_persistent[n]
        IN  /\ linear' = [linear EXCEPT ![n] = increment_database(
                                          increment_database(@, incoming[n]), Reused(list))]
            /\ pers_store' = [pers_store EXCEPT ![n] = Stored(n, list)]
            /\ incoming' = [incoming EXCEPT ![n] = NoFacts]
            /\ incoming_persistent' = [incoming_persistent EXCEPT ![n] = <<>>]
            /\ unprocessed_facts' = [unprocessed_facts EXCEPT ![n] = FALSE]
            /\ fresh' = [fresh EXCEPT ![n] = @ \cup Concerned(incoming[n]) \cup ConcernedBy(list)]
            /\ run' = [run EXCEPT ![t] = [Idle EXCEPT
                         !.node = n, !.thread_persistent = run[t].thread_persistent,
                         !.pc = IF ThreadPred # {} /\ n # thread_node[t] THEN "thread" ELSE "rules"]]
            /\ UNCHANGED <<info, owner, facts_to_send>>
  BY Zenon DEF Begin
<1> DEFINE list == incoming_persistent[n]
           db == increment_database(increment_database(linear[n], incoming[n]), Reused(list))
           r == [Idle EXCEPT !.node = n, !.thread_persistent = run[t].thread_persistent,
                         !.pc = IF ThreadPred # {} /\ n # thread_node[t] THEN "thread" ELSE "rules"]
<1>2. list \in Seq(Nat) /\ linear[n] \in Lists /\ incoming[n] \in Lists
  BY DEF Types
<1>3. db \in Lists
  BY <1>2, IncrementIs, ReusedIs
<1>4. Stored(n, list) \in SUBSET Nat /\ Stored(n, list) \subseteq DOMAIN info
  <2>1. ToSet(list) \subseteq Nat /\ ToSet(list) \subseteq DOMAIN info
    BY <1>2, SeqSet DEF Known
  <2> QED
    BY <2>1 DEF Stored, Types, Known
<1>5. r \in Runs /\ r.node_persistent = <<>> /\ r.thread_persistent = run[t].thread_persistent
  BY IdleType, RunFields DEF Runs, PC
<1> HIDE DEF r, db
<1>6. /\ linear' = [linear EXCEPT ![n] = db] /\ run' = [run EXCEPT ![t] = r]
  BY <1>1 DEF r, db
<1>7. Types'
  <2>1. linear' \in [AllNode -> Lists] /\ incoming' \in [AllNode -> Lists]
    BY <1>1, <1>3, <1>6, IdleType DEF Types
  <2>2. /\ pers_store' \in [AllNode -> SUBSET Nat]
        /\ incoming_persistent' \in [AllNode -> Seq(Nat)]
    BY <1>1, <1>4 DEF Types
  <2>3. fresh' \in [AllNode -> SUBSET Rule] /\ unprocessed_facts' \in [AllNode -> BOOLEAN]
    BY <1>1, ConcernedType DEF Types
  <2>4. run' \in [Thread -> Runs]
    BY <1>5, <1>6 DEF Types
  <2> QED
    BY <1>1, <2>1, <2>2, <2>3, <2>4 DEF Types
<1>8. Known'
  <2>1. ToSet(<<>>) = {}
    BY DEF ToSet
  <2>2. ASSUME NEW k \in AllNode
        PROVE  pers_store'[k] \cup ToSet(incoming_persistent'[k]) \subseteq DOMAIN info
    BY <1>1, <1>4, <2>1 DEF Types, Known
  <2>3. ASSUME NEW u \in Thread
        PROVE ToSet(run'[u].node_persistent) \cup ToSet(run'[u].thread_persistent) \subseteq DOMAIN info
    BY <1>5, <1>6, <2>1 DEF Types, Known
  <2> QED
    BY <1>1, <2>2, <2>3 DEF Known
<1> QED
  BY <1>7, <1>8

\* Taking the facts of the thread node keeps the types.
LEMMA AddThreadTypes ==
  ASSUME Types, Known, NEW t \in Thread, AddThread(t)
  PROVE  Types' /\ Known'
<1> DEFINE n == run[t].node
           h == thread_node[t]
           list == incoming_persistent[h]
           db == increment_database(increment_database(linear[h], incoming[h]), Reused(list))
<1>1. h \in AllNode /\ n \in AllNode
  BY ThreadNodes, RunFields
<1>2. list \in Seq(Nat) /\ linear[h] \in Lists /\ incoming[h] \in Lists
  BY <1>1 DEF Types
<1>3. db \in Lists
  BY <1>2, IncrementIs, ReusedIs
<1>4. Stored(h, list) \in SUBSET Nat /\ Stored(h, list) \subseteq DOMAIN info
  <2>1. ToSet(list) \subseteq Nat /\ ToSet(list) \subseteq DOMAIN info
    BY <1>1, <1>2, SeqSet DEF Known
  <2> QED
    BY <1>1, <2>1 DEF Stored, Types, Known
<1>5. /\ linear' = [linear EXCEPT ![h] = db]
      /\ pers_store' = [pers_store EXCEPT ![h] = Stored(h, list)]
      /\ incoming' = [incoming EXCEPT ![h] = NoFacts]
      /\ incoming_persistent' = [incoming_persistent EXCEPT ![h] = <<>>]
      /\ unprocessed_facts' = [unprocessed_facts EXCEPT ![h] = FALSE]
      /\ fresh' = [fresh EXCEPT ![n] = @ \cup Concerned(incoming[h]) \cup ConcernedBy(list)]
      /\ run' = [run EXCEPT ![t].pc = "rules"]
      /\ UNCHANGED <<info, owner, facts_to_send>>
  BY DEF AddThread
<1> HIDE DEF db, n, h, list
<1> DEFINE r == [run[t] EXCEPT !.pc = "rules"]
<1>8. /\ r \in Runs /\ r.node_persistent = run[t].node_persistent
      /\ r.thread_persistent = run[t].thread_persistent
      /\ run' = [run EXCEPT ![t] = r]
  <2>1. run[t] \in Runs /\ run \in [Thread -> Runs]
    BY DEF Types
  <2>2. run' = [run EXCEPT ![t] = r]
    BY <1>5, <2>1
  <2> QED
    BY <2>1, <2>2 DEF Runs, PC
<1> HIDE DEF r
<1>6. Types'
  <2>1. linear' \in [AllNode -> Lists] /\ incoming' \in [AllNode -> Lists]
    BY <1>1, <1>3, <1>5, IdleType DEF Types
  <2>2. /\ pers_store' \in [AllNode -> SUBSET Nat]
        /\ incoming_persistent' \in [AllNode -> Seq(Nat)]
    BY <1>1, <1>4, <1>5 DEF Types
  <2>3. fresh' \in [AllNode -> SUBSET Rule] /\ unprocessed_facts' \in [AllNode -> BOOLEAN]
    BY <1>1, <1>5, ConcernedType DEF Types
  <2>4. run' \in [Thread -> Runs]
    BY <1>8, RunStep
  <2> QED
    BY <1>5, <2>1, <2>2, <2>3, <2>4 DEF Types
<1>7. Known'
  <2>1. ToSet(<<>>) = {}
    BY DEF ToSet
  <2>2. ASSUME NEW k \in AllNode
        PROVE  pers_store'[k] \cup ToSet(incoming_persistent'[k]) \subseteq DOMAIN info
    BY <1>1, <1>4, <1>5, <2>1 DEF Types, Known
  <2>3. ASSUME NEW u \in Thread
        PROVE ToSet(run'[u].node_persistent) \cup ToSet(run'[u].thread_persistent) \subseteq DOMAIN info
    BY <1>8, RunStep DEF Known
  <2> QED
    BY <1>5, <2>2, <2>3 DEF Known
<1> QED
  BY <1>6, <1>7

\* The lowest rule of a queue is in it.
LEMMA FrontIs ==
  ASSUME NEW q \in SUBSET Rule, q # {}
  PROVE  remove_front(q) \in q
<1>1. q \subseteq Nat
  BY MatcherAssumption DEF Rule
<1>2. \E r \in q : \A s \in q : r <= s
  BY <1>1, SmallestNat
<1> QED
  BY <1>2 DEF remove_front

\* Taking a rule from the queue keeps the types.
LEMMA NextRuleTypes ==
  ASSUME Types, Known, matcher \in [AllNode -> Matchers], NEW t \in Thread, NextRule(t)
  PROVE  Types' /\ Known'
<1> DEFINE n == run[t].node
           r == remove_front(matcher[n].rule_queue)
<1>1. n \in AllNode
  BY RunFields
<1>2. /\ matcher[n].rule_queue # {}
      /\ fresh' = [fresh EXCEPT ![n] = @ \ {r}]
      /\ run' = [run EXCEPT ![t].pc = "match", ![t].rule = r]
      /\ UNCHANGED <<info, owner, linear, pers_store, incoming, incoming_persistent,
                     unprocessed_facts, facts_to_send>>
  BY DEF NextRule
<1>3. r \in Int
  <2>1. matcher[n].rule_queue \in SUBSET Rule
    BY <1>1 DEF Matchers
  <2> QED
    BY <1>2, <2>1, FrontIs, MatcherAssumption DEF Rule
<1> HIDE DEF n, r
<1> DEFINE w == [run[t] EXCEPT !.pc = "match", !.rule = r]
<1>7. /\ w \in Runs /\ w.node_persistent = run[t].node_persistent
      /\ w.thread_persistent = run[t].thread_persistent
      /\ run' = [run EXCEPT ![t] = w]
  <2>1. run[t] \in Runs /\ run \in [Thread -> Runs]
    BY DEF Types
  <2>2. run' = [run EXCEPT ![t] = w]
    BY <1>2, <1>3, <2>1
  <2> QED
    BY <1>2, <1>3, <2>1, <2>2 DEF Runs, PC
<1> HIDE DEF w
<1>4. run' \in [Thread -> Runs]
  BY <1>7, RunStep
<1>5. Types'
  BY <1>1, <1>2, <1>4 DEF Types
<1>6. ASSUME NEW u \in Thread
      PROVE ToSet(run'[u].node_persistent) \cup ToSet(run'[u].thread_persistent) \subseteq DOMAIN info
  BY <1>7, RunStep DEF Known
<1> QED
  BY <1>2, <1>5, <1>6 DEF Known

\* A match keeps the types.
LEMMA MatchTypes ==
  ASSUME Types, Known, NEW t \in Thread, Match(t)
  PROVE  Types' /\ Known'
<1>1. PICK used \in [Body[run[t].rule] -> Fact] :
        /\ run' = [run EXCEPT ![t].pc = "fire", ![t].used = {used[p] : p \in Body[run[t].rule]}]
        /\ UNCHANGED <<info, owner, linear, pers_store, incoming, incoming_persistent,
                       unprocessed_facts, facts_to_send, fresh>>
  BY Zenon DEF Match
<1> DEFINE s == {used[p] : p \in Body[run[t].rule]}
<1>2. s \in SUBSET Fact
  BY <1>1
<1> HIDE DEF s
<1>3. run' = [run EXCEPT ![t].pc = "fire", ![t].used = s]
  BY <1>1 DEF s
<1> DEFINE w == [run[t] EXCEPT !.pc = "fire", !.used = s]
<1>7. /\ w \in Runs /\ w.node_persistent = run[t].node_persistent
      /\ w.thread_persistent = run[t].thread_persistent
      /\ run' = [run EXCEPT ![t] = w]
  <2>1. run[t] \in Runs /\ run \in [Thread -> Runs]
    BY DEF Types
  <2>2. run' = [run EXCEPT ![t] = w]
    BY <1>2, <1>3, <2>1
  <2> QED
    BY <1>2, <1>3, <2>1, <2>2 DEF Runs, PC
<1> HIDE DEF w
<1>4. run' \in [Thread -> Runs]
  BY <1>7, RunStep
<1>5. Types'
  BY <1>1, <1>4 DEF Types
<1>6. ASSUME NEW u \in Thread
      PROVE ToSet(run'[u].node_persistent) \cup ToSet(run'[u].thread_persistent) \subseteq DOMAIN info
  BY <1>7, RunStep DEF Known
<1> QED
  BY <1>1, <1>5, <1>6 DEF Known

\* The ways a rule derives a fact of predicate p.
DeriveLinear(t, p) ==
  run[t].node \in Node /\ p \in LinearPred \ (ThreadPred \cup ReusedPred)
  /\ AddLinear(t, Len(info) + 1, p)

DeriveEnqueue(t, p) ==
  /\ p \in LinearPred
  /\ \E r \in Enqueued(run[t], Len(info) + 1, p) : run' = [run EXCEPT ![t] = r]
  /\ UNCHANGED <<linear, matcher, pers_store, incoming, incoming_persistent,
                 unprocessed_facts, facts_to_send, fresh>>

DerivePersistent(t, p) ==
  p \notin LinearPred /\ AddPersistent(t, Len(info) + 1, p) /\ UNCHANGED linear

DeriveForThread(t, p) ==
  p \in ThreadPred /\ (\E h \in ThreadNode : NewThreadWork(h, Len(info) + 1, p)) /\ UNCHANGED linear

DeriveForNode(t, p) ==
  p \notin ThreadPred /\ (\E n \in Node : Send(t, n, Len(info) + 1, p)) /\ UNCHANGED linear

Derived(t, p) ==
  /\ run[t].pc = "fire"
  /\ info' = Append(info, [pred |-> p, from |-> run[t].node])
  /\ UNCHANGED <<owner, moves>>
  /\ \/ DeriveLinear(t, p) \/ DeriveEnqueue(t, p) \/ DerivePersistent(t, p)
     \/ DeriveForThread(t, p) \/ DeriveForNode(t, p)

\* A derivation is one for some predicate.
LEMMA DeriveIs ==
  ASSUME NEW t \in Thread, Derive(t)
  PROVE  \E p \in Pred : Derived(t, p)
<1> DEFINE f == Len(info) + 1
           n == run[t].node
<1>1. PICK p \in Pred : \E to \in IF p \in ThreadPred THEN ThreadNode ELSE Node :
        /\ info' = Append(info, [pred |-> p, from |-> n])
        /\ \/ to = n /\ p \in LinearPred \ (ThreadPred \cup ReusedPred) /\ AddLinear(t, f, p)
           \/ /\ \/ /\ to = Home(t, n, p) /\ p \in LinearPred
                    /\ \E r \in Enqueued(run[t], f, p) : run' = [run EXCEPT ![t] = r]
                    /\ UNCHANGED <<matcher, pers_store, incoming, incoming_persistent,
                                   unprocessed_facts, facts_to_send, fresh>>
                 \/ to = Home(t, n, p) /\ p \notin LinearPred /\ AddPersistent(t, f, p)
                 \/ to # Home(t, n, p) /\ p \in ThreadPred /\ NewThreadWork(to, f, p)
                 \/ (to = n => p \in SelfDest) /\ p \notin ThreadPred /\ Send(t, to, f, p)
              /\ UNCHANGED linear
  BY Zenon DEF Derive
<1>7. PICK to \in IF p \in ThreadPred THEN ThreadNode ELSE Node :
        /\ info' = Append(info, [pred |-> p, from |-> n])
        /\ \/ to = n /\ p \in LinearPred \ (ThreadPred \cup ReusedPred) /\ AddLinear(t, f, p)
           \/ /\ \/ /\ to = Home(t, n, p) /\ p \in LinearPred
                    /\ \E r \in Enqueued(run[t], f, p) : run' = [run EXCEPT ![t] = r]
                    /\ UNCHANGED <<matcher, pers_store, incoming, incoming_persistent,
                                   unprocessed_facts, facts_to_send, fresh>>
                 \/ to = Home(t, n, p) /\ p \notin LinearPred /\ AddPersistent(t, f, p)
                 \/ to # Home(t, n, p) /\ p \in ThreadPred /\ NewThreadWork(to, f, p)
                 \/ (to = n => p \in SelfDest) /\ p \notin ThreadPred /\ Send(t, to, f, p)
              /\ UNCHANGED linear
  BY <1>1, Zenon
<1>2. run[t].pc = "fire" /\ UNCHANGED <<owner, moves>>
  BY Zenon DEF Derive
<1>3. to \in Node \/ (p \in ThreadPred /\ to \in ThreadNode)
  BY <1>7
<1>4. p \notin ThreadPred => to \in Node
  BY <1>7
<1>5. p \in ThreadPred => to \in ThreadNode
  BY <1>7
<1> HIDE DEF f
<1>6. \/ DeriveLinear(t, p) \/ DeriveEnqueue(t, p) \/ DerivePersistent(t, p)
      \/ DeriveForThread(t, p) \/ DeriveForNode(t, p)
  <2>1. CASE to = n /\ p \in LinearPred \ (ThreadPred \cup ReusedPred) /\ AddLinear(t, f, p)
    BY <1>4, <2>1, Zenon DEF DeriveLinear, f
  <2>2. CASE /\ to = Home(t, n, p) /\ p \in LinearPred
             /\ \E r \in Enqueued(run[t], f, p) : run' = [run EXCEPT ![t] = r]
             /\ UNCHANGED <<matcher, pers_store, incoming, incoming_persistent,
                            unprocessed_facts, facts_to_send, fresh>>
             /\ UNCHANGED linear
    BY <2>2 DEF DeriveEnqueue, f
  <2>3. CASE to = Home(t, n, p) /\ p \notin LinearPred /\ AddPersistent(t, f, p) /\ UNCHANGED linear
    BY <2>3, Zenon DEF DerivePersistent, f
  <2>4. CASE to # Home(t, n, p) /\ p \in ThreadPred /\ NewThreadWork(to, f, p) /\ UNCHANGED linear
    BY <1>5, <2>4, Zenon DEF DeriveForThread, f
  <2>5. CASE (to = n => p \in SelfDest) /\ p \notin ThreadPred /\ Send(t, to, f, p) /\ UNCHANGED linear
    BY <1>4, <2>5, Zenon DEF DeriveForNode, f
  <2> QED
    BY <1>7, <2>1, <2>2, <2>3, <2>4, <2>5, Zenon
<1> QED
  BY <1>2, <1>6, <1>7 DEF Derived

\* r is the run s after fact f of p was put on one of its lists.
Put(s, r, f, p) ==
  /\ r \in Runs /\ r.pc = s.pc /\ r.node = s.node /\ r.leave = s.leave /\ r.used = s.used
  /\ \/ /\ p \notin ReusedPred \/ p \in ThreadPred
        /\ r.generated = [s.generated EXCEPT ![p] = Append(@, f)]
        /\ r.node_persistent = s.node_persistent
        /\ r.thread_persistent = s.thread_persistent
     \/ /\ p \in ReusedPred /\ p \in ThreadPred
        /\ r.generated = s.generated
        /\ r.node_persistent = s.node_persistent
        /\ r.thread_persistent = Append(s.thread_persistent, f)
     \/ /\ p \in ReusedPred /\ p \notin ThreadPred
        /\ r.generated = s.generated
        /\ r.node_persistent = Append(s.node_persistent, f)
        /\ r.thread_persistent = s.thread_persistent

\* enqueue_fact puts the fact in one of the lists of the run.
LEMMA EnqueuedIs ==
  ASSUME Types, NEW t \in Thread, NEW p \in LinearPred, NEW f \in Nat,
         NEW r \in Enqueued(run[t], f, p)
  PROVE  Put(run[t], r, f, p)
<1> DEFINE s == run[t]
           g == [s.generated EXCEPT ![p] = Append(@, f)]
<1>1. s \in Runs /\ s.generated \in Lists
  BY RunFields
<1>2. g \in Lists
  <2>1. Append(s.generated[p], f) \in Seq(Nat)
    BY <1>1 DEF Lists
  <2> QED
    BY <1>1, <2>1 DEF Lists
<1>3. Append(s.node_persistent, f) \in Seq(Nat) /\ Append(s.thread_persistent, f) \in Seq(Nat)
  BY RunFields
<1>4. \/ (p \notin ReusedPred \/ p \in ThreadPred) /\ r = [s EXCEPT !.generated = g]
      \/ p \in ReusedPred /\ p \in ThreadPred
         /\ r = [s EXCEPT !.thread_persistent = Append(s.thread_persistent, f)]
      \/ p \in ReusedPred /\ p \notin ThreadPred
         /\ r = [s EXCEPT !.node_persistent = Append(s.node_persistent, f)]
  BY <1>1 DEF Enqueued, Runs
<1> HIDE DEF g
<1>5. CASE (p \notin ReusedPred \/ p \in ThreadPred) /\ r = [s EXCEPT !.generated = g]
  BY <1>1, <1>2, <1>5 DEF Runs, Put, g
<1>6. CASE p \in ReusedPred /\ p \in ThreadPred
           /\ r = [s EXCEPT !.thread_persistent = Append(s.thread_persistent, f)]
  BY <1>1, <1>3, <1>6 DEF Runs, Put
<1>7. CASE p \in ReusedPred /\ p \notin ThreadPred
           /\ r = [s EXCEPT !.node_persistent = Append(s.node_persistent, f)]
  BY <1>1, <1>3, <1>7 DEF Runs, Put
<1> QED
  BY <1>4, <1>5, <1>6, <1>7

\* A derivation keeps the types.
LEMMA DeriveTypes ==
  ASSUME Types, Known, NEW t \in Thread, Derive(t)
  PROVE  Types' /\ Known'
<1>1. PICK p \in Pred : Derived(t, p)
  BY DeriveIs
<1> DEFINE f == Len(info) + 1
           n == run[t].node
<1>2. n \in AllNode /\ owner' = owner
  BY <1>1, RunFields DEF Derived
<1>3. /\ info' \in Seq([pred : Pred, from : AllNode])
      /\ DOMAIN info' = DOMAIN info \cup {f} /\ f \in Nat
  BY <1>1, <1>2, InfoGrows DEF Derived
<1> HIDE DEF f
<1>4. CASE DeriveLinear(t, p)
  <2>1. /\ p \in LinearPred /\ linear' = [linear EXCEPT ![n][p] = Append(@, f)]
        /\ fresh' = [fresh EXCEPT ![n] = @ \cup linear_rules(p)]
        /\ UNCHANGED <<run, pers_store, incoming, incoming_persistent, unprocessed_facts, facts_to_send>>
    BY <1>4 DEF DeriveLinear, AddLinear, f
  <2>2. Append(linear[n][p], f) \in Seq(Nat)
    BY <1>2, <1>3, <2>1 DEF Types, Lists
  <2>3. linear' \in [AllNode -> Lists]
    BY <1>2, <2>1, <2>2 DEF Types, Lists
  <2>4. fresh' \in [AllNode -> SUBSET Rule]
    BY <1>2, <2>1 DEF Types, linear_rules
  <2> QED
    BY <1>2, <1>3, <2>1, <2>3, <2>4 DEF Types, Known
<1>5. CASE DeriveEnqueue(t, p)
  <2>1. PICK r \in Enqueued(run[t], f, p) : run' = [run EXCEPT ![t] = r]
    BY <1>5 DEF DeriveEnqueue, f
  <2>2. p \in LinearPred /\ UNCHANGED <<linear, pers_store, incoming, incoming_persistent,
                                        unprocessed_facts, facts_to_send, fresh>>
    BY <1>5 DEF DeriveEnqueue
  <2>3. /\ r \in Runs
        /\ \/ r.node_persistent = run[t].node_persistent
           \/ r.node_persistent = Append(run[t].node_persistent, f)
        /\ \/ r.thread_persistent = run[t].thread_persistent
           \/ r.thread_persistent = Append(run[t].thread_persistent, f)
    BY <1>3, <2>2, EnqueuedIs DEF Put
  <2>4. /\ run[t].node_persistent \in Seq(Nat) /\ run[t].thread_persistent \in Seq(Nat)
    BY RunFields
  <2>5. ToSet(r.node_persistent) \cup ToSet(r.thread_persistent) \subseteq DOMAIN info'
    <3>1. \A s \in Seq(Nat) : ToSet(Append(s, f)) = ToSet(s) \cup {f}
      BY <1>3, SeqAppend
    <3>2. ToSet(run[t].node_persistent) \cup ToSet(run[t].thread_persistent) \subseteq DOMAIN info
      BY DEF Known
    <3> QED
      BY <1>3, <2>3, <2>4, <3>1, <3>2
  <2>6. /\ run' \in [Thread -> Runs] /\ run'[t] = r
        /\ \A u \in Thread : u # t => run'[u] = run[u]
    BY <2>1, <2>3, RunStep
  <2>7. Types'
    BY <1>2, <1>3, <2>2, <2>6 DEF Types
  <2> QED
    BY <1>3, <2>2, <2>5, <2>6, <2>7 DEF Known
<1>6. CASE DerivePersistent(t, p)
  <2> DEFINE h == Home(t, n, p)
  <2>1. h \in AllNode
    BY <1>2, ThreadNodes DEF Home
  <2>2. /\ pers_store' = [pers_store EXCEPT ![h] = @ \cup {f}]
        /\ fresh' = [fresh EXCEPT ![n] = @ \cup linear_rules(p)]
        /\ UNCHANGED <<linear, run, incoming, incoming_persistent, unprocessed_facts, facts_to_send>>
    BY <1>6 DEF DerivePersistent, AddPersistent, f
  <2> HIDE DEF h
  <2>3. fresh' \in [AllNode -> SUBSET Rule] /\ pers_store' \in [AllNode -> SUBSET Nat]
    BY <1>2, <1>3, <2>1, <2>2 DEF Types, linear_rules
  <2>4. Types'
    BY <1>2, <1>3, <2>2, <2>3 DEF Types
  <2>5. ASSUME NEW k \in AllNode
        PROVE  pers_store'[k] \cup ToSet(incoming_persistent'[k]) \subseteq DOMAIN info'
    BY <1>3, <2>1, <2>2 DEF Types, Known
  <2> QED
    BY <1>3, <2>2, <2>4, <2>5 DEF Known
<1>7. ASSUME NEW h \in AllNode, UNCHANGED <<linear, run, pers_store, facts_to_send, fresh>>,
             unprocessed_facts' \in [AllNode -> BOOLEAN], incoming' \in [AllNode -> Lists],
             \/ UNCHANGED incoming_persistent
             \/ incoming_persistent' = [incoming_persistent EXCEPT ![h] = Append(@, f)]
      PROVE  Types' /\ Known'
  <2>1. incoming_persistent[h] \in Seq(Nat) /\ incoming_persistent \in [AllNode -> Seq(Nat)]
    BY <1>7 DEF Types
  <2> DEFINE a == Append(incoming_persistent[h], f)
  <2>2. a \in Seq(Nat) /\ ToSet(a) = ToSet(incoming_persistent[h]) \cup {f}
    BY <1>3, <2>1, SeqAppend
  <2> HIDE DEF a
  <2>3. incoming_persistent' \in [AllNode -> Seq(Nat)]
    BY <1>7, <2>1, <2>2 DEF a
  <2>4. Types'
    BY <1>2, <1>3, <1>7, <2>3 DEF Types
  <2>5. ASSUME NEW k \in AllNode
        PROVE  ToSet(incoming_persistent'[k]) \subseteq ToSet(incoming_persistent[k]) \cup {f}
    BY <1>7, <2>1, <2>2 DEF a
  <2>6. ASSUME NEW k \in AllNode
        PROVE  pers_store'[k] \cup ToSet(incoming_persistent'[k]) \subseteq DOMAIN info'
    BY <1>3, <1>7, <2>5 DEF Known
  <2> QED
    BY <1>3, <1>7, <2>4, <2>6 DEF Known
<1>8. CASE DeriveForThread(t, p)
  <2>1. PICK h \in ThreadNode : NewThreadWork(h, f, p)
    BY <1>8 DEF DeriveForThread, f
  <2>2. /\ h \in AllNode /\ UNCHANGED <<linear, run, pers_store, facts_to_send, fresh>>
        /\ unprocessed_facts' = [unprocessed_facts EXCEPT ![h] = TRUE]
        /\ \/ UNCHANGED incoming_persistent
           \/ incoming_persistent' = [incoming_persistent EXCEPT ![h] = Append(@, f)]
    BY <1>8, <2>1 DEF DeriveForThread, NewThreadWork, AllNode
  <2>3. incoming' = incoming \/ (p \in LinearPred /\ incoming' = [incoming EXCEPT ![h][p] = Append(@, f)])
    BY <2>1 DEF NewThreadWork, Slow
  <2>4. incoming' \in [AllNode -> Lists]
    <3>1. p \in LinearPred => Append(incoming[h][p], f) \in Seq(Nat)
      BY <1>3, <2>2 DEF Types, Lists
    <3> DEFINE g == [incoming[h] EXCEPT ![p] = Append(@, f)]
    <3>2. p \in LinearPred => g \in Lists
      BY <2>2, <3>1 DEF Types, Lists
    <3>3. incoming' = incoming \/ (p \in LinearPred /\ incoming' = [incoming EXCEPT ![h] = g])
      BY <2>3
    <3> HIDE DEF g
    <3> QED
      BY <2>2, <3>2, <3>3 DEF Types
  <2>5. unprocessed_facts' \in [AllNode -> BOOLEAN]
    BY <2>2 DEF Types
  <2> QED
    BY <1>7, <2>2, <2>4, <2>5
<1>9. CASE DeriveForNode(t, p)
  <2>1. PICK k \in Node : Send(t, k, f, p)
    BY <1>9 DEF DeriveForNode, f
  <2>2. CASE ~Slow(p)
    <3>1. /\ facts_to_send' = [facts_to_send EXCEPT ![t] = buffer_add(@, k, f, p)]
          /\ UNCHANGED <<linear, run, incoming_persistent, unprocessed_facts, incoming, pers_store, fresh>>
      BY <1>9, <2>1, <2>2 DEF DeriveForNode, Send
    <3>2. p \in LinearPred
      BY <2>2 DEF Slow
    <3> DEFINE b == facts_to_send[t]
               w == <<f>> \o b[k][p]
    <3>3. b \in [Node -> Lists] /\ b[k] \in Lists /\ b[k][p] \in Seq(Nat)
      BY <3>2 DEF Types, Lists
    <3>4. w \in Seq(Nat)
      BY <1>3, <3>3
    <3> HIDE DEF w
    <3>5. [b[k] EXCEPT ![p] = w] \in Lists
      BY <3>2, <3>3, <3>4 DEF Lists
    <3>6. buffer_add(b, k, f, p) = [b EXCEPT ![k] = [b[k] EXCEPT ![p] = w]]
      BY DEF buffer_add, add_into_buffer_node, w
    <3>7. buffer_add(b, k, f, p) \in [Node -> Lists]
      BY <3>3, <3>5, <3>6
    <3>8. facts_to_send' \in [Thread -> [Node -> Lists]]
      BY <3>1, <3>7 DEF Types
    <3> QED
      BY <1>2, <1>3, <3>1, <3>8 DEF Types, Known
  <2>3. CASE Slow(p) /\ k # n
    <3>1. /\ k \in AllNode /\ UNCHANGED <<linear, run, pers_store, facts_to_send, fresh, incoming>>
          /\ unprocessed_facts' = [unprocessed_facts EXCEPT ![k] = TRUE]
          /\ incoming_persistent' = [incoming_persistent EXCEPT ![k] = Append(@, f)]
      BY <1>9, <2>1, <2>3 DEF DeriveForNode, Send, AllNode
    <3>2. unprocessed_facts' \in [AllNode -> BOOLEAN] /\ incoming' \in [AllNode -> Lists]
      BY <3>1 DEF Types
    <3> QED
      BY <1>7, <3>1, <3>2
  <2>4. CASE Slow(p) /\ k = n
    <3> DEFINE r == [run[t] EXCEPT !.pc = "locked out"]
    <3>1. /\ run' = [run EXCEPT ![t] = r]
          /\ UNCHANGED <<linear, pers_store, facts_to_send, fresh, incoming, incoming_persistent,
                         unprocessed_facts>>
      BY <1>9, <2>1, <2>4 DEF DeriveForNode, Send, Types
    <3>2. r \in Runs /\ r.node_persistent = run[t].node_persistent
          /\ r.thread_persistent = run[t].thread_persistent
      BY RunFields DEF Runs, PC
    <3> HIDE DEF r
    <3>3. /\ run' \in [Thread -> Runs] /\ run'[t] = r
          /\ \A u \in Thread : u # t => run'[u] = run[u]
      BY <3>1, <3>2, RunStep
    <3>4. Types'
      BY <1>2, <1>3, <3>1, <3>3 DEF Types
    <3> QED
      BY <1>3, <3>1, <3>2, <3>3, <3>4 DEF Known
  <2> QED
    BY <2>2, <2>3, <2>4
<1> QED
  BY <1>1, <1>4, <1>5, <1>6, <1>8, <1>9 DEF Derived

\* The end of a matched rule chooses what is consumed and updated among the facts used.
LEMMA UnwindIs ==
  ASSUME NEW t \in Thread, Unwind(t)
  PROVE  /\ run[t].pc = "fire"
         /\ UNCHANGED <<owner, pers_store, incoming, incoming_persistent, unprocessed_facts,
                        facts_to_send, moves>>
         /\ \E consumed, updated, stay, silent :
              /\ consumed \cup updated \subseteq {f \in run[t].used : info[f].pred \in LinearPred}
              /\ consumed \cap updated = {} /\ stay \subseteq updated
              /\ GiveUp(t, consumed, updated, stay, silent)
<1> DEFINE used == {f \in run[t].used : info[f].pred \in LinearPred}
<1>1. /\ run[t].pc = "fire"
      /\ UNCHANGED <<owner, pers_store, incoming, incoming_persistent, unprocessed_facts,
                     facts_to_send, moves>>
      /\ \E consumed \in SUBSET used : \E updated \in SUBSET (used \ consumed) :
         \E stay \in SUBSET updated : \E silent \in SUBSET consumed :
           GiveUp(t, consumed, updated, stay, silent)
  BY Zenon DEF Unwind
<1> HIDE DEF used
<1>2. ASSUME NEW consumed \in SUBSET used, NEW updated \in SUBSET (used \ consumed)
      PROVE  consumed \cup updated \subseteq used /\ consumed \cap updated = {}
  OBVIOUS
<1> QED
  BY <1>1, <1>2 DEF used

\* The facts put on the generated list.
LEMMA RegeneratedIs ==
  ASSUME NEW g \in Lists, NEW moved \in SUBSET Nat, IsFiniteSet(moved)
  PROVE  LET w == [p \in LinearPred |-> g[p] \o SetToSeq({f \in moved : info[f].pred = p})]
         IN  /\ w \in Lists
             /\ \A p \in LinearPred :
                  /\ ToSet(w[p]) = ToSet(g[p]) \cup {f \in moved : info[f].pred = p}
                  /\ Once(g[p]) /\ ToSet(g[p]) \cap moved = {} => Once(w[p])
<1> DEFINE w == [p \in LinearPred |-> g[p] \o SetToSeq({f \in moved : info[f].pred = p})]
<1>1. ASSUME NEW p \in LinearPred
      PROVE  /\ w[p] \in Seq(Nat)
             /\ ToSet(w[p]) = ToSet(g[p]) \cup {f \in moved : info[f].pred = p}
             /\ Once(g[p]) /\ ToSet(g[p]) \cap moved = {} => Once(w[p])
  <2> DEFINE M == {f \in moved : info[f].pred = p}
             a == g[p]
             b == SetToSeq(M)
  <2>1. w[p] = a \o b /\ a \in Seq(Nat)
    BY DEF Lists
  <2>2. IsFiniteSet(M) /\ M \subseteq moved
    BY FS_Subset
  <2> HIDE DEF M
  <2>3. b \in Seq(M) /\ Once(b) /\ ToSet(b) = M
    BY <2>2, SetToSeqIs
  <2> HIDE DEF b, a
  <2>4. b \in Seq(Nat)
    BY <2>2, <2>3, SeqMonotonic
  <2>5. /\ a \o b \in Seq(Nat) /\ ToSet(a \o b) = ToSet(a) \cup ToSet(b)
        /\ Once(a) /\ Once(b) /\ ToSet(a) \cap ToSet(b) = {} => Once(a \o b)
    BY <2>1, <2>4, SeqConcat
  <2>6. ToSet(a) \cap moved = {} => ToSet(a) \cap ToSet(b) = {}
    BY <2>2, <2>3
  <2> HIDE DEF w
  <2> QED
    BY <2>1, <2>3, <2>5, <2>6 DEF a, M
<1>2. w \in Lists
  <2>1. \A p \in LinearPred : g[p] \o SetToSeq({f \in moved : info[f].pred = p}) \in Seq(Nat)
    BY <1>1
  <2> QED
    BY <2>1 DEF Lists
<1> HIDE DEF w
<1> QED
  BY <1>1, <1>2 DEF w

\* What GiveUp does to the lists, the facts and the run.
LEMMA GiveUpIs ==
  ASSUME Types, NEW t \in Thread, NEW consumed, NEW updated, NEW stay, NEW silent,
         consumed \cup updated \subseteq run[t].used, GiveUp(t, consumed, updated, stay, silent)
  PROVE  LET gone == consumed \cup (updated \ stay)
             r == run'[t]
         IN  /\ linear' \in [AllNode -> Lists]
             /\ \A n \in AllNode : \A p \in LinearPred :
                  /\ ToSet(linear'[n][p]) = ToSet(linear[n][p]) \ gone
                  /\ Once(linear[n][p]) => Once(linear'[n][p])
                  /\ linear'[n][p] # <<>> => linear[n][p] # <<>>
             /\ info' \in Seq([pred : Pred, from : AllNode]) /\ DOMAIN info' = DOMAIN info
             /\ \A f \in DOMAIN info : info'[f].pred = info[f].pred
             /\ run' = [run EXCEPT ![t] = r]
             /\ r \in Runs /\ r.pc = "match" /\ r.node = run[t].node /\ r.used = {}
             /\ r.leave = run[t].leave
             /\ r.node_persistent = run[t].node_persistent
             /\ r.thread_persistent = run[t].thread_persistent
             /\ \A p \in LinearPred :
                  /\ ToSet(r.generated[p]) =
                       ToSet(run[t].generated[p]) \cup {f \in updated \ stay : info[f].pred = p}
                  /\ Once(run[t].generated[p]) /\ ToSet(run[t].generated[p]) \cap (updated \ stay) = {}
                       => Once(r.generated[p])
<1> DEFINE n == run[t].node
           gone == consumed \cup (updated \ stay)
           g == [p \in LinearPred |->
                   run[t].generated[p] \o SetToSeq({f \in updated \ stay : info[f].pred = p})]
           r == [run[t] EXCEPT !.pc = "match", !.used = {}, !.generated = g]
<1>1. /\ linear' = [h \in AllNode |->
                      [p \in LinearPred |-> Only(linear[h][p], ToSet(linear[h][p]) \ gone)]]
      /\ info' = [f \in DOMAIN info |-> IF f \in updated THEN [info[f] EXCEPT !.from = n] ELSE info[f]]
      /\ run' = [run EXCEPT ![t].pc = "match", ![t].used = {}, ![t].generated = g]
  BY Zenon DEF GiveUp
<1>2. run' = [run EXCEPT ![t] = r] /\ run[t] \in Runs /\ run[t].generated \in Lists /\ n \in AllNode
  BY <1>1, RunFields DEF Types
<1>3. ASSUME NEW h \in AllNode
      PROVE  /\ linear'[h] \in Lists
             /\ \A p \in LinearPred :
                  /\ ToSet(linear'[h][p]) = ToSet(linear[h][p]) \ gone
                  /\ Once(linear[h][p]) => Once(linear'[h][p])
                  /\ linear'[h][p] # <<>> => linear[h][p] # <<>>
  <2> DEFINE d == linear[h]
             w == [p \in LinearPred |-> Only(d[p], ToSet(d[p]) \ gone)]
  <2>1. linear'[h] = w /\ d \in Lists
    BY <1>1 DEF Types
  <2> HIDE DEF d, gone
  <2>2. /\ w \in Lists
        /\ \A p \in LinearPred : /\ ToSet(w[p]) = ToSet(d[p]) \ gone
                                 /\ Once(d[p]) => Once(w[p])
                                 /\ w[p] # <<>> => d[p] # <<>>
    BY <2>1, OnlyLists
  <2> HIDE DEF w
  <2> QED
    BY <2>1, <2>2 DEF d
<1>4. linear' \in [AllNode -> Lists]
  <2>1. linear' = [h \in AllNode |-> linear'[h]]
    BY <1>1
  <2> QED
    BY <1>3, <2>1
<1>5. updated \ stay \in SUBSET Nat /\ IsFiniteSet(updated \ stay)
  <2>1. updated \ stay \subseteq run[t].used /\ run[t].used \subseteq Nat
    BY RunFields
  <2> QED
    BY <2>1, FS_Subset, RunFields
<1>6. /\ g \in Lists
      /\ \A p \in LinearPred :
           /\ ToSet(g[p]) = ToSet(run[t].generated[p]) \cup {f \in updated \ stay : info[f].pred = p}
           /\ Once(run[t].generated[p]) /\ ToSet(run[t].generated[p]) \cap (updated \ stay) = {}
                => Once(g[p])
  <2> DEFINE a == run[t].generated
             b == updated \ stay
             w == [p \in LinearPred |-> a[p] \o SetToSeq({f \in b : info[f].pred = p})]
  <2>1. a \in Lists /\ b \in SUBSET Nat /\ IsFiniteSet(b)
    BY <1>2, <1>5
  <2> HIDE DEF a, b
  <2>2. /\ w \in Lists
        /\ \A p \in LinearPred :
             /\ ToSet(w[p]) = ToSet(a[p]) \cup {f \in b : info[f].pred = p}
             /\ Once(a[p]) /\ ToSet(a[p]) \cap b = {} => Once(w[p])
    BY <2>1, RegeneratedIs
  <2>3. g = w
    BY DEF a, b
  <2> HIDE DEF g, w
  <2> QED
    BY <2>2, <2>3 DEF a, b
<1> HIDE DEF g
<1>7. /\ r \in Runs /\ r.pc = "match" /\ r.node = run[t].node /\ r.used = {}
      /\ r.leave = run[t].leave /\ r.generated = g
      /\ r.node_persistent = run[t].node_persistent
      /\ r.thread_persistent = run[t].thread_persistent
  BY <1>2, <1>6 DEF Runs, PC
<1> HIDE DEF r
<1>8. run'[t] = r
  BY <1>2 DEF Types
<1>9. /\ info' \in Seq([pred : Pred, from : AllNode]) /\ DOMAIN info' = DOMAIN info
      /\ \A f \in DOMAIN info : info'[f].pred = info[f].pred
  <2> DEFINE R == [pred : Pred, from : AllNode]
  <2>1. Len(info) \in Nat /\ DOMAIN info = 1..Len(info) /\ info \in [1..Len(info) -> R]
    BY LenProperties DEF Types
  <2>2. ASSUME NEW f \in DOMAIN info PROVE info'[f] \in R /\ info'[f].pred = info[f].pred
    BY <1>1, <1>2, <2>1
  <2>3. info' = [f \in 1..Len(info) |-> info'[f]]
    BY <1>1, <2>1
  <2> HIDE DEF R
  <2>4. info' \in [1..Len(info) -> R]
    BY <2>1, <2>2, <2>3
  <2>5. info' \in Seq(R)
    BY <2>1, <2>4, SeqDef
  <2> QED
    BY <2>1, <2>2, <2>4, <2>5 DEF R
<1> HIDE DEF gone
<1> QED
  BY <1>2, <1>3, <1>4, <1>6, <1>7, <1>8, <1>9 DEF gone

\* The end of a matched rule keeps the types.
LEMMA UnwindTypes ==
  ASSUME Types, Known, NEW t \in Thread, Unwind(t)
  PROVE  Types' /\ Known'
<1>1. PICK consumed, updated, stay, silent :
        consumed \cup updated \subseteq run[t].used /\ GiveUp(t, consumed, updated, stay, silent)
  <2>1. {f \in run[t].used : info[f].pred \in LinearPred} \subseteq run[t].used
    OBVIOUS
  <2> QED
    BY <2>1, UnwindIs
<1>2. UNCHANGED <<owner, pers_store, incoming, incoming_persistent, unprocessed_facts, facts_to_send>>
  BY UnwindIs
<1>3. /\ linear' \in [AllNode -> Lists]
      /\ info' \in Seq([pred : Pred, from : AllNode]) /\ DOMAIN info' = DOMAIN info
      /\ run' = [run EXCEPT ![t] = run'[t]] /\ run'[t] \in Runs
      /\ run'[t].node_persistent = run[t].node_persistent
      /\ run'[t].thread_persistent = run[t].thread_persistent
  BY <1>1, GiveUpIs
<1>4. run' \in [Thread -> Runs] /\ \A u \in Thread : u # t => run'[u] = run[u]
  BY <1>3, RunStep
<1>5. fresh' \in [AllNode -> SUBSET Rule]
  <2> DEFINE n == run[t].node
             U == UNION {linear_rules(p) : p \in {info[f].pred : f \in updated}}
  <2>1. fresh' = [fresh EXCEPT ![n] = @ \cup U]
    BY <1>1, Zenon DEF GiveUp
  <2>2. U \in SUBSET Rule
    BY DEF linear_rules
  <2> HIDE DEF U
  <2> QED
    BY <2>1, <2>2 DEF Types
<1>6. Types'
  BY <1>2, <1>3, <1>4, <1>5 DEF Types
<1> QED
  BY <1>2, <1>3, <1>4, <1>6 DEF Known

\* w holds the facts of db and of a, and those of b.
Joined(w, db, a) ==
  /\ w \in Lists
  /\ \A p \in LinearPred :
       /\ w[p] = <<>> <=> db[p] = <<>> /\ a[p] = <<>>
       /\ ToSet(w[p]) = ToSet(db[p]) \cup ToSet(a[p])
       /\ Once(db[p]) /\ Once(a[p]) /\ ToSet(db[p]) \cap ToSet(a[p]) = {} => Once(w[p])

Joined3(w, db, a, b) ==
  /\ w \in Lists
  /\ \A p \in LinearPred :
       /\ w[p] = <<>> <=> db[p] = <<>> /\ a[p] = <<>> /\ b[p] = <<>>
       /\ ToSet(w[p]) = ToSet(db[p]) \cup ToSet(a[p]) \cup ToSet(b[p])
       /\ ( /\ Once(db[p]) /\ Once(a[p]) /\ Once(b[p])
            /\ ToSet(db[p]) \cap ToSet(a[p]) = {}
            /\ ToSet(db[p]) \cap ToSet(b[p]) = {}
            /\ ToSet(a[p]) \cap ToSet(b[p]) = {}
          ) => Once(w[p])

\* increment_database joins two stores.
LEMMA IncrementOnce ==
  ASSUME NEW db \in Lists, NEW a \in Lists
  PROVE  Joined(increment_database(db, a), db, a)
  BY IncrementIs DEF Joined

\* Two calls of increment_database join three stores.
LEMMA IncrementTwice ==
  ASSUME NEW db \in Lists, NEW a \in Lists, NEW b \in Lists
  PROVE  Joined3(increment_database(increment_database(db, a), b), db, a, b)
<1> DEFINE v == increment_database(db, a)
           w == increment_database(v, b)
<1>1. Joined(v, db, a)
  BY IncrementOnce
<1>2. v \in Lists
  BY <1>1 DEF Joined
<1> HIDE DEF v
<1>3. Joined(w, v, b)
  BY <1>2, IncrementOnce
<1> HIDE DEF w
<1>4. ASSUME NEW p \in LinearPred
      PROVE  /\ w[p] = <<>> <=> db[p] = <<>> /\ a[p] = <<>> /\ b[p] = <<>>
             /\ ToSet(w[p]) = ToSet(db[p]) \cup ToSet(a[p]) \cup ToSet(b[p])
             /\ ( /\ Once(db[p]) /\ Once(a[p]) /\ Once(b[p])
                  /\ ToSet(db[p]) \cap ToSet(a[p]) = {}
                  /\ ToSet(db[p]) \cap ToSet(b[p]) = {}
                  /\ ToSet(a[p]) \cap ToSet(b[p]) = {}
                ) => Once(w[p])
  <2>1. /\ v[p] = <<>> <=> db[p] = <<>> /\ a[p] = <<>>
        /\ ToSet(v[p]) = ToSet(db[p]) \cup ToSet(a[p])
        /\ Once(db[p]) /\ Once(a[p]) /\ ToSet(db[p]) \cap ToSet(a[p]) = {} => Once(v[p])
    BY <1>1 DEF Joined
  <2>2. /\ w[p] = <<>> <=> v[p] = <<>> /\ b[p] = <<>>
        /\ ToSet(w[p]) = ToSet(v[p]) \cup ToSet(b[p])
        /\ Once(v[p]) /\ Once(b[p]) /\ ToSet(v[p]) \cap ToSet(b[p]) = {} => Once(w[p])
    BY <1>3 DEF Joined
  <2>3. /\ ToSet(db[p]) \cap ToSet(b[p]) = {} /\ ToSet(a[p]) \cap ToSet(b[p]) = {}
          => ToSet(v[p]) \cap ToSet(b[p]) = {}
    BY <2>1
  <2>4. ToSet(w[p]) = ToSet(db[p]) \cup ToSet(a[p]) \cup ToSet(b[p])
    BY <2>1, <2>2, Zenon
  <2>5. w[p] = <<>> <=> db[p] = <<>> /\ a[p] = <<>> /\ b[p] = <<>>
    BY <2>1, <2>2
  <2>6. ASSUME Once(db[p]), Once(a[p]), Once(b[p]), ToSet(db[p]) \cap ToSet(a[p]) = {},
               ToSet(db[p]) \cap ToSet(b[p]) = {}, ToSet(a[p]) \cap ToSet(b[p]) = {}
        PROVE  Once(w[p])
    BY <2>1, <2>2, <2>3, <2>6
  <2> QED
    BY <2>4, <2>5, <2>6
<1>5. w \in Lists
  BY <1>3 DEF Joined
<1>6. Joined3(w, db, a, b)
  BY <1>4, <1>5 DEF Joined3
<1> QED
  BY <1>6 DEF v, w

\* The facts that the end of a rule brings to the list of p in node k.
Brought(t, k, p) ==
  LET n == run[t].node
      h == thread_node[t]
  IN  (IF k = Home(t, n, p) THEN ToSet(run[t].generated[p]) ELSE {})
      \cup (IF k = n THEN ToSet(Reused(run[t].node_persistent)[p]) ELSE {})
      \cup (IF k = h /\ n # h THEN ToSet(Reused(run[t].thread_persistent)[p]) ELSE {})

\* The lists a run holds do not share facts.
Apart(t, k, p) ==
  LET r == run[t]
      A == ToSet(linear[k][p])
      B == ToSet(r.generated[p])
      C == ToSet(r.node_persistent)
      D == ToSet(r.thread_persistent)
  IN  /\ Once(linear[k][p]) /\ Once(r.generated[p]) /\ Once(r.node_persistent)
      /\ Once(r.thread_persistent)
      /\ A \cap B = {} /\ A \cap C = {} /\ A \cap D = {}
      /\ B \cap C = {} /\ B \cap D = {} /\ C \cap D = {}

\* The databases after a rule.
LEMMA EndRuleLinear ==
  ASSUME Types, NEW t \in Thread, EndRule(t)
  PROVE  /\ linear' \in [AllNode -> Lists]
         /\ \A k \in AllNode : \A p \in LinearPred :
              /\ ToSet(linear'[k][p]) = ToSet(linear[k][p]) \cup Brought(t, k, p)
              /\ Apart(t, k, p) => Once(linear'[k][p])
<1> DEFINE n == run[t].node
           h == thread_node[t]
           lists == run[t].generated
           thread == IF n = h THEN <<>> ELSE run[t].thread_persistent
           ForNode(k) == [p \in LinearPred |-> IF k = Home(t, n, p) THEN lists[p] ELSE <<>>]
           R == Reused(run[t].node_persistent)
           Q == Reused(thread)
           d0 == [linear EXCEPT ![n] = increment_database(@, ForNode(n)),
                                ![h] = IF h = n THEN @ ELSE increment_database(@, ForNode(h))]
           d1 == [d0 EXCEPT ![n] = increment_database(@, R)]
<1>1. linear' = [d1 EXCEPT ![h] = increment_database(@, Q)]
  BY DEF EndRule
<1>2. /\ n \in AllNode /\ h \in AllNode /\ lists \in Lists /\ linear \in [AllNode -> Lists]
      /\ run[t].node_persistent \in Seq(Nat) /\ run[t].thread_persistent \in Seq(Nat)
      /\ thread \in Seq(Nat)
  BY RunFields, ThreadNodes DEF Types
<1>3. ASSUME NEW k \in {n, h}
      PROVE  /\ ForNode(k) \in Lists
             /\ \A p \in LinearPred :
                  /\ ToSet(ForNode(k)[p]) = IF k = Home(t, n, p) THEN ToSet(lists[p]) ELSE {}
                  /\ Once(lists[p]) => Once(ForNode(k)[p])
  <2>1. ToSet(<<>>) = {} /\ Once(<<>>)
    BY DEF ToSet, Once
  <2>2. ForNode(k) \in Lists
    BY <1>2 DEF Lists
  <2> QED
    BY <2>1, <2>2
<1>4. /\ R \in Lists /\ Q \in Lists
      /\ \A p \in LinearPred :
           /\ ToSet(R[p]) \subseteq ToSet(run[t].node_persistent)
           /\ Once(run[t].node_persistent) => Once(R[p])
           /\ ToSet(Q[p]) \subseteq ToSet(thread)
           /\ Once(thread) => Once(Q[p])
  <2>1. ASSUME NEW list \in Seq(Nat)
        PROVE  /\ Reused(list) \in Lists
               /\ \A p \in LinearPred : /\ ToSet(Reused(list)[p]) \subseteq ToSet(list)
                                        /\ Once(list) => Once(Reused(list)[p])
    <3>1. /\ Reused(list) \in Lists
          /\ \A p \in LinearPred :
               /\ ToSet(Reused(list)[p]) = {f \in ToSet(list) : info[f].pred = p}
               /\ Once(list) => Once(Reused(list)[p])
      BY ReusedIs
    <3> QED
      BY <3>1
  <2> HIDE DEF thread
  <2> QED
    BY <1>2, <2>1
<1>5. n = h => thread = <<>> /\ \A p \in LinearPred : ToSet(Q[p]) = {}
  <2>1. ToSet(<<>>) = {}
    BY DEF ToSet
  <2> HIDE DEF Q
  <2> QED
    BY <1>4, <2>1
<1>6. n # h => /\ thread = run[t].thread_persistent /\ Q = Reused(run[t].thread_persistent)
  OBVIOUS
<1> HIDE DEF ForNode, R, Q, thread
<1>7. ASSUME NEW k \in AllNode
      PROVE  /\ linear'[k] \in Lists
             /\ \A p \in LinearPred :
                  /\ ToSet(linear'[k][p]) = ToSet(linear[k][p]) \cup Brought(t, k, p)
                  /\ Apart(t, k, p) => Once(linear'[k][p])
  <2>1. CASE k # n /\ k # h
    <3>1. linear'[k] = linear[k]
      BY <1>1, <1>2, <2>1
    <3>2. \A p \in LinearPred : Brought(t, k, p) = {}
      BY <2>1 DEF Brought, Home
    <3> QED
      BY <1>2, <3>1, <3>2 DEF Apart
  <2>2. CASE k = n /\ n # h
    <3>1. linear'[k] = increment_database(increment_database(linear[n], ForNode(n)), R)
      BY <1>1, <1>2, <2>2
    <3>2. /\ linear'[k] \in Lists
          /\ \A p \in LinearPred :
              /\ ToSet(linear'[k][p]) = ToSet(linear[k][p]) \cup ToSet(ForNode(n)[p]) \cup ToSet(R[p])
              /\ ( /\ Once(linear[k][p]) /\ Once(ForNode(n)[p]) /\ Once(R[p])
                   /\ ToSet(linear[k][p]) \cap ToSet(ForNode(n)[p]) = {}
                   /\ ToSet(linear[k][p]) \cap ToSet(R[p]) = {}
                   /\ ToSet(ForNode(n)[p]) \cap ToSet(R[p]) = {}
                 ) => Once(linear'[k][p])
      <4>1. Joined3(linear'[k], linear[n], ForNode(n), R)
        <5>1. linear[n] \in Lists /\ ForNode(n) \in Lists
          BY <1>2, <1>3
        <5> QED
          BY <1>4, <3>1, <5>1, IncrementTwice
      <4> HIDE DEF lists
      <4> QED
        BY <2>2, <4>1 DEF Joined3
    <3>3. ASSUME NEW p \in LinearPred
          PROVE  Brought(t, k, p) = ToSet(ForNode(n)[p]) \cup ToSet(R[p])
      BY <1>3, <2>2 DEF Brought, R
    <3>4. ASSUME NEW p \in LinearPred, Apart(t, k, p) PROVE Once(linear'[k][p])
      BY <1>3, <1>4, <3>2, <3>4 DEF Apart
    <3> QED
      BY <3>2, <3>3, <3>4
  <2>3. CASE k = h /\ n # h
    <3>1. linear'[k] = increment_database(increment_database(linear[h], ForNode(h)), Q)
      BY <1>1, <1>2, <2>3
    <3>2. /\ linear'[k] \in Lists
          /\ \A p \in LinearPred :
              /\ ToSet(linear'[k][p]) = ToSet(linear[k][p]) \cup ToSet(ForNode(h)[p]) \cup ToSet(Q[p])
              /\ ( /\ Once(linear[k][p]) /\ Once(ForNode(h)[p]) /\ Once(Q[p])
                   /\ ToSet(linear[k][p]) \cap ToSet(ForNode(h)[p]) = {}
                   /\ ToSet(linear[k][p]) \cap ToSet(Q[p]) = {}
                   /\ ToSet(ForNode(h)[p]) \cap ToSet(Q[p]) = {}
                 ) => Once(linear'[k][p])
      <4>1. Joined3(linear'[k], linear[h], ForNode(h), Q)
        <5>1. linear[h] \in Lists /\ ForNode(h) \in Lists
          BY <1>2, <1>3
        <5> QED
          BY <1>4, <3>1, <5>1, IncrementTwice
      <4> HIDE DEF lists
      <4> QED
        BY <2>3, <4>1 DEF Joined3
    <3>3. ASSUME NEW p \in LinearPred
          PROVE  Brought(t, k, p) = ToSet(ForNode(h)[p]) \cup ToSet(Q[p])
      BY <1>3, <1>6, <2>3 DEF Brought
    <3>4. ASSUME NEW p \in LinearPred, Apart(t, k, p) PROVE Once(linear'[k][p])
      BY <1>3, <1>4, <1>6, <2>3, <3>2, <3>4 DEF Apart
    <3> QED
      BY <3>2, <3>3, <3>4
  <2>4. CASE k = n /\ n = h
    <3> DEFINE v == increment_database(increment_database(linear[n], ForNode(n)), R)
    <3>1. linear'[k] = increment_database(v, Q)
      BY <1>1, <1>2, <2>4
    <3>2. /\ v \in Lists
          /\ \A p \in LinearPred :
              /\ ToSet(v[p]) = ToSet(linear[k][p]) \cup ToSet(ForNode(n)[p]) \cup ToSet(R[p])
              /\ ( /\ Once(linear[k][p]) /\ Once(ForNode(n)[p]) /\ Once(R[p])
                   /\ ToSet(linear[k][p]) \cap ToSet(ForNode(n)[p]) = {}
                   /\ ToSet(linear[k][p]) \cap ToSet(R[p]) = {}
                   /\ ToSet(ForNode(n)[p]) \cap ToSet(R[p]) = {}
                 ) => Once(v[p])
      <4>1. Joined3(v, linear[n], ForNode(n), R)
        <5>1. linear[n] \in Lists /\ ForNode(n) \in Lists
          BY <1>2, <1>3
        <5> QED
          BY <1>4, <5>1, IncrementTwice
      <4> HIDE DEF v
      <4> QED
        BY <2>4, <4>1 DEF Joined3
    <3> HIDE DEF v
    <3>3. /\ linear'[k] \in Lists
          /\ \A p \in LinearPred :
               /\ ToSet(linear'[k][p]) = ToSet(v[p]) \cup ToSet(Q[p])
               /\ Once(v[p]) /\ Once(Q[p]) /\ ToSet(v[p]) \cap ToSet(Q[p]) = {} => Once(linear'[k][p])
      <4>1. Joined(linear'[k], v, Q)
        BY <1>4, <3>1, <3>2, IncrementOnce
      <4> QED
        BY <4>1 DEF Joined
    <3>4. ASSUME NEW p \in LinearPred
          PROVE  Brought(t, k, p) = ToSet(ForNode(n)[p]) \cup ToSet(R[p])
      BY <1>3, <2>4 DEF Brought, R
    <3>5. Once(<<>>)
      BY DEF Once
    <3>6. ASSUME NEW p \in LinearPred, Apart(t, k, p) PROVE Once(linear'[k][p])
      <4>1. Once(ForNode(n)[p]) /\ Once(R[p]) /\ Once(Q[p]) /\ Once(linear[k][p])
        BY <1>3, <1>4, <1>5, <2>4, <3>5, <3>6 DEF Apart
      <4>2. /\ ToSet(linear[k][p]) \cap ToSet(ForNode(n)[p]) = {}
            /\ ToSet(linear[k][p]) \cap ToSet(R[p]) = {}
            /\ ToSet(ForNode(n)[p]) \cap ToSet(R[p]) = {}
        BY <1>3, <1>4, <2>4, <3>6 DEF Apart
      <4>3. ToSet(v[p]) \cap ToSet(Q[p]) = {}
        BY <1>3, <1>5, <2>4, <3>2, <3>6 DEF Apart
      <4>4. Once(v[p])
        BY <3>2, <4>1, <4>2
      <4> QED
        BY <3>3, <4>1, <4>3, <4>4
    <3> QED
      BY <1>5, <2>4, <3>2, <3>3, <3>4, <3>6
  <2> QED
    BY <2>1, <2>2, <2>3, <2>4
<1>8. linear' = [k \in AllNode |-> linear'[k]]
  BY <1>1, <1>2
<1>9. linear' \in [AllNode -> Lists]
  BY <1>7, <1>8
<1> QED
  BY <1>7, <1>9

\* What the end of a rule leaves of the run.
LEMMA EndRuleRun ==
  ASSUME Types, NEW t \in Thread, EndRule(t)
  PROVE  LET n == run[t].node
             r == run'[t]
         IN  /\ run[t].pc = "match"
             /\ run' = [run EXCEPT ![t] = r] /\ r \in Runs /\ r.node = n
             /\ r.pc \in {"rules", "end"} /\ r.used = {} /\ r.generated = NoFacts
             /\ r.node_persistent = <<>>
             /\ r.thread_persistent = IF n = thread_node[t] THEN run[t].thread_persistent ELSE <<>>
             /\ r.leave = (r.pc = "end") /\ (r.leave => n \in Node)
             /\ unprocessed_facts' = [unprocessed_facts EXCEPT ![n] = @ \/ r.leave]
             /\ fresh' = [fresh EXCEPT ![n] = @ \cup Concerned(run[t].generated)
                     \cup ConcernedBy(run[t].node_persistent \o
                                      (IF n = thread_node[t] THEN <<>> ELSE run[t].thread_persistent))]
             /\ UNCHANGED <<info, owner, pers_store, incoming, incoming_persistent, facts_to_send>>
<1> DEFINE n == run[t].node
           h == thread_node[t]
<1>1. PICK leave \in {FALSE} \cup (IF n \in Node /\ moves < MaxMoves THEN {TRUE} ELSE {}) :
        /\ run' = [run EXCEPT ![t] = [Idle EXCEPT !.node = n, !.leave = leave,
                     !.pc = IF leave THEN "end" ELSE "rules",
                     !.thread_persistent = IF n = h THEN run[t].thread_persistent ELSE <<>>]]
        /\ unprocessed_facts' = [unprocessed_facts EXCEPT ![n] = @ \/ leave]
  BY Zenon DEF EndRule
<1>2. /\ run[t].pc = "match"
      /\ UNCHANGED <<info, owner, pers_store, incoming, incoming_persistent, facts_to_send>>
      /\ fresh' = [fresh EXCEPT ![n] = @ \cup Concerned(run[t].generated)
                     \cup ConcernedBy(run[t].node_persistent \o
                                      (IF n = thread_node[t] THEN <<>> ELSE run[t].thread_persistent))]
  BY Zenon DEF EndRule
<1> DEFINE r == [Idle EXCEPT !.node = n, !.leave = leave, !.pc = IF leave THEN "end" ELSE "rules",
                   !.thread_persistent = IF n = h THEN run[t].thread_persistent ELSE <<>>]
<1>3. leave \in BOOLEAN /\ (leave => n \in Node)
  BY <1>1
<1>4. n \in AllNode /\ run[t].thread_persistent \in Seq(Nat)
  BY RunFields
<1>5. /\ r \in Runs /\ r.node = n
      /\ r.pc \in {"rules", "end"} /\ r.used = {} /\ r.generated = NoFacts
      /\ r.node_persistent = <<>>
      /\ r.thread_persistent = IF n = h THEN run[t].thread_persistent ELSE <<>>
      /\ r.leave = leave /\ (r.pc = "end" <=> leave)
  BY <1>3, <1>4, IdleType DEF Runs, PC
<1> HIDE DEF r
<1>6. run'[t] = r /\ run' = [run EXCEPT ![t] = r]
  BY <1>1 DEF Types, r
<1> QED
  BY <1>1, <1>2, <1>3, <1>5, <1>6

\* The end of a rule keeps the types.
LEMMA EndRuleTypes ==
  ASSUME Types, Known, NEW t \in Thread, EndRule(t)
  PROVE  Types' /\ Known'
<1> DEFINE n == run[t].node
           c == Concerned(run[t].generated)
                  \cup ConcernedBy(run[t].node_persistent \o
                                   (IF n = thread_node[t] THEN <<>> ELSE run[t].thread_persistent))
<1>1. /\ run' = [run EXCEPT ![t] = run'[t]] /\ run'[t] \in Runs
      /\ run'[t].leave \in BOOLEAN
      /\ run'[t].node_persistent = <<>>
      /\ run'[t].thread_persistent = IF n = thread_node[t] THEN run[t].thread_persistent ELSE <<>>
      /\ unprocessed_facts' = [unprocessed_facts EXCEPT ![n] = @ \/ run'[t].leave]
      /\ UNCHANGED <<info, owner, pers_store, incoming, incoming_persistent, facts_to_send>>
  BY EndRuleRun DEF Runs
<1>2. fresh' = [fresh EXCEPT ![n] = @ \cup c]
  <2>1. \A a, b, d : (a \cup b) \cup d = a \cup (b \cup d)
    OBVIOUS
  <2> QED
    BY <2>1, EndRuleRun
<1>3. c \in SUBSET Rule
  BY ConcernedType
<1> HIDE DEF c
<1>4. run' \in [Thread -> Runs] /\ \A u \in Thread : u # t => run'[u] = run[u]
  BY <1>1, RunStep
<1>5. /\ fresh' \in [AllNode -> SUBSET Rule] /\ unprocessed_facts' \in [AllNode -> BOOLEAN]
  BY <1>1, <1>2, <1>3 DEF Types
<1>6. linear' \in [AllNode -> Lists]
  BY EndRuleLinear
<1>7. Types'
  BY <1>1, <1>4, <1>5, <1>6 DEF Types
<1>8. ToSet(<<>>) = {}
  BY DEF ToSet
<1>9. ASSUME NEW u \in Thread
      PROVE ToSet(run'[u].node_persistent) \cup ToSet(run'[u].thread_persistent) \subseteq DOMAIN info
  BY <1>1, <1>4, <1>8 DEF Known
<1> QED
  BY <1>1, <1>7, <1>9 DEF Known

\* What the end of a run changes in the run.
LEMMA EndRunIs ==
  ASSUME Types, NEW t \in Thread, EndRun(t)
  PROVE  LET r == run'[t]
         IN  /\ run' = [run EXCEPT ![t] = r] /\ r \in Runs /\ r.pc = "sync"
             /\ r.node = run[t].node /\ r.leave = run[t].leave /\ r.used = run[t].used
             /\ r.generated = run[t].generated
             /\ r.node_persistent = run[t].node_persistent
             /\ r.thread_persistent = run[t].thread_persistent
             /\ UNCHANGED <<info, owner, linear, pers_store, incoming, incoming_persistent,
                            unprocessed_facts, facts_to_send, fresh>>
<1> DEFINE r == [run[t] EXCEPT !.pc = "sync"]
<1>1. run' = [run EXCEPT ![t].pc = "sync"]
      /\ UNCHANGED <<info, owner, linear, pers_store, incoming, incoming_persistent,
                     unprocessed_facts, facts_to_send, fresh>>
  BY DEF EndRun
<1>2. run' = [run EXCEPT ![t] = r] /\ run'[t] = r
  BY <1>1 DEF Types
<1>3. /\ r \in Runs /\ r.pc = "sync"
      /\ r.node = run[t].node /\ r.leave = run[t].leave /\ r.used = run[t].used
      /\ r.generated = run[t].generated
      /\ r.node_persistent = run[t].node_persistent
      /\ r.thread_persistent = run[t].thread_persistent
  BY RunFields DEF Runs, PC
<1> HIDE DEF r
<1> QED
  BY <1>1, <1>2, <1>3

\* The end of the rules of a run keeps the types.
LEMMA EndRunTypes ==
  ASSUME Types, Known, NEW t \in Thread, EndRun(t)
  PROVE  Types' /\ Known'
<1>1. /\ run' = [run EXCEPT ![t] = run'[t]] /\ run'[t] \in Runs
      /\ run'[t].node_persistent = run[t].node_persistent
      /\ run'[t].thread_persistent = run[t].thread_persistent
      /\ UNCHANGED <<info, owner, linear, pers_store, incoming, incoming_persistent,
                     unprocessed_facts, facts_to_send, fresh>>
  BY EndRunIs
<1>2. run' \in [Thread -> Runs] /\ \A u \in Thread : u # t => run'[u] = run[u]
  BY <1>1, RunStep
<1> QED
  BY <1>1, <1>2 DEF Types, Known

\* One destination gets its lists.
SyncTo(t, n) ==
  LET lists == facts_to_send[t][n]
  IN  /\ \/ /\ matcher' = [matcher EXCEPT ![n] = MarkLists(@, lists)]
            /\ linear' = [linear EXCEPT ![n] = increment_database(@, lists)]
            /\ fresh' = [fresh EXCEPT ![n] = @ \cup Concerned(lists)]
            /\ UNCHANGED incoming
         \/ /\ incoming' = [incoming EXCEPT ![n] = increment_database(@, lists)]
            /\ UNCHANGED <<matcher, linear, fresh>>
      /\ unprocessed_facts' = [unprocessed_facts EXCEPT ![n] = TRUE]
      /\ facts_to_send' = [facts_to_send EXCEPT ![t] = Sent(@, n)]
      /\ UNCHANGED <<info, owner, pers_store, incoming_persistent, run>>

\* A synchronisation delivers the facts buffered for one node.
LEMMA SyncIs ==
  ASSUME NEW t \in Thread, Sync(t)
  PROVE  run[t].pc = "sync" /\ \E n \in Node : SyncTo(t, n)
  BY Zenon DEF Sync, SyncTo

\* A synchronisation keeps the types.
LEMMA SyncTypes ==
  ASSUME Types, Known, NEW t \in Thread, Sync(t)
  PROVE  Types' /\ Known'
<1>1. PICK n \in Node : SyncTo(t, n)
  BY SyncIs
<1> DEFINE lists == facts_to_send[t][n]
<1>2. n \in AllNode /\ lists \in Lists /\ facts_to_send[t] \in [Node -> Lists]
  BY DEF AllNode, Types
<1>3. /\ increment_database(linear[n], lists) \in Lists
      /\ increment_database(incoming[n], lists) \in Lists
  <2>1. linear[n] \in Lists /\ incoming[n] \in Lists
    BY <1>2 DEF Types
  <2> QED
    BY <1>2, <2>1, IncrementOnce DEF Joined
<1>4. Sent(facts_to_send[t], n) \in [Node -> Lists]
  BY <1>2, IdleType DEF Sent
<1>5. linear' \in [AllNode -> Lists] /\ incoming' \in [AllNode -> Lists]
  <2>1. linear \in [AllNode -> Lists] /\ incoming \in [AllNode -> Lists]
    BY DEF Types
  <2>2. linear' \in [AllNode -> Lists]
    BY <1>1, <1>2, <1>3, <2>1 DEF SyncTo
  <2>3. incoming' \in [AllNode -> Lists]
    BY <1>1, <1>2, <1>3, <2>1 DEF SyncTo
  <2> QED
    BY <2>2, <2>3
<1>6. fresh' \in [AllNode -> SUBSET Rule] /\ unprocessed_facts' \in [AllNode -> BOOLEAN]
  <2>1. fresh \in [AllNode -> SUBSET Rule] /\ unprocessed_facts \in [AllNode -> BOOLEAN]
    BY DEF Types
  <2>2. Concerned(lists) \in SUBSET Rule
    BY <1>2, ConcernedType
  <2>3. fresh' \in [AllNode -> SUBSET Rule]
    BY <1>1, <1>2, <2>1, <2>2 DEF SyncTo
  <2>4. unprocessed_facts' \in [AllNode -> BOOLEAN]
    BY <1>1, <2>1 DEF SyncTo
  <2> QED
    BY <2>3, <2>4
<1>7. facts_to_send' \in [Thread -> [Node -> Lists]]
  BY <1>1, <1>4 DEF SyncTo, Types
<1>8. UNCHANGED <<info, owner, pers_store, incoming_persistent, run>>
  BY <1>1 DEF SyncTo
<1> QED
  BY <1>5, <1>6, <1>7, <1>8 DEF Types, Known

\* The thread is free again.
LEMMA DoneIs ==
  ASSUME Types, NEW t \in Thread, Done(t)
  PROVE  LET r == run'[t]
         IN  /\ run[t].pc = "sync"
             /\ run' = [run EXCEPT ![t] = r] /\ r \in Runs /\ r.pc = "idle" /\ ~r.leave
             /\ r.node \in Node /\ r.used = {} /\ r.generated = NoFacts
             /\ r.node_persistent = <<>> /\ r.thread_persistent = run[t].thread_persistent
             /\ \/ UNCHANGED owner
                \/ run[t].leave /\ \E u \in Thread : owner' = [owner EXCEPT ![run[t].node] = u]
             /\ UNCHANGED <<info, linear, pers_store, incoming, incoming_persistent, matcher,
                            unprocessed_facts, facts_to_send, fresh>>
<1> DEFINE r == [Idle EXCEPT !.thread_persistent = run[t].thread_persistent]
<1>1. /\ run[t].pc = "sync" /\ run' = [run EXCEPT ![t] = r]
      /\ \/ UNCHANGED owner
         \/ run[t].leave /\ \E u \in Thread : owner' = [owner EXCEPT ![run[t].node] = u]
      /\ UNCHANGED <<info, linear, pers_store, incoming, incoming_persistent, matcher,
                     unprocessed_facts, facts_to_send, fresh>>
  BY DEF Done
<1>2. /\ r \in Runs /\ r.pc = "idle" /\ ~r.leave
      /\ r.node \in Node /\ r.used = {} /\ r.generated = NoFacts
      /\ r.node_persistent = <<>> /\ r.thread_persistent = run[t].thread_persistent
  BY IdleType, RunFields DEF Runs
<1> HIDE DEF r
<1>3. run'[t] = r
  BY <1>1 DEF Types
<1> QED
  BY <1>1, <1>2, <1>3

\* The end of a run keeps the types.
LEMMA DoneTypes ==
  ASSUME Types, Known, NEW t \in Thread, Done(t)
  PROVE  Types' /\ Known'
<1>1. /\ run' = [run EXCEPT ![t] = run'[t]] /\ run'[t] \in Runs
      /\ run'[t].node_persistent = <<>>
      /\ run'[t].thread_persistent = run[t].thread_persistent
      /\ UNCHANGED <<info, linear, pers_store, incoming, incoming_persistent,
                     unprocessed_facts, facts_to_send, fresh>>
  BY DoneIs
<1>2. run' \in [Thread -> Runs] /\ \A u \in Thread : u # t => run'[u] = run[u]
  BY <1>1, RunStep
<1>3. owner' \in [AllNode -> Thread]
  BY DoneIs DEF Types
<1>4. ToSet(<<>>) = {}
  BY DEF ToSet
<1>5. Types'
  BY <1>1, <1>2, <1>3 DEF Types
<1>6. ASSUME NEW u \in Thread
      PROVE ToSet(run'[u].node_persistent) \cup ToSet(run'[u].thread_persistent) \subseteq DOMAIN info
  BY <1>1, <1>2, <1>4 DEF Known
<1> QED
  BY <1>1, <1>5, <1>6 DEF Known

\* The axioms: one fact for each node of InitNode, in its list and nowhere else.
LEMMA InitFacts ==
  ASSUME Init
  PROVE  /\ info \in Seq([pred : Pred, from : AllNode])
         /\ linear \in [AllNode -> Lists]
         /\ \A n \in AllNode, p \in LinearPred :
              /\ Once(linear[n][p])
              /\ linear[n][p] # <<>> => n \in InitNode /\ p = InitPred
              /\ \A f \in ToSet(linear[n][p]) : f \in DOMAIN info /\ info[f].from = n
         /\ \A f \in DOMAIN info : info[f].pred = InitPred
<1> DEFINE first == SetToSeq(InitNode)
           Born(n) == CHOOSE i \in 1..Len(first) : first[i] = n
<1>1. IsFiniteSet(InitNode) /\ InitNode \subseteq AllNode
  BY RunAssumption, FS_Subset DEF AllNode
<1>2. first \in Seq(InitNode) /\ ToSet(first) = InitNode
  BY <1>1, SetToSeqIs
<1>3. /\ info = [i \in 1..Len(first) |-> [pred |-> InitPred, from |-> first[i]]]
      /\ linear = [n \in AllNode |->
                     [p \in LinearPred |-> IF n \in InitNode /\ p = InitPred THEN <<Born(n)>> ELSE <<>>]]
  BY Zenon DEF Init
<1> HIDE DEF first
<1>4. Len(first) \in Nat /\ DOMAIN first = 1..Len(first) /\ \A i \in 1..Len(first) : first[i] \in InitNode
  BY <1>2, LenProperties
<1>5. InitPred \in Pred
  BY RunAssumption
<1>6. info \in Seq([pred : Pred, from : AllNode])
  <2> DEFINE R == [pred : Pred, from : AllNode]
  <2>1. info \in [1..Len(first) -> R]
    BY <1>1, <1>3, <1>4, <1>5
  <2> HIDE DEF R
  <2>2. info \in Seq(R)
    BY <1>4, <2>1, SeqDef
  <2> QED
    BY <2>2 DEF R
<1>7. ASSUME NEW n \in InitNode PROVE Born(n) \in 1..Len(first) /\ first[Born(n)] = n
  <2>1. \E i \in 1..Len(first) : first[i] = n
    BY <1>2, <1>4 DEF ToSet
  <2> QED
    BY <2>1
<1> HIDE DEF Born
<1>8. ASSUME NEW n \in AllNode, NEW p \in LinearPred
      PROVE  /\ linear[n][p] \in Seq(Nat) /\ Once(linear[n][p])
             /\ linear[n][p] # <<>> => n \in InitNode /\ p = InitPred
             /\ \A f \in ToSet(linear[n][p]) : f \in DOMAIN info /\ info[f].from = n
  <2>1. CASE n \in InitNode /\ p = InitPred
    <3>1. linear[n][p] = <<Born(n)>> /\ Born(n) \in Nat
      BY <1>3, <1>4, <1>7, <2>1
    <3>2. ToSet(<<Born(n)>>) = {Born(n)} /\ Once(<<Born(n)>>) /\ <<Born(n)>> \in Seq(Nat)
      BY <3>1 DEF ToSet, Once
    <3> QED
      BY <1>3, <1>7, <2>1, <3>1, <3>2
  <2>2. CASE ~(n \in InitNode /\ p = InitPred)
    <3>1. linear[n][p] = <<>>
      BY <1>3, <2>2
    <3>2. ToSet(<<>>) = {} /\ Once(<<>>) /\ <<>> \in Seq(Nat)
      BY DEF ToSet, Once
    <3> QED
      BY <3>1, <3>2
  <2> QED
    BY <2>1, <2>2
<1>9. linear \in [AllNode -> Lists]
  <2>1. linear = [n \in AllNode |-> [p \in LinearPred |-> linear[n][p]]]
    BY <1>3
  <2> QED
    BY <1>8, <2>1 DEF Lists
<1>10. \A f \in DOMAIN info : info[f].pred = InitPred
  BY <1>3
<1> QED
  BY <1>6, <1>8, <1>9, <1>10

\* The types hold at the start.
LEMMA InitTypes == ASSUME Init PROVE Types /\ Known
<1>1. /\ owner = [n \in AllNode |-> IF n \in Node THEN owner0[n]
                                    ELSE CHOOSE t \in Thread : thread_node[t] = n]
      /\ pers_store = [n \in AllNode |-> {}]
      /\ incoming = [n \in AllNode |-> NoFacts]
      /\ incoming_persistent = [n \in AllNode |-> <<>>]
      /\ unprocessed_facts = [n \in AllNode |-> n \in Node \/ ThreadPred # {}]
      /\ run = [t \in Thread |-> Idle]
      /\ facts_to_send = [t \in Thread |-> [n \in Node |-> NoFacts]]
      /\ fresh = [n \in AllNode |-> IF n \in InitNode THEN linear_rules(InitPred) ELSE {}]
  BY Zenon DEF Init
<1>2. owner \in [AllNode -> Thread]
  <2>1. ASSUME NEW n \in AllNode, n \notin Node
        PROVE  (CHOOSE t \in Thread : thread_node[t] = n) \in Thread
    <3>1. \E t \in Thread : thread_node[t] = n
      BY <2>1 DEF AllNode, ThreadNode
    <3> QED
      BY <3>1
  <2> QED
    BY <1>1, <2>1, RunAssumption
<1>3. /\ incoming \in [AllNode -> Lists] /\ run \in [Thread -> Runs]
      /\ facts_to_send \in [Thread -> [Node -> Lists]]
  BY <1>1, IdleType
<1>4. /\ pers_store \in [AllNode -> SUBSET Nat] /\ incoming_persistent \in [AllNode -> Seq(Nat)]
      /\ unprocessed_facts \in [AllNode -> BOOLEAN] /\ fresh \in [AllNode -> SUBSET Rule]
  BY <1>1 DEF linear_rules
<1>5. Types
  BY <1>2, <1>3, <1>4, InitFacts DEF Types
<1>6. ToSet(<<>>) = {}
  BY DEF ToSet
<1>7. \A t \in Thread : run[t].node_persistent = <<>> /\ run[t].thread_persistent = <<>>
  BY <1>1, IdleType
<1> QED
  BY <1>1, <1>5, <1>6, <1>7 DEF Known

\* Every step keeps the types.
LEMMA NextTypes ==
  ASSUME Types, Known, matcher \in [AllNode -> Matchers], [Next]_vars
  PROVE  Types' /\ Known'
<1>1. CASE UNCHANGED vars
  BY <1>1 DEF vars, Types, Known
<1>2. ASSUME NEW t \in Thread, Run(t) PROVE Types' /\ Known'
  BY <1>2, BeginTypes, AddThreadTypes, NextRuleTypes, MatchTypes, DeriveTypes, UnwindTypes,
     EndRuleTypes, EndRunTypes, SyncTypes, DoneTypes DEF Run
<1> QED
  BY <1>1, <1>2 DEF Next

-----------------------------------------------------------------------------
(* What the steps do to the run of their thread *)

\* The thread of a step goes on with the run r, the others with their own.
Goes(t, r) ==
  /\ run' = [run EXCEPT ![t] = r] /\ run' \in [Thread -> Runs] /\ r \in Runs /\ run'[t] = r
  /\ \A u \in Thread : u # t => run'[u] = run[u]

\* Only where the thread stands and what it holds in its registers has changed.
SameLists(t) ==
  /\ run'[t].generated = run[t].generated
  /\ run'[t].node_persistent = run[t].node_persistent
  /\ run'[t].thread_persistent = run[t].thread_persistent

Begun(t, n) ==
  LET list == incoming_persistent[n]
  IN  /\ run[t].pc = "idle" /\ unprocessed_facts[n] /\ owner[n] = t
      /\ matcher' = process_persistent(process_incoming(matcher, n, n), n, n, list)
      /\ linear' = [linear EXCEPT ![n] = increment_database(
                                    increment_database(@, incoming[n]), Reused(list))]
      /\ pers_store' = [pers_store EXCEPT ![n] = Stored(n, list)]
      /\ incoming' = [incoming EXCEPT ![n] = NoFacts]
      /\ incoming_persistent' = [incoming_persistent EXCEPT ![n] = <<>>]
      /\ unprocessed_facts' = [unprocessed_facts EXCEPT ![n] = FALSE]
      /\ fresh' = [fresh EXCEPT ![n] = @ \cup Concerned(incoming[n]) \cup ConcernedBy(list)]
      /\ run' = [run EXCEPT ![t] = [Idle EXCEPT
                   !.node = n, !.thread_persistent = run[t].thread_persistent,
                   !.pc = IF ThreadPred # {} /\ n # thread_node[t] THEN "thread" ELSE "rules"]]
      /\ UNCHANGED <<info, owner, facts_to_send>>

\* What the start of a run does to the run of the thread.
LEMMA BeginIs ==
  ASSUME Types, NEW t \in Thread, Begin(t)
  PROVE  \E n \in AllNode :
           /\ Begun(t, n) /\ Goes(t, run'[t]) /\ run'[t].node = n /\ ~run'[t].leave
           /\ run'[t].pc = IF ThreadPred # {} /\ n # thread_node[t] THEN "thread" ELSE "rules"
           /\ run'[t].used = {} /\ run'[t].generated = NoFacts /\ run'[t].node_persistent = <<>>
           /\ run'[t].thread_persistent = run[t].thread_persistent
<1>1. PICK n \in AllNode : Begun(t, n)
  BY Zenon DEF Begin, Begun
<1> DEFINE r == [Idle EXCEPT !.node = n, !.thread_persistent = run[t].thread_persistent,
                   !.pc = IF ThreadPred # {} /\ n # thread_node[t] THEN "thread" ELSE "rules"]
<1>2. /\ r \in Runs /\ r.node = n /\ ~r.leave
      /\ r.pc = IF ThreadPred # {} /\ n # thread_node[t] THEN "thread" ELSE "rules"
      /\ r.used = {} /\ r.generated = NoFacts /\ r.node_persistent = <<>>
      /\ r.thread_persistent = run[t].thread_persistent
  BY IdleType, RunFields DEF Runs, PC
<1>3. run' = [run EXCEPT ![t] = r]
  BY <1>1, Zenon DEF Begun
<1> HIDE DEF r
<1>4. Goes(t, r) /\ run'[t] = r
  BY <1>2, <1>3, RunStep DEF Goes
<1> QED
  BY <1>1, <1>2, <1>4

\* What taking the facts of the thread node does to the run of the thread.
LEMMA AddThreadIs ==
  ASSUME Types, NEW t \in Thread, AddThread(t)
  PROVE  /\ Goes(t, run'[t]) /\ run[t].pc = "thread" /\ run'[t].pc = "rules"
         /\ run'[t].node = run[t].node /\ run'[t].leave = run[t].leave
         /\ run'[t].used = run[t].used /\ SameLists(t)
<1> DEFINE r == [run[t] EXCEPT !.pc = "rules"]
<1>1. run[t].pc = "thread" /\ run' = [run EXCEPT ![t].pc = "rules"]
  BY DEF AddThread
<1>2. /\ r \in Runs /\ r.pc = "rules" /\ r.node = run[t].node /\ r.leave = run[t].leave
      /\ r.used = run[t].used /\ r.generated = run[t].generated
      /\ r.node_persistent = run[t].node_persistent
      /\ r.thread_persistent = run[t].thread_persistent
      /\ run' = [run EXCEPT ![t] = r]
  BY <1>1, RunFields DEF Runs, PC, Types
<1> HIDE DEF r
<1>3. Goes(t, r) /\ run'[t] = r
  BY <1>2, RunStep DEF Goes
<1> QED
  BY <1>1, <1>2, <1>3 DEF SameLists

\* A rule is taken from the queue of the node, and nothing else changes.
LEMMA NextRuleIs ==
  ASSUME Types, matcher \in [AllNode -> Matchers], NEW t \in Thread, NextRule(t)
  PROVE  \E r \in matcher[run[t].node].rule_queue :
           /\ Goes(t, run'[t]) /\ run[t].pc = "rules" /\ run'[t].pc = "match"
           /\ run'[t].node = run[t].node /\ run'[t].leave = run[t].leave
           /\ run'[t].used = run[t].used /\ SameLists(t)
           /\ matcher' = [matcher EXCEPT ![run[t].node].rule_queue = @ \ {r}]
           /\ fresh' = [fresh EXCEPT ![run[t].node] = @ \ {r}]
           /\ UNCHANGED <<info, owner, linear, pers_store, incoming, incoming_persistent,
                          unprocessed_facts, facts_to_send>>
<1> DEFINE n == run[t].node
           q == remove_front(matcher[n].rule_queue)
<1>1. n \in AllNode
  BY RunFields
<1>2. /\ run[t].pc = "rules" /\ matcher[n].rule_queue # {}
      /\ matcher' = [matcher EXCEPT ![n].rule_queue = @ \ {q}]
      /\ fresh' = [fresh EXCEPT ![n] = @ \ {q}]
      /\ run' = [run EXCEPT ![t].pc = "match", ![t].rule = q]
      /\ UNCHANGED <<info, owner, linear, pers_store, incoming, incoming_persistent,
                     unprocessed_facts, facts_to_send>>
  BY Zenon DEF NextRule
<1>3. q \in Int /\ q \in matcher[n].rule_queue
  <2>1. matcher[n].rule_queue \in SUBSET Rule
    BY <1>1 DEF Matchers
  <2> QED
    BY <1>2, <2>1, FrontIs, MatcherAssumption DEF Rule
<1> HIDE DEF n, q
<1> DEFINE w == [run[t] EXCEPT !.pc = "match", !.rule = q]
<1>4. /\ w \in Runs /\ w.pc = "match" /\ w.node = run[t].node /\ w.leave = run[t].leave
      /\ w.used = run[t].used /\ w.generated = run[t].generated
      /\ w.node_persistent = run[t].node_persistent
      /\ w.thread_persistent = run[t].thread_persistent
      /\ run' = [run EXCEPT ![t] = w]
  <2>1. run[t] \in Runs /\ run \in [Thread -> Runs]
    BY DEF Types
  <2>2. run' = [run EXCEPT ![t] = w]
    BY <1>2, <1>3, <2>1
  <2> QED
    BY <1>2, <1>3, <2>1, <2>2 DEF Runs, PC
<1> HIDE DEF w
<1>5. Goes(t, w) /\ run'[t] = w
  BY <1>4, RunStep DEF Goes
<1> QED
  BY <1>2, <1>3, <1>4, <1>5 DEF SameLists, n

\* A rule matches facts its thread sees, and changes only the run.
LEMMA MatchIs ==
  ASSUME Types, NEW t \in Thread, Match(t)
  PROVE  /\ Goes(t, run'[t]) /\ run[t].pc = "match" /\ run'[t].pc = "fire"
         /\ run'[t].node = run[t].node /\ run'[t].leave = run[t].leave /\ SameLists(t)
         /\ \A f \in run'[t].used : \E p : f \in Visible(t, p)
         /\ UNCHANGED <<info, owner, linear, pers_store, incoming, incoming_persistent, matcher,
                        unprocessed_facts, facts_to_send, fresh>>
<1>1. PICK used \in [Body[run[t].rule] -> Fact] :
        /\ \A p \in Body[run[t].rule] : used[p] \in Visible(t, p)
        /\ run' = [run EXCEPT ![t].pc = "fire", ![t].used = {used[p] : p \in Body[run[t].rule]}]
  BY Zenon DEF Match
<1>2. /\ run[t].pc = "match"
      /\ UNCHANGED <<info, owner, linear, pers_store, incoming, incoming_persistent, matcher,
                     unprocessed_facts, facts_to_send, fresh>>
  BY Zenon DEF Match
<1> DEFINE s == {used[p] : p \in Body[run[t].rule]}
           w == [run[t] EXCEPT !.pc = "fire", !.used = s]
<1>3. s \in SUBSET Fact /\ \A f \in s : \E p : f \in Visible(t, p)
  BY <1>1
<1>4. run' = [run EXCEPT ![t].pc = "fire", ![t].used = s]
  BY <1>1
<1> HIDE DEF s
<1>5. /\ w \in Runs /\ w.pc = "fire" /\ w.node = run[t].node /\ w.leave = run[t].leave
      /\ w.used = s /\ w.generated = run[t].generated
      /\ w.node_persistent = run[t].node_persistent
      /\ w.thread_persistent = run[t].thread_persistent
      /\ run' = [run EXCEPT ![t] = w]
  BY <1>3, <1>4, RunFields DEF Runs, PC, Types
<1> HIDE DEF w
<1>6. Goes(t, w) /\ run'[t] = w
  BY <1>5, RunStep DEF Goes
<1> QED
  BY <1>2, <1>3, <1>5, <1>6 DEF SameLists

\* What a derivation does to the run of the thread.
LEMMA DeriveRun ==
  ASSUME Types, NEW t \in Thread, NEW p \in Pred, Derived(t, p)
  PROVE  /\ Goes(t, run'[t]) /\ run[t].pc = "fire" /\ run'[t].pc \in {"fire", "locked out"}
         /\ run'[t].node = run[t].node /\ run'[t].leave = run[t].leave
         /\ run'[t].used = run[t].used
         /\ \/ run'[t].thread_persistent = run[t].thread_persistent
            \/ p \in ReusedPred \cap ThreadPred
         /\ owner' = owner
         /\ run' = run \/ DeriveEnqueue(t, p) \/ (run'[t].pc = "locked out" /\ SameLists(t))
<1> DEFINE f == Len(info) + 1
<1>1. run[t].pc = "fire" /\ owner' = owner /\ f \in Nat /\ run[t] \in Runs
  BY RunFields DEF Derived, Types
<1>2. CASE run' = run
  <2>1. run' = [run EXCEPT ![t] = run[t]] /\ run'[t] = run[t]
    BY <1>2 DEF Types
  <2>2. Goes(t, run[t])
    BY <1>1, <2>1, RunStep DEF Goes
  <2> QED
    BY <1>1, <1>2, <2>1, <2>2
<1>3. CASE DeriveEnqueue(t, p)
  <2>1. PICK r \in Enqueued(run[t], f, p) : run' = [run EXCEPT ![t] = r]
    BY <1>3 DEF DeriveEnqueue
  <2>2. p \in LinearPred
    BY <1>3 DEF DeriveEnqueue
  <2> HIDE DEF f
  <2>3. /\ r \in Runs /\ r.pc = run[t].pc /\ r.node = run[t].node /\ r.leave = run[t].leave
        /\ r.used = run[t].used
        /\ \/ r.thread_persistent = run[t].thread_persistent
           \/ p \in ReusedPred /\ p \in ThreadPred
    <3>1. f \in Nat
      BY <1>1
    <3>2. Put(run[t], r, f, p)
      BY <2>2, <3>1, EnqueuedIs
    <3> QED
      BY <3>2 DEF Put
  <2>4. Goes(t, r) /\ run'[t] = r
    BY <2>1, <2>3, RunStep DEF Goes
  <2> QED
    BY <1>1, <1>3, <2>3, <2>4
<1>4. CASE run' = [run EXCEPT ![t].pc = "locked out"]
  <2> DEFINE r == [run[t] EXCEPT !.pc = "locked out"]
  <2>1. /\ r \in Runs /\ r.pc = "locked out" /\ r.node = run[t].node /\ r.leave = run[t].leave
        /\ r.used = run[t].used /\ r.generated = run[t].generated
        /\ r.node_persistent = run[t].node_persistent
        /\ r.thread_persistent = run[t].thread_persistent
        /\ run' = [run EXCEPT ![t] = r]
    BY <1>1, <1>4 DEF Runs, PC, Types
  <2> HIDE DEF r
  <2>2. Goes(t, r) /\ run'[t] = r
    BY <2>1, RunStep DEF Goes
  <2> QED
    BY <1>1, <2>1, <2>2 DEF SameLists
<1>5. run' = run \/ DeriveEnqueue(t, p) \/ run' = [run EXCEPT ![t].pc = "locked out"]
  BY DEF Derived, DeriveLinear, AddLinear, DerivePersistent, AddPersistent, DeriveForThread,
         NewThreadWork, DeriveForNode, Send
<1> QED
  BY <1>2, <1>3, <1>4, <1>5

-----------------------------------------------------------------------------
(* Threads run their own nodes *)

\* A step of a thread that owns what it runs, and leaves the owners alone, keeps Own.
LEMMA OwnStep ==
  ASSUME Own, NEW t \in Thread, Goes(t, run'[t]), owner' = owner,
         run'[t].pc # "idle" => owner[run'[t].node] = t,
         run'[t].pc = "thread" \/ run'[t].leave => run'[t].node \in Node
  PROVE  Own'
  BY DEF Own, Goes

\* A run starts on a node that the thread owns.
LEMMA OwnBegin ==
  ASSUME Types, Own, NEW t \in Thread, Begin(t)
  PROVE  Own'
<1>1. PICK n \in AllNode :
        /\ Begun(t, n) /\ Goes(t, run'[t]) /\ run'[t].node = n /\ ~run'[t].leave
        /\ run'[t].pc = IF ThreadPred # {} /\ n # thread_node[t] THEN "thread" ELSE "rules"
  BY BeginIs
<1>2. owner[n] = t /\ owner' = owner
  BY <1>1 DEF Begun
<1>3. n # thread_node[t] => n \in Node
  <2>1. n \notin Node => \E u \in Thread : n = thread_node[u]
    BY DEF AllNode, ThreadNode
  <2> QED
    BY <1>2, <2>1 DEF Own
<1> QED
  BY <1>1, <1>2, <1>3, OwnStep

\* The end of a run, where a node may go to another thread, keeps Own.
LEMMA OwnDone ==
  ASSUME Types, Own, NEW t \in Thread, Done(t)
  PROVE  Own'
<1>1. /\ run[t].pc = "sync"
      /\ run' = [run EXCEPT ![t] = run'[t]] /\ run'[t] \in Runs /\ run'[t].pc = "idle" /\ ~run'[t].leave
      /\ \/ UNCHANGED owner
         \/ run[t].leave /\ \E u \in Thread : owner' = [owner EXCEPT ![run[t].node] = u]
  BY DoneIs
<1>2. Goes(t, run'[t])
  BY <1>1, RunStep DEF Goes
<1>3. CASE UNCHANGED owner
  BY <1>1, <1>2, <1>3, OwnStep
<1>4. CASE run[t].leave /\ \E u \in Thread : owner' = [owner EXCEPT ![run[t].node] = u]
  <2>1. \A k \in AllNode : k # run[t].node => owner'[k] = owner[k]
    BY <1>4 DEF Types
  <2>2. run[t].node \in Node /\ owner[run[t].node] = t
    BY <1>1, <1>4 DEF Own
  <2>3. ASSUME NEW u \in Thread PROVE owner'[thread_node[u]] = u
    BY <2>1, <2>2, ThreadNodes DEF Own
  <2>4. ASSUME NEW u \in Thread, run'[u].pc # "idle" PROVE owner'[run'[u].node] = u
    <3>1. u # t /\ run'[u] = run[u]
      BY <1>1, <1>2, <2>4 DEF Goes
    <3>2. run[u].node \in AllNode
      BY RunFields
    <3> QED
      BY <2>1, <2>2, <2>4, <3>1, <3>2 DEF Own
  <2>5. ASSUME NEW u \in Thread, run'[u].pc = "thread" \/ run'[u].leave PROVE run'[u].node \in Node
    BY <1>1, <1>2, <2>5 DEF Goes, Own
  <2> QED
    BY <2>3, <2>4, <2>5 DEF Own
<1> QED
  BY <1>1, <1>3, <1>4

\* Every step keeps Own.
LEMMA NextOwn ==
  ASSUME Types, Own, matcher \in [AllNode -> Matchers], [Next]_vars
  PROVE  Own'
<1>1. CASE UNCHANGED vars
  BY <1>1 DEF vars, Own
<1>2. ASSUME NEW t \in Thread, Goes(t, run'[t]), run[t].pc # "idle", run'[t].node = run[t].node,
             run'[t].pc # "thread", run'[t].leave = run[t].leave, owner' = owner
      PROVE  Own'
  BY <1>2, OwnStep DEF Own
<1>3. ASSUME NEW t \in Thread, AddThread(t) PROVE Own'
  <2>1. owner' = owner
    BY <1>3 DEF AddThread
  <2> QED
    BY <1>2, <1>3, <2>1, AddThreadIs
<1>4. ASSUME NEW t \in Thread, NextRule(t) PROVE Own'
  BY <1>2, <1>4, NextRuleIs
<1>5. ASSUME NEW t \in Thread, Match(t) PROVE Own'
  BY <1>2, <1>5, MatchIs
<1>6. ASSUME NEW t \in Thread, Derive(t) PROVE Own'
  <2>1. PICK p \in Pred : Derived(t, p)
    BY <1>6, DeriveIs
  <2> QED
    BY <1>2, <2>1, DeriveRun
<1>7. ASSUME NEW t \in Thread, Unwind(t) PROVE Own'
  <2>1. PICK consumed, updated, stay, silent :
          consumed \cup updated \subseteq run[t].used /\ GiveUp(t, consumed, updated, stay, silent)
    <3>1. {f \in run[t].used : info[f].pred \in LinearPred} \subseteq run[t].used
      OBVIOUS
    <3> QED
      BY <1>7, <3>1, UnwindIs
  <2>2. owner' = owner /\ run[t].pc = "fire"
    BY <1>7, UnwindIs
  <2>3. /\ run' = [run EXCEPT ![t] = run'[t]]
        /\ run'[t] \in Runs /\ run'[t].pc = "match" /\ run'[t].node = run[t].node
        /\ run'[t].leave = run[t].leave
    BY <1>7, <2>1, GiveUpIs
  <2>4. Goes(t, run'[t])
    BY <1>7, <2>3, RunStep DEF Goes
  <2> QED
    BY <1>2, <1>7, <2>2, <2>3, <2>4
<1>8. ASSUME NEW t \in Thread, EndRule(t) PROVE Own'
  <2>1. /\ run[t].pc = "match"
        /\ run' = [run EXCEPT ![t] = run'[t]] /\ run'[t] \in Runs /\ run'[t].node = run[t].node
        /\ run'[t].pc \in {"rules", "end"} /\ (run'[t].leave => run[t].node \in Node)
        /\ owner' = owner
    BY <1>8, EndRuleRun
  <2>2. Goes(t, run'[t])
    BY <1>8, <2>1, RunStep DEF Goes
  <2>3. owner[run[t].node] = t
    BY <1>8, <2>1 DEF Own
  <2> QED
    BY <1>8, <2>1, <2>2, <2>3, OwnStep
<1>9. ASSUME NEW t \in Thread, EndRun(t) PROVE Own'
  <2>1. /\ run' = [run EXCEPT ![t] = run'[t]] /\ run'[t] \in Runs /\ run'[t].node = run[t].node
        /\ run'[t].pc = "sync" /\ run'[t].leave = run[t].leave /\ owner' = owner
    BY <1>9, EndRunIs
  <2>2. Goes(t, run'[t]) /\ run[t].pc # "idle"
    BY <1>9, <2>1, RunStep DEF Goes, EndRun
  <2> QED
    BY <1>2, <1>9, <2>1, <2>2
<1>10. ASSUME NEW t \in Thread, Sync(t) PROVE Own'
  <2>1. run' = run /\ owner' = owner
    BY <1>10, SyncIs DEF SyncTo
  <2> QED
    BY <2>1 DEF Own
<1>11. ASSUME NEW t \in Thread, Run(t) PROVE Own'
  BY <1>3, <1>4, <1>5, <1>6, <1>7, <1>8, <1>9, <1>10, <1>11, OwnBegin, OwnDone DEF Run
<1> QED
  BY <1>1, <1>11 DEF Next

\* No thread runs a node at the start.
LEMMA InitOwn == ASSUME Init PROVE Own
<1>1. /\ owner = [n \in AllNode |-> IF n \in Node THEN owner0[n]
                                    ELSE CHOOSE t \in Thread : thread_node[t] = n]
      /\ run = [t \in Thread |-> Idle]
  BY Zenon DEF Init
<1>2. ASSUME NEW t \in Thread PROVE owner[thread_node[t]] = t
  <2>1. thread_node[t] \in AllNode /\ thread_node[t] \notin Node
    BY ThreadNodes
  <2>2. owner[thread_node[t]] = CHOOSE u \in Thread : thread_node[u] = thread_node[t]
    BY <1>1, <2>1
  <2>3. (CHOOSE u \in Thread : thread_node[u] = thread_node[t]) \in
          {u \in Thread : thread_node[u] = thread_node[t]}
    OBVIOUS
  <2> QED
    BY <2>2, <2>3, RunAssumption
<1> QED
  BY <1>1, <1>2, IdleType DEF Own

-----------------------------------------------------------------------------
(* The matchers agree with the facts *)

\* The step marks the predicates of mk[k] in the matcher of node k, and nothing else.
Grown(mk) ==
  /\ matcher' \in [AllNode -> Matchers]
  /\ \A k \in AllNode : Marked(matcher[k], matcher'[k], mk[k])
  /\ \A k \in Node : \A r \in fresh'[k] :
       r \in fresh[k] \/ Body[r] \cap mk[k] # {} \/ Body[r] \cap ThreadPred # {}
  /\ \A k \in Node : \A p \in Pred \ ThreadPred : Facts(k, p)' => Facts(k, p) \/ p \in mk[k]

\* The marks of the threads stay, and their new facts are marked.
GrownThreads ==
  \A u \in Thread : \A p \in ThreadPred :
    /\ p \in matcher[InUse(u)].predicate_existence => p \in matcher'[InUse(u)'].predicate_existence
    /\ Facts(thread_node[u], p)' => \/ Facts(thread_node[u], p)
                                    \/ p \in matcher'[InUse(u)'].predicate_existence

\* The step keeps the marks.
MarksKept == Marks' /\ (ThreadMarked => ThreadMarked')

\* A step that marks what it brings keeps the marks.
LEMMA GrownKeeps ==
  ASSUME Types', Marks, NEW mk, Grown(mk)
  PROVE  Marks'
<1>1. ASSUME NEW n \in Node PROVE n \in AllNode /\ Marked(matcher[n], matcher'[n], mk[n])
  BY DEF Grown, AllNode
<1>2. \A n \in Node : Exact(matcher'[n])
  BY <1>1 DEF Marks, Marked
<1>3. ASSUME NEW n \in Node, NEW p \in Pred \ ThreadPred, Facts(n, p)'
      PROVE  p \in matcher'[n].predicate_existence
  BY <1>1, <1>3 DEF Grown, Marks, NodeMarked, Marked
<1>4. ASSUME NEW n \in Node, NEW r \in fresh'[n], Body[r] \cap ThreadPred = {},
             Body[r] \subseteq matcher'[n].predicate_existence
      PROVE  r \in matcher'[n].rule_queue
  <2>1. r \in Rule /\ Exact(matcher[n])
    BY <1>1 DEF Types, Marks
  <2>2. CASE Body[r] \cap mk[n] # {}
    BY <1>1, <1>4, <2>1, <2>2 DEF Marked
  <2>3. CASE Body[r] \cap mk[n] = {}
    <3>1. r \in fresh[n]
      BY <1>4, <2>3 DEF Grown
    <3>2. Body[r] \subseteq matcher[n].predicate_existence /\ matcher[n].rule_queue \subseteq matcher'[n].rule_queue
      BY <1>1, <1>4, <2>3 DEF Marked
    <3> QED
      BY <1>4, <3>1, <3>2 DEF Marks, Tried
  <2> QED
    BY <2>2, <2>3
<1>5. NodeMarked' /\ Tried'
  BY <1>3, <1>4 DEF NodeMarked, Tried
<1>6. matcher' \in [AllNode -> Matchers]
  BY DEF Grown
<1> QED
  BY <1>2, <1>5, <1>6 DEF Marks

\* A step that marks what it brings to thread nodes keeps their marks.
LEMMA ThreadsKeep ==
  ASSUME ThreadMarked, GrownThreads
  PROVE  ThreadMarked'
  BY DEF ThreadMarked, GrownThreads

\* The matcher in use is that of a node of the thread.
LEMMA InUseOwn ==
  ASSUME Types, Own, NEW t \in Thread
  PROVE  InUse(t) \in AllNode /\ owner[InUse(t)] = t
  BY RunFields, ThreadNodes DEF InUse, Own

\* The facts that came for node n, taken into its databases.
TakesIn(n) ==
  LET list == incoming_persistent[n]
  IN  /\ linear' = [linear EXCEPT ![n] = increment_database(
                                    increment_database(@, incoming[n]), Reused(list))]
      /\ pers_store' = [pers_store EXCEPT ![n] = Stored(n, list)]
      /\ info' = info

\* The facts of a node that takes in its incoming facts were there or were incoming.
LEMMA TakenIn ==
  ASSUME Types, Known, NEW n \in AllNode, TakesIn(n), NEW k \in AllNode, NEW p \in Pred, Facts(k, p)'
  PROVE  \/ Facts(k, p)
         \/ k = n /\ p \in NonEmpty(incoming[n]) \cup Preds(incoming_persistent[n])
<1> DEFINE list == incoming_persistent[n]
<1>1. /\ linear' = [linear EXCEPT ![n] = increment_database(
                                     increment_database(@, incoming[n]), Reused(list))]
      /\ pers_store' = [pers_store EXCEPT ![n] = Stored(n, list)] /\ info' = info
  BY Zenon DEF TakesIn
<1>2. list \in Seq(Nat) /\ linear[n] \in Lists /\ incoming[n] \in Lists
  BY DEF Types
<1>3. CASE p \in LinearPred
  <2>1. Reused(list) \in Lists /\ NonEmpty(Reused(list)) = Preds(list) \cap LinearPred
    BY <1>2, ReusedIs
  <2>2. Joined3(increment_database(increment_database(linear[n], incoming[n]), Reused(list)),
                linear[n], incoming[n], Reused(list))
    BY <1>2, <2>1, IncrementTwice
  <2>3. k = n => (linear'[k][p] = <<>> <=> linear[n][p] = <<>> /\ incoming[n][p] = <<>> /\ Reused(list)[p] = <<>>)
    BY <1>1, <1>3, <2>2 DEF Joined3, Types
  <2>4. k # n => linear'[k] = linear[k]
    BY <1>1 DEF Types
  <2> QED
    BY <1>3, <2>1, <2>3, <2>4 DEF Facts, NonEmpty
<1>4. CASE p \notin LinearPred
  <2>1. CASE k = n
    <3>1. pers_store'[k] = pers_store[k] \cup {f \in ToSet(list) : info[f].pred \notin LinearPred}
      BY <1>1, <2>1 DEF Stored, Types
    <3> QED
      BY <1>1, <1>4, <2>1, <3>1 DEF Facts, Preds
  <2>2. CASE k # n
    BY <1>1, <1>4, <2>2 DEF Facts, Types
  <2> QED
    BY <2>1, <2>2
<1> QED
  BY <1>3, <1>4

\* The start of a run keeps the marks.
LEMMA MarksBegin ==
  ASSUME Types, Known, Types', Own, Marks, NEW t \in Thread, Begin(t)
  PROVE  MarksKept
<1>1. PICK n \in AllNode :
        /\ Begun(t, n) /\ Goes(t, run'[t]) /\ run'[t].node = n
        /\ run'[t].pc = IF ThreadPred # {} /\ n # thread_node[t] THEN "thread" ELSE "rules"
  BY BeginIs
<1> DEFINE list == incoming_persistent[n]
           S == NonEmpty(incoming[n])
           m == process_incoming(matcher, n, n)
           mk == [k \in AllNode |-> IF k = n THEN S \cup Preds(list) ELSE {}]
<1>2. /\ list \in Seq(Nat) /\ ToSet(list) \subseteq DOMAIN info /\ linear[n] \in Lists
      /\ incoming[n] \in Lists /\ matcher \in [AllNode -> Matchers] /\ matcher[n] \in Matchers
  BY DEF Types, Known, Marks
<1>3. Marked(matcher[n], MarkLists(matcher[n], incoming[n]), S)
  BY <1>2, MarkListsIs
<1>4. /\ m \in [AllNode -> Matchers] /\ Marked(matcher[n], m[n], S)
      /\ \A k \in AllNode : k # n => m[k] = matcher[k]
  <2>1. MarkLists(matcher[n], incoming[n]) \in Matchers
    BY <1>3 DEF Marked
  <2> QED
    BY <1>2, <1>3, <2>1 DEF process_incoming
<1>5. matcher' = process_persistent(m, n, n, list)
  BY <1>1, Zenon DEF Begun
<1> HIDE DEF m
<1>6. /\ matcher' \in [AllNode -> Matchers]
      /\ \A k \in AllNode : k # n => matcher'[k] = m[k]
      /\ Marked(m[n], matcher'[n], Preds(list))
  <2>1. Processed(m, matcher', n, n, list)
    BY <1>2, <1>4, <1>5, ProcessIs
  <2> QED
    BY <2>1 DEF Processed
<1>7. ASSUME NEW k \in AllNode PROVE Marked(matcher[k], matcher'[k], mk[k])
  <2>1. CASE k = n
    BY <1>4, <1>6, <2>1, MarkedTwice
  <2>2. CASE k # n
    BY <1>2, <1>4, <1>6, <2>2, MarkedNone
  <2> QED
    BY <2>1, <2>2
<1>8. \A k \in Node : \A r \in fresh'[k] : r \in fresh[k] \/ Body[r] \cap mk[k] # {}
  <2>1. fresh' = [fresh EXCEPT ![n] = @ \cup Concerned(incoming[n]) \cup ConcernedBy(list)]
    BY <1>1, Zenon DEF Begun
  <2>2. ASSUME NEW r \in Concerned(incoming[n]) \cup ConcernedBy(list)
        PROVE  Body[r] \cap (S \cup Preds(list)) # {}
    BY DEF Concerned, ConcernedBy, NonEmpty, Preds, linear_rules
  <2> HIDE DEF S, list
  <2> QED
    BY <2>1, <2>2 DEF Types, AllNode
<1>9. ASSUME NEW k \in AllNode, NEW p \in Pred, Facts(k, p)' PROVE Facts(k, p) \/ p \in mk[k]
  <2>1. TakesIn(n)
    BY <1>1, Zenon DEF Begun, TakesIn
  <2> QED
    BY <1>9, <2>1, TakenIn
<1> HIDE DEF mk
<1>10. ASSUME NEW u \in Thread, ThreadPred # {} PROVE InUse(u)' = InUse(u)
  <2>1. CASE u # t
    BY <1>1, <2>1 DEF InUse, Goes
  <2>2. CASE u = t
    BY <1>1, <1>10, <2>2 DEF InUse, Goes, Begun
  <2> QED
    BY <2>1, <2>2
<1>11. ASSUME NEW u \in Thread, NEW p \in ThreadPred
       PROVE  /\ p \in matcher[InUse(u)].predicate_existence => p \in matcher'[InUse(u)'].predicate_existence
              /\ Facts(thread_node[u], p)' => \/ Facts(thread_node[u], p)
                                              \/ p \in matcher'[InUse(u)'].predicate_existence
  <2>1. InUse(u)' = InUse(u) /\ InUse(u) \in AllNode /\ p \in Pred
    BY <1>10, <1>11, InUseOwn, MatcherAssumption
  <2>2. Marked(matcher[InUse(u)], matcher'[InUse(u)], mk[InUse(u)])
    BY <1>7, <2>1
  <2>3. p \in mk[thread_node[u]] => InUse(u) = n
    <3>1. p \in mk[thread_node[u]] => thread_node[u] = n
      BY ThreadNodes DEF mk
    <3>2. thread_node[u] = n => u = t
      BY <1>1 DEF Begun, Own
    <3> QED
      BY <1>1, <3>1, <3>2 DEF InUse, Begun
  <2>4. p \in mk[thread_node[u]] => thread_node[u] = n
    BY ThreadNodes DEF mk
  <2>5. Facts(thread_node[u], p)' => Facts(thread_node[u], p) \/ p \in mk[thread_node[u]]
    BY <1>9, <2>1, ThreadNodes
  <2>6. p \in mk[thread_node[u]] => p \in matcher'[InUse(u)].predicate_existence
    BY <2>2, <2>3, <2>4 DEF Marked
  <2> QED
    BY <2>1, <2>2, <2>5, <2>6 DEF Marked
<1>12. Grown(mk)
  BY <1>6, <1>7, <1>8, <1>9 DEF Grown, AllNode
<1>13. GrownThreads
  BY <1>11 DEF GrownThreads
<1> QED
  BY <1>12, <1>13, GrownKeeps, ThreadsKeep DEF MarksKept

\* Taking the facts of the thread node keeps the marks.
LEMMA MarksAddThread ==
  ASSUME Types, Known, Types', Own, Marks, NEW t \in Thread, AddThread(t)
  PROVE  MarksKept
<1> DEFINE n == run[t].node
           h == thread_node[t]
           list == incoming_persistent[h]
           S == NonEmpty(incoming[h])
           m0 == process_incoming(matcher, n, h)
           m1 == process_persistent(m0, n, h, list)
           P == Preds(list)
           Q == m1[h].predicate_existence
           mk == [k \in AllNode |-> IF k = n THEN S \cup (P \ ReusedPred) \cup Q
                                    ELSE IF k = h THEN P \cap LinearPred ELSE {}]
<1>1. /\ run[t].pc = "thread" /\ TakesIn(h)
      /\ matcher' = [m1 EXCEPT ![n] = add_thread(@, m1[h])]
      /\ fresh' = [fresh EXCEPT ![n] = @ \cup Concerned(incoming[h]) \cup ConcernedBy(list)]
  BY Zenon DEF AddThread, TakesIn
<1>2. /\ n \in AllNode /\ n \in Node /\ h \in AllNode /\ n # h
      /\ Goes(t, run'[t]) /\ run'[t].pc = "rules" /\ run'[t].node = n
  BY <1>1, AddThreadIs, RunFields, ThreadNodes DEF Own
<1>3. /\ list \in Seq(Nat) /\ ToSet(list) \subseteq DOMAIN info
      /\ incoming[h] \in Lists /\ matcher \in [AllNode -> Matchers] /\ matcher[n] \in Matchers
  BY <1>2 DEF Types, Known, Marks
<1> HIDE DEF n, h, list, S
<1>4. /\ m0 \in [AllNode -> Matchers] /\ Marked(matcher[n], m0[n], S)
      /\ \A k \in AllNode : k # n => m0[k] = matcher[k]
  <2>1. Marked(matcher[n], MarkLists(matcher[n], incoming[h]), S)
    BY <1>3, MarkListsIs DEF S
  <2>2. MarkLists(matcher[n], incoming[h]) \in Matchers
    BY <2>1 DEF Marked
  <2> QED
    BY <1>2, <1>3, <2>1, <2>2 DEF process_incoming
<1> HIDE DEF m0
<1>5. /\ m1 \in [AllNode -> Matchers]
      /\ \A k \in AllNode : k # n /\ k # h => m1[k] = m0[k]
      /\ Marked(m0[n], m1[n], P \ ReusedPred) /\ Marked(m0[h], m1[h], P \cap LinearPred)
  <2>1. Processed(m0, m1, n, h, list)
    BY <1>2, <1>3, <1>4, ProcessIs
  <2> QED
    BY <1>2, <2>1 DEF Processed
<1> HIDE DEF m1
<1>6. Marked(m1[n], add_thread(m1[n], m1[h]), Q) /\ Q \in SUBSET Pred
  <2>1. m1[n] \in Matchers /\ Q \in SUBSET Pred
    BY <1>2, <1>5 DEF Matchers
  <2> QED
    BY <2>1, FoldMarks DEF add_thread
<1>7. /\ matcher' \in [AllNode -> Matchers] /\ Marked(m1[n], matcher'[n], Q)
      /\ \A k \in AllNode : k # n => matcher'[k] = m1[k]
  <2>1. add_thread(m1[n], m1[h]) \in Matchers
    BY <1>6 DEF Marked
  <2> QED
    BY <1>1, <1>2, <1>5, <1>6, <2>1
<1> HIDE DEF P, Q
<1>8. ASSUME NEW k \in AllNode PROVE Marked(matcher[k], matcher'[k], mk[k])
  <2>1. CASE k = n
    <3>1. Marked(matcher[n], m1[n], S \cup (P \ ReusedPred))
      BY <1>4, <1>5, MarkedTwice
    <3>2. Marked(matcher[n], matcher'[n], (S \cup (P \ ReusedPred)) \cup Q)
      BY <1>7, <3>1, MarkedTwice
    <3> QED
      BY <2>1, <3>2
  <2>2. CASE k = h
    BY <1>2, <1>4, <1>5, <1>7, <2>2
  <2>3. CASE k # n /\ k # h
    BY <1>3, <1>4, <1>5, <1>7, <2>3, MarkedNone
  <2> QED
    BY <2>1, <2>2, <2>3
<1>9. S \cup P \subseteq mk[n] /\ Q \subseteq mk[n]
  <2>1. P \cap LinearPred \subseteq Q
    BY <1>5 DEF Q, Marked
  <2> QED
    BY <1>2, <2>1, RunAssumption
<1>10. \A k \in Node : \A r \in fresh'[k] : r \in fresh[k] \/ Body[r] \cap mk[k] # {}
  <2>1. ASSUME NEW r \in Concerned(incoming[h]) \cup ConcernedBy(list)
        PROVE  Body[r] \cap (S \cup P) # {}
    BY DEF Concerned, ConcernedBy, NonEmpty, Preds, linear_rules, S, P
  <2>2. ASSUME NEW r \in Concerned(incoming[h]) \cup ConcernedBy(list) PROVE Body[r] \cap mk[n] # {}
    BY <1>9, <2>1
  <2>3. fresh' = [fresh EXCEPT ![n] = @ \cup Concerned(incoming[h]) \cup ConcernedBy(list)]
    BY <1>1
  <2> HIDE DEF mk
  <2> QED
    BY <2>2, <2>3 DEF Types, AllNode
<1>11. ASSUME NEW k \in AllNode, NEW p \in Pred, Facts(k, p)'
       PROVE  Facts(k, p) \/ (k = h /\ p \in S \cup P)
  BY <1>1, <1>2, <1>11, TakenIn DEF S, P, list
<1> HIDE DEF mk
<1>12. ASSUME NEW u \in Thread, NEW p \in ThreadPred
       PROVE  /\ p \in matcher[InUse(u)].predicate_existence => p \in matcher'[InUse(u)'].predicate_existence
              /\ Facts(thread_node[u], p)' => \/ Facts(thread_node[u], p)
                                              \/ p \in matcher'[InUse(u)'].predicate_existence
  <2>1. p \in Pred /\ thread_node[u] \in AllNode
    BY ThreadNodes, MatcherAssumption
  <2>2. CASE u # t
    <3>1. InUse(u)' = InUse(u) /\ InUse(u) \in AllNode
      BY <1>2, <2>2, InUseOwn DEF InUse, Goes
    <3>2. Marked(matcher[InUse(u)], matcher'[InUse(u)], mk[InUse(u)])
      BY <1>8, <3>1
    <3>3. thread_node[u] # h
      BY <2>2, RunAssumption DEF h
    <3> QED
      BY <1>11, <2>1, <3>1, <3>2, <3>3 DEF Marked
  <2>3. CASE u = t
    <3>1. InUse(u) = h /\ InUse(u)' = n
      BY <1>1, <1>2, <2>3 DEF InUse, Goes, h, n
    <3>2. matcher'[n].predicate_existence = matcher[n].predicate_existence \cup mk[n]
      BY <1>2, <1>8 DEF Marked
    <3>3. matcher[h].predicate_existence \subseteq Q
      BY <1>2, <1>4, <1>5 DEF Marked, Q
    <3> QED
      BY <1>9, <1>11, <2>1, <3>1, <3>2, <3>3
  <2> QED
    BY <2>2, <2>3
<1>13. \A k \in Node : \A p \in Pred \ ThreadPred : Facts(k, p)' => Facts(k, p) \/ p \in mk[k]
  <2>1. \A k \in Node : k # h /\ k \in AllNode
    BY ThreadNodes DEF h, AllNode
  <2> QED
    BY <1>11, <2>1
<1>14. Grown(mk)
  BY <1>7, <1>8, <1>10, <1>13 DEF Grown
<1>15. GrownThreads
  BY <1>12 DEF GrownThreads
<1> QED
  BY <1>14, <1>15, GrownKeeps, ThreadsKeep DEF MarksKept

\* A step that leaves the facts and the matchers alone.
LEMMA MarksSame ==
  ASSUME Types, Known, Marks, UNCHANGED <<matcher, fresh, linear, pers_store>>,
         \A f \in DOMAIN info : info'[f].pred = info[f].pred,
         \A u \in Thread : InUse(u)' = InUse(u)
  PROVE  MarksKept
<1>1. ASSUME NEW k \in AllNode, NEW p \in Pred, Facts(k, p)' PROVE Facts(k, p)
  BY <1>1 DEF Facts, Known
<1>2. \A n \in Node : n \in AllNode
  BY DEF AllNode
<1>3. NodeMarked'
  BY <1>1, <1>2 DEF Marks, NodeMarked
<1>4. ASSUME ThreadMarked PROVE ThreadMarked'
  BY <1>1, <1>4, ThreadNodes, MatcherAssumption DEF ThreadMarked
<1> QED
  BY <1>3, <1>4 DEF Marks, Tried, MarksKept

\* A fact of p that enters a database of the thread that derives it is marked in its node.
LEMMA MarksNewFact ==
  ASSUME Types, Known, Types', Own, Marks, NEW t \in Thread, NEW p \in Pred, run[t].pc = "fire",
         matcher' = [matcher EXCEPT ![run[t].node] = new_linear_fact(@, p)],
         fresh' = [fresh EXCEPT ![run[t].node] = @ \cup linear_rules(p)],
         \A u \in Thread : InUse(u)' = InUse(u),
         \A k \in AllNode : \A q \in Pred :
           Facts(k, q)' => Facts(k, q) \/ (k = Home(t, run[t].node, p) /\ q = p)
  PROVE  MarksKept
<1> DEFINE n == run[t].node
           mk == [k \in AllNode |-> IF k = n THEN {p} ELSE {}]
<1>1. n \in AllNode /\ InUse(t) = n /\ matcher \in [AllNode -> Matchers] /\ matcher[n] \in Matchers
  BY RunFields DEF InUse, Marks
<1>2. Marked(matcher[n], new_linear_fact(matcher[n], p), {p})
  BY <1>1, NewFactMarks
<1>3. new_linear_fact(matcher[n], p) \in Matchers
  BY <1>2 DEF Marked
<1> HIDE DEF n
<1>4. matcher' = [matcher EXCEPT ![n] = new_linear_fact(matcher[n], p)]
  BY DEF n
<1>5. matcher' \in [AllNode -> Matchers] /\ matcher'[n] = new_linear_fact(matcher[n], p)
      /\ \A k \in AllNode : k # n => matcher'[k] = matcher[k]
  BY <1>1, <1>3, <1>4
<1>6. ASSUME NEW k \in AllNode PROVE Marked(matcher[k], matcher'[k], mk[k])
  BY <1>1, <1>2, <1>5, MarkedNone
<1>7. \A k \in Node : \A r \in fresh'[k] : r \in fresh[k] \/ Body[r] \cap mk[k] # {}
  <2>1. \A r \in linear_rules(p) : Body[r] \cap {p} # {}
    BY DEF linear_rules
  <2>2. fresh' = [fresh EXCEPT ![n] = @ \cup linear_rules(p)]
    BY DEF n
  <2> QED
    BY <2>1, <2>2 DEF Types, AllNode
<1>8. ASSUME NEW k \in Node, NEW q \in Pred \ ThreadPred, Facts(k, q)'
      PROVE  Facts(k, q) \/ q \in mk[k]
  <2>1. k \in AllNode /\ (Facts(k, q) \/ (k = Home(t, n, p) /\ q = p))
    BY <1>8 DEF AllNode, n
  <2> QED
    BY <1>8, <2>1 DEF Home
<1>9. ASSUME NEW u \in Thread, NEW q \in ThreadPred
      PROVE  /\ q \in matcher[InUse(u)].predicate_existence => q \in matcher'[InUse(u)'].predicate_existence
             /\ Facts(thread_node[u], q)' => \/ Facts(thread_node[u], q)
                                             \/ q \in matcher'[InUse(u)'].predicate_existence
  <2>1. q \in Pred /\ thread_node[u] \in AllNode /\ InUse(u)' = InUse(u) /\ InUse(u) \in AllNode
    BY ThreadNodes, InUseOwn, MatcherAssumption
  <2>2. matcher'[InUse(u)].predicate_existence = matcher[InUse(u)].predicate_existence \cup mk[InUse(u)]
    BY <1>6, <2>1 DEF Marked
  <2>3. Facts(thread_node[u], q)' => Facts(thread_node[u], q) \/ (thread_node[u] = Home(t, n, p) /\ q = p)
    BY <2>1 DEF n
  <2>4. thread_node[u] = Home(t, n, p) /\ q = p => u = t
    BY RunAssumption DEF Home
  <2>5. q = p /\ u = t => q \in mk[InUse(u)]
    BY <1>1
  <2> QED
    BY <2>1, <2>2, <2>3, <2>4, <2>5
<1> HIDE DEF mk
<1>10. Grown(mk)
  BY <1>5, <1>6, <1>7, <1>8 DEF Grown
<1>11. GrownThreads
  BY <1>9 DEF GrownThreads
<1> QED
  BY <1>10, <1>11, GrownKeeps, ThreadsKeep DEF MarksKept

\* A derivation keeps the marks.
LEMMA MarksDerive ==
  ASSUME Types, Known, Types', Own, Marks, NEW t \in Thread, Derive(t)
  PROVE  MarksKept
<1>1. PICK p \in Pred : Derived(t, p)
  BY DeriveIs
<1> DEFINE n == run[t].node
           f == Len(info) + 1
<1>2. /\ n \in AllNode /\ run[t].pc = "fire"
      /\ \A u \in Thread : InUse(u)' = InUse(u)
  <2>1. /\ Goes(t, run'[t]) /\ run[t].pc = "fire" /\ run'[t].pc \in {"fire", "locked out"}
        /\ run'[t].node = n
    BY <1>1, DeriveRun
  <2> QED
    BY <2>1, RunFields DEF Goes, InUse
<1>3. \A g \in DOMAIN info : info'[g] = info[g]
  BY <1>1, <1>2, InfoGrows DEF Derived
<1>4. info'[f].pred = p
  BY <1>1, <1>2, InfoGrows DEF Derived
<1>5. CASE DeriveLinear(t, p)
  <2>1. /\ n \in Node /\ p \in LinearPred \ (ThreadPred \cup ReusedPred)
        /\ linear' = [linear EXCEPT ![n][p] = Append(@, f)]
        /\ matcher' = [matcher EXCEPT ![n] = new_linear_fact(@, p)]
        /\ fresh' = [fresh EXCEPT ![n] = @ \cup linear_rules(p)]
        /\ pers_store' = pers_store
    BY <1>5 DEF DeriveLinear, AddLinear
  <2>2. ASSUME NEW k \in AllNode, NEW q \in Pred, Facts(k, q)'
        PROVE  Facts(k, q) \/ (k = Home(t, n, p) /\ q = p)
    <3>1. CASE q \in LinearPred
      <4>1. k # n \/ q # p => linear'[k][q] = linear[k][q]
        BY <2>1, <3>1 DEF Types, Lists
      <4> QED
        BY <2>1, <2>2, <3>1, <4>1 DEF Facts, Home
    <3>2. CASE q \notin LinearPred
      BY <1>3, <2>1, <2>2, <3>2 DEF Facts, Known
    <3> QED
      BY <3>1, <3>2
  <2> QED
    BY <1>2, <2>1, <2>2, MarksNewFact
<1>6. CASE DerivePersistent(t, p)
  <2>1. /\ p \notin LinearPred /\ linear' = linear
        /\ pers_store' = [pers_store EXCEPT ![Home(t, n, p)] = @ \cup {f}]
        /\ matcher' = [matcher EXCEPT ![n] = new_linear_fact(@, p)]
        /\ fresh' = [fresh EXCEPT ![n] = @ \cup linear_rules(p)]
    BY <1>6 DEF DerivePersistent, AddPersistent, new_persistent_fact
  <2> HIDE DEF f
  <2>2. ASSUME NEW k \in AllNode, NEW q \in Pred, Facts(k, q)'
        PROVE  Facts(k, q) \/ (k = Home(t, n, p) /\ q = p)
    <3>1. CASE q \in LinearPred
      BY <2>1, <2>2, <3>1 DEF Facts
    <3>2. CASE q \notin LinearPred
      <4>1. PICK g \in pers_store'[k] : info'[g].pred = q
        BY <2>2, <3>2 DEF Facts
      <4>2. g \in pers_store[k] \/ (k = Home(t, n, p) /\ g = f)
        BY <2>1, <4>1 DEF Types
      <4> QED
        BY <1>3, <1>4, <3>2, <4>1, <4>2 DEF Facts, Known
    <3> QED
      BY <3>1, <3>2
  <2>3. /\ matcher' = [matcher EXCEPT ![n] = new_linear_fact(@, p)]
        /\ fresh' = [fresh EXCEPT ![n] = @ \cup linear_rules(p)]
    BY <2>1
  <2>4. \A k \in AllNode : \A q \in Pred :
          Facts(k, q)' => Facts(k, q) \/ (k = Home(t, n, p) /\ q = p)
    BY <2>2
  <2> QED
    BY <1>2, <2>3, <2>4, MarksNewFact
<1>7. CASE DeriveEnqueue(t, p) \/ DeriveForThread(t, p) \/ DeriveForNode(t, p)
  <2>1. UNCHANGED <<matcher, fresh, linear, pers_store>>
    BY <1>7 DEF DeriveEnqueue, DeriveForThread, NewThreadWork, DeriveForNode, Send
  <2> QED
    BY <1>2, <1>3, <2>1, MarksSame
<1> QED
  BY <1>1, <1>5, <1>6, <1>7 DEF Derived

\* A synchronisation keeps the marks.
LEMMA MarksSync ==
  ASSUME Types, Known, Types', Own, Marks, NEW t \in Thread, Sync(t)
  PROVE  MarksKept
<1>1. PICK n \in Node : SyncTo(t, n)
  BY SyncIs
<1> DEFINE lists == facts_to_send[t][n]
           mk == [k \in AllNode |-> IF k = n THEN NonEmpty(lists) ELSE {}]
<1>2. n \in AllNode /\ lists \in Lists /\ matcher \in [AllNode -> Matchers] /\ matcher[n] \in Matchers
  BY DEF AllNode, Types, Marks
<1>3. UNCHANGED <<info, pers_store, run>>
  BY <1>1 DEF SyncTo
<1>4. \A u \in Thread : InUse(u)' = InUse(u)
  BY <1>3 DEF InUse
<1>5. CASE UNCHANGED <<matcher, linear, fresh>>
  BY <1>3, <1>4, <1>5, MarksSame
<1>6. CASE /\ matcher' = [matcher EXCEPT ![n] = MarkLists(@, lists)]
           /\ linear' = [linear EXCEPT ![n] = increment_database(@, lists)]
           /\ fresh' = [fresh EXCEPT ![n] = @ \cup Concerned(lists)]
  <2> HIDE DEF lists
  <2>1. Marked(matcher[n], MarkLists(matcher[n], lists), NonEmpty(lists))
    BY <1>2, MarkListsIs
  <2>2. MarkLists(matcher[n], lists) \in Matchers
    BY <2>1 DEF Marked
  <2>3. matcher' \in [AllNode -> Matchers] /\ \A k \in AllNode : Marked(matcher[k], matcher'[k], mk[k])
    BY <1>2, <1>6, <2>1, <2>2, MarkedNone
  <2>4. \A k \in Node : \A r \in fresh'[k] : r \in fresh[k] \/ Body[r] \cap mk[k] # {}
    <3>1. \A r \in Concerned(lists) : Body[r] \cap NonEmpty(lists) # {}
      BY DEF Concerned, NonEmpty, linear_rules
    <3> QED
      BY <1>6, <3>1 DEF Types, AllNode
  <2>5. ASSUME NEW k \in AllNode, NEW p \in Pred, Facts(k, p)'
        PROVE  Facts(k, p) \/ p \in mk[k]
    <3>1. CASE p \in LinearPred
      <4>1. linear[n] \in Lists
        BY <1>2 DEF Types
      <4>2. Joined(increment_database(linear[n], lists), linear[n], lists)
        BY <1>2, <4>1, IncrementOnce
      <4>3. k = n => (linear'[k][p] = <<>> <=> linear[k][p] = <<>> /\ lists[p] = <<>>)
        BY <1>2, <1>6, <3>1, <4>2 DEF Joined, Types
      <4>4. k # n => linear'[k] = linear[k]
        BY <1>6 DEF Types
      <4> QED
        BY <2>5, <3>1, <4>3, <4>4 DEF Facts, NonEmpty
    <3>2. CASE p \notin LinearPred
      BY <1>3, <2>5, <3>2 DEF Facts
    <3> QED
      BY <3>1, <3>2
  <2>6. ASSUME NEW u \in Thread, NEW p \in ThreadPred
        PROVE  /\ p \in matcher[InUse(u)].predicate_existence => p \in matcher'[InUse(u)'].predicate_existence
               /\ Facts(thread_node[u], p)' => \/ Facts(thread_node[u], p)
                                               \/ p \in matcher'[InUse(u)'].predicate_existence
    <3>1. /\ p \in Pred /\ thread_node[u] \in AllNode /\ thread_node[u] # n
          /\ InUse(u)' = InUse(u) /\ InUse(u) \in AllNode
      BY <1>4, ThreadNodes, InUseOwn, MatcherAssumption
    <3>2. mk[thread_node[u]] = {}
      BY <3>1
    <3>3. Facts(thread_node[u], p)' => Facts(thread_node[u], p)
      BY <2>5, <3>1, <3>2
    <3> QED
      BY <2>3, <3>1, <3>3 DEF Marked
  <2>7. \A k \in Node : k \in AllNode
    BY DEF AllNode
  <2> HIDE DEF mk
  <2>8. Grown(mk)
    BY <2>3, <2>4, <2>5, <2>7 DEF Grown
  <2>9. GrownThreads
    BY <2>6 DEF GrownThreads
  <2> QED
    BY <2>8, <2>9, GrownKeeps, ThreadsKeep DEF MarksKept
<1> QED
  BY <1>1, <1>5, <1>6 DEF SyncTo

\* The end of a rule keeps the marks.
LEMMA MarksEndRule ==
  ASSUME Types, Known, Types', Own, OfThread, Marks, NEW t \in Thread, EndRule(t)
  PROVE  Marks' /\ (NoneReused /\ ThreadMarked => ThreadMarked')
<1> DEFINE n == run[t].node
           h == thread_node[t]
           lists == run[t].generated
           list == run[t].node_persistent
           thread == IF n = h THEN <<>> ELSE run[t].thread_persistent
           m0 == [matcher EXCEPT ![n] = MarkLists(@, lists)]
           m1 == process_persistent(m0, n, n, list)
           S == NonEmpty(lists)
           P == Preds(list)
           T == Preds(thread)
           mk == [k \in AllNode |-> IF k = n THEN S \cup P ELSE IF k = h THEN T ELSE {}]
<1>1. /\ Preds(<<>>) = {} /\ ToSet(<<>>) = {}
      /\ NoneReused \/ n = h => thread = <<>>
  BY DEF NoneReused, Preds, ToSet
<1>2. /\ matcher' = process_persistent(m1, n, h, thread)
      /\ fresh' = [fresh EXCEPT ![n] = @ \cup Concerned(lists) \cup ConcernedBy(list \o thread)]
  BY Zenon DEF EndRule
<1>3. /\ n \in AllNode /\ h \in AllNode /\ lists \in Lists /\ list \in Seq(Nat)
      /\ ToSet(list) \subseteq DOMAIN info /\ matcher \in [AllNode -> Matchers]
      /\ matcher[n] \in Matchers /\ thread \in Seq(Nat) /\ ToSet(thread) \subseteq DOMAIN info
  BY <1>1, RunFields, ThreadNodes DEF Known, Marks
<1>4. ToSet(list \o thread) = ToSet(list) \cup ToSet(thread) /\ T \subseteq ReusedPred \cap ThreadPred
  <2>1. T \subseteq ReusedPred \cap ThreadPred
    BY <1>1 DEF Preds, OfThread
  <2> HIDE DEF thread, list
  <2> QED
    BY <1>3, <2>1, SeqConcat
<1> HIDE DEF n, h, lists, list, thread
<1>5. /\ m0 \in [AllNode -> Matchers] /\ Marked(matcher[n], m0[n], S)
      /\ \A k \in AllNode : k # n => m0[k] = matcher[k]
  <2>1. Marked(matcher[n], MarkLists(matcher[n], lists), S)
    BY <1>3, MarkListsIs
  <2>2. MarkLists(matcher[n], lists) \in Matchers
    BY <2>1 DEF Marked
  <2> QED
    BY <1>3, <2>1, <2>2
<1> HIDE DEF m0
<1>6. Processed(m0, m1, n, n, list)
  BY <1>3, <1>5, ProcessIs
<1> HIDE DEF m1
<1>7. m1 \in [AllNode -> Matchers]
  BY <1>6 DEF Processed
<1>8. Processed(m1, matcher', n, h, thread)
  BY <1>2, <1>3, <1>7, ProcessIs
<1>9. ASSUME NEW k \in AllNode PROVE Marked(matcher[k], matcher'[k], mk[k])
  <2>1. Marked(matcher[k], m1[k], IF k = n THEN S \cup P ELSE {})
    <3>1. CASE k = n
      BY <1>5, <1>6, <3>1, MarkedTwice DEF Processed
    <3>2. CASE k # n
      <4>1. m1[k] = matcher[k]
        BY <1>5, <1>6, <3>2 DEF Processed
      <4> QED
        BY <1>3, <3>2, <4>1, MarkedNone
    <3> QED
      BY <3>1, <3>2
  <2>2. Marked(m1[k], matcher'[k], IF k = n THEN {} ELSE IF k = h THEN T ELSE {})
    <3>1. CASE k # n /\ k # h
      BY <1>7, <1>8, <3>1, MarkedNone DEF Processed
    <3>2. CASE k = n \/ k = h
      <4>1. T \ ReusedPred = {} /\ T \cap LinearPred = T
        BY <1>4, RunAssumption
      <4>2. n = h => T = {}
        BY <1>1
      <4> QED
        BY <1>8, <3>2, <4>1, <4>2 DEF Processed
    <3> QED
      BY <3>1, <3>2
  <2>3. (IF k = n THEN S \cup P ELSE {}) \cup (IF k = n THEN {} ELSE IF k = h THEN T ELSE {}) = mk[k]
    OBVIOUS
  <2> QED
    BY <2>1, <2>2, <2>3, MarkedTwice
<1>10. matcher' \in [AllNode -> Matchers]
  BY <1>8 DEF Processed
<1>11. \A k \in Node : \A r \in fresh'[k] :
         r \in fresh[k] \/ Body[r] \cap mk[k] # {} \/ Body[r] \cap ThreadPred # {}
  <2>1. ASSUME NEW r \in Concerned(lists) \cup ConcernedBy(list \o thread)
        PROVE  Body[r] \cap (S \cup P) # {} \/ Body[r] \cap ThreadPred # {}
    <3>1. CASE r \in Concerned(lists)
      BY <3>1 DEF Concerned, NonEmpty, linear_rules
    <3>2. CASE r \in ConcernedBy(list \o thread)
      <4>1. PICK f \in ToSet(list) \cup ToSet(thread) : r \in linear_rules(info[f].pred)
        BY <1>4, <3>2 DEF ConcernedBy
      <4>2. info[f].pred \in P \cup T /\ info[f].pred \in Body[r]
        BY <4>1 DEF Preds, linear_rules
      <4> QED
        BY <1>4, <4>2
    <3> QED
      BY <2>1, <3>1, <3>2
  <2>2. fresh' = [fresh EXCEPT ![n] = @ \cup Concerned(lists) \cup ConcernedBy(list \o thread)]
    BY <1>2
  <2> HIDE DEF S, P
  <2> QED
    BY <2>1, <2>2 DEF Types, AllNode
<1>12. ASSUME NEW k \in AllNode, NEW p \in Pred, Facts(k, p)'
       PROVE  \/ Facts(k, p)
              \/ p \in S \cup P /\ (k = n \/ k = Home(t, n, p))
              \/ p \in T /\ k = h
  <2>1. CASE p \in LinearPred
    <3>1. /\ ToSet(linear'[k][p]) = ToSet(linear[k][p]) \cup Brought(t, k, p)
          /\ linear'[k][p] \in Seq(Nat) /\ linear[k][p] \in Seq(Nat)
      BY <2>1, EndRuleLinear DEF Types, Lists
    <3>2. linear'[k][p] # <<>>
      BY <1>12, <2>1 DEF Facts
    <3>3. ToSet(linear[k][p]) # {} \/ Brought(t, k, p) # {}
      <4> DEFINE s == linear'[k][p]
      <4>1. s \in Seq(Nat) /\ s # <<>>
        BY <3>1, <3>2
      <4> HIDE DEF s
      <4>2. ToSet(s) # {}
        BY <4>1, SeqSet
      <4> QED
        BY <3>1, <4>2 DEF s
    <3>4. CASE ToSet(linear[k][p]) # {}
      BY <2>1, <3>1, <3>4, SeqSet DEF Facts
    <3>5. CASE Brought(t, k, p) # {}
      <4>1. /\ ToSet(Reused(list)[p]) = {g \in ToSet(list) : info[g].pred = p}
            /\ lists[p] \in Seq(Nat)
        BY <1>3, <2>1, ReusedIs DEF Lists
      <4>2. ToSet(Reused(thread)[p]) = {g \in ToSet(thread) : info[g].pred = p}
        BY <1>3, <2>1, ReusedIs
      <4>3. n # h => thread = run[t].thread_persistent
        BY DEF thread
      <4>4. \/ k = Home(t, n, p) /\ ToSet(lists[p]) # {}
            \/ k = n /\ ToSet(Reused(list)[p]) # {}
            \/ k = h /\ ToSet(Reused(thread)[p]) # {}
        BY <3>5, <4>3 DEF Brought, n, h, lists, list
      <4>5. ToSet(lists[p]) # {} => lists[p] # <<>>
        BY <1>1
      <4> QED
        BY <2>1, <4>1, <4>2, <4>4, <4>5 DEF NonEmpty, Preds
    <3> QED
      BY <3>3, <3>4, <3>5
  <2>2. CASE p \notin LinearPred
    <3>1. pers_store' = pers_store /\ info' = info
      BY EndRuleRun
    <3> QED
      BY <1>12, <2>2, <3>1 DEF Facts
  <2> QED
    BY <2>1, <2>2
<1>13. \A u \in Thread : InUse(u)' = InUse(u)
  <2>1. /\ run[t].pc = "match" /\ run' = [run EXCEPT ![t] = run'[t]] /\ run'[t] \in Runs
        /\ run'[t].node = run[t].node /\ run'[t].pc \in {"rules", "end"}
    BY EndRuleRun
  <2>2. \A u \in Thread : u # t => run'[u] = run[u]
    BY <2>1, RunStep
  <2> QED
    BY <2>1, <2>2 DEF InUse
<1>14. InUse(t) = n /\ owner[n] = t
  <2>1. run[t].pc = "match"
    BY EndRuleRun
  <2> QED
    BY <2>1, InUseOwn DEF InUse, n
<1>15. ASSUME NoneReused, NEW u \in Thread, NEW p \in ThreadPred
       PROVE  /\ p \in matcher[InUse(u)].predicate_existence => p \in matcher'[InUse(u)'].predicate_existence
              /\ Facts(thread_node[u], p)' => \/ Facts(thread_node[u], p)
                                              \/ p \in matcher'[InUse(u)'].predicate_existence
  <2>1. /\ p \in Pred /\ thread_node[u] \in AllNode /\ InUse(u)' = InUse(u) /\ InUse(u) \in AllNode
    BY <1>13, ThreadNodes, InUseOwn, MatcherAssumption
  <2>2. matcher'[InUse(u)].predicate_existence = matcher[InUse(u)].predicate_existence \cup mk[InUse(u)]
    BY <1>9, <2>1 DEF Marked
  <2>3. thread_node[u] = n \/ thread_node[u] = Home(t, n, p) => u = t
    BY <1>14, RunAssumption DEF Home, Own
  <2>4. p \in S \cup P /\ u = t => p \in mk[InUse(u)]
    BY <1>3, <1>14
  <2>5. T = {}
    BY <1>1, <1>15
  <2> HIDE DEF mk, S, P, T
  <2> QED
    BY <1>12, <2>1, <2>2, <2>3, <2>4, <2>5
<1>16. \A k \in Node : \A p \in Pred \ ThreadPred : Facts(k, p)' => Facts(k, p) \/ p \in mk[k]
  <2>1. \A k \in Node : k \in AllNode /\ k # h
    BY ThreadNodes DEF AllNode, h
  <2> HIDE DEF S, P, T
  <2> QED
    BY <1>12, <2>1 DEF Home
<1> HIDE DEF mk
<1>17. Grown(mk)
  BY <1>9, <1>10, <1>11, <1>16 DEF Grown
<1>18. NoneReused => GrownThreads
  BY <1>15 DEF GrownThreads
<1> QED
  BY <1>17, <1>18, GrownKeeps, ThreadsKeep

\* Taking a rule from the queue keeps the marks.
LEMMA MarksNextRule ==
  ASSUME Types, Known, Own, Marks, NEW t \in Thread, NextRule(t)
  PROVE  MarksKept
<1> DEFINE n == run[t].node
<1>1. matcher \in [AllNode -> Matchers]
  BY DEF Marks
<1>2. PICK r \in matcher[n].rule_queue :
        /\ Goes(t, run'[t]) /\ run[t].pc = "rules" /\ run'[t].pc = "match"
        /\ run'[t].node = n
        /\ matcher' = [matcher EXCEPT ![n].rule_queue = @ \ {r}]
        /\ fresh' = [fresh EXCEPT ![n] = @ \ {r}]
        /\ UNCHANGED <<info, owner, linear, pers_store, incoming, incoming_persistent,
                       unprocessed_facts, facts_to_send>>
  BY <1>1, NextRuleIs
<1> DEFINE w == [matcher[n] EXCEPT !.rule_queue = @ \ {r}]
<1>3. n \in AllNode /\ matcher[n] \in Matchers
  BY <1>1, RunFields
<1> HIDE DEF n
<1>4. /\ w \in Matchers /\ w.rules = matcher[n].rules
      /\ w.predicate_existence = matcher[n].predicate_existence
      /\ w.rule_queue = matcher[n].rule_queue \ {r}
      /\ matcher' = [matcher EXCEPT ![n] = w]
  BY <1>1, <1>2, <1>3 DEF Matchers
<1> HIDE DEF w
<1>5. matcher' \in [AllNode -> Matchers] /\ matcher'[n] = w /\ \A k \in AllNode : k # n => matcher'[k] = matcher[k]
  BY <1>1, <1>3, <1>4
<1>6. \A k \in AllNode : matcher'[k].predicate_existence = matcher[k].predicate_existence
  BY <1>4, <1>5
<1>7. ASSUME NEW k \in Node PROVE Exact(matcher'[k])
  <2>1. k \in AllNode /\ Exact(matcher[k])
    BY DEF AllNode, Marks
  <2> QED
    BY <1>4, <1>5, <2>1 DEF Exact
<1>8. ASSUME NEW k, NEW p PROVE Facts(k, p)' <=> Facts(k, p)
  BY <1>2 DEF Facts
<1>9. \A u \in Thread : InUse(u)' = InUse(u) /\ InUse(u) \in AllNode
  <2>1. \A u \in Thread : InUse(u)' = InUse(u)
    BY <1>2 DEF InUse, Goes, n
  <2> QED
    BY <2>1, InUseOwn
<1>10. NodeMarked'
  BY <1>6, <1>8 DEF Marks, NodeMarked, AllNode
<1>11. ASSUME ThreadMarked PROVE ThreadMarked'
  BY <1>6, <1>8, <1>9, <1>11 DEF ThreadMarked
<1>12. Tried'
  <2>1. ASSUME NEW k \in Node, NEW s \in fresh'[k], Body[s] \cap ThreadPred = {},
               Body[s] \subseteq matcher'[k].predicate_existence
        PROVE  s \in matcher'[k].rule_queue
    <3>1. k \in AllNode
      BY DEF AllNode
    <3>2. s \in fresh[k] /\ (k = n => s # r)
      BY <1>2, <3>1 DEF Types
    <3>3. s \in matcher[k].rule_queue
      BY <1>6, <2>1, <3>1, <3>2 DEF Marks, Tried
    <3> QED
      BY <1>4, <1>5, <3>1, <3>2, <3>3
  <2> QED
    BY <2>1 DEF Tried
<1> QED
  BY <1>5, <1>7, <1>10, <1>11, <1>12 DEF Marks, MarksKept

\* The end of a matched rule keeps the marks.
LEMMA MarksUnwind ==
  ASSUME Types, Known, Types', Own, Marks, NEW t \in Thread, Unwind(t)
  PROVE  MarksKept
<1>1. PICK consumed, updated, stay, silent :
        /\ consumed \cup updated \subseteq {f \in run[t].used : info[f].pred \in LinearPred}
        /\ GiveUp(t, consumed, updated, stay, silent)
  BY UnwindIs
<1> DEFINE n == run[t].node
           h == thread_node[t]
           tried == {info[f].pred : f \in updated}
           emptied == {p \in LinearPred : linear'[Home(t, n, p)][p] = <<>>
                         /\ \E f \in consumed \ silent : info[f].pred = p}
           v == update_all(matcher[n], tried)
           w == empty_all(v, emptied)
<1>2. /\ matcher' = [matcher EXCEPT ![n] = w]
      /\ fresh' = [fresh EXCEPT ![n] = @ \cup UNION {linear_rules(p) : p \in tried}]
  BY <1>1, Zenon DEF GiveUp
<1>3. /\ \A k \in AllNode : \A p \in LinearPred : linear'[k][p] # <<>> => linear[k][p] # <<>>
      /\ \A f \in DOMAIN info : info'[f].pred = info[f].pred
      /\ run' = [run EXCEPT ![t] = run'[t]] /\ run'[t] \in Runs
      /\ run'[t].pc = "match" /\ run'[t].node = n
  <2>1. consumed \cup updated \subseteq run[t].used
    BY <1>1
  <2> QED
    BY <1>1, <2>1, GiveUpIs
<1>4. pers_store' = pers_store /\ run[t].pc = "fire"
  BY UnwindIs
<1>5. /\ n \in AllNode /\ h \in AllNode /\ matcher \in [AllNode -> Matchers] /\ matcher[n] \in Matchers
      /\ tried \in SUBSET Pred /\ emptied \in SUBSET Pred
  <2>1. tried \in SUBSET Pred
    BY <1>1, RunAssumption
  <2>2. emptied \in SUBSET Pred
    BY RunAssumption
  <2> QED
    BY <2>1, <2>2, RunFields, ThreadNodes DEF Marks
<1>6. ASSUME NEW p \in emptied PROVE p \in LinearPred /\ linear'[Home(t, n, p)][p] = <<>>
  OBVIOUS
<1> HIDE DEF n, h, tried, emptied
<1>7. Updated(matcher[n], v, tried)
  BY <1>5, FoldQueues DEF update_all
<1> HIDE DEF v
<1>8. Emptied(v, w, emptied)
  <2>1. v \in Matchers
    BY <1>7 DEF Updated
  <2> QED
    BY <1>5, <2>1, FoldUnmarks DEF empty_all
<1> HIDE DEF w
<1>9. /\ matcher' \in [AllNode -> Matchers] /\ matcher'[n] = w
      /\ \A k \in AllNode : k # n => matcher'[k] = matcher[k]
      /\ w.predicate_existence = matcher[n].predicate_existence \ emptied
  BY <1>2, <1>5, <1>7, <1>8 DEF Updated, Emptied
<1>10. ASSUME NEW k \in AllNode, NEW p \in Pred, Facts(k, p)' PROVE Facts(k, p)
  BY <1>3, <1>4, <1>10 DEF Facts, Known
<1>11. InUse(t) = n /\ owner[n] = t /\ \A u \in Thread : InUse(u)' = InUse(u)
  <2>1. \A u \in Thread : u # t => run'[u] = run[u]
    BY <1>3, RunStep
  <2>2. \A u \in Thread : InUse(u)' = InUse(u)
    BY <1>3, <1>4, <2>1 DEF InUse, n
  <2> QED
    BY <1>4, <2>2, InUseOwn DEF InUse, n
<1>12. ASSUME NEW k \in Node PROVE Exact(matcher'[k])
  <2>1. k \in AllNode /\ Exact(matcher[k])
    BY DEF AllNode, Marks
  <2> QED
    BY <1>7, <1>8, <1>9, <2>1 DEF Updated, Emptied
<1>13. ASSUME NEW k \in Node, NEW p \in Pred \ ThreadPred, Facts(k, p)'
       PROVE  p \in matcher'[k].predicate_existence
  <2>1. k \in AllNode /\ p \in matcher[k].predicate_existence
    BY <1>10, <1>13 DEF AllNode, Marks, NodeMarked
  <2>2. k = n => p \notin emptied
    BY <1>6, <1>13 DEF Facts, Home
  <2> QED
    BY <1>9, <2>1, <2>2
<1>14. ASSUME ThreadMarked, NEW u \in Thread, NEW p \in ThreadPred, Facts(thread_node[u], p)'
       PROVE  p \in matcher'[InUse(u)'].predicate_existence
  <2>1. thread_node[u] \in AllNode /\ p \in Pred
    BY ThreadNodes, MatcherAssumption
  <2>2. p \in matcher[InUse(u)].predicate_existence /\ InUse(u) \in AllNode /\ InUse(u)' = InUse(u)
    BY <1>10, <1>11, <1>14, <2>1, InUseOwn DEF ThreadMarked
  <2>3. InUse(u) = n => u = t
    BY <1>11, InUseOwn
  <2>4. u = t => p \notin emptied
    BY <1>6, <1>14 DEF Facts, Home, h
  <2> QED
    BY <1>9, <2>2, <2>3, <2>4
<1>15. ASSUME NEW k \in Node, NEW r \in fresh'[k], Body[r] \cap ThreadPred = {},
              Body[r] \subseteq matcher'[k].predicate_existence
       PROVE  r \in matcher'[k].rule_queue
  <2>1. k \in AllNode /\ Exact(matcher[k]) /\ r \in Rule
    BY DEF AllNode, Marks, Types
  <2>2. CASE k # n
    <3>1. r \in fresh[k] /\ matcher'[k] = matcher[k]
      BY <1>2, <1>9, <2>1, <2>2 DEF Types
    <3> QED
      BY <1>15, <3>1 DEF Marks, Tried
  <2>3. CASE k = n
    <3>1. r \in fresh[k] \/ Body[r] \cap tried # {}
      <4>1. \A s \in UNION {linear_rules(p) : p \in tried} : Body[s] \cap tried # {}
        BY DEF linear_rules
      <4>2. r \in fresh[k] \cup UNION {linear_rules(p) : p \in tried}
        BY <1>2, <2>1, <2>3 DEF Types
      <4> QED
        BY <4>1, <4>2
    <3>2. Body[r] \subseteq matcher[n].predicate_existence /\ Body[r] \cap emptied = {}
      BY <1>9, <1>15, <2>3
    <3>3. Body[r] \subseteq v.predicate_existence
      BY <1>7, <3>2 DEF Updated
    <3>4. r \in v.rule_queue
      <4>1. CASE r \in fresh[k]
        <5>1. r \in matcher[n].rule_queue
          BY <1>15, <2>3, <3>2, <4>1 DEF Marks, Tried
        <5> QED
          BY <1>7, <5>1 DEF Updated
      <4>2. CASE Body[r] \cap tried # {}
        BY <1>7, <2>1, <2>3, <3>3, <4>2 DEF Updated
      <4> QED
        BY <3>1, <4>1, <4>2
    <3> QED
      BY <1>8, <1>9, <2>3, <3>2, <3>4 DEF Emptied
  <2> QED
    BY <2>2, <2>3
<1>16. NodeMarked' /\ (ThreadMarked => ThreadMarked') /\ Tried'
  BY <1>13, <1>14, <1>15 DEF NodeMarked, ThreadMarked, Tried
<1> QED
  BY <1>9, <1>12, <1>16 DEF Marks, MarksKept

\* The end of a run gives the marks of the thread back to it.
LEMMA EndRunMatcher ==
  ASSUME Types, Own, Marks, NEW t \in Thread, EndRun(t), ThreadPred # {}, run[t].node # thread_node[t]
  PROVE  LET n == run[t].node
             h == thread_node[t]
         IN  /\ matcher' \in [AllNode -> Matchers]
             /\ Emptied(matcher[n], matcher'[n], ThreadPred)
             /\ matcher'[h].predicate_existence = ThreadPred \cap matcher[n].predicate_existence
             /\ \A k \in AllNode : k # n /\ k # h => matcher'[k] = matcher[k]
<1> DEFINE n == run[t].node
           h == thread_node[t]
           v == empty_all(matcher[n], ThreadPred)
           w == [matcher[h] EXCEPT !.predicate_existence = ThreadPred \cap matcher[n].predicate_existence]
<1>1. /\ n \in AllNode /\ h \in AllNode /\ n # h /\ matcher \in [AllNode -> Matchers]
      /\ matcher[n] \in Matchers /\ matcher[h] \in Matchers
  BY RunFields, ThreadNodes DEF Marks
<1>2. Emptied(matcher[n], v, ThreadPred)
  BY <1>1, FoldUnmarks, MatcherAssumption DEF empty_all
<1>3. w \in Matchers /\ w.predicate_existence = ThreadPred \cap matcher[n].predicate_existence
  BY <1>1 DEF Matchers
<1>4. v \in Matchers
  BY <1>2 DEF Emptied
<1>5. matcher' = [matcher EXCEPT ![n] = v, ![h] = w]
  BY <1>1 DEF EndRun, remove_thread
<1> HIDE DEF v, w, n, h
<1>6. /\ matcher' \in [AllNode -> Matchers] /\ matcher'[n] = v /\ matcher'[h] = w
      /\ \A k \in AllNode : k # n /\ k # h => matcher'[k] = matcher[k]
  BY <1>1, <1>3, <1>4, <1>5
<1> QED
  BY <1>2, <1>3, <1>6 DEF n, h

\* The end of the rules of a run keeps the marks.
LEMMA MarksEndRun ==
  ASSUME Types, Known, Own, Marks, NEW t \in Thread, EndRun(t)
  PROVE  MarksKept
<1> DEFINE n == run[t].node
           h == thread_node[t]
<1>1. /\ run' = [run EXCEPT ![t] = run'[t]] /\ run'[t] \in Runs /\ run'[t].pc = "sync"
      /\ UNCHANGED <<info, owner, linear, pers_store, fresh>>
  BY EndRunIs
<1>2. run[t].pc \in {"rules", "end"} /\ InUse(t) = n /\ InUse(t)' = h
      /\ \A u \in Thread : u # t => InUse(u)' = InUse(u)
  <2>1. \A u \in Thread : u # t => run'[u] = run[u]
    BY <1>1, RunStep
  <2>2. run[t].pc \in {"rules", "end"}
    BY DEF EndRun
  <2> QED
    BY <1>1, <2>1, <2>2 DEF InUse
<1>3. n \in AllNode /\ h \in AllNode /\ owner[n] = t /\ owner[h] = t
  BY <1>2, InUseOwn, ThreadNodes DEF Own
<1>4. ASSUME NEW k, NEW p PROVE Facts(k, p)' <=> Facts(k, p)
  BY <1>1 DEF Facts
<1>5. CASE n = h
  <2>1. matcher' = matcher
    BY <1>5 DEF EndRun
  <2>2. \A u \in Thread : InUse(u)' = InUse(u)
    BY <1>2, <1>5
  <2> QED
    BY <1>1, <2>1, <2>2, MarksSame
<1>6. CASE ThreadPred = {}
  <2>1. matcher' = matcher
    BY <1>6 DEF EndRun
  <2>2. NodeMarked' /\ (ThreadMarked => ThreadMarked') /\ Tried'
    BY <1>1, <1>4, <1>6, <2>1 DEF Marks, NodeMarked, ThreadMarked, Tried
  <2> QED
    BY <2>1, <2>2 DEF Marks, MarksKept
<1>7. CASE n # h /\ ThreadPred # {}
  <2>1. /\ matcher' \in [AllNode -> Matchers]
        /\ Emptied(matcher[n], matcher'[n], ThreadPred)
        /\ matcher'[h].predicate_existence = ThreadPred \cap matcher[n].predicate_existence
        /\ \A k \in AllNode : k # n /\ k # h => matcher'[k] = matcher[k]
    BY <1>7, EndRunMatcher
  <2>2. ASSUME NEW k \in Node PROVE k \in AllNode /\ k # h
    BY ThreadNodes DEF AllNode
  <2> HIDE DEF n, h
  <2>3. ASSUME NEW k \in Node PROVE Exact(matcher'[k])
    BY <2>1, <2>2 DEF Emptied, Marks
  <2>4. ASSUME NEW k \in Node, NEW p \in Pred \ ThreadPred, Facts(k, p)'
        PROVE  p \in matcher'[k].predicate_existence
    <3>1. p \in matcher[k].predicate_existence
      BY <1>4, <2>4 DEF Marks, NodeMarked
    <3> QED
      BY <2>1, <2>2, <3>1 DEF Emptied
  <2>5. ASSUME ThreadMarked, NEW u \in Thread, NEW p \in ThreadPred, Facts(thread_node[u], p)'
        PROVE  p \in matcher'[InUse(u)'].predicate_existence
    <3>1. p \in matcher[InUse(u)].predicate_existence
      BY <1>4, <2>5 DEF ThreadMarked
    <3>2. CASE u = t
      BY <1>2, <2>1, <3>1, <3>2
    <3>3. CASE u # t
      <4>1. InUse(u)' = InUse(u) /\ InUse(u) # n /\ InUse(u) # h /\ InUse(u) \in AllNode
        BY <1>2, <1>3, <3>3, InUseOwn
      <4> QED
        BY <2>1, <3>1, <4>1
    <3> QED
      BY <3>2, <3>3
  <2>6. ASSUME NEW k \in Node, NEW r \in fresh'[k], Body[r] \cap ThreadPred = {},
               Body[r] \subseteq matcher'[k].predicate_existence
        PROVE  r \in matcher'[k].rule_queue
    <3>1. matcher'[k].predicate_existence \subseteq matcher[k].predicate_existence
      BY <2>1, <2>2 DEF Emptied
    <3>2. r \in matcher[k].rule_queue
      BY <1>1, <2>6, <3>1 DEF Marks, Tried
    <3> QED
      BY <2>1, <2>2, <2>6, <3>2 DEF Emptied
  <2>7. NodeMarked' /\ (ThreadMarked => ThreadMarked') /\ Tried'
    BY <2>4, <2>5, <2>6 DEF NodeMarked, ThreadMarked, Tried
  <2> QED
    BY <2>1, <2>3, <2>7 DEF Marks, MarksKept
<1> QED
  BY <1>5, <1>6, <1>7

\* Every step keeps the marks; those of thread nodes too, where no reused fact is one of a thread.
LEMMA NextMarks ==
  ASSUME Types, Known, Types', Own, OfThread, Marks, [Next]_vars
  PROVE  Marks' /\ (NoneReused /\ ThreadMarked => ThreadMarked')
<1>1. CASE UNCHANGED vars
  <2>1. \A u \in Thread : InUse(u)' = InUse(u)
    BY <1>1 DEF vars, InUse
  <2> QED
    BY <1>1, <2>1, MarksSame DEF vars, MarksKept
<1>2. ASSUME NEW t \in Thread, Match(t) PROVE MarksKept
  <2>1. /\ Goes(t, run'[t]) /\ run[t].pc = "match" /\ run'[t].pc = "fire"
        /\ run'[t].node = run[t].node /\ UNCHANGED <<info, linear, pers_store, matcher, fresh>>
    BY <1>2, MatchIs
  <2>2. \A u \in Thread : InUse(u)' = InUse(u)
    BY <1>2, <2>1 DEF InUse, Goes
  <2> QED
    BY <2>1, <2>2, MarksSame
<1>3. ASSUME NEW t \in Thread, Done(t) PROVE MarksKept
  <2>1. /\ run[t].pc = "sync" /\ run' = [run EXCEPT ![t] = run'[t]] /\ run'[t] \in Runs
        /\ run'[t].pc = "idle" /\ UNCHANGED <<info, linear, pers_store, matcher, fresh>>
    BY <1>3, DoneIs
  <2>2. \A u \in Thread : u # t => run'[u] = run[u]
    BY <1>3, <2>1, RunStep
  <2>3. \A u \in Thread : InUse(u)' = InUse(u)
    BY <1>3, <2>1, <2>2 DEF InUse
  <2> QED
    BY <2>1, <2>3, MarksSame
<1>4. ASSUME NEW t \in Thread, Run(t)
      PROVE  Marks' /\ (NoneReused /\ ThreadMarked => ThreadMarked')
  BY <1>2, <1>3, <1>4, MarksBegin, MarksAddThread, MarksNextRule, MarksDerive, MarksUnwind,
     MarksEndRule, MarksEndRun, MarksSync DEF Run, MarksKept
<1> QED
  BY <1>1, <1>4 DEF Next

\* Every step keeps OfThread.
LEMMA NextOfThread ==
  ASSUME Types, Known, OfThread, matcher \in [AllNode -> Matchers], [Next]_vars
  PROVE  OfThread'
<1>1. CASE UNCHANGED vars
  BY <1>1 DEF vars, OfThread
<1>2. ASSUME NEW t \in Thread, run' = [run EXCEPT ![t] = run'[t]], run'[t] \in Runs,
             run'[t].thread_persistent \in {run[t].thread_persistent, <<>>},
             \A f \in DOMAIN info : info'[f].pred = info[f].pred
      PROVE  OfThread'
  <2>1. \A u \in Thread : u # t => run'[u] = run[u]
    BY <1>2, RunStep
  <2>2. ToSet(<<>>) = {}
    BY DEF ToSet
  <2> QED
    BY <1>2, <2>1, <2>2 DEF OfThread, Known
<1>3. ASSUME NEW t \in Thread, Begin(t) PROVE OfThread'
  <2>1. /\ run' = [run EXCEPT ![t] = run'[t]] /\ run'[t] \in Runs
        /\ run'[t].thread_persistent = run[t].thread_persistent /\ info' = info
    BY <1>3, BeginIs DEF Goes, Begun
  <2> QED
    BY <1>2, <1>3, <2>1
<1>4. ASSUME NEW t \in Thread, AddThread(t) PROVE OfThread'
  <2>1. info' = info
    BY <1>4 DEF AddThread
  <2> QED
    BY <1>2, <1>4, <2>1, AddThreadIs DEF Goes, SameLists
<1>5. ASSUME NEW t \in Thread, NextRule(t) PROVE OfThread'
  BY <1>2, <1>5, NextRuleIs DEF Goes, SameLists
<1>6. ASSUME NEW t \in Thread, Match(t) PROVE OfThread'
  BY <1>2, <1>6, MatchIs DEF Goes, SameLists
<1>7. ASSUME NEW t \in Thread, Derive(t) PROVE OfThread'
  <2>1. PICK p \in Pred : Derived(t, p)
    BY <1>7, DeriveIs
  <2> DEFINE g == Len(info) + 1
             a == run[t].thread_persistent
             b == run'[t].thread_persistent
  <2>2. Goes(t, run'[t]) /\ run[t].node \in AllNode /\ a \in Seq(Nat)
    BY <1>7, <2>1, DeriveRun, RunFields
  <2>3. g \in Nat /\ info'[g].pred = p /\ \A f \in DOMAIN info : info'[f] = info[f]
    BY <2>1, <2>2, InfoGrows DEF Derived
  <2>4. b = a \/ (p \in ReusedPred /\ p \in ThreadPred /\ b = Append(a, g))
    <3>1. CASE DeriveEnqueue(t, p)
      <4>1. PICK r \in Enqueued(run[t], g, p) : run' = [run EXCEPT ![t] = r]
        BY <3>1 DEF DeriveEnqueue
      <4>2. p \in LinearPred
        BY <3>1 DEF DeriveEnqueue
      <4>3. Put(run[t], r, g, p)
        BY <1>7, <2>3, <4>2, EnqueuedIs
      <4>4. run'[t] = r
        BY <1>7, <4>1 DEF Types
      <4> QED
        BY <4>3, <4>4 DEF Put
    <3>2. CASE ~DeriveEnqueue(t, p)
      BY <1>7, <2>1, <3>2, DeriveRun DEF SameLists
    <3> QED
      BY <3>1, <3>2
  <2> HIDE DEF g
  <2>5. ToSet(Append(a, g)) = ToSet(a) \cup {g}
    BY <2>2, <2>3, SeqAppend
  <2>6. \A f \in ToSet(a) : f \in DOMAIN info /\ info[f].pred \in ReusedPred \cap ThreadPred
    BY <1>7 DEF OfThread, Known
  <2>7. \A f \in ToSet(b) : info'[f].pred \in ReusedPred \cap ThreadPred
    BY <2>3, <2>4, <2>5, <2>6
  <2>8. ASSUME NEW u \in Thread, u # t, NEW f \in ToSet(run'[u].thread_persistent)
        PROVE  info'[f].pred \in ReusedPred \cap ThreadPred
    BY <2>2, <2>3, <2>8 DEF Goes, OfThread, Known
  <2> QED
    BY <2>7, <2>8 DEF OfThread
<1>8. ASSUME NEW t \in Thread, Unwind(t) PROVE OfThread'
  <2>1. PICK consumed, updated, stay, silent :
          /\ consumed \cup updated \subseteq {f \in run[t].used : info[f].pred \in LinearPred}
          /\ GiveUp(t, consumed, updated, stay, silent)
    BY <1>8, UnwindIs
  <2>2. consumed \cup updated \subseteq run[t].used
    BY <2>1
  <2>3. /\ run' = [run EXCEPT ![t] = run'[t]] /\ run'[t] \in Runs
        /\ run'[t].thread_persistent = run[t].thread_persistent
        /\ \A f \in DOMAIN info : info'[f].pred = info[f].pred
    BY <1>8, <2>1, <2>2, GiveUpIs
  <2> QED
    BY <1>2, <1>8, <2>3
<1>9. ASSUME NEW t \in Thread, EndRule(t) PROVE OfThread'
  <2>1. /\ run' = [run EXCEPT ![t] = run'[t]] /\ run'[t] \in Runs
        /\ run'[t].thread_persistent =
             IF run[t].node = thread_node[t] THEN run[t].thread_persistent ELSE <<>>
        /\ info' = info
    BY <1>9, EndRuleRun
  <2> QED
    BY <1>2, <1>9, <2>1
<1>10. ASSUME NEW t \in Thread, EndRun(t) PROVE OfThread'
  <2>1. /\ run' = [run EXCEPT ![t] = run'[t]] /\ run'[t] \in Runs
        /\ run'[t].thread_persistent = run[t].thread_persistent /\ info' = info
    BY <1>10, EndRunIs
  <2> QED
    BY <1>2, <1>10, <2>1
<1>11. ASSUME NEW t \in Thread, Sync(t) PROVE OfThread'
  <2>1. run' = run /\ info' = info
    BY <1>11, SyncIs DEF SyncTo
  <2> QED
    BY <2>1 DEF OfThread
<1>12. ASSUME NEW t \in Thread, Done(t) PROVE OfThread'
  <2>1. /\ run' = [run EXCEPT ![t] = run'[t]] /\ run'[t] \in Runs
        /\ run'[t].thread_persistent = run[t].thread_persistent /\ info' = info
    BY <1>12, DoneIs
  <2> QED
    BY <1>2, <1>12, <2>1
<1>13. ASSUME NEW t \in Thread, Run(t) PROVE OfThread'
  BY <1>3, <1>4, <1>5, <1>6, <1>7, <1>8, <1>9, <1>10, <1>11, <1>12, <1>13 DEF Run
<1> QED
  BY <1>1, <1>13 DEF Next

-----------------------------------------------------------------------------
(* A node that is left with a queue is run again *)

\* A step of a thread that goes on running its node.
LEMMA AwakeBusy ==
  ASSUME Types, Awake, NEW t \in Thread, Goes(t, run'[t]), run'[t].pc \notin {"idle", "sync"},
         run[t].pc \in {"idle", "sync"} \/ run'[t].node = run[t].node,
         run'[t].pc = "end" => unprocessed_facts'[run'[t].node],
         \A k \in Node : k # run'[t].node =>
           /\ matcher'[k].rule_queue = matcher[k].rule_queue
           /\ unprocessed_facts[k] => unprocessed_facts'[k],
         \A u \in Thread : u # t /\ run[u].pc = "end" => unprocessed_facts'[run[u].node]
  PROVE  Awake'
<1>1. ASSUME NEW n \in Node, Resting(n)' PROVE matcher'[n].rule_queue = {}
  <2>1. n # run'[t].node
    BY <1>1 DEF Resting
  <2>2. ~unprocessed_facts[n] /\ matcher'[n].rule_queue = matcher[n].rule_queue
    BY <1>1, <2>1 DEF Resting
  <2>3. ASSUME NEW u \in Thread, run[u].node = n, run[u].pc \notin {"idle", "sync"} PROVE FALSE
    <3>1. u # t
      BY <2>1, <2>3
    <3>2. run'[u] = run[u]
      BY <3>1 DEF Goes
    <3> QED
      BY <1>1, <2>3, <3>2 DEF Resting
  <2>4. Resting(n)
    BY <2>2, <2>3 DEF Resting
  <2> QED
    BY <2>2, <2>4 DEF Awake
<1>2. ASSUME NEW u \in Thread, run'[u].pc = "end" PROVE unprocessed_facts'[run'[u].node]
  BY <1>2 DEF Goes
<1> QED
  BY <1>1, <1>2 DEF Awake

\* The start of a run wakes the rules of the facts it takes in.
LEMMA AwakeBegin ==
  ASSUME Types, Known, Types', Own, Marks, Awake, NEW t \in Thread, Begin(t)
  PROVE  Awake'
<1>1. PICK n \in AllNode :
        /\ Begun(t, n) /\ Goes(t, run'[t]) /\ run'[t].node = n
        /\ run'[t].pc = IF ThreadPred # {} /\ n # thread_node[t] THEN "thread" ELSE "rules"
  BY BeginIs
<1>2. /\ unprocessed_facts' = [unprocessed_facts EXCEPT ![n] = FALSE]
      /\ matcher' = process_persistent(process_incoming(matcher, n, n), n, n, incoming_persistent[n])
      /\ run[t].pc = "idle" /\ owner[n] = t
  BY <1>1, Zenon DEF Begun
<1>3. \A k \in AllNode : k # n => matcher'[k] = matcher[k]
  <2>1. matcher \in [AllNode -> Matchers]
    BY DEF Marks
  <2> QED
    BY <1>2, <2>1 DEF process_persistent, process_incoming
<1>4. ASSUME NEW k \in Node, k # n
      PROVE  /\ matcher'[k].rule_queue = matcher[k].rule_queue
             /\ unprocessed_facts[k] => unprocessed_facts'[k]
  BY <1>2, <1>3, <1>4 DEF Types, AllNode
<1>5. ASSUME NEW u \in Thread, u # t, run[u].pc = "end" PROVE unprocessed_facts'[run[u].node]
  <2>1. run[u].node \in AllNode /\ owner[run[u].node] = u /\ unprocessed_facts[run[u].node]
    BY <1>5, RunFields DEF Own, Awake
  <2> QED
    BY <1>2, <1>5, <2>1 DEF Types
<1> QED
  BY <1>1, <1>2, <1>4, <1>5, AwakeBusy

\* Taking the facts of the thread node wakes their rules.
LEMMA AwakeAddThread ==
  ASSUME Types, Known, Types', Own, Marks, Awake, NEW t \in Thread, AddThread(t)
  PROVE  Awake'
<1> DEFINE n == run[t].node
           h == thread_node[t]
<1>1. /\ Goes(t, run'[t]) /\ run[t].pc = "thread" /\ run'[t].pc = "rules" /\ run'[t].node = n
  BY AddThreadIs
<1>2. n \in AllNode /\ h \in AllNode /\ owner[h] = t
  BY RunFields, ThreadNodes DEF Own
<1>3. unprocessed_facts' = [unprocessed_facts EXCEPT ![h] = FALSE]
  BY DEF AddThread
<1>4. \A k \in AllNode : k # n /\ k # h => matcher'[k] = matcher[k]
  <2>1. matcher \in [AllNode -> Matchers]
    BY DEF Marks
  <2> DEFINE m == process_persistent(process_incoming(matcher, n, h), n, h, incoming_persistent[h])
  <2>2. matcher' = [m EXCEPT ![n] = add_thread(@, m[h])]
    BY Zenon DEF AddThread
  <2>3. \A k \in AllNode : k # n /\ k # h => m[k] = matcher[k]
    BY <2>1 DEF process_persistent, process_incoming
  <2>4. m = [k \in AllNode |-> m[k]]
    BY <2>1 DEF process_persistent, process_incoming
  <2> HIDE DEF m
  <2> QED
    BY <2>2, <2>3, <2>4
<1>5. ASSUME NEW k \in Node, k # n
      PROVE  /\ matcher'[k].rule_queue = matcher[k].rule_queue
             /\ unprocessed_facts[k] => unprocessed_facts'[k]
  <2>1. k \in AllNode /\ k # h
    BY ThreadNodes DEF AllNode
  <2> QED
    BY <1>3, <1>4, <1>5, <2>1 DEF Types
<1>6. ASSUME NEW u \in Thread, u # t, run[u].pc = "end" PROVE unprocessed_facts'[run[u].node]
  <2>1. run[u].node \in AllNode /\ owner[run[u].node] = u /\ unprocessed_facts[run[u].node]
    BY <1>6, RunFields DEF Own, Awake
  <2> QED
    BY <1>2, <1>3, <1>6, <2>1 DEF Types
<1> QED
  BY <1>1, <1>5, <1>6, AwakeBusy

\* A step within a rule: nodes are only woken, and only the matcher of the own node changes.
LEMMA AwakeRule ==
  ASSUME Types, Awake, NEW t \in Thread, Goes(t, run'[t]), run'[t].node = run[t].node,
         run'[t].pc \notin {"idle", "sync"}, run'[t].pc = "end" => unprocessed_facts'[run[t].node],
         \A k \in Node : k # run[t].node => matcher'[k].rule_queue = matcher[k].rule_queue,
         \A k \in AllNode : unprocessed_facts[k] => unprocessed_facts'[k]
  PROVE  Awake'
<1>1. \A k \in Node : k \in AllNode
  BY DEF AllNode
<1>2. \A u \in Thread : u # t /\ run[u].pc = "end" => unprocessed_facts'[run[u].node]
  BY RunFields DEF Awake
<1> QED
  BY <1>1, <1>2, AwakeBusy

\* Every step keeps Awake.
LEMMA NextAwake ==
  ASSUME Types, Known, Types', Own, Marks, Awake, [Next]_vars
  PROVE  Awake'
<1>1. CASE UNCHANGED vars
  BY <1>1 DEF vars, Awake, Resting
<1>2. matcher \in [AllNode -> Matchers] /\ \A k \in Node : k \in AllNode
  BY DEF Marks, AllNode
<1>3. ASSUME NEW t \in Thread, NextRule(t) PROVE Awake'
  <2>1. PICK r \in matcher[run[t].node].rule_queue :
          /\ Goes(t, run'[t]) /\ run'[t].pc = "match" /\ run'[t].node = run[t].node
          /\ matcher' = [matcher EXCEPT ![run[t].node].rule_queue = @ \ {r}]
          /\ unprocessed_facts' = unprocessed_facts
    BY <1>2, <1>3, NextRuleIs
  <2>2. \A k \in Node : k # run[t].node => matcher'[k].rule_queue = matcher[k].rule_queue
    BY <1>2, <2>1
  <2> QED
    BY <1>3, <2>1, <2>2, AwakeRule
<1>4. ASSUME NEW t \in Thread, Match(t) PROVE Awake'
  <2>1. /\ Goes(t, run'[t]) /\ run'[t].pc = "fire" /\ run'[t].node = run[t].node
        /\ UNCHANGED <<matcher, unprocessed_facts>>
    BY <1>4, MatchIs
  <2> QED
    BY <1>4, <2>1, AwakeRule
<1>5. ASSUME NEW t \in Thread, Derive(t) PROVE Awake'
  <2>1. PICK p \in Pred : Derived(t, p)
    BY <1>5, DeriveIs
  <2>2. /\ Goes(t, run'[t]) /\ run'[t].pc \in {"fire", "locked out"} /\ run'[t].node = run[t].node
    BY <1>5, <2>1, DeriveRun
  <2>3. \A k \in Node : k # run[t].node => matcher'[k].rule_queue = matcher[k].rule_queue
    BY <1>2, <2>1 DEF Derived, DeriveLinear, AddLinear, DerivePersistent, AddPersistent, DeriveEnqueue,
                      DeriveForThread, NewThreadWork, DeriveForNode, Send
  <2>4. \/ unprocessed_facts' = unprocessed_facts
        \/ \E k \in AllNode : unprocessed_facts' = [unprocessed_facts EXCEPT ![k] = TRUE]
    <3>1. CASE DeriveLinear(t, p) \/ DerivePersistent(t, p) \/ DeriveEnqueue(t, p)
      BY <3>1 DEF DeriveLinear, AddLinear, DerivePersistent, AddPersistent, DeriveEnqueue
    <3>2. CASE DeriveForThread(t, p)
      BY <3>2 DEF DeriveForThread, NewThreadWork, AllNode
    <3>3. CASE DeriveForNode(t, p)
      BY <1>2, <3>3 DEF DeriveForNode, Send
    <3> QED
      BY <2>1, <3>1, <3>2, <3>3 DEF Derived
  <2>5. \A k \in AllNode : unprocessed_facts[k] => unprocessed_facts'[k]
    BY <2>4 DEF Types
  <2> QED
    BY <1>5, <2>2, <2>3, <2>5, AwakeRule
<1>6. ASSUME NEW t \in Thread, Unwind(t) PROVE Awake'
  <2>1. PICK consumed, updated, stay, silent :
          /\ consumed \cup updated \subseteq {f \in run[t].used : info[f].pred \in LinearPred}
          /\ GiveUp(t, consumed, updated, stay, silent)
    BY <1>6, UnwindIs
  <2>2. consumed \cup updated \subseteq run[t].used
    BY <2>1
  <2>3. /\ run' = [run EXCEPT ![t] = run'[t]] /\ run'[t] \in Runs
        /\ run'[t].pc = "match" /\ run'[t].node = run[t].node
    BY <1>6, <2>1, <2>2, GiveUpIs
  <2>4. Goes(t, run'[t])
    BY <1>6, <2>3, RunStep DEF Goes
  <2>5. \E w : matcher' = [matcher EXCEPT ![run[t].node] = w]
    BY <2>1, Zenon DEF GiveUp
  <2>6. \A k \in Node : k # run[t].node => matcher'[k].rule_queue = matcher[k].rule_queue
    BY <1>2, <2>5
  <2>7. unprocessed_facts' = unprocessed_facts
    BY <1>6, UnwindIs
  <2> QED
    BY <1>6, <2>3, <2>4, <2>6, <2>7, AwakeRule
<1>7. ASSUME NEW t \in Thread, EndRule(t) PROVE Awake'
  <2> DEFINE n == run[t].node
             h == thread_node[t]
  <2>1. /\ run' = [run EXCEPT ![t] = run'[t]] /\ run'[t] \in Runs
        /\ run'[t].pc \in {"rules", "end"} /\ run'[t].node = n
        /\ run'[t].leave = (run'[t].pc = "end")
        /\ unprocessed_facts' = [unprocessed_facts EXCEPT ![n] = @ \/ run'[t].leave]
    BY <1>7, EndRuleRun
  <2>2. Goes(t, run'[t]) /\ n \in AllNode
    BY <1>7, <2>1, RunStep, RunFields DEF Goes
  <2>3. \A k \in AllNode : unprocessed_facts[k] => unprocessed_facts'[k]
    BY <2>1 DEF Types
  <2>4. run'[t].pc = "end" => unprocessed_facts'[n]
    BY <2>1, <2>2 DEF Types
  <2>5. ASSUME NEW k \in Node, k # n PROVE matcher'[k] = matcher[k]
    <3> DEFINE m0 == [matcher EXCEPT ![n] = MarkLists(@, run[t].generated)]
               m1 == process_persistent(m0, n, n, run[t].node_persistent)
               thread == IF n = h THEN <<>> ELSE run[t].thread_persistent
    <3>1. matcher' = process_persistent(m1, n, h, thread)
      BY <1>7, Zenon DEF EndRule
    <3>2. k # h /\ k \in AllNode
      BY <1>2, <1>7, ThreadNodes
    <3>3. m1 = [q \in AllNode |-> m1[q]]
      BY <1>2 DEF process_persistent
    <3>4. m1[k] = matcher[k]
      BY <1>2, <2>5, <3>2 DEF process_persistent
    <3> HIDE DEF m1, n, h, thread
    <3> QED
      BY <2>5, <3>1, <3>2, <3>3, <3>4 DEF process_persistent
  <2> QED
    BY <1>7, <2>1, <2>2, <2>3, <2>4, <2>5, AwakeRule
<1>8. ASSUME NEW t \in Thread, EndRun(t) PROVE Awake'
  <2> DEFINE n == run[t].node
             h == thread_node[t]
  <2>1. /\ run' = [run EXCEPT ![t] = run'[t]] /\ run'[t] \in Runs /\ run'[t].pc = "sync"
        /\ run'[t].node = n /\ unprocessed_facts' = unprocessed_facts
    BY <1>8, EndRunIs
  <2>2. \A u \in Thread : u # t => run'[u] = run[u]
    BY <1>8, <2>1, RunStep
  <2>3. ASSUME NEW k \in Node PROVE k # n => matcher'[k].rule_queue = matcher[k].rule_queue
    <3>1. matcher' = matcher \/ \E v, w : matcher' = [matcher EXCEPT ![n] = v, ![h] = w]
      BY <1>8 DEF EndRun
    <3>2. k # h /\ k \in AllNode
      BY <1>2, <1>8, ThreadNodes
    <3> QED
      BY <1>2, <3>1, <3>2
  <2>4. n \in Node /\ run[t].pc = "rules" => matcher'[n].rule_queue = {}
    <3>1. run[t].pc = "rules" => matcher[n].rule_queue = {}
      BY <1>8 DEF EndRun
    <3>2. CASE ThreadPred # {} /\ n # h
      <4>1. Emptied(matcher[n], matcher'[n], ThreadPred)
        BY <1>8, <3>2, EndRunMatcher
      <4> QED
        BY <3>1, <4>1 DEF Emptied
    <3>3. CASE ~(ThreadPred # {} /\ n # h)
      <4>1. matcher' = matcher
        BY <1>8, <3>3 DEF EndRun
      <4> QED
        BY <3>1, <4>1
    <3> QED
      BY <3>2, <3>3
  <2>5. run[t].pc = "rules" \/ (run[t].pc = "end" /\ unprocessed_facts[n])
    BY <1>8 DEF EndRun, Awake
  <2>6. ASSUME NEW k \in Node, Resting(k)' PROVE matcher'[k].rule_queue = {}
    <3>1. CASE k = n
      BY <2>1, <2>4, <2>5, <2>6, <3>1 DEF Resting
    <3>2. CASE k # n
      <4>1. Resting(k)
        BY <2>1, <2>2, <2>6, <3>2 DEF Resting
      <4> QED
        BY <2>3, <3>2, <4>1 DEF Awake
    <3> QED
      BY <3>1, <3>2
  <2>7. ASSUME NEW u \in Thread, run'[u].pc = "end" PROVE unprocessed_facts'[run'[u].node]
    BY <2>1, <2>2, <2>7 DEF Awake
  <2> QED
    BY <2>6, <2>7 DEF Awake
<1>9. ASSUME NEW t \in Thread, Sync(t) PROVE Awake'
  <2>1. PICK n \in Node : SyncTo(t, n)
    BY <1>9, SyncIs
  <2>2. /\ unprocessed_facts' = [unprocessed_facts EXCEPT ![n] = TRUE] /\ run' = run
        /\ \A k \in Node : k # n => matcher'[k] = matcher[k]
    BY <1>2, <2>1 DEF SyncTo
  <2>3. n \in AllNode /\ unprocessed_facts'[n]
    BY <1>2, <2>2 DEF Types
  <2>4. ASSUME NEW k \in Node, Resting(k)' PROVE matcher'[k].rule_queue = {}
    <3>1. k # n /\ unprocessed_facts'[k] = unprocessed_facts[k]
      BY <1>2, <2>2, <2>3, <2>4 DEF Resting, Types
    <3>2. Resting(k)
      BY <2>2, <2>4, <3>1 DEF Resting
    <3> QED
      BY <2>2, <3>1, <3>2 DEF Awake
  <2>5. ASSUME NEW u \in Thread, run'[u].pc = "end" PROVE unprocessed_facts'[run'[u].node]
    BY <2>2, <2>5, RunFields DEF Awake, Types
  <2> QED
    BY <2>4, <2>5 DEF Awake
<1>10. ASSUME NEW t \in Thread, Done(t) PROVE Awake'
  <2>1. /\ run[t].pc = "sync" /\ run' = [run EXCEPT ![t] = run'[t]] /\ run'[t] \in Runs
        /\ run'[t].pc = "idle" /\ UNCHANGED <<matcher, unprocessed_facts>>
    BY <1>10, DoneIs
  <2>2. \A u \in Thread : u # t => run'[u] = run[u]
    BY <1>10, <2>1, RunStep
  <2>3. ASSUME NEW k \in Node, Resting(k)' PROVE Resting(k)
    BY <2>1, <2>2, <2>3 DEF Resting
  <2>4. ASSUME NEW u \in Thread, run'[u].pc = "end" PROVE unprocessed_facts'[run'[u].node]
    BY <2>1, <2>2, <2>4 DEF Awake
  <2> QED
    BY <2>1, <2>3, <2>4 DEF Awake
<1>11. ASSUME NEW t \in Thread, Run(t) PROVE Awake'
  BY <1>3, <1>4, <1>5, <1>6, <1>7, <1>8, <1>9, <1>10, <1>11, AwakeBegin, AwakeAddThread DEF Run
<1> QED
  BY <1>1, <1>11 DEF Next

\* The marks hold at the start.
LEMMA InitMarks == ASSUME Init PROVE Marks /\ ThreadMarked /\ Awake /\ OfThread
<1>1. /\ pers_store = [n \in AllNode |-> {}]
      /\ matcher = [n \in AllNode |->
                      IF n \in InitNode THEN new_linear_fact(rule_matcher, InitPred) ELSE rule_matcher]
      /\ unprocessed_facts = [n \in AllNode |-> n \in Node \/ ThreadPred # {}]
      /\ run = [t \in Thread |-> Idle]
      /\ fresh = [n \in AllNode |-> IF n \in InitNode THEN linear_rules(InitPred) ELSE {}]
  BY Zenon DEF Init
<1>2. InitPred \in Pred /\ InitNode \subseteq Node /\ Node \subseteq AllNode
  BY RunAssumption DEF AllNode
<1> DEFINE m == rule_matcher
           w == new_linear_fact(m, InitPred)
<1>3. /\ m \in Matchers /\ m.predicate_existence = {} /\ m.rule_queue = {}
      /\ \A r \in Rule : m.rules[r] = 0
  BY DEF rule_matcher, Matchers
<1>4. Exact(m)
  <2>1. \A r \in Rule : Body[r] \cap {} = {} /\ Cardinality({}) = 0
    BY FS_EmptySet
  <2> QED
    BY <1>3, <2>1 DEF Exact
<1> HIDE DEF m
<1>5. Marked(m, w, {InitPred})
  BY <1>2, <1>3, NewFactMarks
<1> HIDE DEF w
<1>6. /\ w \in Matchers /\ Exact(w) /\ InitPred \in w.predicate_existence
      /\ \A r \in linear_rules(InitPred) : Body[r] \subseteq w.predicate_existence => r \in w.rule_queue
  BY <1>4, <1>5 DEF Marked, linear_rules
<1>7. matcher = [n \in AllNode |-> IF n \in InitNode THEN w ELSE m]
  BY <1>1 DEF w, m
<1>8. ASSUME NEW n \in AllNode, NEW p \in Pred, Facts(n, p) PROVE n \in InitNode /\ p = InitPred
  <2>1. p \in LinearPred
    BY <1>1, <1>8 DEF Facts
  <2>2. linear[n][p] # <<>>
    BY <1>8, <2>1 DEF Facts
  <2> QED
    BY <2>1, <2>2, InitFacts
<1>9. matcher \in [AllNode -> Matchers] /\ \A n \in Node : Exact(matcher[n])
  BY <1>2, <1>3, <1>4, <1>6, <1>7
<1>10. NodeMarked
  BY <1>2, <1>6, <1>7, <1>8 DEF NodeMarked
<1>11. ThreadMarked
  BY <1>2, <1>8, ThreadNodes, MatcherAssumption DEF ThreadMarked
<1>12. Tried
  BY <1>1, <1>2, <1>6, <1>7 DEF Tried
<1>13. Awake
  BY <1>1, <1>2, IdleType DEF Awake, Resting
<1>14. OfThread
  BY <1>1, IdleType DEF OfThread, ToSet
<1> QED
  BY <1>9, <1>10, <1>11, <1>12, <1>13, <1>14 DEF Marks

-----------------------------------------------------------------------------
(* The theorems *)

\* The invariant of both.
Agrees == Types /\ Known /\ Own /\ OfThread /\ Marks /\ Awake

\* The matchers agree with the stores at the start.
LEMMA InitAgrees == ASSUME Init PROVE Agrees /\ ThreadMarked
  BY InitTypes, InitOwn, InitMarks DEF Agrees

\* Every step keeps the agreement of matchers and stores.
LEMMA NextAgrees ==
  ASSUME Agrees, [Next]_vars
  PROVE  Agrees' /\ (NoneReused /\ ThreadMarked => ThreadMarked')
<1>1. matcher \in [AllNode -> Matchers] /\ Types /\ Known /\ Own /\ OfThread /\ Marks /\ Awake
  BY DEF Agrees, Marks
<1>2. Types' /\ Known'
  BY <1>1, NextTypes
<1>3. Own' /\ OfThread'
  BY <1>1, NextOwn, NextOfThread
<1>4. Marks' /\ (NoneReused /\ ThreadMarked => ThreadMarked')
  BY <1>1, <1>2, NextMarks
<1>5. Awake'
  BY <1>1, <1>2, NextAwake
<1> QED
  BY <1>2, <1>3, <1>4, <1>5 DEF Agrees

\* A rule that is complete and waits to be tried is queued, and the queue of a node at rest is empty.
LEMMA AgreesForgets == ASSUME Agrees PROVE NothingForgotten
<1> SUFFICES ASSUME NEW n \in Node, Resting(n), NEW r \in fresh[n], Body[r] \cap ThreadPred = {},
                    \A p \in Body[r] : Here(n, p)
             PROVE  FALSE
  BY DEF NothingForgotten
<1>1. n \in AllNode /\ r \in Rule /\ Body[r] \subseteq Pred
  BY MatcherAssumption DEF Agrees, Types, AllNode
<1>2. ASSUME NEW p \in Body[r] PROVE p \in matcher[n].predicate_existence
  <2>1. p \in Pred \ ThreadPred
    BY <1>1, <1>2
  <2>2. Facts(n, p)
    BY <1>2, <2>1 DEF Here, Home, Facts
  <2> QED
    BY <2>1, <2>2 DEF Agrees, Marks, NodeMarked
<1>3. r \in matcher[n].rule_queue
  BY <1>2 DEF Agrees, Marks, Tried
<1> QED
  BY <1>3 DEF Agrees, Awake

\* Matchers that agree with the stores are exact.
LEMMA AgreesExact == ASSUME Agrees, ThreadMarked PROVE MatcherExact
<1> SUFFICES ASSUME NEW n \in Node
             PROVE  /\ \A r \in Rule : matcher[n].rules[r] =
                         Cardinality(Body[r] \cap matcher[n].predicate_existence)
                    /\ \A r \in matcher[n].rule_queue : Body[r] \subseteq matcher[n].predicate_existence
                    /\ \A p \in Pred : (p \notin ThreadPred \/ Running(n)) /\ Here(n, p)
                                         => p \in matcher[n].predicate_existence
  BY DEF MatcherExact
<1>1. Exact(matcher[n])
  BY DEF Agrees, Marks
<1>2. ASSUME NEW p \in Pred, p \notin ThreadPred \/ Running(n), Here(n, p)
      PROVE  p \in matcher[n].predicate_existence
  <2>1. CASE p \notin ThreadPred
    <3>1. Facts(n, p)
      BY <1>2, <2>1 DEF Here, Home, Facts
    <3> QED
      BY <2>1, <3>1 DEF Agrees, Marks, NodeMarked
  <2>2. CASE p \in ThreadPred
    <3>1. PICK t \in Thread : run[t].node = n /\ run[t].pc \notin {"idle", "thread", "sync"}
      BY <1>2, <2>2 DEF Running
    <3>2. owner[n] = t /\ InUse(t) = n
      BY <3>1 DEF Agrees, Own, InUse
    <3>3. Facts(thread_node[t], p)
      BY <1>2, <2>2, <3>2 DEF Here, Home, Facts
    <3> QED
      BY <2>2, <3>2, <3>3 DEF ThreadMarked
  <2> QED
    BY <2>1, <2>2
<1> QED
  BY <1>1, <1>2 DEF Exact

(***************************************************************************)
(* No rule is forgotten by run_node, new_work_list and the rule matcher,   *)
(* for any program, any number of nodes and threads and however nodes move *)
(* between threads: when a regular node is not scheduled any more, every   *)
(* rule all of whose predicates have facts in it was tried after the last  *)
(* of these facts came or was updated.                                     *)
(***************************************************************************)
THEOREM NoRuleForgotten == Spec => []NothingForgotten
<1>1. Init => Agrees
  BY InitAgrees
<1>2. Agrees /\ [Next]_vars => Agrees'
  BY NextAgrees
<1>3. Agrees => NothingForgotten
  BY AgreesForgets
<1> QED
  BY <1>1, <1>2, <1>3, PTL DEF Spec

(***************************************************************************)
(* The counts and marks of the matcher of a regular node agree with each   *)
(* other and with its facts and those of its thread, in a program without  *)
(* reused facts of a thread, the case of every program without             *)
(* thread-local facts.  A reused fact of the thread is marked in           *)
(* the matcher of the thread node and not in the one in use                *)
(* (do_persistent_tuples).                                                 *)
(***************************************************************************)
THEOREM CountsAgree ==
  ASSUME ReusedPred \cap ThreadPred = {}
  PROVE  Spec => []MatcherExact
<1>1. Init => Agrees /\ ThreadMarked
  BY InitAgrees
<1>2. Agrees => NoneReused
  <2> SUFFICES ASSUME Agrees, NEW t \in Thread PROVE run[t].thread_persistent = <<>>
    BY DEF NoneReused
  <2> DEFINE s == run[t].thread_persistent
  <2>1. s \in Seq(Nat)
    BY RunFields DEF Agrees
  <2>2. ToSet(s) = {}
    BY DEF Agrees, OfThread
  <2> HIDE DEF s
  <2>3. s = <<>>
    BY <2>1, <2>2, SeqSet
  <2> QED
    BY <2>3 DEF s
<1>3. (Agrees /\ ThreadMarked) /\ [Next]_vars => (Agrees /\ ThreadMarked)'
  BY <1>2, NextAgrees
<1>4. Agrees /\ ThreadMarked => MatcherExact
  BY AgreesExact
<1> QED
  BY <1>1, <1>3, <1>4, PTL DEF Spec

-----------------------------------------------------------------------------
(* Where the facts are *)

\* A list kept by predicate holds facts of its predicate.
Listed ==
  /\ \A n \in AllNode : \A p \in LinearPred :
       \A f \in ToSet(linear[n][p]) \cup ToSet(incoming[n][p]) : f \in DOMAIN info /\ info[f].pred = p
  /\ \A t \in Thread : \A p \in LinearPred :
       \A f \in ToSet(run[t].generated[p]) : f \in DOMAIN info /\ info[f].pred = p
  /\ \A t \in Thread : \A n \in Node : \A p \in LinearPred :
       \A f \in ToSet(facts_to_send[t][n][p]) : f \in DOMAIN info /\ info[f].pred = p

\* The lists of nodes and of threads hold no fact twice.
Single ==
  /\ \A n \in AllNode : /\ Once(incoming_persistent[n])
                        /\ \A p \in LinearPred : Once(linear[n][p]) /\ Once(incoming[n][p])
  /\ \A t \in Thread : /\ Once(run[t].node_persistent) /\ Once(run[t].thread_persistent)
                       /\ \A p \in LinearPred : Once(run[t].generated[p])
                       /\ \A n \in Node : \A p \in LinearPred : Once(facts_to_send[t][n][p])

\* A fact is where kind, who and dest say: in which list, of which node or thread, and for
\* which destination.
Located(kind, who, dest) ==
  /\ \A n \in AllNode : \A p \in LinearPred :
       \A f \in ToSet(linear[n][p]) : kind[f] = "linear" /\ who[f] = n
  /\ \A n \in AllNode : \A p \in LinearPred :
       \A f \in ToSet(incoming[n][p]) : kind[f] = "incoming" /\ who[f] = n
  /\ \A n \in AllNode : \A f \in ToSet(incoming_persistent[n]) : kind[f] = "waiting" /\ who[f] = n
  /\ \A n \in AllNode : \A f \in pers_store[n] : kind[f] = "stored" /\ who[f] = n
  /\ \A t \in Thread : \A p \in LinearPred :
       \A f \in ToSet(run[t].generated[p]) : kind[f] = "generated" /\ who[f] = t
  /\ \A t \in Thread : \A f \in ToSet(run[t].node_persistent) : kind[f] = "node" /\ who[f] = t
  /\ \A t \in Thread : \A f \in ToSet(run[t].thread_persistent) : kind[f] = "thread" /\ who[f] = t
  /\ \A t \in Thread : \A n \in Node : \A p \in LinearPred :
       \A f \in ToSet(facts_to_send[t][n][p]) : kind[f] = "buffer" /\ who[f] = t /\ dest[f] = n

Placed == Listed /\ Single /\ \E kind, who, dest : Located(kind, who, dest)

\* A rule that fires sees the facts in its registers.
UsedSeen ==
  \A t \in Thread :
    /\ run[t].used # {} => run[t].pc \in {"fire", "locked out"}
    /\ \A f \in run[t].used : f \in Visible(t, info[f].pred)

\* The facts of S move: those in a list after the step were there and stay, or are bound for it.
Moves(S, k, w, d) ==
  /\ S \subseteq DOMAIN info'
  /\ DOMAIN info \subseteq DOMAIN info' /\ \A f \in DOMAIN info : info'[f].pred = info[f].pred
  /\ \A n \in AllNode : \A p \in LinearPred : \A f \in ToSet(linear'[n][p]) :
       \/ f \notin S /\ f \in ToSet(linear[n][p])
       \/ f \in S /\ k[f] = "linear" /\ w[f] = n /\ info'[f].pred = p
  /\ \A n \in AllNode : \A p \in LinearPred : \A f \in ToSet(incoming'[n][p]) :
       \/ f \notin S /\ f \in ToSet(incoming[n][p])
       \/ f \in S /\ k[f] = "incoming" /\ w[f] = n /\ info'[f].pred = p
  /\ \A n \in AllNode : \A f \in ToSet(incoming_persistent'[n]) :
       \/ f \notin S /\ f \in ToSet(incoming_persistent[n])
       \/ f \in S /\ k[f] = "waiting" /\ w[f] = n
  /\ \A n \in AllNode : \A f \in pers_store'[n] :
       \/ f \notin S /\ f \in pers_store[n]
       \/ f \in S /\ k[f] = "stored" /\ w[f] = n
  /\ \A t \in Thread : \A p \in LinearPred : \A f \in ToSet(run'[t].generated[p]) :
       \/ f \notin S /\ f \in ToSet(run[t].generated[p])
       \/ f \in S /\ k[f] = "generated" /\ w[f] = t /\ info'[f].pred = p
  /\ \A t \in Thread : \A f \in ToSet(run'[t].node_persistent) :
       \/ f \notin S /\ f \in ToSet(run[t].node_persistent)
       \/ f \in S /\ k[f] = "node" /\ w[f] = t
  /\ \A t \in Thread : \A f \in ToSet(run'[t].thread_persistent) :
       \/ f \notin S /\ f \in ToSet(run[t].thread_persistent)
       \/ f \in S /\ k[f] = "thread" /\ w[f] = t
  /\ \A t \in Thread : \A n \in Node : \A p \in LinearPred :
       \A f \in ToSet(facts_to_send'[t][n][p]) :
         \/ f \notin S /\ f \in ToSet(facts_to_send[t][n][p])
         \/ f \in S /\ k[f] = "buffer" /\ w[f] = t /\ d[f] = n /\ info'[f].pred = p

\* Facts that move from one place to another stay in one place.
LEMMA MovesKeep ==
  ASSUME Known', Placed, NEW S, NEW k, NEW w, NEW d, Moves(S, k, w, d), Single'
  PROVE  Placed'
<1>1. PICK kind, who, dest : Located(kind, who, dest)
  BY DEF Placed
<1>2. Listed'
  BY DEF Placed, Listed, Moves
<1>3. PICK kind1, who1, dest1 : \A f \in DOMAIN info' :
        /\ f \in S => kind1[f] = k[f] /\ who1[f] = w[f] /\ dest1[f] = d[f]
        /\ f \notin S => kind1[f] = kind[f] /\ who1[f] = who[f] /\ dest1[f] = dest[f]
  <2> DEFINE D == DOMAIN info'
             kind1 == [f \in D |-> IF f \in S THEN k[f] ELSE kind[f]]
             who1 == [f \in D |-> IF f \in S THEN w[f] ELSE who[f]]
             dest1 == [f \in D |-> IF f \in S THEN d[f] ELSE dest[f]]
  <2>1. \A f \in D :
          /\ f \in S => kind1[f] = k[f] /\ who1[f] = w[f] /\ dest1[f] = d[f]
          /\ f \notin S => kind1[f] = kind[f] /\ who1[f] = who[f] /\ dest1[f] = dest[f]
    OBVIOUS
  <2> HIDE DEF kind1, who1, dest1
  <2> QED
    BY <2>1
<1>4. ASSUME NEW n \in AllNode, NEW p \in LinearPred, NEW f \in ToSet(linear'[n][p])
      PROVE  kind1[f] = "linear" /\ who1[f] = n
  BY <1>1, <1>2, <1>3, <1>4 DEF Located, Moves, Listed
<1>5. ASSUME NEW n \in AllNode, NEW p \in LinearPred, NEW f \in ToSet(incoming'[n][p])
      PROVE  kind1[f] = "incoming" /\ who1[f] = n
  BY <1>1, <1>2, <1>3, <1>5 DEF Located, Moves, Listed
<1>6. ASSUME NEW n \in AllNode, NEW f \in ToSet(incoming_persistent'[n])
      PROVE  kind1[f] = "waiting" /\ who1[f] = n
  BY <1>1, <1>3, <1>6 DEF Located, Moves, Known
<1>7. ASSUME NEW n \in AllNode, NEW f \in pers_store'[n]
      PROVE  kind1[f] = "stored" /\ who1[f] = n
  BY <1>1, <1>3, <1>7 DEF Located, Moves, Known
<1>8. ASSUME NEW t \in Thread, NEW p \in LinearPred, NEW f \in ToSet(run'[t].generated[p])
      PROVE  kind1[f] = "generated" /\ who1[f] = t
  BY <1>1, <1>2, <1>3, <1>8 DEF Located, Moves, Listed
<1>9. ASSUME NEW t \in Thread, NEW f \in ToSet(run'[t].node_persistent)
      PROVE  kind1[f] = "node" /\ who1[f] = t
  BY <1>1, <1>3, <1>9 DEF Located, Moves, Known
<1>10. ASSUME NEW t \in Thread, NEW f \in ToSet(run'[t].thread_persistent)
       PROVE  kind1[f] = "thread" /\ who1[f] = t
  BY <1>1, <1>3, <1>10 DEF Located, Moves, Known
<1>11. ASSUME NEW t \in Thread, NEW n \in Node, NEW p \in LinearPred,
              NEW f \in ToSet(facts_to_send'[t][n][p])
       PROVE  kind1[f] = "buffer" /\ who1[f] = t /\ dest1[f] = n
  BY <1>1, <1>2, <1>3, <1>11 DEF Located, Moves, Listed
<1>12. Located(kind1, who1, dest1)'
  BY <1>4, <1>5, <1>6, <1>7, <1>8, <1>9, <1>10, <1>11 DEF Located
<1> QED
  BY <1>2, <1>12 DEF Placed

\* The lists a thread holds stay or are emptied.
FewerLists(t) ==
  /\ run'[t].generated = run[t].generated \/ run'[t].generated = NoFacts
  /\ run'[t].node_persistent = run[t].node_persistent \/ run'[t].node_persistent = <<>>
  /\ run'[t].thread_persistent = run[t].thread_persistent

\* An empty list holds no fact.
LEMMA NothingHeld == ToSet(<<>>) = {} /\ Once(<<>>) /\ \A p \in LinearPred : NoFacts[p] = <<>>
  BY DEF ToSet, Once, NoFacts

\* No fact moves.
LEMMA PlacedSame ==
  ASSUME Types, Known', Placed, NEW t \in Thread, Goes(t, run'[t]), FewerLists(t),
         UNCHANGED <<info, linear, pers_store, incoming, incoming_persistent, facts_to_send>>
  PROVE  Placed'
<1>1. ASSUME NEW u \in Thread
      PROVE  /\ ToSet(run'[u].node_persistent) \subseteq ToSet(run[u].node_persistent)
             /\ ToSet(run'[u].thread_persistent) \subseteq ToSet(run[u].thread_persistent)
             /\ \A p \in LinearPred : ToSet(run'[u].generated[p]) \subseteq ToSet(run[u].generated[p])
             /\ Once(run[u].node_persistent) => Once(run'[u].node_persistent)
             /\ Once(run[u].thread_persistent) => Once(run'[u].thread_persistent)
             /\ \A p \in LinearPred : Once(run[u].generated[p]) => Once(run'[u].generated[p])
  BY NothingHeld DEF Goes, FewerLists
<1>2. Moves({}, <<>>, <<>>, <<>>)
  BY <1>1 DEF Moves
<1>3. Single'
  BY <1>1 DEF Single, Placed
<1> QED
  BY <1>2, <1>3, MovesKeep

\* Databases only grow, and a rule keeps its registers or gives them up.
LEMMA UsedStays ==
  ASSUME Types, Known, Listed, UsedSeen, NEW t \in Thread, Goes(t, run'[t]),
         \/ run'[t].used = {}
         \/ /\ run'[t].used = run[t].used /\ run'[t].node = run[t].node
            /\ run[t].used # {} => run'[t].pc \in {"fire", "locked out"},
         \A n \in AllNode : /\ pers_store[n] \subseteq pers_store'[n]
                            /\ \A p \in LinearPred : ToSet(linear[n][p]) \subseteq ToSet(linear'[n][p]),
         \A f \in DOMAIN info : info'[f].pred = info[f].pred
  PROVE  UsedSeen'
<1>1. ASSUME NEW u \in Thread, run'[u].used # {}
      PROVE  /\ run'[u].used = run[u].used /\ run'[u].node = run[u].node
             /\ run'[u].pc \in {"fire", "locked out"}
  BY <1>1 DEF Goes, UsedSeen
<1>2. ASSUME NEW u \in Thread, NEW f \in run'[u].used PROVE (f \in Visible(u, info[f].pred))'
  <2>1. f \in run[u].used /\ run'[u].node = run[u].node /\ f \in Visible(u, info[f].pred)
    BY <1>1, <1>2 DEF UsedSeen
  <2> DEFINE p == info[f].pred
             h == Home(u, run[u].node, p)
  <2>2. h \in AllNode /\ Home(u, run'[u].node, p) = h
    BY <2>1, RunFields, ThreadNodes DEF Home
  <2>3. CASE p \in LinearPred
    <3>1. f \in ToSet(linear[h][p])
      BY <2>1, <2>3 DEF Visible
    <3>2. f \in DOMAIN info
      <4> HIDE DEF p, h
      <4> QED
        BY <2>2, <2>3, <3>1 DEF Listed
    <3>3. f \in ToSet(linear'[h][p]) /\ info'[f].pred = p
      BY <2>2, <2>3, <3>1, <3>2
    <3> QED
      BY <2>2, <2>3, <3>3 DEF Visible
  <2>4. CASE p \notin LinearPred
    <3>1. f \in pers_store[h] /\ f \in DOMAIN info
      BY <2>1, <2>2, <2>4 DEF Visible, Known
    <3>2. f \in pers_store'[h] /\ info'[f].pred = p
      BY <2>2, <3>1
    <3> QED
      BY <2>2, <2>4, <3>2 DEF Visible
  <2> QED
    BY <2>3, <2>4
<1>3. ASSUME NEW u \in Thread, run'[u].used # {} PROVE run'[u].pc \in {"fire", "locked out"}
  BY <1>1, <1>3
<1> QED
  BY <1>2, <1>3 DEF UsedSeen

\* The facts that came for a node enter its databases.
LEMMA PlacedTakes ==
  ASSUME Types, Known, Known', Placed, NEW t \in Thread, NEW n \in AllNode, TakesIn(n),
         incoming' = [incoming EXCEPT ![n] = NoFacts],
         incoming_persistent' = [incoming_persistent EXCEPT ![n] = <<>>],
         Goes(t, run'[t]), FewerLists(t), UNCHANGED facts_to_send
  PROVE  Placed'
<1> DEFINE list == incoming_persistent[n]
           S == {f \in DOMAIN info : f \in ToSet(list) \/ \E p \in LinearPred : f \in ToSet(incoming[n][p])}
           k == [f \in S |-> IF info[f].pred \in LinearPred THEN "linear" ELSE "stored"]
           w == [f \in S |-> n]
<1>1. PICK kind, who, dest : Located(kind, who, dest)
  BY DEF Placed
<1>2. /\ linear' = [linear EXCEPT ![n] = increment_database(
                                     increment_database(@, incoming[n]), Reused(list))]
      /\ pers_store' = [pers_store EXCEPT ![n] = Stored(n, list)] /\ info' = info
  BY Zenon DEF TakesIn
<1>3. list \in Seq(Nat) /\ linear[n] \in Lists /\ incoming[n] \in Lists
  BY DEF Types
<1>4. /\ Reused(list) \in Lists
      /\ \A p \in LinearPred :
           /\ ToSet(Reused(list)[p]) = {f \in ToSet(list) : info[f].pred = p}
           /\ Once(list) => Once(Reused(list)[p])
  BY <1>3, ReusedIs
<1>5. Joined3(linear'[n], linear[n], incoming[n], Reused(list))
  <2>1. linear'[n] = increment_database(increment_database(linear[n], incoming[n]), Reused(list))
    BY <1>2 DEF Types
  <2> QED
    BY <1>3, <1>4, <2>1, IncrementTwice
<1>6. \A m \in AllNode : m # n => linear'[m] = linear[m] /\ pers_store'[m] = pers_store[m]
  BY <1>2 DEF Types
<1>7. pers_store'[n] = pers_store[n] \cup {f \in ToSet(list) : info[f].pred \notin LinearPred}
  BY <1>2 DEF Stored, Types
<1>8. /\ \A p \in LinearPred : incoming'[n][p] = <<>>
      /\ incoming_persistent'[n] = <<>>
      /\ \A m \in AllNode : m # n => incoming'[m] = incoming[m]
                                     /\ incoming_persistent'[m] = incoming_persistent[m]
  BY NothingHeld DEF Types
<1>9. /\ S \subseteq DOMAIN info
      /\ \A f \in S : kind[f] \in {"incoming", "waiting"} /\ who[f] = n
      /\ \A f \in ToSet(list) : f \in S
      /\ \A p \in LinearPred : \A f \in ToSet(incoming[n][p]) : f \in S /\ info[f].pred = p
  <2>1. \A f \in ToSet(list) : f \in DOMAIN info
    BY DEF Known
  <2>2. \A p \in LinearPred : \A f \in ToSet(incoming[n][p]) : f \in DOMAIN info /\ info[f].pred = p
    BY DEF Placed, Listed
  <2> QED
    BY <1>1, <2>1, <2>2 DEF Located
<1>10. \A f \in S : w[f] = n /\ (info[f].pred \in LinearPred => k[f] = "linear")
                             /\ (info[f].pred \notin LinearPred => k[f] = "stored")
  OBVIOUS
<1> HIDE DEF S, k, w, list
<1>11. \A p \in LinearPred : ToSet(linear'[n][p]) =
          ToSet(linear[n][p]) \cup ToSet(incoming[n][p]) \cup {f \in ToSet(list) : info[f].pred = p}
  BY <1>4, <1>5 DEF Joined3
<1>12. ASSUME NEW m \in AllNode, NEW p \in LinearPred, NEW f \in ToSet(linear'[m][p])
       PROVE  \/ f \notin S /\ f \in ToSet(linear[m][p])
              \/ f \in S /\ k[f] = "linear" /\ w[f] = m /\ info'[f].pred = p
  <2>1. CASE f \in ToSet(linear[m][p])
    <3>1. kind[f] = "linear"
      BY <1>1, <2>1 DEF Located
    <3> QED
      BY <1>9, <2>1, <3>1
  <2>2. CASE f \notin ToSet(linear[m][p])
    <3>1. m = n
      BY <1>6, <1>12, <2>2
    <3>2. f \in S /\ info[f].pred = p
      BY <1>9, <1>11, <1>12, <2>2, <3>1
    <3> QED
      BY <1>2, <1>10, <3>1, <3>2
  <2> QED
    BY <2>1, <2>2
<1>13. ASSUME NEW m \in AllNode, NEW f \in pers_store'[m]
       PROVE  \/ f \notin S /\ f \in pers_store[m]
              \/ f \in S /\ k[f] = "stored" /\ w[f] = m
  <2>1. CASE f \in pers_store[m]
    <3>1. kind[f] = "stored"
      BY <1>1, <2>1 DEF Located
    <3> QED
      BY <1>9, <2>1, <3>1
  <2>2. CASE f \notin pers_store[m]
    <3>1. m = n
      BY <1>6, <1>13, <2>2
    <3>2. f \in ToSet(list) /\ info[f].pred \notin LinearPred
      BY <1>7, <1>13, <2>2, <3>1
    <3> QED
      BY <1>9, <1>10, <3>1, <3>2
  <2> QED
    BY <2>1, <2>2
<1>14. /\ \A m \in AllNode : \A p \in LinearPred : \A f \in ToSet(incoming'[m][p]) :
            f \notin S /\ f \in ToSet(incoming[m][p])
       /\ \A m \in AllNode : \A f \in ToSet(incoming_persistent'[m]) :
            f \notin S /\ f \in ToSet(incoming_persistent[m])
  BY <1>1, <1>8, <1>9, NothingHeld DEF Located
<1>15. ASSUME NEW u \in Thread
       PROVE  /\ \A f \in ToSet(run'[u].node_persistent) : f \notin S /\ f \in ToSet(run[u].node_persistent)
              /\ \A f \in ToSet(run'[u].thread_persistent) : f \notin S /\ f \in ToSet(run[u].thread_persistent)
              /\ \A p \in LinearPred : \A f \in ToSet(run'[u].generated[p]) :
                    f \notin S /\ f \in ToSet(run[u].generated[p])
              /\ Once(run[u].node_persistent) => Once(run'[u].node_persistent)
              /\ Once(run[u].thread_persistent) => Once(run'[u].thread_persistent)
              /\ \A p \in LinearPred : Once(run[u].generated[p]) => Once(run'[u].generated[p])
  BY <1>1, <1>9, NothingHeld DEF Goes, FewerLists, Located
<1>16. \A u \in Thread : \A m \in Node : \A p \in LinearPred : \A f \in ToSet(facts_to_send'[u][m][p]) :
         f \notin S /\ f \in ToSet(facts_to_send[u][m][p])
  BY <1>1, <1>9 DEF Located
<1>17. Moves(S, k, w, <<>>)
  BY <1>2, <1>9, <1>12, <1>13, <1>14, <1>15, <1>16 DEF Moves
<1>18. ASSUME NEW m \in AllNode, NEW p \in LinearPred PROVE Once(linear'[m][p])
  <2>1. CASE m = n
    <3>1. /\ Once(linear[n][p]) /\ Once(incoming[n][p]) /\ Once(list)
      BY DEF Placed, Single, list
    <3>2. \A f : /\ f \in ToSet(linear[n][p]) => kind[f] = "linear"
                 /\ f \in ToSet(incoming[n][p]) => kind[f] = "incoming"
                 /\ f \in ToSet(list) => kind[f] = "waiting"
      BY <1>1 DEF Located, list
    <3>3. /\ ToSet(linear[n][p]) \cap ToSet(incoming[n][p]) = {}
          /\ ToSet(linear[n][p]) \cap ToSet(Reused(list)[p]) = {}
          /\ ToSet(incoming[n][p]) \cap ToSet(Reused(list)[p]) = {}
      BY <1>4, <3>2
    <3> QED
      BY <1>4, <1>5, <2>1, <3>1, <3>3 DEF Joined3
  <2>2. CASE m # n
    BY <1>6, <2>2 DEF Placed, Single
  <2> QED
    BY <2>1, <2>2
<1>19. Single'
  BY <1>8, <1>15, <1>18, NothingHeld DEF Placed, Single
<1> QED
  BY <1>17, <1>19, MovesKeep

\* The facts of a buffer reach their destination.
LEMMA PlacedSync ==
  ASSUME Types, Known', Placed, NEW t \in Thread, Sync(t)
  PROVE  Placed'
<1>1. PICK kind, who, dest : Located(kind, who, dest)
  BY DEF Placed
<1>2. PICK n \in Node : SyncTo(t, n)
  BY SyncIs
<1> DEFINE lists == facts_to_send[t][n]
           S == {f \in DOMAIN info : \E p \in LinearPred : f \in ToSet(lists[p])}
<1>3. n \in AllNode /\ lists \in Lists /\ facts_to_send[t] \in [Node -> Lists]
  BY DEF AllNode, Types
<1>4. /\ facts_to_send' = [facts_to_send EXCEPT ![t] = [facts_to_send[t] EXCEPT ![n] = NoFacts]]
      /\ UNCHANGED <<info, pers_store, incoming_persistent, run>>
  BY <1>2 DEF SyncTo, Sent
<1>5. /\ \A p \in LinearPred : facts_to_send'[t][n][p] = <<>>
      /\ \A u \in Thread, m \in Node : u # t \/ m # n => facts_to_send'[u][m] = facts_to_send[u][m]
  BY <1>3, <1>4, NothingHeld DEF Types
<1>6. /\ S \subseteq DOMAIN info
      /\ \A f \in S : kind[f] = "buffer" /\ who[f] = t /\ dest[f] = n
      /\ \A p \in LinearPred : \A f \in ToSet(lists[p]) : f \in S /\ info[f].pred = p
  <2>1. \A p \in LinearPred : \A f \in ToSet(lists[p]) : f \in DOMAIN info /\ info[f].pred = p
    BY DEF Placed, Listed
  <2> QED
    BY <1>1, <2>1 DEF Located
<1>7. ASSUME NEW db, NEW db1, db \in [AllNode -> Lists],
             db1 = [db EXCEPT ![n] = increment_database(@, lists)],
             \A m \in AllNode, p \in LinearPred : Once(db[m][p]),
             \A m \in AllNode, p \in LinearPred : \A f \in ToSet(db[m][p]) : kind[f] # "buffer"
      PROVE  \A m \in AllNode, p \in LinearPred :
               /\ Once(db1[m][p])
               /\ \A f \in ToSet(db1[m][p]) : \/ f \notin S /\ f \in ToSet(db[m][p])
                                              \/ f \in S /\ m = n /\ info[f].pred = p
  <2> SUFFICES ASSUME NEW m \in AllNode, NEW p \in LinearPred
               PROVE  /\ Once(db1[m][p])
                      /\ \A f \in ToSet(db1[m][p]) : \/ f \notin S /\ f \in ToSet(db[m][p])
                                                     \/ f \in S /\ m = n /\ info[f].pred = p
    OBVIOUS
  <2>1. \A f \in ToSet(db[m][p]) : f \notin S
    BY <1>6, <1>7
  <2>2. CASE m # n
    BY <1>7, <2>1, <2>2
  <2>3. CASE m = n
    <3>1. Joined(db1[n], db[n], lists)
      BY <1>3, <1>7, IncrementOnce
    <3>2. Once(lists[p])
      BY DEF Placed, Single
    <3>3. ToSet(db[n][p]) \cap ToSet(lists[p]) = {}
      BY <1>6, <2>1, <2>3
    <3> HIDE DEF lists, S
    <3>4. /\ ToSet(db1[n][p]) = ToSet(db[n][p]) \cup ToSet(lists[p])
          /\ Once(db[n][p]) /\ Once(lists[p]) /\ ToSet(db[n][p]) \cap ToSet(lists[p]) = {}
               => Once(db1[n][p])
      BY <3>1 DEF Joined
    <3>5. Once(db1[n][p])
      BY <1>3, <1>7, <3>2, <3>3, <3>4
    <3> QED
      BY <1>6, <2>1, <2>3, <3>4, <3>5
  <2> QED
    BY <2>2, <2>3
<1> HIDE DEF lists, S
<1>8. /\ linear \in [AllNode -> Lists] /\ incoming \in [AllNode -> Lists]
      /\ \A m \in AllNode, p \in LinearPred : Once(linear[m][p]) /\ Once(incoming[m][p])
      /\ \A m \in AllNode, p \in LinearPred : \A f \in ToSet(linear[m][p]) : kind[f] # "buffer"
      /\ \A m \in AllNode, p \in LinearPred : \A f \in ToSet(incoming[m][p]) : kind[f] # "buffer"
  BY <1>1 DEF Types, Placed, Single, Located
<1>9. \/ linear' = [linear EXCEPT ![n] = increment_database(@, lists)] /\ incoming' = incoming
      \/ incoming' = [incoming EXCEPT ![n] = increment_database(@, lists)] /\ linear' = linear
  BY <1>2 DEF SyncTo, lists
<1> DEFINE Goal(tag) ==
             \A m \in AllNode, p \in LinearPred :
                /\ Once(linear'[m][p]) /\ Once(incoming'[m][p])
                /\ \A f \in ToSet(linear'[m][p]) :
                     \/ f \notin S /\ f \in ToSet(linear[m][p])
                     \/ f \in S /\ tag = "linear" /\ m = n /\ info[f].pred = p
                /\ \A f \in ToSet(incoming'[m][p]) :
                     \/ f \notin S /\ f \in ToSet(incoming[m][p])
                     \/ f \in S /\ tag = "incoming" /\ m = n /\ info[f].pred = p
<1>10. PICK tag : Goal(tag)
  <2>1. /\ \A m \in AllNode, p \in LinearPred : \A f \in ToSet(linear[m][p]) : f \notin S
        /\ \A m \in AllNode, p \in LinearPred : \A f \in ToSet(incoming[m][p]) : f \notin S
    BY <1>6, <1>8
  <2>2. CASE linear' = [linear EXCEPT ![n] = increment_database(@, lists)] /\ incoming' = incoming
    <3>1. /\ linear \in [AllNode -> Lists]
          /\ \A m \in AllNode, p \in LinearPred : Once(linear[m][p])
          /\ \A m \in AllNode, p \in LinearPred : \A f \in ToSet(linear[m][p]) : kind[f] # "buffer"
      BY <1>8
    <3>2. linear' = [linear EXCEPT ![n] = increment_database(@, lists)]
      BY <2>2
    <3>3. \A m \in AllNode, p \in LinearPred :
            /\ Once(linear'[m][p])
            /\ \A f \in ToSet(linear'[m][p]) : \/ f \notin S /\ f \in ToSet(linear[m][p])
                                               \/ f \in S /\ m = n /\ info[f].pred = p
      BY <1>7, <3>1, <3>2
    <3>4. Goal("linear")
      BY <1>8, <2>1, <2>2, <3>3
    <3> QED
      BY <3>4
  <2>3. CASE incoming' = [incoming EXCEPT ![n] = increment_database(@, lists)] /\ linear' = linear
    <3>1. /\ incoming \in [AllNode -> Lists]
          /\ \A m \in AllNode, p \in LinearPred : Once(incoming[m][p])
          /\ \A m \in AllNode, p \in LinearPred : \A f \in ToSet(incoming[m][p]) : kind[f] # "buffer"
      BY <1>8
    <3>2. incoming' = [incoming EXCEPT ![n] = increment_database(@, lists)]
      BY <2>3
    <3>3. \A m \in AllNode, p \in LinearPred :
            /\ Once(incoming'[m][p])
            /\ \A f \in ToSet(incoming'[m][p]) : \/ f \notin S /\ f \in ToSet(incoming[m][p])
                                                 \/ f \in S /\ m = n /\ info[f].pred = p
      BY <1>7, <3>1, <3>2
    <3>4. Goal("incoming")
      BY <1>8, <2>1, <2>3, <3>3
    <3> QED
      BY <3>4
  <2> HIDE DEF Goal
  <2> QED
    BY <1>9, <2>2, <2>3
<1> DEFINE k == [f \in S |-> tag]
           w == [f \in S |-> n]
<1>11. \A f \in S : k[f] = tag /\ w[f] = n
  OBVIOUS
<1> HIDE DEF k, w
<1>12. /\ \A m \in AllNode : \A f \in ToSet(incoming_persistent[m]) \cup pers_store[m] : f \notin S
       /\ \A u \in Thread : \A f \in ToSet(run[u].node_persistent) \cup ToSet(run[u].thread_persistent) : f \notin S
       /\ \A u \in Thread, p \in LinearPred : \A f \in ToSet(run[u].generated[p]) : f \notin S
       /\ \A u \in Thread, m \in Node, p \in LinearPred : \A f \in ToSet(facts_to_send'[u][m][p]) :
            f \notin S /\ f \in ToSet(facts_to_send[u][m][p])
  BY <1>1, <1>5, <1>6, NothingHeld DEF Located
<1>13. Moves(S, k, w, <<>>)
  BY <1>4, <1>6, <1>10, <1>11, <1>12 DEF Moves
<1>14. Single'
  BY <1>4, <1>5, <1>10, NothingHeld DEF Placed, Single
<1> QED
  BY <1>13, <1>14, MovesKeep

\* List x is s and one more fact, at the end or in front.
More(x, s, f) == x = Append(s, f) \/ x = <<f>> \o s

\* A list with one more fact at either end holds that fact too.
LEMMA MoreIs ==
  ASSUME NEW s \in Seq(Nat), NEW f \in Nat, NEW x, More(x, s, f), Once(s), f \notin ToSet(s)
  PROVE  ToSet(x) = ToSet(s) \cup {f} /\ Once(x)
<1>1. CASE x = Append(s, f)
  BY <1>1, SeqAppend
<1>2. CASE x = <<f>> \o s
  <2> DEFINE u == <<f>>
  <2>1. u \in Seq(Nat) /\ ToSet(u) = {f} /\ Once(u)
    BY DEF ToSet, Once
  <2> HIDE DEF u
  <2>2. /\ ToSet(u \o s) = ToSet(u) \cup ToSet(s)
        /\ Once(u) /\ Once(s) /\ ToSet(u) \cap ToSet(s) = {} => Once(u \o s)
    BY <2>1, SeqConcat
  <2>3. ToSet(u) \cap ToSet(s) = {}
    BY <2>1
  <2> QED
    BY <1>2, <2>1, <2>2, <2>3 DEF u
<1> QED
  BY <1>1, <1>2 DEF More

\* The new fact f of p is in the place that k, w and d name, and nothing else has changed.
Gained(k, w, d, p, f) ==
  /\ \A n \in AllNode : \A q \in LinearPred :
       \/ linear'[n][q] = linear[n][q]
       \/ k = "linear" /\ w = n /\ q = p /\ More(linear'[n][q], linear[n][q], f)
  /\ \A n \in AllNode : \A q \in LinearPred :
       \/ incoming'[n][q] = incoming[n][q]
       \/ k = "incoming" /\ w = n /\ q = p /\ More(incoming'[n][q], incoming[n][q], f)
  /\ \A n \in AllNode :
       \/ incoming_persistent'[n] = incoming_persistent[n]
       \/ k = "waiting" /\ w = n /\ More(incoming_persistent'[n], incoming_persistent[n], f)
  /\ \A n \in AllNode :
       \/ pers_store'[n] = pers_store[n]
       \/ k = "stored" /\ w = n /\ pers_store'[n] = pers_store[n] \cup {f}
  /\ \A t \in Thread : \A q \in LinearPred :
       \/ run'[t].generated[q] = run[t].generated[q]
       \/ k = "generated" /\ w = t /\ q = p /\ More(run'[t].generated[q], run[t].generated[q], f)
  /\ \A t \in Thread :
       \/ run'[t].node_persistent = run[t].node_persistent
       \/ k = "node" /\ w = t /\ More(run'[t].node_persistent, run[t].node_persistent, f)
  /\ \A t \in Thread :
       \/ run'[t].thread_persistent = run[t].thread_persistent
       \/ k = "thread" /\ w = t /\ More(run'[t].thread_persistent, run[t].thread_persistent, f)
  /\ \A t \in Thread : \A n \in Node : \A q \in LinearPred :
       \/ facts_to_send'[t][n][q] = facts_to_send[t][n][q]
       \/ /\ k = "buffer" /\ w = t /\ d = n /\ q = p
          /\ More(facts_to_send'[t][n][q], facts_to_send[t][n][q], f)

\* A new fact that enters one place keeps every fact in one place.
LEMMA PlacedNew ==
  ASSUME Types, Known, Known', Placed, NEW p \in Pred, NEW n \in AllNode,
         info' = Append(info, [pred |-> p, from |-> n]),
         NEW k, NEW w, NEW d, Gained(k, w, d, p, Len(info) + 1)
  PROVE  Placed'
<1> DEFINE f == Len(info) + 1
           S == {f}
<1>1. /\ DOMAIN info' = DOMAIN info \cup {f} /\ f \in Nat /\ f \notin DOMAIN info
      /\ \A g \in DOMAIN info : info'[g] = info[g]
      /\ info'[f].pred = p
  BY InfoGrows
<1>2. Gained(k, w, d, p, f)
  OBVIOUS
<1> HIDE DEF f
<1>3. \A s \in Seq(Nat) : \A x :
        More(x, s, f) /\ Once(s) /\ f \notin ToSet(s) => ToSet(x) = ToSet(s) \cup {f} /\ Once(x)
  BY <1>1, MoreIs
<1> DEFINE Good(x, s, here) ==
             /\ Once(x)
             /\ \A g \in ToSet(x) : (g \notin S /\ g \in ToSet(s)) \/ (g \in S /\ here)
<1>4. ASSUME NEW s \in Seq(Nat), NEW x, NEW here \in BOOLEAN, x = s \/ (here /\ More(x, s, f)),
             Once(s), f \notin ToSet(s)
      PROVE  Good(x, s, here)
  BY <1>3, <1>4
<1>5. ASSUME NEW m \in AllNode, NEW q \in LinearPred
      PROVE  /\ Good(linear'[m][q], linear[m][q], k = "linear" /\ w = m /\ q = p)
             /\ Good(incoming'[m][q], incoming[m][q], k = "incoming" /\ w = m /\ q = p)
  <2>1. linear[m][q] \in Seq(Nat) /\ incoming[m][q] \in Seq(Nat)
    BY DEF Types, Lists
  <2>2. /\ Once(linear[m][q]) /\ Once(incoming[m][q])
        /\ f \notin ToSet(linear[m][q]) /\ f \notin ToSet(incoming[m][q])
    BY <1>1 DEF Placed, Single, Listed
  <2>3. /\ linear'[m][q] = linear[m][q]
             \/ ((k = "linear" /\ w = m /\ q = p) /\ More(linear'[m][q], linear[m][q], f))
        /\ incoming'[m][q] = incoming[m][q]
             \/ ((k = "incoming" /\ w = m /\ q = p) /\ More(incoming'[m][q], incoming[m][q], f))
    BY <1>2 DEF Gained
  <2> HIDE DEF Good, S
  <2> QED
    BY <1>4, <2>1, <2>2, <2>3
<1>6. ASSUME NEW m \in AllNode
      PROVE  /\ Good(incoming_persistent'[m], incoming_persistent[m], k = "waiting" /\ w = m)
             /\ \A g \in pers_store'[m] : \/ g \notin S /\ g \in pers_store[m]
                                          \/ g \in S /\ k = "stored" /\ w = m
  <2>1. incoming_persistent[m] \in Seq(Nat) /\ Once(incoming_persistent[m])
    BY DEF Types, Placed, Single
  <2>2. f \notin ToSet(incoming_persistent[m]) /\ f \notin pers_store[m]
    BY <1>1 DEF Known
  <2>3. /\ incoming_persistent'[m] = incoming_persistent[m]
             \/ ((k = "waiting" /\ w = m) /\ More(incoming_persistent'[m], incoming_persistent[m], f))
        /\ pers_store'[m] = pers_store[m]
             \/ (k = "stored" /\ w = m /\ pers_store'[m] = pers_store[m] \cup {f})
    BY <1>2 DEF Gained
  <2>4. \A g \in pers_store'[m] : \/ g \notin S /\ g \in pers_store[m]
                                  \/ g \in S /\ k = "stored" /\ w = m
    BY <2>2, <2>3
  <2> HIDE DEF Good, S
  <2> QED
    BY <1>4, <2>1, <2>2, <2>3, <2>4
<1>7. ASSUME NEW t \in Thread
      PROVE  /\ Good(run'[t].node_persistent, run[t].node_persistent, k = "node" /\ w = t)
             /\ Good(run'[t].thread_persistent, run[t].thread_persistent, k = "thread" /\ w = t)
             /\ \A q \in LinearPred :
                  Good(run'[t].generated[q], run[t].generated[q], k = "generated" /\ w = t /\ q = p)
  <2>1. /\ run[t].node_persistent \in Seq(Nat) /\ run[t].thread_persistent \in Seq(Nat)
        /\ \A q \in LinearPred : run[t].generated[q] \in Seq(Nat)
    BY RunFields DEF Lists
  <2>2. /\ Once(run[t].node_persistent) /\ Once(run[t].thread_persistent)
        /\ \A q \in LinearPred : Once(run[t].generated[q])
    BY DEF Placed, Single
  <2>3. /\ f \notin ToSet(run[t].node_persistent) /\ f \notin ToSet(run[t].thread_persistent)
        /\ \A q \in LinearPred : f \notin ToSet(run[t].generated[q])
    BY <1>1 DEF Known, Placed, Listed
  <2>4. /\ run'[t].node_persistent = run[t].node_persistent
             \/ ((k = "node" /\ w = t) /\ More(run'[t].node_persistent, run[t].node_persistent, f))
        /\ run'[t].thread_persistent = run[t].thread_persistent
             \/ ((k = "thread" /\ w = t) /\ More(run'[t].thread_persistent, run[t].thread_persistent, f))
    BY <1>2 DEF Gained
  <2>5. \A q \in LinearPred :
          run'[t].generated[q] = run[t].generated[q]
             \/ ((k = "generated" /\ w = t /\ q = p) /\ More(run'[t].generated[q], run[t].generated[q], f))
    BY <1>2 DEF Gained
  <2> HIDE DEF Good, S
  <2>6. /\ Good(run'[t].node_persistent, run[t].node_persistent, k = "node" /\ w = t)
        /\ Good(run'[t].thread_persistent, run[t].thread_persistent, k = "thread" /\ w = t)
    BY <1>4, <2>1, <2>2, <2>3, <2>4
  <2>7. ASSUME NEW q \in LinearPred
        PROVE  Good(run'[t].generated[q], run[t].generated[q], k = "generated" /\ w = t /\ q = p)
    BY <1>4, <2>1, <2>2, <2>3, <2>5
  <2> QED
    BY <2>6, <2>7
<1>8. ASSUME NEW t \in Thread, NEW m \in Node, NEW q \in LinearPred
      PROVE  Good(facts_to_send'[t][m][q], facts_to_send[t][m][q],
                  k = "buffer" /\ w = t /\ d = m /\ q = p)
  <2>1. facts_to_send[t][m][q] \in Seq(Nat)
    BY DEF Types, Lists
  <2>2. Once(facts_to_send[t][m][q]) /\ f \notin ToSet(facts_to_send[t][m][q])
    BY <1>1 DEF Placed, Single, Listed
  <2>3. facts_to_send'[t][m][q] = facts_to_send[t][m][q]
          \/ ((k = "buffer" /\ w = t /\ d = m /\ q = p)
               /\ More(facts_to_send'[t][m][q], facts_to_send[t][m][q], f))
    BY <1>2 DEF Gained
  <2> HIDE DEF Good, S
  <2> QED
    BY <1>4, <2>1, <2>2, <2>3
<1> DEFINE kk == [g \in S |-> k]
           ww == [g \in S |-> w]
           dd == [g \in S |-> d]
<1>9. \A g \in S : kk[g] = k /\ ww[g] = w /\ dd[g] = d /\ info'[g].pred = p /\ g \in DOMAIN info'
  BY <1>1
<1> HIDE DEF S, kk, ww, dd
<1>10. Moves(S, kk, ww, dd)
  <2>1. /\ S \subseteq DOMAIN info'
        /\ DOMAIN info \subseteq DOMAIN info' /\ \A g \in DOMAIN info : info'[g].pred = info[g].pred
    BY <1>1, <1>9
  <2> QED
    BY <1>5, <1>6, <1>7, <1>8, <1>9, <2>1 DEF Moves
<1>11. Single'
  BY <1>5, <1>6, <1>7, <1>8 DEF Single
<1> QED
  BY <1>10, <1>11, MovesKeep

\* A rule derives a fact.
LEMMA PlacedDerive ==
  ASSUME Types, Known, Known', Placed, NEW t \in Thread, NEW p \in Pred, Derived(t, p)
  PROVE  Placed'
<1> DEFINE f == Len(info) + 1
           n == run[t].node
<1>1. n \in AllNode /\ info' = Append(info, [pred |-> p, from |-> n])
  BY RunFields DEF Derived
<1>2. f \in Nat
  BY <1>1, InfoGrows
<1> HIDE DEF f
<1>3. ASSUME NEW k, NEW w, NEW d, Gained(k, w, d, p, f) PROVE Placed'
  BY <1>1, <1>3, PlacedNew DEF f
<1> HIDE DEF n
<1>4. CASE DeriveLinear(t, p)
  <2>1. /\ p \in LinearPred /\ linear' = [linear EXCEPT ![n][p] = Append(@, f)]
        /\ UNCHANGED <<run, pers_store, incoming, incoming_persistent, facts_to_send>>
    BY <1>4 DEF DeriveLinear, AddLinear, f, n
  <2>2. ASSUME NEW m \in AllNode, NEW q \in LinearPred
        PROVE  \/ linear'[m][q] = linear[m][q]
               \/ n = m /\ q = p /\ linear'[m][q] = Append(linear[m][q], f)
    BY <1>1, <2>1 DEF Types, Lists
  <2>3. Gained("linear", n, n, p, f)
    BY <2>1, <2>2 DEF Gained, More
  <2> QED
    BY <1>3, <2>3
<1>5. CASE DeriveEnqueue(t, p)
  <2>1. PICK r \in Enqueued(run[t], f, p) : run' = [run EXCEPT ![t] = r]
    BY <1>5 DEF DeriveEnqueue, f
  <2>2. p \in LinearPred /\ UNCHANGED <<linear, pers_store, incoming, incoming_persistent, facts_to_send>>
    BY <1>5 DEF DeriveEnqueue
  <2>3. Put(run[t], r, f, p)
    BY <1>2, <2>2, EnqueuedIs
  <2>4. /\ run'[t] = r /\ \A u \in Thread : u # t => run'[u] = run[u]
    BY <2>1 DEF Types
  <2>5. run[t].generated \in Lists
    BY RunFields
  <2>6. CASE /\ r.generated = [run[t].generated EXCEPT ![p] = Append(@, f)]
             /\ r.node_persistent = run[t].node_persistent
             /\ r.thread_persistent = run[t].thread_persistent
    <3>1. \A q \in LinearPred : \/ r.generated[q] = run[t].generated[q]
                                \/ q = p /\ r.generated[q] = Append(run[t].generated[q], f)
      BY <2>5, <2>6 DEF Lists
    <3>2. Gained("generated", t, n, p, f)
      BY <2>2, <2>4, <2>6, <3>1 DEF Gained, More
    <3> QED
      BY <1>3, <3>2
  <2>7. CASE /\ r.generated = run[t].generated
             /\ r.node_persistent = run[t].node_persistent
             /\ r.thread_persistent = Append(run[t].thread_persistent, f)
    <3>1. Gained("thread", t, n, p, f)
      BY <2>2, <2>4, <2>7 DEF Gained, More
    <3> QED
      BY <1>3, <3>1
  <2>8. CASE /\ r.generated = run[t].generated
             /\ r.node_persistent = Append(run[t].node_persistent, f)
             /\ r.thread_persistent = run[t].thread_persistent
    <3>1. Gained("node", t, n, p, f)
      BY <2>2, <2>4, <2>8 DEF Gained, More
    <3> QED
      BY <1>3, <3>1
  <2> QED
    BY <2>3, <2>6, <2>7, <2>8 DEF Put
<1>6. CASE DerivePersistent(t, p)
  <2> DEFINE h == Home(t, n, p)
  <2>1. h \in AllNode
    BY <1>1, ThreadNodes DEF Home
  <2>2. /\ pers_store' = [pers_store EXCEPT ![h] = @ \cup {f}]
        /\ UNCHANGED <<linear, run, incoming, incoming_persistent, facts_to_send>>
    BY <1>6 DEF DerivePersistent, AddPersistent, f, n
  <2> HIDE DEF h
  <2>3. \A m \in AllNode : pers_store'[m] = pers_store[m]
                           \/ (h = m /\ pers_store'[m] = pers_store[m] \cup {f})
    BY <2>1, <2>2 DEF Types
  <2>4. Gained("stored", h, n, p, f)
    BY <2>2, <2>3 DEF Gained
  <2> QED
    BY <1>3, <2>4
<1>7. ASSUME NEW h \in AllNode, UNCHANGED <<linear, run, pers_store, facts_to_send, incoming>>,
             incoming_persistent' = [incoming_persistent EXCEPT ![h] = Append(@, f)]
      PROVE  Placed'
  <2>1. \A m \in AllNode : \/ incoming_persistent'[m] = incoming_persistent[m]
                           \/ h = m /\ incoming_persistent'[m] = Append(incoming_persistent[m], f)
    BY <1>7 DEF Types
  <2>2. Gained("waiting", h, n, p, f)
    BY <1>7, <2>1 DEF Gained, More
  <2> QED
    BY <1>3, <2>2
<1>8. CASE DeriveForThread(t, p)
  <2>1. PICK h \in ThreadNode : NewThreadWork(h, f, p)
    BY <1>8 DEF DeriveForThread, f
  <2>2. h \in AllNode /\ UNCHANGED <<linear, run, pers_store, facts_to_send>>
    BY <1>8, <2>1 DEF DeriveForThread, NewThreadWork, AllNode
  <2>3. CASE Slow(p)
    BY <1>7, <2>1, <2>2, <2>3 DEF NewThreadWork
  <2>4. CASE ~Slow(p)
    <3>1. /\ p \in LinearPred /\ incoming' = [incoming EXCEPT ![h][p] = Append(@, f)]
          /\ UNCHANGED incoming_persistent
      BY <2>1, <2>4 DEF NewThreadWork, Slow
    <3>2. ASSUME NEW m \in AllNode, NEW q \in LinearPred
          PROVE  \/ incoming'[m][q] = incoming[m][q]
                 \/ h = m /\ q = p /\ incoming'[m][q] = Append(incoming[m][q], f)
      BY <2>2, <3>1 DEF Types, Lists
    <3>3. Gained("incoming", h, n, p, f)
      BY <2>2, <3>1, <3>2 DEF Gained, More
    <3> QED
      BY <1>3, <3>3
  <2> QED
    BY <2>3, <2>4
<1>9. CASE DeriveForNode(t, p)
  <2>1. PICK k \in Node : Send(t, k, f, p)
    BY <1>9 DEF DeriveForNode, f
  <2>2. CASE ~Slow(p)
    <3>1. /\ facts_to_send' = [facts_to_send EXCEPT ![t] = buffer_add(@, k, f, p)]
          /\ UNCHANGED <<linear, run, incoming_persistent, incoming, pers_store>>
      BY <1>9, <2>1, <2>2 DEF DeriveForNode, Send
    <3>2. p \in LinearPred
      BY <2>2 DEF Slow
    <3> DEFINE b == facts_to_send[t]
    <3>3. b \in [Node -> Lists] /\ b[k] \in Lists
      BY DEF Types
    <3>4. ASSUME NEW u \in Thread, NEW m \in Node
          PROVE  \/ facts_to_send'[u][m] = facts_to_send[u][m]
                 \/ t = u /\ k = m /\ facts_to_send'[u][m] = [b[k] EXCEPT ![p] = <<f>> \o @]
      <4>1. u # t => facts_to_send'[u] = facts_to_send[u]
        BY <3>1 DEF Types
      <4>2. facts_to_send'[t] = [b EXCEPT ![k] = [b[k] EXCEPT ![p] = <<f>> \o @]]
        BY <3>1 DEF Types, buffer_add, add_into_buffer_node
      <4>3. m # k => facts_to_send'[t][m] = b[m]
        BY <3>3, <4>2
      <4>4. facts_to_send'[t][k] = [b[k] EXCEPT ![p] = <<f>> \o @]
        BY <3>3, <4>2
      <4> QED
        BY <4>1, <4>3, <4>4
    <3>5. \A q \in LinearPred : \/ [b[k] EXCEPT ![p] = <<f>> \o @][q] = b[k][q]
                                \/ q = p /\ [b[k] EXCEPT ![p] = <<f>> \o @][q] = <<f>> \o b[k][q]
      BY <3>2, <3>3 DEF Lists
    <3>6. ASSUME NEW u \in Thread, NEW m \in Node, NEW q \in LinearPred
          PROVE  \/ facts_to_send'[u][m][q] = facts_to_send[u][m][q]
                 \/ /\ t = u /\ k = m /\ q = p
                    /\ facts_to_send'[u][m][q] = <<f>> \o facts_to_send[u][m][q]
      BY <3>4, <3>5
    <3>7. Gained("buffer", t, k, p, f)
      BY <3>1, <3>6 DEF Gained, More
    <3> QED
      BY <1>3, <3>7
  <2>3. CASE Slow(p) /\ k # n
    <3>1. /\ k \in AllNode /\ UNCHANGED <<linear, run, pers_store, facts_to_send, incoming>>
          /\ incoming_persistent' = [incoming_persistent EXCEPT ![k] = Append(@, f)]
      BY <1>9, <2>1, <2>3 DEF DeriveForNode, Send, AllNode, n
    <3> QED
      BY <1>7, <3>1
  <2>4. CASE Slow(p) /\ k = n
    <3>1. /\ run' = [run EXCEPT ![t].pc = "locked out"]
          /\ UNCHANGED <<linear, pers_store, facts_to_send, incoming, incoming_persistent>>
      BY <1>9, <2>1, <2>4 DEF DeriveForNode, Send, n
    <3>2. \A u \in Thread : /\ run'[u].generated = run[u].generated
                            /\ run'[u].node_persistent = run[u].node_persistent
                            /\ run'[u].thread_persistent = run[u].thread_persistent
      BY <3>1 DEF Types, Runs
    <3>3. Gained("gone", t, k, p, f)
      BY <3>1, <3>2 DEF Gained
    <3> QED
      BY <1>3, <3>3
  <2> QED
    BY <2>2, <2>3, <2>4
<1> QED
  BY <1>4, <1>5, <1>6, <1>8, <1>9 DEF Derived

\* Updated facts go to the generated list, consumed ones are gone.
LEMMA PlacedUnwind ==
  ASSUME Types, Known, Own, Known', Placed, UsedSeen, NEW t \in Thread, Unwind(t)
  PROVE  Placed' /\ UsedSeen'
<1>1. PICK kind, who, dest : Located(kind, who, dest)
  BY DEF Placed
<1>2. PICK consumed, updated, stay, silent :
        /\ consumed \cup updated \subseteq {f \in run[t].used : info[f].pred \in LinearPred}
        /\ stay \subseteq updated /\ GiveUp(t, consumed, updated, stay, silent)
  BY UnwindIs
<1>3. /\ run[t].pc = "fire"
      /\ UNCHANGED <<owner, pers_store, incoming, incoming_persistent, facts_to_send>>
  BY UnwindIs
<1> DEFINE S == consumed \cup (updated \ stay)
           r == run'[t]
<1>4. consumed \cup updated \subseteq run[t].used
  BY <1>2
<1>5. /\ \A n \in AllNode : \A p \in LinearPred :
           /\ ToSet(linear'[n][p]) = ToSet(linear[n][p]) \ S
           /\ Once(linear[n][p]) => Once(linear'[n][p])
      /\ DOMAIN info' = DOMAIN info
      /\ \A f \in DOMAIN info : info'[f].pred = info[f].pred
  BY <1>2, <1>4, GiveUpIs
<1>6. /\ run' = [run EXCEPT ![t] = r] /\ r \in Runs /\ r.used = {}
      /\ r.node_persistent = run[t].node_persistent
      /\ r.thread_persistent = run[t].thread_persistent
  BY <1>2, <1>4, GiveUpIs
<1>7. \A p \in LinearPred :
        /\ ToSet(r.generated[p]) = ToSet(run[t].generated[p]) \cup {f \in updated \ stay : info[f].pred = p}
        /\ Once(run[t].generated[p]) /\ ToSet(run[t].generated[p]) \cap (updated \ stay) = {}
             => Once(r.generated[p])
  BY <1>2, <1>4, GiveUpIs
<1>8. Goes(t, run'[t])
  BY <1>6, RunStep DEF Goes
<1>9. ASSUME NEW u \in Thread, NEW f \in run[u].used, info[f].pred \in LinearPred
      PROVE  f \in DOMAIN info /\ kind[f] = "linear" /\ owner[who[f]] = u
  <2> DEFINE p == info[f].pred
             h == Home(u, run[u].node, p)
  <2>1. f \in ToSet(linear[h][p]) /\ run[u].pc # "idle"
    BY <1>9 DEF UsedSeen, Visible
  <2>2. h \in AllNode /\ owner[h] = u
    BY <2>1, RunFields, ThreadNodes DEF Home, Own
  <2>3. p \in LinearPred
    BY <1>9
  <2> HIDE DEF p, h
  <2>4. f \in DOMAIN info /\ kind[f] = "linear" /\ who[f] = h
    BY <1>1, <2>1, <2>2, <2>3 DEF Placed, Listed, Located
  <2> QED
    BY <2>2, <2>4
<1>10. \A f \in S : /\ f \in run[t].used /\ info[f].pred \in LinearPred
                    /\ f \in DOMAIN info /\ kind[f] = "linear" /\ owner[who[f]] = t
  BY <1>2, <1>9
<1> DEFINE k == [f \in S |-> "generated"]
           w == [f \in S |-> t]
<1>11. \A f \in S : k[f] = "generated" /\ w[f] = t
  OBVIOUS
<1>12. updated \ stay \subseteq S
  OBVIOUS
<1> HIDE DEF S, k, w, r
<1>13. /\ \A n \in AllNode : \A f \in ToSet(incoming_persistent[n]) \cup pers_store[n] : f \notin S
       /\ \A n \in AllNode, p \in LinearPred : \A f \in ToSet(incoming[n][p]) : f \notin S
       /\ \A u \in Thread : \A f \in ToSet(run[u].node_persistent) \cup ToSet(run[u].thread_persistent) : f \notin S
       /\ \A u \in Thread, p \in LinearPred : \A f \in ToSet(run[u].generated[p]) : f \notin S
       /\ \A u \in Thread, m \in Node, p \in LinearPred : \A f \in ToSet(facts_to_send[u][m][p]) : f \notin S
  BY <1>1, <1>10 DEF Located
<1>14. ASSUME NEW u \in Thread, NEW p \in LinearPred
       PROVE  /\ Once(run'[u].generated[p])
              /\ \A f \in ToSet(run'[u].generated[p]) :
                   \/ f \notin S /\ f \in ToSet(run[u].generated[p])
                   \/ f \in S /\ u = t /\ info[f].pred = p
  <2>1. Once(run[u].generated[p])
    BY DEF Placed, Single
  <2>2. CASE u = t
    <3>1. ToSet(run[t].generated[p]) \cap (updated \ stay) = {}
      BY <1>12, <1>13
    <3>2. \A f \in ToSet(r.generated[p]) : \/ f \in ToSet(run[t].generated[p])
                                           \/ f \in S /\ info[f].pred = p
      BY <1>7, <1>12
    <3> QED
      BY <1>7, <1>13, <2>1, <2>2, <3>1, <3>2 DEF r
  <2>3. CASE u # t
    BY <1>8, <1>13, <2>1, <2>3 DEF Goes
  <2> QED
    BY <2>2, <2>3
<1>15. \A u \in Thread : /\ run'[u].node_persistent = run[u].node_persistent
                         /\ run'[u].thread_persistent = run[u].thread_persistent
  BY <1>6, <1>8 DEF Goes, r
<1>16. Moves(S, k, w, <<>>)
  BY <1>3, <1>5, <1>10, <1>11, <1>13, <1>14, <1>15 DEF Moves
<1>17. Single'
  BY <1>3, <1>5, <1>14, <1>15 DEF Placed, Single
<1>18. Placed'
  BY <1>16, <1>17, MovesKeep
<1>19. ASSUME NEW u \in Thread, NEW f \in run'[u].used
       PROVE  (f \in Visible(u, info[f].pred))' /\ run'[u].pc \in {"fire", "locked out"}
  <2>1. u # t /\ run'[u] = run[u]
    BY <1>6, <1>8, <1>19 DEF Goes, r
  <2>2. f \in Visible(u, info[f].pred) /\ run[u].pc \in {"fire", "locked out"}
    BY <1>19, <2>1 DEF UsedSeen
  <2> DEFINE p == info[f].pred
             h == Home(u, run[u].node, p)
  <2>3. h \in AllNode
    BY RunFields, ThreadNodes DEF Home
  <2>4. CASE p \in LinearPred
    <3>1. f \in DOMAIN info /\ f \notin S
      BY <1>9, <1>10, <1>19, <2>1, <2>4
    <3>2. f \in ToSet(linear[h][p]) /\ info'[f].pred = p
      BY <1>5, <2>2, <2>4, <3>1 DEF Visible
    <3>3. f \in ToSet(linear'[h][p])
      <4> HIDE DEF p, h
      <4> QED
        BY <1>5, <2>3, <2>4, <3>1, <3>2
    <3> QED
      BY <2>1, <2>2, <2>4, <3>2, <3>3 DEF Visible
  <2>5. CASE p \notin LinearPred
    <3>1. f \in pers_store[h] /\ f \in DOMAIN info
      BY <2>2, <2>3, <2>5 DEF Visible, Known
    <3>2. info'[f].pred = p /\ pers_store' = pers_store
      BY <1>3, <1>5, <3>1
    <3> QED
      BY <2>1, <2>2, <2>5, <3>1, <3>2 DEF Visible
  <2> QED
    BY <2>1, <2>2, <2>4, <2>5
<1>20. UsedSeen'
  BY <1>19 DEF UsedSeen
<1> QED
  BY <1>18, <1>20

\* What a rule generated enters the databases.
LEMMA PlacedEndRule ==
  ASSUME Types, Known, Known', Placed, NEW t \in Thread, EndRule(t)
  PROVE  Placed'
<1>1. PICK kind, who, dest : Located(kind, who, dest)
  BY DEF Placed
<1> DEFINE n == run[t].node
           h == thread_node[t]
           G == {f \in DOMAIN info : \E p \in LinearPred : f \in ToSet(run[t].generated[p])}
           N == ToSet(run[t].node_persistent)
           H == IF n = h THEN {} ELSE ToSet(run[t].thread_persistent)
           S == G \cup N \cup H
           w == [f \in S |-> IF f \in G THEN Home(t, n, info[f].pred) ELSE IF f \in N THEN n ELSE h]
           k == [f \in S |-> "linear"]
<1>2. /\ run' = [run EXCEPT ![t] = run'[t]] /\ run'[t] \in Runs
      /\ run'[t].generated = NoFacts /\ run'[t].node_persistent = <<>>
      /\ run'[t].thread_persistent = IF n = h THEN run[t].thread_persistent ELSE <<>>
      /\ UNCHANGED <<info, pers_store, incoming, incoming_persistent, facts_to_send>>
  BY EndRuleRun
<1>3. Goes(t, run'[t])
  BY <1>2, RunStep DEF Goes
<1>4. \A m \in AllNode : \A p \in LinearPred :
        /\ ToSet(linear'[m][p]) = ToSet(linear[m][p]) \cup Brought(t, m, p)
        /\ Apart(t, m, p) => Once(linear'[m][p])
  BY EndRuleLinear
<1>5. /\ \A p \in LinearPred : \A f \in ToSet(run[t].generated[p]) : f \in G /\ info[f].pred = p
      /\ S \subseteq DOMAIN info
  <2>1. \A p \in LinearPred : \A f \in ToSet(run[t].generated[p]) : f \in DOMAIN info /\ info[f].pred = p
    BY DEF Placed, Listed
  <2>2. N \subseteq DOMAIN info /\ H \subseteq DOMAIN info
    BY DEF Known
  <2> QED
    BY <2>1, <2>2
<1>6. /\ \A f \in G : kind[f] = "generated" /\ who[f] = t
      /\ \A f \in N : kind[f] = "node" /\ who[f] = t
      /\ \A f \in H : kind[f] = "thread" /\ who[f] = t /\ n # h
  BY <1>1 DEF Located
<1>7. /\ \A f \in S : k[f] = "linear"
      /\ \A f \in G : w[f] = Home(t, n, info[f].pred)
      /\ \A f \in N : w[f] = n
      /\ \A f \in H : w[f] = h
  <2>1. G \cap N = {} /\ G \cap H = {} /\ N \cap H = {}
    <3> HIDE DEF G, N, H
    <3> QED
      BY <1>6
  <2> HIDE DEF G, N, H
  <2> QED
    BY <2>1
<1>8. ASSUME NEW m \in AllNode, NEW p \in LinearPred, NEW f \in Brought(t, m, p)
      PROVE  f \in S /\ w[f] = m /\ info[f].pred = p
  <2>1. run[t].node_persistent \in Seq(Nat) /\ run[t].thread_persistent \in Seq(Nat)
    BY RunFields
  <2>2. /\ ToSet(Reused(run[t].node_persistent)[p]) = {g \in ToSet(run[t].node_persistent) : info[g].pred = p}
        /\ ToSet(Reused(run[t].thread_persistent)[p]) = {g \in ToSet(run[t].thread_persistent) : info[g].pred = p}
    BY <2>1, ReusedIs
  <2>3. \/ m = Home(t, n, p) /\ f \in ToSet(run[t].generated[p])
        \/ m = n /\ f \in N /\ info[f].pred = p
        \/ m = h /\ f \in H /\ info[f].pred = p
    BY <1>8, <2>2 DEF Brought
  <2> HIDE DEF G, N, H, w, n, h
  <2> QED
    BY <1>5, <1>7, <2>3
<1> HIDE DEF k, w
<1>9. \A f \in S : kind[f] \in {"generated", "node", "thread"} /\ who[f] = t /\ (kind[f] = "thread" => n # h)
  <2> HIDE DEF G, N, H
  <2> QED
    BY <1>6
<1>10. ASSUME NEW u \in Thread
       PROVE  /\ \A f \in ToSet(run'[u].node_persistent) : f \notin S /\ f \in ToSet(run[u].node_persistent)
              /\ \A f \in ToSet(run'[u].thread_persistent) : f \notin S /\ f \in ToSet(run[u].thread_persistent)
              /\ \A p \in LinearPred : \A f \in ToSet(run'[u].generated[p]) :
                    f \notin S /\ f \in ToSet(run[u].generated[p])
              /\ Once(run'[u].node_persistent) /\ Once(run'[u].thread_persistent)
              /\ \A p \in LinearPred : Once(run'[u].generated[p])
  <2>1. /\ Once(run[u].node_persistent) /\ Once(run[u].thread_persistent)
        /\ \A p \in LinearPred : Once(run[u].generated[p])
    BY DEF Placed, Single
  <2>2. CASE u = t
    <3>1. \/ run'[t].thread_persistent = run[t].thread_persistent /\ n = h
          \/ run'[t].thread_persistent = <<>>
      BY <1>2
    <3>2. \A f \in ToSet(run'[t].thread_persistent) : f \notin S /\ f \in ToSet(run[t].thread_persistent)
      <4>1. \A f \in ToSet(run[t].thread_persistent) : kind[f] = "thread"
        BY <1>1 DEF Located
      <4> HIDE DEF S
      <4> QED
        BY <1>9, <3>1, <4>1, NothingHeld
    <3>3. Once(run'[t].thread_persistent)
      BY <2>1, <2>2, <3>1, NothingHeld
    <3> QED
      BY <1>2, <2>2, <3>2, <3>3, NothingHeld
  <2>3. CASE u # t
    <3>1. run'[u] = run[u]
      BY <1>3, <2>3 DEF Goes
    <3>2. \A f : f \in ToSet(run[u].node_persistent) \/ f \in ToSet(run[u].thread_persistent)
                 \/ (\E p \in LinearPred : f \in ToSet(run[u].generated[p])) => who[f] = u
      BY <1>1 DEF Located
    <3> HIDE DEF S
    <3> QED
      BY <1>9, <2>1, <2>3, <3>1, <3>2
  <2> QED
    BY <2>2, <2>3
<1> HIDE DEF S
<1>11. /\ \A m \in AllNode : \A f \in ToSet(incoming_persistent[m]) \cup pers_store[m] : f \notin S
       /\ \A m \in AllNode, p \in LinearPred : \A f \in ToSet(linear[m][p]) \cup ToSet(incoming[m][p]) : f \notin S
       /\ \A u \in Thread, m \in Node, p \in LinearPred : \A f \in ToSet(facts_to_send[u][m][p]) : f \notin S
  BY <1>1, <1>9 DEF Located
<1>12. Moves(S, k, w, <<>>)
  <2>1. ASSUME NEW m \in AllNode, NEW p \in LinearPred, NEW f \in ToSet(linear'[m][p])
        PROVE  \/ f \notin S /\ f \in ToSet(linear[m][p])
               \/ f \in S /\ k[f] = "linear" /\ w[f] = m /\ info'[f].pred = p
    BY <1>2, <1>4, <1>7, <1>8, <1>11, <2>1
  <2> QED
    BY <1>2, <1>5, <1>10, <1>11, <2>1 DEF Moves
<1>13. ASSUME NEW m \in AllNode, NEW p \in LinearPred PROVE Once(linear'[m][p])
  <2>1. /\ Once(linear[m][p]) /\ Once(run[t].generated[p]) /\ Once(run[t].node_persistent)
        /\ Once(run[t].thread_persistent)
    BY DEF Placed, Single
  <2>2. \A f : /\ f \in ToSet(linear[m][p]) => kind[f] = "linear"
               /\ f \in ToSet(run[t].generated[p]) => kind[f] = "generated"
               /\ f \in ToSet(run[t].node_persistent) => kind[f] = "node"
               /\ f \in ToSet(run[t].thread_persistent) => kind[f] = "thread"
    BY <1>1 DEF Located
  <2>3. Apart(t, m, p)
    BY <2>1, <2>2 DEF Apart
  <2> QED
    BY <1>4, <2>3
<1>14. Single'
  BY <1>2, <1>10, <1>13 DEF Placed, Single
<1> QED
  BY <1>12, <1>14, MovesKeep

\* The databases lose nothing.
Grow == \A n \in AllNode : /\ pers_store[n] \subseteq pers_store'[n]
                           /\ \A p \in LinearPred : ToSet(linear[n][p]) \subseteq ToSet(linear'[n][p])

\* Taking in the incoming facts removes none from the databases.
LEMMA TakesGrow ==
  ASSUME Types, NEW n \in AllNode, TakesIn(n)
  PROVE  Grow
<1> DEFINE list == incoming_persistent[n]
<1>1. /\ linear' = [linear EXCEPT ![n] = increment_database(
                                     increment_database(@, incoming[n]), Reused(list))]
      /\ pers_store' = [pers_store EXCEPT ![n] = Stored(n, list)]
  BY Zenon DEF TakesIn
<1>2. list \in Seq(Nat) /\ linear[n] \in Lists /\ incoming[n] \in Lists
  BY DEF Types
<1>3. Reused(list) \in Lists
  BY <1>2, ReusedIs
<1>4. Joined3(linear'[n], linear[n], incoming[n], Reused(list))
  <2>1. linear'[n] = increment_database(increment_database(linear[n], incoming[n]), Reused(list))
    BY <1>1 DEF Types
  <2> QED
    BY <1>2, <1>3, <2>1, IncrementTwice
<1>5. \A p \in LinearPred : ToSet(linear[n][p]) \subseteq ToSet(linear'[n][p])
  BY <1>4 DEF Joined3
<1>6. \A m \in AllNode : m # n => linear'[m] = linear[m] /\ pers_store'[m] = pers_store[m]
  BY <1>1 DEF Types
<1>7. pers_store[n] \subseteq pers_store'[n]
  BY <1>1 DEF Stored, Types
<1> QED
  BY <1>5, <1>6, <1>7 DEF Grow

\* A derivation removes no fact from the databases.
LEMMA DeriveGrows ==
  ASSUME Types, NEW t \in Thread, NEW p \in Pred, Derived(t, p)
  PROVE  Grow
<1> DEFINE f == Len(info) + 1
           n == run[t].node
<1>1. n \in AllNode /\ f \in Nat
  BY RunFields DEF Types
<1> HIDE DEF f, n
<1>2. CASE DeriveLinear(t, p)
  <2>1. /\ p \in LinearPred /\ linear' = [linear EXCEPT ![n][p] = Append(@, f)] /\ pers_store' = pers_store
    BY <1>2 DEF DeriveLinear, AddLinear, f, n
  <2> DEFINE s == linear[n][p]
  <2>2. s \in Seq(Nat)
    BY <1>1, <2>1 DEF Types, Lists
  <2> HIDE DEF s
  <2>3. ToSet(Append(s, f)) = ToSet(s) \cup {f}
    BY <1>1, <2>2, SeqAppend
  <2>4. ASSUME NEW m \in AllNode, NEW q \in LinearPred
        PROVE  linear'[m][q] = linear[m][q] \/ (m = n /\ q = p /\ linear'[m][q] = Append(s, f))
    BY <1>1, <2>1 DEF Types, Lists, s
  <2> QED
    BY <2>1, <2>3, <2>4 DEF Grow, s
<1>3. CASE DerivePersistent(t, p)
  <2>1. pers_store' = [pers_store EXCEPT ![Home(t, n, p)] = @ \cup {f}] /\ linear' = linear
    BY <1>3 DEF DerivePersistent, AddPersistent, f, n
  <2> QED
    BY <2>1 DEF Types, Grow
<1>4. CASE pers_store' = pers_store /\ linear' = linear
  BY <1>4 DEF Grow
<1>5. DeriveLinear(t, p) \/ DerivePersistent(t, p) \/ (pers_store' = pers_store /\ linear' = linear)
  BY DEF Derived, DeriveEnqueue, DeriveForThread, NewThreadWork, DeriveForNode, Send
<1> QED
  BY <1>2, <1>3, <1>4, <1>5

\* A synchronisation removes no fact from the databases.
LEMMA SyncGrows ==
  ASSUME Types, NEW t \in Thread, Sync(t)
  PROVE  Grow
<1>1. PICK n \in Node : SyncTo(t, n)
  BY SyncIs
<1> DEFINE lists == facts_to_send[t][n]
<1>2. n \in AllNode /\ lists \in Lists /\ linear[n] \in Lists
  BY DEF AllNode, Types
<1>3. /\ pers_store' = pers_store
      /\ linear' = linear \/ linear' = [linear EXCEPT ![n] = increment_database(@, lists)]
  BY <1>1 DEF SyncTo
<1> HIDE DEF lists
<1>4. Joined(increment_database(linear[n], lists), linear[n], lists)
  BY <1>2, IncrementOnce
<1>5. \A p \in LinearPred : ToSet(linear[n][p]) \subseteq ToSet(increment_database(linear[n], lists)[p])
  BY <1>4 DEF Joined
<1>6. CASE linear' = linear
  BY <1>3, <1>6 DEF Grow
<1>7. CASE linear' = [linear EXCEPT ![n] = increment_database(@, lists)]
  <2>1. \A m \in AllNode : linear'[m] = IF m = n THEN increment_database(linear[n], lists) ELSE linear[m]
    BY <1>7 DEF Types
  <2> QED
    BY <1>3, <1>5, <2>1 DEF Grow
<1> QED
  BY <1>3, <1>6, <1>7

\* The facts stay in their places, and in the sight of the rule that holds them.
LEMMA NextPlaced ==
  ASSUME Types, Known, Known', Own, Placed, UsedSeen, matcher \in [AllNode -> Matchers], [Next]_vars
  PROVE  Placed' /\ UsedSeen'
<1>1. CASE UNCHANGED vars
  <2>1. UNCHANGED <<info, linear, pers_store, incoming, incoming_persistent, run, facts_to_send>>
    BY <1>1 DEF vars
  <2>2. Listed' /\ Single'
    BY <2>1 DEF Placed, Listed, Single
  <2>3. ASSUME NEW kind, NEW who, NEW dest, Located(kind, who, dest) PROVE Located(kind, who, dest)'
    BY <2>1, <2>3 DEF Located
  <2>4. UsedSeen'
    BY <2>1 DEF UsedSeen, Visible
  <2> QED
    BY <2>2, <2>3, <2>4 DEF Placed
<1>2. Listed
  BY DEF Placed
<1>3. ASSUME NEW t \in Thread, Goes(t, run'[t]), Grow, \A f \in DOMAIN info : info'[f].pred = info[f].pred,
             \/ run'[t].used = {}
             \/ /\ run'[t].used = run[t].used /\ run'[t].node = run[t].node
                /\ run[t].used # {} => run'[t].pc \in {"fire", "locked out"}
      PROVE  UsedSeen'
  BY <1>2, <1>3, UsedStays DEF Grow
<1>4. ASSUME NEW t \in Thread, run[t].used # {} PROVE run[t].pc \in {"fire", "locked out"}
  BY <1>4 DEF UsedSeen
<1>5. UNCHANGED <<linear, pers_store>> => Grow
  BY DEF Grow
<1>6. ASSUME NEW t \in Thread, Begin(t) PROVE Placed' /\ UsedSeen'
  <2>1. PICK n \in AllNode :
          /\ Begun(t, n) /\ Goes(t, run'[t]) /\ run'[t].used = {} /\ run'[t].generated = NoFacts
          /\ run'[t].node_persistent = <<>> /\ run'[t].thread_persistent = run[t].thread_persistent
    BY <1>6, BeginIs
  <2>2. TakesIn(n) /\ incoming' = [incoming EXCEPT ![n] = NoFacts]
        /\ incoming_persistent' = [incoming_persistent EXCEPT ![n] = <<>>]
        /\ facts_to_send' = facts_to_send /\ info' = info
    BY <2>1 DEF Begun, TakesIn
  <2>3. FewerLists(t)
    BY <2>1 DEF FewerLists
  <2>4. Placed'
    BY <1>6, <2>1, <2>2, <2>3, PlacedTakes
  <2>5. Grow
    BY <2>2, TakesGrow
  <2> QED
    BY <1>3, <1>6, <2>1, <2>2, <2>4, <2>5
<1>7. ASSUME NEW t \in Thread, AddThread(t) PROVE Placed' /\ UsedSeen'
  <2> DEFINE h == thread_node[t]
  <2>1. /\ Goes(t, run'[t]) /\ run[t].pc = "thread" /\ SameLists(t) /\ run'[t].used = run[t].used
    BY <1>7, AddThreadIs
  <2>2. TakesIn(h) /\ incoming' = [incoming EXCEPT ![h] = NoFacts]
        /\ incoming_persistent' = [incoming_persistent EXCEPT ![h] = <<>>]
        /\ facts_to_send' = facts_to_send /\ info' = info
    BY <1>7, Zenon DEF AddThread, TakesIn
  <2>3. FewerLists(t) /\ h \in AllNode
    BY <1>7, <2>1, ThreadNodes DEF FewerLists, SameLists
  <2> HIDE DEF h
  <2>4. Placed'
    BY <1>7, <2>1, <2>2, <2>3, PlacedTakes
  <2>5. Grow
    BY <2>2, <2>3, TakesGrow
  <2>6. run'[t].used = {}
    BY <1>4, <1>7, <2>1
  <2> QED
    BY <1>3, <1>7, <2>1, <2>2, <2>4, <2>5, <2>6
<1>8. ASSUME NEW t \in Thread, NextRule(t) PROVE Placed' /\ UsedSeen'
  <2>1. /\ Goes(t, run'[t]) /\ run[t].pc = "rules" /\ run'[t].used = run[t].used /\ SameLists(t)
        /\ UNCHANGED <<info, linear, pers_store, incoming, incoming_persistent, facts_to_send>>
    BY <1>8, NextRuleIs
  <2>2. FewerLists(t) /\ run'[t].used = {}
    BY <1>4, <1>8, <2>1 DEF FewerLists, SameLists
  <2> QED
    BY <1>3, <1>5, <1>8, <2>1, <2>2, PlacedSame
<1>9. ASSUME NEW t \in Thread, Match(t) PROVE Placed' /\ UsedSeen'
  <2>1. /\ Goes(t, run'[t]) /\ run'[t].pc = "fire" /\ run'[t].node = run[t].node /\ SameLists(t)
        /\ \A f \in run'[t].used : \E p : f \in Visible(t, p)
        /\ UNCHANGED <<info, linear, pers_store, incoming, incoming_persistent, facts_to_send>>
    BY <1>9, MatchIs
  <2>2. FewerLists(t)
    BY <2>1 DEF FewerLists, SameLists
  <2>3. Placed'
    BY <1>9, <2>1, <2>2, PlacedSame
  <2>4. ASSUME NEW f \in run'[t].used PROVE (f \in Visible(t, info[f].pred))'
    <3>1. PICK p : f \in Visible(t, p)
      BY <2>1, <2>4
    <3>2. Home(t, run[t].node, p) \in AllNode
      BY <1>9, RunFields, ThreadNodes DEF Home
    <3>3. info[f].pred = p
      BY <1>2, <3>1, <3>2 DEF Visible, Listed
    <3> QED
      BY <2>1, <3>1, <3>3 DEF Visible
  <2>5. ASSUME NEW u \in Thread, u # t, NEW f \in run'[u].used
        PROVE  (f \in Visible(u, info[f].pred))' /\ run'[u].pc \in {"fire", "locked out"}
    <3>1. run'[u] = run[u] /\ f \in Visible(u, info[f].pred) /\ run[u].pc \in {"fire", "locked out"}
      BY <2>1, <2>5 DEF Goes, UsedSeen
    <3> QED
      BY <2>1, <3>1 DEF Visible
  <2>6. UsedSeen'
    BY <2>1, <2>4, <2>5 DEF UsedSeen
  <2> QED
    BY <2>3, <2>6
<1>10. ASSUME NEW t \in Thread, Derive(t) PROVE Placed' /\ UsedSeen'
  <2>1. PICK p \in Pred : Derived(t, p)
    BY <1>10, DeriveIs
  <2>2. /\ Goes(t, run'[t]) /\ run'[t].pc \in {"fire", "locked out"}
        /\ run'[t].node = run[t].node /\ run'[t].used = run[t].used
    BY <1>10, <2>1, DeriveRun
  <2>3. \A f \in DOMAIN info : info'[f].pred = info[f].pred
    <3>1. info' = Append(info, [pred |-> p, from |-> run[t].node]) /\ run[t].node \in AllNode
      BY <1>10, <2>1, RunFields DEF Derived
    <3> QED
      BY <3>1, InfoGrows
  <2>4. Grow
    BY <1>10, <2>1, DeriveGrows
  <2>5. Placed'
    BY <1>10, <2>1, PlacedDerive
  <2> QED
    BY <1>3, <1>10, <2>2, <2>3, <2>4, <2>5
<1>11. ASSUME NEW t \in Thread, Unwind(t) PROVE Placed' /\ UsedSeen'
  BY <1>11, PlacedUnwind
<1>12. ASSUME NEW t \in Thread, EndRule(t) PROVE Placed' /\ UsedSeen'
  <2>1. /\ run' = [run EXCEPT ![t] = run'[t]] /\ run'[t] \in Runs /\ run'[t].used = {}
        /\ UNCHANGED <<info, pers_store>>
    BY <1>12, EndRuleRun
  <2>2. Goes(t, run'[t])
    BY <1>12, <2>1, RunStep DEF Goes
  <2>3. Grow
    BY <1>12, <2>1, EndRuleLinear DEF Grow
  <2> QED
    BY <1>3, <1>12, <2>1, <2>2, <2>3, PlacedEndRule
<1>13. ASSUME NEW t \in Thread, EndRun(t) PROVE Placed' /\ UsedSeen'
  <2>1. /\ run' = [run EXCEPT ![t] = run'[t]] /\ run'[t] \in Runs /\ run'[t].used = run[t].used
        /\ SameLists(t)
        /\ UNCHANGED <<info, linear, pers_store, incoming, incoming_persistent, facts_to_send>>
    BY <1>13, EndRunIs DEF SameLists
  <2>2. Goes(t, run'[t]) /\ FewerLists(t)
    BY <1>13, <2>1, RunStep DEF Goes, FewerLists, SameLists
  <2>3. run'[t].used = {}
    <3>1. run[t].pc \in {"rules", "end"}
      BY <1>13, Zenon DEF EndRun
    <3> QED
      BY <1>4, <1>13, <2>1, <3>1
  <2> QED
    BY <1>3, <1>5, <1>13, <2>1, <2>2, <2>3, PlacedSame
<1>14. ASSUME NEW t \in Thread, Sync(t) PROVE Placed' /\ UsedSeen'
  <2>1. run' = run /\ info' = info
    BY <1>14, SyncIs DEF SyncTo
  <2>2. run' = [run EXCEPT ![t] = run[t]] /\ run'[t] = run[t] /\ run[t] \in Runs
    BY <1>14, <2>1, RunFields DEF Types
  <2>3. Goes(t, run'[t])
    BY <1>14, <2>2, RunStep DEF Goes
  <2>4. Grow
    BY <1>14, SyncGrows
  <2> QED
    BY <1>3, <1>4, <1>14, <2>1, <2>3, <2>4, PlacedSync
<1>15. ASSUME NEW t \in Thread, Done(t) PROVE Placed' /\ UsedSeen'
  <2>1. /\ run' = [run EXCEPT ![t] = run'[t]] /\ run'[t] \in Runs /\ run'[t].used = {}
        /\ run'[t].generated = NoFacts /\ run'[t].node_persistent = <<>>
        /\ run'[t].thread_persistent = run[t].thread_persistent
        /\ UNCHANGED <<info, linear, pers_store, incoming, incoming_persistent, facts_to_send>>
    BY <1>15, DoneIs
  <2>2. Goes(t, run'[t]) /\ FewerLists(t)
    BY <1>15, <2>1, RunStep DEF Goes, FewerLists
  <2> QED
    BY <1>3, <1>5, <1>15, <2>1, <2>2, PlacedSame
<1>16. ASSUME NEW t \in Thread, Run(t) PROVE Placed' /\ UsedSeen'
  BY <1>6, <1>7, <1>8, <1>9, <1>10, <1>11, <1>12, <1>13, <1>14, <1>15, <1>16 DEF Run
<1> QED
  BY <1>1, <1>16 DEF Next

\* The facts of the start have one place.
LEMMA InitPlaced == ASSUME Init PROVE Placed /\ UsedSeen
<1>1. /\ pers_store = [n \in AllNode |-> {}]
      /\ incoming = [n \in AllNode |-> NoFacts]
      /\ incoming_persistent = [n \in AllNode |-> <<>>]
      /\ run = [t \in Thread |-> Idle]
      /\ facts_to_send = [t \in Thread |-> [n \in Node |-> NoFacts]]
  BY Zenon DEF Init
<1>2. /\ \A n \in AllNode, p \in LinearPred :
           /\ Once(linear[n][p])
           /\ linear[n][p] # <<>> => p = InitPred
           /\ \A f \in ToSet(linear[n][p]) : f \in DOMAIN info /\ info[f].from = n
      /\ \A f \in DOMAIN info : info[f].pred = InitPred
  BY InitFacts
<1>3. /\ \A n \in AllNode : /\ incoming_persistent[n] = <<>> /\ pers_store[n] = {}
                            /\ \A p \in LinearPred : incoming[n][p] = <<>>
      /\ \A t \in Thread : /\ run[t].node_persistent = <<>> /\ run[t].thread_persistent = <<>>
                           /\ run[t].used = {}
                           /\ \A p \in LinearPred : run[t].generated[p] = <<>>
                           /\ \A n \in Node, p \in LinearPred : facts_to_send[t][n][p] = <<>>
  BY <1>1, IdleType, NothingHeld
<1>4. \A n \in AllNode, p \in LinearPred : \A f \in ToSet(linear[n][p]) : info[f].pred = p
  BY <1>2, NothingHeld
<1>5. Listed
  BY <1>2, <1>3, <1>4, NothingHeld DEF Listed
<1>6. Single
  BY <1>2, <1>3, NothingHeld DEF Single
<1> DEFINE kind == [f \in DOMAIN info |-> "linear"]
           who == [f \in DOMAIN info |-> info[f].from]
<1>7. Located(kind, who, who)
  BY <1>2, <1>3, NothingHeld DEF Located
<1>8. UsedSeen
  BY <1>3 DEF UsedSeen
<1> QED
  BY <1>5, <1>6, <1>7, <1>8 DEF Placed

\* The members of Places, one kind at a time.
LEMMA PlacesAre ==
  ASSUME NEW f, NEW a \in Places(f)
  PROVE  \/ \E n \in AllNode, p \in LinearPred : \E i \in DOMAIN linear[n][p] :
              linear[n][p][i] = f /\ a = <<<<"linear", n, p>>, i>>
         \/ \E n \in AllNode, p \in LinearPred : \E i \in DOMAIN incoming[n][p] :
              incoming[n][p][i] = f /\ a = <<<<"incoming", n, p>>, i>>
         \/ \E n \in AllNode : \E i \in DOMAIN incoming_persistent[n] :
              incoming_persistent[n][i] = f /\ a = <<<<"incoming", n>>, i>>
         \/ \E n \in AllNode : f \in pers_store[n] /\ a = <<<<"stored", n>>, 0>>
         \/ \E t \in Thread, p \in LinearPred : \E i \in DOMAIN run[t].generated[p] :
              run[t].generated[p][i] = f /\ a = <<<<"generated", t, p>>, i>>
         \/ \E t \in Thread, n \in Node, p \in LinearPred : \E i \in DOMAIN facts_to_send[t][n][p] :
              facts_to_send[t][n][p][i] = f /\ a = <<<<"buffer", t, n, p>>, i>>
         \/ \E t \in Thread : \E i \in DOMAIN run[t].node_persistent :
              run[t].node_persistent[i] = f /\ a = <<<<"node", t>>, i>>
         \/ \E t \in Thread : \E i \in DOMAIN run[t].thread_persistent :
              run[t].thread_persistent[i] = f /\ a = <<<<"thread", t>>, i>>
<1>1. \/ \E n \in AllNode : a \in AtNode(f, n)
      \/ \E t \in Thread : a \in AtThread(f, t)
  <2> DEFINE A == UNION {AtNode(f, n) : n \in AllNode}
             B == UNION {AtThread(f, t) : t \in Thread}
  <2>1. ASSUME a \in A PROVE \E n \in AllNode : a \in AtNode(f, n)
    BY <2>1, Zenon
  <2>2. ASSUME a \in B PROVE \E t \in Thread : a \in AtThread(f, t)
    BY <2>2, Zenon
  <2>3. Places(f) = A \cup B
    BY DEF Places
  <2> HIDE DEF A, B
  <2> QED
    BY <2>1, <2>2, <2>3
<1>2. ASSUME NEW place, NEW s, a \in At(f, place, s)
      PROVE  \E i \in DOMAIN s : s[i] = f /\ a = <<place, i>>
  BY <1>2 DEF At
<1>3. ASSUME NEW n \in AllNode, a \in AtNode(f, n)
      PROVE  \/ \E p \in LinearPred : \/ a \in At(f, <<"linear", n, p>>, linear[n][p])
                                     \/ a \in At(f, <<"incoming", n, p>>, incoming[n][p])
             \/ a \in At(f, <<"incoming", n>>, incoming_persistent[n])
             \/ f \in pers_store[n] /\ a = <<<<"stored", n>>, 0>>
  <2> DEFINE InLists(p) == At(f, <<"linear", n, p>>, linear[n][p])
                           \cup At(f, <<"incoming", n, p>>, incoming[n][p])
             A == UNION {InLists(p) : p \in LinearPred}
             B == At(f, <<"incoming", n>>, incoming_persistent[n])
             C == IF f \in pers_store[n] THEN {<<<<"stored", n>>, 0>>} ELSE {}
  <2>1. AtNode(f, n) = A \cup B \cup C
    BY DEF AtNode
  <2>2. \A p : a \in InLists(p) => \/ a \in At(f, <<"linear", n, p>>, linear[n][p])
                               \/ a \in At(f, <<"incoming", n, p>>, incoming[n][p])
    OBVIOUS
  <2>3. a \in C => f \in pers_store[n] /\ a = <<<<"stored", n>>, 0>>
    OBVIOUS
  <2> HIDE DEF InLists
  <2>4. a \in A => \E p \in LinearPred : a \in InLists(p)
    BY Zenon
  <2> HIDE DEF A, C
  <2>5. a \in A \/ a \in B \/ a \in C
    BY <1>3, <2>1
  <2> QED
    BY <2>2, <2>3, <2>4, <2>5, Zenon
<1>4. ASSUME NEW t \in Thread, a \in AtThread(f, t)
      PROVE  \/ \E p \in LinearPred :
                  \/ a \in At(f, <<"generated", t, p>>, run[t].generated[p])
                  \/ \E n \in Node : a \in At(f, <<"buffer", t, n, p>>, facts_to_send[t][n][p])
             \/ a \in At(f, <<"node", t>>, run[t].node_persistent)
             \/ a \in At(f, <<"thread", t>>, run[t].thread_persistent)
  <2> DEFINE Buffer(p, n) == At(f, <<"buffer", t, n, p>>, facts_to_send[t][n][p])
             Buffers(p) == UNION {Buffer(p, n) : n \in Node}
             InLists(p) == At(f, <<"generated", t, p>>, run[t].generated[p]) \cup Buffers(p)
             A == UNION {InLists(p) : p \in LinearPred}
             B == At(f, <<"node", t>>, run[t].node_persistent)
             C == At(f, <<"thread", t>>, run[t].thread_persistent)
  <2>1. AtThread(f, t) = A \cup B \cup C
    BY DEF AtThread
  <2>2. \A p, n : a \in Buffer(p, n) => a \in At(f, <<"buffer", t, n, p>>, facts_to_send[t][n][p])
    OBVIOUS
  <2> HIDE DEF Buffer
  <2>3. \A p : a \in Buffers(p) => \E n \in Node : a \in Buffer(p, n)
    BY Zenon
  <2> HIDE DEF Buffers
  <2>4. \A p : a \in InLists(p) => a \in At(f, <<"generated", t, p>>, run[t].generated[p]) \/ a \in Buffers(p)
    OBVIOUS
  <2> HIDE DEF InLists
  <2>5. a \in A => \E p \in LinearPred : a \in InLists(p)
    BY Zenon
  <2> HIDE DEF A
  <2>6. a \in A \/ a \in B \/ a \in C
    BY <1>4, <2>1
  <2> QED
    BY <2>2, <2>3, <2>4, <2>5, <2>6, Zenon
<1>5. ASSUME NEW n \in AllNode, a \in AtNode(f, n)
      PROVE  \/ \E p \in LinearPred : \E i \in DOMAIN linear[n][p] :
                   linear[n][p][i] = f /\ a = <<<<"linear", n, p>>, i>>
             \/ \E p \in LinearPred : \E i \in DOMAIN incoming[n][p] :
                   incoming[n][p][i] = f /\ a = <<<<"incoming", n, p>>, i>>
             \/ \E i \in DOMAIN incoming_persistent[n] :
                   incoming_persistent[n][i] = f /\ a = <<<<"incoming", n>>, i>>
             \/ f \in pers_store[n] /\ a = <<<<"stored", n>>, 0>>
  <2>1. ASSUME NEW p, a \in At(f, <<"linear", n, p>>, linear[n][p])
        PROVE  \E i \in DOMAIN linear[n][p] : linear[n][p][i] = f /\ a = <<<<"linear", n, p>>, i>>
    BY <1>2, <2>1, Zenon
  <2>2. ASSUME NEW p, a \in At(f, <<"incoming", n, p>>, incoming[n][p])
        PROVE  \E i \in DOMAIN incoming[n][p] : incoming[n][p][i] = f /\ a = <<<<"incoming", n, p>>, i>>
    BY <1>2, <2>2, Zenon
  <2>3. ASSUME a \in At(f, <<"incoming", n>>, incoming_persistent[n])
        PROVE  \E i \in DOMAIN incoming_persistent[n] :
                  incoming_persistent[n][i] = f /\ a = <<<<"incoming", n>>, i>>
    BY <1>2, <2>3, Zenon
  <2> QED
    BY <1>3, <1>5, <2>1, <2>2, <2>3, Zenon
<1>6. ASSUME NEW t \in Thread, a \in AtThread(f, t)
      PROVE  \/ \E p \in LinearPred : \E i \in DOMAIN run[t].generated[p] :
                   run[t].generated[p][i] = f /\ a = <<<<"generated", t, p>>, i>>
             \/ \E n \in Node, p \in LinearPred : \E i \in DOMAIN facts_to_send[t][n][p] :
                   facts_to_send[t][n][p][i] = f /\ a = <<<<"buffer", t, n, p>>, i>>
             \/ \E i \in DOMAIN run[t].node_persistent :
                   run[t].node_persistent[i] = f /\ a = <<<<"node", t>>, i>>
             \/ \E i \in DOMAIN run[t].thread_persistent :
                   run[t].thread_persistent[i] = f /\ a = <<<<"thread", t>>, i>>
  <2>1. ASSUME NEW p, a \in At(f, <<"generated", t, p>>, run[t].generated[p])
        PROVE  \E i \in DOMAIN run[t].generated[p] :
                  run[t].generated[p][i] = f /\ a = <<<<"generated", t, p>>, i>>
    BY <1>2, <2>1, Zenon
  <2>2. ASSUME NEW n, NEW p, a \in At(f, <<"buffer", t, n, p>>, facts_to_send[t][n][p])
        PROVE  \E i \in DOMAIN facts_to_send[t][n][p] :
                  facts_to_send[t][n][p][i] = f /\ a = <<<<"buffer", t, n, p>>, i>>
    BY <1>2, <2>2, Zenon
  <2>3. ASSUME a \in At(f, <<"node", t>>, run[t].node_persistent)
        PROVE  \E i \in DOMAIN run[t].node_persistent :
                  run[t].node_persistent[i] = f /\ a = <<<<"node", t>>, i>>
    BY <1>2, <2>3, Zenon
  <2>4. ASSUME a \in At(f, <<"thread", t>>, run[t].thread_persistent)
        PROVE  \E i \in DOMAIN run[t].thread_persistent :
                  run[t].thread_persistent[i] = f /\ a = <<<<"thread", t>>, i>>
    BY <1>2, <2>4, Zenon
  <2> QED
    <3>1. ASSUME NEW p \in LinearPred, NEW n \in Node,
                 a \in At(f, <<"buffer", t, n, p>>, facts_to_send[t][n][p])
          PROVE  \E m \in Node, q \in LinearPred : \E i \in DOMAIN facts_to_send[t][m][q] :
                    facts_to_send[t][m][q][i] = f /\ a = <<<<"buffer", t, m, q>>, i>>
      BY <2>2, <3>1, Zenon
    <3> QED
      BY <1>4, <1>6, <2>1, <2>3, <2>4, <3>1, Zenon
<1> QED
  BY <1>1, <1>5, <1>6, Zenon

\* Where a list without repetitions holds f.
Index(s, f) == CHOOSE i \in DOMAIN s : s[i] = f

\* An element of a list without repetition has one index.
LEMMA IndexIs ==
  ASSUME NEW s, Once(s), NEW i \in DOMAIN s
  PROVE  i = Index(s, s[i]) /\ s[i] \in ToSet(s)
<1>1. Index(s, s[i]) \in DOMAIN s /\ s[Index(s, s[i])] = s[i]
  BY DEF Index
<1> QED
  BY <1>1 DEF Once, ToSet

\* The place that kind, who and dest name.
Spot(kind, who, dest, f) ==
  LET p == info[f].pred
      x == who[f]
  IN  CASE kind[f] = "linear" -> <<<<"linear", x, p>>, Index(linear[x][p], f)>>
        [] kind[f] = "incoming" -> <<<<"incoming", x, p>>, Index(incoming[x][p], f)>>
        [] kind[f] = "waiting" -> <<<<"incoming", x>>, Index(incoming_persistent[x], f)>>
        [] kind[f] = "stored" -> <<<<"stored", x>>, 0>>
        [] kind[f] = "generated" -> <<<<"generated", x, p>>, Index(run[x].generated[p], f)>>
        [] kind[f] = "buffer" -> <<<<"buffer", x, dest[f], p>>, Index(facts_to_send[x][dest[f]][p], f)>>
        [] kind[f] = "node" -> <<<<"node", x>>, Index(run[x].node_persistent, f)>>
        [] kind[f] = "thread" -> <<<<"thread", x>>, Index(run[x].thread_persistent, f)>>

\* Facts that are placed once are found once.
LEMMA PlacedOnce == ASSUME Placed, UsedSeen PROVE FactInOnePlace
<1>1. PICK kind, who, dest : Located(kind, who, dest)
  BY DEF Placed
<1>2. Listed /\ Single
  BY DEF Placed
<1>3. ASSUME NEW f, NEW a \in Places(f) PROVE a = Spot(kind, who, dest, f)
  <2>1. ASSUME NEW n \in AllNode, NEW p \in LinearPred, NEW i \in DOMAIN linear[n][p],
               linear[n][p][i] = f, a = <<<<"linear", n, p>>, i>>
        PROVE  a = Spot(kind, who, dest, f)
    <3>1. f \in ToSet(linear[n][p]) /\ i = Index(linear[n][p], f)
      BY <1>2, <2>1, IndexIs DEF Single
    <3>2. kind[f] = "linear" /\ who[f] = n /\ info[f].pred = p
      BY <1>1, <1>2, <3>1 DEF Located, Listed
    <3> QED
      BY <2>1, <3>1, <3>2 DEF Spot
  <2>2. ASSUME NEW n \in AllNode, NEW p \in LinearPred, NEW i \in DOMAIN incoming[n][p],
               incoming[n][p][i] = f, a = <<<<"incoming", n, p>>, i>>
        PROVE  a = Spot(kind, who, dest, f)
    <3>1. f \in ToSet(incoming[n][p]) /\ i = Index(incoming[n][p], f)
      BY <1>2, <2>2, IndexIs DEF Single
    <3>2. kind[f] = "incoming" /\ who[f] = n /\ info[f].pred = p
      BY <1>1, <1>2, <3>1 DEF Located, Listed
    <3> QED
      BY <2>2, <3>1, <3>2 DEF Spot
  <2>3. ASSUME NEW n \in AllNode, NEW i \in DOMAIN incoming_persistent[n],
               incoming_persistent[n][i] = f, a = <<<<"incoming", n>>, i>>
        PROVE  a = Spot(kind, who, dest, f)
    <3>1. f \in ToSet(incoming_persistent[n]) /\ i = Index(incoming_persistent[n], f)
      BY <1>2, <2>3, IndexIs DEF Single
    <3>2. kind[f] = "waiting" /\ who[f] = n
      BY <1>1, <3>1 DEF Located
    <3> QED
      BY <2>3, <3>1, <3>2 DEF Spot
  <2>4. ASSUME NEW n \in AllNode, f \in pers_store[n], a = <<<<"stored", n>>, 0>>
        PROVE  a = Spot(kind, who, dest, f)
    <3>1. kind[f] = "stored" /\ who[f] = n
      BY <1>1, <2>4 DEF Located
    <3> QED
      BY <2>4, <3>1 DEF Spot
  <2>5. ASSUME NEW t \in Thread, NEW p \in LinearPred, NEW i \in DOMAIN run[t].generated[p],
               run[t].generated[p][i] = f, a = <<<<"generated", t, p>>, i>>
        PROVE  a = Spot(kind, who, dest, f)
    <3>1. f \in ToSet(run[t].generated[p]) /\ i = Index(run[t].generated[p], f)
      BY <1>2, <2>5, IndexIs DEF Single
    <3>2. kind[f] = "generated" /\ who[f] = t /\ info[f].pred = p
      BY <1>1, <1>2, <3>1 DEF Located, Listed
    <3> QED
      BY <2>5, <3>1, <3>2 DEF Spot
  <2>6. ASSUME NEW t \in Thread, NEW n \in Node, NEW p \in LinearPred,
               NEW i \in DOMAIN facts_to_send[t][n][p],
               facts_to_send[t][n][p][i] = f, a = <<<<"buffer", t, n, p>>, i>>
        PROVE  a = Spot(kind, who, dest, f)
    <3>1. f \in ToSet(facts_to_send[t][n][p]) /\ i = Index(facts_to_send[t][n][p], f)
      BY <1>2, <2>6, IndexIs DEF Single
    <3>2. kind[f] = "buffer" /\ who[f] = t /\ dest[f] = n /\ info[f].pred = p
      BY <1>1, <1>2, <3>1 DEF Located, Listed
    <3> QED
      BY <2>6, <3>1, <3>2 DEF Spot
  <2>7. ASSUME NEW t \in Thread, NEW i \in DOMAIN run[t].node_persistent,
               run[t].node_persistent[i] = f, a = <<<<"node", t>>, i>>
        PROVE  a = Spot(kind, who, dest, f)
    <3>1. f \in ToSet(run[t].node_persistent) /\ i = Index(run[t].node_persistent, f)
      BY <1>2, <2>7, IndexIs DEF Single
    <3>2. kind[f] = "node" /\ who[f] = t
      BY <1>1, <3>1 DEF Located
    <3> QED
      BY <2>7, <3>1, <3>2 DEF Spot
  <2>8. ASSUME NEW t \in Thread, NEW i \in DOMAIN run[t].thread_persistent,
               run[t].thread_persistent[i] = f, a = <<<<"thread", t>>, i>>
        PROVE  a = Spot(kind, who, dest, f)
    <3>1. f \in ToSet(run[t].thread_persistent) /\ i = Index(run[t].thread_persistent, f)
      BY <1>2, <2>8, IndexIs DEF Single
    <3>2. kind[f] = "thread" /\ who[f] = t
      BY <1>1, <3>1 DEF Located
    <3> QED
      BY <2>8, <3>1, <3>2 DEF Spot
  <2> QED
    BY <1>3, <2>1, <2>2, <2>3, <2>4, <2>5, <2>6, <2>7, <2>8, PlacesAre
<1>4. \A f \in DOMAIN info : \A a, b \in Places(f) : a = b
  BY <1>3
<1> QED
  BY <1>4 DEF FactInOnePlace, UsedSeen

(***************************************************************************)
(* A fact is never in two places, for any program and any number of nodes  *)
(* and threads: not in a database and still in a buffer, an incoming list  *)
(* or a list of a run, whatever was sent, moved between threads or cut     *)
(* short; and what a rule holds in its registers is still in its store.    *)
(***************************************************************************)
THEOREM FactsHaveOnePlace == Spec => []FactInOnePlace
<1>1. Init => Agrees /\ Placed /\ UsedSeen
  BY InitAgrees, InitPlaced
<1>2. Agrees /\ Placed /\ UsedSeen /\ [Next]_vars => (Agrees /\ Placed /\ UsedSeen)'
  <2> SUFFICES ASSUME Agrees, Placed, UsedSeen, [Next]_vars PROVE (Agrees /\ Placed /\ UsedSeen)'
    OBVIOUS
  <2>1. Agrees'
    BY NextAgrees
  <2>2. Types /\ Known /\ Own /\ matcher \in [AllNode -> Matchers] /\ Known'
    BY <2>1 DEF Agrees, Marks
  <2> QED
    BY <2>1, <2>2, NextPlaced
<1>3. Placed /\ UsedSeen => FactInOnePlace
  BY PlacedOnce
<1> QED
  BY <1>1, <1>2, <1>3, PTL DEF Spec

============================================================================
