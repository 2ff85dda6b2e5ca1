---------------------------- MODULE LinearStore ----------------------------
(***************************************************************************)
(* The facts of one linear predicate in a node (src/db/linear_store.hpp,   *)
(* src/db/hash_table.hpp): a list that becomes a hash table of tables when *)
(* it grows, and a list again when the table is sparse; and the iterates   *)
(* of rules that walk through it while they erase facts                    *)
(* (execute_linear_iter, src/vm/exec.cpp).                                 *)
(*                                                                         *)
(* A sub table is named by the slots that lead to it, and a bucket (a list *)
(* of the facts with one value in the hashed field) by its value: there is *)
(* never more than one at a time.  What is freed keeps its contents until  *)
(* it is allocated again, except for the words the allocator uses for its  *)
(* own list (Scribbled): the iterator reads buckets and tables after they  *)
(* were freed.  setup() clears the slots of a table, not its bitmap, and   *)
(* nobody else does: what the memory held before is FreshBitmaps.          *)
(***************************************************************************)
EXTENDS Integers, SequencesExt

CONSTANTS
  Value,                        \* values of the hashed field
  digit,                        \* the slot of a value at each level: mod_hash of five bits of its hash
  HASH_TABLE_PRIME,
  HASH_TABLE_MAX_LEVELS,
  CREATE_HASHTABLE_THREADSHOLD,
  SparseLists,                  \* CREATE_HASHTABLE_THREADSHOLD / 2 in the code
  MaxFacts,                     \* bound: facts in the store
  FreshBitmaps,                 \* the bitmap in memory that is handed out for a table
  Scribbled,                    \* slots of a freed table the allocator overwrites
  UpdateHashed,                 \* whether a rule may update the hashed field
  Null, Garbage

Slot == 0..HASH_TABLE_PRIME - 1

ASSUME StoreAssumption ==
  /\ HASH_TABLE_PRIME \in Nat \ {0} /\ HASH_TABLE_MAX_LEVELS \in Nat \ {0}
  /\ CREATE_HASHTABLE_THREADSHOLD \in Nat \ {0, 1} /\ SparseLists \in Nat
  /\ digit \in [Value -> [1..HASH_TABLE_MAX_LEVELS -> Slot]]
  /\ FreshBitmaps \subseteq SUBSET Slot
  /\ Scribbled \subseteq Nat
  /\ UpdateHashed \in BOOLEAN
  /\ Null \notin Value /\ Garbage \notin Value

VARIABLES
  value,    \* hashed field of each fact, Null for one that does not exist
  s,        \* the store
  it        \* the iterate in progress

vars == <<value, s, it>>

Fact == 1..MaxFacts
Paths == UNION {[1..k -> Slot] : k \in 0..HASH_TABLE_MAX_LEVELS - 1}

NoIter == [mode |-> "none", frames |-> <<>>, current |-> Null, at |-> Null,
           todo |-> {}, seen |-> {}, generated |-> <<>>]

NoBucket == [ls |-> <<>>, parent |-> <<>>, idx |-> 0, prev |-> Null, next |-> Null]

\* The memory of the tables is not initialised when they are made.
Init ==
  /\ value = [f \in Fact |-> Null]
  /\ \E fresh \in [Paths -> FreshBitmaps] :
       s = [hashed |-> FALSE, list |-> <<>>, elems |-> 0, live |-> {},
            sub |-> [p \in Paths |-> [table |-> [i \in Slot |-> Null], bitmap |-> fresh[p],
                                      unique_lists |-> 0, unique_subs |-> 0]],
            bkt |-> [v \in Value |-> NoBucket]]
  /\ it = NoIter

----------------------------------------------------------------------------
\* The buckets of a slot, along next.
RECURSIVE Chain(_, _)
Chain(st, v) == IF v = Null THEN <<>> ELSE <<v>> \o Chain(st, st.bkt[v].next)

\* The table in which value v belongs: insert and lookup_list go down through the bitmaps.
RECURSIVE Descend(_, _, _)
Descend(st, p, v) ==
  LET i == digit[v][Len(p) + 1]
  IN  IF i \in st.sub[p].bitmap THEN Descend(st, Append(p, i), v) ELSE p

setup(t) == [t EXCEPT !.table = [i \in Slot |-> Null], !.unique_lists = 0, !.unique_subs = 0]

\* What is left in freed memory matters while an iterate runs; afterwards only the bitmaps do.
Forget(st) ==
  [st EXCEPT !.bkt = [v \in Value |-> IF @[v].ls = <<>> THEN NoBucket ELSE @[v]],
             !.sub = [p \in Paths |-> IF p \in st.live THEN @[p] ELSE setup(@[p])]]

Scribble(t) == [t EXCEPT !.table = [i \in Slot |-> IF i \in Scribbled THEN Garbage ELSE @[i]]]

\* Put bucket v in front of slot i of table q (the loop that fills a new sub table).
PutFront(st, q, v) ==
  LET i == digit[v][Len(q) + 1]
      old == st.sub[q].table[i]
      b == [v2 \in Value |->
              IF v2 = v THEN [st.bkt[v] EXCEPT !.parent = q, !.idx = i, !.prev = Null, !.next = old]
              ELSE IF v2 = old THEN [st.bkt[old] EXCEPT !.prev = v] ELSE st.bkt[v2]]
  IN  [st EXCEPT !.bkt = b, !.sub[q].table[i] = v, !.sub[q].unique_lists = @ + 1]

\* A slot with too many buckets becomes a sub table.
Split(st, p, i, chain) ==
  LET q == Append(p, i)
      new == [st EXCEPT !.sub[q] = setup(@), !.live = @ \cup {q}]
      full == FoldLeft(LAMBDA acc, v : PutFront(acc, q, v), new, chain)
  IN  [full EXCEPT !.sub[p].unique_lists = @ - Len(chain), !.sub[p].unique_subs = @ + 1,
                   !.sub[p].bitmap = @ \cup {i}]

\* Mutant: a bucket that is not the first of its slot is not counted.
Linked_uncounted(st, p, i, chain, v, f) ==
  LET last == IF chain = <<>> THEN Null ELSE Last(chain)
      b == [st.bkt EXCEPT ![v] = [ls |-> <<f>>, parent |-> p, idx |-> i, prev |-> last, next |-> Null]]
  IN  IF last = Null
      THEN [st EXCEPT !.bkt = b, !.sub[p].table[i] = v, !.sub[p].unique_lists = @ + 1]
      ELSE [st EXCEPT !.bkt = [b EXCEPT ![last].next = v]]

\* A new bucket at the end of the chain of a slot.
Linked(st, p, i, chain, v, f) ==
  LET last == IF chain = <<>> THEN Null ELSE Last(chain)
      b == [st.bkt EXCEPT ![v] = [ls |-> <<f>>, parent |-> p, idx |-> i, prev |-> last, next |-> Null]]
      n == [st EXCEPT !.bkt = b, !.sub[p].unique_lists = @ + 1]
  IN  IF last = Null THEN [n EXCEPT !.sub[p].table[i] = v] ELSE [n EXCEPT !.bkt[last].next = v]

\* hash_table::insert and subhash_table::insert.
insert(st, f, v) ==
  LET p == Descend(st, <<>>, v)
      i == digit[v][Len(p) + 1]
      chain == Chain(st, st.sub[p].table[i])
      n == Linked(st, p, i, chain, v, f)
      done == IF v \in ToSet(chain) THEN [st EXCEPT !.bkt[v].ls = Append(@, f)]
              ELSE IF Len(chain) + 1 >= CREATE_HASHTABLE_THREADSHOLD
                      /\ Len(p) + 1 < HASH_TABLE_MAX_LEVELS
                   THEN Split(n, p, i, Append(chain, v))
                   ELSE n
  IN  [done EXCEPT !.elems = @ + 1]

\* lookup_list: the bucket of v, or nothing.
lookup_list(st, v) ==
  LET p == Descend(st, <<>>, v)
      chain == Chain(st, st.sub[p].table[digit[v][Len(p) + 1]])
  IN  IF v \in ToSet(chain) THEN v ELSE Null

\* An empty sub table is freed, and its parent if that is empty too.
RECURSIVE check_empty_table(_, _)
check_empty_table(st, p) ==
  LET q == Front(p)
  IN  IF st.sub[p].unique_lists = 0 /\ st.sub[p].unique_subs = 0 /\ p # <<>>
      THEN check_empty_table([st EXCEPT !.sub[q].table[Last(p)] = Null,
                                        !.sub[q].bitmap = @ \ {Last(p)},
                                        !.sub[q].unique_subs = @ - 1,
                                        !.sub[p] = Scribble(@),
                                        !.live = @ \ {p}], q)
      ELSE st

\* hash_table::erase_from_list: fact f of bucket v.
erase_from_list(st, v, f) ==
  LET b == st.bkt[v]
      rest == Remove(b.ls, f)
      less == [st EXCEPT !.elems = @ - 1, !.bkt[v].ls = rest]
      prevs == IF b.prev # Null THEN [less EXCEPT !.bkt[b.prev].next = b.next]
               ELSE [less EXCEPT !.sub[b.parent].table[b.idx] = b.next]
      nexts == IF b.next # Null THEN [prevs EXCEPT !.bkt[b.next].prev = b.prev] ELSE prevs
  IN  IF rest # <<>> THEN less
      ELSE check_empty_table([nexts EXCEPT !.sub[b.parent].unique_lists = @ - 1], b.parent)

----------------------------------------------------------------------------
(***************************************************************************)
(* hash_table::iterator: a frame for each level, and the current bucket.   *)
(***************************************************************************)
Bump(frames) == [frames EXCEPT ![Len(frames)].pos = @ + 1]

\* The loops of find_good_bucket; no frame is left at the end.
RECURSIVE Scan(_, _)
Scan(st, frames) ==
  IF frames = <<>> THEN [frames |-> <<>>, current |-> Null]
  ELSE LET f == Last(frames)
           t == st.sub[f.sub]
       IN  IF f.pos >= HASH_TABLE_PRIME THEN Scan(st, Front(frames))
           ELSE IF f.pos \in t.bitmap
                THEN Scan(st, Append(Bump(frames), [sub |-> Append(f.sub, f.pos), pos |-> 0]))
                ELSE IF t.table[f.pos] # Null THEN [frames |-> frames, current |-> t.table[f.pos]]
                     ELSE Scan(st, Bump(frames))

\* Mutant: the iterator goes to the next slot, not along the slot.
find_good_bucket_slot(st, frames, v) == Scan(st, Bump(frames))

\* operator++ on bucket v, that may have been freed.
find_good_bucket(st, frames, v) ==
  IF st.bkt[v].next # Null THEN [frames |-> frames, current |-> st.bkt[v].next]
  ELSE Scan(st, Bump(frames))

begin(st) == Scan(st, <<[sub |-> <<>>, pos |-> 0]>>)

\* All buckets in the order of the iterator.
RECURSIVE BucketsFrom(_, _)
BucketsFrom(st, c) ==
  IF c.current = Null THEN <<>>
  ELSE <<c.current>> \o BucketsFrom(st, find_good_bucket(st, c.frames, c.current))

Buckets(st) == BucketsFrom(st, begin(st))

----------------------------------------------------------------------------
InsertAll(st, fs, val) == FoldLeft(LAMBDA acc, f : insert(acc, f, val[f]), st, fs)

\* create_table over the place of the list, then every fact of the list is inserted.
transform_list_to_hash_table(st, val) ==
  InsertAll([st EXCEPT !.hashed = TRUE, !.elems = 0, !.list = <<>>,
                       !.sub[<<>>] = setup(@), !.live = {<<>>}], st.list, val)

\* add_fact, add_fact_list and increment_database.
increment_database(st, fs, val) ==
  IF st.hashed THEN InsertAll(st, fs, val)
  ELSE IF Len(st.list) + Len(fs) >= CREATE_HASHTABLE_THREADSHOLD
       THEN InsertAll(transform_list_to_hash_table(st, val), fs, val)
       ELSE [st EXCEPT !.list = @ \o fs]

too_sparse(st) ==
  /\ st.sub[<<>>].unique_lists < SparseLists
  /\ st.sub[<<>>].unique_subs = 0

\* The buckets are joined to a list and the root is freed.
transform_hash_table_to_list(st) ==
  [st EXCEPT !.hashed = FALSE,
             !.list = FlattenSeq([k \in DOMAIN Buckets(st) |-> st.bkt[Buckets(st)[k]].ls]),
             !.bkt = [v \in Value |-> NoBucket], !.elems = 0,
             !.sub[<<>>] = setup(@), !.live = {}]

cleanup_index(st) == IF st.hashed /\ too_sparse(st) THEN transform_hash_table_to_list(st) ELSE st

----------------------------------------------------------------------------
\* One or two facts are added, while no rule runs.
Add ==
  /\ it.mode = "none"
  /\ \E vs \in {<<v>> : v \in Value} \cup {<<v, w>> : v, w \in Value} :
       LET free == {f \in Fact : value[f] = Null}
           new == SubSeq(SetToSortSeq(free, <), 1, Len(vs))
           val == [f \in Fact |-> IF f \in ToSet(new) THEN vs[CHOOSE k \in DOMAIN new : new[k] = f]
                                  ELSE value[f]]
       IN  /\ Len(vs) <= Cardinality(free)
           /\ value' = val
           /\ s' = increment_database(s, new, val)
  /\ UNCHANGED it

\* node::manage_index at the end of a run.
ManageIndex ==
  /\ it.mode = "none"
  /\ s' = cleanup_index(s)
  /\ UNCHANGED <<value, it>>

\* The facts the store should hold.
Held == {f \in Fact : value[f] # Null}
With(v) == {f \in Fact : value[f] = v}

\* An iterate over all facts starts: over the list or with the first bucket.
StartAll ==
  /\ it.mode = "none"
  /\ it' = IF s.hashed
           THEN LET c == begin(s)
                IN  [NoIter EXCEPT !.mode = "table", !.frames = c.frames, !.current = c.current,
                       !.todo = Held, !.at = IF c.current = Null THEN Null ELSE s.bkt[c.current].ls[1]]
           ELSE [NoIter EXCEPT !.mode = "list", !.todo = Held,
                   !.at = IF s.list = <<>> THEN Null ELSE s.list[1]]
  /\ UNCHANGED <<value, s>>

\* An iterate that asks for a value of the hashed field takes the bucket of that value.
StartLookup ==
  /\ it.mode = "none" /\ s.hashed
  /\ \E v \in Value :
       LET b == lookup_list(s, v)
       IN  it' = [NoIter EXCEPT !.mode = "bucket", !.current = b, !.todo = With(v),
                    !.at = IF b = Null THEN Null ELSE s.bkt[b].ls[1]]
  /\ UNCHANGED <<value, s>>

\* The list the iterate is in.
ListOf(st) == IF it.mode = "list" THEN st.list ELSE st.bkt[it.current].ls

\* The fact after f.
NextIn(ls, f) ==
  LET k == CHOOSE j \in DOMAIN ls : ls[j] = f
  IN  IF k = Len(ls) THEN Null ELSE ls[k + 1]

\* it++, or the iterator erase returned; at the end of a bucket, the next one.
Advance(st, next, more) ==
  IF next # Null \/ it.mode # "table" THEN [more EXCEPT !.at = next]
  ELSE LET c == find_good_bucket(st, it.frames, it.current)
       IN  [more EXCEPT !.frames = c.frames, !.current = c.current,
                        !.at = IF c.current \in Value THEN st.bkt[c.current].ls[1] ELSE c.current]

\* What the iterate has seen once it is done with the fact it is at.
Seen == [it EXCEPT !.seen = @ \cup {it.at}]

WithoutFact(st, f) ==
  IF st.hashed THEN erase_from_list(st, it.current, f) ELSE [st EXCEPT !.list = Remove(@, f)]

\* The fact does not match or is kept.
Keep ==
  /\ it.at \in Fact
  /\ it' = Advance(s, NextIn(ListOf(s), it.at), Seen)
  /\ UNCHANGED <<value, s>>

\* The rule consumes the fact.
Consume ==
  /\ it.at \in Fact
  /\ LET st == WithoutFact(s, it.at)
     IN  /\ s' = st
         /\ it' = Advance(st, NextIn(ListOf(s), it.at), Seen)
         /\ value' = [value EXCEPT ![it.at] = Null]

\* What an update may write to the hashed field of f.
Updates(f) == IF UpdateHashed THEN Value ELSE {value[f]}

\* The rule updates the fact of its first iterate, which stays in its list.
UpdateFirst ==
  /\ it.at \in Fact
  /\ \E w \in Updates(it.at) : value' = [value EXCEPT ![it.at] = w]
  /\ it' = Advance(s, NextIn(ListOf(s), it.at), Seen)
  /\ UNCHANGED s

\* The rule updates the fact of a later iterate, which goes to the generated list.
UpdateLater ==
  /\ it.at \in Fact
  /\ LET st == WithoutFact(s, it.at)
     IN  /\ s' = st
         /\ it' = Advance(st, NextIn(ListOf(s), it.at), [Seen EXCEPT !.generated = Append(@, it.at)])
  /\ \E w \in Updates(it.at) : value' = [value EXCEPT ![it.at] = w]

\* An inner iterate over the same predicate consumes another fact.
InnerConsume ==
  /\ it.at \in Fact
  /\ \E g \in Held \ ({it.at} \cup ToSet(it.generated)) :
       LET b == IF s.hashed THEN lookup_list(s, value[g]) ELSE Null
       IN  /\ IF s.hashed THEN b # Null /\ g \in ToSet(s.bkt[b].ls) ELSE g \in ToSet(s.list)
           /\ s' = IF s.hashed THEN erase_from_list(s, b, g) ELSE [s EXCEPT !.list = Remove(@, g)]
           /\ value' = [value EXCEPT ![g] = Null]
           /\ it' = [it EXCEPT !.todo = IF g \in it.seen THEN @ ELSE @ \ {g}]

\* The rule is done: generated facts enter the store again.
Finish ==
  /\ it.mode # "none" /\ it.at = Null
  /\ s' = IF it.generated = <<>> THEN Forget(s)
          ELSE increment_database(Forget(s), it.generated, value)
  /\ it' = NoIter
  /\ UNCHANGED value

Next == \/ Add \/ ManageIndex \/ StartAll \/ StartLookup \/ Keep \/ Consume
        \/ UpdateFirst \/ UpdateLater \/ InnerConsume \/ Finish

Spec == Init /\ [][Next]_vars

----------------------------------------------------------------------------
\* The facts that are in the store, not on the generated list.
Inside == Held \ ToSet(it.generated)

(***************************************************************************)
(* Nothing is lost in the tables: lookup_list finds for every value exactly*)
(* the facts that have it, the iterator finds every bucket once, and a     *)
(* list holds every fact once, whatever was split, freed or joined, also   *)
(* in the middle of an iterate.                                            *)
(***************************************************************************)
LookupExact ==
  IF s.hashed
  THEN /\ \A v \in Value :
            LET b == lookup_list(s, v)
                found == IF b = Null THEN {} ELSE ToSet(s.bkt[b].ls)
            IN  found = With(v) \cap Inside
       /\ IsInjective(Buckets(s))
       /\ ToSet(Buckets(s)) = {value[f] : f \in Inside}
  ELSE IsInjective(s.list) /\ ToSet(s.list) = Inside

(***************************************************************************)
(* The counters that decide when a table is freed are exact, no bucket is  *)
(* empty, its parent and index lead back to its slot, and the bitmap of a  *)
(* table that is not in use is clear, as setup() needs.                    *)
(***************************************************************************)
CountersExact ==
  /\ \A p \in Paths \ s.live : s.sub[p].bitmap = {}
  /\ s.hashed =>
       /\ s.elems = Cardinality(Inside)
       /\ \A p \in s.live :
            LET t == s.sub[p]
                here == [i \in Slot \ t.bitmap |-> Chain(s, t.table[i])]
            IN  /\ t.unique_subs = Cardinality(t.bitmap)
                /\ \A i \in t.bitmap : Append(p, i) \in s.live
                /\ t.unique_lists = MapThenSumSet(LAMBDA i : Len(here[i]), DOMAIN here)
                /\ p # <<>> => t.unique_lists + t.unique_subs > 0
                /\ \A i \in DOMAIN here : \A v \in ToSet(here[i]) :
                     s.bkt[v].ls # <<>> /\ s.bkt[v].parent = p /\ s.bkt[v].idx = i

\* What is found and what is counted agree with the facts the store holds.
StoreExact == LookupExact /\ CountersExact

(***************************************************************************)
(* An iterate sees every fact it should once, though it erases facts, and  *)
(* with them buckets and tables, under its own iterator: it follows no     *)
(* pointer the allocator overwrote, and when it ends it has seen exactly   *)
(* the facts that were there when it began, less those an inner iterate    *)
(* took first.                                                             *)
(***************************************************************************)
SeenOnce ==
  it.mode # "none" =>
    /\ it.at \in Fact \cup {Null}
    /\ it.at \notin it.seen
    /\ it.at = Null => it.seen = it.todo
============================================================================
