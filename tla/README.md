# Verification of the Meld virtual machine

Meld is a language for programs over graphs: the data are facts that live at
nodes, the program is a set of rules, and a virtual machine runs the rules of
different nodes in parallel on a pool of threads. This directory holds TLA+
models of that machine as it is in `src/`, the TLC configurations that check
them, and TLAPS proofs about the parts where a proof for every number of
threads is worth having.

Run a model with `tlc -config X.cfg M` and a proof with `tlapm M.tla`;
`PROJECT.json` lists every run, which lines each definition stands for, the
mutants that show that each property can fail, the findings and the hazards.

## 1. Inventory

| Component | State | Operations | Meets others through |
|---|---|---|---|
| Termination (`thread/thread.hpp`, `thread/thread.cpp`, `thread/termination_barrier.hpp`) | `tstate` of each thread, `active_threads`, `done`, `stop_flag`, `comm_threads` | activate, set (in)active, busy wait, announce, stop | every thread that sends or steals; compare-and-swap only, no lock |
| Node scheduling (`thread/thread.cpp`, `thread/coord.cpp`, `db/node.hpp`, `vm/state.cpp`) | four queues per thread, owner / static mark / state / priority of each node, its main and database locks | get_work, run_node, new_work, steal, set-priority, set-static, set-moving, set-affinity ... | queues, locks; rules call the coordination instructions |
| Queued spinlock, ticket lock, mutex (`utils/queued_spinlock.hpp`, `utils/spinlock.hpp`, `utils/mutex.hpp`) | tail pointer and entries on stacks; two counters in a word | lock, try_lock, unlock | everything above |
| Tree barrier (`utils/tree_barrier.hpp`) | counts of the tree nodes, sense | wait | start-up of the threads |
| Node queues (`queue/intrusive*.hpp`, `queue/safe_double_queue.hpp`) | head, tail, total; links inside the nodes | push, pop, pop half, remove, move up | node scheduling; the links share memory with the heap fields |
| Priority queues (`queue/safe_complex_pqueue.hpp`, `queue/heap_implementation.hpp`) | a vector per heap, index and priority inside the nodes | insert, pop, pop_best, pop half, remove, move_node | node scheduling |
| run_node and the fact stores (`vm/state.cpp`, `vm/helpers.cpp`, `db/node.hpp`, `db/temporary_store.hpp`, `vm/buffer.hpp`) | incoming lists, generated facts, buffered facts, facts of the thread node | take in, process, try rules, derive, add, send, cut a run short | node scheduling (locks), rule matcher, databases |
| Rule matcher (`vm/rule_matcher.hpp`) | predicates with facts, counts per rule, rule queue | mark and unmark predicates, thread marks in and out, pick a rule | run_node |
| Linear database (`db/linear_store.hpp`, `db/hash_table.*`) | a list or a hash table of tables per predicate | insert, erase, convert both ways, iterate | run_node; the iterates of the interpreter |
| Persistent database (`db/trie.*`, `db/persistent_store.cpp`, `db/tuple_aggregate.cpp`, `db/agg_configuration.cpp`, `vm/full_tuple.hpp`) | tries, counts by depth, values of aggregates | insert, two-step removal, search, aggregate | run_node; the iterates of the interpreter |
| Node identities (`thread/ids.*`, `db/database.*`, `vm/tuple.cpp`) | id blocks, allocated and freed lists, reference counts | create, delete, give back, collect | rules that create nodes; run_node |
| Interpreter (`vm/exec.cpp`, `vm/instr.*`, `vm/jump_table.hpp`, `vm/call_stack.hpp`) | program counter, registers, call stack, frames of iterates | execute, print | all of the above |
| Memory pools, run-time objects (`mem/`, `runtime/`) | free lists; reference counts | allocate, free; inc, dec | everything |
| Loading, external functions, statistics, command line | | | start-up; input and output |

What is hard in this system, and what must be true:

* **Termination detection without a lock.** Threads put themselves to sleep and
  wake others with a compare-and-swap on one byte, and update a shared counter in
  a second atomic operation. The counter must never underflow, must reach zero
  only when nothing is left to do, and must reach it then.
* **Nodes that change hands.** A node is popped under the lock of its queue only,
  while coordination instructions hold the lock of the node. It must be in one
  place, its mark must say which, and no fact may stay on a node nobody will run.
* **Locks made of other threads' stack frames.** They must exclude, be first come
  first served, lose nobody, and never touch a frame that is gone.
* **Intrusive containers that share memory in the node.** A link or index left
  over from an earlier use must never be followed.
* **Facts on their way.** A fact goes through buffers, incoming lists and two
  databases, partly under a lock that a try_lock may fail to get. It must be in
  one place, its rules must be tried after it came, and the matcher, which keeps
  counts apart from the databases, must agree with them.
* **Containers that change under their iterator.** Rules erase facts, and with
  them buckets and tables, while iterates walk through them.
* **Retraction.** Derivations come and go, also before anyone looked at them, also
  through aggregates; what is left when nothing waits must be what is held.
* **Nodes that disappear.** A reference count without a lock decides when a node
  is deleted.
* **One format, three readers.** The interpreter, `advance` and the printer each
  compute where the operands of more than 160 instructions lie.

The list `hazards` in `PROJECT.json` gives each of these with its line.

## 2. Modules

| Module | Models | State and steps |
|---|---|---|
| `Termination` | sleeping, waking, announcing, stealing, stopping | The variables carry the names of the fields. One action per atomic operation or per block no other thread can look into; `pending` is the counter update a thread owes after its swap. Nodes are counts; a run sends facts until `Fuel` is used up. |
| `NodeSched` | where the nodes are | Owner, static mark, queue mark, priority (two levels), locks of each node; queues of each thread as sets. What a pop can interleave with is a step of its own; the code between taking and releasing a main lock is one step where only the lock holder can see it. |
| `RunNode` | what `run_node` does with the facts of a node | The phases of a run are the labels of a thread; facts are numbers with a predicate. Incoming and generated facts, buffers per destination that are sent in any order, the two databases, thread facts, a new owner in the middle of a run. |
| `RuleMatcher` | the matcher of a node | Operators on a record of marks, counts and rule queue; `RunNode` calls them where the code does. |
| `LinearStore` | the facts of a linear predicate | Lists, tables named by the slots that lead to them, buckets named by their value; freed memory keeps its contents except the words the allocator uses. Iterates consume, update and nest. |
| `Persistent` | `do_persistent_tuples` and aggregates | The list of waiting facts with their sign, the leaves, the values of each aggregate; other nodes derive and retract. |
| `TrieLeaf`, `Trie` | the tries under the persistent facts | Branches of symbols, child lists that become growing tables, counts by depth, removal in two steps. |
| `TrieSearch` | the search iterator with its stack of frames | An operator on the state of `Trie`, compared with the plain definition of a match. |
| `TupleCounts` | abstract: facts in order of arrival with counts | What each operation of a trie does to the table. |
| `NodeLife` | nodes that rules create | Ids and lists of each thread, references, collection. A node that takes the memory of a deleted one is a new number; the use of a deleted one is recorded in `misuse`. |
| `InstrCodes`, `InstrFormat` | the numbers and the layouts of the instructions | Tables: enumeration and jump table, size constants, and the offsets as the interpreter and the printer compute them. |
| `ByteCode` | fetch, dispatch, jumps, iterates, calls; the printer | A machine over byte addresses. The program is each control construct around each instruction. |
| `QueuedSpinlock` | the lock of the default build | One step per access to shared memory. A thread stands for the entry it passes. |
| `TicketLock` | the lock of builds with `USE_SPINLOCK` | The same; counters of `Width` bits. |
| `FifoLock` | abstract: a first-come first-served lock with try_lock | `queue` of arrivals and the set `inside`; both locks are shown to implement it. |
| `TreeBarrier`, `BarrierTree` | the barrier, and the tree its constructor builds | One step per access to shared memory. |
| `IntrusiveQueue` | the linked queues, pointer by pointer | An operation holds the mutex of its queue, so it is one step. `Junk` in a link field stands for what a heap left in the union. |
| `SeqQueues` | abstract: the queues as sequences | What each operation does to a sequence. |
| `ComplexPqueue` | heaps with stored indices, and the pair of heaps of a thread | The algorithms work on a record of vector and indices; a loop is a function of the number of turns. |
| `PriorityBags` | abstract: sets of nodes with priorities | A pop takes a best node. |
| `MC...` | instances for TLC | Model values and sets of operations. In `MCPrimitives` and `MCDatabases` a behaviour uses one of several parts that share nothing (`kind`); `MCPrimitives` extends the locks, the barrier and the linked queues, and `MCDatabases` both databases, whose variables have names of their own, so that the formulas they check are those the proofs are about. |
| `Lists` | `Only`, the members of a list that satisfy a condition | Used by `RunNode`, `NodeLife` and `Persistent` where the code erases from a list. |
| `TerminationProofs`, `NodeSchedProofs`, `RunNodeProofs`, `NodeLifeProofs` | theorems about the module they are named after | Section 5. |
| `PrimitiveProofs`, `HeapProofs`, `PersistentProofs` | theorems about both locks, the barrier and `IntrusiveQueue`, about `ComplexPqueue`, and about `Persistent` | Section 5. |
| `LibraryProofs` | lemmas about finite sets, sums over them and lists | Section 5. |

How they fit together. `NodeSched` treats its queues as sets and locks as atomic
test-and-set; `SeqQueues`, `PriorityBags` and `FifoLock` say what the detailed
modules make of them. `Termination` sees the queues of `NodeSched` as counts: its
actions `NewWork`, `MoveQueued`, `PrioRemove`, `PrioInsert` and the steal actions
are the same code with everything but the sleeping protocol left out. `RunNode`
is what happens inside the run of `NodeSched`: it has `RuleMatcher` in it, and
sees the databases as sequences of facts, which is what `LinearStore` and
`Persistent` are about. `Persistent` counts derivations with the operators of
`TrieLeaf`, the same that the leaves of `Trie` use, and `Trie` implements
`TupleCounts`. `NodeLife` takes the collection of nodes out of `NodeSched` and
gives it its own, coarser, scheduler. `ByteCode` leaves the effects of an
instruction to the module that has its state: facts in `RunNode`, iterates in
`LinearStore` and `TrieSearch`, coordination in `NodeSched`, STOP PROGRAM in
`Termination`.

Abstractions worth knowing:

* Memory is sequentially consistent. The code uses `std::atomic` with default
  order for `tstate` and `active_threads`; the spinlocks use their own barriers.
* In `NodeSched` a rule run (`RulesEnd`, `RunTakeFacts`) sends any facts and
  executes any coordination instructions its bounds allow, in any order: an
  over-approximation of every program. In `RunNode` the fields of facts are
  choices: a rule whose predicates all have facts may match or not, and what it
  consumes, updates and derives is free. In `ByteCode` a test comes out either way.
* Priorities have two levels in `NodeSched`, none and some: the heaps' order is in
  `ComplexPqueue`, and the queue a node is put in depends on the two levels only.
* `NodeSched` leaves out default priorities and the priority buffer of builds
  without `DIRECT_PRIORITIES`; thread nodes are in `Termination` (`tfacts`) and
  `RunNode`.
* Hash functions are parameters: `digit` in `LinearStore` gives the slot of a value
  at each level. Tables are small (`HASH_TABLE_PRIME` 2 in place of 29), thresholds
  too, so that few facts make a table, a sub table and a conversion.
* A NEGATIVE fact that overtakes its positive is dropped by the code; in
  `Persistent` the facts of a sender arrive in the order it sent them.

## 3. Runs

Runs that pass, the bounds, and why they suffice.

| Run | Instance | Shows |
|---|---|---|
| `TermStealStop` | 2 threads, 2 nodes each, 2 facts, stealing, thread predicates, STOP PROGRAM at any time | Thieves wake up by themselves and are counted; the counter follows the bytes, is at most too large after a stop and never wraps (`CounterKept`); workers are active; everybody ends. Two nodes are the least that leave something to steal behind; two facts let a thread wake the other and be woken by it. |
| `TermThree` | 3 threads, 1 node each, 2 facts, thread predicates, no stealing | Nobody sleeps over a thread fact that is not announced, and zero means no work. Three threads: the last one to sleep relies on an announcement that passed through a third one. |
| `Primitives` | queued spinlock and ticket lock: 3 threads, unbounded calls, 2-bit tickets; barrier: 5 threads, 3 rounds; queues: 2 queues, 4 nodes, steals of up to 2 | Locks: exclusion, well-formed list, no dead entry, implementation of `FifoLock`, no waiter starves; with three threads there is an owner, a waiter that has linked itself and one that has not, and four tickets are the fewest that three may use. Barrier: nobody early, no signal lost; five threads give the tree an inner node besides the root, three rounds use both senses and one again. Queues: the pointers always form the sequences of `SeqQueues`, also for nodes that come back from a heap; four nodes have a first, a last and middle ones, and a half of them is cut to the limit or not. |
| `Heap` | two heaps, 6 nodes, 3 priorities, at most 2 nodes in the static heap, steals of up to 2 | Heap order, indices, and pop_best between the heaps. Six nodes make three levels: the last node may have to rise when it fills a hole in the other branch. |
| `NodePlaces` | 2 threads, 3 nodes that start at one thread, 2 facts or remote updates, 2 instructions: set-static, set-moving and priorities, the latter also on nodes of the other thread | Places, stranded facts, database locks, static nodes. Three nodes: one runs and executes an instruction on the second while a thief takes the second or the third. Two facts: one sent to a node whose database lock a remote update holds. |
| `NodeLive` | the same nodes, 1 fact, 1 set-affinity, just-moved facts, fair threads | Every fact is processed and every node given away arrives. |
| `Rules` | 2 threads, 2 nodes and the thread nodes, 3 facts, 1 change of owner; a linear, a thread, a persistent and a reused predicate; 4 rules | The matcher agrees with the databases, no applicable rule stays untried at a node at rest, a fact is in one place. Three facts: two for a rule with two predicates, and one that comes while they are processed. |
| `Databases` | linear: 4 facts of 4 values that collide on zero, one and two levels, a sub table from 2 buckets on, a list again below 3, 3 levels; persistent: 2 senders, 1 key, values 0 to 2, no aggregate, first, max, min, sum, reused | Lookups and counters of the store agree with its facts through every conversion; an iterate sees each fact once while it erases; when nothing waits the persistent facts are those held; rules ran forward and backward once each. The code's limits are 8 and 4 for 29 slots; with 2 slots the second is taken apart from the first (`SparseLists`), so that a table with two buckets of facts is joined to a list too. Two senders: the same fact twice, and the removal of one while the other stays. |
| `Trie` | predicates of no, one and two numbers, a list, an aggregate, a cycle predicate; 4 leaves, tables from 2 children on, two depths | Structure, reference counts, every search with every pattern, implementation of `TupleCounts`. Four leaves make a table that doubles. |
| `NodeLife` | 2 threads, 2 created nodes, 4 rule runs, id blocks of 1, freed list of 1 | Reference counts, ids and lists, no garbage lost, a thread never uses what it deleted. The two limits of 1 make every block and list overflow. |
| `ByteCode` | every instruction, flat and inside every construct that nests code; 2 tuples per iterate, 2 registers, 4 calls, repeated operands up to 2, PUSHN of 8 slots on a stack of 4 | The interpreter, `advance` and the printer agree on every length, operand and jump; calls return; iterates unwind, the stack is empty at the end. A second repetition and tuple: what follows the first is also reached. |

Node symmetry, used for `Heap`, is sound: the nodes are interchangeable and no
liveness is checked there.

`Termination`, the locks, the barrier, the queues and the heaps are checked for
deadlock; a thread that has ended, or has passed every round of the barrier,
stutters. The other runs switch the deadlock check off because the system may
stop: a thread without work stays where `Termination` takes over (`NodeSched`,
`RunNode`, `NodeLife`), the bound on facts or leaves is used up, or the program is
over (`ByteCode`).

The run that finds a disagreement between the code and what it says of itself:

| Run | What happens |
|---|---|
| `FactOrderFinding` | `buffer` puts each fact in front of the earlier ones (`vm/buffer.hpp:44`), and the lists are handed over whole, so the facts that a rule sends to another node arrive in the reverse order. `docs/manual.tex:328` guarantees "that facts sent to a given node appear in the same order as they are being sent/derived". |

Configurations beside the list of runs; TLC reports a violation for each. The
passing runs are stated around them.

| Configuration | Property | What happens |
|---|---|---|
| `TermGapFinding` | `EndsInactive` | A thread is activated, but the increment comes after the swap (`thread/thread.hpp:121`); in between the counter reaches zero and `done` is set. The program ends with a thread active (assertion at `thread/thread.cpp:665`), possibly with work queued. |
| `TermLostSignalFinding` | `ZeroMeansNoWork` | `go_steal_nodes` drops the result of `set_inactive_if_no_work` (`thread/thread.cpp:247`), and with it a wake-up. |
| `NodePinFinding` | `StaticNotStealable` | set-affinity to the present owner returns early (`thread/coord.cpp:435`) and leaves the node where thieves look. |
| `ThreadRuleFinding` | `ThreadNothingForgotten` | `remove_thread` gives the marks of the thread facts back to the thread node, not the counts of its rules, so that an applicable rule of the thread node is not tried. |
| `SelfSendFinding` | `NotLockedOut` | `execute_send0` compares the tuple, not the running node, with the destination (`vm/helpers.cpp:163`): a persistent or reused fact for the node itself waits for the database lock its own thread holds. |

Further violations, each a change of a cfg on disk:

| Change | Property | What happens |
|---|---|---|
| `TermStealStop`, as it is | `EndsFinished` | After STOP PROGRAM a thread reaches `assert(all_threads_finished())` (`thread/thread.cpp:100`) with the barrier not done. |
| `NodePlaces`, `Ops` and `Foreign` `<- StaticOp` | `QueuedNodesMarked` | set-static (and set-moving, set-affinity) on a node of another thread works on the caller's queues (`thread/coord.cpp:335`). |
| `NodePlaces`, `Ops <- PriorityOps`, `Foreign <- ForeignRemove` | `NoAbort` | remove-priority on an idle node of another thread reaches `abort()` (`thread/coord.cpp:219`). |
| `NodePlaces`, `Ops <- OwnerOps`, `Foreign <- ForeignMoving` | `LeavesToOther` | A node given away while it runs is made moving by another thread between the test and the lock (`thread/thread.cpp:363`). |
| `NodePlaces`, `SelfSends = TRUE` | `DatabaseWaitsEnd` | A persistent or reused fact for the running node waits for the database lock its own thread holds: the `SelfSendFinding`, seen from the locks (`vm/helpers.cpp:163`, `thread/thread.cpp:131`). |
| `NodeLive`, `SPECIFICATION Spec` | `NoFactLeft` | The just-moved fact of an idle node does not queue the node (`thread/coord.cpp:486`). |
| `ThreadRuleFinding`, `ReusedPred = {"t"}` | `ThreadFactsMarked` | "unmark all thread facts and save state in 'thread_node'" (`vm/state.cpp:748`) overwrites the mark of a reused thread fact that came during the run. |
| `NodeLife`, as it is | `NoUseAfterFree` | `garbage_collect` (`db/node.hpp:72`) sees neither that a node runs nor that a thread is about to send to it: the thread that drops the last reference deletes it under them. |
| `Databases`, `Zeroed == SUBSET {0, 1}` in `MCDatabases` | `StoreExact` | `subhash_table::setup` (`db/hash_table.hpp:305`) clears the slots of a new table and not its bitmap, and neither the pages of the pools (`new byte[]`, `mem/mixedgroup.hpp:102`) nor the objects they reuse are cleared: a bit left in that memory makes an empty slot be taken for a sub table. |
| `Databases`, `UpdateHashed = TRUE` | `LookupExact` | A fact whose hashed field is updated stays in its old bucket (`vm/exec.cpp:921`, "may need to re hash tuple"). |
| `Databases`, `Preds <- CyclePreds`, `MaxList = 3` | `SettledRight` | A fact of a cycle predicate is stored with the `depth` that the fact before it left in the state (`vm/state.cpp:247`), and retracted at its own: the count is left over. |
| `Databases`, `Scribbled = {0, 1}` | `SeenOnce` | The iterator reads buckets and tables that were freed; it works because the pools use only the first word. |
| `Trie`, `Preds <- CyclePreds`, `Depths = {0, 1, 2}` | `BasicInvariants` | When deeper derivations go with the last of a depth and shallower ones stay, the references are not given back (`db/trie.hpp:413`). |
| `Trie`, `Preds <- AbsentPreds` | `ImplementsCounts` | The retraction of an absent fact of a predicate without arguments reaches the root, takes its null leaf for one (`db/trie.cpp:713`, `:1000`) and crashes. |
| `Trie`, `Preds <- PairPreds` | `SearchReadsTables` | When the search takes a frame up again under a hashed node, it takes the child of the frame for the table of that node. |
| `Trie`, `Preds <- StructPreds` | `SearchExact` | A search over a structure field does not give exactly the facts that match (the assertion `do_matches` at `vm/exec.cpp:654`). |
| `ByteCode`, `Pushed = 9` | `StackFits` | `push` expands the call stack once (`vm/call_stack.hpp:37`), also when a PUSHN, of up to 255 slots on 64, needs more than that. |
| `ByteCode`, `Ops <- JustCalle`, `Iterates <- NoIterates`, `Shapes <- JustFlat` | `NextIsAdvance` | CALLE jumps by `CALLE_BASE * calle_num_args(pc)` (`vm/exec.cpp:3480`) where `advance` adds; `assert(npc == advance(pc))` at `vm/exec.cpp:2435`. |
| `ByteCode`, `Ops <- JustHead` | `FetchesInstructions` | `HEADRF_BASE` multiplies where it should add (`vm/instr.hpp:137`), so HEADRF, HEADRFR and TAILRF are a byte short. |

What this means for the passing runs: `ZeroMeansNoWork` speaks of the moments when
no increment is owed and is checked without stealing; `CounterMatchesStates`
excludes stopped programs, `CounterNotTooSmall` includes them; instructions other
than priorities name nodes that the calling thread owned when it looked;
`StaticNotStealable` is checked without set-affinity; `NothingForgotten` is about
regular nodes and facts of their own; only buffered facts are sent to the running
node (`SelfDest`, `SelfSends`); hashed fields are not updated (`UpdateHashed`); new
tables have clear bitmaps (`FreshBitmaps`); cycle predicates have two depths in `Trie`
and are left to the finding in `Databases`; absent facts are retracted only of
predicates with arguments (`absent` in `Trie`); a PUSHN pushes no more than one doubling
makes room for (`Pushed`); the four instructions above are left out of `ByteCode`.

## 4. Fairness

Every liveness property assumes weak fairness of the steps of each thread and
nothing else: the operating system runs every thread. For `Termination` this needs
that a node run ends, which holds because its other steps use up `Fuel`. In
`NodeSched` a thread at a lock has no step while the lock is held, so weak
fairness of its step says that it gets the lock when it is free for good; the
stronger promise, that it gets its turn among others, is `EveryWaiterEnters`, and
the bounded number of sends and instructions makes it unnecessary there.
In `MCPrimitives`, `Goes(t)` is the step of a call that has begun, of a critical
section that ends, as every user of `mutex` ends it, or of a thread in the
barrier, which `init` runs to its end; nobody is forced to call lock or try_lock,
and nothing is assumed of the queues. The other modules state safety only.

## 5. Proofs

Every theorem below holds for every value of the constants that satisfies the
assumptions the module names, and those the theorem names itself. TLC evaluates
the former on the instances; the latter leave out programs or builds for which the
statement is false, and section 3 shows how.

**Termination detection** (`TerminationProofs`), for every number of threads, every
amount of work and both settings of every flag:

* `TypeCorrect`: `TypeOK`.
* `WorkersAreActive`: the assertions that a working thread is active.
* `CounterCorrect`, `CounterSafe`, `CounterNeverUnderflows`, and together
  `CounterAlwaysKept`: the counter against the bytes, before and after a stop, and
  no wrap below zero.
* `ThreadFactsAnnounced`, `TerminationDetectedSoundly`, without stealing: whoever
  sleeps over a thread fact is on the list of a thread that will wake it, and the
  decrement that reaches zero, with no increment owed, leaves no work behind. With
  stealing both are false: `TermLostSignalFinding`.

Assumptions: the three named in `Termination` (at least one thread, Boolean flags,
natural bounds). The inductive invariant is `IndInv`: `TypeOK`, `AwakeInv` (who
works is active; who was activated in go_steal_nodes is between its labels; who
is killed was stopped) and `CountInv`. The counter equation is not inductive by
itself, because a step that adds an active thread and owes an increment is only
right when the thread was inactive before and owed nothing. The proof goes over
`Slack`, counter plus owed increments minus active threads minus owed decrements:
each of the four operations on `tstate` keeps it (`OperationsKeepSlack`), the
counter updates keep it (`BarrierKeepsSlack`), and only set_force_inactive, after
a stop, can raise it. So it is zero until a stop and never negative. The lemmas
on cardinalities (`CountExcept`, `SlackUpdate`) are stated once. For the work that
is left, `AnnounceInv` says of every thread with a fact or a node that it has yet
to look, or is on the list of somebody who works; from it and `IndInv`, when the
last one sleeps (`LastOneSleeps`) there is no list and nobody with work.

**Node scheduling** (`NodeSchedProofs`), for any sets of threads and nodes, any
number of facts and instructions, with and without stealing. Every theorem assumes
`OwnNodesMoved`: set-static, set-moving and set-affinity name nodes of the thread
that executes them (on nodes of others they use the caller's queues, section 3);
priorities may be changed on any node.

* `NodesInOnePlace`: `InOnePlace`, the mark of a node says in which queue, or in
  whose hand, it is, and it is nowhere else.
* `FactsNotStranded`: `NoFactStranded`.
* `DatabaseLockNotDeadlocked`: `DatabaseWaitsEnd`, without unbuffered sends to the running
  node (`SelfSends`). Who holds the main lock of a node and waits for its database lock
  waits only for a thread inside REMOTE UPDATE (`execute_remote_update`), which takes that
  lock with a try_lock, without the main lock, and waits for nothing before it releases
  it; so the two locks of a node cannot make a cycle.
* `OwnerChangesSettle`: a change of owner is pending only while the node runs.
* `StaticNodesNotStolen`: `StaticNotStealable`, without set-affinity
  (`NodePinFinding`).
* `AbortNotReached`: no `abort()`, when remove-priority too names own nodes.

`InOnePlace` is not inductive: that a node taken out of a queue was there needs to
know who may change its mark. `SchedInv` adds the locks: which program points hold
which main lock, that while an instruction holds it the node is neither queued
nor put to rest by anybody else (`InstrKnown`: it may only leave the queue it was
seen in), that a pending owner is left to the thread that runs the node, and that a
database lock is held by the runner of the node, inside its rules, or by a remote
update (`DatabaseLocks`). The step from
`SchedInv` to the next state has one lemma per kind of change of place and one
case per action.

**Node life cycle** (`NodeLifeProofs`), for any number of threads, created nodes,
rule runs and ids, and any set of rules, from `LifeAssumption` alone:

* `ReferencesCounted`: `RefsExact`, the counter of a living node is the number of
  facts that refer to it, wherever they are, less those being destroyed; a deleted
  node is only referred to by those.
* `NoGarbageLost`: `GarbageFound`.
* `OwnDeletesHarmless`: `OwnDeletesSafe`.

They hold although a node may be deleted under a thread that runs it (section 3):
the model stops there, and the theorems say what is right until then. The
difficulty is a rule that matches a fact: it must not create a reference to a node
that is gone. A fact is destroyed in two steps, the counter first, so a database
may hold facts of deleted nodes. `LifeInv` has that a destroyed fact still is in
the database of a running node, that two threads never run the same node, and that
each thread destroys one fact at a time; so the facts being destroyed are at most
the facts in the databases of the nodes that destroy them, and one that another
thread can match is a reference besides (`Surplus`, `Matched`). Then the count of
its node is positive, and the node is alive.

References are sums over nodes and threads. `LibraryProofs` has what is needed about
`SumFunctionOnSet` (one element added, removed or changed, pointwise bounds, sums
that count). A sum is a recursion over finite sets; the inductions are written as a
smallest counterexample among the subsets, which exists because the strict
subset order of a finite set is well founded.

* `IdentifiersKept`: `IdsKept`, no two nodes alive have the same identifier or that of
  an initial node, and the lists of a thread hold its nodes, each once.

Identifiers come from blocks that a thread takes from the shared counter, and go
back through a list that the next node is taken from. `IdsKept` alone does not say
that an identifier about to be used is free. `IdsInv` adds to it that the blocks of
two threads are apart and apart from every identifier in use (`Blocks`, `Unique`,
which covers the freed nodes too), whose list a node is on and what its creator
field says (`OnLists`, `Creators`), that a thread was told of every node others
deleted from its list (`Told`), and that nobody runs a node once a thread has given
its lists back (`Ended`). The walk of `free_destroyed_nodes` along the list is one
recursive function; `Only` and its lemmas (length, members, no duplicates) replace
`SelectSeq`, of which the prover knows no definition.

**Facts and rules** (`RunNodeProofs`), for any program (predicates, rules and their
bodies), any number of threads and nodes, any number of facts and any interleaving
of sends, runs and changes of owner:

* `NoRuleForgotten`: `NothingForgotten`, a regular node at rest, with no facts waiting
  for it, has tried every rule whose facts are all there.
* `CountsAgree`: `MatcherExact`, the counts of the rules agree with the marks of the
  predicates, the queue holds only rules whose predicates are all marked, and a
  predicate with facts is marked.
* `FactsHaveOnePlace`: `FactInOnePlace`.

`CountsAgree` assumes that no thread predicate is reused (`ReusedPred \cap ThreadPred =
{}`). Without it the last part is false, and TLC shows it in eight states when
`ReusedPred` is `{"t"}` in `Rules`: a reused fact of the thread that ADDTPERS derives
is marked in the matcher of the thread node, while the rules are matched with the
matcher of the node that runs. The other two theorems have no such assumption.

The invariant of the first two is `Agrees`. Its core is `Marks`: in the matcher of a
node, `Exact` relates counts, marks and queue; what is in its databases is marked,
unless the phase of the run says that it is yet to be processed; and a rule with all
predicates marked that is not queued was tried after the last of them came (`Tried`).
To carry it through a run it takes what the thread holds at each phase: `Known`, the
facts on lists were derived; `Own`, a thread runs only nodes it owns and its thread
node stays with it, so that nobody else writes the matcher; `OfThread` and `Awake`,
what the end of a run leaves. A matcher is changed by folds over sets of predicates
(`update_all`, `empty_all`); they are shown independent of the order by the
same smallest-counterexample argument as sums (`FoldsAgree`, `FoldsExist`).

The invariant of the third is `Placed`: there is a function that gives every fact its
place, the thread or node it is with and, in a buffer, its destination, and every list
holds only facts placed there, each once. A step then moves a set of facts at most
(`Moves`). `UsedSeen` adds that a rule that fires holds facts its node can see.

**Heaps** (`HeapProofs`), for any finite set of nodes, any priorities, both orders and
any limit of a steal:

* `HeapsWellFormed`: `HeapInv`.
* `HeapsImplementBags`: `ImplementsBags`, the heaps implement `PriorityBags`.

A sift is a loop, written as a function of the number of turns. Its states have an
invariant: while heapifyup is at index i, every node but i is in order with its parent
and the children of i with the parent of i (`UpOrder`); while heapifydown is, every
node but the children of i (`DownOrder`). A turn keeps it (`UpKeeps`, `DownKeeps`), moves
i towards an end and stops only when the heap is in order; since the index bounds the
number of turns, the loop has ended when the function is read (`LoopEnds`). do_remove
fills the hole with the last node: `OneWay` says that a node with a new key may be too
low or too high but not both, which is why a sift in one direction, chosen by a
comparison with the parent, is enough. do_pop_half never takes the first node, which
is a best one (`FirstIsBest`), so what stays is as good as what goes. `HeapsInv` says of
each vector that it is a heap whose nodes know their indices, and that its nodes are
those marked with its queue; the other heap is untouched because its nodes are others.

**Linked queues** (`PrimitiveProofs`), for any finite set of nodes, any set of queues and any
limit of a steal:

* `QueuesWellLinked`: `WellLinked`.
* `QueuesImplementSequences`: `ImplementsSequences`, the pointers implement `SeqQueues`.

`WellLinked` is not inductive as it stands, for it speaks of what a reader finds. The
invariant (`SpellInv`, theorem `QueuesSpell`) is that the pointers spell some sequences,
one for each queue (`Spells`): from every node of a sequence `qnext` and `prev` lead to its neighbours,
`head` and `qtail` are its ends, `total` its length, no node is in two places, and the
marked nodes are those in the sequences. Somebody who follows links that lead through a
sequence finds that sequence (`FollowIs`, `BackIs`), since the links of an end are null;
so `List` is what the invariant spells. Of the links of a node in no list nothing is said:
that is why the fields a heap left there do no harm. An operation changes the sequence of
its queue, and must leave the links of the nodes elsewhere alone (`Becomes`); pops and
steals are one argument (`TakesHead`), removal and the pop at the tail another
(`TakesOut`), and `MoveUp` a removal followed by a new head (`Raised`). `QueueAssumption`
says that null and the junk are no nodes and that `size_t` can count the nodes; without
the latter `total` would be the length modulo the width only.

**Locks and barrier.** `PrimitiveProofs` proves of the queued spinlock, for every set of threads
(`NullPtr` is none of them), that the list is well formed (`ListCorrect`), that two
threads never own the lock (`Exclusion`), that no write reaches a dead entry
(`EntriesAlive`), the three together (`LockSafe`), and that the lock implements
`FifoLock` (`ImplementsFifo`). `ListInv` relates the list pointers to the auxiliary
`order`, in which entries were swapped into `tail`: it is inductive as it stands
because it says for each entry exactly when its `next` is set and its `state`
granted. The refinement maps `queue` to `order` and `inside` to the threads between
return of lock and last access of unlock; `StepFifo` shows that each step is a step
of the abstract lock or leaves it alone.

It proves the same of the ticket lock: `TicketsCorrect` (`QueueInv`:
the threads in the lock hold the tickets from the called one up to the next one to
be drawn, one each) and `TicketImplementsFifo`. `TicketsSuffice` says that there are
fewer callers than tickets, without which a waiter would be mistaken for the owner;
distances modulo the width then behave like positions in a queue, also across the
wrap (`DistFact`, `LineFact`).

It also proves `BarrierCorrect` (`BarrierHolds`) for every tree and any
number of rounds. `TreeAssumption` says that the parents form a tree; that the
constructor builds one is checked by TLC (`BarrierTree` is recursive). `BarrierInv`
adds that everybody is in the round of the root or spins at the end of the one
before, and that the children of a node that saw its count at zero spin.

**Persistent facts** (`PersistentProofs`), for any finite set of senders, any finite set
of values, any keys, depths and bounds (`FactsAssumption`: values are integers, depths
natural numbers, the aggregate is one of the four modelled):

* `RulesFollow`: `RulesFollowFacts`. That the rules of a fact ran once more than for its
  removal exactly while it is stored holds for cycle predicates too; that the matcher
  knows whether there are facts, for the others. The code tells the matcher the number of
  references of the trie (`new_persistent_count`, `vm/state.cpp:326`). Without depths that is the
  sum of the counts of the leaves (`TrieKept`), zero exactly when there is no leaf; for a
  cycle predicate it is not (`db/trie.hpp:413`, section 3), and the model leaves open what
  the matcher is told.
* `SettledFacts`: `SettledRight`, when no predicate is in a cycle of rules. The hypothesis
  is needed: for a cycle predicate the run of section 3 with `CyclePreds` violates it.

Both rest on what insertion and removal do to a list of leaves for different tuples
(`Gains`, `Loses`); `RulesInv` adds to `RulesFollowFacts` only that every leaf has a
derivation. `SettledRight` speaks of the moments when nothing waits, so the invariant has
to say what the list will do. `Takes(l, t, a, n, m)` says that the facts and removals
of `l` take the count of `t` from `n` to `m` without going below zero on the
way (there is a `Path` of natural numbers); `a` tells the aggregated facts from the values,
which may be equal as tuples. `SettledInv` then says that the list takes what is stored of
every fact to the number of its holders, that the aggregated fact a configuration
remembers is the one of its values (`Current`), and that the list takes the trie to these
facts. That the path stays above zero is what makes the code right: a removal finds its
fact (`ProcessedIs`), since a leaf that is not there ignores it. A cancellation takes out the
fact at the head and its first removal (`TakesCancel`): up to there every count is at least
one, so that it can be lowered by one. A change of an aggregate appends the old fact's
removal and the new fact (`TakesNew`). At the end `do_generate` is compared with the
definition of the aggregate (`GeneratedIs`), sums included (`SumImage`).

Only model-checked, because the prover cannot reach them: liveness everywhere, as
it rests on fairness; what is defined with RECURSIVE operators (`BarrierTree`, `Trie`
and `TrieSearch`, the table walks of `LinearStore`). Only model-checked so far:
`ByteCode`.

## 6. Not modelled

* Memory pools. They are per thread and sequential; what their reuse of memory
  does to an iterator and to a new table is in `LinearStore` (`Scribbled`, `FreshBitmaps`).
* What REMOTE UPDATE writes: it changes fields of a fact of another node in place and
  registers nothing with the matcher of that node (`vm/exec.cpp:1649`), so a rule that the
  new value makes applicable is not tried until something else brings it up. Facts have no
  fields in `RunNode`, whose `NothingForgotten` is about predicates that have facts; the lock
  it takes is in `NodeSched`. In `RunNode` a persistent fact derived at its own node enters
  the store at once, the branch of `vm/helpers.cpp:45` for predicates without code; what waits
  in a list there is reused facts, and persistent ones that come from elsewhere.
* Run-time objects (lists, structures, arrays) and their reference counts: they
  follow values in registers and fields, which the models abstract.
* External functions: pure computations on those objects.
* The parser of byte code files, command line, reading of the database file and
  the partition of the initial nodes: sequential, before the threads start.
* The choice of indexed fields (`DYNAMIC_INDEXING` is off in the default build),
  statistics, the MPI leftovers, unused queues: not in the default build.
* Action facts, which are output, and delayed sends, which end in `assert(false)`
  (`thread/thread.hpp:489`).
* Compact arrays, filled once; list-sum aggregates; structures as trie fields,
  except in the violation above.
* `pop_if_not_empty` and `push_head` of the queues, which have no caller; the
  latter leaves the back link of its node unset
  (`queue/intrusive_implementation.hpp:103`) and would break `WellLinked`.

Seen while reading, outside the properties:

* A created node gets its `init` fact but no place in a queue: it runs when
  somebody first sends to it.
* `deleted_by_others` never goes down (`thread/ids.cpp`), as the
  `by_others` that is taken from it stays 0: once it is more than half of
  `total_allocated`, every `create_node` walks the whole list.
* `convert_hash` and `expand` of the trie have no case for a thread field, and
  `match` none for a Boolean one; `wipeout` leaves the root hashed.
* `execute_olinear_iter` takes the linked list of a store without asking whether
  it is one; `execute_rlinear_iter` does not ask whether the table exists.
* `struct_valff` and `struct_valffr` copy the whole structure in place of the
  field they name (`vm/exec.cpp:1797`).

## 7. Plan

Done: the scheduler (`Termination`, `NodeSched`), its building blocks with their
abstract specifications, the life of facts (`RunNode`, `RuleMatcher`) and of nodes
(`NodeLife`), both databases (`LinearStore`, `Persistent`, `Trie`, `TrieSearch`) and
the instruction set (`InstrCodes`, `InstrFormat`, `ByteCode`); proofs of
termination detection, of the places of nodes, of their reference counts and
identifiers, of the facts and the rule matcher, of the heaps, the linked queues, the
locks, the barrier and the persistent facts with their aggregates.

Left, in this order:

1. `Termination` as the count abstraction of `NodeSched`, by refinement.
2. Run-time objects: reference counts along the instructions of `ByteCode`.
