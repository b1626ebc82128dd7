# A TLA+ model of LoLA

LoLA (`src/src`) is an explicit-state model checker for Petri nets. It answers
one question about one net by enumerating markings: it fires transitions, keeps
what it has seen in a store, evaluates a property in every new marking and stops
when it has a witness or nothing is left. A wrong bit anywhere in that loop (a
stale enabledness flag, a marking that two threads both believe to be explored
by the other, a formula whose bookkeeping is off by one) makes it print a wrong
verdict without crashing. This directory models that loop and the data
structures it rests on, checks them with TLC and proves the central invariants
with TLAPS.

`tlc -config X.cfg M` runs a model, `tlapm M_proof.tla` checks the proofs;
`PROJECT.json` lists the runs, the definitions with the source lines they
translate, a faulty variant of the code for each property, the hazards, the
findings and the theorems.

## 1. The system

### 1.1 Components

Paths are relative to `src/src`.

| component | state it keeps | operations | what makes it correct |
|---|---|---|---|
| Net states, token game (`Net/NetState`, `Net/Transition`) | `Current`, `Enabled`, `CardEnabled`, `HashCurrent` | `fire`, `updateEnabled`, `backfire`, `revertEnabled`, `checkEnabled` | the increments equal what a computation from the marking would give; a step back restores the state |
| Net preprocessing (`Net/Net`) | deltas, hash tables, conflict lists, computed once | `preprocess`, several threads for the conflict lists | the lists contain every transition whose enabledness can change |
| Sequential search (`Exploration/DFSExploration`, `DeadlockExploration`) | store, stack, fire list and position in it, one net state | `depth_first`, `find_path` | the verdict; the witness path; net state, stack and property move in step |
| Parallel search (`Exploration/ParallelExploration`) | per thread the same; shared: store, `finished`, `suspended_threads`, semaphores, the property's stack | `threadedExploration`, `depth_first` | the same for every interleaving; no lost work, no lost wake-up, everybody ends |
| Search stack (`Exploration/SearchStack.h`) | chunks of entries | `push`, `pop`, `top`, deep copy, `swap` | a stack |
| Fire lists, stubborn sets (`Exploration/Firelist*`) | scratch arrays | `getFirelist` | the reduced graph still decides the property |
| State predicates (`Exploration/StatePredicateProperty`, `Formula/StatePredicate/*`) | per node: value, sorted list of subformulas, position, count; per leaf a sum; per transition the lists of leaves it can change | construction, `evaluate`, `update`, `updateTF`, `updateFT`, step forward and back | the root has the truth of the formula in the current marking after any walk |
| Vector stores (`Stores/VectorStores/*`) | an STL set behind a readers-writer lock; a Bloom filter; a prefix tree; a hash table of any of these | `searchAndInsert`, `popVector`, `empty` | a set of vectors, each operation atomic |
| Store front ends (`Stores/PluginStore`, `CompareStore`, `SymmetryStore`, `CycleStore`) | counters per thread | `searchAndInsert`, `popState`, counters | exact counters; the answer of the vector store |
| Encoders (`Stores/NetStateEncoder/*`) | buffers per thread | `encodeNetState`, `decodeNetState` | injective, and inverse to each other |
| Sweep-line search (`SweepLine/*`) | per front a ring of transient buckets; lists of persistent markings shared by the fronts; helpers that join a front; semaphores and flags | `frontSweep`, `threadSweep`, `runFront`, `checkStates`, `searchAndInsert`, `popState`, `advanceProgress` | no bucket is in reach of two fronts; no marking is lost between buckets; forgetting markings loses no answer; fronts and helpers end |
| Coverability graph (`CoverGraph/*`) | a tree of nodes in the store, a list of nodes per thread, one net state per thread; the set of idle threads | `coverThread`, `checkOmega`, `getHelper`, `goIdle`, `terminateThreadMutex` | one giver per helper; the walk from node to node ends in the node's net state; the last idle thread ends a complete search |
| Liveness (`Exploration/TSCC*`) | numbers in the store, a low number per stack entry, the highest terminal root | `depth_first` (AGEF and EGAGEF) | the verdict for every graph and predicate |
| CTL (`Formula/CTL/*`, `Exploration/FirelistStubbornCTL`) | per marking the cached result and the number; search stack and Tarjan stack | `check` of EU and AU, called by the formula around | every result kept is right; the net state is put back |
| LTL (`Exploration/LTL*`) | Tarjan numbers of the product with an automaton | nested searches | the verdict |
| Planning (`Planning/*`) | a tree of tasks with verdicts | combination of verdicts, parallel portfolio | three-valued logic |
| Symmetry, siphons, state equation, linear algebra | matrices, partitions | pure algorithms, external solvers | pure functions |
| Runtime, I/O, front end, third party | files, signals, parsers | — | outside the models |

### 1.2 Interactions

A search owns one net state per thread and drives everything else by calls: it
asks the fire list for the transitions to try, `fire`s one (marking and hash
only), asks the store whether the marking is known, and then either `backfire`s
or calls `updateEnabled` and the property's `checkProperty`. When a fire list is
finished it pops the stack, `backfire`s, `revertEnabled`s and calls
`updateProperty`. So enabledness and property are *stale on purpose* between
`fire` and `updateEnabled`, and all of it is kept by increments that must cancel
exactly on the way back. A property is a tree of formulas that call back their
parents. The store front end encodes the marking and passes it to a vector
store. In the parallel search the threads share the store, the array of
suspended threads with its mutex, one semaphore per thread and the flag
`finished`; work moves by deep copies of stacks.

The sweep-line search and the coverability graph have pools of threads of their
own. A front of the sweep line shares the lists of persistent markings with the
fronts before and behind it and paces itself by semaphores; a helper finds a
front at work by reading its `idle` flag and then joins it under a mutex. A
thread of the coverability graph gives a new node to an idle thread by writing
into that thread's `threadInfo` and clearing its flag. CTL formulas call each
other: `check` of an outer formula calls `check` of the inner one at one marking
after the other, with the same net state, which has to come back unchanged.

### 1.3 What is hard

* **Interleavings.** Hand-over of work (unlocked read of `num_suspended`, then a
  locked pick, then an unlocked copy, then a post), the end of the search while
  other hand-overs are under way, double-checked locking in the Bloom filter,
  two looks under two locks in the STL store. Helpers that join a front which is
  about to move on; a lookup over four buckets in turn while others move markings
  between them; a helper that is woken by the end of the search while its giver
  is between two assignments.
* **Long sequences of legal calls.** Forward and backward steps in every order
  over incremental enabledness, hash, sums and sorted lists; insertions and pops
  that rebuild the prefix tree in place; the walk of a net state over the tree of
  the coverability graph, with omegas that come and go; calls of `check` that
  build on the results earlier calls have left.
* **Stale numbers.** Searches for components that take over the number of a
  marking whose component is long finished, and must not be misled by it.
* **Numeric edges.** 32-bit token counts that wrap, the remainder of a negative
  hash, words that are not aligned with markings.
* **Liveness.** Semaphores that nobody posts, joins that never return, a
  propagation that climbs for ever.

`PROJECT.json` lists each hazard at its line with the properties that watch it;
those without a property say why.

### 1.4 Files

| module | role |
|---|---|
| `StateGraph` | a state graph with fire lists: what a search needs of a net; `Fire`, `Backfire` |
| `ReachabilitySearch` | abstract specification of a search: visit markings, then give a correct verdict |
| `ParallelDFS` | `ParallelExploration.cc`, complete |
| `ParallelDFSInv`, `ParallelDFS_proof` | inductive invariant and proofs |
| `NetState`, `NetState_proof` | net, net state, the token game by increments; lemmas about it, and laws of sums that other proofs use |
| `SequentialDFS`, `SequentialDFSInv`, `SequentialDFS_proof` | `DFSExploration::depth_first` over `NetState` |
| `StatePredicateProperty`, `…Inv`, `…_proof` | the formula tree and its update over `NetState` |
| `OmegaNet` | the token game of the coverability graph over `NetState`: omegas |
| `CoverGraph`, `CoverGraphInv`, `CoverGraph_proof` | the threads of `CoverGraph.cc` for the search of a marking, and what makes them correct |
| `SweepLine`, `SweepLineInv`, `SweepLine_proof` | fronts, helpers and buckets of `Sweep.inc` and `SweepRingStore.inc`, what makes them correct, and proofs |
| `MarkingGraph` | a net state over a state graph; the meaning of EU, AU, EF, AG as fixpoints |
| `TSCCExploration`, `TSCCExplorationInv`, `TSCCExploration_proof` | the two searches for terminal components (liveness), what they know about the markings found, and proofs |
| `CTLUntil` | `check` of EU and AU formulas |
| `VectorStore` | abstract specification of a store |
| `VSTLStore` | the STL store with its lock |
| `PluginStore` | the front end over `VSTLStore`, with the counters |
| `VBloomStore` | the Bloom filter |
| `Stores`, `Stores_proof` | one of the above as `StoreCreator` makes it for a search; proofs about all three |
| `PrefixTreeStore`, `PrefixTreeWords` | the default store: the tree of decisions, and its words |
| `*MC` | instances for TLC; `StoresMC` adds the prefix tree to `Stores`, `SearchesMC` composes the coverability graph, liveness and CTL |

Some modules contain definitions marked `Variant:`; each is a plausible slip in
the code. They are in no specification. `PROJECT.json` says which property
notices which variant.

## 2. Plan

The order is that of importance: what decides the verdict comes first.

1. **Parallel search** (done): `StateGraph` → `ReachabilitySearch` →
   `ParallelDFS`; refinement; termination; proofs of everything but liveness.
2. **Sequential search over real net states** (done): `NetState` →
   `SequentialDFS`; the same abstract specification; proofs.
3. **Formula evaluation** (done): `StatePredicateProperty`; proofs.
4. **Stores** (done): `VectorStore` as abstract specification; STL store, front
   end and Bloom filter with proofs; prefix tree.
5. **Sweep-line search** (done): buckets, lists, fronts and helpers in one module,
   with the buckets of `HashingWrapperStore` tried in turn; proofs of everything but
   the end, the verdict included.
6. **Coverability graph** (done for EF): `NetState` → `OmegaNet` → `CoverGraph`;
   proofs about the pool of threads; left: the search of the finished graph for
   components (AGEF), the witness with its cycles.
7. **Liveness and CTL** (done for AGEF, EGAGEF, EU, AU): `StateGraph` →
   `MarkingGraph` → `TSCCExploration`, `CTLUntil`; the verdict about liveness
   proved; left: AX, EX, the fair operators, LTL.
8. **`find_path`** and its choice of transitions over `NetState`.
9. **Preprocessing**: the conflict list algorithm (`Net.cc` 1314-1608) against
   the definition `NetState` uses; union-find; the encoders as operators checked
   for injectivity.
10. **Search stack** chunks as a refinement of a sequence.
11. **Planning**: combination of verdicts, the Bloom filter's "unknown"
    (`ReachabilitySearchTask.cc` 265-271).
12. **Stubborn sets** of the reachability searches.

Theorems still worth proving: that the net state of a thread of the coverability
search is its node's (`NodeReached`); that the prefix tree, on bits, implements
`VectorStore`.

## 3. The models

### 3.1 Parallel search

`ParallelDFS` has one action for each access to shared memory with the local
work around it. A critical section is one step where the code can be observed in
one way only: `num_suspended` is written once inside each section, so the
unlocked read sees what it would in the code. `store->searchAndInsert` is one
step, as the search requires; the stores are modelled separately below.

| code (`ParallelExploration.cc`) | action |
|---|---|
| 52-104 start of a thread | `CheckInitial`, `InsertInitial` |
| 94-104 poll of `finished` | `Abort` |
| 105 next entry | `TakeEntry` |
| 107-116 known marking | `FireKnown` |
| 117-155 new marking | `FireGoal`, `FireNew` |
| 155 unlocked read of `num_suspended` | `ReadNumSuspended` |
| 157-163 locked pick of a reader | `PickReader` |
| 165-171 copy of stack, net state, property | `CopyToReader` |
| 173-174 post | `PostReader` |
| 176-194 giver goes back | `Resume` |
| 201-223 fire list finished | `CloseMarking` |
| 220-233 suspension, last one ends | `Suspend` |
| 244, 246-259 sleep and wake | `Wait`, `Woken` |
| 124-145 announcement, posts, publication of the path | `Announce`, `PostNext`, `Publish` |
| 361-428 join of the threads, verdict | `Join`, `Returned` |

State: `store`, `finished`, `suspended`, `sem`, `globalStack`; per thread `pc`,
`ns`, `stack`, `firelist`, `entry`, `reader`, `posted`, `found`; for the caller
`joined`, `value`, `result`. A marking is a node of a graph, a stack a sequence
of entries. The history field `at` of an entry names the marking its fire list
belongs to; no action reads it. Fire lists are a constant `Firelists[m]`: a set
of sequences, of which `getFirelist` returns any, so reduction and its
dependence on scratch data shared by all threads are covered.

### 3.2 Net states and the sequential search

`NetState` keeps marking, flags, counter and hash as the code does. `Fire`
changes marking and hash, `UpdateEnabled` re-checks exactly the transitions in
the code's lists (the conflicting ones if enabled, the back-conflicting ones if
disabled), and `Backfire`/`RevertEnabled` undo them. Token counts wrap at
`TokenWidth` (2^32 in the code). `Remainder` is C++'s: it has the sign of the
dividend, and `Normalised` adds the table size when negative.

`SequentialDFS` follows `DFSExploration.cc` 59-138 line by line: `Start`,
`FireNext`, `Known`, `Insert`, `Push`, `Backtrack`, `Exhausted`, then `Returned`.
The property is either a set of target markings or the deadlock counter; where
the search starts and what it looks for are constants. The histories `overflowed` and
`trail` (the net states left behind) serve the properties only. The order of a fire list is left open.

### 3.3 State predicates

`StatePredicateProperty` models a formula tree in negation normal form: atomic
comparisons with sums, fireability and deadlock leaves, conjunctions and
disjunctions of any arity, over `NetState`. `Changed`, `Feeding` and `Observes`
are the lists the constructor computes. `Forward` and `Backward` are a step of a
search with the property (`checkProperty`, `updateProperty`): they start an
update, `UpdateAtomic`, `UpdateFireable` and `UpdateDeadlock` handle one leaf each, in any order,
and `UpdateTF`/`UpdateFT` are one call each of the propagation, with the swap at
the border of the sorted list. `Restart` is `initProperty`. `Truth` is the meaning of
the formula, by recursion over its parts; the answer is compared with it.

The calls are nested as in the code: `updateTF` assigns its value, calls the
parent, and only when that has returned counts itself down and swaps
(`AtomicBooleanPredicate.cc` 231-250); a deadlock predicate that becomes false
calls the parent while its own value is still the old one
(`DeadlockPredicate.cc` 87-92). `pending` is the stack of the calls that wait for
their parent, and `ReturnTF` and `ReturnDeadlock` are what they do afterwards. An
`updateFT` ends with its parent's call, so nothing of it is pending.

### 3.4 Stores

`VectorStore` says what a store promises: an operation takes effect at one moment
between its call and its return. A store remembers *cells*; for an exact store a
vector is its own cell, for a Bloom filter the cells are bits, and a vector may be
known by accident. Each detailed store maps its program counters to abstract
operations.

* `VSTLStore`: read lock, count, unlock; then write lock, insert, unlock; pop
  under the write lock.
* `PluginStore`: extends it by the calls of a search and the counters per thread.
  The code drops the argument `noinsert` (`PluginStore.inc:54`, against
  `Store.h:97`), and so does the model.
* `VBloomStore`: the unlocked test of each bit, the test under the mutex, the
  setting of this and all later bits one by one, with other threads reading in
  between.
* `PrefixTreeStore`: bits, decisions and the lists that hang from them, on
  insertion and pop. One step per operation, since one lock covers it.
  `PrefixTreeWords` has the words under it: copying the rest of a marking with
  another alignment, the comparison word by word, the binary search for the
  differing bit, the reconstruction by `popVector`.

Left out: payloads of the tree, `popState` of the front end, `CompareStore` (a
debugging aid), the symmetry and cycle front ends, the single-threaded shortcut of
the STL store (no lock).

### 3.5 Sweep-line search

`SweepLine` has the threads `0 .. NumFronts - 1` as fronts and the others as
helpers. Buckets are sets of markings: `store[f]` the ring of transient ones,
`samevalue[f]` those of the current progress value, `newP` and `oldP` the lists of
persistent markings, indexed by progress; `link[f]` says which entry of the lists
each slot of the ring points to. Each operation on a bucket is one step; a lookup
over four buckets, or a move from one to another, is several.

| code (`Sweep.inc`) | actions |
|---|---|
| 1047-1074 `initThreadMutex` | `Initialise`, `StartFirst`, `InitCheck`, `StartFronts` |
| 460-472, 649-678 `frontSweep`, `initFront` | `Begin`, `Again`, `MayBegin`, `Link` |
| 704-749, 1104-1131 `runFront`, `checkCall`: one progress value, helpers called and waited for | `Run`, `Busy`, `Draw`, `DrawWake`, `Tell`, `Drain`, `Drained`, `Quit`, `Solved` |
| 865-905 `checkStates`, with `SweepRingStore.inc` 104-225: pop, expand, look a successor up, insert it | `Loop`, `Pop`, `PopNew`, `Keep`, `KeepOld`, `LookOld`, `LookNew`, `LookSame`, `LookStore`, `Insert`, `InsertNew` |
| 751-811 the way to the next value, with `SweepRingStore.inc` 235-293 | `Extend`, `MayAdvance`, `Advance`, `Post`, `Finish` |
| 821-841 `deinitFront`, 497-514 the end of the search | `Deinit`, `HandOver`, `End`, `Dismiss` |
| 561-625 `threadSweep`, a helper | `Outer`, `Inner`, `Glance`, `JoinFront`, `Work`, `Release`, `Back`, `Read`, `Nap`, `Awake` |
| 1078-1090 `terminateThreadMutex`; 355-372 | `Terminate`, `Return`; `Join` |

Waiting for a condition is a guard where the code
signals every change under the mutex; a helper's own sleep is `Read` and `Nap`,
two steps, because a wake-up between them is lost (it costs time only: the helper
is told again at the next progress value). `HashingWrapperStore` appears as the
buckets `Hash[m]` that `popVector` tries one after the other (`tried`). Statistics
are left out.

### 3.6 Coverability graph

`OmegaNet` adds to `NetState` a largest token count that stands for "unboundedly
many": `CoverFire` leaves it alone, `CheckOmega` walks from a new marking towards
the root and finds the places that can be pumped, `CreateOmegas` and `RemoveOmegas`
keep the flags by increments as the code does.

`CoverGraph` has one action per access to shared memory or critical section of
`coverThread`, `getHelper`, `goIdle`, `initThreadMutex` and
`terminateThreadMutex`. A node is named by its marking. A thread goes through its
list of nodes (`next`), and `WalkTo` is the way its net state takes: up to the
common ancestor by undoing transitions and omegas, down again after all omegas of
the way have been introduced. `GiveState`, `GivePayload` and `Wake` are the three
assignments of a giver, each on its own, since the helper may be woken by somebody
else in between. `Value` and `Unknown` are the property and its doubt about omegas
(`checkOmegaProperty`). `root`, an index into the lists, is what `releaseOmegas`
starts from.

### 3.7 Liveness and CTL

Both searches have one thread and run over a state graph. `MarkingGraph` gives them
a net state (marking and flags, where `fire` changes the one and `updateEnabled`
the other) and the meaning of the temporal operators as fixpoints, which use
nothing of the searches.

`TSCCExploration` is `depth_first` of both classes, which differ in when they stop.
It numbers markings and takes over the number of any known marking, whether its
component is finished or not; `highest_lowlink` and `lasttrue` are all it keeps
about finished components. The order of calls is the code's: the predicate is
checked before enabledness is updated.

`CTLUntil` is `check` of both formulas, which mirror each other, including the
quick checks, the Tarjan stack, the look again at an ignored transition
(`Extend`), the unwinding after a stop and the results kept for later calls. The
formula around it is an environment that calls `check` at any marking it can move
to. Its fire lists are the full ones in any order, or with `Stubborn` the
singletons of `FirelistStubbornCTL`; asked for one in a deadlock, that class stops the
program in a build with `Assertions` and gives an empty list in others (`GotFirelist`).

## 4. The runs

| run | instance | states | properties |
|---|---|---|---|
| `pdfs` | 3 threads; fork graph of 6 transitions without a goal; gate graph with several goals and reduced fire lists | 298 801 | `StackIsPath`, `HandOverToIdle`, `WakeUpExact`, `AllAsleepIsEnd`, `VerdictCorrect`, `ImplementsSearch`, `GoalImplementsSearch`, `SearchReturns` |
| `pdfs_path` | 2 threads | violation | `WitnessPathComplete` |
| `seq` | 3 places, 5 transitions, counts modulo 4; 10 searches | 66 776 | `EnablednessExact`, `HashExact`, `VerdictsCorrect`, `BacktrackRestores`, `Termination` |
| `spp_and` | formula of depth four, 5 leaves, walks of 6 steps | 17 274 | `CallsFit`, `LeavesExact`, `JunctionsExact`, `AnswerCorrect`, `UpdateEnds` |
| `stores` | STL store, `PluginStore`, Bloom filter, prefix tree | 313 157 | `MarkingsCounted`, `AnswerBacked`, `WordsLocated`, `WordsRebuilt`, `ImplementsVectorStore`, `BloomImplementsVectorStore`, `TreeImplementsVectorStore`, `PluginCallsReturn` |
| `vstl_payload` | 2 threads | violation | `PayloadIsOfVector` |
| `sweep` | 2 fronts, 3 fronts, a front with a helper; three nets | 241 130 | `WindowsApart`, `InPlace`, `HelpersGone`, `VerdictCorrect`, `Termination` |
| `sweep_start` | 2 fronts and a helper | violation | `FrontsLinked` |
| `searches` | coverability graph with 3 threads, 3 properties; liveness of 28 predicates from 2 markings, both searches; 44 EU and AU formulas from 3 markings, with and without stubborn sets | 222 882 | `HelperTakenOnce`, `NodeReached`, `NodesOnOneList`, `LeaveTogether`, `VerdictCorrect`, `LivenessVerdictCorrect`, `ResultsCorrect`, `SearchesEnd` |
| `cover_release` | 3 threads | violation | `ReleasedOnce` |
| `agef` | a cycle of two transitions | violation | `LivenessVerdictCorrect` |
| `eu_deadlock` | two transitions and a deadlock | violation | `NoFirelistInDeadlock` |

Type invariants are no properties of the runs: they are theorems (section 6), and
a wrong type shows in a run as an error of evaluation or in the properties.

**What they show.** `pdfs`: a hand-over never touches a thread that works or is
already being served, no wake-up is lost or spurious, the stack a thread works
with replays from the initial marking to its net state whoever built it, the last
thread to suspend announces a *complete* search, and everybody is joined;
with threads that find goals at the same time, while others hand over or sleep, the
search is a `ReachabilitySearch` too, hence its verdict right.
`seq`: after any sequence of steps and backtracks flags, counter and hash are
those of the marking; undoing restores the whole net state; a positive verdict comes
with the goal and the whole path to it, a negative one with a complete set of markings.
`spp_and`: a call of a propagation, from its beginning until it acts, which may be
after its parents have done theirs, names a subformula on the right side of the border;
after every update the answer is the formula's truth. `stores`: every store keeps the promise of `VectorStore`, a
marking found by several threads at once is counted once, every call returns.
`sweep`: no bucket is within reach of two fronts, every marking is in the bucket of
its progress value, nobody moves a front on while a helper works in it, a search
that forgets markings still finds what is reachable, over several sweeps, and it
ends. (`HelpersGone` has an exception: with several fronts a helper may have joined a
front just before that one began, see the flag cleared at the start, and still be
there when the front is told to stop and gives up its buckets.) `searches`: a helper
is taken by one giver and sleeps until it is woken, the net state a thread has walked to is its node's, with the right flags, no node is
lost or worked on twice, nobody leaves the barrier early, the verdict agrees with
coverability computed backwards; the number taken over from a finished component
never misleads a liveness search; every result a CTL search keeps is right at any
later call, with stubborn sets too; all of them end.

**Bounds and why they are enough.** *Parallel search*: two threads suffice for a
hand-over, the third sees one under way and can compete for the reader or be the
last to suspend; two hand-overs at once and a suspending thread need four, a case
left to the proofs, which hold for any number. In the fork graph two threads have
new markings to give at the same time and a marking beyond the fork is reached
along one path only, so that losing one shows; in the gate graph all but one thread
fall asleep before the work begins. *Nets* contain conflicts, a test arc, weights
above one, a place that is taken from and given to, and cycles. In two
searches of `seq` a place can get 4 tokens where counts are modulo 4: they go on behind
the wrap-around, where the search still ends and the counter still counts the flags, and
the other properties claim nothing. One of them returns with its goal in 102 states
before a wrap-around and in 270 after one. The other eight cannot overflow: three for markings
that are never found and one for a deadlock explore everything and answer no, four find
a marking or a deadlock, one of these at once. *Formulas*:
`MaxDepth` bounds the walk and `Forward` is not taken where a count would
overflow; every marking of the net is reached within it, the deadlocks included, so that
the deadlock predicate becomes true going forward and false going back; the formula has junctions of one, two and three subformulas, both kinds
of junction at two levels, and every kind of leaf. *Stores*: `MaxCalls` bounds the
calls of `PluginStore`, four are enough for three threads to race for one marking
and come back; the STL store alone has two threads, since only the order of two
looks matters. The three vectors of the Bloom filter overlap in a ring, so each is
known by accident once the other two are. Every tree of three-bit vectors is
reached; words of 8 bits are the smallest in which the binary search has to cut its
width, and each of the sampled markings is compared at every alignment of the
decision with all markings that differ in at most `MaxDiffering` bits.

*Sweep line*: the longer net has regress within reach, behind the window and behind
the beginning of the sweep, and needs three sweeps; two and three fronts are under
way in it at the same time. A helper joins a single front in the two shorter nets: in
one of them the lists are extended while the front sweeps (`Extend`), in the other by
the end of the sweep (`Finish`). A
helper with two fronts is only in `sweep_start`: what that run shows happens in every
such instance and leaves nothing to claim behind it. `Delay` is 1, so that a marking
stays in reach for one step after it was passed. *Coverability graph*: the net has
two places that get omegas, one of them only after the other, and a cycle that
comes back to known markings; with three threads one can be helper twice and two can
give at once. All weights are 1: `removeOmega` looks only at transitions that share
a pre-place with the one undone (`CoverGraph.cc` 813-827), so with greater weights a
flag can stay set that the assertion in `fire` ("there should be enough tokens",
line 709) forbids; `NodeReached` does not hold of such nets. The three properties
are met with an omega only, never, and left open by an omega. *Liveness*: the graph
has a cycle with three ways out, a terminal component, a marking between the two
and a dead end; the predicates are all sets of one or two markings, the fire lists
all orders. *CTL*: a net with two independent tokens, a transition that joins them,
and two places between which a token moves for ever by transitions that share no place
with others: with stubborn sets the search closes a cycle of single transitions that
leaves the other token out, and must look at it again (`Extend`; without that,
`ResultsCorrect` is violated). Results are kept over any sequence of calls along the
net.

**Fairness.** `ParallelDFS`: weak fairness of every thread's steps and of the join,
as a scheduler of POSIX threads gives; `Wait` is a step that is disabled while the
semaphore is zero, so nothing is assumed about wake-ups. `SequentialDFS`,
`TSCCExploration`, `CTLUntil`: weak fairness of the program; in `CTLUntil`, of a call
that has begun, since `SearchesEnd` speaks of those only. `StatePredicateProperty`: of
the steps of an update only; whether the search takes another step is open.
`PluginStore`: of each thread inside a call, none of making calls; nothing is claimed
of writers that wait under endless reads, which the readers-writer lock does not
promise, and with bounded calls reads end. `SweepLine` and `CoverGraph`: weak fairness
of every thread and of the join; a thread that waits for a condition is not enabled.
In `CoverGraph` the formula names the threads that can step (`Ready`) in place of
ENABLED, which means the same.

**Deadlock.** Checked everywhere except in `stores`, where `PluginStore` stops when
its calls are used up. A search that has returned stutters by an explicit action.

## 5. Findings

* `pdfs_path`: the parallel search takes the witness path off the finder's stack
  before the last transition is pushed (`ParallelExploration.cc` 122-145, push at
  148). The sequential search pushes it first, with a comment that says why
  (`DFSExploration.cc:106`). With two finders the published stack can moreover
  be that of another goal than the marking returned (lines 137 and 378).
* `vstl_payload`: a vector found under the read lock is reported without its
  payload (`VSTLStore.inc` 76-82), against `Store.h:95`. The searches that use
  payloads with several threads are exposed to it.
* `cover_release`: a giver makes the net state known before the node
  (`CoverGraph.cc` 638-639). A helper woken by the end of the search in between links
  a node of its own past behind its list, which is cyclic then; `releaseOmegas` walks
  it to no end.
* `sweep_start`: the flags of the fronts are cleared to start them before they have
  linked their buckets (`Sweep.inc` 1067-1074), so a helper may take a front for one
  at work and pop through null pointers.
* `eu_deadlock`: a comment says that no stubborn fire list is asked for in a deadlock
  (`FirelistStubbornCTL.cc` 46-49), but the searches for EU and AU ask for one in every
  marking that has phi and not psi (`EUFormula.cc` 212 and 326, `AUFormula.cc` 147 and
  235). A build with assertions aborts at line 53; without them the list is empty, as the
  searches expect, and the answers are right (`searches`, with `Assertions` `FALSE`).
* `agef`: the searches for terminal components check the predicate before they update
  enabledness (`TSCCExplorationAGEF.cc` 109 and 115), so `FIREABLE(t)` is judged with
  the flags of the marking before, and a live transition is called not live.

Seen while modelling, without a run:

* `noinsert` is dropped by `PluginStore` (`PluginStore.inc:54`).
* With one hash function the Bloom filter writes a second hash value behind its slot
  (`VBloomStore.inc:85`); the command line allows it, `BloomAssumption` excludes it, and
  the theorems about the filter claim nothing of it.
* `CompareStore` asks its two stores without a lock around both, so two threads can
  see answers that differ, which the code calls impossible (`CompareStore.inc` 51-60).
* `removeOmega` checks too few transitions when arcs have weights (see the bounds).
* Two threads of a coverability search that both find a marking: `createPath` gives up
  the second one's net state, and `runThreads` looks at it again.
* `VSTLStore.inc:57` shifts by more than a word when the last word has unused bits.
* `ChooseTransitionHashDriven.cc:81` counts the hash of the initial marking, not of the
  successor.

## 6. Proofs

All theorems hold for every value of the constants that satisfies the named
assumptions.

| module | theorems | argument |
|---|---|---|
| `ParallelDFS_proof` | `TypeCorrect`, `StacksArePaths`, `HandOversToIdle`, `WakeUpsExact`, `LastAsleepIsEnd`, `VerdictIsCorrect`, `Refinement` | `IInv == Control /\ Data /\ Coverage` |
| `NetState_proof` | lemmas: an update after a step makes enabledness exact, undoing restores; a sum may be added up in any order, is linear, and changes by what one value changes | arithmetic of deltas, remainders and counts; the recursive function behind `SumFunction`, shown to exist |
| `SequentialDFS_proof` | `TypeCorrect`, `EnablednessIsExact`, `HashIsExact`, `BacktrackingRestores`, `VerdictIsCorrect`, `Refinement` | `IInv == IType /\ (~overflowed => IChain /\ ICover)` |
| `StatePredicateProperty_proof` | `TypeCorrect`, `PositionsAreConsistent`, `CallsAreFit`, `LeavesAreExact`, `JunctionsAreExact`, `AnswerIsCorrect` | `IInv == TypeOK /\ IWalk /\ ILeaves /\ IPositions /\ IStack /\ IJunctions` |
| `Stores_proof` | `TypeCorrect`, `Refinement`, `FrontEndRefinement`, `MarkingsAreCounted`, `AnswersAreBacked`, `BloomRefinement` | STL store: `TypeOK /\ InsertAsked`; front end: `PluginInv`; Bloom filter: `BloomInv` |
| `SweepLine_proof` | `TypeCorrect`, `HelpersAreGone`, `MarkingsInPlace`, `FrontsKeepApart`, `SweepVerdict` | `ControlKnown`, then `BucketAttended /\ MarkingsKnown`, and `ChainKnown`; for the verdict `AnswerKnown` |
| `TSCCExploration_proof` | `LivenessVerdict` | `TSCCInv`: eight facts about numbers, stack and lowlinks |
| `CoverGraph_proof` | `Invariance`, `HelpersAreTakenOnce`, `ThreadsLeaveTogether`, `ListsInvariance`, `EveryNodeOnOneList` | `PoolInv == PoolType /\ Startup /\ Pool /\ Barrier`, then `ListInv == ListType /\ BeforeRoot /\ Linked /\ Delivery /\ NodesOnOneList` |

**Parallel search.** None of the properties is inductive: `AllAsleepIsEnd` at the
moment of a suspension depends on where every other thread is. `Control` counts:
it relates program counters, semaphores and the array, so that a thread is either
working, in the array, or *given* (taken from the array and not yet gone on).
`Data` adds, for a thread that holds a part of the search (given threads
included), that its stack replays and that every entry already taken led to a
marking in the store. `Coverage` says every marking of the store is finished or in
the hands of a thread; when all are asleep nobody holds any, so the store is
closed. Each layer is shown inductive relative to those before it, one lemma per
action.

**Sequential search.** `IChain` describes the levels between the initial marking and
the current one: each net state is exact and leads to the next by the transition
taken; exactness after a backtrack follows because what is restored is the level's
own state. The hash is exact at every level for the same reason, one level after the
other: a step adds the tabulated difference, which is the difference of the two sums
over the places, and both are taken modulo the size of the table. `ICover`
says which entries of which level have been explored. Both are
conditional on no overflow; `IType` is not, so fire lists and counter fit even past
a wrap-around. `VerdictIsCorrect` is about `VerdictCorrect` for any start and property;
`seq` checks the instance of it for each of its searches (`VerdictsCorrect`).

**State predicates.** `IJunctions` holds in the middle of a propagation: each list is
sorted by the values its junction *has acted upon*, which differ from the actual ones
at the one child whose call is open; `CallFits` and `FrameFits` describe that child.
`IStack` says that the calls that wait go up the formula, each made by the one before it,
so that no junction has two open calls and a parent's swap does not disturb the child's
(its own list is another one). `IWalk`
is the chain of the search, so that stepping back subtracts what was added; that it
does rests on the sum of an atomic predicate being linear in the marking. With
leaves and junctions exact, the answer is the truth: the values the search keeps
satisfy the equations `Truth` is defined by, and these have one solution only,
because of the parts on which two solutions differ one would have parts on which they
agree.

**STL store.** The lock is part of `TypeOK`: readers and writer are the threads at
certain labels. For the refinement one more fact is needed, that a mere search
never reaches the second look (`InsertAsked`). Each action is then the abstract
operation of its thread, or changes nothing; a search is decided at its first look
if that settles it and at the second otherwise.

**Front end.** `MarkingsCounted` speaks of moments when nobody is in a call. In between
a new marking is in the store already and in no counter yet: the thread that inserted
it stands for it (`Answers`) until it returns. `PluginInv` says that the counters and
the threads that stand for one add up to the size of the store.

**Bloom filter.** `BloomInv` says what a thread knows of its vector: the bits it has
passed are set, and stay set since bits are never reset, so that what was seen without
the mutex is still true under it. For the refinement a vector counts as stored from the
moment its thread finds a bit unset under the mutex, though its other bits are set
later; other calls that insert cannot get between as they wait for the mutex, and an
unlocked look that sees some of the bits decides nothing by it.

**Sweep line.** The invariants are in `SweepLineInv`; each was an invariant of the
run's specification in TLC, with `Delay` 0 and 1, before it was proved (`NothingLost`
with the greatest set that can be `V`). `ControlKnown`
is about who is where: `Gathering` and `OpeningKnown` describe the start, up to the
moment the first front has linked its buckets; `HelpersKnown` says that a front counts
its helpers, and that in the places where it moves on its flag keeps others from
joining; `RingsKnown`, that the slots of a ring are consecutive entries of the lists
and these exist. On it rests `MarkingsKnown`: a marking is in a bucket of its progress
value, and what has fallen more than `Delay` behind is gone. It needs
`BucketAttended`, a fact about the order of things: a front leaves a bucket only when
it is empty, because as long as it is not, some thread at the front is still going to
look into it. That is not plain: `popVector` tries the hash buckets in turn and may
miss a marking that went into one it has passed, but the thread that put it there
comes back to look. Finally `ChainKnown`: the fronts follow one another in a circle,
and the semaphore of a front, with the post it is about to make, never promises more
than the room between it and the next one beyond the size of a ring. Neighbours in the chain are therefore
apart; for any two fronts this follows from a least counterexample over their distance
in the chain (`ChainOrder`).

*The verdict.* "Yes" is the easy half: every marking anywhere can be reached
(`AllReachable`). For "no", what has been expanded is forgotten, and no variable
remembers it. `NothingLost` therefore speaks of *some* set `V` of markings: none of them
has the property, the successors of each are in `V` or still to be visited (`Pending`:
ahead in a ring, in a list of new persistent markings, or taken by a thread), and so is
the initial marking. When a thread has tried the last entry of its fire list its marking
joins `V`; nobody has to say what `V` is. What is left is that the front which ends the
search, the one with `fresh` still set, ends it when nothing is to be visited:

* behind it the lists of new markings are empty, and a front behind it has nobody at work
  and nothing ahead (`FreshKnown`); a front that begins does so with an empty ring,
  behind everything that was left for it, which is what the extensions of the lists to the
  left are for (`BeginningKnown`: while `back_progress` counts down a marking may lie
  before the place where the next front begins, afterwards none does);
* at it, `popVector` has found all new markings, although it tries the buckets in turn
  (`NewAttended`);
* before it there is no list: it stops at their end, the lists have no gap, and a marking
  is never left so near to their end that a front would stop before it (`ListsWhole`). A
  front further on would have its ring there (`Apart`).

So `Pending` is empty, and `V`, restricted to the markings that can be reached, has the
initial one and is closed: it is all of them, and has none with the property.

Attempts to prove changed the model three times. The run had no sweep that ends with
markings left behind its beginning, so the extension of the lists in `Finish` was never
taken; a net in which it is was added. `HelpersGone` was stated without the
exception above, which the bounds of the run do not reach; and the operation a thread
of `VBloomStore` performs, as the refinement sees it, was chosen by two overlapping
cases.

**Coverability graph.** `PoolInv` is about the pool of threads only and holds for any
net, any property and any number of threads; it needs no more than
`NumThreadsAssumption`. `HelperTakenOnce` is not inductive: a thread that enters
the set of idle threads must be in nobody's hands at that moment (`OnTheWay`), and a
thread that is in the set must be asleep (`InSet`) unless the search is over or
everybody is in the set. `Startup` covers the time before thread 0 registers the
others: until then nobody has work, so nobody gives any. `Barrier` says that
`terminating` counts the threads that have not come to the barrier, from which
`LeaveTogether` follows. That `running`, `idleCount` and `terminating` are
cardinalities is what makes the comparisons of the code with them mean what they
are meant to. Actions that only move one thread from one label of the search to
another are treated alike (`SearchMove`, `GiverMove`).

`ListInv` rests on `PoolInv` and follows the nodes. `OnList(t)` is the least set with
the root of thread `t` that is closed under `next`, so that what an induction along the
list would show is shown by naming one closed set (`ListKept`, `ListExtended`).
`Held(t)` is the one node on its way to a list: created by `t` and not yet linked or
delivered, or delivered to `t`, which has not yet begun with it. The lists and the held
nodes divide the store; an action creates a node in a hand, moves one from hand to hand
(`Wake`) or from a hand to the end of the owner's list. `Delivery` is what makes the
last two safe: a helper that is woken by its giver finds the node of this giver, because
both assignments came before. All of it is said of a search that goes on: after `exit`
is set a helper may wake in between, which is the finding of `cover_release`.

**Liveness.** `TSCCInv` is in `TSCCExplorationInv`. Tarjan's algorithm keeps the open
components on a second stack; this search does not, so that the lowlink of an entry may
come from a component that is finished, and an entry whose number and lowlink agree need
not be the root of a terminal component. What is true instead is said in terms of
numbers. The *section* of an entry holds the markings numbered from it on and before the
next entry. From the marking of an entry every higher number can be reached
(`AboveReached`), and also the marking whose number is its lowlink; no transition fired
in a section leads below the lowlink of its entry (`EdgesKnown`). So at the end of a fire
list the top section is closed just if the top has kept its own number (`TopClosed`).
`WayBack` replaces the second stack: every marking found reaches an entry of the stack
not numbered after it, or a *passed* marking, one with a number up to `highest_lowlink` from which
nothing bad begins (`Harmless`). If a top with its own number lies above
`highest_lowlink`, no passed marking is in its closed section, so all of the section
reaches the top: the section is the terminal component, and `lasttrue` tells whether the
predicate holds in it. If the top lies at or below `highest_lowlink`, it reaches a passed
marking and may be dropped. For AGEF a marking is harmless if the predicate can be
reached from it, for EGAGEF if a marking can be reached from where it cannot: one proof
serves both. At the end everything found is harmless and closed under all transitions, so
the definitions of `SatEF` and `SatAG` give the answer; that they are the least fixpoints
they should be is the lemma `UntilIsLeastFixpoint`. What `searches` checks under the name
`LivenessVerdictCorrect` is this formula for the graphs of `SearchesMC`, an instance of the
module for each setup. The theorem is about `FullSearch`: finitely many markings, fire lists with all enabled transitions (`--stubborn=off`) in any order, and a
predicate about the marking. For a predicate about enabledness the verdict is wrong
(`agef`, section 5). The store was written with the operators of module TLC, which the
provers cannot expand; it is an ordinary function now (`setDFS`).

**Assumptions.** `GraphAssumption`: fire lists exist for every marking and contain
enabled transitions only, and firing a transition is injective, as it is for
vectors of token counts. `NumThreadsAssumption`: at least one thread.
`PlaceAssumption`: a net has a place, as its grammar demands (`ParserNet.yy`, 104-149).
`NetAssumption`: finitely many places, arc weights that are token counts, a hash table
that is not empty; the modules that start from a marking (`SearchAssumption`,
`FormulaAssumption`, `MarkingAssumption`) say that its counts are token counts. `SearchAssumption`: `Markings` contains the
initial marking and is closed under firing without overflow. `FormulaAssumption`:
finitely many nodes of disjoint kinds, each but the root with a parent, and none a part
of itself. `NoPayload`: the null pointer is no vector. `BloomAssumption`: at least two
hash functions (see section 5). `CallsAssumption`: finitely many threads.
`SweepAssumption`: at least as many threads as fronts and at least one front, fire lists
of transitions that have a successor, `Delay` within the ring. `ProgressAssumption`: the
initial marking has progress 0 and a transition changes progress by its own measure,
which is what `Sweep` is given by the preprocessing of the net. `ReachableAssumption`:
what can be reached is the least set with the initial marking that is closed under the
entries of the fire lists; every net has one, and the instance computes it. TLC evaluates every
assumption on every instance.

**Model-checked only.** All liveness (`SearchReturns`, `Termination`, `UpdateEnds`, `PluginCallsReturn`,
`SearchesEnd`), which needs fairness and ENABLED; the prefix tree and its words
(`TreeImplementsVectorStore`, `WordsLocated`, `WordsRebuilt`), recursive as the code is;
of the coverability graph `NodeReached`, about a walk by recursion over the tree; the
verdicts of the coverability search, compared with a graph computed by recursion, and of
CTL (`ResultsCorrect`). Induction is used where it can be put as a fact about
sets (`Numbers` and `Subsets`: a set that contains 0 and with each number the
next contains them all), or as a least counterexample; theorems that take an operator as
parameter cannot be instantiated by the provers.

## 7. Not modelled

`PROJECT.json` names every component with its reason. Pure I/O, parsing, unfolding,
signals and third-party solvers are left out for good; most lines of the repository
are of this kind, generated term processors and vendored solvers above all. Printing
of witnesses is left out; the path itself is in the models. Stubborn sets of the
reachability searches appear as the set of lists a search may get, and
`FirelistsApplicable` states what is required of them; the singletons of the CTL
search are modelled. Of the coverability graph the search for components after the
graph is built is left out, of CTL the operators AX, EX and the fair ones. The rest is
in the plan.
