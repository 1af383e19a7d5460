# VectorPulse in TLA+

VectorPulse is an in-memory vector search library in C++: a vector store, five
exact search engines (scalar, AVX2, both of them multithreaded, CUDA), an
approximate engine (an HNSW graph), a file format for whole indexes and a
Python module. This directory models the parts that are hard to test in TLA+,
checks them with TLC on small instances, and proves facts about them for every
size with TLAPS.

Source files are named without their directory when there is only one of the name.
`PROJECT.json` maps every definition to the lines it stands for and lists
runs, hazards, mutants and theorems.

## The system

| part | state | operations | what makes it correct |
|---|---|---|---|
| `SearchBackend` engines, `VectorStore` | `entries_`, `index_by_id_` | `add`, `search`, `size` | IDs are unique, vectors never change, a search returns the exact Top-K, a call that throws changes nothing |
| `HnswIndex` | `nodes_` (ID, vector, links of each layer), `index_by_id_`, `entry_`, `max_level_`, the generator `random_`, `config_` | `add`, `search` (two overloads), `set_ef_search` | a failed `add` leaves no trace; lists stay within their caps; the base layer stays connected; links and walks stay in range; a search returns `min(k, size)` results |
| multithreaded engines | per call: parts, `local_results`, `errors`, the `jthread`s | `search` spawns, scans, joins, merges | the answer does not depend on scheduling, an exception is neither lost nor turned into a short answer, no thread outlives the call |
| `CudaSearchBackend` | `entries_`, the shared `gpu_index_`, `indexed_count_`, `index_mutex_` | `add`, `search`, `build_index`, in two storage modes | a kernel sees exactly the stored vectors; device memory is bounded and given back; a failure frees what it took and the mutex |
| device resources in `cuda_runtime.cu` | `DeviceScope::previous_`, the handles of `Buffer` and `Event` | `device_info`, `cuda_scores`, `cuda_build_index`, `cuda_persistent_scores`, `~CudaIndex` | what is taken is released once, on its own device; the caller's device comes back; a cleanup that fails is not passed off as a result |
| CUDA kernels | sums in shared memory | one block scores one row | no data race, matching barriers, one order of summation |
| `VectorIndex` persistence | a file, and the locals of `save`/`load` | `save`, `load` | `load` returns an index that was saved, or throws; no size computed from a damaged header wraps around |
| ranking (`better_result`, `retain_top_k`, bounded queue) | none | comparison, Top-K, push-and-drop | equals the first k of the full order |
| AVX2 kernel | the loops' index | `avx2_cosine_similarity` | each component is added once, nothing is read beyond the end |
| Python bindings | the copy of an argument | `add`, `search`, `copy_vector` under the GIL | to Python's threads each call is one step, whatever sequences do while they are copied |
| similarity, CPU detection | none | floating point | not modelled |
| benchmarks, examples, build files | none of their own | | not modelled |

How they interact: `VectorIndex` owns one `SearchBackend` and forwards to it;
`load` replays records through its `add`. The CUDA engine calls
`cuda_runtime.cu` through `cuda_runtime_bridge.h` and shares matrices with it by
`shared_ptr`. Concurrency exists in four places: workers of one multithreaded
search, readers of one CUDA engine, lanes of one block, Python threads that
take turns with the GIL. The headers exclude
`add()` from every other operation on the same object; the bindings rely on the GIL for that.
Two processes can meet at a file.

The hard behaviours, each with its line in `PROJECT.json` "hazards": a throw
from any allocation half way through an insertion; repeated pruning of link
lists; readers racing to rebuild a shared matrix that failed builds and
insertions have made stale; a thread that cannot be created while others run;
barriers that not all lanes reach; cleanups that fail, in the middle of other cleanups;
Python code that runs, and switches threads, while its argument is copied; files that are prefixes, mixtures or damaged;
integers of a damaged header.

## The modules

```
Ranking ── RankingProofs
   │
VectorStore  (the abstract store)
   ▲ INSTANCE, as ImplementsStore
   ├── HnswIndex ────── HnswIndexProofs         MCHnswIndex
   ├── ParallelSearch ─ ParallelSearchProofs    MCParallelSearch
   ├── CudaBackend ──── CudaBackendProofs       MCCudaBackend
   └── PythonBindings ─ PythonBindingsProofs    MCPythonBindings
LevelSampler ────────── HnswIndexProofs
DeviceCalls ─────────── DeviceCallsProofs
Persistence ─────────── PersistenceProofs       MCPersistence
BlockReduction ──────── KernelProofs            MCBlockReduction
Avx2Kernel ──────────── KernelProofs
NanRanking
```

The proofs about the four engines also use `RankingProofs`. A module on the right extends its model.
`HnswIndexProofs` extends `HnswIndex` and `LevelSampler`, whose names are disjoint; `KernelProofs` has `Avx2Kernel` as an instance.

**Ranking.** Results and candidates are ordered by score, then by ID
(`ranks_before`, and the comparison of `Candidate` in `hnsw_index.cpp`). `Best(k, S)` is
the Top-K of a set: those with fewer than k better ones. `PushBounded` is the
push-and-pop of a bounded priority queue. Scores are integers.

**VectorStore.** What each engine promises its caller, as a state machine: every
call is one step. `Answer` returns `min(k, size)` distinct stored IDs with their
scores, and the exact Top-K if the breadth of the query reaches the size of the
store. Exact engines have the full breadth; `HnswIndex` has `ef`. It is also the
model of `VectorStore` and `ScalarSearchBackend`, which are
one thread and one step.

**HnswIndex.** `hnsw_index.cpp`. `BeginAdd` draws the level from the copied
generator and appends the node; `Approach`/`Descend` are `greedy()` on each upper
layer; `BeginLayer`, `Expand` and `Visit` are `search_layer()`, whose two heaps are
the sets `pending` and `nearest`; `Link` selects neighbours (`SelectNeighbors`,
`Relinked`), fills the new node's list and stages the lists that link back; `Commit` is
everything from `emplace()` on, which cannot fail half way, because the
remaining swaps and assignments are `noexcept`. `FailAdd` and `FailSearch` can
happen before each of those steps. A list of links is the set of its members; the order of iteration
is left open, which allows more than any one order. The diversity walk of
`select_neighbors()` is stated declaratively (the one set `D` in which every member is
diverse against the better members). The same module has the function as the code writes it, the sort and the two loops round
by round (`BestFirst`, `Walk`, `Backfill`, `SelectByLoops`); a run compares the two and a theorem shows them equal.

**ParallelSearch.** `multithreaded_scalar_search_backend.cpp`, whose text the AVX2
variant shares. The caller creates workers in order (`Spawn`), scans part 0 itself
(`ScanOwnPart`), joins, rethrows (`Rethrow`) or merges (`Merge`). Each `Worker` scores
its entries one by one, publishes its slot, or stores an exception. `SpawnFails` leads to
`Unwind`, the destruction of the `jthread`s during stack unwinding. `add()` is two steps, since
`emplace()` can throw after `push_back()`.

**CudaBackend.** `cuda_search_backend.cpp` with the parts of `cuda_runtime.cu` that own
matrices. Readers take the mutex (`Lock`), compare counts (`Current`), reuse or rebuild
(`Allocate`, `Upload`, `Publish`, `SetCount`), let the mutex go and query (`Kernel`,
`Rank`). `DropUnreferenced` is the reference counting of `shared_ptr`. `ReaderFails`
is a throw of any device or host operation.

**Persistence.** `vector_index.cpp`: `save()` as a sequence of buffered writes of which
the disk holds a prefix, `load()` as its checks and reads in the order of the
code, and between them crashes, lost bytes, an appended byte and a damaged field. Integers have
a `Word` of 2^7 in place of 2^64 and every product is taken modulo `Word`. The file
is a function from offsets to fields, each of a kind and a size; a read at an offset where no field of that kind
and size starts decodes to anything. `SizesAssumption` says of the constants that one ID at most is empty
(an ID is its bytes) and that the bytes of the largest file, and one more, can be counted in a `Word`.

**BlockReduction.** `block_cosine_similarity_kernel` for one row: `Accumulate`, `Publish`, then stages of
`Load`/`Add` or `SitOut` between barriers (`Arrive`, `Cross`), then `Finish`. A sum is the
sequence of the dimensions added so far, so a different order is a different
value, as in floating point. Shared memory starts as garbage.

**LevelSampler.** `sample_level()` and what `add()` does with the generator: a copy (`next`)
draws words, rejects those below `Threshold`, climbs while a word is divisible by M, and is
stored back by `StoreCopy` only, which `DropCopy`, the throw, leaves out. The words a seed yields are unknown but fixed:
a word that is drawn again after a failed insertion is the same.
`HnswIndex` starts where this module ends, with a level for each stored node.

**DeviceCalls.** The five functions of `cuda_runtime.cu` that hold device resources, as
the list of objects each constructs (`Objects`) and closes (`Closes`). `Construct`, `Work`, `Close` and
`Destroy` each succeed or fail; `due` are the objects that still have something to
release, `allocated` what exists on the device, and the history variables `home` and `lost` remember
where the call began and what CUDA refused. `device_info()` and `~CudaIndex()` swallow
their exceptions (`End`). Readers that share matrices are `CudaBackend`'s subject, where each of these calls is one or two steps.

**PythonBindings.** Threads that call `add` and `search` of one `VectorIndex`. `copy_vector()`
either copies a buffer at once or checks a sequence's length, asks for it again, and
converts item by item; in the stages where Python code runs, the thread may lose the GIL (`Release`). What runs there is any other thread's next call.
Behind it are the two halves of `AVX2SearchBackend::add()` and its `search()`.

**Avx2Kernel.** The loop over groups of eight and the loop over the rest, in 64-bit
unsigned arithmetic, as a count of how often each component was added.

**NanRanking.** `ScalarSearchBackend::search()` for two results with NaN among the scores: IEEE
comparison, and the heap of two elements in libstdc++'s `partial_sort`. It exists for the finding below.

Definitions introduced by a comment that begins with "Mutant" are not part of a
specification: each is a plausible mistake in the definition that follows, and substituting it must
violate the property named in `PROJECT.json` "mutants".

## The runs

| run | question | instance |
|---|---|---|
| `hnsw_calls` | Does the index implement the store, whatever call comes next and wherever it throws? Does a throw leave graph, ID map and generator alone? Do the queues hold exactly the best visited nodes? Does every call end? | 3 IDs, 3 vectors (two directions and zero), 2 layers, k in {0, 2}, breadths 0, 1, 3 |
| `hnsw_build` | Do chain, caps and full searches survive when lists are pruned, and pruned again? | 7 nodes, one layer, M = 2 |
| `hnsw_layers` | Do entry point and links stay in range when layers appear and lists of upper layers are pruned? Is the declarative selection what the loops compute, for every set of candidates? | 4 nodes, every assignment of 2 levels, M = 2 |
| `level_sampler` | Is promotion unbiased, and are the levels a function of the seed? | words of 3 bits, M in {2, 3, 4}, cap 2, 3 nodes, 4 words |
| `parallel_search` | Exact Top-K under every interleaving and failure, no thread outliving its search, every call ending | 3 threads, up to 4 entries, every order of IDs |
| `cuda_backend` | Is the engine an exact store in both modes, is comparing counts enough, is every kernel's matrix live, memory bounded and returned? Does a reader that holds the mutex, or waits for nobody, end, and the mutex come free? | 2 readers, 2 entries, 3 matrices |
| `device_calls` | Wherever a call or its cleanup fails: is everything released once, on its device, and the caller's device restored? | 3 devices, 2 matrices, every function |
| `python_bindings` | Is the index one exact store to its Python threads? | 2 threads, 2 entries of dimension 2, sequences of up to 3 items |
| `persistence` | Does `load()` only ever return what was saved? | 1 record, 2 vectors, a cut at every byte |
| `persistence_records` | Does the size arithmetic hold at its limits; are intact files accepted? | 2 records, damage to 0, 1, 2, 3, 15, 127, cuts at six lengths |
| `block_reduction` | Is the reduction free of races, deterministic and complete, and does it end? | 8 lanes, dimensions 3, 8, 9 |
| `nan_ranking` | Does an exact search order by descending score when some scores are NaN? It does not. | 3 or 4 entries, three numbers and NaN |

All but the last pass. The last one is a disagreement with the repository's README, which says that
"searches exhaustively score all vectors and order results by descending cosine score"
(README.md:124) and that NaN is rejected by CUDA only, "existing CPU behavior is unchanged"
(README.md:128). With scores 1, NaN, 2 a search for two returns 1 and NaN and
leaves out 2: NaN is neither better nor worse than anything, so it stays on top of the heap and hides what
is below. `std::partial_sort` requires a strict weak order and promises nothing without; the model follows libstdc++.

Why the bounds suffice:

* M = 2 is the least that the constructor accepts and the worst case: the base
  cap is 4, and the two required neighbours are half of it. A base list overflows for the first time
  at six nodes and, the same list, for the second time at seven; with four nodes of level 1 an upper list does. That no
  number of further prunings matters is left to the theorems. Which direction the vectors
  point in matters only through the comparisons of scores; `Three` has a tie of everything with zero,
  `Fan` has a candidate between two others, so that diversity prunes.
* IDs only decide ties. `hnsw_calls` and `parallel_search` try every order of IDs; the larger
  HNSW runs restrict exploration to ascending and descending orders (`AscendingOrDescending`).
* Three threads and up to four entries give fewer entries than threads, an even
  division and a remainder. Two readers are the reader that builds and the one that finds the
  mutex taken or the index replaced. Three matrices are one more than may exist at a time in `Persistent` mode, so that a third
  one would be seen; in `PerQuery` mode the readers are at most as many as the matrices.
* A word of 3 bits has M that divide it and one that does not, so that words are rejected; four words
  are a rejection and the levels of three nodes.
* With three devices the caller's device is the library's, another, or a third; two matrices are one
  that is destroyed and one that is not. Calls of one thread follow one another, so their lengths are the bound.
* Two Python threads are one within a call and one that interferes; sequences are shorter than, as long as,
  and longer than the dimension. The threads are symmetric.
* One field or one length is damaged at a time. The CRC-32 is taken to be injective, so
  that what passes the checksum is what was written; real collisions are not modelled.
  A `Word` of 128 is small enough for every product in `load()` to wrap if a check were missing.
* Eight lanes have three stages; a dimension below, equal to and above the size of the
  block gives idle lanes, one dimension each, and a second round. (The code uses 256 lanes.)

`CHECK_DEADLOCK FALSE` is set for `block_reduction`, where the kernel ends (that it does
not hang before is `RowIsScored`), and for `level_sampler`, which stops at its bounds.

**Bounds in the guards.** `Capacity` (entries, nodes or matrices), `TopLevel` and `Cap` (32 in the code),
`MaxDraws` (words of the generator), `MaxLength` (of a Python sequence), `MaxSize` (entries), `Matrices`, `Saves` (different indexes saved), `Cuts` (lengths of partial files).

**Fairness.** HNSW: `WF(Step)`, a call runs on its caller's thread and does not
stop; `Step` does not include failures, so no call is owed an exception. `ParallelSearch`:
weak fairness of the caller and of each worker, as the operating system runs each
started thread. `CudaBackend`: weak fairness of each reader's step. Since
`std::mutex` promises no waiter its turn, no fairness of acquisition is assumed and
`CallsEnd` claims nothing for a reader in stage `lock`. `BlockReduction`: weak fairness of each lane,
as the warps of a resident block are all scheduled. New calls are never owed.

## The proofs

Every theorem holds for all values of the constants that satisfy the modules' named assumptions,
which TLC evaluates in each run. A module about a component has an inductive invariant, often in named parts, a lemma for each action that says the action preserves it, and theorems that
draw the conclusions.

**RankingProofs** proves facts about `Best`, `Nearest`, `Farthest` and `PushBounded` for every finite set of
candidates that the order makes total (`Rankable`): the extremes exist, `Best(k, S)` has
min(k, |S|) members, inserting with push-and-drop yields the best of the larger set
(`PushBoundedIsBest`, `BestRejects`), and merging the best of parts is the best of the
union (`BestOfParts`). The proofs about the engines rest on them.

**HnswIndexProofs**, for any `Ids`, `Vectors`, table of scores, `M >= 2`,
`EfConstruction >= M`, levels and capacity (`DataAssumption`, `ConfigAssumption`):

* `TypeCorrect`, `BaseLayerChained` (`Chained`), `LinksStayInRange` (`LinksInRange` and `WalkInRange`),
  `EntryStaysOnTop`, `IdsStayIndexed`, `SeedDeterminesLevels`: from `Inductive`, that `IInv` always holds.
  None of them is inductive by itself. That links stay in range needs to know where the walk stands, that what
  is staged is in range and repeats nothing, and that pruning keeps the chain. `IInv` therefore joins
  `NodesInv`, `IndexInv`, `TopInv`, `LinksInv`, `Chained` (the graph), `CallInv` (the arguments and what was computed from them),
  `StagedInv` (what is staged at each stage of `add()`; for the base layer, that the predecessor's staged list has the
  new node) and `StageInv`, `QueueInv`, `PlaceInv` (each stage's locals: every node in them is stored and has the layer).
* `OnlyInsertionsChangeGraph`: an action property. Whatever is not `Commit` leaves each complete node as it is.
* `QueueHoldsBest` (`NearestIsBest`): adds `RankInv`, that the breadth of a running call is not zero, without which rejecting a
  candidate from a "full" queue could lose it; the step is `PushBoundedIsBest` when a candidate is pushed and `BestRejects` when it is not.
* `BaseSearchesFillUp`: a search that ends has found `min(ef, size)` nodes. `FillInv` says that as long as the queue is
  not full, each visited node is still pending, or all its links have been or are being visited; so when nothing is pending,
  the visited nodes are closed under links, and the chain leads to all of them (`ChainConnects`).
* `ImplementsVectorStore`: each step of the index is a step of `VectorStore` or a stutter. `SearchInv` relates the breadth to the arguments;
  `CommitAdds` shows that `Commit` is the abstract insertion, `AnswerAnswers` that a finished search is an abstract answer:
  `min(k, size)` distinct IDs by `BaseSearchesFillUp`, the exact Top-K if the breadth reaches the size.
* `DegreesStayCapped` and `OneWayLinksLeadToFullLists`: `CapInv` bounds the lists that are stored and those that are staged; `BackInv` says
  that what is staged is the old list with the new node or a list at its cap. They need
  how many neighbours `select_neighbors()` returns (`SelectionSize`), and hence that the set its model chooses
  exists and is unique: `DiversifiedIsGreedy`, by adding and removing one candidate at a time.
* `SelectionIsItsLoops` (`SelectionIsWhatTheLoopsDo`): for every set of stored nodes around a node and any limit from M to 2M, the
  declarative selection is what the sort and the two loops return. A loop is a recursive function over its rounds. That it has a run
  (`RunExists`), and that an invariant of its rounds holds at its end (`RoundInduction`), follows from the least round at which
  it would not: `LeastExists` needs no operator as a parameter. `WalkKeeps` is the invariant of the first loop: what is selected are the required
  nodes and the diverse ones among the candidates met so far, and unless the list is full, the rest is pruned, best first. `BackfillFills` is that of the second:
  the list has grown by the first n of these, or by as many as there was room for.
* `PromotionIsUnbiased` (`PromotionIsOneInM` of `LevelSampler`), for every word size and every M that the constructor accepts,
  by a bijection between the rounds of residues of M and the words that promote; and `LevelsAreTyped`.
* `LevelsAreSpelled` (`LevelsSpellTheStream`): the words behind `random_` fall into one segment for each stored node, in order, and each segment
  is one draw of the node's level. `SpellInv` says the same of the words between `random_` and its copy while a level is in the making; a failed insertion leaves
  the segments alone and the next one starts behind them again.

**ParallelSearchProofs**, for any number of threads, entries and results: `TypeCorrect`, `ScansEndWithTheirSearch`
(`NoScanOutlivesItsSearch`), `ImplementsVectorStore`. The invariant is `StoreOK` (the map and the entries agree, but for the half of an
insertion), `CallerOK` and `ThreadsOK` (which threads exist, and which have ended, at each stage of the caller) and `ScansOK` (a scan has
the best of what it has scored of its own part). `PartsMeet` and `PartsCover` show that the parts are adjacent and are all the entries,
whatever the division leaves over; `BestOfParts` turns the merge into the exact Top-K (`MergedIsExact`).

**CudaBackendProofs**, for any number of readers, entries and matrices, and both modes: `TypeCorrect`, `KernelsSeeEntries`,
`DeviceMemoryIsFreed` (`NothingLeaks`), `ImplementsVectorStore`. The invariant: the mutex is held by exactly
the reader that is within `acquire_index()` (`ReadersOK`); the matrix under construction is its builder's alone (`PointersOK`); what is allocated is
referenced (`SharedOK`); the shared matrix has as many rows as its count says, and they are the first entries, except between `Publish` and
`SetCount`, when the mutex is held (`ContentsOK`). Since entries never change, a count that equals the size is enough.

**PythonBindingsProofs**, for any number of threads and entries, any components and dimension: `TypeCorrect` and
`ImplementsVectorStore`. Its invariant adds two facts to the types: the ID map and the complete entries describe
the same store (`Consistent`), and who is between `push_back()` and `emplace()` has the GIL (`HalfInsertionHasGIL`).
`ScanIsExact` shows that a scan under the GIL is what the abstract store scores.

**DeviceCallsProofs**, for any devices and any number of matrices: `TypeCorrect`, `NothingForgotten`, `DeviceSelected`, `CleanEnds`.
The invariant relates the part of the call that runs to the objects that are constructed and closed: what is due is constructed and not
closed yet, while anything is allocated the device scope has not been closed, and a matrix that is left to its `Buffer` has
a destructor whose scope threw.

**PersistenceProofs**, for any IDs and lengths, dimension, word size, number of entries and of saves: `TypeCorrect`, `LoadsOnlySaved`
(`LoadedIsSaved`), `IntactFilesAreLoaded`, `RecordsFit`. A `Layout` says that a file has an index's header and first n records, at
which offsets. `SaveInv` says that while `save()` writes, the file is a layout of what it has written (`Writing`), that a pristine file is
whole (`PristineInv`), and that every checksum anywhere was computed from the layout of a saved index (`FileInv`). On the side of
`load()`, `RoomInv` is `RecordsFitFile` made inductive, with `RequiredIsExact` as the step where no product wraps around; `ParseInv` says
that whichever layout agrees with the fields taken in so far has the reader's place and records. It speaks of every layout, because which
one it was is only known when the checksum has been compared; and so no induction over the file is needed.
`UndisturbedInv` says that of an undisturbed file nothing was missed.

**KernelProofs**, for any block size that `BlockSizeAssumption` allows and any dimension: `TypeCorrect`, `RacesAreExcluded`
(`NoDataRace`), `BarriersAgree` (`BarriersMatch`) and `OneOrderOfAddition` (`ScoreIsDeterministic`) of `BlockReduction`. `PairInv` says that a lane is at most one barrier ahead of any
other, only while it waits there, and that the number of arrivals fixes the stride.
`ScoreIsDeterministic` says that the score is the list of all dimensions in one order, `InOrder`. `Before` states that order without recursion: of two dimensions
in one lane's share the smaller comes first, and otherwise the one that belongs to the lower lane at the stage where the two shares are added. The order is linear because
the strides of a block size without odd divisors are a chain. `OrderInv` adds to the barriers' invariant what is in each list: a lane's share so far (`ShareInv`), a slot's lanes
at its stage, in order (`SlotInv`), what a lane has read and not added (`StageInv`), and that the score, once written, is lane 0's (`ScoreInv`). And `KernelIsComplete` of `Avx2Kernel`, for every `size_t`: up to the index
every component was added once, from there on none (`Avx2Inv`), and the subtraction in the first loop's condition does not wrap around
(`NoWrap`). No run checks the latter, since TLC's integers are too narrow for the word.

Only model-checked, and why:

* `RowIsScored` and the three `CallsEnd` (`HnswIndex`, `ParallelSearch`, `CudaBackend`): liveness, which this prover does not treat.
* `LevelSampler`, `NanRanking` and `DeviceCalls` have no refinement: they promise nothing that the abstract store knows. `DescendingScores` of `NanRanking` is
  violated, and so there is nothing to prove.

## Not modelled

* **Floating point.** Scores are integers from a table; a model cannot tell whether
  AVX2, FP32 accumulation and scalar code agree. Outside `NanRanking` scores are numbers. `std::sort`
  of NaN scores, when everything stored is wanted, is undefined and has no model.
* **CPU detection** (`avx2_support.cpp`) and the **CUDA stub**: constant answers and constant exceptions.
* **Concurrent HNSW searches**: they only read, so one at a time shows everything.
* **Naive kernels**: they have one thread for each row and share nothing.
* **What a kernel still reads when its buffers are freed.** After a failure between launch and
  synchronisation the destructors free buffers while the kernel may run. This relies on `cudaFree()` waiting for the
  device, which is CUDA's promise, not this code's.
* **A device that cannot be selected.** `cuda_runtime.cu:233` says that a matrix is always
  released on its owning device. If `~CudaIndex()` cannot select device 0, its `Buffer` is
  freed with whatever device is current. `UsedOnOwnDevice` makes this exception, `WithoutScope`, and no other for
  `~CudaIndex()`: a destructor that frees without having tried to select the device violates it.
* **References from `get()`**: their lifetime is left to the caller.
* **Bindings**: the choice of a backend by name, `available_backends()`, and `save`/`load`, which forward to `VectorIndex`
  with the GIL held (`Persistence` has what they do).
* **Benchmarks, diagnostics, examples, build files**: no state of their own. `audit()` in the diagnostics names graph
  invariants that `HnswIndex` states as properties.

## Plan

Written, in this order: `Ranking`, `VectorStore`, `HnswIndex`, `ParallelSearch`, `CudaBackend`, `Persistence`, `BlockReduction`,
`LevelSampler`, `DeviceCalls`, `PythonBindings`, `Avx2Kernel` and `NanRanking`; then the proofs, as above. To come:

1. `LevelSampler`: that a failed insertion draws the same words again, as an action property of its own.
2. `HnswIndexProofs`: `LinkStep` and `CommitStep` rest on one lemma each about the effect of the step; the lemmas of the degrees repeat some of it.
3. `ParallelSearch`, `CudaBackend` and `BlockReduction`: liveness stays with TLC until a prover treats `ENABLED`.
