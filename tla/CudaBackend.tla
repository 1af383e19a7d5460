---------------------------- MODULE CudaBackend ----------------------------
(***************************************************************************)
(* CudaSearchBackend: an exact store on the host whose searches score a    *)
(* copy of the vectors in device memory.  The copy (gpu_index_) is shared  *)
(* by concurrent readers, built lazily under a mutex and replaced after    *)
(* insertions; in PerQuery mode every search uploads a copy of its own.    *)
(*                                                                         *)
(* add() is excluded by the callers while any reader is active.  Readers   *)
(* run concurrently; every device or host allocation, copy and launch may  *)
(* throw, which releases the mutex and every shared_ptr the reader holds.  *)
(***************************************************************************)
EXTENDS Ranking

CONSTANTS
    Ids, Vectors, Cosine,   \* as in VectorStore
    Counts,                 \* the result counts callers ask for
    Readers,                \* the threads that search or build the index
    Matrices,               \* bound of the model: names for device matrices
    Nothing,                \* the null shared_ptr
    Capacity                \* bound of the model: the number of entries

ASSUME DataAssumption ==
    /\ Ids \subseteq Int
    /\ Cosine \in [Vectors \X Vectors -> Int]
    /\ Counts \subseteq Nat
ASSUME CacheAssumption ==
    /\ Nothing \notin Matrices
    /\ Nothing \notin Readers
    /\ Capacity \in Nat

VARIABLES
    mode,           \* mode_
    entries,        \* entries_
    size,           \* entries_.size()
    index,          \* index_by_id_
    adding,         \* whether an add() has pushed but not emplaced
    mutex,          \* index_mutex_: the reader that holds it
    gpuIndex,       \* gpu_index_
    indexedCount,   \* indexed_count_
    device,         \* the allocated matrices and the rows they hold
    pc,             \* where each reader is
    call,           \* what each reader was called for
    replacement,    \* the matrix each reader is building
    snapshot,       \* the matrix each reader's query uses
    scores,         \* the scores each reader has copied back
    reply           \* what the last call to end returned or threw

store == <<entries, size, index, adding>>
cache == <<gpuIndex, indexedCount>>
vars  == <<mode, store, mutex, cache, device, pc, call,
           replacement, snapshot, scores, reply>>

API == INSTANCE VectorStore WITH
           Breadths <- 0..Capacity,
           items    <- [i \in DOMAIN index |-> entries[index[i]].vector]

NoCall == [op |-> "none"]
NoRows == [e \in {} |-> {}]

\* What the vectors look like flattened into one matrix.
Rows == [e \in 0..(size - 1) |-> entries[e].vector]

Active == {r \in Readers : pc[r] # "idle"}

----------------------------------------------------------------------------
Init ==
    /\ mode \in {"Persistent", "PerQuery"}
    /\ entries = NoRows
    /\ size = 0
    /\ index = [i \in {} |-> 0]
    /\ adding = FALSE
    /\ mutex = Nothing
    /\ gpuIndex = Nothing
    /\ indexedCount = 0
    /\ device = [m \in {} |-> NoRows]
    /\ pc = [r \in Readers |-> "idle"]
    /\ call = [r \in Readers |-> NoCall]
    /\ replacement = [r \in Readers |-> Nothing]
    /\ snapshot = [r \in Readers |-> Nothing]
    /\ scores = [r \in Readers |-> NoRows]
    /\ reply = API!NoReply

(* add(), when no reader is active *)

Refuse(r) ==
    /\ ~ adding
    /\ reply' = r
    /\ UNCHANGED <<mode, store, mutex, cache, device, pc, call,
                   replacement, snapshot, scores>>

\* A wrong dimension or a component that is not finite, in add() or search().
RefuseInvalid == Refuse(API!Invalid)

RefuseDuplicate(i) == Active = {} /\ i \in DOMAIN index /\ Refuse(API!Duplicate(i))

PushEntry(i, v) ==
    /\ Active = {} /\ ~ adding
    /\ size < Capacity
    /\ i \notin DOMAIN index
    /\ entries' = [e \in 0..size |-> IF e = size THEN [id |-> i, vector |-> v] ELSE entries[e]]
    /\ size' = size + 1
    /\ adding' = TRUE
    /\ reply' = API!NoReply
    /\ UNCHANGED <<mode, index, mutex, cache, device, pc, call,
                   replacement, snapshot, scores>>

EmplaceId ==
    /\ adding
    /\ LET i == entries[size - 1].id
       IN  /\ index' = [j \in DOMAIN index \cup {i} |-> IF j = i THEN size - 1 ELSE index[j]]
           /\ reply' = API!Stored(i)
    /\ adding' = FALSE
    /\ UNCHANGED <<mode, entries, size, mutex, cache, device, pc, call,
                   replacement, snapshot, scores>>

\* Mutant: emplace() throws and the entry stays.
EmplaceFailsKeepsEntry ==
    /\ adding
    /\ adding' = FALSE
    /\ reply' = API!Failed
    /\ UNCHANGED <<mode, entries, size, index, mutex, cache, device, pc, call,
                   replacement, snapshot, scores>>

\* emplace() throws: the entry is popped again.
EmplaceFails ==
    /\ adding
    /\ entries' = [e \in 0..(size - 2) |-> entries[e]]
    /\ size' = size - 1
    /\ adding' = FALSE
    /\ reply' = API!Failed
    /\ UNCHANGED <<mode, index, mutex, cache, device, pc, call,
                   replacement, snapshot, scores>>

----------------------------------------------------------------------------
(* The start of a reader's call *)

SearchNothing(q, k) ==
    /\ k = 0 \/ size = 0
    /\ Refuse(API!Found(q, k, size, {}))

Enter(r, c, stage) ==
    /\ pc[r] = "idle" /\ ~ adding
    /\ pc' = [pc EXCEPT ![r] = stage]
    /\ call' = [call EXCEPT ![r] = c]
    /\ reply' = API!NoReply
    /\ UNCHANGED <<mode, store, mutex, cache, device, replacement, snapshot, scores>>

\* Mutant: a search for no results goes on to the device.
BeginSearchForNothing(r, q, k) ==
    /\ size > 0
    /\ Enter(r, [op |-> "search", query |-> q, count |-> k],
             IF mode = "Persistent" THEN "lock" ELSE "allocate")

BeginSearch(r, q, k) ==
    /\ k > 0 /\ size > 0
    /\ Enter(r, [op |-> "search", query |-> q, count |-> k],
             IF mode = "Persistent" THEN "lock" ELSE "allocate")

\* build_index() builds the index ahead of the first search.
BeginBuild(r) == Enter(r, [op |-> "build"], "lock")

----------------------------------------------------------------------------
(* shared_ptr: a matrix is freed with the last pointer to it. *)

Pointers == {gpuIndex} \cup {replacement[r] : r \in Readers} \cup {snapshot[r] : r \in Readers}

\* Mutant: plain pointers, nothing is freed.
DropNothing == device' = device

DropUnreferenced == device' = [m \in DOMAIN device \cap Pointers' |-> device[m]]

\* Reader r leaves its function, normally or by an exception: its locals are
\* destroyed, a lock_guard among them if it is in acquire_index().  The mutant
\* calls lock() and unlock() itself, and an exception skips the unlock().
LeaveLocked(r, result) ==
    /\ pc' = [pc EXCEPT ![r] = "idle"]
    /\ call' = [call EXCEPT ![r] = NoCall]
    /\ replacement' = [replacement EXCEPT ![r] = Nothing]
    /\ snapshot' = [snapshot EXCEPT ![r] = Nothing]
    /\ scores' = [scores EXCEPT ![r] = NoRows]
    /\ reply' = result
    /\ UNCHANGED <<mode, store, mutex, cache>>
    /\ DropUnreferenced

Leave(r, result) ==
    /\ mutex' = IF mutex = r THEN Nothing ELSE mutex
    /\ pc' = [pc EXCEPT ![r] = "idle"]
    /\ call' = [call EXCEPT ![r] = NoCall]
    /\ replacement' = [replacement EXCEPT ![r] = Nothing]
    /\ snapshot' = [snapshot EXCEPT ![r] = Nothing]
    /\ scores' = [scores EXCEPT ![r] = NoRows]
    /\ reply' = result
    /\ UNCHANGED <<mode, store, cache>>
    /\ DropUnreferenced

----------------------------------------------------------------------------
(* acquire_index() *)

Lock(r) ==
    /\ pc[r] = "lock"
    /\ mutex = Nothing
    /\ mutex' = r
    /\ pc' = [pc EXCEPT ![r] = "check"]
    /\ UNCHANGED <<mode, store, cache, device, call, replacement, snapshot, scores, reply>>

\* Mutant: an index that is there is taken as current.
CurrentOnceBuilt == gpuIndex # Nothing

Current == gpuIndex # Nothing /\ indexedCount = size

\* There is nothing to build; only build_index() comes here.
NothingToBuild(r) ==
    /\ pc[r] = "check"
    /\ size = 0 \/ mode = "PerQuery"
    /\ Leave(r, API!NoReply)

\* acquire_index() returns the shared index and gives up the mutex.
HandOut(r) ==
    /\ mutex' = Nothing
    /\ IF call[r].op = "search"
       THEN /\ snapshot' = [snapshot EXCEPT ![r] = gpuIndex]
            /\ pc' = [pc EXCEPT ![r] = "kernel"]
            /\ UNCHANGED <<call, reply>>
       ELSE /\ pc' = [pc EXCEPT ![r] = "idle"]
            /\ call' = [call EXCEPT ![r] = NoCall]
            /\ reply' = API!NoReply
            /\ UNCHANGED snapshot
    /\ UNCHANGED <<mode, store, gpuIndex, device, replacement, scores>>

Reuse(r) ==
    /\ pc[r] = "check"
    /\ size > 0 /\ mode = "Persistent" /\ Current
    /\ UNCHANGED indexedCount
    /\ HandOut(r)

Rebuild(r) ==
    /\ pc[r] = "check"
    /\ size > 0 /\ mode = "Persistent" /\ ~ Current
    /\ pc' = [pc EXCEPT ![r] = "allocate"]
    /\ UNCHANGED <<mode, store, mutex, cache, device, call,
                   replacement, snapshot, scores, reply>>

\* cuda_build_index(), and cuda_scores() in PerQuery mode: a matrix of the
\* current size is allocated, its contents undefined ...
Allocate(r) ==
    /\ pc[r] = "allocate"
    /\ \E m \in Matrices \ DOMAIN device :
          /\ device' = [n \in DOMAIN device \cup {m} |-> IF n = m THEN NoRows ELSE device[n]]
          /\ replacement' = [replacement EXCEPT ![r] = m]
    /\ pc' = [pc EXCEPT ![r] = "upload"]
    /\ UNCHANGED <<mode, store, mutex, cache, call, snapshot, scores, reply>>

\* ... and then filled from the host.
Upload(r) ==
    /\ pc[r] = "upload"
    /\ device' = [device EXCEPT ![replacement[r]] = Rows]
    /\ IF mode = "Persistent"
       THEN /\ pc' = [pc EXCEPT ![r] = "publish"]
            /\ UNCHANGED <<replacement, snapshot>>
       ELSE /\ pc' = [pc EXCEPT ![r] = "kernel"]
            /\ snapshot' = [snapshot EXCEPT ![r] = replacement[r]]
            /\ replacement' = [replacement EXCEPT ![r] = Nothing]
    /\ UNCHANGED <<mode, store, mutex, cache, call, scores, reply>>

Publish(r) ==
    /\ pc[r] = "publish"
    /\ gpuIndex' = replacement[r]
    /\ replacement' = [replacement EXCEPT ![r] = Nothing]
    /\ pc' = [pc EXCEPT ![r] = "count"]
    /\ UNCHANGED <<mode, store, mutex, indexedCount, call, snapshot, scores, reply>>
    /\ DropUnreferenced

SetCount(r) ==
    /\ pc[r] = "count"
    /\ indexedCount' = size
    /\ HandOut(r)

----------------------------------------------------------------------------
(* The query on the device, and the ranking on the host *)

\* The kernel scores every row; the scores are copied back and the query's
\* pointer to the matrix is dropped.
Kernel(r) ==
    /\ pc[r] = "kernel"
    /\ LET rows == device[snapshot[r]]
       IN  scores' = [scores EXCEPT ![r] = [e \in DOMAIN rows |-> Cosine[<<call[r].query, rows[e]>>]]]
    /\ snapshot' = [snapshot EXCEPT ![r] = Nothing]
    /\ pc' = [pc EXCEPT ![r] = "rank"]
    /\ UNCHANGED <<mode, store, mutex, cache, call, replacement, reply>>
    /\ DropUnreferenced

\* The host pairs score number e with entry number e.
Rank(r) ==
    /\ pc[r] = "rank"
    /\ LET all == {Candidate(entries[e].id, scores[r][e]) : e \in 0..(size - 1)}
           c   == call[r]
       IN  Leave(r, API!Found(c.query, c.count, size, Best(Lesser(c.count, size), all)))

\* A host or device operation of a reader throws.  Between taking the mutex
\* and the decision, and from the publication on, nothing can.
ReaderFails(r) ==
    /\ pc[r] \in {"allocate", "upload", "kernel", "rank"}
    /\ Leave(r, API!Failed)

----------------------------------------------------------------------------
ReaderStep(r) ==
    \/ Lock(r) \/ NothingToBuild(r) \/ Reuse(r) \/ Rebuild(r)
    \/ Allocate(r) \/ Upload(r) \/ Publish(r) \/ SetCount(r)
    \/ Kernel(r) \/ Rank(r) \/ ReaderFails(r)

Next ==
    \/ RefuseInvalid
    \/ \E i \in Ids : RefuseDuplicate(i)
    \/ \E i \in Ids, v \in Vectors : PushEntry(i, v)
    \/ EmplaceId \/ EmplaceFails
    \/ \E q \in Vectors, k \in Counts : SearchNothing(q, k)
    \/ \E r \in Readers, q \in Vectors, k \in Counts : BeginSearch(r, q, k)
    \/ \E r \in Readers : BeginBuild(r) \/ ReaderStep(r)

Spec == Init /\ [][Next]_vars

\* A reader's thread does not stop.  That it gets the mutex in the end is not
\* assumed: std::mutex does not promise it to any one of the waiting threads.
FairSpec == Spec /\ \A r \in Readers : WF_vars(ReaderStep(r))

----------------------------------------------------------------------------
(* Properties *)

Complete == IF adding THEN size - 1 ELSE size
Persistent == mode = "Persistent"

TypeOK ==
    /\ mode \in {"Persistent", "PerQuery"}
    /\ size \in 0..Capacity
    /\ entries \in [0..(size - 1) -> [id : Ids, vector : Vectors]]
    /\ DOMAIN index \subseteq Ids
    /\ \A i \in DOMAIN index : index[i] \in 0..(Complete - 1)
    /\ adding \in BOOLEAN /\ (adding => size > 0)
    /\ mutex \in Readers \cup {Nothing}
    /\ gpuIndex \in Matrices \cup {Nothing}
    /\ indexedCount \in 0..Capacity
    /\ DOMAIN device \subseteq Matrices
    /\ \A m \in DOMAIN device : \E n \in 0..Capacity : device[m] \in [0..(n - 1) -> Vectors]
    /\ pc \in [Readers -> {"idle", "lock", "check", "allocate", "upload",
                           "publish", "count", "kernel", "rank"}]
    /\ call \in [Readers -> [op : {"search"}, query : Vectors, count : Nat \ {0}]
                              \cup [op : {"build"}] \cup {NoCall}]
    /\ replacement \in [Readers -> Matrices \cup {Nothing}]
    /\ snapshot \in [Readers -> Matrices \cup {Nothing}]
    /\ \A r \in Readers : \E n \in 0..Capacity : scores[r] \in [0..(n - 1) -> Int]

\* A kernel runs on an allocated matrix that holds exactly the vectors stored
\* now: never on one from before an insertion, on one half filled, or on one
\* that another reader's replacement has freed.
KernelSeesEntries ==
    \A r \in Readers : pc[r] = "kernel" =>
        snapshot[r] \in DOMAIN device /\ device[snapshot[r]] = Rows

\* Between calls the device holds the shared matrix and nothing else; during
\* calls a rebuild needs room for the old and the new one, and for no third
\* however many readers there are.
NothingLeaks ==
    /\ Active = {} => DOMAIN device = {gpuIndex} \ {Nothing}
    /\ Persistent => Cardinality(DOMAIN device) <= 2

\* The backend is an exact vector store to every one of its readers.
ImplementsStore == API!Spec

\* A reader that waits for nobody, or has obtained the mutex, ends its call,
\* and the mutex is free again for the others, whatever fails.
CallsEnd ==
    /\ \A r \in Readers : pc[r] \notin {"idle", "lock"} ~> pc[r] = "idle"
    /\ mutex # Nothing ~> mutex = Nothing
=============================================================================
