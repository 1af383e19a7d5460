--------------------------- MODULE ParallelSearch ---------------------------
(***************************************************************************)
(* MultithreadedScalarSearchBackend: an exact store whose search splits    *)
(* the entries into contiguous parts, scans each part on a thread of its   *)
(* own, and merges the parts' best results.  The AVX2 multithreaded        *)
(* backend has the same structure around another kernel.                   *)
(*                                                                         *)
(* The caller's thread spawns workers 1, 2, ..., scans part 0 itself, and  *)
(* joins the workers when the vector of jthreads goes out of scope, also   *)
(* when spawning threw.  Every push_back and every spawn may throw.  add() *)
(* is excluded from searches by the callers; two overlapping searches have *)
(* separate frames and only read the store, so one at a time is modelled.  *)
(***************************************************************************)
EXTENDS Ranking

CONSTANTS
    Ids, Vectors, Cosine,   \* as in VectorStore
    Counts,                 \* the result counts callers ask for
    ThreadCount,            \* thread_count_
    Capacity                \* bound of the model: the number of entries

ASSUME DataAssumption ==
    /\ Ids \subseteq Int
    /\ Cosine \in [Vectors \X Vectors -> Int]
    /\ Counts \subseteq Nat
ASSUME ThreadsAssumption ==
    /\ ThreadCount \in Nat \ {0}
    /\ Capacity \in Nat

Threads == 0..(ThreadCount - 1)

VARIABLES
    entries,    \* entries_
    size,       \* entries_.size()
    index,      \* index_by_id_
    pc,         \* where the caller's thread is
    call,       \* the arguments of the running search
    thread,     \* the state of each worker's scan
    next,       \* the entry each scan comes to next
    scanned,    \* the results each scan has collected
    slots,      \* local_results
    errors,     \* errors: who has stored an exception
    reply       \* what the last call returned or threw

store == <<entries, size, index>>
scans == <<thread, next, scanned, slots, errors>>
vars  == <<store, pc, call, scans, reply>>

API == INSTANCE VectorStore WITH
           Breadths <- 0..Capacity,
           items    <- [i \in DOMAIN index |-> entries[index[i]].vector]

NoCall == [query |-> {}, count |-> 0, workers |-> 0]

----------------------------------------------------------------------------
(* How the entries are divided among the workers *)

Begin(w, workers, n) == w * (n \div workers) + Lesser(w, n % workers)
End(w, workers, n) ==
    Begin(w, workers, n) + n \div workers + (IF w < n % workers THEN 1 ELSE 0)

Part(w) == Begin(w, call.workers, size)..(End(w, call.workers, size) - 1)

Workers == 0..(call.workers - 1)
Wanted == Lesser(call.count, size)

Scored(q, e) == Candidate(entries[e].id, Cosine[<<q, entries[e].vector>>])
ScoredAll(q, E) == {Scored(q, e) : e \in E}

----------------------------------------------------------------------------
Init ==
    /\ entries = [e \in {} |-> {}]
    /\ size = 0
    /\ index = [i \in {} |-> 0]
    /\ pc = "idle"
    /\ call = NoCall
    /\ thread = [w \in Threads |-> "none"]
    /\ next = [w \in Threads |-> 0]
    /\ scanned = [w \in Threads |-> {}]
    /\ slots = [w \in Threads |-> {}]
    /\ errors = {}
    /\ reply = API!NoReply

(* add() *)

Refuse(r) ==
    /\ pc = "idle"
    /\ reply' = r
    /\ UNCHANGED <<store, pc, call, scans>>

\* The wrong dimension, in add() or search().
RefuseInvalid == Refuse(API!Invalid)

RefuseDuplicate(i) == i \in DOMAIN index /\ Refuse(API!Duplicate(i))

PushEntry(i, v) ==
    /\ pc = "idle"
    /\ size < Capacity
    /\ i \notin DOMAIN index
    /\ entries' = [e \in 0..size |-> IF e = size THEN [id |-> i, vector |-> v] ELSE entries[e]]
    /\ size' = size + 1
    /\ pc' = "add"
    /\ reply' = API!NoReply
    /\ UNCHANGED <<index, call, scans>>

EmplaceId ==
    /\ pc = "add"
    /\ LET i == entries[size - 1].id
       IN  /\ index' = [j \in DOMAIN index \cup {i} |-> IF j = i THEN size - 1 ELSE index[j]]
           /\ reply' = API!Stored(i)
    /\ pc' = "idle"
    /\ UNCHANGED <<entries, size, call, scans>>

\* emplace() throws: the entry is popped again.
EmplaceFails ==
    /\ pc = "add"
    /\ entries' = [e \in 0..(size - 2) |-> entries[e]]
    /\ size' = size - 1
    /\ pc' = "idle"
    /\ reply' = API!Failed
    /\ UNCHANGED <<index, call, scans>>

----------------------------------------------------------------------------
(* search(), on the caller's thread *)

SearchNothing(q, k) ==
    /\ k = 0 \/ size = 0
    /\ Refuse(API!Found(q, k, size, {}))

\* Mutant: one worker per thread, whether or not there is an entry for it.
WorkersWantedUnclipped == ThreadCount

WorkersWanted == Lesser(ThreadCount, size)

BeginSearch(q, k) ==
    /\ pc = "idle"
    /\ k > 0 /\ size > 0
    /\ call' = [query |-> q, count |-> k, workers |-> WorkersWanted]
    /\ pc' = "spawn"
    /\ thread' = [w \in Threads |-> "none"]
    /\ reply' = API!NoReply
    /\ UNCHANGED <<store, next, scanned, slots, errors>>

\* scan(w) starts on a thread, with locals of its own.
Launch(w) ==
    /\ thread' = [thread EXCEPT ![w] = "scanning"]
    /\ next' = [next EXCEPT ![w] = Begin(w, call.workers, size)]
    /\ UNCHANGED scanned

\* The threads are created in order, beginning with worker 1.
Unspawned == {w \in Workers \ {0} : thread[w] = "none"}
NextToSpawn == CHOOSE w \in Unspawned : \A u \in Unspawned : w <= u

Spawn ==
    /\ pc = "spawn"
    /\ Unspawned # {}
    /\ Launch(NextToSpawn)
    /\ UNCHANGED <<store, pc, call, slots, errors, reply>>

ScanOwnPart ==
    /\ pc = "spawn"
    /\ Unspawned = {}
    /\ Launch(0)
    /\ pc' = "scan"
    /\ UNCHANGED <<store, call, slots, errors, reply>>

\* Allocating the vectors or creating a thread throws: unwinding joins the
\* threads that run already.
SpawnFails ==
    /\ pc = "spawn"
    /\ Unspawned # {} \/ call.workers = 1
    /\ pc' = "unwind"
    /\ UNCHANGED <<store, call, scans, reply>>

\* The caller's own scan is over; the block ends and the jthreads are joined.
EndBlock ==
    /\ pc = "scan"
    /\ thread[0] = "ended"
    /\ pc' = "join"
    /\ UNCHANGED <<store, call, scans, reply>>

Joined == \A w \in Workers : thread[w] # "scanning"

\* The frame of search() is gone, and with it the slots and the errors.
Return(r) ==
    /\ reply' = r
    /\ pc' = "idle"
    /\ call' = NoCall
    /\ slots' = [w \in Threads |-> {}]
    /\ errors' = {}
    /\ UNCHANGED <<store, thread, next, scanned>>

\* Mutant: std::thread objects that are detached when unwinding.
UnwindDetached == pc = "unwind" /\ Return(API!Failed)

Unwind ==
    /\ pc = "unwind"
    /\ Joined
    /\ Return(API!Failed)

Rethrow ==
    /\ pc = "join"
    /\ Joined
    /\ errors # {}
    /\ Return(API!Failed)

\* The only worker's results as they are, or the best of all workers' results.
Merged ==
    IF call.workers = 1 THEN slots[0]
    ELSE Best(Wanted, UNION {slots[w] : w \in Workers})

\* Mutant: the stored exceptions are not looked at.
MergeRegardless ==
    /\ pc = "join"
    /\ Joined
    /\ Return(API!Found(call.query, call.count, size, Merged))

Merge ==
    /\ pc = "join"
    /\ Joined
    /\ errors = {}
    /\ Return(API!Found(call.query, call.count, size, Merged))

\* Allocating the merged list throws.
MergeFails ==
    /\ pc = "join"
    /\ Joined
    /\ errors = {}
    /\ call.workers > 1
    /\ Return(API!Failed)

----------------------------------------------------------------------------
(* scan(w), on the thread of worker w *)

ScoreNext(w) ==
    /\ thread[w] = "scanning"
    /\ next[w] \in Part(w)
    /\ scanned' = [scanned EXCEPT ![w] = @ \cup {Scored(call.query, next[w])}]
    /\ next' = [next EXCEPT ![w] = @ + 1]
    /\ UNCHANGED <<store, pc, call, thread, slots, errors, reply>>

\* scan(w) is over and its locals are gone.
EndScan(w) ==
    /\ thread' = [thread EXCEPT ![w] = "ended"]
    /\ next' = [next EXCEPT ![w] = 0]
    /\ scanned' = [scanned EXCEPT ![w] = {}]

Publish(w) ==
    /\ thread[w] = "scanning"
    /\ next[w] \notin Part(w)
    /\ slots' = [slots EXCEPT ![w] = Best(Wanted, scanned[w])]
    /\ EndScan(w)
    /\ UNCHANGED <<store, pc, call, errors, reply>>

\* Mutant: a worker that runs out of memory starts its part again.
ScanRetries(w) ==
    /\ thread[w] = "scanning"
    /\ next' = [next EXCEPT ![w] = Begin(w, call.workers, size)]
    /\ scanned' = [scanned EXCEPT ![w] = {}]
    /\ UNCHANGED <<store, pc, call, thread, slots, errors, reply>>

\* An allocation throws and the worker stores the exception.
ScanFails(w) ==
    /\ thread[w] = "scanning"
    /\ errors' = errors \cup {w}
    /\ EndScan(w)
    /\ UNCHANGED <<store, pc, call, slots, reply>>

----------------------------------------------------------------------------
Caller ==
    \/ EmplaceId \/ EmplaceFails
    \/ Spawn \/ ScanOwnPart \/ SpawnFails \/ EndBlock
    \/ Unwind \/ Rethrow \/ Merge \/ MergeFails

Worker(w) == ScoreNext(w) \/ Publish(w) \/ ScanFails(w)

Next ==
    \/ RefuseInvalid
    \/ \E i \in Ids : RefuseDuplicate(i)
    \/ \E i \in Ids, v \in Vectors : PushEntry(i, v)
    \/ \E q \in Vectors, k \in Counts : SearchNothing(q, k) \/ BeginSearch(q, k)
    \/ Caller
    \/ \E w \in Threads : Worker(w)

Spec == Init /\ [][Next]_vars

\* The operating system runs every started thread; new calls are not owed.
FairSpec == Spec /\ WF_vars(Caller) /\ \A w \in Threads : WF_vars(Worker(w))

----------------------------------------------------------------------------
(* Properties *)

Complete == IF pc = "add" THEN size - 1 ELSE size

TypeOK ==
    /\ size \in 0..Capacity
    /\ entries \in [0..(size - 1) -> [id : Ids, vector : Vectors]]
    /\ DOMAIN index \subseteq Ids
    /\ \A i \in DOMAIN index : index[i] \in 0..(Complete - 1)
    /\ pc \in {"idle", "add", "spawn", "scan", "unwind", "join"}
    /\ pc = "add" => size > 0
    /\ IF pc \in {"idle", "add"} THEN call = NoCall
       ELSE /\ call \in [query : Vectors, count : Nat \ {0}, workers : Nat \ {0}]
            /\ size > 0
            /\ call.workers = Lesser(ThreadCount, size)
    /\ thread \in [Threads -> {"none", "scanning", "ended"}]
    /\ next \in [Threads -> 0..Capacity]
    /\ scanned \in [Threads -> SUBSET [id : Ids, score : Int]]
    /\ slots \in [Threads -> SUBSET [id : Ids, score : Int]]
    /\ errors \subseteq Threads

\* A thread never outlives the frame whose slots, query and store it uses: no
\* scan runs after search() has returned or thrown, and none during an add().
NoScanOutlivesItsSearch ==
    pc \in {"idle", "add"} => \A w \in Threads : thread[w] # "scanning"

\* The backend is an exact vector store, whatever order the threads run in
\* and whatever throws: the parts hold each entry once, and errors of workers
\* are never lost in a shorter answer.
ImplementsStore == API!Spec

\* Every call returns or throws: nobody waits for a thread that never ends.
CallsEnd == pc # "idle" ~> pc = "idle"
=============================================================================
