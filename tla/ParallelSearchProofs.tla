------------------------- MODULE ParallelSearchProofs -------------------------
(***************************************************************************)
(* That a search split among threads is exact, for any number of threads,  *)
(* entries and results: the parts are the entries, each once; no scan      *)
(* outlives the frame it works for; and whatever throws, a call is one     *)
(* step of an exact vector store.                                          *)
(***************************************************************************)
EXTENDS ParallelSearch, RankingProofs

\* The map and the complete entries describe the same store.
StoreOK ==
    /\ size \in 0..Capacity
    /\ entries \in [0..(size - 1) -> [id : Ids, vector : Vectors]]
    /\ DOMAIN index \subseteq Ids
    /\ \A i \in DOMAIN index : index[i] \in 0..(Complete - 1) /\ entries[index[i]].id = i
    /\ \A e \in 0..(Complete - 1) : entries[e].id \in DOMAIN index /\ index[entries[e].id] = e
    /\ pc = "add" => size > 0 /\ entries[size - 1].id \notin DOMAIN index

Searching == pc \in {"spawn", "scan", "unwind", "join"}

\* What the caller's thread is doing, and for whom.
CallerOK ==
    /\ pc \in {"idle", "add"} \/ Searching
    /\ ~ Searching => call = NoCall
    /\ Searching =>
          /\ call \in [query : Vectors, count : Nat \ {0}, workers : Nat \ {0}]
          /\ call.count \in Counts
          /\ size > 0
          /\ call.workers = WorkersWanted

\* Which threads run: none outside a search, the caller's own part only after
\* all others were started, and all of them when the results are looked at.
ThreadsOK ==
    /\ thread \in [Threads -> {"none", "scanning", "ended"}]
    /\ errors \subseteq Threads
    /\ \A w \in Threads : thread[w] = "scanning" => Searching /\ w \in Workers
    /\ pc = "spawn" => thread[0] = "none"
    /\ pc \in {"scan", "join"} => \A w \in Workers : thread[w] # "none"
    /\ pc = "join" => thread[0] = "ended"

First(w) == Begin(w, call.workers, size)
Last(w) == End(w, call.workers, size)

\* What a running scan has seen of its part, and what an ended one has left.
ScansOK ==
    /\ next \in [Threads -> 0..Capacity]
    /\ scanned \in [Threads -> SUBSET [id : Ids, score : Int]]
    /\ slots \in [Threads -> SUBSET [id : Ids, score : Int]]
    /\ \A w \in Threads : thread[w] # "scanning" => scanned[w] = {}
    /\ \A w \in Threads : thread[w] = "scanning" =>
          /\ next[w] \in First(w)..Last(w)
          /\ scanned[w] = ScoredAll(call.query, First(w)..(next[w] - 1))
    /\ \A w \in Threads : Searching /\ thread[w] = "ended" /\ w \notin errors =>
          slots[w] = Best(Wanted, ScoredAll(call.query, Part(w)))

IInv == StoreOK /\ CallerOK /\ ThreadsOK /\ ScansOK

----------------------------------------------------------------------------
(* The parts *)

\* The division that the parts are made with.
LEMMA Division ==
    ASSUME NEW n \in Nat, NEW k \in Nat \ {0}
    PROVE  /\ n \div k \in Nat /\ n % k \in 0..(k - 1)
           /\ n = k * (n \div k) + (n % k)
  BY Z3

\* A part begins where the one before it ends; the first begins at the first
\* entry, the last ends at the last.
LEMMA PartsMeet ==
    ASSUME NEW n \in Nat, NEW k \in Nat \ {0}
    PROVE  /\ Begin(0, k, n) = 0
           /\ End(k - 1, k, n) = n
           /\ \A w \in 0..(k - 1) : Begin(w + 1, k, n) = End(w, k, n)
<1> DEFINE d == n \div k
           r == n % k
<1>1. d \in Nat /\ r \in 0..(k - 1) /\ n = k * d + r
  BY Division
<1>2. \A w \in Int : Begin(w, k, n) = w * d + Lesser(w, r)
  BY DEF Begin
<1>3. \A w \in Int : End(w, k, n) = w * d + Lesser(w, r) + d + (IF w < r THEN 1 ELSE 0)
  BY DEF Begin, End
<1> HIDE DEF d, r
<1>4. \A w \in Int : (w + 1) * d = w * d + d
  BY <1>1
<1>5. Begin(0, k, n) = 0
  BY <1>1, <1>2 DEF Lesser
<1>6. End(k - 1, k, n) = n
  <2>1. (k - 1) * d + d = k * d
    BY <1>1, <1>4
  <2>2. ~ (k - 1 < r) /\ Lesser(k - 1, r) = r /\ k - 1 \in Int
    BY <1>1 DEF Lesser
  <2>3. End(k - 1, k, n) = (k - 1) * d + r + d + 0
    BY <1>3, <2>2
  <2>4. (k - 1) * d \in Int /\ k * d \in Int
    BY <1>1
  <2> QED
    BY <1>1, <2>1, <2>3, <2>4
<1>7. ASSUME NEW w \in 0..(k - 1) PROVE Begin(w + 1, k, n) = End(w, k, n)
  <2>1. /\ Lesser(w + 1, r) = Lesser(w, r) + (IF w < r THEN 1 ELSE 0)
        /\ Lesser(w, r) \in Int /\ (IF w < r THEN 1 ELSE 0) \in Int
    BY <1>1 DEF Lesser
  <2>2. Begin(w + 1, k, n) = w * d + d + Lesser(w + 1, r)
    BY <1>2, <1>4
  <2>3. End(w, k, n) = w * d + Lesser(w, r) + d + (IF w < r THEN 1 ELSE 0)
    BY <1>3
  <2>4. w * d \in Int /\ d \in Int
    BY <1>1
  <2> HIDE <1>2, <1>3
  <2> QED
    BY <2>1, <2>2, <2>3, <2>4
<1> QED
  BY <1>5, <1>6, <1>7

\* Every part is within the entries.
LEMMA PartBounds ==
    ASSUME NEW n \in Nat, NEW k \in Nat \ {0}, NEW w \in 0..(k - 1)
    PROVE  /\ Begin(w, k, n) \in 0..n /\ End(w, k, n) \in 0..n
           /\ Begin(w, k, n) <= End(w, k, n)
<1> DEFINE d == n \div k
           r == n % k
<1>1. d \in Nat /\ r \in 0..(k - 1) /\ n = k * d + r
  BY Division
<1>2. Begin(w, k, n) = w * d + Lesser(w, r)
  BY DEF Begin
<1>3. End(w, k, n) = w * d + Lesser(w, r) + d + (IF w < r THEN 1 ELSE 0)
  BY DEF Begin, End
<1> HIDE DEF d, r
<1>4. w * d \in Nat
  BY <1>1
<1>5. w * d + d <= k * d
  <2>1. w * d + d = (w + 1) * d
    BY <1>1
  <2>2. (k - (w + 1)) * d \in Nat
    BY <1>1
  <2>3. (k - (w + 1)) * d = k * d - (w + 1) * d
    BY <1>1
  <2>4. k * d \in Nat /\ (w + 1) * d \in Nat
    BY <1>1
  <2> QED
    BY <2>1, <2>2, <2>3, <2>4
<1>6. k * d \in Nat
  BY <1>1
<1> QED
  BY <1>1, <1>2, <1>3, <1>4, <1>5, <1>6 DEF Lesser

\* Every entry is in a part.
LEMMA PartsCover ==
    ASSUME NEW n \in Nat, NEW k \in Nat \ {0}, NEW e \in 0..(n - 1)
    PROVE  \E w \in 0..(k - 1) : e \in Begin(w, k, n)..(End(w, k, n) - 1)
<1> DEFINE T == {w \in 0..(k - 1) : e < End(w, k, n)}
<1>1. T \subseteq Nat /\ k - 1 \in T
  BY PartsMeet
<1>2. PICK m \in T : \A w \in T : m <= w
  BY <1>1, LeastExists
<1>3. m \in 0..(k - 1) /\ e < End(m, k, n)
  BY <1>2
<1>4. Begin(m, k, n) <= e
  <2>1. CASE m = 0
    BY <2>1, PartsMeet
  <2>2. CASE m # 0
    <3>1. m - 1 \in 0..(k - 1) /\ m - 1 \notin T /\ (m - 1) + 1 = m
      BY <1>2, <1>3, <2>2
    <3>2. ~ (e < End(m - 1, k, n)) /\ Begin(m, k, n) = End(m - 1, k, n)
      BY <3>1, PartsMeet
    <3> QED
      BY <3>1, <3>2, PartBounds
  <2> QED
    BY <2>1, <2>2
<1> QED
  BY <1>3, <1>4, PartBounds
----------------------------------------------------------------------------
(* The invariant holds initially *)

LEMMA InitEstablishes == Init => IInv
<1> SUFFICES ASSUME Init PROVE IInv
  OBVIOUS
<1> USE DataAssumption, ThreadsAssumption DEF Init
<1>1. StoreOK
  <2> DEFINE none == [e \in {} |-> {}]
  <2>1. none \in [0..(0 - 1) -> [id : Ids, vector : Vectors]] /\ 0..(0 - 1) = {}
    OBVIOUS
  <2>2. size = 0 /\ entries = none /\ DOMAIN index = {} /\ Complete = 0 /\ pc = "idle"
    BY DEF Complete
  <2> HIDE DEF none
  <2>3. entries \in [0..(size - 1) -> [id : Ids, vector : Vectors]]
    BY <2>1, <2>2
  <2>4. size \in 0..Capacity /\ 0..(Complete - 1) = {}
    BY <2>2
  <2> QED
    BY <2>2, <2>3, <2>4 DEF StoreOK
<1>2. CallerOK
  BY DEF CallerOK, Searching
<1>3. ThreadsOK
  BY DEF ThreadsOK
<1>4. ScansOK
  BY DEF ScansOK, Searching
<1> QED
  BY <1>1, <1>2, <1>3, <1>4 DEF IInv

----------------------------------------------------------------------------
(* Steps of add() *)

AddStep == (\E i \in Ids, v \in Vectors : PushEntry(i, v)) \/ EmplaceId \/ EmplaceFails

LEMMA PushKeepsStore ==
    ASSUME StoreOK, NEW i \in Ids, NEW v \in Vectors, PushEntry(i, v)
    PROVE  StoreOK'
<1>1. /\ pc = "idle" /\ size < Capacity /\ i \notin DOMAIN index
      /\ entries' = [e \in 0..size |-> IF e = size THEN [id |-> i, vector |-> v] ELSE entries[e]]
      /\ size' = size + 1 /\ pc' = "add" /\ UNCHANGED index
  BY DEF PushEntry
<1>2. Complete = size /\ Complete' = size /\ size \in Nat /\ Capacity \in Nat /\ size' - 1 = size
  BY <1>1, ThreadsAssumption DEF StoreOK, Complete
<1>3. entries' \in [0..(size' - 1) -> [id : Ids, vector : Vectors]]
  BY <1>1, <1>2 DEF StoreOK
<1>4. \A e \in 0..(size - 1) : entries'[e] = entries[e]
  BY <1>1, <1>2
<1>5. entries'[size].id = i
  BY <1>1, <1>2
<1>6. \A j \in DOMAIN index : index[j] \in 0..(size - 1) /\ entries'[index[j]].id = j
  BY <1>2, <1>4 DEF StoreOK
<1>7. \A e \in 0..(size - 1) : entries'[e].id \in DOMAIN index /\ index[entries'[e].id] = e
  BY <1>2, <1>4 DEF StoreOK
<1> QED
  BY <1>1, <1>2, <1>3, <1>5, <1>6, <1>7 DEF StoreOK

LEMMA EmplaceKeepsStore ==
    ASSUME StoreOK, EmplaceId
    PROVE  StoreOK'
<1> DEFINE i == entries[size - 1].id
<1>1. /\ pc = "add" /\ pc' = "idle" /\ UNCHANGED <<entries, size>>
      /\ index' = [j \in DOMAIN index \cup {i} |-> IF j = i THEN size - 1 ELSE index[j]]
  BY DEF EmplaceId
<1>2. Complete = size - 1 /\ Complete' = size /\ size \in 1..Capacity /\ size \in Nat
  BY <1>1, ThreadsAssumption DEF StoreOK, Complete
<1>3. i \in Ids /\ i \notin DOMAIN index
  BY <1>1, <1>2 DEF StoreOK
<1>4. /\ DOMAIN index' = DOMAIN index \cup {i} /\ index'[i] = size - 1
      /\ \A j \in DOMAIN index : index'[j] = index[j]
  <2> HIDE DEF i
  <2> QED
    BY <1>1, <1>3
<1>5. \A j \in DOMAIN index : index[j] \in 0..(size - 2) /\ entries[index[j]].id = j
  BY <1>2 DEF StoreOK
<1>6. \A e \in 0..(size - 2) : entries[e].id \in DOMAIN index /\ index[entries[e].id] = e
  BY <1>2 DEF StoreOK
<1>7. \A e \in 0..(size - 1) : entries[e].id \in DOMAIN index' /\ index'[entries[e].id] = e
  <2>1. \A e \in 0..(size - 1) : e \in 0..(size - 2) \/ e = size - 1
    BY <1>2
  <2> QED
    BY <2>1, <1>4, <1>6
<1>8. \A j \in DOMAIN index' : index'[j] \in 0..(size - 1) /\ entries[index'[j]].id = j
  BY <1>2, <1>4, <1>5
<1> HIDE DEF i
<1> QED
  BY <1>1, <1>2, <1>3, <1>4, <1>7, <1>8 DEF StoreOK

LEMMA FailKeepsStore ==
    ASSUME StoreOK, EmplaceFails
    PROVE  StoreOK'
<1>1. /\ pc = "add" /\ pc' = "idle" /\ size' = size - 1 /\ UNCHANGED index
      /\ entries' = [e \in 0..(size - 2) |-> entries[e]]
  BY DEF EmplaceFails
<1>2. Complete = size - 1 /\ Complete' = size - 1 /\ size \in 1..Capacity /\ size' - 1 = size - 2
      /\ size' \in 0..Capacity
  BY <1>1, ThreadsAssumption DEF StoreOK, Complete
<1>3. \A e \in 0..(size - 2) : entries'[e] = entries[e] /\ entries[e] \in [id : Ids, vector : Vectors]
  BY <1>1, <1>2 DEF StoreOK
<1>4. entries' \in [0..(size' - 1) -> [id : Ids, vector : Vectors]]
  BY <1>1, <1>2, <1>3
<1>5. \A j \in DOMAIN index : index[j] \in 0..(size - 2) /\ entries'[index[j]].id = j
  BY <1>2, <1>3 DEF StoreOK
<1>6. \A e \in 0..(size - 2) : entries'[e].id \in DOMAIN index /\ index[entries'[e].id] = e
  BY <1>2, <1>3 DEF StoreOK
<1> QED
  BY <1>1, <1>2, <1>4, <1>5, <1>6 DEF StoreOK

\* An insertion finds no thread running, and leaves everything else alone.
LEMMA AddPreserves ==
    ASSUME IInv, AddStep
    PROVE  IInv'
<1>1. /\ pc \in {"idle", "add"} /\ pc' \in {"idle", "add"}
      /\ UNCHANGED <<call, thread, next, scanned, slots, errors>>
  BY DEF AddStep, PushEntry, EmplaceId, EmplaceFails, scans
<1>2. StoreOK'
  BY PushKeepsStore, EmplaceKeepsStore, FailKeepsStore DEF IInv, AddStep
<1>3. CallerOK' /\ ~ Searching /\ ~ Searching'
  BY <1>1 DEF IInv, CallerOK, Searching
<1>4. \A w \in Threads : thread[w] # "scanning"
  BY <1>3 DEF IInv, ThreadsOK
<1>5. ThreadsOK'
  BY <1>1, <1>4 DEF IInv, ThreadsOK
<1>6. ScansOK'
  BY <1>1, <1>3, <1>4 DEF IInv, ScansOK
<1> QED
  BY <1>2, <1>3, <1>5, <1>6 DEF IInv

----------------------------------------------------------------------------
(* Steps that leave the store alone *)

LEMMA StoreStays ==
    ASSUME StoreOK, UNCHANGED store, pc # "add", pc' # "add"
    PROVE  StoreOK' /\ UNCHANGED <<entries, size, index>>
  BY DEF store, StoreOK, Complete

\* A search has a worker per thread, but never more than there are entries.
LEMMA WorkersFacts ==
    ASSUME StoreOK, CallerOK, Searching
    PROVE  /\ call.workers \in Nat \ {0} /\ size \in Nat \ {0} /\ size <= Capacity
           /\ Workers \subseteq Threads /\ 0 \in Workers
           /\ \A w \in Workers : /\ First(w) \in 0..size /\ Last(w) \in 0..size
                                 /\ First(w) <= Last(w) /\ Part(w) = First(w)..(Last(w) - 1)
           /\ call.query \in Vectors /\ call.count \in Nat \ {0} /\ call.count \in Counts
<1>1. /\ call.workers \in Nat \ {0} /\ size \in 0..Capacity /\ size > 0 /\ Capacity \in Nat
      /\ call.workers = Lesser(ThreadCount, size) /\ ThreadCount \in Nat
      /\ call.query \in Vectors /\ call.count \in Nat \ {0} /\ call.count \in Counts
  BY ThreadsAssumption DEF StoreOK, CallerOK, WorkersWanted
<1>2. \A w \in Workers : First(w) \in 0..size /\ Last(w) \in 0..size /\ First(w) <= Last(w)
  BY <1>1, PartBounds DEF Workers, First, Last
<1>3. Workers \subseteq Threads /\ 0 \in Workers
  BY <1>1 DEF Workers, Threads, Lesser
<1> QED
  BY <1>1, <1>2, <1>3 DEF Part, First, Last

\* A score is a score whatever entry it is of.
LEMMA ScoredTyped ==
    ASSUME StoreOK, NEW q \in Vectors, NEW E \in SUBSET (0..(size - 1))
    PROVE  ScoredAll(q, E) \in SUBSET [id : Ids, score : Int]
<1>1. ASSUME NEW e \in E PROVE Scored(q, e) \in [id : Ids, score : Int]
  <2>1. entries[e].id \in Ids /\ entries[e].vector \in Vectors
    BY DEF StoreOK
  <2> QED
    BY <2>1, DataAssumption DEF Scored, Candidate
<1> QED
  BY <1>1 DEF ScoredAll

LEMMA BeginPreserves ==
    ASSUME IInv, NEW q \in Vectors, NEW k \in Counts, BeginSearch(q, k)
    PROVE  IInv'
<1>1. /\ pc = "idle" /\ pc' = "spawn" /\ k > 0 /\ size > 0
      /\ call' = [query |-> q, count |-> k, workers |-> WorkersWanted]
      /\ thread' = [w \in Threads |-> "none"]
      /\ UNCHANGED <<next, scanned, slots, errors>> /\ UNCHANGED store
  BY DEF BeginSearch
<1>2. StoreOK' /\ UNCHANGED <<entries, size, index>>
  BY <1>1, StoreStays DEF IInv
<1>3. CallerOK'
  <2>1. k \in Nat \ {0}
    BY <1>1, DataAssumption
  <2>2. WorkersWanted \in Nat \ {0} /\ WorkersWanted' = WorkersWanted
    BY <1>1, <1>2, ThreadsAssumption DEF IInv, StoreOK, WorkersWanted, Lesser
  <2> QED
    BY <1>1, <1>2, <2>1, <2>2 DEF CallerOK, Searching
<1>4. \A w \in Threads : thread[w] # "scanning"
  BY <1>1 DEF IInv, ThreadsOK, Searching
<1>5. \A w \in Threads : thread'[w] = "none"
  BY <1>1
<1>6. ThreadsOK'
  <2>1. 0 \in Threads
    BY ThreadsAssumption DEF Threads
  <2> QED
    BY <1>1, <1>5, <2>1 DEF IInv, ThreadsOK
<1>7. ScansOK'
  BY <1>1, <1>4, <1>5 DEF IInv, ScansOK
<1> QED
  BY <1>2, <1>3, <1>6, <1>7 DEF IInv

\* While store and arguments stay, so do the parts and their scores.
LEMMA ScansKept ==
    ASSUME UNCHANGED <<store, call>>,
           next' \in [Threads -> 0..Capacity],
           scanned' \in [Threads -> SUBSET [id : Ids, score : Int]],
           slots' \in [Threads -> SUBSET [id : Ids, score : Int]],
           \A w \in Threads : thread'[w] # "scanning" => scanned'[w] = {},
           \A w \in Threads : thread'[w] = "scanning" =>
               /\ next'[w] \in First(w)..Last(w)
               /\ scanned'[w] = ScoredAll(call.query, First(w)..(next'[w] - 1)),
           \A w \in Threads : Searching' /\ thread'[w] = "ended" /\ w \notin errors' =>
               slots'[w] = Best(Wanted, ScoredAll(call.query, Part(w)))
    PROVE  ScansOK'
<1>1. UNCHANGED <<entries, size, call>>
  BY DEF store
<1>2. \A w \in Threads : thread'[w] = "scanning" =>
         /\ next'[w] \in Begin(w, call'.workers, size')..End(w, call'.workers, size')
         /\ scanned'[w] = {Candidate(entries'[e].id, Cosine[<<call'.query, entries'[e].vector>>]) :
                              e \in Begin(w, call'.workers, size')..(next'[w] - 1)}
  BY <1>1 DEF First, Last, ScoredAll, Scored
<1>3. \A w \in Threads : Searching' /\ thread'[w] = "ended" /\ w \notin errors' =>
         slots'[w] = Best(Lesser(call'.count, size'),
              {Candidate(entries'[e].id, Cosine[<<call'.query, entries'[e].vector>>]) :
                  e \in Begin(w, call'.workers, size')..(End(w, call'.workers, size') - 1)})
  <2>1. Wanted = Lesser(call'.count, size')
    BY <1>1 DEF Wanted
  <2>2. \A w \in Threads : ScoredAll(call.query, Part(w)) =
          {Candidate(entries'[e].id, Cosine[<<call'.query, entries'[e].vector>>]) :
              e \in Begin(w, call'.workers, size')..(End(w, call'.workers, size') - 1)}
    BY <1>1 DEF Part, ScoredAll, Scored
  <2> QED
    BY <2>1, <2>2
<1> QED
  BY <1>2, <1>3 DEF ScansOK, First, Last, Part, Wanted, ScoredAll, Scored

\* A scan starts at the beginning of its part, with nothing collected.
LEMMA LaunchKeepsScans ==
    ASSUME IInv, NEW w \in Workers, Searching, thread[w] = "none", Launch(w),
           UNCHANGED <<store, call, slots, errors>>
    PROVE  ScansOK'
<1>1. /\ thread' = [thread EXCEPT ![w] = "scanning"]
      /\ next' = [next EXCEPT ![w] = First(w)]
      /\ UNCHANGED <<scanned, call, slots, errors, entries, size, index>>
  BY DEF Launch, store, First
<1>2. w \in Threads /\ First(w) \in 0..size /\ First(w) <= Last(w) /\ Last(w) \in 0..size
      /\ size \in Nat /\ size <= Capacity
  BY WorkersFacts DEF IInv
<1>3. /\ thread'[w] = "scanning" /\ next'[w] = First(w)
      /\ \A u \in Threads \ {w} : thread'[u] = thread[u] /\ next'[u] = next[u]
  BY <1>1, <1>2 DEF IInv, ThreadsOK, ScansOK
<1>4. next' \in [Threads -> 0..Capacity]
  BY <1>1, <1>2, ThreadsAssumption DEF IInv, ScansOK
<1>5. scanned[w] = {} /\ ScoredAll(call.query, First(w)..(First(w) - 1)) = {}
  BY <1>2 DEF IInv, ScansOK, ScoredAll
<1>6. \A u \in Threads : thread'[u] = "scanning" =>
         /\ next'[u] \in First(u)..Last(u)
         /\ scanned'[u] = ScoredAll(call.query, First(u)..(next'[u] - 1))
  <2>1. First(w) \in First(w)..Last(w)
    BY <1>2
  <2>2. ASSUME NEW u \in Threads \ {w}, thread'[u] = "scanning"
        PROVE  /\ next'[u] \in First(u)..Last(u)
               /\ scanned'[u] = ScoredAll(call.query, First(u)..(next'[u] - 1))
    BY <2>2, <1>1, <1>3 DEF IInv, ScansOK
  <2> QED
    BY <2>1, <2>2, <1>1, <1>3, <1>5
<1>7. \A u \in Threads : thread'[u] # "scanning" => scanned'[u] = {}
  BY <1>1, <1>3 DEF IInv, ScansOK
<1>8. /\ scanned' \in [Threads -> SUBSET [id : Ids, score : Int]]
      /\ slots' \in [Threads -> SUBSET [id : Ids, score : Int]]
      /\ \A u \in Threads : Searching' /\ thread'[u] = "ended" /\ u \notin errors' =>
            slots'[u] = Best(Wanted, ScoredAll(call.query, Part(u)))
  BY <1>1, <1>3 DEF IInv, ScansOK
<1> QED
  BY <1>1, <1>4, <1>6, <1>7, <1>8, ScansKept

LEMMA SpawnPreserves ==
    ASSUME IInv, Spawn
    PROVE  IInv'
<1> DEFINE w == NextToSpawn
<1>1. /\ pc = "spawn" /\ pc' = "spawn" /\ Unspawned # {} /\ Launch(w)
      /\ UNCHANGED <<call, slots, errors>> /\ UNCHANGED store
  BY DEF Spawn
<1>2. Searching /\ Searching' /\ Workers \subseteq Threads /\ Workers \subseteq Nat
  BY <1>1, WorkersFacts DEF IInv, Searching, Workers
<1>3. w \in Unspawned
  <2>1. \E m \in Unspawned : \A u \in Unspawned : m <= u
    BY <1>1, <1>2, LeastExists DEF Unspawned
  <2> QED
    BY <2>1 DEF NextToSpawn
<1> HIDE DEF w
<1>4. w \in Workers /\ w # 0 /\ thread[w] = "none" /\ w \in Threads
  BY <1>2, <1>3 DEF Unspawned
<1>5. StoreOK' /\ UNCHANGED <<entries, size, index>>
  BY <1>1, StoreStays DEF IInv
<1>6. CallerOK' /\ Workers' = Workers
  BY <1>1, <1>2, <1>5 DEF IInv, CallerOK, WorkersWanted, Workers
<1>7. thread' = [thread EXCEPT ![w] = "scanning"]
  BY <1>1 DEF Launch
<1>8. ThreadsOK'
  BY <1>1, <1>2, <1>4, <1>6, <1>7 DEF IInv, ThreadsOK
<1>9. ScansOK'
  BY <1>1, <1>2, <1>4, LaunchKeepsScans
<1> QED
  BY <1>5, <1>6, <1>8, <1>9 DEF IInv

LEMMA OwnPartPreserves ==
    ASSUME IInv, ScanOwnPart
    PROVE  IInv'
<1>1. /\ pc = "spawn" /\ pc' = "scan" /\ Unspawned = {} /\ Launch(0)
      /\ UNCHANGED <<call, slots, errors>> /\ UNCHANGED store
  BY DEF ScanOwnPart
<1>2. Searching /\ Searching' /\ Workers \subseteq Threads /\ 0 \in Workers
  BY <1>1, WorkersFacts DEF IInv, Searching
<1>3. thread[0] = "none" /\ \A w \in Workers \ {0} : thread[w] # "none"
  BY <1>1 DEF IInv, ThreadsOK, Unspawned
<1>4. StoreOK' /\ UNCHANGED <<entries, size, index>>
  BY <1>1, StoreStays DEF IInv
<1>5. CallerOK' /\ Workers' = Workers
  BY <1>1, <1>2, <1>4 DEF IInv, CallerOK, WorkersWanted, Workers
<1>6. thread' = [thread EXCEPT ![0] = "scanning"]
  BY <1>1 DEF Launch
<1>7. ThreadsOK'
  BY <1>1, <1>2, <1>3, <1>5, <1>6 DEF IInv, ThreadsOK
<1>8. ScansOK'
  BY <1>1, <1>2, <1>3, LaunchKeepsScans
<1> QED
  BY <1>4, <1>5, <1>7, <1>8 DEF IInv

\* The caller goes on to wait for the others, after its own part or because
\* it could not start them all.
LEMMA WaitPreserves ==
    ASSUME IInv, SpawnFails \/ EndBlock
    PROVE  IInv'
<1>1. /\ pc \in {"spawn", "scan"} /\ pc' \in {"unwind", "join"}
      /\ pc' = "join" => pc = "scan" /\ thread[0] = "ended"
      /\ UNCHANGED <<call, thread, next, scanned, slots, errors>> /\ UNCHANGED store
  BY DEF SpawnFails, EndBlock, scans
<1>2. StoreOK' /\ UNCHANGED <<entries, size, index>>
  BY <1>1, StoreStays DEF IInv
<1>3. Searching /\ Searching'
  BY <1>1 DEF Searching
<1>4. CallerOK' /\ Workers' = Workers
  BY <1>1, <1>2, <1>3 DEF IInv, CallerOK, WorkersWanted, Workers
<1>5. ThreadsOK'
  BY <1>1, <1>3, <1>4 DEF IInv, ThreadsOK
<1>6. ScansOK'
  BY <1>1, <1>3, ScansKept DEF IInv, ScansOK
<1> QED
  BY <1>2, <1>4, <1>5, <1>6 DEF IInv

\* search() is over for its caller when no thread runs any more.
LEMMA ReturnPreserves ==
    ASSUME IInv, pc \in {"unwind", "join"}, Joined, NEW r, Return(r)
    PROVE  IInv'
<1>1. /\ pc' = "idle" /\ call' = NoCall /\ errors' = {}
      /\ slots' = [w \in Threads |-> {}]
      /\ UNCHANGED <<thread, next, scanned>> /\ UNCHANGED store
  BY DEF Return
<1>2. StoreOK' /\ UNCHANGED <<entries, size, index>>
  BY <1>1, StoreStays DEF IInv
<1>3. ~ Searching' /\ CallerOK'
  BY <1>1 DEF CallerOK, Searching
<1>4. \A w \in Threads : thread[w] # "scanning"
  BY DEF IInv, ThreadsOK, Joined
<1>5. ThreadsOK'
  BY <1>1, <1>4 DEF IInv, ThreadsOK
<1>6. ScansOK'
  BY <1>1, <1>3, <1>4 DEF IInv, ScansOK
<1> QED
  BY <1>2, <1>3, <1>5, <1>6 DEF IInv

----------------------------------------------------------------------------
(* Steps of a scan *)

\* A step of a worker leaves its caller, and the other workers, alone.
LEMMA WorkerContext ==
    ASSUME IInv, NEW w \in Threads, Worker(w)
    PROVE  /\ thread[w] = "scanning" /\ Searching /\ Searching' /\ w \in Workers
           /\ UNCHANGED <<pc, call>> /\ UNCHANGED store
           /\ StoreOK' /\ CallerOK' /\ Workers' = Workers
<1>1. thread[w] = "scanning" /\ UNCHANGED <<pc, call>> /\ UNCHANGED store
  BY DEF Worker, ScoreNext, Publish, ScanFails
<1>2. Searching /\ Searching' /\ w \in Workers
  BY <1>1 DEF IInv, ThreadsOK, Searching
<1>3. StoreOK' /\ UNCHANGED <<entries, size, index>>
  BY <1>1, <1>2, StoreStays DEF IInv, Searching
<1>4. CallerOK' /\ Workers' = Workers
  BY <1>1, <1>3 DEF IInv, CallerOK, WorkersWanted, Searching, Workers
<1> QED
  BY <1>1, <1>2, <1>3, <1>4

LEMMA ScorePreserves ==
    ASSUME IInv, NEW w \in Threads, ScoreNext(w)
    PROVE  IInv'
<1> DEFINE q == call.query
<1>1. /\ thread[w] = "scanning" /\ Searching /\ Searching' /\ w \in Workers
      /\ UNCHANGED <<pc, call>> /\ UNCHANGED store
      /\ StoreOK' /\ CallerOK' /\ Workers' = Workers
  BY WorkerContext DEF Worker
<1>2. /\ next[w] \in Part(w)
      /\ scanned' = [scanned EXCEPT ![w] = @ \cup {Scored(q, next[w])}]
      /\ next' = [next EXCEPT ![w] = @ + 1]
      /\ UNCHANGED <<thread, slots, errors>>
  BY DEF ScoreNext
<1>3. ThreadsOK'
  BY <1>1, <1>2 DEF IInv, ThreadsOK
<1>4. /\ First(w) \in 0..size /\ Last(w) \in 0..size /\ next[w] \in First(w)..(Last(w) - 1)
      /\ size \in Nat /\ Capacity \in Nat /\ size <= Capacity
  BY <1>1, <1>2, WorkersFacts, ThreadsAssumption DEF IInv
<1>5. /\ next'[w] = next[w] + 1 /\ scanned'[w] = scanned[w] \cup {Scored(q, next[w])}
      /\ \A u \in Threads \ {w} : next'[u] = next[u] /\ scanned'[u] = scanned[u]
      /\ scanned' \in [Threads -> SUBSET [id : Ids, score : Int]]
  <2>1. Scored(q, next[w]) \in [id : Ids, score : Int]
    <3>1. next[w] \in 0..(size - 1) /\ q \in Vectors
      BY <1>1, <1>4, WorkersFacts DEF IInv
    <3>2. ScoredAll(q, {next[w]}) \in SUBSET [id : Ids, score : Int]
      BY <3>1, ScoredTyped DEF IInv
    <3> QED
      BY <3>2 DEF ScoredAll
  <2> QED
    BY <1>2, <2>1 DEF IInv, ScansOK
<1>6. next' \in [Threads -> 0..Capacity]
  BY <1>2, <1>4 DEF IInv, ScansOK
<1>7. next'[w] \in First(w)..Last(w) /\ scanned'[w] = ScoredAll(q, First(w)..(next'[w] - 1))
  <2>1. scanned[w] = ScoredAll(q, First(w)..(next[w] - 1))
    BY <1>1 DEF IInv, ScansOK
  <2>2. next'[w] \in First(w)..Last(w) /\ next'[w] - 1 = next[w]
    BY <1>4, <1>5
  <2>3. First(w)..next[w] = First(w)..(next[w] - 1) \cup {next[w]}
    BY <1>4
  <2>4. ScoredAll(q, First(w)..next[w])
          = ScoredAll(q, First(w)..(next[w] - 1)) \cup {Scored(q, next[w])}
    BY <2>3 DEF ScoredAll
  <2> QED
    BY <1>5, <2>1, <2>2, <2>4
<1>8. \A u \in Threads : thread'[u] = "scanning" =>
         /\ next'[u] \in First(u)..Last(u)
         /\ scanned'[u] = ScoredAll(q, First(u)..(next'[u] - 1))
  <2>1. ASSUME NEW u \in Threads \ {w}, thread'[u] = "scanning"
        PROVE  /\ next'[u] \in First(u)..Last(u)
               /\ scanned'[u] = ScoredAll(q, First(u)..(next'[u] - 1))
    BY <2>1, <1>2, <1>5 DEF IInv, ScansOK
  <2> QED
    BY <1>7, <2>1
<1>9. ScansOK'
  <2>1. \A u \in Threads : thread'[u] # "scanning" => scanned'[u] = {}
    BY <1>1, <1>2, <1>5 DEF IInv, ScansOK
  <2>2. /\ slots' \in [Threads -> SUBSET [id : Ids, score : Int]]
        /\ \A u \in Threads : Searching' /\ thread'[u] = "ended" /\ u \notin errors' =>
              slots'[u] = Best(Wanted, ScoredAll(q, Part(u)))
    BY <1>1, <1>2 DEF IInv, ScansOK
  <2> QED
    BY <2>1, <2>2, <1>1, <1>5, <1>6, <1>8, ScansKept
<1> QED
  BY <1>1, <1>3, <1>9 DEF IInv

\* A scan ends: with the best of its whole part, or with an exception.
LEMMA EndPreserves ==
    ASSUME IInv, NEW w \in Threads, Publish(w) \/ ScanFails(w)
    PROVE  IInv'
<1> DEFINE q == call.query
           best == Best(Wanted, ScoredAll(q, Part(w)))
<1>1. /\ thread[w] = "scanning" /\ Searching /\ Searching' /\ w \in Workers
      /\ UNCHANGED <<pc, call>> /\ UNCHANGED store
      /\ StoreOK' /\ CallerOK' /\ Workers' = Workers
  BY WorkerContext DEF Worker
<1>2. /\ thread' = [thread EXCEPT ![w] = "ended"]
      /\ next' = [next EXCEPT ![w] = 0]
      /\ scanned' = [scanned EXCEPT ![w] = {}]
  BY DEF Publish, ScanFails, EndScan
<1>3. /\ First(w) \in 0..size /\ Last(w) \in 0..size /\ Part(w) = First(w)..(Last(w) - 1)
      /\ q \in Vectors /\ size \in Nat
  BY <1>1, WorkersFacts DEF IInv
<1>4. \/ slots' = [slots EXCEPT ![w] = best] /\ errors' = errors
      \/ slots' = slots /\ errors' = errors \cup {w}
  <2>1. CASE Publish(w)
    <3>1. next[w] \notin Part(w) /\ slots' = [slots EXCEPT ![w] = Best(Wanted, scanned[w])]
          /\ errors' = errors
      BY <2>1 DEF Publish
    <3>2. /\ next[w] \in First(w)..Last(w)
          /\ scanned[w] = ScoredAll(q, First(w)..(next[w] - 1))
      BY <1>1 DEF IInv, ScansOK
    <3>3. next[w] = Last(w)
      BY <1>3, <3>1, <3>2
    <3> QED
      BY <1>3, <3>1, <3>2, <3>3
  <2>2. CASE ScanFails(w)
    BY <2>2 DEF ScanFails
  <2> QED
    BY <2>1, <2>2
<1>5. best \in SUBSET [id : Ids, score : Int]
  <2>1. Part(w) \in SUBSET (0..(size - 1))
    BY <1>3
  <2>2. ScoredAll(q, Part(w)) \in SUBSET [id : Ids, score : Int]
    BY <2>1, <1>3, ScoredTyped DEF IInv
  <2> QED
    BY <2>2, BestSubset
<1> HIDE DEF best
<1>6. ThreadsOK'
  <2>1. 0 \in Workers
    BY <1>1, WorkersFacts DEF IInv
  <2>2. \A u \in Threads : thread'[u] = IF u = w THEN "ended" ELSE thread[u]
    BY <1>2 DEF IInv, ThreadsOK
  <2>3. thread' \in [Threads -> {"none", "scanning", "ended"}] /\ errors' \subseteq Threads
    BY <1>2, <1>4 DEF IInv, ThreadsOK
  <2>4. 0 \in Threads /\ Workers \subseteq Threads
    BY <1>1, WorkersFacts DEF IInv
  <2> QED
    BY <1>1, <2>2, <2>3, <2>4 DEF IInv, ThreadsOK
<1>7. /\ next'[w] = 0 /\ scanned'[w] = {} /\ thread'[w] = "ended"
      /\ \A u \in Threads \ {w} : next'[u] = next[u] /\ scanned'[u] = scanned[u]
                                  /\ thread'[u] = thread[u] /\ slots'[u] = slots[u]
      /\ scanned' \in [Threads -> SUBSET [id : Ids, score : Int]]
      /\ slots' \in [Threads -> SUBSET [id : Ids, score : Int]]
  BY <1>2, <1>4, <1>5 DEF IInv, ScansOK, ThreadsOK
<1>8. next' \in [Threads -> 0..Capacity]
  BY <1>2, ThreadsAssumption DEF IInv, ScansOK
<1>9. /\ \A u \in Threads : thread'[u] # "scanning" => scanned'[u] = {}
      /\ \A u \in Threads : thread'[u] = "scanning" =>
            /\ next'[u] \in First(u)..Last(u)
            /\ scanned'[u] = ScoredAll(q, First(u)..(next'[u] - 1))
  BY <1>7 DEF IInv, ScansOK
<1>10. \A u \in Threads : Searching' /\ thread'[u] = "ended" /\ u \notin errors' =>
          slots'[u] = Best(Wanted, ScoredAll(q, Part(u)))
  <2>1. ASSUME NEW u \in Threads \ {w}
        PROVE  Searching' /\ thread'[u] = "ended" /\ u \notin errors' =>
                    slots'[u] = Best(Wanted, ScoredAll(q, Part(u)))
    BY <1>1, <1>4, <1>7 DEF IInv, ScansOK
  <2>2. w \notin errors' => slots'[w] = best
    BY <1>4, <1>5 DEF IInv, ScansOK
  <2> QED
    BY <2>1, <2>2 DEF best
<1>11. ScansOK'
  BY <1>1, <1>7, <1>8, <1>9, <1>10, ScansKept
<1> QED
  BY <1>1, <1>6, <1>11 DEF IInv

LEMMA Inductive == IInv /\ [Next]_vars => IInv'
<1> SUFFICES ASSUME IInv, [Next]_vars PROVE IInv'
  OBVIOUS
<1>1. CASE UNCHANGED <<store, pc, call, scans>>
  <2>1. UNCHANGED <<pc, call, thread, next, scanned, slots, errors>> /\ UNCHANGED store
    BY <1>1 DEF scans
  <2>2. UNCHANGED <<entries, size, index>>
    BY <2>1 DEF store
  <2>3. StoreOK' /\ CallerOK' /\ ThreadsOK'
    BY <2>1, <2>2 DEF IInv, StoreOK, Complete, CallerOK, Searching, WorkersWanted, ThreadsOK, Workers
  <2>4. ScansOK'
    BY <2>1, ScansKept DEF IInv, ScansOK, Searching
  <2> QED
    BY <2>3, <2>4 DEF IInv
<1>2. CASE \/ RefuseInvalid \/ \E i \in Ids : RefuseDuplicate(i)
           \/ \E q \in Vectors, k \in Counts : SearchNothing(q, k)
           \/ UNCHANGED vars
  BY <1>1, <1>2 DEF RefuseInvalid, RefuseDuplicate, SearchNothing, Refuse, vars
<1>3. CASE Unwind \/ Rethrow \/ Merge \/ MergeFails
  BY <1>3, ReturnPreserves DEF Unwind, Rethrow, Merge, MergeFails
<1>4. CASE Caller
  BY <1>3, <1>4, AddPreserves, SpawnPreserves, OwnPartPreserves, WaitPreserves DEF Caller, AddStep
<1>5. ASSUME NEW w \in Threads, Worker(w) PROVE IInv'
  BY <1>5, ScorePreserves, EndPreserves DEF Worker
<1> QED
  BY <1>2, <1>4, <1>5, AddPreserves, BeginPreserves DEF Next, AddStep

----------------------------------------------------------------------------
(* The invariants *)

\* The state of the store, the caller and every scan is well formed.
THEOREM TypeCorrect == Spec => []TypeOK
<1>1. ASSUME IInv PROVE TypeOK
  <2>1. /\ size \in 0..Capacity /\ entries \in [0..(size - 1) -> [id : Ids, vector : Vectors]]
        /\ DOMAIN index \subseteq Ids /\ \A i \in DOMAIN index : index[i] \in 0..(Complete - 1)
        /\ pc = "add" => size > 0
    BY <1>1 DEF IInv, StoreOK
  <2>2. /\ pc \in {"idle", "add", "spawn", "scan", "unwind", "join"}
        /\ IF pc \in {"idle", "add"} THEN call = NoCall
           ELSE /\ call \in [query : Vectors, count : Nat \ {0}, workers : Nat \ {0}]
                /\ size > 0
                /\ call.workers = Lesser(ThreadCount, size)
    BY <1>1 DEF IInv, CallerOK, Searching, WorkersWanted
  <2> QED
    BY <1>1, <2>1, <2>2 DEF IInv, ThreadsOK, ScansOK, TypeOK
<1> QED
  BY <1>1, InitEstablishes, Inductive, PTL DEF Spec

\* Whatever throws, no thread runs on when the frame whose slots, query and
\* store it uses is gone.
THEOREM ScansEndWithTheirSearch == Spec => []NoScanOutlivesItsSearch
<1>1. IInv => NoScanOutlivesItsSearch
  BY DEF IInv, ThreadsOK, Searching, NoScanOutlivesItsSearch
<1> QED
  BY <1>1, InitEstablishes, Inductive, PTL DEF Spec

----------------------------------------------------------------------------
(* The refinement *)

All(q) == ScoredAll(q, 0..(size - 1))

\* With no insertion half done, the entries are what the map says is stored.
LEMMA EntriesAreItems ==
    ASSUME StoreOK, pc # "add", NEW q \in Vectors
    PROVE  /\ All(q) = API!Scored(q)
           /\ Rankable(All(q)) /\ Cardinality(All(q)) = size
<1> DEFINE f == [e \in 0..(size - 1) |-> Candidate(entries[e].id, Cosine[<<q, entries[e].vector>>])]
<1>1. /\ \A e \in 0..(size - 1) : entries[e].id \in DOMAIN index /\ index[entries[e].id] = e
      /\ \A i \in DOMAIN index : index[i] \in 0..(size - 1) /\ entries[index[i]].id = i
      /\ size \in Nat
  BY ThreadsAssumption DEF StoreOK, Complete
<1>2. \A e \in 0..(size - 1) : entries[e].id \in Int /\ Cosine[<<q, entries[e].vector>>] \in Int
  <2>1. \A e \in 0..(size - 1) : entries[e].id \in Ids /\ entries[e].vector \in Vectors
    BY DEF StoreOK
  <2> QED
    BY <2>1, DataAssumption
<1>3. \A e \in 0..(size - 1) : /\ f[e].id = entries[e].id /\ f[e].id \in Int
                                /\ f[e].score \in Int
  BY <1>2 DEF Candidate
<1>4. /\ \A e \in 0..(size - 1) : f[e] \in All(q)
      /\ \A c \in All(q) : \E e \in 0..(size - 1) : f[e] = c
  BY DEF All, ScoredAll, Scored
<1>5. All(q) = API!Scored(q)
  <2>1. ASSUME NEW e \in 0..(size - 1) PROVE f[e] \in API!Scored(q)
    <3>1. entries[e].id \in DOMAIN index /\ index[entries[e].id] = e
      BY <1>1
    <3> QED
      BY <3>1 DEF API!Scored, API!Candidate, Candidate
  <2>2. ASSUME NEW i \in DOMAIN index
        PROVE  Candidate(i, Cosine[<<q, entries[index[i]].vector>>]) \in All(q)
    <3>1. index[i] \in 0..(size - 1) /\ entries[index[i]].id = i
      BY <1>1
    <3> QED
      BY <3>1 DEF All, ScoredAll, Scored
  <2>3. API!Scored(q) \subseteq All(q)
    BY <2>2 DEF API!Scored, API!Candidate, Candidate
  <2> QED
    BY <2>1, <2>3, <1>4
<1> HIDE DEF f
<1>6. \A d, e \in 0..(size - 1) : f[d].id = f[e].id => d = e
  BY <1>1, <1>3
<1>7. Rankable(All(q)) /\ Cardinality(All(q)) = size
  <2>1. size \in Nat /\ \A e \in 0..(size - 1) : f[e].id \in Int /\ f[e].score \in Int
    BY <1>1, <1>3
  <2> HIDE DEF All
  <2> QED
    BY <2>1, <1>4, <1>6, ScoredEntries
<1> QED
  BY <1>5, <1>7

\* The store counts and ranks as the backend does.
LEMMA SameRanking ==
    ASSUME NEW S
    PROVE  /\ API!Cardinality(S) = Cardinality(S)
           /\ \A k : API!Best(k, S) = Best(k, S) /\ API!Lesser(k, Cardinality(S)) = Lesser(k, Cardinality(S))
<1>1. \A T : API!Cardinality(T) = Cardinality(T)
  BY DEF API!Cardinality, Cardinality
<1>2. \A T, c : API!Above(T, c) = Above(T, c)
  BY DEF API!Above, Above, API!Better, Better
<1> QED
  BY <1>1, <1>2 DEF API!Best, Best, API!Lesser, Lesser

\* The best k of the scores of all entries are an answer of the store.
LEMMA ExactAnswer ==
    ASSUME StoreOK, pc # "add", NEW q \in Vectors, NEW k \in Counts,
           reply' = API!Found(q, k, size, Best(Lesser(k, size), All(q))),
           UNCHANGED <<entries, index>>
    PROVE  API!Next
<1> DEFINE S == API!Scored(q)
           R == Best(k, S)
<1>1. k \in Nat /\ size \in 0..Capacity
  BY DataAssumption DEF StoreOK
<1>2. All(q) = S /\ Rankable(S) /\ Cardinality(S) = size
  BY EntriesAreItems
<1> HIDE DEF S
<1>3. R \in SUBSET S /\ Cardinality(R) = Lesser(k, size) /\ Best(Lesser(k, size), S) = R
  BY <1>1, <1>2, BestWanted
<1>4. R \in API!Acceptable(k, size, S)
  <2> HIDE DEF R
  <2>1. R = API!Best(k, S) /\ API!Cardinality(R) = API!Lesser(k, API!Cardinality(S))
    BY <1>2, <1>3, SameRanking DEF R
  <2> QED
    BY <2>1, <1>3 DEF API!Acceptable
<1>5. reply' = API!Found(q, k, size, R)
  BY <1>2, <1>3
<1> HIDE DEF R
<1>6. API!Answer(q, k, size)
  BY <1>4, <1>5 DEF API!Answer, S
<1> QED
  BY <1>1, <1>6 DEF API!Next

LEMMA NothingAnswers ==
    ASSUME StoreOK, NEW q \in Vectors, NEW k \in Counts, SearchNothing(q, k)
    PROVE  API!Next
<1>1. /\ k = 0 \/ size = 0
      /\ pc = "idle" /\ reply' = API!Found(q, k, size, {}) /\ UNCHANGED <<entries, index>>
  BY DEF SearchNothing, Refuse, store
<1>2. k \in Nat /\ size \in Nat
  BY DataAssumption, ThreadsAssumption DEF StoreOK
<1>3. Lesser(k, size) = 0
  BY <1>1, <1>2 DEF Lesser
<1>4. Rankable(All(q))
  BY <1>1, EntriesAreItems
<1>5. Best(0, All(q)) = {}
  <2>1. \A c : Cardinality(Above(All(q), c)) \in Nat
    BY <1>4, AboveFinite
  <2> QED
    BY <2>1 DEF Best
<1> QED
  BY <1>1, <1>3, <1>5, ExactAnswer

\* The parts hold each entry: the best of their best are the best of all.
LEMMA MergedIsExact ==
    ASSUME IInv, pc = "join", Joined, errors = {}
    PROVE  Merged = Best(Wanted, All(call.query))
<1> DEFINE q == call.query
           W == Workers
           P == [w \in W |-> ScoredAll(q, Part(w))]
<1>1. /\ call.workers \in Nat \ {0} /\ size \in Nat \ {0} /\ W \subseteq Threads
      /\ q \in Vectors /\ call.count \in Nat \ {0}
      /\ \A w \in W : First(w) \in 0..size /\ Last(w) \in 0..size
                      /\ Part(w) = First(w)..(Last(w) - 1)
  BY WorkersFacts DEF IInv, Searching
<1>2. \A w \in W : slots[w] = Best(Wanted, P[w])
  <2>1. \A w \in W : thread[w] = "ended" /\ w \notin errors
    BY <1>1 DEF IInv, ThreadsOK, Joined
  <2> QED
    BY <1>1, <2>1 DEF IInv, ScansOK, Searching
<1>3. Wanted \in Nat
  BY <1>1 DEF Wanted, Lesser
<1>4. \A e \in 0..(size - 1) : \E w \in W : e \in Part(w)
  BY <1>1, PartsCover DEF Part, Workers
<1>5. \A w \in W : Part(w) \subseteq 0..(size - 1)
  BY <1>1
<1>6. All(q) = UNION {P[w] : w \in W}
  BY <1>4, <1>5 DEF All, ScoredAll
<1>7. Rankable(All(q))
  BY <1>1, EntriesAreItems DEF IInv
<1>8. CASE call.workers = 1
  <2>1. First(0) = 0 /\ Last(0) = size
    BY <1>1, <1>8, PartsMeet DEF First, Last
  <2>2. 0 \in W /\ P[0] = All(q)
    BY <1>1, <1>8, <2>1 DEF Workers, All
  <2> QED
    BY <1>2, <1>8, <2>2 DEF Merged
<1>9. CASE call.workers # 1
  <2> DEFINE S == All(q)
             B == [w \in W |-> slots[w]]
             U == UNION {slots[w] : w \in W}
  <2>1. \A w \in W : P[w] \subseteq S /\ B[w] = Best(Wanted, P[w])
    BY <1>2, <1>6
  <2>2. P \in [W -> SUBSET S] /\ B \in [W -> SUBSET S]
    BY <2>1, BestSubset
  <2>3. /\ \A c \in S : \E w \in W : c \in P[w]
        /\ \A c : c \in U <=> \E w \in W : c \in B[w]
    BY <1>6
  <2> HIDE DEF P, W, q, S, U, B
  <2>4. Rankable(S)
    BY <1>7 DEF S
  <2>5. Best(Wanted, U) = Best(Wanted, S)
    BY <1>3, <2>1, <2>2, <2>3, <2>4, BestOfParts
  <2> QED
    BY <1>9, <2>5 DEF Merged, q, W, S, U
<1> QED
  BY <1>8, <1>9

LEMMA MergeAnswers ==
    ASSUME IInv, Merge
    PROVE  API!Next
<1>1. /\ pc = "join" /\ Joined /\ errors = {} /\ UNCHANGED <<entries, index>>
      /\ reply' = API!Found(call.query, call.count, size, Merged)
  BY DEF Merge, Return, store
<1>2. call.query \in Vectors /\ call.count \in Counts
  BY <1>1 DEF IInv, CallerOK, Searching
<1>3. Merged = Best(Lesser(call.count, size), All(call.query))
  BY <1>1, MergedIsExact DEF Wanted
<1> QED
  BY <1>1, <1>2, <1>3, ExactAnswer DEF IInv

\* Emplacing the ID is the insertion.
LEMMA EmplaceAdds ==
    ASSUME StoreOK, EmplaceId
    PROVE  API!Next
<1> DEFINE i == entries[size - 1].id
           v == entries[size - 1].vector
<1>1. /\ pc = "add" /\ UNCHANGED <<entries, size>> /\ reply' = API!Stored(i)
      /\ index' = [j \in DOMAIN index \cup {i} |-> IF j = i THEN size - 1 ELSE index[j]]
  BY DEF EmplaceId
<1>2. i \notin DOMAIN index /\ size \in 1..Capacity
  BY <1>1, ThreadsAssumption DEF StoreOK
<1>3. i \in Ids /\ v \in Vectors
  BY <1>2 DEF StoreOK
<1> HIDE DEF i
<1>4. /\ DOMAIN index' = DOMAIN index \cup {i} /\ index'[i] = size - 1
      /\ \A j \in DOMAIN index : index'[j] = index[j]
  BY <1>1, <1>2
<1>5. [j \in DOMAIN index' |-> entries'[index'[j]].vector]
        = [j \in DOMAIN index \cup {i} |-> IF j = i THEN v ELSE entries[index[j]].vector]
  <2>1. \A j \in DOMAIN index \cup {i} :
          entries'[index'[j]].vector = IF j = i THEN v ELSE entries[index[j]].vector
    BY <1>1, <1>2, <1>4
  <2> QED
    BY <2>1, <1>4
<1>6. API!Add(i, v)
  BY <1>1, <1>2, <1>5 DEF API!Add
<1>7. \E j \in Ids, w \in Vectors : API!Add(j, w)
  <2>1. \E w \in Vectors : w = v
    BY <1>3
  <2>2. PICK w \in Vectors : w = v
    BY <2>1
  <2> QED
    BY <1>3, <1>6, <2>2 DEF API!Add
<1> QED
  BY <1>7 DEF API!Next

\* The halves of an insertion that is not completed do not show.
LEMMA HalvesHidden ==
    ASSUME StoreOK, (\E i \in Ids, v \in Vectors : PushEntry(i, v)) \/ EmplaceFails
    PROVE  [API!Next]_API!vars
<1>1. size \in Nat
  BY ThreadsAssumption DEF StoreOK
<1>2. UNCHANGED index /\ reply' \in {API!NoReply, API!Failed}
  BY DEF PushEntry, EmplaceFails
<1>3. \A e \in 0..(Complete - 1) : entries'[e] = entries[e]
  BY <1>1 DEF PushEntry, EmplaceFails, Complete, StoreOK
<1>4. \A i \in DOMAIN index : index[i] \in 0..(Complete - 1)
  BY DEF StoreOK
<1>5. [i \in DOMAIN index' |-> entries'[index'[i]].vector]
        = [i \in DOMAIN index |-> entries[index[i]].vector]
  BY <1>2, <1>3, <1>4
<1> QED
  BY <1>2, <1>5 DEF API!Next, API!Start, API!Throw

LEMMA StepSimulates ==
    ASSUME IInv, Next
    PROVE  [API!Next]_API!vars
<1>1. CASE RefuseInvalid
  BY <1>1 DEF RefuseInvalid, Refuse, store, API!Next, API!Throw
<1>2. ASSUME NEW i \in Ids, RefuseDuplicate(i) PROVE API!Next
  BY <1>2 DEF RefuseDuplicate, Refuse, store, API!Next, API!RefuseDuplicate
<1>3. CASE Spawn \/ ScanOwnPart \/ SpawnFails \/ EndBlock \/ \E w \in Threads : Worker(w)
  <2>1. reply' = reply /\ UNCHANGED <<entries, index>>
    BY <1>3 DEF Spawn, ScanOwnPart, SpawnFails, EndBlock, Worker, ScoreNext, Publish, ScanFails, store
  <2> QED
    BY <2>1 DEF API!vars
<1>4. ASSUME NEW q \in Vectors, NEW k \in Counts, BeginSearch(q, k) PROVE API!Next
  BY <1>4 DEF BeginSearch, store, API!Next, API!Start
<1>5. CASE Unwind \/ Rethrow \/ MergeFails
  BY <1>5 DEF Unwind, Rethrow, MergeFails, Return, store, API!Next, API!Throw
<1>6. CASE Caller
  BY <1>3, <1>5, <1>6, MergeAnswers, EmplaceAdds, HalvesHidden DEF Caller, IInv
<1> QED
  BY <1>1, <1>2, <1>3, <1>4, <1>6, HalvesHidden, NothingAnswers DEF Next, IInv

\* The multithreaded search is an exact one, for any number of threads,
\* entries and results: no order of the scans, no failure of a thread and no
\* exception shows in an answer.
THEOREM ImplementsVectorStore == Spec => ImplementsStore
<1>1. Init => API!Init
  BY DEF Init, API!Init
<1>2. IInv /\ [Next]_vars => [API!Next]_API!vars
  <2> SUFFICES ASSUME IInv, [Next]_vars PROVE [API!Next]_API!vars
    OBVIOUS
  <2>1. CASE UNCHANGED vars
    BY <2>1 DEF vars, store, API!vars
  <2> QED
    BY <2>1, StepSimulates
<1> QED
  BY <1>1, <1>2, InitEstablishes, Inductive, PTL DEF Spec, ImplementsStore, API!Spec
=============================================================================
