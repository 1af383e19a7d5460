------------------------- MODULE CudaBackendProofs -------------------------
(***************************************************************************)
(* That concurrent readers of CudaSearchBackend share one device matrix    *)
(* safely, for any number of readers, matrices and entries: every kernel   *)
(* runs on exactly the stored vectors, no device memory is lost on any     *)
(* path through the exceptions, and every call is one step of an exact     *)
(* vector store.                                                           *)
(***************************************************************************)
EXTENDS CudaBackend, RankingProofs

\* Reader r is within acquire_index(), where it has the mutex.
Holds(r) ==
    \/ pc[r] \in {"check", "publish", "count"}
    \/ Persistent /\ pc[r] \in {"allocate", "upload"}

\* The map and the complete entries describe the same store.
StoreOK ==
    /\ mode \in {"Persistent", "PerQuery"}
    /\ size \in 0..Capacity
    /\ entries \in [0..(size - 1) -> [id : Ids, vector : Vectors]]
    /\ DOMAIN index \subseteq Ids
    /\ \A i \in DOMAIN index : index[i] \in 0..(Complete - 1) /\ entries[index[i]].id = i
    /\ \A e \in 0..(Complete - 1) : entries[e].id \in DOMAIN index /\ index[entries[e].id] = e
    /\ adding \in BOOLEAN
    /\ adding => size > 0 /\ entries[size - 1].id \notin DOMAIN index

PcTypes == [Readers -> {"idle", "lock", "check", "allocate", "upload",
                        "publish", "count", "kernel", "rank"}]
CallTypes == [Readers -> [op : {"search"}, query : Vectors, count : Nat \ {0}]
                           \cup [op : {"build"}] \cup {NoCall}]

\* Who is where, and for what: the mutex is with the reader within
\* acquire_index(), and no reader is anywhere during an insertion.
ReadersOK ==
    /\ mutex \in Readers \cup {Nothing}
    /\ pc \in PcTypes
    /\ call \in CallTypes
    /\ adding => \A r \in Readers : pc[r] = "idle"
    /\ \A r \in Readers : Holds(r) <=> mutex = r
    /\ \A r \in Readers : ~ Persistent => pc[r] \notin {"publish", "count"}
    /\ \A r \in Readers :
          pc[r] \in {"kernel", "rank"} \/ (~ Persistent /\ pc[r] \in {"allocate", "upload"})
            => call[r].op = "search"
    /\ \A r \in Readers : call[r].op = "search" => call[r].count \in Counts

\* Which pointers there are, and that a matrix under construction is its
\* builder's alone.
PointersOK ==
    /\ gpuIndex \in Matrices \cup {Nothing}
    /\ replacement \in [Readers -> Matrices \cup {Nothing}]
    /\ snapshot \in [Readers -> Matrices \cup {Nothing}]
    /\ DOMAIN device = Pointers \ {Nothing}
    /\ ~ Persistent => gpuIndex = Nothing
    /\ \A r \in Readers : replacement[r] # Nothing <=> pc[r] \in {"upload", "publish"}
    /\ \A r \in Readers : snapshot[r] # Nothing <=> pc[r] = "kernel"
    /\ \A r \in Readers : replacement[r] # Nothing =>
          /\ replacement[r] # gpuIndex
          /\ \A s \in Readers : replacement[r] # snapshot[s]
          /\ \A s \in Readers \ {r} : replacement[r] # replacement[s]

\* A kernel's matrix is the shared one, and current; nobody rebuilds meanwhile.
SharedOK ==
    Persistent => \A r \in Readers : pc[r] = "kernel" =>
        /\ snapshot[r] = gpuIndex /\ indexedCount = size
        /\ \A s \in Readers : pc[s] \notin {"allocate", "upload", "publish", "count"}

\* The first n entries' vectors as a matrix.
FirstRows(n) == [e \in 0..(n - 1) |-> entries[e].vector]

\* What the matrices hold.  The shared one has the rows its count says, save
\* between its publication and the update of the count.
ContentsOK ==
    /\ indexedCount \in 0..Capacity
    /\ \A m \in DOMAIN device : \E n \in 0..Capacity : device[m] \in [0..(n - 1) -> Vectors]
    /\ \A r \in Readers : pc[r] = "kernel" => device[snapshot[r]] = Rows
    /\ \A r \in Readers : pc[r] = "publish" => device[replacement[r]] = Rows
    /\ \A r \in Readers : pc[r] = "count" => gpuIndex # Nothing /\ device[gpuIndex] = Rows
    /\ gpuIndex # Nothing /\ (\A r \in Readers : pc[r] # "count") =>
          indexedCount <= Complete /\ device[gpuIndex] = FirstRows(indexedCount)

\* What was copied back are the scores of the entries.
ScoresOK ==
    /\ \A r \in Readers : \E n \in 0..Capacity : scores[r] \in [0..(n - 1) -> Int]
    /\ DOMAIN scores = Readers
    /\ \A r \in Readers : pc[r] = "rank" =>
          \A e \in 0..(size - 1) : scores[r][e] = Cosine[<<call[r].query, entries[e].vector>>]

IInv == StoreOK /\ ReadersOK /\ PointersOK /\ SharedOK /\ ContentsOK /\ ScoresOK

LEMMA InitEstablishes == Init => IInv
<1> SUFFICES ASSUME Init PROVE IInv
  OBVIOUS
<1> USE DataAssumption, CacheAssumption DEF Init
<1>1. StoreOK
  <2>1. NoRows \in [0..(0 - 1) -> [id : Ids, vector : Vectors]] /\ 0..(0 - 1) = {}
    BY DEF NoRows
  <2>2. size = 0 /\ entries = NoRows /\ DOMAIN index = {} /\ Complete = 0 /\ adding = FALSE
    BY DEF Complete
  <2>3. entries \in [0..(size - 1) -> [id : Ids, vector : Vectors]]
    BY <2>1, <2>2
  <2>4. size \in 0..Capacity /\ 0..(Complete - 1) = {}
    BY <2>2
  <2> QED
    BY <2>2, <2>3, <2>4 DEF StoreOK
<1>2. ReadersOK
  BY DEF ReadersOK, PcTypes, CallTypes, NoCall, Holds
<1>3. PointersOK
  BY DEF PointersOK, Pointers
<1>4. SharedOK /\ ContentsOK
  BY DEF SharedOK, ContentsOK
<1>5. ScoresOK
  <2>1. NoRows \in [0..(0 - 1) -> Int] /\ 0 \in 0..Capacity
    BY DEF NoRows
  <2> QED
    BY <2>1 DEF ScoresOK
<1> QED
  BY <1>1, <1>2, <1>3, <1>4, <1>5 DEF IInv

----------------------------------------------------------------------------
(* Steps of add() *)

AddStep == (\E i \in Ids, v \in Vectors : PushEntry(i, v)) \/ EmplaceId \/ EmplaceFails

\* An insertion leaves the readers alone, and finds them idle.
LEMMA AddsWithoutReaders ==
    ASSUME ReadersOK, AddStep
    PROVE  /\ \A r \in Readers : pc[r] = "idle"
           /\ UNCHANGED <<mode, mutex, cache, device, pc, call, replacement, snapshot, scores>>
           /\ adding' \in BOOLEAN
  BY DEF AddStep, PushEntry, EmplaceId, EmplaceFails, ReadersOK, Active

LEMMA PushKeepsStore ==
    ASSUME StoreOK, NEW i \in Ids, NEW v \in Vectors, PushEntry(i, v)
    PROVE  StoreOK'
<1>1. /\ ~ adding /\ size < Capacity /\ i \notin DOMAIN index
      /\ entries' = [e \in 0..size |-> IF e = size THEN [id |-> i, vector |-> v] ELSE entries[e]]
      /\ size' = size + 1 /\ adding' = TRUE /\ UNCHANGED <<mode, index>>
  BY DEF PushEntry
<1>2. Complete = size /\ Complete' = size /\ size \in Nat /\ Capacity \in Nat /\ size' - 1 = size
  BY <1>1, CacheAssumption DEF StoreOK, Complete
<1>3. entries' \in [0..(size' - 1) -> [id : Ids, vector : Vectors]]
  BY <1>1, <1>2 DEF StoreOK
<1>4. \A e \in 0..(size - 1) : entries'[e] = entries[e]
  BY <1>1, <1>2
<1>5. entries'[size].id = i
  BY <1>1, <1>2
<1>6. \A j \in DOMAIN index : index[j] \in 0..(size - 1) /\ entries'[index[j]].id = j
  BY <1>2, <1>4 DEF StoreOK
<1>7. \A e \in 0..(size - 1) : entries'[e].id \in DOMAIN index /\ index[entries'[e].id] = e
  BY <1>2, <1>4 DEF StoreOK
<1> QED
  BY <1>1, <1>2, <1>3, <1>5, <1>6, <1>7 DEF StoreOK

LEMMA EmplaceKeepsStore ==
    ASSUME StoreOK, EmplaceId
    PROVE  StoreOK'
<1> DEFINE i == entries[size - 1].id
<1>1. /\ adding /\ ~ adding' /\ adding' \in BOOLEAN /\ UNCHANGED <<mode, entries, size>>
      /\ index' = [j \in DOMAIN index \cup {i} |-> IF j = i THEN size - 1 ELSE index[j]]
  BY DEF EmplaceId
<1>2. Complete = size - 1 /\ Complete' = size /\ size \in 1..Capacity /\ size \in Nat
  BY <1>1, CacheAssumption DEF StoreOK, Complete
<1>3. i \in Ids /\ i \notin DOMAIN index
  BY <1>1, <1>2 DEF StoreOK
<1>4. /\ DOMAIN index' = DOMAIN index \cup {i} /\ index'[i] = size - 1
      /\ \A j \in DOMAIN index : index'[j] = index[j]
  <2> HIDE DEF i
  <2> QED
    BY <1>1, <1>3
<1>5. \A j \in DOMAIN index : index[j] \in 0..(size - 2) /\ entries[index[j]].id = j
  BY <1>2 DEF StoreOK
<1>6. \A e \in 0..(size - 2) : entries[e].id \in DOMAIN index /\ index[entries[e].id] = e
  BY <1>2 DEF StoreOK
<1>7. \A e \in 0..(size - 1) : entries[e].id \in DOMAIN index' /\ index'[entries[e].id] = e
  <2>1. \A e \in 0..(size - 1) : e \in 0..(size - 2) \/ e = size - 1
    BY <1>2
  <2> QED
    BY <2>1, <1>4, <1>6
<1>8. \A j \in DOMAIN index' : index'[j] \in 0..(size - 1) /\ entries[index'[j]].id = j
  BY <1>2, <1>4, <1>5
<1> HIDE DEF i
<1> QED
  BY <1>1, <1>2, <1>3, <1>4, <1>7, <1>8 DEF StoreOK

LEMMA FailKeepsStore ==
    ASSUME StoreOK, EmplaceFails
    PROVE  StoreOK'
<1>1. /\ adding /\ ~ adding' /\ adding' \in BOOLEAN /\ size' = size - 1 /\ UNCHANGED <<mode, index>>
      /\ entries' = [e \in 0..(size - 2) |-> entries[e]]
  BY DEF EmplaceFails
<1>2. Complete = size - 1 /\ Complete' = size - 1 /\ size \in 1..Capacity /\ size' - 1 = size - 2
      /\ size' \in 0..Capacity
  BY <1>1, CacheAssumption DEF StoreOK, Complete
<1>3. \A e \in 0..(size - 2) : entries'[e] = entries[e] /\ entries[e] \in [id : Ids, vector : Vectors]
  BY <1>1, <1>2 DEF StoreOK
<1>4. entries' \in [0..(size' - 1) -> [id : Ids, vector : Vectors]]
  BY <1>1, <1>2, <1>3
<1>5. \A j \in DOMAIN index : index[j] \in 0..(size - 2) /\ entries'[index[j]].id = j
  BY <1>2, <1>3 DEF StoreOK
<1>6. \A e \in 0..(size - 2) : entries'[e].id \in DOMAIN index /\ index[entries'[e].id] = e
  BY <1>2, <1>3 DEF StoreOK
<1> QED
  BY <1>1, <1>2, <1>4, <1>5, <1>6 DEF StoreOK

\* What was complete stays, so what a matrix holds of it stays right.
LEMMA AddKeepsRows ==
    ASSUME StoreOK, AddStep, NEW n \in 0..Complete
    PROVE  n <= Complete' /\ FirstRows(n)' = FirstRows(n)
<1>1. size \in Nat /\ (adding => size > 0)
  BY CacheAssumption DEF StoreOK
<1>2. \A e \in 0..(Complete - 1) : entries'[e] = entries[e]
  BY <1>1 DEF AddStep, PushEntry, EmplaceId, EmplaceFails, Complete
<1>3. n <= Complete'
  BY <1>1 DEF AddStep, PushEntry, EmplaceId, EmplaceFails, Complete
<1>4. n \in Nat /\ Complete \in Nat
  BY <1>1 DEF Complete
<1>5. \A e \in 0..(n - 1) : entries'[e].vector = entries[e].vector
  BY <1>2, <1>4
<1> QED
  BY <1>3, <1>5 DEF FirstRows

LEMMA AddPreserves ==
    ASSUME IInv, AddStep
    PROVE  IInv'
<1>1. StoreOK'
  BY PushKeepsStore, EmplaceKeepsStore, FailKeepsStore DEF IInv, AddStep
<1>2. /\ \A r \in Readers : pc[r] = "idle"
      /\ UNCHANGED <<mode, mutex, cache, device, pc, call, replacement, snapshot, scores>>
      /\ adding' \in BOOLEAN
  BY AddsWithoutReaders DEF IInv
<1>3. ReadersOK'
  BY <1>2 DEF IInv, ReadersOK, Holds, Persistent
<1>4. PointersOK'
  BY <1>2 DEF IInv, PointersOK, Pointers, Persistent, cache
<1>5. SharedOK' /\ ScoresOK'
  BY <1>2 DEF IInv, SharedOK, ScoresOK, Persistent
<1>6. ContentsOK'
  <2>1. gpuIndex # Nothing => indexedCount <= Complete /\ device[gpuIndex] = FirstRows(indexedCount)
    BY <1>2 DEF IInv, ContentsOK
  <2>2. indexedCount \in 0..Capacity /\ Complete \in Nat
    BY CacheAssumption DEF IInv, ContentsOK, StoreOK, Complete
  <2>3. gpuIndex # Nothing => indexedCount \in 0..Complete
    BY <2>1, <2>2, CacheAssumption
  <2>4. gpuIndex # Nothing => indexedCount <= Complete' /\ FirstRows(indexedCount)' = FirstRows(indexedCount)
    <3>1. UNCHANGED <<gpuIndex, indexedCount>>
      BY <1>2 DEF cache
    <3>2. gpuIndex # Nothing => \A n \in 0..Complete : n <= Complete' /\ FirstRows(n)' = FirstRows(n)
      BY AddKeepsRows DEF IInv
    <3> QED
      BY <2>3, <3>1, <3>2
  <2> QED
    BY <1>2, <2>1, <2>4 DEF IInv, ContentsOK, cache
<1> QED
  BY <1>1, <1>3, <1>4, <1>5, <1>6 DEF IInv

----------------------------------------------------------------------------
(* Steps that leave the store alone *)

Outside == UNCHANGED <<mode, store>>

LEMMA OutsideKeepsStore ==
    ASSUME StoreOK, Outside
    PROVE  StoreOK' /\ Complete' = Complete /\ Rows' = Rows /\ Persistent' = Persistent
           /\ \A n : FirstRows(n)' = [e \in 0..(n' - 1) |-> entries[e].vector]
  BY DEF Outside, store, StoreOK, Complete, Rows, Persistent, FirstRows

\* Scores that were copied back stay as long as their reader ranks them.
LEMMA ScoresKept ==
    ASSUME IInv, UNCHANGED <<scores, entries, size>>,
           \A s \in Readers : pc'[s] = "rank" => pc[s] = "rank" /\ call'[s] = call[s]
    PROVE  ScoresOK'
<1>1. ScoresOK
  BY DEF IInv
<1>2. /\ \A s \in Readers : \E n \in 0..Capacity : scores'[s] \in [0..(n - 1) -> Int]
      /\ DOMAIN scores' = Readers
  BY <1>1 DEF ScoresOK
<1>3. ASSUME NEW s \in Readers, pc'[s] = "rank", NEW e \in 0..(size - 1)
      PROVE  scores'[s][e] = Cosine[<<call'[s].query, entries'[e].vector>>]
  <2>1. scores[s][e] = Cosine[<<call[s].query, entries[e].vector>>]
    BY <1>1, <1>3 DEF ScoresOK
  <2> QED
    BY <2>1, <1>3
<1> QED
  BY <1>2, <1>3 DEF ScoresOK

LEMMA EnterPreserves ==
    ASSUME IInv, NEW r \in Readers,
           (\E q \in Vectors, k \in Counts : BeginSearch(r, q, k)) \/ BeginBuild(r)
    PROVE  IInv'
<1>1. PICK c \in [op : {"search"}, query : Vectors, count : Nat \ {0}] \cup [op : {"build"}],
           stage \in {"lock", "allocate"} :
         /\ Enter(r, c, stage)
         /\ stage = "allocate" => ~ Persistent /\ c.op = "search"
         /\ c.op = "search" => c.count \in Counts
  <2>1. CASE BeginBuild(r)
    BY <2>1 DEF BeginBuild
  <2>2. ASSUME NEW q \in Vectors, NEW k \in Counts, BeginSearch(r, q, k)
        PROVE  \E c \in [op : {"search"}, query : Vectors, count : Nat \ {0}],
                  stage \in {"lock", "allocate"} :
                 /\ Enter(r, c, stage)
                 /\ stage = "allocate" => ~ Persistent /\ c.op = "search"
                 /\ c.op = "search" => c.count \in Counts
    <3>1. k \in Nat \ {0}
      BY <2>2, DataAssumption DEF BeginSearch
    <3> QED
      BY <2>2, <3>1 DEF BeginSearch, Persistent
  <2> QED
    BY <2>1, <2>2
<1>2. /\ pc[r] = "idle" /\ ~ adding /\ pc' = [pc EXCEPT ![r] = stage]
      /\ call' = [call EXCEPT ![r] = c]
      /\ UNCHANGED <<mode, store, mutex, cache, device, replacement, snapshot, scores>>
  BY <1>1 DEF Enter
<1>3. Outside /\ UNCHANGED <<gpuIndex, indexedCount, adding, entries, size, index>>
  BY <1>2 DEF Outside, cache, store
<1>4. StoreOK' /\ Complete' = Complete /\ Rows' = Rows /\ Persistent' = Persistent
  BY <1>3, OutsideKeepsStore DEF IInv
<1>5. ReadersOK'
  <2>1. pc' \in PcTypes /\ call' \in CallTypes
    BY <1>1, <1>2 DEF IInv, ReadersOK, PcTypes, CallTypes
  <2> QED
    BY <2>1, <1>1, <1>2, <1>3, <1>4 DEF IInv, ReadersOK, Holds, PcTypes, CallTypes
<1>6. PointersOK'
  BY <1>1, <1>2, <1>3, <1>4 DEF IInv, PointersOK, Pointers, ReadersOK, PcTypes
<1>7. SharedOK'
  BY <1>1, <1>2, <1>3, <1>4 DEF IInv, SharedOK, ReadersOK, PcTypes
<1>8. ContentsOK'
  BY <1>1, <1>2, <1>3, <1>4 DEF IInv, ContentsOK, ReadersOK, PcTypes, FirstRows
<1>9. ScoresOK'
  BY <1>1, <1>2, <1>3, <1>4 DEF IInv, ScoresOK, ReadersOK, PcTypes, CallTypes
<1> QED
  BY <1>4, <1>5, <1>6, <1>7, <1>8, <1>9 DEF IInv

\* A matrix is freed when, and only when, the last pointer to it is gone.
LEMMA DropFreesUnreferenced ==
    ASSUME PointersOK, DropUnreferenced, Pointers' \subseteq Pointers \cup {Nothing}
    PROVE  /\ DOMAIN device' = Pointers' \ {Nothing}
           /\ \A m \in DOMAIN device' : m \in DOMAIN device /\ device'[m] = device[m]
<1>1. DOMAIN device = Pointers \ {Nothing}
  BY DEF PointersOK
<1>2. device' = [m \in DOMAIN device \cap Pointers' |-> device[m]]
  BY DEF DropUnreferenced
<1>3. Nothing \notin DOMAIN device
  BY <1>1
<1> QED
  BY <1>1, <1>2, <1>3

\* Leaving a call, normally or by an exception, from anywhere but the steps
\* between the publication of a matrix and the update of the count.
LEMMA LeavePreserves ==
    ASSUME IInv, NEW r \in Readers, NEW res, Leave(r, res),
           pc[r] \in {"check", "allocate", "upload", "kernel", "rank"}
    PROVE  IInv'
<1>1. /\ mutex' = IF mutex = r THEN Nothing ELSE mutex
      /\ pc' = [pc EXCEPT ![r] = "idle"]
      /\ call' = [call EXCEPT ![r] = NoCall]
      /\ replacement' = [replacement EXCEPT ![r] = Nothing]
      /\ snapshot' = [snapshot EXCEPT ![r] = Nothing]
      /\ scores' = [scores EXCEPT ![r] = NoRows]
      /\ UNCHANGED <<mode, store, cache>> /\ DropUnreferenced
  BY DEF Leave
<1>2. Outside /\ UNCHANGED <<gpuIndex, indexedCount, adding, entries, size, index>>
  BY <1>1 DEF Outside, cache, store
<1>3. StoreOK' /\ Complete' = Complete /\ Rows' = Rows /\ Persistent' = Persistent
  BY <1>2, OutsideKeepsStore DEF IInv
<1>4. ReadersOK'
  <2>1. pc' \in PcTypes /\ call' \in CallTypes /\ mutex' \in Readers \cup {Nothing}
    BY <1>1 DEF IInv, ReadersOK, PcTypes, CallTypes
  <2>2. \A s \in Readers : Holds(s)' <=> mutex' = s
    BY <1>1, <1>3, CacheAssumption DEF IInv, ReadersOK, Holds, PcTypes
  <2>3. \A s \in Readers : call'[s].op = "search" => call[s].op = "search" /\ s # r
    BY <1>1 DEF IInv, ReadersOK, CallTypes, NoCall
  <2> QED
    BY <2>1, <2>2, <2>3, <1>1, <1>2, <1>3 DEF IInv, ReadersOK, PcTypes, CallTypes
<1>5. /\ replacement' \in [Readers -> Matrices \cup {Nothing}]
      /\ snapshot' \in [Readers -> Matrices \cup {Nothing}]
      /\ \A s \in Readers \ {r} : replacement'[s] = replacement[s] /\ snapshot'[s] = snapshot[s]
                                  /\ pc'[s] = pc[s]
      /\ replacement'[r] = Nothing /\ snapshot'[r] = Nothing /\ pc'[r] = "idle"
  BY <1>1 DEF IInv, PointersOK, ReadersOK, PcTypes
<1>6. /\ DOMAIN device' = Pointers' \ {Nothing}
      /\ \A m \in DOMAIN device' : m \in DOMAIN device /\ device'[m] = device[m]
  <2>1. Pointers' \subseteq Pointers \cup {Nothing}
    BY <1>2, <1>5 DEF Pointers
  <2> QED
    BY <2>1, <1>1, DropFreesUnreferenced DEF IInv
<1>7. PointersOK'
  BY <1>2, <1>3, <1>5, <1>6 DEF IInv, PointersOK
<1>8. SharedOK'
  BY <1>2, <1>3, <1>5 DEF IInv, SharedOK
<1>9. ContentsOK'
  <2>1. \A s \in Readers : snapshot'[s] # Nothing => snapshot'[s] \in DOMAIN device'
    BY <1>6 DEF Pointers
  <2>2. \A s \in Readers : replacement'[s] # Nothing => replacement'[s] \in DOMAIN device'
    BY <1>6 DEF Pointers
  <2>3. gpuIndex # Nothing => gpuIndex \in DOMAIN device'
    BY <1>2, <1>6 DEF Pointers
  <2>4. \A s \in Readers : /\ pc'[s] = "kernel" => device'[snapshot'[s]] = Rows
                           /\ pc'[s] = "publish" => device'[replacement'[s]] = Rows
                           /\ pc'[s] = "count" => gpuIndex # Nothing /\ device'[gpuIndex] = Rows
    BY <1>5, <1>6, <2>1, <2>2, <2>3 DEF IInv, ContentsOK, PointersOK
  <2>5. gpuIndex # Nothing /\ (\A s \in Readers : pc'[s] # "count") =>
          indexedCount <= Complete /\ device'[gpuIndex] = FirstRows(indexedCount)
    BY <1>5, <1>6, <2>3 DEF IInv, ContentsOK
  <2>6. \A m \in DOMAIN device' : \E n \in 0..Capacity : device'[m] \in [0..(n - 1) -> Vectors]
    BY <1>6 DEF IInv, ContentsOK
  <2> QED
    BY <1>2, <1>3, <2>4, <2>5, <2>6 DEF IInv, ContentsOK, FirstRows
<1>10. ScoresOK'
  <2>1. NoRows \in [0..(0 - 1) -> Int] /\ 0 \in 0..Capacity
    BY CacheAssumption DEF NoRows
  <2>2. /\ DOMAIN scores' = Readers /\ scores'[r] = NoRows
        /\ \A s \in Readers \ {r} : scores'[s] = scores[s] /\ call'[s] = call[s]
    BY <1>1 DEF IInv, ScoresOK, ReadersOK, CallTypes
  <2>3. \A s \in Readers : \E n \in 0..Capacity : scores'[s] \in [0..(n - 1) -> Int]
    <3>1. \E n \in 0..Capacity : scores'[r] \in [0..(n - 1) -> Int]
      BY <2>1, <2>2
    <3> QED
      BY <3>1, <2>2 DEF IInv, ScoresOK
  <2>4. \A s \in Readers : pc'[s] = "rank" =>
          \A e \in 0..(size - 1) : scores'[s][e] = Cosine[<<call'[s].query, entries[e].vector>>]
    <3> SUFFICES ASSUME NEW s \in Readers, pc'[s] = "rank", NEW e \in 0..(size - 1)
                 PROVE  scores'[s][e] = Cosine[<<call'[s].query, entries[e].vector>>]
      OBVIOUS
    <3>1. s # r /\ pc[s] = "rank"
      BY <1>5
    <3> QED
      BY <3>1, <2>2 DEF IInv, ScoresOK
  <2> QED
    BY <2>2, <2>3, <2>4, <1>2 DEF ScoresOK
<1> QED
  BY <1>3, <1>4, <1>7, <1>8, <1>9, <1>10 DEF IInv

----------------------------------------------------------------------------
(* acquire_index() *)

LEMMA LockPreserves ==
    ASSUME IInv, NEW r \in Readers, Lock(r)
    PROVE  IInv'
<1>1. /\ pc[r] = "lock" /\ mutex = Nothing /\ mutex' = r /\ pc' = [pc EXCEPT ![r] = "check"]
      /\ UNCHANGED <<gpuIndex, indexedCount, adding, entries, size, index, mode, device, call,
                     replacement, snapshot, scores>>
      /\ Outside
  BY DEF Lock, cache, store, Outside
<1>2. StoreOK' /\ Complete' = Complete /\ Rows' = Rows /\ Persistent' = Persistent
  BY <1>1, OutsideKeepsStore DEF IInv
<1>3. ReadersOK'
  <2>1. pc' \in PcTypes
    BY <1>1 DEF IInv, ReadersOK, PcTypes
  <2>2. \A s \in Readers : Holds(s)' <=> mutex' = s
    BY <1>1, <1>2, CacheAssumption DEF IInv, ReadersOK, Holds, PcTypes
  <2> QED
    BY <2>1, <2>2, <1>1, <1>2 DEF IInv, ReadersOK, PcTypes
<1>4. pc \in PcTypes
  BY DEF IInv, ReadersOK
<1>5. PointersOK' /\ SharedOK'
  BY <1>1, <1>2, <1>4 DEF IInv, PointersOK, Pointers, SharedOK, PcTypes
<1>6. ContentsOK' /\ ScoresOK'
  BY <1>1, <1>2, <1>4 DEF IInv, ContentsOK, ScoresOK, FirstRows, PcTypes
<1> QED
  BY <1>2, <1>3, <1>5, <1>6 DEF IInv

LEMMA RebuildPreserves ==
    ASSUME IInv, NEW r \in Readers, Rebuild(r)
    PROVE  IInv'
<1>1. /\ pc[r] = "check" /\ Persistent /\ ~ Current /\ pc' = [pc EXCEPT ![r] = "allocate"]
      /\ UNCHANGED <<gpuIndex, indexedCount, adding, entries, size, index, mode, device, call,
                     replacement, snapshot, scores, mutex>>
      /\ Outside
  BY DEF Rebuild, cache, store, Outside, Persistent
<1>2. StoreOK' /\ Complete' = Complete /\ Rows' = Rows /\ Persistent' = Persistent
  BY <1>1, OutsideKeepsStore DEF IInv
<1>3. ReadersOK'
  <2>1. pc' \in PcTypes
    BY <1>1 DEF IInv, ReadersOK, PcTypes
  <2>2. \A s \in Readers : Holds(s)' <=> mutex' = s
    BY <1>1, <1>2, CacheAssumption DEF IInv, ReadersOK, Holds, PcTypes
  <2> QED
    BY <2>1, <2>2, <1>1, <1>2 DEF IInv, ReadersOK, PcTypes
<1>4. pc \in PcTypes
  BY DEF IInv, ReadersOK
<1>5. PointersOK'
  BY <1>1, <1>2, <1>4 DEF IInv, PointersOK, Pointers, PcTypes
<1>6. ContentsOK' /\ ScoresOK'
  BY <1>1, <1>2, <1>4 DEF IInv, ContentsOK, ScoresOK, FirstRows, PcTypes
<1>7. SharedOK'
  <2>1. \A s \in Readers : pc[s] # "kernel"
    BY <1>1 DEF IInv, SharedOK, PointersOK, Current
  <2> QED
    BY <2>1, <1>1, <1>4 DEF SharedOK, PcTypes
<1> QED
  BY <1>2, <1>3, <1>5, <1>6, <1>7 DEF IInv

\* A reader that is about to be handed the shared matrix, which is current.
LEMMA HandOutPreserves ==
    ASSUME IInv, NEW r \in Readers, HandOut(r), pc[r] \in {"check", "count"},
           Persistent, gpuIndex # Nothing, device[gpuIndex] = Rows, indexedCount' = size
    PROVE  IInv'
<1>1. /\ mutex' = Nothing
      /\ UNCHANGED <<adding, entries, size, index, mode, gpuIndex, device, replacement, scores>>
      /\ Outside
  BY DEF HandOut, store, Outside
<1>2. StoreOK' /\ Complete' = Complete /\ Rows' = Rows /\ Persistent' = Persistent
  BY <1>1, OutsideKeepsStore DEF IInv
<1>3. /\ pc \in PcTypes /\ call \in CallTypes /\ mutex = r
      /\ snapshot \in [Readers -> Matrices \cup {Nothing}]
      /\ ~ adding
  BY DEF IInv, ReadersOK, PointersOK, Holds
<1>4. /\ pc' \in PcTypes /\ call' \in CallTypes
      /\ snapshot' \in [Readers -> Matrices \cup {Nothing}]
      /\ pc'[r] \in {"kernel", "idle"}
      /\ pc'[r] = "kernel" => snapshot'[r] = gpuIndex /\ call'[r].op = "search"
      /\ pc'[r] = "idle" => snapshot'[r] = Nothing
      /\ call'[r] = call[r] \/ call'[r] = NoCall
      /\ \A s \in Readers \ {r} : pc'[s] = pc[s] /\ call'[s] = call[s] /\ snapshot'[s] = snapshot[s]
  <2>1. snapshot[r] = Nothing /\ gpuIndex \in Matrices
    BY <1>3 DEF IInv, PointersOK
  <2> QED
    BY <1>3, <2>1 DEF HandOut, PcTypes, CallTypes
<1>5. ReadersOK'
  <2>1. \A s \in Readers \ {r} : ~ Holds(s)
    BY <1>3 DEF IInv, ReadersOK
  <2>2. \A s \in Readers : ~ Holds(s)'
    BY <1>2, <1>4, <2>1 DEF Holds
  <2>3. \A s \in Readers : call'[s].op = "search" => call'[s].count \in Counts
    BY <1>4 DEF IInv, ReadersOK, NoCall
  <2>4. \A s \in Readers : Holds(s)' <=> mutex' = s
    BY <2>2, <1>1, CacheAssumption
  <2> QED
    BY <2>3, <2>4, <1>1, <1>2, <1>3, <1>4 DEF IInv, ReadersOK
<1>6. \A s \in Readers : pc[s] \notin {"allocate", "upload", "publish"} /\ (s # r => pc[s] # "count")
  BY <1>3 DEF IInv, ReadersOK, Holds
<1>7. PointersOK'
  <2>1. Pointers' \ {Nothing} = Pointers \ {Nothing}
    BY <1>1, <1>4 DEF Pointers, IInv, PointersOK
  <2>2. \A s \in Readers : replacement[s] = Nothing
    BY <1>6 DEF IInv, PointersOK
  <2>3. \A s \in Readers : snapshot'[s] # Nothing <=> pc'[s] = "kernel"
    BY <1>4 DEF IInv, PointersOK
  <2>4. \A s \in Readers : pc'[s] \notin {"upload", "publish"}
    BY <1>4, <1>6
  <2> QED
    BY <2>1, <2>2, <2>3, <2>4, <1>1, <1>2, <1>4 DEF IInv, PointersOK
<1>8. SharedOK'
  <2>1. \A s \in Readers : pc'[s] \notin {"allocate", "upload", "publish", "count"}
    BY <1>4, <1>6
  <2> QED
    BY <2>1, <1>1, <1>2, <1>4 DEF IInv, SharedOK
<1>9. ContentsOK'
  <2>1. size \in 0..Capacity /\ indexedCount' <= Complete /\ FirstRows(size) = Rows
    BY <1>3, CacheAssumption DEF IInv, StoreOK, Complete, FirstRows, Rows
  <2>2. device'[gpuIndex'] = FirstRows(indexedCount)'
    BY <1>1, <2>1 DEF FirstRows
  <2>3. \A s \in Readers : pc'[s] = "kernel" => device'[snapshot'[s]] = Rows
    BY <1>1, <1>4 DEF IInv, ContentsOK
  <2> QED
    BY <2>1, <2>2, <2>3, <1>1, <1>2, <1>4, <1>6 DEF IInv, ContentsOK
<1>10. ScoresOK'
  <2>1. \A s \in Readers : pc'[s] = "rank" => pc[s] = "rank" /\ call'[s] = call[s]
    BY <1>4
  <2> QED
    BY <2>1, <1>1, ScoresKept
<1> QED
  BY <1>2, <1>5, <1>7, <1>8, <1>9, <1>10 DEF IInv

LEMMA ReusePreserves ==
    ASSUME IInv, NEW r \in Readers, Reuse(r) \/ SetCount(r)
    PROVE  IInv'
<1>1. HandOut(r) /\ pc[r] \in {"check", "count"} /\ Persistent /\ indexedCount' = size
  BY DEF Reuse, SetCount, Current, Persistent, IInv, ReadersOK
<1>2. gpuIndex # Nothing /\ device[gpuIndex] = Rows
  <2>1. CASE SetCount(r)
    BY <2>1 DEF SetCount, IInv, ContentsOK
  <2>2. CASE Reuse(r)
    <3>1. gpuIndex # Nothing /\ indexedCount = size /\ pc[r] = "check"
      BY <2>2 DEF Reuse, Current
    <3>2. \A s \in Readers : pc[s] # "count"
      BY <3>1 DEF IInv, ReadersOK, Holds
    <3> QED
      BY <3>1, <3>2 DEF IInv, ContentsOK, FirstRows, Rows
  <2> QED
    BY <2>1, <2>2
<1> QED
  BY <1>1, <1>2, HandOutPreserves

\* A matrix is allocated that nobody points to yet.
LEMMA AllocatePreserves ==
    ASSUME IInv, NEW r \in Readers, Allocate(r)
    PROVE  IInv'
<1>1. PICK m \in Matrices \ DOMAIN device :
        /\ device' = [n \in DOMAIN device \cup {m} |-> IF n = m THEN NoRows ELSE device[n]]
        /\ replacement' = [replacement EXCEPT ![r] = m]
  BY DEF Allocate
<1>2. /\ pc[r] = "allocate" /\ pc' = [pc EXCEPT ![r] = "upload"]
      /\ UNCHANGED <<gpuIndex, indexedCount, adding, entries, size, index, mode, mutex, call,
                     snapshot, scores>>
      /\ Outside
  BY DEF Allocate, cache, store, Outside
<1>3. StoreOK' /\ Complete' = Complete /\ Rows' = Rows /\ Persistent' = Persistent
  BY <1>2, OutsideKeepsStore DEF IInv
<1>4. pc \in PcTypes /\ replacement \in [Readers -> Matrices \cup {Nothing}]
      /\ DOMAIN device = Pointers \ {Nothing}
  BY DEF IInv, ReadersOK, PointersOK
<1>5. /\ pc' \in PcTypes /\ pc'[r] = "upload"
      /\ \A s \in Readers \ {r} : pc'[s] = pc[s] /\ replacement'[s] = replacement[s]
      /\ replacement' \in [Readers -> Matrices \cup {Nothing}] /\ replacement'[r] = m
  BY <1>1, <1>2, <1>4 DEF PcTypes
<1>6. ReadersOK'
  <2>1. \A s \in Readers : Holds(s)' <=> Holds(s)
    BY <1>2, <1>3, <1>5 DEF Holds
  <2> QED
    BY <2>1, <1>2, <1>3, <1>5 DEF IInv, ReadersOK
<1>7. /\ m # Nothing /\ m # gpuIndex /\ m \in Matrices
      /\ \A s \in Readers : m # snapshot[s] /\ m # replacement[s]
  BY <1>1, <1>4, CacheAssumption DEF Pointers
<1>8. PointersOK'
  <2>1. Pointers' \ {Nothing} = (Pointers \ {Nothing}) \cup {m}
    <3>1. replacement[r] = Nothing
      BY <1>2 DEF IInv, PointersOK
    <3> QED
      BY <3>1, <1>2, <1>5, <1>7 DEF Pointers
  <2>2. DOMAIN device' = Pointers' \ {Nothing}
    BY <2>1, <1>1, <1>4
  <2>3. \A s \in Readers : replacement'[s] # Nothing <=> pc'[s] \in {"upload", "publish"}
    BY <1>5, <1>7 DEF IInv, PointersOK
  <2>4. \A s \in Readers : replacement'[s] # Nothing =>
          /\ replacement'[s] # gpuIndex
          /\ \A t \in Readers : replacement'[s] # snapshot[t]
          /\ \A t \in Readers \ {s} : replacement'[s] # replacement'[t]
    BY <1>5, <1>7 DEF IInv, PointersOK
  <2>5. \A s \in Readers : snapshot[s] # Nothing <=> pc'[s] = "kernel"
    BY <1>2, <1>5 DEF IInv, PointersOK
  <2> QED
    BY <2>2, <2>3, <2>4, <2>5, <1>2, <1>3, <1>5 DEF IInv, PointersOK
<1>9. SharedOK'
  BY <1>2, <1>3, <1>5 DEF IInv, SharedOK
<1>10. ContentsOK'
  <2>1. \A n \in DOMAIN device : device'[n] = device[n]
    BY <1>1
  <2>2. \A n \in DOMAIN device' : \E k \in 0..Capacity : device'[n] \in [0..(k - 1) -> Vectors]
    <3>1. NoRows \in [0..(0 - 1) -> Vectors] /\ 0 \in 0..Capacity
      BY CacheAssumption DEF NoRows
    <3>2. ASSUME NEW n \in DOMAIN device PROVE \E k \in 0..Capacity : device'[n] \in [0..(k - 1) -> Vectors]
      BY <2>1 DEF IInv, ContentsOK
    <3>3. device'[m] = NoRows /\ DOMAIN device' = DOMAIN device \cup {m}
      BY <1>1
    <3>4. \E k \in 0..Capacity : device'[m] \in [0..(k - 1) -> Vectors]
      BY <3>1, <3>3
    <3> QED
      BY <3>2, <3>3, <3>4
  <2>3. \A s \in Readers : /\ snapshot[s] # Nothing => snapshot[s] \in DOMAIN device
                           /\ replacement[s] # Nothing => replacement[s] \in DOMAIN device
    BY <1>4 DEF Pointers
  <2>4. gpuIndex # Nothing => gpuIndex \in DOMAIN device
    BY <1>4 DEF Pointers
  <2>5. \A s \in Readers : /\ pc'[s] = "kernel" => device'[snapshot[s]] = Rows
                           /\ pc'[s] = "publish" => device'[replacement'[s]] = Rows
                           /\ pc'[s] = "count" => gpuIndex # Nothing /\ device'[gpuIndex] = Rows
    BY <2>1, <2>3, <2>4, <1>5 DEF IInv, ContentsOK, PointersOK
  <2>6. gpuIndex # Nothing /\ (\A s \in Readers : pc'[s] # "count") =>
          indexedCount <= Complete /\ device'[gpuIndex] = FirstRows(indexedCount)
    BY <2>1, <2>4, <1>2, <1>5 DEF IInv, ContentsOK
  <2> QED
    BY <2>2, <2>5, <2>6, <1>2, <1>3 DEF IInv, ContentsOK, FirstRows
<1>11. ScoresOK'
  <2>1. \A s \in Readers : pc'[s] = "rank" => pc[s] = "rank" /\ call'[s] = call[s]
    BY <1>2, <1>5
  <2> QED
    BY <2>1, <1>2, ScoresKept
<1> QED
  BY <1>3, <1>6, <1>8, <1>9, <1>10, <1>11 DEF IInv

\* What is stored, as a matrix, when no insertion is under way.
LEMMA RowsType ==
    ASSUME StoreOK
    PROVE  Rows \in [0..(size - 1) -> Vectors] /\ size \in 0..Capacity
  BY DEF StoreOK, Rows

\* A matrix is filled while it is its builder's alone.
LEMMA UploadPreserves ==
    ASSUME IInv, NEW r \in Readers, Upload(r)
    PROVE  IInv'
<1> DEFINE m == replacement[r]
<1>1. /\ pc[r] = "upload" /\ device' = [device EXCEPT ![m] = Rows]
      /\ UNCHANGED <<gpuIndex, indexedCount, adding, entries, size, index, mode, mutex, call, scores>>
      /\ Outside
  BY DEF Upload, cache, store, Outside
<1>2. StoreOK' /\ Complete' = Complete /\ Rows' = Rows /\ Persistent' = Persistent
  BY <1>1, OutsideKeepsStore DEF IInv
<1>3. /\ pc \in PcTypes /\ DOMAIN device = Pointers \ {Nothing}
      /\ replacement \in [Readers -> Matrices \cup {Nothing}]
      /\ snapshot \in [Readers -> Matrices \cup {Nothing}]
  BY DEF IInv, ReadersOK, PointersOK
<1>4. /\ m # Nothing /\ m \in DOMAIN device /\ m # gpuIndex /\ snapshot[r] = Nothing
      /\ \A s \in Readers : m # snapshot[s] /\ (s # r => m # replacement[s])
  BY <1>1, <1>3 DEF IInv, PointersOK, Pointers
<1>5. /\ DOMAIN device' = DOMAIN device /\ device'[m] = Rows
      /\ \A n \in DOMAIN device \ {m} : device'[n] = device[n]
  <2> HIDE DEF m
  <2> QED
    BY <1>1, <1>4
<1>6. /\ pc' \in PcTypes
      /\ replacement' \in [Readers -> Matrices \cup {Nothing}]
      /\ snapshot' \in [Readers -> Matrices \cup {Nothing}]
      /\ \A s \in Readers \ {r} : pc'[s] = pc[s] /\ replacement'[s] = replacement[s]
                                  /\ snapshot'[s] = snapshot[s]
      /\ \/ Persistent /\ pc'[r] = "publish" /\ replacement'[r] = m /\ snapshot'[r] = Nothing
         \/ ~ Persistent /\ pc'[r] = "kernel" /\ replacement'[r] = Nothing /\ snapshot'[r] = m
  BY <1>1, <1>3, <1>4 DEF Upload, PcTypes, Persistent
<1>7. ReadersOK'
  <2>1. \A s \in Readers : Holds(s)' <=> Holds(s)
    BY <1>1, <1>2, <1>6 DEF Holds
  <2>2. ~ Persistent => call[r].op = "search"
    BY <1>1 DEF IInv, ReadersOK
  <2>3. \A s \in Readers : pc'[s] \in {"kernel", "rank"} \/ (~ Persistent /\ pc'[s] \in {"allocate", "upload"})
            => call[s].op = "search"
    BY <2>2, <1>1, <1>6 DEF IInv, ReadersOK
  <2> QED
    BY <2>1, <2>3, <1>1, <1>2, <1>6 DEF IInv, ReadersOK
<1>8. PointersOK'
  <2>1. Pointers' \ {Nothing} = Pointers \ {Nothing}
    <3>1. {replacement'[s] : s \in Readers} \cup {snapshot'[s] : s \in Readers} \cup {Nothing}
            = {replacement[s] : s \in Readers} \cup {snapshot[s] : s \in Readers} \cup {Nothing}
      BY <1>4, <1>6
    <3> QED
      BY <3>1, <1>1 DEF Pointers
  <2>2. \A s \in Readers : /\ replacement'[s] # Nothing <=> pc'[s] \in {"upload", "publish"}
                           /\ snapshot'[s] # Nothing <=> pc'[s] = "kernel"
    BY <1>4, <1>6 DEF IInv, PointersOK
  <2>3. \A s \in Readers : replacement'[s] # Nothing =>
          /\ replacement'[s] # gpuIndex
          /\ \A t \in Readers : replacement'[s] # snapshot'[t]
          /\ \A t \in Readers \ {s} : replacement'[s] # replacement'[t]
    BY <1>4, <1>6 DEF IInv, PointersOK
  <2> QED
    BY <2>1, <2>2, <2>3, <1>1, <1>2, <1>3, <1>5, <1>6 DEF IInv, PointersOK
<1>9. SharedOK'
  BY <1>1, <1>2, <1>6 DEF IInv, SharedOK
<1>10. ContentsOK'
  <2>1. \A n \in DOMAIN device' : \E k \in 0..Capacity : device'[n] \in [0..(k - 1) -> Vectors]
    BY <1>5, RowsType DEF IInv, ContentsOK
  <2>2. \A s \in Readers : /\ snapshot[s] # Nothing => snapshot[s] \in DOMAIN device
                           /\ replacement[s] # Nothing => replacement[s] \in DOMAIN device
    BY <1>3 DEF Pointers
  <2>3. gpuIndex # Nothing => gpuIndex \in DOMAIN device /\ device'[gpuIndex] = device[gpuIndex]
    BY <1>3, <1>4, <1>5 DEF Pointers
  <2>4. \A s \in Readers \ {r} :
          /\ pc[s] = "kernel" => device'[snapshot[s]] = device[snapshot[s]]
          /\ pc[s] = "publish" => device'[replacement[s]] = device[replacement[s]]
    BY <2>2, <1>4, <1>5 DEF IInv, PointersOK
  <2>5. \A s \in Readers : /\ pc'[s] = "kernel" => device'[snapshot'[s]] = Rows
                           /\ pc'[s] = "publish" => device'[replacement'[s]] = Rows
    BY <2>4, <1>5, <1>6 DEF IInv, ContentsOK
  <2>6. \A s \in Readers : pc'[s] = "count" => gpuIndex # Nothing /\ device'[gpuIndex] = Rows
    BY <2>3, <1>6 DEF IInv, ContentsOK
  <2>7. gpuIndex # Nothing /\ (\A s \in Readers : pc'[s] # "count") =>
          indexedCount <= Complete /\ device'[gpuIndex] = FirstRows(indexedCount)
    BY <2>3, <1>1, <1>6 DEF IInv, ContentsOK
  <2> QED
    BY <2>1, <2>5, <2>6, <2>7, <1>1, <1>2 DEF IInv, ContentsOK, FirstRows
<1>11. ScoresOK'
  <2>1. \A s \in Readers : pc'[s] = "rank" => pc[s] = "rank"
    BY <1>6
  <2> QED
    BY <2>1, <1>1 DEF IInv, ScoresOK
<1> QED
  BY <1>2, <1>7, <1>8, <1>9, <1>10, <1>11 DEF IInv

\* The shared matrix is replaced by a current one while no kernel uses it.
LEMMA PublishPreserves ==
    ASSUME IInv, NEW r \in Readers, Publish(r)
    PROVE  IInv'
<1> DEFINE m == replacement[r]
<1>1. /\ pc[r] = "publish" /\ pc' = [pc EXCEPT ![r] = "count"]
      /\ gpuIndex' = m /\ replacement' = [replacement EXCEPT ![r] = Nothing]
      /\ UNCHANGED <<indexedCount, adding, entries, size, index, mode, mutex, call, snapshot, scores>>
      /\ Outside /\ DropUnreferenced
  BY DEF Publish, store, Outside
<1>2. StoreOK' /\ Complete' = Complete /\ Rows' = Rows /\ Persistent' = Persistent
  BY <1>1, OutsideKeepsStore DEF IInv
<1>3. /\ pc \in PcTypes /\ DOMAIN device = Pointers \ {Nothing}
      /\ replacement \in [Readers -> Matrices \cup {Nothing}]
      /\ Persistent /\ m # Nothing /\ mutex = r
  BY <1>1 DEF IInv, ReadersOK, PointersOK, Holds
<1>4. /\ pc' \in PcTypes /\ pc'[r] = "count"
      /\ replacement' \in [Readers -> Matrices \cup {Nothing}] /\ replacement'[r] = Nothing
      /\ \A s \in Readers \ {r} : pc'[s] = pc[s] /\ replacement'[s] = replacement[s]
      /\ m \in Matrices
  BY <1>1, <1>3 DEF PcTypes
<1>5. \A s \in Readers \ {r} : /\ pc[s] \notin {"check", "allocate", "upload", "publish", "count"}
                               /\ replacement[s] = Nothing
  BY <1>3 DEF IInv, ReadersOK, PointersOK, Holds
<1>6. \A s \in Readers : pc[s] # "kernel" /\ snapshot[s] = Nothing
  BY <1>1, <1>3 DEF IInv, SharedOK, PointersOK
<1>7. ReadersOK'
  <2>1. \A s \in Readers : Holds(s)' <=> Holds(s)
    BY <1>1, <1>2, <1>4 DEF Holds
  <2> QED
    BY <2>1, <1>1, <1>2, <1>3, <1>4 DEF IInv, ReadersOK
<1>8. /\ DOMAIN device' = Pointers' \ {Nothing}
      /\ \A n \in DOMAIN device' : n \in DOMAIN device /\ device'[n] = device[n]
  <2>1. Pointers' \subseteq Pointers \cup {Nothing}
    BY <1>1, <1>4 DEF Pointers
  <2> QED
    BY <2>1, <1>1, DropFreesUnreferenced DEF IInv
<1>9. PointersOK'
  <2>1. \A s \in Readers : replacement'[s] = Nothing /\ pc'[s] \notin {"upload", "publish", "kernel"}
    BY <1>4, <1>5, <1>6
  <2> QED
    BY <2>1, <1>1, <1>2, <1>3, <1>4, <1>6, <1>8 DEF IInv, PointersOK
<1>10. SharedOK'
  BY <1>1, <1>2, <1>4, <1>6 DEF SharedOK
<1>11. ContentsOK'
  <2>1. m \in DOMAIN device' /\ device[m] = Rows
    BY <1>1, <1>3, <1>8 DEF Pointers, IInv, ContentsOK
  <2>2. device'[gpuIndex'] = Rows /\ gpuIndex' # Nothing
    BY <2>1, <1>1, <1>3, <1>8
  <2>3. \A n \in DOMAIN device' : \E k \in 0..Capacity : device'[n] \in [0..(k - 1) -> Vectors]
    BY <1>8 DEF IInv, ContentsOK
  <2>4. \A s \in Readers : pc'[s] \notin {"kernel", "publish"}
    BY <1>4, <1>5, <1>6
  <2> QED
    BY <2>2, <2>3, <2>4, <1>1, <1>2, <1>4 DEF IInv, ContentsOK
<1>12. ScoresOK'
  <2>1. \A s \in Readers : pc'[s] = "rank" => pc[s] = "rank"
    BY <1>4
  <2> QED
    BY <2>1, <1>1 DEF IInv, ScoresOK
<1> QED
  BY <1>2, <1>7, <1>9, <1>10, <1>11, <1>12 DEF IInv

\* A query gives up its matrix when its scores are on the host.
LEMMA KernelPreserves ==
    ASSUME IInv, NEW r \in Readers, Kernel(r)
    PROVE  IInv'
<1> DEFINE rows == device[snapshot[r]]
           sc == [e \in DOMAIN rows |-> Cosine[<<call[r].query, rows[e]>>]]
<1>1. /\ pc[r] = "kernel" /\ pc' = [pc EXCEPT ![r] = "rank"]
      /\ scores' = [scores EXCEPT ![r] = sc]
      /\ snapshot' = [snapshot EXCEPT ![r] = Nothing]
      /\ UNCHANGED <<gpuIndex, indexedCount, adding, entries, size, index, mode, mutex, call, replacement>>
      /\ Outside /\ DropUnreferenced
  BY DEF Kernel, cache, store, Outside
<1>2. StoreOK' /\ Complete' = Complete /\ Rows' = Rows /\ Persistent' = Persistent
  BY <1>1, OutsideKeepsStore DEF IInv
<1>3. /\ pc \in PcTypes /\ call \in CallTypes /\ DOMAIN device = Pointers \ {Nothing}
      /\ snapshot \in [Readers -> Matrices \cup {Nothing}]
      /\ rows = Rows /\ call[r].op = "search" /\ DOMAIN scores = Readers
  BY <1>1 DEF IInv, ReadersOK, PointersOK, ContentsOK, ScoresOK
<1>4. /\ pc' \in PcTypes /\ pc'[r] = "rank"
      /\ snapshot' \in [Readers -> Matrices \cup {Nothing}] /\ snapshot'[r] = Nothing
      /\ \A s \in Readers \ {r} : pc'[s] = pc[s] /\ snapshot'[s] = snapshot[s]
  BY <1>1, <1>3 DEF PcTypes
<1>5. ReadersOK'
  <2>1. \A s \in Readers : Holds(s)' <=> Holds(s)
    BY <1>1, <1>2, <1>4 DEF Holds
  <2>2. ~ adding
    BY <1>1 DEF IInv, ReadersOK
  <2> QED
    BY <2>1, <2>2, <1>1, <1>2, <1>3, <1>4 DEF IInv, ReadersOK
<1>6. /\ DOMAIN device' = Pointers' \ {Nothing}
      /\ \A n \in DOMAIN device' : n \in DOMAIN device /\ device'[n] = device[n]
  <2>1. Pointers' \subseteq Pointers \cup {Nothing}
    BY <1>1, <1>4 DEF Pointers
  <2> QED
    BY <2>1, <1>1, DropFreesUnreferenced DEF IInv
<1>7. PointersOK'
  <2>1. \A s \in Readers : /\ replacement[s] # Nothing <=> pc'[s] \in {"upload", "publish"}
                           /\ snapshot'[s] # Nothing <=> pc'[s] = "kernel"
    BY <1>1, <1>4 DEF IInv, PointersOK
  <2>2. \A s \in Readers : replacement[s] # Nothing => \A t \in Readers : replacement[s] # snapshot'[t]
    BY <1>4 DEF IInv, PointersOK
  <2> QED
    BY <2>1, <2>2, <1>1, <1>2, <1>4, <1>6 DEF IInv, PointersOK
<1>8. SharedOK'
  BY <1>1, <1>2, <1>4 DEF IInv, SharedOK
<1>9. ContentsOK'
  <2>1. \A s \in Readers : /\ snapshot'[s] # Nothing => snapshot'[s] \in DOMAIN device'
                           /\ replacement[s] # Nothing => replacement[s] \in DOMAIN device'
    BY <1>1, <1>6 DEF Pointers
  <2>2. gpuIndex # Nothing => gpuIndex \in DOMAIN device'
    BY <1>1, <1>6 DEF Pointers
  <2>3. \A s \in Readers : /\ pc'[s] = "kernel" => device'[snapshot'[s]] = Rows
                           /\ pc'[s] = "publish" => device'[replacement[s]] = Rows
                           /\ pc'[s] = "count" => gpuIndex # Nothing /\ device'[gpuIndex] = Rows
    BY <1>4, <1>6, <2>1, <2>2 DEF IInv, ContentsOK, PointersOK
  <2>4. gpuIndex # Nothing /\ (\A s \in Readers : pc'[s] # "count") =>
          indexedCount <= Complete /\ device'[gpuIndex] = FirstRows(indexedCount)
    BY <1>1, <1>4, <1>6, <2>2 DEF IInv, ContentsOK
  <2>5. \A n \in DOMAIN device' : \E k \in 0..Capacity : device'[n] \in [0..(k - 1) -> Vectors]
    BY <1>6 DEF IInv, ContentsOK
  <2> QED
    BY <2>3, <2>4, <2>5, <1>1, <1>2 DEF IInv, ContentsOK, FirstRows
<1>10. ScoresOK'
  <2>1. call[r].query \in Vectors
    BY <1>3 DEF CallTypes, NoCall
  <2>2. Rows \in [0..(size - 1) -> Vectors] /\ size \in 0..Capacity
    BY RowsType DEF IInv
  <2>3. sc \in [0..(size - 1) -> Int]
    BY <2>1, <2>2, <1>3, DataAssumption
  <2>4. \A e \in 0..(size - 1) : sc[e] = Cosine[<<call[r].query, entries[e].vector>>]
    BY <1>3 DEF Rows
  <2>5. DOMAIN scores' = Readers /\ scores'[r] = sc /\ \A s \in Readers \ {r} : scores'[s] = scores[s]
    <3> HIDE DEF sc
    <3> QED
      BY <1>1, <1>3
  <2> HIDE DEF sc
  <2>6. \A s \in Readers : \E n \in 0..Capacity : scores'[s] \in [0..(n - 1) -> Int]
    <3>1. \E n \in 0..Capacity : scores'[r] \in [0..(n - 1) -> Int]
      BY <2>2, <2>3, <2>5
    <3> QED
      BY <3>1, <2>5 DEF IInv, ScoresOK
  <2>7. \A s \in Readers : pc'[s] = "rank" =>
          \A e \in 0..(size - 1) : scores'[s][e] = Cosine[<<call[s].query, entries[e].vector>>]
    <3>1. ASSUME NEW s \in Readers, s # r, pc'[s] = "rank", NEW e \in 0..(size - 1)
          PROVE  scores'[s][e] = Cosine[<<call[s].query, entries[e].vector>>]
      BY <3>1, <2>5, <1>4 DEF IInv, ScoresOK
    <3>2. \A e \in 0..(size - 1) : scores'[r][e] = Cosine[<<call[r].query, entries[e].vector>>]
      BY <2>4, <2>5
    <3> QED
      BY <3>1, <3>2
  <2>8. UNCHANGED <<size, entries, call>>
    BY <1>1
  <2> QED
    BY <2>5, <2>6, <2>7, <2>8 DEF ScoresOK
<1> QED
  BY <1>2, <1>5, <1>7, <1>8, <1>9, <1>10 DEF IInv

\* Each step keeps the invariant.
LEMMA Inductive == IInv /\ [Next]_vars => IInv'
<1> SUFFICES ASSUME IInv, [Next]_vars PROVE IInv'
  OBVIOUS
<1>1. CASE UNCHANGED <<mode, store, mutex, cache, device, pc, call, replacement, snapshot, scores>>
  <2>1. /\ UNCHANGED <<entries, size, index, adding, gpuIndex, indexedCount, mode>>
        /\ UNCHANGED <<mutex, device, pc, call, replacement, snapshot, scores>>
    BY <1>1 DEF store, cache
  <2>2. StoreOK' /\ ReadersOK'
    BY <2>1 DEF IInv, StoreOK, Complete, ReadersOK, Holds, Persistent
  <2>3. PointersOK' /\ SharedOK'
    BY <2>1 DEF IInv, PointersOK, Pointers, SharedOK, Persistent
  <2>4. ContentsOK'
    BY <2>1 DEF IInv, ContentsOK, FirstRows, Rows, Complete
  <2>5. ScoresOK'
    BY <2>1 DEF IInv, ScoresOK
  <2> QED
    BY <2>2, <2>3, <2>4, <2>5 DEF IInv
<1>2. CASE \/ RefuseInvalid \/ \E i \in Ids : RefuseDuplicate(i)
           \/ \E q \in Vectors, k \in Counts : SearchNothing(q, k)
           \/ UNCHANGED vars
  BY <1>1, <1>2 DEF RefuseInvalid, RefuseDuplicate, SearchNothing, Refuse, vars
<1>3. ASSUME NEW r \in Readers, NothingToBuild(r) \/ Rank(r) \/ ReaderFails(r)
      PROVE  IInv'
  <2>1. pc[r] \in {"check", "allocate", "upload", "kernel", "rank"} /\ \E res : Leave(r, res)
    BY <1>3 DEF NothingToBuild, Rank, ReaderFails
  <2> QED
    BY <2>1, LeavePreserves
<1>4. ASSUME NEW r \in Readers, ReaderStep(r) PROVE IInv'
  BY <1>3, <1>4, LockPreserves, ReusePreserves, RebuildPreserves, AllocatePreserves,
     UploadPreserves, PublishPreserves, KernelPreserves DEF ReaderStep
<1>5. CASE AddStep
  BY <1>5, AddPreserves
<1> QED
  BY <1>2, <1>4, <1>5, EnterPreserves DEF Next, AddStep

----------------------------------------------------------------------------
(* The invariants *)

\* The state of the store, the cache and every reader is well formed.
THEOREM TypeCorrect == Spec => []TypeOK
<1>1. ASSUME IInv PROVE TypeOK
  <2>1. /\ mode \in {"Persistent", "PerQuery"} /\ size \in 0..Capacity
        /\ entries \in [0..(size - 1) -> [id : Ids, vector : Vectors]]
        /\ DOMAIN index \subseteq Ids /\ \A i \in DOMAIN index : index[i] \in 0..(Complete - 1)
        /\ adding \in BOOLEAN /\ (adding => size > 0)
    BY <1>1 DEF IInv, StoreOK
  <2>2. DOMAIN device \subseteq Matrices
    BY <1>1 DEF IInv, PointersOK, Pointers
  <2> QED
    BY <1>1, <2>1, <2>2
       DEF IInv, ReadersOK, PointersOK, ContentsOK, ScoresOK, PcTypes, CallTypes, TypeOK
<1> QED
  BY <1>1, InitEstablishes, Inductive, PTL DEF Spec

\* However many readers there are, and whatever throws, a kernel runs on an
\* allocated matrix with exactly the vectors that are stored.
THEOREM KernelsSeeEntries == Spec => []KernelSeesEntries
<1>1. IInv => KernelSeesEntries
  BY DEF IInv, PointersOK, Pointers, ContentsOK, KernelSeesEntries
<1> QED
  BY <1>1, InitEstablishes, Inductive, PTL DEF Spec

\* A pair has at most two members.
LEMMA PairCardinality ==
    ASSUME NEW a, NEW b, NEW S \in SUBSET {a, b}
    PROVE  Cardinality(S) <= 2
<1>1. IsFiniteSet({a}) /\ Cardinality({a}) = 1
  BY FS_Singleton
<1>2. IsFiniteSet({a} \cup {b}) /\ Cardinality({a} \cup {b}) \in {1, 2}
  BY <1>1, FS_AddElement
<1>3. S \in SUBSET ({a} \cup {b})
  OBVIOUS
<1>4. Cardinality(S) \in Nat /\ Cardinality(S) <= Cardinality({a} \cup {b})
  BY <1>2, <1>3, FS_Subset, FS_CardinalityType
<1> QED
  BY <1>2, <1>4

LEMMA TwoMatrices ==
    ASSUME IInv, Persistent
    PROVE  Cardinality(DOMAIN device) <= 2
<1>1. DOMAIN device = Pointers \ {Nothing}
  BY DEF IInv, PointersOK
<1>2. \A s \in Readers : snapshot[s] \in {gpuIndex, Nothing}
  BY DEF IInv, PointersOK, SharedOK
<1>3. \A s \in Readers : replacement[s] # Nothing => mutex = s
  BY DEF IInv, PointersOK, ReadersOK, Holds
<1>4. CASE mutex \in Readers
  <2>1. DOMAIN device \in SUBSET {gpuIndex, replacement[mutex]}
    BY <1>1, <1>2, <1>3, <1>4 DEF Pointers
  <2> QED
    BY <2>1, PairCardinality
<1>5. CASE mutex \notin Readers
  <2>1. DOMAIN device \in SUBSET {gpuIndex, gpuIndex}
    BY <1>1, <1>2, <1>3, <1>5 DEF Pointers
  <2> QED
    BY <2>1, PairCardinality
<1> QED
  BY <1>4, <1>5

\* Between calls the device holds the shared matrix and nothing else, and in
\* persistent mode never more than two, for any number of readers and on
\* every path of an exception.
THEOREM DeviceMemoryIsFreed == Spec => []NothingLeaks
<1>1. ASSUME IInv PROVE NothingLeaks
  <2>1. ASSUME Active = {} PROVE DOMAIN device = {gpuIndex} \ {Nothing}
    <3>1. \A r \in Readers : pc[r] = "idle"
      BY <2>1 DEF Active
    <3>2. \A r \in Readers : replacement[r] = Nothing /\ snapshot[r] = Nothing
      BY <3>1, <1>1 DEF IInv, PointersOK
    <3> QED
      BY <3>2, <1>1 DEF IInv, PointersOK, Pointers
  <2> QED
    BY <2>1, <1>1, TwoMatrices DEF NothingLeaks
<1> QED
  BY <1>1, InitEstablishes, Inductive, PTL DEF Spec

----------------------------------------------------------------------------
(* The refinement *)

All(q) == {Candidate(entries[e].id, Cosine[<<q, entries[e].vector>>]) : e \in 0..(size - 1)}

\* With no insertion half done, the entries are what the map says is stored.
LEMMA EntriesAreItems ==
    ASSUME StoreOK, ~ adding, NEW q \in Vectors
    PROVE  /\ All(q) = API!Scored(q)
           /\ Rankable(All(q)) /\ Cardinality(All(q)) = size
<1> DEFINE f == [e \in 0..(size - 1) |-> Candidate(entries[e].id, Cosine[<<q, entries[e].vector>>])]
<1>1. /\ \A e \in 0..(size - 1) : entries[e].id \in DOMAIN index /\ index[entries[e].id] = e
      /\ \A i \in DOMAIN index : index[i] \in 0..(size - 1) /\ entries[index[i]].id = i
      /\ size \in Nat
  BY CacheAssumption DEF StoreOK, Complete
<1>2. \A e \in 0..(size - 1) : entries[e].id \in Int /\ Cosine[<<q, entries[e].vector>>] \in Int
  <2>1. \A e \in 0..(size - 1) : entries[e].id \in Ids /\ entries[e].vector \in Vectors
    BY DEF StoreOK
  <2> QED
    BY <2>1, DataAssumption
<1>3. \A e \in 0..(size - 1) : /\ f[e].id = entries[e].id /\ f[e].id \in Int
                                /\ f[e].score \in Int
  BY <1>2 DEF Candidate
<1>4. /\ \A e \in 0..(size - 1) : f[e] \in All(q)
      /\ \A c \in All(q) : \E e \in 0..(size - 1) : f[e] = c
  BY DEF All
<1>5. All(q) = API!Scored(q)
  <2>1. ASSUME NEW e \in 0..(size - 1) PROVE f[e] \in API!Scored(q)
    <3>1. entries[e].id \in DOMAIN index /\ index[entries[e].id] = e
      BY <1>1
    <3> QED
      BY <3>1 DEF API!Scored, API!Candidate, Candidate
  <2>2. ASSUME NEW i \in DOMAIN index
        PROVE  Candidate(i, Cosine[<<q, entries[index[i]].vector>>]) \in All(q)
    BY <1>1 DEF All
  <2>3. API!Scored(q) \subseteq All(q)
    BY <2>2 DEF API!Scored, API!Candidate, Candidate
  <2> QED
    BY <2>1, <2>3, <1>4
<1> HIDE DEF f
<1>6. \A d, e \in 0..(size - 1) : f[d].id = f[e].id => d = e
  BY <1>1, <1>3
<1>7. Rankable(All(q)) /\ Cardinality(All(q)) = size
  <2>1. size \in Nat /\ \A e \in 0..(size - 1) : f[e].id \in Int /\ f[e].score \in Int
    BY <1>1, <1>3
  <2> HIDE DEF All
  <2> QED
    BY <2>1, <1>4, <1>6, ScoredEntries
<1> QED
  BY <1>5, <1>7

\* The store counts and ranks as the backend does.
LEMMA SameRanking ==
    ASSUME NEW S
    PROVE  /\ API!Cardinality(S) = Cardinality(S)
           /\ \A k : API!Best(k, S) = Best(k, S) /\ API!Lesser(k, Cardinality(S)) = Lesser(k, Cardinality(S))
<1>1. \A T : API!Cardinality(T) = Cardinality(T)
  BY DEF API!Cardinality, Cardinality
<1>2. \A T, c : API!Above(T, c) = Above(T, c)
  BY DEF API!Above, Above, API!Better, Better
<1> QED
  BY <1>1, <1>2 DEF API!Best, Best, API!Lesser, Lesser

\* The best k of the scores of all entries are an answer of the store.
LEMMA ExactAnswer ==
    ASSUME StoreOK, ~ adding, NEW q \in Vectors, NEW k \in Counts,
           reply' = API!Found(q, k, size, Best(Lesser(k, size), All(q))),
           UNCHANGED <<entries, index>>
    PROVE  API!Next
<1> DEFINE S == API!Scored(q)
           R == Best(k, S)
<1>1. k \in Nat /\ size \in 0..Capacity
  BY DataAssumption DEF StoreOK
<1>2. All(q) = S /\ Rankable(S) /\ Cardinality(S) = size
  BY EntriesAreItems
<1> HIDE DEF S
<1>3. R \in SUBSET S /\ Cardinality(R) = Lesser(k, size) /\ Best(Lesser(k, size), S) = R
  BY <1>1, <1>2, BestWanted
<1>4. R \in API!Acceptable(k, size, S)
  <2> HIDE DEF R
  <2>1. R = API!Best(k, S) /\ API!Cardinality(R) = API!Lesser(k, API!Cardinality(S))
    BY <1>2, <1>3, SameRanking DEF R
  <2> QED
    BY <2>1, <1>3 DEF API!Acceptable
<1>5. reply' = API!Found(q, k, size, R)
  BY <1>2, <1>3
<1> HIDE DEF R
<1>6. API!Answer(q, k, size)
  BY <1>4, <1>5 DEF API!Answer, S
<1> QED
  BY <1>1, <1>6 DEF API!Next

LEMMA NothingAnswers ==
    ASSUME StoreOK, NEW q \in Vectors, NEW k \in Counts, SearchNothing(q, k)
    PROVE  API!Next
<1>1. /\ k = 0 \/ size = 0
      /\ ~ adding /\ reply' = API!Found(q, k, size, {}) /\ UNCHANGED <<entries, index>>
  BY DEF SearchNothing, Refuse, store
<1>2. k \in Nat /\ size \in Nat
  BY DataAssumption, CacheAssumption DEF StoreOK
<1>3. Lesser(k, size) = 0
  BY <1>1, <1>2 DEF Lesser
<1>4. Rankable(All(q))
  BY <1>1, EntriesAreItems
<1>5. Best(0, All(q)) = {}
  <2>1. \A c : Cardinality(Above(All(q), c)) \in Nat
    BY <1>4, AboveFinite
  <2> QED
    BY <2>1 DEF Best
<1> QED
  BY <1>1, <1>3, <1>5, ExactAnswer

\* The host pairs the scores with the entries they were computed from.
LEMMA RankAnswers ==
    ASSUME IInv, NEW r \in Readers, Rank(r)
    PROVE  API!Next
<1> DEFINE c == call[r]
           scored == {Candidate(entries[e].id, scores[r][e]) : e \in 0..(size - 1)}
<1>1. pc[r] = "rank" /\ UNCHANGED <<entries, index>>
      /\ reply' = API!Found(c.query, c.count, size, Best(Lesser(c.count, size), scored))
  BY DEF Rank, Leave, store
<1>2. c.query \in Vectors /\ c.count \in Counts /\ ~ adding
  BY <1>1 DEF IInv, ReadersOK, CallTypes, NoCall
<1>3. \A e \in 0..(size - 1) : scores[r][e] = Cosine[<<c.query, entries[e].vector>>]
  BY <1>1 DEF IInv, ScoresOK
<1>4. scored = All(c.query)
  BY <1>3 DEF All
<1> HIDE DEF c, scored
<1> QED
  BY <1>1, <1>2, <1>4, ExactAnswer DEF IInv

\* Emplacing the ID is the insertion.
LEMMA EmplaceAdds ==
    ASSUME StoreOK, EmplaceId
    PROVE  API!Next
<1> DEFINE i == entries[size - 1].id
           v == entries[size - 1].vector
<1>1. /\ adding /\ UNCHANGED <<entries, size>> /\ reply' = API!Stored(i)
      /\ index' = [j \in DOMAIN index \cup {i} |-> IF j = i THEN size - 1 ELSE index[j]]
  BY DEF EmplaceId
<1>2. i \notin DOMAIN index /\ size \in 1..Capacity
  BY <1>1, CacheAssumption DEF StoreOK
<1>3. i \in Ids /\ v \in Vectors
  BY <1>2 DEF StoreOK
<1> HIDE DEF i
<1>4. /\ DOMAIN index' = DOMAIN index \cup {i} /\ index'[i] = size - 1
      /\ \A j \in DOMAIN index : index'[j] = index[j]
  BY <1>1, <1>2
<1>5. [j \in DOMAIN index' |-> entries'[index'[j]].vector]
        = [j \in DOMAIN index \cup {i} |-> IF j = i THEN v ELSE entries[index[j]].vector]
  <2>1. \A j \in DOMAIN index \cup {i} :
          entries'[index'[j]].vector = IF j = i THEN v ELSE entries[index[j]].vector
    BY <1>1, <1>2, <1>4
  <2> QED
    BY <2>1, <1>4
<1>6. API!Add(i, v)
  BY <1>1, <1>2, <1>5 DEF API!Add
<1>7. \E j \in Ids, w \in Vectors : API!Add(j, w)
  <2>1. \E w \in Vectors : w = v
    BY <1>3
  <2>2. PICK w \in Vectors : w = v
    BY <2>1
  <2> QED
    BY <1>3, <1>6, <2>2 DEF API!Add
<1> QED
  BY <1>7 DEF API!Next

\* The halves of an insertion that is not completed do not show.
LEMMA HalvesHidden ==
    ASSUME StoreOK, (\E i \in Ids, v \in Vectors : PushEntry(i, v)) \/ EmplaceFails
    PROVE  [API!Next]_API!vars
<1>1. size \in Nat
  BY CacheAssumption DEF StoreOK
<1>2. UNCHANGED index /\ reply' \in {API!NoReply, API!Failed}
  BY DEF PushEntry, EmplaceFails
<1>3. \A e \in 0..(Complete - 1) : entries'[e] = entries[e]
  BY <1>1 DEF PushEntry, EmplaceFails, Complete, StoreOK
<1>4. \A i \in DOMAIN index : index[i] \in 0..(Complete - 1)
  BY DEF StoreOK
<1>5. [i \in DOMAIN index' |-> entries'[index'[i]].vector]
        = [i \in DOMAIN index |-> entries[index[i]].vector]
  BY <1>2, <1>3, <1>4
<1> QED
  BY <1>2, <1>5 DEF API!Next, API!Start, API!Throw

LEMMA StepSimulates ==
    ASSUME IInv, Next
    PROVE  [API!Next]_API!vars
<1>1. CASE RefuseInvalid
  BY <1>1 DEF RefuseInvalid, Refuse, store, API!Next, API!Throw
<1>2. ASSUME NEW i \in Ids, RefuseDuplicate(i) PROVE API!Next
  BY <1>2 DEF RefuseDuplicate, Refuse, store, API!Next, API!RefuseDuplicate
<1>3. ASSUME NEW r \in Readers,
             (\E q \in Vectors, k \in Counts : BeginSearch(r, q, k)) \/ BeginBuild(r)
      PROVE  API!Next
  <2>1. reply' = API!NoReply /\ UNCHANGED <<entries, index>>
    BY <1>3 DEF BeginSearch, BeginBuild, Enter, store
  <2> QED
    BY <2>1 DEF API!Next, API!Start
<1>4. ASSUME NEW r \in Readers,
             \/ Lock(r) \/ Rebuild(r) \/ Allocate(r) \/ Upload(r) \/ Publish(r) \/ Kernel(r)
             \/ Reuse(r) \/ SetCount(r) \/ NothingToBuild(r)
      PROVE  [API!Next]_API!vars
  <2>1. reply' \in {reply, API!NoReply} /\ UNCHANGED <<entries, index>>
    BY <1>4 DEF Lock, Rebuild, Allocate, Upload, Publish, Kernel, Reuse, SetCount,
                NothingToBuild, HandOut, Leave, store
  <2> QED
    BY <2>1 DEF API!Next, API!Start, API!vars
<1>5. ASSUME NEW r \in Readers, ReaderFails(r) PROVE API!Next
  BY <1>5 DEF ReaderFails, Leave, store, API!Next, API!Throw
<1>6. ASSUME NEW r \in Readers, ReaderStep(r) PROVE [API!Next]_API!vars
  BY <1>4, <1>5, <1>6, RankAnswers DEF ReaderStep
<1> QED
  BY <1>1, <1>2, <1>3, <1>6, EmplaceAdds, HalvesHidden, NothingAnswers DEF Next, IInv

\* To every one of its readers the backend is an exact vector store, for any
\* number of readers and entries: no search uses a matrix from before an
\* insertion, and no failure on the device changes what is stored.
THEOREM ImplementsVectorStore == Spec => ImplementsStore
<1>1. Init => API!Init
  BY DEF Init, API!Init
<1>2. IInv /\ [Next]_vars => [API!Next]_API!vars
  <2> SUFFICES ASSUME IInv, [Next]_vars PROVE [API!Next]_API!vars
    OBVIOUS
  <2>1. CASE UNCHANGED vars
    BY <2>1 DEF vars, store, API!vars
  <2> QED
    BY <2>1, StepSimulates
<1> QED
  BY <1>1, <1>2, InitEstablishes, Inductive, PTL DEF Spec, ImplementsStore, API!Spec
=============================================================================
