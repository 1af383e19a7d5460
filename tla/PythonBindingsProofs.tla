------------------------ MODULE PythonBindingsProofs ------------------------
(***************************************************************************)
(* That PythonBindings implements VectorStore, for any number of threads,  *)
(* IDs, components and entries: each step of a thread is a step of the     *)
(* abstract store or leaves it as it is.  The invariant behind it: who is  *)
(* between the two halves of an insertion has the GIL.                     *)
(***************************************************************************)
EXTENDS PythonBindings, RankingProofs, FunctionTheorems

\* The map and the complete entries describe the same store.
Consistent ==
    /\ \A e \in 0..(Complete - 1) : entries[e].id \in DOMAIN index /\ index[entries[e].id] = e
    /\ \A i \in DOMAIN index : entries[index[i]].id = i

HalfInsertionHasGIL ==
    \A t \in Threads : Emplacing(t) =>
        gil = t /\ size > 0 /\ entries[size - 1].id \notin DOMAIN index

IInv == TypeOK /\ Consistent /\ HalfInsertionHasGIL

\* Nobody is within an insertion while another thread works.
LEMMA NobodyEmplaces ==
    ASSUME IInv, gil = Nobody \/ (\E t \in Threads : gil = t /\ ~ Emplacing(t))
    PROVE  (\A t \in Threads : ~ Emplacing(t)) /\ Complete = size
  BY DataAssumption DEF IInv, HalfInsertionHasGIL, Complete

\* A thread within an insertion is the only one.
LEMMA OneEmplaces ==
    ASSUME IInv, NEW t \in Threads, Emplacing(t)
    PROVE  /\ \A u \in Threads : Emplacing(u) <=> u = t
           /\ Complete = size - 1 /\ gil = t /\ size > 0
           /\ entries[size - 1].id \notin DOMAIN index
  BY DEF IInv, HalfInsertionHasGIL, Complete

\* What a step of a thread that stays out of the store leaves as it was.
OutsideStore(t) ==
    /\ UNCHANGED store
    /\ gil = Nobody \/ gil = t
    /\ gil' \in {Nobody, t}
    /\ pc[t] # "emplace" /\ pc'[t] # "emplace"
    /\ \A u \in Threads \ {t} : pc'[u] = pc[u]

LEMMA OutsidePreserves ==
    ASSUME IInv, NEW t \in Threads, OutsideStore(t)
    PROVE  Consistent' /\ HalfInsertionHasGIL' /\ Complete' = size'
<1>1. \A u \in Threads : ~ Emplacing(u)
  BY NobodyEmplaces DEF OutsideStore, Emplacing
<1>2. \A u \in Threads : ~ Emplacing(u)'
  BY <1>1 DEF OutsideStore, Emplacing
<1>3. Complete = size /\ Complete' = size'
  BY <1>1, <1>2 DEF Complete
<1>4. UNCHANGED <<entries, size, index>>
  BY DEF OutsideStore, store
<1> QED
  BY <1>2, <1>3, <1>4 DEF IInv, Consistent, HalfInsertionHasGIL

LEMMA InitEstablishes == Init => IInv
  BY DataAssumption DEF Init, IInv, TypeOK, Consistent, HalfInsertionHasGIL, Emplacing, Complete, NoCall

----------------------------------------------------------------------------
(* Steps that stay out of the store *)

Locals ==
    /\ gil \in Threads \cup {Nobody}
    /\ pc \in [Threads -> {"python", "copy", "loop", "convert", "call", "emplace", "deliver"}]
    /\ call \in [Threads -> [op : {"add"}, id : Ids] \cup [op : {"search"}, count : Counts]
                              \cup {NoCall}]
    /\ length \in [Threads -> 0..MaxLength]
    /\ values \in [Threads -> Seq(Components)]

Outside(t) ==
    \/ Acquire(t) \/ Release(t)
    \/ \E i \in Ids : Enter(t, [op |-> "add", id |-> i])
    \/ \E k \in Counts : Enter(t, [op |-> "search", count |-> k])
    \/ RejectArgument(t) \/ CopyBuffer(t) \/ CheckLength(t)
    \/ StartLoop(t) \/ ConvertItem(t) \/ CopyFails(t) \/ EndLoop(t)
    \/ RefuseDimension(t) \/ RefuseDuplicate(t)
    \/ Search(t) \/ CallFails(t) \/ Deliver(t)

LEMMA GotoOutside ==
    ASSUME NEW t \in Threads, Locals,
           NEW p \in {"python", "copy", "loop", "convert", "call", "deliver"},
           Goto(t, p), pc[t] # "emplace", UNCHANGED store
    PROVE  /\ OutsideStore(t)
           /\ gil' \in Threads \cup {Nobody}
           /\ pc' \in [Threads -> {"python", "copy", "loop", "convert", "call", "emplace", "deliver"}]
  BY DEF Goto, OutsideStore, Locals

LEMMA LeaveOutside ==
    ASSUME NEW t \in Threads, Locals, NEW r, Leave(t, r), pc[t] # "emplace", UNCHANGED store
    PROVE  OutsideStore(t) /\ Locals'
<1>1. Goto(t, "python") /\ call' = [call EXCEPT ![t] = NoCall]
      /\ length' = [length EXCEPT ![t] = 0] /\ values' = [values EXCEPT ![t] = <<>>]
  BY DEF Leave
<1>2. /\ call' \in [Threads -> [op : {"add"}, id : Ids] \cup [op : {"search"}, count : Counts]
                                   \cup {NoCall}]
      /\ length' \in [Threads -> 0..MaxLength]
      /\ values' \in [Threads -> Seq(Components)]
  BY <1>1, DataAssumption DEF Locals
<1>3. /\ OutsideStore(t)
      /\ gil' \in Threads \cup {Nobody}
      /\ pc' \in [Threads -> {"python", "copy", "loop", "convert", "call", "emplace", "deliver"}]
  BY <1>1, GotoOutside
<1> QED
  BY <1>2, <1>3 DEF Locals

LEMMA OutsideSteps ==
    ASSUME NEW t \in Threads, IInv, Outside(t)
    PROVE  OutsideStore(t) /\ Locals'
<1>0. Locals
  BY DEF IInv, TypeOK, Locals
<1>1. CASE Acquire(t) \/ Release(t)
  <2>1. Locals'
    BY <1>0, <1>1 DEF Acquire, Release, copy, Locals
  <2>2. pc[t] # "emplace" /\ UNCHANGED pc
    BY <1>1, NobodyEmplaces DEF Acquire, Release, Emplacing
  <2> QED
    BY <2>1, <2>2, <1>1 DEF Acquire, Release, OutsideStore, store
<1>2. ASSUME NEW c \in [op : {"add"}, id : Ids] \cup [op : {"search"}, count : Counts],
             Enter(t, c)
      PROVE  OutsideStore(t) /\ Locals'
  <2>1. Goto(t, "copy") /\ pc[t] # "emplace" /\ UNCHANGED store
        /\ call' = [call EXCEPT ![t] = c] /\ UNCHANGED <<length, values>>
    BY <1>2 DEF Enter
  <2> QED
    BY <1>0, <2>1, GotoOutside DEF Locals
<1>3. CASE \/ RejectArgument(t) \/ CopyFails(t) \/ RefuseDimension(t) \/ RefuseDuplicate(t)
           \/ CallFails(t) \/ Deliver(t)
  <2>1. pc[t] # "emplace" /\ UNCHANGED store /\ \E r : Leave(t, r)
    BY <1>3 DEF RejectArgument, CopyFails, RefuseDimension, RefuseDuplicate, CallFails, Deliver
  <2> QED
    BY <1>0, <2>1, LeaveOutside
<1>4. CASE CopyBuffer(t)
  <2>1. PICK v \in Vectors : values' = [values EXCEPT ![t] = v]
    BY <1>4 DEF CopyBuffer
  <2>2. v \in Seq(Components)
    BY DataAssumption DEF Vectors
  <2>3. Goto(t, "call") /\ pc[t] # "emplace" /\ UNCHANGED <<call, length, store>>
    BY <1>4 DEF CopyBuffer
  <2> QED
    BY <1>0, <2>1, <2>2, <2>3, GotoOutside DEF Locals
<1>5. CASE CheckLength(t) \/ EndLoop(t) \/ Search(t)
  <2>1. /\ Goto(t, "loop") \/ Goto(t, "call") \/ Goto(t, "deliver")
        /\ pc[t] # "emplace" /\ UNCHANGED <<call, length, values, store>>
    BY <1>5 DEF CheckLength, EndLoop, Search, copy
  <2> QED
    BY <1>0, <2>1, GotoOutside DEF Locals
<1>6. CASE StartLoop(t)
  <2>1. /\ Goto(t, "convert") /\ pc[t] # "emplace" /\ UNCHANGED <<call, values, store>>
        /\ \E n \in 0..MaxLength : length' = [length EXCEPT ![t] = n]
    BY <1>6 DEF StartLoop
  <2>2. length' \in [Threads -> 0..MaxLength]
    BY <1>0, <2>1 DEF Locals
  <2> QED
    BY <1>0, <2>1, <2>2, GotoOutside DEF Locals
<1>7. CASE ConvertItem(t)
  <2>1. PICK x \in Components : values' = [values EXCEPT ![t] = Append(@, x)]
    BY <1>7 DEF ConvertItem
  <2>2. values' \in [Threads -> Seq(Components)]
    BY <1>0, <2>1 DEF Locals
  <2> QED
    BY <1>0, <1>7, <2>2 DEF ConvertItem, OutsideStore, store, Locals
<1> QED
  BY <1>1, <1>2, <1>3, <1>4, <1>5, <1>6, <1>7 DEF Outside

LEMMA OutsideKeepsInvariant ==
    ASSUME IInv, NEW t \in Threads, Outside(t)
    PROVE  IInv'
<1>2. OutsideStore(t) /\ Locals'
  BY OutsideSteps
<1>3. Consistent' /\ HalfInsertionHasGIL' /\ Complete' = size'
  BY <1>2, OutsidePreserves
<1>4. Complete = size
  BY <1>2, NobodyEmplaces DEF OutsideStore, Emplacing
<1>5. UNCHANGED <<entries, size, index>>
  BY <1>2 DEF OutsideStore, store
<1>6. TypeOK'
  BY <1>2, <1>3, <1>4, <1>5 DEF IInv, TypeOK, Locals
<1> QED
  BY <1>3, <1>6 DEF IInv

----------------------------------------------------------------------------
(* The two halves of an insertion *)

LEMMA PushPreserves ==
    ASSUME IInv, NEW t \in Threads, PushEntry(t)
    PROVE  IInv'
<1>1. /\ gil = t /\ pc[t] = "call" /\ size < Capacity /\ size \in Nat
      /\ call[t].op = "add" /\ call[t].id \notin DOMAIN index /\ Len(values[t]) = Dimension
      /\ UNCHANGED <<gil, call, length, values, index>>
      /\ pc' = [pc EXCEPT ![t] = "emplace"] /\ size' = size + 1
  BY DataAssumption DEF PushEntry, Goto, RightDimension, copy, IInv, TypeOK
<1>2. (\A u \in Threads : ~ Emplacing(u)) /\ Complete = size
  BY <1>1, NobodyEmplaces DEF Emplacing
<1>3. \A u \in Threads : Emplacing(u)' <=> u = t
  BY <1>1, <1>2 DEF Emplacing, IInv, TypeOK
<1>4. Complete' = size
  BY <1>1, <1>3 DEF Complete
<1>5. call[t].id \in Ids /\ values[t] \in Vectors
  BY <1>1, DataAssumption DEF IInv, TypeOK, NoCall, Vectors
<1>6. /\ entries' \in [0..size -> [id : Ids, vector : Vectors]]
      /\ entries'[size] = [id |-> call[t].id, vector |-> values[t]]
      /\ \A e \in 0..(size - 1) : entries'[e] = entries[e]
  <2>1. entries' = [e \in 0..size |-> IF e = size THEN [id |-> call[t].id, vector |-> values[t]]
                                      ELSE entries[e]]
    BY DEF PushEntry
  <2>2. \A e \in 0..size : e # size => e \in 0..(size - 1)
    BY <1>1
  <2>3. \A e \in 0..(size - 1) : e \in 0..size /\ e # size
    BY <1>1
  <2> QED
    BY <2>1, <2>2, <2>3, <1>1, <1>5 DEF IInv, TypeOK
<1>7. TypeOK'
  <2>1. size' - 1 = size /\ size' \in 0..Capacity
    BY <1>1, DataAssumption
  <2>2. pc' \in [Threads -> {"python", "copy", "loop", "convert", "call", "emplace", "deliver"}]
    BY <1>1 DEF IInv, TypeOK
  <2>3. \A i \in DOMAIN index' : index'[i] \in 0..(Complete' - 1)
    BY <1>1, <1>2, <1>4 DEF IInv, TypeOK
  <2> QED
    BY <1>1, <1>6, <2>1, <2>2, <2>3 DEF IInv, TypeOK
<1>8. Consistent'
  <2>1. \A e \in 0..(size - 1) : entries'[e].id \in DOMAIN index /\ index[entries'[e].id] = e
    BY <1>2, <1>6 DEF IInv, Consistent
  <2>2. \A i \in DOMAIN index : index[i] \in 0..(size - 1) /\ entries'[index[i]].id = i
    BY <1>2, <1>6 DEF IInv, Consistent, TypeOK
  <2> QED
    BY <2>1, <2>2, <1>1, <1>4 DEF Consistent
<1>9. HalfInsertionHasGIL'
  <2>1. size' - 1 = size /\ size' > 0
    BY <1>1
  <2> QED
    BY <2>1, <1>1, <1>3, <1>6 DEF HalfInsertionHasGIL
<1> QED
  BY <1>7, <1>8, <1>9 DEF IInv

\* What the second half leaves: nobody inserts, the caller is back in Python.
LEMMA BackInPython ==
    ASSUME IInv, NEW t \in Threads, NEW r, pc[t] = "emplace", Leave(t, r)
    PROVE  /\ \A u \in Threads : ~ Emplacing(u)'
           /\ Complete' = size' /\ Complete = size - 1 /\ size \in 1..Capacity
           /\ entries[size - 1].id \notin DOMAIN index
           /\ Locals' /\ HalfInsertionHasGIL'
<1>1. Locals /\ size \in Nat
  BY DataAssumption DEF IInv, TypeOK, Locals
<1>2. /\ pc' = [pc EXCEPT ![t] = "python"] /\ UNCHANGED gil
      /\ call' = [call EXCEPT ![t] = NoCall]
      /\ length' = [length EXCEPT ![t] = 0] /\ values' = [values EXCEPT ![t] = <<>>]
  BY DEF Leave, Goto
<1>3. /\ \A u \in Threads : Emplacing(u) <=> u = t
      /\ Complete = size - 1 /\ gil = t /\ size > 0
      /\ entries[size - 1].id \notin DOMAIN index
  BY OneEmplaces DEF Emplacing
<1>4. \A u \in Threads : ~ Emplacing(u)'
  BY <1>1, <1>2, <1>3 DEF Emplacing, Locals
<1>5. Locals'
  BY <1>1, <1>2, DataAssumption DEF Locals
<1> QED
  BY <1>1, <1>3, <1>4, <1>5, DataAssumption DEF Complete, HalfInsertionHasGIL, IInv, TypeOK

LEMMA EmplacePreserves ==
    ASSUME IInv, NEW t \in Threads, EmplaceId(t)
    PROVE  IInv'
<1> DEFINE i == entries[size - 1].id
<1>1. /\ pc[t] = "emplace" /\ UNCHANGED <<entries, size>> /\ Leave(t, API!Stored(i))
      /\ index' = [j \in DOMAIN index \cup {i} |-> IF j = i THEN size - 1 ELSE index[j]]
  BY DEF EmplaceId
<1>2. /\ Complete' = size' /\ Complete = size - 1 /\ size \in 1..Capacity
      /\ i \notin DOMAIN index /\ Locals' /\ HalfInsertionHasGIL'
  BY <1>1, BackInPython
<1>3. i \in Ids
  BY <1>2 DEF IInv, TypeOK
<1>4. /\ DOMAIN index' = DOMAIN index \cup {i} /\ index'[i] = size - 1
      /\ \A j \in DOMAIN index : index'[j] = index[j]
  BY <1>1, <1>2
<1> HIDE DEF i
<1>5. \A j \in DOMAIN index' : index'[j] \in 0..(size - 1)
  <2>1. \A j \in DOMAIN index : index[j] \in 0..(size - 2)
    BY <1>2 DEF IInv, TypeOK
  <2> QED
    BY <2>1, <1>2, <1>4
<1>6. TypeOK'
  BY <1>1, <1>2, <1>3, <1>4, <1>5 DEF IInv, TypeOK, Locals
<1>7. \A e \in 0..(size - 1) : entries[e].id \in DOMAIN index' /\ index'[entries[e].id] = e
  <2>1. \A e \in 0..(size - 2) : entries[e].id \in DOMAIN index /\ index[entries[e].id] = e
    BY <1>2 DEF IInv, Consistent
  <2>2. \A e \in 0..(size - 1) : e \in 0..(size - 2) \/ e = size - 1
    BY <1>2
  <2> QED
    BY <2>1, <2>2, <1>4 DEF i
<1>8. \A j \in DOMAIN index' : entries[index'[j]].id = j
  BY <1>4 DEF IInv, Consistent, i
<1>9. Consistent'
  BY <1>1, <1>2, <1>7, <1>8 DEF Consistent
<1> QED
  BY <1>2, <1>6, <1>9 DEF IInv

LEMMA FailPreserves ==
    ASSUME IInv, NEW t \in Threads, EmplaceFails(t)
    PROVE  IInv'
<1>1. /\ pc[t] = "emplace" /\ UNCHANGED index /\ Leave(t, API!Failed) /\ size' = size - 1
      /\ entries' = [e \in 0..(size - 2) |-> entries[e]]
  BY DEF EmplaceFails
<1>2. /\ Complete' = size' /\ Complete = size - 1 /\ size \in 1..Capacity
      /\ Locals' /\ HalfInsertionHasGIL'
  BY <1>1, BackInPython
<1>3. size' - 1 = size - 2 /\ size' \in 0..Capacity /\ 0..(size - 2) \subseteq 0..(size - 1)
  BY <1>1, <1>2, DataAssumption
<1>4. \A e \in 0..(size - 2) : entries'[e] = entries[e]
  BY <1>1
<1>5. \A j \in DOMAIN index : index[j] \in 0..(size - 2)
  BY <1>2 DEF IInv, TypeOK
<1>6. entries' \in [0..(size' - 1) -> [id : Ids, vector : Vectors]]
  BY <1>1, <1>3 DEF IInv, TypeOK
<1>7. TypeOK'
  BY <1>1, <1>2, <1>3, <1>5, <1>6 DEF IInv, TypeOK, Locals
<1>8. Consistent'
  BY <1>1, <1>2, <1>3, <1>4, <1>5 DEF IInv, Consistent
<1> QED
  BY <1>2, <1>7, <1>8 DEF IInv

\* Each step keeps the invariant.
LEMMA Inductive == IInv /\ [Next]_vars => IInv'
<1> SUFFICES ASSUME IInv, [Next]_vars PROVE IInv'
  OBVIOUS
<1>1. CASE UNCHANGED vars
  BY <1>1 DEF vars, copy, store, IInv, TypeOK, Consistent, HalfInsertionHasGIL, Emplacing, Complete
<1>2. ASSUME NEW t \in Threads, Step(t) PROVE IInv'
  BY <1>2, OutsideKeepsInvariant, PushPreserves, EmplacePreserves, FailPreserves
     DEF Step, Outside
<1> QED
  BY <1>1, <1>2 DEF Next

\* The state of the bindings and of the engine is well formed, whatever the
\* threads do between the two halves of an insertion.
THEOREM TypeCorrect == Spec => []TypeOK
<1>1. IInv => TypeOK
  BY DEF IInv
<1> QED
  BY <1>1, InitEstablishes, Inductive, PTL DEF Spec

----------------------------------------------------------------------------
(* The refinement *)

\* With no insertion half done, the scan scores what the map says is stored.
LEMMA ScanIsExact ==
    ASSUME IInv, Complete = size, NEW q \in Vectors
    PROVE  /\ All(q) = API!Scored(q)
           /\ Rankable(All(q)) /\ Cardinality(All(q)) = size
<1> DEFINE f == [e \in 0..(size - 1) |-> Candidate(entries[e].id, Cosine[<<q, entries[e].vector>>])]
<1>1. /\ \A e \in 0..(size - 1) : entries[e].id \in DOMAIN index /\ index[entries[e].id] = e
      /\ \A i \in DOMAIN index : index[i] \in 0..(size - 1) /\ entries[index[i]].id = i
      /\ size \in Nat
  BY DataAssumption DEF IInv, TypeOK, Consistent
<1>2. \A e \in 0..(size - 1) : entries[e].id \in Int /\ entries[e].vector \in Vectors
  BY DataAssumption DEF IInv, TypeOK
<1>3. \A e \in 0..(size - 1) : /\ f[e].id = entries[e].id
                                /\ f[e].score = Cosine[<<q, entries[e].vector>>]
                                /\ f[e].score \in Int
  BY <1>2, DataAssumption DEF Candidate
<1>4. /\ f \in [0..(size - 1) -> All(q)]
      /\ \A c \in All(q) : \E e \in 0..(size - 1) : f[e] = c
  BY DEF All
<1>5. All(q) = API!Scored(q)
  <2>1. ASSUME NEW e \in 0..(size - 1) PROVE f[e] \in API!Scored(q)
    <3>1. entries[e].id \in DOMAIN index /\ index[entries[e].id] = e
      BY <1>1
    <3> QED
      BY <3>1 DEF API!Scored, API!Candidate, Candidate
  <2>2. ASSUME NEW i \in DOMAIN index
        PROVE  Candidate(i, Cosine[<<q, entries[index[i]].vector>>]) \in All(q)
    BY <1>1 DEF All
  <2>3. API!Scored(q) \subseteq All(q)
    BY <2>2 DEF API!Scored, API!Candidate, Candidate
  <2> QED
    BY <2>1, <2>3, <1>4
<1> HIDE DEF f
<1>6. \A d, e \in 0..(size - 1) : f[d].id = f[e].id => d = e
  BY <1>1, <1>3
<1>7. f \in Bijection(0..(size - 1), All(q))
  BY <1>4, <1>6, Fun_IsBij
<1>8. IsFiniteSet(0..(size - 1)) /\ Cardinality(0..(size - 1)) = size
  <2>1. 0 \in Int /\ size - 1 \in Int /\ size = IF 0 > size - 1 THEN 0 ELSE (size - 1) - 0 + 1
    BY <1>1
  <2> QED
    BY <2>1, FS_Interval
<1>9. IsFiniteSet(All(q)) /\ Cardinality(All(q)) = size
  BY <1>7, <1>8, Fun_ExistsBij, FS_Bijection
<1>10. Rankable(All(q))
  <2>1. \A c \in All(q) : c.id \in Int /\ c.score \in Int
    BY <1>2, <1>3, <1>4
  <2>2. \A c, d \in All(q) : c.id = d.id => c = d
    BY <1>4, <1>6
  <2> QED
    BY <2>1, <2>2, <1>9 DEF Rankable
<1> QED
  BY <1>5, <1>9, <1>10

\* The store counts and ranks as the engine does.
LEMMA SameRanking ==
    ASSUME NEW S
    PROVE  /\ API!Cardinality(S) = Cardinality(S)
           /\ \A k : API!Best(k, S) = Best(k, S) /\ API!Lesser(k, Cardinality(S)) = Lesser(k, Cardinality(S))
<1>1. \A T : API!Cardinality(T) = Cardinality(T)
  BY DEF API!Cardinality, Cardinality
<1>2. \A T, c : API!Above(T, c) = Above(T, c)
  BY DEF API!Above, Above, API!Better, Better
<1> QED
  BY <1>1, <1>2 DEF API!Best, Best, API!Lesser, Lesser

\* A search answers as the store may.
LEMMA SearchAnswers ==
    ASSUME IInv, NEW t \in Threads, Search(t)
    PROVE  API!Next
<1> DEFINE q == values[t]
           k == call[t].count
<1>1. /\ gil = t /\ pc[t] = "call" /\ call[t].op = "search" /\ Len(q) = Dimension
      /\ reply' = API!Found(q, k, size, Best(Lesser(k, size), All(q)))
      /\ UNCHANGED <<entries, size, index>>
  BY DEF Search, Goto, RightDimension, store
<1>2. Complete = size
  BY <1>1, NobodyEmplaces DEF Emplacing
<1>3. q \in Vectors /\ k \in Counts /\ k \in Nat /\ size \in 0..Capacity /\ size \in Nat
  <2>1. q \in Seq(Components) /\ size \in 0..Capacity
        /\ call[t] \in [op : {"add"}, id : Ids] \cup [op : {"search"}, count : Counts] \cup {NoCall}
    BY DEF IInv, TypeOK
  <2>2. q \in Vectors
    BY <1>1, <2>1, DataAssumption DEF Vectors
  <2>3. k \in Counts
    BY <1>1, <2>1 DEF NoCall
  <2>4. size \in Nat /\ k \in Nat
    <3>1. Capacity \in Nat /\ Counts \subseteq Nat
      BY DataAssumption
    <3> HIDE DEF k
    <3> QED
      BY <2>1, <2>3, <3>1
  <2> QED
    BY <2>1, <2>2, <2>3, <2>4
<1> DEFINE S == API!Scored(q)
           R == Best(Lesser(k, size), S)
<1>4. Rankable(S) /\ Cardinality(S) = size /\ All(q) = S
  BY <1>2, <1>3, ScanIsExact
<1>5. R \subseteq S /\ Cardinality(R) = Lesser(k, size)
  <2>1. Lesser(k, size) \in Nat /\ Lesser(Lesser(k, size), size) = Lesser(k, size)
    BY <1>3 DEF Lesser
  <2> HIDE DEF S, k
  <2> QED
    BY <2>1, <1>4, BestSubset, BestCardinality
<1>6. R = Best(k, S)
  <2> HIDE DEF S, k
  <2>1. CASE k < size
    BY <2>1 DEF Lesser
  <2>2. CASE ~ (k < size)
    <3>1. Lesser(k, size) = size /\ size <= k /\ k \in Int /\ size \in Int
      BY <2>2, <1>3 DEF Lesser
    <3> QED
      BY <3>1, <1>4, BestAll
  <2> QED
    BY <2>1, <2>2
<1>7. R \in API!Acceptable(k, size, S)
  <2> HIDE DEF S, R, k
  <2> QED
    BY <1>4, <1>5, <1>6, SameRanking DEF API!Acceptable
<1>8. API!Answer(q, k, size)
  <2>1. reply' = API!Found(q, k, size, R)
    BY <1>1, <1>4
  <2> HIDE DEF R
  <2> QED
    BY <2>1, <1>1, <1>7 DEF API!Answer
<1> HIDE DEF q, k
<1> QED
  BY <1>3, <1>8 DEF API!Next

\* The second half of an insertion is the insertion.
LEMMA EmplaceAdds ==
    ASSUME IInv, NEW t \in Threads, EmplaceId(t)
    PROVE  API!Next
<1> DEFINE i == entries[size - 1].id
           v == entries[size - 1].vector
<1>1. /\ pc[t] = "emplace" /\ UNCHANGED <<entries, size>> /\ Leave(t, API!Stored(i))
      /\ index' = [j \in DOMAIN index \cup {i} |-> IF j = i THEN size - 1 ELSE index[j]]
  BY DEF EmplaceId
<1>2. i \notin DOMAIN index /\ size \in 1..Capacity
  BY <1>1, BackInPython
<1>3. i \in Ids /\ v \in Vectors
  BY <1>2 DEF IInv, TypeOK
<1> HIDE DEF i
<1>4. /\ DOMAIN index' = DOMAIN index \cup {i} /\ index'[i] = size - 1
      /\ \A j \in DOMAIN index : index'[j] = index[j]
  <2>1. index' = [j \in DOMAIN index \cup {i} |-> IF j = i THEN size - 1 ELSE index[j]]
    BY <1>1
  <2> QED
    BY <2>1, <1>2
<1>5. [j \in DOMAIN index' |-> entries'[index'[j]].vector]
        = [j \in DOMAIN index \cup {i} |-> IF j = i THEN v ELSE entries[index[j]].vector]
  <2>1. \A j \in DOMAIN index \cup {i} :
          entries'[index'[j]].vector = IF j = i THEN v ELSE entries[index[j]].vector
    BY <1>1, <1>2, <1>4
  <2> QED
    BY <2>1, <1>4
<1>6. reply' = API!Stored(i)
  BY <1>1 DEF Leave
<1>7. API!Add(i, v)
  BY <1>2, <1>5, <1>6 DEF API!Add
<1>8. \E j \in Ids, w \in Vectors : API!Add(j, w)
  <2>1. \E w \in Vectors : w = v
    BY <1>3
  <2>2. PICK w \in Vectors : w = v
    BY <2>1
  <2> QED
    BY <1>3, <1>7, <2>2 DEF API!Add
<1> QED
  BY <1>8 DEF API!Next

\* Each step of the bindings is a step of the store, or none.
LEMMA StepSimulates ==
    ASSUME IInv, NEW t \in Threads, Step(t)
    PROVE  [API!Next]_API!vars
<1>1. CASE \/ \E i \in Ids : Enter(t, [op |-> "add", id |-> i])
           \/ \E k \in Counts : Enter(t, [op |-> "search", count |-> k])
  <2>1. reply' = API!NoReply /\ UNCHANGED <<entries, index>>
    BY <1>1 DEF Enter, store
  <2> QED
    BY <2>1 DEF API!Next, API!Start
<1>2. CASE Acquire(t) \/ Release(t) \/ CopyBuffer(t) \/ CheckLength(t) \/ StartLoop(t)
           \/ ConvertItem(t) \/ EndLoop(t)
  <2>1. UNCHANGED <<entries, index, reply>>
    BY <1>2 DEF Acquire, Release, CopyBuffer, CheckLength, StartLoop, ConvertItem, EndLoop, store
  <2> QED
    BY <2>1 DEF API!vars
<1>3. CASE RejectArgument(t) \/ CopyFails(t) \/ RefuseDimension(t) \/ CallFails(t)
  <2>1. reply' \in {API!Invalid, API!Failed} /\ UNCHANGED <<entries, index>>
    BY <1>3 DEF RejectArgument, CopyFails, RefuseDimension, CallFails, Leave, store
  <2> QED
    BY <2>1 DEF API!Next, API!Throw
<1>4. CASE Deliver(t)
  <2>1. reply' \in {reply, API!Failed} /\ UNCHANGED <<entries, index>>
    BY <1>4 DEF Deliver, Leave, store
  <2> QED
    BY <2>1 DEF API!Next, API!Throw, API!vars
<1>5. CASE RefuseDuplicate(t)
  <2>1. /\ call[t].id \in DOMAIN index /\ reply' = API!Duplicate(call[t].id)
        /\ UNCHANGED <<entries, index>>
    BY <1>5 DEF RefuseDuplicate, Leave, store
  <2>2. call[t].id \in Ids
    BY <2>1 DEF IInv, TypeOK
  <2> QED
    BY <2>1, <2>2 DEF API!Next, API!RefuseDuplicate
<1>6. CASE PushEntry(t)
  <2>1. Complete = size /\ UNCHANGED <<index, reply>>
    BY <1>6, NobodyEmplaces DEF PushEntry, Goto, Emplacing
  <2>2. \A i \in DOMAIN index : index[i] \in 0..(size - 1) /\ size \in Nat
    BY <2>1, DataAssumption DEF IInv, TypeOK
  <2>3. \A e \in 0..(size - 1) : entries'[e] = entries[e]
    BY <2>2, <1>6, DataAssumption DEF PushEntry, IInv, TypeOK
  <2>4. [i \in DOMAIN index |-> entries'[index[i]].vector]
          = [i \in DOMAIN index |-> entries[index[i]].vector]
    BY <2>2, <2>3
  <2> QED
    BY <2>1, <2>4 DEF API!vars
<1>7. CASE EmplaceFails(t)
  <2>1. /\ UNCHANGED index /\ reply' = API!Failed
        /\ entries' = [e \in 0..(size - 2) |-> entries[e]]
    BY <1>7 DEF EmplaceFails, Leave
  <2>2. Complete = size - 1 /\ size \in Nat
    BY <1>7, OneEmplaces, DataAssumption DEF EmplaceFails, Emplacing, IInv, TypeOK
  <2>3. \A i \in DOMAIN index : index[i] \in 0..(size - 2)
    BY <2>2 DEF IInv, TypeOK
  <2>4. [i \in DOMAIN index |-> entries'[index[i]].vector]
          = [i \in DOMAIN index |-> entries[index[i]].vector]
    BY <2>1, <2>3
  <2> QED
    BY <2>1, <2>4 DEF API!Next, API!Throw
<1> QED
  BY <1>1, <1>2, <1>3, <1>4, <1>5, <1>6, <1>7, SearchAnswers, EmplaceAdds DEF Step

\* To its Python callers the index is one exact vector store, for any number
\* of threads and entries: no thread sees half an insertion or the copying of
\* a vector by another.
THEOREM ImplementsVectorStore == Spec => ImplementsStore
<1>1. Init => API!Init
  BY DEF Init, API!Init
<1>2. IInv /\ [Next]_vars => [API!Next]_API!vars
  <2> SUFFICES ASSUME IInv, [Next]_vars PROVE [API!Next]_API!vars
    OBVIOUS
  <2>1. CASE UNCHANGED vars
    BY <2>1 DEF vars, store, API!vars
  <2> QED
    BY <2>1, StepSimulates DEF Next
<1> QED
  BY <1>1, <1>2, InitEstablishes, Inductive, PTL DEF Spec, ImplementsStore, API!Spec
=============================================================================
