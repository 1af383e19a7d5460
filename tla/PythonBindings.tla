--------------------------- MODULE PythonBindings ---------------------------
(***************************************************************************)
(* A VectorIndex that several Python threads use, with one of the single-  *)
(* threaded exact engines (AVX2SearchBackend; ScalarSearchBackend has the  *)
(* same text) behind it.  add() and search() first copy their argument     *)
(* with copy_vector() and then call C++, all of it with the GIL held.      *)
(*                                                                         *)
(* Copying a sequence runs Python code for its length, its items and their *)
(* conversion.  That code can change the sequence, use the index, and let  *)
(* another thread have the GIL.  In C++ nothing lets go of it.             *)
(***************************************************************************)
EXTENDS Ranking, Sequences

CONSTANTS
    Ids, Cosine, Counts,    \* as in VectorStore
    Components,             \* the floats
    Dimension,              \* dimension()
    Threads,                \* Python's threads
    Nobody,
    Capacity,               \* bound of the model: the number of entries
    MaxLength               \* bound of the model: the length of sequences

Vectors == [1..Dimension -> Components]

ASSUME DataAssumption ==
    /\ Ids \subseteq Int
    /\ Cosine \in [Vectors \X Vectors -> Int]
    /\ Counts \subseteq Nat
    /\ Dimension \in Nat \ {0} /\ Capacity \in Nat /\ MaxLength \in Nat
    /\ Nobody \notin Threads

VARIABLES
    gil,        \* the thread that has the GIL
    pc,         \* where each thread is
    call,       \* what each thread calls
    length,     \* where each thread's loop over a sequence ends
    values,     \* what each thread has copied so far
    entries,    \* entries_
    size,       \* entries_.size()
    index,      \* index_by_id_
    reply       \* what the last call to leave C++ or the bindings came to

store == <<entries, size, index>>
copy  == <<call, length, values>>
vars  == <<gil, pc, copy, store, reply>>

API == INSTANCE VectorStore WITH
           Breadths <- 0..Capacity,
           items    <- [i \in DOMAIN index |-> entries[index[i]].vector]

NoCall == [op |-> "none"]

Init ==
    /\ gil = Nobody
    /\ pc = [t \in Threads |-> "python"]
    /\ call = [t \in Threads |-> NoCall]
    /\ length = [t \in Threads |-> 0]
    /\ values = [t \in Threads |-> <<>>]
    /\ entries = [e \in {} |-> {}]
    /\ size = 0
    /\ index = [i \in {} |-> 0]
    /\ reply = API!NoReply

(* The GIL *)

Acquire(t) ==
    /\ gil = Nobody
    /\ gil' = t
    /\ UNCHANGED <<pc, copy, store, reply>>

\* Mutant: the GIL is released around the calls of C++.
ReleaseAnywhere(t) ==
    /\ gil = t
    /\ gil' = Nobody
    /\ UNCHANGED <<pc, copy, store, reply>>

\* The interpreter switches threads while it runs Python code: the caller's,
\* or what a sequence and the list of results run.
Release(t) ==
    /\ gil = t
    /\ pc[t] \in {"python", "copy", "loop", "convert", "deliver"}
    /\ gil' = Nobody
    /\ UNCHANGED <<pc, copy, store, reply>>

Goto(t, p) ==
    /\ gil = t
    /\ pc' = [pc EXCEPT ![t] = p]
    /\ UNCHANGED gil

\* Thread t is back in Python with the outcome r.
Leave(t, r) ==
    /\ Goto(t, "python")
    /\ call' = [call EXCEPT ![t] = NoCall]
    /\ length' = [length EXCEPT ![t] = 0]
    /\ values' = [values EXCEPT ![t] = <<>>]
    /\ reply' = r

----------------------------------------------------------------------------
(* copy_vector() *)

Enter(t, c) ==
    /\ pc[t] = "python"
    /\ Goto(t, "copy")
    /\ call' = [call EXCEPT ![t] = c]
    /\ reply' = API!NoReply
    /\ UNCHANGED <<length, values, store>>

\* A string, a number, a buffer or sequence of another shape.
RejectArgument(t) ==
    /\ pc[t] = "copy"
    /\ Leave(t, API!Invalid)
    /\ UNCHANGED store

\* A one-dimensional buffer of FP32 is copied without running Python code.
CopyBuffer(t) ==
    /\ pc[t] = "copy"
    /\ \E v \in Vectors : values' = [values EXCEPT ![t] = v]
    /\ Goto(t, "call")
    /\ UNCHANGED <<call, length, store, reply>>

\* A sequence has the right size when it is first asked for it.
CheckLength(t) ==
    /\ pc[t] = "copy"
    /\ Goto(t, "loop")
    /\ UNCHANGED <<copy, store, reply>>

\* The loop asks again, and may get another answer.
StartLoop(t) ==
    /\ pc[t] = "loop"
    /\ \E n \in 0..MaxLength : length' = [length EXCEPT ![t] = n]
    /\ Goto(t, "convert")
    /\ UNCHANGED <<call, values, store, reply>>

ConvertItem(t) ==
    /\ pc[t] = "convert"
    /\ Len(values[t]) < length[t]
    /\ \E x \in Components : values' = [values EXCEPT ![t] = Append(@, x)]
    /\ UNCHANGED <<gil, pc, call, length, store, reply>>
    /\ gil = t

\* The buffer, the length, an item or its conversion raises.
CopyFails(t) ==
    /\ pc[t] \in {"copy", "loop", "convert"}
    /\ Leave(t, API!Failed)
    /\ UNCHANGED store

EndLoop(t) ==
    /\ pc[t] = "convert"
    /\ Len(values[t]) = length[t]
    /\ Goto(t, "call")
    /\ UNCHANGED <<copy, store, reply>>

----------------------------------------------------------------------------
(* The engine *)

RightDimension(t) == Len(values[t]) = Dimension

RefuseDimension(t) ==
    /\ pc[t] = "call"
    /\ ~ RightDimension(t)
    /\ Leave(t, API!Invalid)
    /\ UNCHANGED store

RefuseDuplicate(t) ==
    /\ pc[t] = "call" /\ call[t].op = "add"
    /\ RightDimension(t)
    /\ call[t].id \in DOMAIN index
    /\ Leave(t, API!Duplicate(call[t].id))
    /\ UNCHANGED store

PushEntry(t) ==
    /\ pc[t] = "call" /\ call[t].op = "add"
    /\ RightDimension(t)
    /\ call[t].id \notin DOMAIN index
    /\ size < Capacity
    /\ entries' = [e \in 0..size |-> IF e = size THEN [id |-> call[t].id, vector |-> values[t]]
                                     ELSE entries[e]]
    /\ size' = size + 1
    /\ Goto(t, "emplace")
    /\ UNCHANGED <<index, copy, reply>>

EmplaceId(t) ==
    /\ pc[t] = "emplace"
    /\ LET i == entries[size - 1].id
       IN  /\ index' = [j \in DOMAIN index \cup {i} |-> IF j = i THEN size - 1 ELSE index[j]]
           /\ Leave(t, API!Stored(i))
    /\ UNCHANGED <<entries, size>>

EmplaceFails(t) ==
    /\ pc[t] = "emplace"
    /\ entries' = [e \in 0..(size - 2) |-> entries[e]]
    /\ size' = size - 1
    /\ Leave(t, API!Failed)
    /\ UNCHANGED index

All(q) == {Candidate(entries[e].id, Cosine[<<q, entries[e].vector>>]) : e \in 0..(size - 1)}

\* The results of no entries, or of none wanted, are none.
Search(t) ==
    /\ pc[t] = "call" /\ call[t].op = "search"
    /\ RightDimension(t)
    /\ LET q == values[t]
           k == call[t].count
       IN  reply' = API!Found(q, k, size, Best(Lesser(k, size), All(q)))
    /\ Goto(t, "deliver")
    /\ UNCHANGED <<copy, store>>

\* An allocation throws, in C++ or in push_back().
CallFails(t) ==
    /\ pc[t] = "call"
    /\ RightDimension(t)
    /\ Leave(t, API!Failed)
    /\ UNCHANGED store

\* The results become a list of dictionaries, which takes memory.
Deliver(t) ==
    /\ pc[t] = "deliver"
    /\ \E r \in {reply, API!Failed} : Leave(t, r)
    /\ UNCHANGED store

----------------------------------------------------------------------------
Step(t) ==
    \/ Acquire(t) \/ Release(t)
    \/ \E i \in Ids : Enter(t, [op |-> "add", id |-> i])
    \/ \E k \in Counts : Enter(t, [op |-> "search", count |-> k])
    \/ RejectArgument(t) \/ CopyBuffer(t) \/ CheckLength(t)
    \/ StartLoop(t) \/ ConvertItem(t) \/ CopyFails(t) \/ EndLoop(t)
    \/ RefuseDimension(t) \/ RefuseDuplicate(t)
    \/ PushEntry(t) \/ EmplaceId(t) \/ EmplaceFails(t)
    \/ Search(t) \/ CallFails(t) \/ Deliver(t)

Next == \E t \in Threads : Step(t)

Spec == Init /\ [][Next]_vars

----------------------------------------------------------------------------
(* Properties *)

Emplacing(t) == pc[t] = "emplace"
Complete == IF \E t \in Threads : Emplacing(t) THEN size - 1 ELSE size

TypeOK ==
    /\ gil \in Threads \cup {Nobody}
    /\ pc \in [Threads -> {"python", "copy", "loop", "convert", "call", "emplace", "deliver"}]
    /\ call \in [Threads -> [op : {"add"}, id : Ids] \cup [op : {"search"}, count : Counts]
                              \cup {NoCall}]
    /\ length \in [Threads -> 0..MaxLength]
    /\ values \in [Threads -> Seq(Components)]
    /\ size \in 0..Capacity
    /\ entries \in [0..(size - 1) -> [id : Ids, vector : Vectors]]
    /\ DOMAIN index \subseteq Ids
    /\ \A i \in DOMAIN index : index[i] \in 0..(Complete - 1)

\* To its Python callers the index is one exact vector store: each add() and
\* each search() takes effect at once, on vectors of the right dimension,
\* whatever the sequences and the other threads do in between.
ImplementsStore == API!Spec
=============================================================================
