---------------------------- MODULE VectorStore ----------------------------
(***************************************************************************)
(* What every search engine of VectorPulse promises its caller, whatever   *)
(* it is built from: vectors are added under unique IDs and never change,  *)
(* a query returns min(count, size) distinct stored IDs with their cosine  *)
(* scores, and a call that throws leaves the store as it was.  A query has *)
(* a breadth, the number of vectors the engine was told to consider; when  *)
(* that is the whole store the answer is the exact Top-K.  The exact       *)
(* engines always consider the whole store, HnswIndex considers ef of it.  *)
(*                                                                         *)
(* Every call takes effect in one step, the one that produces its reply.   *)
(***************************************************************************)
EXTENDS Ranking

CONSTANTS
    Ids,        \* the IDs a client may use
    Vectors,    \* the vectors of the right dimension
    Cosine,     \* Cosine[<<a, b>>]: the cosine similarity of two vectors
    Counts,     \* the numbers of results a client may ask for
    Breadths    \* the breadths a query may have

VARIABLES
    items,      \* a function from the stored IDs to their vectors
    reply       \* what the last call returned or threw

vars == <<items, reply>>

NoReply            == [kind |-> "none"]
Stored(i)          == [kind |-> "stored", id |-> i]
Duplicate(i)       == [kind |-> "duplicate", id |-> i]
Invalid            == [kind |-> "invalid"]
Failed             == [kind |-> "failed"]
Found(q, k, b, R)  == [kind |-> "found", query |-> q, count |-> k,
                       breadth |-> b, results |-> R]

\* Every stored vector, scored against q.
Scored(q) == {Candidate(i, Cosine[<<q, items[i]>>]) : i \in DOMAIN items}

\* The outcomes the documentation allows for the Top-K of a set of candidates.
Acceptable(k, b, S) ==
    {R \in SUBSET S :
        /\ Cardinality(R) = Lesser(k, Cardinality(S))
        /\ b >= Cardinality(S) => R = Best(k, S)}

----------------------------------------------------------------------------
Init ==
    /\ items = [i \in {} |-> {}]
    /\ reply = NoReply

\* A call is under way, its outcome still open.
Start ==
    /\ reply' = NoReply
    /\ UNCHANGED items

Add(i, v) ==
    /\ i \notin DOMAIN items
    /\ items' = [j \in DOMAIN items \cup {i} |-> IF j = i THEN v ELSE items[j]]
    /\ reply' = Stored(i)

\* add() of an ID that is already present.
RefuseDuplicate(i) ==
    /\ i \in DOMAIN items
    /\ reply' = Duplicate(i)
    /\ UNCHANGED items

\* Arguments of the wrong shape, and calls that run out of some resource.
Throw ==
    /\ reply' \in {Invalid, Failed}
    /\ UNCHANGED items

Answer(q, k, b) ==
    /\ \E R \in Acceptable(k, b, Scored(q)) : reply' = Found(q, k, b, R)
    /\ UNCHANGED items

Next ==
    \/ Start
    \/ \E i \in Ids, v \in Vectors : Add(i, v)
    \/ \E i \in Ids : RefuseDuplicate(i)
    \/ Throw
    \/ \E q \in Vectors, k \in Counts, b \in Breadths : Answer(q, k, b)

Spec == Init /\ [][Next]_vars
=============================================================================
