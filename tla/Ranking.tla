------------------------------ MODULE Ranking ------------------------------
(***************************************************************************)
(* How every search of VectorPulse orders what it found.  A candidate is a *)
(* record with at least an "id" and a "score".  All backends, the CUDA     *)
(* host code and the HNSW index use the same comparison: a higher cosine   *)
(* score first, and the smaller ID first between exactly equal scores.     *)
(*                                                                         *)
(* Scores are integers here: a finite float score matters only through its *)
(* place in the order.  IDs are integers too, ordered as the strings are.  *)
(* IDs are unique in every store, so the order is strict and total on what *)
(* one search ranks, sorting has one outcome, and a ranked result list is  *)
(* represented by the set of its members.                                  *)
(***************************************************************************)
EXTENDS Integers, FiniteSets

Candidate(i, s) == [id |-> i, score |-> s]

Better(a, b) == IF a.score # b.score THEN a.score > b.score ELSE a.id < b.id

\* The members of S that rank before c.
Above(S, c) == {d \in S : Better(d, c)}

\* What sorting S and keeping the first k leaves: partial_sort, then resize.
Best(k, S) == {c \in S : Cardinality(Above(S, c)) < k}

\* The first and the last of S in rank order (the top of a priority queue).
Nearest(S)  == CHOOSE c \in S : \A d \in S \ {c} : Better(c, d)
Farthest(S) == CHOOSE c \in S : \A d \in S \ {c} : Better(d, c)

\* A bounded priority queue of capacity k, ordered worst first, takes c.
PushBounded(k, S, c) ==
    LET T == S \cup {c}
    IN  IF Cardinality(T) > k THEN T \ {Farthest(T)} ELSE T

Lesser(a, b) == IF a < b THEN a ELSE b
Greater(a, b) == IF a > b THEN a ELSE b

\* A set of candidates no two of which share an ID.
Rankable(S) ==
    /\ IsFiniteSet(S)
    /\ \A c \in S : c.id \in Int /\ c.score \in Int
    /\ \A c, d \in S : c.id = d.id => c = d
=============================================================================
