----------------------------- MODULE NanRanking -----------------------------
(***************************************************************************)
(* How ScalarSearchBackend::search() picks the two best of more than two   *)
(* scored entries when scores may be NaN, as they are for vectors with NaN *)
(* components.  Only the exact CPU engines accept these.                   *)
(*                                                                         *)
(* NaN differs from every number and from itself and exceeds nothing, so   *)
(* that the comparison is no strict weak order: std::partial_sort has no   *)
(* defined result.  This is what libstdc++'s heap of two elements makes of *)
(* it.  Elsewhere in the project scores are numbers.                       *)
(***************************************************************************)
EXTENDS Integers, Sequences

CONSTANTS
    Ids,        \* IDs, ordered as the strings are
    Numbers,    \* the scores that are numbers
    NaN,        \* the score that is none
    MaxSize     \* bound of the model: the number of entries

VARIABLES
    results,    \* the scored entries, in their order of insertion
    heap,       \* the two entries kept: the one to drop next, the other one
    next,       \* the entry that is looked at next
    returned    \* what search() returned, best first

vars == <<results, heap, next, returned>>

Init == results = <<>> /\ heap = <<>> /\ next = 0 /\ returned = <<>>

Differ(x, y)  == x = NaN \/ y = NaN \/ x # y
Exceeds(x, y) == x # NaN /\ y # NaN /\ x > y

BetterResult(a, b) == IF Differ(a.score, b.score) THEN Exceeds(a.score, b.score) ELSE a.id < b.id

\* A heap of what is at its root and of what it is compared with.
Heap(root, child) == IF BetterResult(child, root) THEN <<root, child>> ELSE <<child, root>>

Entries == [id : Ids, score : Numbers \cup {NaN}]

Score ==
    /\ results = <<>>
    /\ \E n \in 3..MaxSize : \E s \in [1..n -> Entries] :
          /\ \A i, j \in 1..n : s[i].id = s[j].id => i = j
          /\ results' = s
          /\ heap' = Heap(s[1], s[2])
    /\ next' = 3
    /\ returned' = <<>>

Consider ==
    /\ next \in DOMAIN results
    /\ heap' = IF BetterResult(results[next], heap[1]) THEN Heap(results[next], heap[2]) ELSE heap
    /\ next' = next + 1
    /\ UNCHANGED <<results, returned>>

Return ==
    /\ results # <<>>
    /\ next = Len(results) + 1
    /\ returned' = <<heap[2], heap[1]>>
    /\ heap' = <<>>
    /\ next' = 0
    /\ UNCHANGED results

\* The caller searches again.
Again ==
    /\ returned # <<>> /\ heap = <<>>
    /\ results' = <<>>
    /\ UNCHANGED <<heap, next, returned>>

Next == Score \/ Consider \/ Return \/ Again

Spec == Init /\ [][Next]_vars

----------------------------------------------------------------------------
\* "Searches exhaustively score all vectors and order results by descending
\* cosine score" (README.md:124): what was left out has no higher score than
\* what was returned, and what was returned first has none lower.
DescendingScores ==
    returned # <<>> =>
        /\ ~ Exceeds(returned[2].score, returned[1].score)
        /\ \A i \in DOMAIN results, j \in 1..2 :
              results[i] \notin {returned[1], returned[2]}
                  => ~ Exceeds(results[i].score, returned[j].score)
=============================================================================
