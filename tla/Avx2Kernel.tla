----------------------------- MODULE Avx2Kernel -----------------------------
(***************************************************************************)
(* Which components avx2_cosine_similarity() multiplies and adds: eight at *)
(* a time, by two loads of four, while eight are left, then one by one.    *)
(* The arguments have the same size, so that what is said of the one holds *)
(* of the other.  The sums themselves are floating point and left out.     *)
(***************************************************************************)
EXTENDS Integers

\* size_t: lhs.size() - i is computed modulo this.
Word == 18446744073709551616

VARIABLES
    size,   \* lhs.size()
    i,      \* the loops' index
    added,  \* how often each component was added, with room beyond the end
    part    \* the loop that runs

vars == <<size, i, added, part>>

Init ==
    /\ size \in 0..(Word - 1)
    /\ i = 0
    /\ added = [d \in 0..(size + 8) |-> 0]
    /\ part = "eights"

LoadsFour(from, d) == IF d \in from..(from + 3) THEN 1 ELSE 0

Eight ==
    /\ part = "eights"
    /\ (size - i) % Word >= 8
    /\ added' = [d \in DOMAIN added |-> added[d] + LoadsFour(i, d) + LoadsFour(i + 4, d)]
    /\ i' = i + 8
    /\ UNCHANGED <<size, part>>

LeaveEights ==
    /\ part = "eights"
    /\ ~ (size - i) % Word >= 8
    /\ part' = "ones"
    /\ UNCHANGED <<size, i, added>>

One ==
    /\ part = "ones"
    /\ i < size
    /\ added' = [added EXCEPT ![i] = @ + 1]
    /\ i' = i + 1
    /\ UNCHANGED <<size, part>>

Return ==
    /\ part = "ones"
    /\ ~ i < size
    /\ part' = "done"
    /\ UNCHANGED <<size, i, added>>

Next == Eight \/ LeaveEights \/ One \/ Return

Spec == Init /\ [][Next]_vars

----------------------------------------------------------------------------
\* The score is made of each component once: none is skipped or added twice
\* where the two loops meet, and none is read beyond the end of the vectors.
EachComponentOnce ==
    /\ \A d \in DOMAIN added : added[d] # 0 => d < size /\ added[d] = 1
    /\ part = "done" => \A d \in 0..(size - 1) : added[d] = 1
=============================================================================
