--------------------------- MODULE MCHnswIndex ---------------------------
(***************************************************************************)
(* Small instances of HnswIndex.  Vectors are pairs of integers, and the   *)
(* score of two of them orders pairs as their cosine does: its square, in  *)
(* hundredths, with its sign; 0 when one of them is the zero vector, as    *)
(* cosine_similarity() has it.                                             *)
(***************************************************************************)
EXTENDS HnswIndex

Dot(a, b) == a[1] * b[1] + a[2] * b[2]

SignedSquare(a, b) ==
    LET d == Dot(a, b)
        norms == Dot(a, a) * Dot(b, b)
    IN  IF norms = 0 THEN 0
        ELSE IF d < 0 THEN -((100 * d * d) \div norms) ELSE (100 * d * d) \div norms

CosineOf(V) == [p \in V \X V |-> SignedSquare(p[1], p[2])]

East == <<1, 0>>
NorthEast == <<1, 1>>
North == <<0, 1>>
Zero == <<0, 0>>

Three == {East, NorthEast, Zero}
CosineOfThree == CosineOf(Three)

Fan == {East, NorthEast, North}
CosineOfFan == CosineOf(Fan)

Two == {East, North}
CosineOfTwo == CosineOf(Two)

\* IDs come in ascending or in descending order: the order of the IDs only
\* decides ties, and these two orders decide every tie both ways.
AscendingOrDescending ==
    \/ \A n \in 1..(size - 1) : nodes[n - 1].id < nodes[n].id
    \/ \A n \in 1..(size - 1) : nodes[n - 1].id > nodes[n].id
=============================================================================
