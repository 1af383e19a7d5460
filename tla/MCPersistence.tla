--------------------------- MODULE MCPersistence ---------------------------
(***************************************************************************)
(* Small instances of Persistence: words of 7 bits, so that the sizes of a *)
(* damaged header reach the limits of the arithmetic.                      *)
(***************************************************************************)
EXTENDS Persistence

CONSTANTS empty, long

\* One ID has no bytes, the other has two.
TwoIds == {empty, long}
LengthOf == [i \in TwoIds |-> IF i = empty THEN 0 ELSE 2]

\* Every length that the file of one record may be cut to.
AnyCut == 0..50
=============================================================================
