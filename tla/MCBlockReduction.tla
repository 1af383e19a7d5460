------------------------- MODULE MCBlockReduction --------------------------
(***************************************************************************)
(* Small instances of BlockReduction: dimensions below, at and above the   *)
(* size of the block, so that lanes have no, one or several terms.         *)
(***************************************************************************)
EXTENDS BlockReduction

CONSTANT none
=============================================================================
