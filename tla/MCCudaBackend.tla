--------------------------- MODULE MCCudaBackend ---------------------------
(***************************************************************************)
(* Small instances of CudaBackend.  A vector is named by its score against *)
(* the one query there is, as in MCParallelSearch.                         *)
(***************************************************************************)
EXTENDS CudaBackend

Scores == {0, 5}
ScoreOf == [p \in Scores \X Scores |-> p[2]]
=============================================================================
