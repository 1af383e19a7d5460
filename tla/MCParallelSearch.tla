-------------------------- MODULE MCParallelSearch --------------------------
(***************************************************************************)
(* Small instances of ParallelSearch.  There is one query; a vector is     *)
(* named by its score against it, so that a table of scores is enough.     *)
(***************************************************************************)
EXTENDS ParallelSearch

\* Two vectors tie, one is worse.
Scores == {0, 5}
ScoreOf == [p \in Scores \X Scores |-> p[2]]
=============================================================================
