-------------------------- MODULE MCPythonBindings --------------------------
(***************************************************************************)
(* Small instances of PythonBindings.  The score of two vectors is their   *)
(* dot product.                                                            *)
(***************************************************************************)
EXTENDS PythonBindings, TLC

DotProduct ==
    [p \in Vectors \X Vectors |->
        LET upTo[n \in 0..Dimension] ==
                IF n = 0 THEN 0 ELSE upTo[n - 1] + p[1][n] * p[2][n]
        IN  upTo[Dimension]]

Interchangeable == Permutations(Threads)
=============================================================================
