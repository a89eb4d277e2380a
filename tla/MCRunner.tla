------------------------------ MODULE MCRunner ------------------------------
(* Instances of Runner for TLC.                                             *)
EXTENDS Runner, TLC

\* Jobs are interchangeable: nothing orders them.
JobSymmetry == Permutations(Jobs)
=============================================================================
