-------------------------- MODULE MCRunnerRegistry --------------------------
(* Instances of RunnerRegistry for TLC.                                     *)
EXTENDS RunnerRegistry, TLC

\* Runners, and the calls that reserve them, are interchangeable.
PoolSymmetry == Permutations(Runners) \cup Permutations(Calls)
=============================================================================
