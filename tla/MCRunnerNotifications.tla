----------------------- MODULE MCRunnerNotifications -----------------------
(* Instances of RunnerNotifications for TLC.                                *)
EXTENDS RunnerNotifications, TLC

ReportSymmetry == Permutations(Reports)
=============================================================================
