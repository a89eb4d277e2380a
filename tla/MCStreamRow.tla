---------------------------- MODULE MCStreamRow ----------------------------
(* Instances of StreamRow for TLC.                                          *)
EXTENDS StreamRow, TLC

\* Nothing distinguishes the versions.
VersionSymmetry == Permutations(Versions)
=============================================================================
