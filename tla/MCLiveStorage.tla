--------------------------- MODULE MCLiveStorage ---------------------------
(* Instances of LiveStorage for TLC.                                        *)
EXTENDS LiveStorage, TLC

CONSTANTS j1, j2, comb, cam

\* Every stream and version is recorded once.
OwnDirs == (j1 :> comb) @@ (j2 :> cam)
=============================================================================
