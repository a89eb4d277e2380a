-------------------------- MODULE MCWatchProgress --------------------------
(* Instances of WatchProgress for TLC: recordings of 100 seconds.           *)
EXTENDS WatchProgress, TLC

CONSTANTS alice, bob

\* One recording ends with a silence, the other's last silence is in its middle.
Silent == (alice :> [start |-> 80, end |-> 104]) @@ (bob :> [start |-> 40, end |-> 60])
=============================================================================
