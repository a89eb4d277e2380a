---------------------------- MODULE MCEdgeCache ----------------------------
(* Instances of EdgeCache for TLC: two segments of one stream.             *)
EXTENDS EdgeCache, TLC

CONSTANTS a, b

OneDirectory == (a :> "stream") @@ (b :> "stream")
=============================================================================
