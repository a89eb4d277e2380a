----------------------------- MODULE MCDispatch -----------------------------
(* Instances of Dispatch for TLC: a lecture in a hall with two versions, and *)
(* a self stream.                                                            *)
EXTENDS Dispatch, TLC

CONSTANTS COMB, CAM, hall, self

TwoVersions == <<COMB, CAM>>
TwiceOnce   == (hall :> 2) @@ (self :> 1)
=============================================================================
