----------------------------- MODULE MCSessions -----------------------------
(* Instances of Sessions for TLC: tabs of an administrator.                 *)
EXTENDS Sessions, TLC

CONSTANTS tab1, tab2, admin

Tabs == (tab1 :> admin) @@ (tab2 :> admin)

Twice == (tab1 :> 2) @@ (tab2 :> 1)
=============================================================================
