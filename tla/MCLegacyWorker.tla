--------------------------- MODULE MCLegacyWorker ---------------------------
(* Two versions of one lecture, and a lecturer who publishes a stream twice. *)
EXTENDS LegacyWorker

CONSTANTS h1, h2, s1, s2, u1, p1, t1

Streams   == [j \in Hall \cup Premieres |-> IF j = p1 THEN p1 ELSE h1]
RecordsAs == [j \in Jobs |-> IF j \in Self THEN s1 ELSE j]
Loadings  == {{h1, h2}, {h1, s1}, {s1, s2}, {u1, p1, t1}}
TwiceOnce == [j \in Jobs |-> IF j \in {h2, s2} THEN 1 ELSE 2]
=============================================================================
