---------------------------- MODULE WatchRecord ----------------------------
(***************************************************************************)
(* What gocast promises a viewer about the progress of a recording: reports *)
(* are accepted, and later settled or lost; settling one never takes a      *)
(* recording's watched mark away, only the viewer does. WatchProgress shows *)
(* that the buffer of api/progress.go and the statements of dao/progress.go *)
(* implement it.                                                            *)
(***************************************************************************)
EXTENDS Naturals

CONSTANTS
    Viewings,       \* a user's viewings: pairs of a user and a recording
    Positions       \* positions in a recording; 0 is its start

VARIABLES
    saved,          \* what is on record of every viewing
    pending         \* the reports accepted, neither settled nor lost

vars == <<saved, pending>>

Records == [progress : Positions \cup {0}, watched : BOOLEAN]
Reports == [viewing : Viewings, progress : Positions, watched : BOOLEAN]

Init ==
    /\ saved = [k \in Viewings |-> [progress |-> 0, watched |-> FALSE]]
    /\ pending = {}

Accept(r) == pending' = pending \cup {r} /\ UNCHANGED saved

\* One of a viewing's reports decides; an unwatched one leaves the mark alone.
SettledBy(k, mine) ==
    IF mine = {} THEN saved'[k] = saved[k]
    ELSE \E r \in mine : saved'[k] = [progress |-> r.progress,
                                      watched  |-> r.watched \/ saved[k].watched]

\* Reports are settled together when they agree on the mark.
Settle(batch, watched) ==
    /\ batch # {}
    /\ \A r \in batch : r.watched = watched
    /\ saved' \in [Viewings -> Records]
    /\ \A k \in Viewings : SettledBy(k, {r \in batch : r.viewing = k})
    /\ pending' = pending \ batch

Lose(batch) == pending' = pending \ batch /\ UNCHANGED saved

\* The viewer's own report through the second API is settled at once,
SettleOwn(r) ==
    /\ saved' = [saved EXCEPT ![r.viewing] =
                    [progress |-> r.progress, watched |-> r.watched \/ @.watched]]
    /\ UNCHANGED pending

\* and so is the viewer's mark.
Mark(k, watched) ==
    /\ saved' = [saved EXCEPT ![k].watched = watched]
    /\ UNCHANGED pending

Next ==
    \/ \E r \in Reports : Accept(r) \/ SettleOwn(r)
    \/ \E batch \in SUBSET pending, w \in BOOLEAN : Settle(batch, w) \/ Lose(batch)
    \/ \E k \in Viewings, w \in BOOLEAN : Mark(k, w)

Spec == Init /\ [][Next]_vars
=============================================================================
