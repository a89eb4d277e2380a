----------------------------- MODULE StreamRow -----------------------------
(***************************************************************************)
(* The streams row gocast keeps for one lecture, written by the handlers   *)
(* of the runner's notifications in pkg/runner_manager: streamStarted,     *)
(* streamEnded and handleVODReady, each a goroutine of the gRPC server.    *)
(* They read the row through dao.Cache (dao/streams.go, 10 s) and write it *)
(* with separate statements: a read, the update and the clearing of the    *)
(* cache are steps of their own.                                           *)
(*                                                                         *)
(* Each version's runner emits its notifications in order, but delivers    *)
(* every one from its own goroutine, with retries: gocast may handle them  *)
(* in any order, twice, and at the same time.                              *)
(***************************************************************************)
EXTENDS Naturals, FiniteSets

CONSTANTS
    Versions,       \* the versions recorded: combined, presentation, camera
    MaxHandlers,    \* bound: handlers that run at the same time
    Redeliveries    \* bound: how often a notification handled is delivered again

ASSUME BoundsNat == MaxHandlers \in Nat /\ Redeliveries \in Nat

ASSUME SomeVersion == Versions # {}

VARIABLES
    row,            \* the row in the database
    cache,          \* dao.Cache's entry for the stream, or none
    emitted,        \* how many notifications each version's runner has emitted
    pc,             \* where the handler of each notification is
    fetched,        \* the stream each handler has read
    lock,           \* streamStartLock: the notifications whose handler holds it
    redelivered,    \* notifications delivered again so far
    visitor,        \* what another reader of the stream has read, or none
    calm            \* for the properties: so far a version's notifications were
                    \* handled in their order, and nothing at the same time

vars == <<row, cache, emitted, pc, fetched, lock, redelivered, visitor, calm>>

Kinds         == {"start", "end", "vod"}
Notifications == [kind : Kinds, version : Versions]
Rank          == [start |-> 1, end |-> 2, vod |-> 3]

Urls    == {"none", "live", "vod"}
Streams == [liveNow : BOOLEAN, recording : BOOLEAN, url : [Versions -> Urls]]
NoEntry == [entry |-> "none"]

NewStream == [liveNow |-> FALSE, recording |-> FALSE, url |-> [v \in Versions |-> "none"]]

PC == {"due", "reading", "filling", "fetched", "locked", "saved", "done"}

TypeOK ==
    /\ row \in Streams
    /\ cache \in Streams \cup {NoEntry}
    /\ emitted \in [Versions -> 0 .. 3]
    /\ pc \in [Notifications -> PC]
    /\ fetched \in [Notifications -> Streams]
    /\ lock \subseteq Notifications /\ Cardinality(lock) <= 1
    /\ redelivered \in 0 .. Redeliveries
    /\ visitor \in Streams \cup {NoEntry}
    /\ calm \in BOOLEAN

Init ==
    /\ row = NewStream
    /\ cache = NoEntry
    /\ emitted = [v \in Versions |-> 0]
    /\ pc = [n \in Notifications |-> "due"]
    /\ fetched = [n \in Notifications |-> NewStream]
    /\ lock = {}
    /\ redelivered = 0
    /\ visitor = NoEntry
    /\ calm = TRUE

-----------------------------------------------------------------------------
Goto(n, from, to) == pc[n] = from /\ pc' = [pc EXCEPT ![n] = to]

Emit(v) ==
    /\ emitted[v] < 3
    /\ emitted' = [emitted EXCEPT ![v] = @ + 1]
    /\ UNCHANGED <<row, cache, pc, fetched, lock, redelivered, visitor, calm>>

Idle(n) == pc[n] \in {"due", "done"}

Quiet == visitor = NoEntry /\ \A n \in Notifications : Idle(n)

\* Every earlier notification of the version was handled.
InOrder(n) ==
    \A k \in Kinds : Rank[k] < Rank[n.kind] => pc[[kind |-> k, version |-> n.version]] = "done"

\* Notify dispatches on the kind: streamEnded writes before it reads.
Arrive(n) ==
    /\ emitted[n.version] >= Rank[n.kind]
    /\ Cardinality({k \in Notifications : ~Idle(k)}) < MaxHandlers
    /\ calm' = (calm /\ Quiet /\ InOrder(n))
    /\ Goto(n, "due", IF n.kind = "end" THEN "fetched" ELSE "reading")
    /\ UNCHANGED <<row, cache, emitted, fetched, lock, redelivered, visitor>>

\* The runner missed the answer and sends the notification again.
Redeliver(n) ==
    /\ redelivered < Redeliveries
    /\ Goto(n, "done", "due")
    /\ redelivered' = redelivered + 1
    /\ UNCHANGED <<row, cache, emitted, fetched, lock, visitor, calm>>

\* GetStreamByID: from the cache,
ReadCached(n) ==
    /\ cache # NoEntry
    /\ Goto(n, "reading", "fetched")
    /\ fetched' = [fetched EXCEPT ![n] = cache]
    /\ UNCHANGED <<row, cache, emitted, lock, redelivered, visitor, calm>>

\* or from the database, after which the entry is set.
ReadRow(n) ==
    /\ cache = NoEntry
    /\ Goto(n, "reading", "filling")
    /\ fetched' = [fetched EXCEPT ![n] = row]
    /\ UNCHANGED <<row, cache, emitted, lock, redelivered, visitor, calm>>

FillCache(n) ==
    /\ Goto(n, "filling", "fetched")
    /\ cache' = fetched[n]
    /\ UNCHANGED <<row, emitted, fetched, lock, redelivered, visitor, calm>>

\* SaveCOMBURL, SavePRESURL, SaveCAMURL: under streamStartLock, named columns.
LockStart(n) ==
    /\ n.kind = "start"
    /\ lock = {}
    /\ Goto(n, "fetched", "locked")
    /\ lock' = {n}
    /\ cache' = NoEntry
    /\ UNCHANGED <<row, emitted, fetched, redelivered, visitor, calm>>

\* Fault: the stream that was read is saved as a whole.
SaveStartWhole(n) ==
    /\ n.kind = "start"
    /\ Goto(n, "locked", "saved")
    /\ row' = [fetched[n] EXCEPT !.url[n.version] = "live", !.liveNow = TRUE, !.recording = FALSE]
    /\ UNCHANGED <<cache, emitted, fetched, lock, redelivered, visitor, calm>>

SaveStart(n) ==
    /\ n.kind = "start"
    /\ Goto(n, "locked", "saved")
    /\ row' = [row EXCEPT !.url[n.version] = "live", !.liveNow = TRUE, !.recording = FALSE]
    /\ UNCHANGED <<cache, emitted, fetched, lock, redelivered, visitor, calm>>

\* SetStreamNotLiveById
SaveEnd(n) ==
    /\ n.kind = "end"
    /\ Goto(n, "fetched", "saved")
    /\ row' = [row EXCEPT !.liveNow = FALSE]
    /\ UNCHANGED <<cache, emitted, fetched, lock, redelivered, visitor, calm>>

\* SaveStream(stream) with gorm's Updates: the fields of stream that are not
\* zero overwrite the row, the others are left out of the statement.
UpdatesOf(stream) ==
    [liveNow   |-> stream.liveNow \/ row.liveNow,
     recording |-> stream.recording \/ row.recording,
     url       |-> [v \in Versions |->
                       IF stream.url[v] # "none" THEN stream.url[v] ELSE row.url[v]]]

SaveVod(n) ==
    /\ n.kind = "vod"
    /\ Goto(n, "fetched", "saved")
    /\ row' = UpdatesOf([fetched[n] EXCEPT !.url[n.version] = "vod", !.recording = TRUE])
    /\ UNCHANGED <<cache, emitted, fetched, lock, redelivered, visitor, calm>>

\* Fault: the cache is not cleared after a save.
FinishUncleared(n) ==
    /\ Goto(n, "saved", "done")
    /\ lock' = lock \ {n}
    /\ fetched' = [fetched EXCEPT ![n] = NewStream]
    /\ UNCHANGED <<row, cache, emitted, redelivered, visitor, calm>>

\* Cache.Clear at the end of each of them, and the unlock of streamStarted.
\* The read streamEnded adds for the lights only refills the cache. What the
\* handler had read is forgotten.
Finish(n) ==
    /\ Goto(n, "saved", "done")
    /\ cache' = NoEntry
    /\ lock' = lock \ {n}
    /\ fetched' = [fetched EXCEPT ![n] = NewStream]
    /\ UNCHANGED <<row, emitted, redelivered, visitor, calm>>

\* Any other request that calls GetStreamByID, such as a visitor's.
VisitorReads ==
    /\ cache = NoEntry
    /\ visitor = NoEntry
    /\ visitor' = row
    /\ calm' = (calm /\ Quiet)
    /\ UNCHANGED <<row, cache, emitted, pc, fetched, lock, redelivered>>

VisitorFills ==
    /\ visitor # NoEntry
    /\ cache' = visitor
    /\ visitor' = NoEntry
    /\ UNCHANGED <<row, emitted, pc, fetched, lock, redelivered, calm>>

Expire ==
    /\ cache # NoEntry
    /\ cache' = NoEntry
    /\ UNCHANGED <<row, emitted, pc, fetched, lock, redelivered, visitor, calm>>

-----------------------------------------------------------------------------
Handle(n) ==
    \/ Arrive(n) \/ ReadCached(n) \/ ReadRow(n) \/ FillCache(n)
    \/ LockStart(n) \/ SaveStart(n) \/ SaveEnd(n) \/ SaveVod(n) \/ Finish(n)

Next ==
    \/ \E v \in Versions : Emit(v)
    \/ \E n \in Notifications : Handle(n) \/ Redeliver(n)
    \/ VisitorReads \/ VisitorFills \/ Expire

Spec == Init /\ [][Next]_vars

-----------------------------------------------------------------------------
(* Properties. *)

AllHandled == \A n \in Notifications : pc[n] = "done"

\* Once every notification was handled, the lecture is a recording with a VoD
\* of every version, and not live: no write of one version undoes another's.
\* It needs handlers that do not overlap and versions in order; the cache is
\* filled and read between them.
SettledAsVoD ==
    AllHandled /\ calm /\ redelivered = 0 =>
        /\ ~row.liveNow
        /\ row.recording
        /\ \A v \in Versions : row.url[v] = "vod"

\* A burst of starts loses no URL: whatever overlaps, is reordered or comes
\* twice, a version whose start was saved has a URL.
StartKeepsUrl ==
    \A v \in Versions :
        pc[[kind |-> "start", version |-> v]] \in {"saved", "done"} => row.url[v] # "none"
=============================================================================
