--------------------------- MODULE WatchProgress ---------------------------
(***************************************************************************)
(* The progress of viewers: the player's reports are collected in memory    *)
(* (api/progress.go) and flushed every five seconds with two upserts        *)
(* (dao/progress.go), while the watched button and the second API write the *)
(* row directly. The statements may fail and gocast may restart.            *)
(***************************************************************************)
EXTENDS Naturals, Sequences, FiniteSets

CONSTANTS
    Viewings,       \* pairs of a user and a recording
    Positions,      \* positions a player reports, in seconds
    Duration,       \* length of a recording in seconds
    LastSilence,    \* start and end of each viewing's last silence, or NoSilence
    NoSilence,
    Modulus,        \* a uint wraps around here (bound; 2^64 in Go)
    MaxBuffer,      \* bound: reports between two flushes
    MaxFaults       \* bound: failing statements and restarts

ASSUME PositionsNat == Positions \subseteq Nat \ {0}
ASSUME BoundsNat    == MaxBuffer \in Nat /\ MaxFaults \in Nat

VARIABLES
    progresses,     \* the buffer
    flushing,       \* where flush is, which holds the lock from its start
    row,            \* the rows of stream_progresses
    faults,
    latest,         \* for the properties: the last position accepted by the buffer
    disturbed       \* for the properties: viewings whose last position was lost,
                    \* or accepted while a watched report was in the buffer, or
                    \* followed by a report through the second API

vars == <<progresses, flushing, row, faults, latest, disturbed>>

Reports == [viewing : Viewings, progress : Positions, watched : BOOLEAN]
NoRow   == [progress |-> 0, watched |-> FALSE]   \* every query treats a missing row so

TypeOK ==
    /\ progresses \in Seq(Reports) /\ Len(progresses) <= MaxBuffer
    /\ flushing \in {"no", "unwatched", "watched"}
    /\ flushing # "no" => progresses # <<>>
    /\ row \in [Viewings -> [progress : Positions \cup {0}, watched : BOOLEAN]]
    /\ faults \in 0 .. MaxFaults
    /\ latest \in [Viewings -> Positions \cup {0}]
    /\ disturbed \subseteq Viewings

Init ==
    /\ progresses = <<>>
    /\ flushing = "no"
    /\ row = [k \in Viewings |-> NoRow]
    /\ faults = 0
    /\ latest = [k \in Viewings |-> 0]
    /\ disturbed = {}

-----------------------------------------------------------------------------
\* math.Abs(float64(lastSilence.End - uint(duration))) < 10: the difference is
\* one of unsigned integers.
SilenceAtEnd(k) ==
    /\ LastSilence[k] # NoSilence
    /\ (Modulus + LastSilence[k].end - Duration) % Modulus < 10

Watched(k, position) ==
    \/ 10 * position > 9 * Duration
    \/ SilenceAtEnd(k) /\ position >= LastSilence[k].start

Buffered(k, watched) ==
    \E i \in DOMAIN progresses : progresses[i].viewing = k /\ progresses[i].watched = watched

\* saveProgress, which waits for the lock of a running flush.
SaveProgress(k, position) ==
    LET report == [viewing |-> k, progress |-> position, watched |-> Watched(k, position)] IN
    /\ flushing = "no"
    /\ Len(progresses) < MaxBuffer
    /\ progresses' = Append(progresses, report)
    /\ latest' = [latest EXCEPT ![k] = position]
    /\ disturbed' = IF ~report.watched /\ Buffered(k, TRUE)
                    THEN disturbed \cup {k} ELSE disturbed \ {k}
    /\ UNCHANGED <<flushing, row, faults>>

Flush ==
    /\ flushing = "no"
    /\ progresses # <<>>
    /\ flushing' = "unwatched"
    /\ UNCHANGED <<progresses, row, faults, latest, disturbed>>

\* filterProgress, by index.
Filtered(watched) == {i \in DOMAIN progresses : progresses[i].watched = watched}

\* Of a viewing's rows in one statement the last one wins.
IsLast(i, k, watched) ==
    /\ i \in Filtered(watched) /\ progresses[i].viewing = k
    /\ \A j \in Filtered(watched) : progresses[j].viewing = k => j <= i

Touched(watched) == {k \in Viewings : Buffered(k, watched)}

\* ON CONFLICT: progress, and watched only in the second statement.
Upsert(watched) ==
    \E last \in [Touched(watched) -> DOMAIN progresses] :
        /\ \A k \in Touched(watched) : IsLast(last[k], k, watched)
        /\ row' = [k \in Viewings |-> IF k \notin Touched(watched) THEN row[k] ELSE
                      [progress |-> progresses[last[k]].progress,
                       watched  |-> watched \/ row[k].watched]]

Fails(watched) ==
    /\ Filtered(watched) # {}
    /\ faults < MaxFaults
    /\ faults' = faults + 1
    /\ disturbed' = disturbed \cup Touched(watched)
    /\ UNCHANGED row

\* Fault: an error of the first statement returns before the second.
SaveUnwatchedReturns ==
    /\ flushing = "unwatched"
    /\ \/ Upsert(FALSE) /\ flushing' = "watched" /\ UNCHANGED <<progresses, faults, disturbed>>
       \/ Fails(FALSE) /\ flushing' = "no" /\ progresses' = <<>>
    /\ UNCHANGED latest

\* SaveProgresses: an error of the first statement does not stop the second,
SaveUnwatched ==
    /\ flushing = "unwatched"
    /\ \/ Upsert(FALSE) /\ UNCHANGED <<faults, disturbed>>
       \/ Fails(FALSE)
    /\ flushing' = "watched"
    /\ UNCHANGED <<progresses, latest>>

\* Fault: the buffer is not emptied.
SaveWatchedKeeps ==
    /\ flushing = "watched"
    /\ \/ Upsert(TRUE) /\ UNCHANGED <<faults, disturbed>>
       \/ Fails(TRUE)
    /\ flushing' = "no"
    /\ UNCHANGED <<progresses, latest>>

\* and whatever the outcome flush empties the buffer and unlocks.
SaveWatched ==
    /\ flushing = "watched"
    /\ \/ Upsert(TRUE) /\ UNCHANGED <<faults, disturbed>>
       \/ Fails(TRUE)
    /\ flushing' = "no"
    /\ progresses' = <<>>
    /\ UNCHANGED latest

\* Fault: all columns of the given row are written.
MarkWatchedWhole(k, watched) ==
    /\ row' = [row EXCEPT ![k] = [progress |-> 0, watched |-> watched]]
    /\ UNCHANGED <<progresses, flushing, faults, latest, disturbed>>

\* markWatched, SaveWatchedState: neither the buffer nor its lock is used.
MarkWatched(k, watched) ==
    /\ row' = [row EXCEPT ![k].watched = watched]
    /\ UNCHANGED <<progresses, flushing, faults, latest, disturbed>>

\* UpdateProgress of the second API: SaveProgresses with one report.
UpdateProgress(r) ==
    /\ row' = [row EXCEPT ![r.viewing] =
                  [progress |-> r.progress, watched |-> r.watched \/ @.watched]]
    /\ disturbed' = disturbed \cup {r.viewing}
    /\ UNCHANGED <<progresses, flushing, faults, latest>>

Restart ==
    /\ faults < MaxFaults
    /\ faults' = faults + 1
    /\ progresses' = <<>>
    /\ flushing' = "no"
    /\ disturbed' = disturbed \cup Touched(TRUE) \cup Touched(FALSE)
    /\ UNCHANGED <<row, latest>>

-----------------------------------------------------------------------------
Next ==
    \/ \E k \in Viewings, p \in Positions : SaveProgress(k, p)
    \/ \E k \in Viewings, w \in BOOLEAN : MarkWatched(k, w)
    \/ \E r \in Reports : UpdateProgress(r)
    \/ Flush \/ SaveUnwatched \/ SaveWatched \/ Restart

\* run flushes every interval for ever, and a statement ends.
Spec == Init /\ [][Next]_vars /\ WF_vars(Flush) /\ WF_vars(SaveUnwatched) /\ WF_vars(SaveWatched)

-----------------------------------------------------------------------------
(* Properties. *)

\* The reports that are neither in the table nor lost.
Pending ==
    {progresses[i] : i \in {j \in DOMAIN progresses : flushing = "watched" => progresses[j].watched}}

\* Buffer and upserts implement the record a viewer is promised.
Record == INSTANCE WatchRecord WITH saved <- row, pending <- Pending
ImplementsRecord == Record!Spec

\* A watched mark is taken away by the viewer and by nothing else: "because else
\* the watched state will be overwritten".
MarkKept ==
    [][\A k \in Viewings : row[k].watched /\ ~row'[k].watched => MarkWatched(k, FALSE)]_vars

\* A viewer resumes where the player was last: once flushed, the row holds the
\* last position reported, unless the two statements changed the order of
\* reports, one failed, or another client wrote.
ResumesAtLatest ==
    \A k \in Viewings :
        k \in disturbed \/ Buffered(k, TRUE) \/ Buffered(k, FALSE) \/ row[k].progress = latest[k]

\* A recording watched to its end is shown as watched in the end, also when the
\* statement for the unwatched reports of the same flush fails.
WatchedShows ==
    \A k \in Viewings :
        Buffered(k, TRUE) /\ faults = 0 ~>
            row[k].watched \/ (faults > 0 /\ k \in disturbed)
=============================================================================
