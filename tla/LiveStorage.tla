---------------------------- MODULE LiveStorage ----------------------------
(***************************************************************************)
(* The live recordings on a runner's disk: every job records HLS segments  *)
(* into SegmentPath/<stream>/<version> (actions/stream.go), MkVOD converts *)
(* them into StoragePath (actions/mkvod.go), CheckVoD leaves a .del- or    *)
(* .keep- management file in the directory (actions/checkvod.go), and      *)
(* livestreamCleanup (cleanup.go) deletes or backs up directories by them. *)
(*                                                                         *)
(* The unit of time is such that KeepFor of them make two hours.           *)
(* A directory holds the jobs whose segments are in it;                    *)
(* jobs of one stream and version share their directory.                   *)
(***************************************************************************)
EXTENDS Integers, FiniteSetsExt

CONSTANTS
    Jobs,
    Dirs,           \* live directories below SegmentPath
    DirOf,          \* the directory each job records into
    Lengths,        \* durations a recording may have
    KeepFor,        \* checkvod.go: 2 * time.Hour, in units of time
    MaxTime         \* bound on the clock

ASSUME DirOfType  == DirOf \in [Jobs -> Dirs]
ASSUME TimesNat   == Lengths \subseteq Nat /\ KeepFor \in Nat /\ MaxTime \in Nat

VARIABLES
    now,
    pc,             \* where the pipeline of each job is
    exists,         \* directories that exist
    segments,       \* jobs with segments in each directory
    flags,          \* management files in each directory
    vod,            \* jobs whose segments are in StoragePath
    errorPath,      \* jobs whose segments are in ErrorPath
    cleaner,        \* where livestreamCleanup is
    remove, backup, \* its maps: when each directory may be removed, backed up
    copied          \* the directory it has just copied to ErrorPath

jobVars     == <<pc, vod>>
diskVars    == <<exists, segments, flags>>
cleanerVars == <<cleaner, remove, backup, copied>>
vars        == <<now, jobVars, diskVars, errorPath, cleanerVars>>

Never == -2     \* the directory is not in the map
Empty == -1     \* found empty: due at once

\* A management file: what it asks for, the time in its name, and (not on
\* disk, for the properties) the job that wrote it.
Flags == [kind : {"del", "keep"}, until : Nat, by : Jobs]

TypeOK ==
    /\ now \in 0 .. MaxTime
    /\ pc \in [Jobs -> {"idle", "prepared", "recording", "ended", "converted", "unconverted", "done"}]
    /\ exists \subseteq Dirs
    /\ segments \in [Dirs -> SUBSET Jobs]
    /\ flags \in [Dirs -> SUBSET Flags]
    /\ vod \subseteq Jobs
    /\ errorPath \subseteq Jobs
    /\ cleaner \in {"sleeping", "removing", "backingUp"}
    /\ remove \in [Dirs -> Nat \cup {Never, Empty}]
    /\ backup \in [Dirs -> Nat \cup {Never}]
    /\ copied \subseteq Dirs

Init ==
    /\ now = 0
    /\ pc = [j \in Jobs |-> "idle"]
    /\ exists = {}
    /\ segments = [d \in Dirs |-> {}]
    /\ flags = [d \in Dirs |-> {}]
    /\ vod = {} /\ errorPath = {}
    /\ cleaner = "sleeping"
    /\ remove = [d \in Dirs |-> Never] /\ backup = [d \in Dirs |-> Never] /\ copied = {}

-----------------------------------------------------------------------------
(* The pipeline of a job. *)
Step(j, from, to) == pc[j] \in from /\ pc' = [pc EXCEPT ![j] = to]

\* Stream: MkdirAll(liveRecDir), at the first attempt and at every retry.
Prepare(j) ==
    /\ Step(j, {"idle", "prepared", "recording"}, "prepared")
    /\ exists' = exists \cup {DirOf[j]}
    /\ UNCHANGED <<now, segments, flags, vod, errorPath, cleanerVars>>

\* ffmpeg adds a segment; it cannot once the directory is gone.
Record(j) ==
    /\ DirOf[j] \in exists
    /\ Step(j, {"prepared", "recording"}, "recording")
    /\ segments' = [segments EXCEPT ![DirOf[j]] = @ \cup {j}]
    /\ UNCHANGED <<now, exists, flags, vod, errorPath, cleanerVars>>

\* The end of the stream, or its cancellation, also before the first segment.
EndRecording(j) ==
    /\ Step(j, {"prepared", "recording"}, "ended")
    /\ UNCHANGED <<now, diskVars, vod, errorPath, cleanerVars>>

\* Fault: a conversion that wrote nothing counts as done.
ConvertNothing(j) ==
    /\ Step(j, {"ended"}, "converted")
    /\ UNCHANGED <<now, diskVars, vod, errorPath, cleanerVars>>

\* MkVOD: converts what the playlist of the directory lists.
Convert(j) ==
    /\ segments[DirOf[j]] # {}
    /\ Step(j, {"ended"}, "converted")
    /\ vod' = vod \cup segments[DirOf[j]]
    /\ UNCHANGED <<now, diskVars, errorPath, cleanerVars>>

ConvertFails(j) ==
    /\ Step(j, {"ended"}, "unconverted")
    /\ UNCHANGED <<now, diskVars, vod, errorPath, cleanerVars>>

WriteManagementFile(j, kind, after) ==
    LET file == [kind |-> kind, until |-> now + after, by |-> j]
    IN  flags' = [flags EXCEPT ![DirOf[j]] = @ \cup {file}]

\* CheckVoD finds the VoD as long as the recording: both must be readable.
CheckHealthy(j) ==
    /\ segments[DirOf[j]] # {}
    /\ Step(j, {"converted"}, "done")
    /\ \E length \in Lengths : WriteManagementFile(j, "del", length)
    /\ UNCHANGED <<now, exists, segments, vod, errorPath, cleanerVars>>

\* CheckVoD has no VoD, cannot probe, or the durations diverge.
CheckUnhealthy(j) ==
    /\ DirOf[j] \in exists
    /\ Step(j, {"converted", "unconverted"}, "done")
    /\ WriteManagementFile(j, "keep", KeepFor)
    /\ UNCHANGED <<now, exists, segments, vod, errorPath, cleanerVars>>

\* writeManagementFile fails: the directory was removed meanwhile.
CheckFindsNothing(j) ==
    /\ DirOf[j] \notin exists
    /\ Step(j, {"converted", "unconverted"}, "done")
    /\ UNCHANGED <<now, diskVars, vod, errorPath, cleanerVars>>

-----------------------------------------------------------------------------
(* livestreamCleanup: one pass every minute. *)

\* The last file of a kind in WalkDir's order is the one with the latest time.
Latest(d, kind) ==
    LET times == {f.until : f \in {g \in flags[d] : g.kind = kind}}
    IN  IF times = {} THEN Never ELSE Max(times)

IsEmpty(d) == d \in exists /\ segments[d] = {} /\ flags[d] = {}

\* Fault: a directory without a .del- file gets the zero time.
ScanZeroTime ==
    /\ cleaner = "sleeping"
    /\ cleaner' = "removing"
    /\ remove' = [d \in Dirs |-> IF IsEmpty(d) THEN Empty
                                 ELSE IF Latest(d, "del") = Never THEN 0 ELSE Latest(d, "del")]
    /\ backup' = [d \in Dirs |-> Latest(d, "keep")]
    /\ UNCHANGED <<now, jobVars, diskVars, errorPath, copied>>

\* determineCleanableDirectories
Scan ==
    /\ cleaner = "sleeping"
    /\ cleaner' = "removing"
    /\ remove' = [d \in Dirs |-> IF IsEmpty(d) THEN Empty ELSE Latest(d, "del")]
    /\ backup' = [d \in Dirs |-> Latest(d, "keep")]
    /\ UNCHANGED <<now, jobVars, diskVars, errorPath, copied>>

\* t.Before(time.Now())
Due(t) == t # Never /\ t < now

RemoveAll(d) ==
    /\ exists' = exists \ {d}
    /\ segments' = [segments EXCEPT ![d] = {}]
    /\ flags' = [flags EXCEPT ![d] = {}]

\* The first loop, over the map remove.
RemoveDue(d) ==
    /\ cleaner = "removing"
    /\ Due(remove[d])
    /\ RemoveAll(d)
    /\ remove' = [remove EXCEPT ![d] = Never]
    /\ UNCHANGED <<now, jobVars, errorPath, cleaner, backup, copied>>

\* os.RemoveAll fails: only logged.
RemoveFails(d) ==
    /\ cleaner = "removing"
    /\ Due(remove[d])
    /\ remove' = [remove EXCEPT ![d] = Never]
    /\ UNCHANGED <<now, jobVars, diskVars, errorPath, cleaner, backup, copied>>

RemovingEnds ==
    /\ cleaner = "removing"
    /\ \A d \in Dirs : ~Due(remove[d])
    /\ cleaner' = "backingUp"
    /\ UNCHANGED <<now, jobVars, diskVars, errorPath, remove, backup, copied>>

\* Fault: after a failed copy the directory is removed all the same.
CopyFailsUnnoticed(d) ==
    /\ cleaner = "backingUp" /\ copied = {}
    /\ Due(backup[d])
    /\ copied' = {d}
    /\ UNCHANGED <<now, jobVars, diskVars, errorPath, cleaner, remove, backup>>

\* The second loop, over the map backup: cp.Copy fails, for one because the
\* directory is gone; it is left for the next pass.
CopyFails(d) ==
    /\ cleaner = "backingUp" /\ copied = {}
    /\ Due(backup[d])
    /\ backup' = [backup EXCEPT ![d] = Never]
    /\ UNCHANGED <<now, jobVars, diskVars, errorPath, cleaner, remove, copied>>

CopyToErrorPath(d) ==
    /\ cleaner = "backingUp" /\ copied = {}
    /\ Due(backup[d])
    /\ d \in exists
    /\ errorPath' = errorPath \cup segments[d]
    /\ copied' = {d}
    /\ UNCHANGED <<now, jobVars, diskVars, cleaner, remove, backup>>

RemoveBackedUp(d) ==
    /\ d \in copied
    /\ RemoveAll(d)
    /\ copied' = {}
    /\ backup' = [backup EXCEPT ![d] = Never]
    /\ UNCHANGED <<now, jobVars, errorPath, cleaner, remove>>

PassEnds ==
    /\ cleaner = "backingUp" /\ copied = {}
    /\ \A d \in Dirs : ~Due(backup[d])
    /\ cleaner' = "sleeping"
    /\ UNCHANGED <<now, jobVars, diskVars, errorPath, remove, backup, copied>>

\* Bounded by MaxTime.
Tick ==
    /\ now < MaxTime
    /\ now' = now + 1
    /\ UNCHANGED <<jobVars, diskVars, errorPath, cleanerVars>>

-----------------------------------------------------------------------------
JobStep(j) ==
    \/ Prepare(j) \/ Record(j) \/ EndRecording(j)
    \/ Convert(j) \/ ConvertFails(j)
    \/ CheckHealthy(j) \/ CheckUnhealthy(j) \/ CheckFindsNothing(j)

CleanDir(d) ==
    RemoveDue(d) \/ RemoveFails(d) \/ CopyFails(d) \/ CopyToErrorPath(d) \/ RemoveBackedUp(d)

Next ==
    \/ \E j \in Jobs : JobStep(j)
    \/ \E d \in Dirs : CleanDir(d)
    \/ Scan \/ RemovingEnds \/ PassEnds \/ Tick

Spec == Init /\ [][Next]_vars

-----------------------------------------------------------------------------
(* Properties. The rule for empty directories is excepted in the action     *)
(* properties: a directory scanned as empty, between MkdirAll and the first *)
(* segment, is removed whatever is in it by then.                           *)

\* A job whose check marks the live recording for deletion has its own
\* segments in the VoD: comparing two durations does not show that by itself.
DeletableHasVod ==
    \A d \in Dirs : \A f \in flags[d] : f.kind = "del" => f.by \in vod

\* Cleanup takes no segment of a job that has not finished.
RecordingUndisturbed ==
    [][\A j \in Jobs : j \in segments[DirOf[j]] /\ j \notin segments'[DirOf[j]]
            => pc[j] = "done" \/ remove[DirOf[j]] = Empty]_vars

\* livestreamCleanup: directories with a .keep- file are moved to ErrorPath,
\* so a recording whose VoD is missing or wrong is never just deleted.
KeptIsBackedUp ==
    [][\A d \in Dirs : \A f \in flags[d] \ flags'[d] :
            f.kind = "keep" /\ f.by \in segments[d] /\ remove[d] # Empty => f.by \in errorPath]_vars
=============================================================================
