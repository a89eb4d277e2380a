------------------------ MODULE LiveStorage_proofs ------------------------
(***************************************************************************)
(* Proofs about LiveStorage, for any jobs, directories, recording lengths  *)
(* and clock: as long as every job has a directory of its own, cleanup     *)
(* takes nothing from a job that has not finished, and deletes nothing it  *)
(* was to back up. (The assumption is needed: of two jobs that share a      *)
(* directory, one's .del- file deletes what the other's .keep- protects.)   *)
(***************************************************************************)
EXTENDS LiveStorage, TLAPS

\* No stream and version is recorded twice.
OneJobPerDir == \A j, k \in Jobs : DirOf[j] = DirOf[k] => j = k

-----------------------------------------------------------------------------
\* What the proofs need of the types.
Shape ==
    /\ pc \in [Jobs -> {"idle", "prepared", "recording", "ended", "converted", "unconverted", "done"}]
    /\ segments \in [Dirs -> SUBSET Jobs]
    /\ flags \in [Dirs -> SUBSET Flags]
    /\ remove = [d \in Dirs |-> remove[d]]
    /\ backup = [d \in Dirs |-> backup[d]]
    /\ copied \subseteq Dirs
    /\ now \in Nat

\* A directory holds segments and management files of its own job only, and a
\* management file once that job is done.
OwnContents == \A d \in Dirs :
    /\ \A j \in segments[d] : DirOf[j] = d
    /\ \A f \in flags[d] : DirOf[f.by] = d /\ pc[f.by] = "done"
    /\ \A f, g \in flags[d] : f = g

\* MkVOD converts the segments of its job, without which CheckVoD does not mark
\* the directory for deletion.
ConvertedHasVod == \A j \in Jobs : pc[j] = "converted" => j \in vod

\* The job of a directory is done.
Finished(d) == \E j \in Jobs : DirOf[j] = d /\ pc[j] = "done"

\* The maps of the last scan stay true: nothing happens in a directory whose
\* job is done.
MapsHold == \A d \in Dirs :
    /\ remove[d] \notin {Never, Empty} => Finished(d) /\ \A f \in flags[d] : f.kind = "del"
    /\ backup[d] # Never => Finished(d)

\* What was copied is still all that is in the directory.
CopiedHolds == \A d \in copied : Finished(d) /\ segments[d] \subseteq errorPath

Inv ==
    /\ Shape /\ OwnContents /\ ConvertedHasVod
    /\ DeletableHasVod /\ MapsHold /\ CopiedHolds

\* The steps of a job keep all of it.
LEMMA JobStepKeeps ==
    ASSUME OneJobPerDir, Inv, NEW j \in Jobs, JobStep(j)
    PROVE  Inv'
<1> USE DirOfType, TimesNat DEF OneJobPerDir, Inv, Shape, OwnContents, ConvertedHasVod, Finished,
        DeletableHasVod, MapsHold, CopiedHolds, Step, cleanerVars, diskVars
<1>1. CASE Prepare(j) \/ EndRecording(j) \/ ConvertFails(j) \/ CheckFindsNothing(j)
  <2>1. UNCHANGED <<now, segments, flags, vod, errorPath, cleanerVars>> /\ pc[j] # "done"
    BY <1>1 DEF Prepare, EndRecording, ConvertFails, CheckFindsNothing
  <2>2. \E to \in {"prepared", "ended", "unconverted", "done"} : pc' = [pc EXCEPT ![j] = to]
    BY <1>1 DEF Prepare, EndRecording, ConvertFails, CheckFindsNothing
  <2> QED
    BY <2>1, <2>2
<1>2. CASE Record(j)
  BY <1>2 DEF Record
<1>3. CASE Convert(j)
  BY <1>3 DEF Convert
<1>4. ASSUME NEW kind \in {"del", "keep"}, NEW after \in Nat, WriteManagementFile(j, kind, after)
      PROVE  \E f \in Flags : /\ f.kind = kind /\ f.by = j
                              /\ flags' = [flags EXCEPT ![DirOf[j]] = @ \cup {f}]
  <2> DEFINE file == [kind |-> kind, until |-> now + after, by |-> j]
  <2>1. file \in Flags /\ file.kind = kind /\ file.by = j
    BY DEF Flags
  <2>2. flags' = [flags EXCEPT ![DirOf[j]] = @ \cup {file}]
    BY <1>4 DEF WriteManagementFile
  <2> QED
    BY <2>1, <2>2
<1>5. pc[j] # "done" => flags[DirOf[j]] = {}
  BY DEF Flags
<1>6. CASE CheckHealthy(j)
  <2>1. PICK length \in Nat : WriteManagementFile(j, "del", length)
    BY <1>6 DEF CheckHealthy
  <2>2. PICK f \in Flags : /\ f.kind = "del" /\ f.by = j
                           /\ flags' = [flags EXCEPT ![DirOf[j]] = @ \cup {f}]
    BY <1>4, <2>1
  <2> QED
    BY <1>5, <1>6, <2>2 DEF CheckHealthy
<1>7. CASE CheckUnhealthy(j)
  <2>1. PICK f \in Flags : /\ f.kind = "keep" /\ f.by = j
                           /\ flags' = [flags EXCEPT ![DirOf[j]] = @ \cup {f}]
    BY <1>4, <1>7 DEF CheckUnhealthy
  <2> QED
    BY <1>5, <1>7, <2>1 DEF CheckUnhealthy
<1> QED
  BY <1>1, <1>2, <1>3, <1>6, <1>7 DEF JobStep

\* A scan finds a time only where there is a file.
LEMMA LatestFound ==
    ASSUME NEW d \in Dirs, NEW kind, Latest(d, kind) # Never
    PROVE  \E f \in flags[d] : f.kind = kind
BY DEF Latest

\* The steps of livestreamCleanup, and of the clock, keep all of it.
LEMMA CleanupKeeps ==
    ASSUME OneJobPerDir, Inv,
           (\E d \in Dirs : CleanDir(d)) \/ Scan \/ RemovingEnds \/ PassEnds \/ Tick
    PROVE  Inv'
<1> USE DirOfType, TimesNat DEF OneJobPerDir, Inv, Shape, OwnContents, ConvertedHasVod, Finished,
        DeletableHasVod, MapsHold, CopiedHolds, RemoveAll, cleanerVars, diskVars, jobVars
<1>1. ASSUME NEW d \in Dirs, RemoveDue(d) \/ RemoveFails(d) PROVE Inv'
  BY <1>1 DEF RemoveDue, RemoveFails
<1>2. ASSUME NEW d \in Dirs, CopyFails(d) PROVE Inv'
  <2>1. UNCHANGED <<now, pc, vod, segments, flags, errorPath, remove, copied>>
    BY <1>2 DEF CopyFails
  <2>2. backup' = [backup EXCEPT ![d] = Never]
    BY <1>2 DEF CopyFails
  <2> QED
    BY <2>1, <2>2
<1>3. ASSUME NEW d \in Dirs, CopyToErrorPath(d) PROVE Inv'
  BY <1>3 DEF CopyToErrorPath, Due
<1>4. ASSUME NEW d \in Dirs, RemoveBackedUp(d) PROVE Inv'
  BY <1>4 DEF RemoveBackedUp
<1>5. CASE Scan
  <2>1. ASSUME NEW d \in Dirs, remove'[d] \notin {Never, Empty}
        PROVE  \E f \in flags[d] : f.kind = "del"
    BY <1>5, <2>1, LatestFound DEF Scan
  <2>2. ASSUME NEW d \in Dirs, backup'[d] # Never
        PROVE  \E f \in flags[d] : f.kind = "keep"
    BY <1>5, <2>2, LatestFound DEF Scan
  <2>3. MapsHold'
    BY <1>5, <2>1, <2>2 DEF Scan, Flags
  <2> QED
    BY <1>5, <2>3 DEF Scan
<1>6. CASE RemovingEnds \/ PassEnds \/ Tick
  BY <1>6 DEF RemovingEnds, PassEnds, Tick
<1> QED
  BY <1>1, <1>2, <1>3, <1>4, <1>5, <1>6 DEF CleanDir

\* The invariant of a storage in which no two jobs share a directory.
THEOREM InvCorrect == ASSUME OneJobPerDir PROVE Spec => []Inv
<1>1. Init => Inv
  BY DirOfType, TimesNat DEF Init, Inv, Shape, OwnContents, ConvertedHasVod, DeletableHasVod,
                             MapsHold, CopiedHolds, Flags
<1>2. Inv /\ [Next]_vars => Inv'
  <2> SUFFICES ASSUME Inv, [Next]_vars PROVE Inv'
    OBVIOUS
  <2>1. CASE UNCHANGED vars
    BY <2>1 DEF vars, jobVars, diskVars, cleanerVars, Inv, Shape, OwnContents, ConvertedHasVod,
                Finished, DeletableHasVod, MapsHold, CopiedHolds
  <2> QED
    BY <2>1, JobStepKeeps, CleanupKeeps DEF Next
<1> QED
  BY <1>1, <1>2, PTL DEF Spec

\* The time a scan takes from the management files of a directory is in one of them.
LEMMA LatestTyped ==
    ASSUME Inv, NEW d \in Dirs, NEW kind
    PROVE  Latest(d, kind) \in Nat \cup {Never}
<1> DEFINE files == {g \in flags[d] : g.kind = kind}
           times == {f.until : f \in files}
<1>1. times \subseteq Nat
  BY DEF Inv, Shape, Flags
<1>2. CASE times = {}
  BY <1>2 DEF Latest
<1>3. CASE times # {}
  <2>1. PICK t \in times : TRUE
    BY <1>3
  <2>2. times = {t}
    BY <2>1 DEF Inv, OwnContents
  <2>3. Max({t}) = t
    BY <1>1, <2>1 DEF Max
  <2>4. Latest(d, kind) = Max(times)
    BY <1>3 DEF Latest
  <2> QED
    BY <1>1, <2>1, <2>2, <2>3, <2>4
<1> QED
  BY <1>2, <1>3

LEMMA JobStepTyped ==
    ASSUME TypeOK, NEW j \in Jobs, JobStep(j)
    PROVE  TypeOK'
<1> USE DirOfType, TimesNat DEF TypeOK, Step, cleanerVars, diskVars
<1>1. CASE Prepare(j) \/ EndRecording(j) \/ ConvertFails(j) \/ CheckFindsNothing(j)
  BY <1>1 DEF Prepare, EndRecording, ConvertFails, CheckFindsNothing
<1>2. CASE Record(j) \/ Convert(j)
  BY <1>2 DEF Record, Convert
<1>3. ASSUME NEW kind \in {"del", "keep"}, NEW after \in Nat, WriteManagementFile(j, kind, after)
      PROVE  flags' \in [Dirs -> SUBSET Flags]
  <2>1. [kind |-> kind, until |-> now + after, by |-> j] \in Flags
    BY DEF Flags
  <2> QED
    BY <1>3, <2>1 DEF WriteManagementFile
<1>4. CASE CheckHealthy(j)
  BY <1>3, <1>4 DEF CheckHealthy
<1>5. CASE CheckUnhealthy(j)
  BY <1>3, <1>5 DEF CheckUnhealthy
<1> QED
  BY <1>1, <1>2, <1>4, <1>5 DEF JobStep

\* The storage and the maps of livestreamCleanup stay within their types.
THEOREM TypeCorrect == ASSUME OneJobPerDir PROVE Spec => []TypeOK
<1>1. Init => TypeOK
  BY TimesNat DEF Init, TypeOK
<1>2. TypeOK /\ Inv /\ [Next]_vars => TypeOK'
  <2> SUFFICES ASSUME TypeOK, Inv, [Next]_vars PROVE TypeOK'
    OBVIOUS
  <2> USE TimesNat DEF TypeOK, RemoveAll, cleanerVars, diskVars, jobVars
  <2>1. ASSUME NEW d \in Dirs, CleanDir(d) PROVE TypeOK'
    BY <2>1 DEF CleanDir, RemoveDue, RemoveFails, CopyFails, CopyToErrorPath, RemoveBackedUp
  <2>2. CASE Scan
    <3>1. \A d \in Dirs : /\ Latest(d, "del") \in Nat \cup {Never}
                          /\ Latest(d, "keep") \in Nat \cup {Never}
      BY LatestTyped
    <3> QED
      BY <2>2, <3>1 DEF Scan
  <2>3. CASE RemovingEnds \/ PassEnds \/ Tick
    BY <2>3 DEF RemovingEnds, PassEnds, Tick
  <2>4. CASE UNCHANGED vars
    BY <2>4 DEF vars
  <2> QED
    BY <2>1, <2>2, <2>3, <2>4, JobStepTyped DEF Next
<1> QED
  BY <1>1, <1>2, InvCorrect, PTL DEF Spec

-----------------------------------------------------------------------------
\* What CheckVoD marks for deletion is in a VoD.
THEOREM DeletableCorrect == ASSUME OneJobPerDir PROVE Spec => []DeletableHasVod
<1>1. Inv => DeletableHasVod
  BY DEF Inv
<1> QED
  BY <1>1, InvCorrect, PTL

\* Only two steps take anything out of a directory, and those empty it.
LEMMA OnlyCleanupRemoves ==
    ASSUME Inv, [Next]_vars, NEW d \in Dirs, ~RemoveDue(d), ~RemoveBackedUp(d)
    PROVE  segments[d] \subseteq segments'[d] /\ flags[d] \subseteq flags'[d]
<1> USE DEF Inv, Shape, diskVars
<1>1. ASSUME NEW j \in Jobs, JobStep(j) PROVE segments[d] \subseteq segments'[d] /\ flags[d] \subseteq flags'[d]
  <2>1. CASE CheckHealthy(j) \/ CheckUnhealthy(j)
    BY <2>1, DirOfType DEF CheckHealthy, CheckUnhealthy, WriteManagementFile
  <2>2. CASE Record(j)
    BY <2>2, DirOfType DEF Record
  <2>3. CASE Prepare(j) \/ EndRecording(j) \/ Convert(j) \/ ConvertFails(j) \/ CheckFindsNothing(j)
    BY <2>3 DEF Prepare, EndRecording, Convert, ConvertFails, CheckFindsNothing
  <2> QED
    BY <1>1, <2>1, <2>2, <2>3 DEF JobStep
<1>2. ASSUME NEW e \in Dirs, CleanDir(e) PROVE segments[d] \subseteq segments'[d] /\ flags[d] \subseteq flags'[d]
  <2>1. CASE RemoveDue(e) \/ RemoveBackedUp(e)
    BY <2>1 DEF RemoveDue, RemoveBackedUp, RemoveAll
  <2>2. CASE RemoveFails(e) \/ CopyFails(e) \/ CopyToErrorPath(e)
    BY <2>2 DEF RemoveFails, CopyFails, CopyToErrorPath
  <2> QED
    BY <1>2, <2>1, <2>2 DEF CleanDir
<1>3. CASE Scan \/ RemovingEnds \/ PassEnds \/ Tick \/ UNCHANGED vars
  BY <1>3 DEF Scan, RemovingEnds, PassEnds, Tick, vars
<1> QED
  BY <1>1, <1>2, <1>3 DEF Next

\* Cleanup disturbs no recording, conversion or check.
THEOREM UndisturbedCorrect == ASSUME OneJobPerDir PROVE Spec => RecordingUndisturbed
<1>1. ASSUME Inv, [Next]_vars, NEW j \in Jobs,
             j \in segments[DirOf[j]], j \notin segments'[DirOf[j]], remove[DirOf[j]] # Empty
      PROVE  pc[j] = "done"
  <2> DEFINE d == DirOf[j]
  <2>1. d \in Dirs
    BY DirOfType
  <2>2. RemoveDue(d) \/ RemoveBackedUp(d)
    BY <1>1, <2>1, OnlyCleanupRemoves
  <2>3. Finished(d)
    BY <1>1, <2>1, <2>2 DEF RemoveDue, RemoveBackedUp, Due, Inv, MapsHold, CopiedHolds
  <2> QED
    BY <2>3 DEF Finished, OneJobPerDir
<1>2. Inv /\ [Next]_vars => [\A j \in Jobs : j \in segments[DirOf[j]] /\ j \notin segments'[DirOf[j]]
                                => pc[j] = "done" \/ remove[DirOf[j]] = Empty]_vars
  BY <1>1
<1> QED
  BY <1>2, InvCorrect, PTL DEF Spec, RecordingUndisturbed

\* A recording whose VoD is missing or wrong reaches ErrorPath before its
\* directory is removed.
THEOREM KeptCorrect == ASSUME OneJobPerDir PROVE Spec => KeptIsBackedUp
<1>1. ASSUME Inv, [Next]_vars, NEW d \in Dirs, NEW f \in flags[d] \ flags'[d],
             f.kind = "keep", f.by \in segments[d], remove[d] # Empty
      PROVE  f.by \in errorPath
  <2>1. RemoveDue(d) \/ RemoveBackedUp(d)
    BY <1>1, OnlyCleanupRemoves
  <2>2. ~RemoveDue(d)
    BY <1>1 DEF RemoveDue, Due, Inv, MapsHold
  <2> QED
    BY <1>1, <2>1, <2>2 DEF RemoveBackedUp, Inv, CopiedHolds
<1>2. Inv /\ [Next]_vars => [\A d \in Dirs : \A f \in flags[d] \ flags'[d] :
            f.kind = "keep" /\ f.by \in segments[d] /\ remove[d] # Empty => f.by \in errorPath]_vars
  BY <1>1
<1> QED
  BY <1>2, InvCorrect, PTL DEF Spec, KeptIsBackedUp
=============================================================================
