---------------------------- MODULE Runner_proofs ----------------------------
(***************************************************************************)
(* Proofs about Runner, for every finite set of jobs: the type invariant,  *)
(* what main's job counter counts, and what the pipeline has announced and *)
(* flagged by when.                                                        *)
(***************************************************************************)
EXTENDS Runner, FiniteSetTheorems, TLAPS

-----------------------------------------------------------------------------
(* The notifications of jobs. *)

\* Every notification an action of RequestStream sends is one of the type.
LEMMA NotificationsTyped ==
    /\ DrainHeartbeat \in Notifications
    /\ \A j \in Jobs : {StreamStart(j), StreamEnd(j), VodReady(j), ThumbnailReady(j)}
                           \subseteq Notifications
BY DEF Notifications, JobNotifications, DrainHeartbeat,
       StreamStart, StreamEnd, VodReady, ThumbnailReady

\* gocast can tell the notifications of the four actions, and of two jobs, apart.
LEMMA NotificationsDistinct ==
    \A j, k :
        /\ VodReady(j) = VodReady(k) => j = k
        /\ ThumbnailReady(j) = ThumbnailReady(k) => j = k
        /\ VodReady(j) \notin {StreamStart(k), StreamEnd(k), ThumbnailReady(k), DrainHeartbeat}
        /\ ThumbnailReady(j) \notin {StreamStart(k), StreamEnd(k), VodReady(k), DrainHeartbeat}
<1> TAKE j, k
<1>1. /\ VodReady(j) = VodReady(k) => j = k
      /\ ThumbnailReady(j) = ThumbnailReady(k) => j = k
  BY DEF VodReady, ThumbnailReady
<1>2. VodReady(j).kind = "VodReady" /\ ThumbnailReady(j).kind = "ThumbnailReady"
  BY DEF VodReady, ThumbnailReady
<1>3. StreamStart(k).kind = "StreamStart" /\ StreamEnd(k).kind = "StreamEnd"
      /\ DrainHeartbeat.kind = "DrainHeartbeat"
      /\ VodReady(k).kind = "VodReady" /\ ThumbnailReady(k).kind = "ThumbnailReady"
  BY DEF StreamStart, StreamEnd, DrainHeartbeat, VodReady, ThumbnailReady
<1> QED
  BY <1>1, <1>2, <1>3
-----------------------------------------------------------------------------
(* Types. *)

\* A step of a job keeps the types.
LEMMA JobStepTyped ==
    ASSUME TypeOK, NEW j \in Jobs, JobStep(j)
    PROVE  TypeOK'
<1> USE DEF TypeOK, PC, Counted, Running, Sending, Goto,
        jobVars, notifyVars, dataVars, mainVars, counterVars
<1>1. CASE AcceptJob(j)
  BY <1>1 DEF AcceptJob, Count
<1>2. CASE RegisterJob(j)
  BY <1>2 DEF RegisterJob
<1>3. CASE StreamAborts(j)
  BY <1>3 DEF StreamAborts, Abort
<1>4. CASE StreamTooLate(j)
  BY <1>4 DEF StreamTooLate
<1>5. CASE StreamPrepares(j)
  BY <1>5 DEF StreamPrepares
<1>6. CASE AnnounceStart(j)
  BY NotificationsTyped, <1>6 DEF AnnounceStart, Notify
<1>7. CASE FfmpegFails(j)
  BY <1>7 DEF FfmpegFails
<1>8. CASE FfmpegSucceeds(j)
  BY <1>8 DEF FfmpegSucceeds
<1>9. CASE AnnounceEnd(j)
  BY NotificationsTyped, <1>9 DEF AnnounceEnd, Notify
<1>10. CASE MkVODAborts(j)
  BY <1>10 DEF MkVODAborts, Abort
<1>11. CASE MkVODConverts(j)
  BY <1>11 DEF MkVODConverts
<1>12. CASE AnnounceVod(j)
  BY NotificationsTyped, <1>12 DEF AnnounceVod, Notify
<1>13. CASE CheckVoDHealthy(j)
  BY <1>13 DEF CheckVoDHealthy
<1>14. CASE CheckVoDUnhealthy(j)
  BY <1>14 DEF CheckVoDUnhealthy, Abort
<1>15. CASE CheckVoDUnwritable(j)
  BY <1>15 DEF CheckVoDUnwritable, Abort
<1>16. CASE MkThumbAborts(j)
  BY <1>16 DEF MkThumbAborts, Abort
<1>17. CASE MkThumbGenerates(j)
  BY <1>17 DEF MkThumbGenerates
<1>18. CASE AnnounceThumb(j)
  BY NotificationsTyped, <1>18 DEF AnnounceThumb, Notify
<1>19. CASE Teardown(j)
  BY <1>19 DEF Teardown
<1>20. CASE RetireJob(j)
  BY <1>20 DEF RetireJob, Count
<1> QED
  BY <1>1, <1>2, <1>3, <1>4, <1>5, <1>6, <1>7, <1>8, <1>9, <1>10, <1>11, <1>12, <1>13, <1>14, <1>15, <1>16, <1>17, <1>18, <1>19, <1>20 DEF JobStep

\* A step of main, the counter or the notifier, or of a caller, keeps the types.
LEMMA OtherStepTyped ==
    ASSUME TypeOK,
           \/ \E j \in Jobs : RequestStream(j) \/ RequestStreamEnd(j) \/ EndPasses(j)
           \/ NotifierStops \/ MainStep \/ CounterAdds \/ FirstSignal \/ SecondSignal
    PROVE  TypeOK'
<1> USE DEF TypeOK, PC, Counted, Running, Sending,
        jobVars, notifyVars, dataVars, mainVars, counterVars
<1>1. ASSUME NEW j \in Jobs, RequestStream(j) PROVE TypeOK'
  BY <1>1 DEF RequestStream, Goto
<1>2. ASSUME NEW j \in Jobs, RequestStreamEnd(j) PROVE TypeOK'
  BY <1>2 DEF RequestStreamEnd
<1>3. ASSUME NEW j \in Jobs, EndPasses(j) PROVE TypeOK'
  BY <1>3 DEF EndPasses
<1>4. CASE NotifierStops
  BY <1>4 DEF NotifierStops
<1>5. CASE DrainBegins
  BY <1>5 DEF DrainBegins
<1>6. CASE DrainSends
  BY NotificationsTyped, <1>6 DEF DrainSends, Notify
<1>7. CASE SleepEnds
  BY <1>7 DEF SleepEnds
<1>8. CASE MainChecks
  BY <1>8 DEF MainChecks
<1>9. CASE MainExits
  BY <1>9 DEF MainExits
<1>10. CASE ForcedExit
  BY <1>10 DEF ForcedExit
<1>11. CASE CounterAdds
  BY <1>11 DEF CounterAdds
<1>12. CASE FirstSignal
  BY <1>12 DEF FirstSignal
<1>13. CASE SecondSignal
  BY <1>13 DEF SecondSignal
<1> QED
  BY <1>1, <1>2, <1>3, <1>4, <1>5, <1>6, <1>7, <1>8, <1>9, <1>10, <1>11, <1>12, <1>13 DEF MainStep

\* The state of a runner process stays within its types.
THEOREM TypeCorrect == Spec => []TypeOK
<1>1. Init => TypeOK
  <2> SUFFICES ASSUME Init PROVE TypeOK
    OBVIOUS
  <2>1. pc \in [Jobs -> PC] /\ flag \in [Jobs -> {"none", "del", "keep", "unwritten"}]
    BY DEF Init, PC
  <2>2. count \in Int /\ held \in {-1, 0, 1}
    BY DEF Init
  <2> QED
    BY <2>1, <2>2 DEF Init, TypeOK
<1>2. TypeOK /\ [Next]_vars => TypeOK'
  <2> SUFFICES ASSUME TypeOK, [Next]_vars PROVE TypeOK'
    OBVIOUS
  <2>1. CASE \E j \in Jobs : JobStep(j)
    BY <2>1, JobStepTyped
  <2>2. CASE \/ \E j \in Jobs : RequestStream(j) \/ RequestStreamEnd(j) \/ EndPasses(j)
             \/ NotifierStops \/ MainStep \/ CounterAdds \/ FirstSignal \/ SecondSignal
    BY <2>2, OtherStepTyped
  <2>3. CASE UNCHANGED vars
    BY <2>3 DEF TypeOK, vars, jobVars, notifyVars, mainVars, counterVars
  <2> QED
    BY <2>1, <2>2, <2>3 DEF Next
<1> QED
  BY <1>1, <1>2, PTL DEF Spec

-----------------------------------------------------------------------------
(* The job counter. *)

\* What main decides on, and what it may conclude from it.
CounterInv == CounterExact /\ CounterExitIdle

\* Which jobs are counted only depends on where the moving job goes.
LEMMA CountedJobsMove ==
    ASSUME TypeOK, NEW j \in Jobs, NEW from, NEW to, Goto(j, from, to)
    PROVE  /\ exited = "no"
           /\ j \in CountedJobs <=> from \in Counted
           /\ CountedJobs' = IF to \in Counted THEN CountedJobs \cup {j} ELSE CountedJobs \ {j}
BY DEF TypeOK, Goto, CountedJobs

\* A step that moves no job in or out of the counted ones and does not touch
\* the counter keeps the invariant.
LEMMA CounterUntouched ==
    ASSUME CounterInv, CountedJobs' = CountedJobs, UNCHANGED <<count, held>>,
           exited' \in {exited, "main", "forced"}
    PROVE  CounterInv'
BY DEF CounterInv, CounterExact, CounterExitIdle

\* The steps of a job between its two sends to JobCount.
LEMMA WithinCounted ==
    ASSUME TypeOK, CounterInv, NEW j \in Jobs, NEW from \in Counted, NEW to \in Counted,
           Goto(j, from, to), UNCHANGED counterVars
    PROVE  CounterInv'
<1>1. CountedJobs' = CountedJobs
  BY CountedJobsMove
<1> QED
  BY <1>1, CounterUntouched DEF counterVars

\* A step of a job keeps the count exact.
LEMMA JobStepCounted ==
    ASSUME TypeOK, CounterInv, NEW j \in Jobs, JobStep(j)
    PROVE  CounterInv'
<1>1. /\ IsFiniteSet(CountedJobs)
      /\ j \notin CountedJobs => Cardinality(CountedJobs \cup {j}) = Cardinality(CountedJobs) + 1
      /\ j \in CountedJobs => Cardinality(CountedJobs \ {j}) = Cardinality(CountedJobs) - 1
  BY JobsFinite, FS_Subset, FS_AddElement, FS_RemoveElement DEF CountedJobs
<1>2. CASE AcceptJob(j)
  <2>1. j \notin CountedJobs /\ CountedJobs' = CountedJobs \cup {j} /\ exited = "no"
    BY <1>2, CountedJobsMove DEF AcceptJob, Counted, Running, Sending
  <2>2. held = 0 /\ held' = 1 /\ UNCHANGED <<count, exited>>
    BY <1>2 DEF AcceptJob, Count
  <2> QED
    BY <1>1, <2>1, <2>2 DEF CounterInv, CounterExact, CounterExitIdle, TypeOK
<1>3. CASE RetireJob(j)
  <2>1. j \in CountedJobs /\ CountedJobs' = CountedJobs \ {j} /\ exited = "no"
    BY <1>3, CountedJobsMove DEF RetireJob, Counted, Running, Sending
  <2>2. held = 0 /\ held' = -1 /\ UNCHANGED <<count, exited>>
    BY <1>3 DEF RetireJob, Count
  <2> QED
    BY <1>1, <2>1, <2>2 DEF CounterInv, CounterExact, CounterExitIdle, TypeOK
<1> USE WithinCounted DEF Counted, Running, Sending
<1>4. CASE RegisterJob(j)
  BY <1>4 DEF RegisterJob
<1>5. CASE StreamAborts(j)
  BY <1>5 DEF StreamAborts, Abort
<1>6. CASE StreamTooLate(j)
  BY <1>6 DEF StreamTooLate
<1>7. CASE StreamPrepares(j)
  BY <1>7 DEF StreamPrepares
<1>8. CASE AnnounceStart(j)
  BY <1>8 DEF AnnounceStart
<1>9. CASE FfmpegFails(j)
  BY <1>9 DEF FfmpegFails
<1>10. CASE FfmpegSucceeds(j)
  BY <1>10 DEF FfmpegSucceeds
<1>11. CASE AnnounceEnd(j)
  BY <1>11 DEF AnnounceEnd
<1>12. CASE MkVODAborts(j)
  BY <1>12 DEF MkVODAborts, Abort
<1>13. CASE MkVODConverts(j)
  BY <1>13 DEF MkVODConverts
<1>14. CASE AnnounceVod(j)
  BY <1>14 DEF AnnounceVod
<1>15. CASE CheckVoDHealthy(j)
  BY <1>15 DEF CheckVoDHealthy
<1>16. CASE CheckVoDUnhealthy(j)
  BY <1>16 DEF CheckVoDUnhealthy, Abort
<1>17. CASE CheckVoDUnwritable(j)
  BY <1>17 DEF CheckVoDUnwritable, Abort
<1>18. CASE MkThumbAborts(j)
  BY <1>18 DEF MkThumbAborts, Abort
<1>19. CASE MkThumbGenerates(j)
  BY <1>19 DEF MkThumbGenerates
<1>20. CASE AnnounceThumb(j)
  BY <1>20 DEF AnnounceThumb
<1>21. CASE Teardown(j)
  BY <1>21 DEF Teardown
<1> QED
  BY <1>2, <1>3, <1>4, <1>5, <1>6, <1>7, <1>8, <1>9, <1>10, <1>11, <1>12, <1>13, <1>14, <1>15, <1>16, <1>17, <1>18, <1>19, <1>20, <1>21 DEF JobStep

\* main's count is exact whatever the interleaving of handlers, jobs and the
\* counter, and when the counter ends the process no accepted job is cut off.
THEOREM CounterCorrect == Spec => [](CounterExact /\ CounterExitIdle)
<1>1. Init => CounterInv
  <2> SUFFICES ASSUME Init PROVE CounterInv
    OBVIOUS
  <2>1. CountedJobs = {}
    BY DEF Init, CountedJobs, Counted, Running, Sending
  <2> QED
    BY <2>1, FS_EmptySet DEF Init, CounterInv, CounterExact, CounterExitIdle
<1>2. TypeOK /\ CounterInv /\ [Next]_vars => CounterInv'
  <2> SUFFICES ASSUME TypeOK, CounterInv, [Next]_vars PROVE CounterInv'
    OBVIOUS
  <2>1. ASSUME NEW j \in Jobs, JobStep(j) PROVE CounterInv'
    BY <2>1, JobStepCounted
  <2>2. ASSUME NEW j \in Jobs, RequestStream(j) PROVE CounterInv'
    <3>1. CountedJobs' = CountedJobs
      BY <2>2, CountedJobsMove DEF RequestStream, Counted, Running, Sending
    <3> QED
      BY <2>2, <3>1, CounterUntouched DEF RequestStream, counterVars
  <2>3. CASE CounterAdds
    <3>1. CountedJobs' = CountedJobs /\ IsFiniteSet(CountedJobs)
      BY <2>3, JobsFinite, FS_Subset DEF CounterAdds, CountedJobs, jobVars
    <3>2. count' + held' = count + held
      BY <2>3 DEF CounterAdds, TypeOK
    <3>3. exited' = "counter" => count' + held' = 0
      BY <2>3 DEF CounterAdds
    <3>4. Cardinality(CountedJobs) = 0 => CountedJobs = {}
      BY <3>1, FS_EmptySet
    <3> QED
      BY <3>1, <3>2, <3>3, <3>4 DEF CounterInv, CounterExact, CounterExitIdle
  <2>4. ASSUME UNCHANGED pc, UNCHANGED <<count, held>>, exited' \in {exited, "main", "forced"}
        PROVE  CounterInv'
    <3>1. CountedJobs' = CountedJobs
      BY <2>4 DEF CountedJobs
    <3> QED
      BY <2>4, <3>1, CounterUntouched
  <2>5. ASSUME NEW j \in Jobs, RequestStreamEnd(j) \/ EndPasses(j) PROVE CounterInv'
    BY <2>4, <2>5 DEF RequestStreamEnd, EndPasses, counterVars
  <2>6. CASE NotifierStops \/ FirstSignal \/ SecondSignal
    BY <2>4, <2>6 DEF NotifierStops, FirstSignal, SecondSignal, jobVars, counterVars
  <2>7. CASE MainStep
    BY <2>4, <2>7 DEF MainStep, DrainBegins, DrainSends, SleepEnds, MainChecks, MainExits,
                      ForcedExit, jobVars, counterVars
  <2>8. CASE UNCHANGED vars
    BY <2>4, <2>8 DEF vars, jobVars, counterVars
  <2> QED
    BY <2>1, <2>2, <2>3, <2>5, <2>6, <2>7, <2>8 DEF Next
<1> QED
  BY <1>1, <1>2, TypeCorrect, PTL DEF Spec, CounterInv

-----------------------------------------------------------------------------
(* The pipeline. *)

\* Where the job is once its end was announced, and once CheckVoD was passed.
AfterCheck == {"MkThumb", "announceThumb", "teardown", "retiring", "done"}
AfterEnd   == {"MkVOD", "announceVod", "CheckVoD"} \cup AfterCheck

\* Where a job has set up its recording directory but not announced its start.
\* A retry of Stream comes here again, with the start announced before.
StartedInv == \A j \in Jobs :
    j \in recordingDir /\ pc[j] # "announceStart" => StreamStart(j) \in sent

EndedInv == \A j \in Jobs : pc[j] \in AfterEnd => StreamEnd(j) \in sent

\* A converted VoD is announced by the very next step.
ConvertedInv == \A j \in Jobs : j \in vodPath /\ pc[j] # "announceVod" => VodReady(j) \in sent

\* The two actions after the end that announce need a recording directory.
AnnouncedInv == \A j \in Jobs : pc[j] \in {"announceVod", "announceThumb"} => j \in recordingDir

PipelineInv ==
    /\ StartedInv /\ EndedInv /\ ConvertedInv /\ AnnouncedInv
    /\ PipelineOrder /\ DeleteFlagAnnounced /\ RecordingFlagged

\* What each notification adds to, and what the properties compare.
LEMMA PipelineUntouched ==
    ASSUME PipelineInv, UNCHANGED <<pc, recordingDir, vodPath, flag>>,
           sent' \in {sent, sent \cup {DrainHeartbeat}}
    PROVE  PipelineInv'
BY NotificationsDistinct
DEF PipelineInv, StartedInv, EndedInv, ConvertedInv, AnnouncedInv,
    PipelineOrder, DeleteFlagAnnounced, RecordingFlagged

\* A step of a job keeps the order of the pipeline.
LEMMA JobStepInOrder ==
    ASSUME TypeOK, PipelineInv, NEW j \in Jobs, JobStep(j)
    PROVE  PipelineInv'
<1> USE NotificationsDistinct DEF TypeOK, PipelineInv, StartedInv, EndedInv, ConvertedInv, AnnouncedInv,
        PipelineOrder, DeleteFlagAnnounced, RecordingFlagged, AfterEnd, AfterCheck,
        Goto, notifyVars, dataVars
<1>1. CASE AcceptJob(j)
  BY <1>1 DEF AcceptJob
<1>2. CASE RegisterJob(j)
  BY <1>2 DEF RegisterJob
<1>3. CASE StreamAborts(j)
  BY <1>3 DEF StreamAborts, Abort
<1>4. CASE StreamTooLate(j)
  BY <1>4 DEF StreamTooLate
<1>5. CASE StreamPrepares(j)
  BY <1>5 DEF StreamPrepares
<1>6. CASE AnnounceStart(j)
  BY <1>6 DEF AnnounceStart, Notify
<1>7. CASE FfmpegFails(j)
  BY <1>7 DEF FfmpegFails
<1>8. CASE FfmpegSucceeds(j)
  BY <1>8 DEF FfmpegSucceeds
<1>9. CASE AnnounceEnd(j)
  BY <1>9 DEF AnnounceEnd, Notify
<1>10. CASE MkVODAborts(j)
  BY <1>10 DEF MkVODAborts, Abort
<1>11. CASE MkVODConverts(j)
  BY <1>11 DEF MkVODConverts
<1>12. CASE AnnounceVod(j)
  BY <1>12 DEF AnnounceVod, Notify
<1>13. CASE CheckVoDHealthy(j)
  BY <1>13 DEF CheckVoDHealthy
<1>14. CASE CheckVoDUnhealthy(j)
  BY <1>14 DEF CheckVoDUnhealthy, Abort
<1>15. CASE CheckVoDUnwritable(j)
  BY <1>15 DEF CheckVoDUnwritable, Abort
<1>16. CASE MkThumbAborts(j)
  BY <1>16 DEF MkThumbAborts, Abort
<1>17. CASE MkThumbGenerates(j)
  BY <1>17 DEF MkThumbGenerates
<1>18. CASE AnnounceThumb(j)
  BY <1>18 DEF AnnounceThumb, Notify
<1>19. CASE Teardown(j)
  BY <1>19 DEF Teardown
<1>20. CASE RetireJob(j)
  BY <1>20 DEF RetireJob
<1> QED
  BY <1>1, <1>2, <1>3, <1>4, <1>5, <1>6, <1>7, <1>8, <1>9, <1>10, <1>11, <1>12, <1>13, <1>14, <1>15, <1>16, <1>17, <1>18, <1>19, <1>20 DEF JobStep

\* Whatever aborts, is cancelled or retried: a VoD or a thumbnail is announced
\* after the start and the end, a recording is marked for deletion after its
\* VoD was announced, and no recording is left without a mark.
THEOREM PipelineCorrect == Spec => [](PipelineOrder /\ DeleteFlagAnnounced /\ RecordingFlagged)
<1>1. Init => PipelineInv
  BY DEF Init, PipelineInv, StartedInv, EndedInv, ConvertedInv, AnnouncedInv,
         PipelineOrder, DeleteFlagAnnounced, RecordingFlagged, AfterEnd, AfterCheck
<1>2. TypeOK /\ PipelineInv /\ [Next]_vars => PipelineInv'
  <2> SUFFICES ASSUME TypeOK, PipelineInv, [Next]_vars PROVE PipelineInv'
    OBVIOUS
  <2>1. ASSUME NEW j \in Jobs, JobStep(j) PROVE PipelineInv'
    BY <2>1, JobStepInOrder
  <2>2. ASSUME NEW j \in Jobs, RequestStream(j) PROVE PipelineInv'
    BY <2>2 DEF RequestStream, Goto, notifyVars, dataVars, TypeOK, PipelineInv, StartedInv, EndedInv,
                ConvertedInv, AnnouncedInv, PipelineOrder, DeleteFlagAnnounced,
                RecordingFlagged, AfterEnd, AfterCheck
  <2>3. ASSUME NEW j \in Jobs, RequestStreamEnd(j) \/ EndPasses(j) PROVE PipelineInv'
    BY <2>3, PipelineUntouched DEF RequestStreamEnd, EndPasses, notifyVars, dataVars
  <2>4. CASE NotifierStops \/ FirstSignal \/ SecondSignal \/ CounterAdds
    BY <2>4, PipelineUntouched DEF NotifierStops, FirstSignal, SecondSignal, CounterAdds,
                                   jobVars, notifyVars
  <2>5. CASE MainStep
    BY <2>5, PipelineUntouched DEF MainStep, DrainBegins, DrainSends, SleepEnds, MainChecks,
                                   MainExits, ForcedExit, Notify, jobVars, notifyVars
  <2>6. CASE UNCHANGED vars
    BY <2>6, PipelineUntouched DEF vars, jobVars, notifyVars
  <2> QED
    BY <2>1, <2>2, <2>3, <2>4, <2>5, <2>6 DEF Next
<1> QED
  BY <1>1, <1>2, TypeCorrect, PTL DEF Spec, PipelineInv
=============================================================================
