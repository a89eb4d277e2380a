---------------------------- MODULE LegacyWorker ----------------------------
(***************************************************************************)
(* The worker that runners replace (worker/). Its jobs record a lecture     *)
(* hall or what a lecturer publishes, transcode the recording, and give it  *)
(* up for deletion, which happens hourly a day later; others convert an     *)
(* uploaded video, play a premiere or make thumbnails on demand.            *)
(*                                                                         *)
(* A run of ffmpeg appends a piece to the recording's file. Whether a piece *)
(* is still in that file, in the trash or part of the video is all that is  *)
(* kept of the files. An open piece moves with the file it was opened in.   *)
(***************************************************************************)
EXTENDS Integers, FiniteSets

CONSTANTS
    Hall,           \* HandleStreamRequest calls
    Self,           \* publishings of self streams
    Uploads,        \* HandleUploadRestReq calls
    Premieres,      \* HandlePremiere calls
    Thumbnails,     \* HandleThumbnailRequest calls
    Combined,       \* those of Hall that record the combined version
    StreamOf,       \* the stream of a hall job and of a premiere
    RecordingOf,    \* the recording of a job, and the key of a self stream
    Loads,          \* bound: which of these jobs the worker may get in one behaviour
    MaxRuns,        \* bound: runs of ffmpeg per job
    MaxErrs         \* bound: failing steps and restarts

Jobs       == Hall \cup Self \cup Uploads \cup Premieres \cup Thumbnails
Recordings == {RecordingOf[j] : j \in Jobs}

NoCtx == [none |-> TRUE]

ASSUME JobsTyped ==
    /\ NoCtx \notin Self
    /\ Combined \subseteq Hall
    /\ Self \cap (Hall \cup Uploads \cup Premieres \cup Thumbnails) = {}
    /\ Uploads \cap (Hall \cup Premieres \cup Thumbnails) = {}
    /\ Loads \subseteq SUBSET Jobs
    /\ MaxRuns \in [Jobs -> Nat] /\ MaxErrs \in Nat

\* Each version of a lecture is requested once; a lecturer may publish repeatedly.
ASSUME OwnRecordings ==
    \A i, j \in Jobs : i # j /\ RecordingOf[i] = RecordingOf[j] => {i, j} \subseteq Self

VARIABLES
    pc,         \* where the goroutine of each job is
    over,       \* jobs whose streamUntil has passed
    stopped,    \* jobs with ctx.stopped
    discard,    \* jobs with ctx.discardVoD
    canceled,   \* jobs with ctx.canceled
    success,    \* jobs with ctx.TranscodingSuccessful
    regular,    \* jobs in regularStreams
    selfCtx,    \* the context rest keeps per key
    workload,
    file,       \* the pieces in the file of a recording
    trash,      \* those in its file in .trash
    vod,        \* those in its transcoded file
    input,      \* what a job's transcoding reads
    runs,
    deletable,  \* persisted.Deletable
    snapshot,   \* what the hourly function has read of it
    errs,
    made,       \* for the properties: pieces ever opened
    overtaken,  \* recordings published again past the point of cancelling
    slipped     \* trash files that fell out of the list

flags    == <<over, stopped, discard, canceled, success>>
contexts == <<regular, selfCtx>>
files    == <<file, trash, vod, input, runs, made, overtaken>>
list     == <<deletable, snapshot, slipped>>
vars     == <<pc, flags, contexts, workload, files, list, errs>>

Recording   == {"starting", "streaming", "killed"}
Cancelable  == {"transcoding", "transcoded"}
PC == Recording \cup Cancelable \cup
      {"none", "new", "loop", "streamed", "recorded", "audio", "thumbs", "silence", "marking",
       "received", "premiere", "thumbnail", "done", "gone"}

Idle   == {NoCtx}
Piece(j, k) == [job |-> j, run |-> k]
Pieces == [job : Jobs, run : Nat]
Entries == [file : Recordings, job : Jobs, old : BOOLEAN]

TypeOK ==
    /\ pc \in [Jobs -> PC]
    /\ over \subseteq Jobs /\ stopped \subseteq Jobs /\ discard \subseteq Hall \cup Premieres
    /\ canceled \subseteq Self /\ success \subseteq Jobs
    /\ regular \subseteq {j \in Hall \cup Premieres : pc[j] \notin {"none", "new"}}
    /\ selfCtx \in [Recordings -> Self \cup {NoCtx}]
    /\ workload \in Int
    /\ made \subseteq Pieces
    /\ file \in [Recordings -> SUBSET made]
    /\ trash \in [Recordings -> SUBSET made]
    /\ vod \in [Recordings -> SUBSET made]
    /\ input \in [Jobs -> SUBSET made]
    /\ \A j \in Jobs : input[j] # {} => pc[j] = "transcoding"
    /\ runs \in [Jobs -> Nat]
    /\ \A p \in made : p.run <= runs[p.job]
    /\ deletable \subseteq Entries
    /\ snapshot # Idle => snapshot \subseteq Entries
    /\ errs \in 0 .. MaxErrs
    /\ overtaken \subseteq Recordings
    /\ slipped \subseteq Recordings

Init ==
    /\ \E load \in Loads : pc = [j \in Jobs |-> IF j \in load THEN "new" ELSE "none"]
    /\ over = {} /\ stopped = {} /\ discard = {} /\ canceled = {} /\ success = {}
    /\ regular = {}
    /\ selfCtx = [r \in Recordings |-> NoCtx]
    /\ workload = 0
    /\ file = [r \in Recordings |-> {}]
    /\ trash = [r \in Recordings |-> {}]
    /\ vod = [r \in Recordings |-> {}]
    /\ input = [j \in Jobs |-> {}]
    /\ runs = [j \in Jobs |-> 0]
    /\ deletable = {} /\ snapshot = Idle
    /\ errs = 0
    /\ made = {} /\ overtaken = {} /\ slipped = {}

Err      == errs < MaxErrs /\ errs' = errs + 1
To(j, s) == pc' = [pc EXCEPT ![j] = s]

costStream == 3
costTranscoding == 2
costTranscodingAudio == 1
costThumbnailGeneration == 1
costSilenceDetection == 1

DetectsSilence(j) == j \in Combined \cup Self \cup Uploads

-----------------------------------------------------------------------------
(* Recording.                                                              *)

\* HandleStreamRequest: addContext, startStream.
HandleStreamRequest(j) ==
    /\ j \in Hall /\ pc[j] = "new"
    /\ regular' = regular \cup {j}
    /\ workload' = workload + costStream
    /\ To(j, "loop")
    /\ UNCHANGED <<flags, selfCtx, files, list, errs>>

\* onPublish: a context kept for the key is ended and cancelled, its transcoding
\* killed if it has begun; startStream.
OnPublish(j) ==
    LET r == RecordingOf[j]
        earlier == {i \in Jobs : RecordingOf[i] = r /\ pc[i] \notin {"new", "none"}}
        ended == {selfCtx[r]} \cap Self
    IN
    /\ j \in Self /\ pc[j] = "new"
    /\ stopped' = stopped \cup ended
    /\ canceled' = canceled \cup ended
    /\ input' = [i \in Jobs |-> IF i \in ended THEN {} ELSE input[i]]
    /\ workload' = workload + costStream
    /\ To(j, "loop")
    /\ overtaken' = overtaken \cup
          {q \in {r} : \E i \in earlier \ canceled : i \notin ended \/ pc[i] \notin Cancelable}
    /\ UNCHANGED <<over, discard, success, contexts, file, trash, vod, runs, made, list, errs>>

\* Fault: only being stopped ends it.
StreamingUntilStopped(j) == j \notin stopped

\* The condition of the loop of stream.
Streaming(j) == j \notin over /\ j \notin stopped

\* The file is opened to append, and streamCmd is set; without the file the
\* lecture is streamed but not recorded.
Prepare(j) ==
    LET p == Piece(j, runs[j] + 1) IN
    /\ pc[j] = "loop" /\ Streaming(j)
    /\ runs[j] < MaxRuns[j]
    /\ runs' = [runs EXCEPT ![j] = @ + 1]
    /\ \/ /\ made' = made \cup {p}
          /\ file' = [file EXCEPT ![RecordingOf[j]] = @ \cup {p}]
          /\ UNCHANGED errs
       \/ Err /\ UNCHANGED <<made, file>>
    /\ To(j, "starting")
    /\ UNCHANGED <<flags, contexts, workload, trash, vod, input, overtaken, list>>

Goes(j, from, to) ==
    /\ pc[j] = from
    /\ To(j, to)
    /\ UNCHANGED <<flags, contexts, workload, files, list, errs>>

StartFfmpeg(j) == Goes(j, "starting", "streaming")

\* ffmpeg ends by itself, at the timeout it was given, or because it was killed.
FfmpegExits(j) ==
    \/ j \notin over /\ runs[j] < MaxRuns[j] /\ Goes(j, "streaming", "loop")
    \/ j \in over /\ Goes(j, "streaming", "loop")
    \/ Goes(j, "killed", "loop")

StreamEnds(j) ==
    /\ workload' = workload - costStream
    /\ To(j, "streamed")
    /\ UNCHANGED <<over, discard, canceled, success, contexts, files, list, errs>>

\* The loop ends; endStream.
LoopEnds(j) ==
    /\ pc[j] = "loop" /\ ~Streaming(j)
    /\ StreamEnds(j)
    /\ UNCHANGED stopped

\* The twenty-first error in a row: the lecturer is taken to be offline.
SelfOffline(j) ==
    /\ j \in Self /\ pc[j] = "streaming"
    /\ stopped' = stopped \cup {j}
    /\ StreamEnds(j)

Over(j) ==
    /\ pc[j] \in {"loop"} \cup Recording /\ j \notin over
    /\ over' = over \cup {j}
    /\ UNCHANGED <<pc, stopped, discard, canceled, success, contexts, workload, files, list, errs>>

\* endStreams: the contexts are stopped and forgotten. An ffmpeg that runs is
\* killed; one that streamCmd has but that is not started is not.
EndStreams(s, discardVoD) ==
    LET ended == {j \in regular : StreamOf[j] = s} IN
    /\ ended # {}
    /\ stopped' = stopped \cup ended
    /\ discard' = IF discardVoD THEN discard \cup ended ELSE discard \ ended
    /\ pc' = [j \in Jobs |-> IF j \in ended /\ pc[j] = "streaming" THEN "killed" ELSE pc[j]]
    /\ regular' = regular \ ended
    /\ UNCHANGED <<over, canceled, success, selfCtx, workload, files, list, errs>>

-----------------------------------------------------------------------------
(* Transcoding.                                                            *)

\* The context of a self stream is kept only now, and stopped.
Register(j) ==
    /\ j \in Self /\ pc[j] = "streamed"
    /\ selfCtx' = [selfCtx EXCEPT ![RecordingOf[j]] = j]
    /\ stopped' = stopped \cup {j}
    /\ To(j, "recorded")
    /\ UNCHANGED <<over, discard, canceled, success, regular, workload, files, list, errs>>

SkipVoD(j) == j \in discard /\ Goes(j, "streamed", "done")

Open == {Piece(j, runs[j]) : j \in {i \in Jobs : pc[i] \in Recording}}

StartTranscoding(j) ==
    /\ \/ j \in Self /\ pc[j] = "recorded"
       \/ j \in Hall \ discard /\ pc[j] = "streamed"
       \/ pc[j] = "received"
    /\ workload' = workload + costTranscoding
    /\ input' = [input EXCEPT ![j] = file[RecordingOf[j]] \ Open]
    /\ vod' = [vod EXCEPT ![RecordingOf[j]] = {}]
    /\ To(j, "transcoding")
    /\ UNCHANGED <<flags, contexts, file, trash, runs, made, overtaken, list, errs>>

TranscodingEnds(j) ==
    /\ workload' = workload - costTranscoding
    /\ input' = [input EXCEPT ![j] = {}]
    /\ To(j, "transcoded")
    /\ UNCHANGED <<over, stopped, discard, canceled, contexts, file, trash, runs, made, overtaken, list>>

Transcoded(j) ==
    /\ pc[j] = "transcoding" /\ input[j] # {}
    /\ success' = success \cup {j}
    /\ vod' = [vod EXCEPT ![RecordingOf[j]] = input[j]]
    /\ TranscodingEnds(j)
    /\ UNCHANGED errs

\* Nothing was recorded, ffmpeg was killed, or it fails.
TranscodingFails(j) ==
    /\ pc[j] = "transcoding"
    /\ IF input[j] = {} THEN UNCHANGED errs ELSE Err
    /\ TranscodingEnds(j)
    /\ UNCHANGED <<success, vod>>

Canceled(j) == j \in canceled /\ Goes(j, "transcoded", "done")

\* transcodeAudio: its cost is given back whether it succeeds or not.
StartAudio(j) ==
    /\ j \in Combined \cup Uploads /\ pc[j] = "transcoded"
    /\ workload' = workload + costTranscodingAudio
    /\ To(j, "audio")
    /\ UNCHANGED <<flags, contexts, files, list, errs>>

\* Fault: a canceled self stream is not looked for.
StartThumbsCanceled(j) ==
    /\ \/ pc[j] = "audio" /\ workload' = workload - costTranscodingAudio + costThumbnailGeneration
       \/ /\ pc[j] = "transcoded" /\ j \notin Combined \cup Uploads
          /\ workload' = workload + costThumbnailGeneration
    /\ To(j, "thumbs")
    /\ UNCHANGED <<flags, contexts, files, list, errs>>

StartThumbs(j) ==
    /\ \/ pc[j] = "audio" /\ workload' = workload - costTranscodingAudio + costThumbnailGeneration
       \/ /\ pc[j] = "transcoded" /\ j \notin Combined \cup Uploads \cup canceled
          /\ workload' = workload + costThumbnailGeneration
    /\ To(j, "thumbs")
    /\ UNCHANGED <<flags, contexts, files, list, errs>>

StartSilence(j) ==
    /\ DetectsSilence(j) /\ pc[j] = "thumbs"
    /\ workload' = workload + costSilenceDetection
    /\ To(j, "silence")
    /\ UNCHANGED <<flags, contexts, files, list, errs>>

\* What the deferred calls give back.
Deferred(j) ==
    costThumbnailGeneration + IF DetectsSilence(j) THEN costSilenceDetection ELSE 0

\* Fault: the second call is not deferred.
FinishKeeps(j) ==
    /\ workload' = workload - costThumbnailGeneration
    /\ To(j, "done")

Finish(j) ==
    /\ workload' = workload - Deferred(j)
    /\ To(j, "done")

\* ParseSilence fails, transcoding did, or the recording is not there.
NotMarked(j) ==
    /\ j \notin Uploads
    /\ pc[j] = IF DetectsSilence(j) THEN "silence" ELSE "thumbs"
    /\ \/ (j \notin success \/ file[RecordingOf[j]] = {}) /\ UNCHANGED errs
       \/ DetectsSilence(j) /\ Err
    /\ Finish(j)
    /\ UNCHANGED <<flags, contexts, files, list>>

\* markForDeletion: the file is moved, over one of the same name,
MarkForDeletion(j) ==
    LET r == RecordingOf[j] IN
    /\ j \notin Uploads
    /\ pc[j] = IF DetectsSilence(j) THEN "silence" ELSE "thumbs"
    /\ j \in success /\ file[r] # {}
    /\ trash' = [trash EXCEPT ![r] = file[r]]
    /\ file' = [file EXCEPT ![r] = {}]
    /\ To(j, "marking")
    /\ UNCHANGED <<flags, contexts, workload, vod, input, runs, made, overtaken, list, errs>>

\* and listed.
AddDeletable(j) ==
    LET e == [file |-> RecordingOf[j], job |-> j, old |-> FALSE] IN
    /\ pc[j] = "marking"
    /\ deletable' = deletable \cup {e}
    /\ slipped' = IF snapshot = Idle THEN slipped ELSE slipped \cup {RecordingOf[j]}
    /\ Finish(j)
    /\ UNCHANGED <<flags, contexts, files, snapshot, errs>>

-----------------------------------------------------------------------------
(* The other jobs.                                                         *)

HandleUploadRestReq(j) ==
    LET p == Piece(j, 0) IN
    /\ j \in Uploads /\ pc[j] = "new"
    /\ made' = made \cup {p}
    /\ file' = [file EXCEPT ![RecordingOf[j]] = {p}]
    /\ To(j, "received")
    /\ UNCHANGED <<flags, contexts, workload, trash, vod, input, runs, overtaken, list, errs>>

\* A video that needs no conversion is moved; the source goes after the copy.
MoveFile(j) ==
    LET r == RecordingOf[j] IN
    /\ pc[j] = "received"
    /\ \/ /\ vod' = [vod EXCEPT ![r] = file[r]]
          /\ file' = [file EXCEPT ![r] = {}]
          /\ success' = success \cup {j}
          /\ UNCHANGED errs
       \/ /\ Err
          /\ vod' = [vod EXCEPT ![r] = {}]
          /\ UNCHANGED <<file, success>>
    /\ To(j, "transcoded")
    /\ UNCHANGED <<over, stopped, discard, canceled, contexts, workload, trash, input, runs,
                   made, overtaken, list>>

\* What was uploaded is removed, whatever came of it.
RemoveUpload(j) ==
    /\ j \in Uploads /\ pc[j] = "silence"
    /\ file' = [file EXCEPT ![RecordingOf[j]] = {}]
    /\ Finish(j)
    /\ UNCHANGED <<flags, contexts, trash, vod, input, runs, made, overtaken, list, errs>>

HandlePremiere(j) ==
    /\ j \in Premieres /\ pc[j] = "new"
    /\ regular' = regular \cup {j}
    /\ workload' = workload + costStream
    /\ To(j, "premiere")
    /\ UNCHANGED <<flags, selfCtx, files, list, errs>>

HandleThumbnailRequest(j) ==
    /\ j \in Thumbnails /\ pc[j] = "new"
    /\ workload' = workload + costThumbnailGeneration
    /\ To(j, "thumbnail")
    /\ UNCHANGED <<flags, contexts, files, list, errs>>

\* A premiere plays to its end, also when it is ended: it has no streamCmd.
Played(j) ==
    /\ \/ pc[j] = "premiere" /\ workload' = workload - costStream
       \/ pc[j] = "thumbnail" /\ workload' = workload - costThumbnailGeneration
    /\ To(j, "done")
    /\ UNCHANGED <<flags, contexts, files, list, errs>>

-----------------------------------------------------------------------------
(* The hourly function, time and the process.                              *)

\* The age that counts is the one the list is read at.
DayPasses(e) ==
    /\ e \in deletable /\ ~e.old /\ snapshot = Idle
    /\ deletable' = (deletable \ {e}) \cup {[e EXCEPT !.old = TRUE]}
    /\ UNCHANGED <<pc, flags, contexts, workload, files, snapshot, slipped, errs>>

\* It reads the list, without the lock,
ReadDeletables ==
    /\ snapshot = Idle /\ deletable # {}
    /\ snapshot' = deletable
    /\ UNCHANGED <<pc, flags, contexts, workload, files, deletable, slipped, errs>>

\* Fault: the new list is that of the files that went.
SetDeletablesSwapped ==
    LET old == {e.file : e \in {d \in snapshot : d.old}} IN
    /\ snapshot # Idle
    /\ trash' = [r \in Recordings |-> IF r \in old THEN {} ELSE trash[r]]
    /\ deletable' = {e \in snapshot : e.old}
    /\ snapshot' = Idle
    /\ UNCHANGED <<pc, flags, contexts, workload, file, vod, input, runs, made, overtaken, errs, slipped>>

\* removes the old files, and keeps of what it has read those that are not; a
\* file that cannot be removed is not kept either.
SetDeletables ==
    LET old == {e.file : e \in {d \in snapshot : d.old}} IN
    /\ snapshot # Idle
    /\ \/ trash' = [r \in Recordings |-> IF r \in old THEN {} ELSE trash[r]]
          /\ UNCHANGED <<errs, slipped>>
       \/ old # {} /\ Err /\ slipped' = slipped \cup old /\ UNCHANGED trash
    /\ deletable' = {e \in snapshot : ~e.old}
    /\ snapshot' = Idle
    /\ UNCHANGED <<pc, flags, contexts, workload, file, vod, input, runs, made, overtaken>>

\* The process is restarted: what persist.gob has is left, and the files.
Restart ==
    /\ Err
    /\ slipped' = slipped \cup {RecordingOf[j] : j \in {i \in Jobs : pc[i] = "marking"}}
    /\ pc' = [j \in Jobs |-> IF pc[j] \in {"none", "new", "done"} THEN pc[j] ELSE "gone"]
    /\ regular' = {}
    /\ selfCtx' = [r \in Recordings |-> NoCtx]
    /\ workload' = 0
    /\ input' = [j \in Jobs |-> {}]
    /\ snapshot' = Idle
    /\ UNCHANGED <<flags, file, trash, vod, runs, made, overtaken, deletable>>

-----------------------------------------------------------------------------
JobStep(j) ==
    \/ Prepare(j) \/ StartFfmpeg(j) \/ FfmpegExits(j) \/ LoopEnds(j)
    \/ Register(j) \/ SkipVoD(j) \/ StartTranscoding(j)
    \/ Transcoded(j) \/ TranscodingFails(j) \/ Canceled(j)
    \/ StartAudio(j) \/ StartThumbs(j) \/ StartSilence(j)
    \/ NotMarked(j) \/ MarkForDeletion(j) \/ AddDeletable(j)
    \/ MoveFile(j) \/ RemoveUpload(j) \/ Played(j)

Request(j) ==
    \/ HandleStreamRequest(j) \/ OnPublish(j) \/ HandleUploadRestReq(j)
    \/ HandlePremiere(j) \/ HandleThumbnailRequest(j)

Hourly == ReadDeletables \/ SetDeletables

Next ==
    \/ \E j \in Jobs : Request(j) \/ JobStep(j) \/ SelfOffline(j) \/ Over(j)
    \/ \E s \in {StreamOf[j] : j \in Hall \cup Premieres}, d \in BOOLEAN : EndStreams(s, d)
    \/ \E e \in deletable : DayPasses(e)
    \/ Hourly \/ Restart

\* Goroutines run, time passes, and cron calls hourly.
Spec ==
    /\ Init /\ [][Next]_vars
    /\ WF_vars(\E j \in Jobs : JobStep(j))
    /\ WF_vars(\E j \in Jobs : Over(j))
    /\ WF_vars(Hourly)
    /\ WF_vars(\E e \in deletable : DayPasses(e))

-----------------------------------------------------------------------------
(* Properties. *)

CostOf(j) ==
    CASE pc[j] \in {"loop"} \cup Recording -> costStream
      [] pc[j] = "transcoding"   -> costTranscoding
      [] pc[j] = "audio"         -> costTranscodingAudio
      [] pc[j] = "premiere"      -> costStream
      [] pc[j] \in {"thumbs", "thumbnail"} -> costThumbnailGeneration
      [] pc[j] \in {"silence", "marking"} -> Deferred(j)
      [] OTHER                   -> 0

\* What the jobs cost at the moment, a job that costs three counted three times.
Units == {u \in Jobs \X (1 .. costStream) : u[2] <= CostOf(u[1])}

\* The workload a heartbeat reports is that of what the worker does now, whichever
\* way its jobs left their steps; gocast assigns by it (status.go:46-146).
WorkloadExact == workload = Cardinality(Units)

\* What was recorded or uploaded is in the video or still in its own file, unless a
\* recording was published again past the point of cancelling, or an upload could
\* not be converted (rest/selfstream.go:80, request_handlers.go:88 and 436,
\* transcode.go:178).
RecordingKept ==
    \A p \in made :
        LET r == RecordingOf[p.job] IN
        \/ p \in file[r] \cup vod[r]
        \/ r \in overtaken
        \/ p.job \in Uploads \ success

\* A file in the trash is on the list, or about to be, unless the hourly function
\* was running when it was put there, could not remove it, or the worker was
\* restarted (worker.go:42-56, persist.go:58-77).
TrashListed ==
    \A r \in Recordings :
        trash[r] # {} =>
            \/ r \in slipped
            \/ \E e \in deletable : e.file = r
            \/ \E j \in Jobs : pc[j] = "marking" /\ RecordingOf[j] = r

\* Every job ends: ended, cancelled, failing or at its time. Only so many come, so
\* the worker is idle again and again (stream.go:28).
JobsFinish == []<>(\A j \in Jobs : pc[j] \in {"none", "new", "done", "gone"})
=============================================================================
