------------------------------- MODULE Runner -------------------------------
(***************************************************************************)
(* One runner process (runner/): the jobs it accepts over gRPC, the action *)
(* pipeline each job goes through, the channel its notifications go into,  *)
(* the job counter of main and the shutdown on signals.                    *)
(*                                                                         *)
(* r.JobCount and r.notifications are unbuffered channels: a send is one   *)
(* step together with its receive, and blocks while nobody receives.       *)
(* Times are abstracted to "the planned end of the stream has passed"      *)
(* (over); ffmpeg, the probes and the disk may fail at any time.           *)
(***************************************************************************)
EXTENDS Integers, FiniteSets

CONSTANT Jobs       \* the RequestStream calls this runner receives

ASSUME JobsFinite == IsFiniteSet(Jobs)

VARIABLES
    pc,             \* where the goroutine of each job is
    registered,     \* keys of r.jobs
    cancelled,      \* jobs whose context is cancelled
    over,           \* jobs whose streamEnd has passed
    recordingDir,   \* jobs with d["recordingDir"] set
    vodPath,        \* jobs with d["vodPath"] set
    flag,           \* management file CheckVoD left in the recording directory,
                    \* "unwritten" when creating it failed
    sent,           \* notifications handed to handleNotifications so far
    notifier,       \* the goroutine handleNotifications
    ctxDone,        \* the first signal was received: main's context is done
    main,           \* where main is
    count,          \* currentCount
    held,           \* value main's counter received and has not added yet
    exited          \* whether, and which way, the process ended

dataVars    == <<recordingDir, vodPath, flag>>
jobVars     == <<pc, registered, cancelled, over, recordingDir, vodPath, flag>>
notifyVars  == <<sent, notifier>>
mainVars    == <<ctxDone, main>>
counterVars == <<count, held, exited>>
vars        == <<jobVars, notifyVars, mainVars, counterVars>>

-----------------------------------------------------------------------------
(* The actions of a job in the order of RequestStream, the channel send an *)
(* action may block on, and the goroutine's own steps around them.         *)
Sending == {"announceStart", "StreamEnd", "announceVod", "announceThumb"}
Running == {"Stream", "ffmpeg", "MkVOD", "CheckVoD", "MkThumb", "teardown"} \cup Sending
Counted == Running \cup {"accepted", "retiring"}
PC      == Counted \cup {"idle", "requested", "done"}

StreamStart(j)    == [kind |-> "StreamStart", job |-> j]
StreamEnd(j)      == [kind |-> "StreamEnd", job |-> j]
VodReady(j)       == [kind |-> "VodReady", job |-> j]
ThumbnailReady(j) == [kind |-> "ThumbnailReady", job |-> j]
DrainHeartbeat    == [kind |-> "DrainHeartbeat"]

JobNotifications ==
    [kind : {"StreamStart", "StreamEnd", "VodReady", "ThumbnailReady"}, job : Jobs]
Notifications == JobNotifications \cup {DrainHeartbeat}

TypeOK ==
    /\ pc \in [Jobs -> PC]
    /\ registered \subseteq Jobs
    /\ cancelled \subseteq Jobs
    /\ over \subseteq Jobs
    /\ recordingDir \subseteq Jobs
    /\ vodPath \subseteq Jobs
    /\ flag \in [Jobs -> {"none", "del", "keep", "unwritten"}]
    /\ sent \subseteq Notifications
    /\ notifier \in {"receiving", "stopped"}
    /\ ctxDone \in BOOLEAN
    /\ main \in {"waiting", "draining", "sleeping", "checking", "leaving", "blocked", "forcing"}
    /\ count \in Int
    /\ held \in {-1, 0, 1}
    /\ exited \in {"no", "counter", "main", "forced"}

Init ==
    /\ pc = [j \in Jobs |-> "idle"]
    /\ registered = {} /\ cancelled = {} /\ over = {}
    /\ recordingDir = {} /\ vodPath = {}
    /\ flag = [j \in Jobs |-> "none"]
    /\ sent = {}
    /\ notifier = "receiving"
    /\ ctxDone = FALSE /\ main = "waiting"
    /\ count = 0 /\ held = 0 /\ exited = "no"

-----------------------------------------------------------------------------
(* Channels. *)
Goto(j, from, to) == exited = "no" /\ pc[j] = from /\ pc' = [pc EXCEPT ![j] = to]

\* An AbortingError only leaves the retry loop of the current action: the
\* loop over the actions goes on with the following one.
Abort(j, from, to) == Goto(j, from, to)

\* r.notifications <- n, received by handleNotifications, which delivers n
\* in a goroutine of its own.
Notify(n) ==
    /\ notifier = "receiving"
    /\ sent' = sent \cup {n}
    /\ UNCHANGED notifier

\* r.JobCount <- d, received by the counter goroutine of main.
Count(d) ==
    /\ held = 0
    /\ held' = d
    /\ UNCHANGED <<count, exited>>

-----------------------------------------------------------------------------
(* gRPC handlers and the goroutine of a job. *)
RequestStream(j) ==
    /\ Goto(j, "idle", "requested")
    /\ UNCHANGED <<registered, cancelled, over, dataVars, notifyVars, mainVars, counterVars>>

AcceptJob(j) ==
    /\ Goto(j, "requested", "accepted")
    /\ Count(1)
    /\ UNCHANGED <<registered, cancelled, over, dataVars, notifyVars, mainVars>>

RegisterJob(j) ==
    /\ Goto(j, "accepted", "Stream")
    /\ registered' = registered \cup {j}
    /\ UNCHANGED <<cancelled, over, dataVars, notifyVars, mainVars, counterVars>>

RequestStreamEnd(j) ==
    /\ exited = "no"
    /\ j \in registered
    /\ cancelled' = cancelled \cup {j}
    /\ UNCHANGED <<pc, registered, over, dataVars, notifyVars, mainVars, counterVars>>

\* The planned end of the stream passes.
EndPasses(j) ==
    /\ exited = "no"
    /\ j \notin over
    /\ over' = over \cup {j}
    /\ UNCHANGED <<pc, registered, cancelled, dataVars, notifyVars, mainVars, counterVars>>

\* Fault: an AbortingError ends the pipeline, as the comments say it does.
StreamAbortsPipeline(j) ==
    /\ j \in cancelled \/ j \notin over
    /\ Abort(j, "Stream", "teardown")
    /\ UNCHANGED <<registered, cancelled, over, dataVars, notifyVars, mainVars, counterVars>>

\* Stream, when the context is cancelled or MkdirAll fails.
StreamAborts(j) ==
    /\ j \in cancelled \/ j \notin over
    /\ Abort(j, "Stream", "StreamEnd")
    /\ UNCHANGED <<registered, cancelled, over, dataVars, notifyVars, mainVars, counterVars>>

\* Stream, when the end is past: returns nil before anything is set up.
StreamTooLate(j) ==
    /\ j \in over \ cancelled
    /\ Goto(j, "Stream", "StreamEnd")
    /\ UNCHANGED <<registered, cancelled, over, dataVars, notifyVars, mainVars, counterVars>>

\* Fault: Stream does not look at its context and the end of the stream.
StreamPreparesAlways(j) ==
    /\ Goto(j, "Stream", "announceStart")
    /\ recordingDir' = recordingDir \cup {j}
    /\ UNCHANGED <<registered, cancelled, over, vodPath, flag, notifyVars, mainVars, counterVars>>

StreamPrepares(j) ==
    /\ j \notin cancelled \cup over
    /\ Goto(j, "Stream", "announceStart")
    /\ recordingDir' = recordingDir \cup {j}
    /\ UNCHANGED <<registered, cancelled, over, vodPath, flag, notifyVars, mainVars, counterVars>>

AnnounceStart(j) ==
    /\ Goto(j, "announceStart", "ffmpeg")
    /\ Notify(StreamStart(j))
    /\ UNCHANGED <<registered, cancelled, over, dataVars, mainVars, counterVars>>

\* ffmpeg fails, is killed, or ends before the planned end: the error is not
\* aborting, Stream runs again at once.
FfmpegFails(j) ==
    /\ Goto(j, "ffmpeg", "Stream")
    /\ UNCHANGED <<registered, cancelled, over, dataVars, notifyVars, mainVars, counterVars>>

\* Fault: StreamEnd missing from the list of actions.
FfmpegSucceedsNoEnd(j) ==
    /\ j \in over \ cancelled
    /\ Goto(j, "ffmpeg", "MkVOD")
    /\ UNCHANGED <<registered, cancelled, over, dataVars, notifyVars, mainVars, counterVars>>

FfmpegSucceeds(j) ==
    /\ j \in over \ cancelled
    /\ Goto(j, "ffmpeg", "StreamEnd")
    /\ UNCHANGED <<registered, cancelled, over, dataVars, notifyVars, mainVars, counterVars>>

AnnounceEnd(j) ==
    /\ Goto(j, "StreamEnd", "MkVOD")
    /\ Notify(StreamEnd(j))
    /\ UNCHANGED <<registered, cancelled, over, dataVars, mainVars, counterVars>>

\* MkVOD without a recording, or whose conversion fails or is cancelled.
MkVODAborts(j) ==
    /\ Abort(j, "MkVOD", "CheckVoD")
    /\ UNCHANGED <<registered, cancelled, over, dataVars, notifyVars, mainVars, counterVars>>

MkVODConverts(j) ==
    /\ j \in recordingDir \ cancelled
    /\ Goto(j, "MkVOD", "announceVod")
    /\ vodPath' = vodPath \cup {j}
    /\ UNCHANGED <<registered, cancelled, over, recordingDir, flag, notifyVars, mainVars, counterVars>>

AnnounceVod(j) ==
    /\ Goto(j, "announceVod", "CheckVoD")
    /\ Notify(VodReady(j))
    /\ UNCHANGED <<registered, cancelled, over, dataVars, mainVars, counterVars>>

\* The VoD was probed and is as long as the recording: mark for deletion.
CheckVoDHealthy(j) ==
    /\ j \in (recordingDir \cap vodPath) \ cancelled
    /\ Goto(j, "CheckVoD", "MkThumb")
    /\ flag' = [flag EXCEPT ![j] = "del"]
    /\ UNCHANGED <<registered, cancelled, over, recordingDir, vodPath, notifyVars, mainVars, counterVars>>

\* No VoD, a probe fails, or the durations diverge: mark to be kept.
CheckVoDUnhealthy(j) ==
    /\ Abort(j, "CheckVoD", "MkThumb")
    /\ flag' = [flag EXCEPT ![j] = IF j \in recordingDir THEN "keep" ELSE @]
    /\ UNCHANGED <<registered, cancelled, over, recordingDir, vodPath, notifyVars, mainVars, counterVars>>

\* The management file cannot be created: CheckVoD aborts and leaves no file.
CheckVoDUnwritable(j) ==
    /\ j \in recordingDir
    /\ Abort(j, "CheckVoD", "MkThumb")
    /\ flag' = [flag EXCEPT ![j] = "unwritten"]
    /\ UNCHANGED <<registered, cancelled, over, recordingDir, vodPath, notifyVars, mainVars, counterVars>>

MkThumbAborts(j) ==
    /\ Abort(j, "MkThumb", "teardown")
    /\ UNCHANGED <<registered, cancelled, over, dataVars, notifyVars, mainVars, counterVars>>

MkThumbGenerates(j) ==
    /\ j \in recordingDir
    /\ Goto(j, "MkThumb", "announceThumb")
    /\ UNCHANGED <<registered, cancelled, over, dataVars, notifyVars, mainVars, counterVars>>

AnnounceThumb(j) ==
    /\ Goto(j, "announceThumb", "teardown")
    /\ Notify(ThumbnailReady(j))
    /\ UNCHANGED <<registered, cancelled, over, dataVars, mainVars, counterVars>>

\* The deferred function: cancel(), delete(r.jobs, job), JobCount <- -1.
Teardown(j) ==
    /\ Goto(j, "teardown", "retiring")
    /\ cancelled' = cancelled \cup {j}
    /\ registered' = registered \ {j}
    /\ UNCHANGED <<over, dataVars, notifyVars, mainVars, counterVars>>

\* Fault: a job that recorded nothing does not count itself out.
RetireUncounted(j) ==
    /\ Goto(j, "retiring", "done")
    /\ IF j \notin recordingDir THEN UNCHANGED counterVars ELSE Count(-1)
    /\ UNCHANGED <<registered, cancelled, over, dataVars, notifyVars, mainVars>>

RetireJob(j) ==
    /\ Goto(j, "retiring", "done")
    /\ Count(-1)
    /\ UNCHANGED <<registered, cancelled, over, dataVars, notifyVars, mainVars>>

-----------------------------------------------------------------------------
\* handleNotifications returns when main's context is done. Delivery itself,
\* in goroutines of its own, is in RunnerNotifications.
NotifierStops ==
    /\ exited = "no" /\ ctxDone
    /\ notifier = "receiving"
    /\ notifier' = "stopped"
    /\ UNCHANGED <<sent, jobVars, mainVars, counterVars>>

-----------------------------------------------------------------------------
(* main. shouldShutdown is TRUE exactly when main is past "waiting". *)
shouldShutdown == main # "waiting"

FirstSignal ==
    /\ exited = "no"
    /\ ~ctxDone
    /\ ctxDone' = TRUE
    /\ UNCHANGED <<main, jobVars, notifyVars, counterVars>>

\* main wakes up, sets shouldShutdown and enters Drain, which blocks on its send.
DrainBegins ==
    /\ exited = "no" /\ ctxDone
    /\ main = "waiting"
    /\ main' = "draining"
    /\ UNCHANGED <<ctxDone, jobVars, notifyVars, counterVars>>

DrainSends ==
    /\ exited = "no"
    /\ main = "draining"
    /\ Notify(DrainHeartbeat)
    /\ main' = "sleeping"
    /\ UNCHANGED <<ctxDone, jobVars, counterVars>>

SleepEnds ==
    /\ exited = "no"
    /\ main = "sleeping"
    /\ main' = "checking"
    /\ UNCHANGED <<ctxDone, jobVars, notifyVars, counterVars>>

\* Fault: main leaves the exit to the counter goroutine.
MainWaits ==
    /\ exited = "no"
    /\ main = "checking"
    /\ main' = "blocked"
    /\ UNCHANGED <<ctxDone, jobVars, notifyVars, counterVars>>

MainChecks ==
    /\ exited = "no"
    /\ main = "checking"
    /\ main' = IF count = 0 THEN "leaving" ELSE "blocked"
    /\ UNCHANGED <<ctxDone, jobVars, notifyVars, counterVars>>

MainExits ==
    /\ exited = "no"
    /\ main = "leaving"
    /\ exited' = "main"
    /\ UNCHANGED <<count, held, jobVars, notifyVars, mainVars>>

\* A second signal once main slept: Cleanup cancels the jobs of r.jobs.
SecondSignal ==
    /\ exited = "no"
    /\ main \in {"checking", "leaving", "blocked"}
    /\ main' = "forcing"
    /\ cancelled' = cancelled \cup registered
    /\ UNCHANGED <<ctxDone, pc, registered, over, recordingDir, vodPath, flag>>
    /\ UNCHANGED <<notifyVars, counterVars>>

ForcedExit ==
    /\ exited = "no"
    /\ main = "forcing"
    /\ exited' = "forced"
    /\ UNCHANGED <<count, held, jobVars, notifyVars, mainVars>>

\* Fault: the counter exits with one job left.
CounterAddsEarly ==
    /\ exited = "no"
    /\ held # 0
    /\ count' = count + held
    /\ held' = 0
    /\ exited' = IF shouldShutdown /\ count' <= 1 THEN "counter" ELSE "no"
    /\ UNCHANGED <<jobVars, notifyVars, mainVars>>

\* The counter goroutine adds what it received and may end the process.
CounterAdds ==
    /\ exited = "no"
    /\ held # 0
    /\ count' = count + held
    /\ held' = 0
    /\ exited' = IF shouldShutdown /\ count' = 0 THEN "counter" ELSE "no"
    /\ UNCHANGED <<jobVars, notifyVars, mainVars>>

-----------------------------------------------------------------------------
\* Steps the goroutine of a job takes by itself.
JobStep(j) ==
    \/ AcceptJob(j) \/ RegisterJob(j)
    \/ StreamAborts(j) \/ StreamTooLate(j) \/ StreamPrepares(j) \/ AnnounceStart(j)
    \/ FfmpegFails(j) \/ FfmpegSucceeds(j) \/ AnnounceEnd(j)
    \/ MkVODAborts(j) \/ MkVODConverts(j) \/ AnnounceVod(j)
    \/ CheckVoDHealthy(j) \/ CheckVoDUnhealthy(j) \/ CheckVoDUnwritable(j)
    \/ MkThumbAborts(j) \/ MkThumbGenerates(j) \/ AnnounceThumb(j)
    \/ Teardown(j) \/ RetireJob(j)

MainStep == DrainBegins \/ DrainSends \/ SleepEnds \/ MainChecks \/ MainExits \/ ForcedExit

Next ==
    \/ \E j \in Jobs : RequestStream(j) \/ RequestStreamEnd(j) \/ EndPasses(j) \/ JobStep(j)
    \/ NotifierStops \/ MainStep \/ CounterAdds
    \/ FirstSignal \/ SecondSignal

Spec == Init /\ [][Next]_vars

\* Every goroutine that can run keeps running, and the end of a stream passes
\* some time. Signals, requests and cancellations need not happen, and nothing
\* is said of the outcomes: ffmpeg may fail at every attempt.
Fairness ==
    /\ \A j \in Jobs : WF_vars(JobStep(j)) /\ WF_vars(EndPasses(j))
    /\ WF_vars(NotifierStops) /\ WF_vars(MainStep) /\ WF_vars(CounterAdds)

FairSpec == Spec /\ Fairness

-----------------------------------------------------------------------------
(* Properties. *)

CountedJobs == {j \in Jobs : pc[j] \in Counted}

\* The count main decides on is exact: together with the value in transit it
\* is the number of jobs between the two sends of RunAction, whatever the
\* interleaving of handlers, jobs and the counter goroutine.
CounterExact == count + held = Cardinality(CountedJobs)

\* When the counter goroutine ends the process, no accepted job is cut off:
\* a job that was requested meanwhile is still blocked on its first send.
CounterExitIdle == exited = "counter" => CountedJobs = {}

\* Notifications of a job are emitted in the order gocast relies on: a VoD or
\* a thumbnail is only announced for a stream whose start and end were, even
\* though an action that aborts does not stop the pipeline.
PipelineOrder ==
    \A j \in Jobs :
        /\ VodReady(j) \in sent => {StreamStart(j), StreamEnd(j)} \subseteq sent
        /\ ThumbnailReady(j) \in sent => {StreamStart(j), StreamEnd(j)} \subseteq sent

\* A recording is only marked for deletion after its VoD was converted, and
\* announced: livestreamCleanup deletes nothing gocast was not told about.
DeleteFlagAnnounced ==
    \A j \in Jobs : flag[j] = "del" => VodReady(j) \in sent

\* A job that set up a recording directory never finishes without a flag in
\* it (or a failed attempt at one): livestreamCleanup would otherwise never
\* touch it again. It relies on the pipeline going on after a cancelled Stream.
RecordingFlagged ==
    \A j \in Jobs :
        pc[j] \in {"MkThumb", "announceThumb", "teardown", "retiring", "done"}
            /\ j \in recordingDir => flag[j] # "none"

\* Every job ends although a failing Stream is retried without limit: once its
\* end has passed or it was asked to stop, it leaves r.jobs, unless a signal
\* comes, after which nobody receives its notifications.
JobEnds ==
    \A j \in Jobs : (j \in registered /\ j \in over \cup cancelled)
                        ~> (j \notin registered \/ ctxDone)

\* Once Drain has handed over its heartbeat, a runner that has no job under way
\* exits, in whatever order main looks at the count and the last job's -1
\* arrives. (Before, Drain may block for ever: nobody receives any more.)
DrainedExits ==
    LET Idle == \A j \in Jobs : pc[j] \in {"idle", "done"} IN
    (main \notin {"waiting", "draining"} /\ Idle) ~> (exited # "no" \/ ~Idle)
=============================================================================
