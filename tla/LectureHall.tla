---------------------------- MODULE LectureHall ----------------------------
(***************************************************************************)
(* Lights and camera of one lecture hall, switched by gocast when streams  *)
(* in it start and end (pkg/runner_manager): streamStarted positions the   *)
(* camera and turns the lights on, streamEnded turns them off if nothing   *)
(* else is live in the hall, and the cron job UpdateLights corrects them   *)
(* every five minutes. The handlers are goroutines of the gRPC server, one *)
(* per notification: every version of a stream sends its own.              *)
(*                                                                         *)
(* The power control and the camera are external devices.                  *)
(***************************************************************************)
EXTENDS Naturals, FiniteSets

CONSTANTS
    HallStreams,    \* lectures in this hall
    StreamVersions, \* versions: combined, presentation, camera
    Parts           \* the versions that are recorded of each lecture

ASSUME PartsType == Parts \subseteq HallStreams \X StreamVersions

VARIABLES
    live,           \* streams with live_now in the database
    lights,         \* whether the lights are on
    start,          \* where streamStarted is, for each stream and version
    end,            \* where streamEnded is
    lightLock,      \* whether a handler holds lightLock
    camsHandled,    \* streams with camsHandled[stream.ID] set
    presets,        \* how often the camera was positioned for each stream
    cron            \* UpdateLights: absent, idle, or what it is about to do

hallVars == <<live, lights, start, end, lightLock, camsHandled, presets, cron>>

Stream(p) == p[1]

StartPC == {"none", "saved", "positioning", "camera", "locked", "done"}
EndPC   == {"none", "saved", "locked", "switchingOff", "done"}

\* Bound on presets for TLC: one more than any stream may get.
TooOften == 2

HallTypeOK ==
    /\ live \subseteq HallStreams
    /\ lights \in BOOLEAN
    /\ start \in [Parts -> StartPC]
    /\ end \in [Parts -> EndPC]
    /\ lightLock \in BOOLEAN
    /\ camsHandled \subseteq HallStreams
    /\ presets \in [HallStreams -> 0 .. TooOften]
    /\ cron \in {"absent", "idle", "on", "off"}

HallInit ==
    /\ live = {}
    /\ lights = FALSE
    /\ start = [p \in Parts |-> "none"]
    /\ end = [p \in Parts |-> "none"]
    /\ lightLock = FALSE
    /\ camsHandled = {}
    /\ presets = [s \in HallStreams |-> 0]
    /\ cron \in {"absent", "idle"}

-----------------------------------------------------------------------------
(* streamStarted. *)
StartGoto(p, from, to) == start[p] = from /\ start' = [start EXCEPT ![p] = to]

\* SaveCOMBURL and its siblings set live_now.
SaveStarted(p) ==
    /\ StartGoto(p, "none", "saved")
    /\ live' = live \cup {Stream(p)}
    /\ UNCHANGED <<lights, end, lightLock, camsHandled, presets, cron>>

\* Fault: camsHandled is read but not set before the camera is positioned.
CameraClaimLate(p) ==
    /\ Stream(p) \notin camsHandled
    /\ StartGoto(p, "saved", "positioning")
    /\ UNCHANGED <<live, lights, end, lightLock, camsHandled, presets, cron>>

\* handleCamera: the first handler of the stream positions the camera,
CameraClaim(p) ==
    /\ Stream(p) \notin camsHandled
    /\ StartGoto(p, "saved", "positioning")
    /\ camsHandled' = camsHandled \cup {Stream(p)}
    /\ UNCHANGED <<live, lights, end, lightLock, presets, cron>>

\* the others find it handled,
CameraSkip(p) ==
    /\ Stream(p) \in camsHandled
    /\ StartGoto(p, "saved", "camera")
    /\ UNCHANGED <<live, lights, end, lightLock, camsHandled, presets, cron>>

CameraPosition(p) ==
    /\ StartGoto(p, "positioning", "camera")
    /\ presets' = [presets EXCEPT ![Stream(p)] = IF @ < TooOften THEN @ + 1 ELSE @]
    /\ UNCHANGED <<live, lights, end, lightLock, camsHandled, cron>>

\* and on an error the claim is taken back.
CameraFails(p) ==
    /\ StartGoto(p, "positioning", "camera")
    /\ camsHandled' = camsHandled \ {Stream(p)}
    /\ UNCHANGED <<live, lights, end, lightLock, presets, cron>>

\* handleLightsOn, under lightLock.
LightsOnLock(p) ==
    /\ ~lightLock
    /\ StartGoto(p, "camera", "locked")
    /\ lightLock' = TRUE
    /\ UNCHANGED <<live, lights, end, camsHandled, presets, cron>>

LightsOn(p) ==
    /\ StartGoto(p, "locked", "done")
    /\ lights' = TRUE
    /\ lightLock' = FALSE
    /\ UNCHANGED <<live, end, camsHandled, presets, cron>>

-----------------------------------------------------------------------------
(* streamEnded. The end of a version is emitted after its start, but may be *)
(* handled at the same time.                                               *)
EndGoto(p, from, to) == end[p] = from /\ end' = [end EXCEPT ![p] = to]

\* SetStreamNotLiveById
SaveEnded(p) ==
    /\ start[p] # "none"
    /\ EndGoto(p, "none", "saved")
    /\ live' = live \ {Stream(p)}
    /\ UNCHANGED <<lights, start, lightLock, camsHandled, presets, cron>>

\* Fault: the live streams are looked up outside of lightLock.
LightsOffUnlocked(p) ==
    /\ EndGoto(p, "saved", "locked")
    /\ UNCHANGED <<live, lights, start, lightLock, camsHandled, presets, cron>>

\* handleLightsOff, under lightLock: keeps the lights if the hall has more
\* than one live stream, or one that is not this one.
LightsOffLock(p) ==
    /\ ~lightLock
    /\ EndGoto(p, "saved", "locked")
    /\ lightLock' = TRUE
    /\ UNCHANGED <<live, lights, start, camsHandled, presets, cron>>

OtherLive(p) == live \ {Stream(p)} # {}

LightsKept(p) ==
    /\ OtherLive(p)
    /\ EndGoto(p, "locked", "done")
    /\ lightLock' = FALSE
    /\ UNCHANGED <<live, lights, start, camsHandled, presets, cron>>

LightsOffDecided(p) ==
    /\ ~OtherLive(p)
    /\ EndGoto(p, "locked", "switchingOff")
    /\ UNCHANGED <<live, lights, start, lightLock, camsHandled, presets, cron>>

LightsOff(p) ==
    /\ EndGoto(p, "switchingOff", "done")
    /\ lights' = FALSE
    /\ lightLock' = FALSE
    /\ UNCHANGED <<live, start, camsHandled, presets, cron>>

-----------------------------------------------------------------------------
(* UpdateLights: reads how many streams are live, then switches, with no   *)
(* lock.                                                                   *)
CronReads ==
    /\ cron = "idle"
    /\ cron' = IF live # {} THEN "on" ELSE "off"
    /\ UNCHANGED <<live, lights, start, end, lightLock, camsHandled, presets>>

\* Fault: UpdateLights only turns lights on.
CronSwitchesOn ==
    /\ cron \in {"on", "off"}
    /\ lights' = (lights \/ cron = "on")
    /\ cron' = "idle"
    /\ UNCHANGED <<live, start, end, lightLock, camsHandled, presets>>

CronSwitches ==
    /\ cron \in {"on", "off"}
    /\ lights' = (cron = "on")
    /\ cron' = "idle"
    /\ UNCHANGED <<live, start, end, lightLock, camsHandled, presets>>

-----------------------------------------------------------------------------
StartStep(p) ==
    \/ CameraClaim(p) \/ CameraSkip(p) \/ CameraPosition(p) \/ CameraFails(p)
    \/ LightsOnLock(p) \/ LightsOn(p)

EndStep(p) == LightsOffLock(p) \/ LightsKept(p) \/ LightsOffDecided(p) \/ LightsOff(p)

HallNext ==
    \/ \E p \in Parts : SaveStarted(p) \/ SaveEnded(p) \/ StartStep(p) \/ EndStep(p)
    \/ CronReads \/ CronSwitches

HallSpec == HallInit /\ [][HallNext]_hallVars

\* Handlers that began run on, sync.Mutex starves nobody, and the cron
\* scheduler starts UpdateLights again and again.
HallFairSpec ==
    /\ HallSpec
    /\ \A p \in Parts : SF_hallVars(StartStep(p)) /\ SF_hallVars(EndStep(p))
    /\ WF_hallVars(CronReads) /\ WF_hallVars(CronSwitches)

-----------------------------------------------------------------------------
(* Properties. *)

\* A lecture is not left in the dark by the handlers: while a stream is live
\* and one of its starts was handled to the end, the lights are on, whatever
\* ends in the same hall meanwhile. UpdateLights can break it for a while.
LitWhileLive ==
    cron = "absent" => \A p \in Parts :
        Stream(p) \in live /\ start[p] = "done" /\ (\A q \in Parts : Stream(q) = Stream(p) => end[q] = "none")
            => lights

\* The camera is positioned at most once per stream however many versions
\* start at the same time, also when an attempt failed.
PositionedOnce == \A s \in HallStreams : presets[s] <= 1

\* With UpdateLights, the lights follow what is live in the end: a late
\* handler or a race of the cron job with a start is corrected.
LightsFollow == cron # "absent" => <>[](lights <=> live # {})
=============================================================================
