------------------------------ MODULE Dispatch ------------------------------
(***************************************************************************)
(* How lectures reach the runners: TriggerDueStreams, which cron starts     *)
(* every minute in a goroutine of its own, and the hook the ingest server   *)
(* calls when somebody publishes a self stream (pkg/runner_manager,         *)
(* api/selfstream.go). A pass selects the lectures due and asks for a job   *)
(* per version; nothing keeps it from those another pass has asked for but  *)
(* the flag live_now, which a runner's first notification sets.             *)
(*                                                                         *)
(* Of the registry only what ReserveRunner may answer is kept: a runner     *)
(* that is eligible, up or not. That one which is gone is not eligible for  *)
(* ever is GoneRunnerRetires of RunnerRegistry.                             *)
(***************************************************************************)
EXTENDS Naturals, Sequences, SequencesExt

CONSTANTS
    Runners,
    Calls,          \* concurrent calls of TriggerDueStreams and of the hook
    Lectures,
    SelfStreams,    \* those without a lecture hall, whose lecturer publishes
    VersionOrder,   \* the versions of a lecture hall, the combined one first
    MaxRequests,    \* bound: jobs ever accepted for a version of each lecture
    MaxErrors       \* bound: failing calls, lost notifications, runners that stop

ASSUME BoundsTyped ==
    /\ SelfStreams \subseteq Lectures /\ MaxRequests \in [Lectures -> Nat] /\ MaxErrors \in Nat
    /\ IsFiniteSet(Calls) /\ IsFiniteSet(Lectures)

\* The slice versions of TriggerDueStreams.
ASSUME VersionsOrdered ==
    VersionOrder \in Seq(Range(VersionOrder)) /\ VersionOrder # <<>> /\ IsInjective(VersionOrder)

VARIABLES
    up,         \* the runners that run
    eligible,   \* those ReserveRunner may answer with
    phase,      \* where now is, relative to the ten minutes before a lecture
    live,       \* live_now
    todo,       \* the lectures a call has yet to deal with, from the present one on
    next,       \* the version of that lecture it is at
    client,     \* the runner it has reserved for that
    jobs,       \* the jobs accepted per lecture and version
    errors,     \* errors so far
    refused,    \* for the properties: versions a pass went past without a job
    late        \* for the properties: a pass came before a start was reported

pool == <<up, eligible>>
place == <<todo, next>>
vars == <<pool, phase, live, place, client, jobs, errors, refused, late>>

Versions == Range(VersionOrder)
Request(l, v) == [lecture |-> l, version |-> v]
None     == [none |-> TRUE]
Requests == [lecture : Lectures, version : Versions]
JobStates == [runner : Runners, at : {"accepted", "started", "over"}]

TypeOK ==
    /\ up \subseteq Runners
    /\ eligible \subseteq Runners
    /\ client \in [Calls -> Runners \cup {None}]
    /\ \A c \in Calls : client[c] # None => todo[c] # <<>>
    /\ phase \in [Lectures -> {"early", "due", "past"}]
    /\ live \in [Lectures -> BOOLEAN]
    /\ todo \in [Calls -> Seq(Lectures)]
    /\ next \in [Calls -> DOMAIN VersionOrder]
    /\ jobs \in [Requests -> Seq(JobStates)]
    /\ \A q \in Requests : Len(jobs[q]) <= MaxRequests[q.lecture]
    /\ errors \in 0 .. MaxErrors
    /\ refused \subseteq Requests
    /\ late \in BOOLEAN

Init ==
    /\ up = Runners
    /\ eligible = Runners
    /\ client = [c \in Calls |-> None]
    /\ phase = [l \in Lectures |-> "early"]
    /\ live = [l \in Lectures |-> FALSE]
    /\ todo = [c \in Calls |-> <<>>] /\ next = [c \in Calls |-> 1]
    /\ jobs = [q \in Requests |-> <<>>]
    /\ errors = 0
    /\ refused = {}
    /\ late = FALSE

-----------------------------------------------------------------------------
Idle(c) == todo[c] = <<>>

WorksOn(c, l) == l \in Range(todo[c])

\* A job of the lecture has not reported its start, or another call works on it.
Underway(l) ==
    \/ \E q \in Requests : q.lecture = l /\ \E i \in DOMAIN jobs[q] : jobs[q][i].at = "accepted"
    \/ \E c \in Calls : WorksOn(c, l)

\* The bound: requests made of a lecture so far, and those a call has yet to make.
Spare(l) ==
    \A q \in Requests : q.lecture = l =>
        Len(jobs[q]) + Cardinality({c \in Calls : WorksOn(c, l)}) < MaxRequests[l]

Err == errors < MaxErrors /\ errors' = errors + 1

\* Fault: live_now is not looked at.
DueAlsoLive(l) == l \notin SelfStreams /\ phase[l] = "due"

\* Fault: the lectures that began a while ago.
DueBefore(l) == l \notin SelfStreams /\ phase[l] = "past" /\ ~live[l]

\* GetDueStreamsForRunners. No lecture here is ended by hand or has a recording.
Due(l) == l \notin SelfStreams /\ phase[l] = "due" /\ ~live[l]

\* TriggerDueStreams: the lectures due at this time, each in all versions.
TriggerDueStreams(c) ==
    /\ Idle(c)
    /\ \E order \in SetToSeqs({l \in Lectures : Due(l) /\ Spare(l)}) :
          /\ order # <<>>
          /\ todo' = [todo EXCEPT ![c] = order]
    /\ late' = (late \/ \E l \in Lectures \ SelfStreams : Underway(l))
    /\ UNCHANGED <<pool, phase, live, next, client, jobs, errors, refused>>

\* onPublish, RequestSelfStream: the combined version, also of a lecture that is
\* live already; thirty minutes early and late are allowed.
OnPublish(c, l) ==
    /\ Idle(c)
    /\ l \in SelfStreams
    /\ phase[l] = "due"
    /\ Spare(l)
    /\ todo' = [todo EXCEPT ![c] = <<l>>]
    /\ UNCHANGED <<pool, phase, live, next, client, jobs, errors, refused, late>>

Present(c) == Request(Head(todo[c]), VersionOrder[next[c]])

NextLecture(c) ==
    /\ todo' = [todo EXCEPT ![c] = Tail(@)]
    /\ next' = [next EXCEPT ![c] = 1]

\* The loops go on: of a self stream there is one version.
GoOn(c) ==
    IF next[c] = Len(VersionOrder) \/ Head(todo[c]) \in SelfStreams
    THEN NextLecture(c)
    ELSE next' = [next EXCEPT ![c] = @ + 1] /\ UNCHANGED todo

\* GetLectureHallByID fails: the lecture's versions are left to the next pass.
SkipLecture(c) ==
    LET l == Head(todo[c]) IN
    /\ ~Idle(c) /\ client[c] = None
    /\ l \notin SelfStreams /\ next[c] = 1
    /\ NextLecture(c)
    /\ refused' = refused \cup {q \in Requests : q.lecture = l}
    /\ Err
    /\ UNCHANGED <<pool, phase, live, client, jobs, late>>

\* getClient: ReserveRunner answers with a runner,
GetClient(c) ==
    /\ ~Idle(c) /\ client[c] = None
    /\ \E r \in eligible : client' = [client EXCEPT ![c] = r]
    /\ UNCHANGED <<pool, phase, live, place, jobs, errors, refused, late>>

\* or with none; the pass goes on with the next version.
NoClient(c) ==
    /\ ~Idle(c) /\ client[c] = None
    /\ eligible = {}
    /\ refused' = refused \cup {Present(c)}
    /\ GoOn(c)
    /\ UNCHANGED <<pool, phase, live, client, jobs, errors, late>>

\* Fault: the pass returns with the first job it got.
RequestStreamVersionReturns(c) ==
    LET q == Present(c) IN
    /\ client[c] # None /\ client[c] \in up
    /\ jobs' = [jobs EXCEPT ![q] = Append(@, [runner |-> client[c], at |-> "accepted"])]
    /\ client' = [client EXCEPT ![c] = None]
    /\ todo' = [todo EXCEPT ![c] = <<>>]
    /\ next' = [next EXCEPT ![c] = 1]
    /\ UNCHANGED <<pool, phase, live, errors, refused, late>>

\* requestStreamVersion: a runner that is up accepts any job,
RequestStreamVersion(c) ==
    LET q == Present(c) IN
    /\ client[c] # None /\ client[c] \in up
    /\ jobs' = [jobs EXCEPT ![q] = Append(@, [runner |-> client[c], at |-> "accepted"])]
    /\ client' = [client EXCEPT ![c] = None]
    /\ GoOn(c)
    /\ UNCHANGED <<pool, phase, live, errors, refused, late>>

\* Fault: the client is used for the next version, too.
RequestFailsKeeps(c) ==
    /\ client[c] # None
    /\ IF client[c] \in up THEN Err ELSE UNCHANGED errors
    /\ refused' = refused \cup {Present(c)}
    /\ GoOn(c)
    /\ UNCHANGED <<pool, phase, live, client, jobs, late>>

\* and one that is down, or that the call does not reach, none.
RequestFails(c) ==
    /\ client[c] # None
    /\ IF client[c] \in up THEN Err ELSE UNCHANGED errors
    /\ refused' = refused \cup {Present(c)}
    /\ client' = [client EXCEPT ![c] = None]
    /\ GoOn(c)
    /\ UNCHANGED <<pool, phase, live, jobs, late>>

-----------------------------------------------------------------------------
(* What the runners do with the jobs, see Runner and StreamRow.            *)
Moves(q, i, from, to) ==
    /\ jobs[q][i].at = from
    /\ jobs' = [jobs EXCEPT ![q][i].at = to]

\* The start of a job is reported and saved, or the report is lost.
ReportStart(q, i) ==
    /\ Moves(q, i, "accepted", "started")
    /\ \/ live' = [live EXCEPT ![q.lecture] = TRUE] /\ UNCHANGED <<errors, late>>
       \/ Err /\ late' = TRUE /\ UNCHANGED live
    /\ UNCHANGED <<pool, phase, place, client, refused>>

\* A job ends at the lecture's end, and reports it; the first of several versions
\* that does makes the lecture not live.
EndJob(q, i) ==
    /\ Moves(q, i, "started", "over")
    /\ phase[q.lecture] = "past"
    /\ live' = [live EXCEPT ![q.lecture] = FALSE]
    /\ UNCHANGED <<pool, phase, place, client, errors, refused, late>>

\* A job that cannot make its directory reports only its end.
AbortJob(q, i) ==
    /\ Moves(q, i, "accepted", "over")
    /\ live' = [live EXCEPT ![q.lecture] = FALSE]
    /\ Err
    /\ late' = TRUE
    /\ UNCHANGED <<pool, phase, place, client, refused>>

\* A runner stops, and its jobs with it.
Stop(r) ==
    /\ r \in up
    /\ up' = up \ {r}
    /\ jobs' = [q \in Requests |-> [i \in DOMAIN jobs[q] |->
                   IF jobs[q][i].runner = r THEN [jobs[q][i] EXCEPT !.at = "over"] ELSE jobs[q][i]]]
    /\ Err
    /\ UNCHANGED <<eligible, phase, live, place, client, refused, late>>

Start(r) ==
    /\ r \notin up
    /\ up' = up \cup {r}
    /\ UNCHANGED <<eligible, phase, live, place, client, jobs, errors, refused, late>>

\* Its heartbeats come or fail to, or it drains.
Retire(r) ==
    /\ r \in eligible
    /\ eligible' = eligible \ {r}
    /\ UNCHANGED <<up, phase, live, place, client, jobs, errors, refused, late>>

Enlist(r) ==
    /\ r \notin eligible
    /\ eligible' = eligible \cup {r}
    /\ UNCHANGED <<up, phase, live, place, client, jobs, errors, refused, late>>

Clock(l) ==
    /\ phase[l] # "past"
    /\ phase' = [phase EXCEPT ![l] = IF @ = "early" THEN "due" ELSE "past"]
    /\ UNCHANGED <<pool, live, place, client, jobs, errors, refused, late>>

-----------------------------------------------------------------------------
Work(c) ==
    GetClient(c) \/ NoClient(c) \/ RequestStreamVersion(c) \/ RequestFails(c)

Call(c) ==
    \/ TriggerDueStreams(c) \/ Work(c) \/ SkipLecture(c)
    \/ \E l \in Lectures : OnPublish(c, l)

JobStep(q, i) == ReportStart(q, i) \/ EndJob(q, i) \/ AbortJob(q, i)

Next ==
    \/ \E c \in Calls : Call(c)
    \/ \E q \in Requests : \E i \in DOMAIN jobs[q] : JobStep(q, i)
    \/ \E r \in Runners : Stop(r) \/ Start(r) \/ Retire(r) \/ Enlist(r)
    \/ \E l \in Lectures : Clock(l)

\* Cron comes every minute, a pass ends, and a runner that is gone retires.
Spec ==
    /\ Init /\ [][Next]_vars
    /\ WF_vars(\E c \in Calls : TriggerDueStreams(c))
    /\ \A c \in Calls : WF_vars(Work(c))
    /\ \A r \in Runners : WF_vars(r \notin up /\ Retire(r))

-----------------------------------------------------------------------------
(* Properties. *)

Working(q) == {i \in DOMAIN jobs[q] : jobs[q][i].at # "over"}

\* Two jobs record one version of a lecture only if a pass came before the start
\* of the first was saved, or that report was lost, or an abort withdrew it: the
\* query of the next pass sees live_now (manager.go:92, dao/streams.go:81).
OneJobEach ==
    ~late => \A q \in Requests :
        q.lecture \notin SelfStreams => Cardinality(Working(q)) <= 1

\* One error does not end a pass: of a lecture that is live every version has
\* had a job, or was asked for in vain; it is not asked for again, for the
\* lecture is live (manager.go:103-117).
MissingWasRefused ==
    \A q \in Requests :
        /\ q.lecture \notin SelfStreams
        /\ live[q.lecture]
        /\ \A c \in Calls : ~WorksOn(c, q.lecture)
        => jobs[q] # <<>> \/ q \in refused

\* A lecture does not stay due for ever without a job while every runner that may
\* be assigned is up and one is: a pass that failed is made up for by a later one.
DueIsRequested ==
    \A l \in Lectures \ SelfStreams :
        ~ <>[](/\ phase[l] = "due" /\ ~live[l]
               /\ \A q \in Requests : q.lecture = l => jobs[q] = <<>>
               /\ eligible # {} /\ eligible \subseteq up)
=============================================================================
