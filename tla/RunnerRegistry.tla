--------------------------- MODULE RunnerRegistry ---------------------------
(***************************************************************************)
(* The table of runners gocast assigns streams from: Register and the      *)
(* heartbeat case of Notify (pkg/runner_manager/manager.go), ReserveRunner *)
(* and Delete (dao/runner.go). A heartbeat reads the runner's row and      *)
(* saves it whole; a reservation selects a row and increments its counter  *)
(* in a second statement, and the select locks nothing: "gorm:query_option"*)
(* is an option of gorm v1, which v2 ignores.                              *)
(*                                                                         *)
(* Instead of time stamps a row has the age of its last_seen, in units of  *)
(* the five seconds between two heartbeats; Tick makes every row older.    *)
(***************************************************************************)
EXTENDS Naturals, FiniteSets

CONSTANTS
    Runners,        \* hostnames
    Calls,          \* concurrent calls of ReserveRunner
    Window,         \* ReserveRunner: seen within 20 seconds
    MaxJobs,        \* bound on job counts
    MaxBeats        \* bound on heartbeats that are on their way or being handled

ASSUME RegistryBounds == Window \in Nat /\ MaxJobs \in Nat /\ MaxBeats \in Nat

VARIABLES
    table,          \* the rows of the table runners
    process,        \* the runner processes
    inFlight,       \* heartbeats sent and not yet handled
    handling,       \* heartbeats whose handler has read the row
    call            \* the calls of ReserveRunner

registryVars == <<table, process, inFlight, handling, call>>

Ages     == 0 .. Window + 1
Counts   == 0 .. MaxJobs
NoRow    == [row |-> "none"]
Rows     == [age : Ages, draining : BOOLEAN, jobCount : Counts]
Beats    == [runner : Runners, draining : BOOLEAN, jobCount : Counts]

Processes == [up : BOOLEAN, draining : BOOLEAN, jobs : Counts]
CallStates ==
    {[at |-> "idle"], [at |-> "failed"]} \cup [at : {"selected", "reserved"}, runner : Runners]

RegistryTypeOK ==
    /\ table \in [Runners -> Rows \cup {NoRow}]
    /\ process \in [Runners -> Processes]
    /\ inFlight \subseteq Beats
    /\ handling \subseteq Beats
    /\ call \in [Calls -> CallStates]

RegistryInit ==
    /\ table = [r \in Runners |-> NoRow]
    /\ process = [r \in Runners |-> [up |-> FALSE, draining |-> FALSE, jobs |-> 0]]
    /\ inFlight = {}
    /\ handling = {}
    /\ call = [c \in Calls |-> [at |-> "idle"]]

Min2(a, b) == IF a < b THEN a ELSE b

-----------------------------------------------------------------------------
(* Runner processes. *)

\* A process starts and registers: Create is an upsert that changes port,
\* version and time_of_register of an existing row, none of which is kept here.
Register(r) ==
    /\ ~process[r].up
    /\ process' = [process EXCEPT ![r] = [up |-> TRUE, draining |-> FALSE, jobs |-> 0]]
    /\ table' = [table EXCEPT ![r] =
                    IF @ = NoRow THEN [age |-> 0, draining |-> FALSE, jobCount |-> 0] ELSE @]
    /\ UNCHANGED <<inFlight, handling, call>>

Stop(r) ==
    /\ process[r].up
    /\ process' = [process EXCEPT ![r].up = FALSE]
    /\ UNCHANGED <<table, inFlight, handling, call>>

Drain(r) ==
    /\ process[r].up
    /\ process' = [process EXCEPT ![r].draining = TRUE]
    /\ UNCHANGED <<table, inFlight, handling, call>>

\* Fault: a job counts itself out twice.
JobEndsTwice(r) ==
    /\ process[r].up
    /\ process[r].jobs > 0
    /\ process' = [process EXCEPT ![r].jobs = @ - 2]
    /\ UNCHANGED <<table, inFlight, handling, call>>

JobEnds(r) ==
    /\ process[r].up
    /\ process[r].jobs > 0
    /\ process' = [process EXCEPT ![r].jobs = @ - 1]
    /\ UNCHANGED <<table, inFlight, handling, call>>

Beat(r) == [runner |-> r, draining |-> process[r].draining, jobCount |-> process[r].jobs]

SendHeartbeat(r) ==
    /\ process[r].up
    /\ Cardinality(inFlight) + Cardinality(handling) < MaxBeats
    /\ inFlight' = inFlight \cup {Beat(r)}
    /\ UNCHANGED <<table, process, handling, call>>

\* The heartbeat of Drain itself leaves out the job count, which reads as 0.
SendDrainHeartbeat(r) ==
    /\ process[r].up /\ process[r].draining
    /\ Cardinality(inFlight) + Cardinality(handling) < MaxBeats
    /\ inFlight' = inFlight \cup {[runner |-> r, draining |-> TRUE, jobCount |-> 0]}
    /\ UNCHANGED <<table, process, handling, call>>

-----------------------------------------------------------------------------
(* Notify with a heartbeat. *)
HeartbeatGet(b) ==
    /\ b \in inFlight
    /\ table[b.runner] # NoRow
    /\ inFlight' = inFlight \ {b}
    /\ handling' = handling \cup {b}
    /\ UNCHANGED <<table, process, call>>

\* The call is lost for good, or answered NotFound until retries run out.
HeartbeatLost(b) ==
    /\ b \in inFlight
    /\ inFlight' = inFlight \ {b}
    /\ UNCHANGED <<table, process, handling, call>>

\* Fault: the heartbeat's draining flag is not saved.
HeartbeatSaveActive(b) ==
    /\ b \in handling
    /\ handling' = handling \ {b}
    /\ table' = [table EXCEPT ![b.runner] =
                    [age |-> 0, draining |-> FALSE, jobCount |-> b.jobCount]]
    /\ UNCHANGED <<process, inFlight, call>>

\* Save writes all columns of the row that was read, and inserts it again if
\* it is gone. The columns kept here are those the heartbeat sets.
HeartbeatSave(b) ==
    /\ b \in handling
    /\ handling' = handling \ {b}
    /\ table' = [table EXCEPT ![b.runner] =
                    [age |-> 0, draining |-> b.draining, jobCount |-> b.jobCount]]
    /\ UNCHANGED <<process, inFlight, call>>

\* An administrator deletes the runner.
Delete(r) ==
    /\ table[r] # NoRow
    /\ table' = [table EXCEPT ![r] = NoRow]
    /\ UNCHANGED <<process, inFlight, handling, call>>

-----------------------------------------------------------------------------
(* ReserveRunner. *)
Eligible(r) == table[r] # NoRow /\ ~table[r].draining /\ table[r].age < Window

LeastLoaded(r) ==
    /\ Eligible(r)
    /\ \A o \in Runners : Eligible(o) => table[r].jobCount <= table[o].jobCount

ReserveSelect(c) ==
    /\ call[c].at = "idle"
    /\ \E r \in Runners :
          /\ LeastLoaded(r)
          /\ call' = [call EXCEPT ![c] = [at |-> "selected", runner |-> r]]
    /\ UNCHANGED <<table, process, inFlight, handling>>

\* Find leaves the runner empty; the update of a row without key is an error.
ReserveFails(c) ==
    /\ call[c].at = "idle"
    /\ \A r \in Runners : ~Eligible(r)
    /\ call' = [call EXCEPT ![c] = [at |-> "failed"]]
    /\ UNCHANGED <<table, process, inFlight, handling>>

ReserveIncrement(c) ==
    /\ call[c].at = "selected"
    /\ LET r == call[c].runner
       IN  /\ call' = [call EXCEPT ![c].at = "reserved"]
           /\ IF table[r] = NoRow THEN UNCHANGED table
              ELSE table' = [table EXCEPT ![r].jobCount = Min2(@ + 1, MaxJobs)]
    /\ UNCHANGED <<process, inFlight, handling>>

\* The caller asks the runner to start the stream; it takes any job it gets.
RequestJob(c) ==
    /\ call[c].at = "reserved"
    /\ LET r == call[c].runner
       IN  process' = [process EXCEPT ![r].jobs = IF process[r].up THEN Min2(@ + 1, MaxJobs) ELSE @]
    /\ call' = [call EXCEPT ![c] = [at |-> "idle"]]
    /\ UNCHANGED <<table, inFlight, handling>>

GiveUp(c) ==
    /\ call[c].at = "failed"
    /\ call' = [call EXCEPT ![c] = [at |-> "idle"]]
    /\ UNCHANGED <<table, process, inFlight, handling>>

-----------------------------------------------------------------------------
\* Five seconds pass.
Tick ==
    /\ table' = [r \in Runners |-> IF table[r] = NoRow THEN NoRow
                     ELSE [table[r] EXCEPT !.age = Min2(@ + 1, Window + 1)]]
    /\ UNCHANGED <<process, inFlight, handling, call>>

ProcessStep(r) ==
    \/ Register(r) \/ Stop(r) \/ Drain(r) \/ JobEnds(r)
    \/ SendHeartbeat(r) \/ SendDrainHeartbeat(r)

HandleHeartbeat(b) == HeartbeatGet(b) \/ HeartbeatLost(b) \/ HeartbeatSave(b)

Reserve(c) == ReserveSelect(c) \/ ReserveFails(c) \/ ReserveIncrement(c) \/ RequestJob(c) \/ GiveUp(c)

RegistryNext ==
    \/ \E r \in Runners : ProcessStep(r) \/ Delete(r)
    \/ \E b \in Beats : HandleHeartbeat(b)
    \/ \E c \in Calls : Reserve(c)
    \/ Tick

RegistrySpec == RegistryInit /\ [][RegistryNext]_registryVars

\* Time passes, a call to gocast is handled or lost, and handlers finish.
RegistryFairSpec ==
    /\ RegistrySpec
    /\ WF_registryVars(Tick)
    /\ \A b \in Beats : WF_registryVars(HandleHeartbeat(b))

-----------------------------------------------------------------------------
(* Properties. *)

\* A runner that drains or is gone for good gets no more streams in the end. A
\* heartbeat from before may be handled after one that says so, and put it back, or
\* even insert a row that was deleted; but not again and again: its later ones
\* correct that, or it is not seen any more.
GoneRunnerRetires ==
    \A r \in Runners :
        <>[](~process[r].up \/ process[r].draining) => <>[](~Eligible(r))
=============================================================================
