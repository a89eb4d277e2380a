------------------------------ MODULE Sessions ------------------------------
(***************************************************************************)
(* The tables of sessions gocast keeps beside the websocket layer, each     *)
(* filled and emptied by the handlers of one channel: the listeners of live *)
(* updates (api/live_update.go), those of the administrator's runner page   *)
(* (api/runner.go), and the viewers of a lecture, who subscribe to its chat *)
(* (api/chat.go, api/wsHub.go). A job deletes closed sessions from the last *)
(* one every second.                                                        *)
(***************************************************************************)
EXTENDS Realtime

CONSTANTS
    Users,
    UserOf,     \* the user of each client
    Admins,     \* the users whose role is admin
    MaxFaults   \* bound: failing reads of the courses

ASSUME UsersTyped ==
    UserOf \in [Clients -> Users] /\ Admins \subseteq Users /\ MaxFaults \in Nat

\* Those whose handlers keep sessions.
ASSUME ChannelsHandled == Channels = {"live", "runner", "chat"}

VARIABLES
    liveUpdate,     \* liveUpdateListener: sessions by user; {} is no entry
    runnerPage,     \* liveRunnerPageUpdateListener, likewise
    viewers,        \* sessionsMap of one lecture
    cleanup,        \* the pass of cleanupSessions, if one is running
    overtaken,      \* for the properties: viewers added while a pass ran
    faults          \* failed reads of the courses

tables == <<liveUpdate, runnerPage, viewers>>
vars   == <<rtVars, tables, cleanup, overtaken, faults>>

\* A pass has still to look at some sessions and keeps others.
NoPass == [running |-> FALSE, unseen |-> {}, kept |-> {}]

TypeOK ==
    /\ RealtimeTypeOK
    /\ liveUpdate \in [Users -> SUBSET {x \in Contexts : x.channel = "live"}]
    /\ runnerPage \in [Users -> SUBSET {x \in Contexts : x.channel \in {"live", "runner"}}]
    /\ viewers \subseteq {x \in Contexts : x.channel = "chat"}
    /\ cleanup \in [running : BOOLEAN, unseen : SUBSET Contexts, kept : SUBSET Contexts]
    /\ cleanup.unseen \cap cleanup.kept = {}
    /\ overtaken \subseteq Contexts
    /\ faults \in 0 .. MaxFaults

Init ==
    /\ RealtimeInit
    /\ liveUpdate = [u \in Users |-> {}]
    /\ runnerPage = [u \in Users |-> {}]
    /\ viewers = {}
    /\ cleanup = NoPass
    /\ overtaken = {}
    /\ faults = 0

-----------------------------------------------------------------------------
User(c) == UserOf[c]

\* liveUpdateOnSubscribe adds the session, unless reading the courses fails.
LiveUpdateOnSubscribe(c) ==
    /\ OnSubscribe(c, "live")
    /\ \/ /\ liveUpdate' = [liveUpdate EXCEPT ![User(c)] = @ \cup {pump[c].ctx}]
          /\ UNCHANGED faults
       \/ /\ faults < MaxFaults
          /\ faults' = faults + 1
          /\ UNCHANGED liveUpdate
    /\ Return(c)
    /\ UNCHANGED <<runnerPage, viewers, cleanup, overtaken>>

\* Fault: a user's entry is deleted with the first session.
LiveUpdateOnUnsubscribeUser(c) ==
    /\ OnUnsubscribe(c, "live")
    /\ IF liveUpdate[User(c)] = {} THEN Panic(c) ELSE Return(c)
    /\ liveUpdate' = [liveUpdate EXCEPT ![User(c)] = {}]
    /\ UNCHANGED <<runnerPage, viewers, cleanup, overtaken, faults>>

\* liveUpdateOnUnsubscribe: without an entry the sessions of nil are read.
LiveUpdateOnUnsubscribe(c) ==
    /\ OnUnsubscribe(c, "live")
    /\ IF liveUpdate[User(c)] = {} THEN Panic(c) ELSE Return(c)
    /\ liveUpdate' = [liveUpdate EXCEPT ![User(c)] = @ \ {pump[c].ctx}]
    /\ UNCHANGED <<runnerPage, viewers, cleanup, overtaken, faults>>

\* liveRunnerPageUpdateOnSubscribe: for an admin, the sessions of the other
\* table and the new one.
RunnerPageOnSubscribe(c) ==
    /\ OnSubscribe(c, "runner")
    /\ runnerPage' = IF User(c) \in Admins
                     THEN [runnerPage EXCEPT ![User(c)] = liveUpdate[User(c)] \cup {pump[c].ctx}]
                     ELSE runnerPage
    /\ Return(c)
    /\ UNCHANGED <<liveUpdate, viewers, cleanup, overtaken, faults>>

\* liveRunnerPageUpdateOnUnsubscribe
RunnerPageOnUnsubscribe(c) ==
    /\ OnUnsubscribe(c, "runner")
    /\ IF runnerPage[User(c)] = {} THEN Panic(c) ELSE Return(c)
    /\ runnerPage' = [runnerPage EXCEPT ![User(c)] = @ \ {pump[c].ctx}]
    /\ UNCHANGED <<liveUpdate, viewers, cleanup, overtaken, faults>>

\* chatOnSubscribe, connHandler
ChatOnSubscribe(c) ==
    /\ OnSubscribe(c, "chat")
    /\ viewers' = viewers \cup {pump[c].ctx}
    /\ overtaken' = IF cleanup.running THEN overtaken \cup {pump[c].ctx} ELSE overtaken
    /\ Return(c)
    /\ UNCHANGED <<liveUpdate, runnerPage, cleanup, faults>>

\* chatOnUnsubscribe counts the view of a recording, and leaves the session to
\* the next pass.
ChatOnUnsubscribe(c) ==
    /\ OnUnsubscribe(c, "chat")
    /\ Return(c)
    /\ UNCHANGED <<tables, cleanup, overtaken, faults>>

\* cleanupSessions: the pass starts from the list as it is,
StartPass ==
    /\ ~cleanup.running
    /\ viewers # {}
    /\ cleanup' = [running |-> TRUE, unseen |-> viewers, kept |-> {}]
    /\ UNCHANGED <<rtVars, tables, overtaken, faults>>

\* Fault: IsSubscribed is given the client and the channel the wrong way round.
LookAtSwapped ==
    \E x \in cleanup.unseen :
        /\ cleanup' = [cleanup EXCEPT !.unseen = @ \ {x}]
        /\ UNCHANGED <<rtVars, tables, overtaken, faults>>

\* keeps a session if its client is subscribed, by this or another context,
LookAt ==
    \E x \in cleanup.unseen :
        /\ cleanup' = [cleanup EXCEPT !.unseen = @ \ {x},
                           !.kept = IF IsSubscribed(x.client, "chat") THEN @ \cup {x} ELSE @]
        /\ UNCHANGED <<rtVars, tables, overtaken, faults>>

\* Fault: what was added meanwhile is kept, and all the rest with it.
EndPassMerges ==
    /\ cleanup.running
    /\ cleanup.unseen = {}
    /\ viewers' = viewers \cup cleanup.kept
    /\ cleanup' = NoPass
    /\ UNCHANGED <<rtVars, liveUpdate, runnerPage, overtaken, faults>>

\* and stores what it kept, under the lock the rest was done without.
EndPass ==
    /\ cleanup.running
    /\ cleanup.unseen = {}
    /\ viewers' = cleanup.kept
    /\ cleanup' = NoPass
    /\ UNCHANGED <<rtVars, liveUpdate, runnerPage, overtaken, faults>>

-----------------------------------------------------------------------------
Handler(c) ==
    \/ LiveUpdateOnSubscribe(c) \/ LiveUpdateOnUnsubscribe(c)
    \/ RunnerPageOnSubscribe(c) \/ RunnerPageOnUnsubscribe(c)
    \/ ChatOnSubscribe(c) \/ ChatOnUnsubscribe(c)

Carried(c) == Transport(c) /\ UNCHANGED <<tables, cleanup, overtaken, faults>>

Next ==
    \/ \E c \in Clients : Carried(c) \/ Handler(c)
    \/ StartPass \/ LookAt \/ EndPass

\* A handler returns, a leaving client goes through its channels, and the pass
\* comes every second. Nobody has to connect, subscribe or leave.
Fairness ==
    /\ \A c \in Clients :
          /\ WF_vars(Handler(c))
          /\ WF_vars(Left(c) /\ UNCHANGED <<tables, cleanup, overtaken, faults>>)
          /\ WF_vars(\E ch \in Channels : UnsubscribeAllPaths(c, ch)
                        /\ UNCHANGED <<tables, cleanup, overtaken, faults>>)
    /\ WF_vars(StartPass) /\ WF_vars(LookAt) /\ WF_vars(EndPass)

Spec == Init /\ [][Next]_vars /\ Fairness

-----------------------------------------------------------------------------
(* Properties.                                                             *)

Reading(c)     == pump[c].at = "reading"
Current(c, ch) == IsSubscribed(c, ch) /\ Reading(c)

\* A client whose subscription to a lecture's chat has returned is counted as a
\* viewer, also after it subscribed again and whatever the passes do: only a
\* session that came while a pass ran, between its look at the list and its
\* assignment without a lock (wsHub.go:106-116), is forgotten.
ViewerCounted ==
    \A c \in Clients : Current(c, "chat") =>
        subscribers["chat"][c] \in viewers \cup overtaken

\* While the courses could be read, a client subscribed to live updates is among
\* its user's sessions, whatever the user's other tabs did meanwhile: their
\* handlers share one entry (live_update.go:57-66, 106-110).
LiveListed ==
    faults = 0 => \A c \in Clients : Current(c, "live") =>
        subscribers["live"][c] \in liveUpdate[User(c)]

\* Both unsubscribe handlers read the sessions of an entry that may be missing
\* (live_update.go:57, runner.go:67). That of live updates never meets nil unless
\* reading the courses had failed.
LiveNeverPanics ==
    faults = 0 => \A c \in Clients :
        pump[c].at = "panicked" => pump[c].ctx.channel = "runner"

\* The entry of a user loses no session that is still subscribed, and none of the
\* user's tabs finds it gone.
LiveKept == LiveListed /\ LiveNeverPanics

\* A client that left is in no table of listeners, unless one of its own contexts
\* had been superseded, for which no unsubscription comes; the runner page, which
\* copies sessions from the other table (runner.go:113), still forgets its own.
LeftForgotten ==
    \A u \in Users : \A x \in liveUpdate[u] \cup {y \in runnerPage[u] : y.channel = "runner"} :
        pump[x.client].at = "left" => x \in superseded

\* "delete closed sessions every second" (chat.go:94): a client that has left is
\* no viewer for long, superseded contexts and a running pass notwithstanding.
ViewersForgotten ==
    \A c \in Clients :
        pump[c].at = "left" ~> \A x \in viewers : x.client # c
=============================================================================
