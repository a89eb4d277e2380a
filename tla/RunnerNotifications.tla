------------------------ MODULE RunnerNotifications ------------------------
(***************************************************************************)
(* Delivery of a runner's notifications to gocast (runner/runner.go):      *)
(* handleNotifications takes each one from the unbuffered channel and      *)
(* starts a goroutine that calls retry.Do. The context of all of them is   *)
(* main's, done with the first signal, and they share one back-off value.  *)
(*                                                                         *)
(* retry.Do (github.com/sethvargo/go-retry) is external: it returns at     *)
(* once when the context is done, and asks the back-off after a failure.   *)
(***************************************************************************)
EXTENDS Naturals

CONSTANTS
    Reports,        \* the notifications of jobs, each sent once
    RetryBudget     \* retry.WithMaxRetries(10, b): shared by all of them

ASSUME RetryBudgetNat == RetryBudget \in Nat

VARIABLES
    sent,           \* notifications handleNotifications received
    waiting,        \* about to call gocast, or sleeping before a retry
    calling,        \* the call to gocast is on its way
    processed,      \* what gocast's Notify has handled
    budget,         \* retries left
    notifier,       \* the goroutine handleNotifications
    ticker,         \* the heartbeat goroutine: waiting, or what it is sending
    draining,       \* r.draining
    drain,          \* Drain: not called, blocked on its send, done
    ctxDone         \* the context of main is done

sendVars     == <<ticker, draining, drain>>
deliveryVars == <<sent, waiting, calling, processed, budget, notifier, sendVars, ctxDone>>

\* Heartbeats differ, for gocast, in whether the runner is draining.
Heartbeat     == [alive |-> "heartbeat", drains |-> "draining heartbeat"]
Heartbeats    == {Heartbeat.alive, Heartbeat.drains}
Notifications == [report : Reports] \cup [heartbeat : Heartbeats]

Beat(h) == [heartbeat |-> h]
CurrentBeat == Beat(IF draining THEN Heartbeat.drains ELSE Heartbeat.alive)

DeliveryTypeOK ==
    /\ sent \subseteq Notifications
    /\ waiting \subseteq Notifications
    /\ calling \subseteq Notifications
    /\ processed \subseteq Notifications
    /\ budget \in 0 .. RetryBudget
    /\ notifier \in {"receiving", "stopped"}
    /\ ticker \in {"waiting", "alive", "drains", "stopped"}
    /\ draining \in BOOLEAN
    /\ drain \in {"no", "sending", "done"}
    /\ ctxDone \in BOOLEAN

DeliveryInit ==
    /\ sent = {} /\ waiting = {} /\ calling = {} /\ processed = {}
    /\ budget = RetryBudget
    /\ notifier = "receiving"
    /\ ticker = "waiting" /\ draining = FALSE /\ drain = "no"
    /\ ctxDone = FALSE

-----------------------------------------------------------------------------
(* Senders. *)
Receive(n) ==
    /\ notifier = "receiving"
    /\ sent' = sent \cup {n}
    /\ waiting' = waiting \cup {n}
    /\ UNCHANGED <<calling, processed, budget, notifier>>

JobReports(r) ==
    /\ [report |-> r] \notin sent
    /\ Receive([report |-> r])
    /\ UNCHANGED <<sendVars, ctxDone>>

\* The heartbeat is built when the ticker fires, and sent when received.
HeartbeatTicks ==
    /\ ticker = "waiting"
    /\ ticker' = IF draining THEN "drains" ELSE "alive"
    /\ UNCHANGED <<sent, waiting, calling, processed, budget, notifier, draining, drain, ctxDone>>

HeartbeatSends ==
    /\ ticker \in {"alive", "drains"}
    /\ Receive(Beat(Heartbeat[ticker]))
    /\ ticker' = "waiting"
    /\ UNCHANGED <<draining, drain, ctxDone>>

HeartbeatStops ==
    /\ ctxDone
    /\ ticker = "waiting"
    /\ ticker' = "stopped"
    /\ UNCHANGED <<sent, waiting, calling, processed, budget, notifier, draining, drain, ctxDone>>

Signal ==
    /\ ~ctxDone
    /\ ctxDone' = TRUE
    /\ UNCHANGED <<sent, waiting, calling, processed, budget, notifier, sendVars>>

\* main was waiting for ctx.Done() before it calls Drain.
DrainBegins ==
    /\ ctxDone
    /\ drain = "no"
    /\ drain' = "sending"
    /\ draining' = TRUE
    /\ UNCHANGED <<sent, waiting, calling, processed, budget, notifier, ticker, ctxDone>>

DrainSends ==
    /\ drain = "sending"
    /\ Receive(CurrentBeat)
    /\ drain' = "done"
    /\ UNCHANGED <<ticker, draining, ctxDone>>

NotifierStops ==
    /\ ctxDone
    /\ notifier = "receiving"
    /\ notifier' = "stopped"
    /\ UNCHANGED <<sent, waiting, calling, processed, budget, sendVars, ctxDone>>

-----------------------------------------------------------------------------
(* retry.Do with sendNotification, one goroutine per notification. *)
Attempt(n) ==
    /\ n \in waiting
    /\ ~ctxDone
    /\ waiting' = waiting \ {n}
    /\ calling' = calling \cup {n}
    /\ UNCHANGED <<sent, processed, budget, notifier, sendVars, ctxDone>>

GiveUp(n) ==
    /\ n \in waiting
    /\ ctxDone
    /\ waiting' = waiting \ {n}
    /\ UNCHANGED <<sent, calling, processed, budget, notifier, sendVars, ctxDone>>

\* gocast processes the call and the answer arrives.
Answered(n) ==
    /\ n \in calling
    /\ calling' = calling \ {n}
    /\ processed' = processed \cup {n}
    /\ UNCHANGED <<sent, waiting, budget, notifier, sendVars, ctxDone>>

\* Fault: the retries are not limited.
AttemptFailsForEver(n) ==
    /\ n \in calling
    /\ calling' = calling \ {n}
    /\ processed' \in {processed, processed \cup {n}}
    /\ waiting' = waiting \cup {n}
    /\ UNCHANGED <<sent, budget, notifier, sendVars, ctxDone>>

\* Fault: a failed call is not marked as retryable.
AttemptFailsForGood(n) ==
    /\ n \in calling
    /\ calling' = calling \ {n}
    /\ processed' \in {processed, processed \cup {n}}
    /\ UNCHANGED <<sent, waiting, budget, notifier, sendVars, ctxDone>>

\* The call fails, with or without gocast having processed it: back to
\* waiting at the price of one retry, or dropped when none is left.
AttemptFails(n) ==
    /\ n \in calling
    /\ calling' = calling \ {n}
    /\ processed' \in {processed, processed \cup {n}}
    /\ IF budget > 0
       THEN budget' = budget - 1 /\ waiting' = waiting \cup {n}
       ELSE UNCHANGED <<budget, waiting>>
    /\ UNCHANGED <<sent, notifier, sendVars, ctxDone>>

-----------------------------------------------------------------------------
Delivery(n) == Attempt(n) \/ GiveUp(n) \/ Answered(n) \/ AttemptFails(n)

HeartbeatStep == HeartbeatTicks \/ HeartbeatSends \/ HeartbeatStops

DrainStep == DrainBegins \/ DrainSends

DeliveryNext ==
    \/ \E r \in Reports : JobReports(r)
    \/ \E n \in Notifications : Delivery(n)
    \/ HeartbeatStep \/ DrainStep \/ NotifierStops \/ Signal

DeliverySpec == DeliveryInit /\ [][DeliveryNext]_deliveryVars

\* Goroutines that can run do run, and a call to gocast returns.
DeliveryFairSpec ==
    /\ DeliverySpec
    /\ \A n \in Notifications : WF_deliveryVars(Delivery(n))
    /\ WF_deliveryVars(HeartbeatStep) /\ WF_deliveryVars(DrainStep) /\ WF_deliveryVars(NotifierStops)

-----------------------------------------------------------------------------
(* Properties. *)

\* Only two things lose a notification: the retries all notifications of the
\* process share are used up, or the runner was signalled.
NoSilentLoss ==
    budget > 0 /\ ~ctxDone => sent \subseteq waiting \cup calling \cup processed

\* What a job reports is processed by gocast in the end, with the same two
\* exceptions: failures of other notifications do not delay it for ever.
ReportsArrive ==
    \A r \in Reports :
        ([report |-> r] \in sent) ~> ([report |-> r] \in processed \/ budget = 0 \/ ctxDone)
=============================================================================
