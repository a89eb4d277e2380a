------------------------------ MODULE Realtime ------------------------------
(***************************************************************************)
(* The websocket layer of gocast (tools/realtime): clients, the channels    *)
(* they subscribe to, and the calls of a channel's handlers. Melody reads   *)
(* the messages of one session one after the other, in the goroutine of its *)
(* request, and leaves when the connection is closed: a pump per client.    *)
(* What a handler does is left to the modules that extend this one; it may  *)
(* return or panic.                                                         *)
(***************************************************************************)
EXTENDS Naturals, FiniteSets

CONSTANTS
    Clients,            \* connections, which are never reused
    Channels,
    MaxSubscriptions    \* bound: subscriptions of each client

ASSUME SubscriptionsNat == MaxSubscriptions \in [Clients -> Nat]

VARIABLES
    clients,        \* ClientStore: the clients that are connected
    subscribers,    \* ChannelSubscribers: a client's current context per channel
    pump,           \* what each client's pump is doing
    subscribed,     \* how often each client has subscribed
    superseded      \* for the properties: contexts a later one took the place of

rtVars == <<clients, subscribers, pump, subscribed, superseded>>

\* A context is made by each subscription, and compared by its address.
Contexts == UNION {[client : {c}, channel : Channels, serial : 1 .. MaxSubscriptions[c]] :
                      c \in Clients}
None     == [none |-> TRUE]

Pumps == [at : {"new", "reading", "onSubscribe", "onUnsubscribe", "leaving", "onLeave", "left", "panicked"},
          ctx : Contexts \cup {None}, rest : SUBSET Channels]

Pump(at, ctx, rest) == [at |-> at, ctx |-> ctx, rest |-> rest]

RealtimeTypeOK ==
    /\ clients \subseteq Clients
    /\ subscribers \in [Channels -> [Clients -> Contexts \cup {None}]]
    /\ pump \in [Clients -> Pumps]
    /\ subscribed \in [Clients -> Nat]
    /\ \A c \in Clients : subscribed[c] <= MaxSubscriptions[c]
    /\ superseded \subseteq Contexts

RealtimeInit ==
    /\ clients = {}
    /\ subscribers = [ch \in Channels |-> [c \in Clients |-> None]]
    /\ pump = [c \in Clients |-> Pump("new", None, {})]
    /\ subscribed = [c \in Clients |-> 0]
    /\ superseded = {}

-----------------------------------------------------------------------------
IsSubscribed(c, ch) == subscribers[ch][c] # None

\* Connector.Join
Join(c) ==
    /\ pump[c].at = "new"
    /\ pump' = [pump EXCEPT ![c].at = "reading"]
    /\ clients' = clients \cup {c}
    /\ UNCHANGED <<subscribers, subscribed, superseded>>

\* Channel.Subscribe, up to the call of OnSubscribe. Add overwrites the context
\* of an earlier subscription.
Subscribe(c, ch) ==
    LET ctx == [client |-> c, channel |-> ch, serial |-> subscribed[c] + 1] IN
    /\ pump[c].at = "reading"
    /\ subscribed[c] < MaxSubscriptions[c]
    /\ subscribed' = [subscribed EXCEPT ![c] = @ + 1]
    /\ subscribers' = [subscribers EXCEPT ![ch][c] = ctx]
    /\ superseded' = superseded \cup ({subscribers[ch][c]} \ {None})
    /\ pump' = [pump EXCEPT ![c] = Pump("onSubscribe", ctx, {})]
    /\ UNCHANGED clients

\* Channel.Unsubscribe, up to the call of OnUnsubscribe.
Unsubscribe(c, ch) ==
    /\ pump[c].at = "reading"
    /\ IsSubscribed(c, ch)
    /\ subscribers' = [subscribers EXCEPT ![ch][c] = None]
    /\ pump' = [pump EXCEPT ![c] = Pump("onUnsubscribe", subscribers[ch][c], {})]
    /\ UNCHANGED <<clients, subscribed, superseded>>

\* Connector.Leave: UnsubscribeAll goes through the channels in any order, of
\* which those the client is not subscribed to do nothing,
Leave(c) ==
    /\ pump[c].at = "reading"
    /\ pump' = [pump EXCEPT ![c] =
                   Pump("leaving", None, {ch \in Channels : IsSubscribed(c, ch)})]
    /\ UNCHANGED <<clients, subscribers, subscribed, superseded>>

\* Fault: the context is removed and OnUnsubscribe forgotten.
UnsubscribeAllPathsSilent(c, ch) ==
    /\ pump[c].at = "leaving"
    /\ ch \in pump[c].rest
    /\ subscribers' = [subscribers EXCEPT ![ch][c] = None]
    /\ pump' = [pump EXCEPT ![c] = Pump("leaving", None, @.rest \ {ch})]
    /\ UNCHANGED <<clients, subscribed, superseded>>

\* and calls OnUnsubscribe for the context it removes.
UnsubscribeAllPaths(c, ch) ==
    /\ pump[c].at = "leaving"
    /\ ch \in pump[c].rest
    /\ subscribers' = [subscribers EXCEPT ![ch][c] = None]
    /\ pump' = [pump EXCEPT ![c] = Pump("onLeave", subscribers[ch][c], @.rest \ {ch})]
    /\ UNCHANGED <<clients, subscribed, superseded>>

Left(c) ==
    /\ pump[c].at = "leaving"
    /\ pump[c].rest = {}
    /\ pump' = [pump EXCEPT ![c].at = "left"]
    /\ clients' = clients \ {c}
    /\ UNCHANGED <<subscribers, subscribed, superseded>>

\* A handler returns to the pump,
Return(c) ==
    /\ pump' = [pump EXCEPT ![c] =
                   Pump(IF @.at = "onLeave" THEN "leaving" ELSE "reading", None, @.rest)]
    /\ UNCHANGED <<clients, subscribers, subscribed, superseded>>

\* or panics: the request's goroutine recovers, and the pump does no more, be it
\* to read or to leave (external: melody and net/http).
Panic(c) ==
    /\ pump' = [pump EXCEPT ![c].at = "panicked"]
    /\ UNCHANGED <<clients, subscribers, subscribed, superseded>>

\* The steps in which no handler runs.
Transport(c) ==
    \/ Join(c) \/ Leave(c) \/ Left(c)
    \/ \E ch \in Channels : Subscribe(c, ch) \/ Unsubscribe(c, ch) \/ UnsubscribeAllPaths(c, ch)

\* The handler that runs in a client's pump, if any.
OnSubscribe(c, ch)   == pump[c].at = "onSubscribe" /\ pump[c].ctx.channel = ch
OnUnsubscribe(c, ch) == pump[c].at \in {"onUnsubscribe", "onLeave"} /\ pump[c].ctx.channel = ch
=============================================================================
