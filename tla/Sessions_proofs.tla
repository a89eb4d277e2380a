--------------------------- MODULE Sessions_proofs ---------------------------
(***************************************************************************)
(* Proofs about Sessions, for any clients, users and bounds: the type       *)
(* invariant, and which sessions the tables hold whatever tabs subscribe,   *)
(* leave or panic, and however the pass over the viewers interleaves.       *)
(***************************************************************************)
EXTENDS Sessions, TLAPS

LEMMA ContextFields ==
  /\ \A x \in Contexts : x.client \in Clients /\ x.channel \in Channels
  /\ \A c \in Clients, ch \in Channels : \A k \in 1 .. MaxSubscriptions[c] :
        [client |-> c, channel |-> ch, serial |-> k] \in Contexts
BY DEF Contexts

-----------------------------------------------------------------------------
\* What the transport keeps of one client.
Ending == {"onUnsubscribe", "onLeave"}

Pumped(c) ==
    /\ \A ch \in Channels : subscribers[ch][c] # None =>
          /\ subscribers[ch][c] \in Contexts
          /\ subscribers[ch][c].client = c /\ subscribers[ch][c].channel = ch
    /\ pump[c].at \in {"onSubscribe"} \cup Ending =>
          pump[c].ctx \in Contexts /\ pump[c].ctx.client = c
    /\ pump[c].at = "onSubscribe" => subscribers[pump[c].ctx.channel][c] = pump[c].ctx
    /\ pump[c].at \in Ending => subscribers[pump[c].ctx.channel][c] = None
    /\ pump[c].at \in {"leaving", "onLeave"} =>
          pump[c].rest = {ch \in Channels : IsSubscribed(c, ch)}
    /\ pump[c].at = "left" => \A ch \in Channels : ~IsSubscribed(c, ch)

\* A pass over the viewers meets nobody else.
Passed == cleanup.unseen \cup cleanup.kept \subseteq {x \in Contexts : x.channel = "chat"}

Typed == TypeOK /\ Passed /\ \A c \in Clients : Pumped(c)

LEMMA TypeInit == Init => Typed
<1> SUFFICES ASSUME Init PROVE Typed
  OBVIOUS
<1>1. \A c \in Clients : pump[c].at = "new" /\ \A ch \in Channels : subscribers[ch][c] = None
  BY DEF Init, RealtimeInit, Pump
<1>2. \A c \in Clients : Pumped(c)
  BY <1>1 DEF Pumped, Ending
<1>3. pump \in [Clients -> Pumps]
  BY DEF Init, RealtimeInit, Pump, Pumps
<1>4. RealtimeTypeOK
  BY <1>3, SubscriptionsNat DEF Init, RealtimeInit, RealtimeTypeOK
<1>5. TypeOK
  BY <1>4, UsersTyped DEF Init, TypeOK, NoPass
<1> QED
  BY <1>2, <1>5 DEF Typed, Passed, Init, NoPass

\* A step of one client's pump leaves the others'.
LEMMA OthersPumped ==
  ASSUME NEW c \in Clients,
         \A d \in Clients \ {c} : /\ pump'[d] = pump[d]
                                  /\ \A ch \in Channels : subscribers'[ch][d] = subscribers[ch][d],
         \A d \in Clients : Pumped(d),
         RealtimeTypeOK,
         (Pumped(c))'
  PROVE  \A d \in Clients : (Pumped(d))'
<1> SUFFICES ASSUME NEW d \in Clients \ {c} PROVE (Pumped(d))'
  OBVIOUS
<1>1. Pumped(d)
  OBVIOUS
<1>2. \A x \in Contexts : x.channel \in Channels
  BY ContextFields
<1> QED
  BY <1>1, <1>2 DEF Pumped, IsSubscribed, Ending

LEMMA TransportTyped ==
  ASSUME Typed, NEW c \in Clients, Carried(c)
  PROVE  Typed'
<1> USE DEF Typed, Passed, RealtimeTypeOK
<1>0. RealtimeTypeOK /\ Pumped(c)
  BY DEF TypeOK
<1>1. CASE Join(c)
  <2>1. pump' = [pump EXCEPT ![c].at = "reading"] /\ UNCHANGED <<subscribers, subscribed, superseded>>
        /\ clients' = clients \cup {c} /\ pump[c].at = "new"
    BY <1>1 DEF Join
  <2>2. pump'[c].at = "reading" /\ pump' \in [Clients -> Pumps]
    BY <1>0, <2>1 DEF Pumps
  <2>3. (Pumped(c))'
    BY <1>0, <2>1, <2>2 DEF Pumped, Ending
  <2> QED
    BY <1>0, <2>1, <2>2, <2>3, OthersPumped DEF Carried, tables, TypeOK
<1>2. ASSUME NEW ch \in Channels, Subscribe(c, ch) PROVE Typed'
  <2> DEFINE ctx == [client |-> c, channel |-> ch, serial |-> subscribed[c] + 1]
  <2>1. /\ subscribed' = [subscribed EXCEPT ![c] = @ + 1]
        /\ subscribers' = [subscribers EXCEPT ![ch][c] = ctx]
        /\ superseded' = superseded \cup ({subscribers[ch][c]} \ {None})
        /\ pump' = [pump EXCEPT ![c] = Pump("onSubscribe", ctx, {})]
        /\ UNCHANGED clients /\ subscribed[c] < MaxSubscriptions[c]
    BY <1>2 DEF Subscribe
  <2>2. ctx \in Contexts /\ ctx.client = c /\ ctx.channel = ch
    <3>1. subscribed[c] + 1 \in 1 .. MaxSubscriptions[c]
      <4>1. subscribed[c] \in Nat /\ MaxSubscriptions[c] \in Nat
        BY <1>0, SubscriptionsNat
      <4> QED
        BY <2>1, <4>1
    <3> QED
      BY <3>1, ContextFields
  <2> HIDE DEF ctx
  <2>3. pump'[c] = [at |-> "onSubscribe", ctx |-> ctx, rest |-> {}] /\ pump' \in [Clients -> Pumps]
    BY <1>0, <2>1, <2>2 DEF Pumps, Pump
  <2>4. /\ subscribers'[ch][c] = ctx
        /\ \A d \in Channels \ {ch} : subscribers'[d][c] = subscribers[d][c]
        /\ \A d \in Channels : \A e \in Clients \ {c} : subscribers'[d][e] = subscribers[d][e]
        /\ subscribers' \in [Channels -> [Clients -> Contexts \cup {None}]]
    BY <1>0, <2>1, <2>2
  <2>5. (Pumped(c))'
    BY <1>0, <2>2, <2>3, <2>4 DEF Pumped, Ending
  <2>6. subscribed' \in [Clients -> Nat] /\ superseded' \subseteq Contexts
        /\ \A d \in Clients : subscribed'[d] <= MaxSubscriptions[d]
    <3>1. subscribed' \in [Clients -> Nat]
      BY <1>0, <2>1
    <3>2. ASSUME NEW d \in Clients PROVE subscribed'[d] <= MaxSubscriptions[d]
      <4>1. subscribed[d] \in Nat /\ MaxSubscriptions[d] \in Nat /\ subscribed[d] <= MaxSubscriptions[d]
        BY <1>0, SubscriptionsNat
      <4>2. subscribed'[d] = IF d = c THEN subscribed[c] + 1 ELSE subscribed[d]
        BY <1>0, <2>1
      <4> QED
        BY <2>1, <4>1, <4>2
    <3>3. subscribers[ch][c] \in Contexts \cup {None}
      BY <1>0
    <3>4. superseded' \subseteq Contexts
      BY <1>0, <2>1, <3>3
    <3> QED
      BY <3>1, <3>2, <3>4
  <2>7. \A e \in Clients \ {c} : pump'[e] = pump[e]
    BY <1>0, <2>1
  <2>8. \A d \in Clients : (Pumped(d))'
    BY <1>0, <2>4, <2>5, <2>7, OthersPumped
  <2> QED
    BY <1>0, <2>1, <2>3, <2>4, <2>6, <2>8 DEF Carried, tables, TypeOK
<1>3. ASSUME NEW ch \in Channels, NEW at \in Ending,
             subscribers[ch][c] # None,
             subscribers' = [subscribers EXCEPT ![ch][c] = None],
             pump' = [pump EXCEPT ![c] = Pump(at, subscribers[ch][c], pump'[c].rest)],
             pump'[c].rest \subseteq Channels,
             at = "onLeave" => pump'[c].rest = {d \in Channels \ {ch} : IsSubscribed(c, d)},
             UNCHANGED <<clients, subscribed, superseded>>
      PROVE  Typed'
  <2> DEFINE ctx == subscribers[ch][c]
  <2>1. ctx \in Contexts /\ ctx.client = c /\ ctx.channel = ch
    BY <1>0, <1>3 DEF Pumped
  <2> HIDE DEF ctx
  <2>2. pump'[c].at = at /\ pump'[c].ctx = ctx /\ pump' \in [Clients -> Pumps]
    BY <1>0, <1>3, <2>1 DEF Pumps, Pump, Ending, ctx
  <2>3. /\ subscribers'[ch][c] = None
        /\ \A d \in Channels \ {ch} : subscribers'[d][c] = subscribers[d][c]
        /\ \A d \in Channels : \A e \in Clients \ {c} : subscribers'[d][e] = subscribers[d][e]
        /\ subscribers' \in [Channels -> [Clients -> Contexts \cup {None}]]
    BY <1>0, <1>3
  <2>4. at = "onLeave" => pump'[c].rest = {d \in Channels : subscribers'[d][c] # None}
    BY <1>3, <2>3 DEF IsSubscribed
  <2>5. (Pumped(c))'
    BY <1>0, <2>1, <2>2, <2>3, <2>4 DEF Pumped, Ending, IsSubscribed
  <2>6. \A e \in Clients \ {c} : pump'[e] = pump[e]
    BY <1>0, <1>3
  <2>7. \A d \in Clients : (Pumped(d))'
    BY <1>0, <2>3, <2>5, <2>6, OthersPumped
  <2> QED
    BY <1>0, <1>3, <2>2, <2>3, <2>7 DEF Carried, tables, TypeOK
<1>4. ASSUME NEW ch \in Channels, Unsubscribe(c, ch) PROVE Typed'
  <2>1. pump'[c].rest = {}
    BY <1>0, <1>4 DEF Unsubscribe, Pump
  <2> QED
    BY <1>3, <1>4, <2>1 DEF Unsubscribe, IsSubscribed, Ending
<1>5. ASSUME NEW ch \in Channels, UnsubscribeAllPaths(c, ch) PROVE Typed'
  <2>1. pump'[c].rest = pump[c].rest \ {ch} /\ pump[c].at = "leaving" /\ ch \in pump[c].rest
    BY <1>0, <1>5 DEF UnsubscribeAllPaths, Pump
  <2>2. pump[c].rest = {d \in Channels : IsSubscribed(c, d)}
    BY <1>0, <2>1 DEF Pumped
  <2> QED
    BY <1>3, <1>5, <2>1, <2>2 DEF UnsubscribeAllPaths, IsSubscribed, Ending
<1>6. CASE Leave(c) \/ Left(c)
  <2>1. UNCHANGED <<subscribers, subscribed, superseded>> /\ clients' \subseteq clients
    BY <1>6 DEF Leave, Left
  <2>2. /\ pump' \in [Clients -> Pumps] /\ \A e \in Clients \ {c} : pump'[e] = pump[e]
        /\ pump'[c].at \in {"leaving", "left"}
        /\ pump'[c].at = "leaving" => pump'[c].rest = {ch \in Channels : IsSubscribed(c, ch)}
        /\ pump'[c].at = "left" => pump[c].at = "leaving" /\ pump[c].rest = {}
    <3>1. CASE Leave(c)
      <4> DEFINE rest == {ch \in Channels : IsSubscribed(c, ch)}
      <4>1. pump' = [pump EXCEPT ![c] = [at |-> "leaving", ctx |-> None, rest |-> rest]]
        BY <3>1 DEF Leave, Pump
      <4>2. rest \subseteq Channels
        OBVIOUS
      <4> HIDE DEF rest
      <4>3. pump' \in [Clients -> Pumps] /\ pump'[c].at = "leaving" /\ pump'[c].rest = rest
        BY <1>0, <4>1, <4>2 DEF Pumps
      <4> QED
        BY <1>0, <4>1, <4>3 DEF rest
    <3>2. CASE Left(c)
      BY <1>0, <3>2 DEF Left, Pumps
    <3> QED
      BY <1>6, <3>1, <3>2
  <2>3. (Pumped(c))'
    BY <1>0, <2>1, <2>2 DEF Pumped, Ending, IsSubscribed
  <2>4. \A d \in Clients : (Pumped(d))'
    BY <1>0, <2>1, <2>2, <2>3, OthersPumped
  <2> QED
    BY <1>0, <2>1, <2>2, <2>4 DEF Carried, tables, TypeOK
<1> QED
  BY <1>1, <1>2, <1>4, <1>5, <1>6 DEF Carried, Transport

\* A handler runs, and returns or panics.
Handling(c) == pump[c].at \in {"onSubscribe"} \cup Ending

LEMMA HandlerEnds ==
  ASSUME Typed, NEW c \in Clients, Handling(c), Return(c) \/ Panic(c)
  PROVE  /\ RealtimeTypeOK' /\ \A d \in Clients : (Pumped(d))'
         /\ \A d \in Clients \ {c} : pump'[d] = pump[d]
         /\ UNCHANGED <<clients, subscribers, subscribed, superseded>>
         /\ Return(c) => pump'[c].at \in {"leaving", "reading"}
         /\ Panic(c) => pump'[c].at = "panicked" /\ pump'[c].ctx = pump[c].ctx
<1>0. RealtimeTypeOK /\ Pumped(c) /\ pump \in [Clients -> Pumps]
  BY DEF Typed, TypeOK, RealtimeTypeOK
<1>1. UNCHANGED <<clients, subscribers, subscribed, superseded>>
  BY DEF Return, Panic
<1>2. /\ pump' \in [Clients -> Pumps] /\ \A d \in Clients \ {c} : pump'[d] = pump[d]
      /\ pump'[c].rest = pump[c].rest
      /\ Return(c) => pump'[c].at = IF pump[c].at = "onLeave" THEN "leaving" ELSE "reading"
      /\ Panic(c) => pump'[c].at = "panicked" /\ pump'[c].ctx = pump[c].ctx
  <2>1. CASE Return(c)
    BY <1>0, <2>1 DEF Return, Pump, Pumps, Panic
  <2>2. CASE Panic(c)
    BY <1>0, <2>2 DEF Panic, Pump, Pumps, Return
  <2> QED
    BY <2>1, <2>2
<1>3. (Pumped(c))'
  BY <1>0, <1>1, <1>2 DEF Pumped, Ending, IsSubscribed
<1>4. \A d \in Clients : (Pumped(d))'
  BY <1>0, <1>1, <1>2, <1>3, OthersPumped DEF Typed
<1>5. RealtimeTypeOK'
  BY <1>0, <1>1, <1>2 DEF RealtimeTypeOK
<1> QED
  BY <1>1, <1>2, <1>4, <1>5

LEMMA Handlers ==
  ASSUME Typed, NEW c \in Clients, Handler(c)
  PROVE  Handling(c) /\ (Return(c) \/ Panic(c)) /\ pump[c].ctx \in Contexts /\ pump[c].ctx.client = c
<1>1. Handling(c) /\ (Return(c) \/ Panic(c))
  BY DEF Handler, Handling, Ending, LiveUpdateOnSubscribe, LiveUpdateOnUnsubscribe, RunnerPageOnSubscribe,
         RunnerPageOnUnsubscribe, ChatOnSubscribe, ChatOnUnsubscribe, OnSubscribe, OnUnsubscribe
<1> QED
  BY <1>1 DEF Typed, Pumped, Handling

LEMMA HandlerTyped == ASSUME Typed, NEW c \in Clients, Handler(c) PROVE Typed'
<1>0. /\ pump[c].ctx \in Contexts /\ User(c) \in Users
      /\ RealtimeTypeOK' /\ \A d \in Clients : (Pumped(d))'
  BY Handlers, HandlerEnds, UsersTyped DEF User
<1> USE <1>0 DEF Typed, Passed, TypeOK
<1>1. CASE LiveUpdateOnSubscribe(c)
  BY <1>1, UsersTyped DEF LiveUpdateOnSubscribe, OnSubscribe
<1>2. CASE LiveUpdateOnUnsubscribe(c)
  BY <1>2 DEF LiveUpdateOnUnsubscribe
<1>3. CASE RunnerPageOnSubscribe(c)
  BY <1>3 DEF RunnerPageOnSubscribe, OnSubscribe
<1>4. CASE RunnerPageOnUnsubscribe(c)
  BY <1>4 DEF RunnerPageOnUnsubscribe
<1>5. CASE ChatOnSubscribe(c)
  BY <1>5 DEF ChatOnSubscribe, OnSubscribe
<1>6. CASE ChatOnUnsubscribe(c)
  BY <1>6 DEF ChatOnUnsubscribe, tables
<1> QED
  BY <1>1, <1>2, <1>3, <1>4, <1>5, <1>6 DEF Handler

LEMMA PassTyped ==
  ASSUME Typed, StartPass \/ LookAt \/ EndPass \/ UNCHANGED vars
  PROVE  Typed'
<1>1. UNCHANGED rtVars
  BY DEF StartPass, LookAt, EndPass, vars
<1>2. RealtimeTypeOK' /\ \A d \in Clients : (Pumped(d))'
  BY <1>1 DEF rtVars, Typed, TypeOK, RealtimeTypeOK, Pumped, IsSubscribed
<1> USE <1>2 DEF Typed, Passed, TypeOK
<1>3. CASE StartPass
  BY <1>3 DEF StartPass, tables
<1>4. CASE LookAt
  <2>1. PICK x \in cleanup.unseen :
          cleanup' = [cleanup EXCEPT !.unseen = @ \ {x},
                        !.kept = IF IsSubscribed(x.client, "chat") THEN @ \cup {x} ELSE @]
    BY <1>4 DEF LookAt
  <2>2. cleanup' \in [running : BOOLEAN, unseen : SUBSET Contexts, kept : SUBSET Contexts]
        /\ cleanup'.unseen \cap cleanup'.kept = {}
        /\ cleanup'.unseen \cup cleanup'.kept \subseteq cleanup.unseen \cup cleanup.kept
    <3> DEFINE kept == IF IsSubscribed(x.client, "chat") THEN cleanup.kept \cup {x} ELSE cleanup.kept
    <3>1. kept \subseteq cleanup.kept \cup {x} /\ x \in Contexts
      OBVIOUS
    <3>2. cleanup' = [cleanup EXCEPT !.unseen = cleanup.unseen \ {x}, !.kept = kept]
      BY <2>1
    <3> HIDE DEF kept
    <3>3. /\ cleanup \in [running : BOOLEAN, unseen : SUBSET Contexts, kept : SUBSET Contexts]
          /\ cleanup.unseen \cap cleanup.kept = {}
      OBVIOUS
    <3>4. cleanup'.unseen = cleanup.unseen \ {x} /\ cleanup'.kept = kept
      BY <3>2, <3>3
    <3>5. kept \subseteq Contexts /\ cleanup.unseen \ {x} \subseteq Contexts
      BY <3>1, <3>3
    <3>6. cleanup' \in [running : BOOLEAN, unseen : SUBSET Contexts, kept : SUBSET Contexts]
      BY <3>2, <3>3, <3>5
    <3> QED
      BY <3>1, <3>3, <3>4, <3>6
  <2> QED
    BY <1>4, <2>2 DEF LookAt, tables
<1>5. CASE EndPass
  BY <1>5 DEF EndPass, NoPass
<1>6. CASE UNCHANGED vars
  BY <1>6 DEF vars, tables
<1> QED
  BY <1>3, <1>4, <1>5, <1>6

LEMMA TypeStep == Typed /\ [Next]_vars => Typed'
BY TransportTyped, HandlerTyped, PassTyped DEF Next

\* The clients, their contexts and the tables stay within their types: the entry of
\* a table holds contexts of the channels it is kept for.
THEOREM TypeCorrect == Spec => []TypeOK
<1>1. Typed => TypeOK
  BY DEF Typed
<1> QED
  BY <1>1, TypeInit, TypeStep, PTL DEF Spec

-----------------------------------------------------------------------------
(* What the tables hold.                                                   *)

\* Where an unsubscription of a context may still come from, or that none will.
Traced(x) ==
    \/ x \in superseded
    \/ subscribers[x.channel][x.client] = x
    \/ pump[x.client].at \in Ending /\ pump[x.client].ctx = x
    \/ pump[x.client].at = "panicked"

Owned(u, x) == UserOf[x.client] = u /\ Traced(x)

TableInv == \A u \in Users :
    /\ \A x \in liveUpdate[u] : Owned(u, x)
    /\ \A x \in runnerPage[u] : x.channel = "runner" => Owned(u, x)

\* A subscription whose handler has not run yet.
Pending(c, ch) == pump[c].at = "onSubscribe" /\ pump[c].ctx.channel = ch

Listed(c) ==
    /\ IsSubscribed(c, "live") /\ ~Pending(c, "live") => subscribers["live"][c] \in liveUpdate[User(c)]
    /\ pump[c].at \in Ending /\ pump[c].ctx.channel = "live" => pump[c].ctx \in liveUpdate[User(c)]
    /\ pump[c].at = "panicked" => pump[c].ctx.channel = "runner"

ListInv == faults = 0 => \A c \in Clients : Listed(c)

Viewing(c) ==
    IsSubscribed(c, "chat") /\ ~Pending(c, "chat") =>
        LET x == subscribers["chat"][c] IN
        \/ x \in overtaken
        \/ x \in viewers /\ (cleanup.running => x \in cleanup.unseen \cup cleanup.kept)

ViewInv == \A c \in Clients : Viewing(c)

SInv == TableInv /\ ListInv /\ ViewInv

LEMMA NoneNoContext == None \notin Contexts
<1> SUFFICES ASSUME None \in Contexts PROVE FALSE
  OBVIOUS
<1>1. PICK c \in Clients : None \in [client : {c}, channel : Channels, serial : 1 .. MaxSubscriptions[c]]
  BY DEF Contexts
<1>2. DOMAIN None = {"client", "channel", "serial"}
  BY <1>1
<1>3. DOMAIN None = {"none"}
  BY DEF None
<1> QED
  BY <1>2, <1>3

\* What a step of the transport does with the contexts of its client.
LEMMA Moved ==
  ASSUME Typed, NEW c \in Clients, Transport(c)
  PROVE  /\ \A d \in Clients \ {c} : /\ pump'[d] = pump[d]
                                     /\ \A ch \in Channels : subscribers'[ch][d] = subscribers[ch][d]
         /\ superseded \subseteq superseded'
         /\ pump[c].at \notin {"panicked", "onSubscribe"} \cup Ending /\ pump'[c].at # "panicked"
         /\ \A ch \in Channels : subscribers[ch][c] # None =>
               \/ subscribers'[ch][c] = subscribers[ch][c]
               \/ subscribers[ch][c] \in superseded'
               \/ pump'[c].at \in Ending /\ pump'[c].ctx = subscribers[ch][c]
         /\ \A ch \in Channels : subscribers'[ch][c] # None =>
               subscribers'[ch][c] = subscribers[ch][c] \/ (Pending(c, ch))'
         /\ pump'[c].at \in Ending =>
               \E ch \in Channels : subscribers[ch][c] # None /\ pump'[c].ctx = subscribers[ch][c]
<1>0. /\ subscribers \in [Channels -> [Clients -> Contexts \cup {None}]]
      /\ pump \in [Clients -> Pumps] /\ Pumped(c)
  BY DEF Typed, TypeOK, RealtimeTypeOK
<1>1. CASE Join(c) \/ Leave(c) \/ Left(c)
  <2>1. /\ UNCHANGED <<subscribers, superseded>>
        /\ \A d \in Clients \ {c} : pump'[d] = pump[d]
        /\ pump[c].at \in {"new", "reading", "leaving"}
        /\ pump'[c].at \in {"reading", "leaving", "left"}
    BY <1>0, <1>1 DEF Join, Leave, Left, Pump, Pumps
  <2> QED
    BY <2>1 DEF Ending
<1>2. ASSUME NEW ch \in Channels, Subscribe(c, ch)
      PROVE  /\ \A d \in Clients \ {c} : pump'[d] = pump[d]
             /\ \A d \in Clients \ {c} : \A e \in Channels : subscribers'[e][d] = subscribers[e][d]
             /\ \A e \in Channels \ {ch} : subscribers'[e][c] = subscribers[e][c]
             /\ superseded \subseteq superseded'
             /\ subscribers[ch][c] # None => subscribers[ch][c] \in superseded'
             /\ pump[c].at = "reading"
             /\ pump'[c].at = "onSubscribe" /\ pump'[c].ctx.channel = ch
  <2> DEFINE ctx == [client |-> c, channel |-> ch, serial |-> subscribed[c] + 1]
  <2>1. ctx.channel = ch
    OBVIOUS
  <2>2. /\ subscribers' = [subscribers EXCEPT ![ch][c] = ctx]
        /\ superseded' = superseded \cup ({subscribers[ch][c]} \ {None})
        /\ pump' = [pump EXCEPT ![c] = [at |-> "onSubscribe", ctx |-> ctx, rest |-> {}]]
        /\ pump[c].at = "reading"
    BY <1>2 DEF Subscribe, Pump
  <2> HIDE DEF ctx
  <2> QED
    BY <1>0, <2>1, <2>2
<1>3. ASSUME NEW ch \in Channels, Unsubscribe(c, ch) \/ UnsubscribeAllPaths(c, ch)
      PROVE  /\ \A d \in Clients \ {c} : pump'[d] = pump[d]
             /\ \A d \in Clients \ {c} : \A e \in Channels : subscribers'[e][d] = subscribers[e][d]
             /\ \A e \in Channels \ {ch} : subscribers'[e][c] = subscribers[e][c]
             /\ subscribers'[ch][c] = None /\ subscribers[ch][c] # None
             /\ superseded' = superseded
             /\ pump[c].at \in {"reading", "leaving"}
             /\ pump'[c].at \in Ending /\ pump'[c].ctx = subscribers[ch][c]
  <2>1. /\ subscribers' = [subscribers EXCEPT ![ch][c] = None] /\ superseded' = superseded
        /\ pump[c].at \in {"reading", "leaving"}
    BY <1>3 DEF Unsubscribe, UnsubscribeAllPaths
  <2>2. subscribers[ch][c] # None
    <3>1. CASE Unsubscribe(c, ch)
      BY <3>1 DEF Unsubscribe, IsSubscribed
    <3>2. CASE UnsubscribeAllPaths(c, ch)
      <4>1. ch \in {d \in Channels : IsSubscribed(c, d)}
        BY <1>0, <3>2 DEF UnsubscribeAllPaths, Pumped
      <4> QED
        BY <4>1 DEF IsSubscribed
    <3> QED
      BY <1>3, <3>1, <3>2
  <2>3. /\ pump'[c].at \in Ending /\ pump'[c].ctx = subscribers[ch][c]
        /\ \A d \in Clients \ {c} : pump'[d] = pump[d]
    BY <1>0, <1>3 DEF Unsubscribe, UnsubscribeAllPaths, Pump, Ending
  <2> QED
    BY <1>0, <2>1, <2>2, <2>3
<1>4. CASE \E ch \in Channels : Subscribe(c, ch)
  <2>1. PICK ch \in Channels : Subscribe(c, ch)
    BY <1>4
  <2> QED
    BY <1>2, <2>1 DEF Pending, Ending
<1>5. CASE \E ch \in Channels : Unsubscribe(c, ch) \/ UnsubscribeAllPaths(c, ch)
  <2>1. PICK ch \in Channels : Unsubscribe(c, ch) \/ UnsubscribeAllPaths(c, ch)
    BY <1>5
  <2> QED
    BY <1>3, <2>1 DEF Pending, Ending
<1> QED
  BY <1>1, <1>4, <1>5 DEF Transport

LEMMA TransportKeeps ==
  ASSUME Typed, SInv, NEW c \in Clients, Carried(c), Typed'
  PROVE  SInv'
<1>0. UNCHANGED <<liveUpdate, runnerPage, viewers, cleanup, overtaken, faults>> /\ Transport(c)
  BY DEF Carried, tables
<1>1. /\ \A d \in Clients \ {c} : /\ pump'[d] = pump[d]
                                  /\ \A ch \in Channels : subscribers'[ch][d] = subscribers[ch][d]
      /\ superseded \subseteq superseded'
      /\ pump[c].at \notin {"panicked", "onSubscribe"} \cup Ending /\ pump'[c].at # "panicked"
      /\ \A ch \in Channels : subscribers[ch][c] # None =>
            \/ subscribers'[ch][c] = subscribers[ch][c]
            \/ subscribers[ch][c] \in superseded'
            \/ pump'[c].at \in Ending /\ pump'[c].ctx = subscribers[ch][c]
      /\ \A ch \in Channels : subscribers'[ch][c] # None =>
            subscribers'[ch][c] = subscribers[ch][c] \/ (Pending(c, ch))'
      /\ pump'[c].at \in Ending =>
            \E ch \in Channels : subscribers[ch][c] # None /\ pump'[c].ctx = subscribers[ch][c]
  BY <1>0, Moved
<1>2. ASSUME NEW x \in Contexts, Traced(x) PROVE (Traced(x))'
  <2>1. x.client \in Clients /\ x.channel \in Channels /\ x # None
    BY ContextFields, NoneNoContext
  <2>2. CASE x.client # c
    BY <1>1, <1>2, <2>1, <2>2 DEF Traced
  <2>3. CASE x.client = c
    BY <1>1, <1>2, <2>1, <2>3 DEF Traced
  <2> QED
    BY <2>2, <2>3
<1>3. TableInv'
  BY <1>0, <1>2 DEF TableInv, Owned, SInv, Typed, TypeOK
<1>4. "live" \in Channels /\ "chat" \in Channels
  BY ChannelsHandled
<1>5. ASSUME NEW d \in Clients, Listed(d) PROVE (Listed(d))'
  <2>1. CASE d # c
    BY <1>0, <1>1, <1>4, <1>5, <2>1 DEF Listed, IsSubscribed, Pending
  <2>2. CASE d = c
    <3>1. (IsSubscribed(c, "live") /\ ~Pending(c, "live"))' => subscribers'["live"][c] \in liveUpdate'[User(c)]
      BY <1>0, <1>1, <1>4, <1>5, <2>2 DEF Listed, IsSubscribed, Pending
    <3>2. ASSUME pump'[c].at \in Ending, pump'[c].ctx.channel = "live"
          PROVE  pump'[c].ctx \in liveUpdate'[User(c)]
      <4>1. PICK ch \in Channels : subscribers[ch][c] # None /\ pump'[c].ctx = subscribers[ch][c]
        BY <1>1, <3>2
      <4>2. ch = "live"
        BY <3>2, <4>1 DEF Typed, Pumped
      <4> QED
        BY <1>0, <1>1, <1>5, <2>2, <4>1, <4>2 DEF Listed, IsSubscribed, Pending
    <3> QED
      BY <1>1, <2>2, <3>1, <3>2 DEF Listed
  <2> QED
    BY <2>1, <2>2
<1>6. ListInv'
  BY <1>0, <1>5 DEF ListInv, SInv
<1>7. ASSUME NEW d \in Clients, Viewing(d) PROVE (Viewing(d))'
  <2>1. CASE d # c
    BY <1>0, <1>1, <1>4, <1>7, <2>1 DEF Viewing, IsSubscribed, Pending
  <2>2. CASE d = c
    BY <1>0, <1>1, <1>4, <1>7, <2>2 DEF Viewing, IsSubscribed, Pending
  <2> QED
    BY <2>1, <2>2
<1>8. ViewInv'
  BY <1>7 DEF ViewInv, SInv
<1> QED
  BY <1>3, <1>6, <1>8 DEF SInv

\* What a handler that ends does with the contexts: nothing, but the context it was
\* called for is traced by it no more.
LEMMA TracedOn ==
  ASSUME Typed, NEW c \in Clients, Handler(c), NEW x \in Contexts, Traced(x),
         pump[c].at \in Ending => x # pump[c].ctx
  PROVE  (Traced(x))'
<1>1. /\ \A d \in Clients \ {c} : pump'[d] = pump[d]
      /\ UNCHANGED <<subscribers, superseded>>
      /\ pump[c].at # "panicked"
  BY Handlers, HandlerEnds DEF Handling, Ending
<1>2. x.client \in Clients
  BY ContextFields
<1> QED
  BY <1>1, <1>2 DEF Traced

LEMMA HandlerKeepsTables ==
  ASSUME Typed, SInv, NEW c \in Clients, Handler(c)
  PROVE  TableInv'
<1> DEFINE ctx == pump[c].ctx
<1>1. /\ ctx \in Contexts /\ ctx.client = c /\ User(c) \in Users
      /\ \A d \in Clients \ {c} : pump'[d] = pump[d]
      /\ UNCHANGED <<subscribers, superseded>>
      /\ liveUpdate \in [Users -> SUBSET {x \in Contexts : x.channel = "live"}]
      /\ runnerPage \in [Users -> SUBSET {x \in Contexts : x.channel \in {"live", "runner"}}]
  BY Handlers, HandlerEnds, UsersTyped DEF User, Typed, TypeOK
<1>2. pump[c].at = "onSubscribe" => subscribers'[ctx.channel][c] = ctx
  BY <1>1 DEF Typed, Pumped
<1>3. pump[c].at = "onSubscribe" => \A x \in Contexts : x = ctx => (Owned(User(c), x))'
  BY <1>1, <1>2 DEF Owned, Traced, User
<1>4. \A u \in Users : \A x \in liveUpdate[u] :
         x.channel = "live" /\ Owned(u, x) /\ ((pump[c].at \in Ending /\ x = ctx) \/ (Owned(u, x))')
  BY <1>1, TracedOn DEF Owned, SInv, TableInv
<1>5. \A u \in Users : \A x \in runnerPage[u] :
         x.channel = "runner" => Owned(u, x) /\ ((pump[c].at \in Ending /\ x = ctx) \/ (Owned(u, x))')
  BY <1>1, TracedOn DEF Owned, SInv, TableInv
<1>6. \A u \in Users, x \in Contexts : x = ctx /\ Owned(u, x) => u = User(c)
  BY <1>1 DEF Owned, User
<1>7. CASE LiveUpdateOnSubscribe(c)
  <2>1. /\ \A u \in Users : liveUpdate'[u] \subseteq liveUpdate[u] \cup IF u = User(c) THEN {ctx} ELSE {}
        /\ UNCHANGED runnerPage /\ pump[c].at = "onSubscribe"
    BY <1>1, <1>7 DEF LiveUpdateOnSubscribe, OnSubscribe
  <2>2. ASSUME NEW u \in Users, NEW x \in liveUpdate'[u] PROVE (Owned(u, x))'
    BY <1>1, <1>3, <1>4, <2>1, <2>2 DEF Ending
  <2>3. \A u \in Users : \A x \in runnerPage'[u] : x.channel = "runner" => (Owned(u, x))'
    BY <1>5, <2>1 DEF Ending
  <2> QED
    BY <2>2, <2>3 DEF TableInv
<1>8. CASE LiveUpdateOnUnsubscribe(c)
  <2>1. /\ \A u \in Users : liveUpdate'[u] = liveUpdate[u] \ IF u = User(c) THEN {ctx} ELSE {}
        /\ UNCHANGED runnerPage /\ ctx.channel = "live"
    BY <1>1, <1>8 DEF LiveUpdateOnUnsubscribe, OnUnsubscribe
  <2>2. \A u \in Users : \A x \in liveUpdate'[u] : (Owned(u, x))'
    BY <1>1, <1>4, <1>6, <2>1
  <2>3. \A u \in Users : \A x \in runnerPage'[u] : x.channel = "runner" => (Owned(u, x))'
    BY <1>5, <2>1
  <2> QED
    BY <2>2, <2>3 DEF TableInv
<1>9. CASE RunnerPageOnSubscribe(c)
  <2>1. /\ \A u \in Users : runnerPage'[u] = runnerPage[u]
              \/ (u = User(c) /\ runnerPage'[u] = liveUpdate[u] \cup {ctx})
        /\ UNCHANGED liveUpdate /\ pump[c].at = "onSubscribe"
    BY <1>1, <1>9 DEF RunnerPageOnSubscribe, OnSubscribe
  <2>2. ASSUME NEW u \in Users, NEW x \in runnerPage'[u], x.channel = "runner" PROVE (Owned(u, x))'
    BY <1>1, <1>3, <1>4, <1>5, <2>1, <2>2 DEF Ending
  <2>3. \A u \in Users : \A x \in liveUpdate'[u] : (Owned(u, x))'
    BY <1>4, <2>1 DEF Ending
  <2> QED
    BY <2>2, <2>3 DEF TableInv
<1>10. CASE RunnerPageOnUnsubscribe(c)
  <2>1. /\ \A u \in Users : runnerPage'[u] = runnerPage[u] \ IF u = User(c) THEN {ctx} ELSE {}
        /\ UNCHANGED liveUpdate /\ ctx.channel = "runner"
    BY <1>1, <1>10 DEF RunnerPageOnUnsubscribe, OnUnsubscribe
  <2>2. \A u \in Users : \A x \in runnerPage'[u] : x.channel = "runner" => (Owned(u, x))'
    BY <1>1, <1>5, <1>6, <2>1
  <2>3. \A u \in Users : \A x \in liveUpdate'[u] : (Owned(u, x))'
    BY <1>4, <2>1
  <2> QED
    BY <2>2, <2>3 DEF TableInv
<1>11. CASE ChatOnSubscribe(c) \/ ChatOnUnsubscribe(c)
  <2>1. UNCHANGED <<liveUpdate, runnerPage>> /\ ctx.channel = "chat"
    BY <1>11 DEF ChatOnSubscribe, ChatOnUnsubscribe, OnSubscribe, OnUnsubscribe, tables
  <2> QED
    BY <1>4, <1>5, <2>1 DEF TableInv
<1> QED
  BY <1>7, <1>8, <1>9, <1>10, <1>11 DEF Handler

LEMMA HandlerKeepsLists ==
  ASSUME Typed, SInv, NEW c \in Clients, Handler(c)
  PROVE  ListInv'
<1> DEFINE ctx == pump[c].ctx
<1>1. /\ ctx \in Contexts /\ ctx.client = c /\ User(c) \in Users
      /\ pump[c].at \in {"onSubscribe"} \cup Ending /\ (Return(c) \/ Panic(c))
      /\ \A d \in Clients \ {c} : pump'[d] = pump[d]
      /\ UNCHANGED subscribers
      /\ Return(c) => pump'[c].at \in {"leaving", "reading"}
      /\ Panic(c) => pump'[c].at = "panicked" /\ pump'[c].ctx = ctx
      /\ liveUpdate \in [Users -> SUBSET {x \in Contexts : x.channel = "live"}]
      /\ faults \in Nat
  BY Handlers, HandlerEnds, UsersTyped DEF User, Handling, Typed, TypeOK
<1>2. SUFFICES ASSUME faults' = 0 PROVE \A d \in Clients : (Listed(d))'
  BY DEF ListInv
<1>3. faults = 0
  <2>1. faults' = faults \/ faults' = faults + 1
    BY DEF Handler, LiveUpdateOnSubscribe, LiveUpdateOnUnsubscribe, RunnerPageOnSubscribe,
           RunnerPageOnUnsubscribe, ChatOnSubscribe, ChatOnUnsubscribe
  <2> QED
    BY <1>1, <1>2, <2>1
<1>4. \A d \in Clients : Listed(d)
  BY <1>3 DEF SInv, ListInv
<1>5. \A u \in Users : liveUpdate[u] \ {ctx} \subseteq liveUpdate'[u]
  BY <1>1 DEF Handler, LiveUpdateOnSubscribe, LiveUpdateOnUnsubscribe, RunnerPageOnSubscribe,
         RunnerPageOnUnsubscribe, ChatOnSubscribe, ChatOnUnsubscribe, tables
<1>6. "live" \in Channels
  BY ChannelsHandled
<1>7. ASSUME NEW d \in Clients \ {c} PROVE (Listed(d))'
  <2>1. Listed(d) /\ Pumped(d) /\ User(d) \in Users
    BY <1>4, UsersTyped DEF Typed, User
  <2>2. subscribers["live"][d] # None => subscribers["live"][d] # ctx
    BY <1>1, <1>6, <2>1 DEF Pumped
  <2>3. pump[d].at \in Ending => pump[d].ctx # ctx
    BY <1>1, <2>1 DEF Pumped
  <2> QED
    BY <1>1, <1>5, <2>1, <2>2, <2>3 DEF Listed, IsSubscribed, Pending, User
<1>8. (Listed(c))'
  <2>1. Listed(c) /\ Pumped(c)
    BY <1>4 DEF Typed
  <2>2. subscribers["live"][c] # None => subscribers["live"][c] \in liveUpdate'[User(c)]
    <3>1. CASE pump[c].at = "onSubscribe" /\ ctx.channel = "live"
      <4>1. LiveUpdateOnSubscribe(c)
        BY <3>1 DEF Handler, LiveUpdateOnUnsubscribe, RunnerPageOnSubscribe, RunnerPageOnUnsubscribe,
                    ChatOnSubscribe, ChatOnUnsubscribe, OnSubscribe, OnUnsubscribe
      <4>2. liveUpdate' = [liveUpdate EXCEPT ![User(c)] = @ \cup {ctx}]
        BY <1>1, <1>2, <1>3, <4>1 DEF LiveUpdateOnSubscribe
      <4> QED
        BY <1>1, <2>1, <3>1, <4>2 DEF Pumped
    <3>2. CASE pump[c].at \in Ending
      <4>1. subscribers["live"][c] # None => subscribers["live"][c] # ctx
        BY <1>6, <2>1, <3>2 DEF Pumped
      <4>2. ~Pending(c, "live")
        BY <3>2 DEF Pending, Ending
      <4> QED
        BY <1>1, <1>5, <2>1, <4>1, <4>2 DEF Listed, IsSubscribed
    <3>3. CASE pump[c].at = "onSubscribe" /\ ctx.channel # "live"
      <4>1. subscribers["live"][c] # None => subscribers["live"][c] # ctx
        BY <1>6, <2>1, <3>3 DEF Pumped
      <4>2. ~Pending(c, "live")
        BY <3>3 DEF Pending
      <4> QED
        BY <1>1, <1>5, <2>1, <4>1, <4>2 DEF Listed, IsSubscribed
    <3> QED
      BY <1>1, <3>1, <3>2, <3>3
  <2>3. ASSUME Panic(c) PROVE ctx.channel = "runner"
    <3>1. pump'[c].at = "panicked"
      BY <1>1, <2>3
    <3>2. ~Return(c)
      BY <1>1, <3>1
    <3>3. CASE LiveUpdateOnUnsubscribe(c)
      <4>1. liveUpdate[User(c)] = {} /\ pump[c].at \in Ending /\ ctx.channel = "live"
        BY <3>2, <3>3 DEF LiveUpdateOnUnsubscribe, OnUnsubscribe, Ending
      <4> QED
        BY <2>1, <4>1 DEF Listed
    <3>4. CASE RunnerPageOnUnsubscribe(c)
      BY <3>4 DEF RunnerPageOnUnsubscribe, OnUnsubscribe
    <3> QED
      BY <3>2, <3>3, <3>4 DEF Handler, LiveUpdateOnSubscribe, RunnerPageOnSubscribe,
                              ChatOnSubscribe, ChatOnUnsubscribe
  <2> QED
    BY <1>1, <2>2, <2>3 DEF Listed, IsSubscribed, Ending
<1> QED
  BY <1>7, <1>8

LEMMA HandlerKeepsViews ==
  ASSUME Typed, SInv, NEW c \in Clients, Handler(c)
  PROVE  ViewInv'
<1> DEFINE ctx == pump[c].ctx
<1>1. /\ pump[c].at \in {"onSubscribe"} \cup Ending
      /\ \A d \in Clients \ {c} : pump'[d] = pump[d]
      /\ UNCHANGED subscribers
      /\ Pumped(c)
  BY Handlers, HandlerEnds DEF Handling, Typed
<1>2. /\ viewers \subseteq viewers' /\ overtaken \subseteq overtaken' /\ UNCHANGED cleanup
      /\ pump[c].at = "onSubscribe" /\ ctx.channel = "chat" =>
            ctx \in viewers' /\ (cleanup.running => ctx \in overtaken')
  BY DEF Handler, LiveUpdateOnSubscribe, LiveUpdateOnUnsubscribe, RunnerPageOnSubscribe,
         RunnerPageOnUnsubscribe, ChatOnSubscribe, ChatOnUnsubscribe, OnSubscribe, OnUnsubscribe, tables
<1>3. ASSUME NEW d \in Clients, d # c \/ ~Pending(c, "chat") PROVE (Viewing(d))'
  BY <1>1, <1>2, <1>3 DEF SInv, ViewInv, Viewing, IsSubscribed, Pending
<1>4. CASE Pending(c, "chat")
  <2>1. subscribers'["chat"][c] = ctx
    BY <1>1, <1>4 DEF Pumped, Pending
  <2> QED
    BY <1>2, <1>3, <1>4, <2>1 DEF ViewInv, Viewing, Pending
<1> QED
  BY <1>3, <1>4 DEF ViewInv

LEMMA PassKeeps ==
  ASSUME Typed, SInv, StartPass \/ LookAt \/ EndPass \/ UNCHANGED vars
  PROVE  SInv'
<1>1. UNCHANGED <<subscribers, pump, superseded, liveUpdate, runnerPage, overtaken, faults>>
  BY DEF StartPass, LookAt, EndPass, vars, rtVars, tables
<1>2. TableInv' /\ ListInv'
  BY <1>1 DEF SInv, TableInv, Owned, Traced, ListInv, Listed, IsSubscribed, Pending
<1>3. ASSUME NEW c \in Clients PROVE (Viewing(c))'
  <2> DEFINE x == subscribers["chat"][c]
  <2>1. SUFFICES ASSUME x # None, ~Pending(c, "chat"), x \notin overtaken
                 PROVE  x \in viewers' /\ (cleanup'.running => x \in cleanup'.unseen \cup cleanup'.kept)
    BY <1>1 DEF Viewing, IsSubscribed, Pending
  <2>2. x \in viewers /\ (cleanup.running => x \in cleanup.unseen \cup cleanup.kept)
    BY <2>1 DEF SInv, ViewInv, Viewing, IsSubscribed
  <2>3. x.client = c
    BY <2>1, ChannelsHandled DEF Typed, Pumped
  <2>4. CASE StartPass
    BY <2>2, <2>4 DEF StartPass, tables
  <2>5. CASE LookAt
    <3>1. PICK y \in cleanup.unseen :
            cleanup' = [cleanup EXCEPT !.unseen = @ \ {y},
                          !.kept = IF IsSubscribed(y.client, "chat") THEN @ \cup {y} ELSE @]
      BY <2>5 DEF LookAt
    <3>2. /\ cleanup'.running = cleanup.running /\ cleanup'.unseen = cleanup.unseen \ {y}
          /\ cleanup'.kept = IF IsSubscribed(y.client, "chat") THEN cleanup.kept \cup {y} ELSE cleanup.kept
      BY <3>1 DEF Typed, TypeOK
    <3>3. y = x => IsSubscribed(y.client, "chat")
      BY <2>1, <2>3 DEF IsSubscribed
    <3> QED
      BY <2>2, <2>5, <3>2, <3>3 DEF LookAt, tables
  <2>6. CASE EndPass
    BY <2>2, <2>6 DEF EndPass, NoPass
  <2>7. CASE UNCHANGED vars
    BY <2>2, <2>7 DEF vars, tables
  <2> QED
    BY <2>4, <2>5, <2>6, <2>7
<1> QED
  BY <1>2, <1>3 DEF SInv, ViewInv

LEMMA SInit == Init => SInv
<1> SUFFICES ASSUME Init PROVE SInv
  OBVIOUS
<1>1. /\ \A c \in Clients : pump[c].at = "new" /\ \A ch \in Channels : ~IsSubscribed(c, ch)
      /\ \A u \in Users : liveUpdate[u] = {} /\ runnerPage[u] = {}
  BY DEF Init, RealtimeInit, Pump, IsSubscribed
<1> QED
  BY <1>1, ChannelsHandled DEF SInv, TableInv, ListInv, Listed, ViewInv, Viewing, Ending

LEMMA SStep == Typed /\ SInv /\ [Next]_vars => SInv'
BY TypeStep, TransportKeeps, HandlerKeepsTables, HandlerKeepsLists, HandlerKeepsViews, PassKeeps
   DEF Next, SInv

-----------------------------------------------------------------------------
\* A client whose subscription to the chat has returned is a viewer, but for one
\* that came while a pass ran: what a pass has begun with and the client is still
\* subscribed to, it keeps.
THEOREM ViewersCorrect == Spec => []ViewerCounted
<1>1. Typed /\ SInv => ViewerCounted
  BY DEF SInv, ViewInv, Viewing, ViewerCounted, Current, Reading, Pending
<1> QED
  BY <1>1, TypeInit, TypeStep, SInit, SStep, PTL DEF Spec

\* While the courses could be read, who listens to live updates is in the table, and
\* no handler of live updates panics: a tab takes only its own context out of it.
THEOREM ListenersCorrect == Spec => []LiveKept
<1>1. Typed /\ SInv => LiveKept
  BY DEF SInv, ListInv, Listed, LiveKept, LiveListed, LiveNeverPanics, Current, Reading, Pending
<1> QED
  BY <1>1, TypeInit, TypeStep, SInit, SStep, PTL DEF Spec

\* Who has left is in no table of listeners, but for contexts that were superseded: a
\* client leaves when it has unsubscribed from all channels.
THEOREM LeftCorrect == Spec => []LeftForgotten
<1>1. Typed /\ SInv => LeftForgotten
  <2> SUFFICES ASSUME Typed, SInv, NEW u \in Users, NEW x, pump[x.client].at = "left",
                      x \in liveUpdate[u] \/ (x \in runnerPage[u] /\ x.channel = "runner")
               PROVE  x \in superseded
    BY DEF LeftForgotten
  <2>1. x \in Contexts /\ Traced(x)
    BY DEF SInv, TableInv, Owned, Typed, TypeOK
  <2>2. x.client \in Clients /\ x.channel \in Channels /\ x # None
    BY <2>1, ContextFields, NoneNoContext
  <2>3. subscribers[x.channel][x.client] = None
    BY <2>2 DEF Typed, Pumped, IsSubscribed
  <2> QED
    BY <2>1, <2>2, <2>3 DEF Traced, Ending
<1> QED
  BY <1>1, TypeInit, TypeStep, SInit, SStep, PTL DEF Spec
=============================================================================
