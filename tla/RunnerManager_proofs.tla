------------------------ MODULE RunnerManager_proofs ------------------------
(***************************************************************************)
(* Proofs about what pkg/runner_manager keeps in gocast: the streams row   *)
(* (StreamRow), the lights and the camera of a hall (LectureHall) and the  *)
(* table of runners (RunnerRegistry). The three share no variable; each    *)
(* has a specification, and holds for any values of its constants.         *)
(***************************************************************************)
EXTENDS StreamRow, LectureHall, RunnerRegistry, FiniteSetTheorems, TLAPS

-----------------------------------------------------------------------------
(* StreamRow: the types, that no start loses its URL, and that a lecture     *)
(* whose notifications are handled one after the other ends as a recording   *)
(* with a VoD of each version.                                               *)

\* streamStartLock is held by one handler at most, whose start is being saved.
Typed == TypeOK /\ (lock = {} \/ \E n \in Notifications : lock = {n})

LEMMA UpdatesTyped ==
  ASSUME row \in Streams, NEW s \in Streams
  PROVE  UpdatesOf(s) \in Streams
BY DEF UpdatesOf, Streams, Urls

LEMMA TypeInit == Init => Typed
<1> SUFFICES ASSUME Init PROVE Typed
  OBVIOUS
<1>1. NewStream \in Streams
  BY DEF NewStream, Streams, Urls
<1>2. Cardinality({}) <= 1
  BY FS_EmptySet
<1> QED
  BY <1>1, <1>2, BoundsNat DEF Init, Typed, TypeOK, PC

LEMMA HandleTyped == ASSUME Typed, NEW n \in Notifications, Handle(n) PROVE Typed'
<1> USE DEF Typed, TypeOK, Goto, PC
<1>1. NewStream \in Streams
  BY DEF NewStream, Streams, Urls
<1>2. CASE Arrive(n)
  <2>1. calm' \in BOOLEAN
    BY <1>2 DEF Arrive, Quiet, InOrder
  <2>2. pc' \in [Notifications -> PC]
    BY <1>2 DEF Arrive
  <2> QED
    BY <1>2, <2>1, <2>2 DEF Arrive
<1>8. CASE ReadCached(n) \/ ReadRow(n) \/ FillCache(n)
  BY <1>8 DEF ReadCached, ReadRow, FillCache
<1>3. CASE LockStart(n)
  <2>1. Cardinality({n}) = 1
    BY FS_Singleton
  <2> QED
    BY <1>3, <2>1 DEF LockStart
<1>4. CASE SaveStart(n)
  <2>1. row' \in Streams
    BY <1>4 DEF SaveStart, Streams, Urls
  <2> QED
    BY <1>4, <2>1 DEF SaveStart
<1>5. CASE SaveEnd(n)
  <2>1. row' \in Streams
    BY <1>5 DEF SaveEnd, Streams
  <2> QED
    BY <1>5, <2>1 DEF SaveEnd
<1>6. CASE SaveVod(n)
  <2>1. [fetched[n] EXCEPT !.url[n.version] = "vod", !.recording = TRUE] \in Streams
    BY DEF Streams, Urls
  <2>2. row' \in Streams
    BY <1>6, <2>1, UpdatesTyped DEF SaveVod
  <2> QED
    BY <1>6, <2>2 DEF SaveVod
<1>7. CASE Finish(n)
  <2>1. lock' = {} \/ lock' = lock
    BY <1>7 DEF Finish
  <2>2. Cardinality({}) <= 1
    BY FS_EmptySet
  <2> QED
    BY <1>1, <1>7, <2>1, <2>2 DEF Finish
<1> QED
  BY <1>2, <1>3, <1>4, <1>5, <1>6, <1>7, <1>8 DEF Handle

LEMMA TypeStep == Typed /\ [Next]_vars => Typed'
<1> SUFFICES ASSUME Typed, [Next]_vars PROVE Typed'
  OBVIOUS
<1>1. CASE \E v \in Versions : Emit(v)
  BY <1>1 DEF Emit, Typed, TypeOK
<1>2. ASSUME NEW n \in Notifications, Redeliver(n) PROVE Typed'
  BY <1>2, BoundsNat DEF Redeliver, Goto, Typed, TypeOK, PC
<1>3. CASE VisitorReads \/ VisitorFills \/ Expire
  BY <1>3 DEF VisitorReads, VisitorFills, Expire, Typed, TypeOK
<1>4. CASE UNCHANGED vars
  BY <1>4 DEF vars, Typed, TypeOK
<1> QED
  BY <1>1, <1>2, <1>3, <1>4, HandleTyped DEF Next

\* The row, its cache and the handlers stay within their types; streamStartLock is
\* held once.
THEOREM RowTypeCorrect == Spec => []TypeOK
<1>1. Typed => TypeOK
  BY DEF Typed
<1> QED
  BY <1>1, TypeInit, TypeStep, PTL DEF Spec

-----------------------------------------------------------------------------
\* A version whose start was saved has a URL, however the handlers overlap: what
\* handleVODReady read before is merged into the row, and clears nothing.
THEOREM UrlKept == Spec => []StartKeepsUrl
<1>1. Init => StartKeepsUrl
  BY DEF Init, StartKeepsUrl, Notifications, Kinds
<1>2. TypeOK /\ StartKeepsUrl /\ [Next]_vars => StartKeepsUrl'
  <2> SUFFICES ASSUME TypeOK, StartKeepsUrl, [Next]_vars, NEW v \in Versions,
                      pc'[[kind |-> "start", version |-> v]] \in {"saved", "done"}
               PROVE  row'.url[v] # "none"
    BY DEF StartKeepsUrl
  <2> DEFINE s == [kind |-> "start", version |-> v]
  <2>0. s \in Notifications
    BY DEF Notifications, Kinds
  <2>1. pc'[s] \in {"saved", "done"} /\ (pc[s] \in {"saved", "done"} => row.url[v] # "none")
    BY DEF StartKeepsUrl
  <2> HIDE DEF s
  <2>2. ASSUME NEW n \in Notifications, SaveStart(n) PROVE row'.url[v] # "none"
    <3>1. CASE n.version = v
      BY <2>2, <3>1 DEF SaveStart, TypeOK, Streams
    <3>2. CASE n.version # v
      <4>1. n # s
        BY <3>2 DEF s
      <4> QED
        BY <2>0, <2>1, <2>2, <3>2, <4>1 DEF SaveStart, Goto, TypeOK, Streams
    <3> QED
      BY <3>1, <3>2
  <2>3. ASSUME NEW n \in Notifications, SaveVod(n) PROVE row'.url[v] # "none"
    <3>1. n # s
      BY <2>3 DEF SaveVod, s
    <3>2. row.url[v] # "none"
      BY <2>0, <2>1, <2>3, <3>1 DEF SaveVod, Goto, TypeOK
    <3> QED
      BY <2>3, <3>2 DEF SaveVod, UpdatesOf, TypeOK, Streams
  <2>4. ASSUME NEW n \in Notifications, SaveEnd(n) PROVE row'.url[v] # "none"
    <3>1. n # s
      BY <2>4 DEF SaveEnd, s
    <3> QED
      BY <2>0, <2>1, <2>4, <3>1 DEF SaveEnd, Goto, TypeOK, Streams
  <2>5. ASSUME NEW n \in Notifications,
               \/ Arrive(n) \/ ReadCached(n) \/ ReadRow(n) \/ FillCache(n)
               \/ LockStart(n) \/ Finish(n) \/ Redeliver(n)
        PROVE  row'.url[v] # "none"
    BY <2>0, <2>1, <2>5 DEF Arrive, ReadCached, ReadRow, FillCache, LockStart, Finish, Redeliver,
                            Goto, TypeOK
  <2>6. CASE (\E w \in Versions : Emit(w)) \/ VisitorReads \/ VisitorFills \/ Expire \/ UNCHANGED vars
    BY <2>1, <2>6 DEF Emit, VisitorReads, VisitorFills, Expire, vars, s
  <2> QED
    BY <2>2, <2>3, <2>4, <2>5, <2>6 DEF Next, Handle
<1> QED
  BY <1>1, <1>2, RowTypeCorrect, PTL DEF Spec

-----------------------------------------------------------------------------
(* SettledAsVoD. While all is calm one handler or reader is active, what it *)
(* has read is the row, and so is the cache until the row is written.       *)

Sole ==
    /\ \A n, m \in Notifications : ~Idle(n) /\ ~Idle(m) => n = m
    /\ visitor # NoEntry => \A n \in Notifications : Idle(n)

Fresh ==
    /\ visitor # NoEntry => visitor = row
    /\ \A n \in Notifications :
          pc[n] = "filling" \/ (pc[n] = "fetched" /\ n.kind # "end") => fetched[n] = row
    /\ cache # NoEntry /\ (\A n \in Notifications : pc[n] # "saved") => cache = row

CalmInv == calm => Sole /\ Fresh

\* The handlers, by what they wait for.
KindInv == \A n \in Notifications : pc[n] = "locked" => n.kind = "start"

LEMMA CalmInit == Init => CalmInv /\ KindInv
BY DEF Init, CalmInv, KindInv, Sole, Fresh, Idle

LEMMA CalmHandle ==
  ASSUME TypeOK, CalmInv, KindInv, NEW n \in Notifications, Handle(n)
  PROVE  CalmInv' /\ KindInv'
<1> USE DEF TypeOK, CalmInv, KindInv, Sole, Fresh, Idle, Goto
<1>1. CASE Arrive(n)
  <2>1. calm' => calm /\ Quiet
    BY <1>1 DEF Arrive
  <2>2. /\ pc' \in [Notifications -> PC] /\ pc'[n] \in {"fetched", "reading"}
        /\ pc'[n] = "fetched" => n.kind = "end"
        /\ \A m \in Notifications \ {n} : pc'[m] = pc[m]
    BY <1>1 DEF Arrive, PC
  <2>3. UNCHANGED <<row, cache, fetched, visitor>>
    BY <1>1 DEF Arrive
  <2> QED
    BY <2>1, <2>2, <2>3 DEF Quiet
<1>2. CASE ReadCached(n)
  BY <1>2 DEF ReadCached
<1>3. CASE ReadRow(n)
  BY <1>3 DEF ReadRow
<1>4. CASE FillCache(n)
  BY <1>4 DEF FillCache
<1>5. CASE LockStart(n)
  BY <1>5 DEF LockStart
<1>6. CASE SaveStart(n)
  BY <1>6 DEF SaveStart
<1>7. CASE SaveEnd(n)
  BY <1>7 DEF SaveEnd
<1>8. CASE SaveVod(n)
  BY <1>8 DEF SaveVod
<1>9. CASE Finish(n)
  BY <1>9 DEF Finish
<1> QED
  BY <1>1, <1>2, <1>3, <1>4, <1>5, <1>6, <1>7, <1>8, <1>9 DEF Handle

LEMMA CalmStep == TypeOK /\ CalmInv /\ KindInv /\ [Next]_vars => CalmInv' /\ KindInv'
<1> SUFFICES ASSUME TypeOK, CalmInv, KindInv, [Next]_vars PROVE CalmInv' /\ KindInv'
  OBVIOUS
<1> USE DEF CalmInv, KindInv, Sole, Fresh, Idle
<1>1. CASE \E v \in Versions : Emit(v)
  BY <1>1 DEF Emit
<1>2. ASSUME NEW n \in Notifications, Redeliver(n) PROVE CalmInv' /\ KindInv'
  BY <1>2 DEF Redeliver, Goto, TypeOK
<1>3. CASE VisitorReads
  <2>1. calm' => calm /\ Quiet
    BY <1>3 DEF VisitorReads
  <2> QED
    BY <1>3, <2>1 DEF VisitorReads, Quiet
<1>4. CASE VisitorFills
  BY <1>4 DEF VisitorFills
<1>5. CASE Expire
  BY <1>5 DEF Expire
<1>6. CASE UNCHANGED vars
  BY <1>6 DEF vars
<1> QED
  BY <1>1, <1>2, <1>3, <1>4, <1>5, <1>6, CalmHandle DEF Next

\* What the notifications saved so far have made of the row, when each version's
\* were handled in order and once.
Saved(k, v) == pc[[kind |-> k, version |-> v]] \in {"saved", "done"}
Due(k, v)   == pc[[kind |-> k, version |-> v]] = "due"

Steady == calm /\ redelivered = 0

OrderInv == \A v \in Versions :
    /\ ~Due("end", v) => pc[[kind |-> "start", version |-> v]] = "done"
    /\ ~Due("vod", v) => pc[[kind |-> "start", version |-> v]] = "done"
                         /\ pc[[kind |-> "end", version |-> v]] = "done"

RowInv ==
    /\ (\A v \in Versions : Saved("start", v) => Saved("end", v)) => ~row.liveNow
    /\ (\A v \in Versions : Saved("start", v) => Saved("vod", v))
          /\ (\E v \in Versions : Saved("vod", v)) => row.recording
    /\ \A v \in Versions : Saved("vod", v) => row.url[v] = "vod"

SteadyInv == Steady => OrderInv /\ RowInv

LEMMA Kinded == \A n \in Notifications :
                   n.kind \in Kinds /\ n.version \in Versions
                   /\ n = [kind |-> n.kind, version |-> n.version]
BY DEF Notifications

LEMMA Noted == \A k \in Kinds, v \in Versions : [kind |-> k, version |-> v] \in Notifications
BY DEF Notifications

\* A handler that neither arrives nor saves leaves both as they are.
LEMMA SteadyFrame ==
  ASSUME TypeOK, SteadyInv, UNCHANGED row, Steady' => Steady,
         \A m \in Notifications : /\ pc'[m] = "due" <=> pc[m] = "due"
                                  /\ pc'[m] \in {"saved", "done"} <=> pc[m] \in {"saved", "done"}
                                  /\ pc[m] = "done" => pc'[m] = "done"
  PROVE  SteadyInv'
<1> SUFFICES ASSUME Steady, OrderInv, RowInv PROVE OrderInv' /\ RowInv'
  BY DEF SteadyInv
<1>1. \A k \in Kinds, v \in Versions :
         /\ (Due(k, v))' <=> Due(k, v)
         /\ (Saved(k, v))' <=> Saved(k, v)
         /\ pc[[kind |-> k, version |-> v]] = "done" => pc'[[kind |-> k, version |-> v]] = "done"
  BY Noted DEF Due, Saved
<1>2. {"start", "end", "vod"} \subseteq Kinds
  BY DEF Kinds
<1>3. OrderInv'
  BY <1>1, <1>2 DEF OrderInv
<1>4. RowInv'
  BY <1>1, <1>2 DEF RowInv
<1> QED
  BY <1>3, <1>4

LEMMA SteadyArrive == ASSUME TypeOK, SteadyInv, NEW n \in Notifications, Arrive(n) PROVE SteadyInv'
<1> SUFFICES ASSUME Steady' PROVE OrderInv' /\ RowInv'
  BY DEF SteadyInv
<1>1. Steady /\ OrderInv /\ RowInv /\ InOrder(n) /\ UNCHANGED row
  BY DEF Arrive, Steady, SteadyInv
<1>2. /\ pc[n] = "due" /\ pc'[n] \in {"fetched", "reading"}
      /\ \A m \in Notifications \ {n} : pc'[m] = pc[m]
  BY DEF Arrive, Goto, TypeOK
<1>3. \A k \in Kinds, v \in Versions : (Saved(k, v))' <=> Saved(k, v)
  BY <1>2, Noted DEF Saved
<1>4. RowInv'
  BY <1>1, <1>3 DEF RowInv, Kinds
<1>5. ASSUME NEW v \in Versions, ~(Due("end", v))'
      PROVE  pc'[[kind |-> "start", version |-> v]] = "done"
  <2> DEFINE s == [kind |-> "start", version |-> v]
             e == [kind |-> "end", version |-> v]
  <2>1. s \in Notifications /\ e \in Notifications /\ s # e
    BY DEF Notifications, Kinds
  <2>2. pc[s] = "done"
    <3>1. CASE n = e
      BY <1>1, <3>1 DEF InOrder, Kinds, Rank
    <3>2. CASE n # e
      BY <1>1, <1>2, <1>5, <2>1, <3>2 DEF OrderInv, Due
    <3> QED
      BY <3>1, <3>2
  <2> QED
    BY <1>2, <2>1, <2>2
<1>6. ASSUME NEW v \in Versions, ~(Due("vod", v))'
      PROVE  /\ pc'[[kind |-> "start", version |-> v]] = "done"
             /\ pc'[[kind |-> "end", version |-> v]] = "done"
  <2> DEFINE s == [kind |-> "start", version |-> v]
             e == [kind |-> "end", version |-> v]
             d == [kind |-> "vod", version |-> v]
  <2>1. s \in Notifications /\ e \in Notifications /\ d \in Notifications
    BY DEF Notifications, Kinds
  <2>2. pc[s] = "done" /\ pc[e] = "done"
    <3>1. CASE n = d
      BY <1>1, <3>1 DEF InOrder, Kinds, Rank
    <3>2. CASE n # d
      BY <1>1, <1>2, <1>6, <2>1, <3>2 DEF OrderInv, Due
    <3> QED
      BY <3>1, <3>2
  <2> QED
    BY <1>2, <2>1, <2>2
<1> QED
  BY <1>4, <1>5, <1>6 DEF OrderInv

\* A save of one version concerns neither the order nor the other versions.
LEMMA SteadySaves ==
  ASSUME TypeOK, SteadyInv, NEW n \in Notifications,
         SaveStart(n) \/ SaveEnd(n) \/ SaveVod(n), Steady'
  PROVE  /\ Steady /\ OrderInv /\ RowInv /\ OrderInv'
         /\ \A k \in Kinds, v \in Versions :
               (Saved(k, v))' <=> (Saved(k, v) \/ n = [kind |-> k, version |-> v])
         /\ ~Saved(n.kind, n.version)
         /\ n.kind = "start" => Due("end", n.version) /\ Due("vod", n.version)
         /\ n.kind = "end" => Due("vod", n.version)
<1>1. Steady /\ OrderInv /\ RowInv
  BY DEF SaveStart, SaveEnd, SaveVod, Steady, SteadyInv
<1>2. /\ pc[n] \in {"locked", "fetched"} /\ pc'[n] = "saved"
      /\ \A m \in Notifications \ {n} : pc'[m] = pc[m]
  BY DEF SaveStart, SaveEnd, SaveVod, Goto, TypeOK
<1>3. \A k \in Kinds, v \in Versions :
         /\ (Saved(k, v))' <=> (Saved(k, v) \/ n = [kind |-> k, version |-> v])
         /\ (Due(k, v))' <=> Due(k, v)
         /\ pc[[kind |-> k, version |-> v]] = "done" => pc'[[kind |-> k, version |-> v]] = "done"
  BY <1>2, Noted DEF Saved, Due
<1>4. OrderInv'
  BY <1>1, <1>3 DEF OrderInv, Kinds
<1>5. n.version \in Versions /\ pc[[kind |-> n.kind, version |-> n.version]] = pc[n]
  BY Kinded
<1>6. /\ ~Saved(n.kind, n.version)
      /\ n.kind = "start" => Due("end", n.version) /\ Due("vod", n.version)
      /\ n.kind = "end" => Due("vod", n.version)
  BY <1>1, <1>2, <1>5 DEF Saved, OrderInv
<1> QED
  BY <1>1, <1>3, <1>4, <1>6

LEMMA SteadySave ==
  ASSUME TypeOK, CalmInv, SteadyInv, NEW n \in Notifications,
         SaveStart(n) \/ SaveEnd(n) \/ SaveVod(n)
  PROVE  SteadyInv'
<1> SUFFICES ASSUME Steady' PROVE OrderInv' /\ RowInv'
  BY DEF SteadyInv
<1>1. /\ Steady /\ OrderInv /\ RowInv /\ OrderInv'
      /\ \A k \in Kinds, v \in Versions :
            (Saved(k, v))' <=> (Saved(k, v) \/ n = [kind |-> k, version |-> v])
      /\ ~Saved(n.kind, n.version)
      /\ n.kind = "start" => Due("end", n.version) /\ Due("vod", n.version)
      /\ n.kind = "end" => Due("vod", n.version)
  BY SteadySaves
<1>2. n.version \in Versions /\ n = [kind |-> n.kind, version |-> n.version]
  BY Kinded
<1>3. \A v \in Versions : /\ (Saved("start", v))' <=> Saved("start", v) \/ (n.kind = "start" /\ n.version = v)
                          /\ (Saved("end", v))' <=> Saved("end", v) \/ (n.kind = "end" /\ n.version = v)
                          /\ (Saved("vod", v))' <=> Saved("vod", v) \/ (n.kind = "vod" /\ n.version = v)
  BY <1>1, <1>2 DEF Kinds
<1>4. CASE SaveStart(n)
  <2>1. n.kind = "start" /\ ~Saved("end", n.version) /\ ~Saved("vod", n.version)
    BY <1>1, <1>4 DEF SaveStart, Saved, Due
  <2>2. \A v \in Versions \ {n.version} : row'.url[v] = row.url[v]
    BY <1>4 DEF SaveStart, TypeOK, Streams
  <2>3. RowInv'
    BY <1>1, <1>2, <1>3, <2>1, <2>2 DEF RowInv
  <2> QED
    BY <1>1, <2>3
<1>5. CASE SaveEnd(n)
  <2>1. n.kind = "end" /\ ~row'.liveNow /\ row'.recording = row.recording /\ row'.url = row.url
    BY <1>5 DEF SaveEnd, TypeOK, Streams
  <2>2. RowInv'
    BY <1>1, <1>3, <2>1 DEF RowInv
  <2> QED
    BY <1>1, <2>2
<1>6. CASE SaveVod(n)
  <2>1. n.kind = "vod" /\ fetched[n] = row
    BY <1>1, <1>6 DEF SaveVod, CalmInv, Fresh, Steady, Goto
  <2>2. row \in Streams
    BY DEF TypeOK
  <2>3. /\ row'.liveNow = row.liveNow /\ row'.recording
        /\ \A v \in Versions : row'.url[v] = IF v = n.version THEN "vod" ELSE row.url[v]
    BY <1>6, <2>1, <2>2 DEF SaveVod, UpdatesOf, Streams, Urls
  <2>4. RowInv'
    BY <1>1, <1>3, <2>1, <2>3 DEF RowInv
  <2> QED
    BY <1>1, <2>4
<1> QED
  BY <1>4, <1>5, <1>6

LEMMA SteadyStep == TypeOK /\ CalmInv /\ SteadyInv /\ [Next]_vars => SteadyInv'
<1> SUFFICES ASSUME TypeOK, CalmInv, SteadyInv, [Next]_vars PROVE SteadyInv'
  OBVIOUS
<1>1. ASSUME NEW n \in Notifications, Arrive(n) PROVE SteadyInv'
  BY <1>1, SteadyArrive
<1>2. ASSUME NEW n \in Notifications, SaveStart(n) \/ SaveEnd(n) \/ SaveVod(n) PROVE SteadyInv'
  BY <1>2, SteadySave
<1>3. ASSUME NEW n \in Notifications,
             ReadCached(n) \/ ReadRow(n) \/ FillCache(n) \/ LockStart(n) \/ Finish(n)
      PROVE  SteadyInv'
  <2>1. /\ pc[n] \in {"reading", "filling", "fetched", "saved"}
        /\ pc'[n] \in IF pc[n] = "saved" THEN {"done"} ELSE {"filling", "fetched", "locked"}
        /\ \A m \in Notifications \ {n} : pc'[m] = pc[m]
        /\ UNCHANGED <<row, calm, redelivered>>
    BY <1>3 DEF ReadCached, ReadRow, FillCache, LockStart, Finish, Goto, TypeOK
  <2> QED
    BY <2>1, SteadyFrame DEF Steady
<1>4. ASSUME NEW n \in Notifications, Redeliver(n) PROVE SteadyInv'
  <2>1. redelivered' # 0
    BY <1>4 DEF Redeliver, TypeOK
  <2> QED
    BY <2>1 DEF SteadyInv, Steady
<1>5. CASE (\E v \in Versions : Emit(v)) \/ VisitorReads \/ VisitorFills \/ Expire \/ UNCHANGED vars
  <2>1. UNCHANGED <<row, pc, redelivered>> /\ (calm' => calm)
    <3>1. CASE VisitorReads
      BY <3>1 DEF VisitorReads
    <3>2. CASE (\E v \in Versions : Emit(v)) \/ VisitorFills \/ Expire \/ UNCHANGED vars
      BY <3>2 DEF Emit, VisitorFills, Expire, vars
    <3> QED
      BY <1>5, <3>1, <3>2
  <2> QED
    BY <2>1, SteadyFrame DEF Steady
<1> QED
  BY <1>1, <1>2, <1>3, <1>4, <1>5 DEF Next, Handle

\* A lecture whose notifications are handled one after the other, each version's in
\* order and once, is a recording with a VoD of every version in the end, and not
\* live: what a handler has read is not stale, and the version that starts last has
\* yet to end.
THEOREM SettledCorrect == Spec => []SettledAsVoD
<1>1. Init => SteadyInv
  BY DEF Init, SteadyInv, OrderInv, RowInv, Saved, Due, Notifications, Kinds, NewStream
<1>2. SteadyInv => SettledAsVoD
  <2> SUFFICES ASSUME SteadyInv, AllHandled, calm, redelivered = 0
               PROVE  ~row.liveNow /\ row.recording /\ \A v \in Versions : row.url[v] = "vod"
    BY DEF SettledAsVoD
  <2>1. \A v \in Versions : Saved("start", v) /\ Saved("end", v) /\ Saved("vod", v)
    BY Noted DEF AllHandled, Saved, Kinds
  <2> QED
    BY <2>1, SomeVersion DEF SteadyInv, Steady, RowInv
<1> QED
  BY <1>1, <1>2, CalmInit, CalmStep, SteadyStep, RowTypeCorrect, PTL DEF Spec

-----------------------------------------------------------------------------
(* LectureHall: the types, that no handler leaves a live lecture in the dark *)
(* as long as UpdateLights does not interfere, and that the camera is        *)
(* positioned once for each of them.                                         *)

\* The lectures, devices and handlers of a hall stay within their types.
THEOREM HallTypeCorrect == HallSpec => []HallTypeOK
<1>1. HallInit => HallTypeOK
  <2> SUFFICES ASSUME HallInit PROVE HallTypeOK
    OBVIOUS
  <2>1. presets \in [HallStreams -> 0 .. TooOften]
    BY DEF HallInit, TooOften
  <2>2. start \in [Parts -> StartPC] /\ end \in [Parts -> EndPC]
    BY DEF HallInit, StartPC, EndPC
  <2> QED
    BY <2>1, <2>2 DEF HallInit, HallTypeOK
<1>2. HallTypeOK /\ [HallNext]_hallVars => HallTypeOK'
  <2> SUFFICES ASSUME HallTypeOK, [HallNext]_hallVars PROVE HallTypeOK'
    OBVIOUS
  <2> USE PartsType DEF HallTypeOK, StartPC, EndPC, TooOften, Stream, StartGoto, EndGoto
  <2>1. ASSUME NEW p \in Parts, SaveStarted(p) PROVE HallTypeOK'
    BY <2>1 DEF SaveStarted
  <2>2. ASSUME NEW p \in Parts, SaveEnded(p) PROVE HallTypeOK'
    BY <2>2 DEF SaveEnded
  <2>3. ASSUME NEW p \in Parts, CameraClaim(p) \/ CameraSkip(p) \/ CameraFails(p) PROVE HallTypeOK'
    BY <2>3 DEF CameraClaim, CameraSkip, CameraFails
  <2>4. ASSUME NEW p \in Parts, CameraPosition(p) PROVE HallTypeOK'
    BY <2>4 DEF CameraPosition
  <2>5. ASSUME NEW p \in Parts, LightsOnLock(p) \/ LightsOn(p) PROVE HallTypeOK'
    BY <2>5 DEF LightsOnLock, LightsOn
  <2>6. ASSUME NEW p \in Parts, EndStep(p) PROVE HallTypeOK'
    BY <2>6 DEF EndStep, LightsOffLock, LightsKept, LightsOffDecided, LightsOff
  <2>7. CASE CronReads \/ CronSwitches
    BY <2>7 DEF CronReads, CronSwitches
  <2>8. CASE UNCHANGED hallVars
    BY <2>8 DEF hallVars
  <2> QED
    BY <2>1, <2>2, <2>3, <2>4, <2>5, <2>6, <2>7, <2>8 DEF HallNext, StartStep
<1> QED
  BY <1>1, <1>2, PTL DEF HallSpec

-----------------------------------------------------------------------------
(* Lights. *)

\* The handlers inside lightLock.
SwitchesOn(p)  == start[p] = "locked"
SwitchesOff(p) == end[p] \in {"locked", "switchingOff"}

\* lightLock excludes: who is inside holds it, alone.
LockInv == \A p, q \in Parts :
    /\ SwitchesOn(p) \/ SwitchesOff(p) => lightLock
    /\ ~(SwitchesOn(p) /\ SwitchesOff(q))
    /\ SwitchesOn(p) /\ SwitchesOn(q) => p = q
    /\ SwitchesOff(p) /\ SwitchesOff(q) => p = q

\* A stream one of whose parts has begun to end.
Ending(s) == \E q \in Parts : Stream(q) = s /\ end[q] # "none"

\* A stream that has started and has not begun to end is live.
StartedLive == \A p \in Parts : start[p] # "none" /\ ~Ending(Stream(p)) => Stream(p) \in live

\* Who decided to turn the lights off does so to nobody: whose lights were
\* turned on before is ending, and nobody gets the lock in between.
OffInv == \A p, q \in Parts :
    end[q] = "switchingOff" /\ start[p] = "done" => Ending(Stream(p))

LitInv ==
    /\ LockInv /\ StartedLive
    /\ cron = "absent" => OffInv /\ LitWhileLive

\* No handler of another lecture leaves a hall in the dark in which a live
\* lecture's start was handled: the look-up of what else is live and the
\* switching are one critical section.
THEOREM LitCorrect == HallSpec => []LitWhileLive
<1>1. HallInit => LitInv
  BY DEF HallInit, LitInv, LockInv, StartedLive, OffInv, LitWhileLive, SwitchesOn, SwitchesOff
<1>2. HallTypeOK /\ LitInv /\ [HallNext]_hallVars => LitInv'
  <2> SUFFICES ASSUME HallTypeOK, LitInv, [HallNext]_hallVars PROVE LitInv'
    OBVIOUS
  <2> USE PartsType DEF HallTypeOK, LitInv, LockInv, StartedLive, OffInv, LitWhileLive, Ending,
                        SwitchesOn, SwitchesOff, StartGoto, EndGoto
  <2>1. ASSUME NEW p \in Parts, SaveStarted(p) PROVE LitInv'
    BY <2>1 DEF SaveStarted
  <2>2. ASSUME NEW p \in Parts, SaveEnded(p) PROVE LitInv'
    BY <2>2 DEF SaveEnded
  <2>3. ASSUME NEW p \in Parts, CameraClaim(p) \/ CameraSkip(p) \/ CameraPosition(p) \/ CameraFails(p)
        PROVE  LitInv'
    BY <2>3 DEF CameraClaim, CameraSkip, CameraPosition, CameraFails
  <2>4. ASSUME NEW p \in Parts, LightsOnLock(p) PROVE LitInv'
    BY <2>4 DEF LightsOnLock
  <2>5. ASSUME NEW p \in Parts, LightsOn(p) PROVE LitInv'
    BY <2>5 DEF LightsOn
  <2>6. ASSUME NEW p \in Parts, LightsOffLock(p) PROVE LitInv'
    BY <2>6 DEF LightsOffLock
  <2>7. ASSUME NEW p \in Parts, LightsKept(p) PROVE LitInv'
    BY <2>7 DEF LightsKept
  <2>8. ASSUME NEW p \in Parts, LightsOffDecided(p) PROVE LitInv'
    BY <2>8 DEF LightsOffDecided, OtherLive
  <2>9. ASSUME NEW p \in Parts, LightsOff(p) PROVE LitInv'
    BY <2>9 DEF LightsOff
  <2>10. CASE CronReads \/ CronSwitches
    BY <2>10 DEF CronReads, CronSwitches
  <2>11. CASE UNCHANGED hallVars
    BY <2>11 DEF hallVars
  <2> QED
    BY <2>1, <2>2, <2>3, <2>4, <2>5, <2>6, <2>7, <2>8, <2>9, <2>10, <2>11
    DEF HallNext, StartStep, EndStep
<1> QED
  <2>1. LitInv => LitWhileLive
    BY DEF LitInv, LitWhileLive
  <2> QED
    BY <1>1, <1>2, <2>1, HallTypeCorrect, PTL DEF HallSpec

-----------------------------------------------------------------------------
(* Camera. *)

\* Who positions the camera of a stream claimed it, alone, before anybody had; the
\* claim of a stream it was positioned for stays.
ClaimInv ==
    /\ \A p \in Parts : start[p] = "positioning" =>
          /\ Stream(p) \in camsHandled
          /\ presets[Stream(p)] = 0
          /\ \A q \in Parts : start[q] = "positioning" /\ Stream(q) = Stream(p) => q = p
    /\ \A s \in HallStreams : presets[s] = 0 \/ (presets[s] = 1 /\ s \in camsHandled)

\* However many versions of a stream start at the same time, and whether or not an
\* attempt failed, its camera is positioned at most once: the claim is made before
\* the camera is asked, and taken back only by who could not position it.
THEOREM CameraCorrect == HallSpec => []PositionedOnce
<1>1. HallInit => ClaimInv
  BY DEF HallInit, ClaimInv
<1>2. HallTypeOK /\ ClaimInv /\ [HallNext]_hallVars => ClaimInv'
  <2> SUFFICES ASSUME HallTypeOK, ClaimInv, [HallNext]_hallVars PROVE ClaimInv'
    OBVIOUS
  <2>0. \A p \in Parts : Stream(p) \in HallStreams
    BY PartsType DEF Stream
  <2> USE <2>0 DEF HallTypeOK, ClaimInv, StartGoto, TooOften
  <2>1. ASSUME NEW p \in Parts, SaveStarted(p) \/ SaveEnded(p) PROVE ClaimInv'
    BY <2>1 DEF SaveStarted, SaveEnded
  <2>2. ASSUME NEW p \in Parts, CameraClaim(p) PROVE ClaimInv'
    BY <2>2 DEF CameraClaim
  <2>3. ASSUME NEW p \in Parts, CameraSkip(p) PROVE ClaimInv'
    BY <2>3 DEF CameraSkip
  <2>4. ASSUME NEW p \in Parts, CameraPosition(p) PROVE ClaimInv'
    BY <2>4 DEF CameraPosition
  <2>5. ASSUME NEW p \in Parts, CameraFails(p) PROVE ClaimInv'
    BY <2>5 DEF CameraFails
  <2>6. ASSUME NEW p \in Parts, LightsOnLock(p) \/ LightsOn(p) PROVE ClaimInv'
    BY <2>6 DEF LightsOnLock, LightsOn
  <2>7. ASSUME NEW p \in Parts, EndStep(p) PROVE ClaimInv'
    BY <2>7 DEF EndStep, LightsOffLock, LightsKept, LightsOffDecided, LightsOff
  <2>8. CASE CronReads \/ CronSwitches
    BY <2>8 DEF CronReads, CronSwitches
  <2>9. CASE UNCHANGED hallVars
    BY <2>9 DEF hallVars
  <2> QED
    BY <2>1, <2>2, <2>3, <2>4, <2>5, <2>6, <2>7, <2>8, <2>9 DEF HallNext, StartStep
<1>3. ClaimInv => PositionedOnce
  BY DEF ClaimInv, PositionedOnce
<1> QED
  BY <1>1, <1>2, <1>3, HallTypeCorrect, PTL DEF HallSpec

-----------------------------------------------------------------------------
(* RunnerRegistry: the types. A count that is one too high or too low, or an *)
(* age that grows for ever, would leave them.                                *)

LEMMA CountsFacts ==
    /\ 0 \in Ages /\ 0 \in Counts
    /\ \A n \in Counts : Min2(n + 1, MaxJobs) \in Counts /\ (n > 0 => n - 1 \in Counts)
    /\ \A a \in Ages : Min2(a + 1, Window + 1) \in Ages
    /\ \A r \in Rows : r.age \in Ages /\ r.draining \in BOOLEAN /\ r.jobCount \in Counts
    /\ \A a \in Ages, d \in BOOLEAN, n \in Counts : [age |-> a, draining |-> d, jobCount |-> n] \in Rows
  BY RegistryBounds DEF Ages, Counts, Min2, Rows

\* A process has at most the jobs the model counts to, and none is counted out twice.
LEMMA ProcessTyped ==
  ASSUME RegistryTypeOK, NEW r \in Runners, ProcessStep(r)
  PROVE  RegistryTypeOK'
<1> USE CountsFacts DEF RegistryTypeOK
<1>1. process[r] \in Processes
  OBVIOUS
<1>2. CASE Register(r)
  <2>1. [up |-> TRUE, draining |-> FALSE, jobs |-> 0] \in Processes
    BY DEF Processes
  <2> QED
    BY <1>2, <2>1 DEF Register
<1>3. CASE Stop(r) \/ Drain(r)
  <2>1. [process[r] EXCEPT !.up = FALSE] \in Processes /\ [process[r] EXCEPT !.draining = TRUE] \in Processes
    BY <1>1 DEF Processes
  <2> QED
    BY <1>3, <2>1 DEF Stop, Drain
<1>4. CASE JobEnds(r)
  <2>1. [process[r] EXCEPT !.jobs = @ - 1] \in Processes
    BY <1>1, <1>4 DEF Processes, JobEnds
  <2> QED
    BY <1>4, <2>1 DEF JobEnds
<1>5. CASE SendHeartbeat(r) \/ SendDrainHeartbeat(r)
  <2>1. Beat(r) \in Beats /\ [runner |-> r, draining |-> TRUE, jobCount |-> 0] \in Beats
    BY <1>1 DEF Beat, Beats, Processes
  <2> QED
    BY <1>5, <2>1 DEF SendHeartbeat, SendDrainHeartbeat
<1> QED
  BY <1>2, <1>3, <1>4, <1>5 DEF ProcessStep

LEMMA HeartbeatTyped ==
  ASSUME RegistryTypeOK, NEW b \in Beats, HandleHeartbeat(b)
  PROVE  RegistryTypeOK'
<1> USE CountsFacts DEF RegistryTypeOK
<1>1. CASE HeartbeatGet(b) \/ HeartbeatLost(b)
  BY <1>1 DEF HeartbeatGet, HeartbeatLost
<1>2. CASE HeartbeatSave(b)
  <2>1. [age |-> 0, draining |-> b.draining, jobCount |-> b.jobCount] \in Rows
    BY DEF Beats
  <2> QED
    BY <1>2, <2>1 DEF HeartbeatSave
<1> QED
  BY <1>1, <1>2 DEF HandleHeartbeat

LEMMA ReserveTyped ==
  ASSUME RegistryTypeOK, NEW c \in Calls, Reserve(c)
  PROVE  RegistryTypeOK'
<1> USE CountsFacts DEF RegistryTypeOK
<1>1. call[c] \in CallStates
  OBVIOUS
<1>2. CASE ReserveSelect(c)
  <2>1. \A r \in Runners : [at |-> "selected", runner |-> r] \in CallStates
    BY DEF CallStates
  <2> QED
    BY <1>2, <2>1 DEF ReserveSelect
<1>3. CASE ReserveFails(c) \/ GiveUp(c)
  <2>1. [at |-> "failed"] \in CallStates /\ [at |-> "idle"] \in CallStates
    BY DEF CallStates
  <2> QED
    BY <1>3, <2>1 DEF ReserveFails, GiveUp
<1>4. CASE ReserveIncrement(c)
  <2> DEFINE r == call[c].runner
  <2>1. /\ call[c].at = "selected"
        /\ call' = [call EXCEPT ![c].at = "reserved"]
        /\ IF table[r] = NoRow THEN UNCHANGED table
           ELSE table' = [table EXCEPT ![r].jobCount = Min2(@ + 1, MaxJobs)]
        /\ UNCHANGED <<process, inFlight, handling>>
    BY <1>4 DEF ReserveIncrement
  <2>2. r \in Runners /\ [call[c] EXCEPT !.at = "reserved"] \in CallStates
    BY <1>1, <2>1 DEF CallStates
  <2>3. table[r] # NoRow => [table[r] EXCEPT !.jobCount = Min2(@ + 1, MaxJobs)] \in Rows
    BY <2>2 DEF Rows
  <2> QED
    BY <2>1, <2>2, <2>3
<1>5. CASE RequestJob(c)
  <2> DEFINE r == call[c].runner
  <2>1. /\ call[c].at = "reserved"
        /\ process' = [process EXCEPT ![r].jobs = IF process[r].up THEN Min2(@ + 1, MaxJobs) ELSE @]
        /\ call' = [call EXCEPT ![c] = [at |-> "idle"]]
        /\ UNCHANGED <<table, inFlight, handling>>
    BY <1>5 DEF RequestJob
  <2>2. r \in Runners /\ [at |-> "idle"] \in CallStates
    BY <1>1, <2>1 DEF CallStates
  <2>3. [process[r] EXCEPT !.jobs = IF process[r].up THEN Min2(@ + 1, MaxJobs) ELSE @] \in Processes
    BY <2>2 DEF Processes
  <2> QED
    BY <2>1, <2>2, <2>3
<1> QED
  BY <1>2, <1>3, <1>4, <1>5 DEF Reserve

\* The table of runners, the heartbeats on their way and the reservations stay
\* within their types, however often a heartbeat is late and a runner restarts.
THEOREM RegistryTypeCorrect == RegistrySpec => []RegistryTypeOK
<1>1. RegistryInit => RegistryTypeOK
  BY CountsFacts DEF RegistryInit, RegistryTypeOK, Processes, CallStates
<1>2. RegistryTypeOK /\ [RegistryNext]_registryVars => RegistryTypeOK'
  <2> SUFFICES ASSUME RegistryTypeOK, [RegistryNext]_registryVars PROVE RegistryTypeOK'
    OBVIOUS
  <2>1. ASSUME NEW r \in Runners, Delete(r) PROVE RegistryTypeOK'
    BY <2>1 DEF Delete, RegistryTypeOK
  <2>2. CASE Tick
    <3>1. \A r \in Runners : table[r] # NoRow => [table[r] EXCEPT !.age = Min2(@ + 1, Window + 1)] \in Rows
      BY CountsFacts DEF RegistryTypeOK, Rows
    <3> QED
      BY <2>2, <3>1 DEF Tick, RegistryTypeOK
  <2>3. CASE UNCHANGED registryVars
    BY <2>3 DEF registryVars, RegistryTypeOK
  <2> QED
    BY <2>1, <2>2, <2>3, ProcessTyped, HeartbeatTyped, ReserveTyped DEF RegistryNext
<1> QED
  BY <1>1, <1>2, PTL DEF RegistrySpec
=============================================================================
