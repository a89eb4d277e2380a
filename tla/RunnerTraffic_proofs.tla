------------------------ MODULE RunnerTraffic_proofs ------------------------
(***************************************************************************)
(* Proofs about what gocast and its runners send each other: the jobs that *)
(* gocast asks for (Dispatch), and the notifications a runner reports them *)
(* with (RunnerNotifications). The two share no variable; each has its own *)
(* specification, and its theorems hold for any values of its constants.   *)
(***************************************************************************)
EXTENDS Dispatch, RunnerNotifications, FiniteSetTheorems, TLAPS

-----------------------------------------------------------------------------
(* Dispatch: the inductive invariant.                                        *)

\* The call c has yet to ask for the version q.
Pending(c, q) ==
    \E i \in DOMAIN todo[c] : \E j \in DOMAIN VersionOrder :
        /\ todo[c][i] = q.lecture
        /\ VersionOrder[j] = q.version
        /\ i = 1 => next[c] <= j

Askers(q) == {c \in Calls : Pending(c, q)}

Settled(q) == jobs[q] # <<>> \/ q \in refused

InHalls == {q \in Requests : q.lecture \notin SelfStreams}

Types ==
    /\ up \subseteq Runners
    /\ eligible \subseteq Runners
    /\ client \in [Calls -> Runners \cup {None}]
    /\ phase \in [Lectures -> {"early", "due", "past"}]
    /\ live \in [Lectures -> BOOLEAN]
    /\ todo \in [Calls -> Seq(Lectures)]
    /\ next \in [Calls -> DOMAIN VersionOrder]
    /\ jobs \in [Requests -> Seq(JobStates)]
    /\ errors \in 0 .. MaxErrors
    /\ refused \subseteq Requests
    /\ late \in BOOLEAN

\* A call has each lecture once, and begins with the first version.
PlaceInv ==
    \A c \in Calls :
        /\ \A i, j \in DOMAIN todo[c] : todo[c][i] = todo[c][j] => i = j
        /\ todo[c] = <<>> => next[c] = 1
        /\ client[c] # None => todo[c] # <<>>

BoundInv ==
    \A q \in Requests : Len(jobs[q]) + Cardinality(Askers(q)) <= MaxRequests[q.lecture]

Passed ==
    \A q \in InHalls, c \in Calls : WorksOn(c, q.lecture) => Settled(q) \/ Pending(c, q)

Covered ==
    \A q, p \in InHalls :
        p.lecture = q.lecture /\ jobs[p] # <<>> => Settled(q) \/ \E c \in Calls : Pending(c, q)

LiveHasJob ==
    \A l \in Lectures \ SelfStreams : live[l] => \E q \in InHalls : q.lecture = l /\ jobs[q] # <<>>

StartedIsLive ==
    \A q \in InHalls : \A i \in DOMAIN jobs[q] :
        jobs[q][i].at = "started" => live[q.lecture] \/ phase[q.lecture] = "past"

OneCall ==
    \A c, d \in Calls : \A l \in Lectures \ SelfStreams :
        WorksOn(c, l) /\ WorksOn(d, l) => c = d

PendingIsNew == \A q \in InHalls, c \in Calls : Pending(c, q) => Working(q) = {}

OneWorks == \A q \in InHalls : \A i, j \in Working(q) : i = j

DispatchInv ==
    /\ Types /\ PlaceInv
    /\ BoundInv
    /\ Passed /\ Covered /\ LiveHasJob
    /\ ~late => StartedIsLive /\ OneCall /\ PendingIsNew /\ OneWorks

-----------------------------------------------------------------------------
(* The loops over lectures and versions.                                   *)

LEMMA OrderFacts ==
    /\ Len(VersionOrder) \in Nat \ {0}
    /\ DOMAIN VersionOrder = 1 .. Len(VersionOrder)
    /\ \A j \in DOMAIN VersionOrder : VersionOrder[j] \in Versions
    /\ \A v \in Versions : \E j \in DOMAIN VersionOrder : VersionOrder[j] = v
    /\ \A i, j \in DOMAIN VersionOrder : VersionOrder[i] = VersionOrder[j] => i = j
<1>1. Len(VersionOrder) \in Nat /\ DOMAIN VersionOrder = 1 .. Len(VersionOrder) /\ VersionOrder # <<>>
  BY VersionsOrdered
<1>2. Len(VersionOrder) # 0
  BY VersionsOrdered
<1> QED
  BY <1>1, <1>2, VersionsOrdered DEF Versions, Range, IsInjective

LEMMA RequestFacts ==
    /\ \A l \in Lectures, v \in Versions :
          Request(l, v) \in Requests /\ Request(l, v).lecture = l /\ Request(l, v).version = v
    /\ \A q \in Requests : q.lecture \in Lectures /\ q.version \in Versions
    /\ \A q, p \in Requests : q.lecture = p.lecture /\ q.version = p.version => q = p
  BY DEF Request, Requests

LEMMA TodoFacts ==
  ASSUME Types, NEW c \in Calls
  PROVE  /\ Len(todo[c]) \in Nat
         /\ DOMAIN todo[c] = 1 .. Len(todo[c])
         /\ \A i \in DOMAIN todo[c] : todo[c][i] \in Lectures
         /\ \A l : WorksOn(c, l) <=> \E i \in DOMAIN todo[c] : todo[c][i] = l
         /\ ~Idle(c) => /\ 1 \in DOMAIN todo[c]
                        /\ Head(todo[c]) = todo[c][1] /\ Head(todo[c]) \in Lectures
                        /\ Tail(todo[c]) \in Seq(Lectures)
                        /\ DOMAIN Tail(todo[c]) = 1 .. Len(todo[c]) - 1
                        /\ \A i \in DOMAIN Tail(todo[c]) : Tail(todo[c])[i] = todo[c][i + 1]
<1>1. todo[c] \in Seq(Lectures)
  BY DEF Types
<1>2. /\ Len(todo[c]) \in Nat
      /\ DOMAIN todo[c] = 1 .. Len(todo[c])
      /\ \A i \in DOMAIN todo[c] : todo[c][i] \in Lectures
  BY <1>1
<1>3. \A l : WorksOn(c, l) <=> \E i \in DOMAIN todo[c] : todo[c][i] = l
  BY DEF WorksOn, Range
<1>4. ASSUME ~Idle(c)
      PROVE  /\ 1 \in DOMAIN todo[c]
             /\ Head(todo[c]) = todo[c][1] /\ Head(todo[c]) \in Lectures
             /\ Tail(todo[c]) \in Seq(Lectures)
             /\ DOMAIN Tail(todo[c]) = 1 .. Len(todo[c]) - 1
             /\ \A i \in DOMAIN Tail(todo[c]) : Tail(todo[c])[i] = todo[c][i + 1]
  <2>1. todo[c] # <<>> /\ Len(todo[c]) > 0
    BY <1>1, <1>4 DEF Idle
  <2> QED
    BY <1>1, <1>2, <2>1
<1> QED
  BY <1>2, <1>3, <1>4

LEMMA PresentFacts ==
  ASSUME Types, NEW c \in Calls, ~Idle(c)
  PROVE  /\ Present(c) \in Requests
         /\ Present(c).lecture = Head(todo[c])
         /\ Present(c).version = VersionOrder[next[c]]
         /\ WorksOn(c, Head(todo[c]))
         /\ Pending(c, Present(c))
<1>1. next[c] \in DOMAIN VersionOrder /\ VersionOrder[next[c]] \in Versions /\ next[c] \in Nat
  BY OrderFacts DEF Types
<1>2. /\ Present(c) \in Requests
      /\ Present(c).lecture = Head(todo[c])
      /\ Present(c).version = VersionOrder[next[c]]
  BY <1>1, TodoFacts, RequestFacts DEF Present
<1>3. WorksOn(c, Head(todo[c]))
  BY TodoFacts
<1>4. Pending(c, Present(c))
  BY <1>1, <1>2, TodoFacts DEF Pending
<1> QED
  BY <1>2, <1>3, <1>4

LEMMA PendingWorks ==
  ASSUME Types, NEW c \in Calls, NEW q \in Requests, Pending(c, q)
  PROVE  WorksOn(c, q.lecture) /\ ~Idle(c)
<1>1. WorksOn(c, q.lecture)
  BY TodoFacts DEF Pending
<1>2. todo[c] # <<>>
  BY DEF Pending
<1> QED
  BY <1>1, <1>2 DEF Idle

LEMMA CallFrame ==
  ASSUME NEW c, todo'[c] = todo[c], next'[c] = next[c]
  PROVE  /\ \A q : Pending(c, q)' <=> Pending(c, q)
         /\ \A l : WorksOn(c, l)' <=> WorksOn(c, l)
  BY DEF Pending, WorksOn

\* A call leaves the lecture it is at: only that one is no longer pending.
LEMMA LectureLeft ==
  ASSUME Types, PlaceInv, NEW c \in Calls, ~Idle(c), NextLecture(c)
  PROVE  /\ todo' \in [Calls -> Seq(Lectures)] /\ next' \in [Calls -> DOMAIN VersionOrder]
         /\ \A d \in Calls \ {c} : todo'[d] = todo[d] /\ next'[d] = next[d]
         /\ \A i, j \in DOMAIN todo'[c] : todo'[c][i] = todo'[c][j] => i = j
         /\ next'[c] = 1
         /\ \A l : WorksOn(c, l)' <=> WorksOn(c, l) /\ l # Head(todo[c])
         /\ \A q : Pending(c, q)' <=> Pending(c, q) /\ q.lecture # Head(todo[c])
<1> DEFINE s == todo[c]
<1>1. todo'[c] = Tail(s) /\ next'[c] = 1 /\ todo' = [todo EXCEPT ![c] = Tail(s)] /\ next' = [next EXCEPT ![c] = 1]
  BY DEF NextLecture, Types
<1>2. /\ Len(s) \in Nat /\ DOMAIN s = 1 .. Len(s)
      /\ 1 \in DOMAIN s /\ Head(s) = s[1]
      /\ Tail(s) \in Seq(Lectures) /\ DOMAIN Tail(s) = 1 .. Len(s) - 1
      /\ \A i \in DOMAIN Tail(s) : Tail(s)[i] = s[i + 1]
  BY TodoFacts
<1>3. \A i, j \in DOMAIN s : s[i] = s[j] => i = j
  BY DEF PlaceInv
<1>4. 1 \in DOMAIN VersionOrder /\ \A j \in DOMAIN VersionOrder : 1 <= j
  BY OrderFacts
<1>5. todo' \in [Calls -> Seq(Lectures)] /\ next' \in [Calls -> DOMAIN VersionOrder]
  BY <1>1, <1>2, <1>4 DEF Types
<1>6. \A d \in Calls \ {c} : todo'[d] = todo[d] /\ next'[d] = next[d]
  BY DEF NextLecture, Types
<1>7. \A i, j \in DOMAIN Tail(s) : Tail(s)[i] = Tail(s)[j] => i = j
  <2> SUFFICES ASSUME NEW i \in DOMAIN Tail(s), NEW j \in DOMAIN Tail(s), Tail(s)[i] = Tail(s)[j]
               PROVE  i = j
    OBVIOUS
  <2>1. i + 1 \in DOMAIN s /\ j + 1 \in DOMAIN s /\ s[i + 1] = s[j + 1]
    BY <1>2
  <2> QED
    BY <2>1, <1>2, <1>3
\* What follows the head is what is not the head.
<1>8. ASSUME NEW l
      PROVE  (\E i \in DOMAIN Tail(s) : Tail(s)[i] = l) <=> (\E i \in DOMAIN s : s[i] = l) /\ l # Head(s)
  <2>1. ASSUME NEW i \in DOMAIN Tail(s), Tail(s)[i] = l
        PROVE  i + 1 \in DOMAIN s /\ s[i + 1] = l /\ l # Head(s)
    BY <1>2, <1>3, <2>1
  <2>2. ASSUME NEW i \in DOMAIN s, s[i] = l, l # Head(s)
        PROVE  i - 1 \in DOMAIN Tail(s) /\ Tail(s)[i - 1] = l
    <3>1. i # 1
      BY <1>2, <2>2
    <3> QED
      BY <1>2, <2>2, <3>1
  <2> QED
    BY <2>1, <2>2
<1>9. ASSUME NEW l
      PROVE  WorksOn(c, l)' <=> WorksOn(c, l) /\ l # Head(todo[c])
  BY <1>1, <1>8 DEF WorksOn, Range
<1>10. ASSUME NEW q
       PROVE  Pending(c, q)' <=> Pending(c, q) /\ q.lecture # Head(todo[c])
  <2>1. Pending(c, q)' <=> /\ \E i \in DOMAIN Tail(s) : Tail(s)[i] = q.lecture
                           /\ \E j \in DOMAIN VersionOrder : VersionOrder[j] = q.version
    BY <1>1, <1>4 DEF Pending
  <2>2. ASSUME q.lecture # Head(s)
        PROVE  Pending(c, q) <=> /\ \E i \in DOMAIN s : s[i] = q.lecture
                                 /\ \E j \in DOMAIN VersionOrder : VersionOrder[j] = q.version
    BY <1>2, <2>2 DEF Pending
  <2> QED
    BY <2>1, <2>2, <1>8
<1> QED
  BY <1>1, <1>5, <1>6, <1>7, <1>9, <1>10

\* The loops go on: the present version is no longer pending, and of a lecture in
\* a hall no other is lost.
LEMMA LoopGoesOn ==
  ASSUME Types, PlaceInv, NEW c \in Calls, ~Idle(c), GoOn(c)
  PROVE  /\ todo' \in [Calls -> Seq(Lectures)] /\ next' \in [Calls -> DOMAIN VersionOrder]
         /\ \A d \in Calls \ {c} : todo'[d] = todo[d] /\ next'[d] = next[d]
         /\ \A i, j \in DOMAIN todo'[c] : todo'[c][i] = todo'[c][j] => i = j
         /\ todo'[c] = <<>> => next'[c] = 1
         /\ \A l : WorksOn(c, l)' => WorksOn(c, l)
         /\ \A q \in Requests : Pending(c, q)' => Pending(c, q) /\ q # Present(c)
         /\ \A q \in InHalls : Pending(c, q) /\ q # Present(c) => Pending(c, q)'
<1>0. /\ Len(VersionOrder) \in Nat \ {0} /\ DOMAIN VersionOrder = 1 .. Len(VersionOrder)
      /\ \A i, j \in DOMAIN VersionOrder : VersionOrder[i] = VersionOrder[j] => i = j
      /\ next[c] \in DOMAIN VersionOrder
  BY OrderFacts DEF Types
<1>1. /\ Present(c) \in Requests
      /\ Present(c).lecture = Head(todo[c]) /\ Present(c).version = VersionOrder[next[c]]
  BY PresentFacts
<1>2. 1 \in DOMAIN todo[c] /\ Head(todo[c]) = todo[c][1]
  BY TodoFacts
<1>3. \A i, j \in DOMAIN todo[c] : todo[c][i] = todo[c][j] => i = j
  BY DEF PlaceInv
<1>4. CASE next[c] = Len(VersionOrder) \/ Head(todo[c]) \in SelfStreams
  <2>1. NextLecture(c)
    BY <1>4 DEF GoOn
  <2>2. ASSUME NEW q \in InHalls, Pending(c, q), q # Present(c)
        PROVE  q.lecture # Head(todo[c])
    <3> SUFFICES ASSUME q.lecture = Head(todo[c]) PROVE FALSE
      OBVIOUS
    <3>1. next[c] = Len(VersionOrder)
      BY <1>4 DEF InHalls
    <3>2. PICK i \in DOMAIN todo[c], j \in DOMAIN VersionOrder :
              todo[c][i] = q.lecture /\ VersionOrder[j] = q.version /\ (i = 1 => next[c] <= j)
      BY <2>2 DEF Pending
    <3>3. i = 1
      BY <1>2, <1>3, <3>2
    <3>4. j = next[c]
      BY <1>0, <3>1, <3>2, <3>3
    <3>5. q = Present(c)
      BY <1>1, <3>2, <3>4, RequestFacts DEF InHalls
    <3> QED
      BY <2>2, <3>5
  <2> QED
    BY <2>1, <2>2, <1>1, LectureLeft
<1>5. CASE next[c] # Len(VersionOrder) /\ Head(todo[c]) \notin SelfStreams
  <2>1. next' = [next EXCEPT ![c] = next[c] + 1] /\ todo' = todo
    BY <1>5 DEF GoOn
  <2>2. next'[c] = next[c] + 1 /\ next[c] + 1 \in DOMAIN VersionOrder
    BY <1>0, <1>5, <2>1 DEF Types
  <2>3. todo' \in [Calls -> Seq(Lectures)] /\ next' \in [Calls -> DOMAIN VersionOrder]
    BY <2>1, <2>2 DEF Types
  <2>4. \A d \in Calls \ {c} : todo'[d] = todo[d] /\ next'[d] = next[d]
    BY <2>1 DEF Types
  <2>5. todo'[c] # <<>>
    BY <2>1 DEF Idle
  <2>6. ASSUME NEW q \in Requests, Pending(c, q)'
        PROVE  Pending(c, q) /\ q # Present(c)
    <3>1. PICK i \in DOMAIN todo[c], j \in DOMAIN VersionOrder :
              todo[c][i] = q.lecture /\ VersionOrder[j] = q.version /\ (i = 1 => next[c] + 1 <= j)
      BY <2>1, <2>2, <2>6 DEF Pending
    <3>2. Pending(c, q)
      BY <1>0, <3>1 DEF Pending
    <3>3. ASSUME q = Present(c) PROVE FALSE
      BY <1>0, <1>1, <1>2, <1>3, <3>1, <3>3
    <3> QED
      BY <3>2, <3>3
  <2>7. ASSUME NEW q \in InHalls, Pending(c, q), q # Present(c)
        PROVE  Pending(c, q)'
    <3>1. PICK i \in DOMAIN todo[c], j \in DOMAIN VersionOrder :
              todo[c][i] = q.lecture /\ VersionOrder[j] = q.version /\ (i = 1 => next[c] <= j)
      BY <2>7 DEF Pending
    <3>2. i = 1 => j # next[c]
      BY <1>1, <1>2, <2>7, <3>1, RequestFacts DEF InHalls
    <3>3. i = 1 => next[c] + 1 <= j
      BY <1>0, <3>1, <3>2
    <3> QED
      BY <2>1, <2>2, <3>1, <3>3 DEF Pending
  <2> QED
    BY <2>1, <2>3, <2>4, <2>5, <2>6, <2>7, <1>3 DEF WorksOn
<1> QED
  BY <1>4, <1>5

\* A call that was idle begins with lectures it takes from S.
LEMMA CallBegins ==
  ASSUME Types, PlaceInv, NEW c \in Calls, Idle(c),
         NEW S \in SUBSET Lectures, NEW order \in Seq(S), order # <<>>,
         \A i, j \in DOMAIN order : order[i] = order[j] => i = j,
         todo' = [todo EXCEPT ![c] = order], next' = next
  PROVE  /\ todo' \in [Calls -> Seq(Lectures)] /\ next' \in [Calls -> DOMAIN VersionOrder]
         /\ \A d \in Calls \ {c} : todo'[d] = todo[d] /\ next'[d] = next[d]
         /\ \A i, j \in DOMAIN todo'[c] : todo'[c][i] = todo'[c][j] => i = j
         /\ todo'[c] # <<>>
         /\ \A l : ~WorksOn(c, l) /\ (WorksOn(c, l)' => l \in S)
         /\ \A q \in Requests : ~Pending(c, q) /\ (Pending(c, q)' <=> WorksOn(c, q.lecture)')
<1>1. todo'[c] = order /\ next'[c] = 1
  BY DEF Types, PlaceInv, Idle
<1>2. order \in Seq(Lectures) /\ DOMAIN order = 1 .. Len(order) /\ \A i \in DOMAIN order : order[i] \in S
  OBVIOUS
<1>3. todo' \in [Calls -> Seq(Lectures)] /\ next' \in [Calls -> DOMAIN VersionOrder]
  BY <1>2 DEF Types
<1>4. \A d \in Calls \ {c} : todo'[d] = todo[d] /\ next'[d] = next[d]
  BY DEF Types
<1>5. ASSUME NEW l
      PROVE  ~WorksOn(c, l) /\ (WorksOn(c, l)' => l \in S)
  <2>1. ~WorksOn(c, l)
    BY DEF WorksOn, Range, Idle
  <2>2. WorksOn(c, l)' => l \in S
    BY <1>1, <1>2 DEF WorksOn, Range
  <2> QED
    BY <2>1, <2>2
<1>6. ASSUME NEW q \in Requests
      PROVE  ~Pending(c, q) /\ (Pending(c, q)' <=> WorksOn(c, q.lecture)')
  <2>1. ~Pending(c, q)
    BY DEF Pending, Idle
  <2>2. PICK j \in DOMAIN VersionOrder : VersionOrder[j] = q.version
    BY OrderFacts, RequestFacts
  <2>3. 1 <= j
    BY OrderFacts
  <2>4. Pending(c, q)' <=> WorksOn(c, q.lecture)'
    BY <1>1, <2>2, <2>3 DEF Pending, WorksOn, Range
  <2> QED
    BY <2>1, <2>4
<1> QED
  BY <1>1, <1>3, <1>4, <1>5, <1>6

-----------------------------------------------------------------------------
(* The bound on the jobs of a version.                                     *)

LEMMA AskersFinite ==
  ASSUME NEW q
  PROVE  /\ IsFiniteSet(Askers(q)) /\ Cardinality(Askers(q)) \in Nat
         /\ IsFiniteSet(Askers(q))' /\ Cardinality(Askers(q))' \in Nat
<1>1. IsFiniteSet(Calls) /\ Askers(q) \in SUBSET Calls /\ Askers(q)' \in SUBSET Calls
  BY BoundsTyped DEF Askers
<1> QED
  BY <1>1, FS_Subset, FS_CardinalityType

\* Fewer calls ask, and no job is added.
LEMMA BoundKept ==
  ASSUME Types, BoundInv, NEW q \in Requests,
         Len(jobs'[q]) = Len(jobs[q]), Askers(q)' \subseteq Askers(q)
  PROVE  Len(jobs'[q]) + Cardinality(Askers(q)') <= MaxRequests[q.lecture]
<1>1. Cardinality(Askers(q)') <= Cardinality(Askers(q))
  BY AskersFinite, FS_Subset
<1>2. MaxRequests[q.lecture] \in Nat /\ Len(jobs[q]) \in Nat
  BY RequestFacts, BoundsTyped DEF Types
<1> QED
  BY <1>1, <1>2, AskersFinite DEF BoundInv

\* The job a call asked for is added, and the call no longer asks for it.
LEMMA BoundMoved ==
  ASSUME Types, BoundInv, NEW q \in Requests, NEW c \in Askers(q),
         Len(jobs'[q]) = Len(jobs[q]) + 1, Askers(q)' \subseteq Askers(q) \ {c}
  PROVE  Len(jobs'[q]) + Cardinality(Askers(q)') <= MaxRequests[q.lecture]
<1>1. /\ IsFiniteSet(Askers(q) \ {c})
      /\ Cardinality(Askers(q) \ {c}) = Cardinality(Askers(q)) - 1
  BY AskersFinite, FS_RemoveElement
<1>2. Cardinality(Askers(q)') <= Cardinality(Askers(q) \ {c})
  BY <1>1, FS_Subset
<1>3. MaxRequests[q.lecture] \in Nat /\ Len(jobs[q]) \in Nat
  BY RequestFacts, BoundsTyped DEF Types
<1> QED
  BY <1>1, <1>2, <1>3, AskersFinite DEF BoundInv

\* A call more asks for a version there is room for.
LEMMA BoundTaken ==
  ASSUME Types, BoundInv, NEW q \in Requests, NEW c \in Calls, Spare(q.lecture),
         Len(jobs'[q]) = Len(jobs[q]), Askers(q)' \subseteq Askers(q) \cup {c}
  PROVE  Len(jobs'[q]) + Cardinality(Askers(q)') <= MaxRequests[q.lecture]
<1> DEFINE W == {d \in Calls : WorksOn(d, q.lecture)}
<1>1. IsFiniteSet(W) /\ Cardinality(W) \in Nat
  BY BoundsTyped, FS_Subset, FS_CardinalityType
<1>2. Askers(q) \subseteq W
  BY PendingWorks DEF Askers
<1>3. /\ IsFiniteSet(W \cup {c})
      /\ Cardinality(W \cup {c}) = IF c \in W THEN Cardinality(W) ELSE Cardinality(W) + 1
  BY <1>1, FS_AddElement
<1>4. Cardinality(Askers(q)') <= Cardinality(W \cup {c})
  BY <1>2, <1>3, FS_Subset
<1>5. MaxRequests[q.lecture] \in Nat /\ Len(jobs[q]) \in Nat
  BY RequestFacts, BoundsTyped DEF Types
<1>6. Len(jobs[q]) + Cardinality(W) < MaxRequests[q.lecture]
  BY DEF Spare
<1> QED
  BY <1>1, <1>3, <1>4, <1>5, <1>6, AskersFinite

-----------------------------------------------------------------------------
(* What happens to the jobs.                                               *)

\* Nothing is accepted, and no job that is over works again.
JobsFade ==
    \A q \in Requests :
        /\ Len(jobs'[q]) = Len(jobs[q])
        /\ jobs'[q] # <<>> <=> jobs[q] # <<>>
        /\ Working(q)' \subseteq Working(q)

LEMMA JobFacts ==
  ASSUME Types, NEW q \in Requests
  PROVE  /\ jobs[q] \in Seq(JobStates) /\ Len(jobs[q]) \in Nat
         /\ DOMAIN jobs[q] = 1 .. Len(jobs[q])
         /\ jobs[q] = <<>> <=> Len(jobs[q]) = 0
         /\ \A i \in DOMAIN jobs[q] : /\ jobs[q][i] \in JobStates
                                      /\ jobs[q][i].runner \in Runners
                                      /\ jobs[q][i].at \in {"accepted", "started", "over"}
<1>1. jobs[q] \in Seq(JobStates)
  BY DEF Types
<1>2. /\ Len(jobs[q]) \in Nat /\ DOMAIN jobs[q] = 1 .. Len(jobs[q])
      /\ jobs[q] = <<>> <=> Len(jobs[q]) = 0
      /\ \A i \in DOMAIN jobs[q] : jobs[q][i] \in JobStates
  BY <1>1
<1> QED
  BY <1>1, <1>2 DEF JobStates

LEMMA JobDomains ==
  ASSUME Types, Types', JobsFade, NEW q \in Requests
  PROVE  DOMAIN jobs'[q] = DOMAIN jobs[q]
<1>1. DOMAIN jobs[q] = 1 .. Len(jobs[q])
  BY JobFacts
<1>2. DOMAIN jobs'[q] = 1 .. Len(jobs'[q])
  <2>1. jobs'[q] \in Seq(JobStates)
    BY DEF Types
  <2> QED
    BY <2>1
<1> QED
  BY <1>1, <1>2 DEF JobsFade

LEMMA JobsUnchanged ==
  ASSUME Types, jobs' = jobs
  PROVE  JobsFade
  BY JobFacts DEF JobsFade, Working

LEMMA JobMoves ==
  ASSUME Types, NEW q \in Requests, NEW i \in DOMAIN jobs[q],
         NEW from \in {"accepted", "started"}, NEW to \in {"started", "over"}, Moves(q, i, from, to)
  PROVE  /\ jobs' \in [Requests -> Seq(JobStates)]
         /\ JobsFade
         /\ \A p \in Requests : \A j \in DOMAIN jobs[p] :
               jobs'[p][j].at = IF p = q /\ j = i THEN to ELSE jobs[p][j].at
<1> DEFINE moved == [jobs[q] EXCEPT ![i] = [jobs[q][i] EXCEPT !.at = to]]
<1>1. jobs' = [jobs EXCEPT ![q] = moved] /\ jobs[q][i].at = from
  BY DEF Moves
<1>2. /\ jobs[q] \in Seq(JobStates) /\ DOMAIN jobs[q] = 1 .. Len(jobs[q]) /\ Len(jobs[q]) \in Nat
      /\ jobs[q][i] \in JobStates
  BY JobFacts
<1>3. [jobs[q][i] EXCEPT !.at = to] \in JobStates /\ [jobs[q][i] EXCEPT !.at = to].at = to
  BY <1>2 DEF JobStates
<1>4. moved \in Seq(JobStates) /\ Len(moved) = Len(jobs[q]) /\ DOMAIN moved = DOMAIN jobs[q]
  BY <1>2, <1>3
<1>5. \A j \in DOMAIN jobs[q] : moved[j].at = IF j = i THEN to ELSE jobs[q][j].at
  BY <1>3
<1>6. jobs'[q] = moved /\ \A p \in Requests \ {q} : jobs'[p] = jobs[p]
  BY <1>1 DEF Types
<1>7. jobs' \in [Requests -> Seq(JobStates)]
  BY <1>1, <1>4 DEF Types
<1>8. \A p \in Requests : \A j \in DOMAIN jobs[p] :
          jobs'[p][j].at = IF p = q /\ j = i THEN to ELSE jobs[p][j].at
  BY <1>5, <1>6
<1>9. ASSUME NEW p \in Requests
      PROVE  /\ Len(jobs'[p]) = Len(jobs[p]) /\ DOMAIN jobs'[p] = DOMAIN jobs[p]
             /\ jobs'[p] # <<>> <=> jobs[p] # <<>>
  BY <1>2, <1>4, <1>6
<1>10. ASSUME NEW p \in Requests
       PROVE  Working(p)' \subseteq Working(p)
  BY <1>1, <1>8, <1>9 DEF Working
<1>11. JobsFade
  BY <1>8, <1>9, <1>10 DEF JobsFade
<1> QED
  BY <1>7, <1>8, <1>11

LEMMA RunnerStops ==
  ASSUME Types, NEW r \in Runners, Stop(r)
  PROVE  /\ jobs' \in [Requests -> Seq(JobStates)]
         /\ JobsFade
         /\ \A p \in Requests : \A j \in DOMAIN jobs[p] : jobs'[p][j].at \in {jobs[p][j].at, "over"}
<1> DEFINE left(q) == [i \in DOMAIN jobs[q] |->
                   IF jobs[q][i].runner = r THEN [jobs[q][i] EXCEPT !.at = "over"] ELSE jobs[q][i]]
<1>1. jobs' = [q \in Requests |-> left(q)]
  BY DEF Stop
<1>2. ASSUME NEW p \in Requests
      PROVE  /\ left(p) \in Seq(JobStates) /\ Len(left(p)) = Len(jobs[p]) /\ DOMAIN left(p) = DOMAIN jobs[p]
             /\ \A j \in DOMAIN jobs[p] : left(p)[j].at \in {jobs[p][j].at, "over"}
             /\ left(p) # <<>> <=> jobs[p] # <<>>
  <2>1. /\ DOMAIN jobs[p] = 1 .. Len(jobs[p]) /\ Len(jobs[p]) \in Nat
        /\ \A i \in DOMAIN jobs[p] : jobs[p][i] \in JobStates
        /\ jobs[p] = <<>> <=> Len(jobs[p]) = 0
    BY JobFacts
  <2>2. \A i \in DOMAIN jobs[p] : left(p)[i] \in JobStates /\ left(p)[i].at \in {jobs[p][i].at, "over"}
    BY <2>1 DEF JobStates
  <2>3. left(p) \in [1 .. Len(jobs[p]) -> JobStates]
    BY <2>1, <2>2
  <2>4. left(p) \in Seq(JobStates) /\ Len(left(p)) = Len(jobs[p])
    BY <2>1, <2>3
  <2> QED
    BY <2>1, <2>2, <2>3, <2>4
<1>3. jobs' \in [Requests -> Seq(JobStates)]
  BY <1>1, <1>2
<1>4. ASSUME NEW p \in Requests
      PROVE  /\ Len(jobs'[p]) = Len(jobs[p]) /\ DOMAIN jobs'[p] = DOMAIN jobs[p]
             /\ \A j \in DOMAIN jobs[p] : jobs'[p][j].at \in {jobs[p][j].at, "over"}
             /\ jobs'[p] # <<>> <=> jobs[p] # <<>>
  BY <1>1, <1>2
<1>5. ASSUME NEW p \in Requests
      PROVE  Working(p)' \subseteq Working(p)
  BY <1>4 DEF Working
<1>6. JobsFade
  BY <1>4, <1>5 DEF JobsFade
<1> QED
  BY <1>3, <1>4, <1>6

\* One job more, of a runner that is up.
JobAccepted(q, r) == jobs' = [jobs EXCEPT ![q] = Append(@, [runner |-> r, at |-> "accepted"])]

LEMMA JobAdded ==
  ASSUME Types, NEW q \in Requests, NEW r \in Runners, JobAccepted(q, r)
  PROVE  /\ jobs' \in [Requests -> Seq(JobStates)]
         /\ \A p \in Requests \ {q} : jobs'[p] = jobs[p]
         /\ jobs'[q] # <<>> /\ Len(jobs'[q]) = Len(jobs[q]) + 1
         /\ Working(q)' = Working(q) \cup {Len(jobs[q]) + 1}
         /\ \A i \in DOMAIN jobs'[q] :
               jobs'[q][i].at = "started" => i \in DOMAIN jobs[q] /\ jobs[q][i].at = "started"
<1> DEFINE job == [runner |-> r, at |-> "accepted"]
           s == jobs[q]
           n == Len(s) + 1
<1>1. s \in Seq(JobStates) /\ Len(s) \in Nat /\ DOMAIN s = 1 .. Len(s) /\ job \in JobStates
  BY JobFacts DEF JobStates
<1>2. jobs'[q] = Append(s, job) /\ (\A p \in Requests \ {q} : jobs'[p] = jobs[p])
      /\ jobs' = [jobs EXCEPT ![q] = Append(s, job)]
  BY DEF JobAccepted, Types
<1>3. /\ Append(s, job) \in Seq(JobStates) /\ Len(Append(s, job)) = n
      /\ DOMAIN Append(s, job) = 1 .. n
      /\ \A i \in DOMAIN s : Append(s, job)[i] = s[i]
      /\ Append(s, job)[n] = job
      /\ Append(s, job) # <<>>
  BY <1>1
<1>4. jobs' \in [Requests -> Seq(JobStates)]
  BY <1>2, <1>3 DEF Types
<1>5. \A i \in 1 .. n : i \in DOMAIN s \/ i = n
  BY <1>1
<1>6. DOMAIN s \subseteq 1 .. n /\ n \in 1 .. n
  BY <1>1
<1>7. Working(q)' = Working(q) \cup {n}
  BY <1>2, <1>3, <1>5, <1>6 DEF Working
<1>8. \A i \in DOMAIN jobs'[q] :
          jobs'[q][i].at = "started" => i \in DOMAIN jobs[q] /\ jobs[q][i].at = "started"
  BY <1>2, <1>3, <1>5
<1> QED
  BY <1>2, <1>3, <1>4, <1>7, <1>8

-----------------------------------------------------------------------------
(* Three kinds of steps: a call begins, asks for a version, or does neither. *)

\* No version is lost: it has a job or was refused, or a call still asks for it.
LEMMA NobodyForgets ==
  ASSUME Types, Passed, Covered,
         \A q \in InHalls : Settled(q) => Settled(q)',
         \A q \in InHalls, d \in Calls : Pending(d, q) => Pending(d, q)' \/ Settled(q)',
         \A q \in InHalls, d \in Calls :
            WorksOn(d, q.lecture)' => WorksOn(d, q.lecture) \/ Pending(d, q)',
         \A p \in InHalls : jobs'[p] # <<>> =>
            jobs[p] # <<>> \/ \E d \in Calls : WorksOn(d, p.lecture)
  PROVE  Passed' /\ Covered'
<1>1. ASSUME NEW q \in InHalls, NEW c \in Calls, WorksOn(c, q.lecture)'
      PROVE  Settled(q)' \/ Pending(c, q)'
  BY <1>1 DEF Passed
<1>2. ASSUME NEW q \in InHalls, NEW p \in InHalls, p.lecture = q.lecture, jobs'[p] # <<>>
      PROVE  Settled(q)' \/ \E c \in Calls : Pending(c, q)'
  <2>1. CASE jobs[p] # <<>>
    <3>1. Settled(q) \/ \E c \in Calls : Pending(c, q)
      BY <1>2, <2>1 DEF Covered
    <3> QED
      BY <3>1
  <2>2. CASE \E d \in Calls : WorksOn(d, p.lecture)
    <3>1. PICK d \in Calls : WorksOn(d, q.lecture)
      BY <1>2, <2>2
    <3>2. Settled(q) \/ Pending(d, q)
      BY <3>1 DEF Passed
    <3> QED
      BY <3>2
  <2> QED
    BY <1>2, <2>1, <2>2
<1> QED
  BY <1>1, <1>2 DEF Passed, Covered

\* Neither: the calls stay where they are, and no job is added.
Quiet ==
    /\ UNCHANGED <<place, refused>>
    /\ JobsFade
    /\ \A c \in Calls : client'[c] # None => todo[c] # <<>>
    /\ ~late' => ~late

LEMMA QuietKeeps ==
  ASSUME DispatchInv, Types', Quiet, LiveHasJob', ~late' => StartedIsLive'
  PROVE  DispatchInv'
<1> USE DEF DispatchInv, Quiet
<1>1. ASSUME NEW c \in Calls
      PROVE  /\ todo'[c] = todo[c] /\ next'[c] = next[c]
             /\ \A q : Pending(c, q)' <=> Pending(c, q)
             /\ \A l : WorksOn(c, l)' <=> WorksOn(c, l)
  BY CallFrame DEF place
<1>2. PlaceInv'
  BY <1>1 DEF PlaceInv
<1>3. BoundInv'
  <2>1. ASSUME NEW q \in Requests
        PROVE  Askers(q)' \subseteq Askers(q) /\ Len(jobs'[q]) = Len(jobs[q])
    BY <1>1 DEF Askers, JobsFade
  <2> QED
    BY <2>1, BoundKept DEF BoundInv
<1>4. \A q \in Requests : (Settled(q) => Settled(q)') /\ (jobs'[q] # <<>> => jobs[q] # <<>>)
  BY DEF Settled, JobsFade
<1>5. Passed' /\ Covered'
  BY <1>1, <1>4, NobodyForgets DEF InHalls
<1>6. \A q \in InHalls : Working(q)' \subseteq Working(q)
  BY DEF JobsFade, InHalls
<1>7. ASSUME ~late'
      PROVE  OneCall' /\ PendingIsNew' /\ OneWorks'
  <2>1. OneCall /\ PendingIsNew /\ OneWorks
    BY <1>7
  <2>2. OneCall'
    BY <1>1, <2>1 DEF OneCall
  <2>3. PendingIsNew'
    BY <1>1, <1>6, <2>1 DEF PendingIsNew
  <2>4. OneWorks'
    BY <1>6, <2>1 DEF OneWorks
  <2> QED
    BY <2>2, <2>3, <2>4
<1> QED
  BY <1>2, <1>3, <1>5, <1>7

\* A call has dealt with the version it was at.
Asked(c) ==
    /\ \A d \in Calls \ {c} : todo'[d] = todo[d] /\ next'[d] = next[d] /\ client'[d] = client[d]
    /\ client'[c] = None
    /\ \A i, j \in DOMAIN todo'[c] : todo'[c][i] = todo'[c][j] => i = j
    /\ todo'[c] = <<>> => next'[c] = 1
    /\ \A l : WorksOn(c, l)' => WorksOn(c, l)
    /\ \A q \in Requests : Pending(c, q)' => Pending(c, q)
    /\ \A q \in InHalls : Pending(c, q) => Pending(c, q)' \/ Settled(q)'
    /\ refused \subseteq refused'
    /\ \/ jobs' = jobs
       \/ \E q \in Requests, r \in Runners :
             q = Present(c) /\ JobAccepted(q, r) /\ ~Pending(c, q)'
    /\ UNCHANGED <<phase, live, late>>

LEMMA AskedKeeps ==
  ASSUME DispatchInv, Types', NEW c \in Calls, ~Idle(c), Asked(c)
  PROVE  DispatchInv'
<1> USE DEF DispatchInv, Asked
<1> SUFFICES ASSUME NEW here \in Requests, here = Present(c) PROVE DispatchInv'
  BY PresentFacts
<1>1. ASSUME NEW d \in Calls \ {c}
      PROVE  /\ \A q : Pending(d, q)' <=> Pending(d, q)
             /\ \A l : WorksOn(d, l)' <=> WorksOn(d, l)
  BY CallFrame
<1>2. ASSUME NEW d \in Calls
      PROVE  /\ \A q \in Requests : Pending(d, q)' => Pending(d, q)
             /\ \A q \in InHalls : Pending(d, q) => Pending(d, q)' \/ Settled(q)'
             /\ \A l : WorksOn(d, l)' => WorksOn(d, l)
  BY <1>1
<1>3. here.lecture = Head(todo[c]) /\ WorksOn(c, here.lecture) /\ Pending(c, here)
  BY PresentFacts
<1>4. \/ jobs' = jobs
      \/ /\ ~Pending(c, here)' /\ Len(jobs'[here]) = Len(jobs[here]) + 1 /\ jobs'[here] # <<>>
         /\ \A p \in Requests \ {here} : jobs'[p] = jobs[p]
         /\ Working(here)' = Working(here) \cup {Len(jobs[here]) + 1}
         /\ \A i \in DOMAIN jobs'[here] :
               jobs'[here][i].at = "started" => i \in DOMAIN jobs[here] /\ jobs[here][i].at = "started"
  BY <1>3, JobAdded
<1>5. PlaceInv'
  BY <1>1 DEF PlaceInv
<1>6. BoundInv'
  <2> SUFFICES ASSUME NEW q \in Requests
               PROVE  Len(jobs'[q]) + Cardinality(Askers(q)') <= MaxRequests[q.lecture]
    BY DEF BoundInv
  <2>1. Askers(q)' \subseteq Askers(q)
    BY <1>2 DEF Askers
  <2>2. CASE jobs'[q] = jobs[q]
    BY <2>1, <2>2, BoundKept
  <2>3. CASE jobs'[q] # jobs[q]
    <3>1. q = here /\ ~Pending(c, q)' /\ Len(jobs'[q]) = Len(jobs[q]) + 1
      BY <1>4, <2>3
    <3>2. c \in Askers(q) /\ Askers(q)' \subseteq Askers(q) \ {c}
      BY <1>3, <2>1, <3>1 DEF Askers
    <3> QED
      BY <3>1, <3>2, BoundMoved
  <2> QED
    BY <2>2, <2>3
<1>7. \A q \in Requests :
          /\ jobs[q] # <<>> => jobs'[q] # <<>>
          /\ jobs'[q] # <<>> => jobs[q] # <<>> \/ WorksOn(c, q.lecture)
  BY <1>3, <1>4
<1>8. \A q \in Requests : Settled(q) => Settled(q)'
  BY <1>7 DEF Settled
<1>9. Passed' /\ Covered'
  BY <1>2, <1>7, <1>8, NobodyForgets DEF InHalls
<1>10. LiveHasJob'
  BY <1>7 DEF LiveHasJob, InHalls
<1>11. ASSUME ~late'
       PROVE  StartedIsLive' /\ OneCall' /\ PendingIsNew' /\ OneWorks'
  <2>1. StartedIsLive /\ OneCall /\ PendingIsNew /\ OneWorks
    BY <1>11
  <2>2. StartedIsLive'
    <3>1. \A q \in InHalls : \A i \in DOMAIN jobs'[q] :
              jobs'[q][i].at = "started" => i \in DOMAIN jobs[q] /\ jobs[q][i].at = "started"
      BY <1>4 DEF InHalls
    <3> QED
      BY <2>1, <3>1 DEF StartedIsLive
  <2>3. OneCall'
    BY <1>2, <2>1 DEF OneCall
\* Nobody else asks for the version that got a job.
  <2>4. ASSUME NEW q \in InHalls, Working(q)' # Working(q)
        PROVE  /\ q = here /\ Working(q)' = Working(q) \cup {Len(jobs[q]) + 1}
               /\ \A d \in Calls : ~Pending(d, q)'
    <3>1. /\ q = here /\ Working(q)' = Working(q) \cup {Len(jobs[q]) + 1} /\ ~Pending(c, q)'
      BY <1>4, <2>4 DEF InHalls, Working
    <3>2. ASSUME NEW d \in Calls \ {c}, Pending(d, q)'
          PROVE  FALSE
      <4>1. WorksOn(d, q.lecture)
        BY <1>2, <3>2, PendingWorks DEF InHalls
      <4> QED
        BY <1>3, <2>1, <3>1, <4>1 DEF OneCall, InHalls, Requests
    <3> QED
      BY <3>1, <3>2
  <2>5. PendingIsNew'
    BY <1>2, <2>1, <2>4 DEF PendingIsNew, InHalls
  <2>6. OneWorks'
    <3> SUFFICES ASSUME NEW q \in InHalls, NEW i \in Working(q)', NEW j \in Working(q)'
                 PROVE  i = j
      BY DEF OneWorks
    <3>1. CASE Working(q)' = Working(q)
      BY <2>1, <3>1 DEF OneWorks
    <3>2. CASE Working(q)' # Working(q)
      <4>1. Working(q) = {}
        BY <1>3, <2>1, <2>4, <3>2 DEF PendingIsNew
      <4> QED
        BY <2>4, <3>2, <4>1
    <3> QED
      BY <3>1, <3>2
  <2> QED
    BY <2>2, <2>3, <2>5, <2>6
<1> QED
  BY <1>5, <1>6, <1>9, <1>10, <1>11

\* A call begins with lectures of S, there being room for jobs of them.
Begun(c, S) ==
    /\ \A l \in S : Spare(l)
    /\ \E order \in Seq(S) :
          /\ order # <<>>
          /\ \A i, j \in DOMAIN order : order[i] = order[j] => i = j
          /\ todo' = [todo EXCEPT ![c] = order]
    /\ UNCHANGED <<pool, phase, live, next, client, jobs, errors, refused>>

LEMMA BegunKeeps ==
  ASSUME DispatchInv, NEW c \in Calls, Idle(c), NEW S \in SUBSET Lectures, Begun(c, S),
         late' \in BOOLEAN,
         ~late' => /\ ~late
                   /\ \A l \in S \ SelfStreams : phase[l] # "past" /\ ~live[l] /\ ~Underway(l)
  PROVE  DispatchInv'
<1> USE DEF DispatchInv
<1>0. PICK order \in Seq(S) : /\ order # <<>>
                              /\ \A i, j \in DOMAIN order : order[i] = order[j] => i = j
                              /\ todo' = [todo EXCEPT ![c] = order]
  BY DEF Begun
<1>1. UNCHANGED <<up, eligible, phase, live, next, client, jobs, errors, refused>>
  BY DEF Begun, pool
<1>2. /\ todo' \in [Calls -> Seq(Lectures)] /\ next' \in [Calls -> DOMAIN VersionOrder]
      /\ \A d \in Calls \ {c} : todo'[d] = todo[d] /\ next'[d] = next[d]
      /\ \A i, j \in DOMAIN todo'[c] : todo'[c][i] = todo'[c][j] => i = j
      /\ todo'[c] # <<>>
      /\ \A l : ~WorksOn(c, l) /\ (WorksOn(c, l)' => l \in S)
      /\ \A q \in Requests : ~Pending(c, q) /\ (Pending(c, q)' <=> WorksOn(c, q.lecture)')
  BY <1>0, <1>1, CallBegins
<1>3. ASSUME NEW d \in Calls \ {c}
      PROVE  /\ \A q : Pending(d, q)' <=> Pending(d, q)
             /\ \A l : WorksOn(d, l)' <=> WorksOn(d, l)
  BY <1>2, CallFrame
<1>4. Types'
  BY <1>1, <1>2 DEF Types
<1>5. PlaceInv'
  BY <1>1, <1>2, <1>3 DEF PlaceInv
<1>6. JobsFade /\ jobs' = jobs
  BY <1>1, JobsUnchanged
<1>7. BoundInv'
  <2> SUFFICES ASSUME NEW q \in Requests
               PROVE  Len(jobs'[q]) + Cardinality(Askers(q)') <= MaxRequests[q.lecture]
    BY DEF BoundInv
  <2>1. CASE q.lecture \in S
    <3>1. Askers(q)' \subseteq Askers(q) \cup {c} /\ Spare(q.lecture)
      BY <1>3, <2>1 DEF Askers, Begun
    <3> QED
      BY <1>6, <3>1, BoundTaken
  <2>2. CASE q.lecture \notin S
    <3>1. Askers(q)' \subseteq Askers(q)
      BY <1>2, <1>3, <2>2 DEF Askers
    <3> QED
      BY <1>6, <3>1, BoundKept
  <2> QED
    BY <2>1, <2>2
<1>8. Passed' /\ Covered'
  <2>1. \A q : Settled(q) => Settled(q)'
    BY <1>1 DEF Settled
  <2>2. \A q \in InHalls, d \in Calls : Pending(d, q) => Pending(d, q)'
    BY <1>2, <1>3 DEF InHalls
  <2>3. \A q \in InHalls, d \in Calls : WorksOn(d, q.lecture)' => WorksOn(d, q.lecture) \/ Pending(d, q)'
    BY <1>2, <1>3 DEF InHalls
  <2> QED
    BY <1>6, <2>1, <2>2, <2>3, NobodyForgets
<1>9. LiveHasJob'
  BY <1>1 DEF LiveHasJob
<1>10. ASSUME ~late'
       PROVE  StartedIsLive' /\ OneCall' /\ PendingIsNew' /\ OneWorks'
  <2>1. StartedIsLive /\ PendingIsNew /\ OneWorks
    BY <1>10
  <2>2. \A q : Working(q)' = Working(q)
    BY <1>1 DEF Working
  <2>3. StartedIsLive' /\ OneWorks'
    BY <1>1, <2>1, <2>2 DEF StartedIsLive, OneWorks
\* With a call at work, or an accepted job, this one would have come too soon.
  <2>4. OneCall'
    <3>1. \A l \in S \ SelfStreams, d \in Calls : ~WorksOn(d, l)
      BY <1>10 DEF Underway
    <3>2. OneCall
      BY <1>10
    <3> QED
      BY <1>2, <1>3, <3>1, <3>2 DEF OneCall
  <2>5. PendingIsNew'
    <3> SUFFICES ASSUME NEW q \in InHalls, NEW d \in Calls, Pending(d, q)'
                 PROVE  Working(q) = {}
      BY <2>2 DEF PendingIsNew
    <3>1. CASE d # c
      BY <1>3, <2>1, <3>1 DEF PendingIsNew
    <3>2. CASE d = c
      <4>1. q \in Requests /\ q.lecture \in S \ SelfStreams /\ q.lecture \in Lectures
        BY <1>2, <3>2 DEF InHalls
      <4>2. phase[q.lecture] # "past" /\ ~live[q.lecture] /\ ~Underway(q.lecture)
        BY <1>10, <4>1
      <4>3. ASSUME NEW i \in DOMAIN jobs[q], jobs[q][i].at # "over"
            PROVE  FALSE
        <5>1. jobs[q][i].at # "accepted"
          BY <4>1, <4>2, <4>3 DEF Underway
        <5>2. jobs[q][i].at # "started"
          BY <2>1, <4>2, <4>3 DEF StartedIsLive
        <5> QED
          BY <4>1, <4>3, <5>1, <5>2, JobFacts
      <4> QED
        BY <4>3 DEF Working
    <3> QED
      BY <3>1, <3>2
  <2> QED
    BY <2>3, <2>4, <2>5
<1> QED
  BY <1>4, <1>5, <1>7, <1>8, <1>9, <1>10

-----------------------------------------------------------------------------
(* The actions.                                                            *)

LEMMA DispatchInitially == Init => DispatchInv
<1> SUFFICES ASSUME Init PROVE DispatchInv
  OBVIOUS
<1> USE DEF Init
<1>1. 1 \in DOMAIN VersionOrder
  BY OrderFacts
<1>2. Types
  <2>1. errors \in 0 .. MaxErrors
    BY BoundsTyped
  <2>2. jobs \in [Requests -> Seq(JobStates)] /\ todo \in [Calls -> Seq(Lectures)]
    OBVIOUS
  <2> QED
    BY <1>1, <2>1, <2>2 DEF Types
<1>3. PlaceInv
  BY DEF PlaceInv
<1>4. \A c \in Calls : \A q : ~Pending(c, q) /\ ~WorksOn(c, q.lecture)
  BY DEF Pending, WorksOn, Range
<1>5. BoundInv
  <2> SUFFICES ASSUME NEW q \in Requests
               PROVE  Len(jobs[q]) + Cardinality(Askers(q)) <= MaxRequests[q.lecture]
    BY DEF BoundInv
  <2>1. Askers(q) = {} /\ Len(jobs[q]) = 0
    BY <1>4 DEF Askers
  <2>2. MaxRequests[q.lecture] \in Nat
    BY BoundsTyped, RequestFacts
  <2> QED
    BY <2>1, <2>2, FS_EmptySet
<1>6. \A q \in InHalls : jobs[q] = <<>> /\ Working(q) = {}
  BY DEF InHalls, Working
<1>7. Passed /\ Covered /\ LiveHasJob
  BY <1>4, <1>6 DEF Passed, Covered, LiveHasJob
<1>8. StartedIsLive /\ PendingIsNew /\ OneWorks
  BY <1>6 DEF StartedIsLive, PendingIsNew, OneWorks
<1>9. OneCall
  BY DEF OneCall, WorksOn, Range
<1> QED
  BY <1>2, <1>3, <1>5, <1>7, <1>8, <1>9 DEF DispatchInv

LEMMA TriggerKeeps ==
  ASSUME DispatchInv, NEW c \in Calls, TriggerDueStreams(c)
  PROVE  DispatchInv'
<1> DEFINE S == {l \in Lectures : Due(l) /\ Spare(l)}
<1>1. /\ Idle(c)
      /\ late' = (late \/ \E l \in Lectures \ SelfStreams : Underway(l))
      /\ UNCHANGED <<pool, phase, live, next, client, jobs, errors, refused>>
  BY DEF TriggerDueStreams
<1>2. PICK order \in SetToSeqs(S) : order # <<>> /\ todo' = [todo EXCEPT ![c] = order]
  BY DEF TriggerDueStreams
<1>3. Cardinality(S) \in Nat
  BY BoundsTyped, FS_Subset, FS_CardinalityType
<1>4. /\ order \in [1 .. Cardinality(S) -> S]
      /\ \A i, j \in 1 .. Cardinality(S) : i # j => order[i] # order[j]
  BY DEF SetToSeqs
<1>5. order \in Seq(S) /\ \A i, j \in DOMAIN order : order[i] = order[j] => i = j
  <2>1. order \in Seq(S) /\ DOMAIN order = 1 .. Cardinality(S)
    BY <1>3, <1>4
  <2> QED
    BY <1>4, <2>1
<1>6. Begun(c, S)
  BY <1>1, <1>2, <1>5 DEF Begun
<1>7. late' \in BOOLEAN
  BY <1>1 DEF DispatchInv, Types
<1>8. ~late' => /\ ~late
                /\ \A l \in S \ SelfStreams : phase[l] # "past" /\ ~live[l] /\ ~Underway(l)
  BY <1>1 DEF Due
<1> QED
  BY <1>1, <1>6, <1>7, <1>8, BegunKeeps

LEMMA PublishKeeps ==
  ASSUME DispatchInv, NEW c \in Calls, NEW l \in Lectures, OnPublish(c, l)
  PROVE  DispatchInv'
<1>1. Idle(c) /\ Spare(l) /\ l \in SelfStreams
  BY DEF OnPublish
<1>2. <<l>> \in Seq({l}) /\ <<l>> # <<>> /\ \A i, j \in DOMAIN <<l>> : <<l>>[i] = <<l>>[j] => i = j
  OBVIOUS
<1>3. Begun(c, {l})
  BY <1>1, <1>2 DEF OnPublish, Begun
<1>4. late' = late /\ late \in BOOLEAN
  BY DEF OnPublish, DispatchInv, Types
<1> QED
  BY <1>1, <1>3, <1>4, BegunKeeps

LEMMA SkipKeeps ==
  ASSUME DispatchInv, NEW c \in Calls, SkipLecture(c)
  PROVE  DispatchInv'
<1> DEFINE h == Head(todo[c])
<1>1. Types /\ PlaceInv /\ ~Idle(c) /\ NextLecture(c) /\ client[c] = None
  BY DEF SkipLecture, DispatchInv
<1>2. /\ refused' = refused \cup {q \in Requests : q.lecture = h}
      /\ errors < MaxErrors /\ errors' = errors + 1
      /\ UNCHANGED <<up, eligible, phase, live, client, jobs, late>>
  BY DEF SkipLecture, Err, pool
<1>3. Types'
  BY <1>1, <1>2, LectureLeft, BoundsTyped DEF Types
<1>4. \A q \in InHalls : Pending(c, q) => Pending(c, q)' \/ Settled(q)'
  BY <1>1, <1>2, LectureLeft DEF Settled, InHalls
<1>5. Asked(c)
  BY <1>1, <1>2, <1>4, LectureLeft DEF Asked
<1> QED
  BY <1>1, <1>3, <1>5, AskedKeeps

LEMMA NoClientKeeps ==
  ASSUME DispatchInv, NEW c \in Calls, NoClient(c)
  PROVE  DispatchInv'
<1>1. Types /\ PlaceInv /\ ~Idle(c) /\ GoOn(c) /\ client[c] = None
  BY DEF NoClient, DispatchInv
<1>2. /\ refused' = refused \cup {Present(c)}
      /\ UNCHANGED <<up, eligible, phase, live, client, jobs, errors, late>>
  BY DEF NoClient, pool
<1>3. Types'
  BY <1>1, <1>2, LoopGoesOn, PresentFacts DEF Types
<1>4. \A q \in InHalls : Pending(c, q) => Pending(c, q)' \/ Settled(q)'
  BY <1>1, <1>2, LoopGoesOn DEF Settled
<1>5. Asked(c)
  BY <1>1, <1>2, <1>4, LoopGoesOn DEF Asked
<1> QED
  BY <1>1, <1>3, <1>5, AskedKeeps

LEMMA RequestFailsKeepsInv ==
  ASSUME DispatchInv, NEW c \in Calls, RequestFails(c)
  PROVE  DispatchInv'
<1>1. Types /\ PlaceInv /\ ~Idle(c) /\ GoOn(c)
  BY DEF RequestFails, DispatchInv, PlaceInv, Idle
<1>2. /\ refused' = refused \cup {Present(c)}
      /\ client' = [client EXCEPT ![c] = None]
      /\ errors' \in 0 .. MaxErrors
      /\ UNCHANGED <<up, eligible, phase, live, jobs, late>>
  BY <1>1, BoundsTyped DEF RequestFails, Err, pool, Types
<1>3. Types'
  BY <1>1, <1>2, LoopGoesOn, PresentFacts DEF Types
<1>4. \A q \in InHalls : Pending(c, q) => Pending(c, q)' \/ Settled(q)'
  BY <1>1, <1>2, LoopGoesOn DEF Settled
<1>5. client'[c] = None /\ \A d \in Calls \ {c} : client'[d] = client[d]
  BY <1>1, <1>2 DEF Types
<1>6. Asked(c)
  BY <1>1, <1>2, <1>4, <1>5, LoopGoesOn DEF Asked
<1> QED
  BY <1>1, <1>3, <1>6, AskedKeeps

LEMMA RequestKeeps ==
  ASSUME DispatchInv, NEW c \in Calls, RequestStreamVersion(c)
  PROVE  DispatchInv'
<1>1. Types /\ PlaceInv /\ ~Idle(c) /\ client[c] \in Runners /\ GoOn(c)
  BY DEF RequestStreamVersion, DispatchInv, Types, PlaceInv, Idle
<1>2. PICK q \in Requests : q = Present(c)
  BY <1>1, PresentFacts
<1>3. /\ JobAccepted(q, client[c])
      /\ client' = [client EXCEPT ![c] = None]
      /\ UNCHANGED <<up, eligible, phase, live, errors, refused, late>>
  BY <1>2 DEF RequestStreamVersion, JobAccepted, pool
<1>4. jobs' \in [Requests -> Seq(JobStates)] /\ jobs'[q] # <<>> /\ \A p \in Requests \ {q} : jobs'[p] = jobs[p]
  BY <1>1, <1>3, JobAdded
<1>5. Types'
  BY <1>1, <1>3, <1>4, LoopGoesOn DEF Types
<1>6. \A p \in InHalls : Pending(c, p) => Pending(c, p)' \/ Settled(p)'
  BY <1>1, <1>2, <1>4, LoopGoesOn DEF Settled
<1>7. client'[c] = None /\ \A d \in Calls \ {c} : client'[d] = client[d]
  BY <1>1, <1>3 DEF Types
<1>8. ~Pending(c, q)'
  BY <1>1, <1>2, LoopGoesOn
<1>9. Asked(c)
  BY <1>1, <1>2, <1>3, <1>6, <1>7, <1>8, LoopGoesOn DEF Asked
<1> QED
  BY <1>1, <1>5, <1>9, AskedKeeps

LEMMA ReportKeeps ==
  ASSUME DispatchInv, NEW q \in Requests, NEW i \in DOMAIN jobs[q], ReportStart(q, i)
  PROVE  DispatchInv'
<1>1. /\ Moves(q, i, "accepted", "started")
      /\ UNCHANGED <<up, eligible, phase, todo, next, client, refused>>
      /\ \/ live' = [live EXCEPT ![q.lecture] = TRUE] /\ UNCHANGED <<errors, late>>
         \/ Err /\ late' = TRUE /\ UNCHANGED live
  BY DEF ReportStart, pool, place
<1>2. Types
  BY DEF DispatchInv
<1>3. /\ jobs' \in [Requests -> Seq(JobStates)] /\ JobsFade
      /\ \A p \in Requests : \A j \in DOMAIN jobs[p] :
            jobs'[p][j].at = IF p = q /\ j = i THEN "started" ELSE jobs[p][j].at
  BY <1>1, <1>2, JobMoves
<1>4. errors' \in 0 .. MaxErrors
  BY <1>1, <1>2, BoundsTyped DEF Err, Types
<1>5. Types'
  BY <1>1, <1>2, <1>3, <1>4, RequestFacts DEF Types
<1>6. Quiet
  BY <1>1, <1>3 DEF Quiet, place, DispatchInv, PlaceInv
<1>7. LiveHasJob'
  <2> SUFFICES ASSUME NEW l \in Lectures \ SelfStreams, live'[l]
               PROVE  \E p \in InHalls : p.lecture = l /\ jobs'[p] # <<>>
    BY DEF LiveHasJob
  <2>1. CASE live[l]
    BY <1>3, <2>1 DEF LiveHasJob, DispatchInv, JobsFade, InHalls
  <2>2. CASE ~live[l]
    <3>1. q.lecture = l
      BY <1>1, <1>2, <2>2 DEF Types
    <3>2. jobs[q] # <<>>
      OBVIOUS
    <3> QED
      BY <1>3, <3>1, <3>2 DEF InHalls, JobsFade
  <2> QED
    BY <2>1, <2>2
<1>8. ASSUME ~late'
      PROVE  StartedIsLive'
  <2>1. StartedIsLive /\ live' = [live EXCEPT ![q.lecture] = TRUE] /\ phase' = phase
    BY <1>1, <1>8 DEF DispatchInv
  <2>2. live'[q.lecture] /\ \A l \in Lectures : live[l] => live'[l]
    BY <1>2, <2>1, RequestFacts DEF Types
  <2> SUFFICES ASSUME NEW p \in InHalls, NEW j \in DOMAIN jobs'[p], jobs'[p][j].at = "started"
               PROVE  live'[p.lecture] \/ phase[p.lecture] = "past"
    BY <2>1 DEF StartedIsLive
  <2>3. p \in Requests /\ p.lecture \in Lectures /\ DOMAIN jobs'[p] = DOMAIN jobs[p]
    BY <1>2, <1>3, <1>5, JobDomains, RequestFacts DEF InHalls
  <2>4. CASE p = q /\ j = i
    BY <2>2, <2>4
  <2>5. CASE ~(p = q /\ j = i)
    <3>1. jobs[p][j].at = "started"
      BY <1>3, <2>3, <2>5
    <3> QED
      BY <2>1, <2>2, <2>3, <3>1 DEF StartedIsLive
  <2> QED
    BY <2>4, <2>5
<1> QED
  BY <1>5, <1>6, <1>7, <1>8, QuietKeeps

LEMMA EndKeeps ==
  ASSUME DispatchInv, NEW q \in Requests, NEW i \in DOMAIN jobs[q], EndJob(q, i)
  PROVE  DispatchInv'
<1>1. /\ Moves(q, i, "started", "over")
      /\ phase[q.lecture] = "past"
      /\ live' = [live EXCEPT ![q.lecture] = FALSE]
      /\ UNCHANGED <<up, eligible, phase, todo, next, client, errors, refused, late>>
  BY DEF EndJob, pool, place
<1>2. Types
  BY DEF DispatchInv
<1>3. /\ jobs' \in [Requests -> Seq(JobStates)] /\ JobsFade
      /\ \A p \in Requests : \A j \in DOMAIN jobs[p] :
            jobs'[p][j].at = IF p = q /\ j = i THEN "over" ELSE jobs[p][j].at
  BY <1>1, <1>2, JobMoves
<1>4. Types'
  BY <1>1, <1>2, <1>3, RequestFacts DEF Types
<1>5. Quiet
  BY <1>1, <1>3 DEF Quiet, place, DispatchInv, PlaceInv
<1>6. \A l \in Lectures : live'[l] = (live[l] /\ l # q.lecture)
  BY <1>1, <1>2 DEF Types
<1>7. LiveHasJob'
  BY <1>3, <1>6 DEF LiveHasJob, DispatchInv, JobsFade, InHalls
<1>8. ASSUME ~late'
      PROVE  StartedIsLive'
  <2> SUFFICES ASSUME NEW p \in InHalls, NEW j \in DOMAIN jobs'[p], jobs'[p][j].at = "started"
               PROVE  live'[p.lecture] \/ phase'[p.lecture] = "past"
    BY DEF StartedIsLive
  <2>1. p \in Requests /\ p.lecture \in Lectures /\ DOMAIN jobs'[p] = DOMAIN jobs[p]
    BY <1>2, <1>3, <1>4, JobDomains, RequestFacts DEF InHalls
  <2>2. jobs[p][j].at = "started"
    BY <1>3, <2>1
  <2>3. live[p.lecture] \/ phase[p.lecture] = "past"
    BY <1>1, <1>8, <2>1, <2>2 DEF StartedIsLive, DispatchInv
  <2> QED
    BY <1>1, <1>6, <2>1, <2>3
<1> QED
  BY <1>4, <1>5, <1>7, <1>8, QuietKeeps

LEMMA AbortKeeps ==
  ASSUME DispatchInv, NEW q \in Requests, NEW i \in DOMAIN jobs[q], AbortJob(q, i)
  PROVE  DispatchInv'
<1>1. /\ Moves(q, i, "accepted", "over")
      /\ live' = [live EXCEPT ![q.lecture] = FALSE]
      /\ errors < MaxErrors /\ errors' = errors + 1
      /\ late' = TRUE
      /\ UNCHANGED <<up, eligible, phase, todo, next, client, refused>>
  BY DEF AbortJob, Err, pool, place
<1>2. Types
  BY DEF DispatchInv
<1>3. jobs' \in [Requests -> Seq(JobStates)] /\ JobsFade
  BY <1>1, <1>2, JobMoves
<1>4. errors' \in 0 .. MaxErrors
  BY <1>1, <1>2, BoundsTyped DEF Types
<1>5. Types'
  BY <1>1, <1>2, <1>3, <1>4, RequestFacts DEF Types
<1>6. Quiet
  BY <1>1, <1>3 DEF Quiet, place, DispatchInv, PlaceInv
<1>7. \A l \in Lectures : live'[l] = (live[l] /\ l # q.lecture)
  BY <1>1, <1>2 DEF Types
<1>8. LiveHasJob'
  BY <1>3, <1>7 DEF LiveHasJob, DispatchInv, JobsFade, InHalls
<1> QED
  BY <1>1, <1>5, <1>6, <1>8, QuietKeeps

LEMMA StopKeeps ==
  ASSUME DispatchInv, NEW r \in Runners, Stop(r)
  PROVE  DispatchInv'
<1>1. /\ up' = up \ {r}
      /\ errors < MaxErrors /\ errors' = errors + 1
      /\ UNCHANGED <<eligible, phase, live, todo, next, client, refused, late>>
  BY DEF Stop, Err, place
<1>2. Types
  BY DEF DispatchInv
<1>3. /\ jobs' \in [Requests -> Seq(JobStates)] /\ JobsFade
      /\ \A p \in Requests : \A j \in DOMAIN jobs[p] : jobs'[p][j].at \in {jobs[p][j].at, "over"}
  BY <1>2, RunnerStops
<1>4. errors' \in 0 .. MaxErrors
  BY <1>1, <1>2, BoundsTyped DEF Types
<1>5. Types'
  BY <1>1, <1>2, <1>3, <1>4 DEF Types
<1>6. Quiet
  BY <1>1, <1>3 DEF Quiet, place, DispatchInv, PlaceInv
<1>7. LiveHasJob'
  BY <1>1, <1>3 DEF LiveHasJob, DispatchInv, JobsFade, InHalls
<1>8. ASSUME ~late'
      PROVE  StartedIsLive'
  <2> SUFFICES ASSUME NEW p \in InHalls, NEW j \in DOMAIN jobs'[p], jobs'[p][j].at = "started"
               PROVE  live'[p.lecture] \/ phase'[p.lecture] = "past"
    BY DEF StartedIsLive
  <2>1. p \in Requests /\ DOMAIN jobs'[p] = DOMAIN jobs[p]
    BY <1>2, <1>3, <1>5, JobDomains DEF InHalls
  <2>2. jobs[p][j].at = "started"
    BY <1>3, <2>1
  <2> QED
    BY <1>1, <1>8, <2>1, <2>2 DEF StartedIsLive, DispatchInv
<1> QED
  BY <1>5, <1>6, <1>7, <1>8, QuietKeeps

\* What concerns neither the calls' places nor the jobs.
LEMMA OthersKeep ==
  ASSUME DispatchInv,
         \/ \E c \in Calls : GetClient(c)
         \/ \E r \in Runners : Start(r) \/ Retire(r) \/ Enlist(r)
         \/ \E l \in Lectures : Clock(l)
         \/ UNCHANGED vars
  PROVE  DispatchInv'
<1>1. Types
  BY DEF DispatchInv
<1>2. UNCHANGED <<todo, next, live, jobs, errors, refused, late>>
  BY DEF GetClient, Start, Retire, Enlist, Clock, vars, place
<1>3. up' \subseteq Runners /\ eligible' \subseteq Runners
  BY <1>1 DEF Types, GetClient, Start, Retire, Enlist, Clock, vars, pool
<1>4. /\ client' \in [Calls -> Runners \cup {None}]
      /\ \A c \in Calls : client'[c] # None => todo[c] # <<>>
  <2>1. CASE \E c \in Calls : GetClient(c)
    BY <1>1, <2>1 DEF GetClient, Types, PlaceInv, DispatchInv, Idle
  <2>2. CASE client' = client
    BY <1>1, <2>2 DEF Types, PlaceInv, DispatchInv
  <2> QED
    BY <2>1, <2>2 DEF Start, Retire, Enlist, Clock, vars
<1>5. /\ phase' \in [Lectures -> {"early", "due", "past"}]
      /\ \A l \in Lectures : phase[l] = "past" => phase'[l] = "past"
  <2>1. CASE \E l \in Lectures : Clock(l)
    BY <1>1, <2>1 DEF Clock, Types
  <2>2. CASE phase' = phase
    BY <1>1, <2>2 DEF Types
  <2> QED
    BY <2>1, <2>2 DEF GetClient, Start, Retire, Enlist, vars
<1>6. Types'
  BY <1>1, <1>2, <1>3, <1>4, <1>5 DEF Types
<1>7. Quiet
  BY <1>1, <1>2, <1>4, JobsUnchanged DEF Quiet, place
<1>8. LiveHasJob'
  BY <1>2 DEF LiveHasJob, DispatchInv
<1>9. ~late' => StartedIsLive'
  BY <1>2, <1>5, RequestFacts DEF StartedIsLive, DispatchInv, InHalls
<1> QED
  BY <1>6, <1>7, <1>8, <1>9, QuietKeeps

LEMMA DispatchStep == DispatchInv /\ [Next]_vars => DispatchInv'
<1> SUFFICES ASSUME DispatchInv, [Next]_vars PROVE DispatchInv'
  OBVIOUS
<1>1. ASSUME NEW c \in Calls, Call(c) PROVE DispatchInv'
  BY <1>1, TriggerKeeps, PublishKeeps, SkipKeeps, NoClientKeeps, RequestKeeps,
     RequestFailsKeepsInv, OthersKeep DEF Call, Work
<1>2. ASSUME NEW q \in Requests, NEW i \in DOMAIN jobs[q], JobStep(q, i) PROVE DispatchInv'
  BY <1>2, ReportKeeps, EndKeeps, AbortKeeps DEF JobStep
<1>3. ASSUME NEW r \in Runners, Stop(r) \/ Start(r) \/ Retire(r) \/ Enlist(r) PROVE DispatchInv'
  BY <1>3, StopKeeps, OthersKeep
<1>4. ASSUME NEW l \in Lectures, Clock(l) PROVE DispatchInv'
  BY <1>4, OthersKeep
<1>5. CASE UNCHANGED vars
  BY <1>5, OthersKeep
<1> QED
  BY <1>1, <1>2, <1>3, <1>4, <1>5 DEF Next

LEMMA DispatchInvariant == Spec => []DispatchInv
  BY DispatchInitially, DispatchStep, PTL DEF Spec

-----------------------------------------------------------------------------
(* Dispatch: the theorems.                                                   *)

\* The state of Dispatch is typed: a call that has reserved a runner has a lecture to
\* ask it for, and the calls give no version more jobs than there was room for.
THEOREM DispatchTypeCorrect == Spec => []TypeOK
<1>1. DispatchInv => TypeOK
  <2> SUFFICES ASSUME DispatchInv PROVE TypeOK
    OBVIOUS
  <2>1. ASSUME NEW q \in Requests
        PROVE  Len(jobs[q]) <= MaxRequests[q.lecture]
    <3>1. /\ Len(jobs[q]) + Cardinality(Askers(q)) <= MaxRequests[q.lecture]
          /\ Len(jobs[q]) \in Nat
      BY JobFacts DEF DispatchInv, BoundInv
    <3>2. Cardinality(Askers(q)) \in Nat /\ MaxRequests[q.lecture] \in Nat
      BY AskersFinite, BoundsTyped, RequestFacts
    <3> QED
      BY <3>1, <3>2
  <2> QED
    BY <2>1 DEF TypeOK, Types, DispatchInv, PlaceInv
<1> QED
  BY <1>1, DispatchInvariant, PTL

\* However many passes and calls of the hook are under way, a version is
\* recorded by two jobs only after a pass that came before a start was saved, a
\* report that was lost, or an abort.
THEOREM OneJobCorrect == Spec => []OneJobEach
<1>1. DispatchInv => OneJobEach
  <2> SUFFICES ASSUME DispatchInv, ~late, NEW q \in InHalls
               PROVE  Cardinality(Working(q)) <= 1
    BY DEF OneJobEach, InHalls
  <2>1. \A i, j \in Working(q) : i = j
    BY DEF DispatchInv, OneWorks
  <2>2. CASE Working(q) = {}
    BY <2>2, FS_EmptySet
  <2>3. CASE Working(q) # {}
    <3>1. PICK i : Working(q) = {i}
      BY <2>1, <2>3
    <3> QED
      BY <3>1, FS_Singleton
  <2> QED
    BY <2>2, <2>3
<1> QED
  BY <1>1, DispatchInvariant, PTL

\* Of a lecture that is live, and that no call works on, every version has had a
\* job or was refused one, whatever failed on the way.
THEOREM MissingCorrect == Spec => []MissingWasRefused
<1>1. DispatchInv => MissingWasRefused
  <2> SUFFICES ASSUME DispatchInv, NEW q \in InHalls, live[q.lecture],
                      \A c \in Calls : ~WorksOn(c, q.lecture)
               PROVE  Settled(q)
    BY DEF MissingWasRefused, InHalls, Settled
  <2>1. PICK p \in InHalls : p.lecture = q.lecture /\ jobs[p] # <<>>
    BY RequestFacts DEF DispatchInv, LiveHasJob, InHalls
  <2>2. \A c \in Calls : ~Pending(c, q)
    BY PendingWorks DEF DispatchInv, InHalls
  <2> QED
    BY <2>1, <2>2 DEF DispatchInv, Covered
<1> QED
  BY <1>1, DispatchInvariant, PTL

-----------------------------------------------------------------------------
(* RunnerNotifications: nothing is lost while retries are left and no signal *)
(* came.                                                                     *)

\* What the senders hand over is a notification.
LEMMA NotificationsTyped ==
    /\ \A r \in Reports : [report |-> r] \in Notifications
    /\ Beat("heartbeat") \in Notifications /\ Beat("draining heartbeat") \in Notifications
    /\ Heartbeat["alive"] = "heartbeat" /\ Heartbeat["drains"] = "draining heartbeat"
    /\ CurrentBeat \in Notifications
BY DEF Notifications, Beat, CurrentBeat, Heartbeat, Heartbeats

\* The steps of the senders: a job, the heartbeat goroutine, Drain, the signal
\* and the end of handleNotifications.
SenderStep ==
    \/ \E r \in Reports : JobReports(r)
    \/ HeartbeatStep \/ DrainStep \/ NotifierStops \/ Signal

\* A sender hands what it sends, if anything, to delivery goroutines, and
\* touches nothing else of the deliveries.
LEMMA SenderHandsOver ==
    ASSUME DeliveryTypeOK, SenderStep
    PROVE  /\ \E S \in SUBSET Notifications : sent' = sent \cup S /\ waiting' = waiting \cup S
           /\ UNCHANGED <<calling, processed, budget>>
           /\ ctxDone => ctxDone'
<1>1. ASSUME NEW n \in Notifications, Receive(n)
      PROVE  /\ \E S \in SUBSET Notifications : sent' = sent \cup S /\ waiting' = waiting \cup S
             /\ UNCHANGED <<calling, processed, budget>>
  <2>1. sent' = sent \cup {n} /\ waiting' = waiting \cup {n}
    BY <1>1 DEF Receive
  <2> QED
    BY <1>1, <2>1 DEF Receive
<1>2. ASSUME UNCHANGED <<sent, waiting>>
      PROVE  \E S \in SUBSET Notifications : sent' = sent \cup S /\ waiting' = waiting \cup S
  <2>1. sent' = sent \cup {} /\ waiting' = waiting \cup {}
    BY <1>2
  <2> QED
    BY <2>1
<1>3. CASE \E r \in Reports : JobReports(r)
  <2>1. PICK r \in Reports : JobReports(r)
    BY <1>3
  <2>2. Receive([report |-> r]) /\ UNCHANGED ctxDone
    BY <2>1 DEF JobReports
  <2> QED
    BY <1>1, <2>2, NotificationsTyped
<1>4. CASE HeartbeatSends
  BY <1>1, <1>4, NotificationsTyped DEF HeartbeatSends
<1>5. CASE DrainSends
  BY <1>1, <1>5, NotificationsTyped DEF DrainSends
<1>6. CASE HeartbeatTicks \/ HeartbeatStops \/ DrainBegins \/ NotifierStops \/ Signal
  <2>1. UNCHANGED <<sent, waiting, calling, processed, budget>> /\ (ctxDone => ctxDone')
    BY <1>6 DEF HeartbeatTicks, HeartbeatStops, DrainBegins, NotifierStops, Signal, sendVars
  <2> QED
    BY <1>2, <2>1
<1> QED
  BY <1>3, <1>4, <1>5, <1>6 DEF SenderStep, HeartbeatStep, DrainStep

-----------------------------------------------------------------------------
\* What is handed over, under way and handled are notifications, and the
\* shared retries are never overdrawn.
THEOREM DeliveryTypeCorrect == DeliverySpec => []DeliveryTypeOK
<1>1. DeliveryInit => DeliveryTypeOK
  <2> SUFFICES ASSUME DeliveryInit PROVE DeliveryTypeOK
    OBVIOUS
  <2>1. budget \in 0 .. RetryBudget
    BY RetryBudgetNat DEF DeliveryInit
  <2> QED
    BY <2>1 DEF DeliveryInit, DeliveryTypeOK
<1>2. DeliveryTypeOK /\ [DeliveryNext]_deliveryVars => DeliveryTypeOK'
  <2> SUFFICES ASSUME DeliveryTypeOK, [DeliveryNext]_deliveryVars PROVE DeliveryTypeOK'
    OBVIOUS
  <2>1. CASE SenderStep
    <3>1. UNCHANGED notifier \/ notifier' = "stopped"
      BY <2>1 DEF SenderStep, HeartbeatStep, DrainStep, JobReports, HeartbeatTicks, HeartbeatSends,
                  HeartbeatStops, DrainBegins, DrainSends, NotifierStops, Signal, Receive
    <3>2. /\ ticker' \in {"waiting", "alive", "drains", "stopped"}
          /\ draining' \in BOOLEAN /\ drain' \in {"no", "sending", "done"} /\ ctxDone' \in BOOLEAN
      BY <2>1 DEF SenderStep, HeartbeatStep, DrainStep, JobReports, HeartbeatTicks, HeartbeatSends,
                  HeartbeatStops, DrainBegins, DrainSends, NotifierStops, Signal, sendVars, DeliveryTypeOK
    <3> QED
      BY <2>1, <3>1, <3>2, SenderHandsOver DEF DeliveryTypeOK
  <2>2. ASSUME NEW n \in Notifications, Delivery(n) PROVE DeliveryTypeOK'
    BY <2>2, RetryBudgetNat DEF Delivery, Attempt, GiveUp, Answered, AttemptFails, sendVars, DeliveryTypeOK
  <2>3. CASE UNCHANGED deliveryVars
    BY <2>3 DEF deliveryVars, sendVars, DeliveryTypeOK
  <2> QED
    BY <2>1, <2>2, <2>3 DEF DeliveryNext, SenderStep
<1> QED
  BY <1>1, <1>2, PTL DEF DeliverySpec

\* A delivery ends by reaching gocast, by running out of the retries of the
\* process, or by the signal; in no other way.
THEOREM DeliveryCorrect == DeliverySpec => []NoSilentLoss
<1>1. DeliveryInit => NoSilentLoss
  BY DEF DeliveryInit, NoSilentLoss
<1>2. DeliveryTypeOK /\ NoSilentLoss /\ [DeliveryNext]_deliveryVars => NoSilentLoss'
  <2> SUFFICES ASSUME DeliveryTypeOK, NoSilentLoss, [DeliveryNext]_deliveryVars PROVE NoSilentLoss'
    OBVIOUS
  <2>1. CASE SenderStep
    BY <2>1, SenderHandsOver DEF NoSilentLoss, DeliveryTypeOK
  <2>2. ASSUME NEW n \in Notifications, Delivery(n) PROVE NoSilentLoss'
    <3>1. CASE Attempt(n) \/ GiveUp(n) \/ Answered(n)
      BY <3>1 DEF Attempt, GiveUp, Answered, NoSilentLoss
    <3>2. CASE AttemptFails(n)
      BY <3>2, RetryBudgetNat DEF AttemptFails, NoSilentLoss, DeliveryTypeOK
    <3> QED
      BY <2>2, <3>1, <3>2 DEF Delivery
  <2>3. CASE UNCHANGED deliveryVars
    BY <2>3 DEF deliveryVars, NoSilentLoss
  <2> QED
    BY <2>1, <2>2, <2>3 DEF DeliveryNext, SenderStep
<1> QED
  BY <1>1, <1>2, DeliveryTypeCorrect, PTL DEF DeliverySpec
=============================================================================
