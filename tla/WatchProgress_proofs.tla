------------------------ MODULE WatchProgress_proofs ------------------------
(***************************************************************************)
(* Proofs about WatchProgress, for any viewings, positions, silences and    *)
(* buffer: the types, that only the viewer takes a watched mark away, that  *)
(* buffer and upserts implement WatchRecord, and that a viewer resumes      *)
(* where the player was last.                                               *)
(***************************************************************************)
EXTENDS WatchProgress, TLAPS

-----------------------------------------------------------------------------
\* A filter by index lies within the buffer, whose reports have their type.
LEMMA FilterInBuffer ==
    ASSUME TypeOK, NEW i \in DOMAIN progresses
    PROVE  progresses[i] \in Reports
BY DEF TypeOK

\* An upsert writes well-formed rows, and takes no mark.
LEMMA UpsertKeepsMarks ==
    ASSUME TypeOK, NEW w \in BOOLEAN, Upsert(w)
    PROVE  /\ row' \in [Viewings -> [progress : Positions \cup {0}, watched : BOOLEAN]]
           /\ \A k \in Viewings : row[k].watched => row'[k].watched
<1>1. PICK last \in [Touched(w) -> DOMAIN progresses] :
          row' = [k \in Viewings |-> IF k \notin Touched(w) THEN row[k] ELSE
                     [progress |-> progresses[last[k]].progress,
                      watched  |-> w \/ row[k].watched]]
  BY DEF Upsert
<1>2. \A k \in Touched(w) : progresses[last[k]] \in Reports
  BY FilterInBuffer
<1>3. \A k \in Viewings : (w \/ row[k].watched) \in BOOLEAN
  OBVIOUS
<1> QED
  BY <1>1, <1>2, <1>3 DEF TypeOK, Reports

\* A report of the player has its type.
LEMMA ReportTyped ==
    ASSUME NEW k \in Viewings, NEW p \in Positions
    PROVE  [viewing |-> k, progress |-> p, watched |-> Watched(k, p)] \in Reports
<1>1. Watched(k, p) \in BOOLEAN
  BY DEF Watched
<1> QED
  BY <1>1 DEF Reports

-----------------------------------------------------------------------------
LEMMA TouchedAreViewings == Touched(TRUE) \subseteq Viewings /\ Touched(FALSE) \subseteq Viewings
BY DEF Touched

LEMMA EmptyTyped == <<>> \in Seq(Reports) /\ Len(<<>>) = 0
OBVIOUS

\* A failing statement counts as a fault.
LEMMA FailsTyped ==
    ASSUME TypeOK, NEW w \in BOOLEAN, Fails(w)
    PROVE  faults' \in 0 .. MaxFaults /\ disturbed' \subseteq Viewings
<1>1. disturbed' = disturbed \cup Touched(w) /\ faults < MaxFaults /\ faults' = faults + 1
  BY DEF Fails
<1>2. Touched(w) \subseteq Viewings
  BY DEF Touched
<1> QED
  BY <1>1, <1>2, BoundsNat DEF TypeOK

LEMMA InitTypeOK == Init => TypeOK
BY BoundsNat DEF Init, TypeOK, NoRow

LEMMA NextTypeOK == TypeOK /\ [Next]_vars => TypeOK'
<1> SUFFICES ASSUME TypeOK, [Next]_vars PROVE TypeOK'
  OBVIOUS
<1> USE BoundsNat DEF TypeOK
<1>1. ASSUME NEW k \in Viewings, NEW p \in Positions, SaveProgress(k, p) PROVE TypeOK'
  <2> DEFINE r == [viewing |-> k, progress |-> p, watched |-> Watched(k, p)]
  <2>1. r \in Reports
    BY ReportTyped
  <2>2. progresses' = Append(progresses, r) /\ Len(progresses) < MaxBuffer
    BY <1>1 DEF SaveProgress
  <2> HIDE DEF r
  <2>3. progresses' \in Seq(Reports) /\ Len(progresses') <= MaxBuffer
    BY <2>1, <2>2
  <2>4. latest' \in [Viewings -> Positions \cup {0}] /\ disturbed' \subseteq Viewings
    BY <1>1 DEF SaveProgress
  <2> QED
    BY <1>1, <2>3, <2>4 DEF SaveProgress
<1>2. ASSUME NEW k \in Viewings, NEW w \in BOOLEAN, MarkWatched(k, w) PROVE TypeOK'
  BY <1>2 DEF MarkWatched
<1>3. ASSUME NEW r \in Reports, UpdateProgress(r) PROVE TypeOK'
  <2>1. r.viewing \in Viewings /\ r.progress \in Positions /\ r.watched \in BOOLEAN
    BY DEF Reports
  <2>2. \A k \in Viewings : (r.watched \/ row[k].watched) \in BOOLEAN
    OBVIOUS
  <2>3. row' \in [Viewings -> [progress : Positions \cup {0}, watched : BOOLEAN]]
    BY <1>3, <2>1, <2>2 DEF UpdateProgress
  <2> QED
    BY <1>3, <2>1, <2>3 DEF UpdateProgress
<1>4. CASE Flush
  BY <1>4 DEF Flush
<1>5. ASSUME SaveUnwatched PROVE TypeOK'
  <2>1. row' \in [Viewings -> [progress : Positions \cup {0}, watched : BOOLEAN]]
    BY <1>5, UpsertKeepsMarks DEF SaveUnwatched, Fails
  <2>2. faults' \in 0 .. MaxFaults /\ disturbed' \subseteq Viewings
    BY <1>5, FailsTyped DEF SaveUnwatched
  <2>3. progresses' \in {progresses, <<>>} /\ flushing' \in {"watched", "no"} /\ latest' = latest
        /\ (flushing' # "no" => progresses' # <<>>)
    BY <1>5 DEF SaveUnwatched
  <2>4. progresses' \in Seq(Reports) /\ Len(progresses') <= MaxBuffer
    <3>1. CASE progresses' = progresses
      BY <3>1
    <3>2. CASE progresses' = <<>>
      BY <3>2, EmptyTyped
    <3> QED
      BY <2>3, <3>1, <3>2
  <2> QED
    BY <2>1, <2>2, <2>3, <2>4
<1>6. ASSUME SaveWatched PROVE TypeOK'
  <2>1. row' \in [Viewings -> [progress : Positions \cup {0}, watched : BOOLEAN]]
    BY <1>6, UpsertKeepsMarks DEF SaveWatched, Fails
  <2>2. faults' \in 0 .. MaxFaults /\ disturbed' \subseteq Viewings
    BY <1>6, FailsTyped DEF SaveWatched
  <2>3. progresses' \in {progresses, <<>>} /\ flushing' \in {"watched", "no"} /\ latest' = latest
        /\ (flushing' # "no" => progresses' # <<>>)
    BY <1>6 DEF SaveWatched
  <2>4. progresses' \in Seq(Reports) /\ Len(progresses') <= MaxBuffer
    <3>1. CASE progresses' = progresses
      BY <3>1
    <3>2. CASE progresses' = <<>>
      BY <3>2, EmptyTyped
    <3> QED
      BY <2>3, <3>1, <3>2
  <2> QED
    BY <2>1, <2>2, <2>3, <2>4
<1>7. CASE Restart
  <2>1. faults' \in 0 .. MaxFaults
    BY <1>7 DEF Restart
  <2>2. disturbed' \subseteq Viewings
    BY <1>7, TouchedAreViewings DEF Restart
  <2>3. progresses' \in Seq(Reports) /\ Len(progresses') <= MaxBuffer
    <3>1. progresses' = <<>>
      BY <1>7 DEF Restart
    <3> QED
      BY <3>1, EmptyTyped
  <2> QED
    BY <1>7, <2>1, <2>2, <2>3 DEF Restart
<1>8. CASE UNCHANGED vars
  BY <1>8 DEF vars
<1> QED
  BY <1>1, <1>2, <1>3, <1>4, <1>5, <1>6, <1>7, <1>8 DEF Next

\* The types hold in every state.
THEOREM TypeCorrect == Spec => []TypeOK
BY InitTypeOK, NextTypeOK, PTL DEF Spec

-----------------------------------------------------------------------------
\* Only the viewer's mark takes a watched mark away, whatever is buffered,
\* fails or restarts.
THEOREM MarksKept == Spec => MarkKept
<1>1. ASSUME TypeOK, [Next]_vars
      PROVE  [\A k \in Viewings :
                  row[k].watched /\ ~row'[k].watched => MarkWatched(k, FALSE)]_vars
  <2> SUFFICES ASSUME Next, NEW k \in Viewings, row[k].watched, ~row'[k].watched
               PROVE  MarkWatched(k, FALSE)
    BY <1>1
  <2>1. ASSUME row' = row PROVE FALSE
    BY <2>1
  <2>2. ASSUME NEW l \in Viewings, NEW w \in BOOLEAN, MarkWatched(l, w)
        PROVE  MarkWatched(k, FALSE)
    <3>1. l = k /\ w = FALSE
      BY <1>1, <2>2 DEF MarkWatched, TypeOK
    <3> QED
      BY <2>2, <3>1
  <2>3. ASSUME NEW r \in Reports, UpdateProgress(r) PROVE FALSE
    BY <1>1, <2>3 DEF UpdateProgress, TypeOK, Reports
  <2>4. ASSUME NEW w \in BOOLEAN, Upsert(w) PROVE FALSE
    BY <1>1, <2>4, UpsertKeepsMarks
  <2>5. ASSUME SaveUnwatched \/ SaveWatched PROVE FALSE
    BY <2>1, <2>4, <2>5 DEF SaveUnwatched, SaveWatched, Fails
  <2>6. ASSUME NEW l \in Viewings, NEW p \in Positions, SaveProgress(l, p) PROVE FALSE
    BY <2>1, <2>6 DEF SaveProgress
  <2>7. ASSUME Flush \/ Restart PROVE FALSE
    BY <2>1, <2>7 DEF Flush, Restart
  <2> QED
    BY <2>2, <2>3, <2>5, <2>6, <2>7 DEF Next
<1> QED
  BY <1>1, TypeCorrect, PTL DEF Spec, MarkKept
-----------------------------------------------------------------------------
\* What a statement takes out of Pending: the reports of its filter.
Batch(w) == {progresses[i] : i \in Filtered(w)}

LEMMA PendingSplit ==
    ASSUME TypeOK
    PROVE  /\ flushing # "watched" => Pending = Batch(FALSE) \cup Batch(TRUE)
           /\ flushing = "watched" => Pending = Batch(TRUE)
           /\ Pending \subseteq Reports
<1>1. \A i \in DOMAIN progresses :
          /\ progresses[i] \in Reports
          /\ progresses[i].watched = TRUE \/ progresses[i].watched = FALSE
  BY FilterInBuffer DEF Reports
<1> QED
  BY <1>1 DEF Pending, Batch, Filtered

LEMMA BatchesDisjoint == TypeOK => (Batch(FALSE) \cup Batch(TRUE)) \ Batch(FALSE) = Batch(TRUE)
<1>1. \A r \in Batch(FALSE) : r.watched = FALSE
  BY DEF Batch, Filtered
<1>2. \A r \in Batch(TRUE) : r.watched = TRUE
  BY DEF Batch, Filtered
<1> QED
  BY <1>1, <1>2

\* An upsert settles its batch.
LEMMA UpsertSettles ==
    ASSUME TypeOK, TypeOK', NEW w \in BOOLEAN, Upsert(w), NEW k \in Viewings
    PROVE  Record!SettledBy(k, {r \in Batch(w) : r.viewing = k})
<1>1. PICK last \in [Touched(w) -> DOMAIN progresses] :
          /\ \A l \in Touched(w) : IsLast(last[l], l, w)
          /\ row' = [l \in Viewings |-> IF l \notin Touched(w) THEN row[l] ELSE
                     [progress |-> progresses[last[l]].progress,
                      watched  |-> w \/ row[l].watched]]
  BY DEF Upsert
<1> DEFINE mine == {r \in Batch(w) : r.viewing = k}
<1>2. CASE k \in Touched(w)
  <2>1. progresses[last[k]] \in mine /\ progresses[last[k]].watched = w
    BY <1>1, <1>2 DEF IsLast, Batch, Filtered
  <2>2. row'[k] = [progress |-> progresses[last[k]].progress,
                   watched  |-> progresses[last[k]].watched \/ row[k].watched]
    BY <1>1, <1>2, <2>1
  <2> QED
    BY <2>1, <2>2 DEF Record!SettledBy
<1>3. CASE k \notin Touched(w)
  <2>1. mine = {}
    BY <1>3 DEF Touched, Buffered, Batch, Filtered
  <2>2. row'[k] = row[k]
    BY <1>1, <1>3
  <2> QED
    BY <2>1, <2>2 DEF Record!SettledBy
<1> QED
  BY <1>2, <1>3

\* A statement settles its batch, or loses it, or has nothing to do.
LEMMA StatementStep ==
    ASSUME TypeOK, TypeOK', NEW w \in BOOLEAN, Upsert(w) \/ Fails(w),
           Batch(w) \subseteq Pending, Pending' = Pending \ Batch(w)
    PROVE  [Record!Next]_Record!vars
<1>1. CASE Fails(w)
  BY <1>1 DEF Fails, Record!Next, Record!Lose
<1>2. CASE Upsert(w) /\ Batch(w) # {}
  <2>1. \A r \in Batch(w) : r.watched = w
    BY DEF Batch, Filtered
  <2>2. row' \in [Viewings -> Record!Records]
    BY <1>2, UpsertKeepsMarks DEF Record!Records
  <2>3. Record!Settle(Batch(w), w)
    BY <1>2, <2>1, <2>2, UpsertSettles DEF Record!Settle
  <2> QED
    BY <2>3 DEF Record!Next
<1>3. CASE Upsert(w) /\ Batch(w) = {}
  <2>1. \A k \in Viewings : row'[k] = row[k]
    BY <1>3, UpsertSettles DEF Record!SettledBy
  <2>2. row' = row
    BY <2>1 DEF TypeOK
  <2> QED
    BY <1>3, <2>2 DEF Record!vars
<1> QED
  BY <1>1, <1>2, <1>3

\* Every step of buffer and upserts is one of the record, or none.
LEMMA StepRefines == TypeOK /\ TypeOK' /\ [Next]_vars => [Record!Next]_Record!vars
<1> SUFFICES ASSUME TypeOK, TypeOK', [Next]_vars PROVE [Record!Next]_Record!vars
  OBVIOUS
<1>1. ASSUME NEW k \in Viewings, NEW p \in Positions, SaveProgress(k, p)
      PROVE  Record!Next
  <2> DEFINE r == [viewing |-> k, progress |-> p, watched |-> Watched(k, p)]
  <2>1. r \in Reports
    BY ReportTyped
  <2>2. /\ progresses' = Append(progresses, r) /\ flushing = "no" /\ flushing' = "no"
        /\ row' = row
    BY <1>1 DEF SaveProgress
  <2> HIDE DEF r
  <2>3. Pending = {progresses[i] : i \in DOMAIN progresses}
    BY <2>2 DEF Pending
  <2>4. Pending' = {progresses'[i] : i \in DOMAIN progresses'}
    BY <2>2 DEF Pending
  <2>5. /\ DOMAIN progresses' = DOMAIN progresses \cup {Len(progresses) + 1}
        /\ \A i \in DOMAIN progresses : progresses'[i] = progresses[i]
        /\ progresses'[Len(progresses) + 1] = r
    BY <2>1, <2>2 DEF TypeOK
  <2>6. Pending' = Pending \cup {r}
    BY <2>3, <2>4, <2>5
  <2>7. r \in Record!Reports
    BY <2>1 DEF Reports, Record!Reports
  <2> QED
    BY <2>2, <2>6, <2>7 DEF Record!Next, Record!Accept
<1>2. ASSUME NEW k \in Viewings, NEW w \in BOOLEAN, MarkWatched(k, w) PROVE Record!Next
  <2>1. Pending' = Pending
    BY <1>2 DEF MarkWatched, Pending
  <2> QED
    BY <1>2, <2>1 DEF MarkWatched, Record!Next, Record!Mark
<1>3. ASSUME NEW r \in Reports, UpdateProgress(r) PROVE Record!Next
  <2>1. Pending' = Pending
    BY <1>3 DEF UpdateProgress, Pending
  <2> QED
    BY <1>3, <2>1 DEF UpdateProgress, Record!Next, Record!SettleOwn, Reports, Record!Reports
<1>4. CASE Flush \/ UNCHANGED vars
  <2>1. row' = row /\ progresses' = progresses /\ (flushing' = "watched" <=> flushing = "watched")
    BY <1>4 DEF Flush, vars
  <2>2. Pending' = Pending
    BY <2>1 DEF Pending
  <2> QED
    BY <2>1, <2>2 DEF Record!vars
<1>5. CASE SaveUnwatched
  <2>1. progresses' = progresses /\ flushing # "watched" /\ flushing' = "watched"
    BY <1>5 DEF SaveUnwatched
  <2>2. Batch(TRUE)' = Batch(TRUE)
    BY <2>1 DEF Batch, Filtered
  <2>3. Pending = Batch(FALSE) \cup Batch(TRUE)
    BY <2>1, PendingSplit
  <2>4. Pending' = Batch(TRUE)
    <3>1. Pending' = {progresses[i] : i \in {j \in DOMAIN progresses : progresses[j].watched}}
      BY <2>1 DEF Pending
    <3>2. \A j \in DOMAIN progresses : progresses[j].watched \in BOOLEAN
      BY FilterInBuffer DEF Reports
    <3> QED
      BY <3>1, <3>2 DEF Batch, Filtered
  <2>5. Pending' = Pending \ Batch(FALSE) /\ Batch(FALSE) \subseteq Pending
    BY <2>3, <2>4, BatchesDisjoint
  <2>6. Upsert(FALSE) \/ Fails(FALSE)
    BY <1>5 DEF SaveUnwatched
  <2> QED
    BY <2>5, <2>6, StatementStep
<1>6. CASE SaveWatched
  <2>1. progresses' = <<>> /\ flushing = "watched"
    BY <1>6 DEF SaveWatched
  <2>2. Pending' = {}
    BY <2>1 DEF Pending
  <2>3. Pending = Batch(TRUE)
    BY <2>1, PendingSplit
  <2>4. Upsert(TRUE) \/ Fails(TRUE)
    BY <1>6 DEF SaveWatched
  <2> QED
    BY <2>2, <2>3, <2>4, StatementStep
<1>7. CASE Restart
  <2>1. Pending' = {} /\ row' = row
    BY <1>7 DEF Restart, Pending
  <2> QED
    BY <2>1 DEF Record!Next, Record!Lose
<1> QED
  BY <1>1, <1>2, <1>3, <1>4, <1>5, <1>6, <1>7 DEF Next

\* Buffer and upserts implement the record a viewer is promised.
THEOREM RecordImplemented == Spec => ImplementsRecord
<1>1. Init => Record!Init
  BY DEF Init, NoRow, Pending, Record!Init
<1> QED
  BY <1>1, StepRefines, TypeCorrect, PTL DEF Spec, ImplementsRecord, Record!Spec

-----------------------------------------------------------------------------
(* ResumesAtLatest. *)

\* While nothing disturbed a viewing, the report that is written last is its latest
\* one: the last watched report in the buffer, or else the last unwatched one; and
\* with neither left to write the row holds it already.
LatestWins == \A k \in Viewings \ disturbed :
    /\ \A i \in DOMAIN progresses :
          IsLast(i, k, TRUE) \/ (~Buffered(k, TRUE) /\ IsLast(i, k, FALSE))
              => progresses[i].progress = latest[k]
    /\ ~Buffered(k, TRUE) /\ (Buffered(k, FALSE) => flushing = "watched")
           => row[k].progress = latest[k]

\* A new report is the last one of its viewing, and changes nothing for others.
LEMMA ReportLast ==
    ASSUME TypeOK, LatestWins, NEW k \in Viewings, NEW p \in Positions, SaveProgress(k, p)
    PROVE  LatestWins'
<1> DEFINE r == [viewing |-> k, progress |-> p, watched |-> Watched(k, p)]
           n == Len(progresses) + 1
<1>1. r \in Reports /\ r.viewing = k /\ r.progress = p
  BY ReportTyped
<1>2. /\ progresses' = Append(progresses, r)
      /\ latest' = [latest EXCEPT ![k] = p]
      /\ disturbed' = IF ~r.watched /\ Buffered(k, TRUE) THEN disturbed \cup {k} ELSE disturbed \ {k}
      /\ flushing = "no" /\ flushing' = "no" /\ row' = row
  BY DEF SaveProgress
<1> HIDE DEF r
<1>3. /\ DOMAIN progresses' = DOMAIN progresses \cup {n}
      /\ \A i \in DOMAIN progresses : progresses'[i] = progresses[i] /\ i <= n /\ i # n
      /\ progresses'[n] = r /\ n \in Nat
      /\ DOMAIN progresses \subseteq Nat
  BY <1>1, <1>2 DEF TypeOK
<1> HIDE DEF n
<1>4. ASSUME NEW l \in Viewings, NEW w \in BOOLEAN
      PROVE  Buffered(l, w)' <=> Buffered(l, w) \/ (l = k /\ r.watched = w)
  BY <1>1, <1>3 DEF Buffered
<1>5. ASSUME NEW l \in Viewings \ disturbed', l # k PROVE LatestWins!(l)'
  <2>1. \A w \in BOOLEAN : Buffered(l, w)' <=> Buffered(l, w)
    BY <1>4, <1>5
  <2>2. \A w \in BOOLEAN : \A i \in DOMAIN progresses' :
            IsLast(i, l, w)' => i \in DOMAIN progresses /\ IsLast(i, l, w)
    BY <1>1, <1>3, <1>5 DEF IsLast, Filtered
  <2>3. l \in Viewings \ disturbed /\ latest'[l] = latest[l] /\ row'[l] = row[l]
    BY <1>2, <1>5 DEF TypeOK
  <2>4. flushing' = flushing
    BY <1>2
  <2>5. \A i \in DOMAIN progresses : progresses'[i] = progresses[i]
    BY <1>3
  <2> QED
    BY <2>1, <2>2, <2>3, <2>4, <2>5 DEF LatestWins
<1>6. ASSUME k \notin disturbed' PROVE LatestWins!(k)'
  <2>1. r.watched \in BOOLEAN /\ (r.watched = TRUE \/ ~Buffered(k, TRUE))
    BY <1>1, <1>2, <1>6 DEF Reports
  <2>2. Buffered(k, r.watched)'
    BY <1>4, <2>1
  <2>3. \A i \in DOMAIN progresses' : IsLast(i, k, r.watched)' => i = n
    BY <1>1, <1>3 DEF IsLast, Filtered
  <2>4. r.watched = FALSE => ~Buffered(k, TRUE)'
    BY <1>4, <2>1
  <2>5. \A i \in DOMAIN progresses' :
            IsLast(i, k, TRUE)' => Buffered(k, TRUE)'
    BY DEF IsLast, Filtered, Buffered
  <2>6. progresses'[n].progress = latest'[k]
    BY <1>1, <1>2, <1>3 DEF TypeOK
  <2> QED
    BY <1>2, <2>1, <2>2, <2>3, <2>4, <2>5, <2>6
<1> QED
  BY <1>5, <1>6 DEF LatestWins

\* A statement writes the last report of each viewing it touches.
LEMMA UpsertWritesLast ==
    ASSUME TypeOK, NEW w \in BOOLEAN, Upsert(w), NEW k \in Viewings
    PROVE  /\ Buffered(k, w) => \E i \in DOMAIN progresses :
                  IsLast(i, k, w) /\ row'[k].progress = progresses[i].progress
           /\ ~Buffered(k, w) => row'[k] = row[k]
BY DEF Upsert, Touched

\* An emptied buffer leaves the rows to hold what is latest.
LEMMA EmptiedLatest ==
    ASSUME progresses' = <<>>, \A k \in Viewings \ disturbed' : row'[k].progress = latest'[k]
    PROVE  LatestWins'
<1>1. \A i \in DOMAIN progresses' : FALSE
  <2>1. DOMAIN progresses' = DOMAIN <<>>
    OBVIOUS
  <2>2. DOMAIN <<>> = {}
    OBVIOUS
  <2> QED
    BY <2>1, <2>2
<1> QED
  BY <1>1 DEF LatestWins

LEMMA LatestStep == TypeOK /\ LatestWins /\ [Next]_vars => LatestWins'
<1> SUFFICES ASSUME TypeOK, LatestWins, [Next]_vars PROVE LatestWins'
  OBVIOUS
<1>1. ASSUME NEW k \in Viewings, NEW w \in BOOLEAN, MarkWatched(k, w) PROVE LatestWins'
  <2>1. UNCHANGED <<progresses, flushing, latest, disturbed>>
    BY <1>1 DEF MarkWatched
  <2>2. \A l \in Viewings : row'[l].progress = row[l].progress
    BY <1>1 DEF MarkWatched, TypeOK
  <2> QED
    BY <2>1, <2>2 DEF LatestWins, IsLast, Buffered, Filtered
<1>2. ASSUME NEW r \in Reports, UpdateProgress(r) PROVE LatestWins'
  <2>1. UNCHANGED <<progresses, flushing, latest>> /\ disturbed' = disturbed \cup {r.viewing}
    BY <1>2 DEF UpdateProgress
  <2>2. \A l \in Viewings \ disturbed' : row'[l] = row[l]
    BY <1>2, <2>1 DEF UpdateProgress, TypeOK
  <2> QED
    BY <2>1, <2>2 DEF LatestWins, IsLast, Buffered, Filtered
<1>3. CASE Flush \/ UNCHANGED vars
  BY <1>3 DEF Flush, vars, LatestWins, IsLast, Buffered, Filtered
<1>4. CASE SaveUnwatched
  <2>1. UNCHANGED <<progresses, latest>> /\ flushing = "unwatched" /\ flushing' = "watched"
    BY <1>4 DEF SaveUnwatched
  <2>2. disturbed \subseteq disturbed'
    BY <1>4 DEF SaveUnwatched, Fails
  <2>3. ASSUME NEW k \in Viewings \ disturbed', ~Buffered(k, TRUE)
        PROVE  row'[k].progress = latest[k]
    <3>1. CASE Fails(FALSE)
      BY <2>1, <2>2, <2>3, <3>1 DEF Fails, Touched, LatestWins
    <3>2. CASE Upsert(FALSE) /\ Buffered(k, FALSE)
      BY <2>2, <2>3, <3>2, UpsertWritesLast DEF LatestWins
    <3>3. CASE Upsert(FALSE) /\ ~Buffered(k, FALSE)
      BY <2>2, <2>3, <3>3, UpsertWritesLast DEF LatestWins
    <3> QED
      BY <1>4, <3>1, <3>2, <3>3 DEF SaveUnwatched
  <2> QED
    BY <2>1, <2>2, <2>3 DEF LatestWins, IsLast, Buffered, Filtered
<1>5. CASE SaveWatched
  <2>1. progresses' = <<>> /\ latest' = latest /\ flushing = "watched"
    BY <1>5 DEF SaveWatched
  <2>2. disturbed \subseteq disturbed'
    BY <1>5 DEF SaveWatched, Fails
  <2>3. ASSUME NEW k \in Viewings \ disturbed' PROVE row'[k].progress = latest[k]
    <3>1. CASE Fails(TRUE)
      BY <2>1, <2>2, <2>3, <3>1 DEF Fails, Touched, LatestWins
    <3>2. CASE Upsert(TRUE) /\ Buffered(k, TRUE)
      BY <2>2, <2>3, <3>2, UpsertWritesLast DEF LatestWins
    <3>3. CASE Upsert(TRUE) /\ ~Buffered(k, TRUE)
      BY <2>1, <2>2, <2>3, <3>3, UpsertWritesLast DEF LatestWins
    <3> QED
      BY <1>5, <3>1, <3>2, <3>3 DEF SaveWatched
  <2> QED
    BY <2>1, <2>3, EmptiedLatest
<1>6. CASE Restart
  <2>1. /\ progresses' = <<>> /\ latest' = latest /\ row' = row
        /\ disturbed' = disturbed \cup Touched(TRUE) \cup Touched(FALSE)
    BY <1>6 DEF Restart
  <2>2. \A k \in Viewings \ disturbed' : k \notin disturbed /\ ~Buffered(k, TRUE) /\ ~Buffered(k, FALSE)
    BY <2>1 DEF Touched
  <2>3. \A k \in Viewings \ disturbed' : row'[k].progress = latest'[k]
    BY <2>1, <2>2 DEF LatestWins
  <2> QED
    BY <2>1, <2>3, EmptiedLatest
<1> QED
  BY <1>1, <1>2, <1>3, <1>4, <1>5, <1>6, ReportLast DEF Next

\* Whatever the order of reports, statements, failures and restarts, a flushed viewing
\* that nothing disturbed is resumed at the last position its player reported.
THEOREM LatestResumed == Spec => []ResumesAtLatest
<1>1. Init => LatestWins
  <2> SUFFICES ASSUME Init PROVE LatestWins
    OBVIOUS
  <2>1. \A i \in DOMAIN progresses : FALSE
    <3>1. DOMAIN <<>> = {}
      OBVIOUS
    <3> QED
      BY <3>1 DEF Init
  <2> QED
    BY <2>1 DEF Init, LatestWins, NoRow
<1>2. LatestWins => ResumesAtLatest
  BY DEF LatestWins, ResumesAtLatest
<1> QED
  BY <1>1, <1>2, LatestStep, TypeCorrect, PTL DEF Spec
=============================================================================
