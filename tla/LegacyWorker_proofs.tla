------------------------- MODULE LegacyWorker_proofs -------------------------
(***************************************************************************)
(* Proofs about LegacyWorker, for any jobs, recordings and bounds: the      *)
(* types, that the workload is exact, that what is in the trash is listed   *)
(* for deletion, and that recordings are kept until they are in the video.  *)
(***************************************************************************)
EXTENDS LegacyWorker, FiniteSetTheorems, TLAPS

\* TypeOK in three parts.
JobTypes ==
    /\ pc \in [Jobs -> PC]
    /\ over \subseteq Jobs /\ stopped \subseteq Jobs /\ discard \subseteq Hall \cup Premieres
    /\ canceled \subseteq Self /\ success \subseteq Jobs
    /\ regular \subseteq {j \in Hall \cup Premieres : pc[j] \notin {"none", "new"}}
    /\ selfCtx \in [Recordings -> Self \cup {NoCtx}]
    /\ workload \in Int

FileTypes ==
    /\ made \subseteq Pieces
    /\ file \in [Recordings -> SUBSET made]
    /\ trash \in [Recordings -> SUBSET made]
    /\ vod \in [Recordings -> SUBSET made]
    /\ input \in [Jobs -> SUBSET made]
    /\ \A j \in Jobs : input[j] # {} => pc[j] = "transcoding"
    /\ runs \in [Jobs -> Nat]
    /\ \A p \in made : p.run <= runs[p.job]

ListTypes ==
    /\ deletable \subseteq Entries
    /\ snapshot # Idle => snapshot \subseteq Entries
    /\ errs \in 0 .. MaxErrs
    /\ overtaken \subseteq Recordings
    /\ slipped \subseteq Recordings

LEMMA TypeParts == TypeOK <=> JobTypes /\ FileTypes /\ ListTypes
  BY DEF TypeOK, JobTypes, FileTypes, ListTypes

LEMMA TypePartsNext == TypeOK' <=> JobTypes' /\ FileTypes' /\ ListTypes'
  BY TypeParts, PTL

\* A job that has begun moves on; it does not leave its transcoding with input.
LEMMA MoveTyped ==
  ASSUME JobTypes, FileTypes, NEW j \in Jobs, NEW s \in PC \ {"none", "new"}, To(j, s)
  PROVE  /\ pc' \in [Jobs -> PC]
         /\ {i \in Hall \cup Premieres : pc[i] \notin {"none", "new"}}
                \subseteq {i \in Hall \cup Premieres : pc'[i] \notin {"none", "new"}}
         /\ pc[j] # "transcoding" => \A i \in Jobs : input[i] # {} => pc'[i] = "transcoding"
  BY DEF To, JobTypes, FileTypes, Jobs

LEMMA TypeInit == Init => TypeOK
  BY JobsTyped DEF Init, TypeOK, Idle, PC, Jobs, NoCtx

LEMMA RequestTyped == ASSUME TypeOK, NEW j \in Jobs, Request(j) PROVE TypeOK'
<1> USE DEF TypeOK, To, flags, contexts, files, list
<1>1. CASE HandleStreamRequest(j)
  BY <1>1 DEF HandleStreamRequest, PC, costStream
<1>2. CASE OnPublish(j)
  <2> USE <1>2 DEF OnPublish
  <2>1. RecordingOf[j] \in Recordings
    BY DEF Recordings
  <2>2. {selfCtx[RecordingOf[j]]} \cap Self \subseteq Self /\ Self \subseteq Jobs
    BY DEF Jobs
  <2>3. overtaken' \subseteq Recordings
    BY <2>1
  <2>4. (\A i \in Jobs : input[i] # {} => pc[i] = "transcoding")'
    OBVIOUS
  <2>5. workload' \in Int
    BY DEF costStream
  <2> QED
    BY <2>1, <2>2, <2>3, <2>4, <2>5 DEF PC
<1>3. CASE HandleUploadRestReq(j)
  <2> USE <1>3 DEF HandleUploadRestReq
  <2>1. Piece(j, 0) \in Pieces
    BY DEF Piece, Pieces
  <2>2. RecordingOf[j] \in Recordings
    BY DEF Recordings
  <2>3. (\A p \in made : p.run <= runs[p.job])'
    BY DEF Piece, Pieces
  <2> QED
    BY <2>1, <2>2, <2>3 DEF PC
<1>4. CASE HandlePremiere(j)
  BY <1>4 DEF HandlePremiere, PC, costStream
<1>5. CASE HandleThumbnailRequest(j)
  BY <1>5 DEF HandleThumbnailRequest, PC, costThumbnailGeneration
<1> QED
  BY <1>1, <1>2, <1>3, <1>4, <1>5 DEF Request

LEMMA JobStepTyped == ASSUME TypeOK, NEW j \in Jobs, JobStep(j) PROVE TypeOK'
<1> USE DEF flags, contexts, files, list, Goes, Err, PC, Recording, Cancelable,
      costStream, costTranscoding, costTranscodingAudio, costThumbnailGeneration,
      costSilenceDetection
<1>0. RecordingOf[j] \in Recordings /\ JobTypes /\ FileTypes /\ ListTypes
  BY TypeParts DEF Recordings
<1>1. CASE Prepare(j)
  <2> USE <1>1 DEF Prepare
  <2>1. Piece(j, runs[j] + 1) \in Pieces
    BY <1>0 DEF Piece, Pieces, FileTypes
  <2>2. runs' \in [Jobs -> Nat] /\ \A i \in Jobs : runs[i] <= runs'[i]
    BY <1>0 DEF FileTypes
  <2>3. \A p \in made : p.job \in Jobs /\ p.run \in Nat
    BY <1>0 DEF Pieces, FileTypes
  <2>4. (\A p \in made : p.run <= runs[p.job])'
    BY <1>0, <2>2, <2>3 DEF Piece, FileTypes
  <2>5. made' \subseteq Pieces /\ made \subseteq made' /\ file' \in [Recordings -> SUBSET made']
    BY <1>0, <2>1 DEF FileTypes
  <2>6. /\ pc' = [pc EXCEPT ![j] = "starting"] /\ To(j, "starting")
        /\ pc[j] # "transcoding" /\ "starting" \in PC
    BY DEF To
  <2>11. JobTypes'
    BY <1>0, <2>6, MoveTyped DEF JobTypes
  <2>12. FileTypes'
    BY <1>0, <2>2, <2>4, <2>5, <2>6, MoveTyped DEF FileTypes
  <2>13. ListTypes'
    BY JobsTyped, <1>0 DEF ListTypes
  <2> QED
    BY <2>11, <2>12, <2>13, TypePartsNext
<1>2. CASE StartFfmpeg(j)
  <2>11. JobTypes'
    BY <1>2, <1>0, MoveTyped DEF StartFfmpeg, JobTypes
  <2>12. FileTypes'
    BY <1>2, <1>0, MoveTyped DEF StartFfmpeg, FileTypes
  <2>13. ListTypes'
    BY JobsTyped, <1>2, <1>0, MoveTyped DEF StartFfmpeg, ListTypes
  <2> QED
    BY <2>11, <2>12, <2>13, TypePartsNext
<1>3. CASE FfmpegExits(j)
  <2>11. JobTypes'
    BY <1>3, <1>0, MoveTyped DEF FfmpegExits, JobTypes
  <2>12. FileTypes'
    BY <1>3, <1>0, MoveTyped DEF FfmpegExits, FileTypes
  <2>13. ListTypes'
    BY JobsTyped, <1>3, <1>0, MoveTyped DEF FfmpegExits, ListTypes
  <2> QED
    BY <2>11, <2>12, <2>13, TypePartsNext
<1>4. CASE SkipVoD(j)
  <2>11. JobTypes'
    BY <1>4, <1>0, MoveTyped DEF SkipVoD, JobTypes
  <2>12. FileTypes'
    BY <1>4, <1>0, MoveTyped DEF SkipVoD, FileTypes
  <2>13. ListTypes'
    BY JobsTyped, <1>4, <1>0, MoveTyped DEF SkipVoD, ListTypes
  <2> QED
    BY <2>11, <2>12, <2>13, TypePartsNext
<1>5. CASE Canceled(j)
  <2>11. JobTypes'
    BY <1>5, <1>0, MoveTyped DEF Canceled, JobTypes
  <2>12. FileTypes'
    BY <1>5, <1>0, MoveTyped DEF Canceled, FileTypes
  <2>13. ListTypes'
    BY JobsTyped, <1>5, <1>0, MoveTyped DEF Canceled, ListTypes
  <2> QED
    BY <2>11, <2>12, <2>13, TypePartsNext
<1>6. CASE LoopEnds(j)
  <2>11. JobTypes'
    BY <1>6, <1>0, MoveTyped DEF LoopEnds, StreamEnds, JobTypes
  <2>12. FileTypes'
    BY <1>6, <1>0, MoveTyped DEF LoopEnds, StreamEnds, FileTypes
  <2>13. ListTypes'
    BY JobsTyped, <1>6, <1>0, MoveTyped DEF LoopEnds, StreamEnds, ListTypes
  <2> QED
    BY <2>11, <2>12, <2>13, TypePartsNext
<1>7. CASE Register(j)
  <2>11. JobTypes'
    BY <1>7, <1>0, MoveTyped DEF Register, JobTypes
  <2>12. FileTypes'
    BY <1>7, <1>0, MoveTyped DEF Register, FileTypes
  <2>13. ListTypes'
    BY JobsTyped, <1>7, <1>0, MoveTyped DEF Register, ListTypes
  <2> QED
    BY <2>11, <2>12, <2>13, TypePartsNext
<1>8. CASE StartTranscoding(j)
  <2>11. JobTypes'
    BY <1>8, <1>0, MoveTyped DEF StartTranscoding, To, JobTypes
  <2>12. FileTypes'
    BY <1>8, <1>0, MoveTyped DEF StartTranscoding, To, FileTypes
  <2>13. ListTypes'
    BY JobsTyped, <1>8, <1>0, MoveTyped DEF StartTranscoding, To, ListTypes
  <2> QED
    BY <2>11, <2>12, <2>13, TypePartsNext
<1>9. CASE Transcoded(j)
  <2>11. JobTypes'
    BY <1>9, <1>0, MoveTyped DEF Transcoded, TranscodingEnds, To, JobTypes
  <2>12. FileTypes'
    BY <1>9, <1>0, MoveTyped DEF Transcoded, TranscodingEnds, To, FileTypes
  <2>13. ListTypes'
    BY JobsTyped, <1>9, <1>0, MoveTyped DEF Transcoded, TranscodingEnds, To, ListTypes
  <2> QED
    BY <2>11, <2>12, <2>13, TypePartsNext
<1>10. CASE TranscodingFails(j)
  <2>11. JobTypes'
    BY <1>10, <1>0, MoveTyped DEF TranscodingFails, TranscodingEnds, To, JobTypes
  <2>12. FileTypes'
    BY <1>10, <1>0, MoveTyped DEF TranscodingFails, TranscodingEnds, To, FileTypes
  <2>13. ListTypes'
    BY JobsTyped, <1>10, <1>0, MoveTyped DEF TranscodingFails, TranscodingEnds, To, ListTypes
  <2> QED
    BY <2>11, <2>12, <2>13, TypePartsNext
<1>11. CASE StartAudio(j)
  <2>11. JobTypes'
    BY <1>11, <1>0, MoveTyped DEF StartAudio, JobTypes
  <2>12. FileTypes'
    BY <1>11, <1>0, MoveTyped DEF StartAudio, FileTypes
  <2>13. ListTypes'
    BY JobsTyped, <1>11, <1>0, MoveTyped DEF StartAudio, ListTypes
  <2> QED
    BY <2>11, <2>12, <2>13, TypePartsNext
<1>12. CASE StartThumbs(j)
  <2>11. JobTypes'
    BY <1>12, <1>0, MoveTyped DEF StartThumbs, JobTypes
  <2>12. FileTypes'
    BY <1>12, <1>0, MoveTyped DEF StartThumbs, FileTypes
  <2>13. ListTypes'
    BY JobsTyped, <1>12, <1>0, MoveTyped DEF StartThumbs, ListTypes
  <2> QED
    BY <2>11, <2>12, <2>13, TypePartsNext
<1>13. CASE StartSilence(j)
  <2>11. JobTypes'
    BY <1>13, <1>0, MoveTyped DEF StartSilence, JobTypes
  <2>12. FileTypes'
    BY <1>13, <1>0, MoveTyped DEF StartSilence, FileTypes
  <2>13. ListTypes'
    BY JobsTyped, <1>13, <1>0, MoveTyped DEF StartSilence, ListTypes
  <2> QED
    BY <2>11, <2>12, <2>13, TypePartsNext
<1>14. CASE NotMarked(j)
  <2>1. To(j, "done") /\ workload' \in Int /\ pc[j] # "transcoding" /\ "done" \in PC
    BY <1>14, <1>0 DEF NotMarked, Finish, JobTypes, Deferred
  <2>11. JobTypes'
    BY <1>14, <1>0, <2>1, MoveTyped DEF NotMarked, JobTypes
  <2>12. FileTypes'
    BY <1>14, <1>0, <2>1, MoveTyped DEF NotMarked, FileTypes
  <2>13. ListTypes'
    BY JobsTyped, <1>14, <1>0, <2>1, MoveTyped DEF NotMarked, ListTypes
  <2> QED
    BY <2>11, <2>12, <2>13, TypePartsNext
<1>15. CASE MarkForDeletion(j)
  <2>11. JobTypes'
    BY <1>15, <1>0, MoveTyped DEF MarkForDeletion, JobTypes
  <2>12. FileTypes'
    BY <1>15, <1>0, MoveTyped DEF MarkForDeletion, FileTypes
  <2>13. ListTypes'
    BY JobsTyped, <1>15, <1>0, MoveTyped DEF MarkForDeletion, ListTypes
  <2> QED
    BY <2>11, <2>12, <2>13, TypePartsNext
<1>16. CASE AddDeletable(j)
  <2>1. To(j, "done") /\ workload' \in Int /\ pc[j] # "transcoding" /\ "done" \in PC
    BY <1>16, <1>0 DEF AddDeletable, Finish, JobTypes, Deferred
  <2>11. JobTypes'
    BY <1>16, <1>0, <2>1, MoveTyped DEF AddDeletable, Entries, JobTypes
  <2>12. FileTypes'
    BY <1>16, <1>0, <2>1, MoveTyped DEF AddDeletable, Entries, FileTypes
  <2>13. ListTypes'
    <3>1. [file |-> RecordingOf[j], job |-> j, old |-> FALSE] \in Entries
      BY <1>0 DEF Entries
    <3>2. deletable' \subseteq Entries /\ slipped' \subseteq Recordings
      BY <1>16, <1>0, <3>1 DEF AddDeletable, ListTypes
    <3> QED
      BY <1>16, <1>0, <3>2 DEF AddDeletable, ListTypes
  <2> QED
    BY <2>11, <2>12, <2>13, TypePartsNext
<1>17. CASE MoveFile(j)
  <2>11. JobTypes'
    BY <1>17, <1>0, MoveTyped DEF MoveFile, JobTypes
  <2>12. FileTypes'
    BY <1>17, <1>0, MoveTyped DEF MoveFile, FileTypes
  <2>13. ListTypes'
    BY JobsTyped, <1>17, <1>0, MoveTyped DEF MoveFile, ListTypes
  <2> QED
    BY <2>11, <2>12, <2>13, TypePartsNext
<1>18. CASE RemoveUpload(j)
  <2>1. To(j, "done") /\ workload' \in Int /\ pc[j] # "transcoding" /\ "done" \in PC
    BY <1>18, <1>0 DEF RemoveUpload, Finish, JobTypes, Deferred
  <2>11. JobTypes'
    BY <1>18, <1>0, <2>1, MoveTyped DEF RemoveUpload, JobTypes
  <2>12. FileTypes'
    BY <1>18, <1>0, <2>1, MoveTyped DEF RemoveUpload, FileTypes
  <2>13. ListTypes'
    BY JobsTyped, <1>18, <1>0, <2>1, MoveTyped DEF RemoveUpload, ListTypes
  <2> QED
    BY <2>11, <2>12, <2>13, TypePartsNext
<1>19. CASE Played(j)
  <2>11. JobTypes'
    BY <1>19, <1>0, MoveTyped DEF Played, JobTypes
  <2>12. FileTypes'
    BY <1>19, <1>0, MoveTyped DEF Played, FileTypes
  <2>13. ListTypes'
    BY JobsTyped, <1>19, <1>0, MoveTyped DEF Played, ListTypes
  <2> QED
    BY <2>11, <2>12, <2>13, TypePartsNext
<1> QED
  BY <1>1, <1>2, <1>3, <1>4, <1>5, <1>6, <1>7, <1>8, <1>9, <1>10, <1>11, <1>12, <1>13, <1>14, <1>15, <1>16, <1>17, <1>18, <1>19
  DEF JobStep

LEMMA OthersTyped ==
  ASSUME TypeOK,
         \/ \E j \in Jobs : SelfOffline(j) \/ Over(j)
         \/ \E s, d : EndStreams(s, d)
         \/ \E e \in deletable : DayPasses(e)
         \/ Hourly
         \/ Restart
  PROVE  TypeOK'
<1> USE DEF TypeOK, To, flags, contexts, files, list
<1>1. ASSUME NEW j \in Jobs, SelfOffline(j) PROVE TypeOK'
  BY <1>1 DEF SelfOffline, StreamEnds, PC, costStream
<1>2. ASSUME NEW j \in Jobs, Over(j) PROVE TypeOK'
  BY <1>2 DEF Over
<1>3. ASSUME NEW s, NEW d, EndStreams(s, d) PROVE TypeOK'
  BY <1>3 DEF EndStreams, PC, Recording, Jobs
<1>4. ASSUME NEW e \in deletable, DayPasses(e) PROVE TypeOK'
  BY <1>4 DEF DayPasses, Entries
<1>5. CASE ReadDeletables
  BY <1>5 DEF ReadDeletables
<1>6. CASE SetDeletables
  <2>0. JobTypes /\ FileTypes /\ ListTypes
    BY TypeParts
  <2>1. JobTypes'
    BY <1>6, <2>0 DEF SetDeletables, JobTypes
  <2>2. FileTypes'
    BY <1>6, <2>0 DEF SetDeletables, FileTypes
  <2>3. {e.file : e \in {d \in snapshot : d.old}} \subseteq Recordings
    BY <1>6, <2>0 DEF SetDeletables, ListTypes, Entries
  <2>4. ListTypes'
    BY JobsTyped, <1>6, <2>0, <2>3 DEF SetDeletables, ListTypes, Err, Entries
  <2> QED
    BY <2>1, <2>2, <2>4, TypePartsNext
<1>7. CASE Restart
  <2>0. JobTypes /\ FileTypes /\ ListTypes
    BY TypeParts
  <2>1. pc' \in [Jobs -> PC]
    BY <1>7, <2>0 DEF Restart, JobTypes, PC
  <2>2. JobTypes'
    BY <1>7, <2>0, <2>1 DEF Restart, JobTypes
  <2>3. FileTypes'
    BY <1>7, <2>0 DEF Restart, FileTypes
  <2>4. ListTypes'
    BY JobsTyped, <1>7, <2>0 DEF Restart, ListTypes, Err, Recordings
  <2> QED
    BY <2>2, <2>3, <2>4, TypePartsNext
<1> QED
  BY <1>1, <1>2, <1>3, <1>4, <1>5, <1>6, <1>7 DEF Hourly

LEMMA TypeStep == TypeOK /\ [Next]_vars => TypeOK'
<1> SUFFICES ASSUME TypeOK, [Next]_vars PROVE TypeOK'
  OBVIOUS
<1>1. CASE UNCHANGED vars
  BY <1>1 DEF vars, TypeOK, flags, contexts, files, list
<1>2. CASE Next
  BY <1>2, RequestTyped, JobStepTyped, OthersTyped DEF Next
<1> QED
  BY <1>1, <1>2

THEOREM TypeCorrect == Spec => []TypeOK
  BY TypeInit, TypeStep, PTL DEF Spec

-----------------------------------------------------------------------------
(* WorkloadExact: every step moves one job, and changes the workload by as  *)
(* much as that job's cost. That finitely many jobs cost something at a     *)
(* time is part of the invariant, not assumed.                              *)

Charged == IsFiniteSet(Units) /\ WorkloadExact

\* What job j counts for, if it costs c.
LEMMA UnitsOfJob ==
  ASSUME NEW j, NEW c \in Nat
  PROVE  IsFiniteSet({j} \X (1 .. c)) /\ Cardinality({j} \X (1 .. c)) = c
<1>1. IsFiniteSet({j}) /\ Cardinality({j}) = 1
  BY FS_Singleton
<1>2. IsFiniteSet(1 .. c) /\ Cardinality(1 .. c) = c
  BY FS_Interval
<1> DEFINE S == {j}
           T == 1 .. c
<1>3. IsFiniteSet(S \X T) /\ Cardinality(S \X T) = Cardinality(S) * Cardinality(T)
  BY <1>1, <1>2, FS_Product
<1> QED
  BY <1>1, <1>2, <1>3

LEMMA CostTyped == \A j : CostOf(j) \in 0 .. costStream
  BY DEF CostOf, Deferred, costStream, costTranscoding, costTranscodingAudio,
       costThumbnailGeneration, costSilenceDetection

LEMMA CostTypedNext == \A j : CostOf(j)' \in 0 .. costStream
  BY DEF CostOf, Deferred, costStream, costTranscoding, costTranscodingAudio,
       costThumbnailGeneration, costSilenceDetection

\* The cost of one job changes, and the workload with it.
LEMMA ChargeOne ==
  ASSUME Charged, NEW j \in Jobs,
         \A i \in Jobs \ {j} : CostOf(i)' = CostOf(i),
         workload' = workload - CostOf(j) + CostOf(j)'
  PROVE  Charged'
<1> DEFINE Own(c) == {j} \X (1 .. c)
           rest == {u \in Units : u[1] # j}
<1>1. CostOf(j) \in 0 .. 3 /\ CostOf(j)' \in 0 .. 3
  BY CostTyped, CostTypedNext DEF costStream
<1>2. Units = rest \cup Own(CostOf(j)) /\ rest \cap Own(CostOf(j)) = {}
  BY <1>1 DEF Units, costStream
<1>3. Units' = rest \cup Own(CostOf(j)') /\ rest \cap Own(CostOf(j)') = {}
  BY <1>1 DEF Units, costStream
<1>4. \A c \in 0 .. 3 : IsFiniteSet(Own(c)) /\ Cardinality(Own(c)) = c
  <2> SUFFICES ASSUME NEW c \in 0 .. 3 PROVE IsFiniteSet(Own(c)) /\ Cardinality(Own(c)) = c
    OBVIOUS
  <2> c \in Nat
    OBVIOUS
  <2> QED
    BY UnitsOfJob
<1>5. IsFiniteSet(rest) /\ Cardinality(rest) \in Nat
  BY FS_Subset, FS_CardinalityType DEF Charged
<1> HIDE DEF rest, Own
<1>6. Cardinality(Units) = Cardinality(rest) + CostOf(j)
  BY <1>1, <1>2, <1>4, <1>5, FS_Union, FS_EmptySet
<1>7. IsFiniteSet(Units') /\ Cardinality(Units') = Cardinality(rest) + CostOf(j)'
  <2>1. PICK c \in 0 .. 3 : c = CostOf(j)'
    BY <1>1
  <2>2. Units' = rest \cup Own(c) /\ rest \cap Own(c) = {}
    BY <1>3, <2>1
  <2>3. IsFiniteSet(rest \cup Own(c)) /\ Cardinality(rest \cup Own(c)) = Cardinality(rest) + c
    <3>1. rest \cap Own(c) = {} /\ IsFiniteSet(Own(c)) /\ Cardinality(Own(c)) = c
      BY <1>4, <2>2
    <3> QED
      BY <1>5, <3>1, FS_Union, FS_EmptySet
  <2> QED
    BY <2>1, <2>2, <2>3
<1>8. workload' = Cardinality(Units')
  BY <1>1, <1>5, <1>6, <1>7 DEF Charged, WorkloadExact
<1> QED
  BY <1>7, <1>8 DEF Charged, WorkloadExact

\* Nobody's cost changes.
LEMMA ChargeFrame ==
  ASSUME Charged, UNCHANGED workload, \A i \in Jobs : CostOf(i)' = CostOf(i)
  PROVE  Charged'
<1>1. Units' = Units
  BY DEF Units
<1> QED
  BY <1>1 DEF Charged, WorkloadExact

\* A job moves to s and the workload with it.
LEMMA ChargeMove ==
  ASSUME TypeOK, Charged, NEW j \in Jobs, NEW s, To(j, s),
         workload' = workload - CostOf(j) + CostOf(j)'
  PROVE  Charged'
<1>1. \A i \in Jobs \ {j} : pc'[i] = pc[i]
  BY DEF To, TypeOK
<1>2. \A i \in Jobs \ {j} : CostOf(i)' = CostOf(i)
  BY <1>1 DEF CostOf
<1> QED
  BY <1>2, ChargeOne

LEMMA RequestCharged == ASSUME TypeOK, Charged, NEW j \in Jobs, Request(j) PROVE Charged'
<1> USE DEF To, CostOf, Recording, costStream, costThumbnailGeneration
<1>1. PICK s : To(j, s)
  BY DEF Request, HandleStreamRequest, OnPublish, HandleUploadRestReq, HandlePremiere,
       HandleThumbnailRequest
<1>2. workload' = workload - CostOf(j) + CostOf(j)'
  BY DEF TypeOK, Request, HandleStreamRequest, OnPublish, HandleUploadRestReq, HandlePremiere,
       HandleThumbnailRequest
<1> QED
  BY <1>1, <1>2, ChargeMove

LEMMA JobStepCharged ==
  ASSUME TypeOK, Charged, NEW j \in Jobs, JobStep(j) \/ SelfOffline(j) PROVE Charged'
<1> USE DEF To, CostOf, Recording, Goes, TypeOK, costStream, costTranscoding,
      costTranscodingAudio, costThumbnailGeneration, costSilenceDetection
<1> DEFINE Charging == workload' = workload - CostOf(j) + CostOf(j)'
<1>1. PICK s : To(j, s)
  BY DEF JobStep, SelfOffline, Prepare, StartFfmpeg, FfmpegExits, LoopEnds, StreamEnds, Register, SkipVoD,
       StartTranscoding, Transcoded, TranscodingFails, TranscodingEnds, Canceled, StartAudio,
       StartThumbs, StartSilence, NotMarked, MarkForDeletion, AddDeletable, Finish, MoveFile,
       RemoveUpload, Played
<1>2. ASSUME Prepare(j) \/ StartFfmpeg(j) \/ FfmpegExits(j) PROVE Charging
  BY <1>2 DEF Prepare, StartFfmpeg, FfmpegExits
<1>3. ASSUME LoopEnds(j) \/ SelfOffline(j) PROVE Charging
  BY <1>3 DEF LoopEnds, SelfOffline, StreamEnds
<1>4. ASSUME Register(j) \/ SkipVoD(j) \/ Canceled(j) PROVE Charging
  BY <1>4 DEF Register, SkipVoD, Canceled
<1>5. ASSUME StartTranscoding(j) PROVE Charging
  BY <1>5 DEF StartTranscoding
<1>6. ASSUME Transcoded(j) \/ TranscodingFails(j) PROVE Charging
  BY <1>6 DEF Transcoded, TranscodingFails, TranscodingEnds
<1>7. ASSUME StartAudio(j) \/ StartThumbs(j) PROVE Charging
  BY <1>7 DEF StartAudio, StartThumbs
<1>8. ASSUME StartSilence(j) PROVE Charging
  BY <1>8 DEF StartSilence, Deferred
<1>9. ASSUME NotMarked(j) PROVE Charging
  BY <1>9 DEF NotMarked, Finish, Deferred
<1>10. ASSUME MarkForDeletion(j) PROVE Charging
  BY <1>10 DEF MarkForDeletion, Deferred
<1>11. ASSUME AddDeletable(j) PROVE Charging
  BY <1>11 DEF AddDeletable, Finish, Deferred
<1>12. ASSUME MoveFile(j) \/ Played(j) PROVE Charging
  BY <1>12 DEF MoveFile, Played
<1>13. ASSUME RemoveUpload(j) PROVE Charging
  BY <1>13 DEF RemoveUpload, Finish, Deferred, DetectsSilence
<1>14. Charging
  BY <1>2, <1>3, <1>4, <1>5, <1>6, <1>7, <1>8, <1>9, <1>10, <1>11, <1>12, <1>13 DEF JobStep
<1> QED
  BY <1>1, <1>14, ChargeMove

LEMMA OthersCharged ==
  ASSUME TypeOK, Charged,
         \/ \E j \in Jobs : Over(j)
         \/ \E s, d : EndStreams(s, d)
         \/ \E e \in deletable : DayPasses(e)
         \/ Hourly
         \/ Restart
  PROVE  Charged'
<1>1. CASE \E j \in Jobs : Over(j)
  BY <1>1, ChargeFrame DEF Over, CostOf
<1>2. ASSUME NEW s, NEW d, EndStreams(s, d) PROVE Charged'
  <2>1. UNCHANGED workload
    BY <1>2 DEF EndStreams
  <2>2. \A i \in Jobs : pc'[i] = pc[i] \/ {pc[i], pc'[i]} \subseteq Recording
    BY <1>2 DEF EndStreams, Recording
  <2>3. \A i \in Jobs : CostOf(i)' = CostOf(i)
    BY <2>2 DEF CostOf, Recording
  <2> QED
    BY <2>1, <2>3, ChargeFrame
<1>3. CASE \E e \in deletable : DayPasses(e)
  BY <1>3, ChargeFrame DEF DayPasses, CostOf
<1>4. CASE Hourly
  BY <1>4, ChargeFrame DEF Hourly, ReadDeletables, SetDeletables, CostOf
<1>5. CASE Restart
  <2>1. \A i \in Jobs : CostOf(i)' = 0
    BY <1>5 DEF Restart, CostOf, Recording
  <2>2. Units' = {}
    BY <2>1 DEF Units
  <2>3. workload' = 0
    BY <1>5 DEF Restart
  <2> QED
    BY <2>2, <2>3, FS_EmptySet DEF Charged, WorkloadExact
<1> QED
  BY <1>1, <1>2, <1>3, <1>4, <1>5

LEMMA InitCharged == Init => Charged
<1> SUFFICES ASSUME Init PROVE Charged
  OBVIOUS
<1>1. \A i \in Jobs : CostOf(i) = 0
  BY DEF Init, CostOf, Recording
<1>2. Units = {}
  BY <1>1 DEF Units
<1>3. workload = 0
  BY DEF Init
<1> QED
  BY <1>2, <1>3, FS_EmptySet DEF Charged, WorkloadExact

LEMMA StepCharged == TypeOK /\ Charged /\ [Next]_vars => Charged'
<1> SUFFICES ASSUME TypeOK, Charged, [Next]_vars PROVE Charged'
  OBVIOUS
<1>1. CASE UNCHANGED vars
  BY <1>1, ChargeFrame DEF vars, CostOf
<1>2. CASE Next
  BY <1>2, RequestCharged, JobStepCharged, OthersCharged DEF Next
<1> QED
  BY <1>1, <1>2

\* The workload is that of what the worker does now, for any jobs, bounds and
\* interleaving of requests, ends, failures and restarts.
THEOREM WorkloadCorrect == Spec => []WorkloadExact
<1>1. Charged => WorkloadExact
  BY DEF Charged
<1> QED
  BY <1>1, InitCharged, StepCharged, TypeCorrect, PTL DEF Spec

-----------------------------------------------------------------------------
(* TrashListed: what the hourly function has read covers the list, but for  *)
(* what slips.                                                              *)

SnapshotCovers ==
    snapshot # Idle => \A e \in deletable : e \in snapshot \/ e.file \in slipped

Listed == SnapshotCovers /\ TrashListed

LEMMA ListedFrame ==
  ASSUME Listed, UNCHANGED <<trash, list>>,
         \A j \in Jobs : pc[j] = "marking" => pc'[j] = "marking"
  PROVE  Listed'
BY DEF Listed, SnapshotCovers, TrashListed, list

LEMMA RequestListed == ASSUME TypeOK, Listed, NEW j \in Jobs, Request(j) PROVE Listed'
<1>1. UNCHANGED <<trash, list>>
  BY DEF Request, HandleStreamRequest, OnPublish, HandleUploadRestReq, HandlePremiere,
       HandleThumbnailRequest, files, list
<1>2. \A i \in Jobs : pc[i] = "marking" => pc'[i] = "marking"
  BY DEF TypeOK, Request, HandleStreamRequest, OnPublish, HandleUploadRestReq, HandlePremiere,
       HandleThumbnailRequest, To
<1> QED
  BY <1>1, <1>2, ListedFrame

LEMMA JobStepListed == ASSUME TypeOK, Listed, NEW j \in Jobs, JobStep(j) PROVE Listed'
<1> USE DEF files, list
<1>1. CASE MarkForDeletion(j)
  <2>1. /\ \A r \in Recordings \ {RecordingOf[j]} : trash'[r] = trash[r]
        /\ \A i \in Jobs : pc[i] = "marking" => pc'[i] = "marking"
        /\ pc'[j] = "marking"
        /\ UNCHANGED list
    BY <1>1 DEF MarkForDeletion, TypeOK, To
  <2> QED
    BY <2>1 DEF Listed, SnapshotCovers, TrashListed
<1>2. CASE AddDeletable(j)
  <2>1. /\ \A i \in Jobs \ {j} : pc'[i] = pc[i]
        /\ UNCHANGED <<trash, snapshot>>
    BY <1>2 DEF AddDeletable, Finish, To, TypeOK
  <2>2. /\ deletable \subseteq deletable' /\ slipped \subseteq slipped'
        /\ \E e \in deletable' : e.file = RecordingOf[j]
    <3> DEFINE e == [file |-> RecordingOf[j], job |-> j, old |-> FALSE]
    <3>1. deletable' = deletable \cup {e} /\ slipped \subseteq slipped'
      BY <1>2 DEF AddDeletable
    <3>2. e.file = RecordingOf[j]
      OBVIOUS
    <3> QED
      BY <3>1, <3>2
  <2>3. SnapshotCovers'
    BY <1>2, <2>1 DEF AddDeletable, Listed, SnapshotCovers
  <2>4. TrashListed'
    BY <2>1, <2>2 DEF Listed, TrashListed
  <2> QED
    BY <2>3, <2>4 DEF Listed
<1>3. CASE JobStep(j) /\ ~MarkForDeletion(j) /\ ~AddDeletable(j)
  <2>1. UNCHANGED <<trash, list>>
    BY <1>3 DEF JobStep, Prepare, StartFfmpeg, FfmpegExits, Goes, LoopEnds, StreamEnds, Register,
         SkipVoD, StartTranscoding, Transcoded, TranscodingFails, TranscodingEnds, Canceled,
         StartAudio, StartThumbs, StartSilence, NotMarked, MoveFile, RemoveUpload, Played
  <2>2. \A i \in Jobs \ {j} : pc'[i] = pc[i]
    BY <1>3 DEF JobStep, Prepare, StartFfmpeg, FfmpegExits, Goes, LoopEnds, StreamEnds, Register,
         SkipVoD, StartTranscoding, Transcoded, TranscodingFails, TranscodingEnds, Canceled,
         StartAudio, StartThumbs, StartSilence, NotMarked, MoveFile, RemoveUpload, Played,
         Finish, To, TypeOK
  <2>3. pc[j] # "marking"
    BY <1>3 DEF JobStep, Prepare, StartFfmpeg, FfmpegExits, Goes, LoopEnds, Register,
         SkipVoD, StartTranscoding, Transcoded, TranscodingFails, Canceled,
         StartAudio, StartThumbs, StartSilence, NotMarked, MoveFile, RemoveUpload, Played
  <2> QED
    BY <2>1, <2>2, <2>3, ListedFrame
<1> QED
  BY <1>1, <1>2, <1>3

LEMMA OthersListed ==
  ASSUME TypeOK, Listed,
         \/ \E j \in Jobs : SelfOffline(j) \/ Over(j)
         \/ \E s, d : EndStreams(s, d)
         \/ \E e \in deletable : DayPasses(e)
         \/ Hourly
         \/ Restart
  PROVE  Listed'
<1> USE DEF files, list
<1>1. ASSUME NEW j \in Jobs, SelfOffline(j) \/ Over(j) PROVE Listed'
  BY <1>1, ListedFrame DEF SelfOffline, StreamEnds, Over, To, TypeOK
<1>2. ASSUME NEW s, NEW d, EndStreams(s, d) PROVE Listed'
  BY <1>2, ListedFrame DEF EndStreams, TypeOK
<1>3. ASSUME NEW e \in deletable, DayPasses(e) PROVE Listed'
  <2>1. UNCHANGED <<pc, trash, slipped>> /\ snapshot' = Idle
    BY <1>3 DEF DayPasses
  <2>2. \A d \in deletable : \E c \in deletable' : c.file = d.file
    <3> DEFINE a == [e EXCEPT !.old = TRUE]
    <3>1. deletable' = (deletable \ {e}) \cup {a}
      BY <1>3 DEF DayPasses
    <3>2. a.file = e.file
      BY <1>3 DEF TypeOK, Entries
    <3> QED
      BY <3>1, <3>2
  <2> QED
    BY <2>1, <2>2 DEF Listed, SnapshotCovers, TrashListed
<1>4. CASE ReadDeletables
  BY <1>4 DEF ReadDeletables, Listed, SnapshotCovers, TrashListed
<1>5. CASE SetDeletables
  <2> USE <1>5 DEF SetDeletables
  <2>1. SnapshotCovers'
    BY DEF SnapshotCovers
  <2>2. ASSUME NEW r \in Recordings, trash'[r] # {}, r \notin slipped',
               NEW e \in deletable, e.file = r
        PROVE  e \in deletable'
    <3>1. trash'[r] = trash[r] /\ r \notin slipped
      BY <2>2 DEF TypeOK
    <3>2. e \in snapshot
      BY <2>2, <3>1 DEF Listed, SnapshotCovers
    <3>3. ~e.old
      BY <2>2, <3>2
    <3> QED
      BY <3>2, <3>3
  <2>3. \A r \in Recordings : trash'[r] # {} => trash[r] # {}
    BY DEF TypeOK
  <2>4. slipped \subseteq slipped' /\ UNCHANGED pc
    OBVIOUS
  <2>5. TrashListed'
    BY <2>2, <2>3, <2>4 DEF Listed, TrashListed
  <2> QED
    BY <2>1, <2>5 DEF Listed
<1>6. CASE Restart
  <2>1. /\ UNCHANGED <<trash, deletable>> /\ snapshot' = Idle /\ slipped \subseteq slipped'
        /\ \A j \in Jobs : pc[j] = "marking" => RecordingOf[j] \in slipped'
    BY <1>6 DEF Restart
  <2> QED
    BY <2>1 DEF Listed, SnapshotCovers, TrashListed
<1> QED
  BY <1>1, <1>2, <1>3, <1>4, <1>5, <1>6 DEF Hourly

\* A file in the trash is on the list, unless it slipped: the hourly function was
\* running, could not remove it, or the worker was restarted.
THEOREM TrashIsListed == Spec => []TrashListed
<1>1. Init => Listed
  BY DEF Init, Listed, SnapshotCovers, TrashListed
<1>2. TypeOK /\ Listed /\ [Next]_vars => Listed'
  <2> SUFFICES ASSUME TypeOK, Listed, [Next]_vars PROVE Listed'
    OBVIOUS
  <2>1. CASE UNCHANGED vars
    BY <2>1, ListedFrame DEF vars, files, list
  <2>2. CASE Next
    BY <2>2, RequestListed, JobStepListed, OthersListed DEF Next
  <2> QED
    BY <2>1, <2>2
<1>3. Listed => TrashListed
  BY DEF Listed
<1> QED
  BY <1>1, <1>2, <1>3, TypeCorrect, PTL DEF Spec

-----------------------------------------------------------------------------
(* RecordingKept: of the jobs of a recording that was not overtaken one at  *)
(* most has begun and is not cancelled, and it holds what was recorded.     *)

Begun(j) == pc[j] \notin {"none", "new"}
Holder(j) == Begun(j) /\ j \notin canceled
Peers(j) == {i \in Jobs : RecordingOf[i] = RecordingOf[j]}
MadeOf(r) == {p \in made : RecordingOf[p.job] = r}
Given == {"marking", "done", "gone"}

Kept(j) ==
    LET r == RecordingOf[j] IN
    /\ j \in success => MadeOf(r) \subseteq vod[r]
    /\ j \notin Uploads /\ pc[j] \notin Given => MadeOf(r) \subseteq file[r]
    /\ pc[j] = "received" => MadeOf(r) \subseteq file[r]
    /\ pc[j] = "transcoding" /\ input[j] # {} => MadeOf(r) \subseteq input[j]
    /\ j \notin Uploads => MadeOf(r) \subseteq file[r] \cup vod[r]

After == {"transcoded", "audio", "thumbs", "silence"} \cup Given

Kinds ==
    /\ \A j \in success : pc[j] \in After
    /\ \A j \in Uploads : pc[j] \in {"none", "new", "received", "transcoding"} \cup After
    /\ \A j \in Jobs : pc[j] = "received" => j \in Uploads

Sources ==
    /\ \A p \in made : Begun(p.job)
    /\ \A j \in canceled : Begun(j)
    /\ \A r \in Recordings : file[r] \subseteq MadeOf(r)
    /\ \A r \in Recordings : selfCtx[r] \in Self => RecordingOf[selfCtx[r]] = r /\ Begun(selfCtx[r])

Holding(j) ==
    RecordingOf[j] \notin overtaken =>
        /\ j \in canceled => pc[j] \in {"transcoding", "transcoded", "done", "gone"} /\ input[j] = {}
        /\ Begun(j) => \E i \in Peers(j) : Holder(i)
        /\ Holder(j) => Kept(j) /\ \A i \in Peers(j) : Holder(i) => i = j

KInv == Kinds /\ Sources /\ \A j \in Jobs : Holding(j)

KVars == <<pc, canceled, success, selfCtx, file, vod, input, made, overtaken>>

LEMMA KFrame == ASSUME KInv, UNCHANGED KVars PROVE KInv'
BY DEF KInv, KVars, Kinds, Sources, Holding, Holder, Begun, Peers, MadeOf, Kept

\* The holder of a recording, and who cannot be one.
LEMMA Alone ==
  ASSUME KInv, NEW j \in Jobs, RecordingOf[j] \notin overtaken, Begun(j),
         pc[j] \notin {"transcoding", "transcoded", "done", "gone"} \/ input[j] # {}
  PROVE  Holder(j) /\ Kept(j) /\ \A i \in Peers(j) : Holder(i) => i = j
BY DEF KInv, Holding, Holder

LEMMA Single ==
  ASSUME NEW j \in Jobs \ Self
  PROVE  Peers(j) = {j}
BY OwnRecordings DEF Peers

\* A job that has begun goes on, and the files are left alone.
LEMMA KMoves ==
  ASSUME TypeOK, KInv, NEW j \in Jobs, NEW s, To(j, s), Begun(j),
         UNCHANGED <<canceled, success, file, vod, input, made, overtaken>>,
         \A r \in Recordings :
            selfCtx'[r] = selfCtx[r] \/ (selfCtx'[r] = j /\ RecordingOf[j] = r),
         \/ s \in After
         \/ /\ pc[j] \notin After \cup {"received", "transcoding"}
            /\ s \notin {"none", "new", "received", "transcoding"},
         pc[j] \in Given => s \in Given,
         j \in canceled /\ RecordingOf[j] \notin overtaken => s \in {"transcoded", "done", "gone"}
  PROVE  KInv'
<1>1. pc' = [pc EXCEPT ![j] = s] /\ \A i \in Jobs \ {j} : pc'[i] = pc[i]
  BY DEF To, TypeOK
<1>2. pc'[j] = s /\ s \notin {"none", "new", "received", "transcoding"}
  BY <1>1 DEF TypeOK, After, Given
<1>3. \A i \in Jobs : (Begun(i))' <=> Begun(i)
  BY <1>1, <1>2 DEF Begun
<1>4. \A i \in Jobs : (Holder(i))' <=> Holder(i)
  BY <1>3 DEF Holder
<1>5. Kinds'
  BY <1>1, <1>2 DEF Kinds, KInv, TypeOK, Begun
<1>6. Sources'
  BY <1>3 DEF Sources, KInv, MadeOf, TypeOK, Pieces, Jobs
<1>7. ASSUME NEW i \in Jobs, Kept(i) PROVE (Kept(i))'
  BY <1>1, <1>2, <1>7 DEF Kept, MadeOf
<1>8. ASSUME NEW i \in Jobs PROVE (Holding(i))'
  <2>1. Holding(i)
    BY DEF KInv
  <2>2. i \in canceled /\ RecordingOf[i] \notin overtaken
        => pc'[i] \in {"transcoding", "transcoded", "done", "gone"}
    BY <1>1, <2>1 DEF Holding
  <2> QED
    BY <1>3, <1>4, <1>7, <2>1, <2>2 DEF Holding, Peers
<1> QED
  BY <1>5, <1>6, <1>8 DEF KInv

\* A job of its own recording begins, with nothing recorded yet.
LEMMA KBegins ==
  ASSUME TypeOK, KInv, NEW j \in Jobs \ Self, NEW s \in {"loop", "premiere", "thumbnail", "received"},
         To(j, s), pc[j] = "new", s = "received" <=> j \in Uploads,
         UNCHANGED <<canceled, success, selfCtx, vod, input, overtaken>>,
         \/ UNCHANGED <<made, file>>
         \/ \E p \in Pieces : /\ p.job = j
                              /\ made' = made \cup {p}
                              /\ file' = [file EXCEPT ![RecordingOf[j]] = {p}]
  PROVE  KInv'
<1>1. pc' = [pc EXCEPT ![j] = s] /\ (\A i \in Jobs \ {j} : pc'[i] = pc[i]) /\ pc'[j] = s
  BY DEF To, TypeOK
<1>2. j \notin canceled /\ j \notin success /\ input[j] = {}
  BY DEF TypeOK, KInv, Kinds, After, Given
<1>3. Peers(j) = {j}
  BY Single
<1>4. MadeOf(RecordingOf[j]) = {}
  BY <1>3 DEF KInv, Sources, MadeOf, Peers, Begun, TypeOK, Pieces
<1>5. RecordingOf[j] \in Recordings /\ file[RecordingOf[j]] = {}
  BY <1>4 DEF Recordings, KInv, Sources
<1>6. \A i \in Jobs \ {j} : RecordingOf[i] # RecordingOf[j]
  BY <1>3 DEF Peers
<1>7. (MadeOf(RecordingOf[j]))' \subseteq file'[RecordingOf[j]]
  BY <1>4, <1>5 DEF MadeOf, TypeOK
<1>8. \A i \in Jobs \ {j} : /\ (MadeOf(RecordingOf[i]))' = MadeOf(RecordingOf[i])
                            /\ file'[RecordingOf[i]] = file[RecordingOf[i]]
  <2>1. \A i \in Jobs \ {j} : (MadeOf(RecordingOf[i]))' = MadeOf(RecordingOf[i])
    BY <1>6 DEF MadeOf
  <2>2. ASSUME NEW i \in Jobs \ {j} PROVE file'[RecordingOf[i]] = file[RecordingOf[i]]
    <3>1. RecordingOf[i] \in Recordings /\ RecordingOf[i] # RecordingOf[j]
      BY <1>6 DEF Recordings
    <3>2. CASE UNCHANGED file
      BY <3>2
    <3>3. CASE \E p \in Pieces : file' = [file EXCEPT ![RecordingOf[j]] = {p}]
      <4>1. PICK p \in Pieces : file' = [file EXCEPT ![RecordingOf[j]] = {p}]
        BY <3>3
      <4> QED
        BY <3>1, <4>1 DEF TypeOK
    <3> QED
      BY <3>2, <3>3
  <2> QED
    BY <2>1, <2>2
<1>9. Kinds'
  BY <1>1, <1>2 DEF Kinds, KInv, TypeOK
<1>10. Sources'
  <2>1. \A p \in made' : pc'[p.job] \notin {"none", "new"}
    BY <1>1 DEF KInv, Sources, Begun, TypeOK, Pieces
  <2>2. \A r \in Recordings : file'[r] \subseteq (MadeOf(r))'
    BY DEF KInv, Sources, MadeOf, TypeOK
  <2>3. \A r \in Recordings : selfCtx'[r] \in Self =>
           RecordingOf[selfCtx'[r]] = r /\ pc'[selfCtx'[r]] \notin {"none", "new"}
    BY <1>1 DEF KInv, Sources, Begun, TypeOK
  <2>4. \A i \in canceled' : pc'[i] \notin {"none", "new"}
    BY <1>1 DEF KInv, Sources, Begun, TypeOK, Jobs
  <2> QED
    BY <2>1, <2>2, <2>3, <2>4 DEF Sources, Begun
<1>11. (Holding(j))'
  BY <1>1, <1>2, <1>3, <1>7 DEF Holding, Holder, Begun, Kept, Peers
<1>12. ASSUME NEW i \in Jobs \ {j} PROVE (Holding(i))'
  <2>1. Holding(i)
    BY DEF KInv
  <2>2. (Kept(i))' <=> Kept(i)
    BY <1>1, <1>8 DEF Kept
  <2>3. \A k \in Peers(i) : k # j
    BY <1>6 DEF Peers
  <2> QED
    BY <1>1, <2>1, <2>2, <2>3 DEF Holding, Holder, Begun, Peers
<1> QED
  BY <1>9, <1>10, <1>11, <1>12 DEF KInv

\* A self stream is published: what of it is underway can still be cancelled, or
\* the recording is overtaken.
LEMMA KPublish == ASSUME TypeOK, KInv, NEW j \in Jobs, OnPublish(j) PROVE KInv'
<1> DEFINE r == RecordingOf[j]
           ended == {selfCtx[r]} \cap Self
<1> USE DEF files, flags, contexts
<1>1. /\ j \in Self /\ pc[j] = "new" /\ r \in Recordings
      /\ canceled' = canceled \cup ended
      /\ UNCHANGED <<success, selfCtx, file, vod, made>>
      /\ overtaken \subseteq overtaken' /\ overtaken' \subseteq overtaken \cup {r}
  BY DEF OnPublish, Recordings
<1>2. pc' = [pc EXCEPT ![j] = "loop"] /\ (\A i \in Jobs \ {j} : pc'[i] = pc[i]) /\ pc'[j] = "loop"
  BY DEF OnPublish, To, TypeOK
<1>3. /\ \A i \in Jobs : input'[i] = IF i \in ended THEN {} ELSE input[i]
      /\ \A i \in Jobs : i \in ended => RecordingOf[i] = r /\ Begun(i)
  BY <1>1 DEF OnPublish, KInv, Sources
<1>4. j \notin canceled' /\ j \notin success /\ input[j] = {}
  <2>1. j \notin success /\ input[j] = {}
    BY <1>1 DEF TypeOK, KInv, Kinds, After, Given
  <2>2. ~Begun(j)
    BY <1>1 DEF Begun
  <2> QED
    BY <1>1, <1>3, <2>1, <2>2 DEF KInv, Sources
<1>5. \A i \in Jobs \ {j} : (Begun(i))' <=> Begun(i)
  BY <1>2 DEF Begun
<1>6. Kinds'
  <2>1. j \notin Uploads /\ "loop" # "received"
    BY <1>1, JobsTyped
  <2> QED
    BY <1>1, <1>2, <1>4, <2>1 DEF Kinds, KInv
<1>7. Sources'
  <2>1. \A i \in Jobs : Begun(i) => (Begun(i))'
    BY <1>2, <1>5 DEF Begun
  <2>2. made \subseteq Pieces /\ canceled \subseteq Jobs /\ Self \subseteq Jobs
    BY DEF TypeOK, Jobs
  <2> QED
    BY <1>1, <1>3, <2>1, <2>2 DEF Sources, KInv, MadeOf, Pieces
<1>8. ASSUME NEW i \in Jobs, RecordingOf[i] # r PROVE (Holding(i))'
  <2>1. /\ Holding(i) /\ i # j /\ \A k \in Peers(i) : k \in Jobs \ {j} /\ k \notin ended
        /\ RecordingOf[i] \in overtaken' <=> RecordingOf[i] \in overtaken
    BY <1>1, <1>3, <1>8 DEF KInv, Peers
  <2>2. i \in Peers(i)
    BY DEF Peers
  <2>3. (Kept(i))' <=> Kept(i)
    BY <1>1, <1>2, <1>3, <2>1, <2>2 DEF Kept, MadeOf
  <2> QED
    BY <1>1, <1>2, <1>3, <1>5, <2>1, <2>2, <2>3 DEF Holding, Holder, Peers
<1>9. ASSUME NEW i \in Jobs, RecordingOf[i] = r, r \notin overtaken' PROVE (Holding(i))'
  <2>1. \A k \in Jobs : RecordingOf[k] = r /\ Holder(k) => k \in ended /\ pc[k] \in Cancelable
    BY <1>9 DEF OnPublish, Holder, Begun
  <2>2. \A k \in Peers(j) : (Holder(k))' => k = j
    BY <1>1, <1>5, <2>1 DEF Holder, Peers
  <2>3. MadeOf(r) \subseteq file[r]
    <3> SUFFICES ASSUME NEW p \in MadeOf(r) PROVE p \in file[r]
      OBVIOUS
    <3>1. p.job \in Jobs /\ RecordingOf[p.job] = r /\ Begun(p.job)
      BY DEF MadeOf, KInv, Sources, TypeOK, Pieces
    <3>2. PICK k \in Peers(p.job) : Holder(k)
      BY <3>1, <1>1, <1>9 DEF KInv, Holding
    <3>3. k \in Jobs /\ RecordingOf[k] = r /\ k \in Self /\ pc[k] \in Cancelable /\ Holding(k)
      BY <3>1, <3>2, <2>1 DEF Peers, KInv
    <3>4. Kept(k) /\ k \notin Uploads
      BY <3>2, <3>3, <1>1, <1>9, JobsTyped DEF Holding
    <3> QED
      BY <3>3, <3>4 DEF Kept, Cancelable, Given
  <2>4. (Holder(j))' /\ (Kept(j))'
    BY <1>1, <1>2, <1>4, <2>3, JobsTyped DEF Holder, Begun, Kept, MadeOf
  <2>5. i \in canceled' => /\ pc'[i] \in {"transcoding", "transcoded", "done", "gone"}
                           /\ input'[i] = {}
    <3>1. CASE i \in canceled
      BY <3>1, <1>1, <1>2, <1>3, <1>4, <1>9 DEF KInv, Holding
    <3>2. CASE i \in ended \ canceled
      BY <3>2, <1>1, <1>2, <1>3, <1>4, <1>9, <2>1 DEF Holder, Cancelable
    <3> QED
      BY <3>1, <3>2, <1>1
  <2>6. (Peers(i))' = Peers(j)
    BY <1>9 DEF Peers
  <2>7. j \in Peers(j)
    BY DEF Peers
  <2>8. (Holder(i))' => i = j
    BY <2>2, <1>9 DEF Peers
  <2> QED
    BY <2>2, <2>4, <2>5, <2>6, <2>7, <2>8 DEF Holding
<1>10. ASSUME NEW i \in Jobs, RecordingOf[i] = r, r \in overtaken' PROVE (Holding(i))'
  BY <1>10 DEF Holding
<1> QED
  BY <1>6, <1>7, <1>8, <1>9, <1>10 DEF KInv

\* The holder of a recording works on it.
LEMMA KWorks ==
  ASSUME TypeOK, KInv, NEW j \in Jobs, NEW s \in PC \ {"none", "new"}, To(j, s), Begun(j),
         UNCHANGED <<canceled, selfCtx, overtaken>>,
         Kinds',
         \A p \in made' : p \in made \/ (p.job = j /\ p \in Pieces),
         \A r \in Recordings : file'[r] \subseteq (MadeOf(r))',
         \A r \in Recordings \ {RecordingOf[j]} : /\ file'[r] = file[r] /\ vod'[r] = vod[r]
                                                  /\ (MadeOf(r))' = MadeOf(r),
         \A i \in Jobs \ {j} : input'[i] = input[i] /\ (i \in success' <=> i \in success),
         RecordingOf[j] \notin overtaken =>
            /\ pc[j] \notin {"transcoding", "transcoded", "done", "gone"} \/ input[j] # {}
               \/ j \notin Self
            /\ (Kept(j))'
  PROVE  KInv'
<1>1. pc' = [pc EXCEPT ![j] = s] /\ (\A i \in Jobs \ {j} : pc'[i] = pc[i]) /\ pc'[j] = s
  BY DEF To, TypeOK
<1>2. \A i \in Jobs : ((Begun(i))' <=> Begun(i)) /\ ((Holder(i))' <=> Holder(i))
  BY <1>1 DEF Begun, Holder
<1>3. Sources'
  <2>1. \A p \in made' : p.job \in Jobs /\ (Begun(p.job))'
    BY <1>2 DEF KInv, Sources, TypeOK, Pieces
  <2>2. \A i \in canceled' : (Begun(i))'
    BY <1>2 DEF KInv, Sources, TypeOK, Jobs
  <2>3. \A r \in Recordings : selfCtx'[r] \in Self =>
           RecordingOf[selfCtx'[r]] = r /\ pc'[selfCtx'[r]] \notin {"none", "new"}
    <3>1. \A i \in Jobs : pc[i] \notin {"none", "new"} => pc'[i] \notin {"none", "new"}
      BY <1>2 DEF Begun
    <3> QED
      BY <3>1 DEF KInv, Sources, Begun, Jobs
  <2> QED
    BY <2>1, <2>2, <2>3 DEF Sources, Begun
<1>4. ASSUME NEW i \in Jobs, RecordingOf[i] # RecordingOf[j] PROVE (Holding(i))'
  <2>1. Holding(i) /\ i # j
    BY <1>4 DEF KInv
  <2>2. RecordingOf[i] \in Recordings \ {RecordingOf[j]}
    BY <1>4 DEF Recordings
  <2>3. (Kept(i))' <=> Kept(i)
    BY <1>1, <2>1, <2>2 DEF Kept
  <2> QED
    BY <1>1, <1>2, <2>1, <2>3 DEF Holding, Peers
<1>5. ASSUME NEW i \in Jobs, RecordingOf[i] = RecordingOf[j], RecordingOf[j] \notin overtaken
      PROVE  (Holding(i))'
  <2>1. Holding(i) /\ Holding(j) /\ j \in Peers(j) /\ j \in Peers(i) /\ Peers(i) = Peers(j)
    BY <1>5 DEF KInv, Peers
  <2>2. Holder(j)
    <3>1. CASE j \in Self
      BY <3>1, <1>5, JobsTyped, Alone
    <3>2. CASE j \notin Self
      BY <3>2 DEF TypeOK, Holder
    <3> QED
      BY <3>1, <3>2
  <2>3. \A k \in Peers(j) : Holder(k) => k = j
    BY <1>5, <2>1, <2>2 DEF Holding
  <2>4. i \in canceled => i # j
    BY <2>2 DEF Holder
  <2>5. i \in canceled' => /\ pc'[i] \in {"transcoding", "transcoded", "done", "gone"}
                           /\ input'[i] = {}
    BY <1>1, <1>5, <2>1, <2>4 DEF Holding
  <2>6. (Peers(i))' = Peers(i) /\ i \in Peers(j)
    BY <1>5 DEF Peers
  <2>7. (\E k \in (Peers(i))' : (Holder(k))') /\ \A k \in (Peers(i))' : (Holder(k))' => k = j
    BY <1>2, <2>1, <2>2, <2>3, <2>6 DEF Peers
  <2>8. (Holder(i))' => i = j
    BY <2>7, <2>1, <2>6 DEF Peers
  <2> QED
    BY <1>5, <2>5, <2>7, <2>8 DEF Holding
<1>6. ASSUME NEW i \in Jobs, RecordingOf[i] = RecordingOf[j], RecordingOf[j] \in overtaken
      PROVE  (Holding(i))'
  BY <1>6 DEF Holding
<1> QED
  BY <1>3, <1>4, <1>5, <1>6 DEF KInv

LEMMA KPrepare == ASSUME TypeOK, KInv, NEW j \in Jobs, Prepare(j) PROVE KInv'
<1> DEFINE r == RecordingOf[j]
           p == Piece(j, runs[j] + 1)
<1>1. /\ pc[j] = "loop" /\ To(j, "starting") /\ Begun(j) /\ r \in Recordings
      /\ UNCHANGED <<canceled, success, selfCtx, vod, input, overtaken>>
  BY DEF Prepare, flags, contexts, Begun, Recordings
<1>2. CASE UNCHANGED <<made, file>>
  BY <1>1, <1>2, KMoves DEF After, Given, KInv, Holding
<1>3. CASE made' = made \cup {p} /\ file' = [file EXCEPT ![r] = @ \cup {p}]
  <2>1. p.job = j /\ p \in Pieces
    BY DEF Piece, Pieces, TypeOK
  <2>2. pc' = [pc EXCEPT ![j] = "starting"] /\ (\A i \in Jobs \ {j} : pc'[i] = pc[i])
        /\ pc'[j] = "starting"
    BY <1>1 DEF To, TypeOK
  <2>3. j \notin success /\ j \notin Uploads
    BY <1>1 DEF KInv, Kinds, After, Given
  <2>4. Kinds'
    BY <1>1, <2>2, <2>3 DEF KInv, Kinds
  <2>5. \A q \in Recordings : file'[q] = IF q = r THEN file[q] \cup {p} ELSE file[q]
    BY <1>3 DEF TypeOK
  <2>6. \A q \in Recordings : (MadeOf(q))' = IF q = r THEN MadeOf(q) \cup {p} ELSE MadeOf(q)
    BY <1>3, <2>1 DEF MadeOf
  <2>7. \A q \in Recordings : file'[q] \subseteq (MadeOf(q))'
    BY <2>5, <2>6 DEF KInv, Sources
  <2>8. r \notin overtaken => (Kept(j))'
    <3> SUFFICES ASSUME r \notin overtaken PROVE (Kept(j))'
      OBVIOUS
    <3>1. Kept(j)
      BY <1>1, Alone
    <3>2. MadeOf(r) \subseteq file[r]
      BY <1>1, <2>3, <3>1 DEF Kept, Given
    <3>3. (MadeOf(r))' \subseteq file'[r]
      BY <1>1, <2>5, <2>6, <3>2
    <3>4. pc'[j] = "starting" /\ j \notin success' /\ j \notin Uploads
      BY <1>1, <2>2, <2>3
    <3> QED
      BY <3>3, <3>4 DEF Kept
  <2>9. "starting" \in PC \ {"none", "new"}
    BY DEF PC, Recording
  <2>10. \A q \in made' : q \in made \/ (q.job = j /\ q \in Pieces)
    BY <1>3, <2>1
  <2>11. \A q \in Recordings \ {r} : file'[q] = file[q] /\ vod'[q] = vod[q] /\ (MadeOf(q))' = MadeOf(q)
    BY <1>1, <2>5, <2>6
  <2> QED
    BY <1>1, <2>4, <2>7, <2>8, <2>9, <2>10, <2>11, KWorks
<1> QED
  BY <1>2, <1>3 DEF Prepare

LEMMA KStartTranscoding == ASSUME TypeOK, KInv, NEW j \in Jobs, StartTranscoding(j) PROVE KInv'
<1> DEFINE r == RecordingOf[j]
<1>1. /\ pc[j] \in {"recorded", "streamed", "received"} /\ To(j, "transcoding") /\ Begun(j)
      /\ r \in Recordings
      /\ input' = [input EXCEPT ![j] = file[r] \ Open] /\ vod' = [vod EXCEPT ![r] = {}]
      /\ UNCHANGED <<canceled, success, selfCtx, file, made, overtaken>>
  BY DEF StartTranscoding, flags, contexts, Begun, Recordings
<1>2. pc' = [pc EXCEPT ![j] = "transcoding"] /\ (\A i \in Jobs \ {j} : pc'[i] = pc[i])
      /\ pc'[j] = "transcoding"
  BY <1>1 DEF To, TypeOK
<1>3. j \notin success
  BY <1>1 DEF KInv, Kinds, After, Given
<1>4. j \in Uploads => pc[j] = "received"
  BY <1>1 DEF KInv, Kinds, After, Given
<1>5. Kinds'
  BY <1>1, <1>2, <1>3 DEF KInv, Kinds
<1>6. \A q \in Recordings : file'[q] \subseteq (MadeOf(q))'
  BY <1>1 DEF KInv, Sources, MadeOf
<1>7. \A q \in Recordings \ {r} : file'[q] = file[q] /\ vod'[q] = vod[q] /\ (MadeOf(q))' = MadeOf(q)
  BY <1>1 DEF MadeOf, TypeOK
<1>8. ASSUME r \notin overtaken PROVE (Kept(j))'
  <2>1. Kept(j) /\ \A i \in Peers(j) : Holder(i) => i = j
    BY <1>1, <1>8, Alone
  <2>2. MadeOf(r) \subseteq file[r]
    BY <1>1, <1>4, <2>1 DEF Kept, Given
  <2>3. ASSUME NEW p \in MadeOf(r), p \in Open PROVE FALSE
    <3>1. PICK k \in Jobs : pc[k] \in Recording /\ p = Piece(k, runs[k])
      BY <2>3 DEF Open
    <3>2. k \in Peers(j) /\ Begun(k)
      BY <2>3, <3>1 DEF Peers, Piece, MadeOf, Begun, Recording
    <3>3. RecordingOf[k] \notin overtaken
      BY <1>8, <3>2 DEF Peers
    <3>4. Holder(k)
      BY <3>1, <3>2, <3>3, Alone DEF Recording
    <3> QED
      BY <1>1, <2>1, <3>1, <3>2, <3>4 DEF Recording
  <2>4. MadeOf(r) \subseteq input'[j]
    BY <1>1, <2>2, <2>3 DEF TypeOK
  <2>5. (MadeOf(r))' = MadeOf(r) /\ file'[r] = file[r]
    BY <1>1 DEF MadeOf
  <2> QED
    BY <1>1, <1>2, <1>3, <2>2, <2>4, <2>5 DEF Kept
<1>9. \A i \in Jobs \ {j} : input'[i] = input[i] /\ (i \in success' <=> i \in success)
  BY <1>1 DEF TypeOK
<1>10. "transcoding" \in PC \ {"none", "new"}
  BY DEF PC, Cancelable
<1> QED
  BY <1>1, <1>5, <1>6, <1>7, <1>8, <1>9, <1>10, KWorks

LEMMA KTranscoded == ASSUME TypeOK, KInv, NEW j \in Jobs, Transcoded(j) PROVE KInv'
<1> DEFINE r == RecordingOf[j]
<1>1. /\ pc[j] = "transcoding" /\ To(j, "transcoded") /\ Begun(j) /\ r \in Recordings
      /\ input[j] # {} /\ input' = [input EXCEPT ![j] = {}] /\ vod' = [vod EXCEPT ![r] = input[j]]
      /\ success' = success \cup {j}
      /\ UNCHANGED <<canceled, selfCtx, file, made, overtaken>>
  BY DEF Transcoded, TranscodingEnds, contexts, Begun, Recordings
<1>2. pc' = [pc EXCEPT ![j] = "transcoded"] /\ (\A i \in Jobs \ {j} : pc'[i] = pc[i])
      /\ pc'[j] = "transcoded"
  BY <1>1 DEF To, TypeOK
<1>3. Kinds'
  BY <1>1, <1>2 DEF KInv, Kinds, After
<1>4. \A q \in Recordings : file'[q] \subseteq (MadeOf(q))'
  BY <1>1 DEF KInv, Sources, MadeOf
<1>5. \A q \in Recordings \ {r} : file'[q] = file[q] /\ vod'[q] = vod[q] /\ (MadeOf(q))' = MadeOf(q)
  BY <1>1 DEF MadeOf, TypeOK
<1>6. ASSUME r \notin overtaken PROVE (Kept(j))'
  <2>1. Kept(j)
    BY <1>1, <1>6, Alone
  <2>2. (MadeOf(r))' = MadeOf(r) /\ file'[r] = file[r] /\ vod'[r] = input[j]
    BY <1>1 DEF MadeOf, TypeOK
  <2> QED
    BY <1>1, <1>2, <2>1, <2>2 DEF Kept, Given
<1>7. \A i \in Jobs \ {j} : input'[i] = input[i] /\ (i \in success' <=> i \in success)
  BY <1>1 DEF TypeOK
<1>8. "transcoded" \in PC \ {"none", "new"}
  BY DEF PC, Cancelable
<1> QED
  BY <1>1, <1>3, <1>4, <1>5, <1>6, <1>7, <1>8, KWorks

LEMMA KTranscodingFails == ASSUME TypeOK, KInv, NEW j \in Jobs, TranscodingFails(j) PROVE KInv'
<1> DEFINE r == RecordingOf[j]
<1>1. /\ pc[j] = "transcoding" /\ To(j, "transcoded") /\ Begun(j) /\ r \in Recordings
      /\ input' = [input EXCEPT ![j] = {}]
      /\ UNCHANGED <<canceled, success, selfCtx, file, vod, made, overtaken>>
  BY DEF TranscodingFails, TranscodingEnds, contexts, Begun, Recordings
<1>2. CASE input[j] = {}
  <2>1. UNCHANGED input
    BY <1>1, <1>2 DEF TypeOK
  <2> QED
    BY <1>1, <2>1, KMoves DEF After, Given
<1>3. CASE input[j] # {}
  <2>1. pc' = [pc EXCEPT ![j] = "transcoded"] /\ (\A i \in Jobs \ {j} : pc'[i] = pc[i])
        /\ pc'[j] = "transcoded"
    BY <1>1 DEF To, TypeOK
  <2>2. Kinds'
    BY <1>1, <2>1 DEF KInv, Kinds, After
  <2>3. \A q \in Recordings : file'[q] \subseteq (MadeOf(q))' /\ (MadeOf(q))' = MadeOf(q)
    BY <1>1 DEF KInv, Sources, MadeOf
  <2>4. r \notin overtaken => (Kept(j))'
    BY <1>1, <1>3, <2>1, <2>3, Alone DEF Kept, Given
  <2>5. \A i \in Jobs \ {j} : input'[i] = input[i]
    BY <1>1 DEF TypeOK
  <2>6. "transcoded" \in PC \ {"none", "new"}
    BY DEF PC, Cancelable
  <2> QED
    BY <1>1, <1>3, <2>2, <2>3, <2>4, <2>5, <2>6, KWorks
<1> QED
  BY <1>2, <1>3

LEMMA KMarkForDeletion == ASSUME TypeOK, KInv, NEW j \in Jobs, MarkForDeletion(j) PROVE KInv'
<1> DEFINE r == RecordingOf[j]
<1>1. /\ pc[j] \in {"silence", "thumbs"} /\ To(j, "marking") /\ Begun(j) /\ r \in Recordings
      /\ j \in success /\ file' = [file EXCEPT ![r] = {}]
      /\ UNCHANGED <<canceled, success, selfCtx, input, vod, made, overtaken>>
  BY DEF MarkForDeletion, flags, contexts, Begun, Recordings
<1>2. pc' = [pc EXCEPT ![j] = "marking"] /\ (\A i \in Jobs \ {j} : pc'[i] = pc[i])
      /\ pc'[j] = "marking"
  BY <1>1 DEF To, TypeOK
<1>3. Kinds'
  BY <1>1, <1>2 DEF KInv, Kinds, After, Given
<1>4. \A q \in Recordings : file'[q] \subseteq (MadeOf(q))' /\ (MadeOf(q))' = MadeOf(q)
  BY <1>1 DEF KInv, Sources, MadeOf, TypeOK
<1>5. \A q \in Recordings \ {r} : file'[q] = file[q]
  BY <1>1 DEF TypeOK
<1>6. r \notin overtaken => (Kept(j))'
  BY <1>1, <1>2, <1>4, Alone DEF Kept, Given
<1>7. "marking" \in PC \ {"none", "new"}
  BY DEF PC
<1> QED
  BY <1>1, <1>3, <1>4, <1>5, <1>6, <1>7, KWorks

\* What an upload leaves: its recording is no other job's.
LEMMA KUpload ==
  ASSUME TypeOK, KInv, NEW j \in Uploads, NEW s \in After, To(j, s),
         pc[j] \in {"received", "silence"},
         UNCHANGED <<canceled, selfCtx, overtaken, made, input>>,
         \A q \in Recordings : file'[q] \subseteq file[q],
         \A q \in Recordings \ {RecordingOf[j]} : file'[q] = file[q] /\ vod'[q] = vod[q],
         \/ UNCHANGED success /\ (j \in success => UNCHANGED vod)
         \/ success' = success \cup {j} /\ vod'[RecordingOf[j]] = file[RecordingOf[j]] /\ pc[j] = "received"
  PROVE  KInv'
<1> DEFINE r == RecordingOf[j]
<1>1. j \in Jobs /\ Begun(j) /\ r \in Recordings /\ j \notin Self
  BY JobsTyped DEF Jobs, Begun, Recordings
<1>2. pc' = [pc EXCEPT ![j] = s] /\ (\A i \in Jobs \ {j} : pc'[i] = pc[i]) /\ pc'[j] = s
      /\ s \notin {"received", "transcoding"}
  BY <1>1 DEF To, TypeOK, After, Given
<1>3. Kinds'
  BY <1>1, <1>2 DEF KInv, Kinds
<1>4. \A q \in Recordings : (MadeOf(q))' = MadeOf(q) /\ file'[q] \subseteq (MadeOf(q))'
  BY DEF KInv, Sources, MadeOf
<1>5. ASSUME r \notin overtaken PROVE (Kept(j))'
  <2>1. Kept(j)
    BY <1>1, <1>5, Alone
  <2>2. j \in success' => (MadeOf(r))' \subseteq vod'[r]
    <3>1. (MadeOf(r))' = MadeOf(r)
      BY <1>1, <1>4
    <3>2. CASE j \in success /\ UNCHANGED vod
      BY <2>1, <3>1, <3>2 DEF Kept
    <3>3. CASE vod'[r] = file[r] /\ pc[j] = "received"
      BY <2>1, <3>1, <3>3 DEF Kept
    <3> QED
      BY <3>2, <3>3
  <2> QED
    BY <1>2, <2>2 DEF Kept
<1>6. \A i \in Jobs \ {j} : input'[i] = input[i] /\ (i \in success' <=> i \in success)
  OBVIOUS
<1>7. s \in PC \ {"none", "new"}
  BY DEF After, Given, PC, Cancelable
<1> QED
  BY <1>1, <1>3, <1>4, <1>5, <1>6, <1>7, KWorks

LEMMA KRequest == ASSUME TypeOK, KInv, NEW j \in Jobs, Request(j) PROVE KInv'
<1> USE DEF flags, contexts, files
<1>1. CASE HandleStreamRequest(j)
  <2>1. j \in Jobs \ Self /\ j \notin Uploads
    BY <1>1, JobsTyped DEF HandleStreamRequest
  <2> QED
    BY <1>1, <2>1, KBegins DEF HandleStreamRequest
<1>2. CASE OnPublish(j)
  BY <1>2, KPublish
<1>3. CASE HandleUploadRestReq(j)
  <2>1. j \in Jobs \ Self /\ j \in Uploads
    BY <1>3, JobsTyped DEF HandleUploadRestReq
  <2>2. Piece(j, 0) \in Pieces /\ Piece(j, 0).job = j
    BY DEF Piece, Pieces
  <2> QED
    BY <1>3, <2>1, <2>2, KBegins DEF HandleUploadRestReq
<1>4. CASE HandlePremiere(j)
  <2>1. j \in Jobs \ Self /\ j \notin Uploads
    BY <1>4, JobsTyped DEF HandlePremiere
  <2> QED
    BY <1>4, <2>1, KBegins DEF HandlePremiere
<1>5. CASE HandleThumbnailRequest(j)
  <2>1. j \in Jobs \ Self /\ j \notin Uploads
    BY <1>5, JobsTyped DEF HandleThumbnailRequest
  <2> QED
    BY <1>5, <2>1, KBegins DEF HandleThumbnailRequest
<1> QED
  BY <1>1, <1>2, <1>3, <1>4, <1>5 DEF Request

\* The steps that leave the files alone.
LEMMA KMoving ==
  ASSUME TypeOK, KInv, NEW j \in Jobs,
         \/ StartFfmpeg(j) \/ FfmpegExits(j) \/ LoopEnds(j) \/ SelfOffline(j)
         \/ Register(j) \/ SkipVoD(j) \/ Canceled(j)
         \/ StartAudio(j) \/ StartThumbs(j) \/ StartSilence(j)
         \/ NotMarked(j) \/ AddDeletable(j) \/ Played(j)
  PROVE  KInv'
<1> USE DEF flags, contexts, files
<1>1. j \in canceled /\ RecordingOf[j] \notin overtaken
      => pc[j] \in {"transcoding", "transcoded", "done", "gone"}
  BY DEF KInv, Holding
<1> USE KMoves, <1>1 DEF Begun, After, Given
<1>2. CASE StartFfmpeg(j)
  BY <1>2 DEF StartFfmpeg, Goes
<1>3. CASE FfmpegExits(j)
  BY <1>3 DEF FfmpegExits, Goes
<1>4. CASE LoopEnds(j) \/ SelfOffline(j)
  BY <1>4 DEF LoopEnds, SelfOffline, StreamEnds
<1>5. CASE Register(j)
  <2>1. \A r \in Recordings :
          selfCtx'[r] = selfCtx[r] \/ (selfCtx'[r] = j /\ RecordingOf[j] = r)
    BY <1>5 DEF Register, TypeOK
  <2> QED
    BY <1>5, <2>1 DEF Register
<1>6. CASE SkipVoD(j)
  BY <1>6 DEF SkipVoD, Goes
<1>7. CASE Canceled(j)
  BY <1>7 DEF Canceled, Goes
<1>8. CASE StartAudio(j)
  <2>1. j \notin canceled
    BY <1>8, JobsTyped DEF StartAudio, TypeOK
  <2> QED
    BY <1>8, <2>1 DEF StartAudio
<1>9. CASE StartThumbs(j)
  <2>1. j \notin canceled \/ RecordingOf[j] \in overtaken
    BY <1>9, JobsTyped DEF StartThumbs, TypeOK
  <2> QED
    BY <1>9, <2>1 DEF StartThumbs
<1>10. CASE StartSilence(j)
  BY <1>10 DEF StartSilence
<1>11. CASE NotMarked(j)
  BY <1>11 DEF NotMarked, Finish
<1>12. CASE AddDeletable(j)
  BY <1>12 DEF AddDeletable, Finish
<1>13. CASE Played(j)
  BY <1>13 DEF Played
<1> QED
  BY <1>2, <1>3, <1>4, <1>5, <1>6, <1>7, <1>8, <1>9, <1>10, <1>11, <1>12, <1>13

LEMMA KJobStep == ASSUME TypeOK, KInv, NEW j \in Jobs, JobStep(j) PROVE KInv'
<1>1. CASE MoveFile(j)
  <2>1. j \in Uploads /\ j \notin success /\ pc[j] = "received" /\ RecordingOf[j] \in Recordings
    BY <1>1 DEF MoveFile, KInv, Kinds, After, Given, Recordings
  <2>2. \A q \in Recordings : file'[q] \subseteq file[q]
    BY <1>1 DEF MoveFile, TypeOK
  <2>3. \A q \in Recordings \ {RecordingOf[j]} : file'[q] = file[q] /\ vod'[q] = vod[q]
    BY <1>1 DEF MoveFile, TypeOK
  <2>4. \/ UNCHANGED success
        \/ success' = success \cup {j} /\ vod'[RecordingOf[j]] = file[RecordingOf[j]]
    BY <1>1, <2>1 DEF MoveFile, TypeOK
  <2>5. To(j, "transcoded") /\ UNCHANGED <<canceled, selfCtx, overtaken, made, input>>
    BY <1>1 DEF MoveFile, contexts
  <2> QED
    BY <2>1, <2>2, <2>3, <2>4, <2>5, KUpload DEF After
<1>2. CASE RemoveUpload(j)
  <2>1. j \in Uploads /\ pc[j] = "silence" /\ To(j, "done")
        /\ UNCHANGED <<canceled, selfCtx, overtaken, made, input, success, vod>>
    BY <1>2 DEF RemoveUpload, Finish, flags, contexts
  <2>2. /\ \A q \in Recordings : file'[q] \subseteq file[q]
        /\ \A q \in Recordings \ {RecordingOf[j]} : file'[q] = file[q]
    BY <1>2 DEF RemoveUpload, TypeOK
  <2> QED
    BY <2>1, <2>2, KUpload DEF After, Given
<1> QED
  BY <1>1, <1>2, KPrepare, KStartTranscoding, KTranscoded, KTranscodingFails, KMarkForDeletion,
     KMoving DEF JobStep

LEMMA KOthers ==
  ASSUME TypeOK, KInv,
         \/ \E j \in Jobs : SelfOffline(j) \/ Over(j)
         \/ \E s, d : EndStreams(s, d)
         \/ \E e \in deletable : DayPasses(e)
         \/ Hourly
         \/ Restart
  PROVE  KInv'
<1> USE DEF files, contexts, flags, KVars
<1>1. ASSUME NEW j \in Jobs, SelfOffline(j) \/ Over(j) PROVE KInv'
  BY <1>1, KMoving, KFrame DEF Over
<1>2. ASSUME NEW s, NEW d, EndStreams(s, d) PROVE KInv'
  <2> DEFINE ended == {j \in regular : StreamOf[j] = s}
  <2>1. pc' = [j \in Jobs |-> IF j \in ended /\ pc[j] = "streaming" THEN "killed" ELSE pc[j]]
        /\ UNCHANGED <<canceled, success, selfCtx, file, vod, input, made, overtaken>>
    BY <1>2 DEF EndStreams
  <2> HIDE DEF ended
  <2>2. \A i \in Jobs : pc'[i] = pc[i] \/ (pc[i] = "streaming" /\ pc'[i] = "killed")
    BY <2>1
  <2>3. \A i \in Jobs : ((Begun(i))' <=> Begun(i)) /\ ((Holder(i))' <=> Holder(i))
    BY <2>1, <2>2 DEF Begun, Holder
  <2>4. Kinds'
    BY <2>1, <2>2 DEF KInv, Kinds, After, Given, TypeOK, Jobs
  <2>5. Sources'
    <3>1. Self \subseteq Jobs /\ canceled \subseteq Jobs /\ \A p \in made : p.job \in Jobs
      BY DEF TypeOK, Pieces, Jobs
    <3> QED
      BY <2>1, <2>3, <3>1 DEF KInv, Sources, MadeOf
  <2>6. ASSUME NEW i \in Jobs PROVE (Holding(i))'
    <3>1. Holding(i)
      BY DEF KInv
    <3>2. Kept(i) => (Kept(i))'
      BY <2>1, <2>2 DEF Kept, MadeOf, Given
    <3> QED
      BY <2>1, <2>2, <2>3, <3>1, <3>2 DEF Holding, Peers
  <2> QED
    BY <2>4, <2>5, <2>6 DEF KInv
<1>3. CASE \E e \in deletable : DayPasses(e)
  BY <1>3, KFrame DEF DayPasses
<1>4. CASE Hourly
  BY <1>4, KFrame DEF Hourly, ReadDeletables, SetDeletables
<1>5. CASE Restart
  <2>1. /\ \A i \in Jobs : pc'[i] = IF pc[i] \in {"none", "new", "done"} THEN pc[i] ELSE "gone"
        /\ \A i \in Jobs : input'[i] = {}
        /\ \A r \in Recordings : selfCtx'[r] \notin Self
        /\ UNCHANGED <<canceled, success, file, vod, made, overtaken>>
    BY <1>5, JobsTyped DEF Restart
  <2>2. \A i \in Jobs : ((Begun(i))' <=> Begun(i)) /\ ((Holder(i))' <=> Holder(i))
    BY <2>1 DEF Begun, Holder
  <2>3. Kinds'
    BY <2>1 DEF KInv, Kinds, After, Given, TypeOK, Jobs
  <2>4. Sources'
    <3>1. canceled \subseteq Jobs /\ \A p \in made : p.job \in Jobs
      BY DEF TypeOK, Pieces, Jobs
    <3> QED
      BY <2>1, <2>2, <3>1 DEF KInv, Sources, MadeOf
  <2>5. ASSUME NEW i \in Jobs PROVE (Holding(i))'
    <3>1. Holding(i)
      BY DEF KInv
    <3>2. Kept(i) => (Kept(i))'
      BY <2>1 DEF Kept, MadeOf, Given
    <3>3. i \in canceled /\ RecordingOf[i] \notin overtaken => pc'[i] \in {"done", "gone"}
      BY <2>1, <3>1 DEF Holding
    <3> QED
      BY <2>1, <2>2, <3>1, <3>2, <3>3 DEF Holding, Peers
  <2> QED
    BY <2>3, <2>4, <2>5 DEF KInv
<1> QED
  BY <1>1, <1>2, <1>3, <1>4, <1>5

LEMMA KInit == Init => KInv
<1> SUFFICES ASSUME Init PROVE KInv
  OBVIOUS
<1>1. canceled = {} /\ success = {} /\ made = {} /\ \A j \in Jobs : ~Begun(j)
  BY DEF Init, Begun
<1>2. Kinds
  BY <1>1 DEF Kinds, Begun, Jobs
<1>3. \A r \in Recordings : file[r] = {} /\ selfCtx[r] \notin Self
  BY JobsTyped DEF Init
<1>4. Sources
  BY <1>1, <1>3 DEF Sources
<1>5. \A j \in Jobs : Holding(j)
  BY <1>1 DEF Holding, Holder
<1> QED
  BY <1>2, <1>4, <1>5 DEF KInv

LEMMA KStep == TypeOK /\ KInv /\ [Next]_vars => KInv'
<1> SUFFICES ASSUME TypeOK, KInv, [Next]_vars PROVE KInv'
  OBVIOUS
<1>1. CASE UNCHANGED vars
  BY <1>1, KFrame DEF vars, flags, contexts, files, KVars
<1>2. CASE Next
  BY <1>2, KRequest, KJobStep, KOthers DEF Next
<1> QED
  BY <1>1, <1>2

LEMMA KImplies == TypeOK /\ KInv => RecordingKept
<1> SUFFICES ASSUME TypeOK, KInv, NEW p \in made,
                    RecordingOf[p.job] \notin overtaken, p.job \notin Uploads \ success
             PROVE  p \in file[RecordingOf[p.job]] \cup vod[RecordingOf[p.job]]
  BY DEF RecordingKept
<1> DEFINE r == RecordingOf[p.job]
<1>1. p.job \in Jobs /\ Begun(p.job) /\ p \in MadeOf(r)
  BY DEF TypeOK, Pieces, KInv, Sources, MadeOf
<1>2. PICK i \in Peers(p.job) : Holder(i)
  BY <1>1 DEF KInv, Holding
<1>3. i \in Jobs /\ RecordingOf[i] = r /\ Kept(i)
  BY <1>2 DEF Peers, KInv, Holding
<1>4. CASE i \in Uploads
  <2>1. i = p.job
    BY <1>1, <1>2, <1>4, JobsTyped, Single DEF Peers
  <2> QED
    BY <1>1, <1>3, <1>4, <2>1 DEF Kept
<1>5. CASE i \notin Uploads
  BY <1>1, <1>3, <1>5 DEF Kept
<1> QED
  BY <1>4, <1>5

\* What was recorded is in the video or in its file, unless a recording was published
\* again past the point of cancelling, or an upload could not be converted.
THEOREM RecordingsKept == Spec => []RecordingKept
  BY KInit, KStep, KImplies, TypeCorrect, PTL DEF Spec
=============================================================================
