---------------------------- MODULE FitterProofs ----------------------------
(***************************************************************************)
(* Proofs about Fitter, for every number of supervisors, pollers, images   *)
(* and items: type correctness, the inductive invariant IInv with the      *)
(* safety properties that follow from it, and the accounts of counters and *)
(* acknowledged images.                                                    *)
(***************************************************************************)
EXTENDS Fitter, TLAPS

(* A chunk is a natural number of images, never more than are left.        *)
LEMMA ChunkBound ==
  ASSUME TypeOK
  PROVE  Chunk \in Nat /\ Chunk <= todo /\ todo - Chunk \in Nat
  BY FitterAssumption DEF TypeOK, Chunk

LEMMA ChunkItems ==
  ASSUME TypeOK
  PROVE  items + Chunk * ItemsPerImage \in Nat
<1>1. \A a, b \in Nat : a * b \in Nat
  BY SMT
<1>2. Chunk * ItemsPerImage \in Nat
  BY <1>1, ChunkBound, FitterAssumption
<1> QED
  BY <1>2 DEF TypeOK

(* Every step of the worker keeps the types.                               *)
LEMMA AddBatchType ==
  ASSUME TypeOK, AddBatch
  PROVE  TypeOK'
<1> USE DEF TypeOK, FileType, Begin, Goto, Return, ReturnWithStage, Labels,
            Stages, atomics, counters, call, disk, outside, history
<1>1. ASSUME NEW n \in 1..MaxImages, AddBegin(n) PROVE TypeOK'
  BY <1>1, FitterAssumption DEF AddBegin
<1>2. CASE AddFlag
  BY <1>2 DEF AddFlag, CheckFlag
<1>3. CASE AddConvert
  BY <1>3 DEF AddConvert
<1>4. CASE ChunkCheck
  BY <1>4 DEF ChunkCheck, CheckFlag
<1>5. CASE ChunkWork
  BY <1>5, ChunkItems DEF ChunkWork
<1>6. CASE CountProcessed
  BY <1>6, ChunkBound DEF CountProcessed
<1>7. CASE CountCollected
  BY <1>7, ChunkBound DEF CountCollected, StoreCollected
<1>8. CASE AddEnd
  BY <1>8 DEF AddEnd, AddEndWhen
<1> QED
  BY <1>1, <1>2, <1>3, <1>4, <1>5, <1>6, <1>7, <1>8 DEF AddBatch

LEMMA CheckpointingType ==
  ASSUME TypeOK, Checkpointing
  PROVE  TypeOK'
<1> USE DEF TypeOK, FileType, Begin, Goto, Return, Labels,
            Stages, atomics, counters, call, disk, outside, history
<1>1. CASE SaveBegin
  BY <1>1 DEF SaveBegin, Torn
<1>2. CASE SaveEnd
  BY <1>2 DEF SaveEnd, Whole
<1>3. CASE LoadBegin
  BY <1>3 DEF LoadBegin
<1>4. CASE LoadRead
  BY <1>4 DEF LoadRead, LoadIf
<1>5. CASE LoadProcessed
  BY <1>5 DEF LoadProcessed
<1>6. CASE LoadCollected
  BY <1>6 DEF LoadCollected
<1> QED
  BY <1>1, <1>2, <1>3, <1>4, <1>5, <1>6 DEF Checkpointing

LEMMA FinalizeType ==
  ASSUME TypeOK, Finalize
  PROVE  TypeOK'
<1> USE DEF TypeOK, FileType, Begin, Goto, Return, ReturnWithStage, Labels,
            Stages, atomics, counters, call, disk, outside, history
<1>1. CASE FinalizeBegin
  BY <1>1 DEF FinalizeBegin
<1>2. CASE FinalizeFlag
  BY <1>2 DEF FinalizeFlag, FinalizeUnless
<1>3. CASE FinalizeStart
  BY <1>3 DEF FinalizeStart, StartAs
<1>4. CASE FinalizeSave
  BY <1>4 DEF FinalizeSave
<1>5. CASE FinalizeCommit
  BY <1>5 DEF FinalizeCommit, Whole
<1>6. CASE FinalizeComplete
  BY <1>6 DEF FinalizeComplete
<1> QED
  BY <1>1, <1>2, <1>3, <1>4, <1>5, <1>6 DEF Finalize

LEMMA CancelType ==
  ASSUME TypeOK, NEW s \in Supervisors, Cancel(s)
  PROVE  TypeOK'
  BY DEF TypeOK, Cancel, FileType, Stages, counters, call, disk, history

LEMMA PollType ==
  ASSUME TypeOK, NEW p \in Pollers, Poll(p)
  PROVE  TypeOK'
<1> DEFINE Reports == [stage : Stages, processed : Nat,
                       collected : Nat, flag : BOOLEAN]
<1> USE DEF TypeOK, Stages, Fields
<1>1. CASE unread[p] = {}
  <2>1. [NoReport EXCEPT !.stage = stage] \in Reports
    BY DEF NoReport
  <2>2. report' \in [Pollers -> Reports] /\ unread' \in [Pollers -> SUBSET Fields]
    BY <1>1, <2>1 DEF Poll
  <2> QED
    BY <2>2 DEF Poll, atomics, call, disk, history, FileType
<1>2. CASE unread[p] # {}
  <2>1. PICK f \in unread[p] :
          /\ report' = [report EXCEPT ![p][f] = Shared(f)]
          /\ unread' = [unread EXCEPT ![p] = @ \ {f}]
    BY <1>2 DEF Poll
  <2>2. report[p] \in Reports /\ f \in Fields
    BY <2>1
  <2>3. [report[p] EXCEPT ![f] = Shared(f)] \in Reports
    <3>1. CASE f = "processed"
      BY <3>1, <2>2 DEF Shared
    <3>2. CASE f = "collected"
      BY <3>2, <2>2 DEF Shared
    <3>3. CASE f = "flag"
      BY <3>3, <2>2 DEF Shared
    <3> QED
      BY <2>2, <3>1, <3>2, <3>3
  <2>4. report' \in [Pollers -> Reports] /\ unread' \in [Pollers -> SUBSET Fields]
    BY <2>1, <2>3
  <2> QED
    BY <2>4 DEF Poll, atomics, call, disk, history, FileType
<1> QED
  BY <1>1, <1>2

LEMMA NoReportType ==
  NoReport \in [stage : Stages, processed : Nat, collected : Nat, flag : BOOLEAN]
  BY DEF NoReport, Stages

LEMMA RestartType ==
  ASSUME TypeOK, Restart
  PROVE  TypeOK'
<1>1. report' \in [Pollers -> [stage : Stages, processed : Nat,
                               collected : Nat, flag : BOOLEAN]]
  BY NoReportType DEF Restart
<1>2. /\ unread' \in [Pollers -> SUBSET Fields]
      /\ cancelPc' \in [Supervisors -> {"idle", "stage"}]
  BY DEF Restart
<1>3. stage' \in Stages /\ pc' \in Labels
  BY DEF Restart, Stages, Labels
<1>4. /\ processedSamples' \in Nat /\ collectedItems' \in Nat /\ items' \in Nat
      /\ batch' \in Nat /\ todo' \in Nat /\ restarts' \in Nat
      /\ acked' \in Nat /\ published' \in Nat /\ late' \in Nat
  BY FitterAssumption DEF Restart, TypeOK
<1>5. cancellationRequested' \in BOOLEAN /\ flagAtCall' \in BOOLEAN
  BY DEF Restart
<1>6. checkpoint' \in FileType /\ package' \in FileType
  BY DEF Restart, TypeOK, disk
<1> QED
  BY <1>1, <1>2, <1>3, <1>4, <1>5, <1>6 DEF TypeOK

LEMMA TypeStep == TypeOK /\ [Next]_vars => TypeOK'
<1> SUFFICES ASSUME TypeOK, [Next]_vars PROVE TypeOK'
  OBVIOUS
<1>1. CASE UNCHANGED vars
  BY <1>1 DEF TypeOK, FileType, vars, atomics, call, disk, outside, history
<1>2. CASE Next
  BY <1>2, AddBatchType, CheckpointingType, FinalizeType, CancelType,
     PollType, RestartType DEF Next, Worker
<1> QED
  BY <1>1, <1>2

LEMMA TypeInit == Init => TypeOK
<1> SUFFICES ASSUME Init PROVE TypeOK
  OBVIOUS
<1>1. report \in [Pollers -> [stage : Stages, processed : Nat,
                              collected : Nat, flag : BOOLEAN]]
  BY NoReportType DEF Init
<1>2. /\ unread \in [Pollers -> SUBSET Fields]
      /\ cancelPc \in [Supervisors -> {"idle", "stage"}]
  BY DEF Init
<1>3. stage \in Stages /\ pc \in Labels
  BY DEF Init, Stages, Labels
<1>4. checkpoint \in FileType /\ package \in FileType
  BY DEF Init, NoFile, FileType
<1>5. cancellationRequested \in BOOLEAN /\ flagAtCall \in BOOLEAN
  BY DEF Init
<1>6. /\ processedSamples \in Nat /\ collectedItems \in Nat /\ items \in Nat
      /\ batch \in Nat /\ todo \in Nat /\ restarts \in Nat
      /\ acked \in Nat /\ published \in Nat /\ late \in Nat
  BY FitterAssumption DEF Init
<1> QED
  BY <1>1, <1>2, <1>3, <1>4, <1>5, <1>6 DEF TypeOK

(* Type correctness: whatever the threads do, every member of anom_fitter, *)
(* every report and every file keeps its type.                             *)
THEOREM TypeCorrect == Spec => []TypeOK
  BY TypeInit, TypeStep, PTL DEF Spec
-----------------------------------------------------------------------------
(* The parts of IInv besides the types.                                    *)
SafetyParts ==
  /\ FlagBeforeStage
  /\ ClosedOncePublished
  /\ LateOnlyAfterCheck
  /\ CommitOnlyUncancelledCalls
  /\ ReportsBacked

LEMMA AddBatchSafe ==
  ASSUME IInv, AddBatch
  PROVE  SafetyParts'
<1> USE DEF IInv, TypeOK, SafetyParts, FlagBeforeStage, ClosedOncePublished,
            LateOnlyAfterCheck, CommitOnlyUncancelledCalls, ReportsBacked,
            Begin, Goto, Return, ReturnWithStage,
            atomics, counters, call, disk, outside, history
<1>1. ASSUME NEW n \in 1..MaxImages, AddBegin(n) PROVE SafetyParts'
  BY <1>1 DEF AddBegin
<1>2. CASE AddFlag
  BY <1>2 DEF AddFlag, CheckFlag
<1>3. CASE AddConvert
  BY <1>3 DEF AddConvert
<1>4. CASE ChunkCheck
  BY <1>4 DEF ChunkCheck, CheckFlag
<1>5. CASE ChunkWork
  BY <1>5 DEF ChunkWork
<1>6. CASE CountProcessed
  BY <1>6 DEF CountProcessed
<1>7. CASE CountCollected
  BY <1>7 DEF CountCollected, StoreCollected
<1>8. CASE AddEnd
  BY <1>8 DEF AddEnd, AddEndWhen
<1> QED
  BY <1>1, <1>2, <1>3, <1>4, <1>5, <1>6, <1>7, <1>8 DEF AddBatch

LEMMA CheckpointingSafe ==
  ASSUME IInv, Checkpointing
  PROVE  SafetyParts'
<1> USE DEF IInv, TypeOK, SafetyParts, FlagBeforeStage, ClosedOncePublished,
            LateOnlyAfterCheck, CommitOnlyUncancelledCalls, ReportsBacked,
            Begin, Goto, Return, ReturnWithStage,
            atomics, counters, call, disk, outside, history
<1>1. CASE SaveBegin
  BY <1>1 DEF SaveBegin
<1>2. CASE SaveEnd
  BY <1>2 DEF SaveEnd
<1>3. CASE LoadBegin
  BY <1>3 DEF LoadBegin
<1>4. CASE LoadRead
  BY <1>4 DEF LoadRead, LoadIf
<1>5. CASE LoadProcessed
  BY <1>5 DEF LoadProcessed
<1>6. CASE LoadCollected
  BY <1>6 DEF LoadCollected
<1> QED
  BY <1>1, <1>2, <1>3, <1>4, <1>5, <1>6 DEF Checkpointing

LEMMA FinalizeSafe ==
  ASSUME IInv, Finalize
  PROVE  SafetyParts'
<1> USE DEF IInv, TypeOK, SafetyParts, FlagBeforeStage, ClosedOncePublished,
            LateOnlyAfterCheck, CommitOnlyUncancelledCalls, ReportsBacked,
            Begin, Goto, Return, ReturnWithStage,
            atomics, counters, call, disk, outside, history
<1>1. CASE FinalizeBegin
  BY <1>1 DEF FinalizeBegin
<1>2. CASE FinalizeFlag
  BY <1>2 DEF FinalizeFlag, FinalizeUnless
<1>3. CASE FinalizeStart
  BY <1>3 DEF FinalizeStart, StartAs
<1>4. CASE FinalizeSave
  BY <1>4 DEF FinalizeSave
<1>5. CASE FinalizeCommit
  <2>1. FlagBeforeStage' /\ LateOnlyAfterCheck' /\ CommitOnlyUncancelledCalls'
    BY <1>5 DEF FinalizeCommit
  <2>2. published = 0 /\ processedSamples > 0 /\ stage \in {"FINALIZING", "CANCELLED"}
    BY <1>5 DEF FinalizeCommit
  <2>3. ClosedOncePublished'
    BY <1>5, <2>2 DEF FinalizeCommit, Whole
  <2>4. ReportsBacked'
    BY <1>5 DEF FinalizeCommit
  <2> QED
    BY <2>1, <2>3, <2>4
<1>6. CASE FinalizeComplete
  BY <1>6 DEF FinalizeComplete
<1> QED
  BY <1>1, <1>2, <1>3, <1>4, <1>5, <1>6 DEF Finalize

LEMMA CancelSafe ==
  ASSUME IInv, NEW s \in Supervisors, Cancel(s)
  PROVE  SafetyParts'
<1> USE DEF IInv, TypeOK, counters, call, disk, history
<1>1. FlagBeforeStage'
  BY DEF Cancel, FlagBeforeStage
<1>2. ClosedOncePublished' /\ LateOnlyAfterCheck' /\ CommitOnlyUncancelledCalls'
  BY DEF Cancel, ClosedOncePublished, LateOnlyAfterCheck, CommitOnlyUncancelledCalls
<1>3. ReportsBacked'
  BY DEF Cancel, ReportsBacked
<1> QED
  BY <1>1, <1>2, <1>3 DEF SafetyParts

(* A report starts from the stage, which is backed by FlagBeforeStage and  *)
(* ClosedOncePublished; the later loads only see what those promise.       *)
LEMMA PollSafe ==
  ASSUME IInv, NEW p \in Pollers, Poll(p)
  PROVE  SafetyParts'
<1> USE DEF IInv, TypeOK, atomics, call, disk, history
<1>1. FlagBeforeStage' /\ ClosedOncePublished' /\ LateOnlyAfterCheck'
      /\ CommitOnlyUncancelledCalls'
  BY DEF Poll, FlagBeforeStage, ClosedOncePublished, LateOnlyAfterCheck,
         CommitOnlyUncancelledCalls
<1>2. ReportsBacked'
  <2>1. CASE unread[p] = {}
    <3>1. report' = [report EXCEPT ![p] = [NoReport EXCEPT !.stage = stage]]
          /\ unread' = [unread EXCEPT ![p] = Fields]
      BY <2>1 DEF Poll
    <3>2. report'[p].stage = stage /\ unread'[p] = Fields
      BY <3>1 DEF NoReport
    <3>3. \A q \in Pollers \ {p} : report'[q] = report[q] /\ unread'[q] = unread[q]
      BY <3>1
    <3> QED
      BY <3>2, <3>3 DEF ReportsBacked, Fields, FlagBeforeStage,
         ClosedOncePublished, Poll
  <2>2. CASE unread[p] # {}
    <3>1. PICK f \in unread[p] :
            /\ report' = [report EXCEPT ![p][f] = Shared(f)]
            /\ unread' = [unread EXCEPT ![p] = @ \ {f}]
      BY <2>2 DEF Poll
    <3>2. f \in Fields /\ unread'[p] = unread[p] \ {f}
      BY <3>1
    <3>3. /\ report'[p].stage = report[p].stage
          /\ report'[p].flag = IF f = "flag" THEN cancellationRequested
                                             ELSE report[p].flag
          /\ report'[p].processed = IF f = "processed" THEN processedSamples
                                                       ELSE report[p].processed
      <4>1. report[p] \in [stage : Stages, processed : Nat,
                           collected : Nat, flag : BOOLEAN]
        OBVIOUS
      <4>2. report'[p] = [report[p] EXCEPT ![f] = Shared(f)]
        BY <3>1
      <4> QED
        BY <3>2, <4>1, <4>2 DEF Fields, Shared
    <3>4. \A q \in Pollers \ {p} : report'[q] = report[q] /\ unread'[q] = unread[q]
      BY <3>1
    <3>5. cancellationRequested' = cancellationRequested /\ published' = published
      BY DEF Poll
    <3>6. published = 1 => processedSamples > 0
      BY DEF ClosedOncePublished
    <3>7. report[p].stage = "CANCELLED" =>
             cancellationRequested /\ ("flag" \in unread'[p] \/ report'[p].flag)
      BY <3>2, <3>3 DEF ReportsBacked
    <3>8. report[p].stage = "COMPLETE" =>
             published = 1 /\ ("processed" \in unread'[p] \/ report'[p].processed > 0)
      BY <3>2, <3>3, <3>6 DEF ReportsBacked
    <3> QED
      BY <3>3, <3>4, <3>5, <3>7, <3>8 DEF ReportsBacked
  <2> QED
    BY <2>1, <2>2
<1> QED
  BY <1>1, <1>2 DEF SafetyParts

LEMMA RestartSafe ==
  ASSUME IInv, Restart
  PROVE  SafetyParts'
  BY DEF Restart, SafetyParts, FlagBeforeStage, ClosedOncePublished,
         LateOnlyAfterCheck, CommitOnlyUncancelledCalls, ReportsBacked, NoReport

LEMMA InitSafe == Init => IInv
  BY TypeInit
     DEF Init, IInv, FlagBeforeStage, ClosedOncePublished, LateOnlyAfterCheck,
         CommitOnlyUncancelledCalls, ReportsBacked, NoReport

LEMMA SafeStep == IInv /\ [Next]_vars => IInv'
<1> SUFFICES ASSUME IInv, [Next]_vars PROVE IInv'
  OBVIOUS
<1>1. TypeOK'
  BY TypeStep DEF IInv
<1>2. SafetyParts'
  <2>1. CASE UNCHANGED vars
    BY <2>1 DEF IInv, SafetyParts, FlagBeforeStage, ClosedOncePublished,
       LateOnlyAfterCheck, CommitOnlyUncancelledCalls, ReportsBacked,
       vars, atomics, call, disk, outside, history
  <2>2. CASE Next
    BY <2>2, AddBatchSafe, CheckpointingSafe, FinalizeSafe, CancelSafe,
       PollSafe, RestartSafe DEF Next, Worker
  <2> QED
    BY <2>1, <2>2
<1> QED
  BY <1>1, <1>2 DEF IInv, SafetyParts

(* The inductive invariant holds in every reachable state.                 *)
THEOREM Safety == Spec => []IInv
  BY InitSafe, SafeStep, PTL DEF Spec

(* However cancel, add_batch and finalize interleave, one fitter publishes *)
(* at most one package.                                                    *)
THEOREM OnePackage == Spec => []OnePackagePerFitter
<1>1. IInv => OnePackagePerFitter
  BY DEF IInv, ClosedOncePublished, OnePackagePerFitter
<1> QED
  BY <1>1, Safety, PTL

(* After cancel's first store at most one more chunk enters the pipeline.  *)
THEOREM Prompt == Spec => []PromptCancellation
<1>1. IInv => PromptCancellation
  BY DEF IInv, LateOnlyAfterCheck, PromptCancellation
<1> QED
  BY <1>1, Safety, PTL

(* A report of CANCELLED shows the request, a report of COMPLETE is backed *)
(* by a package, for any number of polling threads.                        *)
THEOREM HonestReports == Spec => []ReportsHonest
<1>1. IInv => ReportsHonest
  BY DEF IInv, ReportsBacked, ClosedOncePublished, ReportsHonest
<1> QED
  BY <1>1, Safety, PTL

(* A finalize that begins after a cancel publishes nothing.                *)
THEOREM NoPublish == Spec => NoPublishAfterCancel
<1>1. IInv /\ [Next]_vars => [published' = published + 1 => ~flagAtCall]_vars
  <2> SUFFICES ASSUME IInv, [Next]_vars, published' = published + 1
               PROVE  ~flagAtCall
    OBVIOUS
  <2>1. published \in {0, 1}
    BY DEF IInv, ClosedOncePublished
  <2>2. published' # published
    BY <2>1
  <2>3. FinalizeCommit
    <3>1. ~ UNCHANGED vars
      BY <2>2 DEF vars, history
    <3>2. ~Checkpointing
      BY <2>2 DEF Checkpointing, SaveBegin, SaveEnd, LoadBegin, LoadRead, LoadIf,
         LoadProcessed, LoadCollected, history
    <3>3. ~AddBatch
      BY <2>2 DEF AddBatch, AddBegin, AddFlag, CheckFlag, AddConvert, ChunkCheck,
         ChunkWork, CountProcessed, CountCollected, StoreCollected, AddEnd,
         AddEndWhen, history
    <3>4. ~Restart
      BY <2>1 DEF Restart
    <3>5. ~(\E s \in Supervisors : Cancel(s)) /\ ~(\E p \in Pollers : Poll(p))
      BY <2>2 DEF Cancel, Poll, history
    <3>6. Finalize
      BY <3>1, <3>2, <3>3, <3>4, <3>5 DEF Next, Worker
    <3> QED
      BY <3>6, <2>2 DEF Finalize, FinalizeBegin, FinalizeFlag, FinalizeUnless,
         FinalizeStart, StartAs, FinalizeSave, FinalizeComplete, history
  <2> QED
    BY <2>3 DEF IInv, CommitOnlyUncancelledCalls, FinalizeCommit, Goto,
       ReturnWithStage, Return
<1> QED
  BY <1>1, Safety, PTL DEF Spec, NoPublishAfterCancel
-----------------------------------------------------------------------------
(* Counters and acknowledged images: how far they are from the pipeline at *)
(* every label.                                                            *)

ItemsOf(n) == n * ItemsPerImage

(* The images of the add_batch call under way that are in the pipeline.    *)
Added ==
  IF pc \in {"add_flag", "add_convert", "chunk", "work"} THEN batch - todo
  ELSE IF pc \in {"count_processed", "count_collected"} THEN batch - todo + Chunk
  ELSE 0

(* A call has at most its batch left to do, and a chunk under way is not   *)
(* empty.                                                                  *)
CallBounded ==
  /\ todo <= batch
  /\ pc \in {"work", "count_processed", "count_collected"} => todo > 0

(* A file holds the images acknowledged before it was written.             *)
Backed(file) ==
  /\ ItemsOf(file.acked) <= file.items
  /\ file.state = "whole" => file.items > 0

AcksBacked ==
  /\ ItemsOf(acked + Added) <= items
  /\ Backed(checkpoint) /\ Backed(package)
  /\ pc \in {"save", "fin_commit"} => items > 0

(* A counter that is behind is behind by the chunk under way, or about to  *)
(* be loaded.                                                              *)
CountersFollow ==
  /\ pc \notin {"load_processed", "load_collected"} => collectedItems <= items
  /\ processedSamples # 0 => items > 0
  /\ pc \in {"count_processed", "count_collected", "load_processed", "load_collected"}
       => items > 0
  /\ pc \in {"count_collected", "load_collected"} => processedSamples # 0
  /\ pc \notin {"count_processed", "load_processed"} /\ processedSamples = 0
       => items = Seed

PadimExact ==
  ~PatchCore =>
    /\ pc \notin {"count_processed", "load_processed"} => processedSamples = items
    /\ pc \notin {"count_processed", "count_collected", "load_processed", "load_collected"}
         => collectedItems = items
    /\ pc = "count_processed" => processedSamples + Chunk = items

Accounts == CallBounded /\ AcksBacked /\ CountersFollow /\ PadimExact

LEMMA ItemsFacts ==
  /\ \A n \in Nat : ItemsOf(n) \in Nat /\ (n > 0 => ItemsOf(n) > 0)
  /\ \A m, n \in Nat : ItemsOf(m + n) = ItemsOf(m) + ItemsOf(n)
  /\ ItemsOf(0) = 0
  /\ ~PatchCore => \A n \in Nat : ItemsOf(n) = n
<1>1. ItemsPerImage \in Nat \ {0} /\ (~PatchCore => ItemsPerImage = 1)
  BY FitterAssumption
<1>2. \A n \in Nat : ItemsOf(n) \in Nat /\ (n > 0 => ItemsOf(n) > 0)
  BY <1>1 DEF ItemsOf
<1>3. \A m, n \in Nat : ItemsOf(m + n) = ItemsOf(m) + ItemsOf(n)
  BY <1>1 DEF ItemsOf
<1>4. ItemsOf(0) = 0
  BY <1>1 DEF ItemsOf
<1>5. ~PatchCore => \A n \in Nat : ItemsOf(n) = n
  BY <1>1 DEF ItemsOf
<1> QED
  BY <1>2, <1>3, <1>4, <1>5

(* What has been acknowledged is backed however the call goes on.          *)
LEMMA AckedBacked ==
  ASSUME TypeOK, Accounts
  PROVE  ItemsOf(acked) <= items /\ Added \in Nat
<1>1. Added \in Nat
  BY ChunkBound DEF Accounts, CallBounded, TypeOK, Added
<1>2. /\ ItemsOf(acked + Added) = ItemsOf(acked) + ItemsOf(Added)
      /\ ItemsOf(acked) \in Nat /\ ItemsOf(Added) \in Nat
  BY <1>1, ItemsFacts DEF TypeOK
<1>3. ItemsOf(acked + Added) <= items
  BY DEF Accounts, AcksBacked
<1> QED
  BY <1>1, <1>2, <1>3 DEF TypeOK

LEMMA AddBatchAccounts ==
  ASSUME TypeOK, Accounts, AddBatch
  PROVE  Accounts'
<1> USE DEF TypeOK, Begin, Goto, Return, ReturnWithStage,
            atomics, counters, call, disk, outside, history
<1>0. /\ acked + 0 = acked /\ Chunk \in Nat /\ Chunk <= todo
      /\ todo > 0 => Chunk > 0
  BY ChunkBound, FitterAssumption DEF Chunk
<1>1. ASSUME NEW n \in 1..MaxImages, AddBegin(n) PROVE Accounts'
  BY <1>0, <1>1, AckedBacked, FitterAssumption
     DEF AddBegin, Accounts, CallBounded, AcksBacked, CountersFollow, PadimExact, Added, Backed
<1>2. CASE AddFlag \/ ChunkCheck
  BY <1>0, <1>2, AckedBacked
     DEF AddFlag, ChunkCheck, CheckFlag, Accounts, CallBounded, AcksBacked, CountersFollow,
         PadimExact, Added, Backed
<1>3. CASE AddConvert
  BY <1>0, <1>3, AckedBacked
     DEF AddConvert, Accounts, CallBounded, AcksBacked, CountersFollow, PadimExact, Added, Backed
<1>4. CASE ChunkWork
  <2>1. CASE ReturnWithStage("work", "READY") /\ UNCHANGED items
    BY <1>0, <1>4, <2>1, AckedBacked
       DEF ChunkWork, Accounts, CallBounded, AcksBacked, CountersFollow, PadimExact, Added, Backed
  <2>2. CASE /\ Goto("work", "count_processed")
             /\ items' = items + ItemsOf(Chunk)
             /\ UNCHANGED <<call, acked>>
    <3>1. Chunk' = Chunk /\ Added' = Added + Chunk /\ Added \in Nat /\ todo > 0
      BY <1>0, <2>2, AckedBacked DEF Accounts, CallBounded, Added, Chunk
    <3>2. /\ ItemsOf(Chunk) \in Nat /\ ItemsOf(Chunk) > 0
          /\ ItemsOf((acked + Added) + Chunk) = ItemsOf(acked + Added) + ItemsOf(Chunk)
          /\ ItemsOf(acked + Added) \in Nat
      BY <1>0, <3>1, ItemsFacts
    <3>3. ItemsOf(acked' + Added') <= items'
      <4>1. acked' + Added' = (acked + Added) + Chunk
        BY <1>0, <2>2, <3>1
      <4>2. ItemsOf(acked + Added) <= items
        BY DEF Accounts, AcksBacked
      <4> QED
        BY <2>2, <3>2, <4>1, <4>2
    <3>4. AcksBacked'
      BY <1>4, <2>2, <3>3 DEF ChunkWork, Accounts, AcksBacked, Backed
    <3>5. CallBounded' /\ CountersFollow'
      BY <1>4, <2>2, <3>1, <3>2 DEF ChunkWork, Accounts, CallBounded, CountersFollow
    <3>6. ~PatchCore => ItemsOf(Chunk) = Chunk
      BY <1>0, ItemsFacts
    <3>7. PadimExact'
      BY <1>0, <1>4, <2>2, <3>1, <3>6 DEF ChunkWork, Accounts, PadimExact
    <3> QED
      BY <3>4, <3>5, <3>7 DEF Accounts
  <2> QED
    BY <1>4, <2>1, <2>2 DEF ChunkWork, ItemsOf
<1>5. CASE CountProcessed
  <2>1. Chunk' = Chunk
    BY <1>5 DEF CountProcessed, Chunk
  <2> QED
    BY <1>0, <1>5, <2>1
       DEF CountProcessed, Accounts, CallBounded, AcksBacked, CountersFollow, PadimExact, Added,
           Backed
<1>6. CASE CountCollected
  BY <1>0, <1>6
     DEF CountCollected, StoreCollected, Accounts, CallBounded, AcksBacked, CountersFollow,
         PadimExact, Added, Backed
<1>7. CASE AddEnd
  BY <1>0, <1>7
     DEF AddEnd, AddEndWhen, Accounts, CallBounded, AcksBacked, CountersFollow, PadimExact,
         Added, Backed
<1> QED
  BY <1>1, <1>2, <1>3, <1>4, <1>5, <1>6, <1>7 DEF AddBatch

LEMMA CheckpointingAccounts ==
  ASSUME TypeOK, Accounts, Checkpointing
  PROVE  Accounts'
<1>0. ItemsOf(acked) <= items /\ acked + 0 = acked /\ ItemsOf(0) = 0
  <2>1. ItemsOf(acked) <= items /\ acked + 0 = acked
    BY AckedBacked DEF TypeOK
  <2>2. ItemsOf(0) = 0
    BY ItemsFacts
  <2> QED
    BY <2>1, <2>2
<1> USE DEF TypeOK, FileType, Begin, Goto, Return, atomics, counters, call, disk, outside, history,
        Accounts, CallBounded, AcksBacked, CountersFollow, PadimExact, Added, Backed
<1>1. CASE SaveBegin
  BY <1>0, <1>1 DEF SaveBegin, Torn
<1>2. CASE SaveEnd
  BY <1>0, <1>2 DEF SaveEnd, Whole
<1>3. CASE LoadBegin
  BY <1>0, <1>3 DEF LoadBegin
<1>4. CASE LoadRead
  BY <1>0, <1>4 DEF LoadRead, LoadIf
<1>5. CASE LoadProcessed
  BY <1>0, <1>5 DEF LoadProcessed
<1>6. CASE LoadCollected
  BY <1>0, <1>6 DEF LoadCollected
<1> QED
  BY <1>1, <1>2, <1>3, <1>4, <1>5, <1>6 DEF Checkpointing

LEMMA FinalizeAccounts ==
  ASSUME TypeOK, Accounts, Finalize
  PROVE  Accounts'
<1>0. ItemsOf(acked) <= items /\ acked + 0 = acked
  BY AckedBacked DEF TypeOK
<1> USE DEF TypeOK, FileType, Begin, Goto, Return, ReturnWithStage,
        atomics, counters, call, disk, outside, history,
        Accounts, CallBounded, AcksBacked, CountersFollow, PadimExact, Added, Backed
<1>1. CASE FinalizeBegin
  BY <1>0, <1>1 DEF FinalizeBegin
<1>2. CASE FinalizeFlag
  BY <1>0, <1>2 DEF FinalizeFlag, FinalizeUnless
<1>3. CASE FinalizeStart
  BY <1>0, <1>3 DEF FinalizeStart, StartAs
<1>4. CASE FinalizeSave
  BY <1>0, <1>4 DEF FinalizeSave
<1>5. CASE FinalizeCommit
  BY <1>0, <1>5 DEF FinalizeCommit, Whole
<1>6. CASE FinalizeComplete
  BY <1>0, <1>6 DEF FinalizeComplete
<1> QED
  BY <1>1, <1>2, <1>3, <1>4, <1>5, <1>6 DEF Finalize

(* Supervisors and pollers touch none of it.                               *)
LEMMA OutsideAccounts ==
  ASSUME Accounts,
         UNCHANGED <<counters, items, pc, call, disk, acked>>
  PROVE  Accounts'
  BY DEF Accounts, CallBounded, AcksBacked, CountersFollow, PadimExact, Added, Backed, Chunk,
         counters, call, disk

LEMMA RestartAccounts ==
  ASSUME TypeOK, Accounts, Restart
  PROVE  Accounts'
<1>1. 0 + 0 = 0 /\ ItemsOf(0) = 0 /\ Seed \in Nat
  BY ItemsFacts, FitterAssumption
<1> QED
  BY <1>1, FitterAssumption
     DEF Restart, Accounts, CallBounded, AcksBacked, CountersFollow, PadimExact, Added, Backed,
         disk

LEMMA InitAccounts == Init => Accounts
<1> SUFFICES ASSUME Init PROVE Accounts
  OBVIOUS
<1>1. 0 + 0 = 0 /\ ItemsOf(0) = 0 /\ Seed \in Nat
  BY ItemsFacts, FitterAssumption
<1> QED
  BY <1>1, FitterAssumption
     DEF Init, Accounts, CallBounded, AcksBacked, CountersFollow, PadimExact, Added, Backed,
         NoFile

(* The accounts balance in every reachable state.                          *)
THEOREM Accounting == Spec => []Accounts
<1>1. TypeOK /\ Accounts /\ [Next]_vars => Accounts'
  <2> SUFFICES ASSUME TypeOK, Accounts, [Next]_vars PROVE Accounts'
    OBVIOUS
  <2>1. CASE Worker
    BY <2>1, AddBatchAccounts, CheckpointingAccounts, FinalizeAccounts DEF Worker
  <2>2. CASE \/ \E s \in Supervisors : Cancel(s)
             \/ \E p \in Pollers : Poll(p)
             \/ UNCHANGED vars
    <3>1. UNCHANGED <<counters, items, pc, call, disk, acked>>
      BY <2>2 DEF Cancel, Poll, vars, atomics, counters, call, disk, history
    <3> QED
      BY <3>1, OutsideAccounts
  <2>3. CASE Restart
    BY <2>3, RestartAccounts
  <2> QED
    BY <2>1, <2>2, <2>3 DEF Next
<1> QED
  BY <1>1, InitAccounts, TypeCorrect, PTL DEF Spec

(* Between calls the counters agree with the pipeline, after any failures  *)
(* in the middle of a batch and any restored checkpoints.                  *)
THEOREM CountersRight == Spec => []CountersAgree
<1>1. Accounts => CountersAgree
  BY DEF Accounts, CountersFollow, PadimExact, CountersAgree
<1> QED
  BY <1>1, Accounting, PTL

(* No image whose add_batch call returned OK is lost: not in the pipeline, *)
(* not in a checkpoint, not in the package that finalize publishes.        *)
THEOREM ImagesKept == Spec => []AcknowledgedImagesKept
<1>1. TypeOK /\ Accounts => AcknowledgedImagesKept
  BY AckedBacked DEF Accounts, AcksBacked, Backed, ItemsOf, AcknowledgedImagesKept
<1> QED
  BY <1>1, Accounting, TypeCorrect, PTL
=============================================================================
