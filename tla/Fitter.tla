------------------------------- MODULE Fitter -------------------------------
(***************************************************************************)
(* The fitting runtime behind anom_fitter_* (src/src/c_api/                *)
(* model_management.cpp): one worker thread runs add_batch,                *)
(* save_checkpoint, load_checkpoint and finalize one call after another,   *)
(* while supervising threads may at any moment call cancel and             *)
(* get_progress.  The four std::atomic members of anom_fitter are the only *)
(* state the threads share; every access to one of them is a step of its   *)
(* own, unless it can be merged with its neighbour without hiding an       *)
(* interleaving (a load that saw TRUE in the never-cleared cancellation    *)
(* flag and the store that follows it).                                    *)
(*                                                                         *)
(* The pipeline's contents are abstracted to the number of items they      *)
(* hold (patch vectors for PatchCore, images for PaDiM); images,           *)
(* embeddings and files are left out.  commitPackage is one step here and  *)
(* is the subject of PackageCommit.                                        *)
(***************************************************************************)
EXTENDS Naturals

CONSTANTS
  PatchCore,       \* TRUE: anom_fitter::Kind::PatchCore; FALSE: Kind::Padim
  Seed,            \* vectors imported from the template's memory bank
  ItemsPerImage,   \* items one image adds to the pipeline
  ChunkSize,       \* max(1, backend->maxBatchSize())
  MaxImages,       \* bound: images in one add_batch call
  MaxItems,        \* bound: items the pipeline collects
  MaxRestarts,     \* bound: fitters created after the first one
  Supervisors,     \* threads that may call cancel
  Pollers          \* threads that may call get_progress

ASSUME FitterAssumption ==
  /\ PatchCore \in BOOLEAN
  /\ Seed \in Nat /\ ItemsPerImage \in Nat \ {0} /\ ChunkSize \in Nat \ {0}
  /\ MaxImages \in Nat /\ MaxItems \in Nat /\ MaxRestarts \in Nat
  /\ ~PatchCore => Seed = 0 /\ ItemsPerImage = 1

VARIABLES
  \* anom_fitter's atomics
  stage, processedSamples, collectedItems, cancellationRequested,
  items,        \* featureCount() or sampleCount() of the pipeline
  pc,           \* where the worker is; "idle" between calls
  batch,        \* images of the current add_batch call
  todo,         \* images of it not yet in the pipeline
  cancelPc,     \* per supervisor: "idle", or "stage" between cancel's stores
  unread,       \* per poller: fields of the report still to load
  report,       \* per poller: the anom_fit_progress_t being filled
  checkpoint,   \* the checkpoint file
  package,      \* the last package finalize published
  restarts,
  \* history: images of the add_batch calls that returned OK; packages this
  \* fitter published; chunks added after the flag was set; the flag when
  \* the worker's current call began
  acked, published, late, flagAtCall

atomics  == <<stage, processedSamples, collectedItems, cancellationRequested>>
counters == <<processedSamples, collectedItems>>
call     == <<batch, todo>>
disk     == <<checkpoint, package>>
history  == <<acked, published, late, flagAtCall>>
outside  == <<cancelPc, unread, report, restarts>>
vars     == <<atomics, items, pc, call, disk, outside, history>>

Stages == {"READY", "EXTRACTING", "FINALIZING", "COMPLETE", "CANCELLED"}
Fields == {"processed", "collected", "flag"}
Labels == {"idle", "add_flag", "add_convert", "chunk", "work",
           "count_processed", "count_collected", "save",
           "load_read", "load_processed", "load_collected",
           "fin_flag", "fin_start", "fin_save", "fin_commit", "fin_complete"}

NoReport == [stage |-> "READY", processed |-> 0, collected |-> 0, flag |-> FALSE]
NoFile   == [state |-> "none", items |-> 0, acked |-> 0]
Torn     == [state |-> "torn", items |-> 0, acked |-> 0]
Whole    == [state |-> "whole", items |-> items, acked |-> acked]

(* A fitter as createFitter leaves it.                                     *)
Init ==
  /\ stage = "READY"
  /\ processedSamples = 0
  /\ collectedItems = Seed
  /\ cancellationRequested = FALSE
  /\ items = Seed
  /\ pc = "idle" /\ batch = 0 /\ todo = 0
  /\ cancelPc = [s \in Supervisors |-> "idle"]
  /\ unread = [p \in Pollers |-> {}]
  /\ report = [p \in Pollers |-> NoReport]
  /\ acked = 0 /\ published = 0 /\ late = 0 /\ flagAtCall = FALSE
  /\ checkpoint = NoFile
  /\ package = NoFile
  /\ restarts = 0
-----------------------------------------------------------------------------
(* Helpers: a call begins at a label; a call returns, perhaps after a last *)
(* store to stage.                                                         *)
Begin(label) ==
  /\ pc = "idle"
  /\ pc' = label
  /\ flagAtCall' = cancellationRequested

Goto(from, to) ==
  /\ pc = from
  /\ pc' = to

Return(from) ==
  /\ Goto(from, "idle")
  /\ batch' = 0
  /\ todo' = 0

ReturnWithStage(from, s) ==
  /\ Return(from)
  /\ stage' = s
-----------------------------------------------------------------------------
(* anom_fitter_add_batch.                                                  *)

(* The entry check: only COMPLETE refuses a batch.                         *)
AddBegin(n) ==
  /\ stage # "COMPLETE"
  /\ items + n * ItemsPerImage <= MaxItems
  /\ Begin("add_flag")
  /\ batch' = n
  /\ todo' = n
  /\ UNCHANGED <<atomics, items, disk, outside, acked, published, late>>

(* A load of the flag: TRUE ends the call with stage CANCELLED.            *)
CheckFlag(at, next, requested) ==
  /\ \/ requested /\ ReturnWithStage(at, "CANCELLED")
     \/ ~requested /\ Goto(at, next) /\ UNCHANGED <<stage, call>>
  /\ UNCHANGED <<counters, cancellationRequested, items, disk, outside, history>>

AddFlagIgnored == CheckFlag("add_flag", "add_convert", FALSE)

AddFlag == CheckFlag("add_flag", "add_convert", cancellationRequested)

(* All images are converted before any is used.  A bad image returns with  *)
(* the stage as it is; an exception puts READY there.                      *)
AddConvert ==
  /\ \/ Goto("add_convert", "chunk") /\ stage' = "EXTRACTING" /\ UNCHANGED call
     \/ Return("add_convert") /\ UNCHANGED stage
     \/ ReturnWithStage("add_convert", "READY")
  /\ UNCHANGED <<counters, cancellationRequested, items, disk, outside, history>>

Chunk == IF todo < ChunkSize THEN todo ELSE ChunkSize

ChunkCheckSkipped == todo > 0 /\ CheckFlag("chunk", "work", FALSE)

(* The cancellation check before every backend batch.                      *)
ChunkCheck == todo > 0 /\ CheckFlag("chunk", "work", cancellationRequested)

(* Preprocess, infer and add one chunk.  Any failure of the three, or an   *)
(* exception, stores READY and keeps the chunks added before.              *)
ChunkWork ==
  /\ \/ /\ Goto("work", "count_processed")
        /\ items' = items + Chunk * ItemsPerImage
        /\ late' = IF cancellationRequested THEN late + 1 ELSE late
        /\ UNCHANGED <<stage, call>>
     \/ /\ ReturnWithStage("work", "READY")
        /\ UNCHANGED <<items, late>>
  /\ UNCHANGED <<counters, cancellationRequested, disk, outside,
                 acked, published, flagAtCall>>

CountProcessed ==
  /\ Goto("count_processed", "count_collected")
  /\ processedSamples' = processedSamples + Chunk
  /\ UNCHANGED <<stage, collectedItems, cancellationRequested, items, call,
                 disk, outside, history>>

StoreCollected(count, step) ==
  /\ Goto("count_collected", "chunk")
  /\ collectedItems' = count
  /\ todo' = todo - step
  /\ UNCHANGED <<stage, processedSamples, cancellationRequested, items, batch,
                 disk, outside, history>>

CountCollectedOncePerCall ==
  StoreCollected(IF todo = batch THEN items ELSE collectedItems, Chunk)

CountCollectedFullChunks == StoreCollected(items, ChunkSize)

CountCollected == StoreCollected(items, Chunk)

AddEndWhen(done) ==
  /\ done
  /\ ReturnWithStage("chunk", "READY")
  /\ acked' = acked + batch
  /\ UNCHANGED <<counters, cancellationRequested, items, disk, outside,
                 published, late, flagAtCall>>

AddEndDroppingPartialChunk == AddEndWhen(todo < ChunkSize)

AddEnd == AddEndWhen(todo = 0)

AddBatch ==
  \/ \E n \in 1..MaxImages : AddBegin(n)
  \/ AddFlag \/ AddConvert
  \/ ChunkCheck \/ ChunkWork \/ CountProcessed \/ CountCollected
  \/ AddEnd
-----------------------------------------------------------------------------
(* anom_fitter_save_checkpoint: no check of the stage.  An empty pipeline  *)
(* is refused before the file is opened; opening truncates it in place.    *)
SaveBegin ==
  /\ items > 0
  /\ Begin("save")
  /\ checkpoint' = Torn
  /\ UNCHANGED <<atomics, items, call, package, outside, acked, published, late>>

(* The file is whole, or a write failed (the last one unnoticed, when the  *)
(* stream is flushed by its destructor).                                   *)
SaveEnd ==
  /\ Return("save")
  /\ checkpoint' = Whole \/ UNCHANGED checkpoint
  /\ UNCHANGED <<atomics, items, package, outside, history>>

(* anom_fitter_load_checkpoint: only when READY; the pipeline is replaced  *)
(* only after the whole file has been validated.                           *)
LoadBegin ==
  /\ stage = "READY"
  /\ Begin("load_read")
  /\ UNCHANGED <<atomics, items, call, disk, outside, acked, published, late>>

LoadIf(valid) ==
  /\ \/ /\ valid
        /\ Goto("load_read", "load_processed")
        /\ items' = checkpoint.items
        /\ acked' = checkpoint.acked
        /\ UNCHANGED call
     \/ /\ Return("load_read")
        /\ UNCHANGED <<items, acked>>
  /\ UNCHANGED <<atomics, disk, outside, published, late, flagAtCall>>

LoadRead == LoadIf(checkpoint.state = "whole")

(* PatchCore checkpoints do not store the number of images: a marker of 1  *)
(* keeps the fitter finalizable.                                           *)
LoadProcessed ==
  /\ Goto("load_processed", "load_collected")
  /\ processedSamples' = IF PatchCore THEN 1 ELSE items
  /\ UNCHANGED <<stage, collectedItems, cancellationRequested, items, call,
                 disk, outside, history>>

LoadCollected ==
  /\ Return("load_collected")
  /\ collectedItems' = items
  /\ UNCHANGED <<stage, processedSamples, cancellationRequested, items,
                 disk, outside, history>>

Checkpointing ==
  SaveBegin \/ SaveEnd \/ LoadBegin \/ LoadRead \/ LoadProcessed \/ LoadCollected
-----------------------------------------------------------------------------
(* anom_fitter_finalize.                                                   *)

FinalizeBegin ==
  /\ processedSamples # 0
  /\ stage = "READY"
  /\ Begin("fin_flag")
  /\ UNCHANGED <<atomics, items, call, disk, outside, acked, published, late>>

FinalizeUnless(requested) ==
  /\ \/ requested /\ Return("fin_flag")
     \/ ~requested /\ Goto("fin_flag", "fin_start") /\ UNCHANGED call
  /\ UNCHANGED <<atomics, items, disk, outside, history>>

FinalizeFlagIgnored == FinalizeUnless(FALSE)

(* The only cancellation check of finalize; the stage stays as it is.      *)
FinalizeFlag == FinalizeUnless(cancellationRequested)

StartAs(s) ==
  /\ Goto("fin_start", "fin_save")
  /\ stage' = s
  /\ UNCHANGED <<counters, cancellationRequested, items, call, disk, outside,
                 history>>

FinalizeStartAsComplete == StartAs("COMPLETE")

FinalizeStart == StartAs("FINALIZING")

(* saveArtifacts is const: the pipeline keeps its items whatever happens.  *)
(* PatchCore then reports what it kept (a coreset, a bank or a basis).     *)
FinalizeSave ==
  /\ \/ /\ items > 0
        /\ Goto("fin_save", "fin_commit")
        /\ IF PatchCore THEN collectedItems' \in 1..items
                        ELSE UNCHANGED collectedItems
        /\ UNCHANGED <<stage, call>>
     \/ ReturnWithStage("fin_save", "READY") /\ UNCHANGED collectedItems
  /\ UNCHANGED <<processedSamples, cancellationRequested, items, disk, outside,
                 history>>

FinalizeCommit ==
  /\ \/ /\ Goto("fin_commit", "fin_complete")
        /\ package' = Whole
        /\ published' = published + 1
        /\ UNCHANGED <<stage, call>>
     \/ /\ ReturnWithStage("fin_commit", "READY")
        /\ UNCHANGED <<package, published>>
  /\ UNCHANGED <<counters, cancellationRequested, items, checkpoint, outside,
                 acked, late, flagAtCall>>

FinalizeComplete ==
  /\ ReturnWithStage("fin_complete", "COMPLETE")
  /\ UNCHANGED <<counters, cancellationRequested, items, disk, outside, history>>

Finalize ==
  \/ FinalizeBegin \/ FinalizeFlag \/ FinalizeStart
  \/ FinalizeSave \/ FinalizeCommit \/ FinalizeComplete

Worker == AddBatch \/ Checkpointing \/ Finalize
-----------------------------------------------------------------------------
(* anom_fitter_cancel, on any thread: two stores, the flag first.          *)

CancelStageFirst(s) ==
  /\ \/ cancelPc[s] = "idle" /\ stage' = "CANCELLED" /\ UNCHANGED cancellationRequested
     \/ cancelPc[s] = "stage" /\ cancellationRequested' = TRUE /\ UNCHANGED stage
  /\ cancelPc' = [cancelPc EXCEPT ![s] = IF @ = "idle" THEN "stage" ELSE "idle"]
  /\ UNCHANGED <<counters, items, pc, call, disk, unread, report, restarts, history>>

Cancel(s) ==
  /\ \/ cancelPc[s] = "idle" /\ cancellationRequested' = TRUE /\ UNCHANGED stage
     \/ cancelPc[s] = "stage" /\ stage' = "CANCELLED" /\ UNCHANGED cancellationRequested
  /\ cancelPc' = [cancelPc EXCEPT ![s] = IF @ = "idle" THEN "stage" ELSE "idle"]
  /\ UNCHANGED <<counters, items, pc, call, disk, unread, report, restarts, history>>

(* anom_fitter_get_progress, on any thread.  The stage is loaded first,    *)
(* with acquire order; the loads after it are relaxed or may move before   *)
(* one another, so they happen in any order.                               *)
Shared(f) ==
  CASE f = "processed" -> processedSamples
    [] f = "collected" -> collectedItems
    [] f = "flag" -> cancellationRequested

PollFlagEarly(p) ==
  /\ \/ /\ unread[p] = {}
        /\ report' = [report EXCEPT ![p] =
                        [NoReport EXCEPT !.stage = stage, !.flag = cancellationRequested]]
        /\ unread' = [unread EXCEPT ![p] = {"stage", "processed", "collected"}]
     \/ \E f \in unread[p] :
          /\ report' = [report EXCEPT ![p][f] = IF f = "stage" THEN stage ELSE Shared(f)]
          /\ unread' = [unread EXCEPT ![p] = @ \ {f}]
  /\ UNCHANGED <<atomics, items, pc, call, cancelPc, disk, restarts, history>>

Poll(p) ==
  /\ \/ /\ unread[p] = {}
        /\ report' = [report EXCEPT ![p] = [NoReport EXCEPT !.stage = stage]]
        /\ unread' = [unread EXCEPT ![p] = Fields]
     \/ \E f \in unread[p] :
          /\ report' = [report EXCEPT ![p][f] = Shared(f)]
          /\ unread' = [unread EXCEPT ![p] = @ \ {f}]
  /\ UNCHANGED <<atomics, items, pc, call, cancelPc, disk, restarts, history>>
-----------------------------------------------------------------------------
(* release (only once every call has returned) or the end of the process   *)
(* (at any moment), then a new fitter.  Files survive both.                *)
Restart ==
  /\ restarts < MaxRestarts
  /\ restarts' = restarts + 1
  /\ stage' = "READY"
  /\ processedSamples' = 0
  /\ collectedItems' = Seed
  /\ cancellationRequested' = FALSE
  /\ items' = Seed
  /\ pc' = "idle" /\ batch' = 0 /\ todo' = 0
  /\ cancelPc' = [s \in Supervisors |-> "idle"]
  /\ unread' = [p \in Pollers |-> {}]
  /\ report' = [p \in Pollers |-> NoReport]
  /\ acked' = 0 /\ published' = 0 /\ late' = 0 /\ flagAtCall' = FALSE
  /\ UNCHANGED disk

Next ==
  \/ Worker
  \/ \E s \in Supervisors : Cancel(s)
  \/ \E p \in Pollers : Poll(p)
  \/ Restart

Spec == Init /\ [][Next]_vars

(* A call that has begun runs to its end, and so does a cancel: the code   *)
(* has no lock or wait in either.  Callers owe no further call.            *)
InCall == pc # "idle" /\ Worker

FairSpec ==
  /\ Spec
  /\ WF_vars(InCall)
  /\ \A s \in Supervisors : WF_vars(cancelPc[s] = "stage" /\ Cancel(s))
-----------------------------------------------------------------------------
FileType == [state : {"none", "torn", "whole"}, items : Nat, acked : Nat]

(* Every variable keeps its type.                                          *)
TypeOK ==
  /\ stage \in Stages
  /\ processedSamples \in Nat
  /\ collectedItems \in Nat
  /\ cancellationRequested \in BOOLEAN
  /\ items \in Nat
  /\ pc \in Labels
  /\ batch \in Nat /\ todo \in Nat
  /\ cancelPc \in [Supervisors -> {"idle", "stage"}]
  /\ unread \in [Pollers -> SUBSET Fields]
  /\ report \in [Pollers -> [stage : Stages, processed : Nat,
                             collected : Nat, flag : BOOLEAN]]
  /\ checkpoint \in FileType /\ package \in FileType
  /\ restarts \in Nat
  /\ acked \in Nat /\ published \in Nat /\ late \in Nat
  /\ flagAtCall \in BOOLEAN

(* A fitter publishes at most one package, however cancel, add_batch and   *)
(* finalize interleave: once finalize has committed, no sequence of calls  *)
(* brings the stage back to READY.  It rests on cancel storing the flag    *)
(* before it overwrites COMPLETE.                                          *)
OnePackagePerFitter == published <= 1

(* After cancel has stored its flag, at most the chunk whose check had     *)
(* already passed still enters the pipeline ("cancel requests cancellation *)
(* between backend batches").                                              *)
PromptCancellation == late <= 1

(* A progress report that a supervisor assembled field by field, while the *)
(* calls went on, is never contradicted by its own fields: one that shows  *)
(* CANCELLED also shows the request, and one that shows COMPLETE has       *)
(* samples and a published package behind it.                              *)
ReportsHonest ==
  \A p \in Pollers : unread[p] = {} =>
    /\ report[p].stage = "CANCELLED" => report[p].flag
    /\ report[p].stage = "COMPLETE" =>
         published = 1 /\ package.state = "whole" /\ report[p].processed > 0

(* Between calls the counters agree with the pipeline: PaDiM's are exact,  *)
(* PatchCore never reports more than it holds, and processed_samples = 0,  *)
(* which makes finalize refuse, holds just when nothing was added to the   *)
(* imported bank.                                                          *)
CountersAgree ==
  pc = "idle" =>
    /\ collectedItems <= items
    /\ ~PatchCore => processedSamples = items /\ collectedItems = items
    /\ processedSamples = 0 => items = Seed
    /\ processedSamples # 0 => items > 0

(* Every image of an add_batch call that returned OK is in what finalize   *)
(* publishes and in what a whole checkpoint restores.                      *)
AcknowledgedImagesKept ==
  /\ acked * ItemsPerImage <= items
  /\ package.acked * ItemsPerImage <= package.items
  /\ package.state = "whole" => package.items > 0

(* A finalize that starts after a cancel publishes nothing, although the   *)
(* stage it reads may again be READY (the end of an add_batch overwrites   *)
(* CANCELLED).                                                             *)
NoPublishAfterCancel ==
  [][published' = published + 1 => ~flagAtCall]_vars

(* Once cancellation is requested, extraction and finalization stop for    *)
(* good (of one fitter).                                                   *)
CancelQuiesces ==
  cancellationRequested ~> [](stage \notin {"EXTRACTING", "FINALIZING"})
-----------------------------------------------------------------------------
(* What makes the safety properties inductive.                             *)

(* Whoever writes CANCELLED has written, or seen, the flag before.         *)
FlagBeforeStage ==
  /\ stage = "CANCELLED" => cancellationRequested
  /\ \A s \in Supervisors : cancelPc[s] = "stage" => cancellationRequested
  /\ flagAtCall => cancellationRequested

(* A fitter that has published is closed: the worker is past the commit,   *)
(* or in a call that cannot leave COMPLETE or CANCELLED.                   *)
ClosedOncePublished ==
  /\ published \in {0, 1}
  /\ pc = "fin_complete" => published = 1
  /\ stage = "COMPLETE" => published = 1
  /\ pc \in {"fin_flag", "fin_start", "fin_save", "fin_commit"} => processedSamples > 0
  /\ pc \in {"fin_save", "fin_commit"} => stage \in {"FINALIZING", "CANCELLED"}
  /\ published = 1 =>
       /\ package.state = "whole"
       /\ processedSamples > 0
       /\ \/ pc = "fin_complete" /\ stage \in {"FINALIZING", "CANCELLED"}
          \/ pc \in {"idle", "save"} /\ stage \in {"COMPLETE", "CANCELLED"}
          \/ pc = "add_flag" /\ stage = "CANCELLED"

LateOnlyAfterCheck ==
  /\ late \in {0, 1}
  /\ late = 1 => cancellationRequested
  /\ pc = "work" => late = 0

CommitOnlyUncancelledCalls ==
  pc \in {"fin_start", "fin_save", "fin_commit"} => ~flagAtCall

ReportsBacked ==
  \A p \in Pollers :
    /\ report[p].stage = "CANCELLED" =>
         cancellationRequested /\ ("flag" \in unread[p] \/ report[p].flag)
    /\ report[p].stage = "COMPLETE" =>
         published = 1 /\ ("processed" \in unread[p] \/ report[p].processed > 0)

(* The inductive invariant: the order of cancel's stores, the closing of a *)
(* published fitter, the cancellation checks and the progress reports.     *)
IInv ==
  /\ TypeOK
  /\ FlagBeforeStage
  /\ ClosedOncePublished
  /\ LateOnlyAfterCheck
  /\ CommitOnlyUncancelledCalls
  /\ ReportsBacked
=============================================================================
