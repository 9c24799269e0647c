----------------------------- MODULE PadimStats -----------------------------
(***************************************************************************)
(* The training statistics of PaDiM (src/src/pipeline/padim.cpp): per      *)
(* location, the sums and second moments of the samples added so far.      *)
(* They live in host memory, or on the device when they fit its budget;    *)
(* a host-backed GPU fit updates them chunk by chunk.  A CUDA failure in   *)
(* the middle leaves some locations updated and others not.                *)
(*                                                                         *)
(* Floating point is left out: what a location holds is the sequence of    *)
(* the samples accumulated there.  A batch is one sample.  Calls are       *)
(* sequential; each is one action, with every outcome it can have.         *)
(***************************************************************************)
EXTENDS Naturals, Sequences

CONSTANTS
  NLocations,   \* featureHeight * featureWidth
  ChunkSize,    \* locations per update when the budget does not hold all
  Samples,      \* embeddings of training images
  MaxSamples    \* bound: samples added to one pipeline

ASSUME StatsAssumption ==
  /\ NLocations \in Nat \ {0} /\ ChunkSize \in Nat \ {0}
  /\ MaxSamples \in Nat

VARIABLES
  gpu, resident,      \* config_.compute is set; the statistics fit the budget
  mem,                \* which statistics are allocated
  stats,              \* per location: the samples accumulated
  sampleCount,
  gpuUpdateFailed,
  checkpoint,         \* a checkpoint file
  artifact,           \* a statistics artifact
  undefined,          \* an unallocated vector has been written to
  \* history: the samples of the add calls that returned OK since the last
  \* clear, plus those of the checkpoint the fit continues
  accepted

config == <<gpu, resident>>
fit    == <<mem, stats, sampleCount, gpuUpdateFailed, accepted>>
files  == <<checkpoint, artifact>>
vars   == <<config, fit, files, undefined>>

Locations == 1..NLocations
NoStats   == [l \in Locations |-> <<>>]
NoFile    == [state |-> "none", stats |-> NoStats, samples |-> 0, accepted |-> <<>>]
Torn      == [NoFile EXCEPT !.state = "torn"]
Whole     == [state |-> "whole", stats |-> stats, samples |-> sampleCount,
              accepted |-> accepted]

(* The constructor and clear().                                            *)
Empty ==
  /\ mem' = "none"
  /\ stats' = NoStats
  /\ sampleCount' = 0
  /\ gpuUpdateFailed' = FALSE
  /\ accepted' = <<>>

Init ==
  /\ gpu \in BOOLEAN /\ resident \in BOOLEAN
  /\ mem = "none" /\ stats = NoStats /\ sampleCount = 0
  /\ gpuUpdateFailed = FALSE /\ accepted = <<>>
  /\ checkpoint = NoFile /\ artifact = NoFile
  /\ undefined = FALSE
-----------------------------------------------------------------------------
(* Adds a sample at some of the locations.                                 *)
Accumulate(sample, where) ==
  stats' = [l \in Locations |-> IF l \in where THEN Append(stats[l], sample) ELSE stats[l]]

Accept(sample) ==
  /\ Accumulate(sample, Locations)
  /\ sampleCount' = sampleCount + 1
  /\ accepted' = Append(accepted, sample)
  /\ UNCHANGED gpuUpdateFailed

Room == sampleCount < MaxSamples /\ ~undefined

(* gpuChunkLocations: all locations at once when the budget allows.        *)
Chunk == IF resident THEN NLocations ELSE ChunkSize

ChunkBegins == {l \in Locations : (l - 1) % Chunk = 0}

ChunkFrom(begin) == {l \in Locations : begin <= l /\ l < begin + Chunk}

(* addGpuEmbedding when the update of the chunk at begin fails: the chunks *)
(* before it are updated, of its own locations any, and a latch is set.    *)
(* A failed allocation or transfer before that changes nothing.            *)
GpuUpdateFails(sample) ==
  /\ \E begin \in ChunkBegins : \E some \in SUBSET ChunkFrom(begin) :
       Accumulate(sample, {l \in Locations : l < begin} \cup some)
  /\ UNCHANGED <<sampleCount, accepted>>

AddGpuWith(sample, latch) ==
  /\ gpu /\ ~gpuUpdateFailed /\ Room
  /\ mem' = IF mem # "none" THEN mem ELSE IF resident THEN "device" ELSE "host"
  /\ \/ Accept(sample)
     \/ GpuUpdateFails(sample) /\ gpuUpdateFailed' = latch
  /\ UNCHANGED <<config, files, undefined>>

AddGpuForgettingFailure(sample) == AddGpuWith(sample, FALSE)

AddGpu(sample) == AddGpuWith(sample, TRUE)

(* addEmbedding on the CPU.  Both vectors are allocated before the sample  *)
(* is examined: memory may run out between the two, and a sample with a    *)
(* non-finite value is refused afterwards.                                 *)
AddCpu(sample) ==
  /\ ~gpu /\ Room
  /\ mem \in {"none", "host"}
  /\ \/ mem' = "host" /\ Accept(sample)
     \/ mem' = "host" /\ UNCHANGED <<stats, sampleCount, gpuUpdateFailed, accepted>>
     \/ /\ mem = "none" /\ mem' = "sums"
        /\ UNCHANGED <<stats, sampleCount, gpuUpdateFailed, accepted>>
  /\ UNCHANGED <<config, files, undefined>>

(* A later call sees that sums_ is not empty and accumulates into both.    *)
AddToMissingMoments ==
  /\ ~gpu /\ Room
  /\ mem = "sums"
  /\ undefined' = TRUE
  /\ UNCHANGED <<config, fit, files>>
-----------------------------------------------------------------------------
(* The guards of saveArtifacts and saveCheckpoint.                         *)
HasSamples == sampleCount > 0 /\ mem \in {"host", "device"}

CanSave == HasSamples /\ ~gpuUpdateFailed /\ ~undefined

(* A file is truncated when it is opened, and written through or not.      *)
SaveCheckpointIf(allowed) ==
  /\ allowed
  /\ checkpoint' \in {Torn, Whole}
  /\ UNCHANGED <<config, fit, artifact, undefined>>

SaveCheckpointUnlatched == SaveCheckpointIf(HasSamples /\ ~undefined)

SaveCheckpoint == SaveCheckpointIf(CanSave)

(* The files are opened only after every location has been solved.         *)
SaveArtifacts ==
  /\ CanSave
  /\ artifact' \in {Torn, Whole}
  /\ UNCHANGED <<config, fit, checkpoint, undefined>>

(* loadCheckpoint validates the whole file into temporaries, and fills new *)
(* device tensors, before it replaces the statistics; else nothing changes.*)
LoadCheckpoint ==
  /\ ~undefined
  /\ checkpoint.state = "whole"
  /\ mem' = IF gpu /\ resident THEN "device" ELSE "host"
  /\ stats' = checkpoint.stats
  /\ sampleCount' = checkpoint.samples
  /\ gpuUpdateFailed' = FALSE
  /\ accepted' = checkpoint.accepted
  /\ UNCHANGED <<config, files, undefined>>

Clear == ~undefined /\ Empty /\ UNCHANGED <<config, files, undefined>>

(* The process ends and another one continues, on the CPU or a GPU, with   *)
(* the files it finds.                                                     *)
Restart ==
  /\ Empty
  /\ gpu' \in BOOLEAN /\ resident' \in BOOLEAN
  /\ undefined' = FALSE
  /\ UNCHANGED files

Next ==
  \/ \E s \in Samples : AddGpu(s) \/ AddCpu(s)
  \/ AddToMissingMoments
  \/ SaveCheckpoint \/ SaveArtifacts \/ LoadCheckpoint \/ Clear \/ Restart

Spec == Init /\ [][Next]_vars
-----------------------------------------------------------------------------
StatsType == [Locations -> Seq(Samples)]
FileType  == [state : {"none", "torn", "whole"}, stats : StatsType,
              samples : Nat, accepted : Seq(Samples)]

(* Every variable keeps its type.                                          *)
TypeOK ==
  /\ gpu \in BOOLEAN /\ resident \in BOOLEAN
  /\ mem \in {"none", "sums", "host", "device"}
  /\ stats \in StatsType
  /\ sampleCount \in Nat
  /\ gpuUpdateFailed \in BOOLEAN
  /\ checkpoint \in FileType /\ artifact \in FileType
  /\ undefined \in BOOLEAN
  /\ accepted \in Seq(Samples)

Exact(held, samples, wanted) ==
  /\ samples = Len(wanted)
  /\ \A l \in Locations : held[l] = wanted

(* Unless the latch is set, every location holds exactly the samples that  *)
(* were accepted, and the divisor of the means is their number: no failed  *)
(* update, retry, restore or change of device leaves a trace.              *)
StatisticsExact == ~gpuUpdateFailed => Exact(stats, sampleCount, accepted)

(* What a whole checkpoint or artifact holds is exact too, though it may   *)
(* be written and read by fits on different devices ("Require an explicit  *)
(* clear or checkpoint restore rather than reuse partial state").          *)
FilesExact ==
  \A f \in {checkpoint, artifact} :
    f.state = "whole" => Exact(f.stats, f.samples, f.accepted) /\ f.samples > 0

(* Not an invariant: no state that a failure left half-built is used by a  *)
(* later call.                                                             *)
NoPartialStateReused == ~undefined

(* The inductive invariant.                                                *)
IInv == TypeOK /\ StatisticsExact /\ FilesExact
=============================================================================
