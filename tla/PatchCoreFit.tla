---------------------------- MODULE PatchCoreFit ----------------------------
(***************************************************************************)
(* What a PatchCore fit accumulates, stores and selects                    *)
(* (src/src/pipeline/patchcore.cpp and patchcore_statistics.cpp), for the  *)
(* three variants: "original" keeps every patch and saves a coreset;       *)
(* "mahalanobis" keeps mean, second moments and a temporary file (the      *)
(* spool) with all patches, from which a bounded memory bank is made;      *)
(* "subspace_ad" keeps the moments only.                                   *)
(*                                                                         *)
(* A patch is a point on a line.  There the covariance is a number, PCA is *)
(* the identity, whitening is a shift by the mean and a positive factor    *)
(* (left out), and the random projection keeps the order of distances.     *)
(* Moments are kept in units of 1/Scale, which makes every division exact; *)
(* rounding is left out.  A call that changes nothing when it fails is     *)
(* modelled only by its success.                                           *)
(***************************************************************************)
EXTENDS Integers, Sequences, FiniteSets, SequencesExt, FiniteSetsExt

CONSTANTS
  Points,       \* values a patch may have
  Batches,      \* sequences of patches one add may bring
  Scale,        \* a multiple of every number of patches up to MaxPatches
  HostChunk,    \* rows per moment update on the CPU (256)
  DeviceChunk,  \* rows per moment update on a GPU (8192)
  StreamChunk,  \* config.streamingChunkSize
  Budget,       \* config.memoryBankSize
  Neighbors,    \* config.numNeighbors
  RatioNum, RatioDen,  \* config.coresetSamplingRatio
  MaxExact,     \* config.maxExactDistanceEvaluations
  MaxPatches    \* bound: patches in a fit

ASSUME PatchCoreFitAssumption ==
  /\ Points \subseteq Nat /\ Batches \subseteq Seq(Points) \ {<<>>}
  /\ \A c \in {HostChunk, DeviceChunk, StreamChunk, Budget, MaxExact} : c \in Nat \ {0}
  /\ Neighbors \in Nat /\ MaxPatches \in Nat
  /\ RatioNum \in Nat \ {0} /\ RatioDen \in Nat \ {0} /\ RatioNum <= RatioDen
  /\ Scale \in Nat \ {0} /\ \A n \in 1..MaxPatches : Scale % n = 0

VARIABLES
  variant, gpu,  \* config_.statisticalConfig.variant; config_.compute
  features,      \* PatchCorePipeline::features_
  stats,         \* PatchCoreStatisticalFit's count_, mean_ and m2_
  spool,         \* its temporary file: open or not, and every patch in it
  checkpoint,    \* the checkpoint file
  artifact,      \* the files of the finalize call that has just run
  accepted       \* history: the patches of the adds that returned OK

fit  == <<features, stats, spool, accepted>>
patchCoreVars == <<variant, gpu, fit, checkpoint, artifact>>

Variants    == {"original", "mahalanobis", "subspace_ad"}
NoStats     == [count |-> 0, mean |-> 0, m2 |-> 0]
ClosedSpool == [open |-> FALSE, data |-> <<>>]
NoArtifact  == [state |-> "none", bank |-> <<>>, greedy |-> FALSE]
NoFile      == [state |-> "none", variant |-> "original", patches |-> <<>>,
                stats |-> NoStats, accepted |-> <<>>]

Emptied ==
  /\ features' = <<>> /\ stats' = NoStats /\ spool' = ClosedSpool
  /\ accepted' = <<>>

InitPatchCore ==
  /\ variant \in Variants /\ gpu \in BOOLEAN
  /\ features = <<>> /\ stats = NoStats /\ spool = ClosedSpool
  /\ accepted = <<>>
  /\ checkpoint = NoFile /\ artifact = NoArtifact
-----------------------------------------------------------------------------
(* Sequences and distances.                                                *)
Total(s) ==
  LET sum[i \in 0..Len(s)] == IF i = 0 THEN 0 ELSE sum[i - 1] + s[i]
  IN  sum[Len(s)]

Least(a, b) == IF a < b THEN a ELSE b
CeilDiv(a, b) == (a + b - 1) \div b
Take(s, n) == SubSeq(s, 1, n)

ChunksOf(s, size) ==
  [c \in 1..CeilDiv(Len(s), size) |->
     SubSeq(s, (c - 1) * size + 1, Least(c * size, Len(s)))]

Distance(a, b) == IF a < b THEN b - a ELSE a - b

ToNearest(x, S) == Min({Distance(x, y) : y \in S})

(* The distance from the farthest member of S to the closest one of C.     *)
Radius(S, C) == Max({ToNearest(x, C) : x \in S})
-----------------------------------------------------------------------------
(* Moments of a chunk: its mean and its sum of squared deviations.         *)
Moments(chunk) ==
  LET sum     == Total(chunk)
      squares == Total([i \in DOMAIN chunk |-> chunk[i] * chunk[i]])
      n       == Len(chunk)
  IN  [count |-> n,
       mean  |-> (Scale * sum) \div n,
       m2    |-> Scale * squares - (Scale * sum * sum) \div n]

(* The update of the candidates nextMean, nextM2 and nextCount.            *)
Merge(a, b) ==
  LET delta == b.mean - a.mean
      total == a.count + b.count
  IN  IF a.count = 0 THEN b
      ELSE [count |-> total,
            mean  |-> a.mean + (delta * b.count) \div total,
            m2    |-> a.m2 + b.m2
                        + (delta * delta * a.count * b.count) \div (Scale * total)]

RowsPerUpdate == IF gpu THEN DeviceChunk ELSE HostChunk

Updated(patches) ==
  LET chunks == ChunksOf(patches, RowsPerUpdate)
      after[c \in 0..Len(chunks)] ==
        IF c = 0 THEN stats ELSE Merge(after[c - 1], Moments(chunks[c]))
  IN  after[Len(chunks)]

(* fwrite at a position: what lies beyond the written part stays.          *)
Overwrite(data, at, new) ==
  Take(data, at) \o new \o SubSeq(data, at + Len(new) + 1, Len(data))

Room(patches) == Len(accepted) + Len(patches) <= MaxPatches

(* PatchCorePipeline::addFeatures of the original variant.                 *)
AddOriginal(patches) ==
  /\ variant = "original" /\ Room(patches)
  /\ features' = features \o patches
  /\ accepted' = accepted \o patches
  /\ artifact' = NoArtifact
  /\ UNCHANGED <<variant, gpu, stats, spool, checkpoint>>

(* PatchCoreStatisticalFit::add.  The moments are computed on candidates;  *)
(* the patches are then appended to the spool at the committed prefix; the *)
(* members are replaced last.  An append may fail at any patch, and the    *)
(* spool may have been created before the failure.                         *)
AddStatisticalAt(patches, at) ==
  /\ variant # "original" /\ Room(patches)
  /\ \/ /\ stats' = Updated(patches)
        /\ accepted' = accepted \o patches
        /\ spool' = IF variant # "mahalanobis" THEN spool
                    ELSE [open |-> TRUE, data |-> Overwrite(spool.data, at, patches)]
     \/ /\ variant = "mahalanobis"
        /\ \E n \in 0..Len(patches) :
             spool' = [open |-> TRUE,
                       data |-> Overwrite(spool.data, at, Take(patches, n))]
        /\ UNCHANGED <<stats, accepted>>
  /\ artifact' = NoArtifact
  /\ UNCHANGED <<variant, gpu, features, checkpoint>>

AddStatisticalAtEnd(patches) == AddStatisticalAt(patches, Len(spool.data))

AddStatistical(patches) == AddStatisticalAt(patches, stats.count)

(* loadMemoryBank: createFitter imports the template's bank, if any, into  *)
(* the pipeline it has just made.                                          *)
ImportBank(bank) == features = <<>> /\ AddOriginal(bank)
-----------------------------------------------------------------------------
(* Farthest-first selection, used by buildCoreset, reduceBank and the GPU  *)
(* kernels alike: of the rows not chosen yet the one farthest from all     *)
(* chosen, the first of them on a tie.                                     *)
FarthestOf(data, chosen, candidates) ==
  LET far == Max({ToNearest(data[i], {data[c] : c \in chosen}) : i \in candidates})
  IN  Min({i \in candidates : ToNearest(data[i], {data[c] : c \in chosen}) = far})

NextUnusedRow(data, chosen) == Min(DOMAIN data \ chosen)

NextRow(data, chosen) == FarthestOf(data, chosen, DOMAIN data \ chosen)

FarthestFirst(data, first, count) ==
  LET choose[n \in 1..count] ==
        IF n = 1 THEN <<first>>
        ELSE Append(choose[n - 1], NextRow(data, ToSet(choose[n - 1])))
  IN  choose[count]

Rows(data, positions) == [i \in DOMAIN positions |-> data[positions[i]]]

reduceBank(data, budget) ==
  IF Len(data) <= budget THEN data ELSE Rows(data, FarthestFirst(data, 1, budget))

TargetCount(n) == Max({1, CeilDiv(n * RatioNum, RatioDen)})

TooManyDistances(n) == ~gpu /\ TargetCount(n) > MaxExact \div n

Shuffles(n, count) == {s \in [1..count -> 1..n] : IsInjective(s)}

(* buildCoreset: every row if the target allows; random rows when a CPU    *)
(* would need too many distances; else farthest-first from a random row.   *)
Coresets ==
  LET n == Len(features)
      k == TargetCount(n)
  IN  IF k >= n THEN {features}
      ELSE IF TooManyDistances(n) THEN {Rows(features, s) : s \in Shuffles(n, k)}
      ELSE {Rows(features, FarthestFirst(features, first, k)) : first \in 1..n}

(* PatchCoreStatistics::transform with the frozen mean.                    *)
Transform(patches, mean) == [i \in DOMAIN patches |-> Scale * patches[i] - mean]

(* The replay of the spool by saveArtifacts: the bank is reduced after     *)
(* every chunk.                                                            *)
CommittedChunks == ChunksOf(Take(spool.data, stats.count), StreamChunk)

ReplayedBankOfEachChunk ==
  LET chunks == CommittedChunks
  IN  IF chunks = <<>> THEN <<>>
      ELSE reduceBank(Transform(chunks[Len(chunks)], stats.mean), Budget)

ReplayedBank ==
  LET chunks == CommittedChunks
      bank[c \in 0..Len(chunks)] ==
        IF c = 0 THEN <<>>
        ELSE reduceBank(bank[c - 1] \o Transform(chunks[c], stats.mean), Budget)
  IN  bank[Len(chunks)]

(* saveArtifacts.  The statistics, then the index: a file that fails is    *)
(* torn, and finalize's own directory is removed when the call has ended.  *)
SaveCoreset ==
  /\ variant = "original" /\ features # <<>>
  /\ \E bank \in Coresets :
       artifact' \in {[state |-> s, bank |-> bank,
                       greedy |-> ~TooManyDistances(Len(features))] : s \in {"torn", "whole"}}

SaveStatistics ==
  /\ variant # "original" /\ stats.count >= 2
  /\ artifact' \in
       {[state |-> "torn", bank |-> <<>>, greedy |-> TRUE]} \cup
       IF variant = "subspace_ad" THEN {[state |-> "whole", bank |-> <<>>, greedy |-> TRUE]}
       ELSE IF spool.open /\ Len(ReplayedBank) >= Neighbors
            THEN {[state |-> "whole", bank |-> ReplayedBank, greedy |-> TRUE]}
            ELSE {}

SaveArtifacts ==
  /\ SaveCoreset \/ SaveStatistics
  /\ UNCHANGED <<variant, gpu, fit, checkpoint>>
-----------------------------------------------------------------------------
(* saveCheckpoint: opening truncates the file; all patches, or the moments *)
(* and as many patches of the spool as are committed.                      *)
SaveCheckpointOf(patches) ==
  /\ accepted # <<>>
  /\ checkpoint' \in {[NoFile EXCEPT !.state = "torn"],
                      [state |-> "whole", variant |-> variant, patches |-> patches,
                       stats |-> stats, accepted |-> accepted]}
  /\ artifact' = NoArtifact
  /\ UNCHANGED <<variant, gpu, fit>>

SaveCheckpointWithWholeSpool ==
  SaveCheckpointOf(IF variant = "mahalanobis" THEN spool.data ELSE features)

SaveCheckpoint ==
  SaveCheckpointOf(IF variant = "mahalanobis" THEN Take(spool.data, stats.count)
                                              ELSE features)

(* loadCheckpoint: magic, mode and sizes must fit, the payload is read and *)
(* validated in full, and only then is the fit replaced.                   *)
Compatible ==
  /\ checkpoint.state = "whole" /\ checkpoint.variant = variant
  /\ variant = "mahalanobis" => Len(checkpoint.patches) = checkpoint.stats.count

LoadCheckpoint ==
  /\ Compatible
  /\ features' = IF variant = "original" THEN checkpoint.patches ELSE features
  /\ stats' = checkpoint.stats
  /\ spool' = IF variant = "mahalanobis" THEN [open |-> TRUE, data |-> checkpoint.patches]
              ELSE ClosedSpool
  /\ accepted' = checkpoint.accepted
  /\ artifact' = NoArtifact
  /\ UNCHANGED <<variant, gpu, checkpoint>>

Clear == Emptied /\ artifact' = NoArtifact /\ UNCHANGED <<variant, gpu, checkpoint>>

(* The process ends and another one continues, for the same or another     *)
(* variant, with the checkpoint it finds.                                  *)
Restart ==
  /\ Emptied
  /\ variant' \in Variants /\ gpu' \in BOOLEAN
  /\ artifact' = NoArtifact
  /\ UNCHANGED checkpoint

PatchCoreNext ==
  \/ \E b \in Batches : AddOriginal(b) \/ AddStatistical(b) \/ ImportBank(b)
  \/ SaveArtifacts \/ SaveCheckpoint \/ LoadCheckpoint \/ Clear \/ Restart

PatchCoreSpec == InitPatchCore /\ [][PatchCoreNext]_patchCoreVars
-----------------------------------------------------------------------------
(* What a fit that accepted these patches must hold.                       *)
Exact(v, patches, moments, wanted) ==
  IF v = "original" THEN patches = wanted
  ELSE /\ moments.count = Len(wanted)
       /\ wanted # <<>> => moments = Moments(wanted)
       /\ v = "mahalanobis" => patches = wanted

(* Whatever adds failed, in whatever chunks the moments were updated, and  *)
(* whichever device did it, the fit holds exactly the accepted patches,    *)
(* and the committed prefix of the spool is these patches in order ("a     *)
(* failed previous append is overwritten").                                *)
FitExact ==
  Exact(variant, IF variant = "original" THEN features ELSE Take(spool.data, stats.count),
        stats, accepted)

(* A whole checkpoint is one that the same variant accepts, and it         *)
(* restores exactly what had been accepted when it was written.            *)
CheckpointRestorable ==
  checkpoint.state = "whole" =>
    /\ Exact(checkpoint.variant, checkpoint.patches, checkpoint.stats, checkpoint.accepted)
    /\ variant = checkpoint.variant => Compatible

Bagged(s, x) == Cardinality({i \in DOMAIN s : s[i] = x})

Candidates == IF variant = "original" THEN accepted ELSE Transform(accepted, stats.mean)

HasBank == artifact.state = "whole" /\ variant # "subspace_ad"

(* "Retained vectors are real patches": a bank holds no more copies of a   *)
(* patch than were accepted, has the configured size, and repeats a patch  *)
(* only when there are not enough different ones, although the streaming   *)
(* reduction never sees all of them together.                              *)
BankRepresentative ==
  HasBank =>
    /\ Len(artifact.bank) =
         (IF variant = "original" THEN TargetCount(Len(accepted))
          ELSE Least(Budget, Len(accepted)))
    /\ \A p \in ToSet(artifact.bank) : Bagged(artifact.bank, p) <= Bagged(Candidates, p)
    /\ artifact.greedy =>
         Cardinality(ToSet(artifact.bank)) =
           Least(Len(artifact.bank), Cardinality(ToSet(accepted)))

BestRadius(S, k) ==
  Min({Radius(S, C) : C \in UNION {kSubset(j, S) : j \in 1..Least(k, Cardinality(S))}})

Reductions ==
  IF variant = "original" THEN 1 ELSE Len(ChunksOf(accepted, StreamChunk))

(* Every accepted patch is within twice the best possible radius of the    *)
(* bank, once for each reduction: the quality of farthest-first selection, *)
(* which only the whole sequence of choices gives.                         *)
BankCovers ==
  HasBank /\ artifact.greedy =>
    LET all == ToSet(Candidates)
    IN  Radius(all, ToSet(artifact.bank))
          <= 2 * Reductions * BestRadius(all, Len(artifact.bank))
=============================================================================
