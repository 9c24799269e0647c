-------------------------- MODULE PadimStatsProofs --------------------------
(***************************************************************************)
(* The training statistics of PaDiM are exact for any number of locations, *)
(* any chunk size and any set of samples.                                  *)
(***************************************************************************)
EXTENDS PadimStats, TLAPS

(* Appending the same sample at every location keeps the statistics exact. *)
LEMMA AcceptKeepsExact ==
  ASSUME IInv, NEW sample \in Samples, Accept(sample), ~gpuUpdateFailed
  PROVE  /\ stats' \in StatsType
         /\ sampleCount' \in Nat
         /\ accepted' \in Seq(Samples)
         /\ Exact(stats', sampleCount', accepted')
<1>1. /\ stats \in StatsType /\ accepted \in Seq(Samples) /\ sampleCount \in Nat
      /\ Exact(stats, sampleCount, accepted)
  BY DEF IInv, TypeOK, StatisticsExact
<1>2. \A l \in Locations : stats[l] \in Seq(Samples) /\ stats[l] = accepted
  BY <1>1 DEF StatsType, Exact
<1>3. stats' = [l \in Locations |-> Append(stats[l], sample)]
  BY DEF Accept, Accumulate
<1>4. Append(accepted, sample) \in Seq(Samples)
      /\ Len(Append(accepted, sample)) = Len(accepted) + 1
  BY <1>1
<1>5. accepted' = Append(accepted, sample) /\ sampleCount' = sampleCount + 1
  BY DEF Accept
<1>6. stats' \in StatsType
  BY <1>2, <1>3, <1>4 DEF StatsType
<1>7. \A l \in Locations : stats'[l] = accepted'
  BY <1>2, <1>3, <1>5
<1> QED
  BY <1>1, <1>4, <1>5, <1>6, <1>7 DEF Exact

(* Whatever subset of the locations an update reaches, the types hold.     *)
LEMMA AccumulateType ==
  ASSUME stats \in StatsType, NEW sample \in Samples, NEW where, Accumulate(sample, where)
  PROVE  stats' \in StatsType
<1>1. \A l \in Locations : stats[l] \in Seq(Samples) /\ Append(stats[l], sample) \in Seq(Samples)
  BY DEF StatsType
<1> QED
  BY <1>1 DEF StatsType, Accumulate

LEMMA NoStatsExact ==
  /\ <<>> \in Seq(Samples)
  /\ NoStats \in StatsType /\ Exact(NoStats, 0, <<>>)
<1>1. <<>> \in Seq(Samples) /\ Len(<<>>) = 0
  OBVIOUS
<1>2. NoStats \in StatsType
  BY <1>1 DEF NoStats, StatsType
<1> QED
  BY <1>1, <1>2 DEF NoStats, Exact

(* A file that is missing or torn has a type and promises nothing.         *)
LEMMA FileTypes ==
  /\ NoFile \in FileType /\ Torn \in FileType
  /\ NoFile.state # "whole" /\ Torn.state # "whole"
<1>1. NoFile \in FileType /\ NoFile.state # "whole"
  BY NoStatsExact DEF NoFile, FileType
<1>2. Torn = [state |-> "torn", stats |-> NoStats, samples |-> 0, accepted |-> <<>>]
  BY DEF NoFile, Torn
<1>3. Torn \in FileType /\ Torn.state # "whole"
  BY <1>2, NoStatsExact DEF FileType
<1> QED
  BY <1>1, <1>3

(* The initial states satisfy the invariant.                               *)
LEMMA InitIInv == Init => IInv
<1> SUFFICES ASSUME Init PROVE IInv
  OBVIOUS
<1>1. TypeOK
  <2>1. gpu \in BOOLEAN /\ resident \in BOOLEAN
    BY DEF Init
  <2>2. gpuUpdateFailed = FALSE /\ undefined = FALSE
    BY DEF Init
  <2>3. mem = "none" /\ stats = NoStats /\ sampleCount = 0 /\ accepted = <<>>
    BY DEF Init
  <2>4. checkpoint \in FileType /\ artifact \in FileType
    BY FileTypes DEF Init
  <2> QED
    BY <2>1, <2>2, <2>3, <2>4, NoStatsExact DEF TypeOK
<1>2. StatisticsExact
  BY NoStatsExact DEF Init, StatisticsExact
<1>3. FilesExact
  BY FileTypes DEF Init, FilesExact
<1> QED
  BY <1>1, <1>2, <1>3 DEF IInv

(* The files stay exact in a step that leaves them alone.                  *)
LEMMA FilesUnchanged ==
  ASSUME IInv, UNCHANGED files
  PROVE  /\ FilesExact'
         /\ checkpoint' \in FileType /\ artifact' \in FileType
  BY DEF IInv, TypeOK, FilesExact, files, Exact

(* The constructor and clear() leave exact, empty statistics.              *)
LEMMA EmptyIInv ==
  ASSUME IInv, Empty, UNCHANGED files, gpu' \in BOOLEAN, resident' \in BOOLEAN,
         undefined' \in BOOLEAN
  PROVE  IInv'
<1>0. /\ mem' = "none" /\ stats' = NoStats /\ sampleCount' = 0
      /\ gpuUpdateFailed' = FALSE /\ accepted' = <<>>
  BY DEF Empty
<1>1. TypeOK'
  BY <1>0, NoStatsExact, FilesUnchanged DEF TypeOK
<1>2. StatisticsExact'
  BY NoStatsExact DEF Empty, StatisticsExact
<1> QED
  BY <1>1, <1>2, FilesUnchanged DEF IInv

(* The snapshot that a save writes is exact when the latch is not set.     *)
LEMMA WholeExact ==
  ASSUME IInv, CanSave
  PROVE  /\ Whole \in FileType
         /\ Exact(Whole.stats, Whole.samples, Whole.accepted) /\ Whole.samples > 0
<1>1. Exact(stats, sampleCount, accepted) /\ sampleCount > 0
  BY DEF IInv, StatisticsExact, CanSave, HasSamples
<1>2. Whole \in FileType
  BY DEF IInv, TypeOK, Whole, FileType
<1> QED
  BY <1>1, <1>2 DEF Whole, Exact

(* Every step preserves the invariant.                                     *)
LEMMA NextIInv == IInv /\ [Next]_vars => IInv'
<1> SUFFICES ASSUME IInv, [Next]_vars PROVE IInv'
  OBVIOUS
<1> USE DEF IInv
<1>1. ASSUME NEW s \in Samples, AddGpu(s) PROVE IInv'
  <2>1. UNCHANGED <<config, files, undefined>> /\ ~gpuUpdateFailed
    BY <1>1 DEF AddGpu, AddGpuWith
  <2>2. mem' \in {"none", "sums", "host", "device"}
    BY <1>1 DEF AddGpu, AddGpuWith, TypeOK
  <2>3. CASE Accept(s)
    <3>1. gpuUpdateFailed' = gpuUpdateFailed
      BY <2>3 DEF Accept
    <3>2. TypeOK'
      BY <2>1, <2>2, <2>3, <3>1, AcceptKeepsExact, FilesUnchanged DEF TypeOK, config
    <3>3. StatisticsExact'
      BY <2>1, <2>3, AcceptKeepsExact DEF StatisticsExact
    <3> QED
      BY <2>1, <3>2, <3>3, FilesUnchanged
  <2>4. CASE GpuUpdateFails(s) /\ gpuUpdateFailed' = TRUE
    <3>1. stats' \in StatsType
      BY <2>4, AccumulateType DEF GpuUpdateFails, TypeOK
    <3>2. TypeOK'
      BY <2>1, <2>2, <2>4, <3>1, FilesUnchanged DEF TypeOK, config, GpuUpdateFails
    <3>3. StatisticsExact'
      BY <2>4 DEF StatisticsExact
    <3> QED
      BY <2>1, <3>2, <3>3, FilesUnchanged
  <2> QED
    BY <1>1, <2>3, <2>4 DEF AddGpu, AddGpuWith
<1>2. ASSUME NEW s \in Samples, AddCpu(s) PROVE IInv'
  <2>1. UNCHANGED <<config, files, undefined>> /\ mem' \in {"host", "sums"}
    BY <1>2 DEF AddCpu
  <2>2. CASE UNCHANGED <<stats, sampleCount, gpuUpdateFailed, accepted>>
    <3>1. TypeOK'
      BY <2>1, <2>2, FilesUnchanged DEF TypeOK, config
    <3>2. StatisticsExact'
      BY <2>2 DEF StatisticsExact, Exact
    <3> QED
      BY <2>1, <3>1, <3>2, FilesUnchanged
  <2>3. CASE Accept(s) /\ ~gpuUpdateFailed
    <3>1. gpuUpdateFailed' = gpuUpdateFailed
      BY <2>3 DEF Accept
    <3>2. TypeOK'
      BY <2>1, <2>3, <3>1, AcceptKeepsExact, FilesUnchanged DEF TypeOK, config
    <3>3. StatisticsExact'
      BY <2>3, AcceptKeepsExact DEF StatisticsExact
    <3> QED
      BY <2>1, <3>2, <3>3, FilesUnchanged
  <2>4. CASE Accept(s) /\ gpuUpdateFailed
    <3>1. gpuUpdateFailed' = TRUE /\ stats' \in StatsType
      BY <2>4, AccumulateType DEF Accept, TypeOK
    <3>2. accepted' \in Seq(Samples) /\ sampleCount' \in Nat
      BY <2>4 DEF Accept, TypeOK
    <3>3. TypeOK'
      BY <2>1, <3>1, <3>2, FilesUnchanged DEF TypeOK, config
    <3> QED
      BY <2>1, <3>1, <3>3, FilesUnchanged DEF StatisticsExact
  <2> QED
    BY <1>2, <2>2, <2>3, <2>4 DEF AddCpu
<1>3. ASSUME AddToMissingMoments PROVE IInv'
  <2>1. UNCHANGED <<config, fit, files>> /\ undefined' = TRUE
    BY <1>3 DEF AddToMissingMoments
  <2>2. TypeOK'
    BY <2>1 DEF TypeOK, config, fit, files
  <2> QED
    BY <2>1, <2>2, FilesUnchanged DEF fit, StatisticsExact, Exact
<1>4. ASSUME SaveCheckpoint PROVE IInv'
  <2>1. CanSave /\ checkpoint' \in {Torn, Whole} /\ UNCHANGED <<config, fit, artifact, undefined>>
    BY <1>4 DEF SaveCheckpoint, SaveCheckpointIf
  <2>2. TypeOK'
    BY <2>1, FileTypes, WholeExact DEF TypeOK, config, fit
  <2>3. StatisticsExact'
    BY <2>1 DEF fit, StatisticsExact, Exact
  <2>4. FilesExact'
    BY <2>1, FileTypes, WholeExact DEF FilesExact, Exact
  <2> QED
    BY <2>2, <2>3, <2>4
<1>5. ASSUME SaveArtifacts PROVE IInv'
  <2>1. CanSave /\ artifact' \in {Torn, Whole} /\ UNCHANGED <<config, fit, checkpoint, undefined>>
    BY <1>5 DEF SaveArtifacts
  <2>2. TypeOK'
    BY <2>1, FileTypes, WholeExact DEF TypeOK, config, fit
  <2>3. StatisticsExact'
    BY <2>1 DEF fit, StatisticsExact, Exact
  <2>4. FilesExact'
    BY <2>1, FileTypes, WholeExact DEF FilesExact, Exact
  <2> QED
    BY <2>2, <2>3, <2>4
<1>6. ASSUME LoadCheckpoint PROVE IInv'
  <2>1. UNCHANGED <<config, files, undefined>> /\ checkpoint.state = "whole"
    BY <1>6 DEF LoadCheckpoint
  <2>2. Exact(checkpoint.stats, checkpoint.samples, checkpoint.accepted)
    BY <2>1 DEF FilesExact
  <2>3. checkpoint \in FileType
    BY DEF TypeOK
  <2>4. /\ stats' = checkpoint.stats /\ sampleCount' = checkpoint.samples
        /\ accepted' = checkpoint.accepted /\ gpuUpdateFailed' = FALSE
        /\ mem' \in {"host", "device"}
    BY <1>6 DEF LoadCheckpoint
  <2>5. TypeOK'
    BY <2>1, <2>3, <2>4, FilesUnchanged DEF TypeOK, config, FileType
  <2>6. StatisticsExact'
    BY <2>2, <2>4 DEF StatisticsExact
  <2> QED
    BY <2>1, <2>5, <2>6, FilesUnchanged
<1>7. ASSUME Clear PROVE IInv'
  BY <1>7, EmptyIInv DEF Clear, config, TypeOK
<1>8. ASSUME Restart PROVE IInv'
  BY <1>8, EmptyIInv DEF Restart
<1>9. CASE UNCHANGED vars
  <2>1. UNCHANGED <<config, fit, files, undefined>>
    BY <1>9 DEF vars
  <2>2. TypeOK'
    BY <2>1 DEF TypeOK, config, fit, files
  <2> QED
    BY <2>1, <2>2, FilesUnchanged DEF fit, StatisticsExact, Exact
<1> QED
  BY <1>1, <1>2, <1>3, <1>4, <1>5, <1>6, <1>7, <1>8, <1>9 DEF Next

(* Statistics and files are exact in every reachable state.                *)
THEOREM Safety == Spec => []IInv
  BY InitIInv, NextIInv, PTL DEF Spec

(* Unless an update has failed and nothing was restored since, every       *)
(* location of a PaDiM fit holds exactly the accepted samples.             *)
THEOREM ExactStatistics == Spec => []StatisticsExact
<1>1. IInv => StatisticsExact
  BY DEF IInv
<1> QED
  BY <1>1, Safety, PTL

(* A whole checkpoint or artifact holds exactly what had been accepted     *)
(* when it was written.                                                    *)
THEOREM ExactFiles == Spec => []FilesExact
<1>1. IInv => FilesExact
  BY DEF IInv
<1> QED
  BY <1>1, Safety, PTL
=============================================================================
