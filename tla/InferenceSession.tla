-------------------------- MODULE InferenceSession --------------------------
(***************************************************************************)
(* One call of InferenceSession::predictBatch                              *)
(* (src/src/model/inference_session.cpp): the images are cut into chunks   *)
(* of at most the backend's batch size; each chunk is preprocessed, run    *)
(* through the backend, turned into raw predictions by the algorithm       *)
(* plugin and postprocessed; the predictions of all chunks are returned    *)
(* together, or none of them.                                              *)
(*                                                                         *)
(* A session runs one algorithm, in one of three ways load() can leave     *)
(* behind: on the host; with device compute around a backend that takes    *)
(* host tensors ("staged"); with device tensors from end to end            *)
(* ("device").  The direct adapter has no device extension.                *)
(*                                                                         *)
(* An image is the record of what the pipeline distinguishes: whether its  *)
(* descriptor passes the checks, and the features the network computes for *)
(* it, one number per location (a point on a line for PatchCore and PaDiM, *)
(* an anomaly-map pixel for the direct adapter), or NaN.                   *)
(***************************************************************************)
EXTENDS Integers, Sequences, FiniteSets, SequencesExt, FiniteSetsExt

CONSTANTS
  Images,      \* the images a caller has, records as described above
  Bank,        \* the PatchCore index: a sequence of points on the line
  Neighbors,   \* num_neighbors
  Mean,        \* the PaDiM statistics: the mean of each location
  ChunkSizes,  \* what IBackend::maxBatchSize may report
  Threshold,   \* image and pixel threshold of the package's postprocess section
  ScoreMin, ScoreMax,  \* image and pixel range of the same section
  NaN          \* the non-finite number

ASSUME BankAssumption == Bank \in Seq(Int) /\ Neighbors \in 1 .. Len(Bank)
ASSUME ChunkSizesAssumption == ChunkSizes \subseteq Int
ASSUME MeanAssumption == Mean \in Seq(Int)
ASSUME RangeAssumption == ScoreMin < ScoreMax

VARIABLES
  session,  \* what load() built; never changes
  phase,    \* where predictBatch is
  images,   \* the images of the call
  begin,    \* index of the first image of the current chunk
  tensors,  \* input, then outputs of the backend: rows, and where they are stored
  raw,      \* RawPredictionBatch of the chunk
  results   \* PredictionBatch collected so far

sessionVars == <<session, phase, images, begin, tensors, raw, results>>

Sessions ==
  {s \in [algorithm : {"direct", "patchcore", "padim"}, compute : {"host", "staged", "device"},
          maxBatchSize : ChunkSizes] : s.algorithm = "direct" => s.compute = "host"}
NoTensors == [place |-> "none", rows |-> <<>>]

InitSession ==
  /\ session \in Sessions
  /\ phase = "idle" /\ images = <<>> /\ begin = 1
  /\ tensors = NoTensors /\ raw = <<>> /\ results = <<>>

-----------------------------------------------------------------------------
(* The adapters. *)

Locations == Len((CHOOSE i \in Images : TRUE).features)

\* The preprocessor gives every image the shape of the input tensor.
ASSUME ImagesAssumption ==
  /\ Locations \in Nat \ {0} /\ NaN \notin Int
  /\ \A i \in Images : i.features \in [1 .. Locations -> Int \union {NaN}]

Distance(a, b) == IF a < b THEN b - a ELSE a - b

Nearer(query, j, k) ==
  \/ Distance(query, Bank[j]) < Distance(query, Bank[k])
  \/ Distance(query, Bank[j]) = Distance(query, Bank[k]) /\ j < k

\* FaissIndex::search for one query: the Neighbors nearest rows of the index,
\* as labels, nearest first and lowest label first among equals
Search(query) ==
  [k \in 1 .. Neighbors |->
     CHOOSE j \in DOMAIN Bank : Cardinality({i \in DOMAIN Bank : Nearer(query, i, j)}) = k - 1]

\* Element x of an array of rows of one width lies in this row and column.
Row(x, width) == ((x - 1) \div width) + 1
Column(x, width) == ((x - 1) % width) + 1

\* All neighbours of all queries in one array, as search fills it
Labels(queries) ==
  [x \in 1 .. Len(queries) * Neighbors |->
     Search(queries[Row(x, Neighbors)])[Column(x, Neighbors)]]
Distances(queries) ==
  LET labels == Labels(queries)
  IN  [x \in DOMAIN labels |-> Distance(queries[Row(x, Neighbors)], Bank[labels[x]])]

\* flattenPatches: the locations of all images of the chunk in one array
Flatten(rows) ==
  [x \in 1 .. Len(rows) * Locations |-> rows[Row(x, Locations)][Column(x, Locations)]]

\* The part of such an array that belongs to image n
OfImage(scores, n) == [l \in 1 .. Locations |-> scores[(n - 1) * Locations + l]]

\* The first location with the largest nearest distance
FirstMaximum(map) ==
  CHOOSE l \in 1 .. Locations :
    \A o \in 1 .. Locations : map[o] < map[l] \/ (map[o] = map[l] /\ l <= o)

\* The score is the maximum, weighted by a softmax over the distances around
\* the matched row of the index; the weight is kept as those distances.
Weighted(maximum, support) ==
  [value |-> maximum, weight |-> IF Neighbors > 1 THEN support ELSE <<>>]

\* predict: image by image, one support query each
HostPatchCore(rows) ==
  LET queries == Flatten(rows)
      distances == Distances(queries)
      labels == Labels(queries)
      scores == [q \in DOMAIN queries |-> distances[(q - 1) * Neighbors + 1]]
  IN  [n \in DOMAIN rows |->
         LET at == (n - 1) * Locations + FirstMaximum(OfImage(scores, n))
         IN  [score |-> Weighted(scores[at],
                                 Distances(<<Bank[labels[(at - 1) * Neighbors + 1]]>>)),
              map |-> OfImage(scores, n)]]

\* GpuCompute::scores: the nearest distance of every location of the chunk,
\* and for every image the location of its maximum
DeviceScores(distances, count) ==
  LET nearest == [q \in 1 .. count * Locations |-> distances[(q - 1) * Neighbors + 1]]
  IN  [nearest |-> nearest, maxima |-> [n \in 1 .. count |-> FirstMaximum(OfImage(nearest, n))]]

\* (A mutant of Supports: the label is looked up without the image's offset.)
SupportsOfFirstImage(labels, maxima) ==
  [n \in DOMAIN maxima |-> Bank[labels[(maxima[n] - 1) * Neighbors + 1]]]

\* The rows of the index matched at the maxima, one for each image
Supports(labels, maxima) ==
  [n \in DOMAIN maxima |-> Bank[labels[((n - 1) * Locations + maxima[n] - 1) * Neighbors + 1]]]

\* predictGpu: one search with the support rows of all images of the chunk
DevicePatchCore(rows) ==
  LET queries == Flatten(rows)
      scored == DeviceScores(Distances(queries), Len(rows))
      supportDistances == Distances(Supports(Labels(queries), scored.maxima))
      At(n) == (n - 1) * Locations
  IN  [n \in DOMAIN rows |->
         [score |-> Weighted(scored.nearest[At(n) + scored.maxima[n]],
                             SubSeq(supportDistances, (n - 1) * Neighbors + 1, n * Neighbors)),
          map |-> SubSeq(scored.nearest, At(n) + 1, At(n) + Locations)]]

\* PaDiM: each location has its own mean; the score is the largest value of
\* the map
Padim(row) ==
  LET map == [l \in 1 .. Locations |-> Distance(row[l], Mean[l])]
  IN  [score |-> [value |-> Max(ToSet(map)), weight |-> <<>>], map |-> map]

HostPadim(rows) == [n \in DOMAIN rows |-> Padim(rows[n])]

\* predictGpu: the distances of the whole chunk in one array, cut up afterwards
DevicePadim(rows) ==
  LET patches == Flatten(rows)
      distances == [q \in DOMAIN patches |->
                      Distance(patches[q], Mean[Column(q, Locations)])]
      Map(n) == SubSeq(distances, (n - 1) * Locations + 1, n * Locations)
  IN  [n \in DOMAIN rows |->
         [score |-> [value |-> Max(ToSet(Map(n))), weight |-> <<>>], map |-> Map(n)]]

\* The direct adapter hands on what the network computed, checked by nobody
Direct(rows) ==
  [n \in DOMAIN rows |-> [score |-> [value |-> Head(rows[n]), weight |-> <<>>],
                          map |-> rows[n]]]

\* A distance that is not finite fails the chunk
HasNaN(row) == \E l \in DOMAIN row : row[l] = NaN
Rejects(rows) == session.algorithm # "direct" /\ \E n \in DOMAIN rows : HasNaN(rows[n])

\* The plugin's predict and predict_device: with device compute configured the
\* plugin is called through the second
ComputeEnabled == session.compute # "host"

PluginPredict(rows) ==
  CASE session.algorithm = "direct" -> Direct(rows)
    [] session.algorithm = "patchcore" -> HostPatchCore(rows)
    [] session.algorithm = "padim" -> HostPadim(rows)

PluginPredictDevice(rows) ==
  IF session.algorithm = "patchcore" THEN DevicePatchCore(rows) ELSE DevicePadim(rows)

-----------------------------------------------------------------------------
(* The postprocessor. *)

\* normalize, in units of 1 / (2 * (ScoreMax - ScoreMin))
Normalize(value) ==
  LET scaled == 2 * (value - Threshold) + (ScoreMax - ScoreMin)
  IN  IF scaled < 0 THEN 0
      ELSE IF scaled > 2 * (ScoreMax - ScoreMin) THEN 2 * (ScoreMax - ScoreMin)
      ELSE scaled

\* Compared with 1 - sensitivity, for the default sensitivity of one half. A
\* NaN pixel normalizes to NaN and is never above the threshold.
Above(value) == value # NaN /\ Normalize(value) >= ScoreMax - ScoreMin

Postprocessed(prediction) ==
  [rawScore |-> prediction.score, rawMap |-> prediction.map,
   isAnomalous |-> Above(prediction.score.value),
   mask |-> {l \in DOMAIN prediction.map : Above(prediction.map[l])}]

-----------------------------------------------------------------------------
(* predictBatch, chunk by chunk. *)

ChunkSize == IF session.maxBatchSize < 1 THEN 1 ELSE session.maxBatchSize
ChunkEnd == IF begin + ChunkSize - 1 < Len(images) THEN begin + ChunkSize - 1 ELSE Len(images)
Chunk == SubSeq(images, begin, ChunkEnd)

Submit(batch) ==
  /\ phase = "idle" /\ batch # <<>>
  /\ phase' = "chunk" /\ images' = batch /\ begin' = 1 /\ results' = <<>>
  /\ UNCHANGED <<session, tensors, raw>>

\* One tensor for the chunk, an image after the other: what the network will
\* make of image n stands for its row n.
HostTensor(chunk) == [place |-> "host", rows |-> [n \in DOMAIN chunk |-> chunk[n].features]]
DeviceTensor(chunk) == [place |-> "device", rows |-> [n \in DOMAIN chunk |-> chunk[n].features]]
Download(tensor) == [tensor EXCEPT !.place = "host"]

Preprocess ==
  /\ phase = "chunk"
  /\ tensors' = IF ComputeEnabled THEN DeviceTensor(Chunk) ELSE HostTensor(Chunk)
  /\ phase' = "preprocessed"
  /\ UNCHANGED <<session, images, begin, raw, results>>

\* The backend's infer or inferDevice. A network with a static batch dimension
\* answers with its own number of rows, here one too few.
Infer ==
  /\ phase = "preprocessed"
  /\ LET inputs == IF session.compute = "staged" THEN Download(tensors) ELSE tensors
     IN  \E count \in {Len(inputs.rows), Len(inputs.rows) - 1} \ {0} :
           tensors' = [inputs EXCEPT !.rows = SubSeq(inputs.rows, 1, count)]
  /\ phase' = "inferred"
  /\ UNCHANGED <<session, images, begin, raw, results>>

\* Any stage may throw or return an error: no memory, a lost device
StageFails ==
  /\ phase \in {"chunk", "preprocessed", "inferred", "adapted"}
  /\ phase' = "failed" /\ tensors' = NoTensors /\ raw' = <<>> /\ results' = <<>>
  /\ UNCHANGED <<session, images, begin>>

\* DynamicAdapter::predict and the plugin behind it. Device tensors need the
\* negotiated device extension.
Adapt ==
  /\ phase = "inferred"
  /\ IF (tensors.place = "device" /\ ~ComputeEnabled) \/ Rejects(tensors.rows)
     THEN phase' = "failed" /\ raw' = <<>> /\ results' = <<>>
     ELSE /\ phase' = "adapted" /\ UNCHANGED results
          /\ raw' = IF ComputeEnabled THEN PluginPredictDevice(tensors.rows)
                    ELSE PluginPredict(tensors.rows)
  /\ tensors' = NoTensors
  /\ UNCHANGED <<session, images, begin>>

\* process: one prediction for each geometry, and finite image scores
Postprocess ==
  /\ phase = "adapted"
  /\ raw' = <<>>
  /\ IF Len(raw) # Len(Chunk) \/ \E n \in DOMAIN raw : raw[n].score.value = NaN
     THEN phase' = "failed" /\ results' = <<>> /\ UNCHANGED begin
     ELSE /\ results' = results \o [n \in DOMAIN raw |-> Postprocessed(raw[n])]
          /\ begin' = begin + ChunkSize
          /\ phase' = IF begin' > Len(images) THEN "done" ELSE "chunk"
  /\ UNCHANGED <<session, images, tensors>>

\* The caller has taken the answer
Finish ==
  /\ phase' = "idle" /\ images' = <<>> /\ begin' = 1 /\ results' = <<>>
  /\ UNCHANGED <<session, tensors, raw>>

SessionStep == Preprocess \/ Infer \/ StageFails \/ Adapt \/ Postprocess
=============================================================================
