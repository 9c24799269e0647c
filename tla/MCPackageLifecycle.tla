------------------------ MODULE MCPackageLifecycle --------------------------
(* Small instances of PackageLifecycle: the templates an application may   *)
(* export, and some the library refuses.                                   *)
EXTENDS PackageLifecycle, TLC

CONSTANTS graph, bank, plan, s1, o1, o2, t1

OutputSymmetry == Permutations(Outputs)

Range == [lo |-> 0, hi |-> 1, of |-> None]

Post ==
  [normalize |-> FALSE, threshold |-> FALSE, image |-> Range, pixel |-> Range,
   sensitivity |-> 1, smoothKernel |-> 3, smoothSigma |-> 0, morphologyKernel |-> 5,
   iterations |-> 1, morphologyMode |-> "open", minArea |-> 16, maxRegions |-> 0]

Manifest(algorithm, config) ==
  [schema |-> 1, named |-> TRUE, algorithm |-> algorithm, type |-> algorithm,
   outputs |-> {"map"},
   contract |-> IF algorithm \in Predicting THEN "prediction" ELSE "feature_pyramid",
   input |-> [layout |-> "NCHW", color |-> "RGB", interpolation |-> "linear",
              size |-> 2, crop |-> {1}, std |-> 1],
   runtime |-> [backend |-> "tensorrt", policy |-> "prefer_engine", batch |-> 1, workspace |-> 1,
                provider |-> FALSE, device |-> 0, threads |-> 0, engine |-> NoFile, onnx |-> "graph"],
   post |-> Post, config |-> config, sums |-> <<>>]

PatchCore(variant, index, statistics) ==
  [variant |-> variant, index |-> index, statistics |-> statistics, aggregation |-> "concat",
   layers |-> 1, dimension |-> 2, pca |-> 0, neighbors |-> 1, bank |-> 2, chunk |-> 1,
   kernel |-> 3, stride |-> 1, padding |-> 1, real |-> 1]

Package(manifest, has) ==
  [present |-> TRUE, linked |-> FALSE, manifest |-> manifest,
   files |-> [f \in Files |-> CASE f \notin has -> Missing
                                [] f = "graph" -> graph
                                [] OTHER -> bank]]

WithChecksums(p) == [p EXCEPT !.manifest = Checksummed(@, p.files)]

(* A deployed package, calibrated on its own scores.                       *)
Deployed ==
  LET p == WithChecksums(Package(Manifest("patchcore", PatchCore("original", "index", NoFile)),
                                 {"graph", "index"}))
      own == [Range EXCEPT !.of = ScoresOf(p)]
  IN  [p EXCEPT !.manifest.post = [Post EXCEPT !.normalize = TRUE, !.threshold = TRUE,
                                               !.image = own, !.pixel = own]]

(* It names no bank, and statistics that the original variant ignores.     *)
BankUnnamed ==
  Package(Manifest("patchcore", PatchCore("original", EmptyName, "../stats")), {"graph"})

MahalanobisExample ==
  Package([Manifest("patchcore", PatchCore("mh", "index", "stats")) EXCEPT !.schema = 2],
          {"graph"})

PadimExample ==
  Package(Manifest("padim", [statistics |-> "stats", channels |-> "index", dimension |-> 1,
                             size |-> 1, layers |-> 1, real |-> 1]), {"graph"})

(* An artifact name that leaves the package: it is fitted in vain.         *)
PadimEscaping == [PadimExample EXCEPT !.manifest.config.channels = "../index"]

(* The graph of a detector is added by the builder; its pixel range is     *)
(* not a range, which only normalization minds.                            *)
YoloExample ==
  Package([Manifest("yolo", [classes |-> 1, real |-> 1, named |-> TRUE])
             EXCEPT !.post.pixel.hi = 0], {})

EngineOnly ==
  Package([Manifest("direct", {}) EXCEPT
             !.runtime = [@ EXCEPT !.policy = "engine_only", !.engine = "graph", !.onnx = NoFile]],
          {"graph"})

SpadeExample ==
  Package(Manifest("spade", [layers |-> 1, indexes |-> 1, files |-> {"index"},
                             neighbors |-> 1, real |-> 1]), {"graph", "index"})

(* What load refuses: a bad manifest, a missing or a changed file.         *)
Refused ==
  {[Deployed EXCEPT !.manifest.input.std = Bad],
   [MahalanobisExample EXCEPT !.manifest.schema = 1],
   [Deployed EXCEPT !.files["index"] = plan],
   [Deployed EXCEPT !.present = FALSE]}

Exported ==
  {Deployed, BankUnnamed, MahalanobisExample, PadimExample, PadimEscaping, YoloExample, SpadeExample,
   EngineOnly, [PadimExample EXCEPT !.linked = TRUE]}
    \cup Refused

(* The hypothesis of theorem ScoresCalibrated holds of these templates.    *)
ASSUME UnfittedAssumption == TemplatesUnfitted
=============================================================================
