------------------------------ MODULE Manifest ------------------------------
(***************************************************************************)
(* What a model package on disk means to the code that reads it            *)
(* (src/src/model/manifest.cpp, and the validation in                      *)
(* src/src/c_api/model_management.cpp).                                    *)
(*                                                                         *)
(* A package is a directory: the content of each of its files, the parsed  *)
(* JSON of its manifest, and whether it contains a symbolic link.  A       *)
(* manifest is a record with one field per section.  Sizes and factors are *)
(* small integers, a float outside the range the parser accepts is the     *)
(* value Bad, an optional crop is a set.  SHA-256 is taken as collision    *)
(* free: a checksum is the content it was computed from.                   *)
(***************************************************************************)
EXTENDS Integers, FiniteSets

CONSTANTS
  Files,     \* package-relative paths that stay inside the package
  NoFile,    \* in the place of a path: there is no such key
  EmptyName, \* in the place of a path: an empty string
  Missing,   \* the content of a file that is not there
  Bad        \* a float the parser refuses: not finite or out of range

ASSUME ManifestAssumption == {NoFile, EmptyName} \cap Files = {} /\ NoFile # EmptyName

(* What path.empty() tells of an optional path.                            *)
Named(path) == path \notin {NoFile, EmptyName}

Algorithms == {"patchcore", "padim", "direct", "efficientad", "dfkde", "spade", "yolo"}

Predicting == {"direct", "efficientad", "yolo"}

(* PatchCoreVariant, as the manifest names it.                             *)
Variants == {"original", "mh", "subad"}

Statistical(variant) == variant # "original"

(* The fields that are read or written below.                              *)
ManifestFields ==
  {"schema", "named", "algorithm", "type", "outputs", "contract", "input", "runtime", "post",
   "config", "sums"}

PostFields ==
  {"normalize", "threshold", "image", "pixel", "sensitivity", "smoothKernel", "smoothSigma",
   "morphologyKernel", "iterations", "morphologyMode", "minArea", "maxRegions"}

PatchCoreFields ==
  {"variant", "index", "statistics", "aggregation", "layers", "dimension", "pca", "neighbors",
   "bank", "chunk", "kernel", "stride", "padding", "real"}

IsPackage(p) ==
  /\ {"present", "linked", "files", "manifest"} \subseteq DOMAIN p
  /\ ManifestFields \subseteq DOMAIN p.manifest
  /\ PostFields \subseteq DOMAIN p.manifest.post
  /\ p.manifest.algorithm = "patchcore" => PatchCoreFields \subseteq DOMAIN p.manifest.config
-----------------------------------------------------------------------------
(* parseManifest, section by section                                       *)

ParsesModel(m) ==
  /\ m.schema \in {1, 2}
  /\ m.named
  /\ m.algorithm \in Algorithms
  /\ m.type = m.algorithm
  /\ m.outputs # {}

(* The preprocessor divides by the standard deviation and crops inside the *)
(* resized image.                                                          *)
ParsesInput(i) ==
  /\ i.layout \in {"NCHW", "NHWC"} /\ i.color \in {"RGB", "BGR"}
  /\ i.interpolation \in {"nearest", "linear", "cubic", "area"}
  /\ i.size > 0
  /\ \A c \in i.crop : c \in 1..i.size
  /\ i.std # Bad /\ i.std > 0

(* An ONNX Runtime package needs a graph, engine_only an engine, and the   *)
(* provider is no property of a model.                                     *)
ParsesRuntime(r) ==
  /\ r.backend \in {"tensorrt", "onnxruntime", "ort"}
  /\ r.policy \in {"engine_only", "prefer_engine", "build_if_missing"}
  /\ r.batch > 0 /\ r.workspace > 0
  /\ ~r.provider
  /\ r.device >= 0 /\ r.threads >= 0
  /\ Named(r.engine) \/ Named(r.onnx)
  /\ r.policy = "engine_only" => Named(r.engine)
  /\ r.backend # "tensorrt" => Named(r.onnx)

(* A range [lo, hi] of raw scores, and the scores it was computed from.    *)
Proper(range) == range.lo < range.hi

Odd(n) == n > 0 /\ n % 2 = 1

(* Without a "postprocess" section every default applies, 0..1 ranges      *)
(* included.                                                               *)
ParsesPost(p) ==
  /\ p.sensitivity # Bad
  /\ p.normalize => Proper(p.image) /\ Proper(p.pixel)
  /\ Odd(p.smoothKernel) /\ Odd(p.morphologyKernel)
  /\ p.smoothSigma # Bad
  /\ p.iterations >= 0 /\ p.morphologyMode \in {"open", "close"}
  /\ p.minArea >= 0 /\ p.maxRegions >= 0

(* Schema 1 packages are original PatchCore; every variant but SubspaceAD  *)
(* needs an index and every variant but the original statistics.  Only the *)
(* key is required: an empty name is refused when the file is looked for.  *)
ParsesPatchCore(c, schema) ==
  /\ c.variant \in Variants
  /\ Statistical(c.variant) => schema >= 2 /\ c.statistics # NoFile
  /\ c.variant # "subad" => c.index # NoFile
  /\ c.aggregation \in {"concat", "mean"} /\ c.layers > 0
  /\ c.dimension > 0 /\ c.pca \in 0..c.dimension
  /\ c.neighbors > 0 /\ c.bank > 0 /\ c.chunk > 0
  /\ c.kernel > 0 /\ c.stride > 0 /\ c.padding >= 0
  /\ c.real # Bad

ParsesPadim(c) ==
  /\ c.statistics # NoFile /\ c.channels # NoFile
  /\ c.dimension > 0 /\ c.size > 0 /\ c.real # Bad /\ c.layers > 0

ParsesEfficientAD(c) ==
  /\ c.hard # Bad /\ c.soft # Bad /\ c.hard + c.soft > 0
  /\ c.real # Bad

ParsesDFKDE(c) ==
  /\ c.statistics # NoFile
  /\ c.dimension > 0 /\ c.components \in 1..c.dimension
  /\ c.real # Bad /\ c.layers > 0

ParsesSPADE(c) ==
  /\ c.neighbors > 0 /\ c.real # Bad
  /\ c.layers > 0 /\ c.indexes = c.layers

ParsesYolo(c) == c.classes > 0 /\ c.real # Bad /\ c.named

ParsesAlgorithm(m) ==
  CASE m.algorithm = "patchcore"   -> ParsesPatchCore(m.config, m.schema)
    [] m.algorithm = "padim"       -> ParsesPadim(m.config)
    [] m.algorithm = "efficientad" -> ParsesEfficientAD(m.config)
    [] m.algorithm = "dfkde"       -> ParsesDFKDE(m.config)
    [] m.algorithm = "spade"       -> ParsesSPADE(m.config)
    [] m.algorithm = "yolo"        -> ParsesYolo(m.config)
    [] m.algorithm = "direct"      -> TRUE

ContractFits(m) ==
  \/ m.contract = "prediction" /\ m.algorithm \in Predicting
  \/ m.contract = "feature_pyramid" /\ m.algorithm \in Algorithms \ Predicting

parseManifest(m) ==
  /\ ParsesModel(m) /\ ParsesInput(m.input) /\ ParsesRuntime(m.runtime)
  /\ ParsesPost(m.post) /\ ParsesAlgorithm(m) /\ ContractFits(m)
-----------------------------------------------------------------------------
(* Packages                                                                *)

pathEscapes(path) == path \notin Files

resolveArtifact(package, path) ==
  /\ ~pathEscapes(path)
  /\ package.files[path] # Missing

(* ModelPackage::load: the manifest is there and parses, and each file it  *)
(* has a checksum for is there with that content.                          *)
load(package) ==
  /\ package.present
  /\ parseManifest(package.manifest)
  /\ \A f \in DOMAIN package.manifest.sums :
       /\ resolveArtifact(package, f)
       /\ package.files[f] = package.manifest.sums[f]

(* The files a manifest refers to that its package must contain: an engine *)
(* may be missing unless nothing but the engine may be used.               *)
GraphFiles(r) ==
  (IF Named(r.onnx) THEN {r.onnx} ELSE {})
    \cup (IF r.policy = "engine_only" THEN {r.engine} ELSE {})

AlgorithmFiles(m) ==
  CASE m.algorithm = "patchcore" ->
         (IF m.config.variant # "subad" THEN {m.config.index} ELSE {})
           \cup (IF Statistical(m.config.variant) THEN {m.config.statistics} ELSE {})
    [] m.algorithm = "padim" -> {m.config.statistics, m.config.channels}
    [] m.algorithm = "dfkde" -> {m.config.statistics}
    [] m.algorithm = "spade" -> m.config.files
    [] m.algorithm \in Predicting -> {}

validateReferencedArtifacts(package) ==
  \A f \in GraphFiles(package.manifest.runtime) \cup AlgorithmFiles(package.manifest) :
    resolveArtifact(package, f)

(* anom_model_validate, without initialize_runtime.                        *)
modelValidate(package) == load(package) /\ validateReferencedArtifacts(package)
=============================================================================
