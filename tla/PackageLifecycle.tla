-------------------------- MODULE PackageLifecycle --------------------------
(***************************************************************************)
(* The life of model packages through the C API                            *)
(* (src/src/c_api/model_management.cpp): a template is opened, fitted into *)
(* a new package, calibrated, and rebuilt with other artifacts, and what   *)
(* was published is the template of the next step.                         *)
(*                                                                         *)
(* Builders and fitters keep the path of their template and read it again  *)
(* when they commit; in between the application may have exported another  *)
(* template there, or removed an artifact it had added.  The steps inside  *)
(* commitPackage and its races are those of PackageCommit.                 *)
(***************************************************************************)
EXTENDS Manifest

CONSTANTS
  Outputs,          \* output package paths
  Template,         \* the path the application exports templates to
  Templates,        \* the packages it may export there
  Sources,          \* files the application adds as artifacts
  DefaultIndex, DefaultStatistics,  \* names createFitter gives unnamed artifacts
  None,
  MaxEdits, MaxFits, MaxCalibrations  \* bounds: changes made outside, fits, calibrations

ASSUME LifecycleAssumption ==
  /\ Template \notin Outputs
  /\ {DefaultIndex, DefaultStatistics} \subseteq Files
  /\ {MaxEdits, MaxFits, MaxCalibrations} \subseteq Nat
  /\ Missing \notin Nat
  /\ \A v \in Variants, i, s \in Files : [variant |-> v, index |-> i, statistics |-> s] # None

(* A template is a package, as far as fields are concerned.                *)
ASSUME TemplatesAssumption == \A t \in Templates : IsPackage(t)

VARIABLES
  packages,     \* the package at each path
  sources,      \* the content of the application's artifact files
  builder,      \* anom_package_builder, or None
  fitter,       \* anom_fitter, or None
  calibrations, \* what anom_calibrator_compute has returned
  edits, fits   \* changes made outside so far; artifact sets saved so far

packageVars == <<packages, sources, builder, fitter, calibrations, edits, fits>>

Paths == Outputs \cup {Template}

Absent == [present |-> FALSE]

InitPackages ==
  /\ \E t \in {u \in Templates : load(u)} :
       packages = [p \in Paths |-> IF p = Template THEN t ELSE Absent]
  /\ sources = [s \in Sources |-> s]
  /\ builder = None /\ fitter = None
  /\ calibrations = {}
  /\ edits = 0 /\ fits = 0
-----------------------------------------------------------------------------
(* Committing                                                              *)

(* What the scores of a package depend on: its algorithm, its graph and    *)
(* the assets its algorithm reads.                                         *)
ScoresOf(package) ==
  LET m == package.manifest
  IN  [algorithm |-> m.algorithm,
       variant   |-> IF m.algorithm = "patchcore" THEN m.config.variant ELSE "none",
       assets    |-> [f \in GraphFiles(m.runtime) \cup AlgorithmFiles(m) |-> package.files[f]]]

(* writeChecksummedManifest for a fitted PatchCore package.                *)
SetVariant(m, fitted) ==
  IF m.algorithm # "patchcore" THEN m
  ELSE [m EXCEPT !.config.variant    = fitted.variant,
                 !.config.index      = IF fitted.variant = "subad" THEN NoFile ELSE fitted.index,
                 !.config.statistics = IF Statistical(fitted.variant) THEN fitted.statistics ELSE NoFile]

FittedKeepingSchema(m, fitted) ==
  LET n == SetVariant(m, fitted)
  IN  IF Statistical(fitted.variant)
        THEN [n EXCEPT !.post.normalize = FALSE, !.post.threshold = FALSE]
        ELSE n

FittedKeepingPost(m, fitted) ==
  LET n == SetVariant(m, fitted)
  IN  IF Statistical(fitted.variant) THEN [n EXCEPT !.schema = 2] ELSE n

(* "A new score distribution needs its own calibration": the statistical   *)
(* variants switch normalization and thresholds off, the original does not.*)
Fitted(m, fitted) ==
  LET n == SetVariant(m, fitted)
  IN  IF Statistical(fitted.variant)
        THEN [n EXCEPT !.schema = 2, !.post.normalize = FALSE, !.post.threshold = FALSE]
        ELSE n

(* A calibration without pixel statistics leaves the pixel range alone.    *)
Calibrated(m, c) ==
  LET post == [m.post EXCEPT !.normalize = TRUE, !.threshold = TRUE, !.image = c.image,
                             !.pixel = IF c.hasPixel THEN c.pixel ELSE @]
  IN  [m EXCEPT !.post = post]

(* Every regular file but the manifest is listed.                          *)
Checksummed(m, files) ==
  [m EXCEPT !.sums = [f \in {g \in Files : files[g] # Missing} |-> files[f]]]

(* The staging directory: the template as it is now, the artifacts over    *)
(* it, and the manifest rewritten.                                         *)
Staged(root, artifacts, calibration, fitted) ==
  LET template == packages[root]
      files == [f \in Files |-> IF f \in DOMAIN artifacts THEN artifacts[f] ELSE template.files[f]]
      m1 == IF fitted = None THEN template.manifest ELSE Fitted(template.manifest, fitted)
      m2 == IF calibration = None THEN m1 ELSE Calibrated(m1, calibration)
  IN  [template EXCEPT !.files = files, !.manifest = Checksummed(m2, files)]

CommitsUnvalidated(root, artifacts, calibration, fitted) ==
  /\ packages[root].present /\ ~packages[root].linked
  /\ \A f \in DOMAIN artifacts : f \in Files /\ artifacts[f] # Missing

Commits(root, artifacts, calibration, fitted) ==
  /\ packages[root].present /\ ~packages[root].linked
  /\ \A f \in DOMAIN artifacts : f \in Files /\ artifacts[f] # Missing
  /\ modelValidate(Staged(root, artifacts, calibration, fitted))

(* commitPackage: a new output path, or nothing at all.                    *)
commitPackage(root, artifacts, output, calibration, fitted) ==
  /\ ~packages[output].present
  /\ Commits(root, artifacts, calibration, fitted)
  /\ packages' = [packages EXCEPT ![output] = Staged(root, artifacts, calibration, fitted)]
-----------------------------------------------------------------------------
(* anom_package_builder                                                    *)

(* The template is loaded and checked, and only its path kept.             *)
CreateBuilder(p) ==
  /\ builder = None
  /\ load(packages[p])
  /\ builder' = [root |-> p, artifacts |-> <<>>, calibration |-> None, committed |-> FALSE]
  /\ UNCHANGED <<packages, sources, fitter, calibrations, edits, fits>>

(* A second artifact for a destination replaces the first; the file is     *)
(* read at the commit.  The application leaves alone what the scores of    *)
(* its template were computed with.                                        *)
AddArtifact(s, f) ==
  /\ builder # None /\ ~builder.committed
  /\ sources[s] # Missing
  /\ f \in AlgorithmFiles(packages[builder.root].manifest)
           \cup GraphFiles(packages[builder.root].manifest.runtime)
       => packages[builder.root].files[f] = Missing
  /\ builder' = [builder EXCEPT !.artifacts =
       [g \in DOMAIN @ \cup {f} |-> IF g = f THEN s ELSE @[g]]]
  /\ UNCHANGED <<packages, sources, fitter, calibrations, edits, fits>>

(* A builder may be given a calibration again, and keeps the last; the     *)
(* application gives it one of the package it was created from.            *)
ApplyCalibration(c) ==
  /\ builder # None /\ ~builder.committed
  /\ c.root = builder.root
  /\ Proper(c.image) /\ (c.hasPixel => Proper(c.pixel))
  /\ builder' = [builder EXCEPT !.calibration = c]
  /\ UNCHANGED <<packages, sources, fitter, calibrations, edits, fits>>

(* A commit that fails leaves the builder as it was, for another try.      *)
CommitBuilder(o) ==
  /\ builder # None /\ ~builder.committed
  /\ commitPackage(builder.root, [f \in DOMAIN builder.artifacts |-> sources[builder.artifacts[f]]],
                   o, builder.calibration, None)
  /\ builder' = [builder EXCEPT !.committed = TRUE]
  /\ UNCHANGED <<sources, fitter, calibrations, edits, fits>>

DestroyBuilder ==
  /\ builder # None
  /\ builder' = None
  /\ UNCHANGED <<packages, sources, fitter, calibrations, edits, fits>>
-----------------------------------------------------------------------------
(* anom_fitter, as far as packages are concerned                           *)

(* The artifacts a PatchCore fitter will write must stay in the package    *)
(* and not collide with each other or with the graph; a template may leave *)
(* their names to the defaults.  The parser reads the name of the          *)
(* statistics only for the variants that have any.                         *)
Artifact(name, default) == IF Named(name) THEN name ELSE default

PatchCoreArtifacts(m, variant) ==
  [variant    |-> variant,
   index      |-> Artifact(m.config.index, DefaultIndex),
   statistics |-> IF Statistical(m.config.variant)
                    THEN Artifact(m.config.statistics, DefaultStatistics)
                    ELSE DefaultStatistics]

safeOutputs(m, fitted) ==
  /\ {fitted.index, fitted.statistics} \subseteq Files
  /\ fitted.index # fitted.statistics
  /\ {fitted.index, fitted.statistics} \cap {m.runtime.onnx, m.runtime.engine} = {}

(* createFeatureBackend needs a graph it can run.                          *)
HasGraph(package) ==
  LET r == package.manifest.runtime
  IN  /\ \A f \in GraphFiles(r) : resolveArtifact(package, f)
      /\ \/ Named(r.onnx)
         \/ resolveArtifact(package, r.engine)

(* The C object's variant wins over the manifest's.                        *)
CreateFitter(p, variant) ==
  LET m == packages[p].manifest
  IN  /\ fitter = None
      /\ load(packages[p])
      /\ m.algorithm \in {"patchcore", "padim"}
      /\ HasGraph(packages[p])
      /\ m.algorithm = "patchcore" => safeOutputs(m, PatchCoreArtifacts(m, variant))
      /\ fitter' = [root |-> p, was |-> packages[p], done |-> FALSE,
                    fitted |-> IF m.algorithm = "patchcore" THEN PatchCoreArtifacts(m, variant) ELSE None]
      /\ UNCHANGED <<packages, sources, builder, calibrations, edits, fits>>

(* What the pipeline saves, as content numbered n; the names are those of  *)
(* the manifest the fitter was created from.                               *)
Saved(n) ==
  LET m == fitter.was.manifest
      names == IF fitter.fitted = None THEN {m.config.statistics, m.config.channels}
               ELSE (IF fitter.fitted.variant # "subad" THEN {fitter.fitted.index} ELSE {})
                      \cup (IF Statistical(fitter.fitted.variant) THEN {fitter.fitted.statistics} ELSE {})
  IN  [f \in names |-> n]

(* finalize publishes a package; the fitter is complete.                   *)
Finalize(o) ==
  /\ fitter # None /\ ~fitter.done
  /\ fits < MaxFits
  /\ commitPackage(fitter.root, Saved(fits + 1), o, None, fitter.fitted)
  /\ fits' = fits + 1
  /\ fitter' = [fitter EXCEPT !.done = TRUE]
  /\ UNCHANGED <<sources, builder, calibrations, edits>>

DestroyFitter ==
  /\ fitter # None
  /\ fitter' = None
  /\ UNCHANGED <<packages, sources, builder, calibrations, edits, fits>>
-----------------------------------------------------------------------------
(* Calibrators and everybody else                                          *)

(* An adapter reads the assets it needs; that their content is what the    *)
(* manifest says is not distinguished.                                     *)
PatchCoreAssets(package, c) ==
  /\ Statistical(c.variant) => resolveArtifact(package, c.statistics)
  /\ c.variant # "subad" => resolveArtifact(package, c.index)

PadimAssets(package, c) ==
  resolveArtifact(package, c.statistics) /\ resolveArtifact(package, c.channels)

DfkdeAssets(package, c) == resolveArtifact(package, c.statistics)

SpadeAssets(package, c) == \A f \in c.files : resolveArtifact(package, f)

loadAssets(package) ==
  LET m == package.manifest
  IN  CASE m.algorithm = "patchcore" -> PatchCoreAssets(package, m.config)
        [] m.algorithm = "padim"     -> PadimAssets(package, m.config)
        [] m.algorithm = "dfkde"     -> DfkdeAssets(package, m.config)
        [] m.algorithm = "spade"     -> SpadeAssets(package, m.config)
        [] m.algorithm \in Predicting -> TRUE

(* A calibrator runs a session on the package as it is on disk, from       *)
(* create to compute; detectors give no anomaly map and so no pixel        *)
(* statistics.                                                             *)
Calibrate(p) ==
  /\ load(packages[p]) /\ HasGraph(packages[p]) /\ loadAssets(packages[p])
  /\ LET range == [lo |-> 0, hi |-> 1, of |-> ScoresOf(packages[p])]
         c == [root |-> p, image |-> range, pixel |-> range,
               hasPixel |-> packages[p].manifest.algorithm # "yolo"]
     IN  /\ Cardinality(calibrations \cup {c}) <= MaxCalibrations
         /\ calibrations' = calibrations \cup {c}
  /\ UNCHANGED <<packages, sources, builder, fitter, edits, fits>>

(* The application exports another template, but not over a package it has *)
(* calibrated, which is how a calibration belongs to a path; or it removes *)
(* an artifact file.                                                       *)
Export(t) ==
  /\ edits < MaxEdits
  /\ \A c \in calibrations : c.root # Template
  /\ t # packages[Template]
  /\ packages' = [packages EXCEPT ![Template] = t]
  /\ edits' = edits + 1
  /\ UNCHANGED <<sources, builder, fitter, calibrations, fits>>

RemoveSource(s) ==
  /\ edits < MaxEdits
  /\ sources[s] # Missing
  /\ sources' = [sources EXCEPT ![s] = Missing]
  /\ edits' = edits + 1
  /\ UNCHANGED <<packages, builder, fitter, calibrations, fits>>

PackageNext ==
  \/ \E p \in Paths : CreateBuilder(p) \/ Calibrate(p)
  \/ \E s \in Sources, f \in Files : AddArtifact(s, f)
  \/ \E c \in calibrations : ApplyCalibration(c)
  \/ \E o \in Outputs : CommitBuilder(o) \/ Finalize(o)
  \/ \E p \in Paths, variant \in Variants : CreateFitter(p, variant)
  \/ DestroyBuilder \/ DestroyFitter
  \/ \E t \in Templates : Export(t)
  \/ \E s \in Sources : RemoveSource(s)

PackageSpec == InitPackages /\ [][PackageNext]_packageVars
-----------------------------------------------------------------------------
Published(o) == packages[o].present

IsStatistical(package) ==
  package.manifest.algorithm = "patchcore" /\ Statistical(package.manifest.config.variant)

UsesRanges(package) == package.manifest.post.normalize \/ package.manifest.post.threshold

(* A published package loads, lists a checksum for every file in it,       *)
(* divides by a positive range when it normalizes, and has every file its  *)
(* algorithm's adapter will ask for, although its template and the         *)
(* artifacts are read only when the commit runs.                           *)
PublishedIsUsable ==
  \A o \in Outputs : Published(o) =>
    LET m == packages[o].manifest
    IN  /\ load(packages[o])
        /\ DOMAIN m.sums = {f \in Files : packages[o].files[f] # Missing}
        /\ m.post.normalize => Proper(m.post.image) /\ Proper(m.post.pixel)
        /\ loadAssets(packages[o])

(* Whatever the variant of the fitter and of its template, a template that *)
(* createFitter accepted can be published when fitting is done: no fit is  *)
(* lost because finalize refuses the manifest it writes itself.  (Only a   *)
(* symbolic link in the template or a PaDiM artifact outside the package,  *)
(* which createFitter does not look for, or another template at its path   *)
(* can make it refuse.)                                                    *)
FinalizeNeverStuck ==
  (/\ fitter # None /\ ~fitter.done
   /\ packages[fitter.root] = fitter.was /\ ~fitter.was.linked
   /\ DOMAIN Saved(fits + 1) \subseteq Files)
    => Commits(fitter.root, Saved(fits + 1), None, fitter.fitted)

(* A template of a statistical variant comes without the statistics a fit  *)
(* writes, and so without ranges computed from its scores.                 *)
TemplatesUnfitted ==
  \A t \in Templates : IsStatistical(t) =>
    ~UsesRanges(t) /\ ~resolveArtifact(t, t.manifest.config.statistics)

(* A package of a statistical variant normalizes scores and applies        *)
(* thresholds only with ranges computed from its own score distribution,   *)
(* whatever its templates were calibrated for, through any chain of fits,  *)
(* calibrations and rebuilds.                                              *)
StatisticalScoresCalibrated ==
  \A o \in {p \in Outputs : Published(p) /\ IsStatistical(packages[p]) /\ UsesRanges(packages[p])} :
    /\ packages[o].manifest.post.image.of = ScoresOf(packages[o])
    /\ packages[o].manifest.post.pixel.of = ScoresOf(packages[o])
=============================================================================
