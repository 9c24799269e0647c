# Formal verification of anomEngine

anomEngine is a C++ engine for industrial anomaly detection behind a C API. It
loads a *model package* (a directory with a manifest, checksums, an ONNX graph,
an optional TensorRT engine and retrieval assets), runs the network on CPU or
GPU through a backend plugin, and can also *fit* new packages (PatchCore, PaDiM)
from images and publish them. This directory holds TLA+ models of the parts
whose correctness depends on order (threads, files, failures, ownership), the
TLC configurations that check them on small instances, and TLAPS proofs for
every value of the constants. Source paths below are relative to the
repository; `c_api/...` stands for `src/src/c_api/...` and so on.

## 1. Inventory of the system

| Component | State it keeps | Operations | Hard behaviour |
|---|---|---|---|
| Artifact fitting runtime, `anom_fitter` (`c_api/model_management.cpp:138`) | four atomics (stage, processed, collected, cancellation flag), the pipeline's items, the checkpoint file | createFitter, add_batch, get_progress, save/load_checkpoint, cancel, finalize, destroy | one worker and any number of supervising threads; failures in the middle of a batch; torn checkpoints |
| Package publication, `commitPackage` (`:451`) | directories on disk, a process-wide counter | check, stage, copy, overlay, checksum, validate, rename, clean up | concurrent commits to one path, process death, cleanup on every failure path |
| Package builder, `anom_package_builder` (`:131`), and inspection | template path, artifact paths, calibration | create, add_artifact, apply_calibration, commit, destroy, open, validate | template and artifacts are read again at the commit, long after they were checked |
| Calibrator (`:163`) | one session, image scores, a reservoir of pixels | create, add_batch, compute, destroy | partial batches, random selection, quantiles of few samples |
| Runtime selection, `InferenceSession::load` (`model/inference_session.cpp:176`) | candidate list, attempts, provider of network, search and compute | candidates, create, load, validate, search placement, compute placement, warmup | a failure of any class at any stage; fallbacks that must be allowed and reported |
| Prediction path (`inference_session.cpp:360`, `c_api/anom_engine.cpp:154`) | the caller's structures and the storage behind them | predictBatch in chunks, export with rollback, release | a failure at any stage of any chunk; host and device compute the same by different code |
| TensorRT engine cache (`backends/tensorrt_backend.cpp:140`) | `<engine>` and `<engine>.tmp` on disk, engine and context in memory | load, deserialize, build, save | several sessions on one package, crashes, failed writes, driver changes |
| Backend plugin boundary (`backends/backend_factory.cpp`, `plugins/backend_plugin.cpp`) | shared owners of library, instance and result batches | create, load, infer, retain/drop a tensor, destroy | the last owner may be any thread; unloading code that a destructor still needs |
| Algorithm objects of the C API (`c_api/algorithm_objects.cpp`, `algorithm_runtime_state.cpp`) | session and fitter behind `internal`, remembered variant | init, load, create, finalize, release | failed and repeated calls; caller-writable fields |
| PaDiM statistics (`pipeline/padim.cpp`) | sums and second moments per location in host or device memory, sample count, failure latch, checkpoint and artifact files | add, save artifacts, save/load checkpoint, clear | an update that fails after some locations; files shared by fits on different devices |
| PatchCore bank and statistics (`pipeline/patchcore.cpp`, `patchcore_statistics.cpp`) | features, moments, a spool file with a committed prefix, checkpoint | add, save artifacts, save/load checkpoint, clear | an append that fails in the middle, torn files, a bank reduced while it streams |
| Manifest and JSON (`model/manifest.cpp`) | none | parse, resolve and verify artifacts | a manifest the library writes must be one it reads |
| Algorithm adapters and plugins (`adapters/`, `plugins/algorithm_plugin.cpp`) | assets loaded once | predict, predict_device | offsets of one image in a batch of several |
| Compute (CUDA), Faiss plugin, image processing, ONNX Runtime wrapper | little or none | kernels and library calls | out of reach or sequential (section 6) |

How they interact. The application calls the C API. An algorithm object owns at
most one session and one fitter. A session is built by `InferenceSession::load`,
which verifies a package, creates a backend through a plugin (whose TensorRT
implementation reads and writes the engine cache inside the package) and keeps
it. A fitter owns a backend and a pipeline; its finalize, like the builder's
commit, ends in `commitPackage`. Threads share a fitter only through its four
atomics, a process shares a path with others only through the file system, and
a tensor shares the plugin with its backend through `shared_ptr`s. A calibrator
owns a session of its own, and what it computes reaches a package through a
builder. What one step publishes is the template of the next: export, fit,
calibrate, rebuild.

What correctness means, component by component:

- *Fitter*: at most one package per fitter; cancellation is prompt and final;
  counters and pipeline agree after every call; acknowledged images survive
  failures and checkpoints; progress reports are never self-contradictory.
- *Publication*: whole packages or nothing, the first one wins, none is changed
  later, nothing is left behind.
- *Runtime selection*: requirements are met, degradations are reported,
  corruption is never hidden, an explicit CPU request never touches CUDA.
- *Engine cache*: the file is whole, `prefer_engine` heals it, the other
  policies do not replace it, the package keeps loading.
- *Backend boundary*: memory and code outlive every use, are freed once, and
  are freed in the end.
- *PaDiM and PatchCore statistics*: what is saved is exactly what was accepted; a
  failed update is never part of a result; a bank is made of real patches and
  covers all of them.
- *Algorithm object*: every runtime has one owner; session, fitter and variant
  agree.
- *Prediction and calibration*: predictions are those of each image alone, and are
  exported together or not at all; samples are those of a beginning of each
  batch, and thresholds have the rate asked for.
- *Packages*: what is published loads and has every file its algorithm needs, an
  accepted fit can be published, ranges belong to the scores they are used on.

## 2. Modules

| Module | Models | Kind |
|---|---|---|
| `Fitter` | the fitting runtime, one action per access to shared state | component |
| `PackageStore` | what publication promises: an output path goes from nothing to one whole package in one step | abstract specification |
| `PackageCommit` | `commitPackage` file system call by file system call, by builders and fitters | component, refines `PackageStore` |
| `Manifest` | what a package on disk means: the rules of the parser, resolving and verifying artifacts | operators |
| `PackageLifecycle` | chains of fits, calibrations and rebuilds | composes builder, fitter and calibrator over `Manifest` |
| `RuntimeSelection` | `InferenceSession::load` | component |
| `InferenceSession` | `predictBatch`, with the backend, adapters and postprocessor it calls | component |
| `PredictionExport` | `anom_session_predict_batch` and `anom_prediction_release` | component over `InferenceSession` |
| `Calibrator` | the calibrator | component over `InferenceSession` |
| `SessionClients` | a session with either client | composition |
| `EngineCache` | the TensorRT backend's load and save | component |
| `BackendLifetime` | ownership of library, instance, batch, tensor across the plugin boundary | component |
| `AlgorithmObject` | a PatchCore object of the C API | component |
| `PadimStats` | the PaDiM training statistics and their files | component |
| `PatchCoreFit` | the PatchCore features, moments, spool, checkpoint and bank | component |
| `FitterProofs`, `PackageCommitProofs`, `PadimStatsProofs`, `AlgorithmObjectProofs`, `PatchCoreFitProofs` | theorems about the module of the name | proofs |
| `ModelProofs` | theorems about `RuntimeSelection` and `PackageLifecycle` | proofs |
| `BackendProofs` | theorems about `BackendLifetime` and `EngineCache` | proofs |
| `SessionClientsProofs` | theorems about `SessionClients` and the modules it composes | proofs |
| `MC...` | instances for TLC | |

### Fitter

The worker's program counter `pc` walks through add_batch, save_checkpoint,
load_checkpoint and finalize; `stage`, `processedSamples`, `collectedItems` and
`cancellationRequested` are the atomics of the same name. Every load and store
of one of them is a step of its own, except where merging it with its neighbour
hides no interleaving (a load that saw TRUE in the flag, which is never cleared,
and the store that follows). `Cancel` is two stores, the flag first. `Poll` is
get_progress: the stage is loaded first, the other fields in any order. The
pipeline is the number of items it holds; a checkpoint file is `none`, `torn` or
`whole` because it is rewritten in place. `commitPackage` is one step here.
`acked`, `published`, `late`, `flagAtCall` are history variables for the
properties. One thread at a time runs the worker's calls: the library asks
callers for that, and nothing in the code enforces it.

### PackageCommit

A directory is named `<clock, counter>`, as `uniqueSibling` does; the clock read
and the `fetch_add` are one step, which loses nothing since the counter alone is
unique within a process. Files hold the name of whoever wrote them, so a mixed
package is visible; `sums` is what the manifest lists. `Rename` fails when the
output exists. A crash ends every commit of the process and restarts the
counter, not the clock, which has then advanced. Two *processes* that stage
siblings of one output in the same clock tick are not modelled. `NoLeftovers`
assumes that `remove_all` succeeds (its error code is ignored in the code).
SHA-256 is taken to be free of collisions: sums equal files.

### RuntimeSelection

A request is a record of what the session options, the manifest and the
package's artifacts say (device, backend, precision, which artifacts exist, how
many search layers, which plugins). Every stage either succeeds or fails with a
status code; which codes are retryable is translated from
`retryableRuntimeFailure` and `retryableSearchFailure`. `info` is the execution
info the session reports, `attempts` its list of failed attempts, `touched` the
CUDA components that were initialized, `seen` the codes any step reported (both
history). The catch clauses of load are `Exception`.

### EngineCache

Files are reached by name and by open handle, so a rename does not redirect a
writer. A write puts the file down in two halves. `version` is the driver and GPU
an engine was built for. `package` is what the manifest says of the engine: whether
there is an ONNX model to build from, whether an engine file is named, and the
content each listed file must have. Nothing is listed at first; `Repackage` puts the
application on a package made from this one while no session exists, and
`writeChecksummedManifest` then lists whatever file it finds. That other files of
the package change is the subject of `PackageLifecycle`, which in turn leaves out that
creating a fitter or calibrator loads the template and may so write an engine
into it. Only POSIX renames are modelled (the Windows branch
renames with `MoveFileExW`), and errors that only closing the stream would show
are not.

### BackendLifetime

One `DynamicBackend` from creation to unload: `libOwners` and `instOwners` are
the sets of `shared_ptr` copies, a reference count being the size of a set, and
every destructor is a step of the thread that dropped the last owner. `Guard`
is the scope guard that owns a plugin batch before the `SharedBatch` takes over.

### AlgorithmObject

An `anom_patchcore_t`; the caller may write `variant` between calls, another
process may replace the packages at any time. load and create read a package
twice; `raced` remembers that a package was replaced in between. In that case
load, which checks the algorithm only in the first read
(`c_api/anom_engine.cpp:517`), attaches the session of the package it finds in
the second (`:542`); `RuntimesMatchObject` excepts this case and no other.

### PadimStats

A location holds the sequence of samples accumulated there instead of two sums;
`accepted` (history) is the sequence of the samples whose add returned OK. `mem`
says which statistics are allocated and where: on the device, in host vectors, or
(`sums`) only the first of the two host vectors. A call is one action with all its
outcomes, because the fitter's contract lets one thread at a time use a
pipeline: what matters is not who runs in between but where a failure leaves the
statistics. `GpuUpdateFails` leaves the chunks before the failing one updated and
any subset of its own locations. Files are truncated when opened, hence `torn`;
a restart may come back on another device with the files it finds. The Fitter
module sees this pipeline as a number of items; here its contents are checked.

### PatchCoreFit

A patch is a point on a line: the covariance is a number, PCA the identity,
whitening a shift by the mean (its positive factor is left out), and projections
keep the order of distances. What is kept of the real pipeline is what can go
wrong in it: moments are merged chunk by chunk on candidates, patches are
appended to the spool behind the committed prefix (`Overwrite`), members are
replaced last; the replay reduces the bank after every chunk; the checkpoint
carries the committed part of the spool only. Moments are integers in units of
`1/Scale`, which makes every division exact. `Coresets` is the set of
coresets `buildCoreset` may choose: its first row is random, and on a CPU a fit
that would need too many distances gets random rows.

### InferenceSession, PredictionExport, Calibrator, SessionClients

A session runs one algorithm in one of the three ways load can leave behind: on
the host, with device compute around a host backend (`staged`), and on the device
from end to end. An image is its descriptor's validity and the features the
network gives it, one per location, or NaN. `HostPatchCore`, `DevicePatchCore`,
`HostPadim`, `DevicePadim` and `Direct` are the predictions of a whole chunk
with the row offsets the code uses; `Reference` in `PredictionExport` computes
each image alone. `StageFails` fails any stage of any chunk.

`PredictionExport` numbers the `PredictionStorage` objects on a heap; a structure
owns one through `internal`. `Calibrator` takes samples one by one, a step each, so
that a call may fail between any two of them; each sample remembers the call, image and
location it came from, which the code forgets. A pixel is counted before the
reservoir grows to hold it, and the growth may fail beyond the places reserved at
creation (`Reserved`; 65536 in the code): `lost` (history) counts these pixels. The
random engine is a choice of any index in its range. Chances are counted on the side: `Draws` enumerates all that
the engine may select for the first n pixels, equally likely each, with the
reservoir that `Offered` makes of it; `LossyDraws` does the same when pixels were
lost before the reservoir was full. A behaviour of `SessionClients` has one client, and a
calibrator there uses the direct adapter, because `compute` sorts numbers.

### Manifest, PackageLifecycle

A manifest is a record with a field per section; each rule of `parseManifest` is
a conjunct, on small integers (a float the parser refuses is `Bad`). A key that is not
there (`NoFile`) and an empty name (`EmptyName`) are told apart, because the parser asks
some assets only for a string. A checksum is
the content it was computed from. In `PackageLifecycle` a range remembers the
scores it was computed from (`of`), which is a function of algorithm, variant,
graph and assets: this is how an uncalibrated use shows. The steps inside a commit
are those of `PackageCommit` and are one step here.

The module assumes an application that does what the API intends: it applies a
calibration to a builder of the package that was calibrated, does not add
artifacts over the files that package's scores came from, and does not export another
template over a calibrated one. The code checks none of the three.

## 3. Runs

| Run | Instance | What it shows |
|---|---|---|
| `fitter_patchcore` | bank of 1 vector, 2 vectors per image, backend batches of 2, calls of up to 3 images, 7 vectors, 2 supervisors, 1 restart | `OnePackagePerFitter`, `PromptCancellation`, `NoPublishAfterCancel`, `AcknowledgedImagesKept` |
| `fitter_padim` | calls of up to 2 images in batches of 1, a canceller and a poller, fairness | `ReportsHonest`, `CountersAgree`, and `CancelQuiesces` |
| `package_commit` | a builder and a fitter race for one output, two files, one crash | `OutputsWhole`, `SuccessMeansMine`, `NoLeftovers`, and the refinement `CommitsAtomically` |
| `package_lifecycle` | templates of every algorithm, four packages to be refused, two outputs, three files, one artifact, two fits, one calibration, one change from outside | `PublishedIsUsable`, `FinalizeNeverStuck`, `StatisticalScoresCalibrated` |
| `runtime_selection` | every request, four codes, two search layers | `RequirementsHold`, `CpuNeverInitializesCuda`, `NoSilentDegradation`, `CorruptionNeverHidden` |
| `session_clients` | calls of up to four images in chunks of one or two, three algorithms, host and device, four structures, a reservoir of two pixels that may fail to grow to its second, three calibration calls | `AllOrNothing`, `StorageOwnedOnce`, `SamplesArePrefixes`, `ReservoirFair`, `ThresholdsUsable` |
| `engine_cache` | one session at a time, all policies, two crashes, three driver versions, packages with an ONNX model, an engine or both, made from each other at any time | `EngineFileWhole`, `LoadedIsUsable`, `PreferEngineHeals`, `OnlyPreferEngineReplaces` |
| `engine_cache_shared` | two sessions at a time | violation of `EngineFileWhole` |
| `backend_lifetime` | three threads, three batches, two load attempts, fairness | `PluginCodePresent`, `TensorsReadable`, `FreedInOrder`, `NoLeak`, and `EventuallyUnloaded` |
| `algorithm_object` | two paths, two variants | `OneOwner`, `RuntimesMatchObject` |
| `padim_stats` | three locations in chunks of two, two samples, all three placements, restarts | `StatisticsExact`, `FilesExact` |
| `patchcore_fit` | adds of one or two of three points, at most four patches, all variants on CPU and GPU, updates of one and two rows, a bank of two, restarts | `FitExact`, `CheckpointRestorable`, `BankRepresentative`, `BankCovers` |

Why the bounds are enough. *Fitter*: a call of 3 images in batches of 2 has a
full and a partial chunk, so a cancellation or failure falls before, between and
after chunks; two supervisors put one `cancel` between the stores of the other;
a restart makes checkpoint files outlive the fitter; each kind of pipeline has a
run. *PackageCommit*: two committers cover every pairwise race for a path, the
two files are one that is copied and one that is overlaid, and one crash at any
step leaves every kind of leftover; the proofs lift all three bounds.
*PackageLifecycle*: two outputs make a chain of two publications from one
template (template, fit, rebuild or second fit; the subspace variant is reached by a
fit), the calibration can fall anywhere in it, and the one change from outside falls between any create and its commit; the
three files are the graph and the two assets a fit writes. The two outputs are
interchangeable (`SYMMETRY`; no property is temporal).
*RuntimeSelection*: the four codes are one of each class (retryable everywhere,
only for the runtime, only for the search, never), and two layers are the least
with a "first succeeded, second failed". *SessionClients*: four images in chunks
of two are two full chunks, three a full and a partial one, and images are listed in
an order that a swap would show; two images in a chunk make a row offset matter; the
images include a NaN score, a NaN pixel, an invalid and an undersized
descriptor; up to twelve pixels are offered to a reservoir of two, and the random
engine's selections are enumerated for up to eight (`MaxDraws`; the theorem has no such
bound). One place is reserved (`Reserved`), so that the growth to the second may fail.
*EngineCache*: three versions give a change before and after the first build,
three files are the most that names and handles can hold at once; a package can be
made from the last one at any of these moments.
*BackendLifetime*: three batches are more than the threads need to race for the
last reference while another is held; two instances are one load that fails and
one that succeeds. *AlgorithmObject*: two paths let a package be published at one
while another is loaded, two variants let the caller write another one.
*PadimStats*: three locations in chunks of two have a full and a partial chunk, so a
failure falls in the first, between and in the last; two samples let one be lost,
repeated or swapped; the proofs lift the bounds. *PatchCoreFit*: four patches
cross the bank's budget of two in the replay, at two chunks of two; the coreset of
three is chosen exactly on the CPU and that of four at random; the adds that
bring two patches may fail after the first.

`CHECK_DEADLOCK FALSE` is set where the system really ends: `package_commit`
(directory names are bounded by `MaxSeq`), `backend_lifetime` (a backend whose
last owner is gone has nothing left to do), `session_clients` (a calibrator
stops after `MaxCalls` calls and a result) and `package_lifecycle` (a behaviour
may use up its bounds on a template that does not load).

Fairness. In `Fitter`, weak fairness of a worker's call that has begun and of
cancel's second store: neither contains a lock or a wait, so the thread
scheduler carries them on. Nobody is obliged to make another call, and
pollers owe nothing. In `BackendLifetime`, weak fairness of destructors that
have begun and of the wrapper's last member; nobody need ever drop a tensor,
hence the hypothesis of `EventuallyUnloaded`.

## 4. What is proved

`Fitter`, for every kind, seed, item and chunk size, and any set of supervisors
and pollers (from `FitterAssumption`: these are natural numbers, a chunk and an
image are not empty, and PaDiM counts images):
`TypeCorrect`; `Safety` (the inductive invariant `IInv`); `OnePackage`, `Prompt`,
`HonestReports`, `NoPublish`. `published <= 1` is not inductive: a fitter that has
published must stay closed, and what closes it is the stage, which cancel
overwrites. `FlagBeforeStage` says that whoever wrote CANCELLED had the flag
written before; `ClosedOncePublished` lists where the worker may be once there is
a package and that the stage is then COMPLETE or CANCELLED, from which every call
returns without reaching READY, add_batch because of the flag.
`LateOnlyAfterCheck` ties the chunk in flight to the check it passed,
`CommitOnlyUncancelledCalls` carries the one check of finalize to its commit,
`ReportsBacked` describes half-filled reports.
`Accounting`, `CountersRight` and `ImagesKept` rest on a second invariant,
`Accounts`: `Added` counts the images of the call in progress that are already in the
pipeline, so acknowledged plus added are what the items are for, the counters are
behind by the chunk under way or by the file about to be loaded (`CountersFollow`),
and whole files back the acknowledgements made before them (`AcksBacked`).

`PackageCommit`, for any committers, outputs, files and numbers of crashes (from
`CommitAssumption`): `TypeCorrect`; `Safety`; `WholePackages`, `Winner`,
`Immutable`, `NothingLeft`; `Refinement`: every step maps to a step of `PackageStore` or to a
stutter. That a published package is whole follows from what the staging
directory holds at every label (`StagingContent`, and `FitContent` for a fitter's
artifacts), which is stable only if nobody else writes there: `NamesIssued` and
`NamesDistinct` say that every name in use has been issued and no two committers
have the same, across crashes. `Winner` follows from the refinement argument: an
output once set is never changed. `NothingLeft` follows because every directory has an
owner (`Owns`: the staging or fit directory of a committer still at work), and a step
takes a directory from its owner only by moving or removing it (`OwnersKept`).

`PadimStats`, for any number of locations, chunk size and samples (from
`StatsAssumption`: locations and chunk are positive): `Safety`,
`ExactStatistics`, `ExactFiles`. The invariant is the conjunction of the types,
the exactness of the statistics unless the latch is set, and the exactness of
whole files. Neither exactness is inductive alone: a restore makes the statistics
exact only because the file is, and a save makes the file exact only because the
latch guards it.

`AlgorithmObject`, for any paths and variants (from `ObjectAssumption`): `Safety`,
`TypeCorrect`, `Ownership`, `Agreement`. A call checks first and attaches later, so
the invariant carries the check to the attachment: `CallsGuarded` says that a
call in progress began with no runtime of its kind and with the remembered
variant, and `CallsCurrent` that what load read of its package still holds unless
the package was replaced in between.

`RuntimeSelection`, for any requests, codes and number of layers (from
`SelectionAssumption`): `Safety`,
`TypeCorrect`, `Requirements`, `CpuIsolated`, `NotSilent`, `CorruptionShown`. The
properties are about the end of a load, the invariant about every stage:
`CandidatesServe` (every candidate is one the request allows), `FallbackNoted` (a
fallback candidate that has been created has left a note of why), `LayersQuiet`
(layers leave the CPU only in a GPU search), `InfoTrue` and `ComputeTrue` (what the
report says at each stage is so).

`BackendLifetime`, for any threads, batches and instances (from
`LifetimeAssumption`): `Safety`, `TypeCorrect`, `CodePresent`, `Readable`,
`Freeing`, `Leakless`. The invariant is the ownership discipline that the
`shared_ptr`s implement: what each kind of task may find (`Beginning`, `Guarded`,
`Shared`, `Releases`, `InstanceDrops`), who the owners of an instance and of the
library are at every moment (`WrapperOwns`, `BatchOwns`, `LibraryOwners`), and that
owned things are there (`InstanceAlive`, `LibraryLoaded`). No thread can free what
another is about to use because whoever is about to use it is an owner.

`EngineCache`, for any policies, versions and crashes, with one session at a time
(`OneSession`, a hypothesis of the theorems and not of the code: two sessions
break it, finding 1): `EngineSafety`, `FileWhole`, `Usable`, `Heals`, `Replacing`. `Writing` says what has been
written to the temporary at each label and that it is not the engine; `Ready` that
an engine in memory was built for the installed driver, and that a load that has
one finds it in the file, if it has a name; `Permitted` that whoever builds was allowed to, and
`Reasoned` which reasons a failed load may give: under `PreferEngine` a missing artifact
only if there is no ONNX model or a checksum asks for it, a corrupt one only if a
checksum is listed, an incompatible engine never.

`PackageLifecycle`, for any templates, outputs, files and numbers of fits,
calibrations and changes from outside (from `LifecycleAssumption`: the template's path
is not an output, the default artifact names are files; and `TemplatesAssumption`: a
template is of a package's form, valid or not): `PackagesSafe`, `PublishedUsable`,
`FitsPublishable`. `PackagesUsable` says that every output path is free or holds a package
that loads and lists each of its files. It needs what a builder or fitter
carries between its creation and its commit: `BuilderBound` (a template that was
published is still there, and a calibrated one keeps the files its scores come
from) and `FitterBound` (what the fitter has read of its template, which decides
what finalize writes). `ScoresCalibrated` has an invariant of its own, which
adds `CalibrationsCurrent`: a calibration still describes the package at its
path. It has a hypothesis, `TemplatesUnfitted`: no template of a statistical
variant comes with statistics or ranges of its own. Without it a template that is
replaced between a calibration and a commit carries ranges over to scores that are
not its own; an exported template has no statistics yet, so the
hypothesis holds of what an export writes, and TLC evaluates it on the instance.

`PatchCoreFit`, for any points, batches, chunk sizes, budget, ratio and number of
patches, on either device (from `PatchCoreFitAssumption`: chunks, the budget and the
ratio are positive, a batch is not empty): `PatchCoreSafety`, `FitsExact`,
`CheckpointsRestorable`, `ArtifactsHeld`, `BanksRepresentative`, `BanksCover`. The
invariant says what each variant keeps (`FitHeld`) and what a whole checkpoint holds
(`CheckpointHeld`). A merge of moments is exact in integers because `Scale` is a
multiple of every count, so by induction over the chunks the statistics after c of
them are those of the rows up to chunk c; the spool's committed prefix is exact
although what lies behind it is not, since `Overwrite` covers what a failed append
left. `BankCovers` is the argument of Gonzalez: farthest-first selection
leaves out no row that is farther from the bank than two of its rows are from each
other, so by the pigeonhole principle two of these rows, or one and the row left out,
share one of as many centers, and every row is within twice the centers'
radius; each reduction of the streamed bank adds this once. `ArtifactHeld`, the
invariant about the saved bank, speaks of *every* set of centers and is out of
TLC's reach for this reason; `BankCovers` states it of sets of patches.

`SessionClients`, for any images, network, chunk sizes, structures, batches, rates and
reservoir sizes. From `CallerAssumption` (a caller passes a structure for every image):
`Safety`, `OwnedOnce`, `ErrorsChangeNothing`. `Matched` says that pointers and storage
objects match one to one, so that releasing some structures leaves the storage of
the others; `CallLocal` that a call in progress has touched only the structures it has
filled, and that these were empty.
The values of predictions (from `ImagesAssumption`, `BankAssumption`: the network
gives every image a feature per location, the index has as many rows as
neighbours): `EachImageAlone`, `DeliveredOrUntouched`. `Collected` and
`InProgress` say that at each stage the rows at hand are those of the chunk, or of a
beginning of it; that the row offsets of the five adapters pick an image's own rows out
of these is a lemma for each.
The calibrator (from `RateAssumption`, `SamplesAssumption`,
`CalibrationAssumption`: the rate lies strictly between 0 and 1, the reservoir has at
least one place, and one that is reserved): `SamplesKept`, `ScoresArePrefixes`, `ReservoirHolds`, `ThresholdsHold`. `Kept`
relates each sample to the call it comes from, `ReservoirDistinct` the length of the
reservoir to the pixels counted and not lost, `InCall` the call in progress to
its progress; `ResultOf` says that a result is that of the present samples. `Sorted` gives
each rank its value, so that how many samples lie above the quantile is counted
without following a sort.
The chances of pixels (from `DrawsAssumption`): `ChancesEqual`, and with it
`ReservoirFairly`: the reservoir is fair as long as no pixel has been lost, and
section 5 says why it is not afterwards. By induction over the pixels offered: a pixel that is kept stays kept by n
of the n + 1 selections for the next one, which itself is kept by as many
selections as the reservoir has places. So, among the draws of n pixels, those
that keep one, n times, are all draws as often as the reservoir has places,
whichever pixel it is. Sets of draws are counted by bijections.

Loops in these proofs are sequences of the loop's states (lemma `Iterates`), and
induction over their rounds is induction for a set of numbers (`SetInduction`, from the
pigeonhole principle), because the library's induction theorems take an operator as a
parameter.

Only model-checked: liveness (`CancelQuiesces`, `EventuallyUnloaded`), which is out of the
prover's reach.

## 5. Findings and remarks

One finding is a run:

1. *One temporary name for all sessions* (`engine_cache_shared`). Two sessions
   that build the engine of a package at the same time write the same
   `<engine>.tmp`; a partial engine may be renamed into place
   (`backends/tensorrt_backend.cpp:438`).

What else modelling showed, for a reader of the code. The first four can be
reproduced with the definition named there:

- *A fallback reason that is not true*: an AUTO request that names `onnxruntime` for
  a package with GPU artifacts records "no compatible GPU artifact was
  available", although the list was filtered by the request
  (`model/inference_session.cpp:231`; add `INVARIANT ReasonIsTrue` to
  `MCRuntimeSelection.cfg`).
- *A generated engine is listed, then rebuilt in place*: a package made from one in
  use lists the engine generated there (`c_api/model_management.cpp:382`), although
  `src/model/README.md:126` says that generated engine caches "normally remain
  outside" the checksums. After a driver change `prefer_engine` replaces it
  (`backends/tensorrt_backend.cpp:188`), and the package no longer loads (add
  `INVARIANT GeneratedNotPinned` to `MCEngineCache_serial.cfg`).
- *A lost pixel stays counted*: `add_batch` counts a pixel before the reservoir grows
  to hold it (`c_api/model_management.cpp:1517`). When that fails, the calibrator can be
  used further and selects among more pixels than it has been offered: later ones are
  kept less often, although `docs/cabi-model-lifecycle.md:132` promises reservoir
  sampling (add `INVARIANT ReservoirSampling` to `MCSessionClients.cfg`).
- *Half-allocated CPU statistics*: when memory runs out between `sums_` and
  `secondMoments_`, the fitter goes back to READY and the next add accumulates
  into the empty second vector (`pipeline/padim.cpp:258`; add `INVARIANT
  NoPartialStateReused` to `MCPadimStats.cfg`). The GPU path allocates both before it
  moves either into place (`:150`).
- *A package with an engine and no ONNX model* fails with `ArtifactMissing` under
  `prefer_engine` after a driver change, and the reason names the ONNX model although
  the manifest never did (`backends/tensorrt_backend.cpp:180`). `PreferEngineHeals`
  excepts such packages.
- *A template's calibration survives a refit* as the original variant or as PaDiM,
  although "a new score distribution needs its own calibration"; only the
  statistical variants switch it off (`c_api/model_management.cpp:344`). This is
  why `StatisticalScoresCalibrated` speaks of statistical variants.
- *A calibration without pixel statistics* turns normalization on and keeps the
  template's pixel range.
- *`anom_model_validate`* asks for the engine file only under `engine_only`
  (`c_api/model_management.cpp:417`).
- *A small coreset*: finalize of the original variant may publish a bank of fewer
  vectors than `num_neighbors`, which the adapter refuses
  (`adapters/patchcore_adapter.cpp:56`); the statistical variants check.
- *A symbolic link in a template* is refused at finalize and not at
  `createFitter`; so is a PaDiM template that names its statistics or channels
  outside the package, although PatchCore's names are checked
  (`c_api/model_management.cpp:870`). `FinalizeNeverStuck` excepts both.
- *A template replaced under a builder or fitter* is read again at the commit,
  so a package may combine two templates: it loads, but ranges computed from the
  one may be used with the scores of the other. This is why `ScoresCalibrated`
  asks for `TemplatesUnfitted`.
- *The threshold* is the sample at `floor((1 - rate) * (n - 1))`, so up to
  `1 + ceil(rate * (n - 1))` distinct normal samples are flagged by `>=`
  (`docs/cabi-model-lifecycle.md:125`); `ThresholdsUsable` states that bound.

## 6. Not modelled, and the plan

Out of TLC's reach or without state: CUDA threads and kernels, floating-point
rounding, OpenCV filters and regions, the calls into Faiss and ONNX Runtime, reading
JSON text, TensorRT execution (buffers, streams). The ONNX Runtime backend is a
wrapper of one library call under a mutex. The scoring of DFKDE, SPADE,
EfficientAD and YOLO treats images one by one, without any state to relate.
Errors that only closing a file would show, and the Windows branches, are left
out. Two *processes* that stage siblings of one output in the same clock tick are
not modelled.

Left of the plan:

1. An abstract specification of the fitter (open, closed with or without a
   package) that `Fitter` refines, and a composition of a fitter with the contents
   of its pipeline.
2. Several sessions of one package, each in its own process, over `EngineCache`.
