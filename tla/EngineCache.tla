----------------------------- MODULE EngineCache -----------------------------
(***************************************************************************)
(* The TensorRT engine of a model package                                  *)
(* (src/src/backends/tensorrt_backend.cpp): TensorRTBackend::Impl::load    *)
(* deserializes it, or builds an engine from ONNX and saves it over the    *)
(* old one through the fixed name "<engine>.tmp".  The mutex of an         *)
(* instance does not cover the files, which all sessions of the package    *)
(* share.  A load may fail or die at any step; between loads the driver    *)
(* may change, after which old engines no longer deserialize, and the      *)
(* package may become the template of another one.                         *)
(*                                                                         *)
(* The file system is POSIX: a name refers to a file, open files stay      *)
(* usable after a rename.  A file is written in two halves; each holds the *)
(* build that wrote it last.                                               *)
(***************************************************************************)
EXTENDS Naturals

CONSTANTS
  Loaders,       \* sessions that may load the package
  Policies,      \* engine load policies in use
  MaxVersion,    \* driver versions: 1..MaxVersion
  MaxCrashes,
  MaxFiles,      \* inodes
  None

ASSUME CacheAssumption ==
  /\ Policies # {}
  /\ Policies \subseteq {"EngineOnly", "PreferEngine", "BuildIfMissing"}
  /\ MaxVersion \in Nat \ {0} /\ MaxCrashes \in Nat /\ MaxFiles \in Nat \ {0}
  /\ None \notin Loaders \cup Nat
  /\ None \notin [by : Loaders \cup {None}, for : 1..MaxVersion]

VARIABLES
  engine, tmp,   \* the files that the two names refer to
  file,          \* content of each file
  version,       \* the installed driver
  package,       \* its manifest: is there an ONNX model, is an engine file named,
                 \* and the content each name must have to match its checksum
  pc, policy,
  mem,           \* engine_ of each loader: the version it was built for
  fd,            \* the file each loader writes
  reason,        \* why a load failed
  crashes

engineVars == <<engine, tmp, file, version, package, pc, policy, mem, fd, reason, crashes>>
names == <<engine, tmp>>

Files    == 1..MaxFiles
Versions == 1..MaxVersion
Builds   == [by : Loaders \cup {None}, for : Versions]
Original == [by |-> None, for |-> 1]
Empty    == [head |-> None, tail |-> None]
Shipped  == [head |-> Original, tail |-> Original]

Names    == {"engine", "tmp"}
Unlisted == [n \in Names |-> None]

(* A package with an ONNX model, an engine or both.  An ONNX model that is *)
(* named and not there is refused by every load, and left out.             *)
InitEngine ==
  /\ package \in [onnx : BOOLEAN, cached : BOOLEAN, sums : {Unlisted}]
  /\ package.onnx \/ package.cached
  /\ engine \in IF package.cached THEN {1, None} ELSE {None}
  /\ tmp = None
  /\ file = [f \in Files |-> IF f = engine THEN Shipped ELSE Empty]
  /\ version = 1
  /\ pc = [l \in Loaders |-> "idle"]
  /\ policy = [l \in Loaders |-> CHOOSE p \in Policies : TRUE]
  /\ mem = [l \in Loaders |-> None]
  /\ fd = [l \in Loaders |-> None]
  /\ reason = [l \in Loaders |-> "none"]
  /\ crashes = 0
-----------------------------------------------------------------------------
Whole(f) == file[f].head # None /\ file[f].head = file[f].tail

(* What deserializeCudaEngine accepts (external).                          *)
Deserializes(f) == Whole(f) /\ file[f].head.for = version

Go(l, label) == pc' = [pc EXCEPT ![l] = label]

Fail(l, why) ==
  /\ Go(l, "failed")
  /\ reason' = [reason EXCEPT ![l] = why]
  /\ fd' = [fd EXCEPT ![l] = None]

(* ModelPackage::load verifies the listed checksums before any artifact is *)
(* loaded, in no particular order.                                         *)
Content(f) == IF f = None THEN None ELSE file[f]
Found      == [engine |-> Content(engine), tmp |-> Content(tmp)]
Listed     == {n \in Names : package.sums[n] # None}
Intact     == \A n \in Listed : Found[n] = package.sums[n]

Begin(l) ==
  /\ pc[l] = "idle"
  /\ \E p \in Policies : policy' = [policy EXCEPT ![l] = p]
  /\ \/ Intact /\ Go(l, "check") /\ UNCHANGED <<reason, fd>>
     \/ (\E n \in Listed : Found[n] = None) /\ Fail(l, "ArtifactMissing")
     \/ (\E n \in Listed : Found[n] \notin {None, package.sums[n]}) /\ Fail(l, "ArtifactCorrupt")
     \/ (\E n \in Listed : Found[n] # None) /\ Fail(l, "IoError")
  /\ UNCHANGED <<engine, tmp, file, version, package, mem, crashes>>

(* What CUDA reports when it cannot be used.                               *)
CudaErrors == {"CudaFailure", "OutOfMemory"}

(* No device, or no TensorRT runtime on it.                                *)
DeviceFails(l) ==
  /\ pc[l] = "check"
  /\ \E why \in CudaErrors \cup {"DeviceUnavailable", "BackendFailure"} : Fail(l, why)
  /\ UNCHANGED <<engine, tmp, file, version, package, policy, mem, crashes>>

(* load's test for the engine file.                                        *)
Check(l) ==
  /\ pc[l] = "check"
  /\ \/ engine # None /\ Go(l, "deserialize") /\ UNCHANGED <<reason, fd>>
     \/ engine = None /\ policy[l] # "EngineOnly" /\ Go(l, "build") /\ UNCHANGED <<reason, fd>>
     \/ engine = None /\ policy[l] = "EngineOnly" /\ Fail(l, "ArtifactMissing")
  /\ UNCHANGED <<engine, tmp, file, version, package, policy, mem, crashes>>

(* TensorRT refuses an engine, or its file cannot be read.                 *)
DeserializeOrBuild(l, mayBuild) ==
  /\ pc[l] = "deserialize"
  /\ \/ /\ Deserializes(engine)
        /\ Go(l, "context")
        /\ mem' = [mem EXCEPT ![l] = version]
        /\ UNCHANGED <<reason, fd>>
     \/ /\ \E why \in {"EngineIncompatible", "IoError"} :
             /\ why = "EngineIncompatible" => ~Deserializes(engine)
             /\ IF mayBuild THEN Go(l, "build") /\ UNCHANGED <<reason, fd>>
                            ELSE Fail(l, why)
        /\ UNCHANGED mem
  /\ UNCHANGED <<engine, tmp, file, version, package, policy, crashes>>

DeserializeThenBuildAlways(l) == DeserializeOrBuild(l, TRUE)

DeserializeOnly(l) == DeserializeOrBuild(l, FALSE)

(* Only PreferEngine replaces an engine that cannot be used.               *)
Deserialize(l) == DeserializeOrBuild(l, policy[l] = "PreferEngine")

BuildWithoutSaving(l) ==
  /\ pc[l] = "build" /\ package.onnx
  /\ Go(l, "context")
  /\ mem' = [mem EXCEPT ![l] = version]
  /\ UNCHANGED <<engine, tmp, file, version, package, policy, fd, reason, crashes>>

(* Every failure of build is reported in one way.                         *)
BuildFails(l) == package.onnx /\ Fail(l, "BackendFailure")

(* Without an ONNX model there is nothing to build from; without a name    *)
(* for an engine it is not saved.                                          *)
Build(l) ==
  /\ pc[l] = "build"
  /\ \/ /\ package.onnx
        /\ Go(l, IF package.cached THEN "open" ELSE "context")
        /\ mem' = [mem EXCEPT ![l] = version]
        /\ UNCHANGED <<reason, fd>>
     \/ BuildFails(l) /\ UNCHANGED mem
     \/ ~package.onnx /\ Fail(l, "ArtifactMissing") /\ UNCHANGED mem
  /\ UNCHANGED <<engine, tmp, file, version, package, policy, crashes>>
-----------------------------------------------------------------------------
(* save: open and truncate the temporary, write it, rename it.             *)
Unused == {f \in Files : f \notin {engine, tmp} /\ \A l \in Loaders : fd[l] # f}

OpenFor(l, f) ==
  /\ pc[l] = "open"
  /\ f # None
  /\ file' = [file EXCEPT ![f] = Empty]
  /\ fd' = [fd EXCEPT ![l] = f]
  /\ Go(l, "head")
  /\ UNCHANGED <<engine, version, package, policy, mem, reason, crashes>>

OpenInPlace(l) ==
  \/ engine # None /\ OpenFor(l, engine) /\ UNCHANGED tmp
  \/ engine = None /\ \E f \in Unused : OpenFor(l, f) /\ tmp' = f

Open(l) ==
  \/ tmp # None /\ OpenFor(l, tmp) /\ UNCHANGED tmp
  \/ tmp = None /\ \E f \in Unused : OpenFor(l, f) /\ tmp' = f

WritePart(l, from, part, to) ==
  /\ pc[l] = from
  /\ file' = [file EXCEPT ![fd[l]][part] = [by |-> l, for |-> mem[l]]]
  /\ Go(l, to)
  /\ UNCHANGED <<engine, tmp, version, package, policy, mem, fd, reason, crashes>>

WriteHead(l) == WritePart(l, "head", "head", "tail")
WriteTail(l) == WritePart(l, "tail", "tail", "rename")

(* The file cannot be opened or written; the temporary stays.              *)
WriteFails(l) ==
  /\ pc[l] \in {"open", "head", "tail"}
  /\ \/ Fail(l, "IoError")
     \/ pc[l] = "open" /\ Fail(l, "BackendFailure")    \* serialize
  /\ UNCHANGED <<engine, tmp, file, version, package, policy, mem, crashes>>

(* The stream is closed, then the temporary takes the engine's name; the   *)
(* name may be gone when another loader has renamed it.                    *)
Rename(l) ==
  /\ pc[l] = "rename"
  /\ \/ /\ tmp # None
        /\ engine' = tmp /\ tmp' = None
        /\ Go(l, "context")
        /\ fd' = [fd EXCEPT ![l] = None]
        /\ UNCHANGED reason
     \/ Fail(l, "IoError") /\ UNCHANGED names
  /\ UNCHANGED <<file, version, package, policy, mem, crashes>>

(* Execution context, stream and signature.                                *)
CreateContext(l) ==
  /\ pc[l] = "context"
  /\ \/ Go(l, "loaded") /\ UNCHANGED <<reason, fd>>
     \/ \E why \in CudaErrors \cup {"BackendFailure", "TensorTypeMismatch"} : Fail(l, why)
  /\ UNCHANGED <<engine, tmp, file, version, package, policy, mem, crashes>>

(* The session is released.                                                *)
Release(l) ==
  /\ pc[l] \in {"loaded", "failed"}
  /\ Go(l, "idle")
  /\ mem' = [mem EXCEPT ![l] = None]
  /\ reason' = [reason EXCEPT ![l] = "none"]
  /\ UNCHANGED <<engine, tmp, file, version, package, policy, fd, crashes>>

(* The process of a loader dies.                                           *)
Crash(l) ==
  /\ pc[l] \notin {"idle", "loaded", "failed"}
  /\ crashes < MaxCrashes
  /\ crashes' = crashes + 1
  /\ Go(l, "idle")
  /\ mem' = [mem EXCEPT ![l] = None]
  /\ fd' = [fd EXCEPT ![l] = None]
  /\ UNCHANGED <<engine, tmp, file, version, package, policy, reason>>

(* Another driver or GPU, while no session exists.                         *)
Upgrade ==
  /\ \A l \in Loaders : pc[l] = "idle"
  /\ version < MaxVersion
  /\ version' = version + 1
  /\ UNCHANGED <<engine, tmp, file, package, pc, policy, mem, fd, reason, crashes>>

(* A builder or fitter publishes a package made from this one, and the     *)
(* application goes on with that: commitPackage copies every file, and     *)
(* writeChecksummedManifest lists every file but the manifest.  The        *)
(* template was verified when the builder was created, and loads since     *)
(* then may have changed its engine.                                       *)
Repackage ==
  /\ \A l \in Loaders : pc[l] = "idle"
  /\ package' = [package EXCEPT !.sums = Found]
  /\ UNCHANGED <<engine, tmp, file, version, pc, policy, mem, fd, reason, crashes>>

LoadEngine(l) ==
  \/ Begin(l) \/ DeviceFails(l) \/ Check(l) \/ Deserialize(l) \/ Build(l)
  \/ Open(l) \/ WriteHead(l) \/ WriteTail(l) \/ WriteFails(l) \/ Rename(l)
  \/ CreateContext(l)

EngineNext == Upgrade \/ Repackage \/ \E l \in Loaders : LoadEngine(l) \/ Release(l) \/ Crash(l)

EngineSpec == InitEngine /\ [][EngineNext]_engineVars
-----------------------------------------------------------------------------
Labels == {"idle", "check", "deserialize", "build", "open", "head", "tail", "rename",
           "context", "loaded", "failed"}
Reasons == CudaErrors \cup {"none", "ArtifactCorrupt", "DeviceUnavailable", "ArtifactMissing",
            "EngineIncompatible", "BackendFailure", "TensorTypeMismatch", "IoError"}
FileContents == [head : Builds \cup {None}, tail : Builds \cup {None}]

(* Every variable keeps its type.                                          *)
EngineTypes ==
  /\ engine \in Files \cup {None} /\ tmp \in Files \cup {None}
  /\ file \in [Files -> FileContents]
  /\ version \in Versions
  /\ package \in [onnx : BOOLEAN, cached : BOOLEAN, sums : [Names -> FileContents \cup {None}]]
  /\ pc \in [Loaders -> Labels]
  /\ policy \in [Loaders -> Policies]
  /\ mem \in [Loaders -> Versions \cup {None}]
  /\ fd \in [Loaders -> Files \cup {None}]
  /\ reason \in [Loaders -> Reasons]
  /\ crashes \in 0..MaxCrashes

(* The engine's name always refers to one whole engine: neither a crash    *)
(* nor a failed write nor another session leaves a partial or mixed file.  *)
EngineFileWhole == engine # None => Whole(engine)

(* A session that loaded runs an engine for the installed driver, and what *)
(* a later session would deserialize is usable too.                        *)
LoadedIsUsable ==
  \A l \in Loaders : pc[l] = "loaded" =>
    /\ mem[l] = version
    /\ package.cached => engine # None /\ Deserializes(engine)

(* PreferEngine heals the cache: leftovers of a crash or an engine of      *)
(* another driver never make such a load fail, as long as there is an ONNX *)
(* model to build from and no checksum pins them.                          *)
PreferEngineHeals ==
  \A l \in Loaders : policy[l] = "PreferEngine" =>
    /\ reason[l] # "EngineIncompatible"
    /\ reason[l] = "ArtifactMissing" => ~package.onnx \/ Listed # {}
    /\ reason[l] = "ArtifactCorrupt" => Listed # {}

(* Once a package has an engine, only a PreferEngine load ever replaces it *)
(* or makes the package fail to verify; EngineOnly never touches a file.   *)
OnlyPreferEngineReplaces ==
  [][/\ engine' # engine \/ (Intact /\ ~Intact') =>
          \E l \in Loaders : \/ policy[l] = "PreferEngine"
                             \/ policy[l] = "BuildIfMissing" /\ engine = None
     /\ tmp' # tmp => \E l \in Loaders : pc[l] # "idle" /\ policy[l] # "EngineOnly"]_engineVars

Generated(content) == content # None /\ content.head.by # None

(* "Generated engine caches normally remain outside this immutable         *)
(* checksum set" (src/src/model/README.md:126): no load is refused because *)
(* the checksum of a generated engine is listed and the library has built  *)
(* another one since.  The code lists every file, see Repackage.           *)
GeneratedNotPinned ==
  \A l \in Loaders : reason[l] = "ArtifactCorrupt" => ~Generated(package.sums.engine)
=============================================================================
