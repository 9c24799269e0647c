--------------------------- MODULE PackageCommit ----------------------------
(***************************************************************************)
(* commitPackage (src/src/c_api/model_management.cpp) run by several       *)
(* threads at once: package builders committing, and fitters finalizing,   *)
(* which first save their artifacts in a sibling directory of their own.   *)
(* Every file system call is a step.  A process crash loses the threads    *)
(* and keeps the directories.                                              *)
(*                                                                         *)
(* A directory is the content of each of its files (where it came from:    *)
(* the template or a committer's artifact) and the checksums its manifest  *)
(* lists; SHA-256 is taken as collision free, so a checksum is the content *)
(* it was computed from.                                                   *)
(***************************************************************************)
EXTENDS Naturals

CONSTANTS
  Committers,     \* threads that commit
  Fitters,        \* those of them that commit through anom_fitter_finalize
  Outputs,        \* output package paths
  Target,         \* Target[c]: the path c was asked to write
  Files,          \* files of the template package, manifest.json aside
  Artifacts,      \* the files a committer overlays
  Template, None, \* content copied from the template; no content
  MaxTick, MaxSeq, MaxCrashes   \* bounds: clock, sibling counter, crashes

ASSUME CommitAssumption ==
  /\ Fitters \subseteq Committers
  /\ Target \in [Committers -> Outputs]
  /\ Artifacts \subseteq Files
  /\ Artifacts # {}
  /\ Template \notin Committers /\ None \notin Committers /\ Template # None
  /\ MaxTick \in Nat /\ MaxSeq \in Nat /\ MaxCrashes \in Nat

VARIABLES
  output,     \* output directories
  temp,       \* staging and artifact directories, by name
  pc,         \* where each committer is
  staging,    \* the name of its staging directory
  fit,        \* the name of its artifact directory
  committed,  \* builder->committed, or stage COMPLETE: commit returned OK
  clock, seq, \* steady_clock and uniqueSibling's static counter
  started,    \* the clock when this process started
  crashes

own  == <<staging, fit, committed>>
time == <<clock, started, crashes>>
vars == <<output, temp, pc, own, time, seq>>

Contents == Committers \cup {Template, None}
Dirs     == [present : BOOLEAN, files : [Files -> Contents], sums : [Files -> Contents]]
Names    == (0..MaxTick) \X (0..MaxSeq)
Empty    == [f \in Files |-> None]
Absent   == [present |-> FALSE, files |-> Empty, sums |-> Empty]
Made     == [present |-> TRUE, files |-> Empty, sums |-> Empty]

Labels == {"idle", "check", "mkdir", "copy", "overlay", "manifest", "load",
           "rename", "clean_staging", "clean_fit"}

Init ==
  /\ output = [o \in Outputs |-> Absent]
  /\ temp = [n \in Names |-> Absent]
  /\ pc = [c \in Committers |-> "idle"]
  /\ staging = [c \in Committers |-> <<0, 0>>]
  /\ fit = [c \in Committers |-> <<0, 0>>]
  /\ committed = [c \in Committers |-> FALSE]
  /\ clock = 0 /\ seq = 0 /\ started = 0 /\ crashes = 0
-----------------------------------------------------------------------------
Goto(c, from, to) ==
  /\ pc[c] = from
  /\ pc' = [pc EXCEPT ![c] = to]

(* The name of a new sibling directory: the clock, which may stand still   *)
(* between two calls, and a counter that is fetched and added atomically.  *)
uniqueSibling == <<clock, seq>>

(* DirectoryCleanup's destructors run innermost first: the staging         *)
(* directory of commitPackage, then finalize's artifact directory.         *)
AfterStaging(c) == IF c \in Fitters THEN "clean_fit" ELSE "idle"

(* finalize: a directory of its own for the artifacts the pipeline saves.  *)
SaveArtifacts(c) ==
  /\ c \in Fitters /\ ~committed[c] /\ seq < MaxSeq
  /\ fit' = [fit EXCEPT ![c] = uniqueSibling]
  /\ seq' = seq + 1
  /\ \/ /\ Goto(c, "idle", "check")
        /\ temp' = [temp EXCEPT ![uniqueSibling] =
             [@ EXCEPT !.present = TRUE,
                       !.files = [f \in Files |-> IF f \in Artifacts THEN c ELSE None]]]
     \/ /\ Goto(c, "idle", "clean_fit")
        /\ temp' = [temp EXCEPT ![uniqueSibling] = Made]
  /\ UNCHANGED <<output, staging, committed, time>>

(* anom_package_builder_commit enters commitPackage at once.               *)
BuilderCommit(c) ==
  /\ c \notin Fitters /\ ~committed[c]
  /\ Goto(c, "idle", "check")
  /\ UNCHANGED <<output, temp, own, time, seq>>

(* The output must not exist yet.                                          *)
CheckOutput(c) ==
  /\ IF output[Target[c]].present THEN Goto(c, "check", AfterStaging(c))
                                  ELSE Goto(c, "check", "mkdir")
  /\ UNCHANGED <<output, temp, own, time, seq>>

(* create_directories does not mind a directory that is already there.     *)
MakeStaging(c) ==
  /\ seq < MaxSeq
  /\ Goto(c, "mkdir", "copy")
  /\ staging' = [staging EXCEPT ![c] = uniqueSibling]
  /\ seq' = seq + 1
  /\ temp' = [temp EXCEPT ![uniqueSibling].present = TRUE]
  /\ UNCHANGED <<output, fit, committed, time>>

(* copyTemplateTree, one file at a time.                                   *)
CopyFile(c, f) ==
  /\ pc[c] = "copy"
  /\ temp[staging[c]].files[f] = None
  /\ temp' = [temp EXCEPT ![staging[c]].files[f] = Template]
  /\ UNCHANGED <<output, pc, own, time, seq>>

CopyDone(c) ==
  /\ \A f \in Files : temp[staging[c]].files[f] # None
  /\ Goto(c, "copy", "overlay")
  /\ UNCHANGED <<output, temp, own, time, seq>>

(* The overlays overwrite the copies; a fitter's come from its artifact    *)
(* directory, a builder's from files the application keeps.                *)
Source(c, f) == IF c \in Fitters THEN temp[fit[c]].files[f] ELSE c

Overlay(c) ==
  /\ Goto(c, "overlay", "manifest")
  /\ \A f \in Artifacts : Source(c, f) # None
  /\ temp' = [temp EXCEPT ![staging[c]].files =
                [f \in Files |-> IF f \in Artifacts THEN Source(c, f) ELSE @[f]]]
  /\ UNCHANGED <<output, own, time, seq>>

WriteStaleChecksums(c) ==
  /\ Goto(c, "manifest", "rename")
  /\ temp' = [temp EXCEPT ![staging[c]].sums = [f \in Files |-> Template]]
  /\ UNCHANGED <<output, own, time, seq>>

(* writeChecksummedManifest lists every regular file of the directory.     *)
WriteManifest(c) ==
  /\ Goto(c, "manifest", "load")
  /\ temp' = [temp EXCEPT ![staging[c]].sums = temp[staging[c]].files]
  /\ UNCHANGED <<output, own, time, seq>>

(* ModelPackage::load re-reads the staging directory and verifies every    *)
(* listed checksum; then the referenced artifacts are validated.           *)
LoadStaging(c) ==
  /\ IF temp[staging[c]].sums = temp[staging[c]].files
       THEN Goto(c, "load", "rename")
       ELSE Goto(c, "load", "clean_staging")
  /\ UNCHANGED <<output, temp, own, time, seq>>

RenameOver(c) ==
  /\ Goto(c, "rename", AfterStaging(c))
  /\ output' = [output EXCEPT ![Target[c]] = temp[staging[c]]]
  /\ temp' = [temp EXCEPT ![staging[c]] = Absent]
  /\ committed' = [committed EXCEPT ![c] = TRUE]
  /\ UNCHANGED <<staging, fit, time, seq>>

(* rename fails on a non-empty directory, which every published package    *)
(* is; the check above may be stale by now.                                *)
Rename(c) ==
  /\ \/ /\ ~output[Target[c]].present
        /\ Goto(c, "rename", AfterStaging(c))
        /\ output' = [output EXCEPT ![Target[c]] = temp[staging[c]]]
        /\ temp' = [temp EXCEPT ![staging[c]] = Absent]
        /\ committed' = [committed EXCEPT ![c] = TRUE]
     \/ /\ output[Target[c]].present
        /\ Goto(c, "rename", "clean_staging")
        /\ UNCHANGED <<output, temp, committed>>
  /\ UNCHANGED <<staging, fit, time, seq>>

(* Any step up to the rename may fail: a link in the template, a missing   *)
(* artifact source, an invalid artifact, a full disk.                      *)
Fail(c) ==
  /\ \/ \E from \in {"check", "mkdir"} : Goto(c, from, AfterStaging(c))
     \/ \E from \in {"copy", "overlay", "manifest", "load", "rename"} :
          Goto(c, from, "clean_staging")
  /\ UNCHANGED <<output, temp, own, time, seq>>

KeepStaging(c) ==
  /\ Goto(c, "clean_staging", AfterStaging(c))
  /\ UNCHANGED <<output, temp, own, time, seq>>

CleanStaging(c) ==
  /\ Goto(c, "clean_staging", AfterStaging(c))
  /\ temp' = [temp EXCEPT ![staging[c]] = Absent]
  /\ UNCHANGED <<output, own, time, seq>>

CleanFit(c) ==
  /\ c \in Fitters
  /\ Goto(c, "clean_fit", "idle")
  /\ temp' = [temp EXCEPT ![fit[c]] = Absent]
  /\ UNCHANGED <<output, own, time, seq>>

Commit(c) ==
  \/ SaveArtifacts(c) \/ BuilderCommit(c) \/ CheckOutput(c) \/ MakeStaging(c)
  \/ \E f \in Files : CopyFile(c, f)
  \/ CopyDone(c) \/ Overlay(c) \/ WriteManifest(c) \/ LoadStaging(c)
  \/ Rename(c) \/ Fail(c) \/ CleanStaging(c) \/ CleanFit(c)

Tick ==
  /\ clock < MaxTick
  /\ clock' = clock + 1
  /\ UNCHANGED <<output, temp, pc, own, started, crashes, seq>>

(* The process dies and a new one starts later, with new builders and      *)
(* fitters: no destructor runs, the counter starts again from 0, the clock *)
(* goes on.                                                                *)
Crash ==
  /\ crashes < MaxCrashes /\ clock < MaxTick
  /\ crashes' = crashes + 1
  /\ clock' = clock + 1 /\ started' = clock + 1 /\ seq' = 0
  /\ pc' = [c \in Committers |-> "idle"]
  /\ committed' = [c \in Committers |-> FALSE]
  /\ UNCHANGED <<output, temp, staging, fit>>

Next ==
  \/ \E c \in Committers : Commit(c)
  \/ Tick
  \/ Crash

Spec == Init /\ [][Next]_vars

-----------------------------------------------------------------------------
(* The package committer c was asked for.                                  *)
PackageOf(c) ==
  LET content == [f \in Files |-> IF f \in Artifacts THEN c ELSE Template]
  IN  [present |-> TRUE, files |-> content, sums |-> content]

(* Every variable keeps its type.                                          *)
TypeOK ==
  /\ output \in [Outputs -> Dirs]
  /\ temp \in [Names -> Dirs]
  /\ pc \in [Committers -> Labels]
  /\ staging \in [Committers -> Names]
  /\ fit \in [Committers -> Names]
  /\ committed \in [Committers -> BOOLEAN]
  /\ clock \in 0..MaxTick /\ started \in 0..clock
  /\ seq \in 0..MaxSeq /\ crashes \in 0..MaxCrashes

(* An output directory is absent or the complete package of one committer  *)
(* that was asked to write there, checksums included: no crash, failure or *)
(* concurrent commit leaves a partial or mixed package at an output path.  *)
OutputsWhole ==
  \A o \in Outputs :
    output[o] = Absent \/ \E c \in Committers : Target[c] = o /\ output[o] = PackageOf(c)

(* A commit that returned OK has its own package at its output path; so of *)
(* two commits to one path at most one returns OK, although both may have  *)
(* seen the path absent.                                                   *)
SuccessMeansMine ==
  \A c \in Committers : committed[c] => output[Target[c]] = PackageOf(c)

(* The directories a commit under way has made and will remove.            *)
HasStaging(c) ==
  pc[c] \in {"copy", "overlay", "manifest", "load", "rename", "clean_staging"}

HasFit(c) == c \in Fitters /\ pc[c] # "idle"

(* Unless the process died, every sibling directory belongs to a commit    *)
(* under way: failed and finished commits leave nothing beside the output. *)
NoLeftovers ==
  crashes = 0 =>
    \A n \in Names : temp[n].present =>
      \E c \in Committers :
        (HasStaging(c) /\ n = staging[c]) \/ (HasFit(c) /\ n = fit[c])

(* A published package is never changed or removed by a later commit.      *)
OutputsImmutable ==
  [][\A o \in Outputs : output[o].present => output'[o] = output[o]]_vars

(* What makes these inductive.  A name that was handed out differs from    *)
(* the next one: it is from before this process, or its number is lower.   *)
Issued(n) == n[1] < started \/ (n[1] <= clock /\ n[2] < seq)

NamesIssued ==
  /\ \A n \in Names : temp[n] = Absent \/ Issued(n)
  /\ \A c \in Committers : HasStaging(c) => Issued(staging[c])
  /\ \A c \in Committers : HasFit(c) => Issued(fit[c])

NamesDistinct ==
  \A c, d \in Committers :
    /\ HasStaging(c) /\ HasFit(d) => staging[c] # fit[d]
    /\ HasStaging(c) /\ HasStaging(d) /\ c # d => staging[c] # staging[d]
    /\ HasFit(c) /\ HasFit(d) /\ c # d => fit[c] # fit[d]

(* How far the staging directory of a commit at label l has got.           *)
Staged(c, l, dir) ==
  /\ l \in {"copy", "overlay"} =>
       dir.present /\ \A f \in Files : dir.files[f] \in {None, Template}
  /\ l = "overlay" => \A f \in Files : dir.files[f] # None
  /\ l \in {"manifest", "load", "rename"} =>
       dir.present /\ dir.files = PackageOf(c).files
  /\ l \in {"load", "rename"} => dir.sums = dir.files

StagingContent == \A c \in Committers : Staged(c, pc[c], temp[staging[c]])

FitContent ==
  \A c \in Fitters :
    pc[c] \in {"check", "mkdir", "copy", "overlay"} =>
      \A f \in Artifacts : temp[fit[c]].files[f] = c

(* The inductive invariant: directory names are never reused, and what a   *)
(* commit has staged is its own.                                           *)
IInv ==
  /\ TypeOK
  /\ NamesIssued /\ NamesDistinct
  /\ StagingContent /\ FitContent
  /\ OutputsWhole /\ SuccessMeansMine

(* The promise, with an output directory's appearance as its one step.     *)
Store == INSTANCE PackageStore
  WITH store <- output, NoPackage <- Absent,
       Owed <- [o \in Outputs |-> {PackageOf(c) : c \in {d \in Committers : Target[d] = o}}]

(* Committing implements the abstract store: outputs appear atomically,    *)
(* whole and once.                                                         *)
CommitsAtomically == Store!Spec
=============================================================================
