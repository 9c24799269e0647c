------------------------ MODULE PackageCommitProofs -------------------------
(***************************************************************************)
(* Proofs about PackageCommit, for any number of committers, fitters,      *)
(* outputs, files, ticks and crashes.                                      *)
(***************************************************************************)
EXTENDS PackageCommit, TLAPS

LEMMA DirTypes ==
  /\ Absent \in Dirs /\ Made \in Dirs
  /\ \A c \in Committers : PackageOf(c) \in Dirs /\ PackageOf(c).present
  /\ ~Absent.present
  BY CommitAssumption DEF Absent, Made, Empty, Dirs, Contents, PackageOf

LEMMA FreshName ==
  ASSUME TypeOK
  PROVE  uniqueSibling \in Names /\ ~Issued(uniqueSibling)
  BY CommitAssumption DEF TypeOK, uniqueSibling, Names, Issued

LEMMA TypeInit == Init => TypeOK
  BY DirTypes, CommitAssumption DEF Init, TypeOK, Names, Labels

(* Steps that move one committer and touch no directory.                   *)
LEMMA QuietType ==
  ASSUME TypeOK, NEW c \in Committers, NEW l \in Labels,
         pc' = [pc EXCEPT ![c] = l],
         UNCHANGED <<output, temp, own, time, seq>>
  PROVE  TypeOK'
  BY DEF TypeOK, own, time

LEMMA CommitType ==
  ASSUME TypeOK, NEW c \in Committers, Commit(c)
  PROVE  TypeOK'
<1> USE DEF Goto
<1>0. AfterStaging(c) \in Labels
  BY DEF AfterStaging, Labels
<1>1. CASE SaveArtifacts(c)
  <2>1. uniqueSibling \in Names
    BY FreshName
  <2>2. temp' \in [Names -> Dirs]
    <3> DEFINE saved == [f \in Files |-> IF f \in Artifacts THEN c ELSE None]
    <3>1. temp[uniqueSibling] \in Dirs /\ saved \in [Files -> Contents]
      BY <2>1 DEF TypeOK, Contents
    <3>2. [temp[uniqueSibling] EXCEPT !.present = TRUE, !.files = saved] \in Dirs
      BY <3>1 DEF Dirs
    <3> QED
      BY <1>1, <2>1, <3>2, DirTypes DEF SaveArtifacts, TypeOK
  <2>3. pc' \in [Committers -> Labels] /\ fit' \in [Committers -> Names]
    BY <1>1, <2>1 DEF SaveArtifacts, TypeOK, Labels
  <2> QED
    BY <1>1, <2>2, <2>3, CommitAssumption DEF SaveArtifacts, TypeOK, time
<1>2. CASE BuilderCommit(c)
  BY <1>2, QuietType DEF BuilderCommit, Labels
<1>3. CASE CheckOutput(c)
  BY <1>3, <1>0, QuietType DEF CheckOutput, Labels
<1>4. CASE MakeStaging(c)
  <2>1. uniqueSibling \in Names
    BY FreshName
  <2>2. temp' \in [Names -> Dirs]
    <3>1. temp[uniqueSibling] \in Dirs
      BY <2>1 DEF TypeOK
    <3>2. [temp[uniqueSibling] EXCEPT !.present = TRUE] \in Dirs
      BY <3>1 DEF Dirs
    <3>3. temp' = [temp EXCEPT ![uniqueSibling] = [temp[uniqueSibling] EXCEPT !.present = TRUE]]
      BY <1>4 DEF MakeStaging
    <3> QED
      BY <2>1, <3>2, <3>3 DEF TypeOK
  <2>3. pc' \in [Committers -> Labels] /\ staging' \in [Committers -> Names]
    BY <1>4, <2>1 DEF MakeStaging, TypeOK, Labels
  <2> QED
    BY <1>4, <2>2, <2>3, CommitAssumption DEF MakeStaging, TypeOK, time
<1>5. ASSUME NEW f \in Files, CopyFile(c, f) PROVE TypeOK'
  <2>1. temp' \in [Names -> Dirs]
    <3>1. temp[staging[c]] \in Dirs /\ staging[c] \in Names
      BY DEF TypeOK
    <3>2. [temp[staging[c]].files EXCEPT ![f] = Template] \in [Files -> Contents]
      BY <3>1 DEF Dirs, Contents
    <3>3. [temp[staging[c]] EXCEPT !.files[f] = Template] \in Dirs
      BY <3>1, <3>2 DEF Dirs
    <3> QED
      BY <1>5, <3>1, <3>3 DEF CopyFile, TypeOK
  <2>2. UNCHANGED <<output, pc, staging, fit, committed, clock, started, crashes, seq>>
    BY <1>5 DEF CopyFile, own, time
  <2> QED
    BY <2>1, <2>2 DEF TypeOK
<1>6. CASE CopyDone(c)
  BY <1>6, QuietType DEF CopyDone, Labels
<1>7. CASE Overlay(c)
  <2>1. \A f \in Files : Source(c, f) \in Contents
    BY DEF Source, TypeOK, Dirs, Contents
  <2>2. temp' \in [Names -> Dirs]
    <3> DEFINE dir == temp[staging[c]]
               overlaid == [f \in Files |-> IF f \in Artifacts THEN Source(c, f) ELSE dir.files[f]]
    <3>1. dir \in Dirs /\ staging[c] \in Names
      BY DEF TypeOK
    <3>2. overlaid \in [Files -> Contents]
      BY <2>1, <3>1 DEF Dirs
    <3>3. temp' = [temp EXCEPT ![staging[c]] = [dir EXCEPT !.files = overlaid]]
      BY <1>7 DEF Overlay
    <3> HIDE DEF overlaid, dir
    <3>4. [dir EXCEPT !.files = overlaid] \in Dirs
      BY <3>1, <3>2 DEF Dirs
    <3> QED
      BY <3>1, <3>3, <3>4 DEF TypeOK
  <2>3. UNCHANGED <<output, staging, fit, committed, clock, started, crashes, seq>>
    BY <1>7 DEF Overlay, own, time
  <2>4. pc' \in [Committers -> Labels]
    BY <1>7 DEF Overlay, TypeOK, Labels
  <2> QED
    BY <2>2, <2>3, <2>4 DEF TypeOK
<1>8. CASE WriteManifest(c)
  <2>1. temp' \in [Names -> Dirs]
    <3> DEFINE dir == temp[staging[c]]
    <3>1. dir \in Dirs /\ staging[c] \in Names
      BY DEF TypeOK
    <3>2. [dir EXCEPT !.sums = dir.files] \in Dirs
      BY <3>1 DEF Dirs
    <3>3. temp' = [temp EXCEPT ![staging[c]] = [dir EXCEPT !.sums = dir.files]]
      BY <1>8 DEF WriteManifest
    <3> QED
      BY <3>1, <3>2, <3>3 DEF TypeOK
  <2> QED
    BY <1>8, <2>1 DEF WriteManifest, TypeOK, own, time, Labels
<1>9. CASE LoadStaging(c)
  BY <1>9, QuietType DEF LoadStaging, Labels
<1>10. CASE Rename(c)
  <2>1. temp' \in [Names -> Dirs] /\ output' \in [Outputs -> Dirs]
    <3>1. temp[staging[c]] \in Dirs /\ Target[c] \in Outputs
      BY CommitAssumption DEF TypeOK
    <3> QED
      BY <1>10, <3>1, DirTypes DEF Rename, TypeOK
  <2>2. pc' \in [Committers -> Labels]
    BY <1>10, <1>0 DEF Rename, TypeOK, Labels
  <2>3. committed' \in [Committers -> BOOLEAN]
    BY <1>10 DEF Rename, TypeOK
  <2> QED
    BY <1>10, <2>1, <2>2, <2>3 DEF Rename, TypeOK, time
<1>11. CASE Fail(c)
  BY <1>11, <1>0, QuietType DEF Fail, Labels
<1>12. CASE CleanStaging(c)
  BY <1>12, <1>0, DirTypes DEF CleanStaging, TypeOK, own, time
<1>13. CASE CleanFit(c)
  BY <1>13, DirTypes DEF CleanFit, TypeOK, own, time, Labels
<1> QED
  BY <1>1, <1>2, <1>3, <1>4, <1>5, <1>6, <1>7, <1>8, <1>9, <1>10, <1>11,
     <1>12, <1>13 DEF Commit

LEMMA TypeStep == TypeOK /\ [Next]_vars => TypeOK'
<1> SUFFICES ASSUME TypeOK, [Next]_vars PROVE TypeOK'
  OBVIOUS
<1>1. CASE \E c \in Committers : Commit(c)
  BY <1>1, CommitType
<1>2. CASE Tick
  BY <1>2, CommitAssumption DEF Tick, TypeOK, own
<1>3. CASE Crash
  BY <1>3, CommitAssumption DEF Crash, TypeOK, own, Labels
<1>4. CASE UNCHANGED vars
  BY <1>4 DEF vars, own, time, TypeOK
<1> QED
  BY <1>1, <1>2, <1>3, <1>4 DEF Next

(* Type correctness of the committers, the directories and the clock.      *)
THEOREM TypeCorrect == Spec => []TypeOK
  BY TypeInit, TypeStep, PTL DEF Spec
-----------------------------------------------------------------------------
(* The parts of IInv besides the types.                                    *)
SafetyParts ==
  /\ NamesIssued /\ NamesDistinct
  /\ StagingContent /\ FitContent
  /\ OutputsWhole /\ SuccessMeansMine

LEMMA InitSafe == Init => IInv
<1> SUFFICES ASSUME Init PROVE IInv
  OBVIOUS
<1>1. TypeOK
  BY TypeInit
<1>2. NamesIssued /\ NamesDistinct
  BY DEF Init, NamesIssued, NamesDistinct, HasStaging, HasFit
<1>3. StagingContent /\ FitContent
  BY CommitAssumption DEF Init, StagingContent, Staged, FitContent
<1>4. OutputsWhole /\ SuccessMeansMine
  BY DEF Init, OutputsWhole, SuccessMeansMine
<1> QED
  BY <1>1, <1>2, <1>3, <1>4 DEF IInv

(* Steps that move one committer and touch no directory, to a label that   *)
(* its directories satisfy.                                                *)
LEMMA QuietSafe ==
  ASSUME IInv, NEW c \in Committers, NEW l \in Labels,
         pc' = [pc EXCEPT ![c] = l],
         UNCHANGED <<output, temp, own, time, seq>>,
         l \in {"copy", "overlay", "manifest", "load", "rename", "clean_staging"}
           => HasStaging(c),
         c \in Fitters /\ l # "idle" => HasFit(c),
         c \in Fitters /\ l \in {"check", "mkdir", "copy", "overlay"} =>
           pc[c] \in {"check", "mkdir", "copy", "overlay"},
         Staged(c, l, temp[staging[c]])
  PROVE  SafetyParts'
<1> USE DEF IInv, own, time
<1>1. NamesIssued'
  BY DEF NamesIssued, HasStaging, HasFit, Issued, TypeOK
<1>2. NamesDistinct'
  BY DEF NamesDistinct, HasStaging, HasFit, TypeOK
<1>3. StagingContent'
  BY DEF StagingContent, TypeOK
<1>4. FitContent'
  BY CommitAssumption DEF FitContent, TypeOK
<1>5. OutputsWhole' /\ SuccessMeansMine'
  BY DEF OutputsWhole, SuccessMeansMine, PackageOf
<1> QED
  BY <1>1, <1>2, <1>3, <1>4, <1>5 DEF SafetyParts

(* Steps that leave the outputs alone keep what was proved of them.        *)
LEMMA OutputsKept ==
  ASSUME IInv, UNCHANGED <<output, committed>>
  PROVE  OutputsWhole' /\ SuccessMeansMine'
  BY DEF IInv, OutputsWhole, SuccessMeansMine, PackageOf

(* Handing out a name keeps the names handed out before, and adds its own. *)
LEMMA IssueName ==
  ASSUME TypeOK, seq' = seq + 1, UNCHANGED time
  PROVE  \A n \in Names : Issued(n) \/ n = uniqueSibling => Issued(n)'
<1> SUFFICES ASSUME NEW n \in Names, Issued(n) \/ n = uniqueSibling
             PROVE  Issued(n)'
  OBVIOUS
<1>1. n[1] \in Nat /\ n[2] \in Nat
  BY CommitAssumption DEF Names
<1>2. clock \in Nat /\ seq \in Nat /\ started \in Nat
  BY CommitAssumption DEF TypeOK
<1> QED
  BY <1>1, <1>2 DEF Issued, uniqueSibling, time

LEMMA SaveArtifactsSafe ==
  ASSUME IInv, NEW c \in Committers, SaveArtifacts(c)
  PROVE  SafetyParts'
<1>1. PICK m \in Names : m = uniqueSibling /\ ~Issued(m)
  BY FreshName DEF IInv
<1>2. /\ fit' = [fit EXCEPT ![c] = m] /\ c \in Fitters /\ pc[c] = "idle"
      /\ \/ pc' = [pc EXCEPT ![c] = "check"] /\ \A f \in Artifacts : temp'[m].files[f] = c
         \/ pc' = [pc EXCEPT ![c] = "clean_fit"]
      /\ staging' = staging
      /\ \A n \in Names : n # m => temp'[n] = temp[n]
  <2>1. fit' = [fit EXCEPT ![c] = m] /\ c \in Fitters /\ pc[c] = "idle" /\ staging' = staging
    BY <1>1 DEF SaveArtifacts, Goto
  <2>2. \A n \in Names : n # m => temp'[n] = temp[n]
    BY <1>1 DEF SaveArtifacts, IInv, TypeOK
  <2>3. \/ pc' = [pc EXCEPT ![c] = "check"]
           /\ temp'[m].files = [f \in Files |-> IF f \in Artifacts THEN c ELSE None]
        \/ pc' = [pc EXCEPT ![c] = "clean_fit"]
    <3>1. temp[m] \in Dirs /\ temp \in [Names -> Dirs]
      BY DEF IInv, TypeOK
    <3>2. CASE /\ Goto(c, "idle", "check")
               /\ temp' = [temp EXCEPT ![m] = [@ EXCEPT !.present = TRUE,
                    !.files = [f \in Files |-> IF f \in Artifacts THEN c ELSE None]]]
      BY <3>1, <3>2 DEF Goto, Dirs
    <3>3. CASE Goto(c, "idle", "clean_fit")
      BY <3>3 DEF Goto
    <3> QED
      BY <1>1, <3>2, <3>3 DEF SaveArtifacts
  <2> QED
    BY <2>1, <2>2, <2>3, CommitAssumption
<1>3. \A n \in Names : Issued(n) \/ n = m => Issued(n)'
  BY <1>1, IssueName DEF SaveArtifacts, IInv
<1>4. NamesIssued'
  BY <1>1, <1>2, <1>3 DEF IInv, NamesIssued, HasStaging, HasFit, TypeOK
<1>5. NamesDistinct'
  BY <1>1, <1>2 DEF IInv, NamesIssued, NamesDistinct, HasStaging, HasFit, TypeOK
<1>6. StagingContent'
  BY <1>1, <1>2 DEF IInv, NamesIssued, StagingContent, Staged, HasStaging, TypeOK
<1>7. FitContent'
  BY <1>1, <1>2, CommitAssumption DEF IInv, NamesIssued, FitContent, HasFit, TypeOK
<1> QED
  BY <1>4, <1>5, <1>6, <1>7, OutputsKept DEF SafetyParts, SaveArtifacts

LEMMA MakeStagingSafe ==
  ASSUME IInv, NEW c \in Committers, MakeStaging(c)
  PROVE  SafetyParts'
<1>1. PICK m \in Names : m = uniqueSibling /\ ~Issued(m)
  BY FreshName DEF IInv
<1>2. temp[m] = Absent
  BY <1>1 DEF IInv, NamesIssued
<1>3. /\ staging' = [staging EXCEPT ![c] = m] /\ pc[c] = "mkdir"
      /\ pc' = [pc EXCEPT ![c] = "copy"]
      /\ fit' = fit
      /\ \A n \in Names : n # m => temp'[n] = temp[n]
  BY <1>1 DEF MakeStaging, Goto, IInv, TypeOK
<1>4. temp'[m].present /\ temp'[m].files = Empty
  BY <1>1, <1>2 DEF MakeStaging, IInv, TypeOK, Absent
<1>5. \A n \in Names : Issued(n) \/ n = m => Issued(n)'
  BY <1>1, IssueName DEF MakeStaging, IInv
<1>6. NamesIssued'
  BY <1>1, <1>3, <1>5 DEF IInv, NamesIssued, HasStaging, HasFit, TypeOK
<1>7. NamesDistinct'
  BY <1>1, <1>3 DEF IInv, NamesIssued, NamesDistinct, HasStaging, HasFit, TypeOK
<1>8. StagingContent'
  <2>1. Staged(c, pc'[c], temp'[m])
    BY <1>3, <1>4 DEF IInv, TypeOK, Empty, Staged
  <2>2. \A d \in Committers : d # c => Staged(d, pc'[d], temp'[staging'[d]])
    <3> SUFFICES ASSUME NEW d \in Committers, d # c
                 PROVE  Staged(d, pc'[d], temp'[staging'[d]])
      OBVIOUS
    <3>1. pc'[d] = pc[d] /\ staging'[d] = staging[d] /\ Staged(d, pc[d], temp[staging[d]])
      BY <1>3 DEF IInv, TypeOK, StagingContent
    <3>2. CASE HasStaging(d)
      BY <1>1, <1>3, <3>1, <3>2 DEF IInv, NamesIssued, TypeOK
    <3>3. CASE ~HasStaging(d)
      BY <3>1, <3>3 DEF HasStaging, Staged
    <3> QED
      BY <3>2, <3>3
  <2> QED
    BY <1>3, <2>1, <2>2 DEF IInv, TypeOK, StagingContent
<1>9. FitContent'
  BY <1>1, <1>3, CommitAssumption DEF IInv, NamesIssued, FitContent, HasFit, TypeOK
<1> QED
  BY <1>6, <1>7, <1>8, <1>9, OutputsKept DEF SafetyParts, MakeStaging

(* Steps of c that change only its own staging directory.                  *)
LEMMA OwnStagingSafe ==
  ASSUME IInv, NEW c \in Committers, NEW l \in Labels, HasStaging(c),
         pc' = [pc EXCEPT ![c] = l],
         UNCHANGED <<staging, fit, time, seq>>,
         \A n \in Names : n # staging[c] => temp'[n] = temp[n],
         l \notin {"check", "mkdir"},
         c \in Fitters /\ l \in {"copy", "overlay"} => pc[c] \in {"copy", "overlay"},
         Staged(c, l, temp'[staging[c]])
  PROVE  NamesIssued' /\ NamesDistinct' /\ StagingContent' /\ FitContent'
<1>1. NamesIssued'
  <2>1. \A n \in Names : Issued(n)' <=> Issued(n)
    BY DEF Issued, time
  <2> QED
    BY <2>1 DEF IInv, NamesIssued, HasStaging, HasFit, TypeOK
<1>2. NamesDistinct'
  BY DEF IInv, NamesDistinct, HasStaging, HasFit, TypeOK
<1>3. StagingContent'
  <2> SUFFICES ASSUME NEW d \in Committers
               PROVE  Staged(d, pc'[d], temp'[staging[d]])
    BY DEF StagingContent
  <2>1. CASE d = c
    BY <2>1 DEF IInv, TypeOK
  <2>2. CASE d # c /\ HasStaging(d)
    BY <2>2 DEF IInv, TypeOK, NamesDistinct, StagingContent
  <2>3. CASE d # c /\ ~HasStaging(d)
    BY <2>3 DEF IInv, TypeOK, HasStaging, Staged
  <2> QED
    BY <2>1, <2>2, <2>3
<1>4. FitContent'
  <2> SUFFICES ASSUME NEW d \in Fitters,
                      pc'[d] \in {"check", "mkdir", "copy", "overlay"},
                      NEW f \in Artifacts
               PROVE  temp'[fit[d]].files[f] = d
    BY DEF FitContent
  <2>1. pc[d] \in {"check", "mkdir", "copy", "overlay"} /\ d \in Committers
    BY CommitAssumption DEF IInv, TypeOK
  <2>2. HasFit(d) /\ staging[c] # fit[d] /\ fit[d] \in Names
    BY <2>1 DEF IInv, TypeOK, NamesDistinct, HasFit
  <2> QED
    BY <2>1, <2>2 DEF IInv, FitContent
<1> QED
  BY <1>1, <1>2, <1>3, <1>4

LEMMA CopyFileSafe ==
  ASSUME IInv, NEW c \in Committers, NEW f \in Files, CopyFile(c, f)
  PROVE  SafetyParts'
<1>1. pc[c] = "copy" /\ HasStaging(c) /\ pc' = [pc EXCEPT ![c] = "copy"]
  BY DEF CopyFile, HasStaging, IInv, TypeOK
<1>2. temp[staging[c]] \in Dirs /\ staging[c] \in Names /\ temp \in [Names -> Dirs]
  BY DEF IInv, TypeOK
<1>3. Staged(c, "copy", temp[staging[c]])
  BY <1>1 DEF IInv, StagingContent
<1>4. /\ temp'[staging[c]].present = temp[staging[c]].present
      /\ temp'[staging[c]].files = [temp[staging[c]].files EXCEPT ![f] = Template]
      /\ \A n \in Names : n # staging[c] => temp'[n] = temp[n]
  BY <1>2 DEF CopyFile, Dirs
<1>5. Staged(c, "copy", temp'[staging[c]])
  BY <1>2, <1>3, <1>4 DEF Staged, Dirs
<1> QED
  BY <1>1, <1>4, <1>5, OwnStagingSafe, OutputsKept
     DEF CopyFile, own, SafetyParts, Labels

LEMMA OverlaySafe ==
  ASSUME IInv, NEW c \in Committers, Overlay(c)
  PROVE  SafetyParts'
<1>1. pc[c] = "overlay" /\ HasStaging(c) /\ pc' = [pc EXCEPT ![c] = "manifest"]
  BY DEF Overlay, Goto, HasStaging
<1>2. temp[staging[c]] \in Dirs /\ staging[c] \in Names /\ temp \in [Names -> Dirs]
  BY DEF IInv, TypeOK
<1>3. Staged(c, "overlay", temp[staging[c]])
  BY <1>1 DEF IInv, StagingContent
<1>4. \A f \in Artifacts : Source(c, f) = c
  BY <1>1 DEF Source, IInv, FitContent
<1>5. /\ temp'[staging[c]].present = temp[staging[c]].present
      /\ temp'[staging[c]].files = [f \in Files |->
            IF f \in Artifacts THEN Source(c, f) ELSE temp[staging[c]].files[f]]
      /\ \A n \in Names : n # staging[c] => temp'[n] = temp[n]
  BY <1>2 DEF Overlay, Dirs
<1>6. temp'[staging[c]].files = PackageOf(c).files
  BY <1>3, <1>4, <1>5 DEF Staged, PackageOf
<1>7. Staged(c, "manifest", temp'[staging[c]])
  BY <1>3, <1>5, <1>6 DEF Staged
<1> QED
  BY <1>1, <1>5, <1>7, OwnStagingSafe, OutputsKept
     DEF Overlay, own, SafetyParts, Labels

LEMMA WriteManifestSafe ==
  ASSUME IInv, NEW c \in Committers, WriteManifest(c)
  PROVE  SafetyParts'
<1>1. pc[c] = "manifest" /\ HasStaging(c) /\ pc' = [pc EXCEPT ![c] = "load"]
  BY DEF WriteManifest, Goto, HasStaging
<1>2. temp[staging[c]] \in Dirs /\ staging[c] \in Names /\ temp \in [Names -> Dirs]
  BY DEF IInv, TypeOK
<1>3. Staged(c, "manifest", temp[staging[c]])
  BY <1>1 DEF IInv, StagingContent
<1>4. /\ temp'[staging[c]].present = temp[staging[c]].present
      /\ temp'[staging[c]].files = temp[staging[c]].files
      /\ temp'[staging[c]].sums = temp[staging[c]].files
      /\ \A n \in Names : n # staging[c] => temp'[n] = temp[n]
  BY <1>2 DEF WriteManifest, Dirs
<1>5. Staged(c, "load", temp'[staging[c]])
  BY <1>3, <1>4 DEF Staged
<1> QED
  BY <1>1, <1>4, <1>5, OwnStagingSafe, OutputsKept
     DEF WriteManifest, own, SafetyParts, Labels

LEMMA CleanStagingSafe ==
  ASSUME IInv, NEW c \in Committers, CleanStaging(c)
  PROVE  SafetyParts'
<1>1. HasStaging(c) /\ pc' = [pc EXCEPT ![c] = AfterStaging(c)]
  BY DEF CleanStaging, Goto, HasStaging
<1>2. AfterStaging(c) \in {"idle", "clean_fit"} /\ AfterStaging(c) \in Labels
  BY DEF AfterStaging, Labels
<1>3. \A n \in Names : n # staging[c] => temp'[n] = temp[n]
  BY DEF CleanStaging, IInv, TypeOK
<1>4. Staged(c, AfterStaging(c), temp'[staging[c]])
  BY <1>2 DEF Staged
<1> QED
  BY <1>1, <1>2, <1>3, <1>4, OwnStagingSafe, OutputsKept
     DEF CleanStaging, own, SafetyParts

LEMMA CleanFitSafe ==
  ASSUME IInv, NEW c \in Committers, CleanFit(c)
  PROVE  SafetyParts'
<1>1. pc[c] = "clean_fit" /\ HasFit(c) /\ pc' = [pc EXCEPT ![c] = "idle"]
  BY DEF CleanFit, Goto, HasFit
<1>2. /\ UNCHANGED <<staging, fit, output, committed, time, seq>>
      /\ temp'[fit[c]] = Absent
      /\ \A n \in Names : n # fit[c] => temp'[n] = temp[n]
  BY DEF CleanFit, IInv, TypeOK, own
<1>3. NamesIssued'
  <2>1. \A n \in Names : Issued(n)' <=> Issued(n)
    BY <1>2 DEF Issued, time
  <2> QED
    BY <1>1, <1>2, <2>1 DEF IInv, NamesIssued, HasStaging, HasFit, TypeOK
<1>4. NamesDistinct'
  BY <1>1, <1>2 DEF IInv, NamesDistinct, HasStaging, HasFit, TypeOK
<1>5. StagingContent'
  <2> SUFFICES ASSUME NEW d \in Committers
               PROVE  Staged(d, pc'[d], temp'[staging[d]])
    BY <1>2 DEF StagingContent
  <2>1. CASE HasStaging(d)
    <3>1. staging[d] # fit[c] /\ staging[d] \in Names /\ d # c
      BY <1>1, <2>1 DEF IInv, TypeOK, NamesDistinct, HasStaging
    <3> QED
      BY <1>1, <1>2, <3>1 DEF IInv, TypeOK, StagingContent
  <2>2. CASE ~HasStaging(d)
    BY <1>1, <2>2 DEF IInv, TypeOK, HasStaging, Staged
  <2> QED
    BY <2>1, <2>2
<1>6. FitContent'
  <2> SUFFICES ASSUME NEW d \in Fitters,
                      pc'[d] \in {"check", "mkdir", "copy", "overlay"},
                      NEW f \in Artifacts
               PROVE  temp'[fit[d]].files[f] = d
    BY <1>2 DEF FitContent
  <2>1. pc[d] = pc'[d] /\ d \in Committers /\ d # c
    BY <1>1, CommitAssumption DEF IInv, TypeOK
  <2>2. HasFit(d) /\ fit[d] # fit[c] /\ fit[d] \in Names
    BY <1>1, <2>1 DEF IInv, TypeOK, NamesDistinct, HasFit
  <2> QED
    BY <1>2, <2>1, <2>2 DEF IInv, FitContent
<1> QED
  BY <1>2, <1>3, <1>4, <1>5, <1>6, OutputsKept DEF SafetyParts

(* What a successful rename puts at the output path.                       *)
LEMMA StagedPackage ==
  ASSUME IInv, NEW c \in Committers, pc[c] = "rename"
  PROVE  temp[staging[c]] = PackageOf(c)
<1>1. temp[staging[c]] \in Dirs
  BY DEF IInv, TypeOK
<1>2. Staged(c, "rename", temp[staging[c]])
  BY DEF IInv, StagingContent
<1>3. /\ temp[staging[c]].present = TRUE
      /\ temp[staging[c]].files = PackageOf(c).files
      /\ temp[staging[c]].sums = PackageOf(c).sums
  BY <1>1, <1>2 DEF Staged, PackageOf, Dirs
<1> QED
  BY <1>1, <1>3 DEF Dirs, PackageOf

(* A path that holds a package keeps it, and no other path is touched.     *)
LEMMA RenameOutputs ==
  ASSUME IInv, NEW c \in Committers, Rename(c)
  PROVE  \/ UNCHANGED <<output, temp, committed>> /\ pc' = [pc EXCEPT ![c] = "clean_staging"]
         \/ /\ output[Target[c]] = Absent
            /\ output' = [output EXCEPT ![Target[c]] = PackageOf(c)]
            /\ committed' = [committed EXCEPT ![c] = TRUE]
            /\ pc' = [pc EXCEPT ![c] = AfterStaging(c)]
            /\ temp' = [temp EXCEPT ![staging[c]] = Absent]
<1>1. Target[c] \in Outputs
  BY CommitAssumption
<1>2. output[Target[c]].present \/ output[Target[c]] = Absent
  BY <1>1, DirTypes DEF IInv, OutputsWhole
<1> QED
  BY <1>2, StagedPackage DEF Rename, Goto

LEMMA RenameSafe ==
  ASSUME IInv, NEW c \in Committers, Rename(c)
  PROVE  SafetyParts'
<1>1. pc[c] = "rename" /\ HasStaging(c) /\ UNCHANGED <<staging, fit, time, seq>>
  BY DEF Rename, Goto, HasStaging
<1>2. CASE UNCHANGED <<output, temp, committed>> /\ pc' = [pc EXCEPT ![c] = "clean_staging"]
  <2>1. Staged(c, "clean_staging", temp[staging[c]])
    BY DEF Staged
  <2> QED
    BY <1>1, <1>2, <2>1, QuietSafe DEF own, Labels, HasFit
<1>3. CASE /\ output[Target[c]] = Absent
           /\ output' = [output EXCEPT ![Target[c]] = PackageOf(c)]
           /\ committed' = [committed EXCEPT ![c] = TRUE]
           /\ pc' = [pc EXCEPT ![c] = AfterStaging(c)]
           /\ temp' = [temp EXCEPT ![staging[c]] = Absent]
  <2>1. AfterStaging(c) \in {"idle", "clean_fit"} /\ AfterStaging(c) \in Labels
    BY DEF AfterStaging, Labels
  <2>2. \A n \in Names : n # staging[c] => temp'[n] = temp[n]
    BY <1>3 DEF IInv, TypeOK
  <2>3. Staged(c, AfterStaging(c), temp'[staging[c]])
    BY <2>1 DEF Staged
  <2>4. NamesIssued' /\ NamesDistinct' /\ StagingContent' /\ FitContent'
    BY <1>1, <1>3, <2>1, <2>2, <2>3, OwnStagingSafe
  <2>5. output \in [Outputs -> Dirs] /\ Target[c] \in Outputs
    BY CommitAssumption DEF IInv, TypeOK
  <2>6. OutputsWhole'
    BY <1>3, <2>5 DEF IInv, OutputsWhole, PackageOf
  <2>7. SuccessMeansMine'
    <3> SUFFICES ASSUME NEW d \in Committers, committed'[d]
                 PROVE  output'[Target[d]] = PackageOf(d)
      BY DEF SuccessMeansMine, PackageOf
    <3>1. CASE d = c
      BY <1>3, <2>5, <3>1
    <3>2. CASE d # c
      <4>1. committed[d]
        BY <1>3, <3>2 DEF IInv, TypeOK
      <4>2. output[Target[d]] = PackageOf(d)
        BY <4>1 DEF IInv, SuccessMeansMine
      <4>3. Target[d] # Target[c] /\ Target[d] \in Outputs
        BY <1>3, <4>2, DirTypes, CommitAssumption
      <4> QED
        BY <1>3, <2>5, <4>2, <4>3
    <3> QED
      BY <3>1, <3>2
  <2> QED
    BY <2>4, <2>6, <2>7 DEF SafetyParts
<1> QED
  BY <1>2, <1>3, RenameOutputs

LEMMA CommitSafe ==
  ASSUME IInv, NEW c \in Committers, Commit(c)
  PROVE  SafetyParts'
<1> USE DEF Goto
<1>0. AfterStaging(c) \in {"idle", "clean_fit"} /\ AfterStaging(c) \in Labels
  BY DEF AfterStaging, Labels
<1>1. Staged(c, pc[c], temp[staging[c]])
  BY DEF IInv, StagingContent
<1>2. \A l \in {"idle", "check", "mkdir", "clean_staging", "clean_fit"} :
        Staged(c, l, temp[staging[c]])
  BY DEF Staged
<1>3. CASE BuilderCommit(c)
  BY <1>2, <1>3, QuietSafe DEF BuilderCommit, Labels
<1>4. CASE CheckOutput(c)
  BY <1>0, <1>2, <1>4, QuietSafe DEF CheckOutput, Labels, HasFit
<1>5. CASE CopyDone(c)
  <2>1. Staged(c, "overlay", temp[staging[c]])
    BY <1>1, <1>5 DEF CopyDone, Staged
  <2> QED
    BY <1>5, <2>1, QuietSafe DEF CopyDone, Labels, HasFit, HasStaging
<1>6. CASE LoadStaging(c)
  <2>1. Staged(c, "rename", temp[staging[c]])
    BY <1>1, <1>6 DEF LoadStaging, Staged
  <2> QED
    BY <1>2, <1>6, <2>1, QuietSafe DEF LoadStaging, Labels, HasFit, HasStaging
<1>7. CASE Fail(c)
  <2>1. CASE \E from \in {"check", "mkdir"} : Goto(c, from, AfterStaging(c))
    BY <1>0, <1>2, <1>7, <2>1, QuietSafe DEF Fail, HasFit
  <2>2. CASE \E from \in {"copy", "overlay", "manifest", "load", "rename"} :
               Goto(c, from, "clean_staging")
    BY <1>2, <1>7, <2>2, QuietSafe DEF Fail, Labels, HasFit, HasStaging
  <2> QED
    BY <1>7, <2>1, <2>2 DEF Fail
<1> QED
  BY <1>3, <1>4, <1>5, <1>6, <1>7, SaveArtifactsSafe, MakeStagingSafe, CopyFileSafe,
     OverlaySafe, WriteManifestSafe, RenameSafe, CleanStagingSafe, CleanFitSafe DEF Commit

LEMMA TickSafe == IInv /\ Tick => SafetyParts'
<1> SUFFICES ASSUME IInv, Tick PROVE SafetyParts'
  OBVIOUS
<1>1. \A n \in Names : Issued(n) => Issued(n)'
  <2> SUFFICES ASSUME NEW n \in Names, Issued(n) PROVE Issued(n)'
    OBVIOUS
  <2>1. n[1] \in Nat /\ clock \in Nat
    BY CommitAssumption DEF Names, IInv, TypeOK
  <2> QED
    BY <2>1 DEF Issued, Tick
<1>2. NamesIssued' /\ NamesDistinct'
  BY <1>1 DEF Tick, own, IInv, TypeOK, NamesIssued, NamesDistinct, HasStaging, HasFit
<1>3. StagingContent' /\ FitContent'
  BY DEF Tick, own, IInv, StagingContent, Staged, FitContent, PackageOf
<1> QED
  BY <1>2, <1>3, OutputsKept DEF Tick, own, SafetyParts

LEMMA CrashSafe == IInv /\ Crash => SafetyParts'
<1> SUFFICES ASSUME IInv, Crash PROVE SafetyParts'
  OBVIOUS
<1>1. \A n \in Names : Issued(n) => Issued(n)'
  <2> SUFFICES ASSUME NEW n \in Names, Issued(n) PROVE Issued(n)'
    OBVIOUS
  <2>1. n[1] \in Nat /\ clock \in Nat /\ started \in Nat /\ started <= clock
    BY CommitAssumption DEF Names, IInv, TypeOK
  <2> QED
    BY <2>1 DEF Issued, Crash
<1>2. \A c \in Committers : pc'[c] = "idle" /\ ~committed'[c]
  BY DEF Crash
<1>3. NamesIssued' /\ NamesDistinct'
  BY <1>1, <1>2 DEF Crash, IInv, NamesIssued, NamesDistinct, HasStaging, HasFit
<1>4. StagingContent' /\ FitContent'
  BY <1>2, CommitAssumption DEF StagingContent, Staged, FitContent
<1>5. OutputsWhole' /\ SuccessMeansMine'
  BY <1>2 DEF Crash, IInv, OutputsWhole, SuccessMeansMine, PackageOf
<1> QED
  BY <1>3, <1>4, <1>5 DEF SafetyParts

LEMMA SafeStep == IInv /\ [Next]_vars => IInv'
<1> SUFFICES ASSUME IInv, [Next]_vars PROVE IInv'
  OBVIOUS
<1>1. TypeOK'
  BY TypeStep DEF IInv
<1>2. CASE \E c \in Committers : Commit(c)
  BY <1>1, <1>2, CommitSafe DEF IInv, SafetyParts
<1>3. CASE Tick
  BY <1>1, <1>3, TickSafe DEF IInv, SafetyParts
<1>4. CASE Crash
  BY <1>1, <1>4, CrashSafe DEF IInv, SafetyParts
<1>5. CASE UNCHANGED vars
  <2>1. NamesIssued' /\ NamesDistinct'
    BY <1>5 DEF vars, own, time, IInv, NamesIssued, NamesDistinct, Issued, HasStaging, HasFit
  <2>2. StagingContent' /\ FitContent'
    BY <1>5 DEF vars, own, time, IInv, StagingContent, Staged, FitContent, PackageOf
  <2> QED
    BY <1>1, <1>5, <2>1, <2>2, OutputsKept DEF IInv, vars, own
<1> QED
  BY <1>2, <1>3, <1>4, <1>5 DEF Next

(* The inductive invariant holds of every behaviour.                       *)
THEOREM Safety == Spec => []IInv
  BY InitSafe, SafeStep, PTL DEF Spec

(* No crash, failure or concurrent commit leaves a partial or mixed        *)
(* package at an output path.                                              *)
THEOREM WholePackages == Spec => []OutputsWhole
<1>1. IInv => OutputsWhole
  BY DEF IInv
<1> QED
  BY <1>1, Safety, PTL

(* A commit that returned OK has its own package at its path, however many *)
(* commits race for it.                                                    *)
THEOREM Winner == Spec => []SuccessMeansMine
<1>1. IInv => SuccessMeansMine
  BY DEF IInv
<1> QED
  BY <1>1, Safety, PTL

(* What every step does to the outputs.                                    *)
LEMMA OutputStep ==
  ASSUME IInv, [Next]_vars
  PROVE  \/ output' = output
         \/ \E c \in Committers : /\ output[Target[c]] = Absent
                                  /\ output' = [output EXCEPT ![Target[c]] = PackageOf(c)]
<1>1. ASSUME NEW c \in Committers, Rename(c)
      PROVE  \/ output' = output
             \/ /\ output[Target[c]] = Absent
                /\ output' = [output EXCEPT ![Target[c]] = PackageOf(c)]
  BY <1>1, RenameOutputs
<1>2. ASSUME NEW c \in Committers, Commit(c), ~Rename(c)
      PROVE  output' = output
  BY <1>2 DEF Commit, SaveArtifacts, BuilderCommit, CheckOutput, MakeStaging, CopyFile,
     CopyDone, Overlay, WriteManifest, LoadStaging, Fail, CleanStaging, CleanFit
<1>3. CASE Tick \/ Crash \/ UNCHANGED vars
  BY <1>3 DEF Tick, Crash, vars
<1> QED
  BY <1>1, <1>2, <1>3 DEF Next

(* A published package is never changed or removed by a later commit.      *)
THEOREM Immutable == Spec => OutputsImmutable
<1>1. IInv /\ [Next]_vars =>
        [\A o \in Outputs : output[o].present => output'[o] = output[o]]_vars
  BY OutputStep, DirTypes DEF IInv, TypeOK
<1> QED
  BY <1>1, Safety, PTL DEF Spec, OutputsImmutable

(* Committing implements the abstract store: an output path changes once,  *)
(* in one step, from absent to a complete package somebody owes it.        *)
THEOREM Refinement == Spec => CommitsAtomically
<1>1. Init => Store!Init
  BY DEF Init, Store!Init
<1>2. IInv /\ [Next]_vars => [Store!Next]_output
  <2> SUFFICES ASSUME IInv, [Next]_vars, output' # output
               PROVE  Store!Next
    OBVIOUS
  <2>1. PICK c \in Committers : /\ output[Target[c]] = Absent
                                /\ output' = [output EXCEPT ![Target[c]] = PackageOf(c)]
    BY OutputStep
  <2>2. Target[c] \in Outputs
    BY CommitAssumption
  <2>3. Store!Publish(Target[c])
    BY <2>1, <2>2 DEF Store!Publish
  <2> QED
    BY <2>2, <2>3 DEF Store!Next
<1> QED
  BY <1>1, <1>2, Safety, PTL DEF Spec, CommitsAtomically, Store!Spec
-----------------------------------------------------------------------------
(* The directories a commit has made and will remove.                      *)
Owns(c, n) ==
  \/ HasStaging(c) /\ n = staging[c]
  \/ HasFit(c) /\ n = fit[c]

(* After a step of c, a directory is there only because c owns it now, or  *)
(* it was there before and somebody else owned it.                         *)
LEMMA OwnersKept ==
  ASSUME TypeOK, NoLeftovers, NEW c \in Committers,
         UNCHANGED crashes,
         \A d \in Committers : d # c =>
           pc'[d] = pc[d] /\ staging'[d] = staging[d] /\ fit'[d] = fit[d],
         \A n \in Names : temp'[n].present =>
           Owns(c, n)' \/ (temp[n].present /\ ~Owns(c, n))
  PROVE  NoLeftovers'
<1> SUFFICES ASSUME crashes = 0, NEW n \in Names, temp'[n].present
             PROVE  \E d \in Committers : Owns(d, n)'
  BY DEF NoLeftovers, Owns
<1>1. CASE temp[n].present /\ ~Owns(c, n)
  <2>1. PICK d \in Committers : Owns(d, n)
    BY <1>1 DEF NoLeftovers, Owns
  <2>2. d # c
    BY <1>1, <2>1
  <2>3. Owns(d, n)'
    BY <2>1, <2>2 DEF Owns, HasStaging, HasFit
  <2> QED
    BY <2>3
<1> QED
  BY <1>1

(* The steps that make a directory: its name is the committer's own.       *)
LEMMA MakingLeftovers ==
  ASSUME TypeOK, NoLeftovers, NEW c \in Committers, SaveArtifacts(c) \/ MakeStaging(c)
  PROVE  NoLeftovers'
<1>1. PICK m \in Names : m = uniqueSibling
  BY FreshName
<1>2. \A n \in Names : n # m => temp'[n] = temp[n]
  BY <1>1 DEF SaveArtifacts, MakeStaging, TypeOK
<1>3. UNCHANGED crashes
  BY DEF SaveArtifacts, MakeStaging, time
<1>4. \A d \in Committers : d # c =>
        pc'[d] = pc[d] /\ staging'[d] = staging[d] /\ fit'[d] = fit[d]
  BY DEF SaveArtifacts, MakeStaging, Goto, TypeOK
<1>5. Owns(c, m)' /\ \A n \in Names : Owns(c, n) => Owns(c, n)'
  <2>1. CASE SaveArtifacts(c)
    BY <1>1, <2>1 DEF SaveArtifacts, Goto, TypeOK, Owns, HasStaging, HasFit
  <2>2. CASE MakeStaging(c)
    BY <1>1, <2>2 DEF MakeStaging, Goto, TypeOK, Owns, HasStaging, HasFit
  <2> QED
    BY <2>1, <2>2
<1> QED
  BY <1>2, <1>3, <1>4, <1>5, OwnersKept

(* The steps between: what the committer owns stays its own.               *)
LEMMA KeepingLeftovers ==
  ASSUME TypeOK, NoLeftovers, NEW c \in Committers,
         \/ BuilderCommit(c) \/ CheckOutput(c) \/ (\E f \in Files : CopyFile(c, f))
         \/ CopyDone(c) \/ Overlay(c) \/ WriteManifest(c) \/ LoadStaging(c) \/ Fail(c)
  PROVE  NoLeftovers'
<1>1. UNCHANGED <<staging, fit, crashes>>
  BY DEF BuilderCommit, CheckOutput, CopyFile, CopyDone, Overlay, WriteManifest,
         LoadStaging, Fail, own, time
<1>2. \A d \in Committers : d # c => pc'[d] = pc[d]
  BY DEF BuilderCommit, CheckOutput, CopyFile, CopyDone, Overlay, WriteManifest,
         LoadStaging, Fail, Goto, TypeOK
<1>3. HasStaging(c) => HasStaging(c)'
  BY DEF BuilderCommit, CheckOutput, CopyFile, CopyDone, Overlay, WriteManifest,
         LoadStaging, Fail, Goto, TypeOK, HasStaging
<1>4. HasFit(c) => HasFit(c)'
  BY DEF BuilderCommit, CheckOutput, CopyFile, CopyDone, Overlay, WriteManifest,
         LoadStaging, Fail, Goto, TypeOK, HasFit, AfterStaging
<1>5. \A n \in Names : temp'[n].present => temp[n].present
  <2>1. CASE \E f \in Files : CopyFile(c, f)
    BY <2>1 DEF CopyFile, TypeOK, Dirs
  <2>2. CASE Overlay(c) \/ WriteManifest(c)
    <3>1. temp \in [Names -> Dirs] /\ staging[c] \in Names /\ temp[staging[c]] \in Dirs
      BY DEF TypeOK
    <3>2. /\ \A n \in Names : n # staging[c] => temp'[n] = temp[n]
          /\ temp'[staging[c]].present = temp[staging[c]].present
      BY <2>2, <3>1 DEF Overlay, WriteManifest, Dirs
    <3> QED
      BY <3>2
  <2>3. CASE UNCHANGED temp
    BY <2>3
  <2> QED
    BY <2>1, <2>2, <2>3 DEF BuilderCommit, CheckOutput, CopyDone, LoadStaging, Fail
<1>6. \A n \in Names : Owns(c, n) => Owns(c, n)'
  BY <1>1, <1>3, <1>4 DEF Owns
<1> QED
  BY <1>1, <1>2, <1>5, <1>6, OwnersKept

(* The steps that remove a directory, or move it to the output.            *)
LEMMA RemovingLeftovers ==
  ASSUME IInv, NoLeftovers, NEW c \in Committers,
         Rename(c) \/ CleanStaging(c) \/ CleanFit(c)
  PROVE  NoLeftovers'
<1>1. UNCHANGED <<staging, fit, crashes>>
  BY DEF Rename, CleanStaging, CleanFit, own, time
<1>2. \A d \in Committers : d # c => pc'[d] = pc[d]
  BY DEF Rename, CleanStaging, CleanFit, Goto, IInv, TypeOK
<1>3. \A n \in Names : temp'[n].present =>
        temp[n].present /\ (Owns(c, n) => Owns(c, n)')
  <2>1. CASE CleanFit(c)
    <3>1. /\ \A n \in Names : n # fit[c] => temp'[n] = temp[n]
          /\ ~temp'[fit[c]].present /\ ~HasStaging(c)
      BY <2>1, DirTypes DEF CleanFit, Goto, HasStaging, IInv, TypeOK
    <3> QED
      BY <3>1 DEF Owns
  <2>2. CASE UNCHANGED temp /\ Rename(c)
    <3>1. pc[c] = "rename" /\ HasStaging(c) /\ (HasStaging(c)' \/ temp'[staging[c]] = Absent)
          /\ (HasFit(c) => HasFit(c)')
      BY <2>2 DEF Rename, Goto, IInv, TypeOK, HasStaging, HasFit, AfterStaging
    <3> QED
      BY <1>1, <2>2, <3>1, DirTypes DEF Owns
  <2>3. CASE (Rename(c) \/ CleanStaging(c)) /\ temp' = [temp EXCEPT ![staging[c]] = Absent]
    <3>1. /\ \A n \in Names : n # staging[c] => temp'[n] = temp[n]
          /\ ~temp'[staging[c]].present
      BY <2>3, DirTypes DEF IInv, TypeOK
    <3>2. HasFit(c) => HasFit(c)'
      BY <2>3 DEF Rename, CleanStaging, Goto, IInv, TypeOK, HasFit, AfterStaging
    <3> QED
      BY <1>1, <3>1, <3>2 DEF Owns
  <2> QED
    BY <2>1, <2>2, <2>3 DEF Rename, CleanStaging
<1> QED
  BY <1>1, <1>2, <1>3, OwnersKept DEF IInv

(* DirectoryCleanup: unless the process died, failed and finished commits  *)
(* leave nothing beside the output.                                        *)
THEOREM NothingLeft == Spec => []NoLeftovers
<1>1. Init => NoLeftovers
  BY DirTypes DEF Init, NoLeftovers
<1>2. IInv /\ NoLeftovers /\ [Next]_vars => NoLeftovers'
  <2> SUFFICES ASSUME IInv, NoLeftovers, [Next]_vars PROVE NoLeftovers'
    OBVIOUS
  <2>1. CASE \E c \in Committers : Commit(c)
    BY <2>1, MakingLeftovers, KeepingLeftovers, RemovingLeftovers DEF Commit, IInv
  <2>2. CASE Tick \/ UNCHANGED vars
    BY <2>2 DEF Tick, vars, own, time, NoLeftovers, HasStaging, HasFit
  <2>3. CASE Crash
    BY <2>3, CommitAssumption DEF Crash, NoLeftovers, IInv, TypeOK
  <2> QED
    BY <2>1, <2>2, <2>3 DEF Next
<1> QED
  BY <1>1, <1>2, Safety, PTL DEF Spec
=============================================================================
