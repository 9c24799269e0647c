------------------------ MODULE AlgorithmObjectProofs ------------------------
(***************************************************************************)
(* Proofs about AlgorithmObject, for any paths and variants: types, and    *)
(* the inductive invariant IInv, from which the ownership and the          *)
(* agreement of the runtimes follow.                                       *)
(***************************************************************************)
EXTENDS AlgorithmObject, TLAPS

(* A call that makes a runtime began with none of its kind attached and    *)
(* with the variant that the object remembers, and neither has changed     *)
(* since; the candidate is a package, a PatchCore fitter of that variant.  *)
CallsGuarded ==
  /\ pc # "idle" => validVariant
  /\ pc \in {"load", "attachSession"} => ~Attached("session")
  /\ pc \in {"create", "attachFitter"} => ~Attached("fitter")
  /\ pc \in {"attachSession", "attachFitter"} => candidate \in Packages
  /\ pc = "attachFitter" /\ candidate.algorithm = "PatchCore" => candidate.variant = variant
  /\ internal # None => internal.remembered \in Variants

(* What load read of its package still holds, unless it was replaced.      *)
CallsCurrent ==
  ~raced =>
    /\ pc = "load" => pkg[path] = [algorithm |-> "PatchCore", variant |-> variant]
    /\ pc = "attachSession" => candidate = [algorithm |-> "PatchCore", variant |-> variant]

IInv == TypeOK /\ CallsGuarded /\ OneOwner /\ CallsCurrent /\ RuntimesMatchObject

Kinds == {"session", "fitter"}

(* Packages and runtime states are not None; what a fitter is made from is *)
(* a package, a PatchCore one of the variant asked for.                    *)
LEMMA PackageTypes ==
  /\ \A p \in Packages : p # None
  /\ \A s \in States : s # None
  BY ObjectAssumption

LEMMA PickedCandidate ==
  ASSUME NEW p \in Packages, NEW v \in Variants, NEW c,
         c = IF p.algorithm = "PatchCore" THEN [p EXCEPT !.variant = v] ELSE p
  PROVE  c \in Packages /\ (c.algorithm = "PatchCore" => c.variant = v)
<1>1. CASE p.algorithm = "PatchCore"
  <2>1. p \in [algorithm : {"PatchCore"}, variant : Variants \cup {None}]
    BY <1>1 DEF Packages
  <2>2. c \in [algorithm : {"PatchCore"}, variant : Variants] /\ c.variant = v
    BY <1>1, <2>1
  <2> QED
    BY <2>2 DEF Packages
<1>2. CASE p.algorithm # "PatchCore"
  BY <1>2
<1> QED
  BY <1>1, <1>2

LEMMA NoStateTyped ==
  NoState \in States /\ NoState.session = None /\ NoState.fitter = None
  BY DEF NoState, States

(* The initial states satisfy IInv, and a step that changes nothing keeps it. *)
LEMMA InitIInv == Init => IInv
<1> SUFFICES ASSUME Init PROVE IInv
  OBVIOUS
<1>1. alive \in [{"session", "fitter"} -> Nat]
  BY DEF Init
<1>2. TypeOK
  BY <1>1 DEF Init, TypeOK
<1>3. OneOwner
  BY DEF Init, OneOwner, Attached
<1> QED
  BY <1>2, <1>3 DEF Init, IInv, CallsGuarded, CallsCurrent, RuntimesMatchObject, Attached

LEMMA Stuttering == IInv /\ UNCHANGED vars => IInv'
  BY DEF IInv, TypeOK, CallsGuarded, OneOwner, CallsCurrent, RuntimesMatchObject,
         vars, Attached, validVariant

(* The calls of the caller that neither make nor free a runtime.           *)
LEMMA CallerSteps ==
  ASSUME IInv,
         InitObject \/ (\E v \in Variants : SetVariant(v))
           \/ (\E p \in Paths : Inspect(p) \/ Validate(p))
  PROVE  IInv'
<1> USE DEF IInv, TypeOK, CallsGuarded, OneOwner, CallsCurrent, RuntimesMatchObject,
            Attached, validVariant
<1>1. CASE InitObject
  BY <1>1 DEF InitObject
<1>2. ASSUME NEW v \in Variants, SetVariant(v) PROVE IInv'
  BY <1>2 DEF SetVariant
<1>3. ASSUME NEW p \in Paths, Inspect(p) PROVE IInv'
  BY <1>3 DEF Inspect, InspectIf, Call, IsMine
<1>4. ASSUME NEW p \in Paths, Validate(p) PROVE IInv'
  BY <1>4 DEF Validate, Call
<1> QED
  BY <1>1, <1>2, <1>3, <1>4

(* The steps that make a session or a fitter from what the package is now. *)
LEMMA MakingSteps ==
  ASSUME IInv, CreateSession \/ CreateFitter
  PROVE  IInv'
<1>1. CASE CreateSession
  BY <1>1, PackageTypes
     DEF CreateSession, Construct, IInv, TypeOK, CallsGuarded, OneOwner, CallsCurrent,
         RuntimesMatchObject, Attached, validVariant
<1>2. CASE CreateFitter /\ pc' = "attachFitter"
  <2>1. /\ pkg[path] # None
        /\ candidate' = IF IsPatchCore(path)
                          THEN [pkg[path] EXCEPT !.variant = variant] ELSE pkg[path]
    BY <1>2 DEF CreateFitter
  <2>2. pkg[path] \in Packages /\ variant \in Variants
    BY <1>2, <2>1 DEF CreateFitter, IInv, TypeOK
  <2>3. candidate' = IF pkg[path].algorithm = "PatchCore"
                       THEN [pkg[path] EXCEPT !.variant = variant] ELSE pkg[path]
    BY <2>1 DEF IsPatchCore
  <2>4. candidate' \in Packages
        /\ (candidate'.algorithm = "PatchCore" => candidate'.variant = variant)
    <3> DEFINE c == candidate'
    <3>1. c = IF pkg[path].algorithm = "PatchCore"
                THEN [pkg[path] EXCEPT !.variant = variant] ELSE pkg[path]
      BY <2>3
    <3> HIDE DEF c
    <3>2. c \in Packages /\ (c.algorithm = "PatchCore" => c.variant = variant)
      BY <2>2, <3>1, PickedCandidate
    <3> QED
      BY <3>2 DEF c
  <2> QED
    BY <1>2, <2>4
       DEF CreateFitter, Construct, IInv, TypeOK, CallsGuarded, OneOwner, CallsCurrent,
           RuntimesMatchObject, Attached, validVariant
<1>3. CASE CreateFitter /\ pc' = "idle"
  BY <1>3
     DEF CreateFitter, IInv, TypeOK, CallsGuarded, OneOwner, CallsCurrent,
         RuntimesMatchObject, Attached, validVariant
<1> QED
  BY <1>1, <1>2, <1>3 DEF CreateFitter

(* Attaching: the state is there already, is allocated now, or cannot be.  *)
LEMMA AttachSessionStep ==
  ASSUME IInv, AttachSession
  PROVE  IInv'
<1> DEFINE Other == IF internal = None THEN None ELSE internal.fitter
<1>0. /\ pc = "attachSession" /\ candidate \in Packages /\ variant \in Variants /\ candidate # None
      /\ alive["session"] = 1 /\ alive \in [Kinds -> Nat]
      /\ internal \in States \cup {None}
  BY PackageTypes DEF AttachSession, EndAttach, IInv, TypeOK, CallsGuarded, OneOwner, Attached, Kinds
<1>1. ASSUME NEW s \in States, s.fitter = Other, AttachTo("session", s)
      PROVE  IInv'
  <2>1. internal' = [s EXCEPT !["session"] = candidate, !.remembered = variant]
    BY <1>1 DEF AttachTo
  <2>2. internal' \in States /\ internal'.session = candidate
        /\ internal'.fitter = Other /\ internal'.remembered = variant
    <3> DEFINE t == [s EXCEPT !["session"] = candidate, !.remembered = variant]
    <3>1. candidate \in Packages /\ variant \in Variants /\ s.fitter = Other
      BY <1>0, <1>1
    <3>2. t \in States /\ t.session = candidate /\ t.fitter = s.fitter /\ t.remembered = variant
      BY <3>1 DEF States
    <3>3. internal' = t
      BY <2>1
    <3> HIDE DEF t, Other
    <3> QED
      BY <3>1, <3>2, <3>3
  <2>3. internal' # None
    BY <2>2, PackageTypes
  <2>4. UNCHANGED <<pkg, ready, variant, raced, path, alive>> /\ candidate' = None /\ pc' = "idle"
    BY <1>1 DEF AttachSession, EndAttach, AttachTo, Return
  <2>5. TypeOK'
    BY <2>2, <2>4 DEF IInv, TypeOK
  <2>6. OneOwner'
    <3>1. alive'["session"] = 1 /\ Attached("session")'
      BY <1>0, <2>2, <2>3, <2>4 DEF Attached
    <3>2. Attached("fitter")' <=> Attached("fitter")
      BY <2>2, <2>3 DEF Attached
    <3>3. alive'["fitter"] = IF Attached("fitter") THEN 1 ELSE 0
      BY <1>0, <2>4 DEF IInv, OneOwner
    <3> QED
      BY <2>4, <3>1, <3>2, <3>3 DEF OneOwner
  <2>7. CallsGuarded' /\ CallsCurrent'
    BY <1>0, <2>2, <2>4 DEF CallsGuarded, CallsCurrent, validVariant
  <2>8. RuntimesMatchObject'
    BY <1>0, <1>1, <2>2, <2>3, <2>4
       DEF IInv, CallsGuarded, CallsCurrent, RuntimesMatchObject, Attached, validVariant
  <2> QED
    BY <2>5, <2>6, <2>7, <2>8 DEF IInv
<1>2. CASE Destroy("session") /\ UNCHANGED internal
  BY <1>0, <1>2 DEF AttachSession, EndAttach, Destroy, Return, IInv, TypeOK, CallsGuarded, OneOwner,
                    CallsCurrent, RuntimesMatchObject, Attached, validVariant
<1> QED
  BY <1>0, <1>1, <1>2, NoStateTyped DEF AttachSession, AttachOrDestroy

LEMMA AttachFitterStep ==
  ASSUME IInv, AttachFitter
  PROVE  IInv'
<1> DEFINE Other == IF internal = None THEN None ELSE internal.session
<1>0. /\ pc = "attachFitter" /\ candidate \in Packages /\ variant \in Variants /\ candidate # None
      /\ alive["fitter"] = 1 /\ alive \in [Kinds -> Nat]
      /\ internal \in States \cup {None}
  BY PackageTypes DEF AttachFitter, EndAttach, IInv, TypeOK, CallsGuarded, OneOwner, Attached, Kinds
<1>1. ASSUME NEW s \in States, s.session = Other, AttachTo("fitter", s),
             candidate.algorithm = "PatchCore"
      PROVE  IInv'
  <2>1. internal' = [s EXCEPT !["fitter"] = candidate, !.remembered = variant]
    BY <1>1 DEF AttachTo
  <2>2. internal' \in States /\ internal'.fitter = candidate
        /\ internal'.session = Other /\ internal'.remembered = variant
    <3> DEFINE t == [s EXCEPT !["fitter"] = candidate, !.remembered = variant]
    <3>1. candidate \in Packages /\ variant \in Variants /\ s.session = Other
      BY <1>0, <1>1
    <3>2. t \in States /\ t.fitter = candidate /\ t.session = s.session /\ t.remembered = variant
      BY <3>1 DEF States
    <3>3. internal' = t
      BY <2>1
    <3> HIDE DEF t, Other
    <3> QED
      BY <3>1, <3>2, <3>3
  <2>3. internal' # None
    BY <2>2, PackageTypes
  <2>4. UNCHANGED <<pkg, ready, variant, raced, path, alive>> /\ candidate' = None /\ pc' = "idle"
    BY <1>1 DEF AttachFitter, EndAttach, AttachTo, Return
  <2>5. TypeOK'
    BY <2>2, <2>4 DEF IInv, TypeOK
  <2>6. OneOwner'
    <3>1. alive'["fitter"] = 1 /\ Attached("fitter")'
      BY <1>0, <2>2, <2>3, <2>4 DEF Attached
    <3>2. Attached("session")' <=> Attached("session")
      BY <2>2, <2>3 DEF Attached
    <3>3. alive'["session"] = IF Attached("session") THEN 1 ELSE 0
      BY <1>0, <2>4 DEF IInv, OneOwner
    <3> QED
      BY <2>4, <3>1, <3>2, <3>3 DEF OneOwner
  <2>7. CallsGuarded' /\ CallsCurrent'
    BY <1>0, <2>2, <2>4 DEF CallsGuarded, CallsCurrent, validVariant
  <2>8. RuntimesMatchObject'
    BY <1>0, <1>1, <2>2, <2>3, <2>4
       DEF IInv, CallsGuarded, CallsCurrent, RuntimesMatchObject, Attached, validVariant
  <2> QED
    BY <2>5, <2>6, <2>7, <2>8 DEF IInv
<1>2. CASE Destroy("fitter") /\ UNCHANGED internal
  BY <1>0, <1>2 DEF AttachFitter, EndAttach, Destroy, Return, IInv, TypeOK, CallsGuarded, OneOwner,
                    CallsCurrent, RuntimesMatchObject, Attached, validVariant
<1> QED
  BY <1>0, <1>1, <1>2, NoStateTyped DEF AttachFitter, AttachOrDestroy

(* finalize, release and the other processes.                              *)
LEMMA OtherSteps ==
  ASSUME IInv, Release \/ (\E p \in Paths : Finalize(p) \/ Replace(p))
  PROVE  IInv'
<1> USE DEF IInv, TypeOK, CallsGuarded, OneOwner, CallsCurrent, RuntimesMatchObject,
            Attached, validVariant
<1>1. CASE Release
  <2>1. internal' = None /\ raced' = FALSE /\ pc = "idle"
        /\ UNCHANGED <<pkg, ready, variant, pc, path, candidate>>
    BY <1>1 DEF Release, ReleaseFreeing
  <2>2. alive' = [k \in Kinds |-> IF k \in Kinds /\ Attached(k) THEN alive[k] - 1 ELSE alive[k]]
    BY <1>1 DEF Release, ReleaseFreeing, Kinds
  <2>3. \A k \in Kinds : alive'[k] = 0
    BY <2>1, <2>2 DEF Kinds
  <2>4. alive' \in [Kinds -> Nat]
    <3> HIDE DEF OneOwner, TypeOK
    <3> QED
      BY <2>2, <2>3
  <2>5. TypeOK'
    BY <2>1, <2>4 DEF Kinds
  <2> HIDE DEF TypeOK
  <2> QED
    BY <2>1, <2>3, <2>5 DEF Kinds
<1>2. ASSUME NEW p \in Paths, Finalize(p) PROVE IInv'
  BY <1>2 DEF Finalize, States
<1>3. ASSUME NEW p \in Paths, Replace(p) PROVE IInv'
  <2>1. /\ UNCHANGED <<ready, variant, internal, pc, path, candidate, alive>>
        /\ raced' = (raced \/ (pc # "idle" /\ path = p))
    BY <1>3 DEF Replace
  <2>2. pkg' \in [Paths -> Packages \cup {None}]
        /\ (pkg'[path] = pkg[path] \/ path = p)
    BY <1>3 DEF Replace
  <2>3. TypeOK'
    BY <2>1, <2>2
  <2>4. CallsGuarded' /\ OneOwner'
    BY <2>1
  <2>5. CallsCurrent'
    BY <2>1, <2>2
  <2>6. RuntimesMatchObject'
    BY <2>1
  <2> QED
    BY <2>3, <2>4, <2>5, <2>6
<1> QED
  BY <1>1, <1>2, <1>3

(* IInv holds in every reachable state, for any paths and variants.        *)
THEOREM Safety == Spec => []IInv
<1>1. Init => IInv
  BY InitIInv
<1>2. IInv /\ [Next]_vars => IInv'
  BY CallerSteps, MakingSteps, AttachSessionStep, AttachFitterStep, OtherSteps, Stuttering
     DEF Next
<1> QED
  BY <1>1, <1>2, PTL DEF Spec

(* The variables of an algorithm object keep their types.                  *)
THEOREM TypeCorrect == Spec => []TypeOK
<1>1. IInv => TypeOK
  BY DEF IInv
<1> QED
  BY <1>1, Safety, PTL

(* attachRuntime and releaseAlgorithm: every session and fitter that is    *)
(* alive has one owner, over any sequence of failed and repeated calls.    *)
THEOREM Ownership == Spec => []OneOwner
<1>1. IInv => OneOwner
  BY DEF IInv
<1> QED
  BY <1>1, Safety, PTL

(* rememberVariant: session and fitter have the variant the object         *)
(* remembers, unless a package was replaced under a call.                  *)
THEOREM Agreement == Spec => []RuntimesMatchObject
<1>1. IInv => RuntimesMatchObject
  BY DEF IInv
<1> QED
  BY <1>1, Safety, PTL
=============================================================================
