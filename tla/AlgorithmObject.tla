--------------------------- MODULE AlgorithmObject ---------------------------
(***************************************************************************)
(* An anom_patchcore_t object of the C API: init, load, create, finalize,  *)
(* release, and the variant field that the caller may write                *)
(* (src/src/c_api/algorithm_objects.cpp, algorithm_runtime_state.cpp,      *)
(* anom_engine.cpp, model_management.cpp).  The object holds at most one   *)
(* session and one fitter behind "internal".                               *)
(*                                                                         *)
(* load and create read the package twice: once to inspect it, once to     *)
(* build the runtime.  Another process may replace a package at any time;  *)
(* raced remembers that one did so under a call on this object.            *)
(***************************************************************************)
EXTENDS Naturals, FiniteSets

CONSTANTS
  Paths,       \* model package paths
  Variants,    \* PatchCore variants
  None

(* A PatchCore package has a variant; every other one has none.            *)
Packages == [algorithm : {"PatchCore"}, variant : Variants]
              \cup [algorithm : {"Other"}, variant : {None}]

(* What an AlgorithmRuntimeState holds.                                    *)
States == [session : Packages \cup {None}, fitter : Packages \cup {None},
           remembered : Variants \cup {None}]

ASSUME ObjectAssumption ==
  /\ Paths # {} /\ Variants # {}
  /\ None \notin Variants
  /\ None \notin Packages
  /\ None \notin States

VARIABLES
  pkg,         \* the package at each path, or None
  ready,       \* init has filled the method table
  variant,     \* the public field
  internal,    \* AlgorithmRuntimeState, or None
  pc, path,    \* the call in progress and its path
  candidate,   \* the session or fitter it has made and not attached
  alive,       \* runtimes constructed and not destroyed, by kind
  raced        \* history: a call since the last release lost its package

vars == <<pkg, ready, variant, internal, pc, path, candidate, alive, raced>>

NoState == [session |-> None, fitter |-> None, remembered |-> None]

Init ==
  /\ pkg \in [Paths -> Packages \cup {None}]
  /\ ready = FALSE
  /\ variant \in Variants
  /\ internal = None
  /\ pc = "idle" /\ path \in Paths
  /\ candidate = None
  /\ alive = [session |-> 0, fitter |-> 0]
  /\ raced = FALSE
-----------------------------------------------------------------------------
Attached(kind) == internal # None /\ internal[kind] # None

validVariant == internal # None => internal.remembered = variant

Construct(kind) == alive' = [alive EXCEPT ![kind] = @ + 1]
Destroy(kind)   == alive' = [alive EXCEPT ![kind] = @ - 1]

Call(label, p) == pc = "idle" /\ ready /\ pc' = label /\ path' = p

Return == pc' = "idle" /\ UNCHANGED path

(* anom_patchcore_init: refused while internal is set.                     *)
InitObject ==
  /\ pc = "idle"
  /\ internal = None
  /\ ready' = TRUE
  /\ UNCHANGED <<pkg, variant, internal, pc, path, candidate, alive, raced>>

(* The caller writes the public field.                                     *)
SetVariant(v) ==
  /\ pc = "idle"
  /\ variant' = v
  /\ UNCHANGED <<pkg, ready, internal, pc, path, candidate, alive, raced>>

(* loadAlgorithm up to the creation of the session.                        *)
InspectIf(p, accepted) ==
  /\ ~Attached("session")
  /\ accepted
  /\ Call("load", p)
  /\ UNCHANGED <<pkg, ready, variant, internal, candidate, alive, raced>>

IsPatchCore(p) == pkg[p] # None /\ pkg[p].algorithm = "PatchCore"

IsMine(p) == pkg[p] = [algorithm |-> "PatchCore", variant |-> variant]

InspectAlgorithmOnly(p) == InspectIf(p, validVariant /\ IsPatchCore(p))

Inspect(p) == InspectIf(p, validVariant /\ IsMine(p))

(* anom_session_create_v2 reads the package again.                         *)
CreateSession ==
  /\ pc = "load"
  /\ \/ /\ pkg[path] # None
        /\ pc' = "attachSession" /\ candidate' = pkg[path]
        /\ Construct("session")
     \/ pc' = "idle" /\ UNCHANGED <<candidate, alive>>
  /\ UNCHANGED <<pkg, ready, variant, internal, path, raced>>

(* validateFitterTemplate: any PatchCore template will do.                 *)
Validate(p) ==
  /\ ~Attached("fitter") /\ validVariant
  /\ IsPatchCore(p)
  /\ Call("create", p)
  /\ UNCHANGED <<pkg, ready, variant, internal, candidate, alive, raced>>

(* createFitter reads the template again.  A PatchCore fitter has the      *)
(* variant of the object; another template may give another kind.          *)
CreateFitter ==
  /\ pc = "create"
  /\ \/ /\ pkg[path] # None
        /\ pc' = "attachFitter"
        /\ candidate' = IF IsPatchCore(path)
                          THEN [pkg[path] EXCEPT !.variant = variant] ELSE pkg[path]
        /\ Construct("fitter")
     \/ pc' = "idle" /\ UNCHANGED <<candidate, alive>>
  /\ UNCHANGED <<pkg, ready, variant, internal, path, raced>>

(* attachRuntime and rememberVariant; the state is allocated lazily.       *)
AttachTo(kind, state) ==
  /\ internal' = [state EXCEPT ![kind] = candidate, !.remembered = variant]
  /\ UNCHANGED alive

EndAttach(label) ==
  /\ pc = label
  /\ candidate' = None
  /\ Return
  /\ UNCHANGED <<pkg, ready, variant, raced>>

AttachOrDestroy(kind, accepted) ==
  \/ accepted /\ internal = None /\ AttachTo(kind, NoState)
  \/ accepted /\ internal # None /\ AttachTo(kind, internal)
  \/ /\ ~accepted \/ internal = None   \* refused, or no memory for the state
     /\ Destroy(kind)
     /\ UNCHANGED internal

AttachSession == EndAttach("attachSession") /\ AttachOrDestroy("session", TRUE)

(* attachTypedFitter refuses a fitter of the wrong kind.                   *)
AttachFitter ==
  /\ EndAttach("attachFitter")
  /\ AttachOrDestroy("fitter", candidate.algorithm = "PatchCore")

(* finalize publishes a package of the fitter's variant at a free path;    *)
(* the fitter stays.                                                       *)
Finalize(p) ==
  /\ pc = "idle" /\ Attached("fitter") /\ validVariant
  /\ pkg[p] = None
  /\ pkg' = [pkg EXCEPT ![p] = internal.fitter]
  /\ UNCHANGED <<ready, variant, internal, pc, path, candidate, alive, raced>>

(* releaseAlgorithm: the state's destructor destroys both runtimes.        *)
ReleaseFreeing(kinds) ==
  /\ pc = "idle" /\ ready
  /\ internal' = None
  /\ alive' = [k \in {"session", "fitter"} |->
                 IF k \in kinds /\ Attached(k) THEN alive[k] - 1 ELSE alive[k]]
  /\ raced' = FALSE
  /\ UNCHANGED <<pkg, ready, variant, pc, path, candidate>>

ReleaseSession == ReleaseFreeing({"session"})

Release == ReleaseFreeing({"session", "fitter"})

(* Another process puts a package at a path, or removes one.               *)
Replace(p) ==
  /\ \E content \in Packages \cup {None} : pkg' = [pkg EXCEPT ![p] = content]
  /\ raced' = (raced \/ (pc # "idle" /\ path = p))
  /\ UNCHANGED <<ready, variant, internal, pc, path, candidate, alive>>

Next ==
  \/ InitObject \/ Release
  \/ \E v \in Variants : SetVariant(v)
  \/ \E p \in Paths : Inspect(p) \/ Validate(p) \/ Finalize(p) \/ Replace(p)
  \/ CreateSession \/ AttachSession \/ CreateFitter \/ AttachFitter

Spec == Init /\ [][Next]_vars
-----------------------------------------------------------------------------
(* Every variable keeps its type.                                          *)
TypeOK ==
  /\ pkg \in [Paths -> Packages \cup {None}]
  /\ ready \in BOOLEAN
  /\ variant \in Variants
  /\ internal \in States \cup {None}
  /\ pc \in {"idle", "load", "attachSession", "create", "attachFitter"}
  /\ path \in Paths
  /\ candidate \in Packages \cup {None}
  /\ alive \in [{"session", "fitter"} -> Nat]
  /\ raced \in BOOLEAN

(* Every runtime has one owner: the ones alive are those attached to the   *)
(* object or being attached, so none leaks and none is destroyed twice,    *)
(* over any sequence of failed and repeated calls.                         *)
OneOwner ==
  \A k \in {"session", "fitter"} :
    alive[k] = (IF Attached(k) THEN 1 ELSE 0)
             + (IF pc = (IF k = "session" THEN "attachSession" ELSE "attachFitter") THEN 1 ELSE 0)

(* The runtimes of an object agree: whatever the caller writes to the      *)
(* variant field between calls, session and fitter have the variant the    *)
(* object remembers, and the session is never one of another algorithm     *)
(* (unless its package was replaced between the two reads of a call).      *)
RuntimesMatchObject ==
  ~raced =>
    /\ Attached("session") =>
         internal.session = [algorithm |-> "PatchCore", variant |-> internal.remembered]
    /\ Attached("fitter") => internal.fitter.variant = internal.remembered
=============================================================================
