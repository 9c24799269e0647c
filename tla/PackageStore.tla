---------------------------- MODULE PackageStore ----------------------------
(***************************************************************************)
(* What committing model packages promises, whatever happens inside: an    *)
(* output directory is absent until, in one step, it holds the complete    *)
(* package of one committer that was asked to write there, and from then   *)
(* on it never changes.                                                    *)
(***************************************************************************)
CONSTANTS
  Outputs,    \* output directories
  Owed,       \* Owed[o]: the complete packages somebody was asked to write to o
  NoPackage

VARIABLE store

Init == store = [o \in Outputs |-> NoPackage]

Publish(o) ==
  /\ store[o] = NoPackage
  /\ \E p \in Owed[o] : store' = [store EXCEPT ![o] = p]

Next == \E o \in Outputs : Publish(o)

Spec == Init /\ [][Next]_store
=============================================================================
