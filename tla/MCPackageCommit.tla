--------------------------- MODULE MCPackageCommit --------------------------
(* Small instances of PackageCommit: everybody writes to one path.         *)
EXTENDS PackageCommit

CONSTANTS b1, b2, f1, o1

OnePath == [c \in Committers |-> o1]
=============================================================================
