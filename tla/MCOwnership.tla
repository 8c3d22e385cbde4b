--------------------------- MODULE MCOwnership ---------------------------
(***************************************************************************)
(* Small instances of Ownership.  Processes are interchangeable and so are *)
(* paths: no definition tells one from another.                            *)
(***************************************************************************)
EXTENDS Ownership, TLC

Alike == Permutations(Procs) \cup Permutations(Paths)
=============================================================================
