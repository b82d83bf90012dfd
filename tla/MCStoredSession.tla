--------------------------- MODULE MCStoredSession ---------------------------
(***************************************************************************)
(* Instances of StoredSession for TLC.  A request is told from another only  *)
(* by what it does, so the runs that check safety properties use symmetry.   *)
(***************************************************************************)
EXTENDS StoredSession, TLC

RequestSymmetry == Permutations(Requests)
=============================================================================
