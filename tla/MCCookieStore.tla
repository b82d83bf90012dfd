---------------------------- MODULE MCCookieStore ----------------------------
(***************************************************************************)
(* Instances of CookieStore for TLC, with cookies of at most 10 bytes.       *)
(***************************************************************************)
EXTENDS CookieStore, TLC

RequestSymmetry == Permutations(Requests)
=============================================================================
