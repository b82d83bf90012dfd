----------------------------- MODULE MCLoginFlow -----------------------------
(***************************************************************************)
(* Instances of LoginFlow for TLC.  Flows are numbers, so that their state   *)
(* substrings can be given.                                                 *)
(***************************************************************************)
EXTENDS LoginFlow, TLC

\* State substrings, of which the first two are the same: their flows share a cookie name, as all do
\* without CSRFPerRequest.
OneCollision == [f \in Flows |-> IF f = 1 THEN 1 ELSE f - 1]

LoginSymmetry == Permutations(Calls) \cup Permutations(Browsers)
=============================================================================
