------------------------------ MODULE MCUserFile ------------------------------
(***************************************************************************)
(* Instances of UserFile for TLC.                                           *)
(***************************************************************************)
EXTENDS UserFile

\* A good file, one with an entry that is passed over, and a broken one.
ThreeTexts == {<<"user">>, <<"bad", "user">>, <<"user", "torn">>}
=============================================================================
