------------------------------- MODULE MCRadios ------------------------------
(***************************************************************************)
(* Radios for TLC.  The radios are alike, and every property is about all  *)
(* of them and about single states, so that they may be exchanged.         *)
(***************************************************************************)
EXTENDS Radios, TLC

Symmetry == Permutations(RadioIds)
=============================================================================
