-------------------------- MODULE MCNameResolution --------------------------
(* NameResolution on a small instance.                                     *)
EXTENDS NameResolution, TLC

MCSymmetry == Permutations(Names)
=============================================================================
