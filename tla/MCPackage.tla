----------------------------- MODULE MCPackage -----------------------------
(***************************************************************************)
(* Instances of Package for TLC: a GNU package such as sed, with two       *)
(* versions of three formats, of which the host cannot decompress one.     *)
(***************************************************************************)
EXTENDS Package
=============================================================================
