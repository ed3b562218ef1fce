---------------------------- MODULE MCInstaller ----------------------------
(***************************************************************************)
(* Instances of Installer for TLC.  Invocations are alike except for those *)
(* in Broken, so the others may be exchanged.                              *)
(***************************************************************************)
EXTENDS Installer, TLC

Alike == Permutations(Installers \ Broken)
=============================================================================
