---------------------------- MODULE MCBootstrap ----------------------------
(***************************************************************************)
(* Instances of Bootstrap for TLC.  Tool 1 is an ordinary GNU package      *)
(* (make), tool 2 is libressl, tool 3 is python, whose archive has one     *)
(* source, and tool 4 is one the host already has; base3 has two packages  *)
(* so that a call is cut between them.                                     *)
(***************************************************************************)
EXTENDS BootstrapInv

MCSize == [c \in Calls |-> IF c = "base3" THEN 2 ELSE 1]
=============================================================================
