------------------------------- MODULE MCAuxv -------------------------------
(***************************************************************************)
(* An instance of Auxv for TLC: the vector has an entry to ignore, and the *)
(* process is a set-uid one.                                               *)
(***************************************************************************)
EXTENDS Auxv, TLC

CONSTANTS t1, t2, Ehdr, Hwcap

MCThreads == {t1, t2}
MCTypes == {Secure, Ehdr, Hwcap}
MCVector == << [type |-> Ehdr, val |-> 7], [type |-> Ignore, val |-> 9], [type |-> Secure, val |-> 1] >>
=============================================================================
