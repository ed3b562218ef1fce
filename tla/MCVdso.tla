------------------------------- MODULE MCVdso -------------------------------
(***************************************************************************)
(* An instance of Vdso, and of Auxv in it: a vector with an entry to       *)
(* ignore, a vDSO that leaves one clock to the kernel, and a sandbox       *)
(* without the system call clock_gettime for the others.                   *)
(***************************************************************************)
EXTENDS Vdso, TLC

CONSTANTS t1, t2, Monotonic, Boottime

MCThreads == {t1, t2}
MCTypes == {Secure, Ehdr}
MCVector == << [type |-> Ehdr, val |-> 7], [type |-> Ignore, val |-> 9], [type |-> Secure, val |-> 1] >>
MCClocks == {Realtime, Monotonic, Boottime}
MCVdsoSays == (Realtime :> "ENOSYS") @@ (Monotonic :> "ok") @@ (Boottime :> "ENOSYS") @@ (Cpu :> "ok")
MCKernelSays == (Realtime :> "ENOSYS") @@ (Monotonic :> "ENOSYS") @@ (Boottime :> "ok") @@ (Cpu :> "ok")
=============================================================================
