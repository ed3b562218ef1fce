-------------------------------- MODULE Auxv --------------------------------
(***************************************************************************)
(* getauxval (glibc-compatibility/musl/getauxval.c): the auxiliary vector  *)
(* of the kernel, read on first use from /proc/self/auxv or else found     *)
(* behind the environment.  The function pointer getauxval_func says how   *)
(* far that is; threads may come together at any of its values.            *)
(***************************************************************************)
EXTENDS Naturals, Sequences

CONSTANTS
    Threads, Main,   \* callers, and the one that runs before the environment is set
    Types,           \* the types asked for
    Secure, Ignore,  \* AT_SECURE and AT_IGNORE
    Vector,          \* the kernel's entries, [type, val], before AT_NULL
    Procfs           \* whether open finds /proc/self/auxv: "always", "never" or "sometimes"

At(type) == {k \in 1..Len(Vector) : Vector[k].type = type}

ASSUME AuxvAssumption ==
    /\ Main \in Threads
    /\ Secure \in Types /\ Ignore \notin Types
    /\ Vector \in Seq([type : Types \cup {Ignore}, val : Nat])
    /\ \A type \in Types : \A j, k \in At(type) : j = k
    /\ Procfs \in {"always", "never", "sometimes"}

VARIABLES
    environ,  \* the C library has set __environ
    func,     \* getauxval_func
    table,    \* __auxv_procfs
    secure,   \* __auxv_secure
    located,  \* __auxv_environ is set
    pc,       \* where each thread is in its call, or "idle"
    want,     \* the type it asked for
    pos,      \* entries it has read
    copy,     \* __auxv_secure on its way to __auxv_secure
    got,      \* what the last call returned
    early     \* that call came upon an unset __environ

mem == <<func, table, secure, located>>
local == <<want, pos, copy>>
answer == <<got, early>>
auxvVars == <<environ, mem, pc, local, answer>>

\* The value the kernel gives, 0 for a type it does not have.
KernelVal(type) == IF At(type) = {} THEN 0 ELSE Vector[CHOOSE k \in At(type) : TRUE].val

-----------------------------------------------------------------------------

Goto(t, label) == pc' = [pc EXCEPT ![t] = label]

Return(t, val) ==
    /\ Goto(t, "idle")
    /\ got' = [got EXCEPT ![t] = val]
    /\ UNCHANGED <<environ, local>>

\* Mutant: a plain store.
CasMutant(old, new) == func' = new

\* a_cas_p
Cas(old, new) == func' = IF func = old THEN new ELSE func

\* The C library sets __environ in the thread that starts the program.
SetEnviron ==
    /\ ~environ /\ pc[Main] = "idle"
    /\ environ' = TRUE
    /\ UNCHANGED <<mem, pc, local, answer>>

\* getauxval jumps to where getauxval_func points.
Call(t, type) ==
    /\ pc[t] = "idle"
    /\ environ \/ t = Main
    /\ Goto(t, func)
    /\ want' = [want EXCEPT ![t] = type]
    /\ early' = [early EXCEPT ![t] = FALSE]
    /\ UNCHANGED <<environ, mem, pos, copy, got>>

OpenFails(t) ==
    /\ pc[t] = "init_procfs" /\ Procfs # "always"
    /\ Cas("init_procfs", "init_environ")
    /\ Goto(t, "init_environ")
    /\ UNCHANGED <<environ, table, secure, located, local, answer>>

\* Mutant: the pointer is switched before the table is read.
OpenMutant(t) ==
    /\ pc[t] = "init_procfs" /\ Procfs # "never"
    /\ Cas("init_procfs", "get_procfs")
    /\ Goto(t, "read")
    /\ pos' = [pos EXCEPT ![t] = 0]
    /\ UNCHANGED <<environ, table, secure, located, want, copy, answer>>

Open(t) ==
    /\ pc[t] = "init_procfs" /\ Procfs # "never"
    /\ Goto(t, "read")
    /\ pos' = [pos EXCEPT ![t] = 0]
    /\ UNCHANGED <<environ, mem, want, copy, answer>>

ReadEntry(t) ==
    /\ pc[t] = "read" /\ pos[t] < Len(Vector)
    /\ LET entry == Vector[pos[t] + 1] IN
          table' = IF entry.type = Ignore THEN table ELSE [table EXCEPT ![entry.type] = entry.val]
    /\ pos' = [pos EXCEPT ![t] = @ + 1]
    /\ UNCHANGED <<environ, func, secure, located, pc, want, copy, answer>>

\* AT_NULL.  What follows is `__auxv_secure = __getauxval_procfs(AT_SECURE)`,
\* which for that type returns __auxv_secure.
LoadSecure(t) ==
    /\ pc[t] = "read" /\ pos[t] = Len(Vector)
    /\ copy' = [copy EXCEPT ![t] = secure]
    /\ Goto(t, "store_secure")
    /\ UNCHANGED <<environ, mem, want, pos, answer>>

StoreSecure(t) ==
    /\ pc[t] = "store_secure"
    /\ secure' = copy[t]
    /\ Goto(t, "cas_procfs")
    /\ UNCHANGED <<environ, func, table, located, local, answer>>

CasProcfs(t) ==
    /\ pc[t] = "cas_procfs"
    /\ Cas("init_procfs", "get_procfs")
    /\ Goto(t, "get_procfs")
    /\ UNCHANGED <<environ, table, secure, located, local, answer>>

GetProcfs(t) ==
    /\ pc[t] = "get_procfs"
    /\ Return(t, IF want[t] = Secure THEN secure ELSE table[want[t]])
    /\ UNCHANGED <<mem, early>>

\* __environ is not initialized yet: ENOENT.
InitEnvironEarly(t) ==
    /\ pc[t] = "init_environ" /\ ~environ
    /\ Return(t, 0)
    /\ early' = [early EXCEPT ![t] = TRUE]
    /\ UNCHANGED mem

\* The vector begins behind the NULL that ends the environment.
InitEnviron(t) ==
    /\ pc[t] = "init_environ" /\ environ
    /\ located' = TRUE
    /\ Goto(t, "find_secure")
    /\ UNCHANGED <<environ, func, table, secure, local, answer>>

FindSecure(t) ==
    /\ pc[t] = "find_secure"
    /\ secure' = IF At(Secure) = {} THEN secure ELSE KernelVal(Secure)
    /\ Goto(t, "cas_environ")
    /\ UNCHANGED <<environ, func, table, located, local, answer>>

\* Mutant: it switches from the first function of the chain.
CasEnvironMutant(t) ==
    /\ pc[t] = "cas_environ"
    /\ Cas("init_procfs", "get_environ")
    /\ Goto(t, "get_environ")
    /\ UNCHANGED <<environ, table, secure, located, local, answer>>

CasEnviron(t) ==
    /\ pc[t] = "cas_environ"
    /\ Cas("init_environ", "get_environ")
    /\ Goto(t, "get_environ")
    /\ UNCHANGED <<environ, table, secure, located, local, answer>>

GetEnviron(t) ==
    /\ pc[t] = "get_environ"
    /\ Return(t, CASE want[t] = Secure -> secure
                   [] want[t] # Secure /\ located -> KernelVal(want[t])
                   [] OTHER -> 0)
    /\ UNCHANGED <<mem, early>>

Init ==
    /\ environ = FALSE
    /\ func = "init_procfs"
    /\ table = [type \in Types |-> 0]
    /\ secure = 0 /\ located = FALSE
    /\ pc = [t \in Threads |-> "idle"]
    /\ want = [t \in Threads |-> Secure]
    /\ pos = [t \in Threads |-> 0]
    /\ copy = [t \in Threads |-> 0]
    /\ got = [t \in Threads |-> 0]
    /\ early = [t \in Threads |-> TRUE]

Step(t) ==
    \/ OpenFails(t) \/ Open(t) \/ ReadEntry(t) \/ LoadSecure(t) \/ StoreSecure(t)
    \/ CasProcfs(t) \/ GetProcfs(t)
    \/ InitEnvironEarly(t) \/ InitEnviron(t) \/ FindSecure(t) \/ CasEnviron(t) \/ GetEnviron(t)

Next ==
    \/ SetEnviron
    \/ \E t \in Threads : Step(t) \/ \E type \in Types : Call(t, type)

Spec == Init /\ [][Next]_auxvVars
-----------------------------------------------------------------------------

Funcs == {"init_procfs", "get_procfs", "init_environ", "get_environ"}
Labels == Funcs \cup {"idle", "read", "store_secure", "cas_procfs", "find_secure", "cas_environ"}

\* The variables hold what the comments on their declarations say.
TypeOK ==
    /\ environ \in BOOLEAN /\ located \in BOOLEAN
    /\ func \in Funcs
    /\ table \in [Types -> Nat] /\ secure \in Nat
    /\ pc \in [Threads -> Labels]
    /\ want \in [Threads -> Types]
    /\ pos \in [Threads -> 0..Len(Vector)]
    /\ copy \in [Threads -> Nat]
    /\ got \in [Threads -> Nat]
    /\ early \in [Threads -> BOOLEAN]

\* However many threads initialise together, and wherever they get the vector
\* from, getauxval answers what the kernel passed.  The one exception is a call
\* that needs an environment which is not yet set.  AT_SECURE is left to
\* SecureTold, which does not hold.
RightAnswer ==
    \A t \in Threads : pc[t] = "idle" /\ want[t] # Secure =>
        got[t] = IF early[t] THEN 0 ELSE KernelVal(want[t])

\* The call chain: a thread that comes late with its compare-and-swap takes
\* nobody from an initialised table back to one that is not.
Final == {"get_procfs", "get_environ"}
StaysFinal == [][(func \in Final => func' = func)]_func

\* Once the environment is set, any call gets everybody past initialisation.
Settles == \A t \in Threads : environ /\ pc[t] # "idle" ~> func \in Final

\* secure_getenv relies on it: in a set-uid program the kernel's AT_SECURE is
\* what a call is told.
SecureTold ==
    \A t \in Threads : pc[t] = "idle" /\ want[t] = Secure /\ ~early[t] =>
        got[t] = KernelVal(Secure)
=============================================================================
