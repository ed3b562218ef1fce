-------------------------------- MODULE Vdso --------------------------------
(***************************************************************************)
(* clock_gettime and sched_getcpu of the glibc-compatibility library: each *)
(* keeps a function pointer that its first call aims at the vDSO, whose    *)
(* address that call asks of getauxval, and falls back to the system call. *)
(***************************************************************************)
EXTENDS Auxv

CONSTANTS
    Ehdr,        \* AT_SYSINFO_EHDR
    Clocks,      \* clock ids
    Realtime,    \* CLOCK_REALTIME
    Cpu,         \* stands for the argument of sched_getcpu
    Exported,    \* of "clock_gettime" and "getcpu", those the vDSO exports
    VdsoSays,    \* what the vDSO returns for each argument
    KernelSays   \* what the system call does

Args == Clocks \cup {Cpu}
Results == {"ok", "EINVAL", "ENOSYS"}

\* The vDSO knows no clock that the kernel does not, and leaves some to it; the
\* kernel knows CLOCK_REALTIME.
ASSUME VdsoAssumption ==
    /\ Ehdr \in Types \ {Secure}
    /\ Realtime \in Clocks /\ Cpu \notin Clocks
    /\ VdsoSays \in [Args -> Results] /\ KernelSays \in [Args -> Results]
    /\ \A arg \in Args :
          /\ VdsoSays[arg] = "ok" => KernelSays[arg] # "EINVAL"
          /\ VdsoSays[arg] = "EINVAL" => KernelSays[arg] = "EINVAL"
    /\ KernelSays[Realtime] # "EINVAL"

VARIABLES
    vfunc,   \* the two vdso_func: initial, the address found, or null
    at,      \* where each thread is, or "out"
    call,    \* its argument
    result   \* of its last call

vdsoVars == <<vfunc, at, call, result>>
vars == <<auxvVars, vdsoVars>>

Symbols == {"clock_gettime", "getcpu"}
Symbol(arg) == IF arg = Cpu THEN "getcpu" ELSE "clock_gettime"

-----------------------------------------------------------------------------

Enter(t, arg) ==
    /\ at[t] = "out"
    /\ call' = [call EXCEPT ![t] = arg]
    /\ \/ /\ vfunc[Symbol(arg)] = "init"
          /\ Call(t, Ehdr)
          /\ at' = [at EXCEPT ![t] = "lookup"]
       \/ /\ vfunc[Symbol(arg)] # "init" /\ pc[t] = "idle"
          /\ environ \/ t = Main
          /\ at' = [at EXCEPT ![t] = IF vfunc[Symbol(arg)] = "vdso" THEN "vdso" ELSE "syscall"]
          /\ UNCHANGED auxvVars
    /\ UNCHANGED <<vfunc, result>>

\* __vdsosym, given the address of the vDSO.
Found(t) == IF got[t] # 0 /\ Symbol(call[t]) \in Exported THEN "vdso" ELSE "null"

\* Mutant: a lookup that finds nothing is tried again.
LookupMutant(t) ==
    /\ at[t] = "lookup" /\ pc[t] = "idle"
    /\ IF Found(t) = "null"
       THEN Call(t, Ehdr) /\ UNCHANGED <<vfunc, at>>
       ELSE /\ vfunc' = [vfunc EXCEPT ![Symbol(call[t])] = IF @ = "init" THEN Found(t) ELSE @]
            /\ at' = [at EXCEPT ![t] = "vdso"]
            /\ UNCHANGED auxvVars
    /\ UNCHANGED <<call, result>>

\* cgt_init and getcpu_init.
Lookup(t) ==
    /\ at[t] = "lookup" /\ pc[t] = "idle"
    /\ vfunc' = [vfunc EXCEPT ![Symbol(call[t])] = IF @ = "init" THEN Found(t) ELSE @]
    /\ at' = [at EXCEPT ![t] = IF Found(t) = "vdso" THEN "vdso" ELSE "syscall"]
    /\ UNCHANGED <<auxvVars, call, result>>

Leave(t, r) ==
    /\ at' = [at EXCEPT ![t] = "out"]
    /\ result' = [result EXCEPT ![t] = r]

\* Mutant: the answer of the vDSO is taken as it is.
CallVdsoMutant(t) ==
    /\ at[t] = "vdso"
    /\ Leave(t, VdsoSays[call[t]])
    /\ UNCHANGED <<auxvVars, vfunc, call>>

\* "Some buggy vdso implementations return ENOSYS for clocks they can't handle"
CallVdso(t) ==
    /\ at[t] = "vdso"
    /\ IF VdsoSays[call[t]] # "ENOSYS"
       THEN Leave(t, VdsoSays[call[t]])
       ELSE at' = [at EXCEPT ![t] = "syscall"] /\ UNCHANGED result
    /\ UNCHANGED <<auxvVars, vfunc, call>>

\* gettimeofday stands in for a kernel without clock_gettime.
Syscall(t) ==
    /\ at[t] = "syscall"
    /\ Leave(t, CASE KernelSays[call[t]] # "ENOSYS" \/ call[t] = Cpu -> KernelSays[call[t]]
                  [] KernelSays[call[t]] = "ENOSYS" /\ call[t] = Realtime -> "ok"
                  [] OTHER -> "EINVAL")
    /\ UNCHANGED <<auxvVars, vfunc, call>>

VdsoInit ==
    /\ Init
    /\ vfunc = [s \in Symbols |-> "init"]
    /\ at = [t \in Threads |-> "out"]
    /\ call = [t \in Threads |-> Cpu]
    /\ result = [t \in Threads |-> KernelSays[Cpu]]

VdsoStep(t) ==
    \/ Step(t) /\ UNCHANGED vdsoVars
    \/ Lookup(t) \/ CallVdso(t) \/ Syscall(t)

VdsoNext ==
    \/ SetEnviron /\ at[Main] = "out" /\ UNCHANGED vdsoVars
    \/ \E t \in Threads :
          \/ VdsoStep(t)
          \/ at[t] = "out" /\ UNCHANGED vdsoVars /\ \E type \in Types : Call(t, type)
          \/ \E arg \in Args : Enter(t, arg)

\* A thread in a call is scheduled, and no call waits for another thread.
VdsoSpec == VdsoInit /\ [][VdsoNext]_vars /\ \A t \in Threads : WF_vars(VdsoStep(t))
-----------------------------------------------------------------------------

\* The variables hold what the comments on their declarations say.
VdsoTypeOK ==
    /\ TypeOK
    /\ vfunc \in [Symbols -> {"init", "vdso", "null"}]
    /\ at \in [Threads -> {"out", "lookup", "vdso", "syscall"}]
    /\ call \in [Threads -> Args]
    /\ result \in [Threads -> Results]

\* Whether the vDSO is there, exports the function, handles the clock, and
\* whenever the first call came: what the kernel serves is served, realtime
\* always, and no clock_gettime fails with anything but EINVAL.
AsTheKernel ==
    \A t \in Threads : at[t] = "out" =>
        /\ KernelSays[call[t]] = "ok" \/ call[t] = Realtime => result[t] = "ok"
        /\ call[t] \in Clocks => result[t] # "ENOSYS"

\* A failed lookup is cached, so it must not come of a race: where there is a
\* vDSO, only a call before the environment was set gives it up.
NoNullLate ==
    [][ \A s \in Exported \cap Symbols :
          environ /\ KernelVal(Ehdr) # 0 /\ vfunc'[s] = "null" => vfunc[s] = "null" ]_vfunc

\* Every call comes back, whatever the other threads do.
Returns == \A t \in Threads : at[t] # "out" \/ pc[t] # "idle" ~> at[t] = "out" /\ pc[t] = "idle"
=============================================================================
