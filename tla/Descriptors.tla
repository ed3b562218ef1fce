---------------------------- MODULE Descriptors ----------------------------
(***************************************************************************)
(* The calls of the library that make descriptors: accept4, dup3, fcntl64  *)
(* with F_DUPFD_CLOEXEC, and epoll_create1, eventfd and inotify_init1,     *)
(* each with what it does instead on a kernel without the system call.     *)
(* Beside it another thread opens files and starts programs.               *)
(***************************************************************************)
EXTENDS Integers

CONSTANTS
    FdCalls,        \* [fn, flags, old, new, arg, listens], what is called
    Tables,         \* descriptors that are open before the call
    MaxFd,          \* the largest descriptor the process may have
    MaxOpens        \* bound on what the other thread opens

VARIABLES
    modern,         \* whether the kernel has the system call
    fdCall, fdStep,
    tab, tabBefore, \* the descriptors of the process, and those before the call
    target,         \* what the next fcntl or close is about
    fdRet,          \* what the call returns, a descriptor or minus errno
    leaked,         \* whether a program was given what the call made, without the flag
    opens

fdVars == <<modern, fdCall, fdStep, tab, tabBefore, target, fdRet, leaked, opens>>

\* errno, as the kernel returns it.
EBADF == -9
EINVAL == -22
EMFILE == -24
ENOSYS == -38

Fds == 0 .. MaxFd
Free == [state |-> "free"]
Busy == [state |-> "busy"]      \* taken by an open that is under way
Descriptor(file, flags, new) ==
    [state |-> "open", file |-> file, cloexec |-> "CLOEXEC" \in flags,
     nonblock |-> "NONBLOCK" \in flags, new |-> new]
IsOpen(fd) == fd \in Fds /\ tab[fd].state = "open"

\* A process has descriptors of its own before the call, none of which the call has made.
ASSUME DescriptorsAssumption ==
    /\ MaxFd \in Nat /\ MaxOpens \in Nat
    /\ FdCalls \subseteq [fn : {"accept4", "dup3", "fcntl64", "create"}, flags : SUBSET {"CLOEXEC", "NONBLOCK", "OTHER"},
                           old : Int, new : Int, arg : Int, listens : BOOLEAN]
    /\ Tables \subseteq [Fds -> {Free} \cup [state : {"open"}, file : STRING, cloexec : BOOLEAN,
                                             nonblock : BOOLEAN, new : BOOLEAN]]
    /\ \A t \in Tables, fd \in Fds : t[fd] = Free \/ ~t[fd].new

flags == fdCall.flags
Wanted(flag) == flag \in flags

Duplicate(entry, cloexec) == [entry EXCEPT !.cloexec = cloexec, !.new = TRUE]

\* The lowest free descriptor from n on, as a set.
Lowest(n) == {fd \in Fds : fd >= n /\ tab[fd] = Free /\ \A d \in n .. (fd - 1) : tab[d] # Free}

\* A call that returns, and one that goes on.
Answer(r) == fdStep' = "return" /\ fdRet' = r
GoOn(step) == fdStep' = step /\ UNCHANGED fdRet
At(fn, step) == fdCall.fn = fn /\ fdStep = step
Kept == UNCHANGED <<modern, fdCall, tabBefore, leaked, opens>>

\* A new descriptor, the lowest one from n on; then a step, or the call returns it.
Makes(n, entry, step) ==
    \E fd \in Lowest(n) :
        /\ tab' = [tab EXCEPT ![fd] = entry]
        /\ target' = fd
        /\ IF step = "return" THEN Answer(fd) ELSE fdStep' = step /\ fdRet' = fd
NoneFree(n) == Lowest(n) = {}
Fails(e) == Answer(e) /\ UNCHANGED <<tab, target>>
Falls(step) == GoOn(step) /\ UNCHANGED <<tab, target>>

FdIdle(c, t, m) ==
    /\ modern = m /\ fdCall = c /\ fdStep = "start"
    /\ tab = t /\ tabBefore = t
    /\ target = 0 /\ fdRet = 0 /\ leaked = FALSE /\ opens = 0

FdInit == \E c \in FdCalls, t \in Tables, m \in BOOLEAN : FdIdle(c, t, m)

-----------------------------------------------------------------------------

\* accept4: EINVAL is that of a kernel that does not know a flag, or of a socket that does
\* not listen, whose accept fails in turn.
Accept4 ==
    /\ At("accept4", "start") /\ flags # {}
    /\ \/ modern /\ ~Wanted("OTHER") /\ fdCall.listens /\ Makes(0, Descriptor("connection", flags, TRUE), "return")
       \/ modern /\ ~Wanted("OTHER") /\ fdCall.listens /\ NoneFree(0) /\ Fails(EMFILE)
       \/ (~modern \/ Wanted("OTHER") \/ ~fdCall.listens) /\ Falls("accept")
    /\ Kept

AfterAccept == IF Wanted("CLOEXEC") THEN "setfd" ELSE IF Wanted("NONBLOCK") THEN "setfl" ELSE "return"

Accept ==
    /\ At("accept4", "accept") \/ (At("accept4", "start") /\ flags = {})
    /\ \/ fdCall.listens /\ Makes(0, Descriptor("connection", {}, TRUE), AfterAccept)
       \/ fdCall.listens /\ NoneFree(0) /\ Fails(EMFILE)
       \/ ~fdCall.listens /\ Fails(EINVAL)
    /\ Kept

\* fcntl(F_SETFL) with O_NONBLOCK.
SetFl ==
    /\ fdStep = "setfl"
    /\ tab' = [tab EXCEPT ![target].nonblock = TRUE]
    /\ GoOn("return")
    /\ UNCHANGED target /\ Kept

\* fcntl(F_SETFD) with FD_CLOEXEC, whose own result nobody looks at.
SetFd ==
    /\ fdStep = "setfd"
    /\ tab' = IF IsOpen(target) THEN [tab EXCEPT ![target].cloexec = TRUE] ELSE tab
    /\ GoOn(IF fdCall.fn = "accept4" /\ Wanted("NONBLOCK") THEN "setfl" ELSE "return")
    /\ UNCHANGED target /\ Kept

\* What the kernel does for dup2 and dup3: EBUSY, on which the loops try again, is waited for.
Duplicates(cloexec, step) ==
    /\ IsOpen(fdCall.old) /\ fdCall.new \in Fds /\ tab[fdCall.new] # Busy
    /\ tab' = [tab EXCEPT ![fdCall.new] = Duplicate(tab[fdCall.old], cloexec)]
    /\ fdStep' = step /\ fdRet' = fdCall.new
NotDuplicable == ~IsOpen(fdCall.old) \/ fdCall.new \notin Fds

Dup3 ==
    /\ At("dup3", "start")
    /\ \/ fdCall.old = fdCall.new /\ Fails(EINVAL)
       \/ fdCall.old # fdCall.new /\ Wanted("CLOEXEC") /\ ~modern /\ Falls("dup2")
       \/ fdCall.old # fdCall.new /\ Wanted("CLOEXEC") /\ modern /\ flags # {"CLOEXEC"} /\ Fails(EINVAL)
       \/ /\ fdCall.old # fdCall.new /\ modern /\ flags = {"CLOEXEC"}
          /\ \/ NotDuplicable /\ Fails(EBADF)
             \/ Duplicates(TRUE, "return") /\ UNCHANGED target
    /\ Kept

\* The flag is set on new, be dup2's result what it may.
Dup2 ==
    LET then == IF Wanted("CLOEXEC") THEN "setfd" ELSE "return"
    IN /\ At("dup3", "dup2") \/ (At("dup3", "start") /\ fdCall.old # fdCall.new /\ ~Wanted("CLOEXEC"))
       /\ \/ NotDuplicable /\ fdStep' = then /\ fdRet' = EBADF /\ UNCHANGED tab
          \/ Duplicates(FALSE, then)
       /\ target' = fdCall.new
       /\ Kept

\* F_DUPFD_CLOEXEC.  EINVAL is that of a kernel without it, or of an arg out of range.
DupFdCloexec ==
    /\ At("fcntl64", "start")
    /\ \/ ~IsOpen(fdCall.old) /\ Fails(EBADF)
       \/ IsOpen(fdCall.old) /\ (~modern \/ fdCall.arg \notin Fds) /\ Falls("probe")
       \/ IsOpen(fdCall.old) /\ modern /\ fdCall.arg \in Fds /\ NoneFree(fdCall.arg) /\ Fails(EMFILE)
       \/ /\ IsOpen(fdCall.old) /\ modern /\ fdCall.arg \in Fds
          /\ Makes(fdCall.arg, Duplicate(tab[fdCall.old], TRUE), "setfd")
    /\ Kept

\* Which of the two is told by another one, from 0 on.
Probe ==
    /\ At("fcntl64", "probe")
    /\ \/ ~modern /\ Falls("dupfd")
       \/ modern /\ NoneFree(0) /\ Fails(EINVAL)
       \/ modern /\ Makes(0, Duplicate(tab[fdCall.old], TRUE), "close")
    /\ Kept

\* Mutant: the probe stays open.
CloseProbeMutant ==
    /\ At("fcntl64", "close")
    /\ Fails(EINVAL)
    /\ Kept

CloseProbe ==
    /\ At("fcntl64", "close")
    /\ tab' = [tab EXCEPT ![target] = Free]
    /\ Answer(EINVAL)
    /\ UNCHANGED target /\ Kept

DupFd ==
    /\ At("fcntl64", "dupfd")
    /\ \/ fdCall.arg \notin Fds /\ Fails(EINVAL)
       \/ fdCall.arg \in Fds /\ NoneFree(fdCall.arg) /\ Fails(EMFILE)
       \/ /\ fdCall.arg \in Fds
          /\ Makes(fdCall.arg, Duplicate(tab[fdCall.old], FALSE), "setfd")
    /\ Kept

\* epoll_create1, eventfd and inotify_init1 do without the flags rather than set them late.
CreateQueue ==
    /\ At("create", "start")
    /\ \/ ~modern /\ flags = {} /\ Falls("old")
       \/ ~modern /\ flags # {} /\ Fails(ENOSYS)
       \/ modern /\ Wanted("OTHER") /\ Fails(EINVAL)
       \/ modern /\ ~Wanted("OTHER") /\ NoneFree(0) /\ Fails(EMFILE)
       \/ modern /\ ~Wanted("OTHER") /\ Makes(0, Descriptor("queue", flags, TRUE), "return")
    /\ Kept

CreateQueueOld ==
    /\ At("create", "old")
    /\ \/ NoneFree(0) /\ Fails(EMFILE)
       \/ Makes(0, Descriptor("queue", {}, TRUE), "return")
    /\ Kept

-----------------------------------------------------------------------------

\* The other thread: a descriptor is taken some time before the file is there.
Elsewhere == UNCHANGED <<modern, fdCall, fdStep, tabBefore, target, fdRet>>
Reserve ==
    /\ opens < MaxOpens /\ opens' = opens + 1
    /\ \E fd \in Lowest(0) : tab' = [tab EXCEPT ![fd] = Busy]
    /\ Elsewhere /\ UNCHANGED leaked
Install ==
    /\ \E fd \in Fds : tab[fd] = Busy /\ tab' = [tab EXCEPT ![fd] = Descriptor("own", {}, FALSE)]
    /\ Elsewhere /\ UNCHANGED <<leaked, opens>>

\* fork and exec: the program gets all descriptors without the flag.
StartProgram ==
    /\ fdStep # "return" /\ ~leaked /\ \E fd \in Fds : IsOpen(fd) /\ tab[fd].new /\ ~tab[fd].cloexec
    /\ leaked' = TRUE
    /\ Elsewhere /\ UNCHANGED <<tab, opens>>

FdStep ==
    \/ Accept4 \/ Accept \/ SetFl \/ SetFd \/ Dup3 \/ Dup2
    \/ DupFdCloexec \/ Probe \/ CloseProbe \/ DupFd \/ CreateQueue \/ CreateQueueOld

FdNext == FdStep \/ Reserve \/ Install \/ StartProgram

FdSpec == FdInit /\ [][FdNext]_fdVars

-----------------------------------------------------------------------------

Made == {fd \in Fds : IsOpen(fd) /\ tab[fd].new}
AsksCloexec == Wanted("CLOEXEC") \/ fdCall.fn = "fcntl64"
Source == IF fdCall.fn = "accept4" THEN Descriptor("connection", flags, TRUE)
          ELSE IF fdCall.fn = "create" THEN Descriptor("queue", flags, TRUE)
          ELSE IF tabBefore[fdCall.old] = Free THEN Descriptor("own", {}, TRUE) ELSE tabBefore[fdCall.old]

\* What was open stays as it was; only dup3 on an old kernel marks new also as it fails.
Untouched(fd) ==
    tabBefore[fd].state = "open" =>
        \/ tab[fd] = tabBefore[fd]
        \/ fdCall.fn = "dup3" /\ fd = fdCall.new /\ ~modern /\ tab[fd] = [tabBefore[fd] EXCEPT !.cloexec = TRUE]

\* A call that returns a descriptor has made that one and no other, of the right file,
\* where it was asked for and with the flags asked for, on old kernels too; one that fails
\* leaves nothing behind; and no program started by another thread is given it meanwhile,
\* unless the kernel cannot set the flag as it makes the descriptor.
Flagged ==
    /\ fdStep = "return" /\ fdRet \in Fds =>
        /\ Made = {fdRet}
        /\ tab[fdRet].file = Source.file /\ (tab[fdRet].nonblock <=> Source.nonblock)
        /\ (tab[fdRet].cloexec <=> AsksCloexec)
        /\ fdCall.fn = "dup3" => fdRet = fdCall.new
        /\ fdCall.fn = "fcntl64" => fdRet >= fdCall.arg
        /\ \A fd \in Fds \ {fdRet} : Untouched(fd)
    /\ fdStep = "return" /\ fdRet \notin Fds => Made = {} /\ \A fd \in Fds : Untouched(fd)
    /\ leaked /\ AsksCloexec => ~modern \/ (fdCall.fn = "accept4" /\ Wanted("OTHER"))

=============================================================================
