------------------------------- MODULE Spawn -------------------------------
(***************************************************************************)
(* posix_spawn (glibc-compatibility/musl/posix_spawn.c) called by several  *)
(* threads at once, on top of the library's own pipe2.  A child shares the *)
(* memory of its parent but has a copy of all its descriptors; the pipe of *)
(* a call tells its parent of an exec that failed, and by its end of file  *)
(* of one that did not.                                                    *)
(***************************************************************************)
EXTENDS Integers, FiniteSets

CONSTANTS
    SpawnCalls, \* calls of posix_spawn, each from a thread of its own
    MaxKills    \* bound on the children that are killed before they exec

ASSUME SpawnAssumption == MaxKills \in Nat /\ "parent" \notin SpawnCalls

VARIABLES
    kernel,     \* "pipe2", or "old": it answers ENOSYS to that
    pc,         \* where each call is
    child,      \* what became of its child
    pipe,       \* who holds the write end of its pipe, "open" or "cloexec"
    msg,        \* the errno in the pipe, 0 for none
    ec,         \* what the call returns
    cut,        \* the calls whose waitpid a signal interrupted
    kills

spawnVars == <<kernel, pc, child, pipe, msg, ec, cut, kills>>

Parent == "parent"
Procs == SpawnCalls \cup {Parent}

EPERM == 1
ENOENT == 2
PipeErrno == 24     \* EMFILE

\* The child runs in the memory of the parent; one that has exec'd or is gone does not.
Shares == {"started", "exec", "failed", "written"}

-----------------------------------------------------------------------------

Goto(c, place) == pc' = [pc EXCEPT ![c] = place]
Becomes(c, state) == child' = [child EXCEPT ![c] = state]
Holders(c) == {p \in Procs : pipe[c][p] # "none"}

\* The descriptors of a process that is gone.
CloseAll(p) == pipe' = [d \in SpawnCalls |-> [pipe[d] EXCEPT ![p] = "none"]]

PipeFails(c) ==
    /\ pc[c] = "idle"
    /\ ec' = [ec EXCEPT ![c] = PipeErrno]
    /\ Goto(c, "done")
    /\ UNCHANGED <<kernel, child, pipe, msg, cut, kills>>

\* pipe2(p, O_CLOEXEC), or pipe(p) where the kernel has no pipe2.
Pipe(c) ==
    /\ pc[c] = "idle"
    /\ IF kernel = "pipe2"
       THEN pipe' = [pipe EXCEPT ![c][Parent] = "cloexec"] /\ Goto(c, "clone")
       ELSE pipe' = [pipe EXCEPT ![c][Parent] = "open"] /\ Goto(c, "setfd")
    /\ UNCHANGED <<kernel, child, msg, ec, cut, kills>>

SetCloexec(c) ==
    /\ pc[c] = "setfd"
    /\ pipe' = [pipe EXCEPT ![c][Parent] = "cloexec"]
    /\ Goto(c, "clone")
    /\ UNCHANGED <<kernel, child, msg, ec, cut, kills>>

\* clone returns -1, whatever errno is, and ec becomes 1.
CloneFails(c) ==
    /\ pc[c] = "clone"
    /\ ec' = [ec EXCEPT ![c] = EPERM]
    /\ Goto(c, "close")
    /\ UNCHANGED <<kernel, child, pipe, msg, cut, kills>>

\* CLONE_VM without CLONE_FILES: all descriptors of the parent are copied.
Clone(c) ==
    /\ pc[c] = "clone"
    /\ Becomes(c, "started")
    /\ pipe' = [d \in SpawnCalls |-> [pipe[d] EXCEPT ![c] = pipe[d][Parent]]]
    /\ Goto(c, "vfork")
    /\ UNCHANGED <<kernel, msg, ec, cut, kills>>

\* close(p[0]), FD_CLOEXEC on its copy of p[1], the signal mask.
Prepare(c) ==
    /\ child[c] = "started"
    /\ Becomes(c, "exec")
    /\ pipe' = [pipe EXCEPT ![c][c] = "cloexec"]
    /\ UNCHANGED <<kernel, pc, msg, ec, cut, kills>>

\* Mutant: a descriptor is inherited whatever its flag.
AfterExecMutant(state) == state

\* What an exec leaves of a descriptor.
AfterExec(state) == IF state = "open" THEN "open" ELSE "none"

Exec(c) ==
    /\ child[c] = "exec"
    /\ Becomes(c, "running")
    /\ pipe' = [d \in SpawnCalls |-> [pipe[d] EXCEPT ![c] = AfterExec(@)]]
    /\ UNCHANGED <<kernel, pc, msg, ec, cut, kills>>

ExecFails(c) ==
    /\ child[c] = "exec"
    /\ Becomes(c, "failed")
    /\ UNCHANGED <<kernel, pc, pipe, msg, ec, cut, kills>>

\* Smaller than PIPE_BUF, so atomic.
WriteErrno(c) ==
    /\ child[c] = "failed"
    /\ msg' = [msg EXCEPT ![c] = ENOENT]
    /\ Becomes(c, "written")
    /\ UNCHANGED <<kernel, pc, pipe, ec, cut, kills>>

\* _exit(127): the memory goes first, by which the parent wakes.
ChildExits(c) ==
    /\ child[c] = "written"
    /\ Becomes(c, "exiting")
    /\ UNCHANGED <<kernel, pc, pipe, msg, ec, cut, kills>>

ChildKilled(c) ==
    /\ child[c] \in Shares
    /\ kills < MaxKills /\ kills' = kills + 1
    /\ Becomes(c, "dying")
    /\ UNCHANGED <<kernel, pc, pipe, msg, ec, cut>>

\* The descriptors are closed, and the child can be waited for.
ChildGone(c) ==
    /\ child[c] \in {"exiting", "dying"}
    /\ Becomes(c, IF child[c] = "exiting" THEN "zombie" ELSE "killed")
    /\ CloseAll(c)
    /\ UNCHANGED <<kernel, pc, msg, ec, cut, kills>>

ProgramExits(c) ==
    /\ child[c] = "running"
    /\ Becomes(c, "exited")
    /\ CloseAll(c)
    /\ UNCHANGED <<kernel, pc, msg, ec, cut, kills>>

\* Mutant: without CLONE_VFORK.
ResumeMutant(c) ==
    /\ pc[c] = "vfork"
    /\ Goto(c, "close")
    /\ UNCHANGED <<kernel, child, pipe, msg, ec, cut, kills>>

\* CLONE_VFORK: the thread of the call sleeps until the child has its own memory.
Resume(c) ==
    /\ pc[c] = "vfork" /\ child[c] \notin Shares
    /\ Goto(c, "close")
    /\ UNCHANGED <<kernel, child, pipe, msg, ec, cut, kills>>

\* Mutant: the parent keeps its write end.
CloseWriteMutant(c) ==
    /\ pc[c] = "close"
    /\ Goto(c, IF ec[c] = 0 THEN "read" ELSE "done")
    /\ UNCHANGED <<kernel, child, pipe, msg, ec, cut, kills>>

\* close(p[1])
CloseWrite(c) ==
    /\ pc[c] = "close"
    /\ pipe' = [pipe EXCEPT ![c][Parent] = "none"]
    /\ Goto(c, IF ec[c] = 0 THEN "read" ELSE "done")
    /\ UNCHANGED <<kernel, child, msg, ec, cut, kills>>

ReadErrno(c) ==
    /\ pc[c] = "read" /\ msg[c] # 0
    /\ ec' = [ec EXCEPT ![c] = msg[c]]
    /\ Goto(c, "wait")
    /\ UNCHANGED <<kernel, child, pipe, msg, cut, kills>>

ReadEof(c) ==
    /\ pc[c] = "read" /\ msg[c] = 0 /\ Holders(c) = {}
    /\ Goto(c, "done")
    /\ UNCHANGED <<kernel, child, pipe, msg, ec, cut, kills>>

\* EINTR of a read that blocks counts like the end of file.
ReadInterrupted(c) ==
    /\ pc[c] = "read" /\ msg[c] = 0 /\ Holders(c) # {}
    /\ Goto(c, "done")
    /\ UNCHANGED <<kernel, child, pipe, msg, ec, cut, kills>>

\* waitpid(pid)
Reap(c) ==
    /\ pc[c] = "wait" /\ child[c] \in {"zombie", "killed"}
    /\ Becomes(c, "reaped")
    /\ Goto(c, "done")
    /\ UNCHANGED <<kernel, pipe, msg, ec, cut, kills>>

\* EINTR of a waitpid that blocks; its result is not looked at.
WaitInterrupted(c) ==
    /\ pc[c] = "wait" /\ child[c] \in {"exiting", "dying"}
    /\ cut' = cut \cup {c}
    /\ Goto(c, "done")
    /\ UNCHANGED <<kernel, child, pipe, msg, ec, kills>>

SpawnInit ==
    /\ kernel \in {"pipe2", "old"}
    /\ pc = [c \in SpawnCalls |-> "idle"]
    /\ child = [c \in SpawnCalls |-> "none"]
    /\ pipe = [c \in SpawnCalls |-> [p \in Procs |-> "none"]]
    /\ msg = [c \in SpawnCalls |-> 0]
    /\ ec = [c \in SpawnCalls |-> 0]
    /\ cut = {} /\ kills = 0

SpawnStep(c) ==
    \/ SetCloexec(c) \/ CloneFails(c) \/ Clone(c)
    \/ Prepare(c) \/ Exec(c) \/ ExecFails(c) \/ WriteErrno(c) \/ ChildExits(c) \/ ChildGone(c)
    \/ Resume(c) \/ CloseWrite(c) \/ ReadErrno(c) \/ ReadEof(c) \/ Reap(c)

SpawnNext ==
    \E c \in SpawnCalls :
        \/ Pipe(c) \/ PipeFails(c) \/ SpawnStep(c) \/ ChildKilled(c) \/ ProgramExits(c)
        \/ ReadInterrupted(c) \/ WaitInterrupted(c)

\* Threads and children are scheduled.  That signals come and programs end is
\* not assumed.
SpawnSpec == SpawnInit /\ [][SpawnNext]_spawnVars /\ \A c \in SpawnCalls : WF_spawnVars(SpawnStep(c))
-----------------------------------------------------------------------------

\* The variables hold what the comments on their declarations say.
TypeOK ==
    /\ kernel \in {"pipe2", "old"}
    /\ pc \in [SpawnCalls -> {"idle", "setfd", "clone", "vfork", "close", "read", "wait", "done"}]
    /\ child \in [SpawnCalls -> Shares \cup {"none", "running", "exiting", "dying", "zombie", "killed", "exited", "reaped"}]
    /\ pipe \in [SpawnCalls -> [Procs -> {"none", "open", "cloexec"}]]
    /\ msg \in [SpawnCalls -> {0, ENOENT}]
    /\ ec \in [SpawnCalls -> {0, EPERM, ENOENT, PipeErrno}]
    /\ cut \subseteq SpawnCalls /\ kills \in 0..MaxKills

\* Success is reported of a program that started, or of a child that somebody
\* killed before and the caller can wait for.  A failure leaves a child behind
\* only if a signal interrupted the waitpid for it: one whose exec failed, or that
\* was killed after it said so, and that nobody knows the pid of.
Told ==
    \A c \in SpawnCalls : pc[c] = "done" =>
        CASE ec[c] = 0 -> child[c] \in {"running", "exited", "dying", "killed"}
          [] ec[c] # 0 /\ c \notin cut -> child[c] \in {"none", "reaped"}
          [] OTHER -> ec[c] = ENOENT /\ child[c] \in {"exiting", "zombie", "dying", "killed"}

\* A program gets none of the pipes of the calls that run beside it, except
\* from a kernel without pipe2, and never its own.
InheritsNothing ==
    \A c, d \in SpawnCalls : child[c] = "running" /\ pipe[d][c] # "none" => c # d /\ kernel = "old"

\* Every call returns, also when the programs it and others started do not
\* end; only on an old kernel it may wait for one that holds its pipe.
Comes(c) ==
    \/ pc[c] = "done"
    \/ kernel = "old" /\ \E d \in SpawnCalls \ {c} : child[d] = "running" /\ pipe[c][d] = "open"
Returns == \A c \in SpawnCalls : pc[c] # "idle" ~> Comes(c)
=============================================================================
