---------------------------- MODULE SpawnProofs ----------------------------
(***************************************************************************)
(* Proofs about Spawn, for any number of calls at once.  A call reads its  *)
(* pipe when its child has exec'd or is gone, so that an errno is in it by *)
(* then or never comes; and a child has FD_CLOEXEC on its own pipe before  *)
(* it tries to exec.                                                       *)
(***************************************************************************)
EXTENDS Spawn, TLAPS

\* TypeOK in two parts.
CallTypes ==
    /\ kernel \in {"pipe2", "old"}
    /\ pc \in [SpawnCalls -> {"idle", "setfd", "clone", "vfork", "close", "read", "wait", "done"}]
    /\ child \in [SpawnCalls -> Shares \cup {"none", "running", "exiting", "dying", "zombie", "killed", "exited", "reaped"}]
    /\ msg \in [SpawnCalls -> {0, ENOENT}]
    /\ ec \in [SpawnCalls -> {0, EPERM, ENOENT, PipeErrno}]
    /\ cut \subseteq SpawnCalls /\ kills \in 0..MaxKills

PipeTypes == pipe \in [SpawnCalls -> [Procs -> {"none", "open", "cloexec"}]]

\* A child that failed has left its errno, one that did not has not.
Message ==
    \A d \in SpawnCalls :
        /\ child[d] \in {"written", "exiting", "zombie"} => msg[d] # 0
        /\ child[d] \in {"none", "started", "exec", "failed", "running", "exited"} => msg[d] = 0

\* Where a call is and where its child can be.
Together ==
    \A d \in SpawnCalls :
        /\ pc[d] \in {"idle", "setfd", "clone"} => child[d] = "none" /\ ec[d] = 0
        /\ pc[d] = "vfork" => child[d] \notin {"none", "reaped"} /\ ec[d] = 0
        /\ pc[d] = "close" =>
              IF ec[d] = 0 THEN child[d] \in {"running", "exiting", "dying", "zombie", "killed", "exited"} ELSE child[d] = "none"
        /\ pc[d] = "read" => child[d] \in {"running", "exiting", "dying", "zombie", "killed", "exited"} /\ ec[d] = 0
        /\ pc[d] = "wait" => child[d] \in {"exiting", "dying", "zombie", "killed"} /\ ec[d] = ENOENT
        /\ d \in cut => pc[d] = "done"

\* The flags on the way to the exec.
Flags ==
    /\ \A d \in SpawnCalls : child[d] = "exec" => pipe[d][d] = "cloexec"
    /\ \A d \in SpawnCalls : child[d] \notin Shares \cup {"exiting", "dying"} => pipe[d][d] = "none"

AllCloexec == kernel = "pipe2" => \A d \in SpawnCalls, p \in Procs : pipe[d][p] # "open"

\* A running program has of a pipe only what was open.
Programs == \A d, p \in SpawnCalls : child[p] = "running" => pipe[d][p] # "cloexec"

Inv ==
    /\ CallTypes /\ PipeTypes /\ Message /\ Together /\ Told
    /\ Flags /\ AllCloexec /\ Programs

-----------------------------------------------------------------------------

LEMMA InitInv == SpawnInit => Inv
  <1> SUFFICES ASSUME SpawnInit PROVE Inv
    OBVIOUS
  <1>1. MaxKills \in Nat
    BY SpawnAssumption
  <1>2. CallTypes /\ PipeTypes
    BY <1>1 DEF SpawnInit, CallTypes, PipeTypes
  <1>3. Message /\ Together /\ Told /\ Flags /\ AllCloexec /\ Programs
    BY DEF SpawnInit, Message, Together, Told, Flags, AllCloexec, Programs, Procs, Shares
  <1> QED BY <1>2, <1>3 DEF Inv

LEMMA StepCallTypes ==
  ASSUME CallTypes, [SpawnNext]_spawnVars PROVE CallTypes'
  <1>0. MaxKills \in Nat
    BY SpawnAssumption
  <1> USE <1>0
  <1> USE DEF CallTypes, Shares, Goto, Becomes
  <1>1. CASE UNCHANGED spawnVars BY <1>1 DEF spawnVars
  <1>2. ASSUME NEW c \in SpawnCalls, Pipe(c) \/ PipeFails(c) \/ SpawnStep(c) \/ ChildKilled(c)
          \/ ProgramExits(c) \/ ReadInterrupted(c) \/ WaitInterrupted(c)
        PROVE  CallTypes'
    <2>1. CASE PipeFails(c) BY <2>1 DEF PipeFails
    <2>2. CASE Pipe(c) BY <2>2 DEF Pipe
    <2>3. CASE SetCloexec(c) BY <2>3 DEF SetCloexec
    <2>4. CASE CloneFails(c) BY <2>4 DEF CloneFails
    <2>5. CASE Clone(c) BY <2>5 DEF Clone
    <2>6. CASE Prepare(c) BY <2>6 DEF Prepare
    <2>7. CASE Exec(c) BY <2>7 DEF Exec, AfterExec
    <2>8. CASE ExecFails(c) BY <2>8 DEF ExecFails
    <2>9. CASE WriteErrno(c) BY <2>9 DEF WriteErrno
    <2>10. CASE ChildExits(c) BY <2>10 DEF ChildExits
    <2>11. CASE ChildKilled(c) BY <2>11 DEF ChildKilled
    <2>12. CASE ProgramExits(c) BY <2>12 DEF ProgramExits, CloseAll
    <2>13. CASE Resume(c) BY <2>13 DEF Resume
    <2>14. CASE CloseWrite(c) BY <2>14 DEF CloseWrite
    <2>15. CASE ReadErrno(c) BY <2>15 DEF ReadErrno
    <2>16. CASE ReadEof(c) BY <2>16 DEF ReadEof
    <2>17. CASE ReadInterrupted(c) BY <2>17 DEF ReadInterrupted
    <2>18. CASE Reap(c) BY <2>18 DEF Reap
    <2>19. CASE WaitInterrupted(c) BY <2>19 DEF WaitInterrupted
    <2>20. CASE ChildGone(c) BY <2>20 DEF ChildGone, CloseAll
    <2> QED BY <1>2, <2>1, <2>2, <2>3, <2>4, <2>5, <2>6, <2>7, <2>8, <2>9, <2>10, <2>11, <2>12, <2>13, <2>14, <2>15, <2>16, <2>17, <2>18, <2>19, <2>20
      DEF SpawnStep
  <1> QED BY <1>1, <1>2 DEF SpawnNext

LEMMA StepPipeTypes ==
  ASSUME PipeTypes, [SpawnNext]_spawnVars PROVE PipeTypes'
  <1> USE DEF PipeTypes, Procs, Goto, Becomes
  <1>1. CASE UNCHANGED spawnVars BY <1>1 DEF spawnVars
  <1>2. ASSUME NEW c \in SpawnCalls, Pipe(c) \/ PipeFails(c) \/ SpawnStep(c) \/ ChildKilled(c)
          \/ ProgramExits(c) \/ ReadInterrupted(c) \/ WaitInterrupted(c)
        PROVE  PipeTypes'
    <2>1. CASE PipeFails(c) BY <2>1 DEF PipeFails
    <2>2. CASE Pipe(c)
      <3>1. pipe' = [pipe EXCEPT ![c] = [pipe[c] EXCEPT ![Parent] = "cloexec"]]
            \/ pipe' = [pipe EXCEPT ![c] = [pipe[c] EXCEPT ![Parent] = "open"]]
        BY <2>2 DEF Pipe
      <3>2. [pipe[c] EXCEPT ![Parent] = "cloexec"] \in [Procs -> {"none", "open", "cloexec"}]
        OBVIOUS
      <3>3. [pipe[c] EXCEPT ![Parent] = "open"] \in [Procs -> {"none", "open", "cloexec"}]
        OBVIOUS
      <3> QED BY <3>1, <3>2, <3>3
    <2>3. CASE SetCloexec(c) BY <2>3 DEF SetCloexec
    <2>4. CASE CloneFails(c) BY <2>4 DEF CloneFails
    <2>5. CASE Clone(c) BY <2>5 DEF Clone
    <2>6. CASE Prepare(c) BY <2>6 DEF Prepare
    <2>7. CASE Exec(c) BY <2>7 DEF Exec, AfterExec
    <2>8. CASE ExecFails(c) BY <2>8 DEF ExecFails
    <2>9. CASE WriteErrno(c) BY <2>9 DEF WriteErrno
    <2>10. CASE ChildExits(c) BY <2>10 DEF ChildExits
    <2>11. CASE ChildKilled(c) BY <2>11 DEF ChildKilled
    <2>12. CASE ProgramExits(c) BY <2>12 DEF ProgramExits, CloseAll
    <2>13. CASE Resume(c) BY <2>13 DEF Resume
    <2>14. CASE CloseWrite(c) BY <2>14 DEF CloseWrite
    <2>15. CASE ReadErrno(c) BY <2>15 DEF ReadErrno
    <2>16. CASE ReadEof(c) BY <2>16 DEF ReadEof
    <2>17. CASE ReadInterrupted(c) BY <2>17 DEF ReadInterrupted
    <2>18. CASE Reap(c) BY <2>18 DEF Reap
    <2>19. CASE WaitInterrupted(c) BY <2>19 DEF WaitInterrupted
    <2>20. CASE ChildGone(c) BY <2>20 DEF ChildGone, CloseAll
    <2> QED BY <1>2, <2>1, <2>2, <2>3, <2>4, <2>5, <2>6, <2>7, <2>8, <2>9, <2>10, <2>11, <2>12, <2>13, <2>14, <2>15, <2>16, <2>17, <2>18, <2>19, <2>20
      DEF SpawnStep
  <1> QED BY <1>1, <1>2 DEF SpawnNext

LEMMA StepMessage ==
  ASSUME CallTypes, Message, Together, [SpawnNext]_spawnVars PROVE Message'
  <1> USE DEF CallTypes, Message, Together, Shares, ENOENT, Goto, Becomes
  <1>1. CASE UNCHANGED spawnVars BY <1>1 DEF spawnVars
  <1>2. ASSUME NEW c \in SpawnCalls, Pipe(c) \/ PipeFails(c) \/ SpawnStep(c) \/ ChildKilled(c)
          \/ ProgramExits(c) \/ ReadInterrupted(c) \/ WaitInterrupted(c)
        PROVE  Message'
    <2>1. CASE PipeFails(c) BY <2>1 DEF PipeFails
    <2>2. CASE Pipe(c) BY <2>2 DEF Pipe
    <2>3. CASE SetCloexec(c) BY <2>3 DEF SetCloexec
    <2>4. CASE CloneFails(c) BY <2>4 DEF CloneFails
    <2>5. CASE Clone(c) BY <2>5 DEF Clone
    <2>6. CASE Prepare(c) BY <2>6 DEF Prepare
    <2>7. CASE Exec(c) BY <2>7 DEF Exec, AfterExec
    <2>8. CASE ExecFails(c) BY <2>8 DEF ExecFails
    <2>9. CASE WriteErrno(c) BY <2>9 DEF WriteErrno
    <2>10. CASE ChildExits(c) BY <2>10 DEF ChildExits
    <2>11. CASE ChildKilled(c) BY <2>11 DEF ChildKilled
    <2>12. CASE ProgramExits(c) BY <2>12 DEF ProgramExits, CloseAll
    <2>13. CASE Resume(c) BY <2>13 DEF Resume
    <2>14. CASE CloseWrite(c) BY <2>14 DEF CloseWrite
    <2>15. CASE ReadErrno(c) BY <2>15 DEF ReadErrno
    <2>16. CASE ReadEof(c) BY <2>16 DEF ReadEof
    <2>17. CASE ReadInterrupted(c) BY <2>17 DEF ReadInterrupted
    <2>18. CASE Reap(c) BY <2>18 DEF Reap
    <2>19. CASE WaitInterrupted(c) BY <2>19 DEF WaitInterrupted
    <2>20. CASE ChildGone(c) BY <2>20 DEF ChildGone, CloseAll
    <2> QED BY <1>2, <2>1, <2>2, <2>3, <2>4, <2>5, <2>6, <2>7, <2>8, <2>9, <2>10, <2>11, <2>12, <2>13, <2>14, <2>15, <2>16, <2>17, <2>18, <2>19, <2>20
      DEF SpawnStep
  <1> QED BY <1>1, <1>2 DEF SpawnNext

LEMMA StepTogether ==
  ASSUME CallTypes, Message, Together, [SpawnNext]_spawnVars PROVE Together'
  <1> USE DEF CallTypes, Message, Together, Shares, ENOENT, EPERM, PipeErrno, Goto, Becomes
  <1>1. CASE UNCHANGED spawnVars BY <1>1 DEF spawnVars
  <1>2. ASSUME NEW c \in SpawnCalls, Pipe(c) \/ PipeFails(c) \/ SpawnStep(c) \/ ChildKilled(c)
          \/ ProgramExits(c) \/ ReadInterrupted(c) \/ WaitInterrupted(c)
        PROVE  Together'
    <2>1. CASE PipeFails(c) BY <2>1 DEF PipeFails
    <2>2. CASE Pipe(c) BY <2>2 DEF Pipe
    <2>3. CASE SetCloexec(c) BY <2>3 DEF SetCloexec
    <2>4. CASE CloneFails(c) BY <2>4 DEF CloneFails
    <2>5. CASE Clone(c) BY <2>5 DEF Clone
    <2>6. CASE Prepare(c) BY <2>6 DEF Prepare
    <2>7. CASE Exec(c) BY <2>7 DEF Exec, AfterExec
    <2>8. CASE ExecFails(c) BY <2>8 DEF ExecFails
    <2>9. CASE WriteErrno(c) BY <2>9 DEF WriteErrno
    <2>10. CASE ChildExits(c) BY <2>10 DEF ChildExits
    <2>11. CASE ChildKilled(c) BY <2>11 DEF ChildKilled
    <2>12. CASE ProgramExits(c) BY <2>12 DEF ProgramExits, CloseAll
    <2>13. CASE Resume(c) BY <2>13 DEF Resume
    <2>14. CASE CloseWrite(c) BY <2>14 DEF CloseWrite
    <2>15. CASE ReadErrno(c) BY <2>15 DEF ReadErrno
    <2>16. CASE ReadEof(c) BY <2>16 DEF ReadEof
    <2>17. CASE ReadInterrupted(c) BY <2>17 DEF ReadInterrupted
    <2>18. CASE Reap(c) BY <2>18 DEF Reap
    <2>19. CASE WaitInterrupted(c) BY <2>19 DEF WaitInterrupted
    <2>20. CASE ChildGone(c) BY <2>20 DEF ChildGone, CloseAll
    <2> QED BY <1>2, <2>1, <2>2, <2>3, <2>4, <2>5, <2>6, <2>7, <2>8, <2>9, <2>10, <2>11, <2>12, <2>13, <2>14, <2>15, <2>16, <2>17, <2>18, <2>19, <2>20
      DEF SpawnStep
  <1> QED BY <1>1, <1>2 DEF SpawnNext

LEMMA StepTold ==
  ASSUME CallTypes, Message, Together, Told, [SpawnNext]_spawnVars PROVE Told'
  <1> USE DEF CallTypes, Message, Together, Told, Shares, ENOENT, EPERM, PipeErrno, Goto, Becomes
  <1>1. CASE UNCHANGED spawnVars BY <1>1 DEF spawnVars
  <1>2. ASSUME NEW c \in SpawnCalls, Pipe(c) \/ PipeFails(c) \/ SpawnStep(c) \/ ChildKilled(c)
          \/ ProgramExits(c) \/ ReadInterrupted(c) \/ WaitInterrupted(c)
        PROVE  Told'
    <2>1. CASE PipeFails(c) BY <2>1 DEF PipeFails
    <2>2. CASE Pipe(c) BY <2>2 DEF Pipe
    <2>3. CASE SetCloexec(c) BY <2>3 DEF SetCloexec
    <2>4. CASE CloneFails(c) BY <2>4 DEF CloneFails
    <2>5. CASE Clone(c) BY <2>5 DEF Clone
    <2>6. CASE Prepare(c) BY <2>6 DEF Prepare
    <2>7. CASE Exec(c) BY <2>7 DEF Exec, AfterExec
    <2>8. CASE ExecFails(c) BY <2>8 DEF ExecFails
    <2>9. CASE WriteErrno(c) BY <2>9 DEF WriteErrno
    <2>10. CASE ChildExits(c) BY <2>10 DEF ChildExits
    <2>11. CASE ChildKilled(c) BY <2>11 DEF ChildKilled
    <2>12. CASE ProgramExits(c) BY <2>12 DEF ProgramExits, CloseAll
    <2>13. CASE Resume(c) BY <2>13 DEF Resume
    <2>14. CASE CloseWrite(c) BY <2>14 DEF CloseWrite
    <2>15. CASE ReadErrno(c) BY <2>15 DEF ReadErrno
    <2>16. CASE ReadEof(c) BY <2>16 DEF ReadEof
    <2>17. CASE ReadInterrupted(c) BY <2>17 DEF ReadInterrupted
    <2>18. CASE Reap(c) BY <2>18 DEF Reap
    <2>19. CASE WaitInterrupted(c) BY <2>19 DEF WaitInterrupted
    <2>20. CASE ChildGone(c) BY <2>20 DEF ChildGone, CloseAll
    <2> QED BY <1>2, <2>1, <2>2, <2>3, <2>4, <2>5, <2>6, <2>7, <2>8, <2>9, <2>10, <2>11, <2>12, <2>13, <2>14, <2>15, <2>16, <2>17, <2>18, <2>19, <2>20
      DEF SpawnStep
  <1> QED BY <1>1, <1>2 DEF SpawnNext

LEMMA StepFlags ==
  ASSUME CallTypes, PipeTypes, Flags, [SpawnNext]_spawnVars PROVE Flags'
  <1>0. "parent" \notin SpawnCalls
    BY SpawnAssumption
  <1> USE <1>0
  <1> USE DEF CallTypes, PipeTypes, Together, Flags, Procs, Parent, Shares, Goto, Becomes
  <1>1. CASE UNCHANGED spawnVars BY <1>1 DEF spawnVars
  <1>2. ASSUME NEW c \in SpawnCalls, Pipe(c) \/ PipeFails(c) \/ SpawnStep(c) \/ ChildKilled(c)
          \/ ProgramExits(c) \/ ReadInterrupted(c) \/ WaitInterrupted(c)
        PROVE  Flags'
    <2>1. CASE PipeFails(c) BY <2>1 DEF PipeFails
    <2>2. CASE Pipe(c) BY <2>2 DEF Pipe
    <2>3. CASE SetCloexec(c) BY <2>3 DEF SetCloexec
    <2>4. CASE CloneFails(c) BY <2>4 DEF CloneFails
    <2>5. CASE Clone(c) BY <2>5 DEF Clone
    <2>6. CASE Prepare(c) BY <2>6 DEF Prepare
    <2>7. CASE Exec(c) BY <2>7 DEF Exec, AfterExec
    <2>8. CASE ExecFails(c) BY <2>8 DEF ExecFails
    <2>9. CASE WriteErrno(c) BY <2>9 DEF WriteErrno
    <2>10. CASE ChildExits(c) BY <2>10 DEF ChildExits
    <2>11. CASE ChildKilled(c) BY <2>11 DEF ChildKilled
    <2>12. CASE ProgramExits(c) BY <2>12 DEF ProgramExits, CloseAll
    <2>13. CASE Resume(c) BY <2>13 DEF Resume
    <2>14. CASE CloseWrite(c) BY <2>14 DEF CloseWrite
    <2>15. CASE ReadErrno(c) BY <2>15 DEF ReadErrno
    <2>16. CASE ReadEof(c) BY <2>16 DEF ReadEof
    <2>17. CASE ReadInterrupted(c) BY <2>17 DEF ReadInterrupted
    <2>18. CASE Reap(c) BY <2>18 DEF Reap
    <2>19. CASE WaitInterrupted(c) BY <2>19 DEF WaitInterrupted
    <2>20. CASE ChildGone(c) BY <2>20 DEF ChildGone, CloseAll
    <2> QED BY <1>2, <2>1, <2>2, <2>3, <2>4, <2>5, <2>6, <2>7, <2>8, <2>9, <2>10, <2>11, <2>12, <2>13, <2>14, <2>15, <2>16, <2>17, <2>18, <2>19, <2>20
      DEF SpawnStep
  <1> QED BY <1>1, <1>2 DEF SpawnNext

LEMMA StepAllCloexec ==
  ASSUME CallTypes, PipeTypes, AllCloexec, [SpawnNext]_spawnVars PROVE AllCloexec'
  <1> USE DEF CallTypes, PipeTypes, AllCloexec, Procs, Parent, Goto, Becomes
  <1>1. CASE UNCHANGED spawnVars BY <1>1 DEF spawnVars
  <1>2. ASSUME NEW c \in SpawnCalls, Pipe(c) \/ PipeFails(c) \/ SpawnStep(c) \/ ChildKilled(c)
          \/ ProgramExits(c) \/ ReadInterrupted(c) \/ WaitInterrupted(c)
        PROVE  AllCloexec'
    <2>1. CASE PipeFails(c) BY <2>1 DEF PipeFails
    <2>2. CASE Pipe(c) BY <2>2 DEF Pipe
    <2>3. CASE SetCloexec(c) BY <2>3 DEF SetCloexec
    <2>4. CASE CloneFails(c) BY <2>4 DEF CloneFails
    <2>5. CASE Clone(c) BY <2>5 DEF Clone
    <2>6. CASE Prepare(c) BY <2>6 DEF Prepare
    <2>7. CASE Exec(c) BY <2>7 DEF Exec, AfterExec
    <2>8. CASE ExecFails(c) BY <2>8 DEF ExecFails
    <2>9. CASE WriteErrno(c) BY <2>9 DEF WriteErrno
    <2>10. CASE ChildExits(c) BY <2>10 DEF ChildExits
    <2>11. CASE ChildKilled(c) BY <2>11 DEF ChildKilled
    <2>12. CASE ProgramExits(c) BY <2>12 DEF ProgramExits, CloseAll
    <2>13. CASE Resume(c) BY <2>13 DEF Resume
    <2>14. CASE CloseWrite(c) BY <2>14 DEF CloseWrite
    <2>15. CASE ReadErrno(c) BY <2>15 DEF ReadErrno
    <2>16. CASE ReadEof(c) BY <2>16 DEF ReadEof
    <2>17. CASE ReadInterrupted(c) BY <2>17 DEF ReadInterrupted
    <2>18. CASE Reap(c) BY <2>18 DEF Reap
    <2>19. CASE WaitInterrupted(c) BY <2>19 DEF WaitInterrupted
    <2>20. CASE ChildGone(c) BY <2>20 DEF ChildGone, CloseAll
    <2> QED BY <1>2, <2>1, <2>2, <2>3, <2>4, <2>5, <2>6, <2>7, <2>8, <2>9, <2>10, <2>11, <2>12, <2>13, <2>14, <2>15, <2>16, <2>17, <2>18, <2>19, <2>20
      DEF SpawnStep
  <1> QED BY <1>1, <1>2 DEF SpawnNext

LEMMA StepPrograms ==
  ASSUME CallTypes, PipeTypes, Together, Programs, [SpawnNext]_spawnVars PROVE Programs'
  <1>0. "parent" \notin SpawnCalls
    BY SpawnAssumption
  <1> USE <1>0
  <1> USE DEF CallTypes, PipeTypes, Together, Programs, Procs, Parent, Shares, Goto, Becomes
  <1>1. CASE UNCHANGED spawnVars BY <1>1 DEF spawnVars
  <1>2. ASSUME NEW c \in SpawnCalls, Pipe(c) \/ PipeFails(c) \/ SpawnStep(c) \/ ChildKilled(c)
          \/ ProgramExits(c) \/ ReadInterrupted(c) \/ WaitInterrupted(c)
        PROVE  Programs'
    <2>1. CASE PipeFails(c) BY <2>1 DEF PipeFails
    <2>2. CASE Pipe(c)
      <3>1. pipe' = [pipe EXCEPT ![c] = [pipe[c] EXCEPT ![Parent] = "cloexec"]]
            \/ pipe' = [pipe EXCEPT ![c] = [pipe[c] EXCEPT ![Parent] = "open"]]
        BY <2>2 DEF Pipe
      <3>2. UNCHANGED child
        BY <2>2 DEF Pipe
      <3> QED BY <3>1, <3>2 DEF Parent
    <2>3. CASE SetCloexec(c) BY <2>3 DEF SetCloexec
    <2>4. CASE CloneFails(c) BY <2>4 DEF CloneFails
    <2>5. CASE Clone(c) BY <2>5 DEF Clone
    <2>6. CASE Prepare(c) BY <2>6 DEF Prepare
    <2>7. CASE Exec(c) BY <2>7 DEF Exec, AfterExec
    <2>8. CASE ExecFails(c) BY <2>8 DEF ExecFails
    <2>9. CASE WriteErrno(c) BY <2>9 DEF WriteErrno
    <2>10. CASE ChildExits(c) BY <2>10 DEF ChildExits
    <2>11. CASE ChildKilled(c) BY <2>11 DEF ChildKilled
    <2>12. CASE ProgramExits(c) BY <2>12 DEF ProgramExits, CloseAll
    <2>13. CASE Resume(c) BY <2>13 DEF Resume
    <2>14. CASE CloseWrite(c) BY <2>14 DEF CloseWrite
    <2>15. CASE ReadErrno(c) BY <2>15 DEF ReadErrno
    <2>16. CASE ReadEof(c) BY <2>16 DEF ReadEof
    <2>17. CASE ReadInterrupted(c) BY <2>17 DEF ReadInterrupted
    <2>18. CASE Reap(c) BY <2>18 DEF Reap
    <2>19. CASE WaitInterrupted(c) BY <2>19 DEF WaitInterrupted
    <2>20. CASE ChildGone(c) BY <2>20 DEF ChildGone, CloseAll
    <2> QED BY <1>2, <2>1, <2>2, <2>3, <2>4, <2>5, <2>6, <2>7, <2>8, <2>9, <2>10, <2>11, <2>12, <2>13, <2>14, <2>15, <2>16, <2>17, <2>18, <2>19, <2>20
      DEF SpawnStep
  <1> QED BY <1>1, <1>2 DEF SpawnNext

LEMMA NextInv == Inv /\ [SpawnNext]_spawnVars => Inv'
  BY StepCallTypes, StepPipeTypes, StepMessage, StepTogether, StepTold, StepFlags, StepAllCloexec,
     StepPrograms DEF Inv

\* Type correctness of posix_spawn.
THEOREM SpawnTypes == SpawnSpec => []TypeOK
  <1>1. Inv => TypeOK
    BY DEF Inv, CallTypes, PipeTypes, TypeOK
  <1> QED BY InitInv, NextInv, <1>1, PTL DEF SpawnSpec

\* What posix_spawn reports of its child is so, for any number of concurrent
\* calls, children that are killed, and reads and waitpids that are interrupted:
\* only the last can leave a child of a failed call unwaited for.
THEOREM ToldRight == SpawnSpec => []Told
  <1>1. Inv => Told
    BY DEF Inv
  <1> QED BY InitInv, NextInv, <1>1, PTL DEF SpawnSpec

\* No program is started with a pipe of posix_spawn, if the kernel has pipe2;
\* with its own, never.
THEOREM NothingInherited == SpawnSpec => []InheritsNothing
  <1>1. Inv => InheritsNothing
    <2> SUFFICES ASSUME Inv, NEW c \in SpawnCalls, NEW d \in SpawnCalls, child[c] = "running", pipe[d][c] # "none"
                 PROVE  c # d /\ kernel = "old"
      BY DEF InheritsNothing
    <2> USE DEF Inv
    <2>1. c \in Procs /\ pipe[d][c] \in {"none", "open", "cloexec"}
      BY DEF PipeTypes, Procs
    <2>2. pipe[d][c] = "open"
      BY <2>1 DEF Programs
    <2>3. kernel = "old"
      BY <2>1, <2>2 DEF AllCloexec, CallTypes
    <2>4. c # d
      BY DEF Flags, Shares
    <2> QED BY <2>3, <2>4
  <1> QED BY InitInv, NextInv, <1>1, PTL DEF SpawnSpec
=============================================================================
