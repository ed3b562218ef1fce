--------------------------- MODULE InstallerProofs ---------------------------
(***************************************************************************)
(* Proofs about Installer, for any number of invocations, directories,     *)
(* failures and kills.  That an announced toolchain keeps working rests on *)
(* two facts about users who do not install twice at the same time to the  *)
(* same directory: a running invocation has its directory to itself, and   *)
(* none comes past the test for existence once there is something.         *)
(***************************************************************************)
EXTENDS Installer, TLAPS

\* The hidden directory exists from mktemp to mv, and is whole at the mv.
TempLife ==
    \A i \in Installers :
        /\ pc[i] = "move" => temp[i] = "whole"
        /\ pc[i] \notin {"untar", "move", "exit", "killed"} => temp[i] = "none"

\* After the mv the toolchain is in its place.
Placed ==
    \A i \in Installers :
        pc[i] \in {"patch", "write", "sed", "gcc", "clang"} => files[dir[i]] = "whole"

\* A message ends the script.
Silent == \A i \in Installers : said[i] # "nothing" => pc[i] \in {"exit", "end", "killed"}

\* TypeOK in three parts.
ScriptTypes ==
    /\ pc \in [Installers -> Running \cup {"idle", "end", "killed"}]
    /\ dir \in [Installers -> Dirs]
    /\ old \in [Installers -> BOOLEAN]
    /\ group \in [Installers -> Groups]
    /\ said \in [Installers -> {"nothing", "usage", "exists", "cannot compile", "congratulations"}]
    /\ temp \in [Installers -> Content]

TreeTypes ==
    /\ files \in [Dirs -> Content]
    /\ reloc \in [Dirs \X Groups -> {"packed", "torn", "here"}]
    /\ abi \in [Dirs -> {"new", "old"}]
    /\ nested \in [Dirs -> SUBSET Installers]

CounterTypes == fails \in 0..MaxFails /\ kills \in 0..MaxKills

Always == ScriptTypes /\ TreeTypes /\ CounterTypes /\ OnlyWhole /\ TempLife /\ Placed /\ Silent

\* The rest is for users who do not install twice at a time to a directory.
Alone ==
    \A i, j \in Installers :
        pc[i] \in Running /\ pc[j] \in Running /\ i # j => dir[i] # dir[j]

\* Up to the mv there is still nothing.
Fresh == \A i \in Installers : pc[i] \in {"mktemp", "untar", "move"} => files[dir[i]] = "none"

\* What gcc was tried on is still so when clang is tried.
Halfway ==
    \A i \in Installers : pc[i] = "clang" =>
        \A g \in GccNeeds : reloc[<<dir[i], g>>] = "here"

\* Nobody works on an announced toolchain.
Inside == {"patch", "write", "sed", "gcc", "clang"}
Untouched ==
    \A i, j \in Installers :
        said[i] = "congratulations" /\ pc[j] \in Inside => dir[i] # dir[j]

Unmixed == \A d \in Dirs : nested[d] = {}

Exclusive == Alone /\ Fresh /\ Halfway /\ Untouched /\ Unmixed /\ StillWorks

LEMMA InitAlways == Init => Always
  <1> SUFFICES ASSUME Init PROVE Always
    OBVIOUS
  <1>1. MaxFails \in Nat /\ MaxKills \in Nat
    BY InstallerAssumption
  <1>2. ScriptTypes /\ TreeTypes /\ CounterTypes
    BY <1>1 DEF Init, ScriptTypes, TreeTypes, CounterTypes, Groups, Content
  <1>3. OnlyWhole /\ TempLife /\ Placed /\ Silent
    BY DEF Init, OnlyWhole, TempLife, Placed, Silent
  <1> QED BY <1>2, <1>3 DEF Always

LEMMA GroupAfter ==
  ASSUME NEW g \in Groups PROVE (IF g < 4 THEN g + 1 ELSE g) \in Groups
  BY DEF Groups

LEMMA MoveTypes ==
  ASSUME ScriptTypes, TreeTypes, NEW i \in Installers, Move(i)
  PROVE  files' \in [Dirs -> Content] /\ nested' \in [Dirs -> SUBSET Installers]
  <1>1. temp[i] \in Content /\ dir[i] \in Dirs
    BY DEF ScriptTypes
  <1>2. files \in [Dirs -> Content] /\ nested \in [Dirs -> SUBSET Installers]
    BY DEF TreeTypes
  <1>3. CASE files[dir[i]] = "none"
    <2>1. files' = [files EXCEPT ![dir[i]] = temp[i]] /\ nested' = nested
      BY <1>3 DEF Move
    <2> QED BY <1>1, <1>2, <2>1
  <1>4. CASE files[dir[i]] # "none"
    <2>1. nested' = [nested EXCEPT ![dir[i]] = nested[dir[i]] \cup {i}] /\ files' = files
      BY <1>1, <1>2, <1>4 DEF Move
    <2>2. nested[dir[i]] \cup {i} \in SUBSET Installers
      BY <1>1, <1>2
    <2> QED BY <1>1, <1>2, <2>1, <2>2
  <1> QED BY <1>3, <1>4

LEMMA StepScript ==
  ASSUME ScriptTypes, [Next]_vars PROVE ScriptTypes'
  <1> USE DEF ScriptTypes, Groups, Content, Running, Goto, Say, Here, arg, tree, faults
  <1>1. CASE UNCHANGED vars BY <1>1 DEF vars, arg, tree, faults
  <1>2. ASSUME NEW i \in Installers, Usage(i) \/ Start(i) \/ Step(i) \/ Interrupt(i) \/ Kill(i)
        PROVE  ScriptTypes'
    <2>1. CASE Usage(i) BY <2>1 DEF Usage
    <2>2. CASE Start(i) BY <2>2 DEF Start
    <2>3. CASE Check(i) BY <2>3 DEF Check
    <2>4. CASE MkTemp(i) BY <2>4 DEF MkTemp
    <2>5. CASE Untar(i) BY <2>5 DEF Untar
    <2>6. CASE Move(i) BY <2>6 DEF Move
    <2>7. CASE PatchBegin(i) BY <2>7 DEF PatchBegin
    <2>8. CASE PatchEnd(i)
      <3>1. group[i] \in Groups
        BY DEF ScriptTypes
      <3>2. (IF group[i] < 4 THEN group[i] + 1 ELSE group[i]) \in Groups
        BY <3>1, GroupAfter
      <3>4. group' = [group EXCEPT ![i] = IF group[i] < 4 THEN group[i] + 1 ELSE group[i]]
        BY <2>8 DEF PatchEnd, NextGroup, ScriptTypes
      <3>5. group \in [Installers -> Groups]
        BY DEF ScriptTypes
      <3> HIDE DEF Groups
      <3>6. group' \in [Installers -> Groups]
        BY <3>2, <3>4, <3>5
      <3>3. /\ pc' \in [Installers -> Running \cup {"idle", "end", "killed"}]
            /\ UNCHANGED <<dir, old, said, temp>>
        BY <2>8 DEF PatchEnd, NextGroup
      <3> QED BY <3>6, <3>3
    <2>9. CASE PatchFails(i)
      <3>1. group[i] \in Groups
        BY DEF ScriptTypes
      <3>2. (IF group[i] < 4 THEN group[i] + 1 ELSE group[i]) \in Groups
        BY <3>1, GroupAfter
      <3>4. group' = [group EXCEPT ![i] = IF group[i] < 4 THEN group[i] + 1 ELSE group[i]]
        BY <2>9 DEF PatchFails, NextGroup, ScriptTypes
      <3>5. group \in [Installers -> Groups]
        BY DEF ScriptTypes
      <3> HIDE DEF Groups
      <3>6. group' \in [Installers -> Groups]
        BY <3>2, <3>4, <3>5
      <3>3. /\ pc' \in [Installers -> Running \cup {"idle", "end", "killed"}]
            /\ UNCHANGED <<dir, old, said, temp>>
        BY <2>9 DEF PatchFails, NextGroup
      <3> QED BY <3>6, <3>3
    <2>10. CASE SetAbi(i) BY <2>10 DEF SetAbi
    <2>11. CASE TestGcc(i) BY <2>11 DEF TestGcc
    <2>12. CASE TestClang(i) BY <2>12 DEF TestClang
    <2>13. CASE TestFails(i) BY <2>13 DEF TestFails
    <2>14. CASE Exit(i) BY <2>14 DEF Exit
    <2>15. CASE Interrupt(i) BY <2>15 DEF Interrupt
    <2>16. CASE Kill(i) BY <2>16 DEF Kill
    <2> QED BY <1>2, <2>1, <2>2, <2>3, <2>4, <2>5, <2>6, <2>7, <2>8, <2>9, <2>10, <2>11, <2>12, <2>13, <2>14, <2>15, <2>16 DEF Step
  <1> QED BY <1>1, <1>2 DEF Next

LEMMA StepTree ==
  ASSUME ScriptTypes, TreeTypes, [Next]_vars PROVE TreeTypes'
  <1> USE DEF ScriptTypes, TreeTypes, Content, Goto, Say, Here, arg, tree, faults
  <1>1. CASE UNCHANGED vars BY <1>1 DEF vars, arg, tree, faults
  <1>2. ASSUME NEW i \in Installers, Usage(i) \/ Start(i) \/ Step(i) \/ Interrupt(i) \/ Kill(i)
        PROVE  TreeTypes'
    <2>1. CASE Usage(i) BY <2>1 DEF Usage
    <2>2. CASE Start(i) BY <2>2 DEF Start
    <2>3. CASE Check(i) BY <2>3 DEF Check
    <2>4. CASE MkTemp(i) BY <2>4 DEF MkTemp
    <2>5. CASE Untar(i) BY <2>5 DEF Untar
    <2>6. CASE Move(i)
      <3>1. files' \in [Dirs -> Content] /\ nested' \in [Dirs -> SUBSET Installers]
        BY <2>6, MoveTypes
      <3>2. UNCHANGED <<reloc, abi>>
        BY <2>6 DEF Move
      <3> QED BY <3>1, <3>2
    <2>7. CASE PatchBegin(i) BY <2>7 DEF PatchBegin
    <2>8. CASE PatchEnd(i) BY <2>8 DEF PatchEnd, NextGroup
    <2>9. CASE PatchFails(i) BY <2>9 DEF PatchFails, NextGroup
    <2>10. CASE SetAbi(i) BY <2>10 DEF SetAbi
    <2>11. CASE TestGcc(i) BY <2>11 DEF TestGcc
    <2>12. CASE TestClang(i) BY <2>12 DEF TestClang
    <2>13. CASE TestFails(i) BY <2>13 DEF TestFails
    <2>14. CASE Exit(i) BY <2>14 DEF Exit
    <2>15. CASE Interrupt(i) BY <2>15 DEF Interrupt
    <2>16. CASE Kill(i) BY <2>16 DEF Kill
    <2> QED BY <1>2, <2>1, <2>2, <2>3, <2>4, <2>5, <2>6, <2>7, <2>8, <2>9, <2>10, <2>11, <2>12, <2>13, <2>14, <2>15, <2>16 DEF Step
  <1> QED BY <1>1, <1>2 DEF Next

LEMMA StepCounters ==
  ASSUME CounterTypes, [Next]_vars PROVE CounterTypes'
  <1>0. MaxFails \in Nat /\ MaxKills \in Nat
    BY InstallerAssumption
  <1> USE <1>0
  <1> USE DEF CounterTypes, Goto, Say, Here, arg, tree, faults
  <1>1. CASE UNCHANGED vars BY <1>1 DEF vars, arg, tree, faults
  <1>2. ASSUME NEW i \in Installers, Usage(i) \/ Start(i) \/ Step(i) \/ Interrupt(i) \/ Kill(i)
        PROVE  CounterTypes'
    <2>1. CASE Usage(i) BY <2>1 DEF Usage
    <2>2. CASE Start(i) BY <2>2 DEF Start
    <2>3. CASE Check(i) BY <2>3 DEF Check
    <2>4. CASE MkTemp(i) BY <2>4 DEF MkTemp
    <2>5. CASE Untar(i) BY <2>5 DEF Untar
    <2>6. CASE Move(i) BY <2>6 DEF Move
    <2>7. CASE PatchBegin(i) BY <2>7 DEF PatchBegin
    <2>8. CASE PatchEnd(i) BY <2>8 DEF PatchEnd, NextGroup
    <2>9. CASE PatchFails(i) BY <2>9 DEF PatchFails, NextGroup
    <2>10. CASE SetAbi(i) BY <2>10 DEF SetAbi
    <2>11. CASE TestGcc(i) BY <2>11 DEF TestGcc
    <2>12. CASE TestClang(i) BY <2>12 DEF TestClang
    <2>13. CASE TestFails(i)
      <3>1. kills' = kills /\ (fails' = fails \/ (fails < MaxFails /\ fails' = fails + 1))
        BY <2>13 DEF TestFails
      <3> QED BY <3>1
    <2>14. CASE Exit(i) BY <2>14 DEF Exit
    <2>15. CASE Interrupt(i) BY <2>15 DEF Interrupt
    <2>16. CASE Kill(i) BY <2>16 DEF Kill
    <2> QED BY <1>2, <2>1, <2>2, <2>3, <2>4, <2>5, <2>6, <2>7, <2>8, <2>9, <2>10, <2>11, <2>12, <2>13, <2>14, <2>15, <2>16 DEF Step
  <1> QED BY <1>1, <1>2 DEF Next

\* A step of one invocation leaves the others where they are.
LEMMA Frame ==
  ASSUME ScriptTypes, NEW i \in Installers, Usage(i) \/ Start(i) \/ Step(i) \/ Interrupt(i) \/ Kill(i),
         NEW m \in Installers, m # i
  PROVE  /\ pc'[m] = pc[m] /\ dir'[m] = dir[m] /\ said'[m] = said[m]
         /\ temp'[m] = temp[m] /\ group'[m] = group[m]
  <1> USE DEF ScriptTypes, Goto, Say, Here, arg, tree, faults
  <1>1. CASE Usage(i) BY <1>1 DEF Usage
  <1>2. CASE Start(i) BY <1>2 DEF Start
  <1>3. CASE Check(i) BY <1>3 DEF Check
  <1>4. CASE MkTemp(i) BY <1>4 DEF MkTemp
  <1>5. CASE Untar(i) BY <1>5 DEF Untar
  <1>6. CASE Move(i) BY <1>6 DEF Move
  <1>7. CASE PatchBegin(i) BY <1>7 DEF PatchBegin
  <1>8. CASE PatchEnd(i) BY <1>8 DEF PatchEnd, NextGroup
  <1>9. CASE PatchFails(i) BY <1>9 DEF PatchFails, NextGroup
  <1>10. CASE SetAbi(i) BY <1>10 DEF SetAbi
  <1>11. CASE TestGcc(i) BY <1>11 DEF TestGcc
  <1>12. CASE TestClang(i) BY <1>12 DEF TestClang
  <1>13. CASE TestFails(i) BY <1>13 DEF TestFails
  <1>14. CASE Exit(i) BY <1>14 DEF Exit
  <1>15. CASE Interrupt(i) BY <1>15 DEF Interrupt
  <1>16. CASE Kill(i) BY <1>16 DEF Kill
  <1> QED BY <1>1, <1>2, <1>3, <1>4, <1>5, <1>6, <1>7, <1>8, <1>9, <1>10, <1>11, <1>12, <1>13, <1>14, <1>15, <1>16 DEF Step

LEMMA StepTempLife ==
  ASSUME ScriptTypes, TempLife, [Next]_vars PROVE TempLife'
  <1> USE DEF ScriptTypes, TempLife, Goto, Say, Here, arg, tree, faults
  <1>1. CASE UNCHANGED vars BY <1>1 DEF vars, arg, tree, faults
  <1>2. ASSUME NEW i \in Installers, Usage(i) \/ Start(i) \/ Step(i) \/ Interrupt(i) \/ Kill(i)
        PROVE  TempLife'
    <2>1. CASE Usage(i) BY <2>1 DEF Usage
    <2>2. CASE Start(i) BY <2>2 DEF Start
    <2>3. CASE Check(i) BY <2>3 DEF Check
    <2>4. CASE MkTemp(i) BY <2>4 DEF MkTemp
    <2>5. CASE Untar(i) BY <2>5 DEF Untar
    <2>6. CASE Move(i) BY <2>6 DEF Move
    <2>7. CASE PatchBegin(i) BY <2>7 DEF PatchBegin
    <2>8. CASE PatchEnd(i) BY <2>8 DEF PatchEnd, NextGroup
    <2>9. CASE PatchFails(i) BY <2>9 DEF PatchFails, NextGroup
    <2>10. CASE SetAbi(i) BY <2>10 DEF SetAbi
    <2>11. CASE TestGcc(i) BY <2>11 DEF TestGcc
    <2>12. CASE TestClang(i) BY <2>12 DEF TestClang
    <2>13. CASE TestFails(i) BY <2>13 DEF TestFails
    <2>14. CASE Exit(i) BY <2>14 DEF Exit
    <2>15. CASE Interrupt(i) BY <2>15 DEF Interrupt
    <2>16. CASE Kill(i) BY <2>16 DEF Kill
    <2> QED BY <1>2, <2>1, <2>2, <2>3, <2>4, <2>5, <2>6, <2>7, <2>8, <2>9, <2>10, <2>11, <2>12, <2>13, <2>14, <2>15, <2>16 DEF Step
  <1> QED BY <1>1, <1>2 DEF Next

LEMMA StepOnlyWhole ==
  ASSUME ScriptTypes, TreeTypes, OnlyWhole, TempLife, [Next]_vars PROVE OnlyWhole'
  <1> USE DEF ScriptTypes, TreeTypes, OnlyWhole, TempLife, Goto, Say, Here, arg, tree, faults
  <1>1. CASE UNCHANGED vars BY <1>1 DEF vars, arg, tree, faults
  <1>2. ASSUME NEW i \in Installers, Usage(i) \/ Start(i) \/ Step(i) \/ Interrupt(i) \/ Kill(i)
        PROVE  OnlyWhole'
    <2>1. CASE Usage(i) BY <2>1 DEF Usage
    <2>2. CASE Start(i) BY <2>2 DEF Start
    <2>3. CASE Check(i) BY <2>3 DEF Check
    <2>4. CASE MkTemp(i) BY <2>4 DEF MkTemp
    <2>5. CASE Untar(i) BY <2>5 DEF Untar
    <2>6. CASE Move(i) BY <2>6 DEF Move
    <2>7. CASE PatchBegin(i) BY <2>7 DEF PatchBegin
    <2>8. CASE PatchEnd(i) BY <2>8 DEF PatchEnd, NextGroup
    <2>9. CASE PatchFails(i) BY <2>9 DEF PatchFails, NextGroup
    <2>10. CASE SetAbi(i) BY <2>10 DEF SetAbi
    <2>11. CASE TestGcc(i) BY <2>11 DEF TestGcc
    <2>12. CASE TestClang(i) BY <2>12 DEF TestClang
    <2>13. CASE TestFails(i) BY <2>13 DEF TestFails
    <2>14. CASE Exit(i) BY <2>14 DEF Exit
    <2>15. CASE Interrupt(i) BY <2>15 DEF Interrupt
    <2>16. CASE Kill(i) BY <2>16 DEF Kill
    <2> QED BY <1>2, <2>1, <2>2, <2>3, <2>4, <2>5, <2>6, <2>7, <2>8, <2>9, <2>10, <2>11, <2>12, <2>13, <2>14, <2>15, <2>16 DEF Step
  <1> QED BY <1>1, <1>2 DEF Next

LEMMA StepSilent ==
  ASSUME ScriptTypes, Silent, [Next]_vars PROVE Silent'
  <1> USE DEF ScriptTypes, Silent, Goto, Say, Here, arg, tree, faults
  <1>1. CASE UNCHANGED vars BY <1>1 DEF vars, arg, tree, faults
  <1>2. ASSUME NEW i \in Installers, Usage(i) \/ Start(i) \/ Step(i) \/ Interrupt(i) \/ Kill(i)
        PROVE  Silent'
    <2>1. CASE Usage(i) BY <2>1 DEF Usage
    <2>2. CASE Start(i) BY <2>2 DEF Start
    <2>3. CASE Check(i) BY <2>3 DEF Check
    <2>4. CASE MkTemp(i) BY <2>4 DEF MkTemp
    <2>5. CASE Untar(i) BY <2>5 DEF Untar
    <2>6. CASE Move(i) BY <2>6 DEF Move
    <2>7. CASE PatchBegin(i) BY <2>7 DEF PatchBegin
    <2>8. CASE PatchEnd(i) BY <2>8 DEF PatchEnd, NextGroup
    <2>9. CASE PatchFails(i) BY <2>9 DEF PatchFails, NextGroup
    <2>10. CASE SetAbi(i) BY <2>10 DEF SetAbi
    <2>11. CASE TestGcc(i) BY <2>11 DEF TestGcc
    <2>12. CASE TestClang(i) BY <2>12 DEF TestClang
    <2>13. CASE TestFails(i) BY <2>13 DEF TestFails
    <2>14. CASE Exit(i) BY <2>14 DEF Exit
    <2>15. CASE Interrupt(i) BY <2>15 DEF Interrupt
    <2>16. CASE Kill(i) BY <2>16 DEF Kill
    <2> QED BY <1>2, <2>1, <2>2, <2>3, <2>4, <2>5, <2>6, <2>7, <2>8, <2>9, <2>10, <2>11, <2>12, <2>13, <2>14, <2>15, <2>16 DEF Step
  <1> QED BY <1>1, <1>2 DEF Next

\* A toolchain that is there stays.
LEMMA FilesStay ==
  ASSUME ScriptTypes, TreeTypes, OnlyWhole, TempLife, NEW i \in Installers, Usage(i) \/ Start(i) \/ Step(i) \/ Interrupt(i) \/ Kill(i),
         NEW d \in Dirs, files[d] = "whole"
  PROVE  files'[d] = "whole"
  <1> USE DEF ScriptTypes, TreeTypes, Goto, Say, Here, arg, tree, faults
  <1>1. CASE Usage(i) BY <1>1 DEF Usage
  <1>2. CASE Start(i) BY <1>2 DEF Start
  <1>3. CASE Check(i) BY <1>3 DEF Check
  <1>4. CASE MkTemp(i) BY <1>4 DEF MkTemp
  <1>5. CASE Untar(i) BY <1>5 DEF Untar
  <1>6. CASE Move(i) BY <1>6 DEF Move
  <1>7. CASE PatchBegin(i) BY <1>7 DEF PatchBegin
  <1>8. CASE PatchEnd(i) BY <1>8 DEF PatchEnd, NextGroup
  <1>9. CASE PatchFails(i) BY <1>9 DEF PatchFails, NextGroup
  <1>10. CASE SetAbi(i) BY <1>10 DEF SetAbi
  <1>11. CASE TestGcc(i) BY <1>11 DEF TestGcc
  <1>12. CASE TestClang(i) BY <1>12 DEF TestClang
  <1>13. CASE TestFails(i) BY <1>13 DEF TestFails
  <1>14. CASE Exit(i) BY <1>14 DEF Exit
  <1>15. CASE Interrupt(i) BY <1>15 DEF Interrupt
  <1>16. CASE Kill(i) BY <1>16 DEF Kill
  <1> QED BY <1>1, <1>2, <1>3, <1>4, <1>5, <1>6, <1>7, <1>8, <1>9, <1>10, <1>11, <1>12, <1>13, <1>14, <1>15, <1>16 DEF Step

LEMMA StepPlaced ==
  ASSUME ScriptTypes, TreeTypes, OnlyWhole, TempLife, Placed, [Next]_vars PROVE Placed'
  <1>1. CASE UNCHANGED vars BY <1>1 DEF vars, arg, tree, Placed
  <1>2. ASSUME NEW i \in Installers, Usage(i) \/ Start(i) \/ Step(i) \/ Interrupt(i) \/ Kill(i),
               NEW m \in Installers,
               pc'[m] \in {"patch", "write", "sed", "gcc", "clang"}
        PROVE  files'[dir'[m]] = "whole"
    <2>1. CASE m # i
      <3>1. pc'[m] = pc[m] /\ dir'[m] = dir[m]
        BY <1>2, <2>1, Frame
      <3>2. files[dir[m]] = "whole" /\ dir[m] \in Dirs
        BY <1>2, <3>1 DEF Placed, ScriptTypes
      <3> QED BY <1>2, <3>1, <3>2, FilesStay
    <2>2. CASE m = i
      <3>1. CASE Move(i)
        <4>1. temp[i] = "whole" /\ dir'[i] = dir[i] /\ dir[i] \in Dirs
          BY <3>1 DEF Move, TempLife, ScriptTypes, arg
        <4>2. CASE files[dir[i]] = "none"
          BY <2>2, <3>1, <4>1, <4>2 DEF Move, TreeTypes
        <4>3. CASE files[dir[i]] # "none"
          <5>1. files[dir[i]] = "whole" /\ files' = files
            BY <3>1, <4>1, <4>3 DEF Move, OnlyWhole, TreeTypes, Content
          <5> QED BY <2>2, <4>1, <5>1
        <4> QED BY <4>2, <4>3
      <3>2. CASE ~Move(i)
        <4>1. pc[i] \in {"patch", "write", "sed", "gcc", "clang"} /\ dir'[i] = dir[i]
          BY <1>2, <2>2, <3>2 DEF ScriptTypes, Step, Usage, Start, Check, MkTemp, Untar, PatchBegin, PatchEnd,
             PatchFails, SetAbi, TestGcc, TestClang, TestFails, Exit, Interrupt, Kill, Goto, Say,
             NextGroup, arg
        <4> QED BY <1>2, <2>2, <4>1, FilesStay DEF Placed, ScriptTypes
      <3> QED BY <3>1, <3>2
    <2> QED BY <2>1, <2>2
  <1> QED BY <1>1, <1>2 DEF Next, Placed

LEMMA NextAlways == Always /\ [Next]_vars => Always'
  BY StepScript, StepTree, StepCounters, StepTempLife, StepOnlyWhole, StepPlaced, StepSilent DEF Always

\* An invocation comes to run at the start, alone in its directory.
LEMMA Enters ==
  ASSUME ~Overlap, ScriptTypes, NEW i \in Installers, Usage(i) \/ Start(i) \/ Step(i) \/ Interrupt(i) \/ Kill(i), pc'[i] \in Running
  PROVE  \/ pc[i] \in Running /\ dir'[i] = dir[i]
         \/ \A j \in Installers : pc[j] \in Running => dir[j] # dir'[i]
  <1> USE DEF ScriptTypes, Running, Goto, Say, Here, arg, tree, faults
  <1>1. CASE Usage(i) BY <1>1 DEF Usage
  <1>2. CASE Start(i) BY <1>2 DEF Start
  <1>3. CASE Check(i) BY <1>3 DEF Check
  <1>4. CASE MkTemp(i) BY <1>4 DEF MkTemp
  <1>5. CASE Untar(i) BY <1>5 DEF Untar
  <1>6. CASE Move(i) BY <1>6 DEF Move
  <1>7. CASE PatchBegin(i) BY <1>7 DEF PatchBegin
  <1>8. CASE PatchEnd(i) BY <1>8 DEF PatchEnd, NextGroup
  <1>9. CASE PatchFails(i) BY <1>9 DEF PatchFails, NextGroup
  <1>10. CASE SetAbi(i) BY <1>10 DEF SetAbi
  <1>11. CASE TestGcc(i) BY <1>11 DEF TestGcc
  <1>12. CASE TestClang(i) BY <1>12 DEF TestClang
  <1>13. CASE TestFails(i) BY <1>13 DEF TestFails
  <1>14. CASE Exit(i) BY <1>14 DEF Exit
  <1>15. CASE Interrupt(i) BY <1>15 DEF Interrupt
  <1>16. CASE Kill(i) BY <1>16 DEF Kill
  <1> QED BY <1>1, <1>2, <1>3, <1>4, <1>5, <1>6, <1>7, <1>8, <1>9, <1>10, <1>11, <1>12, <1>13, <1>14, <1>15, <1>16 DEF Step

\* It comes to the mv only if there was nothing, and adds nothing before.
LEMMA Approaches ==
  ASSUME ScriptTypes, NEW i \in Installers, Usage(i) \/ Start(i) \/ Step(i) \/ Interrupt(i) \/ Kill(i), pc'[i] \in {"mktemp", "untar", "move"}
  PROVE  /\ pc[i] \in Running /\ dir'[i] = dir[i] /\ files' = files
         /\ pc[i] \in {"mktemp", "untar", "move"} \/ files[dir[i]] = "none"
  <1> USE DEF ScriptTypes, Running, Goto, Say, Here, arg, tree, faults
  <1>1. CASE Usage(i) BY <1>1 DEF Usage
  <1>2. CASE Start(i) BY <1>2 DEF Start
  <1>3. CASE Check(i) BY <1>3 DEF Check
  <1>4. CASE MkTemp(i) BY <1>4 DEF MkTemp
  <1>5. CASE Untar(i) BY <1>5 DEF Untar
  <1>6. CASE Move(i) BY <1>6 DEF Move
  <1>7. CASE PatchBegin(i) BY <1>7 DEF PatchBegin
  <1>8. CASE PatchEnd(i) BY <1>8 DEF PatchEnd, NextGroup
  <1>9. CASE PatchFails(i) BY <1>9 DEF PatchFails, NextGroup
  <1>10. CASE SetAbi(i) BY <1>10 DEF SetAbi
  <1>11. CASE TestGcc(i) BY <1>11 DEF TestGcc
  <1>12. CASE TestClang(i) BY <1>12 DEF TestClang
  <1>13. CASE TestFails(i) BY <1>13 DEF TestFails
  <1>14. CASE Exit(i) BY <1>14 DEF Exit
  <1>15. CASE Interrupt(i) BY <1>15 DEF Interrupt
  <1>16. CASE Kill(i) BY <1>16 DEF Kill
  <1> QED BY <1>1, <1>2, <1>3, <1>4, <1>5, <1>6, <1>7, <1>8, <1>9, <1>10, <1>11, <1>12, <1>13, <1>14, <1>15, <1>16 DEF Step

\* Only the directory of the one that steps changes, and only inside.
LEMMA Elsewhere ==
  ASSUME ScriptTypes, TreeTypes, NEW i \in Installers, Usage(i) \/ Start(i) \/ Step(i) \/ Interrupt(i) \/ Kill(i), NEW d \in Dirs
  PROVE  /\ pc[i] # "move" \/ dir[i] # d => files'[d] = files[d]
         /\ pc[i] \notin {"patch", "write"} \/ dir[i] # d =>
               \A g \in Groups : reloc'[<<d, g>>] = reloc[<<d, g>>]
  <1> USE DEF ScriptTypes, TreeTypes, Goto, Say, Here, arg, tree, faults
  <1>1. CASE Usage(i) BY <1>1 DEF Usage
  <1>2. CASE Start(i) BY <1>2 DEF Start
  <1>3. CASE Check(i) BY <1>3 DEF Check
  <1>4. CASE MkTemp(i) BY <1>4 DEF MkTemp
  <1>5. CASE Untar(i) BY <1>5 DEF Untar
  <1>6. CASE Move(i) BY <1>6 DEF Move
  <1>7. CASE PatchBegin(i) BY <1>7 DEF PatchBegin
  <1>8. CASE PatchEnd(i) BY <1>8 DEF PatchEnd, NextGroup
  <1>9. CASE PatchFails(i) BY <1>9 DEF PatchFails, NextGroup
  <1>10. CASE SetAbi(i) BY <1>10 DEF SetAbi
  <1>11. CASE TestGcc(i) BY <1>11 DEF TestGcc
  <1>12. CASE TestClang(i) BY <1>12 DEF TestClang
  <1>13. CASE TestFails(i) BY <1>13 DEF TestFails
  <1>14. CASE Exit(i) BY <1>14 DEF Exit
  <1>15. CASE Interrupt(i) BY <1>15 DEF Interrupt
  <1>16. CASE Kill(i) BY <1>16 DEF Kill
  <1> QED BY <1>1, <1>2, <1>3, <1>4, <1>5, <1>6, <1>7, <1>8, <1>9, <1>10, <1>11, <1>12, <1>13, <1>14, <1>15, <1>16 DEF Step

\* It comes inside by the mv.
LEMMA ComesInside ==
  ASSUME ScriptTypes, NEW i \in Installers, Usage(i) \/ Start(i) \/ Step(i) \/ Interrupt(i) \/ Kill(i), pc'[i] \in Inside
  PROVE  /\ pc[i] \in Inside \cup {"move"} /\ dir'[i] = dir[i]
         /\ pc[i] \in Running
  <1> USE DEF ScriptTypes, Inside, Running, Goto, Say, Here, arg, tree, faults
  <1>1. CASE Usage(i) BY <1>1 DEF Usage
  <1>2. CASE Start(i) BY <1>2 DEF Start
  <1>3. CASE Check(i) BY <1>3 DEF Check
  <1>4. CASE MkTemp(i) BY <1>4 DEF MkTemp
  <1>5. CASE Untar(i) BY <1>5 DEF Untar
  <1>6. CASE Move(i) BY <1>6 DEF Move
  <1>7. CASE PatchBegin(i) BY <1>7 DEF PatchBegin
  <1>8. CASE PatchEnd(i) BY <1>8 DEF PatchEnd, NextGroup
  <1>9. CASE PatchFails(i) BY <1>9 DEF PatchFails, NextGroup
  <1>10. CASE SetAbi(i) BY <1>10 DEF SetAbi
  <1>11. CASE TestGcc(i) BY <1>11 DEF TestGcc
  <1>12. CASE TestClang(i) BY <1>12 DEF TestClang
  <1>13. CASE TestFails(i) BY <1>13 DEF TestFails
  <1>14. CASE Exit(i) BY <1>14 DEF Exit
  <1>15. CASE Interrupt(i) BY <1>15 DEF Interrupt
  <1>16. CASE Kill(i) BY <1>16 DEF Kill
  <1> QED BY <1>1, <1>2, <1>3, <1>4, <1>5, <1>6, <1>7, <1>8, <1>9, <1>10, <1>11, <1>12, <1>13, <1>14, <1>15, <1>16 DEF Step

\* It congratulates after clang, of what it tried, and says nothing more.
LEMMA Congratulates ==
  ASSUME ScriptTypes, Silent, NEW i \in Installers, Usage(i) \/ Start(i) \/ Step(i) \/ Interrupt(i) \/ Kill(i), said'[i] = "congratulations"
  PROVE  /\ dir'[i] = dir[i] /\ pc'[i] \notin Inside
         /\ \/ said[i] = "congratulations"
            \/ /\ pc[i] = "clang" /\ Compiles(dir[i], ClangNeeds)
               /\ files' = files /\ reloc' = reloc
  <1> USE DEF ScriptTypes, Silent, Inside, Goto, Say, Here, arg, tree, faults
  <1>1. CASE Usage(i) BY <1>1 DEF Usage
  <1>2. CASE Start(i) BY <1>2 DEF Start
  <1>3. CASE Check(i) BY <1>3 DEF Check
  <1>4. CASE MkTemp(i) BY <1>4 DEF MkTemp
  <1>5. CASE Untar(i) BY <1>5 DEF Untar
  <1>6. CASE Move(i) BY <1>6 DEF Move
  <1>7. CASE PatchBegin(i) BY <1>7 DEF PatchBegin
  <1>8. CASE PatchEnd(i) BY <1>8 DEF PatchEnd, NextGroup
  <1>9. CASE PatchFails(i) BY <1>9 DEF PatchFails, NextGroup
  <1>10. CASE SetAbi(i) BY <1>10 DEF SetAbi
  <1>11. CASE TestGcc(i) BY <1>11 DEF TestGcc
  <1>12. CASE TestClang(i) BY <1>12 DEF TestClang
  <1>13. CASE TestFails(i) BY <1>13 DEF TestFails
  <1>14. CASE Exit(i) BY <1>14 DEF Exit
  <1>15. CASE Interrupt(i) BY <1>15 DEF Interrupt
  <1>16. CASE Kill(i) BY <1>16 DEF Kill
  <1> QED BY <1>1, <1>2, <1>3, <1>4, <1>5, <1>6, <1>7, <1>8, <1>9, <1>10, <1>11, <1>12, <1>13, <1>14, <1>15, <1>16 DEF Step

LEMMA StepAlone ==
  ASSUME ~Overlap, ScriptTypes, Alone, [Next]_vars PROVE Alone'
  <1>1. CASE UNCHANGED vars BY <1>1 DEF vars, arg, tree, Alone
  <1>2. ASSUME NEW i \in Installers, Usage(i) \/ Start(i) \/ Step(i) \/ Interrupt(i) \/ Kill(i),
               NEW m \in Installers, NEW j \in Installers,
               pc'[m] \in Running, pc'[j] \in Running, m # j
        PROVE  dir'[m] # dir'[j]
    <2>1. CASE m # i /\ j # i
      BY <1>2, <2>1, Frame DEF Alone
    <2>2. CASE m = i
      <3>1. pc[j] \in Running /\ dir'[j] = dir[j]
        BY <1>2, <2>2, Frame
      <3> QED BY <1>2, <2>2, <3>1, Enters DEF Alone
    <2>3. CASE j = i
      <3>1. pc[m] \in Running /\ dir'[m] = dir[m]
        BY <1>2, <2>3, Frame
      <3> QED BY <1>2, <2>3, <3>1, Enters DEF Alone
    <2> QED BY <2>1, <2>2, <2>3
  <1> QED BY <1>1, <1>2 DEF Next, Alone

LEMMA StepFresh ==
  ASSUME ScriptTypes, TreeTypes, Alone, Fresh, [Next]_vars PROVE Fresh'
  <1>1. CASE UNCHANGED vars BY <1>1 DEF vars, arg, tree, Fresh
  <1>2. ASSUME NEW i \in Installers, Usage(i) \/ Start(i) \/ Step(i) \/ Interrupt(i) \/ Kill(i),
               NEW m \in Installers,
               pc'[m] \in {"mktemp", "untar", "move"}
        PROVE  files'[dir'[m]] = "none"
    <2>1. CASE m = i
      BY <1>2, <2>1, Approaches DEF Fresh
    <2>2. CASE m # i
      <3>1. pc'[m] = pc[m] /\ dir'[m] = dir[m] /\ dir[m] \in Dirs
        BY <1>2, <2>2, Frame DEF ScriptTypes
      <3>2. files[dir[m]] = "none"
        BY <1>2, <3>1 DEF Fresh
      <3>3. pc[i] = "move" => dir[i] # dir[m]
        BY <1>2, <2>2, <3>1 DEF Alone, Running
      <3> QED BY <1>2, <3>1, <3>2, <3>3, Elsewhere
    <2> QED BY <2>1, <2>2
  <1> QED BY <1>1, <1>2 DEF Next, Fresh

LEMMA StepHalfway ==
  ASSUME ScriptTypes, TreeTypes, Alone, Halfway, [Next]_vars PROVE Halfway'
  <1>1. CASE UNCHANGED vars BY <1>1 DEF vars, arg, tree, Halfway
  <1>2. ASSUME NEW i \in Installers, Usage(i) \/ Start(i) \/ Step(i) \/ Interrupt(i) \/ Kill(i),
               NEW m \in Installers,
               pc'[m] = "clang", NEW g \in GccNeeds
        PROVE  reloc'[<<dir'[m], g>>] = "here"
    <2>1. CASE m = i
      <3>1. TestGcc(i)
        BY <1>2, <2>1 DEF ScriptTypes, Step, Usage, Start, Check, MkTemp, Untar, Move, PatchBegin, PatchEnd,
           PatchFails, SetAbi, TestClang, TestFails, Exit, Interrupt, Kill, Goto, NextGroup
      <3> QED BY <2>1, <3>1 DEF TestGcc, Compiles, tree, arg
    <2>2. CASE m # i
      <3>1. pc'[m] = pc[m] /\ dir'[m] = dir[m] /\ dir[m] \in Dirs
        BY <1>2, <2>2, Frame DEF ScriptTypes
      <3>2. reloc[<<dir[m], g>>] = "here"
        BY <1>2, <3>1 DEF Halfway
      <3>4. g \in Groups
        BY DEF GccNeeds, Groups
      <3>3. pc[i] \in {"patch", "write"} => dir[i] # dir[m]
        BY <1>2, <2>2, <3>1 DEF Alone, Running
      <3> QED BY <1>2, <3>1, <3>2, <3>3, <3>4, Elsewhere
    <2> QED BY <2>1, <2>2
  <1> QED BY <1>1, <1>2 DEF Next, Halfway

LEMMA StepUntouched ==
  ASSUME ScriptTypes, Silent, Alone, Fresh, Untouched, StillWorks, [Next]_vars PROVE Untouched'
  <1>1. CASE UNCHANGED vars BY <1>1 DEF vars, arg, tree, Untouched
  <1>2. ASSUME NEW i \in Installers, Usage(i) \/ Start(i) \/ Step(i) \/ Interrupt(i) \/ Kill(i),
               NEW m \in Installers, NEW j \in Installers,
               said'[m] = "congratulations", pc'[j] \in Inside
        PROVE  dir'[m] # dir'[j]
    <2>1. CASE m # i /\ j # i
      BY <1>2, <2>1, Frame DEF Untouched
    <2>2. CASE m = i /\ j # i
      <3>1. pc[j] \in Inside /\ dir'[j] = dir[j] /\ dir'[i] = dir[i]
        BY <1>2, <2>2, Frame, Congratulates
      <3>2. CASE said[i] = "congratulations"
        BY <1>2, <2>2, <3>1, <3>2 DEF Untouched
      <3>3. CASE said[i] # "congratulations"
        <4>1. pc[i] = "clang"
          BY <1>2, <2>2, <3>3, Congratulates
        <4> QED BY <1>2, <2>2, <3>1, <4>1 DEF Alone, Inside, Running
      <3> QED BY <3>2, <3>3
    <2>3. CASE m # i /\ j = i
      <3>1. said[m] = "congratulations" /\ dir'[m] = dir[m] /\ dir'[i] = dir[i]
        BY <1>2, <2>3, Frame, ComesInside
      <3>2. CASE pc[i] \in Inside
        BY <1>2, <2>3, <3>1, <3>2 DEF Untouched
      <3>3. CASE pc[i] = "move"
        BY <1>2, <2>3, <3>1, <3>3 DEF Fresh, StillWorks, Compiles
      <3> QED BY <1>2, <2>3, <3>2, <3>3, ComesInside
    <2>4. CASE m = i /\ j = i
      BY <1>2, <2>4, Congratulates
    <2> QED BY <2>1, <2>2, <2>3, <2>4
  <1> QED BY <1>1, <1>2 DEF Next, Untouched

LEMMA StepStillWorks ==
  ASSUME ScriptTypes, TreeTypes, OnlyWhole, TempLife, Silent, Halfway, Untouched, StillWorks, [Next]_vars PROVE StillWorks'
  <1>1. CASE UNCHANGED vars BY <1>1 DEF vars, arg, tree, StillWorks, Compiles
  <1>2. ASSUME NEW i \in Installers, Usage(i) \/ Start(i) \/ Step(i) \/ Interrupt(i) \/ Kill(i),
               NEW m \in Installers,
               said'[m] = "congratulations"
        PROVE  files'[dir'[m]] = "whole" /\ \A g \in GccNeeds \cup ClangNeeds : reloc'[<<dir'[m], g>>] = "here"
    <2>1. CASE m = i /\ said[i] # "congratulations"
      <3>1. /\ dir'[i] = dir[i] /\ files' = files /\ reloc' = reloc
            /\ pc[i] = "clang" /\ Compiles(dir[i], ClangNeeds)
        BY <1>2, <2>1, Congratulates
      <3>2. \A g \in GccNeeds : reloc[<<dir[i], g>>] = "here"
        BY <3>1 DEF Halfway
      <3> QED BY <2>1, <3>1, <3>2 DEF Compiles
    <2>2. CASE said[m] = "congratulations"
      <3>1. dir'[m] = dir[m] /\ dir[m] \in Dirs
        BY <1>2, <2>2, Frame, Congratulates DEF ScriptTypes
      <3>2. files[dir[m]] = "whole" /\ \A g \in GccNeeds \cup ClangNeeds : reloc[<<dir[m], g>>] = "here"
        BY <2>2 DEF StillWorks, Compiles
      <3>3. pc[i] \in {"patch", "write"} => dir[i] # dir[m]
        BY <2>2 DEF Untouched, Inside
      <3>4. \A g \in Groups : reloc'[<<dir[m], g>>] = reloc[<<dir[m], g>>]
        BY <1>2, <3>1, <3>3, Elsewhere
      <3>5. files'[dir[m]] = "whole"
        BY <1>2, <3>1, <3>2, FilesStay
      <3> QED BY <3>1, <3>2, <3>4, <3>5 DEF GccNeeds, ClangNeeds, Groups
    <2> QED BY <1>2, <2>1, <2>2, Frame
  <1> QED BY <1>1, <1>2 DEF Next, StillWorks, Compiles

LEMMA StepUnmixed ==
  ASSUME ScriptTypes, TreeTypes, Fresh, Unmixed, [Next]_vars PROVE Unmixed'
  <1> USE DEF ScriptTypes, TreeTypes, Fresh, Unmixed, Goto, Say, Here, arg, tree, faults
  <1>1. CASE UNCHANGED vars BY <1>1 DEF vars, arg, tree, faults
  <1>2. ASSUME NEW i \in Installers, Usage(i) \/ Start(i) \/ Step(i) \/ Interrupt(i) \/ Kill(i)
        PROVE  Unmixed'
    <2>1. CASE Usage(i) BY <2>1 DEF Usage
    <2>2. CASE Start(i) BY <2>2 DEF Start
    <2>3. CASE Check(i) BY <2>3 DEF Check
    <2>4. CASE MkTemp(i) BY <2>4 DEF MkTemp
    <2>5. CASE Untar(i) BY <2>5 DEF Untar
    <2>6. CASE Move(i) BY <2>6 DEF Move
    <2>7. CASE PatchBegin(i) BY <2>7 DEF PatchBegin
    <2>8. CASE PatchEnd(i) BY <2>8 DEF PatchEnd, NextGroup
    <2>9. CASE PatchFails(i) BY <2>9 DEF PatchFails, NextGroup
    <2>10. CASE SetAbi(i) BY <2>10 DEF SetAbi
    <2>11. CASE TestGcc(i) BY <2>11 DEF TestGcc
    <2>12. CASE TestClang(i) BY <2>12 DEF TestClang
    <2>13. CASE TestFails(i) BY <2>13 DEF TestFails
    <2>14. CASE Exit(i) BY <2>14 DEF Exit
    <2>15. CASE Interrupt(i) BY <2>15 DEF Interrupt
    <2>16. CASE Kill(i) BY <2>16 DEF Kill
    <2> QED BY <1>2, <2>1, <2>2, <2>3, <2>4, <2>5, <2>6, <2>7, <2>8, <2>9, <2>10, <2>11, <2>12, <2>13, <2>14, <2>15, <2>16 DEF Step
  <1> QED BY <1>1, <1>2 DEF Next

LEMMA InitExclusive == Init => Exclusive
  BY DEF Init, Exclusive, Alone, Fresh, Halfway, Untouched, Unmixed, StillWorks, Running, Inside

LEMMA NextExclusive ==
  ASSUME ~Overlap PROVE Always /\ Exclusive /\ [Next]_vars => Exclusive'
  BY StepAlone, StepFresh, StepHalfway, StepUntouched, StepUnmixed, StepStillWorks
  DEF Always, Exclusive

\* Type correctness of setup_toolchain.sh: its variables and the trees it
\* leaves stay what their declarations say.
THEOREM InstallerTypes == Spec => []TypeOK
  <1>1. Always => TypeOK
    BY DEF Always, ScriptTypes, TreeTypes, CounterTypes, TypeOK
  <1> QED BY InitAlways, NextAlways, <1>1, PTL DEF Spec

\* setup_toolchain.sh never shows a directory that is half unpacked, also
\* when invocations race for it, are killed, or carry a cut archive.
THEOREM AppearsWhole == Spec => []OnlyWhole
  <1>1. Always => OnlyWhole
    BY DEF Always
  <1> QED BY InitAlways, NextAlways, <1>1, PTL DEF Spec

\* When no two invocations run for one directory at a time, what
\* setup_toolchain.sh announced works for ever.
THEOREM AnnouncedKeepsWorking == ASSUME ~Overlap PROVE Spec => []StillWorks
  <1>1. Exclusive => StillWorks
    BY DEF Exclusive
  <1>2. Init => Always /\ Exclusive
    BY InitAlways, InitExclusive
  <1>3. Always /\ Exclusive /\ [Next]_vars => (Always /\ Exclusive)'
    BY NextAlways, NextExclusive
  <1> QED BY <1>1, <1>2, <1>3, PTL DEF Spec

\* And the trap of setup_toolchain.sh removes what the rename did not take.
THEOREM LeavesNothing == ASSUME ~Overlap PROVE Spec => []NoLitter
  <1>1. Always /\ Exclusive => NoLitter
    BY DEF Always, Exclusive, TempLife, Unmixed, NoLitter
  <1>2. Init => Always /\ Exclusive
    BY InitAlways, InitExclusive
  <1>3. Always /\ Exclusive /\ [Next]_vars => (Always /\ Exclusive)'
    BY NextAlways, NextExclusive
  <1> QED BY <1>1, <1>2, <1>3, PTL DEF Spec
=============================================================================
