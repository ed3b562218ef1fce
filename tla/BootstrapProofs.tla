--------------------------- MODULE BootstrapProofs ---------------------------
(***************************************************************************)
(* Proofs about Bootstrap, for every number of tools and packages, every   *)
(* host, any number of kills and failures.  TypeStep, OrderStep,           *)
(* GuardsStep, Stage3Step, SurroundingsStep and TreeStep show, action by    *)
(* action, that the parts of Inductive are preserved; the theorems at the  *)
(* end read the properties off it.  Those that assume                      *)
(* Targets = {Interactive} are about the runs the Dockerfile makes; a user *)
(* who asks for a single stage bypasses the markers.                       *)
(***************************************************************************)
EXTENDS BootstrapInv, TLAPS

\* Every step keeps the types, and the loop at the item it is working on.
LEMMA TypeStep ==
    ASSUME TypeOK, BusyHere, [Next]_vars
    PROVE  TypeOK' /\ BusyHere'
  <1> USE ConstantsAssumption DEF TypeOK, BusyHere, process, stage1Disk, stage3Disk,
      faults, Goto, Stage1Step, LateStep, Labels, Stage1Labels, Stage2Labels,
      Stage3Labels, FinishLabels, Calls, Calls2, Calls3, None, Tool, Conf, UseHack,
      TmpProfile, TmpUse, Tree, Portage, Shell, RootProfile, RpathProfile, Tools, AllTargets,
      Interactive
  <1>1. ASSUME NEW t \in Targets, NEW s \in 0..3, StartRun(t, s)
        PROVE  TypeOK' /\ BusyHere'
    BY <1>1 DEF StartRun, After1, Enter2, After2, Enter3, After3, Enter4, Ends,
        Enter1
  <1>2. CASE Stage1
    <2>1. CASE ToolPresent BY <2>1 DEF ToolPresent
    <2>2. CASE ToolBuild BY <2>2 DEF ToolBuild
    <2>3. CASE ToolInstall BY <2>3 DEF ToolInstall
    <2>4. CASE ToolDone BY <2>4 DEF ToolDone
    <2>5. CASE ToolsDone BY <2>5 DEF ToolsDone
    <2>6. CASE TreePresent BY <2>6 DEF TreePresent
    <2>7. CASE TreeUnpack BY <2>7 DEF TreeUnpack
    <2>8. CASE TreeDone BY <2>8 DEF TreeDone
    <2>9. CASE SetupPresent BY <2>9 DEF SetupPresent
    <2>10. CASE SetupConf BY <2>10 DEF SetupConf
    <2>11. CASE SetupConfPresent BY <2>11 DEF SetupConfPresent
    <2>12. CASE SetupConfDone BY <2>12 DEF SetupConfDone, FailureIgnored
    <2>13. CASE SetupProfile BY <2>13 DEF SetupProfile
    <2>14. CASE SetupUse
      <3>1. useHack' \subseteq {RootProfile, RpathProfile} BY <2>14 DEF SetupUse, AppendUse
      <3>2. torn' \subseteq {Tool(t) : t \in Tools} \cup {Conf, UseHack, TmpProfile, TmpUse,
                                                          Portage, Shell}
        BY <2>14 DEF SetupUse, AppendUse, FailureIgnored
      <3>3. fails' \in 0..MaxFails BY <2>14 DEF SetupUse, AppendUse, FailureIgnored
      <3> HIDE DEF Tools, Tool, Conf, UseHack, TmpProfile, TmpUse, Portage, Shell, RootProfile,
                   RpathProfile
      <3> QED BY <2>14, <3>1, <3>2, <3>3 DEF SetupUse, Tools
    <2>15. CASE TmpProfilePresent BY <2>15 DEF TmpProfilePresent
    <2>16. CASE TmpProfileCopy BY <2>16 DEF TmpProfileCopy
    <2>17. CASE TmpProfileRemove BY <2>17 DEF TmpProfileRemove
    <2>18. CASE TmpProfileLink BY <2>18 DEF TmpProfileLink
    <2>19. CASE PortagePresent BY <2>19 DEF PortagePresent
    <2>20. CASE PortageInstall BY <2>20 DEF PortageInstall
    <2>21. CASE PortageLink BY <2>21 DEF PortageLink, FailureIgnored
    <2>22. CASE PreparePortage BY <2>22 DEF PreparePortage, FailureIgnored
    <2>23. CASE Mark1 BY <2>23 DEF Mark1, After1, Enter2, After2, Enter3, After3,
        Enter4, Ends
    <2>24. CASE Fetch BY <2>24 DEF Fetch, Fetching
    <2>25. CASE TmpProfileUse
      <3>1. useHack' \subseteq {RootProfile, RpathProfile} BY <2>25 DEF TmpProfileUse, AppendUse
      <3>2. torn' \subseteq {Tool(t) : t \in Tools} \cup {Conf, UseHack, TmpProfile, TmpUse,
                                                          Portage, Shell}
        BY <2>25 DEF TmpProfileUse, AppendUse, FailureIgnored
      <3>3. fails' \in 0..MaxFails BY <2>25 DEF TmpProfileUse, AppendUse, FailureIgnored
      <3> HIDE DEF Tools, Tool, Conf, UseHack, TmpProfile, TmpUse, Portage, Shell, RootProfile,
                   RpathProfile
      <3> QED BY <2>25, <3>1, <3>2, <3>3 DEF TmpProfileUse, Tools
    <2>26. CASE PortageRepos BY <2>26 DEF PortageRepos
    <2> QED BY <1>2, <2>1, <2>2, <2>3, <2>4, <2>5, <2>6, <2>7, <2>8, <2>9, <2>10,
        <2>11, <2>12, <2>13, <2>14, <2>15, <2>16, <2>17, <2>18, <2>19, <2>20, <2>21,
        <2>22, <2>23, <2>24, <2>25, <2>26 DEF Stage1
  <1>3. CASE Emerge
    <2>1. CASE EmergeSkip BY <2>1 DEF EmergeSkip
    <2>2. CASE EmergeBegin BY <2>2 DEF EmergeBegin
    <2>3. CASE EmergeEnd
      <3>1. vdb' \subseteq Calls \X Nat BY <2>3 DEF EmergeEnd
      <3> QED BY <2>3, <3>1 DEF EmergeEnd
    <2>4. CASE EmergeDone BY <2>4 DEF EmergeDone, AfterCall
    <2> QED BY <1>3, <2>1, <2>2, <2>3, <2>4 DEF Emerge
  <1>4. CASE Stage2
    <2>1. CASE Check2 BY <2>1 DEF Check2
    <2>2. CASE Wrap2 BY <2>2 DEF Wrap2
    <2>3. CASE Libs2 BY <2>3 DEF Libs2
    <2>4. CASE Mark2 BY <2>4 DEF Mark2, After1, Enter2, After2, Enter3, After3,
        Enter4, Ends
    <2> QED BY <1>4, <2>1, <2>2, <2>3, <2>4 DEF Stage2
  <1>5. CASE Stage3
    <2>1. CASE Env3 BY <2>1 DEF Env3
    <2>2. CASE Gcc3
      <3>1. wrappers' \in BOOLEAN BY <2>2 DEF Gcc3
      <3> QED BY <2>2, <3>1 DEF Gcc3
    <2>3. CASE Prepare3 BY <2>3 DEF Prepare3
    <2>4. CASE PyLink3 BY <2>4 DEF PyLink3, HasPython
    <2>5. CASE Undo3
      <3>1. ldConf' \in BOOLEAN BY <2>5 DEF Undo3
      <3> QED BY <2>5, <3>1 DEF Undo3
    <2>6. CASE PyUnlink3 BY <2>6 DEF PyUnlink3, HasPython
    <2>7. CASE Sync3
      <3>1. unpacked' \in BOOLEAN /\ synced' \in BOOLEAN BY <2>7 DEF Sync3
      <3>2. useHack' \subseteq {RootProfile, RpathProfile} BY <2>7 DEF Sync3
      <3> QED BY <2>7, <3>1, <3>2 DEF Sync3
    <2>8. CASE System3 BY <2>8 DEF System3
    <2>9. CASE Rm98
      <3>1. env98' \in BOOLEAN BY <2>9 DEF Rm98
      <3> QED BY <2>9, <3>1 DEF Rm98
    <2>10. CASE World3 BY <2>10 DEF World3
    <2>11. CASE Mark3 BY <2>11 DEF Mark3, After1, Enter2, After2, Enter3, After3,
        Enter4, Ends
    <2> QED BY <1>5, <2>1, <2>2, <2>3, <2>4, <2>5, <2>6, <2>7, <2>8, <2>9, <2>10,
        <2>11 DEF Stage3
  <1>6. CASE Finish
    <2>1. CASE CleanupBegin
      <3>1. wrappers' \in BOOLEAN BY <2>1 DEF CleanupBegin
      <3> QED BY <2>1, <3>1 DEF CleanupBegin, TmpVdb
    <2>2. CASE CleanupVar BY <2>2 DEF CleanupVar
    <2>3. CASE CleanupEnd BY <2>3 DEF CleanupEnd
    <2>4. CASE StartScript BY <2>4 DEF StartScript
    <2> QED BY <1>6, <2>1, <2>2, <2>3, <2>4 DEF Finish
  <1>7. CASE ToolFailureIgnored BY <1>7 DEF ToolFailureIgnored, Ignored
  <1>8. CASE StageFails BY <1>8 DEF StageFails, Stopped, Ignored, TornNow
  <1>9. CASE Kill BY <1>9 DEF Kill, Stopped, TornNow
  <1>10. CASE UNCHANGED vars
    BY <1>10 DEF vars
  <1>11. CASE FailsAgain BY <1>11 DEF FailsAgain, Stopped, TornNow
  <1> QED BY <1>1, <1>2, <1>3, <1>4, <1>5, <1>6, <1>7, <1>8, <1>9, <1>10, <1>11
      DEF Next, Script

\* Every step keeps the order of the stages and the life of tmp.
LEMMA OrderStep ==
    ASSUME Targets = {Interactive}, TypeOK, Ordered, [Next]_vars
    PROVE  Ordered'
  <1> USE ConstantsAssumption DEF TypeOK, Ordered, StageOrder, Forward, TmpLife,
      process, stage1Disk, stage3Disk, faults, Goto, Stage1Step, LateStep, Labels,
      Stage1Labels, Stage2Labels, Stage3Labels, FinishLabels, Calls, Calls2, Calls3,
      Interactive
  <1>1. ASSUME NEW t \in Targets, NEW s \in 0..3, StartRun(t, s)
        PROVE  Ordered'
    BY <1>1 DEF StartRun, After1, Enter2, After2, Enter3, After3, Enter4, Ends,
        Enter1
  <1>2. CASE Stage1
    <2>1. CASE ToolPresent BY <2>1 DEF ToolPresent
    <2>2. CASE ToolBuild BY <2>2 DEF ToolBuild
    <2>3. CASE ToolInstall BY <2>3 DEF ToolInstall
    <2>4. CASE ToolDone BY <2>4 DEF ToolDone
    <2>5. CASE ToolsDone BY <2>5 DEF ToolsDone
    <2>6. CASE TreePresent BY <2>6 DEF TreePresent
    <2>7. CASE TreeUnpack BY <2>7 DEF TreeUnpack
    <2>8. CASE TreeDone BY <2>8 DEF TreeDone
    <2>9. CASE SetupPresent BY <2>9 DEF SetupPresent
    <2>10. CASE SetupConf BY <2>10 DEF SetupConf
    <2>11. CASE SetupConfPresent BY <2>11 DEF SetupConfPresent
    <2>12. CASE SetupConfDone BY <2>12 DEF SetupConfDone, FailureIgnored
    <2>13. CASE SetupProfile BY <2>13 DEF SetupProfile
    <2>14. CASE SetupUse BY <2>14 DEF SetupUse, AppendUse, FailureIgnored
    <2>15. CASE TmpProfilePresent BY <2>15 DEF TmpProfilePresent
    <2>16. CASE TmpProfileCopy BY <2>16 DEF TmpProfileCopy
    <2>17. CASE TmpProfileRemove BY <2>17 DEF TmpProfileRemove
    <2>18. CASE TmpProfileLink BY <2>18 DEF TmpProfileLink
    <2>19. CASE PortagePresent BY <2>19 DEF PortagePresent
    <2>20. CASE PortageInstall BY <2>20 DEF PortageInstall
    <2>21. CASE PortageLink BY <2>21 DEF PortageLink, FailureIgnored
    <2>22. CASE PreparePortage BY <2>22 DEF PreparePortage, FailureIgnored
    <2>23. CASE Mark1 BY <2>23 DEF Mark1, After1, Enter2, After2, Enter3, After3,
        Enter4, Ends
    <2>24. CASE Fetch BY <2>24 DEF Fetch, Fetching
    <2>25. CASE TmpProfileUse BY <2>25 DEF TmpProfileUse, AppendUse, FailureIgnored
    <2>26. CASE PortageRepos BY <2>26 DEF PortageRepos
    <2> QED BY <1>2, <2>1, <2>2, <2>3, <2>4, <2>5, <2>6, <2>7, <2>8, <2>9, <2>10,
        <2>11, <2>12, <2>13, <2>14, <2>15, <2>16, <2>17, <2>18, <2>19, <2>20, <2>21,
        <2>22, <2>23, <2>24, <2>25, <2>26 DEF Stage1
  <1>3. CASE Emerge
    <2>1. CASE EmergeSkip BY <2>1 DEF EmergeSkip
    <2>2. CASE EmergeBegin BY <2>2 DEF EmergeBegin
    <2>3. CASE EmergeEnd BY <2>3 DEF EmergeEnd
    <2>4. CASE EmergeDone BY <2>4 DEF EmergeDone, AfterCall
    <2> QED BY <1>3, <2>1, <2>2, <2>3, <2>4 DEF Emerge
  <1>4. CASE Stage2
    <2>1. CASE Check2 BY <2>1 DEF Check2
    <2>2. CASE Wrap2 BY <2>2 DEF Wrap2
    <2>3. CASE Libs2 BY <2>3 DEF Libs2
    <2>4. CASE Mark2 BY <2>4 DEF Mark2, After1, Enter2, After2, Enter3, After3,
        Enter4, Ends
    <2> QED BY <1>4, <2>1, <2>2, <2>3, <2>4 DEF Stage2
  <1>5. CASE Stage3
    <2>1. CASE Env3 BY <2>1 DEF Env3
    <2>2. CASE Gcc3 BY <2>2 DEF Gcc3
    <2>3. CASE Prepare3 BY <2>3 DEF Prepare3
    <2>4. CASE PyLink3 BY <2>4 DEF PyLink3, HasPython
    <2>5. CASE Undo3 BY <2>5 DEF Undo3
    <2>6. CASE PyUnlink3 BY <2>6 DEF PyUnlink3, HasPython
    <2>7. CASE Sync3 BY <2>7 DEF Sync3
    <2>8. CASE System3 BY <2>8 DEF System3
    <2>9. CASE Rm98 BY <2>9 DEF Rm98
    <2>10. CASE World3 BY <2>10 DEF World3
    <2>11. CASE Mark3 BY <2>11 DEF Mark3, After1, Enter2, After2, Enter3, After3,
        Enter4, Ends
    <2> QED BY <1>5, <2>1, <2>2, <2>3, <2>4, <2>5, <2>6, <2>7, <2>8, <2>9, <2>10,
        <2>11 DEF Stage3
  <1>6. CASE Finish
    <2>1. CASE CleanupBegin BY <2>1 DEF CleanupBegin, TmpVdb
    <2>2. CASE CleanupVar BY <2>2 DEF CleanupVar
    <2>3. CASE CleanupEnd BY <2>3 DEF CleanupEnd
    <2>4. CASE StartScript BY <2>4 DEF StartScript
    <2> QED BY <1>6, <2>1, <2>2, <2>3, <2>4 DEF Finish
  <1>7. CASE ToolFailureIgnored BY <1>7 DEF ToolFailureIgnored, Ignored
  <1>8. CASE StageFails BY <1>8 DEF StageFails, Stopped, Ignored, TornNow
  <1>9. CASE Kill BY <1>9 DEF Kill, Stopped, TornNow
  <1>10. CASE UNCHANGED vars
    BY <1>10 DEF vars
  <1>11. CASE FailsAgain BY <1>11 DEF FailsAgain, Stopped, TornNow
  <1> QED BY <1>1, <1>2, <1>3, <1>4, <1>5, <1>6, <1>7, <1>8, <1>9, <1>10, <1>11
      DEF Next, Script

\* Every step keeps what the guards of stage 1 vouch for, and what it has done.
LEMMA GuardsStep ==
    ASSUME Targets = {Interactive}, TypeOK, BusyHere, Ordered, GuardsHonest,
        Stage1Progress, [Next]_vars
    PROVE  GuardsHonest' /\ Stage1Progress'
  <1> USE ConstantsAssumption DEF TypeOK, BusyHere, Ordered, StageOrder, Forward,
      TmpLife, GuardsHonest, Stage1Progress, AfterTools, AfterTree, AfterConf,
      AfterProfile, AfterUse, AfterTmp, AfterPortage, Past, ToolSound, process,
      stage1Disk, stage3Disk, faults, Goto, Stage1Step, LateStep, Labels,
      Stage1Labels, Stage2Labels, Stage3Labels, FinishLabels, Calls, Calls2, Calls3,
      None, Tool, Conf, UseHack, TmpProfile, TmpUse, Tree, Portage, Shell, RootProfile,
      RpathProfile, Tools, Interactive
  <1>1. ASSUME NEW t \in Targets, NEW s \in 0..3, StartRun(t, s)
        PROVE  GuardsHonest' /\ Stage1Progress'
    BY <1>1 DEF StartRun, After1, Enter2, After2, Enter3, After3, Enter4, Ends,
        Enter1
  <1>2. CASE Stage1
    <2>1. CASE ToolPresent BY <2>1 DEF ToolPresent
    <2>2. CASE ToolBuild BY <2>2 DEF ToolBuild
    <2>3. CASE ToolInstall BY <2>3 DEF ToolInstall
    <2>4. CASE ToolDone BY <2>4 DEF ToolDone
    <2>5. CASE ToolsDone BY <2>5 DEF ToolsDone
    <2>6. CASE TreePresent BY <2>6 DEF TreePresent
    <2>7. CASE TreeUnpack BY <2>7 DEF TreeUnpack
    <2>8. CASE TreeDone BY <2>8 DEF TreeDone
    <2>9. CASE SetupPresent BY <2>9 DEF SetupPresent
    <2>10. CASE SetupConf BY <2>10 DEF SetupConf
    <2>11. CASE SetupConfPresent BY <2>11 DEF SetupConfPresent
    <2>12. CASE SetupConfDone
      <3>1. GuardsHonest' BY <2>12 DEF SetupConfDone, FailureIgnored
      <3>2. Stage1Progress' BY <2>12 DEF SetupConfDone, FailureIgnored
      <3> QED BY <3>1, <3>2
    <2>13. CASE SetupProfile BY <2>13 DEF SetupProfile
    <2>14. CASE SetupUse BY <2>14 DEF SetupUse, AppendUse, FailureIgnored
    <2>15. CASE TmpProfilePresent BY <2>15 DEF TmpProfilePresent
    <2>16. CASE TmpProfileCopy BY <2>16 DEF TmpProfileCopy
    <2>17. CASE TmpProfileRemove BY <2>17 DEF TmpProfileRemove
    <2>18. CASE TmpProfileLink BY <2>18 DEF TmpProfileLink
    <2>19. CASE PortagePresent BY <2>19 DEF PortagePresent
    <2>20. CASE PortageInstall BY <2>20 DEF PortageInstall
    <2>21. CASE PortageLink BY <2>21 DEF PortageLink, FailureIgnored
    <2>22. CASE PreparePortage BY <2>22 DEF PreparePortage, FailureIgnored
    <2>23. CASE Mark1 BY <2>23 DEF Mark1, After1, Enter2, After2, Enter3, After3,
        Enter4, Ends
    <2>24. CASE Fetch BY <2>24 DEF Fetch, Fetching
    <2>25. CASE TmpProfileUse
      <3>1. GuardsHonest' BY <2>25 DEF TmpProfileUse, AppendUse, FailureIgnored
      <3>2. Stage1Progress' BY <2>25 DEF TmpProfileUse, AppendUse, FailureIgnored
      <3> QED BY <3>1, <3>2
    <2>26. CASE PortageRepos BY <2>26 DEF PortageRepos
    <2> QED BY <1>2, <2>1, <2>2, <2>3, <2>4, <2>5, <2>6, <2>7, <2>8, <2>9, <2>10,
        <2>11, <2>12, <2>13, <2>14, <2>15, <2>16, <2>17, <2>18, <2>19, <2>20, <2>21,
        <2>22, <2>23, <2>24, <2>25, <2>26 DEF Stage1
  <1>3. CASE Emerge
    <2>1. CASE EmergeSkip BY <2>1 DEF EmergeSkip
    <2>2. CASE EmergeBegin BY <2>2 DEF EmergeBegin
    <2>3. CASE EmergeEnd BY <2>3 DEF EmergeEnd
    <2>4. CASE EmergeDone BY <2>4 DEF EmergeDone, AfterCall
    <2> QED BY <1>3, <2>1, <2>2, <2>3, <2>4 DEF Emerge
  <1>4. CASE Stage2
    <2>1. CASE Check2 BY <2>1 DEF Check2
    <2>2. CASE Wrap2 BY <2>2 DEF Wrap2
    <2>3. CASE Libs2 BY <2>3 DEF Libs2
    <2>4. CASE Mark2 BY <2>4 DEF Mark2, After1, Enter2, After2, Enter3, After3,
        Enter4, Ends
    <2> QED BY <1>4, <2>1, <2>2, <2>3, <2>4 DEF Stage2
  <1>5. CASE Stage3
    <2>1. CASE Env3 BY <2>1 DEF Env3
    <2>2. CASE Gcc3 BY <2>2 DEF Gcc3
    <2>3. CASE Prepare3 BY <2>3 DEF Prepare3
    <2>4. CASE PyLink3 BY <2>4 DEF PyLink3, HasPython
    <2>5. CASE Undo3 BY <2>5 DEF Undo3
    <2>6. CASE PyUnlink3 BY <2>6 DEF PyUnlink3, HasPython
    <2>7. CASE Sync3 BY <2>7 DEF Sync3
    <2>8. CASE System3 BY <2>8 DEF System3
    <2>9. CASE Rm98 BY <2>9 DEF Rm98
    <2>10. CASE World3 BY <2>10 DEF World3
    <2>11. CASE Mark3 BY <2>11 DEF Mark3, After1, Enter2, After2, Enter3, After3,
        Enter4, Ends
    <2> QED BY <1>5, <2>1, <2>2, <2>3, <2>4, <2>5, <2>6, <2>7, <2>8, <2>9, <2>10,
        <2>11 DEF Stage3
  <1>6. CASE Finish
    <2>1. CASE CleanupBegin BY <2>1 DEF CleanupBegin, TmpVdb
    <2>2. CASE CleanupVar BY <2>2 DEF CleanupVar
    <2>3. CASE CleanupEnd BY <2>3 DEF CleanupEnd
    <2>4. CASE StartScript BY <2>4 DEF StartScript
    <2> QED BY <1>6, <2>1, <2>2, <2>3, <2>4 DEF Finish
  <1>7. CASE ToolFailureIgnored BY <1>7 DEF ToolFailureIgnored, Ignored
  <1>8. CASE StageFails BY <1>8 DEF StageFails, Stopped, Ignored, TornNow
  <1>9. CASE Kill BY <1>9 DEF Kill, Stopped, TornNow
  <1>10. CASE UNCHANGED vars
    BY <1>10 DEF vars
  <1>11. CASE FailsAgain BY <1>11 DEF FailsAgain, Stopped, TornNow
  <1> QED BY <1>1, <1>2, <1>3, <1>4, <1>5, <1>6, <1>7, <1>8, <1>9, <1>10, <1>11
      DEF Next, Script

\* Every step keeps what stage 3 has cut of the links into tmp.
LEMMA Stage3Step ==
    ASSUME Targets = {Interactive}, TypeOK, BusyHere, Ordered, Stage3Progress,
        [Next]_vars
    PROVE  Stage3Progress'
  <1> USE ConstantsAssumption DEF TypeOK, BusyHere, Ordered, StageOrder, Forward,
      TmpLife, Stage3Progress, HasPython, AfterUndo, AfterUnlink, AfterBash,
      process, stage1Disk, stage3Disk, faults, Goto, Stage1Step, LateStep, Labels,
      Stage1Labels, Stage2Labels, Stage3Labels, FinishLabels, Calls, Calls2, Calls3,
      None, Tool, Interactive
  <1>1. ASSUME NEW t \in Targets, NEW s \in 0..3, StartRun(t, s)
        PROVE  Stage3Progress'
    BY <1>1 DEF StartRun, After1, Enter2, After2, Enter3, After3, Enter4, Ends,
        Enter1
  <1>2. CASE Stage1
    <2>1. CASE ToolPresent BY <2>1 DEF ToolPresent
    <2>2. CASE ToolBuild BY <2>2 DEF ToolBuild
    <2>3. CASE ToolInstall BY <2>3 DEF ToolInstall
    <2>4. CASE ToolDone BY <2>4 DEF ToolDone
    <2>5. CASE ToolsDone BY <2>5 DEF ToolsDone
    <2>6. CASE TreePresent BY <2>6 DEF TreePresent
    <2>7. CASE TreeUnpack BY <2>7 DEF TreeUnpack
    <2>8. CASE TreeDone BY <2>8 DEF TreeDone
    <2>9. CASE SetupPresent BY <2>9 DEF SetupPresent
    <2>10. CASE SetupConf BY <2>10 DEF SetupConf
    <2>11. CASE SetupConfPresent BY <2>11 DEF SetupConfPresent
    <2>12. CASE SetupConfDone BY <2>12 DEF SetupConfDone, FailureIgnored
    <2>13. CASE SetupProfile BY <2>13 DEF SetupProfile
    <2>14. CASE SetupUse BY <2>14 DEF SetupUse, AppendUse, FailureIgnored
    <2>15. CASE TmpProfilePresent BY <2>15 DEF TmpProfilePresent
    <2>16. CASE TmpProfileCopy BY <2>16 DEF TmpProfileCopy
    <2>17. CASE TmpProfileRemove BY <2>17 DEF TmpProfileRemove
    <2>18. CASE TmpProfileLink BY <2>18 DEF TmpProfileLink
    <2>19. CASE PortagePresent BY <2>19 DEF PortagePresent
    <2>20. CASE PortageInstall BY <2>20 DEF PortageInstall
    <2>21. CASE PortageLink BY <2>21 DEF PortageLink, FailureIgnored
    <2>22. CASE PreparePortage BY <2>22 DEF PreparePortage, FailureIgnored
    <2>23. CASE Mark1 BY <2>23 DEF Mark1, After1, Enter2, After2, Enter3, After3,
        Enter4, Ends
    <2>24. CASE Fetch BY <2>24 DEF Fetch, Fetching
    <2>25. CASE TmpProfileUse BY <2>25 DEF TmpProfileUse, AppendUse, FailureIgnored
    <2>26. CASE PortageRepos BY <2>26 DEF PortageRepos
    <2> QED BY <1>2, <2>1, <2>2, <2>3, <2>4, <2>5, <2>6, <2>7, <2>8, <2>9, <2>10,
        <2>11, <2>12, <2>13, <2>14, <2>15, <2>16, <2>17, <2>18, <2>19, <2>20, <2>21,
        <2>22, <2>23, <2>24, <2>25, <2>26 DEF Stage1
  <1>3. CASE Emerge
    <2>1. CASE EmergeSkip BY <2>1 DEF EmergeSkip
    <2>2. CASE EmergeBegin BY <2>2 DEF EmergeBegin
    <2>3. CASE EmergeEnd BY <2>3 DEF EmergeEnd
    <2>4. CASE EmergeDone BY <2>4 DEF EmergeDone, AfterCall
    <2> QED BY <1>3, <2>1, <2>2, <2>3, <2>4 DEF Emerge
  <1>4. CASE Stage2
    <2>1. CASE Check2 BY <2>1 DEF Check2
    <2>2. CASE Wrap2 BY <2>2 DEF Wrap2
    <2>3. CASE Libs2 BY <2>3 DEF Libs2
    <2>4. CASE Mark2 BY <2>4 DEF Mark2, After1, Enter2, After2, Enter3, After3,
        Enter4, Ends
    <2> QED BY <1>4, <2>1, <2>2, <2>3, <2>4 DEF Stage2
  <1>5. CASE Stage3
    <2>1. CASE Env3 BY <2>1 DEF Env3
    <2>2. CASE Gcc3 BY <2>2 DEF Gcc3
    <2>3. CASE Prepare3 BY <2>3 DEF Prepare3
    <2>4. CASE PyLink3 BY <2>4 DEF PyLink3, HasPython
    <2>5. CASE Undo3 BY <2>5 DEF Undo3
    <2>6. CASE PyUnlink3 BY <2>6 DEF PyUnlink3, HasPython
    <2>7. CASE Sync3 BY <2>7 DEF Sync3
    <2>8. CASE System3 BY <2>8 DEF System3
    <2>9. CASE Rm98 BY <2>9 DEF Rm98
    <2>10. CASE World3 BY <2>10 DEF World3
    <2>11. CASE Mark3 BY <2>11 DEF Mark3, After1, Enter2, After2, Enter3, After3,
        Enter4, Ends
    <2> QED BY <1>5, <2>1, <2>2, <2>3, <2>4, <2>5, <2>6, <2>7, <2>8, <2>9, <2>10,
        <2>11 DEF Stage3
  <1>6. CASE Finish
    <2>1. CASE CleanupBegin BY <2>1 DEF CleanupBegin, TmpVdb
    <2>2. CASE CleanupVar BY <2>2 DEF CleanupVar
    <2>3. CASE CleanupEnd BY <2>3 DEF CleanupEnd
    <2>4. CASE StartScript BY <2>4 DEF StartScript
    <2> QED BY <1>6, <2>1, <2>2, <2>3, <2>4 DEF Finish
  <1>7. CASE ToolFailureIgnored BY <1>7 DEF ToolFailureIgnored, Ignored
  <1>8. CASE StageFails BY <1>8 DEF StageFails, Stopped, Ignored, TornNow
  <1>9. CASE Kill BY <1>9 DEF Kill, Stopped, TornNow
  <1>10. CASE UNCHANGED vars
    BY <1>10 DEF vars
  <1>11. CASE FailsAgain BY <1>11 DEF FailsAgain, Stopped, TornNow
  <1> QED BY <1>1, <1>2, <1>3, <1>4, <1>5, <1>6, <1>7, <1>8, <1>9, <1>10, <1>11
      DEF Next, Script

\* Every step keeps what the stages arrange for their compilers.
LEMMA SurroundingsStep ==
    ASSUME TypeOK, BusyHere, Surroundings, [Next]_vars
    PROVE  Surroundings'
  <1> USE ConstantsAssumption DEF TypeOK, BusyHere, Surroundings, HasPython,
      process, stage1Disk, stage3Disk, faults, Goto, Stage1Step, LateStep, Labels,
      Stage1Labels, Stage2Labels, Stage3Labels, FinishLabels, Calls, Calls2, Calls3,
      None, Tool, Interactive, AllTargets
  <1>1. ASSUME NEW t \in Targets, NEW s \in 0..3, StartRun(t, s)
        PROVE  Surroundings'
    BY <1>1 DEF StartRun, After1, Enter2, After2, Enter3, After3, Enter4, Ends,
        Enter1
  <1>2. CASE Stage1
    <2>1. CASE ToolPresent BY <2>1 DEF ToolPresent
    <2>2. CASE ToolBuild BY <2>2 DEF ToolBuild
    <2>3. CASE ToolInstall BY <2>3 DEF ToolInstall
    <2>4. CASE ToolDone BY <2>4 DEF ToolDone
    <2>5. CASE ToolsDone BY <2>5 DEF ToolsDone
    <2>6. CASE TreePresent BY <2>6 DEF TreePresent
    <2>7. CASE TreeUnpack BY <2>7 DEF TreeUnpack
    <2>8. CASE TreeDone BY <2>8 DEF TreeDone
    <2>9. CASE SetupPresent BY <2>9 DEF SetupPresent
    <2>10. CASE SetupConf BY <2>10 DEF SetupConf
    <2>11. CASE SetupConfPresent BY <2>11 DEF SetupConfPresent
    <2>12. CASE SetupConfDone BY <2>12 DEF SetupConfDone, FailureIgnored
    <2>13. CASE SetupProfile BY <2>13 DEF SetupProfile
    <2>14. CASE SetupUse BY <2>14 DEF SetupUse, AppendUse, FailureIgnored
    <2>15. CASE TmpProfilePresent BY <2>15 DEF TmpProfilePresent
    <2>16. CASE TmpProfileCopy BY <2>16 DEF TmpProfileCopy
    <2>17. CASE TmpProfileRemove BY <2>17 DEF TmpProfileRemove
    <2>18. CASE TmpProfileLink BY <2>18 DEF TmpProfileLink
    <2>19. CASE PortagePresent BY <2>19 DEF PortagePresent
    <2>20. CASE PortageInstall BY <2>20 DEF PortageInstall
    <2>21. CASE PortageLink BY <2>21 DEF PortageLink, FailureIgnored
    <2>22. CASE PreparePortage BY <2>22 DEF PreparePortage, FailureIgnored
    <2>23. CASE Mark1 BY <2>23 DEF Mark1, After1, Enter2, After2, Enter3, After3,
        Enter4, Ends
    <2>24. CASE Fetch BY <2>24 DEF Fetch, Fetching
    <2>25. CASE TmpProfileUse BY <2>25 DEF TmpProfileUse, AppendUse, FailureIgnored
    <2>26. CASE PortageRepos BY <2>26 DEF PortageRepos
    <2> QED BY <1>2, <2>1, <2>2, <2>3, <2>4, <2>5, <2>6, <2>7, <2>8, <2>9, <2>10,
        <2>11, <2>12, <2>13, <2>14, <2>15, <2>16, <2>17, <2>18, <2>19, <2>20, <2>21,
        <2>22, <2>23, <2>24, <2>25, <2>26 DEF Stage1
  <1>3. CASE Emerge
    <2>1. CASE EmergeSkip BY <2>1 DEF EmergeSkip
    <2>2. CASE EmergeBegin BY <2>2 DEF EmergeBegin
    <2>3. CASE EmergeEnd BY <2>3 DEF EmergeEnd
    <2>4. CASE EmergeDone BY <2>4 DEF EmergeDone, AfterCall
    <2> QED BY <1>3, <2>1, <2>2, <2>3, <2>4 DEF Emerge
  <1>4. CASE Stage2
    <2>1. CASE Check2 BY <2>1 DEF Check2
    <2>2. CASE Wrap2 BY <2>2 DEF Wrap2
    <2>3. CASE Libs2 BY <2>3 DEF Libs2
    <2>4. CASE Mark2 BY <2>4 DEF Mark2, After1, Enter2, After2, Enter3, After3,
        Enter4, Ends
    <2> QED BY <1>4, <2>1, <2>2, <2>3, <2>4 DEF Stage2
  <1>5. CASE Stage3
    <2>1. CASE Env3 BY <2>1 DEF Env3
    <2>2. CASE Gcc3 BY <2>2 DEF Gcc3
    <2>3. CASE Prepare3 BY <2>3 DEF Prepare3
    <2>4. CASE PyLink3 BY <2>4 DEF PyLink3, HasPython
    <2>5. CASE Undo3 BY <2>5 DEF Undo3
    <2>6. CASE PyUnlink3 BY <2>6 DEF PyUnlink3, HasPython
    <2>7. CASE Sync3 BY <2>7 DEF Sync3
    <2>8. CASE System3 BY <2>8 DEF System3
    <2>9. CASE Rm98 BY <2>9 DEF Rm98
    <2>10. CASE World3 BY <2>10 DEF World3
    <2>11. CASE Mark3 BY <2>11 DEF Mark3, After1, Enter2, After2, Enter3, After3,
        Enter4, Ends
    <2> QED BY <1>5, <2>1, <2>2, <2>3, <2>4, <2>5, <2>6, <2>7, <2>8, <2>9, <2>10,
        <2>11 DEF Stage3
  <1>6. CASE Finish
    <2>1. CASE CleanupBegin BY <2>1 DEF CleanupBegin, TmpVdb
    <2>2. CASE CleanupVar BY <2>2 DEF CleanupVar
    <2>3. CASE CleanupEnd BY <2>3 DEF CleanupEnd
    <2>4. CASE StartScript BY <2>4 DEF StartScript
    <2> QED BY <1>6, <2>1, <2>2, <2>3, <2>4 DEF Finish
  <1>7. CASE ToolFailureIgnored BY <1>7 DEF ToolFailureIgnored, Ignored
  <1>8. CASE StageFails BY <1>8 DEF StageFails, Stopped, Ignored, TornNow
  <1>9. CASE Kill BY <1>9 DEF Kill, Stopped, TornNow
  <1>10. CASE UNCHANGED vars
    BY <1>10 DEF vars
  <1>11. CASE FailsAgain BY <1>11 DEF FailsAgain, Stopped, TornNow
  <1> QED BY <1>1, <1>2, <1>3, <1>4, <1>5, <1>6, <1>7, <1>8, <1>9, <1>10, <1>11
      DEF Next, Script

\* No step lets .unpacked vouch for a tree that is not whole.
LEMMA TreeStep ==
    ASSUME TreeSound, [Next]_vars
    PROVE  TreeSound'
  <1> USE ConstantsAssumption DEF TreeSound, process, stage1Disk, Goto, Stage1Step,
      LateStep
  <1>1. ASSUME NEW t \in Targets, NEW s \in 0..3, StartRun(t, s)
        PROVE  TreeSound'
    BY <1>1 DEF StartRun, After1, Enter2, After2, Enter3, After3, Enter4, Ends,
        Enter1
  <1>2. CASE Stage1
    <2>1. CASE ToolPresent BY <2>1 DEF ToolPresent
    <2>2. CASE ToolBuild BY <2>2 DEF ToolBuild
    <2>3. CASE ToolInstall BY <2>3 DEF ToolInstall
    <2>4. CASE ToolDone BY <2>4 DEF ToolDone
    <2>5. CASE ToolsDone BY <2>5 DEF ToolsDone
    <2>6. CASE TreePresent BY <2>6 DEF TreePresent
    <2>7. CASE TreeUnpack BY <2>7 DEF TreeUnpack
    <2>8. CASE TreeDone BY <2>8 DEF TreeDone
    <2>9. CASE SetupPresent BY <2>9 DEF SetupPresent
    <2>10. CASE SetupConf BY <2>10 DEF SetupConf
    <2>11. CASE SetupConfPresent BY <2>11 DEF SetupConfPresent
    <2>12. CASE SetupConfDone BY <2>12 DEF SetupConfDone, FailureIgnored
    <2>13. CASE SetupProfile BY <2>13 DEF SetupProfile
    <2>14. CASE SetupUse BY <2>14 DEF SetupUse, AppendUse, FailureIgnored
    <2>15. CASE TmpProfilePresent BY <2>15 DEF TmpProfilePresent
    <2>16. CASE TmpProfileCopy BY <2>16 DEF TmpProfileCopy
    <2>17. CASE TmpProfileRemove BY <2>17 DEF TmpProfileRemove
    <2>18. CASE TmpProfileLink BY <2>18 DEF TmpProfileLink
    <2>19. CASE PortagePresent BY <2>19 DEF PortagePresent
    <2>20. CASE PortageInstall BY <2>20 DEF PortageInstall
    <2>21. CASE PortageLink BY <2>21 DEF PortageLink, FailureIgnored
    <2>22. CASE PreparePortage BY <2>22 DEF PreparePortage, FailureIgnored
    <2>23. CASE Mark1 BY <2>23 DEF Mark1, After1, Enter2, After2, Enter3, After3,
        Enter4, Ends
    <2>24. CASE Fetch BY <2>24 DEF Fetch, Fetching
    <2>25. CASE TmpProfileUse BY <2>25 DEF TmpProfileUse, AppendUse, FailureIgnored
    <2>26. CASE PortageRepos BY <2>26 DEF PortageRepos
    <2> QED BY <1>2, <2>1, <2>2, <2>3, <2>4, <2>5, <2>6, <2>7, <2>8, <2>9, <2>10,
        <2>11, <2>12, <2>13, <2>14, <2>15, <2>16, <2>17, <2>18, <2>19, <2>20, <2>21,
        <2>22, <2>23, <2>24, <2>25, <2>26 DEF Stage1
  <1>3. CASE Emerge
    <2>1. CASE EmergeSkip BY <2>1 DEF EmergeSkip
    <2>2. CASE EmergeBegin BY <2>2 DEF EmergeBegin
    <2>3. CASE EmergeEnd BY <2>3 DEF EmergeEnd
    <2>4. CASE EmergeDone BY <2>4 DEF EmergeDone, AfterCall
    <2> QED BY <1>3, <2>1, <2>2, <2>3, <2>4 DEF Emerge
  <1>4. CASE Stage2
    <2>1. CASE Check2 BY <2>1 DEF Check2
    <2>2. CASE Wrap2 BY <2>2 DEF Wrap2
    <2>3. CASE Libs2 BY <2>3 DEF Libs2
    <2>4. CASE Mark2 BY <2>4 DEF Mark2, After1, Enter2, After2, Enter3, After3,
        Enter4, Ends
    <2> QED BY <1>4, <2>1, <2>2, <2>3, <2>4 DEF Stage2
  <1>5. CASE Stage3
    <2>1. CASE Env3 BY <2>1 DEF Env3
    <2>2. CASE Gcc3 BY <2>2 DEF Gcc3
    <2>3. CASE Prepare3 BY <2>3 DEF Prepare3
    <2>4. CASE PyLink3 BY <2>4 DEF PyLink3, HasPython
    <2>5. CASE Undo3 BY <2>5 DEF Undo3
    <2>6. CASE PyUnlink3 BY <2>6 DEF PyUnlink3, HasPython
    <2>7. CASE Sync3 BY <2>7 DEF Sync3
    <2>8. CASE System3 BY <2>8 DEF System3
    <2>9. CASE Rm98 BY <2>9 DEF Rm98
    <2>10. CASE World3 BY <2>10 DEF World3
    <2>11. CASE Mark3 BY <2>11 DEF Mark3, After1, Enter2, After2, Enter3, After3,
        Enter4, Ends
    <2> QED BY <1>5, <2>1, <2>2, <2>3, <2>4, <2>5, <2>6, <2>7, <2>8, <2>9, <2>10,
        <2>11 DEF Stage3
  <1>6. CASE Finish
    <2>1. CASE CleanupBegin BY <2>1 DEF CleanupBegin, TmpVdb
    <2>2. CASE CleanupVar BY <2>2 DEF CleanupVar
    <2>3. CASE CleanupEnd BY <2>3 DEF CleanupEnd
    <2>4. CASE StartScript BY <2>4 DEF StartScript
    <2> QED BY <1>6, <2>1, <2>2, <2>3, <2>4 DEF Finish
  <1>7. CASE ToolFailureIgnored BY <1>7 DEF ToolFailureIgnored, Ignored
  <1>8. CASE StageFails BY <1>8 DEF StageFails, Stopped, Ignored, TornNow
  <1>9. CASE Kill BY <1>9 DEF Kill, Stopped, TornNow
  <1>10. CASE UNCHANGED vars
    BY <1>10 DEF vars
  <1>11. CASE FailsAgain BY <1>11 DEF FailsAgain, Stopped, TornNow
  <1> QED BY <1>1, <1>2, <1>3, <1>4, <1>5, <1>6, <1>7, <1>8, <1>9, <1>10, <1>11
      DEF Next, Script

-----------------------------------------------------------------------------

\* Nothing is running and nothing is there before the first run.
LEMMA Start == Init => TypeOK /\ BusyHere
  <1> SUFFICES ASSUME Init PROVE TypeOK /\ BusyHere
    OBVIOUS
  <1>1. unpacked \in BOOLEAN /\ synced \in BOOLEAN /\ wrappers \in BOOLEAN
    BY DEF Init
  <1>2. env98 \in BOOLEAN /\ pyLink \in BOOLEAN /\ ldConf \in BOOLEAN /\ success \in BOOLEAN
    BY DEF Init
  <1> QED
    BY ConstantsAssumption, <1>1, <1>2
    DEF Init, TypeOK, BusyHere, Labels, Calls, Calls2, Calls3, None, AllTargets, Interactive

\* The empty disk satisfies every part of the invariant.
LEMMA StartInductive == Init => Inductive
  <1> SUFFICES ASSUME Init PROVE Inductive
    OBVIOUS
  <1> USE DEF Init, Stage1Labels, Stage2Labels, Stage3Labels, FinishLabels, Calls, Calls2, Calls3
  <1>1. TypeOK /\ BusyHere BY Start
  <1>2. Ordered BY DEF Ordered, StageOrder, Forward, TmpLife
  <1>3. GuardsHonest /\ Stage1Progress
    BY DEF GuardsHonest, Stage1Progress, Past, AfterTools, AfterTree, AfterConf, AfterProfile,
           AfterUse, AfterTmp, AfterPortage
  <1>4. Stage3Progress /\ Surroundings
    BY DEF Stage3Progress, Surroundings, HasPython, AfterUndo, AfterUnlink, AfterBash
  <1> QED BY <1>1, <1>2, <1>3, <1>4 DEF Inductive

\* Any step, of the script or of the faults around it, preserves the invariant.
LEMMA InductiveStep ==
    ASSUME Targets = {Interactive}, Inductive, [Next]_vars
    PROVE  Inductive'
  BY TypeStep, OrderStep, GuardsStep, Stage3Step, SurroundingsStep DEF Inductive

\* Every variable keeps the type its declaration gives it, in every run with
\* any constants and whatever stages the user asks for.
THEOREM TypeCorrect == Spec => []TypeOK
  <1>1. TypeOK /\ BusyHere /\ [Next]_vars => TypeOK' /\ BusyHere'
    BY TypeStep
  <1> QED BY Start, <1>1, PTL DEF Spec

\* The parts of Inductive hold together from the first run to the last.
THEOREM InductiveAlways ==
    ASSUME Targets = {Interactive}
    PROVE  Spec => []Inductive
  <1>1. Inductive /\ [Next]_vars => Inductive'
    BY InductiveStep
  <1> QED BY StartInductive, <1>1, PTL DEF Spec

\* The stages of bootstrap_interactive finish in order and tmp outlives them.
THEOREM OrderKept ==
    ASSUME Targets = {Interactive}
    PROVE  Spec => []StageOrder
  <1>1. Inductive => StageOrder
    BY DEF Inductive, Ordered
  <1> QED BY InductiveAlways, <1>1, PTL

\* .stage1-finished means that all of stage 1 is there, or torn by a fault
\* behind a guard that a later run trusted; for any number of faults.
THEOREM StageOneComplete ==
    ASSUME Targets = {Interactive}
    PROVE  Spec => []CompleteOrTorn
  <1>1. Inductive => CompleteOrTorn
    BY DEF Inductive, TypeOK, Ordered, Forward, GuardsHonest, Stage1Progress, CompleteOrTorn,
           Past, RootProfile, RpathProfile, Stage1Labels
  <1> QED BY InductiveAlways, <1>1, PTL

\* bootstrap_interactive removes tmp only when nothing in the prefix links to it.
THEOREM TmpSafelyRemoved ==
    ASSUME Targets = {Interactive}
    PROVE  Spec => []TmpUnreferenced
  <1>1. Inductive => TmpUnreferenced
    BY DEF Inductive, Ordered, StageOrder, TmpLife, Stage3Progress, TmpUnreferenced, FinishLabels
  <1> QED BY InductiveAlways, <1>1, PTL

\* Each compiler the stages run finds the environment its stage arranged, also
\* when the user asks for single stages.
THEOREM BuildsInTheirEnvironment == Spec => []BuildEnvironment
  <1> DEFINE Arranged == TypeOK /\ BusyHere /\ Surroundings
  <1>1. Init => Arranged
    BY Start DEF Init, Surroundings, Stage3Labels, Calls3
  <1>2. Arranged /\ [Next]_vars => Arranged'
    BY TypeStep, SurroundingsStep
  <1>3. Arranged => BuildEnvironment
    <2> SUFFICES ASSUME Arranged PROVE BuildEnvironment
      OBVIOUS
    <2>1. busy[1] \in Calls => pc = busy[1]
      BY DEF BusyHere, TypeOK, None, Tool, Calls, Calls2, Calls3
    <2> QED BY <2>1 DEF Surroundings, BuildEnvironment, Stage3Labels, Calls, Calls2, Calls3
  <1> QED BY <1>1, <1>2, <1>3, PTL DEF Spec

\* do_tree's .unpacked vouches for a complete tree, also when the user asks for
\* single stages.
THEOREM TreeKept == Spec => []TreeSound
  <1>1. Init => TreeSound
    BY DEF Init, TreeSound
  <1>2. TreeSound /\ [Next]_vars => TreeSound'
    BY TreeStep
  <1> QED BY <1>1, <1>2, PTL DEF Spec

\* Work on a tool or a package begins in two actions only.
LEMMA OnlyTwoBegin ==
    ASSUME Next, busy' # busy, busy' # None
    PROVE  ToolBuild \/ EmergeBegin
  <1> USE DEF process, Goto, Stage1Step, LateStep
  <1>1. ~Stage1 \/ ToolBuild
    BY DEF Stage1, Fetch, ToolPresent, ToolInstall, ToolDone, ToolsDone, TreePresent, TreeUnpack,
           TreeDone, SetupPresent, SetupConf, SetupConfPresent, SetupConfDone, SetupProfile,
           SetupUse, TmpProfilePresent, TmpProfileCopy, TmpProfileRemove, TmpProfileLink, TmpProfileUse,
           PortagePresent, PortageInstall, PortageLink, PortageRepos, PreparePortage, Mark1
  <1>2. ~Emerge \/ EmergeBegin
    BY DEF Emerge, EmergeSkip, EmergeEnd, EmergeDone
  <1>3. ~Stage2 /\ ~Finish
    BY DEF Stage2, Check2, Wrap2, Libs2, Mark2, Finish, CleanupBegin, CleanupVar, CleanupEnd,
           StartScript
  <1>4. ~Stage3
    BY DEF Stage3, Env3, Gcc3, Prepare3, PyLink3, Undo3, PyUnlink3, Sync3, System3, Rm98,
           World3, Mark3
  <1>5. ~ToolFailureIgnored /\ ~StageFails /\ ~FailsAgain /\ ~Kill
    BY DEF ToolFailureIgnored, StageFails, FailsAgain, Kill, Stopped
  <1>6. ~ \E t \in Targets, s \in 0..3 : StartRun(t, s)
    BY DEF StartRun
  <1> QED BY <1>1, <1>2, <1>3, <1>4, <1>5, <1>6 DEF Next, Script

\* A resumed run begins only work that is missing and whose stage is not done.
THEOREM ResumedWithoutRework ==
    ASSUME Targets = {Interactive}
    PROVE  Spec => NoRework
  <1> DEFINE Fresh == busy' # busy /\ busy' # None =>
                        /\ busy' \notin Present
                        /\ 1 \in marker => busy'[1] # "tool"
                        /\ 2 \in marker => busy'[1] \notin Calls2
                        /\ 3 \notin marker
  <1>1. Inductive /\ [Next]_vars => [Fresh]_vars
    <2> SUFFICES ASSUME Inductive, Next, busy' # busy, busy' # None
                 PROVE  Fresh
      BY DEF vars
    <2> USE DEF Inductive, TypeOK, Ordered, StageOrder, Forward, Stage1Labels, Stage2Labels,
                Stage3Labels, Calls, Calls2, Calls3
    <2>1. CASE ToolBuild
      BY <2>1 DEF ToolBuild, Tool, Present
    <2>2. CASE EmergeBegin
      BY <2>2 DEF EmergeBegin, Tool, Present
    <2> QED BY OnlyTwoBegin, <2>1, <2>2
  <1> QED BY InductiveAlways, <1>1, PTL DEF Spec, NoRework

\* Only do_tree writes to the tree, while it unpacks.
LEMMA OnlyUnpackingWrites ==
    ASSUME Next, tree' # tree
    PROVE  pc \in {"tree", "unpack"}
  <1> USE DEF stage1Disk, Goto, Stage1Step, LateStep
  <1>1. Stage1 => pc \in {"tree", "unpack"}
    BY DEF Stage1, Fetch, ToolPresent, ToolBuild, ToolInstall, ToolDone, ToolsDone, TreePresent,
           TreeUnpack, TreeDone, SetupPresent, SetupConf, SetupConfPresent, SetupConfDone,
           SetupProfile, SetupUse, TmpProfilePresent, TmpProfileCopy, TmpProfileRemove,
           TmpProfileLink, TmpProfileUse, PortagePresent, PortageInstall, PortageLink, PortageRepos, PreparePortage, Mark1
  <1>2. ~Emerge
    BY DEF Emerge, EmergeSkip, EmergeBegin, EmergeEnd, EmergeDone
  <1>3. ~Stage2 /\ ~Finish
    BY DEF Stage2, Check2, Wrap2, Libs2, Mark2, Finish, CleanupBegin, CleanupVar, CleanupEnd,
           StartScript
  <1>4. ~Stage3
    BY DEF Stage3, Env3, Gcc3, Prepare3, PyLink3, Undo3, PyUnlink3, Sync3, System3, Rm98,
           World3, Mark3
  <1>5. ~ToolFailureIgnored /\ ~StageFails /\ ~FailsAgain /\ ~Kill
    BY DEF ToolFailureIgnored, StageFails, FailsAgain, Kill, Stopped
  <1>6. ~ \E t \in Targets, s \in 0..3 : StartRun(t, s)
    BY DEF StartRun
  <1> QED BY <1>1, <1>2, <1>3, <1>4, <1>5, <1>6 DEF Next, Script

\* The tree emerge --sync has brought up to date is never unpacked over.
THEOREM SyncedTreeIsKept ==
    ASSUME Targets = {Interactive}
    PROVE  Spec => SyncedTreeStays
  <1>1. Inductive /\ [Next]_vars => [synced => tree' = tree]_vars
    <2> SUFFICES ASSUME Inductive, Next, synced, tree' # tree
                 PROVE  FALSE
      OBVIOUS
    <2> QED BY OnlyUnpackingWrites
            DEF Inductive, Ordered, StageOrder, Forward, Stage1Labels
  <1> QED BY InductiveAlways, <1>1, PTL DEF Spec, SyncedTreeStays

\* The script implements the staged installation it promises: every step of it
\* is a step of StagedInstall or leaves what the user sees alone.
THEOREM Refinement ==
    ASSUME Targets = {Interactive}
    PROVE  Spec => StagedSpec
  <1> USE DEF Staged!vars
  <1>1. Init => Staged!Init
    BY DEF Init, Staged!Init, Level
  <1>2. Inductive /\ [Next]_vars => [Staged!Next]_(Staged!vars)
    <2> SUFFICES ASSUME Inductive, Next
                 PROVE  [Staged!Next]_(Staged!vars)
      BY DEF vars, Level
    <2> USE DEF Level, Staged!Next, Staged!FinishStage, Staged!Drop, Staged!Declare,
                Inductive, Ordered, StageOrder, TmpLife, TypeOK, Goto, Stage1Step, LateStep
    <2>1. CASE Stage1
      <3>1. CASE Mark1 BY <3>1 DEF Mark1
      <3>2. CASE ~Mark1
        BY <2>1, <3>2
        DEF Stage1, Fetch, ToolPresent, ToolBuild, ToolInstall, ToolDone, ToolsDone, TreePresent,
            TreeUnpack, TreeDone, SetupPresent, SetupConf, SetupConfPresent, SetupConfDone,
            SetupProfile, SetupUse, TmpProfilePresent, TmpProfileCopy, TmpProfileRemove,
            TmpProfileLink, TmpProfileUse, PortagePresent, PortageInstall, PortageLink, PortageRepos, PreparePortage
      <3> QED BY <3>1, <3>2
    <2>2. CASE Emerge
      BY <2>2 DEF Emerge, EmergeSkip, EmergeBegin, EmergeEnd, EmergeDone
    <2>3. CASE Stage2
      BY <2>3 DEF Stage2, Check2, Wrap2, Libs2, Mark2, Stage2Labels
    <2>4. CASE Stage3
      BY <2>4 DEF Stage3, Env3, Gcc3, Prepare3, PyLink3, Undo3, PyUnlink3, Sync3, System3,
                  Rm98, World3, Mark3, Stage3Labels
    <2>5. CASE Finish
      BY <2>5 DEF Finish, CleanupBegin, CleanupVar, CleanupEnd, StartScript, FinishLabels
    <2>6. CASE ToolFailureIgnored \/ StageFails \/ FailsAgain \/ Kill
      BY <2>6 DEF ToolFailureIgnored, StageFails, FailsAgain, Kill, Stopped
    <2>7. ASSUME NEW t \in Targets, NEW s \in 0..3, StartRun(t, s)
          PROVE  [Staged!Next]_(Staged!vars)
      BY <2>7 DEF StartRun, Enter1, After1, Enter2, After2, Enter3, After3, Enter4, Ends, Interactive
    <2> QED BY <2>1, <2>2, <2>3, <2>4, <2>5, <2>6, <2>7 DEF Next, Script
  <1> QED BY InductiveAlways, <1>1, <1>2, PTL DEF Spec, StagedSpec, Staged!Spec
==============================================================================
