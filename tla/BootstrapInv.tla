---------------------------- MODULE BootstrapInv ----------------------------
(***************************************************************************)
(* The inductive invariant of Bootstrap, for runs that are all asked for   *)
(* the whole bootstrap.  Its parts say what each guard is worth at each    *)
(* point of the script; BootstrapProofs shows that they are preserved and  *)
(* that the properties of Bootstrap follow.                                *)
(***************************************************************************)
EXTENDS Bootstrap

\* A stage is left for good with its marker.
Forward ==
    /\ 1 \in marker => pc \notin Stage1Labels
    /\ 2 \in marker => pc \notin Stage2Labels
    /\ 3 \in marker => pc \notin Stage3Labels
    /\ synced => 2 \in marker

\* tmp is there from the first stage on, and has begun to go when the script
\* is past its removal.
TmpLife ==
    /\ marker # {} \/ pc # "idle" => tmp # "none"
    /\ pc \in Stage1Labels => tmp = "live"
    /\ pc \in {"rm", "startscript"} => tmp \in {"halfvar", "half", "empty"}

\* The item at work is the one the script's loop is at.
BusyHere ==
    /\ busy # None /\ pc \notin Calls => pc \in {"tools", "install"} /\ busy = Tool(pos)
    /\ busy # None /\ pc \in Calls => busy = <<pc, pos>> /\ pos \in 1..Size[pc]
    /\ pc = "install" => busy # None
    /\ pc \in {"tools", "install"} => pos \in 1..(NTools + 1)
    /\ pc \in {"tools", "install"} /\ busy # None => pos \in Tools

AfterTools   == Stage1Labels \ {"tools", "install"}
AfterTree    == AfterTools \ {"tree", "unpack"}
AfterConf    == AfterTree \ {"setup", "conf"}
AfterProfile == AfterConf \ {"profile"}
AfterUse     == AfterProfile \ {"use"}
AfterTmp     == AfterUse \ {"tmpcopy", "tmprm", "tmplink", "tmpuse"}
AfterPortage == AfterTmp \ {"portage"}

\* Stage 1 has this label behind it.
Past(labels) == 1 \in marker \/ pc \in labels

\* What each guard file vouches for.
GuardsHonest ==
    /\ \A t \in guard : t \in whole \/ Tool(t) \in torn \/ busy = Tool(t)
    /\ unpacked => tree = "full"
    /\ conf = "partial" => Conf \in torn \/ pc = "conf"
    /\ profile # "none" => RootProfile \in useHack \/ UseHack \in torn \/ pc = "use" \/ synced
    /\ tmpProfile \in {"none", RpathProfile} \/ TmpProfile \in torn \/ pc = "tmprm"
    /\ tmpProfile # "none" =>
          TmpProfile \in torn \/ pc \in {"tmprm", "tmpuse"} \/ TmpUse \in torn
          \/ RpathProfile \in useHack \/ synced
    /\ portage \in {"none", "complete"} \/ Portage \in torn \/ pc \in {"plink", "repos"}
    /\ pc = "conf" => conf = "partial"
    /\ pc = "tmpuse" => tmpProfile = RpathProfile
    /\ pc = "repos" => portage = "linked" \/ Portage \in torn

\* What stage 1 has done once it is past each step.
Stage1Progress ==
    /\ pc \in {"tools", "install"} => \A t \in 1..(pos - 1) : ToolSound(t)
    /\ Past(AfterTools) /\ tmp = "live" => \A t \in Tools : ToolSound(t)
    /\ Past(AfterTree) => tree = "full"
    /\ Past(AfterConf) => conf # "none"
    /\ Past(AfterProfile) => profile = RootProfile
    /\ Past(AfterUse) => RootProfile \in useHack \/ UseHack \in torn \/ synced
    /\ Past(AfterTmp) /\ tmp = "live" => tmpProfile # "none"
    /\ Past(AfterPortage) /\ tmp = "live" => portage # "none"
    /\ Past({"mark1"}) => shell # "none" \/ Shell \in torn

AfterUndo == {"gawk3", "pyunlink3", "bash3", "deps3", "portage3", "sync3", "system3",
              "rm98", "world3", "mark3"}
AfterUnlink == AfterUndo \ {"gawk3", "pyunlink3"}
AfterBash == AfterUnlink \ {"bash3"}

\* What stage 3 has cut of the links into tmp once it is past each step.
Stage3Progress ==
    /\ <<"bash3", 1>> \in vdb => shell = "own"
    /\ HasPython => ~pyLink
    /\ pc \in Calls => \A i \in 1..(pos - 1) : <<pc, i>> \in vdb
    /\ pc \in AfterBash \/ 3 \in marker => <<"bash3", 1>> \in vdb
    /\ pc \in AfterUnlink \/ 3 \in marker => ~pyLink
    /\ pc \in AfterUndo \/ 3 \in marker => ~ldConf
    /\ pc \in {"world3", "mark3"} \/ 3 \in marker => ~env98

\* What each stage arranges for the compilers it runs, while it does.
Surroundings ==
    /\ pc = "compiler2" => wrappers
    /\ pc \in Stage3Labels \ {"env3", "gcc3"} => ~wrappers
    /\ pc \in Stage3Labels \ {"env3", "world3", "mark3"} => env98
    /\ pc = "compiler3" => pyLink \/ HasPython
    /\ Rap /\ pc \in {"base3", "pylink3", "compiler3", "undo3"} => ldConf

\* The parts that the order of the stages rests on.
Ordered ==
    /\ target = Interactive
    /\ StageOrder
    /\ Forward
    /\ TmpLife

\* The whole, which every step of the script and every fault preserves.
Inductive ==
    /\ TypeOK
    /\ BusyHere
    /\ Ordered
    /\ GuardsHonest
    /\ Stage1Progress
    /\ Stage3Progress
    /\ Surroundings
=============================================================================
