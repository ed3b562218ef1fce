------------------------------ MODULE Bootstrap ------------------------------
(***************************************************************************)
(* The staged, resumable bootstrap of bootstrap-prefix.sh, as the          *)
(* Dockerfile drives it: the script is run again and again on one prefix,  *)
(* each run may stop after a stage (STOP_BOOTSTRAP_AFTER), fail, or be     *)
(* killed at any instant, and the next run finds on disk what the earlier  *)
(* ones left.  The disk is the only memory between runs: marker files,     *)
(* guard files of the tools, the Portage database, symlinks into tmp.      *)
(*                                                                         *)
(* The host is Linux with a GNU toolchain, the case the Dockerfile builds; *)
(* Rap selects prefix-standalone (is-rap, line 9) or prefix-rpath.         *)
(***************************************************************************)
EXTENDS Naturals, FiniteSets

CONSTANTS
    NTools,        \* the tools of stage 1 are 1..NTools, in build order
    HostTools,     \* tools of which the host has a version that is good enough
    OptionalTools, \* tools whose failure stage 1 ignores (libressl)
    EarlyTools,    \* tools whose guard file appears before their install ends
    TolerantTools, \* tools that ignore a failing install (python)
    SingleTools,   \* tools with one archive, and no other version to fall back on
    Size,          \* how many packages each emerge_pkgs call is given
    Rap,           \* is-rap
    HostGcc,       \* the host's PATH has a gcc
    Targets,       \* the actions a user asks the script for
    MaxKills, MaxFails   \* bounds on the environment's faults

Tools == 1..NTools

\* The calls of emerge_pkgs, by the list of packages each one is given.
Calls2 == {"base2", "linker2", "compiler2"}
Calls3 == {"base3", "compiler3", "gawk3", "bash3", "deps3", "portage3"}
Calls  == Calls2 \cup Calls3

Interactive == "noninteractive"
AllTargets  == {Interactive, "stage1_log", "stage2_log", "stage3_log"}

ASSUME ConstantsAssumption ==
    /\ NTools \in Nat
    /\ HostTools \subseteq Tools
    /\ OptionalTools \subseteq Tools
    /\ EarlyTools \subseteq Tools
    /\ TolerantTools \subseteq Tools
    /\ SingleTools \subseteq Tools \ OptionalTools
    /\ Size \in [Calls -> Nat \ {0}]
    /\ Rap \in BOOLEAN
    /\ HostGcc \in BOOLEAN
    /\ Targets \subseteq AllTargets
    /\ MaxKills \in Nat
    /\ MaxFails \in Nat

VARIABLES
    \* the process
    pc,         \* where the running script is; "idle" when none runs
    pos,        \* index in the list of tools or packages being worked on
    busy,       \* the tool or package being built, or None
    target,     \* what this run was asked for
    stop,       \* STOP_BOOTSTRAP_AFTER: 1, 2, 3, or 0 when unset
    \* the disk
    marker,     \* k \in marker: ${ROOT}/.stage<k>-finished exists
    guard,      \* tools whose guard file is in tmp/usr
    whole,      \* tools that are completely installed in tmp/usr
    tree,       \* files of ${PORTDIR}: none, partial, full
    unpacked,   \* ${PORTDIR}/.unpacked exists
    synced,     \* the tree has been updated by emerge --sync
    conf,       \* 0100_bootstrap_prefix_make.conf: none, partial, done
    profile,    \* etc/portage/make.profile: none, or the profile it names
    useHack,    \* profiles of the tree whose package.use has the bootstrap's lines
    tmpProfile, \* tmp/etc/portage/make.profile: none, or the profile it names
    portage,    \* stage 1 portage: none, emerge (in place), linked (its python
                \* finds it), complete (repos.conf names the tree)
    dist,       \* archives of one source in ${DISTDIR}: none, torn, whole
    shell,      \* bin/bash: none, tmp (a link into tmp), own
    wrappers,   \* tmp/usr/local/bin/{gcc,mygcc,...} exist
    vdb,        \* <<call, i>>: package i of that call is in var/db/pkg
    env98,      \* etc/env.d/98stage2 exists, with tmp in its PATH
    pyLink,     \* usr/bin/python3.x links to tmp
    ldConf,     \* etc/ld.so.conf.d/stage2.conf names a directory in tmp
    tmp,        \* none, live, halfvar / half (rm under way, var left / gone), empty
    success,    \* a run ended with "Everything just worked"
    \* accounting
    torn,       \* what a kill or a failure left incomplete behind its guard
    kills, fails

process == <<pc, pos, busy, target, stop>>
stage1Disk == <<guard, whole, tree, unpacked, conf, profile, useHack, tmpProfile, portage,
                dist>>
stage3Disk == <<synced, env98, pyLink, ldConf>>
faults == <<torn, kills, fails>>
vars == <<process, marker, stage1Disk, stage3Disk, shell, wrappers, vdb, tmp,
          success, faults>>

None == <<"none", 0>>
Tool(t) == <<"tool", t>>
Conf == <<"conf", 0>>
UseHack == <<"use", 0>>
TmpProfile == <<"tmpprofile", 0>>
TmpUse == <<"tmpuse", 0>>
Tree == <<"tree", 0>>
Portage == <<"portage", 0>>
Shell == <<"shell", 0>>

\* The archives that efetch has one name for: no second format or version is
\* tried when this one does not unpack.
Archives == {Tool(t) : t \in SingleTools} \cup {Tree, Portage}

\* The profile bootstrap_profile selects with and without RAP.
RpathProfile == "rpath"
RootProfile == IF Rap THEN "standalone" ELSE RpathProfile

\* The packages tmp/var/db/pkg records, which rm -Rf tmp takes away.
TmpVdb == {p \in vdb : p[1] \in Calls2}

-----------------------------------------------------------------------------
(* The control flow of bootstrap_interactive: which stage runs next.        *)

Ends(t, s, k) == t # Interactive \/ s = k
\* Mutant: the test for tmp is inverted.
Enter4Mutant == IF tmp \in {"live", "halfvar"} THEN "startscript" ELSE "cleanup"
Enter4 == IF tmp \in {"live", "halfvar"} THEN "cleanup" ELSE "startscript"
After3(t, s) == IF Ends(t, s, 3) THEN "idle" ELSE Enter4
Enter3(t, s) == IF 3 \in marker THEN After3(t, s) ELSE "env3"
After2(t, s) == IF Ends(t, s, 2) THEN "idle" ELSE Enter3(t, s)
Enter2(t, s) == IF 2 \in marker THEN After2(t, s) ELSE "check2"
\* Mutant: stage 3 follows stage 1.
After1Mutant(t, s) == IF Ends(t, s, 1) THEN "idle" ELSE Enter3(t, s)
After1(t, s) == IF Ends(t, s, 1) THEN "idle" ELSE Enter2(t, s)
\* Mutant: .stage1-finished is not looked at.
Enter1Mutant(t, s) == "tools"
Enter1(t, s) == IF 1 \in marker THEN After1(t, s) ELSE "tools"

\* A user (or a RUN line of the Dockerfile) starts the script.  Asked for a
\* single stage, the script runs it whatever the markers say.
StartRun(t, s) ==
    /\ pc = "idle"
    /\ target' = t
    /\ stop' = s
    /\ pos' = 1
    /\ pc' = CASE t = Interactive  -> Enter1(t, s)
               [] t = "stage1_log" -> "tools"
               [] t = "stage2_log" -> "check2"
               [] t = "stage3_log" -> "env3"
    /\ tmp' = IF pc' = "tools" THEN "live" ELSE tmp
    /\ UNCHANGED <<busy, marker, stage1Disk, stage3Disk, shell, wrappers, vdb, success, faults>>

\* What stopping now leaves behind a guard that later runs will trust.
TornNow ==
    CASE busy # None /\ busy[1] = "tool" /\ pos \in guard -> {busy}
      [] pc = "conf"   -> {Conf}
      [] pc = "use"    -> {UseHack}
      [] pc = "tmprm"  -> {TmpProfile}
      [] pc = "tmpuse" -> {TmpUse}
      [] pc \in {"plink", "repos"} -> {Portage}
      [] OTHER         -> {}

\* The archive that efetch is getting, if any: what is in DISTDIR is not fetched.
Fetching ==
    {a \in Archives :
        /\ dist[a] = "none"
        /\ \/ a = busy /\ pc = "tools"
           \/ a = Tree /\ pc = "tree" /\ ~unpacked
           \/ a = Portage /\ pc = "portage" /\ portage = "none"}

\* The script ends here; the disk stays as it is, with a file in DISTDIR that
\* has been fetched in part.
Stopped ==
    /\ pc' = "idle" /\ busy' = None /\ pos' = 1
    /\ torn' = torn \cup TornNow
    /\ \/ UNCHANGED dist
       \/ \E a \in Fetching : dist' = [dist EXCEPT ![a] = "torn"]
    /\ UNCHANGED <<target, stop, marker, guard, whole, tree, unpacked, conf, profile, useHack,
                   tmpProfile, portage, stage3Disk, shell, wrappers, vdb, tmp, success>>

\* Mutant: no tool of stage 1 has an `|| return 1`.
IgnoredMutant == pc \in {"tools", "install"}

\* Stage 1 ignores a failure here and goes on to the next tool.
Ignored == \/ pc = "tools" /\ pos \in OptionalTools
           \/ pc = "install" /\ pos \in OptionalTools \cup TolerantTools

\* A command of the running stage fails: `return 1` reaches bootstrap_interactive,
\* which prints its apology and exits.
StageFails ==
    /\ \/ pc \in {"tools", "install"} \cup Calls /\ busy # None /\ ~Ignored
       \/ pc \in {"tree", "unpack", "setup", "profile", "use", "tmpcopy", "tmprm", "tmplink",
                  "tmpuse", "portage", "repos", "sync3", "system3", "world3", "rm", "startscript"}
    /\ fails < MaxFails
    /\ fails' = fails + 1
    /\ Stopped
    /\ UNCHANGED kills

\* What an earlier run left torn fails again: an archive that efetch takes for
\* fetched, an emerge without the links that the guard of 1785 hides.  Without
\* its name in repos.conf the tree may or may not do for emerge.
FailsAgain ==
    /\ \/ pc = "tools" /\ busy \in Archives /\ dist[busy] = "torn"
       \/ pc = "unpack" /\ dist[Tree] = "torn"
       \/ pc = "portage" /\ portage = "none" /\ dist[Portage] = "torn"
       \/ pc \in Calls /\ busy # None /\ portage \in {"emerge", "linked"}
    /\ Stopped
    /\ UNCHANGED <<kills, fails>>

\* SIGKILL, a power cut, an aborted docker build.
Kill ==
    /\ pc # "idle"
    /\ kills < MaxKills
    /\ kills' = kills + 1
    /\ Stopped
    /\ UNCHANGED fails

-----------------------------------------------------------------------------
(* Stage 1: tools, tree, profiles, portage (bootstrap_stage1).              *)

\* efetch puts the archive into DISTDIR.
Fetch ==
    /\ \E a \in Fetching : dist' = [dist EXCEPT ![a] = "whole"]
    /\ UNCHANGED <<process, marker, guard, whole, tree, unpacked, conf, profile, useHack,
                   tmpProfile, portage, stage3Disk, shell, wrappers, vdb, tmp, success, faults>>

\* The step that runs next; every action below moves pc itself.
Goto(label) == pc' = label /\ UNCHANGED <<busy, target, stop>>

\* [[ -x tmp/usr/bin/X ]] || host has X: nothing to build.
ToolPresent ==
    /\ pc = "tools" /\ busy = None /\ pos \in Tools
    /\ pos \in guard \cup HostTools
    /\ pos' = pos + 1
    /\ UNCHANGED <<pc, busy, target, stop, marker, stage1Disk, stage3Disk, shell,
                   wrappers, vdb, tmp, success, faults>>

\* Mutant: the guard file is not looked at.
ToolBuildMutant ==
    /\ pc = "tools" /\ busy = None /\ pos \in Tools
    /\ pos \notin HostTools
    /\ busy' = Tool(pos)
    /\ UNCHANGED <<pc, pos, target, stop, marker, stage1Disk, stage3Disk, shell,
                   wrappers, vdb, tmp, success, faults>>

\* (bootstrap_X): fetch, unpack, configure and compile in PORTAGE_TMPDIR.
\* Package has the archives of the tools that have several.
ToolBuild ==
    /\ pc = "tools" /\ busy = None /\ pos \in Tools
    /\ pos \notin guard \cup HostTools
    /\ busy' = Tool(pos)
    /\ UNCHANGED <<pc, pos, target, stop, marker, stage1Disk, stage3Disk, shell,
                   wrappers, vdb, tmp, success, faults>>

\* emake install starts; most packages install their programs first.
ToolInstall ==
    /\ pc = "tools" /\ busy # None
    /\ busy \in Archives => dist[busy] = "whole"
    /\ Goto("install")
    /\ guard' = IF pos \in EarlyTools THEN guard \cup {pos} ELSE guard
    /\ UNCHANGED <<pos, marker, whole, tree, unpacked, conf, profile, useHack, tmpProfile,
                   portage, dist, stage3Disk, shell, wrappers, vdb, tmp, success, faults>>

\* The install is complete, its guard file included.
ToolDone ==
    /\ pc = "install"
    /\ guard' = guard \cup {pos}
    /\ whole' = whole \cup {pos}
    /\ pc' = "tools" /\ busy' = None /\ pos' = pos + 1
    /\ UNCHANGED <<target, stop, marker, tree, unpacked, conf, profile, useHack, tmpProfile,
                   portage, dist, stage3Disk, shell, wrappers, vdb, tmp, success, faults>>

\* "try without on failure", "Python failed to install *sigh* continuing anyway":
\* the latter still makes the python link that is its guard.
ToolFailureIgnored ==
    /\ busy # None /\ Ignored
    /\ fails < MaxFails
    /\ fails' = fails + 1
    /\ guard' = IF pc = "install" /\ pos \in TolerantTools THEN guard \cup {pos} ELSE guard
    /\ torn' = IF pos \in guard' THEN torn \cup {busy} ELSE torn
    /\ pc' = "tools" /\ busy' = None /\ pos' = pos + 1
    /\ UNCHANGED <<target, stop, marker, whole, tree, unpacked, conf, profile, useHack,
                   tmpProfile, portage, dist, stage3Disk, shell, wrappers, vdb, tmp, success,
                   kills>>

ToolsDone ==
    /\ pc = "tools" /\ busy = None /\ pos = NTools + 1
    /\ Goto("tree") /\ pos' = 1
    /\ UNCHANGED <<marker, stage1Disk, stage3Disk, shell, wrappers, vdb, tmp, success, faults>>

\* Steps after the tools that touch one part of the disk.
Stage1Step(from, to, others) ==
    /\ pc = from
    /\ Goto(to)
    /\ UNCHANGED others
    /\ UNCHANGED <<pos, marker, guard, whole, dist, stage3Disk, wrappers, vdb, tmp, success, kills>>

\* do_tree: fetch and unpack the snapshot unless .unpacked says it was done.
TreePresent ==
    /\ unpacked
    /\ Stage1Step("tree", "setup", <<tree, unpacked, conf, profile, useHack, tmpProfile,
                                     portage, shell, torn, fails>>)

\* Mutant: .unpacked is touched before tar runs.
TreeUnpackMutant ==
    /\ ~unpacked /\ dist[Tree] # "none"
    /\ tree' = "partial" /\ unpacked' = TRUE
    /\ Stage1Step("tree", "unpack", <<conf, profile, useHack, tmpProfile,
                                      portage, shell, torn, fails>>)

TreeUnpack ==
    /\ ~unpacked /\ dist[Tree] # "none"
    /\ tree' = "partial"
    /\ Stage1Step("tree", "unpack", <<unpacked, conf, profile, useHack, tmpProfile,
                                      portage, shell, torn, fails>>)

TreeDone ==
    /\ dist[Tree] = "whole"
    /\ tree' = "full"
    /\ unpacked' = TRUE
    /\ Stage1Step("unpack", "setup", <<conf, profile, useHack, tmpProfile, portage, shell,
                                       torn, fails>>)

\* [[ make.profile exists && make.conf exists ]] || (bootstrap_setup)
SetupPresent ==
    /\ profile # "none" /\ conf # "none"
    /\ Stage1Step("setup", "tmpcopy", <<tree, unpacked, conf, profile, useHack, tmpProfile,
                                        portage, shell, torn, fails>>)

\* The redirection creates the file; a file that is there is never rewritten.
SetupConf ==
    /\ conf = "none"
    /\ conf' = "partial"
    /\ Stage1Step("setup", "conf", <<tree, unpacked, profile, useHack, tmpProfile, portage,
                                    shell, torn, fails>>)

SetupConfPresent ==
    /\ profile = "none" /\ conf # "none"
    /\ Stage1Step("setup", "profile", <<tree, unpacked, conf, profile, useHack, tmpProfile,
                                       portage, shell, torn, fails>>)

\* A step fails and its status is not looked at: part of the disk stays torn.
FailureIgnored(part) ==
    /\ fails < MaxFails
    /\ fails' = fails + 1
    /\ torn' = torn \cup {part}

\* The rest of the file; nothing asks whether it could be written.
SetupConfDone ==
    /\ \/ conf' = "done" /\ UNCHANGED <<torn, fails>>
       \/ FailureIgnored(Conf) /\ UNCHANGED conf
    /\ Stage1Step("conf", "profile", <<tree, unpacked, profile, useHack, tmpProfile,
                                       portage, shell>>)

\* bootstrap_profile: link make.profile unless it is there, ...
SetupProfile ==
    /\ profile' = IF profile = "none" THEN RootProfile ELSE profile
    /\ Stage1Step("profile", "use", <<tree, unpacked, conf, useHack, tmpProfile, portage,
                                      shell, torn, fails>>)

\* ... then append the bootstrap hacks to its package.use, through the link.
\* Only the status of the second append, to package.unmask, reaches the caller.
AppendUse(to, part) ==
    \/ useHack' = useHack \cup ({to} \ {"none"}) /\ UNCHANGED <<torn, fails>>
    \/ FailureIgnored(part) /\ UNCHANGED useHack

SetupUse ==
    /\ AppendUse(profile, UseHack)
    /\ Stage1Step("use", "tmpcopy", <<tree, unpacked, conf, profile, tmpProfile, portage,
                                      shell>>)

\* [[ -e tmp/etc/portage/make.profile ]] || (cp -pR && rm -Rf && bootstrap_profile):
\* a link whose package.use was not reached is not looked at again.
TmpProfilePresent ==
    /\ tmpProfile # "none"
    /\ Stage1Step("tmpcopy", "portage", <<tree, unpacked, conf, profile, useHack, tmpProfile,
                                          portage, shell, torn, fails>>)

TmpProfileCopy ==
    /\ tmpProfile = "none"
    /\ tmpProfile' = profile
    /\ Stage1Step("tmpcopy", "tmprm", <<tree, unpacked, conf, profile, useHack, portage,
                                        shell, torn, fails>>)

TmpProfileRemove ==
    /\ tmpProfile' = "none"
    /\ Stage1Step("tmprm", "tmplink", <<tree, unpacked, conf, profile, useHack, portage,
                                        shell, torn, fails>>)

TmpProfileLink ==
    /\ tmpProfile' = RpathProfile
    /\ Stage1Step("tmplink", "tmpuse", <<tree, unpacked, conf, profile, useHack, portage,
                                         shell, torn, fails>>)

TmpProfileUse ==
    /\ AppendUse(tmpProfile, TmpUse)
    /\ Stage1Step("tmpuse", "portage", <<tree, unpacked, conf, profile, tmpProfile, portage,
                                         shell>>)

\* [[ -e tmp/usr/bin/emerge ]] || (bootstrap_portage)
PortagePresent ==
    /\ portage # "none"
    /\ Stage1Step("portage", "shell", <<tree, unpacked, conf, profile, useHack, tmpProfile,
                                        portage, shell, torn, fails>>)

PortageInstall ==
    /\ portage = "none" /\ dist[Portage] = "whole"
    /\ portage' = "emerge"
    /\ Stage1Step("portage", "plink", <<tree, unpacked, conf, profile, useHack, tmpProfile,
                                        shell, torn, fails>>)

\* The links that let portage find the tree and tmp's python find portage;
\* nothing asks whether ln could make them.
PortageLink ==
    /\ \/ portage' = "linked" /\ UNCHANGED <<torn, fails>>
       \/ FailureIgnored(Portage) /\ UNCHANGED portage
    /\ Stage1Step("plink", "repos", <<tree, unpacked, conf, profile, useHack, tmpProfile,
                                      shell>>)

\* sed writes the name of the tree into repos.conf, or return 1.
PortageRepos ==
    /\ portage' = IF portage = "linked" THEN "complete" ELSE portage
    /\ Stage1Step("repos", "shell", <<tree, unpacked, conf, profile, useHack, tmpProfile,
                                      shell, torn, fails>>)

\* prepare_portage links bin/bash; bootstrap_stage1 ignores what it returns.
PreparePortage ==
    /\ \/ shell' = (IF shell = "none" THEN "tmp" ELSE shell) /\ UNCHANGED <<torn, fails>>
       \/ shell = "none" /\ FailureIgnored(Shell) /\ UNCHANGED shell
    /\ Stage1Step("shell", "mark1", <<tree, unpacked, conf, profile, useHack, tmpProfile,
                                      portage>>)

\* bootstrap_stage1_log: [[ ${ret} == 0 ]] && touch .stage1-finished
Mark1 ==
    /\ pc = "mark1"
    /\ marker' = marker \cup {1}
    /\ Goto(After1(target, stop))
    /\ UNCHANGED <<pos, stage1Disk, stage3Disk, shell, wrappers, vdb, tmp, success, faults>>

-----------------------------------------------------------------------------
(* do_emerge_pkgs, which both later stages call with their lists.           *)

\* The step that follows the call.
AfterCall == [base2 |-> "linker2", linker2 |-> "wrap2", compiler2 |-> "libs2",
              base3 |-> "pylink3", compiler3 |-> "undo3", gawk3 |-> "pyunlink3",
              bash3 |-> "deps3", deps3 |-> "portage3", portage3 |-> "sync3"]

Installed(call) == \A i \in 1..Size[call] : <<call, i>> \in vdb

\* The package is in var/db/pkg: continue.
EmergeSkip ==
    /\ pc \in Calls /\ busy = None /\ pos \in 1..Size[pc]
    /\ <<pc, pos>> \in vdb
    /\ pos' = pos + 1
    /\ UNCHANGED <<pc, busy, target, stop, marker, stage1Disk, stage3Disk, shell,
                   wrappers, vdb, tmp, success, faults>>

EmergeBegin ==
    /\ pc \in Calls /\ busy = None /\ pos \in 1..Size[pc]
    /\ <<pc, pos>> \notin vdb
    /\ busy' = <<pc, pos>>
    /\ UNCHANGED <<pc, pos, target, stop, marker, stage1Disk, stage3Disk, shell,
                   wrappers, vdb, tmp, success, faults>>

\* Portage records the package last; without its links it does not run.  The stage 3 bash replaces bin/bash, and
\* what portage pulls in brings the prefix its own python.
EmergeEnd ==
    /\ pc \in Calls /\ busy # None /\ portage # "emerge"
    /\ vdb' = vdb \cup {busy}
    /\ shell' = IF pc = "bash3" THEN "own" ELSE shell
    /\ pyLink' = (pyLink /\ pc # "portage3")
    /\ busy' = None /\ pos' = pos + 1
    /\ UNCHANGED <<pc, target, stop, marker, stage1Disk, synced, env98, ldConf,
                   wrappers, tmp, success, faults>>

EmergeDone ==
    /\ pc \in Calls /\ busy = None /\ pos = Size[pc] + 1
    /\ Goto(AfterCall[pc]) /\ pos' = 1
    /\ UNCHANGED <<marker, stage1Disk, stage3Disk, shell, wrappers, vdb, tmp, success, faults>>

-----------------------------------------------------------------------------
(* Stage 2 (bootstrap_stage2): a compiler and portage's needs, into tmp.    *)

LateStep(from, to) ==
    /\ pc = from
    /\ Goto(to) /\ pos' = 1
    /\ UNCHANGED <<stage1Disk, shell, success, faults>>

\* Mutant: it insists on a bin/bash, which stage 1 does not.
Check2Mutant ==
    /\ LateStep("check2", IF portage # "none" /\ shell # "none" THEN "base2" ELSE "idle")
    /\ UNCHANGED <<marker, stage3Disk, wrappers, vdb, tmp>>

\* "emerge not found, did you bootstrap stage1?"
Check2 ==
    /\ LateStep("check2", IF portage # "none" THEN "base2" ELSE "idle")
    /\ UNCHANGED <<marker, stage3Disk, wrappers, vdb, tmp>>

Wrap2 ==
    /\ wrappers' = TRUE
    /\ LateStep("wrap2", "compiler2")
    /\ UNCHANGED <<marker, stage3Disk, vdb, tmp>>

\* cp of libgcc_s to usr/${CHOST}/lib/gcc; its status is not looked at.
Libs2 ==
    /\ LateStep("libs2", "mark2")
    /\ UNCHANGED <<marker, stage3Disk, wrappers, vdb, tmp>>

Mark2 ==
    /\ marker' = marker \cup {2}
    /\ LateStep("mark2", After2(target, stop))
    /\ UNCHANGED <<stage3Disk, wrappers, vdb, tmp>>

-----------------------------------------------------------------------------
(* Stage 3 (bootstrap_stage3): everything again, into the prefix itself.    *)

\* 98stage2 first, then "emerge not found, did you bootstrap stage1?"
Env3 ==
    /\ env98' = TRUE
    /\ LateStep("env3", IF portage # "none" THEN "gcc3" ELSE "idle")
    /\ UNCHANGED <<marker, synced, pyLink, ldConf, wrappers, vdb, tmp>>

\* Mutant: the wrappers stay.
Gcc3Mutant ==
    /\ LateStep("gcc3", IF HostGcc \/ Installed("compiler2") THEN "prepare3" ELSE "idle")
    /\ UNCHANGED <<marker, stage3Disk, wrappers, vdb, tmp>>

\* The wrappers go; then type -P gcc, "gcc not found, did you bootstrap stage2?".
\* PATH has tmp/usr/bin before the host's own directories.
Gcc3 ==
    /\ wrappers' = FALSE
    /\ LateStep("gcc3", IF HostGcc \/ Installed("compiler2") THEN "prepare3" ELSE "idle")
    /\ UNCHANGED <<marker, stage3Disk, vdb, tmp>>

\* Fakes, and for RAP the path of stage 2's libgcc_s.
Prepare3 ==
    /\ ldConf' = (ldConf \/ Rap)
    /\ LateStep("prepare3", "base3")
    /\ UNCHANGED <<marker, synced, env98, pyLink, wrappers, vdb, tmp>>

HasPython == <<"portage3", 1>> \in vdb

\* test ! -e python && ln -s tmp/usr/bin/python3.x
PyLink3 ==
    /\ pyLink' = (pyLink \/ ~HasPython)
    /\ LateStep("pylink3", "compiler3")
    /\ UNCHANGED <<marker, synced, env98, ldConf, wrappers, vdb, tmp>>

\* Mutant: the path stays in the loader's configuration.
Undo3Mutant ==
    /\ LateStep("undo3", "gawk3")
    /\ UNCHANGED <<marker, stage3Disk, wrappers, vdb, tmp>>

\* "Undo libgcc_s.so path of stage2"
Undo3 ==
    /\ ldConf' = FALSE
    /\ LateStep("undo3", "gawk3")
    /\ UNCHANGED <<marker, synced, env98, pyLink, wrappers, vdb, tmp>>

\* test ! -e python && rm -f python3.x
PyUnlink3 ==
    /\ pyLink' = (pyLink /\ HasPython)
    /\ LateStep("pyunlink3", "bash3")
    /\ UNCHANGED <<marker, synced, env98, ldConf, wrappers, vdb, tmp>>

\* Update the tree, which takes away .unpacked and what bootstrap_profile wrote
\* into its profiles ("The hack will be undone during tree sync in stage3"); or
\* it was updated a day ago.
Sync3 ==
    /\ pc = "sync3"
    /\ Goto("system3") /\ pos' = 1
    /\ \/ unpacked' = FALSE /\ synced' = TRUE /\ useHack' = {}
       \/ ~unpacked /\ UNCHANGED <<unpacked, synced, useHack>>
    /\ UNCHANGED <<marker, guard, whole, tree, conf, profile, tmpProfile, portage, dist, env98, pyLink, ldConf, shell, wrappers, vdb, tmp, success, faults>>

\* emerge @system
System3 ==
    /\ LateStep("system3", "rm98")
    /\ UNCHANGED <<marker, stage3Disk, wrappers, vdb, tmp>>

\* "Remove the stage2 hack from above."
Rm98 ==
    /\ env98' = FALSE
    /\ LateStep("rm98", "world3")
    /\ UNCHANGED <<marker, synced, pyLink, ldConf, wrappers, vdb, tmp>>

\* emerge @world; depclean and the mtimedb edit may fail without harm.
World3 ==
    /\ LateStep("world3", "mark3")
    /\ UNCHANGED <<marker, stage3Disk, wrappers, vdb, tmp>>

Mark3 ==
    /\ marker' = marker \cup {3}
    /\ LateStep("mark3", After3(target, stop))
    /\ UNCHANGED <<stage3Disk, wrappers, vdb, tmp>>

-----------------------------------------------------------------------------
(* After stage 3: drop tmp, install the start script.                       *)

\* [[ -d tmp/var/tmp ]] held: rm -Rf tmp begins, in any order.
CleanupBegin ==
    /\ pc = "cleanup"
    /\ Goto("rm")
    /\ tmp' \in {"halfvar", "half"}
    /\ guard' = {} /\ whole' = {} /\ portage' = "none" /\ tmpProfile' = "none"
    /\ wrappers' = FALSE /\ vdb' = vdb \ TmpVdb
    /\ UNCHANGED <<pos, marker, tree, unpacked, conf, profile, useHack, dist, stage3Disk, shell,
                   success, faults>>

CleanupVar ==
    /\ tmp = "halfvar"
    /\ tmp' = "half"
    /\ LateStep("rm", "rm")
    /\ UNCHANGED <<marker, stage3Disk, wrappers, vdb>>

\* rm is through, and mkdir makes an empty tmp.
CleanupEnd ==
    /\ tmp' = "empty"
    /\ LateStep("rm", "startscript")
    /\ UNCHANGED <<marker, stage3Disk, wrappers, vdb>>

\* bootstrap_startscript, then "Woah!  Everything just worked!"
StartScript ==
    /\ pc = "startscript"
    /\ Goto("idle")
    /\ success' = TRUE
    /\ UNCHANGED <<pos, marker, stage1Disk, stage3Disk, shell, wrappers, vdb, tmp, faults>>

-----------------------------------------------------------------------------

Init ==
    /\ pc = "idle" /\ pos = 1 /\ busy = None
    /\ target = Interactive /\ stop = 0
    /\ marker = {}
    /\ guard = {} /\ whole = {}
    /\ tree = "none" /\ unpacked = FALSE /\ synced = FALSE
    /\ conf = "none" /\ profile = "none" /\ useHack = {}
    /\ tmpProfile = "none" /\ portage = "none" /\ dist = [a \in Archives |-> "none"]
    /\ shell = "none" /\ wrappers = FALSE /\ vdb = {}
    /\ env98 = FALSE /\ pyLink = FALSE /\ ldConf = FALSE
    /\ tmp = "none" /\ success = FALSE
    /\ torn = {} /\ kills = 0 /\ fails = 0

Stage1 ==
    \/ Fetch \/ ToolPresent \/ ToolBuild \/ ToolInstall \/ ToolDone \/ ToolsDone
    \/ TreePresent \/ TreeUnpack \/ TreeDone
    \/ SetupPresent \/ SetupConf \/ SetupConfPresent \/ SetupConfDone
    \/ SetupProfile \/ SetupUse
    \/ TmpProfilePresent \/ TmpProfileCopy \/ TmpProfileRemove \/ TmpProfileLink
    \/ TmpProfileUse
    \/ PortagePresent \/ PortageInstall \/ PortageLink \/ PortageRepos \/ PreparePortage
    \/ Mark1

Emerge == EmergeSkip \/ EmergeBegin \/ EmergeEnd \/ EmergeDone

Stage2 == Check2 \/ Wrap2 \/ Libs2 \/ Mark2

Stage3 == Env3 \/ Gcc3 \/ Prepare3 \/ PyLink3 \/ Undo3 \/ PyUnlink3 \/ Sync3
          \/ System3 \/ Rm98 \/ World3 \/ Mark3

Finish == CleanupBegin \/ CleanupVar \/ CleanupEnd \/ StartScript

Script == Stage1 \/ Emerge \/ Stage2 \/ Stage3 \/ Finish \/ FailsAgain

Next == \/ \E t \in Targets, s \in 0..3 : StartRun(t, s)
        \/ Script
        \/ ToolFailureIgnored \/ StageFails \/ Kill

Spec == Init /\ [][Next]_vars

\* A running script runs on; and the user comes back to run it to the end,
\* however many partial runs there are in between ("run me again").
Fairness == WF_vars(Script) /\ SF_vars(StartRun(Interactive, 0))

FairSpec == Spec /\ Fairness

-----------------------------------------------------------------------------
(* Where the process is, by stage.                                          *)

Stage1Labels == {"tools", "install", "tree", "unpack", "setup", "conf", "profile", "use",
                 "tmpcopy", "tmprm", "tmplink", "tmpuse", "portage", "plink", "repos", "shell",
                 "mark1"}
Stage2Labels == Calls2 \cup {"check2", "wrap2", "libs2", "mark2"}
Stage3Labels == Calls3 \cup {"env3", "gcc3", "prepare3", "pylink3", "undo3", "pyunlink3",
                             "sync3", "system3", "rm98", "world3", "mark3"}
FinishLabels == {"cleanup", "rm", "startscript"}
Labels == {"idle"} \cup Stage1Labels \cup Stage2Labels \cup Stage3Labels \cup FinishLabels

\* The variables hold what the comments on their declarations say.
TypeOK ==
    /\ pc \in Labels
    /\ pos \in Nat
    /\ busy \in {None} \cup {Tool(t) : t \in Tools} \cup (Calls \X Nat)
    /\ vdb \subseteq Calls \X Nat
    /\ torn \subseteq {Tool(t) : t \in Tools} \cup {Conf, UseHack, TmpProfile, TmpUse, Portage,
                                                   Shell}
    /\ target \in AllTargets /\ stop \in 0..3
    /\ marker \subseteq 1..3
    /\ guard \subseteq Tools /\ whole \subseteq Tools
    /\ tree \in {"none", "partial", "full"}
    /\ unpacked \in BOOLEAN /\ synced \in BOOLEAN
    /\ conf \in {"none", "partial", "done"}
    /\ profile \in {"none", RootProfile}
    /\ tmpProfile \in {"none", RootProfile, RpathProfile}
    /\ useHack \subseteq {RootProfile, RpathProfile}
    /\ portage \in {"none", "emerge", "linked", "complete"}
    /\ dist \in [Archives -> {"none", "torn", "whole"}]
    /\ shell \in {"none", "tmp", "own"}
    /\ wrappers \in BOOLEAN
    /\ env98 \in BOOLEAN /\ pyLink \in BOOLEAN /\ ldConf \in BOOLEAN
    /\ tmp \in {"none", "live", "halfvar", "half", "empty"}
    /\ success \in BOOLEAN
    /\ kills \in 0..MaxKills /\ fails \in 0..MaxFails

\* Markers appear in order and a stage works only on a finished predecessor,
\* whatever was killed, failed or stopped before; tmp goes only after stage 3.
\* (The guards of bootstrap_interactive, stageN_log's ret checks.)
StageOrder ==
    /\ \A k \in marker : 1..k \subseteq marker
    /\ pc \in Stage2Labels => 1 \in marker
    /\ pc \in Stage3Labels => 2 \in marker
    /\ pc \in FinishLabels \/ tmp \in {"halfvar", "half", "empty"} => 3 \in marker

\* .stage1-finished promises every piece of stage 1 that stages 2 and 3 use,
\* except pieces that a kill or failure tore behind a guard that a later run
\* trusted.  A failure that leaves no guard behind is always made good.  The
\* lines in package.use are there for stages 1 to 3 until the sync undoes them.
ToolSound(t) == t \in HostTools \cup OptionalTools \cup whole \/ Tool(t) \in torn

CompleteOrTorn ==
    1 \in marker /\ tmp = "live" =>
        /\ \A t \in Tools : ToolSound(t)
        /\ tree = "full"
        /\ profile = RootProfile
        /\ conf = "done" \/ Conf \in torn
        /\ RootProfile \in useHack \/ UseHack \in torn \/ synced
        /\ \/ TmpProfile \in torn
           \/ /\ tmpProfile = RpathProfile
              /\ RpathProfile \in useHack \/ TmpUse \in torn \/ synced
        /\ portage = "complete" \/ (portage # "none" /\ Portage \in torn)
        /\ shell # "none" \/ Shell \in torn

\* Nothing outside tmp points into it any more when it is removed: a prefix
\* whose bin/bash, PATH, python or loader path named tmp would be dead.
\* ("Now, we've got everything in $ROOT, we can get rid of /tmp")
TmpUnreferenced ==
    pc = "rm" \/ tmp \in {"halfvar", "half", "empty"} =>
        shell = "own" /\ ~env98 /\ ~pyLink /\ ~ldConf

\* Each compiler run finds the environment its stage arranged, also when an
\* earlier run of the stage got further and was torn down: stage 2's gcc the
\* wrappers that force CPPFLAGS, stage 3 no wrappers, tmp in PATH, a python
\* for the compiler's build, and for RAP the libgcc_s of stage 2.
BuildEnvironment ==
    /\ busy[1] = "compiler2" => wrappers
    /\ busy[1] \in Calls3 => env98 /\ ~wrappers
    /\ busy[1] = "compiler3" => pyLink \/ HasPython
    /\ busy[1] \in {"base3", "compiler3"} => (Rap => ldConf)

\* .unpacked vouches for a complete tree.
TreeSound == unpacked => tree = "full"

Present == {Tool(t) : t \in guard} \cup vdb

\* A resumed run starts only work that is missing: never something whose guard
\* is there, never anything of a stage that has its marker.
NoRework ==
    [][busy' # busy /\ busy' # None =>
           /\ busy' \notin Present
           /\ 1 \in marker => busy'[1] # "tool"
           /\ 2 \in marker => busy'[1] \notin Calls2
           /\ 3 \notin marker]_vars

\* Once stage 3 has synced the tree, the old snapshot is never unpacked over
\* it, though the sync removes .unpacked and do_tree would then unpack again.
SyncedTreeStays == [][synced => tree' = tree]_vars

\* What no later run repairs: efetch accepts any file in DISTDIR, so that the
\* one archive of a tool, of the tree or of portage that was cut off while it
\* came fails to unpack for good; and emerge hides the links it lacks.
Blocked ==
    \/ 1 \notin marker /\ \E a \in Archives : dist[a] = "torn"
    \/ 3 \notin marker /\ portage \in {"emerge", "linked"} /\ pc \notin {"plink", "repos"}

\* If faults stop, the bootstrap completes, wherever earlier runs were cut, but
\* in a download that has one source only or in what follows emerge's install.
EventuallyReady == <>(success \/ Blocked)

\* "setup a profile for stage2"
Stage2HasItsProfile == 1 \in marker /\ tmp = "live" => tmpProfile = RpathProfile

-----------------------------------------------------------------------------
(* What a user is promised, with every detail of the work left out.         *)

Level == IF 3 \in marker THEN 3 ELSE IF 2 \in marker THEN 2 ELSE IF 1 \in marker THEN 1 ELSE 0

Staged == INSTANCE StagedInstall WITH
              level <- Level,
              dropped <- tmp \in {"halfvar", "half", "empty"},
              ready <- success

StagedSpec == Staged!Spec

=============================================================================
