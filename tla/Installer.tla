------------------------------ MODULE Installer ------------------------------
(***************************************************************************)
(* setup_toolchain.sh, the head of the self-extracting ldb_toolchain_gen.sh *)
(* It unpacks into a hidden directory beside the one asked for, renames it, *)
(* and only then relocates the binaries in place and tries the compilers.  *)
(* Several invocations may run, for the same directory or for others.      *)
(***************************************************************************)
EXTENDS Naturals

CONSTANTS
    Installers, \* invocations of the script
    Dirs,       \* the toolchain_dir arguments, all under one prefix
    Writable,   \* mktemp can make a directory under the prefix
    Broken,     \* invocations whose copy of the archive is cut
    Overlap,    \* somebody may install to a directory that is being installed to
    MaxFails,   \* bound on the patchelf and compiler runs that fail
    MaxKills    \* bound on the invocations that are interrupted or killed

ASSUME InstallerAssumption ==
    /\ Writable \in BOOLEAN /\ Overlap \in BOOLEAN
    /\ Broken \subseteq Installers
    /\ MaxFails \in Nat /\ MaxKills \in Nat

VARIABLES
    pc,         \* where each invocation is
    dir, old,   \* its arguments, toolchain_dir and -o
    group,      \* the group of binaries it relocates
    said,       \* the last message it printed
    temp,       \* its .ldb_toolchain_XXXXXX: not there, in part, or whole
    files,      \* the same of each toolchain_dir
    reloc,      \* its groups of binaries: as packed, being written, or relocated
    abi,        \* the ABI its compiler wrappers ask for
    nested,     \* invocations whose hidden directory was moved into it
    fails, kills

arg == <<dir, old>>
tree == <<files, reloc, abi, nested>>
faults == <<fails, kills>>
vars == <<pc, arg, group, said, temp, tree, faults>>

\* bin, tmp/gentoo/bin, tmp/gentoo/llvm/bin, libexec/gcc.
Groups == 1..4
GccNeeds == {1, 2, 4}
ClangNeeds == {1, 3}

\* The wrappers have no <OLD_ABI> for sed to replace.
Placeholder == FALSE

-----------------------------------------------------------------------------

Running == {"check", "mktemp", "untar", "move", "patch", "write", "sed", "gcc", "clang", "exit"}

Goto(i, label) == pc' = [pc EXCEPT ![i] = label]
Say(i, message) == said' = [said EXCEPT ![i] = message]
Here(i) == <<dir[i], group[i]>>

\* -h, an unknown option, no argument, or a relative one.
Usage(i) ==
    /\ pc[i] = "idle"
    /\ Goto(i, "end") /\ Say(i, "usage")
    /\ UNCHANGED <<arg, group, temp, tree, faults>>

Start(i) ==
    /\ pc[i] = "idle"
    /\ \E d \in Dirs :
          /\ Overlap \/ \A j \in Installers : pc[j] \in Running => dir[j] # d
          /\ dir' = [dir EXCEPT ![i] = d]
    /\ \E o \in BOOLEAN : old' = [old EXCEPT ![i] = o]
    /\ Goto(i, "check")
    /\ UNCHANGED <<group, said, temp, tree, faults>>

\* Mutant: the directory may exist.
CheckMutant(i) ==
    /\ pc[i] = "check"
    /\ Goto(i, "mktemp")
    /\ UNCHANGED <<arg, group, said, temp, tree, faults>>

\* [[ -e dir ]]: "already exists"
Check(i) ==
    /\ pc[i] = "check"
    /\ IF files[dir[i]] # "none"
       THEN Goto(i, "end") /\ Say(i, "exists")
       ELSE Goto(i, "mktemp") /\ UNCHANGED said
    /\ UNCHANGED <<arg, group, temp, tree, faults>>

\* Under set -e a failing mktemp -q ends the script before it can test $?.
MkTemp(i) ==
    /\ pc[i] = "mktemp"
    /\ IF Writable
       THEN Goto(i, "untar") /\ temp' = [temp EXCEPT ![i] = "partial"]
       ELSE Goto(i, "end") /\ UNCHANGED temp
    /\ UNCHANGED <<arg, group, said, tree, faults>>

\* Mutant: the exit status of the pipe is not the one of tar.
UntarMutant(i) ==
    /\ pc[i] = "untar"
    /\ Goto(i, "move")
    /\ temp' = [temp EXCEPT ![i] = IF i \in Broken THEN "partial" ELSE "whole"]
    /\ UNCHANGED <<arg, group, said, tree, faults>>

\* sed | tar zx
Untar(i) ==
    /\ pc[i] = "untar"
    /\ IF i \in Broken
       THEN Goto(i, "exit") /\ UNCHANGED temp
       ELSE Goto(i, "move") /\ temp' = [temp EXCEPT ![i] = "whole"]
    /\ UNCHANGED <<arg, group, said, tree, faults>>

\* mv renames onto a free name, and moves into a directory that is there.
Move(i) ==
    /\ pc[i] = "move"
    /\ IF files[dir[i]] = "none"
       THEN files' = [files EXCEPT ![dir[i]] = temp[i]] /\ UNCHANGED nested
       ELSE nested' = [nested EXCEPT ![dir[i]] = @ \cup {i}] /\ UNCHANGED files
    /\ temp' = [temp EXCEPT ![i] = "none"]
    /\ Goto(i, "patch")
    /\ UNCHANGED <<arg, group, said, reloc, abi, faults>>

NextGroup(i) ==
    /\ Goto(i, IF group[i] < 4 THEN "patch" ELSE "sed")
    /\ group' = [group EXCEPT ![i] = IF @ < 4 THEN @ + 1 ELSE @]
    /\ UNCHANGED <<arg, said, temp, files, abi, nested, kills>>

\* patchelf reads a file and opens it to write it anew.
PatchBegin(i) ==
    /\ pc[i] = "patch"
    /\ reloc[Here(i)] # "torn"
    /\ reloc' = [reloc EXCEPT ![Here(i)] = "torn"]
    /\ Goto(i, "write")
    /\ UNCHANGED <<arg, group, said, temp, files, abi, nested, faults>>

PatchEnd(i) ==
    /\ pc[i] = "write"
    /\ reloc' = [reloc EXCEPT ![Here(i)] = "here"]
    /\ NextGroup(i)
    /\ UNCHANGED fails

\* `|| true`: it cannot read a file another one writes, or cannot write it.
PatchFails(i) ==
    /\ pc[i] = "patch"
    /\ \/ reloc[Here(i)] = "torn" /\ UNCHANGED fails
       \/ fails < MaxFails /\ fails' = fails + 1
    /\ NextGroup(i)
    /\ UNCHANGED reloc

SetAbi(i) ==
    /\ pc[i] = "sed"
    /\ abi' = [abi EXCEPT ![dir[i]] = IF Placeholder /\ old[i] THEN "old" ELSE @]
    /\ Goto(i, "gcc")
    /\ UNCHANGED <<arg, group, said, temp, files, reloc, nested, faults>>

Compiles(d, needs) == files[d] = "whole" /\ \A g \in needs : reloc[<<d, g>>] = "here"

TestGcc(i) ==
    /\ pc[i] = "gcc"
    /\ Compiles(dir[i], GccNeeds)
    /\ Goto(i, "clang")
    /\ UNCHANGED <<arg, group, said, temp, tree, faults>>

TestClang(i) ==
    /\ pc[i] = "clang"
    /\ Compiles(dir[i], ClangNeeds)
    /\ Goto(i, "exit") /\ Say(i, "congratulations")
    /\ UNCHANGED <<arg, group, temp, tree, faults>>

\* "cannot compile a simple program"; the directory stays.
TestFails(i) ==
    /\ pc[i] \in {"gcc", "clang"}
    /\ \/ /\ ~Compiles(dir[i], IF pc[i] = "gcc" THEN GccNeeds ELSE ClangNeeds)
          /\ UNCHANGED fails
       \/ fails < MaxFails /\ fails' = fails + 1
    /\ Goto(i, "exit") /\ Say(i, "cannot compile")
    /\ UNCHANGED <<arg, group, temp, tree, kills>>

\* Mutant: the script exits without its trap.
ExitMutant(i) ==
    /\ pc[i] = "exit"
    /\ Goto(i, "end")
    /\ UNCHANGED <<arg, group, said, temp, tree, faults>>

\* trap "rm -rf tmpdir" EXIT
Exit(i) ==
    /\ pc[i] = "exit"
    /\ temp' = [temp EXCEPT ![i] = "none"]
    /\ Goto(i, "end")
    /\ UNCHANGED <<arg, group, said, tree, faults>>

\* A signal on which bash runs the trap.
Interrupt(i) ==
    /\ pc[i] \in Running \ {"check", "mktemp", "exit"}
    /\ kills < MaxKills /\ kills' = kills + 1
    /\ Goto(i, "exit")
    /\ UNCHANGED <<arg, group, said, temp, tree, fails>>

\* SIGKILL or a power cut at any time, or any signal before the trap is set.
Kill(i) ==
    /\ pc[i] \in Running
    /\ kills < MaxKills /\ kills' = kills + 1
    /\ Goto(i, "killed")
    /\ UNCHANGED <<arg, group, said, temp, tree, fails>>

Init ==
    /\ pc = [i \in Installers |-> "idle"]
    /\ \E d \in Dirs : dir = [i \in Installers |-> d]
    /\ old = [i \in Installers |-> FALSE]
    /\ group = [i \in Installers |-> 1]
    /\ said = [i \in Installers |-> "nothing"]
    /\ temp = [i \in Installers |-> "none"]
    /\ files = [d \in Dirs |-> "none"]
    /\ reloc = [p \in Dirs \X Groups |-> "packed"]
    /\ abi = [d \in Dirs |-> "new"]
    /\ nested = [d \in Dirs |-> {}]
    /\ fails = 0 /\ kills = 0

Step(i) ==
    \/ Check(i) \/ MkTemp(i) \/ Untar(i) \/ Move(i)
    \/ PatchBegin(i) \/ PatchEnd(i) \/ PatchFails(i) \/ SetAbi(i)
    \/ TestGcc(i) \/ TestClang(i) \/ TestFails(i) \/ Exit(i)

Next == \E i \in Installers : Usage(i) \/ Start(i) \/ Step(i) \/ Interrupt(i) \/ Kill(i)

Spec == Init /\ [][Next]_vars
-----------------------------------------------------------------------------

Content == {"none", "partial", "whole"}

\* The variables hold what the comments on their declarations say.
TypeOK ==
    /\ pc \in [Installers -> Running \cup {"idle", "end", "killed"}]
    /\ dir \in [Installers -> Dirs]
    /\ old \in [Installers -> BOOLEAN]
    /\ group \in [Installers -> Groups]
    /\ said \in [Installers -> {"nothing", "usage", "exists", "cannot compile", "congratulations"}]
    /\ temp \in [Installers -> Content]
    /\ files \in [Dirs -> Content]
    /\ reloc \in [Dirs \X Groups -> {"packed", "torn", "here"}]
    /\ abi \in [Dirs -> {"new", "old"}]
    /\ nested \in [Dirs -> SUBSET Installers]
    /\ fails \in 0..MaxFails /\ kills \in 0..MaxKills

\* toolchain_dir appears at once and complete: whoever finds it finds every
\* file in it, however many invocations are cut or run from a cut archive.
OnlyWhole == \A d \in Dirs : files[d] # "partial"

\* "Congratulations" is said of a toolchain in which both compilers are
\* relocated, and nothing that is started, cut or killed afterwards undoes it.
StillWorks ==
    \A i \in Installers : said[i] = "congratulations" =>
        Compiles(dir[i], GccNeeds \cup ClangNeeds)

\* The trap: an invocation that came to its end, in whatever way, leaves no
\* hidden directory, neither beside the toolchain nor in it.
NoLitter ==
    \A i \in Installers : pc[i] = "end" =>
        temp[i] = "none" /\ \A d \in Dirs : i \notin nested[d]

\* "$dir already exists": nothing is installed into a directory that is there.
NeverInside == \A d \in Dirs : nested[d] = {}
=============================================================================
