------------------------------ MODULE Generate ------------------------------
(***************************************************************************)
(* generate_toolchain.sh, run in a container with a directory of the host  *)
(* as its working directory: it assembles toolchain/ from the prefix and   *)
(* the distribution and packs it behind setup_toolchain.sh.  The libraries *)
(* come from ldd-recursive.pl, through a process substitution.             *)
(***************************************************************************)
EXTENDS Naturals, FiniteSets

CONSTANTS
    Programs,   \* the files of the four lists of the script
    Libs,       \* the shared libraries of the image, by path
    Lines,      \* the libraries ldd finds for a program or a library
    Loaders,    \* those it prints without "=>"
    Name,       \* the last component of a path
    Zstd,       \* the libzstd.so.1 of the prefix
    Extras,     \* libraries copied by name, not for being linked
    Late,       \* those copied after the rpaths are set
    Bare,       \* names whose rpath is left alone, libc.so.6 and ld-linux-*
    Lister,     \* ldd-recursive.pl is in the working directory
    MaxRuns     \* bound on the containers started

NoLib == "none"
Names == {Name[l] : l \in Libs}

ASSUME GenerateAssumption ==
    /\ Programs \cap Libs = {} /\ NoLib \notin Libs /\ NoLib \notin Programs
    /\ Lines \in [Programs \cup Libs -> SUBSET Libs]
    /\ Loaders \subseteq Libs /\ \A l \in Loaders : Lines[l] = {}
    /\ \E p \in Programs : Zstd \in Lines[p]
    /\ Extras \subseteq Libs /\ Late \subseteq Libs /\ Bare \subseteq Names
    /\ \A l \in Late : Name[l] \notin Bare /\ Name[l] # Name[Zstd]
    /\ \A l \in Extras : Name[l] # Name[Zstd]
    /\ Lister \in BOOLEAN /\ MaxRuns \in Nat

VARIABLES
    pc,         \* the command the script is at
    runs,       \* containers started
    code,       \* how the last one ended
    tree,       \* toolchain/ exists
    args, arg,  \* of ldd-recursive.pl: those left, and the one it is at
    uniq,       \* its %uniq
    unread,     \* the lines not yet read of the ldd's that are open
    lost,       \* it failed, which the script does not see
    todo,       \* what the loop the script is in has left
    lib,        \* toolchain/lib, the file each name is a copy of
    rpath,      \* the names there whose rpath is $ORIGIN
    bin,        \* the files of toolchain that wrappers are, or call
    filled,     \* the container's setup_toolchain.sh has ARCH and the versions
    tgz,        \* toolchain.tgz
    script,     \* ldb_toolchain_gen.sh
    exec        \* the mode of that

walk == <<args, arg, uniq, unread, lost>>
files == <<tree, lib, rpath, bin>>
output == <<tgz, script, exec>>
vars == <<pc, runs, code, walk, todo, files, filled, output>>

\* The wrappers and the programs each calls: a plain name is in toolchain/bin,
\* gentoo/ is toolchain/tmp/gentoo/bin, llvm/ toolchain/tmp/gentoo/llvm/bin.
Called ==
    {<<"bison", "bison-3.5.1">>, <<"bison", "m4">>, <<"curl", "ldb-curl">>,
     <<"gcc", "gentoo/gcc">>, <<"g++", "gentoo/g++">>, <<"clang", "llvm/clang">>,
     <<"clang++", "llvm/clang++">>, <<"clangd", "llvm/clangd">>,
     <<"flamegraph", "ldb-curl">>, <<"flamegraph", "ldb-python3">>}

\* ldb_gperf starts a program of the user's; flamegraph calls tfg.py as well.
Wrapped == {c[1] : c \in Called} \cup {"ldb_gperf", "tfg.py"}

Files == Wrapped \cup {c[2] : c \in Called} \cup {"python", "ldb-python"}

\* What the lists of the script copy of these; clang++ is a link made later.
Copies == {"bison", "curl", "m4", "python", "gentoo/gcc", "gentoo/g++", "llvm/clang", "llvm/clangd"}

Nothing == [n \in Names |-> NoLib]
Empty == [f \in Files |-> "none"]

-----------------------------------------------------------------------------

\* What tar sees.
Packed(whole) ==
    [run |-> runs, whole |-> whole, filled |-> FALSE, lost |-> lost,
     lib |-> lib, rpath |-> rpath, bin |-> bin]

Absent ==
    [run |-> 0, whole |-> FALSE, filled |-> FALSE, lost |-> FALSE,
     lib |-> Nothing, rpath |-> {}, bin |-> Empty]

Stopped == {"idle", "ended"}

Goto(label) == pc' = label
Exit(status) == pc' = "ended" /\ code' = status

\* docker run --rm: setup_toolchain.sh is as the image has it, toolchain/ as it was left.
Refuse ==
    /\ pc \in Stopped /\ runs < MaxRuns /\ tree
    /\ runs' = runs + 1
    /\ Exit(1)
    /\ filled' = FALSE
    /\ UNCHANGED <<walk, todo, files, output>>

MakeTree ==
    /\ pc \in Stopped /\ runs < MaxRuns /\ ~tree
    /\ runs' = runs + 1
    /\ tree' = TRUE
    /\ Goto("arch")
    /\ filled' = FALSE
    /\ UNCHANGED <<code, walk, todo, lib, rpath, bin, output>>

\* The directory is already there for the next run to refuse.
BadArch ==
    /\ pc = "arch"
    /\ Exit(1)
    /\ UNCHANGED <<runs, walk, todo, files, filled, output>>

GoodArch ==
    /\ pc = "arch"
    /\ Goto("programs")
    /\ UNCHANGED <<runs, code, walk, todo, files, filled, output>>

CopyPrograms ==
    /\ pc = "programs"
    /\ bin' = [f \in Files |-> IF f \in Copies THEN "program" ELSE bin[f]]
    /\ args' = Programs /\ arg' = NoLib /\ uniq' = {} /\ unread' = {} /\ lost' = FALSE
    /\ Goto("list")
    /\ UNCHANGED <<runs, code, todo, tree, lib, rpath, filled, output>>

\* It cannot be run, or it dies: the loop reads the end of file, and set -e
\* does not see the status of a process substitution.
ListFails ==
    /\ pc = "list"
    /\ lost' = TRUE
    /\ todo' = {}
    /\ Goto("copy")
    /\ UNCHANGED <<runs, code, args, arg, uniq, unread, files, filled, output>>

\* An argument is no library and given once, so %uniq has not seen it.
NextArg(p) ==
    /\ pc = "list" /\ Lister /\ arg = NoLib /\ p \in args
    /\ args' = args \ {p}
    /\ arg' = p
    /\ uniq' = uniq \cup {p}
    /\ unread' = Lines[p]
    /\ UNCHANGED <<pc, runs, code, lost, todo, files, filled, output>>

\* Mutant: the name is entered only after the recursion.
VisitMutant(l) ==
    /\ pc = "list" /\ l \in unread
    /\ uniq' = IF Lines[l] = {} THEN uniq \cup {l} ELSE uniq
    /\ unread' = (unread \ {l}) \cup Lines[l]
    /\ UNCHANGED <<pc, runs, code, args, arg, lost, todo, files, filled, output>>

\* Mutant: only the lines of the programs themselves are followed.
VisitNoDepthMutant(l) ==
    /\ pc = "list" /\ l \in unread
    /\ uniq' = uniq \cup {l}
    /\ unread' = unread \ {l}
    /\ UNCHANGED <<pc, runs, code, args, arg, lost, todo, files, filled, output>>

\* recurseLibs, the calls of the recursion seen as the set of their unread lines.
Visit(l) ==
    /\ pc = "list" /\ l \in unread
    /\ uniq' = uniq \cup {l}
    /\ unread' = IF l \in uniq \cup Loaders
                 THEN unread \ {l}
                 ELSE (unread \cup Lines[l]) \ {l}
    /\ UNCHANGED <<pc, runs, code, args, arg, lost, todo, files, filled, output>>

\* delete $uniq{$arg}
ArgDone ==
    /\ pc = "list" /\ arg # NoLib /\ unread = {}
    /\ uniq' = uniq \ {arg}
    /\ arg' = NoLib
    /\ UNCHANGED <<pc, runs, code, args, unread, lost, todo, files, filled, output>>

\* The names are printed at the end only, in the order of a hash.
PrintList ==
    /\ pc = "list" /\ Lister /\ args = {} /\ arg = NoLib
    /\ todo' = uniq
    /\ Goto("copy")
    /\ UNCHANGED <<runs, code, walk, files, filled, output>>

CopyLib(l) ==
    /\ pc = "copy" /\ l \in todo
    /\ todo' = todo \ {l}
    /\ lib' = [lib EXCEPT ![Name[l]] = l]
    /\ UNCHANGED <<pc, runs, code, walk, tree, rpath, bin, filled, output>>

\* cp of some libraries; a copy has the rpath of the original.
Copied(some) ==
    /\ lib' = [n \in Names |-> IF \E l \in some : Name[l] = n
                               THEN CHOOSE l \in some : Name[l] = n
                               ELSE lib[n]]
    /\ rpath' = rpath \ {Name[l] : l \in some}

\* Mutant: the libzstd.so.1 that came last stays.
CopyZstdMutant ==
    /\ pc = "copy" /\ todo = {}
    /\ Goto("extras")
    /\ UNCHANGED <<runs, code, walk, todo, files, filled, output>>

CopyZstd ==
    /\ pc = "copy" /\ todo = {}
    /\ Copied({Zstd})
    /\ Goto("extras")
    /\ UNCHANGED <<runs, code, walk, todo, tree, bin, filled, output>>

CopyExtras ==
    /\ pc = "extras"
    /\ Copied(Extras)
    /\ todo' = {n \in Names : lib'[n] # NoLib}
    /\ Goto("patch")
    /\ UNCHANGED <<runs, code, walk, tree, bin, filled, output>>

SetRpath(n) ==
    /\ pc = "patch" /\ n \in todo
    /\ todo' = todo \ {n}
    /\ rpath' = IF n \in Bare THEN rpath ELSE rpath \cup {n}
    /\ UNCHANGED <<pc, runs, code, walk, tree, lib, bin, filled, output>>

\* The links of bin, of which clang++ is kept here, cmake, and the headers,
\* archives and linker scripts of the sysroot.
AddSysroot ==
    /\ pc = "patch" /\ todo = {}
    /\ bin' = [bin EXCEPT !["llvm/clang++"] = bin["llvm/clang"]]
    /\ Goto("move")
    /\ UNCHANGED <<runs, code, walk, todo, tree, lib, rpath, filled, output>>

\* mv
Renamed(from, to) == [bin EXCEPT ![to] = bin[from], ![from] = "none"]

\* Mutant: the wrapper of curl is copied over it.
MoveMutant ==
    /\ pc = "move"
    /\ bin' = Renamed("bison", "bison-3.5.1")
    /\ Goto("wrap")
    /\ UNCHANGED <<runs, code, walk, todo, tree, lib, rpath, filled, output>>

Move ==
    /\ pc = "move"
    /\ bin' = [Renamed("bison", "bison-3.5.1") EXCEPT !["ldb-curl"] = bin["curl"], !["curl"] = "none"]
    /\ Goto("wrap")
    /\ UNCHANGED <<runs, code, walk, todo, tree, lib, rpath, filled, output>>

CopyWrappers ==
    /\ pc = "wrap"
    /\ bin' = [f \in Files |-> IF f \in Wrapped THEN "wrapper" ELSE bin[f]]
    /\ Goto("runtime")
    /\ UNCHANGED <<runs, code, walk, todo, tree, lib, rpath, filled, output>>

\* What gcc and clang link with, likewise.
AddRuntime ==
    /\ pc = "runtime"
    /\ Goto("late")
    /\ UNCHANGED <<runs, code, walk, todo, files, filled, output>>

CopyLate ==
    /\ pc = "late"
    /\ Copied(Late)
    /\ todo' = {Name[l] : l \in Late}
    /\ Goto("repatch")
    /\ UNCHANGED <<runs, code, walk, tree, bin, filled, output>>

SetLateRpath(n) ==
    /\ pc = "repatch" /\ n \in todo
    /\ todo' = todo \ {n}
    /\ rpath' = rpath \cup {n}
    /\ UNCHANGED <<pc, runs, code, walk, tree, lib, bin, filled, output>>

\* cmake's libraries, python, and glibc-compatibility built with what is there.
AddRest ==
    /\ pc = "repatch" /\ todo = {}
    /\ bin' = Renamed("python", "ldb-python")
    /\ Goto("rest")
    /\ UNCHANGED <<runs, code, walk, todo, tree, lib, rpath, filled, output>>

Tar ==
    /\ pc = "rest"
    /\ tgz' = Packed(FALSE)
    /\ Goto("tar")
    /\ UNCHANGED <<runs, code, walk, todo, files, filled, script, exec>>

\* Mutant: the archive is taken as it is when tar fails.
FillMutant ==
    /\ pc = "tar"
    /\ filled' = TRUE
    /\ Goto("fill")
    /\ UNCHANGED <<runs, code, walk, todo, files, output>>

\* tar is done; then sed -i of the script of the container.
Fill ==
    /\ pc = "tar"
    /\ tgz' = Packed(TRUE)
    /\ filled' = TRUE
    /\ Goto("fill")
    /\ UNCHANGED <<runs, code, walk, todo, files, script, exec>>

\* cat opens the script for writing, which a script of an earlier run loses its contents by.
OpenScript ==
    /\ pc = "fill"
    /\ script' = [tgz EXCEPT !.filled = filled, !.whole = FALSE]
    /\ Goto("cat")
    /\ UNCHANGED <<runs, code, walk, todo, files, filled, tgz, exec>>

CatDone ==
    /\ pc = "cat"
    /\ script' = [tgz EXCEPT !.filled = filled]
    /\ Goto("chmod")
    /\ UNCHANGED <<runs, code, walk, todo, files, filled, tgz, exec>>

Chmod ==
    /\ pc = "chmod"
    /\ exec' = TRUE
    /\ Exit(0)
    /\ UNCHANGED <<runs, walk, todo, files, filled, tgz, script>>

\* A command fails, with set -e, or the container is killed.
Stop ==
    /\ pc \notin Stopped
    /\ Exit(1)
    /\ UNCHANGED <<runs, walk, todo, files, filled, output>>

\* The user removes toolchain/.
Clean ==
    /\ pc \in Stopped /\ tree
    /\ tree' = FALSE /\ lib' = Nothing /\ rpath' = {} /\ bin' = Empty
    /\ UNCHANGED <<pc, runs, code, walk, todo, filled, output>>

Init ==
    /\ pc = "idle" /\ runs = 0 /\ code = 1
    /\ tree = FALSE /\ lib = Nothing /\ rpath = {} /\ bin = Empty
    /\ args = {} /\ arg = NoLib /\ uniq = {} /\ unread = {} /\ lost = FALSE /\ todo = {}
    /\ filled = FALSE
    /\ tgz = Absent /\ script = Absent /\ exec = FALSE

Step ==
    \/ GoodArch \/ CopyPrograms \/ ListFails
    \/ \E p \in Programs : NextArg(p)
    \/ \E l \in Libs : Visit(l) \/ CopyLib(l)
    \/ ArgDone \/ PrintList \/ CopyZstd \/ CopyExtras
    \/ \E n \in Names : SetRpath(n) \/ SetLateRpath(n)
    \/ AddSysroot \/ Move \/ CopyWrappers \/ AddRuntime \/ CopyLate \/ AddRest \/ Tar \/ Fill \/ OpenScript \/ CatDone \/ Chmod

Next == Refuse \/ MakeTree \/ BadArch \/ Step \/ Stop \/ Clean

\* The script is scheduled.
Spec == Init /\ [][Next]_vars /\ WF_vars(Step)
-----------------------------------------------------------------------------

Labels ==
    Stopped \cup {"arch", "programs", "list", "copy", "extras", "patch", "move", "wrap", "runtime",
                  "late", "repatch", "rest", "tar", "fill", "cat", "chmod"}

Archives ==
    [run : 0..MaxRuns, whole : BOOLEAN, filled : BOOLEAN, lost : BOOLEAN,
     lib : [Names -> Libs \cup {NoLib}], rpath : SUBSET Names,
     bin : [Files -> {"none", "program", "wrapper"}]]

\* The variables hold what the comments on their declarations say.
TypeOK ==
    /\ pc \in Labels /\ runs \in 0..MaxRuns /\ code \in {0, 1}
    /\ tree \in BOOLEAN /\ lib \in [Names -> Libs \cup {NoLib}] /\ rpath \subseteq Names
    /\ bin \in [Files -> {"none", "program", "wrapper"}]
    /\ args \subseteq Programs /\ arg \in Programs \cup {NoLib}
    /\ uniq \subseteq Programs \cup Libs /\ unread \subseteq Libs /\ lost \in BOOLEAN
    /\ todo \subseteq Libs \cup Names
    /\ pc = "copy" => todo \subseteq Libs
    /\ pc \in {"patch", "repatch"} => todo \subseteq Names
    /\ filled \in BOOLEAN /\ exec \in BOOLEAN
    /\ tgz \in Archives /\ script \in Archives

Finds(a, f) == \A l \in Lines[f] : a.lib[Name[l]] # NoLib

ClosedIn(a) ==
    ~a.lost =>
        /\ \A p \in Programs : Finds(a, p)
        /\ \A n \in Names : a.lib[n] \in Libs \ (Extras \cup Late) => Finds(a, a.lib[n])

\* What a program or a library in a script needs is there, under its name.  This
\* is said of the scripts for which ldd-recursive.pl did not fail, which the
\* generator cannot tell from the others (Working below), and not of the needs
\* of the libraries that were copied by name, which nothing looks into.
Closed == script.whole => ClosedIn(script)

Present(a) == {n \in Names : a.lib[n] # NoLib}
RightIn(a) == a.lib[Name[Zstd]] = Zstd /\ a.rpath = Present(a) \ Bare

\* Two libraries of one name are copied in any order, but libzstd.so.1 is the
\* one of the prefix; and every library looks beside itself for the others,
\* the C library and the loader excepted.
RightLibs == script.whole => RightIn(script)

\* The script makes ldb-python, not the ldb-python3 that flamegraph calls.
NeverMade == {"ldb-python3"}

BehindIn(a) ==
    /\ \A w \in Wrapped : a.bin[w] = "wrapper"
    /\ \A c \in Called : c[2] \notin NeverMade => a.bin[c[2]] = "program"

\* A script that was made has all the wrappers, and the programs each calls, not
\* a wrapper in the place of one; the ldb-python3 of flamegraph is the exception.
Behind == script.whole => BehindIn(script)

\* When the container ends with 0, the script is the one of this run, whole,
\* filled in and executable.
Delivered ==
    pc = "ended" /\ code = 0 =>
        script.run = runs /\ script.whole /\ script.filled /\ exec

\* A run ends, also where libraries need each other.
Ends == pc \notin Stopped ~> pc \in Stopped

\* A script that is delivered gives a working environment: each program finds
\* its libraries.  Where the lister is not at hand (Lister = FALSE) the code does
\* not keep this (known limits in the README); no run checks it.
Working ==
    pc = "ended" /\ code = 0 => \A p \in Programs : Finds(script, p)
=============================================================================
