# Verification of ldb_toolchain_gen

TLA+ models of the programs of this repository, TLC configurations that check
them on small instances, and proofs checked by TLAPS.  Line numbers are those of
the files in the repository; `PROJECT.json` maps each definition to its lines.

## The system

The repository builds a C/C++ toolchain that runs on old Linux systems and ships
it as one self-extracting shell script.

| part | sources | state | operations |
|---|---|---|---|
| staged bootstrap | `bootstrap-prefix.sh`, driven by `Dockerfile` | the prefix on disk: stage markers, guard files, Portage's database, links into `tmp` | stages 1 to 3, resume after a kill or failure, removal of `tmp`, start script |
| package builds | `bootstrap-prefix.sh` 26-119, 688-1441 | `DISTDIR`, the build directory, `tmp/usr` | `efetch`, `bootstrap_gnu`, `bootstrap_simple`, fallback versions |
| emerge loop | `bootstrap-prefix.sh` 1805-1941 | `var/db/pkg` | matching atoms with installed packages, one `emerge` per package |
| generator | `generate_toolchain.sh`, `ldd-recursive.pl` | `toolchain/`, `toolchain.tgz`, `ldb_toolchain_gen.sh` in the working directory | collect programs and libraries, set rpaths, wrap, pack |
| installer | `setup_toolchain.sh` | the target and a hidden directory beside it | unpack, move, relocate, try the compilers |
| compatibility library | `glibc-compatibility/` | globals of the process | `getauxval`, clocks of the vDSO, `posix_spawn`, descriptor fallbacks, `glob`, ... |
| terminal flame graph | `tfg/` | call tree, visual tree, cursor | parse profiles, insert stacks, dump, lay out, browse |
| wrappers | `gcc`, `g++`, `clang`, `curl`, `bison`, ... | none | set variables and exec |

The `Dockerfile` runs `bootstrap-prefix.sh` four times on one prefix (until stage
1, 2, 3, and to the end), emerges programs into it, and makes
`generate_toolchain.sh` the entry point of the image.  That copies the programs
and their libraries, builds `glibc-compatibility` into a library the linker
scripts name, and appends the archive to `setup_toolchain.sh`.  The runs of each
script know of each other only by what is on disk; the installer knows the
generator only by the archive behind it.  Within the library, `clock_gettime`
and `sched_getcpu` find the vDSO with `getauxval`, and `posix_spawn` makes its
pipe with the library's `pipe2`.  The rest of the library are functions that call
none of each other.  The flame graph is a pipeline in one process: a parser yields
a stack at a time, the call tree takes it, and in the end is dumped or laid out for
the browser, which rebuilds its visual tree at some of the keys.

### What is hard, and what makes each part correct

* **Crash and resume** (bootstrap, packages, generator, installer).  The
  bootstrap takes hours and is meant to be run again ("I will find it when you
  run me again").  What a run may skip is decided by files an earlier one,
  possibly killed, left behind.  Correct: a guard vouches for what is behind it;
  nothing is done twice or undone; stages end in order; what is announced works.
* **Partial failure.**  Some failures stop a script, some are ignored on purpose,
  some by accident (pipes, process substitutions, `|| true`); a download may
  leave part of a file.  Correct: what was cut is not used as if it were whole.
* **Concurrency.**  `getauxval`, `clock_gettime` and `sched_getcpu` initialise
  themselves in the threads that call them first, without locks; a child of
  `posix_spawn` shares memory with its parent but not descriptors; installers
  may race for a directory.  Correct: answers are the kernel's whatever the
  interleaving; what is reported of a child is so; a name is taken once.
* **Boundaries** (mathematical functions, `memcpy`, the flame graph's windows).
  Tests on the bits of a number, exponents that wrap, overlapping moves, columns
  that do not divide.  Correct: on each side of each threshold the result is the one
  C, or the screen, wants.
* **Old kernels** (descriptor calls).  A call that is missing is replaced by two, and
  others run in between.  Correct: the flags are set, and where the kernel can set
  them at once nobody sees a descriptor without.
* **Termination.**  Retry chains, a recursive walk of a graph with cycles, a read
  that waits for descriptors to be closed.  Correct: each ends.

## Modules

| module | models | its state and actions in the code |
|---|---|---|
| `StagedInstall` | what the bootstrap promises, with all detail left out | stages end in order, each once; then the scaffolding may go; then "ready" |
| `Bootstrap` | `bootstrap_interactive` 3304-3454 and the stages | a label of `pc` per command that changes the disk; the disk is markers, guards, the profile links, the lines in `package.use`, the archives that have one source, emerge with its links, `var/db/pkg` and the links into `tmp`; `StartRun`, `Kill`, failures |
| `BootstrapInv`, `BootstrapProofs` | inductive invariant, theorems | |
| `Package` | `efetch` and `bootstrap_gnu`/`bootstrap_simple` with their version chain | one archive and source tree per version and format, each absent, partial or whole |
| `Installer` | `setup_toolchain.sh` | any number of invocations; each directory is absent, partial or whole, each of its four groups of binaries packed, torn or relocated |
| `Generate` | `generate_toolchain.sh`, `ldd-recursive.pl` | the walk (`NextArg`, `Visit`, `ArgDone`, `PrintList`), the loops of copies and rpaths one file at a time, the wrappers and what each calls, the archive, the script; `Stop` at any command |
| `Auxv` | `getauxval.c` | the function pointer, both tables, `__auxv_secure`, a `pc` per thread; one action per access to shared memory |
| `Vdso` | `clock_gettime.c`, `sched_getcpu.c`, `vdso.c`; EXTENDS `Auxv` | the two cached pointers; the lookup is a call of `getauxval` in the same thread |
| `Spawn` | `posix_spawn.c`, `pipe2.c` | per call: the parent's steps, the child's from `clone` to what `waitpid` can collect, and who holds the write end of its pipe |
| `CallTree` | `calltree.py` | a node per frame with its count and its children; one level of a stack per `InsertFrame`; `Dump` |
| `Collapsers` | the parsers in `stackcollapsers/` | the locals of `parse`; one line per step |
| `VisualTree` | `visualtree.py` | operators: widths, columns, the combined frame, links to the left and right |
| `Browser` | `terminal.py`, `palette.py` | the zoom, the cursor, both windows; one action per key |
| `Tfg` | `main.py`; EXTENDS the four above | `Parse`, `Add`, `Insert`, then `DumpTree` or `Browse` |
| `Ieee` | the formats, as class, sign, exponent and significant bits | |
| `Pow`, `ExpLog`, `Powl`, `Lgamma` | `pow.c`, `powf.c`; `exp*.c`, `log*.c`, `scalbnf.c`; `powl.c`; `lgamma.c`, `lgammal.c` | operators: the branch each argument takes and the set of results it may give |
| `Libm` | a call of any of these | what C's Annex F and the functions' mathematics allow |
| `Memcpy` | `memcpy_x86_64.cpp`, `memcpy_aarch64.cpp` | the pointers, the bytes left, what is copied; one move per step |
| `Glob` | `glob.c` | a stack of `match_in_dir` frames, the list found, the heap, the caller's `glob_t` over several calls |
| `Descriptors` | `accept4.c`, `dup3.c`, `fcntl.c`, `epoll.c`, `eventfd.c`, `inotify.c` | the table of descriptors, one system call per step, beside a thread that opens and execs |
| `Calls` | `execvpe` in `glibc-compatibility.c`, `mkstemps.c`, `getentropy.c` | the loop of each |
| `FileActions` | `posix_spawn_file_actions_*` | the linked list, block by block |
| `TfgProofs` | theorems about `Tfg` and the four modules it extends | |
| `LibraryProofs` | theorems about `Memcpy`, `Calls`, `Descriptors`, `FileActions`, `Glob` | |
| `...Proofs` | theorems of the module of that name; `VdsoProofs` has those of `Auxv` too | |
| `MC...` | the instances TLC runs; `MCLibrary` also puts the functions of the library side by side, one of them under way, `posix_spawn` in two calls | |

Conventions.  A definition named `...Mutant` is a plausible bug in the definition
that follows it; no specification uses it.  It is there so that it can be shown
that a property depends on the code being as it is.

Abstractions that are more than wording:

* `Bootstrap` does not look into a compiler run or an `emerge`: it succeeds, fails
  or is killed, and installs one package at a time (`Size` per call).
* In `Generate` the open calls of `recurseLibs` are one set of unread lines, taken
  in any order.  Perl reads depth first, which is one of the orders; the code
  between two arguments (`delete $uniq{$arg}`) runs with no line unread.  What
  `AddSysroot`, `AddRuntime` and `AddRest` put into the tree is not kept, but for
  the programs that wrappers call.
  `docker run --rm` gives each run an unedited `setup_toolchain.sh`.
* In `Auxv` the vector is one the kernel can pass: no type twice, entries before
  `AT_NULL`.  Reads of procfs are all or nothing per entry.
* In `Spawn` a child's signals, mask and stack are left out; a kill of a child is
  a fault with a bound, the end of a program is not.
* In `Collapsers` a line is what the regular expressions and `split` make of it; a
  frame is a number, and one above 10 is a name with an offset to be trimmed.
* In the mathematical modules a number is its class, sign and exponent, its leading
  bits, and its lowest bit.  What a polynomial yields is known to within the octave
  (`Log2`, `Product`); where that decides nothing the set of results has several
  elements, and all of them must be right.  So the tests, the parities, the integer
  arithmetic on exponents and the order of the branches are the code's, and no claim
  is made on the last bits.
* In `Glob` a name is a number and a component of a pattern the set of names it
  accepts, with `FNM_PERIOD` and without; `fnmatch`, `stat` and `readdir` answer from
  a tree that does not change.
* In `Descriptors` a thread beside the call may hold a number before it installs a
  descriptor (`Reserve`, `Install`), which is where the kernel's `EBUSY` comes from.

## Runs

| run | instance | checks |
|---|---|---|
| `bootstrap_safety` | 4 tools: ordinary, optional, tolerant, the host's; 2 packages in one call; 2 kills, 1 failure; RAP | `StageOrder`, `CompleteOrTorn`, `TmpUnreferenced`, `NoRework`, `SyncedTreeStays`, refinement of `StagedInstall` |
| `bootstrap_resume` | no RAP; the user may also ask for single stages; 1 kill, 1 failure; fair | `TreeSound`, `BuildEnvironment`, `EventuallyReady` |
| `bootstrap_profile` | 1 kill | fails: `Stage2HasItsProfile` |
| `package_gnu` | 2 versions, 3 formats of which one unusable, 2 locations; 1 torn file, 2 failures, 2 kills; fair | `BuildsFresh`, `KeepsWhole`, `ResumeHeals` |
| `install_alone` | 3 invocations, one cut archive, 1 failing tool, 2 interruptions | `OnlyWhole`, `StillWorks`, `NoLitter` |
| `install_nested` | 2 invocations at once for one directory | fails: `NeverInside` |
| `generate_delivery` | 2 programs, 9 libraries with a cycle and a clash of names; 2 runs, each of which may stop anywhere; the lister may fail; fair | `Closed`, `RightLibs`, `Behind`, `Delivered`, `Ends` |
| `compat_vdso` | 2 threads, before and after the environment is set; procfs may fail to open; clocks the vDSO or the kernel lacks; fair | `RightAnswer`, `AsTheKernel`, `StaysFinal`, `Settles`, `Returns` |
| `auxv_secure` | a set-uid process | fails: `SecureTold` |
| `tfg_pipeline` | every file of 5 lines of perf, 4 of dtrace, 3 of the others, dumped; 7 trees browsed with any keys in a window of 6 columns and 5 lines | `ParsesSamples`, `CountsAddUp`, `DumpsSamples`, `FramesFit`, `CursorHolds`, `KeepsInView` |
| `compat_library` | each function with arguments on both sides of its thresholds (below); 2 calls of `posix_spawn`, kernels with and without `pipe2`, 2 kills; fair | `MathRight`, `Copied`, `GlobRight`, `Flagged`, `Honest`, `ActionsKept`, `Told`, `InheritsNothing`, `Returns` |
| `lgamma_poles` | the same | fails: `LgammaPoles` |

**Why these bounds.**  The disk and the pointers have few states; what matters is
which event comes between which.  Two kills let a run be cut while it makes good
an earlier cut; one failure beside them lets a failure be met by a resumed run.
The four tools have one of each way a tool can behave; the third has a single
archive, as the tree and portage have.  Two versions of three
formats have a fallback of each kind, with a skipped one in between.  Two threads
are a winner and a loser of each race; the proofs are for any number.  Three
installers are a leftover, a victim and a bystander.  The graph of libraries has a
cycle, a loader, a clash of two names and files copied before and after the
rpaths; again the proof is for any graph.

In `tfg_pipeline` the lines of each format are one of each kind the parser tells
apart, and a wrong one; five lines of perf are two samples and a blank between.
The trees have small frames, frames that fill their parent exactly, more children
than columns, more levels than lines, and a count of zero.  In `compat_library` the
mathematical arguments are both neighbours of each constant the code compares with,
every class, both signs, and odd and even integers up to where there are none;
`memcpy` is run for all sizes to 300, which are two blocks of 128 and every
remainder, at all 16 alignments; `glob` on two trees with links, unreadable
directories and file systems without types, with one failing allocation at every
place, an errno left over from before, and patterns that are too long; descriptor calls with four numbers, full tables among them, on old and new
kernels, and two descriptors opened by the thread beside; `PATH` with up to three
directories and each outcome; two callers of `mkstemps` for two names with 3 of the
100 retries; `getentropy` at 0, 1, 12, 256 and 257 bytes with two interruptions;
four file actions with three kinds of failure.

**Deadlock.**  `package_gnu` and the installer's and the generator's runs turn the
check off: the tool is built, every invocation has come to
its end, or the bound on runs is used up.  The others leave it on; in
`compat_library` a state without a step of the function is accepted only where it has
returned (`Over`).

**Fairness.**  A process that runs is scheduled, one step at a time: `Script`,
`Step` of `Package` and `Generate`, `SpawnStep` of each call, `VdsoStep` of each
thread.  That is all that `Ends`, `Settles` and both `Returns` have.  For
`EventuallyReady` and `ResumeHeals` the user also runs a failed bootstrap again, as
the script asks; in `EventuallyReady` strongly, since other requests may come in
between.  `EventuallyReady` allows two ends that no later run leads out of
(`Blocked`; known limits).  Faults are bounded and never fair.  Nothing is assumed about the end of
a spawned program or the coming of signals.

### What the failing runs show

Each names a statement of the repository that the code does not keep.

* `bootstrap_profile`: the guard of "setup a profile for stage2" appears with the
  `cp` before the profile is replaced; a kill in between is never made good.
* `install_nested`: the test that a directory is free and the `mv` are a whole
  unpacking apart; `mv` then goes into the toolchain that got there first.
* `auxv_secure`: `__auxv_secure = __getauxval_procfs(AT_SECURE)` assigns the
  variable to itself, so a set-uid program is told 0.
* `lgamma_poles`: `lgamma.c` 75 and `lgammal.c` 84 promise infinity at the negative
  integers.  The test for them asks whether `sin(pi * x)` is 0, which it never is,
  since `pi * x` is rounded: `lgamma_r(-1)` is the logarithm of a rounding error, about
  37.8.

## Proofs

For every value of the constants (numbers of tools, versions, threads, calls,
invocations, faults; any vector, any graph of libraries), from the assumptions
named in the modules:

| module | proved |
|---|---|
| `BootstrapProofs` | `TypeOK`; for runs of the whole bootstrap `Inductive`, hence `StageOrder`, `CompleteOrTorn`, `TmpUnreferenced`, `BuildEnvironment`, `TreeSound`; `NoRework`, `SyncedTreeStays`; the refinement of `StagedInstall` |
| `PackageProofs` | `TypeOK`, `BuildsFresh`, `KeepsWhole`, `SimpleInstallsWhole` |
| `InstallerProofs` | `TypeOK`, `OnlyWhole`, `StillWorks`, `NoLitter`, for any number of invocations that do not overlap in a directory |
| `GenerateProofs` | `TypeOK`, `Closed`, `RightLibs`, `Behind`, `Delivered` |
| `VdsoProofs` | `RightAnswer`, `StaysFinal`; `VdsoTypeOK`, `AsTheKernel`, `NoNullLate` |
| `SpawnProofs` | `TypeOK`, `Told`, `InheritsNothing` |
| `LibraryProofs` | `MemInvariant`, `Copied`, for every size and alignment; `Honest` in its three parts, for every `PATH`, any callers, templates and lengths; `Flagged`, for any table, call and descriptors opened beside; `ActionsKept`, for any calls; `GlobRight`, for any directories, patterns, flags, failing allocations and calls one after the other |
| `TfgProofs` | for any files, names and size of the screen: `CountsAddUp`, `FramesFit`, `CursorHolds`, `KeepsInView`, `ParsesSamples`, and that a dump that is written is what was parsed (`DumpHolds`) |

None of the safety properties is inductive by itself.  The arguments:

* *Bootstrap.*  `Inductive` says what each guard is worth (`GuardsHonest`: what is
  behind it is whole, or torn by a named fault, or being made), how far each stage
  is at each label (`Stage1Progress`, `Stage3Progress`), and what surrounds a
  compiler run.  The lines in `package.use` are there until the sync of stage 3 takes
  them with the tree, unless a kill came between the link and the lines
  (`CompleteOrTorn`).  That `tmp` is not referenced when it goes follows from stage 3
  having undone each link before its marker is written, and no later run adding
  one.
* *Package.*  A source directory in front of the compiler is either this run's or
  gone: the loop removes what it finds before it unpacks.
* *Installer.*  While an invocation relocates a directory it is the only one that
  does; who is announced has relocated all groups; nobody starts on a directory
  that is there.
* *Generate.*  While the list is made, what `ldd` said of each file entered is in
  `%uniq` or unread; when it is printed nothing is unread, so the list is closed.
  The copies go by last component, which keeps every name present; the rpath loop
  takes each name off its list as it sets it.  A program that a wrapper calls is
  moved there before the wrappers are copied (`Behind`).
* *getauxval.*  A thread in the reader of a table has seen the pointer switched, or
  has filled the table itself; tables are only ever filled with the kernel's
  values.
* *vDSO.*  A null pointer is cached only by a thread whose `getauxval` answered 0,
  which needs a call before the environment is set, or a kernel without vDSO.
* *posix_spawn.*  `CLONE_VFORK` keeps the caller from its pipe until the child has
  exec'd or is gone, so an empty pipe means that no message will come.  A call that
  fails has waited for its child, or its `waitpid` was interrupted (`cut`).
* *memcpy.*  All bytes before the pointers are copied and none beyond the end; in the
  loop of the medium sizes the last 16 are copied already, so that what its moves
  leave is covered; after the padding the destination is a multiple of 16, and each
  block keeps it so.
* *Retrying calls.*  `execvpe`: every directory passed was one of those that are
  passed over, and EACCES is remembered exactly if one answered it.  `mkstemps`: a
  caller without a descriptor has made no file, and what one caller does leaves what
  holds of the others.  `getentropy`: what is filled grows and is never more than what
  is asked.
* *Descriptors.*  `FdInv` says at each step of a call which descriptor it has made, if
  any, and with which flags; a descriptor that was there before keeps its entry, and
  the thread beside adds only descriptors of its own.  A program can be given the
  new one without its flag only between the two calls that an old kernel needs.
* *File actions.*  The list is a sequence of distinct used blocks that starts at the
  pointer; a new block goes in front, where it disturbs neither the links nor the
  contents behind; `destroy` walks the same sequence.
* *glob.*  `GlobInv` has three parts.  The search: a match is pending in a frame of
  `match_in_dir` if the frame's path begins it and its next name is still to be read
  there; the list is always the set of the matches that are pending in no frame, each
  once, with its mark (`Globbing`), since the frames further out have read past the
  names that lead to those further in.  When the last frame returns nothing is pending,
  so all matches are there; a search that an error ends has found a part of them
  (`Collecting`); it may also have ended before it began, for a pattern that is too long.
  The blocks: those of the list are not in the caller's array, and
  together they are the heap (`RightBlocks`), so `freelist` leaves the earlier result
  alone and `globfree` leaves nothing.  What was returned (`GlobAnswered`): the new end of the array, which is
  the list, sorted.  `Sorted` puts a name at the place of the number of names that are
  not after it (`NotAfter`); these numbers are all different and between 1 and the
  length, as `strcmp`'s order of names is total (`BeforeOrders`).
* *Call tree.*  A node's count changes with its parent's pending amount: where the
  insertion has come to, the difference is exactly what it still carries.
* *Layout.*  The children's rounded widths never add up to more than their frame's; if
  one of them is rounded to nothing and the rest fill the frame, the width less one is
  shared out, and then they leave the column the `+` needs.  So frames are
  inside their parents and apart from their siblings, level by level; a frame that is
  not shown has a first ancestor without a column, which the `+` of its parent lists.
* *Browser.*  While a window is open `vft` is `RebuildTree` of the tree for the present
  zoom and the present state of the combined frames, so what a key finds with the links
  is on the screen; the keys that rebuild it also place the cursor anew.
* *Parsers.*  The locals hold the lines since the last line that completed a sample, and
  no others; the result is a sample for each line that completed one.
* *Dump.*  The samples at a node are those of the stacks inserted so far that end there
  (`DumpInv`; the stack on its way counts only when its top frame arrives).  A line is
  printed for each node with samples, and each has a stack.

Sums over trees and positions in lists are defined by recursion over data.  The prover
has no induction scheme with an operator as parameter; where a property can be stated
as a formula the proofs take the least counterexample instead: of a set of numbers
(`LeastNat`), of a finite set's subsets (`SmallestSet`), of paths by their lengths
(`PathInduction`).  What is assumed of the constants is what the code runs under: a
screen with a column and more than two lines (`COLSAssumption`, `LINESAssumption`; with
fewer lines there is none to draw a frame on), a file that is a sequence of lines of the
kinds a parser tells apart (`JobsAssumption`, `IsLine`; `ParsesSamples` asks of perf's
that no frame has spaces, `WellFormed`), the kernel's descriptors and
answers (`DescriptorsAssumption`, `CallsAssumption`, `FileActionsAssumption`), directories
that list each name once and tell no wrong type, and a caller who appends to an earlier
result with the `gl_offs` of before (`GlobAssumption`; a run of slashes is skipped at once,
`glob.c` 65, so that only the last component of a pattern can be empty).

The type invariants, `NoNullLate` and the inductive invariants are proved, and the
theorems name them; the runs check what follows from them.

Only model-checked: liveness (`EventuallyReady`, `ResumeHeals`, `Ends`, `Settles`, both
`Returns`, and that `DumpsSamples` comes about: what it says of the dump is proved),
which TLAPS does not do; the races of installers that overlap; single stages in
`EventuallyReady`; `MathRight`, whose inputs are enumerated on both sides of each
threshold and whose cases are arithmetic with powers of two that the provers do not
find.

## Known limits, and things seen on the way

Not part of any run; line numbers for whoever looks again.

* `bootstrap-prefix.sh` 802: `[[ -d ${S} ]] || return 1` after the loop over formats
  lets a partly unpacked source be built and reported as bootstrapped, when the last
  format's download was torn (`BootstrappedWhole` in `Package`).  2227: stage 3's test for a compiler is passed by the
  host's `gcc`.  3423: the removal of `tmp` is guarded by a directory inside it.
* What a later run does not repair (`Blocked` in `Bootstrap`): `efetch` takes any file in
  `DISTDIR` for fetched (54), so a single archive that was cut off while it came (python,
  the tree, portage) fails to unpack in each run; and a kill between the installation
  of emerge and its links (675-686) leaves an emerge that finds no tree, behind the guard of
  1785.  A kill between the links of a profile and its lines in `package.use`
  (472, 478) leaves a profile without them until the sync.
* `setup_toolchain.sh` 56-59 cannot be reached under `set -e`; `-o` has no effect,
  as the wrappers contain no `<OLD_ABI>` (`Placeholder`).
* `generate_toolchain.sh` 114: no `COPY` of the `Dockerfile` brings
  `ldd-recursive.pl`, the documented `docker run` mounts an empty directory over the
  working directory, and a process substitution that fails does not stop the script,
  so a toolchain without libraries is delivered (`Working` in `Generate`, with
  `Lister = FALSE`).  157 links `objdump` to `llvm-objdump`, which is not
  copied; a wrong `ARCH` is noticed after `mkdir` and blocks the next run
  (`BadArch`, `Refuse`); `flamegraph` (17) calls `ldb-python3`, but 507 makes `ldb-python`
  (`NeverMade`, which `Behind` excepts); libraries copied by name (121-135) are not searched for
  their own needs; `ldd`'s "not found" is skipped in silence.
* `posix_spawn.c`: any failure of `clone` becomes `EPERM`; signals are not blocked,
  though the comment at 39 relies on it, and `oldmask` is never set.  The result of
  `waitpid` (87) is ignored: the caller of a `clone` with `CLONE_VFORK` runs on before its
  child can be waited for, so a signal in between leaves a zombie whose pid nobody has
  (the exception in `Told`).  On a kernel without `pipe2` a program started beside the call
  may keep its pipe, and `Returns` grants that it then waits.  `posix_spawnp`
  does not search `PATH`, and file actions are not applied.
* `getauxval.c`: a `setenv` before the first call without procfs moves the vector
  out of reach; the order of memory accesses on aarch64 is not modelled, nor the
  sanitizers' paths.

* Flame graph: keys for left, right, `r` and `c` can take the cursor out of the
  window (`KeepsInView` is about up and down); an empty profile, or one whose
  counts are all zero, ends the status line with a division by zero; perf's last
  sample without an empty line behind it is lost, and a frame of several words (a C++
  symbol, `(deleted)`) is taken for a header (`perfcollapser.py` 40; `WellFormed` keeps such
  files out of `ParsesSamples`); `terminal.py` 164-168 swaps two
  arguments of its format; the palettes `wakeup` and `chain` raise an exception
  (`Crash`).
* Mathematical functions: `MathRight` leaves the negative integers to `LgammaPoles`, and
  does not ask for the sign of `lgamma` where the rounding of `pi * x` reaches over an
  integer (`BesideInteger`); from 2^1022 on that product may overflow, and `lgamma` of a
  negative number is then a NaN.  The test `u.i.m == 0` of `lgammal.c` 237 is never true;
  `powl` takes the largest finite numbers for infinite, which are no arguments here; `scalbnf` may round twice.
* `glob`: GLOB_APPEND after a call that found nothing leaves the entries of DOOFFS
  unset; GLOB_NOMATCH is returned, not GLOB_ABORTED, when a search without error
  checks found nothing; GLOB_MARK looks at the result of a `stat` that failed.
* Descriptors: on old kernels `dup3` sets the flag of the new number also when `dup2`
  failed; `accept4` drops a flag it does not know; `fcntl64` answers EINVAL when its
  probe finds the table full; `epoll_create1`, `eventfd` and `inotify_init1` with flags
  answer ENOSYS.  `destroy` of file actions leaves the pointer.
  `sync_file_range` returns a negative errno.

## Not modelled

* Matching of atoms (1805-1839): shell patterns over names; in `Bootstrap` a package
  is installed or not.
* Preflight (2660-3302): questions to the user and defaults, without a state of their
  own.
* System call wrappers: one call each.  Wrappers, build files, tables of
  coefficients: no steps.
* Rounding errors of the mathematical functions; signal masks and the child's stack in
  `posix_spawn`; weak memory on aarch64; what is undefined behaviour in `getauxval`
  after an early `setenv`.

## Plan

Done: all modules above.  What could follow:

1. Versions per tool, so that `Bootstrap` and `Package` become one model;
   `Generate`'s script as the archive of `Installer`.
2. The matching of atoms, as an algorithm against a reference.
3. Proofs of single functions of `MathRight` over symbolic exponents: what `pow` does
   near overflow is linear arithmetic once the powers of two are left out.
