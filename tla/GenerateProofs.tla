--------------------------- MODULE GenerateProofs ---------------------------
(***************************************************************************)
(* Proofs about Generate, for any programs, libraries and needs.  While    *)
(* ldd-recursive.pl runs, a line of a program or library it has entered is *)
(* in %uniq or still unread; when it prints, nothing is unread.  The rest  *)
(* follows the copies into toolchain/, the archive and the script.         *)
(***************************************************************************)
EXTENDS Generate, TLAPS

\* TypeOK in five parts.
RunTypes ==
    /\ pc \in Labels /\ runs \in 0..MaxRuns /\ code \in {0, 1}

FlagTypes == tree \in BOOLEAN /\ filled \in BOOLEAN /\ exec \in BOOLEAN /\ lost \in BOOLEAN

BinTypes == bin \in [Files -> {"none", "program", "wrapper"}]

LibTypes ==
    /\ lib \in [Names -> Libs \cup {NoLib}] /\ rpath \subseteq Names
    /\ args \subseteq Programs /\ arg \in Programs \cup {NoLib}
    /\ uniq \subseteq Programs \cup Libs /\ unread \subseteq Libs
    /\ pc = "list" => uniq \ {arg} \subseteq Libs
    /\ todo \subseteq Libs \cup Names
    /\ pc = "copy" => todo \subseteq Libs
    /\ pc \in {"patch", "repatch"} => todo \subseteq Names

OutputTypes == tgz \in Archives /\ script \in Archives

\* A tree that is begun is empty until the loop of the libraries.
Begun ==
    /\ ~tree \/ pc \in {"arch", "programs", "list"} => lib = Nothing /\ rpath = {}
    /\ pc = "copy" => rpath = {}
    /\ pc \notin Stopped => tree

\* What ldd printed of the files entered is in %uniq, or to be read.
Walked ==
    pc = "list" =>
        /\ arg = NoLib => unread = {}
        /\ \A p \in Programs \ args : Lines[p] \subseteq uniq \cup unread
        /\ \A l \in uniq \cap Libs : Lines[l] \subseteq uniq \cup unread

Built == {"extras", "patch", "move", "wrap", "runtime", "late", "repatch", "rest", "tar", "fill",
          "cat", "chmod"}

\* The list is complete.
Listed ==
    pc \in Built \cup {"copy"} /\ ~lost =>
        /\ uniq \subseteq Libs
        /\ \A p \in Programs : Lines[p] \subseteq uniq
        /\ \A l \in uniq : Lines[l] \subseteq uniq

\* Each library of the list is there, or to be copied, and no other is.
Gathered ==
    /\ pc = "copy" /\ ~lost => todo \subseteq uniq
    /\ pc \in Built \cup {"copy"} /\ ~lost =>
          /\ \A l \in uniq : (pc = "copy" /\ l \in todo) \/ lib[Name[l]] # NoLib
          /\ \A n \in Names : lib[n] \in uniq \cup Extras \cup Late \cup {NoLib}

TheirZstd == pc \in Built => lib[Name[Zstd]] = Zstd

\* How far the rpaths are.
Rpaths ==
    LET here == {n \in Names : lib[n] # NoLib} IN
    /\ pc = "extras" => rpath = {}
    /\ pc = "patch" => todo \subseteq here /\ rpath \cup (todo \ Bare) = here \ Bare
    /\ pc \in {"move", "wrap", "runtime", "late", "rest", "tar"} => rpath = here \ Bare
    /\ pc = "repatch" => rpath \cup todo = here \ Bare

\* Where the programs that are called are in the end.
Placed == {"bison-3.5.1", "m4", "ldb-curl", "gentoo/gcc", "gentoo/g++", "llvm/clang", "llvm/clang++", "llvm/clangd"}

\* How far the wrappers are.
Wrappers ==
    /\ pc \in {"list", "copy", "extras", "patch", "move"} => \A f \in Copies : bin[f] = "program"
    /\ pc = "move" => bin["llvm/clang++"] = "program"
    /\ pc \in {"wrap", "runtime", "late", "repatch", "rest", "tar"} => \A f \in Placed : bin[f] = "program"
    /\ pc \in {"runtime", "late", "repatch", "rest", "tar"} => \A w \in Wrapped : bin[w] = "wrapper"

Good(a) == ClosedIn(a) /\ RightIn(a) /\ BehindIn(a)

\* The archive and the script.
Shipped ==
    /\ pc \in {"fill", "cat", "chmod"} => filled /\ tgz.whole /\ tgz.run = runs /\ Good(tgz)
    /\ script.whole => Good(script)
    /\ pc = "chmod" => script.whole /\ script.run = runs /\ script.filled
    /\ Delivered

Inv ==
    /\ RunTypes /\ FlagTypes /\ BinTypes /\ LibTypes /\ OutputTypes
    /\ Begun /\ Walked /\ Listed /\ Gathered /\ TheirZstd /\ Rpaths /\ Wrappers /\ Shipped

-----------------------------------------------------------------------------

\* Of the constants, what the steps need.
LEMMA Constants ==
  /\ Programs \cap Libs = {} /\ NoLib \notin Libs /\ NoLib \notin Programs
  /\ \A f \in Programs \cup Libs : Lines[f] \subseteq Libs
  /\ \A l \in Loaders : Lines[l] = {}
  /\ Zstd \in Libs /\ \E p \in Programs : Zstd \in Lines[p]
  /\ \A l \in Libs : Name[l] \in Names
  /\ Extras \subseteq Libs /\ Late \subseteq Libs /\ Bare \subseteq Names
  /\ \A l \in Extras \cup Late : Name[l] # Name[Zstd]
  /\ \A l \in Late : Name[l] \notin Bare
  BY GenerateAssumption DEF Names

\* The programs that are called are in place in the end, but for NeverMade.
LEMMA CalledPlaced == \A c \in Called : c[2] \notin NeverMade => c[2] \in Placed
  BY DEF Called, NeverMade, Placed

\* No wrapper has the name of a program that is called, nor python or its new name.
LEMMA FileNames ==
  /\ Copies \subseteq Files /\ Placed \subseteq Files /\ Wrapped \subseteq Files
  /\ {"python", "ldb-python"} \subseteq Files \ Placed
  /\ "llvm/clang++" \in Placed /\ "llvm/clang" \in Copies
  /\ \A w \in Wrapped : w \notin Placed /\ w # "python" /\ w # "ldb-python"
  /\ Placed \ {"bison-3.5.1", "ldb-curl", "llvm/clang++"} \subseteq Copies \ {"bison", "curl"}
  /\ {"bison", "curl"} \subseteq Copies \ Placed
  <1>1. Wrapped = {"bison", "curl", "gcc", "g++", "clang", "clang++", "clangd", "flamegraph", "ldb_gperf", "tfg.py"}
    <2>1. \A c \in Called : c[1] \in {"bison", "curl", "gcc", "g++", "clang", "clang++", "clangd", "flamegraph"}
      BY DEF Called
    <2>2. ASSUME NEW w \in {"bison", "curl", "gcc", "g++", "clang", "clang++", "clangd", "flamegraph"}
          PROVE  \E c \in Called : c[1] = w
      <3>1. /\ <<"bison", "m4">> \in Called /\ <<"curl", "ldb-curl">> \in Called
            /\ <<"gcc", "gentoo/gcc">> \in Called /\ <<"g++", "gentoo/g++">> \in Called
            /\ <<"clang", "llvm/clang">> \in Called /\ <<"clang++", "llvm/clang++">> \in Called
            /\ <<"clangd", "llvm/clangd">> \in Called /\ <<"flamegraph", "ldb-curl">> \in Called
        BY DEF Called
      <3>2. \A a, b : <<a, b>>[1] = a
        OBVIOUS
      <3> QED BY <3>1, <3>2
    <2> QED BY <2>1, <2>2 DEF Wrapped
  <1>2. ASSUME NEW f \in Placed PROVE f \in Files
    <2>1. /\ <<"bison", "bison-3.5.1">> \in Called /\ <<"bison", "m4">> \in Called
          /\ <<"curl", "ldb-curl">> \in Called
          /\ <<"gcc", "gentoo/gcc">> \in Called /\ <<"g++", "gentoo/g++">> \in Called
          /\ <<"clang", "llvm/clang">> \in Called /\ <<"clang++", "llvm/clang++">> \in Called
          /\ <<"clangd", "llvm/clangd">> \in Called
      BY DEF Called
    <2>2. \A a, b : <<a, b>>[2] = b
      OBVIOUS
    <2>3. \E c \in Called : c[2] = f
      BY <2>1, <2>2 DEF Placed
    <2> QED BY <2>3 DEF Files
  <1>3. Copies \subseteq Wrapped \cup Placed \cup {"python"}
    BY <1>1 DEF Copies, Placed
  <1> QED BY <1>1, <1>2, <1>3 DEF Files, Copies, Placed

LEMMA InitInv == Init => Inv
  <1> SUFFICES ASSUME Init PROVE Inv
    OBVIOUS
  <1>1. MaxRuns \in Nat
    BY GenerateAssumption
  <1>2. Nothing \in [Names -> Libs \cup {NoLib}] /\ Empty \in [Files -> {"none", "program", "wrapper"}]
    BY DEF Nothing, Empty
  <1>3. RunTypes /\ FlagTypes /\ BinTypes
    <2>1. RunTypes
      BY <1>1 DEF Init, RunTypes, Labels, Stopped
    <2>2. FlagTypes
      BY DEF Init, FlagTypes
    <2>3. BinTypes
      BY <1>2 DEF Init, BinTypes
    <2> QED BY <2>1, <2>2, <2>3
  <1>4. LibTypes
    BY <1>2 DEF Init, LibTypes
  <1>5. OutputTypes
    BY <1>1, <1>2 DEF Init, OutputTypes, Archives, Absent
  <1>6. Begun /\ Walked /\ Listed /\ Gathered /\ TheirZstd /\ Rpaths /\ Wrappers
    BY DEF Init, Begun, Walked, Listed, Gathered, TheirZstd, Rpaths, Wrappers, Built, Stopped
  <1>7. Shipped
    BY DEF Init, Shipped, Delivered, Absent
  <1> QED BY <1>3, <1>4, <1>5, <1>6, <1>7 DEF Inv

LEMMA StepRunTypes ==
  ASSUME RunTypes, [Next]_vars PROVE RunTypes'
  <1>0. MaxRuns \in Nat
    BY GenerateAssumption
  <1> USE <1>0
  <1> USE DEF RunTypes, Labels, Stopped
  <1>1. CASE UNCHANGED vars
    BY <1>1 DEF vars, walk, files, output
  <1>2. CASE Refuse
    BY <1>2 DEF Refuse, Exit, walk, files, output
  <1>3. CASE MakeTree
    BY <1>3 DEF MakeTree, Goto, walk, output
  <1>4. CASE BadArch
    BY <1>4 DEF BadArch, Exit, walk, files, output
  <1>5. CASE GoodArch
    BY <1>5 DEF GoodArch, Goto, walk, files, output
  <1>6. CASE CopyPrograms
    BY <1>6 DEF CopyPrograms, Goto, output
  <1>7. CASE ListFails
    BY <1>7 DEF ListFails, Goto, files, output
  <1>8. CASE PrintList
    BY <1>8 DEF PrintList, Goto, walk, files, output
  <1>9. CASE CopyZstd
    BY <1>9 DEF CopyZstd, Copied, Goto, walk, output
  <1>10. CASE CopyExtras
    BY <1>10 DEF CopyExtras, Copied, Goto, walk, output
  <1>11. CASE AddSysroot
    BY <1>11 DEF AddSysroot, Goto, walk, files, output
  <1>12. CASE Move
    BY <1>12 DEF Move, Goto, walk, output
  <1>13. CASE CopyWrappers
    BY <1>13 DEF CopyWrappers, Goto, walk, output
  <1>14. CASE AddRuntime
    BY <1>14 DEF AddRuntime, Goto, walk, files, output
  <1>15. CASE CopyLate
    BY <1>15 DEF CopyLate, Copied, Goto, walk, output
  <1>16. CASE AddRest
    BY <1>16 DEF AddRest, Goto, walk, files, output
  <1>17. CASE Tar
    BY <1>17 DEF Tar, Packed, Goto, walk, files
  <1>18. CASE Fill
    BY <1>18 DEF Fill, Packed, Goto, walk, files
  <1>19. CASE OpenScript
    BY <1>19 DEF OpenScript, Goto, walk, files
  <1>20. CASE CatDone
    BY <1>20 DEF CatDone, Goto, walk, files
  <1>21. CASE Chmod
    BY <1>21 DEF Chmod, Exit, walk, files
  <1>22. CASE Stop
    BY <1>22 DEF Stop, Exit, walk, files, output
  <1>23. ASSUME NEW p \in Programs, NextArg(p) PROVE RunTypes'
    BY <1>23 DEF NextArg, files, output
  <1>24. ASSUME NEW l \in Libs, Visit(l) PROVE RunTypes'
    BY <1>24 DEF Visit, files, output
  <1>25. CASE ArgDone
    BY <1>25 DEF ArgDone, files, output
  <1>26. ASSUME NEW l \in Libs, CopyLib(l) PROVE RunTypes'
    BY <1>26 DEF CopyLib, walk, output
  <1>27. ASSUME NEW n \in Names, SetRpath(n) PROVE RunTypes'
    BY <1>27 DEF SetRpath, walk, output
  <1>28. ASSUME NEW n \in Names, SetLateRpath(n) PROVE RunTypes'
    BY <1>28 DEF SetLateRpath, walk, output
  <1>29. CASE Clean
    BY <1>29 DEF Clean, walk, output
  <1> QED BY <1>1, <1>2, <1>3, <1>4, <1>5, <1>6, <1>7, <1>8, <1>9, <1>10, <1>11, <1>12, <1>13,
    <1>14, <1>15, <1>16, <1>17, <1>18, <1>19, <1>20, <1>21, <1>22, <1>23, <1>24, <1>25, <1>26,
    <1>27, <1>28, <1>29 DEF Next, Step

LEMMA StepFlagTypes ==
  ASSUME FlagTypes, [Next]_vars PROVE FlagTypes'
  <1> USE DEF FlagTypes
  <1>1. CASE UNCHANGED vars
    BY <1>1 DEF vars, walk, files, output
  <1>2. CASE Refuse
    BY <1>2 DEF Refuse, Exit, walk, files, output
  <1>3. CASE MakeTree
    BY <1>3 DEF MakeTree, Goto, walk, output
  <1>4. CASE BadArch
    BY <1>4 DEF BadArch, Exit, walk, files, output
  <1>5. CASE GoodArch
    BY <1>5 DEF GoodArch, Goto, walk, files, output
  <1>6. CASE CopyPrograms
    BY <1>6 DEF CopyPrograms, Goto, output
  <1>7. CASE ListFails
    BY <1>7 DEF ListFails, Goto, files, output
  <1>8. CASE PrintList
    BY <1>8 DEF PrintList, Goto, walk, files, output
  <1>9. CASE CopyZstd
    BY <1>9 DEF CopyZstd, Copied, Goto, walk, output
  <1>10. CASE CopyExtras
    BY <1>10 DEF CopyExtras, Copied, Goto, walk, output
  <1>11. CASE AddSysroot
    BY <1>11 DEF AddSysroot, Goto, walk, files, output
  <1>12. CASE Move
    BY <1>12 DEF Move, Goto, walk, output
  <1>13. CASE CopyWrappers
    BY <1>13 DEF CopyWrappers, Goto, walk, output
  <1>14. CASE AddRuntime
    BY <1>14 DEF AddRuntime, Goto, walk, files, output
  <1>15. CASE CopyLate
    BY <1>15 DEF CopyLate, Copied, Goto, walk, output
  <1>16. CASE AddRest
    BY <1>16 DEF AddRest, Goto, walk, files, output
  <1>17. CASE Tar
    BY <1>17 DEF Tar, Packed, Goto, walk, files
  <1>18. CASE Fill
    BY <1>18 DEF Fill, Packed, Goto, walk, files
  <1>19. CASE OpenScript
    BY <1>19 DEF OpenScript, Goto, walk, files
  <1>20. CASE CatDone
    BY <1>20 DEF CatDone, Goto, walk, files
  <1>21. CASE Chmod
    BY <1>21 DEF Chmod, Exit, walk, files
  <1>22. CASE Stop
    BY <1>22 DEF Stop, Exit, walk, files, output
  <1>23. CASE Clean
    BY <1>23 DEF Clean, walk, output
  <1>24. ASSUME NEW p \in Programs, NextArg(p) PROVE FlagTypes'
    BY <1>24 DEF NextArg, files, output
  <1>25. ASSUME NEW l \in Libs, Visit(l) PROVE FlagTypes'
    BY <1>25 DEF Visit, files, output
  <1>26. CASE ArgDone
    BY <1>26 DEF ArgDone, files, output
  <1>27. ASSUME NEW l \in Libs, CopyLib(l) PROVE FlagTypes'
    BY <1>27 DEF CopyLib, walk, output
  <1>28. ASSUME NEW n \in Names, SetRpath(n) PROVE FlagTypes'
    BY <1>28 DEF SetRpath, walk, output
  <1>29. ASSUME NEW n \in Names, SetLateRpath(n) PROVE FlagTypes'
    BY <1>29 DEF SetLateRpath, walk, output
  <1> QED BY <1>1, <1>2, <1>3, <1>4, <1>5, <1>6, <1>7, <1>8, <1>9, <1>10, <1>11, <1>12, <1>13,
    <1>14, <1>15, <1>16, <1>17, <1>18, <1>19, <1>20, <1>21, <1>22, <1>23, <1>24, <1>25, <1>26,
    <1>27, <1>28, <1>29 DEF Next, Step

LEMMA StepBinTypes ==
  ASSUME BinTypes, [Next]_vars PROVE BinTypes'
  <1> USE FileNames
  <1> USE DEF BinTypes, Empty, Renamed
  <1>1. CASE UNCHANGED vars
    BY <1>1 DEF vars, walk, files, output
  <1>2. CASE Refuse
    BY <1>2 DEF Refuse, Exit, walk, files, output
  <1>3. CASE MakeTree
    BY <1>3 DEF MakeTree, Goto, walk, output
  <1>4. CASE BadArch
    BY <1>4 DEF BadArch, Exit, walk, files, output
  <1>5. CASE GoodArch
    BY <1>5 DEF GoodArch, Goto, walk, files, output
  <1>6. CASE CopyPrograms
    BY <1>6 DEF CopyPrograms, Goto, output
  <1>7. CASE ListFails
    BY <1>7 DEF ListFails, Goto, files, output
  <1>8. CASE PrintList
    BY <1>8 DEF PrintList, Goto, walk, files, output
  <1>9. CASE CopyZstd
    BY <1>9 DEF CopyZstd, Copied, Goto, walk, output
  <1>10. CASE CopyExtras
    BY <1>10 DEF CopyExtras, Copied, Goto, walk, output
  <1>11. CASE AddSysroot
    BY <1>11 DEF AddSysroot, Goto, walk, files, output
  <1>12. CASE Move
    BY <1>12 DEF Move, Goto, walk, output
  <1>13. CASE CopyWrappers
    BY <1>13 DEF CopyWrappers, Goto, walk, output
  <1>14. CASE AddRuntime
    BY <1>14 DEF AddRuntime, Goto, walk, files, output
  <1>15. CASE CopyLate
    BY <1>15 DEF CopyLate, Copied, Goto, walk, output
  <1>16. CASE AddRest
    BY <1>16 DEF AddRest, Goto, walk, files, output
  <1>17. CASE Tar
    BY <1>17 DEF Tar, Packed, Goto, walk, files
  <1>18. CASE Fill
    BY <1>18 DEF Fill, Packed, Goto, walk, files
  <1>19. CASE OpenScript
    BY <1>19 DEF OpenScript, Goto, walk, files
  <1>20. CASE CatDone
    BY <1>20 DEF CatDone, Goto, walk, files
  <1>21. CASE Chmod
    BY <1>21 DEF Chmod, Exit, walk, files
  <1>22. CASE Stop
    BY <1>22 DEF Stop, Exit, walk, files, output
  <1>23. CASE Clean
    BY <1>23 DEF Clean, walk, output
  <1>24. ASSUME NEW p \in Programs, NextArg(p) PROVE BinTypes'
    BY <1>24 DEF NextArg, files, output
  <1>25. ASSUME NEW l \in Libs, Visit(l) PROVE BinTypes'
    BY <1>25 DEF Visit, files, output
  <1>26. CASE ArgDone
    BY <1>26 DEF ArgDone, files, output
  <1>27. ASSUME NEW l \in Libs, CopyLib(l) PROVE BinTypes'
    BY <1>27 DEF CopyLib, walk, output
  <1>28. ASSUME NEW n \in Names, SetRpath(n) PROVE BinTypes'
    BY <1>28 DEF SetRpath, walk, output
  <1>29. ASSUME NEW n \in Names, SetLateRpath(n) PROVE BinTypes'
    BY <1>29 DEF SetLateRpath, walk, output
  <1> QED BY <1>1, <1>2, <1>3, <1>4, <1>5, <1>6, <1>7, <1>8, <1>9, <1>10, <1>11, <1>12, <1>13,
    <1>14, <1>15, <1>16, <1>17, <1>18, <1>19, <1>20, <1>21, <1>22, <1>23, <1>24, <1>25, <1>26,
    <1>27, <1>28, <1>29 DEF Next, Step

LEMMA StepLibTypes ==
  ASSUME LibTypes, [Next]_vars PROVE LibTypes'
  <1> USE Constants
  <1> USE DEF LibTypes, Stopped, Nothing
  <1>1. CASE UNCHANGED vars
    BY <1>1 DEF vars, walk, files, output
  <1>2. CASE Refuse
    BY <1>2 DEF Refuse, Exit, walk, files, output
  <1>3. CASE MakeTree
    BY <1>3 DEF MakeTree, Goto, walk, output
  <1>4. CASE BadArch
    BY <1>4 DEF BadArch, Exit, walk, files, output
  <1>5. CASE GoodArch
    BY <1>5 DEF GoodArch, Goto, walk, files, output
  <1>6. CASE CopyPrograms
    BY <1>6 DEF CopyPrograms, Goto, output
  <1>7. CASE ListFails
    BY <1>7 DEF ListFails, Goto, files, output
  <1>8. ASSUME NEW p \in Programs, NextArg(p) PROVE LibTypes'
    BY <1>8 DEF NextArg, files, output
  <1>9. ASSUME NEW l \in Libs, Visit(l) PROVE LibTypes'
    BY <1>9 DEF Visit, files, output
  <1>10. CASE ArgDone
    BY <1>10 DEF ArgDone, files, output
  <1>11. CASE PrintList
    BY <1>11 DEF PrintList, Goto, walk, files, output
  <1>12. ASSUME NEW l \in Libs, CopyLib(l) PROVE LibTypes'
    BY <1>12 DEF CopyLib, walk, output
  <1>13. CASE CopyZstd
    BY <1>13 DEF CopyZstd, Copied, Goto, walk, output
  <1>14. CASE CopyExtras
    BY <1>14 DEF CopyExtras, Copied, Goto, walk, output
  <1>15. ASSUME NEW n \in Names, SetRpath(n) PROVE LibTypes'
    BY <1>15 DEF SetRpath, walk, output
  <1>16. CASE AddSysroot
    BY <1>16 DEF AddSysroot, Goto, walk, files, output
  <1>17. CASE Move
    BY <1>17 DEF Move, Goto, walk, output
  <1>18. CASE CopyWrappers
    BY <1>18 DEF CopyWrappers, Goto, walk, output
  <1>19. CASE AddRuntime
    BY <1>19 DEF AddRuntime, Goto, walk, files, output
  <1>20. CASE CopyLate
    BY <1>20 DEF CopyLate, Copied, Goto, walk, output
  <1>21. ASSUME NEW n \in Names, SetLateRpath(n) PROVE LibTypes'
    BY <1>21 DEF SetLateRpath, walk, output
  <1>22. CASE AddRest
    BY <1>22 DEF AddRest, Goto, walk, files, output
  <1>23. CASE Tar
    BY <1>23 DEF Tar, Packed, Goto, walk, files
  <1>24. CASE Fill
    BY <1>24 DEF Fill, Packed, Goto, walk, files
  <1>25. CASE OpenScript
    BY <1>25 DEF OpenScript, Goto, walk, files
  <1>26. CASE CatDone
    BY <1>26 DEF CatDone, Goto, walk, files
  <1>27. CASE Chmod
    BY <1>27 DEF Chmod, Exit, walk, files
  <1>28. CASE Stop
    BY <1>28 DEF Stop, Exit, walk, files, output
  <1>29. CASE Clean
    BY <1>29 DEF Clean, walk, output
  <1> QED BY <1>1, <1>2, <1>3, <1>4, <1>5, <1>6, <1>7, <1>8, <1>9, <1>10, <1>11, <1>12, <1>13,
    <1>14, <1>15, <1>16, <1>17, <1>18, <1>19, <1>20, <1>21, <1>22, <1>23, <1>24, <1>25, <1>26,
    <1>27, <1>28, <1>29 DEF Next, Step

LEMMA PackedType ==
  ASSUME RunTypes, FlagTypes, BinTypes, LibTypes, NEW whole \in BOOLEAN
  PROVE  Packed(whole) \in Archives
  <1>1. runs \in 0..MaxRuns /\ lost \in BOOLEAN
    BY DEF RunTypes, FlagTypes
  <1>2. lib \in [Names -> Libs \cup {NoLib}] /\ rpath \in SUBSET Names
    BY DEF LibTypes
  <1> QED BY <1>1, <1>2 DEF Packed, Archives, BinTypes

LEMMA StepOutputTypes ==
  ASSUME RunTypes, FlagTypes, BinTypes, LibTypes, OutputTypes, [Next]_vars PROVE OutputTypes'
  <1> USE DEF OutputTypes
  <1>1. CASE UNCHANGED vars
    BY <1>1 DEF vars, walk, files, output
  <1>2. CASE Refuse
    BY <1>2 DEF Refuse, Exit, walk, files, output
  <1>3. CASE MakeTree
    BY <1>3 DEF MakeTree, Goto, walk, output
  <1>4. CASE BadArch
    BY <1>4 DEF BadArch, Exit, walk, files, output
  <1>5. CASE GoodArch
    BY <1>5 DEF GoodArch, Goto, walk, files, output
  <1>6. CASE CopyPrograms
    BY <1>6 DEF CopyPrograms, Goto, output
  <1>7. CASE ListFails
    BY <1>7 DEF ListFails, Goto, files, output
  <1>8. CASE PrintList
    BY <1>8 DEF PrintList, Goto, walk, files, output
  <1>9. CASE CopyZstd
    BY <1>9 DEF CopyZstd, Copied, Goto, walk, output
  <1>10. CASE CopyExtras
    BY <1>10 DEF CopyExtras, Copied, Goto, walk, output
  <1>11. CASE AddSysroot
    BY <1>11 DEF AddSysroot, Goto, walk, files, output
  <1>12. CASE Move
    BY <1>12 DEF Move, Goto, walk, output
  <1>13. CASE CopyWrappers
    BY <1>13 DEF CopyWrappers, Goto, walk, output
  <1>14. CASE AddRuntime
    BY <1>14 DEF AddRuntime, Goto, walk, files, output
  <1>15. CASE CopyLate
    BY <1>15 DEF CopyLate, Copied, Goto, walk, output
  <1>16. CASE AddRest
    BY <1>16 DEF AddRest, Goto, walk, files, output
  <1>17. CASE Tar
    BY <1>17, PackedType DEF Tar
  <1>18. CASE Fill
    BY <1>18, PackedType DEF Fill
  <1>19. CASE OpenScript
    BY <1>19 DEF OpenScript, FlagTypes, Archives
  <1>20. CASE CatDone
    BY <1>20 DEF CatDone, FlagTypes, Archives
  <1>21. CASE Chmod
    BY <1>21 DEF Chmod, Exit, walk, files
  <1>22. CASE Stop
    BY <1>22 DEF Stop, Exit, walk, files, output
  <1>23. ASSUME NEW p \in Programs, NextArg(p) PROVE OutputTypes'
    BY <1>23 DEF NextArg, files, output
  <1>24. ASSUME NEW l \in Libs, Visit(l) PROVE OutputTypes'
    BY <1>24 DEF Visit, files, output
  <1>25. CASE ArgDone
    BY <1>25 DEF ArgDone, files, output
  <1>26. ASSUME NEW l \in Libs, CopyLib(l) PROVE OutputTypes'
    BY <1>26 DEF CopyLib, walk, output
  <1>27. ASSUME NEW n \in Names, SetRpath(n) PROVE OutputTypes'
    BY <1>27 DEF SetRpath, walk, output
  <1>28. ASSUME NEW n \in Names, SetLateRpath(n) PROVE OutputTypes'
    BY <1>28 DEF SetLateRpath, walk, output
  <1>29. CASE Clean
    BY <1>29 DEF Clean, walk, output
  <1> QED BY <1>1, <1>2, <1>3, <1>4, <1>5, <1>6, <1>7, <1>8, <1>9, <1>10, <1>11, <1>12, <1>13,
    <1>14, <1>15, <1>16, <1>17, <1>18, <1>19, <1>20, <1>21, <1>22, <1>23, <1>24, <1>25, <1>26,
    <1>27, <1>28, <1>29 DEF Next, Step

LEMMA StepBegun ==
  ASSUME Begun, [Next]_vars PROVE Begun'
  <1> USE DEF Begun, Stopped, Nothing
  <1>1. CASE UNCHANGED vars
    BY <1>1 DEF vars, walk, files, output
  <1>2. CASE Refuse
    BY <1>2 DEF Refuse, Exit, walk, files, output
  <1>3. CASE MakeTree
    BY <1>3 DEF MakeTree, Goto, walk, output
  <1>4. CASE BadArch
    BY <1>4 DEF BadArch, Exit, walk, files, output
  <1>5. CASE GoodArch
    BY <1>5 DEF GoodArch, Goto, walk, files, output
  <1>6. CASE CopyPrograms
    BY <1>6 DEF CopyPrograms, Goto, output
  <1>7. CASE ListFails
    BY <1>7 DEF ListFails, Goto, files, output
  <1>8. CASE PrintList
    BY <1>8 DEF PrintList, Goto, walk, files, output
  <1>9. ASSUME NEW l \in Libs, CopyLib(l) PROVE Begun'
    BY <1>9 DEF CopyLib, walk, output
  <1>10. CASE CopyZstd
    BY <1>10 DEF CopyZstd, Copied, Goto, walk, output
  <1>11. CASE CopyExtras
    BY <1>11 DEF CopyExtras, Copied, Goto, walk, output
  <1>12. ASSUME NEW n \in Names, SetRpath(n) PROVE Begun'
    BY <1>12 DEF SetRpath, walk, output
  <1>13. CASE AddSysroot
    BY <1>13 DEF AddSysroot, Goto, walk, files, output
  <1>14. CASE Move
    BY <1>14 DEF Move, Goto, walk, output
  <1>15. CASE CopyWrappers
    BY <1>15 DEF CopyWrappers, Goto, walk, output
  <1>16. CASE AddRuntime
    BY <1>16 DEF AddRuntime, Goto, walk, files, output
  <1>17. CASE CopyLate
    BY <1>17 DEF CopyLate, Copied, Goto, walk, output
  <1>18. ASSUME NEW n \in Names, SetLateRpath(n) PROVE Begun'
    BY <1>18 DEF SetLateRpath, walk, output
  <1>19. CASE AddRest
    BY <1>19 DEF AddRest, Goto, walk, files, output
  <1>20. CASE Tar
    BY <1>20 DEF Tar, Packed, Goto, walk, files
  <1>21. CASE Fill
    BY <1>21 DEF Fill, Packed, Goto, walk, files
  <1>22. CASE OpenScript
    BY <1>22 DEF OpenScript, Goto, walk, files
  <1>23. CASE CatDone
    BY <1>23 DEF CatDone, Goto, walk, files
  <1>24. CASE Chmod
    BY <1>24 DEF Chmod, Exit, walk, files
  <1>25. CASE Stop
    BY <1>25 DEF Stop, Exit, walk, files, output
  <1>26. CASE Clean
    BY <1>26 DEF Clean, walk, output
  <1>27. ASSUME NEW p \in Programs, NextArg(p) PROVE Begun'
    BY <1>27 DEF NextArg, files, output
  <1>28. ASSUME NEW l \in Libs, Visit(l) PROVE Begun'
    BY <1>28 DEF Visit, files, output
  <1>29. CASE ArgDone
    BY <1>29 DEF ArgDone, files, output
  <1> QED BY <1>1, <1>2, <1>3, <1>4, <1>5, <1>6, <1>7, <1>8, <1>9, <1>10, <1>11, <1>12, <1>13,
    <1>14, <1>15, <1>16, <1>17, <1>18, <1>19, <1>20, <1>21, <1>22, <1>23, <1>24, <1>25, <1>26,
    <1>27, <1>28, <1>29 DEF Next, Step

LEMMA StepWalked ==
  ASSUME LibTypes, Walked, [Next]_vars PROVE Walked'
  <1> USE Constants
  <1> USE DEF LibTypes, Walked
  <1>1. CASE UNCHANGED vars
    BY <1>1 DEF vars, walk, files, output
  <1>2. CASE Refuse
    BY <1>2 DEF Refuse, Exit, walk, files, output
  <1>3. CASE MakeTree
    BY <1>3 DEF MakeTree, Goto, walk, output
  <1>4. CASE BadArch
    BY <1>4 DEF BadArch, Exit, walk, files, output
  <1>5. CASE GoodArch
    BY <1>5 DEF GoodArch, Goto, walk, files, output
  <1>6. CASE CopyPrograms
    BY <1>6 DEF CopyPrograms, Goto, output
  <1>7. CASE ListFails
    BY <1>7 DEF ListFails, Goto, files, output
  <1>8. ASSUME NEW p \in Programs, NextArg(p) PROVE Walked'
    BY <1>8 DEF NextArg, files, output
  <1>9. ASSUME NEW l \in Libs, Visit(l) PROVE Walked'
    BY <1>9 DEF Visit, files, output
  <1>10. CASE ArgDone
    BY <1>10 DEF ArgDone, files, output
  <1>11. CASE PrintList
    BY <1>11 DEF PrintList, Goto, walk, files, output
  <1>12. CASE CopyZstd
    BY <1>12 DEF CopyZstd, Copied, Goto, walk, output
  <1>13. CASE CopyExtras
    BY <1>13 DEF CopyExtras, Copied, Goto, walk, output
  <1>14. CASE AddSysroot
    BY <1>14 DEF AddSysroot, Goto, walk, files, output
  <1>15. CASE Move
    BY <1>15 DEF Move, Goto, walk, output
  <1>16. CASE CopyWrappers
    BY <1>16 DEF CopyWrappers, Goto, walk, output
  <1>17. CASE AddRuntime
    BY <1>17 DEF AddRuntime, Goto, walk, files, output
  <1>18. CASE CopyLate
    BY <1>18 DEF CopyLate, Copied, Goto, walk, output
  <1>19. CASE AddRest
    BY <1>19 DEF AddRest, Goto, walk, files, output
  <1>20. CASE Tar
    BY <1>20 DEF Tar, Packed, Goto, walk, files
  <1>21. CASE Fill
    BY <1>21 DEF Fill, Packed, Goto, walk, files
  <1>22. CASE OpenScript
    BY <1>22 DEF OpenScript, Goto, walk, files
  <1>23. CASE CatDone
    BY <1>23 DEF CatDone, Goto, walk, files
  <1>24. CASE Chmod
    BY <1>24 DEF Chmod, Exit, walk, files
  <1>25. CASE Stop
    BY <1>25 DEF Stop, Exit, walk, files, output
  <1>26. ASSUME NEW l \in Libs, CopyLib(l) PROVE Walked'
    BY <1>26 DEF CopyLib, walk, output
  <1>27. ASSUME NEW n \in Names, SetRpath(n) PROVE Walked'
    BY <1>27 DEF SetRpath, walk, output
  <1>28. ASSUME NEW n \in Names, SetLateRpath(n) PROVE Walked'
    BY <1>28 DEF SetLateRpath, walk, output
  <1>29. CASE Clean
    BY <1>29 DEF Clean, walk, output
  <1> QED BY <1>1, <1>2, <1>3, <1>4, <1>5, <1>6, <1>7, <1>8, <1>9, <1>10, <1>11, <1>12, <1>13,
    <1>14, <1>15, <1>16, <1>17, <1>18, <1>19, <1>20, <1>21, <1>22, <1>23, <1>24, <1>25, <1>26,
    <1>27, <1>28, <1>29 DEF Next, Step

LEMMA StepListed ==
  ASSUME LibTypes, Walked, Listed, [Next]_vars PROVE Listed'
  <1> USE Constants
  <1> USE DEF Walked, Listed, Built, Stopped
  <1>1. CASE UNCHANGED vars
    BY <1>1 DEF vars, walk, files, output
  <1>2. CASE Refuse
    BY <1>2 DEF Refuse, Exit, walk, files, output
  <1>3. CASE MakeTree
    BY <1>3 DEF MakeTree, Goto, walk, output
  <1>4. CASE BadArch
    BY <1>4 DEF BadArch, Exit, walk, files, output
  <1>5. CASE GoodArch
    BY <1>5 DEF GoodArch, Goto, walk, files, output
  <1>6. CASE CopyPrograms
    BY <1>6 DEF CopyPrograms, Goto, output
  <1>7. CASE ListFails
    BY <1>7 DEF ListFails, Goto, files, output
  <1>8. ASSUME NEW p \in Programs, NextArg(p) PROVE Listed'
    BY <1>8 DEF NextArg, files, output
  <1>9. ASSUME NEW l \in Libs, Visit(l) PROVE Listed'
    BY <1>9 DEF Visit, files, output
  <1>10. CASE ArgDone
    BY <1>10 DEF ArgDone, files, output
  <1>11. CASE PrintList
    <2>1. uniq \subseteq Libs
      BY <1>11, NoLib \notin Programs \cup Libs DEF PrintList, LibTypes
    <2>2. unread = {} /\ args = {} /\ uniq' = uniq
      BY <1>11 DEF PrintList, walk
    <2> QED BY <1>11, <2>1, <2>2 DEF PrintList
  <1>12. CASE CopyZstd
    BY <1>12 DEF CopyZstd, Copied, Goto, walk, output
  <1>13. CASE CopyExtras
    BY <1>13 DEF CopyExtras, Copied, Goto, walk, output
  <1>14. CASE AddSysroot
    BY <1>14 DEF AddSysroot, Goto, walk, files, output
  <1>15. CASE Move
    BY <1>15 DEF Move, Goto, walk, output
  <1>16. CASE CopyWrappers
    BY <1>16 DEF CopyWrappers, Goto, walk, output
  <1>17. CASE AddRuntime
    BY <1>17 DEF AddRuntime, Goto, walk, files, output
  <1>18. CASE CopyLate
    BY <1>18 DEF CopyLate, Copied, Goto, walk, output
  <1>19. CASE AddRest
    BY <1>19 DEF AddRest, Goto, walk, files, output
  <1>20. CASE Tar
    BY <1>20 DEF Tar, Packed, Goto, walk, files
  <1>21. CASE Fill
    BY <1>21 DEF Fill, Packed, Goto, walk, files
  <1>22. CASE OpenScript
    BY <1>22 DEF OpenScript, Goto, walk, files
  <1>23. CASE CatDone
    BY <1>23 DEF CatDone, Goto, walk, files
  <1>24. CASE Chmod
    BY <1>24 DEF Chmod, Exit, walk, files
  <1>25. CASE Stop
    BY <1>25 DEF Stop, Exit, walk, files, output
  <1>26. ASSUME NEW l \in Libs, CopyLib(l) PROVE Listed'
    BY <1>26 DEF CopyLib, walk, output
  <1>27. ASSUME NEW n \in Names, SetRpath(n) PROVE Listed'
    BY <1>27 DEF SetRpath, walk, output
  <1>28. ASSUME NEW n \in Names, SetLateRpath(n) PROVE Listed'
    BY <1>28 DEF SetLateRpath, walk, output
  <1>29. CASE Clean
    BY <1>29 DEF Clean, walk, output
  <1> QED BY <1>1, <1>2, <1>3, <1>4, <1>5, <1>6, <1>7, <1>8, <1>9, <1>10, <1>11, <1>12, <1>13,
    <1>14, <1>15, <1>16, <1>17, <1>18, <1>19, <1>20, <1>21, <1>22, <1>23, <1>24, <1>25, <1>26,
    <1>27, <1>28, <1>29 DEF Next, Step

LEMMA StepGathered ==
  ASSUME LibTypes, Begun, Listed, Gathered, [Next]_vars PROVE Gathered'
  <1> USE Constants
  <1> USE DEF LibTypes, Begun, Listed, Gathered, Built, Stopped, Nothing
  <1>1. CASE UNCHANGED vars
    BY <1>1 DEF vars, walk, files, output
  <1>2. CASE Refuse
    BY <1>2 DEF Refuse, Exit, walk, files, output
  <1>3. CASE MakeTree
    BY <1>3 DEF MakeTree, Goto, walk, output
  <1>4. CASE BadArch
    BY <1>4 DEF BadArch, Exit, walk, files, output
  <1>5. CASE GoodArch
    BY <1>5 DEF GoodArch, Goto, walk, files, output
  <1>6. CASE CopyPrograms
    BY <1>6 DEF CopyPrograms, Goto, output
  <1>7. CASE ListFails
    BY <1>7 DEF ListFails, Goto, files, output
  <1>8. ASSUME NEW p \in Programs, NextArg(p) PROVE Gathered'
    BY <1>8 DEF NextArg, files, output
  <1>9. ASSUME NEW l \in Libs, Visit(l) PROVE Gathered'
    BY <1>9 DEF Visit, files, output
  <1>10. CASE ArgDone
    BY <1>10 DEF ArgDone, files, output
  <1>11. CASE PrintList
    BY <1>11 DEF PrintList, Goto, walk, files, output
  <1>12. ASSUME NEW l \in Libs, CopyLib(l) PROVE Gathered'
    BY <1>12 DEF CopyLib, walk, output
  <1>13. CASE CopyZstd
    BY <1>13 DEF CopyZstd, Copied, Goto, walk, output
  <1>14. CASE CopyExtras
    BY <1>14 DEF CopyExtras, Copied, Goto, walk, output
  <1>15. ASSUME NEW n \in Names, SetRpath(n) PROVE Gathered'
    BY <1>15 DEF SetRpath, walk, output
  <1>16. CASE AddSysroot
    BY <1>16 DEF AddSysroot, Goto, walk, files, output
  <1>17. CASE Move
    BY <1>17 DEF Move, Goto, walk, output
  <1>18. CASE CopyWrappers
    BY <1>18 DEF CopyWrappers, Goto, walk, output
  <1>19. CASE AddRuntime
    BY <1>19 DEF AddRuntime, Goto, walk, files, output
  <1>20. CASE CopyLate
    BY <1>20 DEF CopyLate, Copied, Goto, walk, output
  <1>21. ASSUME NEW n \in Names, SetLateRpath(n) PROVE Gathered'
    BY <1>21 DEF SetLateRpath, walk, output
  <1>22. CASE AddRest
    BY <1>22 DEF AddRest, Goto, walk, files, output
  <1>23. CASE Tar
    BY <1>23 DEF Tar, Packed, Goto, walk, files
  <1>24. CASE Fill
    BY <1>24 DEF Fill, Packed, Goto, walk, files
  <1>25. CASE OpenScript
    BY <1>25 DEF OpenScript, Goto, walk, files
  <1>26. CASE CatDone
    BY <1>26 DEF CatDone, Goto, walk, files
  <1>27. CASE Chmod
    BY <1>27 DEF Chmod, Exit, walk, files
  <1>28. CASE Stop
    BY <1>28 DEF Stop, Exit, walk, files, output
  <1>29. CASE Clean
    BY <1>29 DEF Clean, walk, output
  <1> QED BY <1>1, <1>2, <1>3, <1>4, <1>5, <1>6, <1>7, <1>8, <1>9, <1>10, <1>11, <1>12, <1>13,
    <1>14, <1>15, <1>16, <1>17, <1>18, <1>19, <1>20, <1>21, <1>22, <1>23, <1>24, <1>25, <1>26,
    <1>27, <1>28, <1>29 DEF Next, Step

LEMMA StepTheirZstd ==
  ASSUME LibTypes, TheirZstd, [Next]_vars PROVE TheirZstd'
  <1> USE Constants
  <1> USE DEF LibTypes, TheirZstd, Built, Stopped
  <1>1. CASE UNCHANGED vars
    BY <1>1 DEF vars, walk, files, output
  <1>2. CASE Refuse
    BY <1>2 DEF Refuse, Exit, walk, files, output
  <1>3. CASE MakeTree
    BY <1>3 DEF MakeTree, Goto, walk, output
  <1>4. CASE BadArch
    BY <1>4 DEF BadArch, Exit, walk, files, output
  <1>5. CASE GoodArch
    BY <1>5 DEF GoodArch, Goto, walk, files, output
  <1>6. CASE CopyPrograms
    BY <1>6 DEF CopyPrograms, Goto, output
  <1>7. CASE ListFails
    BY <1>7 DEF ListFails, Goto, files, output
  <1>8. CASE PrintList
    BY <1>8 DEF PrintList, Goto, walk, files, output
  <1>9. ASSUME NEW l \in Libs, CopyLib(l) PROVE TheirZstd'
    BY <1>9 DEF CopyLib, walk, output
  <1>10. CASE CopyZstd
    BY <1>10 DEF CopyZstd, Copied, Goto, walk, output
  <1>11. CASE CopyExtras
    BY <1>11 DEF CopyExtras, Copied, Goto, walk, output
  <1>12. CASE AddSysroot
    BY <1>12 DEF AddSysroot, Goto, walk, files, output
  <1>13. CASE Move
    BY <1>13 DEF Move, Goto, walk, output
  <1>14. CASE CopyWrappers
    BY <1>14 DEF CopyWrappers, Goto, walk, output
  <1>15. CASE AddRuntime
    BY <1>15 DEF AddRuntime, Goto, walk, files, output
  <1>16. CASE CopyLate
    BY <1>16 DEF CopyLate, Copied, Goto, walk, output
  <1>17. CASE AddRest
    BY <1>17 DEF AddRest, Goto, walk, files, output
  <1>18. CASE Tar
    BY <1>18 DEF Tar, Packed, Goto, walk, files
  <1>19. CASE Fill
    BY <1>19 DEF Fill, Packed, Goto, walk, files
  <1>20. CASE OpenScript
    BY <1>20 DEF OpenScript, Goto, walk, files
  <1>21. CASE CatDone
    BY <1>21 DEF CatDone, Goto, walk, files
  <1>22. CASE Chmod
    BY <1>22 DEF Chmod, Exit, walk, files
  <1>23. CASE Stop
    BY <1>23 DEF Stop, Exit, walk, files, output
  <1>24. CASE Clean
    BY <1>24 DEF Clean, walk, output
  <1>25. ASSUME NEW p \in Programs, NextArg(p) PROVE TheirZstd'
    BY <1>25 DEF NextArg, files, output
  <1>26. ASSUME NEW l \in Libs, Visit(l) PROVE TheirZstd'
    BY <1>26 DEF Visit, files, output
  <1>27. CASE ArgDone
    BY <1>27 DEF ArgDone, files, output
  <1>28. ASSUME NEW n \in Names, SetRpath(n) PROVE TheirZstd'
    BY <1>28 DEF SetRpath, walk, output
  <1>29. ASSUME NEW n \in Names, SetLateRpath(n) PROVE TheirZstd'
    BY <1>29 DEF SetLateRpath, walk, output
  <1> QED BY <1>1, <1>2, <1>3, <1>4, <1>5, <1>6, <1>7, <1>8, <1>9, <1>10, <1>11, <1>12, <1>13,
    <1>14, <1>15, <1>16, <1>17, <1>18, <1>19, <1>20, <1>21, <1>22, <1>23, <1>24, <1>25, <1>26,
    <1>27, <1>28, <1>29 DEF Next, Step

LEMMA StepRpaths ==
  ASSUME LibTypes, Begun, Rpaths, [Next]_vars PROVE Rpaths'
  <1> USE Constants
  <1> USE DEF LibTypes, Begun, Rpaths, Stopped
  <1>1. CASE UNCHANGED vars
    BY <1>1 DEF vars, walk, files, output
  <1>2. CASE Refuse
    BY <1>2 DEF Refuse, Exit, walk, files, output
  <1>3. CASE MakeTree
    BY <1>3 DEF MakeTree, Goto, walk, output
  <1>4. CASE BadArch
    BY <1>4 DEF BadArch, Exit, walk, files, output
  <1>5. CASE GoodArch
    BY <1>5 DEF GoodArch, Goto, walk, files, output
  <1>6. CASE CopyPrograms
    BY <1>6 DEF CopyPrograms, Goto, output
  <1>7. CASE ListFails
    BY <1>7 DEF ListFails, Goto, files, output
  <1>8. CASE PrintList
    BY <1>8 DEF PrintList, Goto, walk, files, output
  <1>9. ASSUME NEW l \in Libs, CopyLib(l) PROVE Rpaths'
    BY <1>9 DEF CopyLib, walk, output
  <1>10. CASE CopyZstd
    BY <1>10 DEF CopyZstd, Copied, Goto, walk, output
  <1>11. CASE CopyExtras
    BY <1>11 DEF CopyExtras, Copied, Goto, walk, output
  <1>12. ASSUME NEW n \in Names, SetRpath(n) PROVE Rpaths'
    BY <1>12 DEF SetRpath, walk, output
  <1>13. CASE AddSysroot
    BY <1>13 DEF AddSysroot, Goto, walk, files, output
  <1>14. CASE Move
    BY <1>14 DEF Move, Goto, walk, output
  <1>15. CASE CopyWrappers
    BY <1>15 DEF CopyWrappers, Goto, walk, output
  <1>16. CASE AddRuntime
    BY <1>16 DEF AddRuntime, Goto, walk, files, output
  <1>17. CASE CopyLate
    BY <1>17 DEF CopyLate, Copied, Goto, walk, output
  <1>18. ASSUME NEW n \in Names, SetLateRpath(n) PROVE Rpaths'
    BY <1>18 DEF SetLateRpath, walk, output
  <1>19. CASE AddRest
    BY <1>19 DEF AddRest, Goto, walk, files, output
  <1>20. CASE Tar
    BY <1>20 DEF Tar, Packed, Goto, walk, files
  <1>21. CASE Fill
    BY <1>21 DEF Fill, Packed, Goto, walk, files
  <1>22. CASE OpenScript
    BY <1>22 DEF OpenScript, Goto, walk, files
  <1>23. CASE CatDone
    BY <1>23 DEF CatDone, Goto, walk, files
  <1>24. CASE Chmod
    BY <1>24 DEF Chmod, Exit, walk, files
  <1>25. CASE Stop
    BY <1>25 DEF Stop, Exit, walk, files, output
  <1>26. CASE Clean
    BY <1>26 DEF Clean, walk, output
  <1>27. ASSUME NEW p \in Programs, NextArg(p) PROVE Rpaths'
    BY <1>27 DEF NextArg, files, output
  <1>28. ASSUME NEW l \in Libs, Visit(l) PROVE Rpaths'
    BY <1>28 DEF Visit, files, output
  <1>29. CASE ArgDone
    BY <1>29 DEF ArgDone, files, output
  <1> QED BY <1>1, <1>2, <1>3, <1>4, <1>5, <1>6, <1>7, <1>8, <1>9, <1>10, <1>11, <1>12, <1>13,
    <1>14, <1>15, <1>16, <1>17, <1>18, <1>19, <1>20, <1>21, <1>22, <1>23, <1>24, <1>25, <1>26,
    <1>27, <1>28, <1>29 DEF Next, Step

LEMMA StepWrappers ==
  ASSUME BinTypes, Wrappers, [Next]_vars PROVE Wrappers'
  <1> USE FileNames
  <1> USE DEF BinTypes, Wrappers, Stopped, Renamed
  <1>1. CASE UNCHANGED vars
    BY <1>1 DEF vars, walk, files, output
  <1>2. CASE Refuse
    BY <1>2 DEF Refuse, Exit, walk, files, output
  <1>3. CASE MakeTree
    BY <1>3 DEF MakeTree, Goto, walk, output
  <1>4. CASE BadArch
    BY <1>4 DEF BadArch, Exit, walk, files, output
  <1>5. CASE GoodArch
    BY <1>5 DEF GoodArch, Goto, walk, files, output
  <1>6. CASE CopyPrograms
    BY <1>6 DEF CopyPrograms, Goto, output
  <1>7. CASE ListFails
    BY <1>7 DEF ListFails, Goto, files, output
  <1>8. CASE PrintList
    BY <1>8 DEF PrintList, Goto, walk, files, output
  <1>9. CASE CopyZstd
    BY <1>9 DEF CopyZstd, Copied, Goto, walk, output
  <1>10. CASE CopyExtras
    BY <1>10 DEF CopyExtras, Copied, Goto, walk, output
  <1>11. CASE AddSysroot
    BY <1>11 DEF AddSysroot, Goto, walk, files, output
  <1>12. CASE Move
    BY <1>12 DEF Move, Goto, walk, output
  <1>13. CASE CopyWrappers
    BY <1>13 DEF CopyWrappers, Goto, walk, output
  <1>14. CASE AddRuntime
    BY <1>14 DEF AddRuntime, Goto, walk, files, output
  <1>15. CASE CopyLate
    BY <1>15 DEF CopyLate, Copied, Goto, walk, output
  <1>16. CASE AddRest
    BY <1>16 DEF AddRest, Goto, walk, files, output
  <1>17. CASE Tar
    BY <1>17 DEF Tar, Packed, Goto, walk, files
  <1>18. CASE Fill
    BY <1>18 DEF Fill, Packed, Goto, walk, files
  <1>19. CASE OpenScript
    BY <1>19 DEF OpenScript, Goto, walk, files
  <1>20. CASE CatDone
    BY <1>20 DEF CatDone, Goto, walk, files
  <1>21. CASE Chmod
    BY <1>21 DEF Chmod, Exit, walk, files
  <1>22. CASE Stop
    BY <1>22 DEF Stop, Exit, walk, files, output
  <1>23. CASE Clean
    BY <1>23 DEF Clean, walk, output
  <1>24. ASSUME NEW p \in Programs, NextArg(p) PROVE Wrappers'
    BY <1>24 DEF NextArg, files, output
  <1>25. ASSUME NEW l \in Libs, Visit(l) PROVE Wrappers'
    BY <1>25 DEF Visit, files, output
  <1>26. CASE ArgDone
    BY <1>26 DEF ArgDone, files, output
  <1>27. ASSUME NEW l \in Libs, CopyLib(l) PROVE Wrappers'
    BY <1>27 DEF CopyLib, walk, output
  <1>28. ASSUME NEW n \in Names, SetRpath(n) PROVE Wrappers'
    BY <1>28 DEF SetRpath, walk, output
  <1>29. ASSUME NEW n \in Names, SetLateRpath(n) PROVE Wrappers'
    BY <1>29 DEF SetLateRpath, walk, output
  <1> QED BY <1>1, <1>2, <1>3, <1>4, <1>5, <1>6, <1>7, <1>8, <1>9, <1>10, <1>11, <1>12, <1>13,
    <1>14, <1>15, <1>16, <1>17, <1>18, <1>19, <1>20, <1>21, <1>22, <1>23, <1>24, <1>25, <1>26,
    <1>27, <1>28, <1>29 DEF Next, Step

LEMMA StepShipped ==
  ASSUME LibTypes, OutputTypes, Listed, Gathered, TheirZstd, Rpaths, Wrappers, Shipped, [Next]_vars PROVE Shipped'
  <1> USE Constants
  <1> USE DEF Shipped, Delivered, Stopped
  <1>1. CASE UNCHANGED vars
    BY <1>1 DEF vars, walk, files, output
  <1>2. CASE Refuse
    BY <1>2 DEF Refuse, Exit, walk, files, output
  <1>3. CASE MakeTree
    BY <1>3 DEF MakeTree, Goto, walk, output
  <1>4. CASE BadArch
    BY <1>4 DEF BadArch, Exit, walk, files, output
  <1>5. CASE GoodArch
    BY <1>5 DEF GoodArch, Goto, walk, files, output
  <1>6. CASE CopyPrograms
    BY <1>6 DEF CopyPrograms, Goto, output
  <1>7. CASE ListFails
    BY <1>7 DEF ListFails, Goto, files, output
  <1>8. CASE PrintList
    BY <1>8 DEF PrintList, Goto, walk, files, output
  <1>9. CASE CopyZstd
    BY <1>9 DEF CopyZstd, Copied, Goto, walk, output
  <1>10. CASE CopyExtras
    BY <1>10 DEF CopyExtras, Copied, Goto, walk, output
  <1>11. CASE AddSysroot
    BY <1>11 DEF AddSysroot, Goto, walk, files, output
  <1>12. CASE Move
    BY <1>12 DEF Move, Goto, walk, output
  <1>13. CASE CopyWrappers
    BY <1>13 DEF CopyWrappers, Goto, walk, output
  <1>14. CASE AddRuntime
    BY <1>14 DEF AddRuntime, Goto, walk, files, output
  <1>15. CASE CopyLate
    BY <1>15 DEF CopyLate, Copied, Goto, walk, output
  <1>16. CASE AddRest
    BY <1>16 DEF AddRest, Goto, walk, files, output
  <1>17. CASE Tar
    BY <1>17 DEF Tar, Packed, Goto, walk, files
  <1>18. CASE Fill
    <2>1. ClosedIn(Packed(TRUE))
      BY <1>18 DEF Fill, Listed, Gathered, Built, ClosedIn, Finds, Packed, LibTypes
    <2>2. RightIn(Packed(TRUE))
      BY <1>18 DEF Fill, TheirZstd, Rpaths, Built, RightIn, Present, Packed
    <2>3. BehindIn(Packed(TRUE))
      BY <1>18, CalledPlaced DEF Fill, Wrappers, BehindIn, Packed
    <2>4. Packed(TRUE).whole /\ Packed(TRUE).run = runs
      BY DEF Packed
    <2> QED BY <1>18, <2>1, <2>2, <2>3, <2>4 DEF Fill, Goto, Good, walk, files
  <1>19. CASE OpenScript
    BY <1>19 DEF OpenScript, Goto, walk, files
  <1>20. CASE CatDone
    <2>1. /\ script'.lost = tgz.lost /\ script'.lib = tgz.lib /\ script'.rpath = tgz.rpath
          /\ script'.bin = tgz.bin
          /\ script'.run = tgz.run /\ script'.whole = tgz.whole /\ script'.filled = filled
      BY <1>20 DEF CatDone, OutputTypes, Archives
    <2>2. Good(tgz) => Good(script')
      BY <2>1 DEF Good, ClosedIn, Finds, RightIn, Present, BehindIn
    <2> QED BY <1>20, <2>1, <2>2 DEF CatDone, Goto, walk, files
  <1>21. CASE Chmod
    BY <1>21 DEF Chmod, Exit, walk, files
  <1>22. CASE Stop
    BY <1>22 DEF Stop, Exit, walk, files, output
  <1>23. ASSUME NEW p \in Programs, NextArg(p) PROVE Shipped'
    BY <1>23 DEF NextArg, files, output
  <1>24. ASSUME NEW l \in Libs, Visit(l) PROVE Shipped'
    BY <1>24 DEF Visit, files, output
  <1>25. CASE ArgDone
    BY <1>25 DEF ArgDone, files, output
  <1>26. ASSUME NEW l \in Libs, CopyLib(l) PROVE Shipped'
    BY <1>26 DEF CopyLib, walk, output
  <1>27. ASSUME NEW n \in Names, SetRpath(n) PROVE Shipped'
    BY <1>27 DEF SetRpath, walk, output
  <1>28. ASSUME NEW n \in Names, SetLateRpath(n) PROVE Shipped'
    BY <1>28 DEF SetLateRpath, walk, output
  <1>29. CASE Clean
    BY <1>29 DEF Clean, walk, output
  <1> QED BY <1>1, <1>2, <1>3, <1>4, <1>5, <1>6, <1>7, <1>8, <1>9, <1>10, <1>11, <1>12, <1>13,
    <1>14, <1>15, <1>16, <1>17, <1>18, <1>19, <1>20, <1>21, <1>22, <1>23, <1>24, <1>25, <1>26,
    <1>27, <1>28, <1>29 DEF Next, Step

LEMMA NextInv == Inv /\ [Next]_vars => Inv'
  BY StepRunTypes, StepFlagTypes, StepBinTypes, StepLibTypes, StepOutputTypes, StepBegun, StepWalked,
     StepListed, StepGathered, StepTheirZstd, StepRpaths, StepWrappers, StepShipped DEF Inv

\* Type correctness of the generator.
THEOREM GenerateTypes == Spec => []TypeOK
  <1>1. Inv => TypeOK
    BY DEF Inv, RunTypes, FlagTypes, BinTypes, LibTypes, OutputTypes, TypeOK
  <1> QED BY InitInv, NextInv, <1>1, PTL DEF Spec

\* What ldd-recursive.pl lists is closed, and copying it by the last component
\* of its paths keeps it so, for any programs, libraries and dependencies.  Nothing
\* is said of a script for which it failed, nor of what the libraries copied by
\* name (Extras, Late) need.
THEOREM ScriptClosed == Spec => []Closed
  <1>1. Inv => Closed
    BY DEF Inv, Shipped, Good, Closed
  <1> QED BY InitInv, NextInv, <1>1, PTL DEF Spec

\* The libzstd.so.1 of the prefix wins, and no rpath is forgotten.
THEOREM LibsRight == Spec => []RightLibs
  <1>1. Inv => RightLibs
    BY DEF Inv, Shipped, Good, RightLibs
  <1> QED BY InitInv, NextInv, <1>1, PTL DEF Spec

\* The wrappers are there and behind each the programs it calls, but for the
\* ldb-python3 of flamegraph, which nothing makes.
THEOREM ProgramsBehind == Spec => []Behind
  <1>1. Inv => Behind
    BY DEF Inv, Shipped, Good, Behind
  <1> QED BY InitInv, NextInv, <1>1, PTL DEF Spec

\* The script of a run that ends with 0 is whole and its own.
THEOREM WholeWhenDone == Spec => []Delivered
  <1>1. Inv => Delivered
    BY DEF Inv, Shipped
  <1> QED BY InitInv, NextInv, <1>1, PTL DEF Spec
=============================================================================
