------------------------------ MODULE MCLibrary ------------------------------
(* The functions of the library that call none of the others, each of them with     *)
(* arguments of its own: one is under way, and the others are not called.           *)
EXTENDS Libm, Memcpy, Glob, Descriptors, Calls, FileActions, Spawn

\* Arguments of the mathematical functions: both sides of every threshold.
Width(n) == CHOOSE e \in 0 .. 30 : 2 ^ e <= n /\ n < 2 ^ (e + 1)
Zeros(n) == CHOOSE z \in 0 .. 30 : n % 2 ^ z = 0 /\ n % 2 ^ (z + 1) # 0
Whole(f, n) == LET e == Width(n) IN Finite(0, e, (n - 2 ^ e) * 2 ^ (f.kept - e), Zeros(n))
Times(v, t) == [v EXCEPT !.exp = @ + t, !.low = @ + t]
Up(f, v) == [v EXCEPT !.low = v.exp - f.m, !.frac = IF f.m = f.kept THEN @ + 1 ELSE @]
Down(f, e) == Finite(0, e - 1, 2 ^ f.kept - 1, e - 1 - f.m)
Minus(v) == [v EXCEPT !.sign = 1]
Signed(vs) == vs \cup {Minus(v) : v \in vs}

Edges(f) ==
    {NotFinite(c, 0) : c \in {"zero", "inf"}}
    \cup {PowerOf2(0, 1 - f.bias - f.m), PowerOf2(0, 0 - f.bias), PowerOf2(0, 1 - f.bias),
          Finite(0, 0 - f.bias, 2 ^ f.kept - 1, 1 - f.bias - f.m), Down(f, f.bias + 1), PowerOf2(0, f.bias)}
Ones(f) == {Whole(f, 1), Up(f, Whole(f, 1)), Down(f, 0), Times(Whole(f, 3), -1), Times(Whole(f, 3), -2),
            PowerOf2(0, -1), Finite(0, -1, 2 ^ (f.kept - 2), -3)}
Integers_(f) == {Whole(f, n) : n \in {2, 3, 4, 7, 10}}
\* The last odd numbers, halves beside them, and beyond.
Larges(f) == UNION {{PowerOf2(0, e), Finite(0, e, 1, e - f.m), Finite(0, e, 1, e - f.m + 1)}
                    : e \in {f.m - 1, f.m, f.m + 1, 63, 64}}
Tiny == {PowerOf2(0, e) : e \in {-64, -65, -66, -54, -55, -32}}
Bases(f) == Signed(Edges(f) \cup Ones(f) \cup Integers_(f) \cup {PowerOf2(0, 40), PowerOf2(0, 0 - f.bias \div 2)}) \cup {NotFinite("nan", 0)}
Powers(f, ns) == Signed(Edges(f) \cup Ones(f) \cup Integers_(f) \cup Larges(f) \cup Tiny
                        \cup {Whole(f, n) : n \in ns} \cup {Times(Whole(f, 2 * n + 1), -1) : n \in ns})
                 \cup {NotFinite("nan", 0)}

Near(f, ns) == UNION {{Whole(f, n), Up(f, Whole(f, n)), Times(Whole(f, 2 * n + 1), -1)} : n \in ns}
Exponents(f, ns) == Signed(Edges(f) \cup Ones(f) \cup Near(f, ns) \cup Tiny) \cup {NotFinite("nan", 0)}
Logs(f, words) == Bases(f) \cup {Finite(0, 0, w, -10) : w \in {2 ^ (f.kept - 10)}}
                  \cup {Finite(0, (w \div 2 ^ f.kept) - f.bias, w % 2 ^ f.kept, (w \div 2 ^ f.kept) - f.bias - f.m) : w \in words}

Gammas(f) ==
    Signed(Edges(f) \cup {Whole(f, n) : n \in {1, 2, 3, 7, 8, 9}} \cup {Up(f, Whole(f, n)) : n \in {1, 2, 3}}
           \cup {Down(f, 1), PowerOf2(0, f.bias - 15), PowerOf2(0, f.bias - 9), PowerOf2(0, f.bias - 8)}
           \cup {Finite(0, Width(n) - 8, ((n - 2 ^ Width(n)) * 2 ^ (f.kept - Width(n))) , Zeros(n) - 8) : n \in {1, 59, 60, 187, 188, 230, 231, 300, 315, 316, 443, 444, 511, 600, 1000, 1800, 2100, 2400}}
           \cup {PowerOf2(0, e) : e \in {-71, -70, -69, -63, -64, 58, 59, 66, 67}})
    \cup {NotFinite("nan", 0)}

One_(fn, xs) == {[fn |-> fn, x |-> x, y |-> 0] : x \in xs}
Two(fn, xs, ys) == {[fn |-> fn, x |-> x, y |-> y] : x \in xs, y \in ys}

MCMathCalls ==
    Two("pow", Bases(DOUBLE), Powers(DOUBLE, {1023, 1024, 1074, 1075}))
    \cup Two("powf", Bases(FLOAT), Powers(FLOAT, {127, 128, 149, 150}))
    \cup Two("powl", Bases(EXTENDED) , Powers(EXTENDED, {1023, 16383, 16384}))
    \cup One_("exp", Exponents(DOUBLE, {511, 512, 709, 710, 744, 746, 1024}))
    \cup One_("exp2", Exponents(DOUBLE, {512, 928, 929, 1022, 1023, 1024, 1074, 1075, 1076}))
    \cup One_("expf", Exponents(FLOAT, {1, 87, 88, 89, 103, 104, 128}))
    \cup One_("exp2f", Exponents(FLOAT, {126, 127, 128, 149, 150, 151}))
    \cup One_("log", Logs(DOUBLE, {1072562175, 1072562176, 1072761087, 1072761088}))
    \cup One_("log2", Logs(DOUBLE, {1072604847, 1072604848, 1072739672, 1072739673}))
    \cup One_("logf", Logs(FLOAT, {1060306943, 1060306944}))
    \cup One_("log2f", Logs(FLOAT, {1060306943, 1060306944}))
    \cup Two("scalbnf", Bases(FLOAT), {-600, -400, -253, -252, -127, -126, -1, 0, 127, 128, 254, 255, 381, 600})
    \cup One_("lgamma_r", Gammas(DOUBLE))
    \cup One_("lgammal_r", Gammas(EXTENDED))

-----------------------------------------------------------------------------

\* Two of the large blocks and all remainders.
MCSizes == 0 .. 300
MCAlignments == 0 .. 15

Dir(es) == [kind |-> "dir", readable |-> TRUE, list |-> es]
Closed == [kind |-> "dir", readable |-> FALSE, list |-> <<>>]
Plain == [kind |-> "file", readable |-> TRUE, list |-> <<>>]
E(n, t) == [name |-> n, type |-> t]

\* 1 and 2 are directories, 3 is a file, 4 a link to a directory, 5 one to nothing; <<1, 2>>
\* cannot be read, and some file systems tell no types.
TreeA ==
    (<<>> :> Dir(<<E(2, "dir"), E(0, "dir"), E(3, "file"), E(1, "unknown"), E(4, "link"), E(5, "link")>>))
    @@ (<<1>> :> Dir(<<E(3, "file"), E(2, "unknown")>>)) @@ (<<1, 3>> :> Plain) @@ (<<1, 2>> :> Closed)
    @@ (<<2>> :> Dir(<<E(1, "dir")>>)) @@ (<<2, 1>> :> Dir(<<>>)) @@ (<<3>> :> Plain)
    @@ (<<4>> :> Dir(<<E(3, "file")>>)) @@ (<<4, 3>> :> Plain)
TreeB ==
    (<<>> :> Dir(<<E(2, "unknown"), E(1, "dir"), E(3, "link")>>)) @@ (<<1>> :> Closed) @@ (<<2>> :> Plain)
    @@ (<<3>> :> Dir(<<E(1, "file"), E(2, "dir")>>)) @@ (<<3, 1>> :> Plain) @@ (<<3, 2>> :> Dir(<<>>))

Is(n) == [accepts |-> {n}, period |-> {n}]
Star == [accepts |-> 1 .. 6, period |-> 1 .. 6]
DotStar == [accepts |-> 0 .. 6, period |-> 1 .. 6]
Patterns == {<<>>, <<Slash>>, <<Star>>, <<Star, Star>>, <<Star, Slash>>, <<Is(1), Star>>, <<Is(6)>>,
             <<Star, Is(3)>>, <<Is(0), Is(3)>>}
Flags == {{}, {"MARK"}, {"ERR"}, {"MARK", "NOSORT"}, {"NOCHECK", "ERR"}, {"NOCHECK"}, {"DOOFFS"}}

Call(t, p, f, s) == [tree |-> t, pattern |-> p, flags |-> f, strict |-> s, long |-> FALSE]
Long(c) == [c EXCEPT !.long = TRUE]
MCGlobCalls ==
    {<<Call(t, p, f, s)>> : t \in {TreeA, TreeB}, p \in Patterns, f \in Flags, s \in BOOLEAN}
    \cup {<<Call(t, <<DotStar, Star>>, {"PERIOD"}, FALSE)>> : t \in {TreeA, TreeB}}
    \cup {<<Call(TreeA, p, f, FALSE), Call(TreeA, q, f \cup {"APPEND"}, s)>> :
            p \in {<<Star, Is(3)>>, <<Is(6)>>}, q \in {<<Star>>, <<Star, Slash>>},
            f \in {{"DOOFFS"}, {"NOCHECK", "MARK"}}, s \in BOOLEAN}
    \cup {<<Call(TreeA, <<Star>>, f, FALSE), Long(Call(TreeA, <<Star>>, f \cup {"APPEND"}, FALSE)),
            Call(TreeA, <<Star>>, f \cup {"APPEND"}, FALSE)>> : f \in {{}, {"DOOFFS"}}}
    \cup {<<Long(Call(TreeA, <<Star>>, f, FALSE)), Call(TreeA, <<Star>>, f \cup {"APPEND"}, FALSE)>> :
            f \in {{}, {"DOOFFS"}, {"NOCHECK"}}}

-----------------------------------------------------------------------------

FlagSets == {{}, {"CLOEXEC"}, {"NONBLOCK"}, {"CLOEXEC", "NONBLOCK"}, {"CLOEXEC", "OTHER"}, {"OTHER"}}
FdCall(fn, f, o, n, a, l) == [fn |-> fn, flags |-> f, old |-> o, new |-> n, arg |-> a, listens |-> l]
MCFdCalls ==
    {FdCall("accept4", f, 0, 0, 0, l) : f \in FlagSets, l \in BOOLEAN}
    \cup {FdCall("dup3", f, o, n, 0, TRUE) : f \in FlagSets, o \in {0, 1, 3}, n \in {0, 1, 2, 4}}
    \cup {FdCall("fcntl64", {}, o, 0, a, TRUE) : o \in {0, 1, 3}, a \in {-1, 0, 2, 4}}
    \cup {FdCall("create", f, 0, 0, 0, TRUE) : f \in FlagSets}

Files == <<"first", "second", "third", "fourth">>
Table(fds) ==
    [fd \in Fds |-> IF fd \in fds THEN Descriptor(Files[fd + 1], IF fd = 1 THEN {"NONBLOCK"} ELSE {}, FALSE) ELSE Free]
MCTables == {Table(fds) : fds \in {{0}, {1}, {0, 1}, {0, 2}, {0, 1, 2}, {0, 1, 2, 3}}}

Outcomes_ == {"runs", "long", "EACCES", "ENOENT", "ENOTDIR", "E2BIG"}
MCSearches ==
    {[name |-> "plain", dirs |-> ds] : ds \in UNION {[1 .. n -> Outcomes_] : n \in 1 .. 3}}
    \cup {[name |-> "slash", dirs |-> <<o>>] : o \in Outcomes_ \ {"long"}}
    \cup {[name |-> n, dirs |-> <<>>] : n \in {"empty", "long"}}

MCTemplates ==
    {[length |-> l, suffix |-> x, xs |-> y] : l \in {6, 8}, x \in {-1, 0, 2, 3}, y \in BOOLEAN}
    \cup {[length |-> 5, suffix |-> 0, xs |-> FALSE]}

MCActionCalls ==
    {[cmd |-> "open", fd |-> 1, srcfd |-> 0], [cmd |-> "chdir", fd |-> -1, srcfd |-> 0],
     [cmd |-> "dup2", fd |-> 2, srcfd |-> 1], [cmd |-> "dup2", fd |-> 2, srcfd |-> -1],
     [cmd |-> "close", fd |-> -1, srcfd |-> 0]}

-----------------------------------------------------------------------------

VARIABLE part   \* which of them is called

NotMem == Idle(0, 0)
NotMath == MathInit
NotGlob ==
    /\ globStep = "over" /\ todo = <<>> /\ frames = <<>> /\ list = <<>> /\ heap = {}
    /\ gl = [offs |-> 0, pathc |-> 0, pathv |-> <<>>, array |-> FALSE]
    /\ globErrno = "none" /\ error = "none" /\ shortages = 0 /\ result = "none" /\ before = 0
NotFd == FdIdle(FdCall("accept4", {}, 0, 0, 0, TRUE), Table({}), TRUE)
NotExec == ExecIdle([name |-> "empty", dirs |-> <<>>])
NotTemp == TempIdle([c \in Callers |-> [length |-> 6, suffix |-> 0, xs |-> TRUE]], {})
NotEntropy == EntropyIdle(0)
NotActions == ActionsIdle
NotSpawn == SpawnInit /\ kernel = "pipe2"

Init ==
    /\ part \in {"memcpy", "libm", "glob", "fd", "exec", "temp", "entropy", "actions", "spawn"}
    /\ IF part = "memcpy" THEN MemInit ELSE NotMem
    /\ IF part = "glob" THEN GlobInit ELSE NotGlob
    /\ IF part = "fd" THEN FdInit ELSE NotFd
    /\ IF part = "exec" THEN ExecInit ELSE NotExec
    /\ IF part = "temp" THEN TempInit ELSE NotTemp
    /\ IF part = "entropy" THEN EntropyInit ELSE NotEntropy
    /\ IF part = "actions" THEN ActionsInit ELSE NotActions
    /\ IF part = "spawn" THEN SpawnInit ELSE NotSpawn
    /\ NotMath

\* What is called comes to its end; a call that waits for ever would be a deadlock.
Over ==
    /\ CASE part = "memcpy" -> label = "return"
         [] part = "libm" -> answered
         [] part = "glob" -> globStep = "over"
         [] part = "fd" -> fdStep = "return"
         [] part = "exec" -> at = 0
         [] part = "temp" -> \A c \in Callers : tempRet[c] # "none"
         [] part = "entropy" -> entropyRet # "none"
         [] part = "actions" -> destroyed /\ cursor = 0
         [] part = "spawn" -> \A c \in SpawnCalls : pc[c] = "done"
    /\ UNCHANGED <<memVars, mathVars, globVars, fdVars, execVars, tempVars, entropyVars, actionVars, spawnVars, part>>

Next ==
    \/ /\ part = "memcpy" /\ MemNext
       /\ UNCHANGED <<mathVars, globVars, fdVars, execVars, tempVars, entropyVars, actionVars, spawnVars, part>>
    \/ /\ part = "libm" /\ MathNext
       /\ UNCHANGED <<memVars, globVars, fdVars, execVars, tempVars, entropyVars, actionVars, spawnVars, part>>
    \/ /\ part = "glob" /\ GlobNext
       /\ UNCHANGED <<memVars, mathVars, fdVars, execVars, tempVars, entropyVars, actionVars, spawnVars, part>>
    \/ /\ part = "fd" /\ FdNext
       /\ UNCHANGED <<memVars, mathVars, globVars, execVars, tempVars, entropyVars, actionVars, spawnVars, part>>
    \/ /\ part = "exec" /\ ExecNext
       /\ UNCHANGED <<memVars, mathVars, globVars, fdVars, tempVars, entropyVars, actionVars, spawnVars, part>>
    \/ /\ part = "temp" /\ TempNext
       /\ UNCHANGED <<memVars, mathVars, globVars, fdVars, execVars, entropyVars, actionVars, spawnVars, part>>
    \/ /\ part = "entropy" /\ EntropyNext
       /\ UNCHANGED <<memVars, mathVars, globVars, fdVars, execVars, tempVars, actionVars, spawnVars, part>>
    \/ /\ part = "actions" /\ ActionsNext
       /\ UNCHANGED <<memVars, mathVars, globVars, fdVars, execVars, tempVars, entropyVars, spawnVars, part>>
    \/ /\ part = "spawn" /\ SpawnNext
       /\ UNCHANGED <<memVars, mathVars, globVars, fdVars, execVars, tempVars, entropyVars, actionVars, part>>
    \/ Over

vars == <<memVars, mathVars, globVars, fdVars, execVars, tempVars, entropyVars, actionVars, spawnVars, part>>

\* The fairness is that of Spawn.
Spec == Init /\ [][Next]_vars /\ \A c \in SpawnCalls : WF_spawnVars(SpawnStep(c))

=============================================================================
