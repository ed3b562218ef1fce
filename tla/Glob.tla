-------------------------------- MODULE Glob --------------------------------
(***************************************************************************)
(* glob and globfree (musl/glob.c): a pattern is matched component by      *)
(* component, in the directories the components before it matched; what    *)
(* is found is a list of allocated blocks, then an array of them that      *)
(* later calls with GLOB_APPEND extend.                                    *)
(*                                                                         *)
(* A path is a sequence of names, <<>> being where the pattern starts.  A  *)
(* component is [accepts, period], the names fnmatch accepts with the      *)
(* flags of the call, and with FNM_PERIOD; Slash is the empty one after a  *)
(* trailing slash.  A tree gives each path [kind, readable, list], where   *)
(* list has [name, type] in the order of readdir.  A pattern that is       *)
(* longer than PATH_MAX is only known to be long.                          *)
(***************************************************************************)
EXTENDS Integers, Sequences, SequencesExt

CONSTANTS
    GlobCalls,      \* sequences of calls [tree, pattern, flags, strict, long] on one glob_t
    Dot,            \* the name "."
    Offsets,        \* gl_offs as the caller sets it
    Errnos,         \* errno as the caller leaves it
    Shortages       \* how many allocations may fail

VARIABLES
    globStep,       \* "ready", "match", "collect", "fail" or "over"
    todo,           \* the calls to come; the first one is under way
    frames,         \* the calls of match_in_dir under way, the innermost last
    list,           \* the matches
    heap,           \* the blocks allocated for matches
    gl,             \* the glob_t: [offs, pathc, pathv, array]
    globErrno, error,
    shortages,
    result, before  \* what glob returned, and gl_pathc as it was called

globVars == <<globStep, todo, frames, list, heap, gl, globErrno, error, shortages, result, before>>

Slash == [accepts |-> {}, period |-> {}]
Null == [name |-> <<>>, mark |-> 0, block |-> 0]
Unset == [Null EXCEPT !.mark = 2]
call == todo[1]
Has(flag) == flag \in call.flags

Fresh == CHOOSE b \in 1 .. (Cardinality(heap) + 1) : b \notin heap

-----------------------------------------------------------------------------

\* "." is the directory itself.
Place(path) == SelectSeq(path, LAMBDA n : n # Dot)
Exists(tree, path) == Place(path) \in DOMAIN tree
IsDir(tree, path) == Exists(tree, path) /\ tree[Place(path)].kind = "dir"
OpenError(tree, path) ==
    CASE ~Exists(tree, path) -> "ENOENT"
      [] Exists(tree, path) /\ ~IsDir(tree, path) -> "ENOTDIR"
      [] OTHER -> IF tree[Place(path)].readable THEN "none" ELSE "EACCES"

\* What readdir tells of a directory: each name once, with its type where it knows it.
RightListing(tree, path) ==
    LET es == tree[Place(path)].list
    IN /\ es \in Seq(ToSet(es))
       /\ \A i, j \in DOMAIN es : es[i].name = es[j].name => i = j
       /\ \A i \in DOMAIN es :
            /\ es[i].name \in Int
            /\ es[i].type = "dir" => IsDir(tree, Append(path, es[i].name))
            /\ es[i].type \notin {"unknown", "dir", "link"} => ~IsDir(tree, Append(path, es[i].name))

\* The paths of the directories that a search may open.
ReadNames(tree) == UNION {{e.name : e \in ToSet(tree[p].list)} : p \in DOMAIN tree}
SearchPaths(c) == UNION {[1 .. n -> ReadNames(c.tree)] : n \in 0 .. (Len(c.pattern) - 1)}

\* The caller appends to an earlier result with the same gl_offs; only a trailing slash makes
\* an empty component.
ASSUME GlobAssumption ==
    /\ Dot \in Int /\ Offsets \subseteq Nat /\ Shortages \in Nat
    /\ \A calls \in GlobCalls :
        /\ calls \in Seq(ToSet(calls))
        /\ \A i \in DOMAIN calls :
            LET c == calls[i]
            IN /\ "APPEND" \in c.flags <=> i > 1
               /\ "DOOFFS" \in c.flags <=> "DOOFFS" \in calls[1].flags
               /\ c.pattern \in Seq(ToSet(c.pattern))
               /\ \A k \in DOMAIN c.pattern : c.pattern[k] = Slash => k = Len(c.pattern)
               /\ \A path \in SearchPaths(c) : OpenError(c.tree, path) = "none" => RightListing(c.tree, path)

Frame(path, at) == [path |-> path, at |-> at, opened |-> FALSE, left |-> <<>>, error |-> "none"]
top == frames[Len(frames)]
Popped == SubSeq(frames, 1, Len(frames) - 1)
component == call.pattern[top.at]
IsLast == top.at = Len(call.pattern)

\* malloc, and the block at the end of the list.
Shorten == shortages > 0 /\ shortages' = shortages - 1 /\ globErrno' = "ENOMEM"
Append1(path, mark) ==
    /\ list' = Append(list, [name |-> path, mark |-> mark, block |-> Fresh])
    /\ heap' = heap \cup {Fresh}
    /\ UNCHANGED shortages

GlobInit ==
    /\ globStep = "ready"
    /\ todo \in GlobCalls
    /\ frames = <<>> /\ list = <<>> /\ heap = {}
    /\ \E offs \in Offsets : gl = [offs |-> offs, pathc |-> 0, pathv |-> <<>>, array |-> FALSE]
    /\ globErrno \in Errnos
    /\ error = "none" /\ shortages = Shortages /\ result = "none" /\ before = 0

\* The glob_t is emptied, also for a pattern that is then refused for its length.
Start ==
    /\ globStep = "ready" /\ todo # <<>> /\ result = "none"
    /\ gl' = IF Has("APPEND") THEN gl
             ELSE [offs |-> IF Has("DOOFFS") THEN gl.offs ELSE 0, pathc |-> 0, pathv |-> <<>>, array |-> FALSE]
    /\ before' = gl'.pathc
    /\ error' = "none"
    /\ UNCHANGED <<todo, list, heap, globErrno, shortages>>

TooLong == Start /\ call.long /\ result' = "NOSPACE" /\ UNCHANGED <<globStep, frames>>

GlobCall ==
    /\ Start /\ ~call.long
    /\ frames' = IF call.pattern = <<>> THEN <<>> ELSE <<Frame(<<>>, 1)>>
    /\ globStep' = IF call.pattern = <<>> THEN "collect" ELSE "match"
    /\ UNCHANGED result

\* The value returned by the innermost call; one that is not zero ends the outer ones too.
ReturnFrom(e) ==
    /\ error' = e
    /\ frames' = IF e = "none" THEN Popped ELSE <<>>
    /\ globStep' = IF frames' = <<>> THEN "collect" ELSE "match"

IsTop(opened) == globStep = "match" /\ frames # <<>> /\ top.opened = opened

\* errfunc's answer or GLOB_ERR ends the call.
Aborts(e) == IF call.strict \/ Has("ERR") THEN "ABORTED" ELSE "none"

\* opendir fails: not a directory, or one that is asked for by a trailing slash only.
OpenFails ==
    LET e == OpenError(call.tree, top.path)
    IN /\ IsTop(FALSE) /\ e # "none"
       /\ globErrno' = e
       /\ ~(e = "EACCES" /\ component = Slash)
       /\ ReturnFrom(IF e = "ENOTDIR" THEN "none" ELSE Aborts(e))
       /\ UNCHANGED <<todo, list, heap, gl, shortages, result, before>>

\* error is errno also when opendir succeeded, which leaves errno as it was.
Opened ==
    /\ IsTop(FALSE) /\ OpenError(call.tree, top.path) = "none" /\ component # Slash
    /\ frames' = [frames EXCEPT ![Len(frames)].opened = TRUE,
                                ![Len(frames)].left = call.tree[Place(top.path)].list,
                                ![Len(frames)].error = globErrno]
    /\ UNCHANGED <<globStep, todo, list, heap, gl, globErrno, error, shortages, result, before>>

\* The directory before a trailing slash.
SlashMatches ==
    /\ IsTop(FALSE) /\ component = Slash
    /\ OpenError(call.tree, top.path) \in {"none", "EACCES"}
    /\ \/ /\ Append1(top.path, IF top.path # <<>> THEN 1 ELSE 0)
          /\ globErrno' = IF OpenError(call.tree, top.path) = "EACCES" THEN "EACCES" ELSE globErrno
          /\ ReturnFrom("none")
       \/ Shorten /\ ReturnFrom("NOSPACE") /\ UNCHANGED <<list, heap>>
    /\ UNCHANGED <<todo, gl, result, before>>

entry == Head(top.left)
Rest == [frames EXCEPT ![Len(frames)].left = Tail(@)]
Reading == IsTop(TRUE) /\ top.left # <<>>
NotADir == entry.type \notin {"unknown", "dir", "link"}
Refused ==
    \/ entry.name \notin component.accepts
    \/ ~IsLast /\ NotADir
    \/ ~IsLast /\ Has("PERIOD") /\ entry.name = Dot /\ entry.name \notin component.period

SkipEntry ==
    /\ Reading /\ Refused
    /\ frames' = Rest
    /\ UNCHANGED <<globStep, todo, list, heap, gl, globErrno, error, shortages, result, before>>

\* error becomes what the inner call returns, which is 0 when this directory is read on.
Descend ==
    /\ Reading /\ ~Refused /\ ~IsLast
    /\ frames' = Append([Rest EXCEPT ![Len(frames)].error = "none"],
                        Frame(Append(top.path, entry.name), top.at + 1))
    /\ UNCHANGED <<globStep, todo, list, heap, gl, globErrno, error, shortages, result, before>>

\* With GLOB_MARK a link is looked at, and if stat fails what it did not fill in is used.
Marks(path) ==
    CASE ~Has("MARK") -> {0}
      [] Has("MARK") /\ entry.type \notin {"unknown", "link"} -> {IF entry.type = "dir" THEN 1 ELSE 0}
      [] OTHER -> IF Exists(call.tree, path) THEN {IF IsDir(call.tree, path) THEN 1 ELSE 0} ELSE {0, 1}

AppendEntry ==
    LET path == Append(top.path, entry.name)
        looks == Has("MARK") /\ entry.type \in {"unknown", "link"}
    IN /\ Reading /\ ~Refused /\ IsLast
       /\ \/ /\ \E mark \in Marks(path) : Append1(path, mark)
             /\ globErrno' = IF looks /\ ~Exists(call.tree, path) THEN "ENOENT" ELSE globErrno
             /\ frames' = Rest
             /\ UNCHANGED <<globStep, error>>
          \/ Shorten /\ ReturnFrom("NOSPACE") /\ UNCHANGED <<list, heap>>
       /\ UNCHANGED <<todo, gl, result, before>>

ReadEnds ==
    /\ IsTop(TRUE) /\ top.left = <<>>
    /\ ReturnFrom(IF top.error # "none" THEN Aborts(top.error) ELSE "none")
    /\ UNCHANGED <<todo, list, heap, gl, globErrno, shortages, result, before>>

-----------------------------------------------------------------------------

Return(r) == globStep' = "ready" /\ result' = r /\ UNCHANGED <<todo, frames, error, before>>

FreeList == heap' = heap \ {list[i].block : i \in DOMAIN list} /\ list' = <<>>

NoSpace ==
    /\ globStep = "collect" /\ error = "NOSPACE"
    /\ FreeList
    /\ Return("NOSPACE")
    /\ UNCHANGED <<gl, globErrno, shortages>>

\* GLOB_NOCHECK: the pattern itself, which is written <<Dot>> here.
NoMatch ==
    /\ globStep = "collect" /\ error # "NOSPACE" /\ list = <<>>
    /\ \/ ~Has("NOCHECK") /\ Return("NOMATCH") /\ UNCHANGED <<list, heap, globErrno, shortages>>
       \/ /\ Has("NOCHECK")
          /\ Append1(<<Dot>>, 0)
          /\ UNCHANGED <<globStep, todo, frames, globErrno, error, result, before>>
       \/ Has("NOCHECK") /\ Shorten /\ Return("NOSPACE") /\ UNCHANGED <<list, heap>>
    /\ UNCHANGED gl

\* The order of strcmp, of names that are numbered.
NameBefore(a, b) ==
    \/ Len(a) < Len(b) /\ a = SubSeq(b, 1, Len(a))
    \/ \E i \in DOMAIN a \cap DOMAIN b : a[i] < b[i] /\ SubSeq(a, 1, i - 1) = SubSeq(b, 1, i - 1)
NotAfter(s, i) ==
    {j \in DOMAIN s : NameBefore(s[j].name, s[i].name) \/ (s[j].name = s[i].name /\ j <= i)}
Sorted(s) == [k \in DOMAIN s |-> s[CHOOSE i \in DOMAIN s : Cardinality(NotAfter(s, i)) = k]]

\* realloc or malloc of the array; the offsets before it are its first entries, which are
\* left as they are allocated if the call that should have set them found nothing.
Fill ==
    LET offs == IF Has("DOOFFS") THEN gl.offs ELSE 0
        old == IF Has("APPEND") THEN gl.pathv ELSE [i \in 1 .. offs |-> Null]
        pad == [i \in 1 .. ((offs + gl.pathc) - Len(old)) |-> Unset]
    IN /\ globStep = "collect" /\ error # "NOSPACE" /\ list # <<>>
       /\ gl' = [gl EXCEPT !.pathv = old \o pad \o IF Has("NOSORT") THEN list ELSE Sorted(list),
                           !.pathc = @ + Len(list), !.array = TRUE]
       /\ list' = <<>>
       /\ Return(IF error = "none" THEN "0" ELSE error)
       /\ UNCHANGED <<heap, globErrno, shortages>>

NoArray ==
    /\ globStep = "collect" /\ error # "NOSPACE" /\ list # <<>>
    /\ Shorten
    /\ FreeList
    /\ Return("NOSPACE")
    /\ UNCHANGED gl

\* The caller goes on, and after the last call frees what it got.
CallerGoesOn ==
    /\ globStep = "ready" /\ result # "none" /\ todo # <<>>
    /\ todo' = Tail(todo) /\ result' = "none"
    /\ UNCHANGED <<globStep, frames, list, heap, gl, globErrno, error, shortages, before>>

\* Mutant: the entries are taken from the start of the array.
GlobFreeMutant ==
    /\ globStep = "ready" /\ todo = <<>>
    /\ heap' = heap \ {gl.pathv[i].block : i \in 1 .. gl.pathc}
    /\ gl' = [gl EXCEPT !.pathc = 0, !.pathv = <<>>, !.array = FALSE]
    /\ globStep' = "over"
    /\ UNCHANGED <<todo, frames, list, globErrno, error, shortages, result, before>>

\* gl_pathc entries from gl_offs on.
GlobFree ==
    /\ globStep = "ready" /\ todo = <<>>
    /\ heap' = heap \ {gl.pathv[gl.offs + i].block : i \in 1 .. gl.pathc}
    /\ gl' = [gl EXCEPT !.pathc = 0, !.pathv = <<>>, !.array = FALSE]
    /\ globStep' = "over"
    /\ UNCHANGED <<todo, frames, list, globErrno, error, shortages, result, before>>

GlobNext ==
    \/ TooLong \/ GlobCall \/ OpenFails \/ Opened \/ SlashMatches \/ SkipEntry \/ Descend \/ AppendEntry \/ ReadEnds
    \/ NoSpace \/ NoMatch \/ Fill \/ NoArray \/ CallerGoesOn \/ GlobFree

GlobSpec == GlobInit /\ [][GlobNext]_globVars

-----------------------------------------------------------------------------

\* The definition: one name for each component, listed where the names before it lead, all
\* of these being directories that can be read.
Listed(tree, path, name) ==
    /\ OpenError(tree, path) = "none"
    /\ \E i \in DOMAIN tree[Place(path)].list : tree[Place(path)].list[i].name = name
Follows(c, path) ==
    \A i \in DOMAIN path :
        /\ path[i] \in c.pattern[i].accepts
        /\ Listed(c.tree, SubSeq(path, 1, i - 1), path[i])
        /\ (i < Len(c.pattern) /\ "PERIOD" \in c.flags /\ path[i] = Dot) => path[i] \in c.pattern[i].period
Names(c) == UNION {p.accepts : p \in ToSet(c.pattern)}
Depth(c) == IF c.pattern[Len(c.pattern)] = Slash THEN Len(c.pattern) - 1 ELSE Len(c.pattern)
Matches(c) ==
    IF c.pattern = <<>> THEN {}
    ELSE {path \in [1 .. Depth(c) -> Names(c)] :
            Follows(c, path) /\ (Depth(c) < Len(c.pattern) => IsDir(c.tree, path))}
Matching == Matches(call)

New == SubSeq(gl.pathv, Len(gl.pathv) - (gl.pathc - before) + 1, Len(gl.pathv))
Found == {New[i].name : i \in DOMAIN New}
Tolerant == ~call.strict /\ ~Has("ERR")

\* glob returns what the pattern matches, each path once, in order and with the marks asked
\* for, after what earlier calls returned; errors it was told to go on after do not keep it
\* from that; it says that it is out of space only if an allocation failed or the pattern is
\* longer than PATH_MAX, and then adds nothing; and the blocks of matches are those of the
\* array, so that globfree leaves none, whatever call failed before.
GlobRight ==
    /\ globStep = "ready" /\ result # "none" /\ todo # <<>> =>
        /\ result = "0" => (Found = Matching \/ (Has("NOCHECK") /\ Matching = {} /\ Found = {<<Dot>>}))
        /\ result = "NOMATCH" /\ Tolerant => Matching = {}
        /\ result = "ABORTED" => ~Tolerant /\ (Found \subseteq Matching \/ Has("NOCHECK"))
        /\ result = "NOSPACE" => (shortages < Shortages \/ call.long) /\ New = <<>>
        /\ Cardinality(Found) = Len(New)
        /\ ~Has("NOSORT") => \A i, j \in DOMAIN New : i < j => NameBefore(New[i].name, New[j].name)
        /\ \A i \in DOMAIN New : (Has("MARK") /\ Exists(call.tree, New[i].name) /\ New[i].name \notin {<<>>, <<Dot>>})
                                    => (New[i].mark = 1 <=> IsDir(call.tree, New[i].name))
    /\ globStep \in {"ready", "over"} =>
        /\ heap = {gl.pathv[i].block : i \in DOMAIN gl.pathv} \ {0}
        /\ \A i \in 1 .. gl.pathc : gl.pathv[gl.offs + i].block # 0
    /\ globStep = "over" => heap = {}

=============================================================================
