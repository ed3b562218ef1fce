-------------------------------- MODULE Calls --------------------------------
(***************************************************************************)
(* Calls of the library that try a system call again and again:            *)
(* __execvpe (glibc-compatibility.c) along PATH, mkstemps                  *)
(* (musl/mkstemps.c) with one name after another, beside others that       *)
(* create files, and getentropy (musl/getentropy.c) until it has all.      *)
(***************************************************************************)
EXTENDS Integers, Sequences

CONSTANTS
    Searches,       \* [name, dirs]: the program asked for, and what execve does with it in
                    \* each directory of PATH: "runs" or an errno; "long" for one that is skipped
    Callers,        \* threads that call mkstemps, each with a template [length, suffix, xs]
    Templates,
    TempNames,      \* names the clock may lead to
    Retries,        \* how many names are tried (100 in the code)
    EntropySizes, MaxInterrupts

ASSUME CallsAssumption ==
    /\ Retries \in Nat \ {0} /\ EntropySizes \subseteq Nat /\ MaxInterrupts \in Nat
    /\ {"none", "other"} \cap Callers = {} /\ "XXXXXX" \notin TempNames
    /\ Templates \subseteq [length : Nat, suffix : Int, xs : BOOLEAN]
    /\ \A s \in Searches :
        /\ s.name \in {"plain", "slash", "empty", "long"} /\ s.dirs \in Seq(STRING)
        /\ s.name \in {"plain", "slash"} => s.dirs # <<>>

VARIABLES
    search, at, seenEacces, execErrno, ran,             \* __execvpe
    files, template, retries, tempName, tempRet,        \* mkstemps
    entropyAsked, filled, interrupts, entropyRet        \* getentropy

execVars == <<search, at, seenEacces, execErrno, ran>>
tempVars == <<files, template, retries, tempName, tempRet>>
entropyVars == <<entropyAsked, filled, interrupts, entropyRet>>

-----------------------------------------------------------------------------

\* errno is ENOENT until an execve fails otherwise; at is 0 once the call has returned.
ExecIdle(s) == search = s /\ at = 1 /\ seenEacces = FALSE /\ execErrno = "ENOENT" /\ ran = 0
ExecInit == \E s \in Searches : ExecIdle(s)

\* An empty name, one with a slash, which is not searched for, and one that is too long.
Unsearched ==
    /\ at = 1 /\ search.name # "plain"
    /\ \/ search.name = "slash" /\ search.dirs[1] = "runs" /\ ran' = 1 /\ UNCHANGED execErrno
       \/ search.name = "slash" /\ search.dirs[1] # "runs" /\ execErrno' = search.dirs[1] /\ UNCHANGED ran
       \/ search.name = "empty" /\ UNCHANGED <<execErrno, ran>>
       \/ search.name = "long" /\ execErrno' = "ENAMETOOLONG" /\ UNCHANGED ran
    /\ at' = 0
    /\ UNCHANGED <<search, seenEacces>>

Outcome == search.dirs[at]
Searching(outcomes) == at > 0 /\ search.name = "plain" /\ Outcome \in outcomes

\* The next directory, or after the last one the errno that is worth most.
NextDir(eacces, e) ==
    /\ seenEacces' = eacces
    /\ IF at < Len(search.dirs)
       THEN at' = at + 1 /\ execErrno' = e
       ELSE at' = 0 /\ execErrno' = IF eacces THEN "EACCES" ELSE e
    /\ UNCHANGED <<search, ran>>

SkipDir == Searching({"long"}) /\ NextDir(seenEacces, execErrno)

\* Mutant: EACCES is forgotten.
NotHereMutant ==
    /\ Searching({"EACCES", "ENOENT", "ENOTDIR"})
    /\ NextDir(seenEacces, Outcome)

NotHere ==
    /\ Searching({"EACCES", "ENOENT", "ENOTDIR"})
    /\ NextDir(seenEacces \/ Outcome = "EACCES", Outcome)

ExecError ==
    /\ at > 0 /\ search.name = "plain" /\ Outcome \notin {"runs", "long", "EACCES", "ENOENT", "ENOTDIR"}
    /\ at' = 0 /\ execErrno' = Outcome
    /\ UNCHANGED <<search, seenEacces, ran>>

Execve ==
    /\ Searching({"runs"})
    /\ ran' = at /\ at' = 0
    /\ UNCHANGED <<search, seenEacces, execErrno>>

ExecNext == Unsearched \/ SkipDir \/ NotHere \/ ExecError \/ Execve

ExecSpec == ExecInit /\ [][ExecNext]_execVars

-----------------------------------------------------------------------------

\* tempName is the six characters of the template, as long as they are "XXXXXX".
TempIdle(ts, taken) ==
    /\ template = ts
    /\ files = [n \in TempNames |-> IF n \in taken THEN "other" ELSE "none"]
    /\ retries = [c \in Callers |-> Retries]
    /\ tempName = [c \in Callers |-> "XXXXXX"] /\ tempRet = [c \in Callers |-> "none"]
TempInit == \E ts \in [Callers -> Templates], taken \in SUBSET TempNames : TempIdle(ts, taken)

\* strlen(template) - 6 is unsigned and a negative len converts to a large number.
Invalid(t) == t.length < 6 \/ t.suffix < 0 \/ t.suffix > t.length - 6 \/ ~t.xs

Refuse(c) ==
    /\ tempRet[c] = "none" /\ tempName[c] = "XXXXXX" /\ Invalid(template[c])
    /\ tempRet' = [tempRet EXCEPT ![c] = "EINVAL"]
    /\ UNCHANGED <<files, template, retries, tempName>>

\* __randname: of the clock and the addresses, so any name, also one that was tried before.
RandName(c) ==
    /\ tempRet[c] = "none" /\ tempName[c] = "XXXXXX" /\ ~Invalid(template[c])
    /\ \E n \in TempNames : tempName' = [tempName EXCEPT ![c] = n]
    /\ UNCHANGED <<files, template, retries, tempRet>>

\* open with O_CREAT and O_EXCL: the file is made by this call, or it fails.
CreateFile(c) ==
    /\ tempRet[c] = "none" /\ tempName[c] \in TempNames /\ files[tempName[c]] = "none"
    /\ files' = [files EXCEPT ![tempName[c]] = c]
    /\ tempRet' = [tempRet EXCEPT ![c] = "fd"]
    /\ UNCHANGED <<template, retries, tempName>>

GiveUp(c, e) ==
    /\ tempRet' = [tempRet EXCEPT ![c] = e]
    /\ tempName' = [tempName EXCEPT ![c] = "XXXXXX"]

\* EEXIST: another name, at once, as long as there are retries.
Taken(c) ==
    /\ tempRet[c] = "none" /\ tempName[c] \in TempNames /\ files[tempName[c]] # "none"
    /\ retries' = [retries EXCEPT ![c] = @ - 1]
    /\ \/ retries[c] > 1 /\ (\E n \in TempNames : tempName' = [tempName EXCEPT ![c] = n]) /\ UNCHANGED tempRet
       \/ retries[c] = 1 /\ GiveUp(c, "EEXIST")
    /\ UNCHANGED <<files, template>>

OpenRefused(c) ==
    /\ tempRet[c] = "none" /\ tempName[c] \in TempNames
    /\ retries' = [retries EXCEPT ![c] = @ - 1]
    /\ GiveUp(c, "EACCES")
    /\ UNCHANGED <<files, template>>

\* Some other program's file.
OtherFile ==
    /\ \E n \in TempNames : files[n] = "none" /\ files' = [files EXCEPT ![n] = "other"]
    /\ UNCHANGED <<template, retries, tempName, tempRet>>

TempNext == OtherFile \/ \E c \in Callers : Refuse(c) \/ RandName(c) \/ CreateFile(c) \/ Taken(c) \/ OpenRefused(c)

TempSpec == TempInit /\ [][TempNext]_tempVars

-----------------------------------------------------------------------------

EntropyIdle(n) == entropyAsked = n /\ filled = 0 /\ interrupts = 0 /\ entropyRet = "none"
EntropyInit == \E n \in EntropySizes : EntropyIdle(n)

TooMuch ==
    /\ entropyRet = "none" /\ entropyAsked > 256
    /\ entropyRet' = "EIO"
    /\ UNCHANGED <<entropyAsked, filled, interrupts>>

Unfilled == entropyRet = "none" /\ entropyAsked <= 256 /\ filled < entropyAsked

\* getrandom gives a part, fails after a signal, or fails.
GetRandom ==
    /\ Unfilled
    /\ \E n \in 1 .. (entropyAsked - filled) : filled' = filled + n
    /\ UNCHANGED <<entropyAsked, interrupts, entropyRet>>
Interrupted ==
    /\ Unfilled /\ interrupts < MaxInterrupts
    /\ interrupts' = interrupts + 1
    /\ UNCHANGED <<entropyAsked, filled, entropyRet>>
RandomFails ==
    /\ Unfilled
    /\ entropyRet' = "ENOSYS"
    /\ UNCHANGED <<entropyAsked, filled, interrupts>>

EntropyDone ==
    /\ entropyRet = "none" /\ entropyAsked <= 256 /\ filled = entropyAsked
    /\ entropyRet' = "0"
    /\ UNCHANGED <<entropyAsked, filled, interrupts>>

EntropyNext == TooMuch \/ GetRandom \/ Interrupted \/ RandomFails \/ EntropyDone

EntropySpec == EntropyInit /\ [][EntropyNext]_entropyVars

-----------------------------------------------------------------------------

\* The directories that were looked into, up to the one where the search came to its end.
Outcomes(i) == {search.dirs[j] : j \in 1 .. (i - 1)}
Decisive == {i \in DOMAIN search.dirs : search.dirs[i] \notin {"long", "EACCES", "ENOENT", "ENOTDIR"}}
First == {i \in Decisive : \A j \in Decisive : i <= j}

\* The first program along PATH runs; if none does, what is reported is the error that ended
\* the search, or EACCES if that hid one, or else what the last directory said.
ExecHonest ==
    at = 0 /\ search.name = "plain" /\ search.dirs # <<>> =>
        /\ \A i \in First : IF search.dirs[i] = "runs" THEN ran = i ELSE ran = 0 /\ execErrno = search.dirs[i]
        /\ First = {} =>
            /\ ran = 0
            /\ execErrno = "EACCES" <=> "EACCES" \in Outcomes(Len(search.dirs) + 1)
            /\ execErrno \in Outcomes(Len(search.dirs) + 1) \cup {"ENOENT"}

\* The file of a descriptor was made by this call and is named by its template; a call that
\* fails has made none, gives the template back, and says EEXIST only of names that all exist.
TempHonest ==
    \A c \in Callers :
        LET mine == {n \in TempNames : files[n] = c}
        IN /\ tempRet[c] = "fd" => mine = {tempName[c]} /\ template[c].xs /\ template[c].suffix \in 0 .. (template[c].length - 6)
           /\ tempRet[c] # "fd" => mine = {}
           /\ tempRet[c] \notin {"none", "fd"} => tempName[c] = "XXXXXX"
           /\ tempRet[c] = "EEXIST" => retries[c] = 0 /\ \E n \in TempNames : files[n] # "none"
           /\ retries[c] >= 0

\* Success is told of a buffer that is full, never of one that was filled in part.
EntropyHonest ==
    /\ entropyRet = "0" <=> entropyRet # "none" /\ filled = entropyAsked /\ entropyAsked <= 256
    /\ entropyRet = "EIO" => filled = 0

\* What these calls report is what happened, however often they had to try.
Honest == ExecHonest /\ TempHonest /\ EntropyHonest

=============================================================================
