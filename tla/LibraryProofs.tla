---------------------------- MODULE LibraryProofs ----------------------------
(***************************************************************************)
(* Proofs about the functions of the library that call none of the others: *)
(* memcpy for every size and alignment, the calls that try again for every *)
(* PATH, any callers and templates, and any answers of the kernel, those   *)
(* that make descriptors for any table, the list of file actions, and glob *)
(* for any directories, patterns, failures and sequence of calls.          *)
(***************************************************************************)
EXTENDS Memcpy, Calls, Descriptors, FileActions, Glob, FiniteSetTheorems, SequenceTheorems, TLAPS

\* The bytes from a up to b, each moved to its own place.
Diag(a, b) == {<<j, j>> : j \in a .. (b - 1)}

LabelSet == {"call", "tail", "medium", "large", "return"}

MemTypes ==
    /\ label \in LabelSet
    /\ asked \in Nat /\ align \in 0 .. 15
    /\ dst \in Nat /\ size \in Nat

\* What the pointers have passed is moved, and nothing else than what was asked for.
Progress ==
    /\ src = dst
    /\ dst + size = asked
    /\ moved \subseteq Diag(0, asked)
    /\ Diag(0, dst) \subseteq moved

\* In the loop of the medium sizes the end is moved, in that of the large ones the
\* destination is aligned, and after them all is moved.
Phases ==
    /\ label = "medium" => asked >= 16 /\ Diag(asked - 16, asked) \subseteq moved
    /\ label = "large" => (align + dst) % 16 = 0
    /\ label = "return" => Diag(0, asked) \subseteq moved

MemInv == MemTypes /\ Progress /\ Phases

-----------------------------------------------------------------------------

\* A move of n bytes between the same offsets.
LEMMA ChunkIsDiag ==
    ASSUME NEW a \in Int, NEW n \in Int
    PROVE  Chunk(a, a, n) = Diag(a, a + n)
  <1>1. ASSUME NEW p \in Chunk(a, a, n) PROVE p \in Diag(a, a + n)
    <2>1. PICK i \in 0 .. (n - 1) : p = <<a + i, a + i>>
      BY <1>1 DEF Chunk
    <2>2. a + i \in a .. ((a + n) - 1)
      OBVIOUS
    <2> QED
      BY <2>1, <2>2 DEF Diag
  <1>2. ASSUME NEW p \in Diag(a, a + n) PROVE p \in Chunk(a, a, n)
    <2>1. PICK j \in a .. ((a + n) - 1) : p = <<j, j>>
      BY <1>2 DEF Diag
    <2>2. j - a \in 0 .. (n - 1) /\ a + (j - a) = j
      OBVIOUS
    <2> QED
      BY <2>1, <2>2 DEF Chunk
  <1> QED
    BY <1>1, <1>2

\* A wider range has what a narrower one has.
LEMMA DiagWider ==
    ASSUME NEW a \in Int, NEW b \in Int, NEW c \in Int, NEW d \in Int, c <= a, b <= d
    PROVE  Diag(a, b) \subseteq Diag(c, d)
  <1> SUFFICES ASSUME NEW p \in Diag(a, b) PROVE p \in Diag(c, d)
    OBVIOUS
  <1>1. PICK j \in a .. (b - 1) : p = <<j, j>>
    BY DEF Diag
  <1>2. j \in c .. (d - 1)
    OBVIOUS
  <1> QED
    BY <1>1, <1>2 DEF Diag

\* Two ranges without a gap are one.
LEMMA DiagJoins ==
    ASSUME NEW a \in Int, NEW b \in Int, NEW c \in Int, NEW d \in Int, c <= b
    PROVE  Diag(a, d) \subseteq Diag(a, b) \cup Diag(c, d)
  <1> SUFFICES ASSUME NEW p \in Diag(a, d) PROVE p \in Diag(a, b) \cup Diag(c, d)
    OBVIOUS
  <1>1. PICK j \in a .. (d - 1) : p = <<j, j>>
    BY DEF Diag
  <1>2. j \in a .. (b - 1) \/ j \in c .. (d - 1)
    OBVIOUS
  <1> QED
    BY <1>1, <1>2 DEF Diag

\* The call starts within the invariant.
LEMMA MemStarts == MemInit => MemInv
  <1> SUFFICES ASSUME NEW q \in Sizes, NEW a \in Alignments, Idle(q, a) PROVE MemInv
    BY DEF MemInit
  <1>1. MemTypes
    BY MemcpyAssumption DEF Idle, MemTypes, LabelSet
  <1>2. Diag(0, 0) = {}
    BY DEF Diag
  <1> QED
    BY <1>1, <1>2, MemcpyAssumption DEF Idle, MemInv, Progress, Phases, MemTypes

-----------------------------------------------------------------------------

\* The two moves of a small size cover it.
LEMMA SmallKeeps == MemInv /\ Small => MemInv'
  <1> SUFFICES ASSUME MemInv, Small PROVE MemInv'
    OBVIOUS
  <1> USE DEF MemInv
  <1>1. /\ asked \in Nat /\ dst \in Nat /\ size \in Nat /\ src = dst /\ dst + size = asked
        /\ size <= 16 /\ moved \subseteq Diag(0, asked) /\ Diag(0, dst) \subseteq moved
    BY DEF Small, MemTypes, Progress
  <1>2. /\ asked' = asked /\ align' = align /\ dst' = dst /\ src' = src /\ size' = size
        /\ label' = "return"
    BY DEF Small
  <1>3. ASSUME NEW n \in Nat, n <= size, size <= 2 * n
        PROVE  TwoMoves(n) \subseteq Diag(0, asked) /\ Diag(dst, asked) \subseteq TwoMoves(n)
    <2>1. (dst + size) - n \in Nat /\ (src + size) - n = (dst + size) - n
      BY <1>1, <1>3
    <2>2. TwoMoves(n) = Diag((dst + size) - n, asked) \cup Diag(dst, dst + n)
      <3>1. Chunk((dst + size) - n, (src + size) - n, n) = Diag((dst + size) - n, ((dst + size) - n) + n)
        BY <1>1, <2>1, ChunkIsDiag
      <3>2. Chunk(dst, src, n) = Diag(dst, dst + n)
        BY <1>1, ChunkIsDiag
      <3>3. ((dst + size) - n) + n = asked
        BY <1>1
      <3> QED
        BY <3>1, <3>2, <3>3 DEF TwoMoves
    <2>3. Diag((dst + size) - n, asked) \subseteq Diag(0, asked) /\ Diag(dst, dst + n) \subseteq Diag(0, asked)
      BY <1>1, <1>3, <2>1, DiagWider
    <2>4. Diag(dst, asked) \subseteq Diag(dst, dst + n) \cup Diag((dst + size) - n, asked)
      BY <1>1, <1>3, <2>1, DiagJoins
    <2> QED
      BY <2>2, <2>3, <2>4
  <1>4. PICK new : /\ moved' = moved \cup new
                   /\ new \subseteq Diag(0, asked) /\ Diag(dst, asked) \subseteq new
    <2>1. CASE size >= 8 /\ moved' = moved \cup TwoMoves(8)
      <3>1. TwoMoves(8) \subseteq Diag(0, asked) /\ Diag(dst, asked) \subseteq TwoMoves(8)
        BY <2>1, <1>1, <1>3
      <3> QED
        BY <2>1, <3>1
    <2>2. CASE size >= 4 /\ size < 8 /\ moved' = moved \cup TwoMoves(4)
      <3>1. TwoMoves(4) \subseteq Diag(0, asked) /\ Diag(dst, asked) \subseteq TwoMoves(4)
        BY <2>2, <1>1, <1>3
      <3> QED
        BY <2>2, <3>1
    <2>3. CASE size >= 2 /\ size < 4 /\ moved' = moved \cup TwoMoves(2)
      <3>1. TwoMoves(2) \subseteq Diag(0, asked) /\ Diag(dst, asked) \subseteq TwoMoves(2)
        BY <2>3, <1>1, <1>3
      <3> QED
        BY <2>3, <3>1
    <2>4. CASE size < 2 /\ moved' = moved \cup Chunk(dst, src, size)
      <3>1. Chunk(dst, src, size) = Diag(dst, asked)
        <4>1. Chunk(dst, dst, size) = Diag(dst, dst + size)
          BY <1>1, ChunkIsDiag
        <4> QED
          BY <1>1, <4>1
      <3>2. Diag(dst, asked) \subseteq Diag(0, asked)
        BY <1>1, DiagWider
      <3> QED
        BY <2>4, <3>1, <3>2
    <2> QED
      BY <2>1, <2>2, <2>3, <2>4 DEF Small
  <1>5. Diag(0, asked) \subseteq moved'
    BY <1>1, <1>4, DiagJoins
  <1>6. MemTypes'
    BY <1>2 DEF MemTypes, LabelSet
  <1>7. Progress'
    BY <1>1, <1>2, <1>4 DEF Progress
  <1> QED
    BY <1>2, <1>5, <1>6, <1>7 DEF Phases

\* The last 16 bytes of a medium size are within it.
LEMMA MediumKeeps == MemInv /\ Medium => MemInv'
  <1> SUFFICES ASSUME MemInv, Medium PROVE MemInv'
    OBVIOUS
  <1> USE DEF MemInv
  <1>1. /\ asked \in Nat /\ dst \in Nat /\ size \in Nat /\ src = dst /\ dst + size = asked
        /\ size > 16 /\ moved \subseteq Diag(0, asked) /\ Diag(0, dst) \subseteq moved
    BY DEF Medium, MemTypes, Progress
  <1>2. /\ asked' = asked /\ align' = align /\ dst' = dst /\ src' = src /\ size' = size
        /\ label' = "medium"
    BY DEF Medium
  <1>3. moved' = moved \cup Diag(asked - 16, asked)
    <2>1. (dst + size) - 16 = asked - 16 /\ (src + size) - 16 = asked - 16 /\ asked - 16 \in Int
      BY <1>1
    <2>2. Chunk(asked - 16, asked - 16, 16) = Diag(asked - 16, asked)
      BY <1>1, ChunkIsDiag
    <2> QED
      BY <2>1, <2>2 DEF Medium
  <1>4. Diag(asked - 16, asked) \subseteq Diag(0, asked)
    BY <1>1, DiagWider
  <1>5. MemTypes'
    BY <1>2 DEF MemTypes, LabelSet
  <1>6. Progress'
    BY <1>1, <1>2, <1>3, <1>4 DEF Progress
  <1> QED
    BY <1>1, <1>2, <1>3, <1>5, <1>6 DEF Phases

\* A move from the pointers on, of at most what is left, that they pass by no more than it.
LEMMA MoveKeeps ==
    ASSUME MemInv, NEW n \in Nat, NEW m \in Nat, m <= size, n <= m,
           moved' = moved \cup Chunk(dst, src, m), Advance(n),
           asked' = asked, align' = align, label' \in LabelSet
    PROVE  MemTypes' /\ Progress' /\ moved \subseteq moved'
  <1> USE DEF MemInv
  <1>1. /\ asked \in Nat /\ dst \in Nat /\ size \in Nat /\ src = dst /\ dst + size = asked
        /\ moved \subseteq Diag(0, asked) /\ Diag(0, dst) \subseteq moved
    BY DEF MemTypes, Progress
  <1>2. dst' = dst + n /\ src' = src + n /\ size' = size - n
    BY DEF Advance
  <1>3. Chunk(dst, src, m) = Diag(dst, dst + m)
    BY <1>1, ChunkIsDiag
  <1>4. Diag(dst, dst + m) \subseteq Diag(0, asked)
    BY <1>1, DiagWider
  <1>5. Diag(0, dst + n) \subseteq Diag(0, dst) \cup Diag(dst, dst + n)
    BY <1>1, DiagJoins
  <1>6. Diag(dst, dst + n) \subseteq Diag(dst, dst + m)
    BY <1>1, DiagWider
  <1>7. MemTypes'
    BY <1>1, <1>2 DEF MemTypes
  <1>8. Progress'
    BY <1>1, <1>2, <1>3, <1>4, <1>5, <1>6 DEF Progress
  <1> QED
    BY <1>7, <1>8

\* The loop of the medium sizes moves within what is left.
LEMMA MediumMoveKeeps == MemInv /\ MediumMove => MemInv'
  <1> SUFFICES ASSUME MemInv, MediumMove PROVE MemInv'
    OBVIOUS
  <1>1. /\ label = "medium" /\ label' = "medium" /\ size > 16 /\ asked' = asked /\ align' = align
        /\ moved' = moved \cup Chunk(dst, src, 16) /\ Advance(16) /\ size \in Nat
    BY DEF MediumMove, MemInv, MemTypes
  <1>2. MemTypes' /\ Progress' /\ moved \subseteq moved'
    BY <1>1, MoveKeeps DEF LabelSet
  <1> QED
    BY <1>1, <1>2 DEF MemInv, Phases

\* When it ends, the bytes before the pointers and the last 16 are all.
LEMMA MediumEndsKeeps == MemInv /\ MediumEnds => MemInv'
  <1> SUFFICES ASSUME MemInv, MediumEnds PROVE MemInv'
    OBVIOUS
  <1>1. /\ asked' = asked /\ align' = align /\ dst' = dst /\ src' = src /\ size' = size
        /\ moved' = moved /\ label' = "return" /\ label = "medium" /\ size <= 16
    BY DEF MediumEnds
  <1>2. /\ asked \in Nat /\ dst \in Nat /\ size \in Nat /\ dst + size = asked
        /\ Diag(0, dst) \subseteq moved /\ Diag(asked - 16, asked) \subseteq moved
    BY <1>1 DEF MemInv, MemTypes, Progress, Phases
  <1>3. Diag(0, asked) \subseteq Diag(0, dst) \cup Diag(asked - 16, asked)
    BY <1>1, <1>2, DiagJoins
  <1>4. MemTypes' /\ Progress'
    BY <1>1 DEF MemInv, MemTypes, Progress, LabelSet
  <1> QED
    BY <1>1, <1>2, <1>3, <1>4 DEF MemInv, Phases

\* The padding is below 16 and aligns the destination.
LEMMA PaddingAligns ==
    ASSUME NEW a \in Nat, NEW p \in Int, p = (16 - (a % 16)) % 16
    PROVE  p \in 0 .. 15 /\ (a + p) % 16 = 0
  <1>1. a % 16 \in 0 .. 15
    OBVIOUS
  <1>2. p = IF a % 16 = 0 THEN 0 ELSE 16 - (a % 16)
    BY <1>1
  <1> QED
    BY <1>1, <1>2

LEMMA LargeKeeps == MemInv /\ Large => MemInv'
  <1> SUFFICES ASSUME MemInv, Large PROVE MemInv'
    OBVIOUS
  <1>1. /\ asked \in Nat /\ align \in 0 .. 15 /\ dst \in Nat /\ size \in Nat /\ size > 128
    BY DEF MemInv, MemTypes, Large
  <1>2. Padding \in 0 .. 15 /\ ((align + dst) + Padding) % 16 = 0
    <2>1. align + dst \in Nat
      BY <1>1
    <2>2. Padding \in Int
      BY <2>1 DEF Padding
    <2> QED
      BY <2>1, <2>2, PaddingAligns DEF Padding
  <1>3. /\ label' = "large" /\ asked' = asked /\ align' = align /\ Advance(Padding)
    BY DEF Large
  <1>4. MemTypes' /\ Progress'
    <2>1. CASE Padding > 0
      <3>1. moved' = moved \cup Chunk(dst, src, 16)
        BY <2>1 DEF Large
      <3> QED
        BY <1>1, <1>2, <1>3, <3>1, MoveKeeps DEF LabelSet
    <2>2. CASE Padding = 0
      <3>1. Chunk(dst, src, 0) = {}
        BY DEF Chunk
      <3>2. moved' = moved \cup Chunk(dst, src, 0)
        BY <2>2, <3>1 DEF Large
      <3> QED
        BY <1>1, <1>3, <2>2, <3>2, MoveKeeps DEF LabelSet
    <2> QED
      BY <1>2, <2>1, <2>2
  <1>5. (align' + dst') % 16 = 0
    <2>1. align' + dst' = (align + dst) + Padding
      BY <1>1, <1>2, <1>3 DEF Advance
    <2> QED
      BY <2>1, <1>2
  <1> QED
    BY <1>3, <1>4, <1>5 DEF MemInv, Phases

\* A block is a multiple of 16.
LEMMA LargeMoveKeeps == MemInv /\ LargeMove => MemInv'
  <1> SUFFICES ASSUME MemInv, LargeMove PROVE MemInv'
    OBVIOUS
  <1>1. /\ label = "large" /\ label' = "large" /\ size >= 128 /\ asked' = asked /\ align' = align
        /\ moved' = moved \cup Chunk(dst, src, 128) /\ Advance(128) /\ size \in Nat
        /\ align \in 0 .. 15 /\ dst \in Nat /\ (align + dst) % 16 = 0
    BY DEF LargeMove, MemInv, MemTypes, Phases
  <1>2. MemTypes' /\ Progress'
    BY <1>1, MoveKeeps DEF LabelSet
  <1>3. (align' + dst') % 16 = 0
    BY <1>1 DEF Advance
  <1> QED
    BY <1>1, <1>2, <1>3 DEF MemInv, Phases

\* The tests that only go on to the next part.
LEMMA GoingOnKeeps == MemInv /\ (Enter \/ LargeEnds) => MemInv'
  <1> SUFFICES ASSUME MemInv, Enter \/ LargeEnds PROVE MemInv'
    OBVIOUS
  <1>1. /\ asked' = asked /\ align' = align /\ dst' = dst /\ src' = src /\ size' = size
        /\ moved' = moved /\ label' = "tail"
    BY DEF Enter, LargeEnds
  <1> QED
    BY <1>1 DEF MemInv, MemTypes, Progress, Phases, LabelSet

-----------------------------------------------------------------------------

\* The invariant holds at all times.
THEOREM MemInvariant == MemSpec => []MemInv
  <1>1. MemInit => MemInv
    BY MemStarts
  <1>2. MemInv /\ [MemNext]_memVars => MemInv'
    <2> SUFFICES ASSUME MemInv, [MemNext]_memVars PROVE MemInv'
      OBVIOUS
    <2>1. CASE UNCHANGED memVars
      BY <2>1 DEF memVars, MemInv, MemTypes, Progress, Phases
    <2>2. CASE MemNext
      BY <2>2, SmallKeeps, MediumKeeps, MediumMoveKeeps, MediumEndsKeeps, LargeKeeps,
         LargeMoveKeeps, GoingOnKeeps DEF MemNext
    <2> QED
      BY <2>1, <2>2
  <1> QED
    BY <1>1, <1>2, PTL DEF MemSpec

\* memcpy moves what it is asked to, nothing else, and its aligned stores are aligned, for
\* every size and every address.
THEOREM CopiesExactly == MemSpec => []Copied
  <1>1. MemInv => Copied
    <2> SUFFICES ASSUME MemInv PROVE Copied
      OBVIOUS
    <2>1. asked \in Nat
      BY DEF MemInv, MemTypes
    <2>2. Chunk(0, 0, asked) = Diag(0, asked)
      BY <2>1, ChunkIsDiag
    <2> QED
      BY <2>2 DEF MemInv, Progress, Phases, Copied
  <1> QED
    BY <1>1, MemInvariant, PTL

-----------------------------------------------------------------------------

(***************************************************************************)
(* Calls: __execvpe.                                                       *)
(***************************************************************************)

\* The errors after which the search goes on.
Passed == {"long", "EACCES", "ENOENT", "ENOTDIR"}

\* The directory that is looked into.
ExecTypes ==
    /\ search \in Searches
    /\ at \in Nat
    /\ at > 0 /\ search.name = "plain" => at <= Len(search.dirs)

\* As long as the search goes on, it has passed by every directory before, and knows of them
\* whether one said EACCES and what the last one said.
PassedBy ==
    at > 0 =>
        /\ ran = 0
        /\ search.name = "plain" =>
            /\ Outcomes(at) \subseteq Passed
            /\ seenEacces <=> "EACCES" \in Outcomes(at)
            /\ execErrno \in Outcomes(at) \cup {"ENOENT"}

ExecInv == ExecTypes /\ PassedBy /\ ExecHonest

\* One directory more.
LEMMA OutcomesGrow ==
    ASSUME NEW n \in Nat \ {0}
    PROVE  Outcomes(n + 1) = Outcomes(n) \cup {search.dirs[n]}
  <1>1. 1 .. ((n + 1) - 1) = (1 .. (n - 1)) \cup {n}
    OBVIOUS
  <1> QED
    BY <1>1 DEF Outcomes

\* The search ends where the first directory is that decides it.
LEMMA FirstIs ==
    ASSUME ExecTypes, PassedBy, at > 0, search.name = "plain", Outcome \notin Passed
    PROVE  First = {at}
  <1>1. search.dirs \in Seq(STRING) /\ at \in 1 .. Len(search.dirs)
    BY CallsAssumption DEF ExecTypes
  <1>2. DOMAIN search.dirs = 1 .. Len(search.dirs)
    BY <1>1
  <1>3. at \in Decisive
    BY <1>1, <1>2 DEF Decisive, Outcome, Passed
  <1>4. ASSUME NEW j \in Decisive PROVE j \in 1 .. Len(search.dirs) /\ j >= at
    <2>1. j \in 1 .. Len(search.dirs) /\ search.dirs[j] \notin Passed
      BY <1>2 DEF Decisive, Passed
    <2>2. j < at => search.dirs[j] \in Outcomes(at)
      BY <1>1, <2>1 DEF Outcomes
    <2> QED
      BY <1>1, <2>1, <2>2 DEF PassedBy
  <1>5. at \in First
    BY <1>1, <1>3, <1>4 DEF First
  <1>6. ASSUME NEW i \in First PROVE i = at
    BY <1>1, <1>3, <1>4 DEF First
  <1> QED
    BY <1>5, <1>6

\* A search that passed by every directory had none that decides it.
LEMMA NoneDecides ==
    ASSUME search.dirs \in Seq(STRING), Outcomes(Len(search.dirs) + 1) \subseteq Passed
    PROVE  First = {}
  <1> SUFFICES ASSUME NEW i \in Decisive PROVE FALSE
    BY DEF First
  <1>1. i \in 1 .. ((Len(search.dirs) + 1) - 1) /\ search.dirs[i] \notin Passed
    BY DEF Decisive, Passed
  <1> QED
    BY <1>1 DEF Outcomes

\* What is said of the directories is said of the same ones in the next state.
LEMMA SameSearch ==
    ASSUME search' = search
    PROVE  First' = First /\ \A n : Outcomes(n)' = Outcomes(n)
  BY DEF First, Decisive, Outcomes

LEMMA ExecStarts == ExecInit => ExecInv
  <1> SUFFICES ASSUME NEW s \in Searches, ExecIdle(s) PROVE ExecInv
    BY DEF ExecInit
  <1>1. search = s /\ at = 1 /\ seenEacces = FALSE /\ execErrno = "ENOENT" /\ ran = 0
    BY DEF ExecIdle
  <1>2. ExecTypes
    <2>1. s.name = "plain" => s.dirs \in Seq(STRING) /\ s.dirs # <<>>
      BY CallsAssumption
    <2> QED
      BY <1>1, <2>1 DEF ExecTypes
  <1>3. Outcomes(at) = {}
    BY <1>1 DEF Outcomes
  <1> QED
    BY <1>1, <1>2, <1>3 DEF ExecInv, PassedBy, ExecHonest

\* A directory is passed by: the next one, or the end of the search.
LEMMA NextDirKeeps ==
    ASSUME ExecInv, at > 0, search.name = "plain", Outcome \in Passed,
           NEW eacces, NEW e, NextDir(eacces, e),
           eacces <=> seenEacces \/ Outcome = "EACCES",
           e = Outcome \/ (e = execErrno /\ Outcome = "long")
    PROVE  ExecInv'
  <1> USE DEF ExecInv
  <1>1. /\ search' = search /\ ran' = ran /\ ran = 0
        /\ search.dirs \in Seq(STRING) /\ at \in 1 .. Len(search.dirs) /\ search \in Searches
    BY CallsAssumption DEF NextDir, ExecTypes, PassedBy
  <1>2. Outcomes(at + 1) = Outcomes(at) \cup {Outcome}
    BY <1>1, OutcomesGrow DEF Outcome
  <1>3. /\ Outcomes(at + 1) \subseteq Passed
        /\ eacces <=> "EACCES" \in Outcomes(at + 1)
        /\ e \in Outcomes(at + 1) \cup {"ENOENT"}
    BY <1>2 DEF PassedBy
  <1>4. CASE at < Len(search.dirs)
    <2>1. at' = at + 1 /\ seenEacces' = eacces /\ execErrno' = e
      BY <1>4 DEF NextDir
    <2>2. ExecTypes'
      BY <1>1, <1>4, <2>1 DEF ExecTypes
    <2>3. Outcomes(at)' = Outcomes(at + 1)
      BY <1>1, <2>1 DEF Outcomes
    <2>4. PassedBy'
      BY <1>1, <1>3, <2>1, <2>3 DEF PassedBy
    <2>5. ExecHonest'
      BY <1>1, <2>1 DEF ExecHonest
    <2> QED
      BY <2>2, <2>4, <2>5
  <1>5. CASE at = Len(search.dirs)
    <2>1. at' = 0 /\ execErrno' = IF eacces THEN "EACCES" ELSE e
      BY <1>1, <1>5 DEF NextDir
    <2>2. First' = {} /\ Outcomes(Len(search.dirs) + 1)' = Outcomes(at + 1)
      BY <1>1, <1>3, <1>5, NoneDecides, SameSearch
    <2>3. ExecHonest'
      BY <1>1, <1>3, <2>1, <2>2 DEF ExecHonest
    <2> QED
      BY <1>1, <2>1, <2>3 DEF ExecTypes, PassedBy
  <1> QED
    BY <1>1, <1>4, <1>5

\* A directory that decides the search, with its program or its error.
LEMMA DecisionKeeps ==
    ASSUME ExecInv, at > 0, search.name = "plain", Outcome \notin Passed, at' = 0, search' = search,
           IF Outcome = "runs" THEN ran' = at ELSE ran' = 0 /\ execErrno' = Outcome
    PROVE  ExecInv'
  <1>1. First' = {at}
    BY FirstIs, SameSearch DEF ExecInv
  <1>2. ExecHonest'
    BY <1>1 DEF ExecHonest, Outcome
  <1> QED
    BY <1>2 DEF ExecInv, ExecTypes, PassedBy

LEMMA ExecKeeps == ExecInv /\ [ExecNext]_execVars => ExecInv'
  <1> SUFFICES ASSUME ExecInv, [ExecNext]_execVars PROVE ExecInv'
    OBVIOUS
  <1>1. CASE UNCHANGED execVars
    <2>1. search' = search /\ at' = at /\ seenEacces' = seenEacces /\ execErrno' = execErrno /\ ran' = ran
      BY <1>1 DEF execVars
    <2> QED
      BY <2>1, SameSearch DEF ExecInv, ExecTypes, PassedBy, ExecHonest, First, Decisive, Outcomes
  <1>2. CASE Unsearched
    BY <1>2 DEF Unsearched, ExecInv, ExecTypes, PassedBy, ExecHonest
  <1>3. CASE SkipDir
    BY <1>3, NextDirKeeps DEF SkipDir, Searching, Passed
  <1>4. CASE NotHere
    BY <1>4, NextDirKeeps DEF NotHere, Searching, Passed
  <1>5. CASE ExecError
    BY <1>5, DecisionKeeps DEF ExecError, Passed, ExecInv, PassedBy
  <1>6. CASE Execve
    BY <1>6, DecisionKeeps DEF Execve, Searching, Passed
  <1> QED
    BY <1>1, <1>2, <1>3, <1>4, <1>5, <1>6 DEF ExecNext

-----------------------------------------------------------------------------

(***************************************************************************)
(* Calls: mkstemps.                                                        *)
(***************************************************************************)

\* Each caller with its template, the names left to try and the name it tries.
TempTypes ==
    /\ template \in [Callers -> Templates]
    /\ files \in [TempNames -> Callers \cup {"none", "other"}]
    /\ retries \in [Callers -> Nat]
    /\ tempName \in [Callers -> TempNames \cup {"XXXXXX"}]
    /\ tempRet \in [Callers -> {"none", "fd", "EINVAL", "EEXIST", "EACCES"}]

\* A call that goes on has a name left to try, and one that tries a name has a template
\* that may be tried.
Trying(c) ==
    /\ tempRet[c] = "none" => retries[c] > 0
    /\ tempName[c] \in TempNames => ~Invalid(template[c])

\* TempHonest of one caller.
HonestTo(c) ==
    LET mine == {n \in TempNames : files[n] = c}
    IN /\ tempRet[c] = "fd" => mine = {tempName[c]} /\ template[c].xs /\ template[c].suffix \in 0 .. (template[c].length - 6)
       /\ tempRet[c] # "fd" => mine = {}
       /\ tempRet[c] \notin {"none", "fd"} => tempName[c] = "XXXXXX"
       /\ tempRet[c] = "EEXIST" => retries[c] = 0 /\ \E n \in TempNames : files[n] # "none"
       /\ retries[c] >= 0

TempInv == TempTypes /\ \A c \in Callers : Trying(c) /\ HonestTo(c)

LEMMA TempStarts == TempInit => TempInv
  <1> SUFFICES ASSUME NEW ts \in [Callers -> Templates], NEW taken \in SUBSET TempNames, TempIdle(ts, taken)
               PROVE  TempInv
    BY DEF TempInit
  <1>1. TempTypes
    BY CallsAssumption DEF TempIdle, TempTypes
  <1>2. ASSUME NEW c \in Callers PROVE Trying(c) /\ HonestTo(c)
    BY <1>2, CallsAssumption DEF TempIdle, Trying, HonestTo
  <1> QED
    BY <1>1, <1>2 DEF TempInv

\* What holds of a caller stays while it does nothing, whatever others make meanwhile.
LEMMA OthersKeep ==
    ASSUME TempInv, NEW c \in Callers,
           template' = template, retries'[c] = retries[c], tempName'[c] = tempName[c], tempRet'[c] = tempRet[c],
           \A n \in TempNames : files'[n] = files[n] \/ (files[n] = "none" /\ files'[n] \notin {c, "none"})
    PROVE  (Trying(c) /\ HonestTo(c))'
  <1>1. Trying(c) /\ HonestTo(c) /\ c # "none"
    BY CallsAssumption DEF TempInv
  <1>2. {n \in TempNames : files'[n] = c} = {n \in TempNames : files[n] = c}
    BY <1>1
  <1>3. (\E n \in TempNames : files[n] # "none") => \E n \in TempNames : files'[n] # "none"
    OBVIOUS
  <1> QED
    BY <1>1, <1>2, <1>3 DEF Trying, HonestTo

\* One caller's step keeps what holds of all, if it keeps what holds of that one.
LEMMA OneCaller ==
    ASSUME TempInv, NEW c \in Callers, TempTypes', (Trying(c) /\ HonestTo(c))', template' = template,
           \A d \in Callers : d # c => /\ retries'[d] = retries[d] /\ tempName'[d] = tempName[d]
                                       /\ tempRet'[d] = tempRet[d],
           \A n \in TempNames : files'[n] = files[n] \/ (files[n] = "none" /\ files'[n] = c)
    PROVE  TempInv'
  <1>1. ASSUME NEW d \in Callers, d # c PROVE (Trying(d) /\ HonestTo(d))'
    BY <1>1, OthersKeep, CallsAssumption
  <1> QED
    BY <1>1 DEF TempInv

LEMMA RefuseKeeps ==
    ASSUME TempInv, NEW c \in Callers, Refuse(c) PROVE TempInv'
  <1>1. TempTypes'
    BY DEF TempInv, TempTypes, Refuse
  <1>2. (Trying(c) /\ HonestTo(c))'
    BY DEF TempInv, TempTypes, Refuse, Trying, HonestTo
  <1> QED
    BY <1>1, <1>2, OneCaller DEF Refuse, TempInv, TempTypes

LEMMA RandNameKeeps ==
    ASSUME TempInv, NEW c \in Callers, RandName(c) PROVE TempInv'
  <1>1. TempTypes'
    BY DEF TempInv, TempTypes, RandName
  <1>2. (Trying(c) /\ HonestTo(c))'
    BY DEF TempInv, TempTypes, RandName, Trying, HonestTo
  <1> QED
    BY <1>1, <1>2, OneCaller DEF RandName, TempInv, TempTypes

\* The file is made, and it is the only one of this call.
LEMMA CreateFileKeeps ==
    ASSUME TempInv, NEW c \in Callers, CreateFile(c) PROVE TempInv'
  <1>1. TempTypes'
    BY DEF TempInv, TempTypes, CreateFile
  <1>2. {n \in TempNames : files'[n] = c} = {tempName[c]}
    BY DEF TempInv, TempTypes, CreateFile, HonestTo
  <1>3. template[c].xs /\ template[c].suffix \in 0 .. (template[c].length - 6)
    <2>1. template[c] \in [length : Nat, suffix : Int, xs : BOOLEAN]
      BY CallsAssumption DEF TempInv, TempTypes
    <2>2. ~Invalid(template[c])
      BY DEF TempInv, Trying, CreateFile
    <2> QED
      BY <2>1, <2>2 DEF Invalid
  <1>4. tempRet'[c] = "fd" /\ tempName' = tempName /\ template' = template /\ retries' = retries
    BY DEF TempInv, TempTypes, CreateFile
  <1>5. (Trying(c) /\ HonestTo(c))'
    BY <1>2, <1>3, <1>4 DEF TempInv, Trying, HonestTo
  <1> QED
    BY <1>1, <1>4, <1>5, OneCaller DEF CreateFile, TempInv, TempTypes

\* A name that exists: the next one, or the end of the retries.
LEMMA TakenKeeps ==
    ASSUME TempInv, NEW c \in Callers, Taken(c) PROVE TempInv'
  <1>1. /\ retries[c] \in Nat /\ retries[c] > 0 /\ retries' = [retries EXCEPT ![c] = @ - 1]
        /\ template' = template /\ files' = files /\ tempRet[c] = "none"
        /\ tempName[c] \in TempNames /\ files[tempName[c]] # "none"
    BY DEF TempInv, TempTypes, Taken, Trying
  <1>2. \/ /\ retries[c] > 1 /\ tempRet' = tempRet
           /\ \E n \in TempNames : tempName' = [tempName EXCEPT ![c] = n]
        \/ retries[c] = 1 /\ GiveUp(c, "EEXIST")
    BY DEF Taken
  <1>3. TempTypes'
    BY <1>1, <1>2 DEF TempInv, TempTypes, GiveUp
  <1>4. (Trying(c) /\ HonestTo(c))'
    BY <1>1, <1>2, CallsAssumption DEF TempInv, TempTypes, GiveUp, Trying, HonestTo
  <1>5. ASSUME NEW d \in Callers, d # c
        PROVE  retries'[d] = retries[d] /\ tempName'[d] = tempName[d] /\ tempRet'[d] = tempRet[d]
    BY <1>1, <1>2, <1>5 DEF TempInv, TempTypes, GiveUp
  <1> QED
    BY <1>1, <1>3, <1>4, <1>5, OneCaller

LEMMA OpenRefusedKeeps ==
    ASSUME TempInv, NEW c \in Callers, OpenRefused(c) PROVE TempInv'
  <1>1. /\ retries[c] \in Nat /\ retries[c] > 0 /\ retries' = [retries EXCEPT ![c] = @ - 1]
        /\ template' = template /\ files' = files /\ tempRet[c] = "none" /\ GiveUp(c, "EACCES")
    BY DEF TempInv, TempTypes, OpenRefused, Trying
  <1>2. TempTypes'
    BY <1>1 DEF TempInv, TempTypes, GiveUp
  <1>3. (Trying(c) /\ HonestTo(c))'
    <2>1. /\ retries'[c] \in Nat /\ tempRet'[c] = "EACCES" /\ tempName'[c] = "XXXXXX"
          /\ template'[c] = template[c] /\ files' = files
      BY <1>1 DEF TempInv, TempTypes, GiveUp
    <2>2. {n \in TempNames : files[n] = c} = {}
      BY <1>1 DEF TempInv, HonestTo
    <2>3. "XXXXXX" \notin TempNames
      BY CallsAssumption
    <2> QED
      BY <2>1, <2>2, <2>3 DEF Trying, HonestTo
  <1>4. ASSUME NEW d \in Callers, d # c
        PROVE  retries'[d] = retries[d] /\ tempName'[d] = tempName[d] /\ tempRet'[d] = tempRet[d]
    BY <1>1, <1>4 DEF TempInv, TempTypes, GiveUp
  <1> QED
    BY <1>1, <1>2, <1>3, <1>4, OneCaller

LEMMA TempKeeps == TempInv /\ [TempNext]_tempVars => TempInv'
  <1> SUFFICES ASSUME TempInv, [TempNext]_tempVars PROVE TempInv'
    OBVIOUS
  <1>1. CASE UNCHANGED tempVars
    BY <1>1 DEF tempVars, TempInv, TempTypes, Trying, HonestTo
  <1>2. CASE OtherFile
    <2>1. TempTypes'
      BY <1>2 DEF OtherFile, TempInv, TempTypes
    <2>2. ASSUME NEW c \in Callers PROVE (Trying(c) /\ HonestTo(c))'
      <3>1. \A n \in TempNames : files'[n] = files[n] \/ (files[n] = "none" /\ files'[n] \notin {c, "none"})
        BY <1>2, CallsAssumption DEF OtherFile, TempInv, TempTypes
      <3> QED
        BY <1>2, <3>1, OthersKeep DEF OtherFile
    <2> QED
      BY <2>1, <2>2 DEF TempInv
  <1> QED
    BY <1>1, <1>2, RefuseKeeps, RandNameKeeps, CreateFileKeeps, TakenKeeps, OpenRefusedKeeps DEF TempNext

-----------------------------------------------------------------------------

(***************************************************************************)
(* Calls: getentropy.                                                      *)
(***************************************************************************)

\* What is filled is a part of what is asked for, and of too much nothing is.
EntropyInv ==
    /\ entropyAsked \in Nat /\ filled \in 0 .. entropyAsked
    /\ entropyRet \in {"none", "0", "EIO", "ENOSYS"}
    /\ entropyAsked > 256 => filled = 0
    /\ entropyRet = "ENOSYS" => filled < entropyAsked
    /\ EntropyHonest

LEMMA EntropyStarts == EntropyInit => EntropyInv
  BY CallsAssumption DEF EntropyInit, EntropyIdle, EntropyInv, EntropyHonest

LEMMA EntropyKeeps == EntropyInv /\ [EntropyNext]_entropyVars => EntropyInv'
  <1> SUFFICES ASSUME EntropyInv, [EntropyNext]_entropyVars PROVE EntropyInv'
    OBVIOUS
  <1> USE DEF EntropyInv, EntropyHonest
  <1>1. CASE UNCHANGED entropyVars
    BY <1>1 DEF entropyVars
  <1>2. CASE TooMuch
    BY <1>2 DEF TooMuch
  <1>3. CASE GetRandom
    BY <1>3 DEF GetRandom, Unfilled
  <1>4. CASE Interrupted
    BY <1>4 DEF Interrupted, Unfilled
  <1>5. CASE RandomFails
    BY <1>5 DEF RandomFails, Unfilled
  <1>6. CASE EntropyDone
    BY <1>6 DEF EntropyDone
  <1> QED
    BY <1>1, <1>2, <1>3, <1>4, <1>5, <1>6 DEF EntropyNext

-----------------------------------------------------------------------------

\* execvpe runs the first program along PATH and otherwise tells why there was none.
THEOREM ExecIsHonest == ExecSpec => []ExecHonest
  <1>1. ExecInv => ExecHonest
    BY DEF ExecInv
  <1> QED
    BY <1>1, ExecStarts, ExecKeeps, PTL DEF ExecSpec

\* mkstemps makes one file or none, beside any others that are after the same names.
THEOREM TempIsHonest == TempSpec => []TempHonest
  <1>1. TempInv => TempHonest
    BY DEF TempInv, TempHonest, HonestTo
  <1> QED
    BY <1>1, TempStarts, TempKeeps, PTL DEF TempSpec

\* getentropy says that the buffer is full when it is.
THEOREM EntropyIsHonest == EntropySpec => []EntropyHonest
  <1>1. EntropyInv => EntropyHonest
    BY DEF EntropyInv
  <1> QED
    BY <1>1, EntropyStarts, EntropyKeeps, PTL DEF EntropySpec

\* The calls that try again report what happened.
THEOREM CallsAreHonest == ExecSpec /\ TempSpec /\ EntropySpec => []Honest
  <1>1. ExecHonest /\ TempHonest /\ EntropyHonest => Honest
    BY DEF Honest
  <1> QED
    BY <1>1, ExecIsHonest, TempIsHonest, EntropyIsHonest, PTL

-----------------------------------------------------------------------------

(***************************************************************************)
(* Descriptors.                                                            *)
(***************************************************************************)

\* What the call makes, and what others have.
FileNames == {"own", "connection", "queue"} \cup {t[fd].file : t \in Tables, fd \in Fds}
Entries == [state : {"open"}, file : FileNames, cloexec : BOOLEAN, nonblock : BOOLEAN, new : BOOLEAN]
NewEntries == {e \in Entries : e.new}
OldEntries == {e \in Entries : ~e.new}
Connection(fs) == Descriptor("connection", fs, TRUE)
Queue(fs) == Descriptor("queue", fs, TRUE)

FdSteps == {"start", "accept", "setfd", "setfl", "dup2", "probe", "close", "dupfd", "old", "return"}

CallTypes == modern \in BOOLEAN /\ fdCall \in FdCalls /\ tabBefore \in Tables
TabTypes == tab \in [Fds -> {Free, Busy} \cup NewEntries \cup OldEntries]
FdTypes == CallTypes /\ TabTypes /\ fdStep \in FdSteps /\ target \in Int /\ fdRet \in Int

\* A descriptor the other thread has opened; a dup3 that fails may mark it too.
LikeOwn(e) == e.file = "own" /\ ~e.nonblock
OwnFile(e) == e \in OldEntries /\ LikeOwn(e)
OtherEntries == {Busy} \cup {e \in OldEntries : LikeOwn(e)}

\* A descriptor the call has not made is as it was, or the other thread's.
NotMine(fd) ==
    IF tabBefore[fd].state = "open"
    THEN Untouched(fd) /\ tab[fd] \in OldEntries
    ELSE tab[fd] \in {Free, Busy} \/ OwnFile(tab[fd])

Others == \A fd \in Fds : fd \notin Made => NotMine(fd)

\* What a duplicate has of the descriptor it is made from.
LikeSource(e) == e.file = Source.file /\ (e.nonblock <=> Source.nonblock)

\* A connection that lacks the flags that are set later.
Accepted(fd) == Made = {fd} /\ fd \in Fds /\ tab[fd].file = "connection"

\* What is made at each step; a call that goes on without the new system call has made nothing.
AtStep ==
    /\ fdStep \in {"start", "accept", "dup2", "probe", "dupfd", "old"} => Made = {}
    /\ fdStep = "accept" => fdCall.fn = "accept4" /\ (~modern \/ Wanted("OTHER") \/ ~fdCall.listens)
    /\ fdStep = "dup2" => fdCall.fn = "dup3" /\ fdCall.old # fdCall.new /\ ~modern /\ Wanted("CLOEXEC")
    /\ fdStep \in {"probe", "dupfd", "close"} => fdCall.fn = "fcntl64" /\ IsOpen(fdCall.old)
    /\ fdStep = "dupfd" => ~modern
    /\ fdStep = "close" => modern /\ Made = {target} /\ target # fdCall.old /\ tabBefore[target].state # "open"
    /\ fdStep = "old" => fdCall.fn = "create" /\ flags = {}
    /\ fdStep = "setfl" =>
        /\ fdCall.fn = "accept4" /\ Wanted("NONBLOCK") /\ fdRet = target
        /\ Accepted(target) /\ (tab[target].cloexec <=> Wanted("CLOEXEC"))
    /\ fdStep = "setfd" =>
        \/ /\ fdCall.fn = "accept4" /\ Wanted("CLOEXEC") /\ fdRet = target
           /\ Accepted(target) /\ ~tab[target].nonblock
        \/ /\ fdCall.fn = "dup3" /\ Wanted("CLOEXEC") /\ ~modern /\ target = fdCall.new
           /\ \/ Made = {} /\ fdRet = EBADF
              \/ Made = {target} /\ fdRet = target /\ LikeSource(tab[target])
        \/ /\ fdCall.fn = "fcntl64" /\ fdRet = target /\ target >= fdCall.arg
           /\ Made = {target} /\ LikeSource(tab[target])

\* What Flagged says of the call that returned.
Returned ==
    fdStep = "return" =>
        /\ fdRet \in Fds =>
            /\ Made = {fdRet} /\ LikeSource(tab[fdRet]) /\ (tab[fdRet].cloexec <=> AsksCloexec)
            /\ fdCall.fn = "dup3" => fdRet = fdCall.new
            /\ fdCall.fn = "fcntl64" => fdRet >= fdCall.arg
        /\ fdRet \notin Fds => Made = {}

\* A kernel that can set the flag as it makes the descriptor does so.
SetAtOnce == AsksCloexec /\ modern /\ ~(fdCall.fn = "accept4" /\ Wanted("OTHER"))
NoLeak == SetAtOnce => ~leaked /\ \A fd \in Made : tab[fd].cloexec

FdInv == FdTypes /\ Others /\ AtStep /\ Returned /\ NoLeak

-----------------------------------------------------------------------------

\* An entry is open, and neither free nor busy.
LEMMA FreeIs == Free.state = "free" /\ Busy.state = "busy" /\ Free # Busy
  BY DEF Free, Busy

LEMMA NewIs ==
    ASSUME NEW e \in NewEntries
    PROVE  e.state = "open" /\ e.new /\ e # Free /\ e # Busy /\ e \notin OldEntries
  <1>1. e.state = "open" /\ e.new
    BY DEF Entries, NewEntries
  <1>2. e \notin OldEntries
    BY <1>1 DEF Entries, OldEntries
  <1> QED
    BY <1>1, <1>2, FreeIs

LEMMA OldIs ==
    ASSUME NEW e \in OldEntries
    PROVE  e.state = "open" /\ ~e.new /\ e # Free /\ e # Busy /\ e \notin NewEntries
  <1>1. e.state = "open" /\ ~e.new
    BY DEF Entries, OldEntries
  <1>2. e \notin NewEntries
    BY <1>1 DEF Entries, NewEntries
  <1> QED
    BY <1>1, <1>2, FreeIs

LEMMA FdsAre == Fds \subseteq Nat
  BY DescriptorsAssumption DEF Fds

LEMMA TablesAre ==
    ASSUME NEW t \in Tables
    PROVE  t \in [Fds -> {Free} \cup OldEntries]
  <1>1. t \in [Fds -> {Free} \cup [state : {"open"}, file : STRING, cloexec : BOOLEAN,
                                  nonblock : BOOLEAN, new : BOOLEAN]]
    BY DescriptorsAssumption
  <1>2. ASSUME NEW fd \in Fds, t[fd] # Free PROVE t[fd] \in OldEntries
    <2>1. t[fd] \in [state : {"open"}, file : STRING, cloexec : BOOLEAN, nonblock : BOOLEAN, new : BOOLEAN]
      BY <1>1, <1>2
    <2>2. t[fd].file \in FileNames
      BY DEF FileNames
    <2>3. t[fd] \in Entries
      BY <2>1, <2>2 DEF Entries
    <2> QED
      BY <1>2, <2>3, DescriptorsAssumption DEF OldEntries
  <1> QED
    BY <1>1, <1>2

LEMMA TableIs ==
    ASSUME FdTypes, NEW fd \in Fds
    PROVE  /\ tabBefore[fd] = Free \/ tabBefore[fd] \in OldEntries
           /\ fdCall.flags \subseteq {"CLOEXEC", "NONBLOCK", "OTHER"}
           /\ fdCall.old \in Int /\ fdCall.new \in Int /\ fdCall.arg \in Int
  <1>1. tabBefore \in Tables /\ fdCall \in FdCalls
    BY DEF FdTypes, CallTypes
  <1>2. tabBefore[fd] = Free \/ tabBefore[fd] \in OldEntries
    BY <1>1, TablesAre
  <1> QED
    BY <1>1, <1>2, DescriptorsAssumption

LEMMA EntryOf ==
    \A f \in FileNames, c, n, b \in BOOLEAN :
        [state |-> "open", file |-> f, cloexec |-> c, nonblock |-> n, new |-> b] \in Entries
  BY DEF Entries

LEMMA ConnectionIs ==
    ASSUME NEW fs
    PROVE  /\ Connection(fs) \in NewEntries /\ Connection(fs).file = "connection"
           /\ (Connection(fs).cloexec <=> "CLOEXEC" \in fs) /\ (Connection(fs).nonblock <=> "NONBLOCK" \in fs)
  <1>1. Connection(fs) \in NewEntries /\ Connection(fs).file = "connection"
    <2>1. Connection(fs).file = "connection" /\ Connection(fs).new = TRUE
      BY DEF Connection, Descriptor
    <2>2. ("CLOEXEC" \in fs) \in BOOLEAN /\ ("NONBLOCK" \in fs) \in BOOLEAN /\ TRUE \in BOOLEAN
      OBVIOUS
    <2>3. "connection" \in FileNames
      BY DEF FileNames
    <2>4. Connection(fs) \in Entries
      BY <2>2, <2>3, EntryOf, Zenon DEF Connection, Descriptor
    <2> QED
      BY <2>1, <2>4 DEF NewEntries
  <1>2. Connection(fs).cloexec = ("CLOEXEC" \in fs)
    BY DEF Connection, Descriptor
  <1>3. Connection(fs).nonblock = ("NONBLOCK" \in fs)
    BY DEF Connection, Descriptor
  <1> QED
    BY <1>1, <1>2, <1>3

LEMMA QueueIs ==
    ASSUME NEW fs
    PROVE  /\ Queue(fs) \in NewEntries /\ Queue(fs).file = "queue"
           /\ (Queue(fs).cloexec <=> "CLOEXEC" \in fs) /\ (Queue(fs).nonblock <=> "NONBLOCK" \in fs)
  <1>1. Queue(fs) \in NewEntries /\ Queue(fs).file = "queue"
    <2>1. Queue(fs).file = "queue" /\ Queue(fs).new = TRUE
      BY DEF Queue, Descriptor
    <2>2. ("CLOEXEC" \in fs) \in BOOLEAN /\ ("NONBLOCK" \in fs) \in BOOLEAN /\ TRUE \in BOOLEAN
      OBVIOUS
    <2>3. "queue" \in FileNames
      BY DEF FileNames
    <2>4. Queue(fs) \in Entries
      BY <2>2, <2>3, EntryOf, Zenon DEF Queue, Descriptor
    <2> QED
      BY <2>1, <2>4 DEF NewEntries
  <1>2. Queue(fs).cloexec = ("CLOEXEC" \in fs)
    BY DEF Queue, Descriptor
  <1>3. Queue(fs).nonblock = ("NONBLOCK" \in fs)
    BY DEF Queue, Descriptor
  <1> QED
    BY <1>1, <1>2, <1>3

LEMMA OwnIs ==
    ASSUME NEW b \in BOOLEAN
    PROVE  LikeOwn(Descriptor("own", {}, b))
  <1>1. ("CLOEXEC" \in {}) = FALSE /\ ("NONBLOCK" \in {}) = FALSE
    OBVIOUS
  <1>2. Descriptor("own", {}, b) = [state |-> "open", file |-> "own", cloexec |-> FALSE, nonblock |-> FALSE, new |-> b]
    BY <1>1, Zenon DEF Descriptor, Connection
  <1> QED
    BY <1>2 DEF LikeOwn

\* What the call has made is what is marked as new.
LEMMA MadeIs ==
    ASSUME FdTypes, NEW fd \in Fds
    PROVE  fd \in Made <=> tab[fd] \in NewEntries
  <1>1. tab[fd] \in {Free, Busy} \cup NewEntries \cup OldEntries
    BY DEF FdTypes, TabTypes
  <1>2. CASE tab[fd] \in {Free, Busy}
    <2>1. tab[fd].state # "open"
      BY <1>2 DEF Free, Busy
    <2>2. tab[fd] \notin NewEntries
      BY <2>1, NewIs, OldIs
    <2> QED
      BY <2>1, <2>2 DEF Made, IsOpen
  <1>3. CASE tab[fd] \in NewEntries
    BY <1>3, NewIs, OldIs DEF Made, IsOpen
  <1>4. CASE tab[fd] \in OldEntries
    BY <1>4, NewIs, OldIs DEF Made, IsOpen
  <1> QED
    BY <1>1, <1>2, <1>3, <1>4

SameCall == UNCHANGED <<modern, fdCall, tabBefore>>

\* A step that changes one entry leaves the others as they were.
LEMMA Elsewhere1 ==
    ASSUME SameCall, NEW fd, \A x \in Fds : x # fd => tab'[x] = tab[x]
    PROVE  /\ Made' \ {fd} = Made \ {fd}
           /\ \A x \in Fds : x # fd => (NotMine(x)' <=> NotMine(x))
  <1>1. modern' = modern /\ fdCall' = fdCall /\ tabBefore' = tabBefore
    BY DEF SameCall
  <1>2. Made' \ {fd} = Made \ {fd}
    BY DEF Made, IsOpen
  <1> QED
    BY <1>1, <1>2 DEF NotMine, Untouched, OwnFile, LikeOwn

\* The call makes a descriptor where none was.
LEMMA PutKeeps ==
    ASSUME FdTypes, Others, Made = {}, SameCall, NEW fd \in Fds, tab[fd] = Free,
           NEW e \in NewEntries, tab' = [tab EXCEPT ![fd] = e]
    PROVE  /\ TabTypes' /\ Others' /\ Made' = {fd} /\ tab'[fd] = e /\ tabBefore[fd].state # "open"
           /\ \A d \in Fds : IsOpen(d) => tab'[d] = tab[d]
  <1>1. tab'[fd] = e /\ \A x \in Fds : x # fd => tab'[x] = tab[x]
    BY DEF FdTypes, TabTypes
  <1>2. TabTypes'
    BY DEF FdTypes, TabTypes
  <1>3. fd \in Made'
    BY <1>1, NewIs, OldIs DEF Made, IsOpen
  <1>4. Made' = {fd} /\ Others'
    BY <1>1, <1>3, Elsewhere1 DEF Others
  <1>5. tabBefore[fd].state # "open"
    <2>1. fd \notin Made /\ NotMine(fd)
      BY DEF Others
    <2>2. tab[fd] \notin OldEntries
      BY NewIs, OldIs
    <2> QED
      BY <2>1, <2>2 DEF NotMine
  <1>6. ASSUME NEW d \in Fds, IsOpen(d) PROVE tab'[d] = tab[d]
    BY <1>1, <1>6, FreeIs DEF IsOpen
  <1> QED
    BY <1>1, <1>2, <1>4, <1>5, <1>6

\* A descriptor the call has made is given a flag.
LEMMA MarkKeeps ==
    ASSUME FdTypes, Others, SameCall, NEW fd \in Made,
           tab' = [tab EXCEPT ![fd].cloexec = TRUE] \/ tab' = [tab EXCEPT ![fd].nonblock = TRUE]
    PROVE  TabTypes' /\ Others' /\ Made' = Made
  <1>1. fd \in Fds /\ tab[fd] \in NewEntries
    BY MadeIs DEF Made
  <1>2. [tab[fd] EXCEPT !.cloexec = TRUE] \in NewEntries /\ [tab[fd] EXCEPT !.nonblock = TRUE] \in NewEntries
    BY <1>1 DEF Entries, NewEntries, OldEntries
  <1>3. tab'[fd] \in NewEntries /\ \A x \in Fds : x # fd => tab'[x] = tab[x]
    BY <1>1, <1>2 DEF FdTypes, TabTypes
  <1>4. TabTypes'
    BY <1>1, <1>2 DEF FdTypes, TabTypes
  <1>5. fd \in Made'
    BY <1>1, <1>3, NewIs, OldIs DEF Made, IsOpen
  <1> QED
    BY <1>1, <1>3, <1>4, <1>5, Elsewhere1 DEF Others

\* The source of a duplicate is what it was before the call, or the other thread's.
LEMMA SourceIs ==
    ASSUME FdTypes, Others, fdCall.fn \in {"dup3", "fcntl64"}, IsOpen(fdCall.old), fdCall.old \notin Made
    PROVE  tab[fdCall.old] \in OldEntries /\ LikeSource(tab[fdCall.old])
  <1> DEFINE fd == fdCall.old
  <1>1. fd \in Fds /\ tab[fd].state = "open" /\ NotMine(fd)
    BY DEF IsOpen, Others
  <1>2. CASE tabBefore[fd].state = "open"
    <2>1. tabBefore[fd] \in OldEntries /\ tabBefore[fd] # Free
      BY <1>1, <1>2, TableIs, FreeIs
    <2>2. tab[fd] \in OldEntries /\ Source = tabBefore[fd]
      BY <1>1, <1>2, <2>1 DEF NotMine, Source
    <2>3. tab[fd].file = tabBefore[fd].file /\ tab[fd].nonblock = tabBefore[fd].nonblock
      BY <1>1, <1>2, <2>1 DEF NotMine, Untouched, Entries, NewEntries, OldEntries
    <2> QED
      BY <2>2, <2>3 DEF LikeSource
  <1>3. CASE tabBefore[fd].state # "open"
    <2>1. tabBefore[fd] = Free
      BY <1>1, <1>3, TableIs, NewIs, OldIs
    <2>2. OwnFile(tab[fd])
      <3>1. tab[fd] # Free /\ tab[fd] # Busy
        BY <1>1, FreeIs
      <3>2. tab[fd] \in {Free, Busy} \/ OwnFile(tab[fd])
        BY <1>1, <1>3 DEF NotMine
      <3> QED
        BY <3>1, <3>2
    <2>3. Source = Descriptor("own", {}, TRUE)
      BY <2>1 DEF Source
    <2>4. LikeOwn(Source)
      BY <2>3, OwnIs
    <2> QED
      BY <2>2, <2>4 DEF OwnFile, LikeOwn, LikeSource
  <1> QED
    BY <1>2, <1>3

LEMMA FdStarts == FdInit => FdInv
  <1> SUFFICES ASSUME NEW c \in FdCalls, NEW t \in Tables, NEW m \in BOOLEAN, FdIdle(c, t, m)
               PROVE  FdInv
    BY DEF FdInit
  <1>1. /\ modern = m /\ fdCall = c /\ fdStep = "start" /\ tab = t /\ tabBefore = t
        /\ target = 0 /\ fdRet = 0 /\ leaked = FALSE /\ opens = 0
    BY DEF FdIdle
  <1>2. t \in [Fds -> {Free} \cup OldEntries]
    BY TablesAre
  <1>3. FdTypes
    <2>1. CallTypes /\ fdStep \in FdSteps /\ target \in Int /\ fdRet \in Int
      BY <1>1 DEF CallTypes, FdSteps
    <2>2. TabTypes
      <3>1. \A fd \in Fds : t[fd] \in {Free, Busy} \cup NewEntries \cup OldEntries
        BY <1>2
      <3>2. t \in [Fds -> {Free, Busy} \cup NewEntries \cup OldEntries]
        BY <1>2, <3>1
      <3> QED
        BY <1>1, <3>2 DEF TabTypes
    <2> QED
      BY <2>1, <2>2 DEF FdTypes
  <1>4. Made = {}
    BY <1>1, <1>2, FreeIs, NewIs, OldIs DEF Made, IsOpen
  <1>5. Others
    BY <1>1, <1>2, FreeIs, NewIs, OldIs DEF Others, NotMine, Untouched
  <1> QED
    BY <1>1, <1>3, <1>4, <1>5 DEF FdInv, AtStep, Returned, NoLeak

\* The errors are no descriptors.
LEMMA ErrorsAre ==
    {EBADF, EINVAL, EMFILE, ENOSYS} \cap Fds = {} /\ {EBADF, EINVAL, EMFILE, ENOSYS} \subseteq Int
  BY DescriptorsAssumption DEF EBADF, EINVAL, EMFILE, ENOSYS, Fds

\* The table is as it was.
LEMMA SameTable ==
    ASSUME FdInv, Kept, tab' = tab
    PROVE  /\ TabTypes' /\ Others' /\ Made' = Made /\ NoLeak' /\ SameCall
           /\ \A fd : IsOpen(fd)' <=> IsOpen(fd)
  <1>1. modern' = modern /\ fdCall' = fdCall /\ tabBefore' = tabBefore /\ leaked' = leaked
    BY DEF Kept
  <1>2. TabTypes' /\ Made' = Made /\ SameCall
    BY <1>1 DEF FdInv, FdTypes, TabTypes, Made, IsOpen, SameCall
  <1>3. Others'
    BY <1>1, <1>2 DEF FdInv, Others, NotMine, Untouched, OwnFile, LikeOwn
  <1>4. NoLeak'
    BY <1>1, <1>2 DEF FdInv, NoLeak, SetAtOnce, AsksCloexec, Wanted, flags
  <1> QED
    BY <1>2, <1>3, <1>4 DEF IsOpen

\* A call that has made nothing fails.
LEMMA FailsKeeps ==
    ASSUME FdInv, Kept, Made = {}, NEW e \in {EBADF, EINVAL, EMFILE, ENOSYS}, Fails(e)
    PROVE  FdInv'
  <1>1. fdStep' = "return" /\ fdRet' = e /\ tab' = tab /\ target' = target
    BY DEF Fails, Answer
  <1>2. TabTypes' /\ Others' /\ Made' = Made /\ NoLeak' /\ SameCall
    BY <1>1, SameTable
  <1>3. FdTypes'
    BY <1>1, <1>2, ErrorsAre DEF Kept, FdInv, FdTypes, CallTypes, FdSteps
  <1>4. fdRet' \notin Fds
    BY <1>1, ErrorsAre
  <1>5. Returned'
    BY <1>2, <1>4 DEF Returned, Fds
  <1> QED
    BY <1>1, <1>2, <1>3, <1>5 DEF FdInv, AtStep

\* A call goes on another way, having made nothing.
LEMMA FallsKeeps ==
    ASSUME FdInv, Kept, Made = {}, NEW step \in {"accept", "dup2", "probe", "dupfd", "old"}, Falls(step),
           step = "accept" => fdCall.fn = "accept4" /\ (~modern \/ Wanted("OTHER") \/ ~fdCall.listens),
           step = "dup2" => fdCall.fn = "dup3" /\ fdCall.old # fdCall.new /\ ~modern /\ Wanted("CLOEXEC"),
           step \in {"probe", "dupfd"} => fdCall.fn = "fcntl64" /\ IsOpen(fdCall.old),
           step = "dupfd" => ~modern,
           step = "old" => fdCall.fn = "create" /\ flags = {}
    PROVE  FdInv'
  <1>1. fdStep' = step /\ fdRet' = fdRet /\ tab' = tab /\ target' = target
    BY DEF Falls, GoOn
  <1>2. TabTypes' /\ Others' /\ Made' = Made /\ NoLeak' /\ SameCall /\ \A fd : IsOpen(fd)' <=> IsOpen(fd)
    BY <1>1, SameTable
  <1>3. modern' = modern /\ fdCall' = fdCall
    BY DEF Kept
  <1>4. FdTypes'
    BY <1>1, <1>2 DEF Kept, FdInv, FdTypes, CallTypes, FdSteps
  <1>5. IsOpen(fdCall.old)' <=> IsOpen(fdCall.old)
    BY <1>1, <1>3 DEF IsOpen
  <1>6. AtStep'
    BY <1>1, <1>2, <1>3, <1>5 DEF AtStep, Wanted, flags
  <1>7. Returned'
    BY <1>1 DEF Returned
  <1> QED
    BY <1>2, <1>4, <1>6, <1>7 DEF FdInv

\* What is made does not leak, if the kernel can make it with its flag.
LEMMA NoLeakYet ==
    ASSUME FdInv, Kept, NEW fd, Made' = {fd}, SetAtOnce => tab'[fd].cloexec
    PROVE  NoLeak'
  BY DEF FdInv, NoLeak, SetAtOnce, AsksCloexec, Wanted, flags, Kept

\* A call makes its descriptor and returns it.
LEMMA MakesReturns ==
    ASSUME FdInv, Kept, Made = {}, NEW e \in NewEntries, NEW fd \in Fds, tab[fd] = Free,
           tab' = [tab EXCEPT ![fd] = e], target' = fd, Answer(fd),
           LikeSource(e), e.cloexec <=> AsksCloexec, fdCall.fn \in {"accept4", "create"}
    PROVE  FdInv'
  <1>1. SameCall /\ FdTypes /\ Others /\ modern' = modern /\ fdCall' = fdCall /\ tabBefore' = tabBefore
    BY DEF Kept, SameCall, FdInv
  <1>2. /\ TabTypes' /\ Others' /\ target' \in Fds /\ fdRet' = target' /\ fdStep' = "return"
        /\ Made' = {target'} /\ tab'[target'] = e
    BY <1>1, PutKeeps DEF Answer
  <1>3. LikeSource(e)' /\ AsksCloexec' = AsksCloexec
    BY <1>1 DEF LikeSource, Source, AsksCloexec, Wanted, flags
  <1>4. Returned'
    BY <1>1, <1>2, <1>3 DEF Returned, LikeSource, Source
  <1>5. FdTypes'
    BY <1>1, <1>2, FdsAre DEF FdTypes, CallTypes, FdSteps
  <1>6. NoLeak'
    BY <1>2, NoLeakYet DEF SetAtOnce
  <1> QED
    BY <1>2, <1>4, <1>5, <1>6 DEF FdInv, AtStep

LEMMA Accept4Keeps == FdInv /\ Accept4 => FdInv'
  <1> SUFFICES ASSUME FdInv, Accept4 PROVE FdInv'
    OBVIOUS
  <1>1. fdCall.fn = "accept4" /\ fdStep = "start" /\ Kept /\ Made = {}
    BY DEF Accept4, At, FdInv, AtStep
  <1>2. CASE ~Wanted("OTHER") /\ Makes(0, Connection(flags), "return")
    <2>1. Connection(flags) \in NewEntries
      BY ConnectionIs
    <2>2. LikeSource(Connection(flags))
      BY <1>1 DEF LikeSource, Source, Connection
    <2>3. Connection(flags).cloexec <=> AsksCloexec
      BY <1>1, ConnectionIs DEF AsksCloexec, Wanted
    <2>4. PICK fd \in Fds : /\ tab[fd] = Free /\ tab' = [tab EXCEPT ![fd] = Connection(flags)]
                              /\ target' = fd /\ Answer(fd)
      BY <1>2 DEF Makes, Lowest
    <2> QED
      BY <1>1, <2>1, <2>2, <2>3, <2>4, MakesReturns
  <1>3. CASE Fails(EMFILE)
    BY <1>1, <1>3, FailsKeeps
  <1>4. CASE (~modern \/ Wanted("OTHER") \/ ~fdCall.listens) /\ Falls("accept")
    BY <1>1, <1>4, FallsKeeps
  <1> QED
    BY <1>2, <1>3, <1>4 DEF Accept4, Connection

\* What has been made stays alone, and the call goes on to set a flag.
LEMMA MakesGoesOn ==
    ASSUME FdInv, Kept, Made = {}, NEW e \in NewEntries, NEW fd \in Fds, tab[fd] = Free,
           tab' = [tab EXCEPT ![fd] = e], target' = fd, fdRet' = fd,
           NEW step \in FdSteps \ {"return"}, fdStep' = step, SetAtOnce => e.cloexec
    PROVE  /\ FdTypes' /\ Others' /\ Returned' /\ NoLeak'
           /\ fdStep' = step /\ fdRet' = target' /\ target' = fd
           /\ Made' = {target'} /\ tab'[target'] = e
           /\ tab[target'] = Free /\ tabBefore[target'].state # "open"
           /\ \A d \in Fds : IsOpen(d) => tab'[d] = tab[d]
           /\ modern' = modern /\ fdCall' = fdCall /\ tabBefore' = tabBefore
  <1>1. SameCall /\ FdTypes /\ Others /\ modern' = modern /\ fdCall' = fdCall /\ tabBefore' = tabBefore
    BY DEF Kept, SameCall, FdInv
  <1>2. /\ TabTypes' /\ Others' /\ target' \in Fds /\ fdRet' = target'
        /\ fdStep' = step /\ Made' = {target'} /\ tab'[target'] = e
        /\ tab[target'] = Free /\ tabBefore[target'].state # "open"
        /\ \A d \in Fds : IsOpen(d) => tab'[d] = tab[d]
    BY <1>1, PutKeeps
  <1>3. FdTypes'
    BY <1>1, <1>2, FdsAre DEF FdTypes, CallTypes, FdSteps
  <1>4. NoLeak'
    BY <1>2, NoLeakYet
  <1> QED
    BY <1>1, <1>2, <1>3, <1>4 DEF Returned

LEMMA AcceptKeeps == FdInv /\ Accept => FdInv'
  <1> SUFFICES ASSUME FdInv, Accept PROVE FdInv'
    OBVIOUS
  <1> DEFINE e == Connection({})
  <1>1. /\ fdCall.fn = "accept4" /\ Kept /\ Made = {}
        /\ flags = {} \/ ~modern \/ Wanted("OTHER") \/ ~fdCall.listens
    BY DEF Accept, At, FdInv, AtStep
  <1>2. e \in NewEntries
    BY ConnectionIs
  <1>3. CASE fdCall.listens /\ Makes(0, e, AfterAccept)
    <2>1. ~SetAtOnce
      BY <1>1, <1>3 DEF SetAtOnce, AsksCloexec, Wanted
    <2>2. CASE AfterAccept = "return"
      <3>1. ~Wanted("CLOEXEC") /\ ~Wanted("NONBLOCK")
        BY <2>2 DEF AfterAccept
      <3>2. e.cloexec <=> AsksCloexec
        BY <1>1, <3>1, ConnectionIs DEF AsksCloexec
      <3>3. LikeSource(e)
        <4>1. Source = Connection(flags)
          BY <1>1 DEF Source, Connection
        <4> QED
          BY <3>1, <4>1, ConnectionIs DEF LikeSource, Wanted
      <3> QED
        <4>1. PICK fd \in Fds : tab[fd] = Free /\ tab' = [tab EXCEPT ![fd] = e] /\ target' = fd /\ Answer(fd)
          BY <1>3, <2>2 DEF Makes, Lowest
        <4> QED
          BY <1>1, <1>2, <3>2, <3>3, <4>1, MakesReturns
    <2>3. CASE AfterAccept # "return"
      <3>1. \/ AfterAccept = "setfd" /\ Wanted("CLOEXEC")
            \/ AfterAccept = "setfl" /\ Wanted("NONBLOCK") /\ ~Wanted("CLOEXEC")
        BY <2>3 DEF AfterAccept
      <3>2. AfterAccept \in FdSteps \ {"return"}
        BY <3>1 DEF FdSteps
      <3>3. /\ FdTypes' /\ Others' /\ Returned' /\ NoLeak'
            /\ fdStep' = AfterAccept /\ fdRet' = target' /\ target' \in Fds
            /\ Made' = {target'} /\ tab'[target'] = e
            /\ modern' = modern /\ fdCall' = fdCall /\ tabBefore' = tabBefore
        <4>1. PICK fd \in Fds : /\ tab[fd] = Free /\ tab' = [tab EXCEPT ![fd] = e] /\ target' = fd
                                  /\ fdStep' = AfterAccept /\ fdRet' = fd
          BY <1>3, <2>3 DEF Makes, Lowest
        <4> QED
          BY <1>1, <1>2, <2>1, <3>2, <4>1, MakesGoesOn
      <3>6. tab'[target'].file = "connection" /\ ~tab'[target'].nonblock /\ ~tab'[target'].cloexec
        BY <3>3, ConnectionIs
      <3> HIDE DEF e
      <3>4. CASE AfterAccept = "setfd" /\ Wanted("CLOEXEC")
        BY <1>1, <3>3, <3>4, <3>6 DEF FdInv, AtStep, Accepted, Wanted, flags
      <3>5. CASE AfterAccept = "setfl" /\ Wanted("NONBLOCK") /\ ~Wanted("CLOEXEC")
        BY <1>1, <3>3, <3>5, <3>6 DEF FdInv, AtStep, Accepted, Wanted, flags
      <3> QED
        BY <3>1, <3>4, <3>5
    <2> QED
      BY <2>2, <2>3
  <1>4. CASE Fails(EMFILE) \/ Fails(EINVAL)
    BY <1>1, <1>4, FailsKeeps
  <1> QED
    BY <1>3, <1>4 DEF Accept, Connection

\* An accepted connection gets the flag it lacks.
LEMMA SetFlKeeps == FdInv /\ SetFl => FdInv'
  <1> SUFFICES ASSUME FdInv, SetFl PROVE FdInv'
    OBVIOUS
  <1> DEFINE e == tab[target]
  <1>1. /\ fdCall.fn = "accept4" /\ Wanted("NONBLOCK") /\ fdRet = target /\ target \in Fds
        /\ Made = {target} /\ e.file = "connection" /\ (e.cloexec <=> Wanted("CLOEXEC")) /\ Kept
        /\ tab' = [tab EXCEPT ![target].nonblock = TRUE]
        /\ fdStep' = "return" /\ fdRet' = fdRet /\ target' = target
        /\ FdTypes /\ Others
    BY DEF SetFl, FdInv, AtStep, Accepted, GoOn
  <1>2. modern' = modern /\ fdCall' = fdCall /\ tabBefore' = tabBefore /\ leaked' = leaked /\ SameCall
    BY <1>1 DEF Kept, SameCall
  <1>3. TabTypes' /\ Others' /\ Made' = Made
    BY <1>1, <1>2, MarkKeeps
  <1>4. /\ tab'[target].file = "connection" /\ tab'[target].nonblock
        /\ tab'[target].cloexec <=> "CLOEXEC" \in flags
    <2>1. e.file = "connection" /\ (e.cloexec <=> "CLOEXEC" \in flags) /\ e \in Entries
      BY <1>1, MadeIs DEF NewEntries, Wanted
    <2>2. tab'[target] = [e EXCEPT !.nonblock = TRUE]
      BY <1>1 DEF FdTypes, TabTypes
    <2> HIDE DEF e
    <2>3. tab'[target].file = e.file /\ tab'[target].nonblock /\ (tab'[target].cloexec <=> e.cloexec)
      BY <2>1, <2>2 DEF Entries
    <2> QED
      BY <2>1, <2>3
  <1>5. Source'.file = "connection" /\ Source'.nonblock
    <2>1. Source' = Connection(flags)
      BY <1>1, <1>2 DEF Source, Connection, flags
    <2> QED
      BY <1>1, <2>1, ConnectionIs DEF Wanted
  <1>6. AsksCloexec' <=> "CLOEXEC" \in flags
    BY <1>1, <1>2 DEF AsksCloexec, Wanted, flags
  <1>7. Returned'
    BY <1>1, <1>2, <1>3, <1>4, <1>5, <1>6 DEF Returned, LikeSource
  <1>8. FdTypes'
    BY <1>1, <1>2, <1>3 DEF FdTypes, CallTypes, FdSteps
  <1>9. NoLeak'
    <2>1. SetAtOnce' <=> SetAtOnce
      BY <1>2 DEF SetAtOnce, AsksCloexec, Wanted, flags
    <2>2. SetAtOnce => "CLOEXEC" \in flags
      BY <1>1 DEF SetAtOnce, AsksCloexec, Wanted
    <2> QED
      BY <1>1, <1>2, <1>3, <1>4, <2>1, <2>2 DEF FdInv, NoLeak
  <1> QED
    BY <1>1, <1>3, <1>7, <1>8, <1>9 DEF FdInv, AtStep

\* Only the flag changes.
LEMMA FlagIs ==
    ASSUME NEW e \in Entries, NEW d, d = [e EXCEPT !.cloexec = TRUE]
    PROVE  d \in Entries /\ d.file = e.file /\ (d.nonblock <=> e.nonblock) /\ d.cloexec /\ (d.new <=> e.new)
  <1>1. d \in Entries
    BY DEF Entries
  <1>2. d.file = e.file /\ (d.nonblock <=> e.nonblock) /\ (d.new <=> e.new)
    BY DEF Entries
  <1>3. d.cloexec
    BY DEF Entries
  <1> QED
    BY <1>1, <1>2, <1>3

LEMMA MarkIs ==
    ASSUME FdTypes, NEW fd \in Fds, IsOpen(fd), tab' = [tab EXCEPT ![fd].cloexec = TRUE]
    PROVE  /\ tab'[fd] = [tab[fd] EXCEPT !.cloexec = TRUE]
           /\ tab'[fd].file = tab[fd].file /\ (tab'[fd].nonblock <=> tab[fd].nonblock)
           /\ tab'[fd].cloexec
           /\ tab[fd] \in OldEntries => tab'[fd] \in OldEntries
           /\ \A x \in Fds : x # fd => tab'[x] = tab[x]
  <1>1. tab[fd] \in NewEntries \/ tab[fd] \in OldEntries
    BY FreeIs DEF FdTypes, TabTypes, IsOpen
  <1>2. tab'[fd] = [tab[fd] EXCEPT !.cloexec = TRUE] /\ \A x \in Fds : x # fd => tab'[x] = tab[x]
    BY DEF FdTypes, TabTypes
  <1>3. tab[fd] \in Entries
    BY <1>1 DEF NewEntries, OldEntries
  <1>4. /\ tab'[fd].file = tab[fd].file /\ (tab'[fd].nonblock <=> tab[fd].nonblock)
        /\ tab'[fd].cloexec /\ tab'[fd] \in Entries /\ (tab'[fd].new <=> tab[fd].new)
    BY <1>2, <1>3, FlagIs
  <1> QED
    BY <1>2, <1>4 DEF OldEntries

\* accept4 and fcntl64 set the flag of what they have made.
LEMMA SetFdOfMade ==
    ASSUME FdInv, SetFd, target \in Made
    PROVE  FdInv'
  <1>1. /\ FdTypes /\ Others /\ AtStep /\ fdStep = "setfd" /\ Kept /\ target' = target /\ fdRet' = fdRet
        /\ fdStep' = IF fdCall.fn = "accept4" /\ Wanted("NONBLOCK") THEN "setfl" ELSE "return"
    BY DEF SetFd, FdInv, GoOn
  <1>2. target \in Fds /\ IsOpen(target) /\ tab[target] \in NewEntries
    BY <1>1, MadeIs DEF Made
  <1>3. tab' = [tab EXCEPT ![target].cloexec = TRUE]
    BY <1>2 DEF SetFd
  <1>4. modern' = modern /\ fdCall' = fdCall /\ tabBefore' = tabBefore /\ leaked' = leaked /\ SameCall
    BY <1>1 DEF Kept, SameCall
  <1>5. TabTypes' /\ Others' /\ Made' = Made
    BY <1>1, <1>3, <1>4, MarkKeeps
  <1>6. /\ tab'[target].file = tab[target].file /\ (tab'[target].nonblock <=> tab[target].nonblock)
        /\ tab'[target].cloexec /\ tab'[target] = [tab[target] EXCEPT !.cloexec = TRUE]
    BY <1>1, <1>2, <1>3, MarkIs
  <1>7. Source' = Source /\ (AsksCloexec' <=> AsksCloexec)
    BY <1>4 DEF Source, AsksCloexec, Wanted, flags
  <1>8. Made = {target} /\ fdRet = target
    BY <1>1, <1>2, ErrorsAre DEF AtStep, Accepted
  <1>9. FdTypes'
    BY <1>1, <1>4, <1>5 DEF FdTypes, CallTypes, FdSteps
  <1>10. NoLeak'
    <2>1. SetAtOnce' <=> SetAtOnce
      BY <1>4 DEF SetAtOnce, AsksCloexec, Wanted, flags
    <2> QED
      BY <1>4, <1>5, <1>6, <1>8, <2>1 DEF FdInv, NoLeak
  <1>11. CASE fdCall.fn = "accept4"
    <2>1. Wanted("CLOEXEC") /\ tab[target].file = "connection" /\ ~tab[target].nonblock
      BY <1>1, <1>11 DEF AtStep, Accepted
    <2>2. CASE Wanted("NONBLOCK")
      <3>2. AtStep'
        BY <1>1, <1>2, <1>4, <1>5, <1>6, <1>8, <1>11, <2>1, <2>2 DEF AtStep, Accepted, Wanted, flags
      <3> QED
        BY <1>1, <1>5, <1>9, <1>10, <1>11, <2>2, <3>2 DEF FdInv, Returned
    <2>3. CASE ~Wanted("NONBLOCK")
      <3>1. Source = Connection(flags)
        BY <1>11 DEF Source, Connection
      <3>3. LikeSource(tab[target])
        BY <2>1, <2>3, <3>1, ConnectionIs DEF LikeSource, Wanted
      <3>4. AsksCloexec
        BY <2>1 DEF AsksCloexec
      <3>5. Returned'
        BY <1>1, <1>2, <1>4, <1>5, <1>6, <1>7, <1>8, <1>11, <3>3, <3>4 DEF Returned, LikeSource
      <3> QED
        BY <1>1, <1>5, <1>9, <1>10, <2>3, <3>5 DEF FdInv, AtStep
    <2> QED
      BY <2>2, <2>3
  <1>12. CASE fdCall.fn # "accept4"
    <2>1. LikeSource(tab[target]) /\ AsksCloexec
      BY <1>1, <1>8, <1>12 DEF AtStep, AsksCloexec
    <2>2. fdCall.fn = "dup3" => target = fdCall.new
      BY <1>1, <1>12 DEF AtStep
    <2>3. fdCall.fn = "fcntl64" => target >= fdCall.arg
      BY <1>1, <1>12 DEF AtStep
    <2>4. Returned'
      BY <1>1, <1>2, <1>4, <1>5, <1>6, <1>7, <1>8, <2>1, <2>2, <2>3 DEF Returned, LikeSource
    <2> QED
      BY <1>1, <1>5, <1>9, <1>10, <1>12, <2>4 DEF FdInv, AtStep
  <1> QED
    BY <1>11, <1>12

\* dup3 marks new after a dup2 that failed too.
LEMMA SetFdOfOther ==
    ASSUME FdInv, SetFd, target \notin Made
    PROVE  FdInv'
  <1>1. /\ FdTypes /\ Others /\ fdStep = "setfd" /\ Kept /\ target' = target /\ fdRet' = fdRet
        /\ fdCall.fn = "dup3" /\ ~modern /\ target = fdCall.new /\ Made = {} /\ fdRet = EBADF
    BY DEF SetFd, FdInv, GoOn, AtStep, Accepted
  <1>2. fdStep' = "return"
    BY <1>1 DEF SetFd, GoOn
  <1>3. modern' = modern /\ fdCall' = fdCall /\ tabBefore' = tabBefore /\ leaked' = leaked /\ SameCall
    BY <1>1 DEF Kept, SameCall
  <1>4. TabTypes' /\ Others' /\ Made' = {}
    <2>1. CASE ~IsOpen(target)
      <3>1. tab' = tab
        BY <2>1 DEF SetFd
      <3> QED
        BY <1>1, <3>1, SameTable
    <2>2. CASE IsOpen(target)
      <3>1. target \in Fds /\ tab' = [tab EXCEPT ![target].cloexec = TRUE]
        BY <2>2 DEF SetFd, IsOpen
      <3>2. /\ tab'[target] = [tab[target] EXCEPT !.cloexec = TRUE]
            /\ tab'[target].file = tab[target].file /\ (tab'[target].nonblock <=> tab[target].nonblock)
            /\ tab[target] \in OldEntries => tab'[target] \in OldEntries
            /\ \A x \in Fds : x # target => tab'[x] = tab[x]
        BY <1>1, <2>2, <3>1, MarkIs
      <3>3. tab[target] \in OldEntries /\ NotMine(target)
        <4>1. tab[target].state = "open" /\ ~tab[target].new
          BY <1>1, <2>2 DEF Made, IsOpen
        <4> QED
          BY <1>1, <3>1, <4>1, FreeIs, NewIs DEF FdTypes, TabTypes, Others
      <3>4. tab'[target] \in OldEntries
        BY <3>2, <3>3
      <3>5. TabTypes'
        BY <1>1, <3>1, <3>2, <3>4 DEF FdTypes, TabTypes
      <3>6. NotMine(target)'
        <4>1. CASE tabBefore[target].state = "open"
          <5>1. tab[target] = tabBefore[target] \/ tab[target] = [tabBefore[target] EXCEPT !.cloexec = TRUE]
            BY <3>3, <4>1 DEF NotMine, Untouched
          <5>2. tabBefore[target] \in Entries
            BY <1>1, <3>1, <4>1, TableIs, FreeIs DEF OldEntries
          <5>3. tab'[target] = [tabBefore[target] EXCEPT !.cloexec = TRUE]
            BY <3>2, <5>1, <5>2 DEF Entries
          <5> QED
            BY <1>1, <1>3, <3>4, <4>1, <5>3 DEF NotMine, Untouched
        <4>2. CASE tabBefore[target].state # "open"
          <5>1. OwnFile(tab[target])
            BY <3>3, <4>2, OldIs DEF NotMine
          <5> QED
            BY <1>1, <1>3, <3>2, <3>4, <4>2, <5>1 DEF NotMine, OwnFile, LikeOwn
        <4> QED
          BY <4>1, <4>2
      <3>7. Made' = {}
        <4>1. target \notin Made'
          BY <3>4, OldIs DEF Made, OldEntries
        <4> QED
          BY <1>1, <1>3, <3>2, <4>1, Elsewhere1
      <3>8. Others'
        BY <1>1, <1>3, <3>2, <3>6, Elsewhere1 DEF Others
      <3> QED
        BY <3>5, <3>7, <3>8
    <2> QED
      BY <2>1, <2>2
  <1>5. FdTypes'
    BY <1>1, <1>2, <1>3, <1>4 DEF FdTypes, CallTypes, FdSteps
  <1>6. fdRet' \notin Fds
    BY <1>1, ErrorsAre
  <1>7. Returned' /\ NoLeak'
    BY <1>1, <1>3, <1>4, <1>6 DEF FdInv, Returned, NoLeak, SetAtOnce, Fds
  <1> QED
    BY <1>2, <1>4, <1>5, <1>7 DEF FdInv, AtStep

LEMMA SetFdKeeps == FdInv /\ SetFd => FdInv'
  BY SetFdOfMade, SetFdOfOther

\* A duplicate has the file of what it is made from, and a flag of its own.
LEMMA DuplicateIs ==
    ASSUME NEW o \in OldEntries
    PROVE  /\ Duplicate(o, TRUE) \in NewEntries /\ Duplicate(o, TRUE).file = o.file
           /\ (Duplicate(o, TRUE).nonblock <=> o.nonblock) /\ Duplicate(o, TRUE).cloexec
           /\ Duplicate(o, FALSE) \in NewEntries /\ Duplicate(o, FALSE).file = o.file
           /\ (Duplicate(o, FALSE).nonblock <=> o.nonblock) /\ ~Duplicate(o, FALSE).cloexec
  <1>1. o \in Entries
    BY DEF OldEntries
  <1>2. Duplicate(o, TRUE) \in Entries /\ Duplicate(o, FALSE) \in Entries
    BY <1>1 DEF Entries, Duplicate
  <1>3. /\ Duplicate(o, TRUE).file = o.file /\ (Duplicate(o, TRUE).nonblock <=> o.nonblock)
        /\ Duplicate(o, FALSE).file = o.file /\ (Duplicate(o, FALSE).nonblock <=> o.nonblock)
    BY <1>1 DEF Entries, Duplicate
  <1>4. /\ Duplicate(o, TRUE).new /\ Duplicate(o, TRUE).cloexec
        /\ Duplicate(o, FALSE).new /\ ~Duplicate(o, FALSE).cloexec
    BY <1>1 DEF Entries, Duplicate
  <1> QED
    BY <1>2, <1>3, <1>4 DEF NewEntries

\* dup2 and dup3 put it in the place of new.
LEMMA PlaceKeeps ==
    ASSUME FdTypes, Others, Made = {}, SameCall, NEW fd \in Fds, NEW e \in NewEntries,
           tab' = [tab EXCEPT ![fd] = e]
    PROVE  TabTypes' /\ Others' /\ Made' = {fd} /\ tab'[fd] = e
  <1>1. tab'[fd] = e /\ \A x \in Fds : x # fd => tab'[x] = tab[x]
    BY DEF FdTypes, TabTypes
  <1>2. TabTypes'
    BY DEF FdTypes, TabTypes
  <1>3. fd \in Made'
    BY <1>1, NewIs DEF Made, IsOpen
  <1> QED
    BY <1>1, <1>2, <1>3, Elsewhere1 DEF Others

LEMMA Dup3Keeps == FdInv /\ Dup3 => FdInv'
  <1> SUFFICES ASSUME FdInv, Dup3 PROVE FdInv'
    OBVIOUS
  <1>1. fdCall.fn = "dup3" /\ fdStep = "start" /\ Kept /\ Made = {} /\ FdTypes /\ Others
    BY DEF Dup3, At, FdInv, AtStep
  <1>2. CASE Fails(EINVAL) \/ Fails(EBADF)
    BY <1>1, <1>2, FailsKeeps
  <1>3. CASE fdCall.old # fdCall.new /\ Wanted("CLOEXEC") /\ ~modern /\ Falls("dup2")
    BY <1>1, <1>3, FallsKeeps
  <1>4. CASE flags = {"CLOEXEC"} /\ Duplicates(TRUE, "return") /\ UNCHANGED target
    <2> DEFINE e == Duplicate(tab[fdCall.old], TRUE)
    <2>1. /\ IsOpen(fdCall.old) /\ fdCall.new \in Fds /\ tab' = [tab EXCEPT ![fdCall.new] = e]
          /\ fdStep' = "return" /\ fdRet' = fdCall.new /\ target' = target
      BY <1>4 DEF Duplicates
    <2>2. tab[fdCall.old] \in OldEntries /\ LikeSource(tab[fdCall.old])
      BY <1>1, <2>1, SourceIs
    <2>3. modern' = modern /\ fdCall' = fdCall /\ tabBefore' = tabBefore /\ leaked' = leaked /\ SameCall
      BY <1>1 DEF Kept, SameCall
    <2>4. /\ TabTypes' /\ Others' /\ Made' = {fdCall.new} /\ tab'[fdCall.new] = e
          /\ e.file = tab[fdCall.old].file /\ (e.nonblock <=> tab[fdCall.old].nonblock) /\ e.cloexec
      <3>1. /\ e \in NewEntries /\ e.file = tab[fdCall.old].file
            /\ (e.nonblock <=> tab[fdCall.old].nonblock) /\ e.cloexec
        BY <2>2, DuplicateIs
      <3> HIDE DEF e
      <3> QED
        BY <1>1, <2>1, <2>3, <3>1, PlaceKeeps
    <2> HIDE DEF e
    <2>5. AsksCloexec
      BY <1>4 DEF AsksCloexec, Wanted
    <2>6. Source' = Source /\ (AsksCloexec' <=> AsksCloexec)
      BY <2>3 DEF Source, AsksCloexec, Wanted, flags
    <2>7. Returned'
      BY <1>1, <2>1, <2>2, <2>3, <2>4, <2>5, <2>6 DEF Returned, LikeSource
    <2>8. NoLeak'
      BY <1>1, <2>3, <2>4, NoLeakYet
    <2>9. FdTypes'
      <3>1. fdCall.new \in Int
        BY <1>1, DescriptorsAssumption DEF FdTypes, CallTypes
      <3> QED
        BY <1>1, <2>1, <2>3, <2>4, <3>1 DEF FdTypes, CallTypes, FdSteps
    <2> QED
      BY <2>1, <2>4, <2>7, <2>8, <2>9 DEF FdInv, AtStep
  <1> QED
    BY <1>2, <1>3, <1>4 DEF Dup3

LEMMA Dup2Keeps == FdInv /\ Dup2 => FdInv'
  <1> SUFFICES ASSUME FdInv, Dup2 PROVE FdInv'
    OBVIOUS
  <1> DEFINE step == IF Wanted("CLOEXEC") THEN "setfd" ELSE "return"
  <1>1. /\ fdCall.fn = "dup3" /\ Kept /\ Made = {} /\ FdTypes /\ Others /\ target' = fdCall.new
        /\ fdCall.old # fdCall.new /\ (Wanted("CLOEXEC") => ~modern)
    BY DEF Dup2, At, FdInv, AtStep
  <1>2. modern' = modern /\ fdCall' = fdCall /\ tabBefore' = tabBefore /\ leaked' = leaked /\ SameCall
    BY <1>1 DEF Kept, SameCall
  <1>3. Source' = Source /\ (AsksCloexec' <=> AsksCloexec) /\ (AsksCloexec <=> Wanted("CLOEXEC"))
    BY <1>1, <1>2 DEF Source, AsksCloexec, Wanted, flags
  <1>4. fdCall.new \in Int
    BY <1>1, DescriptorsAssumption DEF FdTypes, CallTypes
  <1>5. CASE NotDuplicable /\ fdStep' = step /\ fdRet' = EBADF /\ UNCHANGED tab
    <2>1. TabTypes' /\ Others' /\ Made' = Made /\ NoLeak'
      BY <1>1, <1>5, SameTable
    <2>2. FdTypes'
      BY <1>1, <1>2, <1>4, <1>5, <2>1, ErrorsAre DEF FdTypes, CallTypes, FdSteps
    <2>3. Returned'
      BY <1>1, <1>5, <2>1, ErrorsAre DEF Returned, Fds
    <2>4. AtStep'
      BY <1>1, <1>2, <1>5, <2>1 DEF AtStep, Wanted, flags, EBADF
    <2> QED
      BY <2>1, <2>2, <2>3, <2>4 DEF FdInv
  <1>6. CASE Duplicates(FALSE, step)
    <2> DEFINE e == Duplicate(tab[fdCall.old], FALSE)
    <2>1. /\ IsOpen(fdCall.old) /\ fdCall.new \in Fds /\ tab' = [tab EXCEPT ![fdCall.new] = e]
          /\ fdStep' = step /\ fdRet' = fdCall.new
      BY <1>6 DEF Duplicates
    <2>2. tab[fdCall.old] \in OldEntries /\ LikeSource(tab[fdCall.old])
      BY <1>1, <2>1, SourceIs
    <2>3. /\ e \in NewEntries /\ e.file = tab[fdCall.old].file
          /\ (e.nonblock <=> tab[fdCall.old].nonblock) /\ ~e.cloexec
      BY <2>2, DuplicateIs
    <2> HIDE DEF e
    <2>4. /\ TabTypes' /\ Others' /\ Made' = {fdCall.new} /\ tab'[fdCall.new] = e
          /\ e.file = tab[fdCall.old].file /\ (e.nonblock <=> tab[fdCall.old].nonblock) /\ ~e.cloexec
      BY <1>1, <1>2, <2>1, <2>3, PlaceKeeps
    <2>5. LikeSource(e)
      BY <2>2, <2>4 DEF LikeSource
    <2>6. Returned'
      BY <1>1, <1>2, <1>3, <2>1, <2>4, <2>5 DEF Returned, LikeSource
    <2>7. AtStep'
      BY <1>1, <1>2, <1>3, <2>1, <2>4, <2>5 DEF AtStep, LikeSource, Wanted, flags
    <2>8. NoLeak'
      <3>1. ~SetAtOnce
        BY <1>1, <1>3 DEF SetAtOnce
      <3> QED
        BY <1>1, <2>4, <3>1, NoLeakYet
    <2>9. FdTypes'
      BY <1>1, <1>2, <1>4, <2>1, <2>4 DEF FdTypes, CallTypes, FdSteps
    <2> QED
      BY <2>4, <2>6, <2>7, <2>8, <2>9 DEF FdInv
  <1> QED
    BY <1>5, <1>6 DEF Dup2
\* The source of a fcntl64 that has made nothing, and what a duplicate of it is like.
LEMMA CopyIs ==
    ASSUME FdInv, Made = {}, fdCall.fn = "fcntl64", IsOpen(fdCall.old)
    PROVE  /\ Duplicate(tab[fdCall.old], TRUE) \in NewEntries /\ Duplicate(tab[fdCall.old], FALSE) \in NewEntries
           /\ LikeSource(Duplicate(tab[fdCall.old], TRUE)) /\ LikeSource(Duplicate(tab[fdCall.old], FALSE))
           /\ Duplicate(tab[fdCall.old], TRUE).cloexec
  <1>1. tab[fdCall.old] \in OldEntries /\ LikeSource(tab[fdCall.old])
    BY SourceIs DEF FdInv
  <1> QED
    BY <1>1, DuplicateIs DEF LikeSource

\* fcntl64 has made its descriptor from arg on, and goes on to set the flag.
LEMMA CopyGoesOn ==
    ASSUME FdInv, Kept, Made = {}, fdCall.fn = "fcntl64", IsOpen(fdCall.old),
           NEW e \in NewEntries, LikeSource(e), SetAtOnce => e.cloexec,
           NEW fd \in Fds, fd >= fdCall.arg, tab[fd] = Free,
           tab' = [tab EXCEPT ![fd] = e], target' = fd, fdRet' = fd, fdStep' = "setfd"
    PROVE  FdInv'
  <1>1. "setfd" \in FdSteps \ {"return"}
    BY DEF FdSteps
  <1>2. /\ FdTypes' /\ Others' /\ Returned' /\ NoLeak'
        /\ fdStep' = "setfd" /\ fdRet' = target' /\ target' = fd
        /\ Made' = {target'} /\ tab'[target'] = e
        /\ modern' = modern /\ fdCall' = fdCall /\ tabBefore' = tabBefore
    BY <1>1, MakesGoesOn
  <1>3. LikeSource(e)'
    BY <1>2 DEF LikeSource, Source, flags
  <1>4. LikeSource(tab[target])'
    BY <1>2, <1>3 DEF LikeSource
  <1>5. AtStep'
    BY <1>2, <1>4 DEF AtStep
  <1> QED
    BY <1>2, <1>5 DEF FdInv

LEMMA DupFdCloexecKeeps == FdInv /\ DupFdCloexec => FdInv'
  <1> SUFFICES ASSUME FdInv, DupFdCloexec PROVE FdInv'
    OBVIOUS
  <1> DEFINE e == Duplicate(tab[fdCall.old], TRUE)
  <1>1. fdCall.fn = "fcntl64" /\ Kept /\ Made = {}
    BY DEF DupFdCloexec, At, FdInv, AtStep
  <1>2. CASE Fails(EBADF) \/ Fails(EMFILE)
    BY <1>1, <1>2, FailsKeeps
  <1>3. CASE IsOpen(fdCall.old) /\ Falls("probe")
    BY <1>1, <1>3, FallsKeeps
  <1>4. CASE IsOpen(fdCall.old) /\ Makes(fdCall.arg, e, "setfd")
    <2>1. PICK fd \in Fds : /\ fd >= fdCall.arg /\ tab[fd] = Free /\ tab' = [tab EXCEPT ![fd] = e]
                            /\ target' = fd /\ fdStep' = "setfd" /\ fdRet' = fd
      BY <1>4 DEF Makes, Lowest
    <2>2. e \in NewEntries /\ LikeSource(e) /\ e.cloexec
      BY <1>1, <1>4, CopyIs
    <2> HIDE DEF e
    <2> QED
      BY <1>1, <1>4, <2>1, <2>2, CopyGoesOn
  <1> QED
    BY <1>2, <1>3, <1>4 DEF DupFdCloexec

LEMMA DupFdKeeps == FdInv /\ DupFd => FdInv'
  <1> SUFFICES ASSUME FdInv, DupFd PROVE FdInv'
    OBVIOUS
  <1> DEFINE e == Duplicate(tab[fdCall.old], FALSE)
  <1>1. fdCall.fn = "fcntl64" /\ Kept /\ Made = {} /\ IsOpen(fdCall.old) /\ ~modern
    BY DEF DupFd, At, FdInv, AtStep
  <1>2. CASE Fails(EINVAL) \/ Fails(EMFILE)
    BY <1>1, <1>2, FailsKeeps
  <1>3. CASE Makes(fdCall.arg, e, "setfd")
    <2>1. PICK fd \in Fds : /\ fd >= fdCall.arg /\ tab[fd] = Free /\ tab' = [tab EXCEPT ![fd] = e]
                            /\ target' = fd /\ fdStep' = "setfd" /\ fdRet' = fd
      BY <1>3 DEF Makes, Lowest
    <2>2. e \in NewEntries /\ LikeSource(e)
      BY <1>1, CopyIs
    <2>3. ~SetAtOnce
      BY <1>1 DEF SetAtOnce
    <2> HIDE DEF e
    <2> QED
      BY <1>1, <2>1, <2>2, <2>3, CopyGoesOn
  <1> QED
    BY <1>2, <1>3 DEF DupFd

LEMMA ProbeKeeps == FdInv /\ Probe => FdInv'
  <1> SUFFICES ASSUME FdInv, Probe PROVE FdInv'
    OBVIOUS
  <1> DEFINE e == Duplicate(tab[fdCall.old], TRUE)
  <1>1. fdCall.fn = "fcntl64" /\ Kept /\ Made = {} /\ IsOpen(fdCall.old)
    BY DEF Probe, At, FdInv, AtStep
  <1>2. CASE ~modern /\ Falls("dupfd")
    BY <1>1, <1>2, FallsKeeps
  <1>3. CASE Fails(EINVAL)
    BY <1>1, <1>3, FailsKeeps
  <1>4. CASE modern /\ Makes(0, e, "close")
    <2>1. PICK fd \in Fds : /\ tab[fd] = Free /\ tab' = [tab EXCEPT ![fd] = e]
                            /\ target' = fd /\ fdStep' = "close" /\ fdRet' = fd
      BY <1>4 DEF Makes, Lowest
    <2>2. e \in NewEntries /\ e.cloexec
      BY <1>1, CopyIs
    <2> HIDE DEF e
    <2>3. "close" \in FdSteps \ {"return"}
      BY DEF FdSteps
    <2>4. /\ FdTypes' /\ Others' /\ Returned' /\ NoLeak'
          /\ fdStep' = "close" /\ target' = fd /\ Made' = {target'}
          /\ tab[target'] = Free /\ tabBefore[target'].state # "open"
          /\ \A d \in Fds : IsOpen(d) => tab'[d] = tab[d]
          /\ modern' = modern /\ fdCall' = fdCall /\ tabBefore' = tabBefore
      BY <1>1, <2>1, <2>2, <2>3, MakesGoesOn
    <2>5. IsOpen(fdCall.old)' /\ target' # fdCall'.old
      BY <1>1, <2>4, FreeIs DEF IsOpen
    <2>6. AtStep'
      BY <1>1, <1>4, <2>4, <2>5 DEF AtStep
    <2> QED
      BY <2>4, <2>6 DEF FdInv
  <1> QED
    BY <1>2, <1>3, <1>4 DEF Probe

LEMMA CloseProbeKeeps == FdInv /\ CloseProbe => FdInv'
  <1> SUFFICES ASSUME FdInv, CloseProbe PROVE FdInv'
    OBVIOUS
  <1>1. /\ Kept /\ FdTypes /\ Others /\ Made = {target} /\ tabBefore[target].state # "open"
        /\ tab' = [tab EXCEPT ![target] = Free] /\ fdStep' = "return" /\ fdRet' = EINVAL /\ target' = target
    BY DEF CloseProbe, At, FdInv, AtStep, Answer
  <1>2. modern' = modern /\ fdCall' = fdCall /\ tabBefore' = tabBefore /\ leaked' = leaked /\ SameCall
    BY <1>1 DEF Kept, SameCall
  <1>3. target \in Fds
    BY <1>1 DEF Made
  <1>4. tab'[target] = Free /\ \A x \in Fds : x # target => tab'[x] = tab[x]
    BY <1>1, <1>3 DEF FdTypes, TabTypes
  <1>5. TabTypes'
    BY <1>1, <1>3 DEF FdTypes, TabTypes
  <1>6. target \notin Made'
    BY <1>4, FreeIs DEF Made, IsOpen
  <1>7. Made' = {}
    BY <1>1, <1>2, <1>4, <1>6, Elsewhere1
  <1>8. Others'
    <2>1. \A x \in Fds : x # target => NotMine(x)'
      BY <1>1, <1>2, <1>4, Elsewhere1 DEF Others
    <2>2. NotMine(target)'
      BY <1>1, <1>2, <1>4 DEF NotMine
    <2> QED
      BY <1>1, <2>1, <2>2 DEF Others
  <1>9. FdTypes'
    BY <1>1, <1>2, <1>5, ErrorsAre DEF FdTypes, CallTypes, FdSteps
  <1>10. Returned'
    BY <1>1, <1>7, ErrorsAre DEF Returned, Fds
  <1>11. NoLeak'
    BY <1>2, <1>7 DEF FdInv, NoLeak, SetAtOnce, AsksCloexec, Wanted, flags
  <1> QED
    BY <1>1, <1>8, <1>9, <1>10, <1>11 DEF FdInv, AtStep

\* A queue is made with all its flags, or not at all.
LEMMA CreateQueueKeeps == FdInv /\ CreateQueue => FdInv'
  <1> SUFFICES ASSUME FdInv, CreateQueue PROVE FdInv'
    OBVIOUS
  <1>1. fdCall.fn = "create" /\ Kept /\ Made = {}
    BY DEF CreateQueue, At, FdInv, AtStep
  <1>2. CASE flags = {} /\ Falls("old")
    BY <1>1, <1>2, FallsKeeps
  <1>3. CASE Fails(ENOSYS) \/ Fails(EINVAL) \/ Fails(EMFILE)
    BY <1>1, <1>3, FailsKeeps
  <1>4. CASE Makes(0, Queue(flags), "return")
    <2>1. PICK fd \in Fds : /\ tab[fd] = Free /\ tab' = [tab EXCEPT ![fd] = Queue(flags)]
                            /\ target' = fd /\ Answer(fd)
      BY <1>4 DEF Makes, Lowest
    <2>2. Queue(flags) \in NewEntries
      BY QueueIs
    <2>3. LikeSource(Queue(flags))
      BY <1>1 DEF LikeSource, Source, Queue
    <2>4. Queue(flags).cloexec <=> AsksCloexec
      BY <1>1, QueueIs DEF AsksCloexec, Wanted
    <2> QED
      BY <1>1, <2>1, <2>2, <2>3, <2>4, MakesReturns
  <1> QED
    BY <1>2, <1>3, <1>4 DEF CreateQueue, Queue

LEMMA CreateQueueOldKeeps == FdInv /\ CreateQueueOld => FdInv'
  <1> SUFFICES ASSUME FdInv, CreateQueueOld PROVE FdInv'
    OBVIOUS
  <1> DEFINE e == Queue({})
  <1>1. fdCall.fn = "create" /\ Kept /\ Made = {} /\ flags = {}
    BY DEF CreateQueueOld, At, FdInv, AtStep
  <1>2. CASE Fails(EMFILE)
    BY <1>1, <1>2, FailsKeeps
  <1>3. CASE Makes(0, e, "return")
    <2>1. PICK fd \in Fds : tab[fd] = Free /\ tab' = [tab EXCEPT ![fd] = e] /\ target' = fd /\ Answer(fd)
      BY <1>3 DEF Makes, Lowest
    <2>2. e \in NewEntries
      BY QueueIs
    <2>3. LikeSource(e)
      BY <1>1 DEF LikeSource, Source, Queue
    <2>4. e.cloexec <=> AsksCloexec
      BY <1>1, QueueIs DEF AsksCloexec, Wanted
    <2> HIDE DEF e
    <2> QED
      BY <1>1, <2>1, <2>2, <2>3, <2>4, MakesReturns
  <1> QED
    BY <1>2, <1>3 DEF CreateQueueOld, Queue

\* A file of the other thread.
LEMMA OwnFileIs == OwnFile(Descriptor("own", {}, FALSE))
  <1>1. ("CLOEXEC" \in {}) \in BOOLEAN /\ ("NONBLOCK" \in {}) \in BOOLEAN /\ FALSE \in BOOLEAN
    OBVIOUS
  <1>2. "own" \in FileNames
    BY DEF FileNames
  <1>3. Descriptor("own", {}, FALSE) \in Entries
    BY <1>1, <1>2, EntryOf, Zenon DEF Descriptor
  <1>4. Descriptor("own", {}, FALSE).new = FALSE
    BY DEF Descriptor
  <1> QED
    BY <1>1, <1>3, <1>4, OwnIs DEF OwnFile, OldEntries

\* The other thread takes a descriptor that is free or its own, whatever the call is at.
LEMMA OpenKeeps ==
    ASSUME FdInv, Elsewhere, leaked' = leaked, NEW fd \in Fds, tab[fd] \in {Free, Busy},
           NEW e \in OtherEntries, tab' = [tab EXCEPT ![fd] = e]
    PROVE  FdInv'
  <1>0. e = Busy \/ OwnFile(e)
    BY DEF OtherEntries, OwnFile
  <1>1. /\ modern' = modern /\ fdCall' = fdCall /\ tabBefore' = tabBefore /\ SameCall
        /\ fdStep' = fdStep /\ target' = target /\ fdRet' = fdRet /\ FdTypes /\ Others
    BY DEF Elsewhere, SameCall, FdInv
  <1>2. tab'[fd] = e /\ \A x \in Fds : x # fd => tab'[x] = tab[x]
    BY <1>1 DEF FdTypes, TabTypes
  <1>3. TabTypes'
    BY <1>0, <1>1 DEF FdTypes, TabTypes, OwnFile
  <1>4. fd \notin Made /\ fd \notin Made' /\ ~IsOpen(fd)
    <2>1. fd \notin Made /\ ~IsOpen(fd)
      BY FreeIs DEF Made, IsOpen
    <2>2. fd \notin Made'
      BY <1>0, <1>2, FreeIs, OldIs DEF Made, IsOpen, OwnFile
    <2> QED
      BY <2>1, <2>2
  <1>5. Made' = Made
    BY <1>1, <1>2, <1>4, Elsewhere1
  <1>6. Others'
    <2>1. \A x \in Fds : x # fd /\ x \notin Made' => NotMine(x)'
      BY <1>1, <1>2, <1>5, Elsewhere1 DEF Others
    <2>2. NotMine(fd)'
      <3>1. tabBefore[fd].state # "open"
        BY <1>1, <1>4, FreeIs, OldIs DEF Others, NotMine
      <3> QED
        BY <1>0, <1>1, <1>2, <3>1 DEF NotMine, OwnFile, LikeOwn
    <2> QED
      BY <2>1, <2>2 DEF Others
  <1>7. \A x \in Fds : x \in Made \/ IsOpen(x) => tab'[x] = tab[x]
    BY <1>2, <1>4
  <1>8. FdTypes'
    BY <1>1, <1>3 DEF FdTypes, CallTypes
  <1>9. NoLeak'
    BY <1>1, <1>5, <1>7 DEF FdInv, NoLeak, SetAtOnce, AsksCloexec, Wanted, flags, Made
  <1>10. Source' = Source /\ (AsksCloexec' <=> AsksCloexec)
    BY <1>1 DEF Source, AsksCloexec, Wanted, flags
  <1>11. Returned'
    BY <1>1, <1>5, <1>7, <1>10 DEF FdInv, Returned, LikeSource, Fds
  <1>12. AtStep'
    <2>1. IsOpen(fdCall.old) => IsOpen(fdCall.old)'
      BY <1>1, <1>7 DEF IsOpen
    <2>2. target \in Made => tab'[target] = tab[target]
      BY <1>7 DEF Made
    <2> QED
      BY <1>1, <1>5, <1>10, <2>1, <2>2 DEF FdInv, AtStep, Accepted, LikeSource, Wanted, flags
  <1> QED
    BY <1>6, <1>8, <1>9, <1>11, <1>12 DEF FdInv

LEMMA OpensKeep == FdInv /\ (Reserve \/ Install) => FdInv'
  <1> SUFFICES ASSUME FdInv, Reserve \/ Install PROVE FdInv'
    OBVIOUS
  <1>1. Elsewhere /\ leaked' = leaked
    BY DEF Reserve, Install
  <1>2. Busy \in OtherEntries /\ Descriptor("own", {}, FALSE) \in OtherEntries
    BY OwnFileIs DEF OtherEntries, OwnFile
  <1>3. PICK fd \in Fds, e \in OtherEntries : tab[fd] \in {Free, Busy} /\ tab' = [tab EXCEPT ![fd] = e]
    BY <1>2 DEF Reserve, Install, Lowest
  <1> QED
    BY <1>1, <1>3, OpenKeeps

LEMMA StartProgramKeeps == FdInv /\ StartProgram => FdInv'
  <1> SUFFICES ASSUME FdInv, StartProgram PROVE FdInv'
    OBVIOUS
  <1>1. /\ modern' = modern /\ fdCall' = fdCall /\ tabBefore' = tabBefore /\ tab' = tab
        /\ fdStep' = fdStep /\ target' = target /\ fdRet' = fdRet
    BY DEF StartProgram, Elsewhere
  <1>2. ~SetAtOnce
    BY DEF StartProgram, FdInv, NoLeak, Made
  <1>3. NoLeak'
    BY <1>1, <1>2 DEF NoLeak, SetAtOnce, AsksCloexec, Wanted, flags
  <1>4. Made' = Made
    BY <1>1 DEF Made, IsOpen
  <1>5. FdTypes' /\ Others'
    BY <1>1, <1>4 DEF FdInv, FdTypes, CallTypes, TabTypes, Others, NotMine, Untouched, OwnFile, LikeOwn
  <1>6. Returned'
    BY <1>1, <1>4 DEF FdInv, Returned, LikeSource, Source, AsksCloexec, Wanted, flags, Fds
  <1>7. AtStep'
    BY <1>1, <1>4 DEF FdInv, AtStep, Accepted, LikeSource, Source, Wanted, flags, IsOpen
  <1> QED
    BY <1>3, <1>5, <1>6, <1>7 DEF FdInv

LEMMA FdKeeps == FdInv /\ [FdNext]_fdVars => FdInv'
  <1> SUFFICES ASSUME FdInv, [FdNext]_fdVars PROVE FdInv'
    OBVIOUS
  <1>1. CASE Accept4 \/ Accept \/ SetFl \/ SetFd \/ Dup3 \/ Dup2
    BY <1>1, Accept4Keeps, AcceptKeeps, SetFlKeeps, SetFdKeeps, Dup3Keeps, Dup2Keeps
  <1>2. CASE DupFdCloexec \/ Probe \/ CloseProbe \/ DupFd \/ CreateQueue \/ CreateQueueOld
    BY <1>2, DupFdCloexecKeeps, ProbeKeeps, CloseProbeKeeps, DupFdKeeps, CreateQueueKeeps, CreateQueueOldKeeps
  <1>3. CASE Reserve \/ Install \/ StartProgram
    BY <1>3, OpensKeep, StartProgramKeeps
  <1>4. CASE UNCHANGED fdVars
    <2>0. Made' = Made
      BY <1>4 DEF fdVars, Made, IsOpen, Fds
    <2>1. FdTypes' /\ NoLeak'
      BY <1>4, <2>0 DEF fdVars, FdInv, FdTypes, CallTypes, TabTypes, NoLeak, SetAtOnce, AsksCloexec, Wanted, flags
    <2>2. Others'
      BY <1>4, <2>0 DEF fdVars, FdInv, Others, NotMine, Untouched, OwnFile, LikeOwn
    <2>3. AtStep'
      BY <1>4, <2>0 DEF fdVars, FdInv, AtStep, Accepted, LikeSource, Source, Wanted, flags, IsOpen, AsksCloexec
    <2>4. Returned'
      BY <1>4, <2>0 DEF fdVars, FdInv, Returned, LikeSource, Source, AsksCloexec, Wanted, flags
    <2> QED
      BY <2>1, <2>2, <2>3, <2>4 DEF FdInv
  <1> QED
    BY <1>1, <1>2, <1>3, <1>4 DEF FdNext, FdStep

LEMMA InvIsFlagged == FdInv => Flagged
  <1> SUFFICES ASSUME FdInv PROVE Flagged
    OBVIOUS
  <1>1. \A fd \in Fds : fd \notin Made => Untouched(fd)
    BY DEF FdInv, Others, NotMine, Untouched
  <1>2. fdStep = "return" /\ fdRet \in Fds =>
            /\ Made = {fdRet} /\ tab[fdRet].file = Source.file
            /\ (tab[fdRet].nonblock <=> Source.nonblock) /\ (tab[fdRet].cloexec <=> AsksCloexec)
    BY DEF FdInv, Returned, LikeSource
  <1>3. leaked /\ AsksCloexec => ~modern \/ (fdCall.fn = "accept4" /\ Wanted("OTHER"))
    BY DEF FdInv, NoLeak, SetAtOnce
  <1> QED
    BY <1>1, <1>2, <1>3 DEF Flagged, FdInv, Returned

\* A descriptor that accept4, dup3, fcntl64, epoll_create1, eventfd or inotify_init1 returns is the
\* only one the call has made, has the file and the flags asked for, and is where it was asked for,
\* with or without the system call and whatever another thread opens meanwhile; what fails leaves
\* nothing behind, and no program is given the descriptor if the kernel can set the flag as it makes it.
THEOREM FlagsAreSet == FdSpec => []Flagged
  <1>1. FdInit => FdInv
    BY FdStarts
  <1>2. FdInv /\ [FdNext]_fdVars => FdInv'
    BY FdKeeps
  <1>3. FdInv => Flagged
    BY InvIsFlagged
  <1> QED
    BY <1>1, <1>2, <1>3, PTL DEF FdSpec
-----------------------------------------------------------------------------

(***************************************************************************)
(* File actions.                                                           *)
(***************************************************************************)

ActionBlock == [used : BOOLEAN, next : Blocks \cup {0}, prev : Blocks \cup {0}, op : ActionCalls \cup {0}]

ActionTypes ==
    /\ block \in [Blocks -> ActionBlock]
    /\ added \in Seq(ActionCalls)
    /\ actions \in Blocks \cup {0}

\* destroy runs once, and no action is added after it.
ActionsInv == ActionTypes /\ ActionsKept /\ (~destroyed => cursor = 0)

LEMMA BlocksAre == 0 \notin Blocks /\ Blocks \subseteq Nat
  BY FileActionsAssumption

LEMMA BlockOf ==
    \A u \in BOOLEAN, n, p \in Blocks \cup {0}, op \in ActionCalls \cup {0} :
        [used |-> u, next |-> n, prev |-> p, op |-> op] \in ActionBlock
  BY DEF ActionBlock

LEMMA UnusedIs == Unused \in ActionBlock /\ ~Unused.used
  <1>1. FALSE \in BOOLEAN /\ 0 \in Blocks \cup {0} /\ 0 \in ActionCalls \cup {0}
    OBVIOUS
  <1>2. Unused \in ActionBlock
    BY <1>1, BlockOf, Zenon DEF Unused
  <1>3. Unused.used = FALSE
    BY DEF Unused
  <1> QED
    BY <1>2, <1>3

LEMMA ActionsStart == ActionsInit => ActionsInv
  <1> SUFFICES ASSUME ActionsInit PROVE ActionsInv
    OBVIOUS
  <1>1. /\ actions = 0 /\ block = [b \in Blocks |-> Unused] /\ cursor = 0
        /\ ~destroyed /\ added = <<>>
    BY DEF ActionsInit
  <1>2. ActionTypes
    BY <1>1, UnusedIs DEF ActionTypes
  <1>3. Allocated = {}
    BY <1>1, UnusedIs DEF Allocated
  <1>4. ActionsKept
    <2> DEFINE chain == [i \in 1 .. 0 |-> 0]
    <2>1. chain \in [1 .. Len(added) -> Blocks]
      BY <1>1
    <2>2. Linked(chain, Len(added), actions) /\ Holds(chain, Len(added))
      BY <1>1, <1>3 DEF Linked, Holds
    <2> HIDE DEF chain
    <2> QED
      BY <1>1, <2>1, <2>2 DEF ActionsKept
  <1> QED
    BY <1>1, <1>2, <1>4 DEF ActionsInv

\* The new action is the first one, and the one that was first gets its back link.
LEMMA AddActionKeeps ==
    ASSUME ActionsInv, NEW op \in ActionCalls, AddAction(op)
    PROVE  ActionsInv'
  <1> DEFINE made == [used |-> TRUE, next |-> actions, prev |-> 0, op |-> op]
  <1>1. PICK b \in Blocks :
            /\ ~block[b].used
            /\ block' = [x \in Blocks |->
                            IF x = b THEN made
                            ELSE IF x = actions THEN [block[x] EXCEPT !.prev = b] ELSE block[x]]
            /\ actions' = b
    BY DEF AddAction
  <1>2. /\ ActionTypes /\ ~destroyed /\ ~destroyed' /\ added' = Append(added, op)
        /\ cursor = 0 /\ cursor' = 0
    BY DEF AddAction, Calling, ActionsInv
  <1>0. PICK n \in Nat : n = Len(added)
    BY <1>2 DEF ActionTypes
  <1>3. PICK chain \in [1 .. n -> Blocks] : Linked(chain, n, actions) /\ Holds(chain, n)
    BY <1>0, <1>2 DEF ActionsInv, ActionsKept
  <1>4. n \in Nat /\ Len(added') = n + 1 /\ added' \in Seq(ActionCalls)
        /\ added'[n + 1] = op /\ \A i \in 1 .. n : added'[i] = added[i]
    BY <1>0, <1>2 DEF ActionTypes
  <1>5. /\ made \in ActionBlock /\ made.used /\ made.next = actions /\ made.prev = 0 /\ made.op = op
    <2>1. TRUE \in BOOLEAN /\ 0 \in Blocks \cup {0} /\ op \in ActionCalls \cup {0} /\ actions \in Blocks \cup {0}
      BY <1>2 DEF ActionTypes
    <2>2. made \in ActionBlock
      BY <2>1, BlockOf, Zenon
    <2> QED
      BY <2>2
  <1> HIDE DEF made
  <1>6. /\ b \notin Allocated /\ \A i \in 1 .. n : chain[i] # b /\ chain[i] \in Blocks
    BY <1>1, <1>3 DEF Linked, Allocated
  <1>7. actions # b
    BY <1>3, <1>4, <1>6, BlocksAre DEF Linked
  <1>8. /\ block'[b] = made
        /\ \A x \in Blocks : x # b =>
              /\ block'[x] \in ActionBlock
              /\ block'[x].used = block[x].used /\ block'[x].next = block[x].next
              /\ block'[x].op = block[x].op
              /\ block'[x].prev = IF x = actions THEN b ELSE block[x].prev
    <2>1. \A x \in Blocks : block[x] \in ActionBlock
      BY <1>2 DEF ActionTypes
    <2>2. ASSUME NEW e \in ActionBlock
          PROVE  LET d == [e EXCEPT !.prev = b]
                 IN d \in ActionBlock /\ d.used = e.used /\ d.next = e.next /\ d.op = e.op /\ d.prev = b
      BY DEF ActionBlock
    <2>3. \A x \in Blocks : x = actions /\ x # b => block'[x] = [block[x] EXCEPT !.prev = b]
      BY <1>1
    <2>4. \A x \in Blocks : x # actions /\ x # b => block'[x] = block[x]
      BY <1>1
    <2> QED
      BY <1>1, <2>1, <2>2, <2>3, <2>4
  <1>9. ActionTypes'
    <2>1. \A x \in Blocks : block'[x] \in ActionBlock
      BY <1>5, <1>8
    <2>2. block' \in [Blocks -> ActionBlock]
      BY <1>1, <2>1
    <2> QED
      BY <1>1, <1>4, <2>2 DEF ActionTypes
  <1>10. Allocated' = Allocated \cup {b}
    BY <1>1, <1>5, <1>8 DEF Allocated
  <1> DEFINE new == [i \in 1 .. n + 1 |-> IF i = 1 THEN b ELSE chain[i - 1]]
  <1>11. /\ new \in [1 .. n + 1 -> Blocks] /\ new[1] = b
         /\ \A i \in 1 .. n : new[i + 1] = chain[i] /\ chain[i] # b
         /\ \A i \in 2 .. n + 1 : new[i] = chain[i - 1] /\ i - 1 \in 1 .. n
    BY <1>3, <1>4, <1>6
  <1> HIDE DEF new
  <1>12. Linked(new, n + 1, actions)'
    <2>1. actions' = new[1]
      BY <1>1, <1>11
    <2>2. Allocated' = {new[i] : i \in 1 .. n + 1}
      <3>1. {new[i] : i \in 1 .. n + 1} = {chain[i] : i \in 1 .. n} \cup {b}
        <4>1. \A i \in 1 .. n + 1 : i = 1 \/ i \in 2 .. n + 1
          BY <1>4
        <4>2. \A i \in 1 .. n : i + 1 \in 1 .. n + 1
          BY <1>4
        <4>3. 1 \in 1 .. n + 1
          BY <1>4
        <4>4. ASSUME NEW i \in 1 .. n + 1 PROVE new[i] \in {chain[j] : j \in 1 .. n} \cup {b}
          BY <1>11, <4>1
        <4>5. ASSUME NEW j \in 1 .. n PROVE chain[j] \in {new[i] : i \in 1 .. n + 1}
          BY <1>11, <4>2
        <4>6. b \in {new[i] : i \in 1 .. n + 1}
          BY <1>11, <4>3
        <4> QED
          BY <4>4, <4>5, <4>6
      <3> QED
        BY <1>3, <1>10, <3>1 DEF Linked
    <2>3. ASSUME NEW i \in 1 .. n + 1, NEW j \in 1 .. n + 1, new[i] = new[j] PROVE i = j
      <3>1. (i = 1 \/ i \in 2 .. n + 1) /\ (j = 1 \/ j \in 2 .. n + 1)
        BY <1>4
      <3> QED
        BY <1>3, <1>4, <1>11, <2>3, <3>1 DEF Linked
    <2>4. ASSUME NEW i \in 1 .. n + 1 PROVE block'[new[i]].next = IF i = n + 1 THEN 0 ELSE new[i + 1]
      <3>1. CASE i = 1
        BY <1>3, <1>4, <1>5, <1>8, <1>11, <3>1 DEF Linked
      <3>2. CASE i # 1
        <4>1. i \in 2 .. n + 1 /\ i - 1 \in 1 .. n /\ new[i] = chain[i - 1]
          BY <1>4, <1>11, <3>2
        <4>2. block'[new[i]].next = IF i - 1 = n THEN 0 ELSE chain[i - 1 + 1]
          BY <1>3, <1>6, <1>8, <4>1 DEF Linked
        <4>3. i # n + 1 => new[i + 1] = chain[i]
          BY <1>4, <1>11, <4>1
        <4> QED
          BY <1>4, <4>1, <4>2, <4>3
      <3> QED
        BY <3>1, <3>2
    <2>5. \A i, j \in 1 .. n + 1 : new[i] = new[j] => i = j
      BY <2>3
    <2>6. n + 1 # 0
      BY <1>4
    <2> QED
      BY <2>1, <2>2, <2>4, <2>5, <2>6 DEF Linked
  <1>13. Holds(new, n + 1)'
    <2> SUFFICES ASSUME NEW i \in 1 .. n + 1
                 PROVE  /\ block'[new[i]].op = added'[n + 1 + 1 - i]
                        /\ block'[new[i]].prev = IF i = 1 THEN 0 ELSE new[i - 1]
      BY DEF Holds
    <2>1. CASE i = 1
      BY <1>4, <1>5, <1>8, <1>11, <2>1
    <2>2. CASE i # 1
      <3>1. /\ i \in 2 .. n + 1 /\ i - 1 \in 1 .. n /\ new[i] = chain[i - 1]
            /\ n + 1 + 1 - i \in 1 .. n /\ n + 1 + 1 - i = n + 1 - (i - 1)
        BY <1>4, <1>11, <2>2
      <3>2. block'[new[i]].op = added'[n + 1 + 1 - i]
        BY <1>3, <1>4, <1>6, <1>8, <3>1 DEF Holds
      <3>3. CASE i = 2
        BY <1>3, <1>4, <1>6, <1>8, <1>11, <3>1, <3>2, <3>3 DEF Linked
      <3>4. CASE i # 2
        <4>1. i - 2 \in 1 .. n /\ new[i - 1] = chain[i - 2] /\ i - 1 # 1 /\ i - 1 - 1 = i - 2
          BY <1>4, <1>11, <2>2, <3>1, <3>4
        <4>2. chain[i - 1] # actions
          BY <1>3, <1>4, <3>1, <3>4 DEF Linked
        <4>3. block'[new[i]].prev = chain[i - 2]
          BY <1>3, <1>6, <1>8, <3>1, <4>1, <4>2 DEF Holds
        <4> QED
          BY <2>2, <3>2, <4>1, <4>3
      <3> QED
        BY <3>3, <3>4
    <2> QED
      BY <2>1, <2>2
  <1> QED
    BY <1>2, <1>4, <1>9, <1>11, <1>12, <1>13 DEF ActionsInv, ActionsKept

\* destroy walks the list from its first block on.
LEMMA DestroyKeeps ==
    ASSUME ActionsInv, Destroy
    PROVE  ActionsInv'
  <1>1. /\ ~destroyed /\ destroyed' /\ cursor' = actions /\ actions' = actions
        /\ block' = block /\ added' = added /\ ActionTypes
    BY DEF Destroy, ActionsInv
  <1>2. Len(added) \in 0 .. Len(added)
    BY <1>1 DEF ActionTypes
  <1>3. PICK chain \in [1 .. Len(added) -> Blocks] : Linked(chain, Len(added), actions)
    BY <1>1 DEF ActionsInv, ActionsKept
  <1>4. Linked(chain, Len(added), cursor)'
    BY <1>1, <1>3 DEF Linked, Allocated
  <1>5. ActionsKept'
    BY <1>1, <1>2, <1>3, <1>4 DEF ActionsKept
  <1> QED
    BY <1>1, <1>5 DEF ActionsInv, ActionTypes

\* The block that is freed was the first of those left, and its link was read before.
LEMMA FreeActionKeeps ==
    ASSUME ActionsInv, FreeAction
    PROVE  ActionsInv'
  <1>1. /\ cursor # 0 /\ destroyed /\ cursor' = block[cursor].next
        /\ block' = [block EXCEPT ![cursor] = Unused]
        /\ actions' = actions /\ destroyed' = destroyed /\ added' = added /\ ActionTypes
    BY DEF FreeAction, ActionsInv
  <1>2. PICK k \in 0 .. Len(added) : \E chain \in [1 .. k -> Blocks] : Linked(chain, k, cursor)
    BY <1>1 DEF ActionsInv, ActionsKept
  <1>3. PICK chain \in [1 .. k -> Blocks] : Linked(chain, k, cursor)
    BY <1>2
  <1>4. k # 0 /\ k \in Nat /\ k - 1 \in 0 .. Len(added) /\ cursor = chain[1] /\ cursor \in Blocks /\ 1 \in 1 .. k
    <2>1. Len(added) \in Nat
      BY <1>1 DEF ActionTypes
    <2>2. k # 0 /\ cursor = chain[1]
      BY <1>1, <1>3 DEF Linked
    <2>3. k \in Nat /\ k - 1 \in 0 .. Len(added) /\ 1 \in 1 .. k
      BY <2>1, <2>2
    <2> QED
      BY <2>2, <2>3
  <1> DEFINE m == k - 1
             new == [i \in 1 .. m |-> chain[i + 1]]
  <1>5. /\ new \in [1 .. m -> Blocks] /\ k = m + 1 /\ m \in Nat
        /\ \A i \in 1 .. m : new[i] = chain[i + 1] /\ i + 1 \in 1 .. k /\ i + 1 # 1
    BY <1>3, <1>4
  <1> HIDE DEF new, m
  <1>6. \A i \in 1 .. m : new[i] # cursor /\ new[i] \in Blocks
    BY <1>3, <1>4, <1>5 DEF Linked
  <1>7. block'[cursor] = Unused /\ \A x \in Blocks : x # cursor => block'[x] = block[x]
    BY <1>1, <1>4 DEF ActionTypes
  <1>8. Allocated' = Allocated \ {cursor}
    BY <1>7, UnusedIs DEF Allocated
  <1>9. Linked(new, m, cursor)'
    <2>1. cursor' = IF m = 0 THEN 0 ELSE new[1]
      BY <1>1, <1>3, <1>4, <1>5 DEF Linked
    <2>2. Allocated' = {new[i] : i \in 1 .. m}
      <3>1. ASSUME NEW x \in Allocated, x # cursor PROVE x \in {new[i] : i \in 1 .. m}
        <4>1. PICK i \in 1 .. k : x = chain[i]
          BY <1>3 DEF Linked
        <4>2. i # 1 /\ i - 1 \in 1 .. m /\ (i - 1) + 1 = i
          BY <1>4, <1>5, <3>1, <4>1
        <4> QED
          BY <1>5, <4>1, <4>2
      <3>2. ASSUME NEW i \in 1 .. m PROVE new[i] \in Allocated /\ new[i] # cursor
        BY <1>3, <1>5, <1>6 DEF Linked
      <3> QED
        BY <1>8, <3>1, <3>2
    <2>3. \A i, j \in 1 .. m : new[i] = new[j] => i = j
      <3> SUFFICES ASSUME NEW i \in 1 .. m, NEW j \in 1 .. m, new[i] = new[j] PROVE i = j
        OBVIOUS
      <3>1. i + 1 = j + 1
        BY <1>3, <1>5 DEF Linked
      <3> QED
        BY <1>5, <3>1
    <2>4. ASSUME NEW i \in 1 .. m PROVE block'[new[i]].next = IF i = m THEN 0 ELSE new[i + 1]
      <3>1. block'[new[i]].next = IF i + 1 = k THEN 0 ELSE chain[i + 1 + 1]
        BY <1>3, <1>5, <1>6, <1>7 DEF Linked
      <3>2. i # m => i + 1 \in 1 .. m
        BY <1>5
      <3> QED
        BY <1>5, <3>1, <3>2
    <2> QED
      BY <2>1, <2>2, <2>3, <2>4 DEF Linked
  <1>10. ActionTypes'
    BY <1>1, <1>4, UnusedIs DEF ActionTypes
  <1>11. ActionsKept'
    BY <1>1, <1>4, <1>5, <1>9 DEF ActionsKept, m
  <1> QED
    BY <1>1, <1>10, <1>11 DEF ActionsInv

\* The list of file actions holds what was added, in that order, linked both ways; a call that
\* fails changes nothing, no block is lost or freed twice, and destroy leaves none.
THEOREM ActionsAreKept == ActionsSpec => []ActionsKept
  <1>1. ActionsInit => ActionsInv
    BY ActionsStart
  <1>2. ActionsInv /\ [ActionsNext]_actionVars => ActionsInv'
    <2> SUFFICES ASSUME ActionsInv, [ActionsNext]_actionVars PROVE ActionsInv'
      OBVIOUS
    <2>1. CASE Destroy
      BY <2>1, DestroyKeeps
    <2>2. CASE FreeAction
      BY <2>2, FreeActionKeeps
    <2>3. CASE \E op \in ActionCalls : AddAction(op)
      BY <2>3, AddActionKeeps
    <2>4. CASE UNCHANGED <<actions, block, cursor, destroyed, added>>
      <3>1. ActionTypes' /\ (~destroyed' => cursor' = 0) /\ Len(added') = Len(added) /\ destroyed' = destroyed
        BY <2>4 DEF ActionsInv, ActionTypes
      <3>2. ASSUME ~destroyed PROVE ActionsKept'
        <4>0. PICK n : n = Len(added)
          OBVIOUS
        <4>1. PICK chain \in [1 .. n -> Blocks] : Linked(chain, n, actions) /\ Holds(chain, n)
          BY <3>2, <4>0 DEF ActionsInv, ActionsKept
        <4>2. /\ (Linked(chain, n, actions) /\ Holds(chain, n))'
              /\ n = Len(added') /\ ~destroyed'
          BY <2>4, <3>2, <4>0, <4>1 DEF Linked, Holds, Allocated
        <4> QED
          BY <4>1, <4>2 DEF ActionsKept
      <3>3. ASSUME destroyed PROVE ActionsKept'
        <4>1. PICK k \in 0 .. Len(added) : \E chain \in [1 .. k -> Blocks] : Linked(chain, k, cursor)
          BY <3>3 DEF ActionsInv, ActionsKept
        <4>2. PICK chain \in [1 .. k -> Blocks] : Linked(chain, k, cursor)
          BY <4>1
        <4>3. Linked(chain, k, cursor)' /\ added' = added /\ destroyed'
          BY <2>4, <3>3, <4>2 DEF Linked, Allocated
        <4> QED
          BY <4>3 DEF ActionsKept
      <3> QED
        BY <3>1, <3>2, <3>3 DEF ActionsInv
    <2> QED
      BY <2>1, <2>2, <2>3, <2>4 DEF ActionsNext, BadDescriptor, NoMemory, actionVars
  <1>3. ActionsInv => ActionsKept
    BY DEF ActionsInv
  <1> QED
    BY <1>1, <1>2, <1>3, PTL DEF ActionsSpec

-----------------------------------------------------------------------------

(***************************************************************************)
(* glob: what is found so far is what the pattern matches and is not yet   *)
(* pending in a directory that is being read.                              *)
(***************************************************************************)

CallSet == UNION {ToSet(cs) : cs \in GlobCalls}
PathNames(c) == ReadNames(c.tree) \cap Int
DirEntries(c) == UNION {ToSet(c.tree[p].list) : p \in DOMAIN c.tree}
GlobErrors == Errnos \cup {"none", "ENOMEM", "ENOENT", "EACCES", "ENOTDIR"}
MatchSet == [name : Seq(Int), mark : 0 .. 2, block : Nat]
FrameSet(c) == [path : Seq(PathNames(c)), at : Nat, opened : BOOLEAN, left : Seq(DirEntries(c)), error : GlobErrors]

\* What GlobAssumption says of one call, and of the calls to come.
Legal(c) ==
    /\ c.pattern \in Seq(ToSet(c.pattern))
    /\ \A k \in DOMAIN c.pattern : c.pattern[k] = Slash => k = Len(c.pattern)
    /\ \A path \in SearchPaths(c) : OpenError(c.tree, path) = "none" => RightListing(c.tree, path)
LegalCalls(cs) ==
    /\ cs \in Seq(CallSet)
    /\ \A i \in DOMAIN cs : Legal(cs[i])
    /\ \A i \in DOMAIN cs : i > 1 => "APPEND" \in cs[i].flags
    /\ \A i, j \in DOMAIN cs : "DOOFFS" \in cs[i].flags <=> "DOOFFS" \in cs[j].flags

\* A directory that is being read: the entries left are its own, each name once.
RightLeft(c, path, es) ==
    /\ \A i, j \in DOMAIN es : es[i].name = es[j].name => i = j
    /\ \A i \in DOMAIN es :
        /\ es[i].name \in PathNames(c) /\ Listed(c.tree, path, es[i].name)
        /\ es[i].type = "dir" => IsDir(c.tree, Append(path, es[i].name))
        /\ es[i].type \notin {"unknown", "dir", "link"} => ~IsDir(c.tree, Append(path, es[i].name))
RightFrame(c, f, i) ==
    /\ f.at = i /\ Len(f.path) = i - 1 /\ Follows(c, f.path)
    /\ f.opened => /\ c.pattern[i] # Slash /\ OpenError(c.tree, f.path) = "none"
                   /\ RightLeft(c, f.path, f.left)
ReadPast(f, name) == \A k \in DOMAIN f.left : f.left[k].name # name
RightFrames(c, fs) ==
    /\ fs \in Seq(FrameSet(c)) /\ Len(fs) <= Len(c.pattern)
    /\ \A i \in DOMAIN fs : RightFrame(c, fs[i], i)
    /\ \A i \in DOMAIN fs : i < Len(fs) => fs[i].opened
    /\ \A i, j \in DOMAIN fs : i < j => ReadPast(fs[i], fs[j].path[i])

\* A match is pending in a frame that will reach it, and done when there is none.
Pending(x, f) ==
    /\ SubSeq(x, 1, f.at - 1) = f.path
    /\ f.opened => \E k \in DOMAIN f.left : f.left[k].name = x[f.at]
Done(c, fs) == {x \in Matches(c) : \A i \in DOMAIN fs : ~Pending(x, fs[i])}

NamesOf(s) == {s[i].name : i \in DOMAIN s}
BlocksOf(s) == {s[i].block : i \in DOMAIN s}
Apart(s) == \A i, j \in DOMAIN s : s[i].name = s[j].name => i = j
RightMark(c, m) ==
    ("MARK" \in c.flags /\ Exists(c.tree, m.name) /\ m.name \notin {<<>>, <<Dot>>})
        => (m.mark = 1 <=> IsDir(c.tree, m.name))
RightMarks(c, s) == \A i \in DOMAIN s : RightMark(c, s[i])
Gives(c, s) ==
    NamesOf(s) = Matches(c) \/ ("NOCHECK" \in c.flags /\ Matches(c) = {} /\ NamesOf(s) = {<<Dot>>})
Stops(c, s) ==
    (c.strict \/ "ERR" \in c.flags) /\ (NamesOf(s) \subseteq Matches(c) \/ "NOCHECK" \in c.flags)

\* The blocks: those of the list and those of the array, which are others.
RightBlocks(g, s, h) ==
    /\ (g.pathv = <<>> /\ g.pathc = 0) \/ Len(g.pathv) = g.offs + g.pathc
    /\ \A i \in DOMAIN g.pathv : g.pathv[i].block = 0 <=> i <= g.offs
    /\ \A i \in DOMAIN s : s[i].block # 0 /\ s[i].block \notin BlocksOf(g.pathv)
    /\ h = BlocksOf(s) \cup (BlocksOf(g.pathv) \ {0})

\* The states of a call: it searches, it has searched, it returned.
Opening(c, fs) == Legal(c) /\ c.pattern # <<>> /\ RightFrames(c, fs) /\ fs # <<>>
RightList(c, s) == Apart(s) /\ RightMarks(c, s)
Globbing(c, fs, s) == Opening(c, fs) /\ NamesOf(s) = Done(c, fs) /\ RightList(c, s)
Collecting(c, e, s) ==
    /\ e = "none" => Gives(c, s)
    /\ e = "ABORTED" => Stops(c, s)
    /\ RightList(c, s)
GlobAnswered(c, r, s) ==
    /\ r = "0" => Gives(c, s)
    /\ r = "NOMATCH" => Matches(c) = {} \/ c.strict \/ "ERR" \in c.flags
    /\ r = "ABORTED" => Stops(c, s)
    /\ r = "NOSPACE" => s = <<>>
    /\ RightList(c, s)
    /\ "NOSORT" \notin c.flags => \A i, j \in DOMAIN s : i < j => NameBefore(s[i].name, s[j].name)

GlobTypes ==
    /\ globStep \in {"ready", "match", "collect", "over"}
    /\ LegalCalls(todo)
    /\ gl \in [offs : Nat, pathc : Nat, pathv : Seq(MatchSet), array : BOOLEAN]
    /\ list \in Seq(MatchSet)
    /\ heap \subseteq Nat \ {0} /\ IsFiniteSet(heap)
    /\ globErrno \in GlobErrors
    /\ error \in {"none", "ABORTED", "NOSPACE"}
    /\ shortages \in 0 .. Shortages
    /\ result \in {"none", "0", "NOMATCH", "ABORTED", "NOSPACE"}
    /\ before \in Nat

\* Before the first call of all nothing is allocated, and gl_offs is as the caller set it.
FirstCall(c) == "APPEND" \notin c.flags
GlobBlocks ==
    /\ RightBlocks(gl, list, heap)
    /\ globStep \in {"ready", "over"} => list = <<>>
    /\ globStep = "over" => gl.pathv = <<>>
    /\ globStep \in {"match", "collect"} => todo # <<>> /\ result = "none" /\ before = gl.pathc
    /\ (todo # <<>> /\ FirstCall(call) /\ result = "none") => gl.pathv = <<>> /\ gl.pathc = 0
    /\ (todo # <<>> /\ ~(FirstCall(call) /\ globStep = "ready" /\ result = "none") /\ "DOOFFS" \notin call.flags)
            => gl.offs = 0
    /\ error = "NOSPACE" /\ globStep = "collect" => shortages < Shortages
    /\ result = "NOSPACE" => shortages < Shortages \/ call.long

GlobReturned ==
    (globStep = "ready" /\ result # "none" /\ todo # <<>>) => before <= gl.pathc /\ GlobAnswered(call, result, New)

GlobInv ==
    /\ GlobTypes /\ GlobBlocks /\ GlobReturned
    /\ globStep = "match" => error = "none" /\ Globbing(call, frames, list)
    /\ globStep = "collect" => Collecting(call, error, list)

-----------------------------------------------------------------------------

LEMMA LeastOf ==
    ASSUME NEW T, T \subseteq Nat, T # {}
    PROVE  \E n \in T : \A m \in T : n <= m
  <1> DEFINE R == OpToRel(<, Nat)
  <1>1. IsWellFoundedOn(R, Nat)
    BY NatLessThanWellFounded
  <1>2. \A m, n \in Nat : m < n => <<m, n>> \in R
    BY DEF OpToRel
  <1> HIDE DEF R
  <1>3. PICK n \in T : \A m \in T : ~ (<<m, n>> \in R)
    BY <1>1, WFMin
  <1>4. \A m \in T : n <= m
    <2> SUFFICES ASSUME NEW m \in T PROVE ~ (m < n)
      OBVIOUS
    <2> QED
      BY <1>2, <1>3
  <1> QED
    BY <1>4

\* The first n elements of two sequences.
LEMMA PrefixIs ==
    ASSUME NEW S, NEW s \in Seq(S), NEW p \in Seq(S), Len(p) <= Len(s)
    PROVE  /\ SubSeq(s, 1, Len(p)) \in Seq(S) /\ Len(SubSeq(s, 1, Len(p))) = Len(p)
           /\ \A i \in 1 .. Len(p) : SubSeq(s, 1, Len(p))[i] = s[i]
           /\ SubSeq(s, 1, Len(p)) = p <=> \A i \in 1 .. Len(p) : s[i] = p[i]
  <1>1. Len(p) \in Nat /\ Len(s) \in Nat
    BY LenProperties
  <1> DEFINE n == Len(p)
             q == SubSeq(s, 1, n)
  <1>2. \A i \in 1 .. n : s[i] \in S
    BY <1>1, ElementOfSeq
  <1> HIDE DEF n
  <1>3. n \in Nat
    BY <1>1 DEF n
  <1>4. q \in Seq(S) /\ Len(q) = (IF 1 <= n THEN n - 1 + 1 ELSE 0) /\ \A i \in 1 .. n - 1 + 1 : q[i] = s[1 + i - 1]
    BY <1>2, <1>3, SubSeqProperties
  <1> HIDE DEF q
  <1>5. Len(q) = n
    BY <1>3, <1>4
  <1>6. \A i \in 1 .. n : q[i] = s[i]
    BY <1>3, <1>4
  <1>7. ASSUME \A i \in 1 .. n : s[i] = p[i] PROVE q = p
    BY <1>4, <1>5, <1>6, <1>7, SeqEqual DEF n
  <1> QED
    BY <1>4, <1>5, <1>6, <1>7 DEF n, q

LEMMA PrefixOf ==
    ASSUME NEW S, NEW s \in Seq(S), NEW n \in 0 .. Len(s)
    PROVE  /\ SubSeq(s, 1, n) \in Seq(S) /\ Len(SubSeq(s, 1, n)) = n
           /\ \A i \in 1 .. n : SubSeq(s, 1, n)[i] = s[i]
  <1>1. Len(s) \in Nat
    BY LenProperties
  <1>2. \A i \in 1 .. n : s[i] \in S
    BY <1>1, ElementOfSeq
  <1>3. n \in Nat
    BY <1>1
  <1> DEFINE q == SubSeq(s, 1, n)
  <1>4. q \in Seq(S) /\ Len(q) = (IF 1 <= n THEN n - 1 + 1 ELSE 0) /\ \A i \in 1 .. n - 1 + 1 : q[i] = s[1 + i - 1]
    BY <1>2, <1>3, SubSeqProperties
  <1> HIDE DEF q
  <1>5. Len(q) = n /\ \A i \in 1 .. n : q[i] = s[i]
    BY <1>3, <1>4
  <1> QED
    BY <1>4, <1>5 DEF q

(***************************************************************************)
(* The order of names: up to the i-th they agree, and there a is smaller   *)
(* or has ended.                                                           *)
(***************************************************************************)

Parts(a, b, i) ==
    /\ i \in 1 .. Len(b) /\ i <= Len(a) + 1
    /\ \A k \in 1 .. (i - 1) : a[k] = b[k]
    /\ i <= Len(a) => a[i] < b[i]

LEMMA BeforeIs ==
    ASSUME NEW a \in Seq(Int), NEW b \in Seq(Int)
    PROVE  NameBefore(a, b) <=> \E i \in Nat : Parts(a, b, i)
  <1>0. /\ Len(a) \in Nat /\ Len(b) \in Nat /\ DOMAIN a = 1 .. Len(a) /\ DOMAIN b = 1 .. Len(b)
    BY LenProperties
  <1>1. ASSUME Len(a) < Len(b), a = SubSeq(b, 1, Len(a)) PROVE Parts(a, b, Len(a) + 1) /\ Len(a) + 1 \in Nat
    <2>1. \A k \in 1 .. Len(a) : b[k] = a[k]
      BY <1>0, <1>1, PrefixIs
    <2> QED
      BY <1>0, <1>1, <2>1 DEF Parts
  <1>2. ASSUME NEW i \in DOMAIN a \cap DOMAIN b, a[i] < b[i], SubSeq(a, 1, i - 1) = SubSeq(b, 1, i - 1)
        PROVE  Parts(a, b, i) /\ i \in Nat
    <2>1. PICK n \in 0 .. Len(a) : n = i - 1
      BY <1>0
    <2>2. n \in 0 .. Len(b)
      BY <1>0, <2>1
    <2>3. \A k \in 1 .. n : SubSeq(a, 1, n)[k] = a[k] /\ SubSeq(b, 1, n)[k] = b[k]
      BY <2>2, PrefixOf
    <2>4. \A k \in 1 .. n : a[k] = b[k]
      BY <1>2, <2>1, <2>3
    <2> QED
      BY <1>0, <1>2, <2>1, <2>4 DEF Parts
  <1>3. ASSUME NEW i \in Nat, Parts(a, b, i) PROVE NameBefore(a, b)
    <2>1. PICK n \in Nat : n = i - 1
      BY <1>3 DEF Parts
    <2>2. n \in 0 .. Len(a) /\ n \in 0 .. Len(b) /\ (\A k \in 1 .. n : a[k] = b[k]) /\ n < Len(b)
      BY <1>0, <1>3, <2>1 DEF Parts
    <2>3. CASE i = Len(a) + 1
      <3>1. n = Len(a)
        BY <1>0, <2>1, <2>3
      <3>2. SubSeq(b, 1, Len(a)) = a
        BY <1>0, <2>2, <3>1, PrefixIs
      <3> QED
        BY <2>2, <3>1, <3>2 DEF NameBefore
    <2>4. CASE i <= Len(a)
      <3>1. i \in DOMAIN a \cap DOMAIN b /\ a[i] < b[i]
        BY <1>0, <1>3, <2>4 DEF Parts
      <3>2. PICK p \in Seq(Int) : p = SubSeq(a, 1, n)
        BY <2>2, PrefixOf
      <3>3. Len(p) = n /\ \A k \in 1 .. n : p[k] = a[k]
        BY <2>2, <3>2, PrefixOf
      <3>4. SubSeq(b, 1, Len(p)) = p
        <4>1. \A k \in 1 .. Len(p) : b[k] = p[k]
          BY <2>2, <3>3
        <4> QED
          BY <1>0, <2>2, <3>3, <4>1, PrefixIs
      <3>5. SubSeq(a, 1, i - 1) = SubSeq(b, 1, i - 1)
        BY <2>1, <3>2, <3>3, <3>4
      <3> QED
        BY <3>1, <3>5 DEF NameBefore
    <2> QED
      BY <1>0, <1>3, <2>3, <2>4 DEF Parts
  <1> QED
    BY <1>1, <1>2, <1>3 DEF NameBefore

\* What is below a number that is in two ranges is in both.
LEMMA BelowIn ==
    ASSUME NEW i \in Nat, NEW k \in 1 .. (i - 1), NEW m \in Nat, NEW n \in Nat, i \in 1 .. m, i \in 1 .. n
    PROVE  k \in Nat /\ k \in 1 .. m /\ k \in 1 .. n /\ ~(i <= k)
  OBVIOUS

\* It is a strict order of all names.
LEMMA BeforeOrders ==
    ASSUME NEW a \in Seq(Int), NEW b \in Seq(Int)
    PROVE  /\ ~NameBefore(a, a)
           /\ a = b \/ NameBefore(a, b) \/ NameBefore(b, a)
           /\ \A d \in Seq(Int) : NameBefore(a, b) /\ NameBefore(b, d) => NameBefore(a, d)
  <1>0. /\ Len(a) \in Nat /\ Len(b) \in Nat
        /\ \A i \in 1 .. Len(a) : a[i] \in Int
        /\ \A i \in 1 .. Len(b) : b[i] \in Int
    BY LenProperties, ElementOfSeq
  <1>1. ~NameBefore(a, a)
    <2> SUFFICES ASSUME NEW i \in Nat, Parts(a, a, i) PROVE FALSE
      BY BeforeIs
    <2> QED
      BY <1>0 DEF Parts
  <1>2. ASSUME NEW d \in Seq(Int), NameBefore(a, b), NameBefore(b, d) PROVE NameBefore(a, d)
    <2>0. Len(d) \in Nat /\ \A i \in 1 .. Len(d) : d[i] \in Int
      BY LenProperties, ElementOfSeq
    <2>1. PICK i \in Nat : Parts(a, b, i)
      BY <1>2, BeforeIs
    <2>2. PICK j \in Nat : Parts(b, d, j)
      BY <1>2, BeforeIs
    <2>3. CASE i < j
      <3>1. Parts(a, d, i)
        <4>1. /\ i \in 1 .. Len(b) /\ i <= Len(a) + 1
              /\ \A k \in 1 .. (i - 1) : a[k] = b[k]
              /\ i <= Len(a) => a[i] < b[i]
          BY <2>1 DEF Parts
        <4>2. /\ j \in 1 .. Len(d)
              /\ \A k \in 1 .. (j - 1) : b[k] = d[k]
          BY <2>2 DEF Parts
        <4>3. i \in 1 .. Len(d) /\ i \in 1 .. (j - 1)
          BY <1>0, <2>0, <2>3, <4>1, <4>2
        <4>4. b[i] = d[i]
          BY <4>2, <4>3
        <4>5. ASSUME NEW k \in 1 .. (i - 1) PROVE a[k] = d[k]
          <5>1. k \in 1 .. (j - 1)
            BY <2>3, <4>5
          <5> QED
            BY <4>1, <4>2, <4>5, <5>1
        <4> QED
          BY <4>1, <4>3, <4>4, <4>5 DEF Parts
      <3> QED
        BY <3>1, BeforeIs
    <2>4. CASE j < i
      <3>1. Parts(a, d, j)
        <4>1. /\ i <= Len(b) /\ i <= Len(a) + 1
              /\ \A k \in 1 .. (i - 1) : a[k] = b[k]
          BY <1>0, <2>1 DEF Parts
        <4>2. /\ j \in 1 .. Len(d)
              /\ \A k \in 1 .. (j - 1) : b[k] = d[k]
              /\ j <= Len(b) => b[j] < d[j]
          BY <1>0, <2>0, <2>2 DEF Parts
        <4>3. j <= Len(a) /\ j <= Len(b) /\ j \in 1 .. (i - 1)
          <5>1. Len(a) \in Nat /\ Len(b) \in Nat /\ Len(d) \in Nat
            BY <1>0, <2>0
          <5>2. i <= Len(b) /\ i <= Len(a) + 1 /\ 1 <= j
            BY <4>1, <4>2
          <5> QED
            BY <2>4, <5>1, <5>2
        <4>4. a[j] = b[j] /\ b[j] < d[j]
          BY <4>1, <4>2, <4>3
        <4>5. a[j] < d[j]
          BY <4>4
        <4>6. ASSUME NEW k \in 1 .. (j - 1) PROVE a[k] = d[k]
          <5>1. k \in 1 .. (i - 1)
            BY <2>4, <4>6
          <5> QED
            BY <4>1, <4>2, <4>6, <5>1
        <4>7. j <= Len(a) + 1
          BY <1>0, <4>3
        <4> QED
          BY <4>2, <4>5, <4>6, <4>7 DEF Parts
      <3> QED
        BY <3>1, BeforeIs
    <2>5. CASE j = i
      <3>1. Parts(a, d, j)
        <4>1. /\ j \in 1 .. Len(b) /\ j <= Len(a) + 1
              /\ \A k \in 1 .. (j - 1) : a[k] = b[k]
              /\ j <= Len(a) => a[j] < b[j]
          BY <2>1, <2>5 DEF Parts
        <4>2. /\ j \in 1 .. Len(d)
              /\ \A k \in 1 .. (j - 1) : b[k] = d[k]
              /\ j <= Len(b) => b[j] < d[j]
          BY <2>2 DEF Parts
        <4>3. b[j] < d[j]
          BY <1>0, <4>1, <4>2
        <4>4. ASSUME j <= Len(a) PROVE a[j] < d[j]
          <5>1. j \in 1 .. Len(a)
            BY <1>0, <4>1, <4>4
          <5>2. a[j] < b[j] /\ a[j] \in Int /\ b[j] \in Int /\ d[j] \in Int
            BY <1>0, <2>0, <4>1, <4>2, <4>4, <5>1
          <5> QED
            BY <4>3, <5>2
        <4>5. \A k \in 1 .. (j - 1) : a[k] = d[k]
          BY <4>1, <4>2
        <4> QED
          BY <4>1, <4>2, <4>4, <4>5 DEF Parts
      <3> QED
        BY <3>1, BeforeIs
    <2> QED
      BY <2>3, <2>4, <2>5
  <1>3. ASSUME a # b PROVE NameBefore(a, b) \/ NameBefore(b, a)
    <2> DEFINE Differ == {k \in Nat : k \in 1 .. Len(a) /\ k \in 1 .. Len(b) /\ a[k] # b[k]}
    <2>1. CASE Differ # {}
      <3>1. PICK i \in Differ : \A m \in Differ : i <= m
        BY <2>1, LeastOf
      <3>0. i \in 1 .. Len(a) /\ i \in 1 .. Len(b) /\ i \in Nat /\ a[i] # b[i]
        OBVIOUS
      <3>5. Len(a) \in Nat /\ Len(b) \in Nat
        BY <1>0
      <3> HIDE DEF Differ
      <3>2. ASSUME NEW k \in 1 .. (i - 1) PROVE a[k] = b[k]
        <4>1. k \in Nat /\ k \in 1 .. Len(a) /\ k \in 1 .. Len(b) /\ ~(i <= k)
          BY <3>0, <3>5, BelowIn
        <4>2. k \notin Differ
          BY <3>1, <4>1
        <4> QED
          BY <4>1, <4>2 DEF Differ
      <3>3. a[i] < b[i] \/ b[i] < a[i]
        BY <1>0, <3>0
      <3>4. Parts(a, b, i) \/ Parts(b, a, i)
        <4>1. i \in 1 .. Len(a) /\ i \in 1 .. Len(b)
          BY <3>0
        <4>2. i <= Len(a) + 1 /\ i <= Len(b) + 1
          BY <3>0, <3>5
        <4>3. CASE a[i] < b[i]
          BY <3>2, <4>1, <4>2, <4>3 DEF Parts
        <4>4. CASE b[i] < a[i]
          BY <3>2, <4>1, <4>2, <4>4 DEF Parts
        <4> QED
          BY <3>3, <4>3, <4>4
      <3> QED
        BY <3>0, <3>4, BeforeIs
    <2>2. CASE Differ = {}
      <3>1. \A k \in 1 .. Len(a) : k \in 1 .. Len(b) => a[k] = b[k]
        <4>1. \A k \in Nat : k \notin Differ
          BY <2>2
        <4>2. \A k \in 1 .. Len(a) : k \in Nat
          BY <1>0
        <4> QED
          BY <4>1, <4>2
      <3>2. ASSUME Len(a) = Len(b) PROVE FALSE
        <4>1. \A k \in 1 .. Len(a) : a[k] = b[k]
          BY <3>1, <3>2
        <4> QED
          BY <1>3, <3>2, <4>1, SeqEqual
      <3>3. Len(a) < Len(b) \/ Len(b) < Len(a)
        BY <1>0, <3>2
      <3>4. Parts(a, b, Len(a) + 1) \/ Parts(b, a, Len(b) + 1)
        BY <1>0, <3>1, <3>3 DEF Parts
      <3>5. Len(a) + 1 \in Nat /\ Len(b) + 1 \in Nat
        BY <1>0
      <3> QED
        BY <3>4, <3>5, BeforeIs
    <2> QED
      BY <2>1, <2>2
  <1> QED
    BY <1>1, <1>2, <1>3

(***************************************************************************)
(* A list is sorted by the number of its entries that do not come after.   *)
(***************************************************************************)

LEMMA RanksArePlaces ==
    ASSUME NEW s \in Seq(MatchSet), Apart(s)
    PROVE  /\ \A i \in 1 .. Len(s) : Cardinality(NotAfter(s, i)) \in 1 .. Len(s)
           /\ \A k \in 1 .. Len(s) : \E i \in 1 .. Len(s) : Cardinality(NotAfter(s, i)) = k
           /\ \A i, j \in 1 .. Len(s) : Cardinality(NotAfter(s, i)) = Cardinality(NotAfter(s, j)) => i = j
           /\ \A i, j \in 1 .. Len(s) : Cardinality(NotAfter(s, i)) < Cardinality(NotAfter(s, j))
                                            => NameBefore(s[i].name, s[j].name)
  <1> DEFINE n == Len(s)
             R(i) == NotAfter(s, i)
  <1>0. /\ n \in Nat /\ DOMAIN s = 1 .. n
        /\ \A i \in 1 .. n : s[i].name \in Seq(Int)
    <2>1. n \in Nat /\ DOMAIN s = 1 .. n /\ \A i \in 1 .. n : s[i] \in MatchSet
      BY LenProperties, ElementOfSeq
    <2> QED
      BY <2>1 DEF MatchSet
  <1>1. IsFiniteSet(1 .. n) /\ Cardinality(1 .. n) = n
    <2> HIDE DEF n
    <2>1. 1 \in Int /\ n \in Int
      BY <1>0
    <2>2. IsFiniteSet(1 .. n) /\ Cardinality(1 .. n) = IF 1 > n THEN 0 ELSE n - 1 + 1
      BY <2>1, FS_Interval
    <2> QED
      BY <1>0, <2>2
  <1>2. \A i \in 1 .. n : R(i) \in SUBSET (1 .. n) /\ i \in R(i)
    BY <1>0 DEF NotAfter
  <1>3. \A i \in 1 .. n : IsFiniteSet(R(i)) /\ Cardinality(R(i)) \in Nat /\ Cardinality(R(i)) <= n
    <2> SUFFICES ASSUME NEW i \in 1 .. n PROVE IsFiniteSet(R(i)) /\ Cardinality(R(i)) \in Nat /\ Cardinality(R(i)) <= n
      OBVIOUS
    <2>1. PICK X \in SUBSET (1 .. n) : X = R(i)
      BY <1>2
    <2> HIDE DEF R, n
    <2> QED
      BY <1>1, <2>1, FS_Subset, FS_CardinalityType
  <1>4. \A i \in 1 .. n : Cardinality(R(i)) \in 1 .. n
    <2> SUFFICES ASSUME NEW i \in 1 .. n PROVE Cardinality(R(i)) # 0
      BY <1>0, <1>3
    <2> HIDE DEF R, n
    <2> QED
      BY <1>2, <1>3, FS_EmptySet
  <1>5. ASSUME NEW i \in 1 .. n, NEW j \in 1 .. n, NameBefore(s[i].name, s[j].name)
        PROVE  Cardinality(R(i)) < Cardinality(R(j))
    <2>1. ASSUME NEW k \in R(i) PROVE k \in R(j)
      <3>1. k \in 1 .. n /\ (NameBefore(s[k].name, s[i].name) \/ s[k].name = s[i].name)
        BY <1>0, <2>1 DEF NotAfter
      <3>2. NameBefore(s[k].name, s[j].name)
        BY <1>0, <1>5, <3>1, BeforeOrders
      <3> QED
        BY <1>0, <3>1, <3>2 DEF NotAfter
    <2>2. j \notin R(i)
      <3> SUFFICES ASSUME j \in R(i) PROVE FALSE
        OBVIOUS
      <3>1. NameBefore(s[j].name, s[i].name) \/ s[j].name = s[i].name
        BY <1>0 DEF NotAfter
      <3>2. NameBefore(s[j].name, s[j].name)
        BY <1>0, <1>5, <3>1, BeforeOrders
      <3> QED
        BY <1>0, <3>2, BeforeOrders
    <2>3. R(i) \in SUBSET R(j) /\ R(i) # R(j) /\ IsFiniteSet(R(j))
      BY <1>2, <1>3, <2>1, <2>2
    <2> HIDE DEF R, n
    <2>4. Cardinality(R(i)) <= Cardinality(R(j)) /\ Cardinality(R(i)) # Cardinality(R(j))
      BY <2>3, FS_Subset
    <2> QED
      BY <1>3, <2>4
  <1>6. ASSUME NEW i \in 1 .. n, NEW j \in 1 .. n, i # j
        PROVE  NameBefore(s[i].name, s[j].name) \/ NameBefore(s[j].name, s[i].name)
    <2>1. s[i].name # s[j].name
      BY <1>0, <1>6 DEF Apart
    <2> QED
      BY <1>0, <2>1, BeforeOrders
  <1> DEFINE rank == [i \in 1 .. n |-> Cardinality(R(i))]
  <1>7. rank \in Injection(1 .. n, 1 .. n)
    <2>1. rank \in [1 .. n -> 1 .. n]
      BY <1>4
    <2>2. \A i, j \in 1 .. n : rank[i] = rank[j] => i = j
      <3> SUFFICES ASSUME NEW i \in 1 .. n, NEW j \in 1 .. n, i # j PROVE Cardinality(R(i)) # Cardinality(R(j))
        OBVIOUS
      <3>1. Cardinality(R(i)) < Cardinality(R(j)) \/ Cardinality(R(j)) < Cardinality(R(i))
        BY <1>5, <1>6
      <3> HIDE DEF R, n
      <3> QED
        BY <1>3, <3>1
    <2> HIDE DEF rank
    <2> QED
      BY <2>1, <2>2 DEF Injection, IsInjective
  <1>11. \A i, j \in 1 .. n : rank[i] = rank[j] => i = j
    <2> HIDE DEF rank
    <2> QED
      BY <1>7 DEF Injection, IsInjective
  <1>8. rank \in Surjection(1 .. n, 1 .. n)
    <2> HIDE DEF rank, n
    <2> QED
      BY <1>1, <1>7, FS_Injection
  <1>9. \A k \in 1 .. n : \E i \in 1 .. n : rank[i] = k
    <2> HIDE DEF rank
    <2> QED
      BY <1>8 DEF Surjection
  <1>10. ASSUME NEW i \in 1 .. n, NEW j \in 1 .. n, Cardinality(R(i)) < Cardinality(R(j))
         PROVE  NameBefore(s[i].name, s[j].name)
    <2>1. i # j
      <3> HIDE DEF R, n
      <3> QED
        BY <1>3, <1>10
    <2>2. ASSUME NameBefore(s[j].name, s[i].name) PROVE FALSE
      <3>1. Cardinality(R(j)) < Cardinality(R(i))
        BY <1>5, <2>2
      <3> HIDE DEF R, n
      <3> QED
        BY <1>3, <1>10, <3>1
    <2> QED
      BY <1>6, <2>1, <2>2
  <1> QED
    BY <1>4, <1>9, <1>10, <1>11

LEMMA SortedIs ==
    ASSUME NEW s \in Seq(MatchSet), Apart(s)
    PROVE  /\ Sorted(s) \in Seq(MatchSet) /\ Len(Sorted(s)) = Len(s)
           /\ \A k \in 1 .. Len(s) : \E i \in 1 .. Len(s) : Sorted(s)[k] = s[i]
           /\ \A i \in 1 .. Len(s) : \E k \in 1 .. Len(s) : Sorted(s)[k] = s[i]
           /\ \A i, j \in 1 .. Len(s) : i < j => NameBefore(Sorted(s)[i].name, Sorted(s)[j].name)
  <1> DEFINE n == Len(s)
             R(i) == Cardinality(NotAfter(s, i))
             P(k) == CHOOSE i \in DOMAIN s : R(i) = k
  <1>0. n \in Nat /\ DOMAIN s = 1 .. n /\ \A i \in 1 .. n : s[i] \in MatchSet
    BY LenProperties, ElementOfSeq
  <1>1. /\ \A i \in 1 .. n : R(i) \in 1 .. n
        /\ \A k \in 1 .. n : \E i \in 1 .. n : R(i) = k
        /\ \A i, j \in 1 .. n : R(i) = R(j) => i = j
        /\ \A i, j \in 1 .. n : R(i) < R(j) => NameBefore(s[i].name, s[j].name)
    BY RanksArePlaces
  <1>2. \A k \in 1 .. n : P(k) \in 1 .. n /\ R(P(k)) = k
    <2> SUFFICES ASSUME NEW k \in 1 .. n PROVE P(k) \in 1 .. n /\ R(P(k)) = k
      OBVIOUS
    <2>1. \E i \in DOMAIN s : R(i) = k
      BY <1>0, <1>1
    <2> HIDE DEF R
    <2> QED
      BY <1>0, <2>1
  <1>3. Sorted(s) = [k \in 1 .. n |-> s[P(k)]]
    BY <1>0 DEF Sorted
  <1> HIDE DEF n, P, R
  <1>4. \A k \in 1 .. n : s[P(k)] \in MatchSet
    BY <1>0, <1>2
  <1>5. Sorted(s) \in Seq(MatchSet) /\ Len(Sorted(s)) = n /\ \A k \in 1 .. n : Sorted(s)[k] = s[P(k)]
    BY <1>0, <1>3, <1>4
  <1>6. \A k \in 1 .. n : \E i \in 1 .. n : Sorted(s)[k] = s[i]
    BY <1>2, <1>5
  <1>7. ASSUME NEW i \in 1 .. n PROVE \E k \in 1 .. n : Sorted(s)[k] = s[i]
    <2> DEFINE k == R(i)
    <2>1. k \in 1 .. n
      BY <1>1
    <2> SUFFICES P(k) = i
      BY <1>5, <2>1
    <2>2. R(P(k)) = k /\ P(k) \in 1 .. n
      BY <1>2, <2>1
    <2> QED
      BY <1>1, <2>2
  <1>8. ASSUME NEW i \in 1 .. n, NEW j \in 1 .. n, i < j PROVE NameBefore(Sorted(s)[i].name, Sorted(s)[j].name)
    <2>1. PICK a \in 1 .. n : a = P(i) /\ R(a) = i
      BY <1>2
    <2>2. PICK b \in 1 .. n : b = P(j) /\ R(b) = j
      BY <1>2
    <2>3. NameBefore(s[a].name, s[b].name)
      BY <1>1, <1>8, <2>1, <2>2
    <2> QED
      BY <1>5, <2>1, <2>2, <2>3
  <1> QED
    BY <1>5, <1>6, <1>7, <1>8 DEF n

(***************************************************************************)
(* The paths that match.                                                   *)
(***************************************************************************)

LEMMA PatternIs ==
    ASSUME NEW c, Legal(c)
    PROVE  /\ Len(c.pattern) \in Nat /\ DOMAIN c.pattern = 1 .. Len(c.pattern)
           /\ \A k \in 1 .. Len(c.pattern) : c.pattern[k].accepts \subseteq Names(c)
           /\ c.pattern # <<>> <=> Len(c.pattern) # 0
           /\ c.pattern # <<>> => /\ Depth(c) \in Nat /\ Depth(c) <= Len(c.pattern) /\ Len(c.pattern) <= Depth(c) + 1
                                  /\ Depth(c) < Len(c.pattern) <=> c.pattern[Len(c.pattern)] = Slash
           /\ \A k \in 1 .. Len(c.pattern) : c.pattern[k] # Slash => k <= Depth(c)
           /\ \A k \in 1 .. Len(c.pattern) : c.pattern[k] = Slash => k = Len(c.pattern)
  <1>0. c.pattern \in Seq(ToSet(c.pattern))
    BY DEF Legal
  <1>1. Len(c.pattern) \in Nat /\ DOMAIN c.pattern = 1 .. Len(c.pattern)
    BY <1>0, LenProperties
  <1>2. \A k \in 1 .. Len(c.pattern) : c.pattern[k].accepts \subseteq Names(c)
    BY <1>1 DEF Names, ToSet
  <1>3. c.pattern # <<>> <=> Len(c.pattern) # 0
    BY <1>0, EmptySeq
  <1>4. \A k \in 1 .. Len(c.pattern) : c.pattern[k] = Slash => k = Len(c.pattern)
    BY <1>1 DEF Legal
  <1> HIDE DEF Slash
  <1>5. c.pattern # <<>> => /\ Depth(c) \in Nat /\ Depth(c) <= Len(c.pattern) /\ Len(c.pattern) <= Depth(c) + 1
                            /\ Depth(c) < Len(c.pattern) <=> c.pattern[Len(c.pattern)] = Slash
    BY <1>1, <1>3 DEF Depth
  <1>6. \A k \in 1 .. Len(c.pattern) : c.pattern[k] # Slash => k <= Depth(c)
    BY <1>1, <1>3, <1>5 DEF Depth
  <1> QED
    BY <1>1, <1>2, <1>3, <1>4, <1>5, <1>6

\* A directory that a search can open lists names once, with the right types.
LEMMA ListingIs ==
    ASSUME NEW c, Legal(c), NEW path \in Seq(PathNames(c)), Len(path) < Len(c.pattern),
           OpenError(c.tree, path) = "none", NEW es, es = c.tree[Place(path)].list
    PROVE  es \in Seq(DirEntries(c)) /\ RightLeft(c, path, es)
  <1>0. Len(c.pattern) \in Nat /\ Len(path) \in Nat /\ path \in [1 .. Len(path) -> PathNames(c)]
    BY PatternIs, LenProperties
  <1>1. path \in SearchPaths(c)
    <2>1. path \in [1 .. Len(path) -> ReadNames(c.tree)]
      BY <1>0 DEF PathNames
    <2>2. Len(path) \in 0 .. (Len(c.pattern) - 1)
      BY <1>0
    <2> QED
      BY <2>1, <2>2 DEF SearchPaths
  <1>2. RightListing(c.tree, path)
    BY <1>1 DEF Legal
  <1>3. Place(path) \in DOMAIN c.tree
    BY DEF OpenError, IsDir, Exists
  <1>4. es \in Seq(ToSet(es))
    BY <1>2 DEF RightListing
  <1>5. ToSet(es) \subseteq DirEntries(c)
    BY <1>3 DEF DirEntries
  <1>6. es \in Seq(DirEntries(c))
    BY <1>4, <1>5, SeqMonotonic
  <1>7. \A i \in DOMAIN es : es[i].name \in PathNames(c)
    <2>1. \A i \in DOMAIN es : es[i].name \in Int
      BY <1>2 DEF RightListing
    <2>2. \A i \in DOMAIN es : es[i].name \in ReadNames(c.tree)
      BY <1>3 DEF ReadNames, ToSet
    <2> QED
      BY <2>1, <2>2 DEF PathNames
  <1>8. \A i \in DOMAIN es : Listed(c.tree, path, es[i].name)
    BY DEF Listed
  <1> QED
    BY <1>2, <1>6, <1>7, <1>8 DEF RightLeft, RightListing

\* What a match is, component by component.
LEMMA MatchIs ==
    ASSUME NEW c, Legal(c), c.pattern # <<>>, NEW x \in Matches(c)
    PROVE  /\ x \in Seq(PathNames(c)) /\ Len(x) = Depth(c)
           /\ \A i \in 1 .. Depth(c) :
                /\ x[i] \in c.pattern[i].accepts
                /\ Listed(c.tree, SubSeq(x, 1, i - 1), x[i])
                /\ (i < Len(c.pattern) /\ "PERIOD" \in c.flags /\ x[i] = Dot) => x[i] \in c.pattern[i].period
           /\ Depth(c) < Len(c.pattern) => IsDir(c.tree, x)
  <1> DEFINE D == Depth(c)
  <1>0. D \in Nat /\ D <= Len(c.pattern) /\ Len(c.pattern) \in Nat
    BY PatternIs
  <1>1. x \in [1 .. D -> Names(c)] /\ Follows(c, x) /\ (D < Len(c.pattern) => IsDir(c.tree, x))
    BY DEF Matches
  <1> HIDE DEF D
  <1>2. \A i \in 1 .. D :
          /\ x[i] \in c.pattern[i].accepts
          /\ Listed(c.tree, SubSeq(x, 1, i - 1), x[i])
          /\ (i < Len(c.pattern) /\ "PERIOD" \in c.flags /\ x[i] = Dot) => x[i] \in c.pattern[i].period
    BY <1>1 DEF Follows
  <1>3. x \in Seq(Names(c)) /\ Len(x) = D
    BY <1>0, <1>1
  <1>4. \A i \in 1 .. D : x[i] \in ReadNames(c.tree)
    <2> SUFFICES ASSUME NEW i \in 1 .. D PROVE x[i] \in ReadNames(c.tree)
      OBVIOUS
    <2> DEFINE p == SubSeq(x, 1, i - 1)
    <2>1. Listed(c.tree, p, x[i])
      BY <1>2
    <2> HIDE DEF p
    <2>2. Place(p) \in DOMAIN c.tree
      BY <2>1 DEF Listed, OpenError, IsDir, Exists
    <2> QED
      BY <2>1, <2>2 DEF Listed, ReadNames, ToSet
  <1>5. x \in Seq(ReadNames(c.tree))
    BY <1>0, <1>1, <1>4
  <1>6. \A i \in 1 .. D : x[i] \in Int
    <2> SUFFICES ASSUME NEW i \in 1 .. D PROVE x[i] \in Int
      OBVIOUS
    <2>1. PICK n \in 0 .. (Len(c.pattern) - 1) : n = i - 1
      BY <1>0
    <2>2. n \in 0 .. Len(x)
      BY <1>0, <1>3, <2>1
    <2>3. PICK p \in Seq(ReadNames(c.tree)) : p = SubSeq(x, 1, n)
      BY <1>5, <2>2, PrefixOf
    <2>4. Len(p) = n
      BY <1>5, <2>2, <2>3, PrefixOf
    <2>5. p \in [1 .. n -> ReadNames(c.tree)]
      BY <2>3, <2>4, LenProperties
    <2>6. p \in SearchPaths(c)
      BY <2>5 DEF SearchPaths
    <2>7. Listed(c.tree, p, x[i])
      BY <1>2, <2>1, <2>3
    <2>8. RightListing(c.tree, p)
      BY <2>6, <2>7 DEF Legal, Listed
    <2> QED
      BY <2>7, <2>8 DEF Listed, RightListing
  <1>7. x \in Seq(PathNames(c))
    BY <1>0, <1>1, <1>4, <1>6 DEF PathNames
  <1> QED
    BY <1>1, <1>2, <1>3, <1>7 DEF D

\* And conversely.
LEMMA MatchOf ==
    ASSUME NEW c, Legal(c), c.pattern # <<>>, NEW x \in Seq(PathNames(c)), Len(x) = Depth(c), Follows(c, x),
           Depth(c) < Len(c.pattern) => IsDir(c.tree, x)
    PROVE  x \in Matches(c)
  <1>0. Depth(c) \in Nat /\ Depth(c) <= Len(c.pattern) /\ Len(c.pattern) \in Nat
    BY PatternIs
  <1>1. DOMAIN x = 1 .. Depth(c) /\ x \in [1 .. Depth(c) -> PathNames(c)]
    BY LenProperties
  <1>2. \A i \in 1 .. Depth(c) : x[i] \in Names(c)
    <2> SUFFICES ASSUME NEW i \in 1 .. Depth(c) PROVE x[i] \in Names(c)
      OBVIOUS
    <2>1. x[i] \in c.pattern[i].accepts
      BY <1>1 DEF Follows
    <2>2. c.pattern[i].accepts \subseteq Names(c)
      BY <1>0, PatternIs
    <2> QED
      BY <2>1, <2>2
  <1>3. x \in [1 .. Depth(c) -> Names(c)]
    BY <1>1, <1>2
  <1> QED
    BY <1>3 DEF Matches

\* One more component.
LEMMA FollowsOn ==
    ASSUME NEW c, Legal(c), NEW p \in Seq(PathNames(c)), Follows(c, p), NEW x \in PathNames(c), NEW n \in Nat,
           n = Len(p) + 1, x \in c.pattern[n].accepts, Listed(c.tree, p, x),
           (n < Len(c.pattern) /\ "PERIOD" \in c.flags /\ x = Dot) => x \in c.pattern[n].period
    PROVE  Follows(c, Append(p, x))
  <1> DEFINE q == Append(p, x)
  <1>0. Len(p) \in Nat /\ DOMAIN p = 1 .. Len(p)
    BY LenProperties
  <1>1. q \in Seq(PathNames(c)) /\ Len(q) = n /\ (\A i \in 1 .. Len(p) : q[i] = p[i]) /\ q[n] = x
    BY <1>0, AppendProperties
  <1> HIDE DEF q
  <1>2. DOMAIN q = 1 .. n
    BY <1>1, LenProperties
  <1>3. ASSUME NEW i \in 1 .. n PROVE SubSeq(q, 1, i - 1) = SubSeq(p, 1, i - 1)
    <2>1. PICK k \in 0 .. Len(p) : k = i - 1
      BY <1>0
    <2>2. PICK r \in Seq(PathNames(c)) : r = SubSeq(p, 1, k)
      BY <2>1, PrefixOf
    <2>3. Len(r) = k /\ \A j \in 1 .. k : r[j] = p[j]
      BY <2>1, <2>2, PrefixOf
    <2>4. Len(r) <= Len(q) /\ \A j \in 1 .. Len(r) : q[j] = r[j]
      BY <1>0, <1>1, <2>1, <2>3
    <2>5. SubSeq(q, 1, Len(r)) = r
      BY <1>1, <2>4, PrefixIs
    <2> QED
      BY <2>1, <2>2, <2>3, <2>5
  <1>4. SubSeq(p, 1, n - 1) = p
    <2>1. n - 1 = Len(p)
      BY <1>0
    <2> QED
      BY <2>1, SubSeqFull
  <1>5. ASSUME NEW i \in 1 .. n
        PROVE  /\ q[i] \in c.pattern[i].accepts
               /\ Listed(c.tree, SubSeq(q, 1, i - 1), q[i])
               /\ (i < Len(c.pattern) /\ "PERIOD" \in c.flags /\ q[i] = Dot) => q[i] \in c.pattern[i].period
    <2>1. CASE i = n
      BY <1>1, <1>3, <1>4, <2>1
    <2>2. CASE i # n
      <3>1. i \in DOMAIN p /\ q[i] = p[i]
        BY <1>0, <1>1, <2>2
      <3> QED
        BY <1>3, <3>1 DEF Follows
    <2> QED
      BY <2>1, <2>2
  <1> QED
    BY <1>2, <1>5 DEF Follows, q

(***************************************************************************)
(* The frames.                                                             *)
(***************************************************************************)

Agrees(x, p) == \A i \in 1 .. Len(p) : x[i] = p[i]
DoneBelow(c, fs) == {x \in Matches(c) : \A i \in 1 .. (Len(fs) - 1) : ~Pending(x, fs[i])}

LEMMA TopIs ==
    ASSUME NEW c, NEW fs, Opening(c, fs), NEW n, n = Len(fs)
    PROVE  /\ n \in Nat /\ n \in 1 .. Len(c.pattern) /\ n \in DOMAIN c.pattern /\ DOMAIN fs = 1 .. n
           /\ Len(c.pattern) \in Nat /\ Depth(c) \in Nat /\ Len(c.pattern) <= Depth(c) + 1 /\ n - 1 <= Depth(c)
           /\ \A i \in 1 .. n : fs[i] \in FrameSet(c) /\ RightFrame(c, fs[i], i) /\ (i < n => fs[i].opened)
           /\ \A i \in 1 .. n : fs[i].path \in Seq(PathNames(c)) /\ fs[i].left \in Seq(DirEntries(c)) /\ fs[i].opened \in BOOLEAN
           /\ \A i, j \in 1 .. n : i < j => ReadPast(fs[i], fs[j].path[i])
  <1>0. fs \in Seq(FrameSet(c)) /\ n <= Len(c.pattern)
    BY DEF Opening, RightFrames
  <1>1. n \in Nat /\ n # 0 /\ DOMAIN fs = 1 .. n
    BY <1>0, LenProperties, EmptySeq DEF Opening
  <1>2. Len(c.pattern) \in Nat /\ Depth(c) \in Nat /\ Len(c.pattern) <= Depth(c) + 1 /\ DOMAIN c.pattern = 1 .. Len(c.pattern)
    BY PatternIs DEF Opening
  <1>3. n \in 1 .. Len(c.pattern) /\ n - 1 <= Depth(c)
    BY <1>0, <1>1, <1>2
  <1>4. \A i \in 1 .. n : fs[i] \in FrameSet(c)
    BY <1>0, ElementOfSeq
  <1>5. \A i \in 1 .. n : fs[i].path \in Seq(PathNames(c)) /\ fs[i].left \in Seq(DirEntries(c)) /\ fs[i].opened \in BOOLEAN
    BY <1>4 DEF FrameSet
  <1>6. /\ \A i \in 1 .. n : RightFrame(c, fs[i], i) /\ (i < n => fs[i].opened)
        /\ \A i, j \in 1 .. n : i < j => ReadPast(fs[i], fs[j].path[i])
    BY <1>1 DEF Opening, RightFrames
  <1> QED
    BY <1>1, <1>2, <1>3, <1>4, <1>5, <1>6

LEMMA PendingIs ==
    ASSUME NEW c, Legal(c), c.pattern # <<>>, NEW x \in Matches(c), NEW n \in 1 .. Len(c.pattern),
           NEW f, RightFrame(c, f, n), f.path \in Seq(PathNames(c))
    PROVE  Pending(x, f) <=> /\ Agrees(x, f.path)
                             /\ f.opened => \E k \in DOMAIN f.left : f.left[k].name = x[n]
  <1>1. x \in Seq(PathNames(c)) /\ Len(x) = Depth(c) /\ Len(c.pattern) <= Depth(c) + 1 /\ Depth(c) \in Nat
    BY MatchIs, PatternIs
  <1>2. f.at = n /\ Len(f.path) = n - 1 /\ Len(f.path) <= Len(x)
    BY <1>1 DEF RightFrame
  <1>3. SubSeq(x, 1, Len(f.path)) = f.path <=> Agrees(x, f.path)
    <2> PICK p : p = f.path
      OBVIOUS
    <2> PICK S : S = PathNames(c)
      OBVIOUS
    <2>1. x \in Seq(S) /\ p \in Seq(S) /\ Len(p) <= Len(x)
      BY <1>1, <1>2
    <2>2. SubSeq(x, 1, Len(p)) = p <=> \A i \in 1 .. Len(p) : x[i] = p[i]
      BY <2>1, PrefixIs
    <2> QED
      BY <2>2 DEF Agrees
  <1> QED
    BY <1>2, <1>3 DEF Pending

\* Names that were passed in the directories around do not wait there.
LEMMA NotBelow ==
    ASSUME NEW c, NEW fs, Opening(c, fs), NEW x \in Matches(c), Agrees(x, fs[Len(fs)].path)
    PROVE  x \in DoneBelow(c, fs)
  <1> DEFINE n == Len(fs)
  <1>0. /\ n \in Nat /\ n \in 1 .. Len(c.pattern) /\ Len(c.pattern) \in Nat
        /\ \A i \in 1 .. n : RightFrame(c, fs[i], i) /\ (i < n => fs[i].opened) /\ fs[i].path \in Seq(PathNames(c))
        /\ \A i, j \in 1 .. n : i < j => ReadPast(fs[i], fs[j].path[i])
    BY TopIs
  <1> HIDE DEF n
  <1>1. ASSUME NEW i \in 1 .. (n - 1), Pending(x, fs[i]) PROVE FALSE
    <2>1. i \in 1 .. Len(c.pattern) /\ i \in 1 .. n /\ i < n /\ n \in 1 .. n
      BY <1>0
    <2>2. \E k \in DOMAIN fs[i].left : fs[i].left[k].name = x[i]
      <3>1. RightFrame(c, fs[i], i) /\ fs[i].path \in Seq(PathNames(c)) /\ fs[i].opened
        BY <1>0, <2>1
      <3> QED
        BY <1>1, <2>1, <3>1, PendingIs DEF Opening
    <2>3. Len(fs[n].path) = n - 1
      BY <1>0, <2>1 DEF RightFrame
    <2>4. x[i] = fs[n].path[i]
      BY <2>3 DEF Agrees, n
    <2>5. ReadPast(fs[i], fs[n].path[i])
      BY <1>0, <2>1
    <2> QED
      BY <2>2, <2>4, <2>5 DEF ReadPast
  <1> QED
    BY <1>1 DEF DoneBelow, n

LEMMA DoneIs ==
    ASSUME NEW c, NEW fs, Opening(c, fs)
    PROVE  Done(c, fs) = {x \in DoneBelow(c, fs) : ~Pending(x, fs[Len(fs)])}
  <1> DEFINE n == Len(fs)
  <1>0. n \in Nat /\ n \in 1 .. n /\ DOMAIN fs = 1 .. n
    BY TopIs
  <1> HIDE DEF n
  <1>1. \A i \in 1 .. n : i = n \/ i \in 1 .. (n - 1)
    BY <1>0
  <1>2. \A i \in 1 .. (n - 1) : i \in 1 .. n
    BY <1>0
  <1> QED
    BY <1>0, <1>1, <1>2 DEF Done, DoneBelow, n

\* What is left when the innermost call returns.
LEMMA PoppedIs ==
    ASSUME NEW c, NEW fs, Opening(c, fs), NEW g, g = SubSeq(fs, 1, Len(fs) - 1)
    PROVE  RightFrames(c, g) /\ Done(c, g) = DoneBelow(c, fs)
  <1>0. /\ Len(fs) \in Nat /\ Len(fs) \in 1 .. Len(c.pattern) /\ Len(c.pattern) \in Nat /\ fs \in Seq(FrameSet(c))
        /\ \A i \in 1 .. Len(fs) : RightFrame(c, fs[i], i) /\ (i < Len(fs) => fs[i].opened)
        /\ \A i, j \in 1 .. Len(fs) : i < j => ReadPast(fs[i], fs[j].path[i])
    BY TopIs DEF Opening, RightFrames
  <1>1. PICK m \in 0 .. Len(fs) : m = Len(fs) - 1
    BY <1>0
  <1>2. g \in Seq(FrameSet(c)) /\ Len(g) = m /\ \A i \in 1 .. m : g[i] = fs[i]
    BY <1>0, <1>1, PrefixOf
  <1>3. DOMAIN g = 1 .. m /\ \A i \in 1 .. m : i \in 1 .. Len(fs) /\ i < Len(fs)
    BY <1>0, <1>1, <1>2, LenProperties
  <1>4. RightFrames(c, g)
    <2>1. m <= Len(c.pattern)
      BY <1>0, <1>1
    <2> QED
      BY <1>0, <1>2, <1>3, <2>1 DEF RightFrames
  <1>5. Done(c, g) = DoneBelow(c, fs)
    BY <1>1, <1>2, <1>3 DEF Done, DoneBelow
  <1> QED
    BY <1>4, <1>5

\* The innermost frame changes, but not its path.
TopChanges(c, fs, g) ==
    /\ g \in Seq(FrameSet(c)) /\ Len(g) = Len(fs)
    /\ \A i \in 1 .. (Len(fs) - 1) : g[i] = fs[i]
    /\ g[Len(fs)].path = fs[Len(fs)].path
    /\ RightFrame(c, g[Len(fs)], Len(fs))

LEMMA ChangedTop ==
    ASSUME NEW c, NEW fs, Opening(c, fs), NEW g, TopChanges(c, fs, g)
    PROVE  Opening(c, g) /\ DoneBelow(c, g) = DoneBelow(c, fs)
  <1> DEFINE n == Len(fs)
  <1>0. /\ n \in Nat /\ n \in 1 .. Len(c.pattern) /\ Len(c.pattern) \in Nat
        /\ \A i \in 1 .. n : RightFrame(c, fs[i], i) /\ (i < n => fs[i].opened)
        /\ \A i, j \in 1 .. n : i < j => ReadPast(fs[i], fs[j].path[i])
    BY TopIs
  <1>1. /\ g \in Seq(FrameSet(c)) /\ Len(g) = n
        /\ \A i \in 1 .. (n - 1) : g[i] = fs[i]
        /\ g[n].path = fs[n].path /\ RightFrame(c, g[n], n)
    BY DEF TopChanges
  <1>2. DOMAIN g = 1 .. n /\ g # <<>>
    BY <1>0, <1>1, LenProperties, EmptySeq
  <1>3. DoneBelow(c, g) = DoneBelow(c, fs)
    BY <1>1 DEF DoneBelow
  <1> HIDE DEF n
  <1>4. \A i \in 1 .. n : i = n \/ i \in 1 .. (n - 1)
    BY <1>0
  <1>5. \A i \in 1 .. n : RightFrame(c, g[i], i) /\ (i < n => g[i].opened)
    BY <1>0, <1>1, <1>4
  <1>6. ASSUME NEW i \in 1 .. n, NEW j \in 1 .. n, i < j PROVE ReadPast(g[i], g[j].path[i])
    <2>1. i \in 1 .. (n - 1)
      BY <1>0, <1>6
    <2>2. g[i] = fs[i] /\ g[j].path = fs[j].path
      BY <1>1, <1>4, <2>1
    <2> QED
      BY <1>0, <1>6, <2>2
  <1>7. n <= Len(c.pattern)
    BY <1>0
  <1>8. RightFrames(c, g)
    BY <1>1, <1>2, <1>5, <1>6, <1>7 DEF RightFrames
  <1> QED
    BY <1>2, <1>3, <1>8 DEF Opening

\* A call goes deeper.
Deeper(c, fs, h, n, g) ==
    /\ n = Len(fs) + 1 /\ n <= Len(c.pattern) /\ h \in FrameSet(c) /\ RightFrame(c, h, n)
    /\ fs[Len(fs)].opened /\ \A i \in 1 .. Len(fs) : ReadPast(fs[i], h.path[i])
    /\ g = Append(fs, h)

LEMMA DeeperFrame ==
    ASSUME NEW c, NEW fs, Opening(c, fs), NEW h, NEW n, NEW g, Deeper(c, fs, h, n, g)
    PROVE  Opening(c, g) /\ g[Len(g)] = h /\ DoneBelow(c, g) = Done(c, fs)
  <1> DEFINE m == Len(fs)
  <1>0. /\ m \in Nat /\ m \in 1 .. Len(c.pattern) /\ Len(c.pattern) \in Nat /\ DOMAIN fs = 1 .. m
        /\ \A i \in 1 .. m : RightFrame(c, fs[i], i) /\ (i < m => fs[i].opened)
        /\ \A i, j \in 1 .. m : i < j => ReadPast(fs[i], fs[j].path[i])
    BY TopIs
  <1>12. /\ n = Len(fs) + 1 /\ n <= Len(c.pattern) /\ h \in FrameSet(c) /\ RightFrame(c, h, n)
         /\ fs[Len(fs)].opened /\ \A i \in 1 .. Len(fs) : ReadPast(fs[i], h.path[i])
         /\ g = Append(fs, h)
    BY DEF Deeper
  <1>1. fs \in Seq(FrameSet(c))
    BY DEF Opening, RightFrames
  <1>2. g \in Seq(FrameSet(c)) /\ Len(g) = n /\ (\A i \in 1 .. m : g[i] = fs[i]) /\ g[n] = h
    BY <1>0, <1>1, <1>12, AppendProperties
  <1>10. n = m + 1 /\ fs[m].opened /\ m \in Nat
    BY <1>0, <1>12
  <1>3. DOMAIN g = 1 .. n /\ g # <<>>
    BY <1>0, <1>2, <1>10, LenProperties, EmptySeq
  <1> HIDE DEF m
  <1>4. n = m + 1 /\ n - 1 = m /\ \A i \in 1 .. n : i = n \/ (i \in 1 .. m /\ (i = m \/ i < m))
    BY <1>10
  <1>11. \A i \in 1 .. m : i = m \/ i < m
    BY <1>10
  <1>5. \A i \in 1 .. m : RightFrame(c, fs[i], i) /\ fs[i].opened
    BY <1>0, <1>10, <1>11
  <1>6. \A i \in 1 .. n : RightFrame(c, g[i], i) /\ (i < n => g[i].opened)
    BY <1>2, <1>4, <1>5, <1>12
  <1>7. ASSUME NEW i \in 1 .. n, NEW j \in 1 .. n, i < j PROVE ReadPast(g[i], g[j].path[i])
    <2>1. i \in 1 .. m /\ g[i] = fs[i]
      BY <1>0, <1>2, <1>4, <1>7
    <2>2. CASE j = n
      BY <1>2, <1>12, <2>1, <2>2 DEF m
    <2>3. CASE j # n
      BY <1>0, <1>2, <1>4, <1>7, <2>1, <2>3
    <2> QED
      BY <2>2, <2>3
  <1>8. Opening(c, g)
    BY <1>2, <1>3, <1>6, <1>7, <1>12 DEF Opening, RightFrames
  <1>9. DoneBelow(c, g) = Done(c, fs)
    BY <1>0, <1>2, <1>4 DEF DoneBelow, Done
  <1> QED
    BY <1>2, <1>8, <1>9

\* A directory that cannot be opened is in no match.
LEMMA NoneThere ==
    ASSUME NEW c, Legal(c), c.pattern # <<>>, NEW x \in Matches(c), NEW n \in 1 .. Len(c.pattern),
           NEW p \in Seq(PathNames(c)), Len(p) = n - 1, Agrees(x, p),
           NEW e, e = OpenError(c.tree, p), e # "none", ~(e = "EACCES" /\ c.pattern[n] = Slash)
    PROVE  FALSE
  <1>0. x \in Seq(PathNames(c)) /\ Len(x) = Depth(c) /\ Len(c.pattern) <= Depth(c) + 1 /\ Depth(c) \in Nat
        /\ Len(c.pattern) \in Nat /\ Len(p) <= Len(x)
    BY MatchIs, PatternIs
  <1>1. SubSeq(x, 1, Len(p)) = p
    BY <1>0, PrefixIs DEF Agrees
  <1>2. CASE n <= Depth(c)
    <2>1. Listed(c.tree, SubSeq(x, 1, n - 1), x[n])
      BY <1>0, <1>2, MatchIs
    <2> QED
      BY <1>1, <2>1 DEF Listed
  <1>3. CASE ~(n <= Depth(c))
    <2>1. n = Len(c.pattern) /\ Depth(c) < Len(c.pattern) /\ Len(p) = Len(x)
      BY <1>0, <1>3
    <2>2. c.pattern[n] = Slash
      BY <2>1, PatternIs
    <2>3. IsDir(c.tree, x)
      BY <2>1, MatchIs
    <2>4. x = p
      BY <1>0, <1>1, <2>1, SubSeqFull
    <2>5. IsDir(c.tree, p) /\ Exists(c.tree, p)
      BY <2>3, <2>4 DEF IsDir
    <2>6. e = "none" \/ e = "EACCES"
      BY <2>5 DEF OpenError
    <2> QED
      BY <2>2, <2>6
  <1> QED
    BY <1>2, <1>3

\* Nor is a directory that has been read.
Ended(c, f, e) ==
    \/ f.opened = FALSE /\ e # "none" /\ ~(e = "EACCES" /\ c.pattern[f.at] = Slash)
    \/ f.opened = TRUE /\ f.left = <<>>

LEMMA ReturnedIs ==
    ASSUME NEW c, NEW fs, Opening(c, fs), NEW f, f = fs[Len(fs)], NEW g, g = SubSeq(fs, 1, Len(fs) - 1),
           NEW e, e = OpenError(c.tree, f.path), Ended(c, f, e)
    PROVE  RightFrames(c, g) /\ Done(c, g) = Done(c, fs)
  <1> DEFINE n == Len(fs)
  <1>0. /\ n \in 1 .. Len(c.pattern) /\ n \in 1 .. n
        /\ RightFrame(c, f, n) /\ f.path \in Seq(PathNames(c))
    BY TopIs
  <1>1. f.at = n /\ Len(f.path) = n - 1
    BY <1>0 DEF RightFrame
  <1>2. Legal(c) /\ c.pattern # <<>>
    BY DEF Opening
  <1> HIDE DEF n
  <1>3. ASSUME NEW x \in Matches(c), Pending(x, f) PROVE FALSE
    <2>1. Agrees(x, f.path) /\ (f.opened => \E k \in DOMAIN f.left : f.left[k].name = x[n])
      BY <1>0, <1>2, <1>3, PendingIs
    <2>2. CASE f.opened = FALSE /\ e # "none" /\ ~(e = "EACCES" /\ c.pattern[f.at] = Slash)
      BY <1>0, <1>1, <1>2, <2>1, <2>2, NoneThere
    <2>3. CASE f.opened = TRUE /\ f.left = <<>>
      BY <2>1, <2>3
    <2> QED
      BY <2>2, <2>3 DEF Ended
  <1>4. Done(c, fs) = DoneBelow(c, fs)
    BY <1>3, DoneIs DEF DoneBelow
  <1> QED
    BY <1>4, PoppedIs

Replaces(fs, n, h, g) == g = [fs EXCEPT ![n] = h]

\* What is listed is what waits.
LEMMA OpenedIs ==
    ASSUME NEW c, NEW fs, Opening(c, fs), NEW f, f = fs[Len(fs)], f.opened = FALSE, OpenError(c.tree, f.path) = "none",
           c.pattern[f.at] # Slash,
           NEW h, h \in FrameSet(c), h.path = f.path, h.at = f.at, h.opened = TRUE, h.left = c.tree[Place(f.path)].list,
           NEW n, n = Len(fs), NEW g, Replaces(fs, n, h, g)
    PROVE  Opening(c, g) /\ Done(c, g) = Done(c, fs)
  <1>0. /\ n \in 1 .. Len(c.pattern) /\ n \in 1 .. n /\ n \in Nat /\ Len(c.pattern) \in Nat
        /\ RightFrame(c, f, n) /\ f.path \in Seq(PathNames(c))
    BY TopIs
  <1>1. f.at = n /\ Len(f.path) = n - 1 /\ Follows(c, f.path) /\ Len(f.path) < Len(c.pattern)
    BY <1>0 DEF RightFrame
  <1>2. Legal(c) /\ c.pattern # <<>> /\ fs \in Seq(FrameSet(c))
    BY DEF Opening, RightFrames
  <1>3. RightLeft(c, h.path, h.left)
    BY <1>0, <1>1, <1>2, ListingIs
  <1>4. RightFrame(c, h, n)
    BY <1>1, <1>3 DEF RightFrame
  <1>5. /\ g \in Seq(FrameSet(c)) /\ Len(g) = n
        /\ \A j \in 1 .. n : g[j] = IF j = n THEN h ELSE fs[j]
    BY <1>0, <1>2, ExceptSeq DEF Replaces
  <1>6. TopChanges(c, fs, g)
    <2>1. \A j \in 1 .. (n - 1) : j \in 1 .. n /\ j # n
      BY <1>0
    <2> QED
      BY <1>0, <1>4, <1>5, <2>1 DEF TopChanges
  <1>7. Opening(c, g) /\ DoneBelow(c, g) = DoneBelow(c, fs)
    BY <1>6, ChangedTop
  <1>8. g[Len(g)] = h
    BY <1>0, <1>5
  <1>9. ASSUME NEW x \in Matches(c) PROVE Pending(x, f) <=> Pending(x, h)
    <2>1. Pending(x, f) <=> Agrees(x, f.path)
      BY <1>0, <1>2, PendingIs
    <2>2. Pending(x, h) <=> Agrees(x, f.path) /\ \E k \in DOMAIN h.left : h.left[k].name = x[n]
      <3>1. h.path \in Seq(PathNames(c)) /\ n \in 1 .. Len(c.pattern)
        BY <1>0
      <3>2. Pending(x, h) <=> /\ Agrees(x, h.path)
                              /\ h.opened => \E k \in DOMAIN h.left : h.left[k].name = x[n]
        BY <1>2, <1>4, <3>1, PendingIs
      <3> QED
        BY <3>2
    <2>3. ASSUME Agrees(x, f.path) PROVE \E k \in DOMAIN h.left : h.left[k].name = x[n]
      <3>1. x \in Seq(PathNames(c)) /\ Len(x) = Depth(c) /\ Len(c.pattern) <= Depth(c) + 1 /\ Depth(c) \in Nat
        BY <1>2, MatchIs, PatternIs
      <3>2. n <= Depth(c)
        BY <1>0, <1>1, <1>2, PatternIs
      <3>3. Len(f.path) <= Len(x)
        BY <1>0, <1>1, <3>1, <3>2
      <3>4. SubSeq(x, 1, Len(f.path)) = f.path
        BY <1>0, <2>3, <3>1, <3>3, PrefixIs DEF Agrees
      <3>5. Listed(c.tree, SubSeq(x, 1, n - 1), x[n])
        BY <1>0, <1>2, <3>1, <3>2, MatchIs
      <3>6. Listed(c.tree, f.path, x[n])
        BY <1>1, <3>4, <3>5
      <3> QED
        BY <3>6 DEF Listed
    <2> QED
      BY <2>1, <2>2, <2>3
  <1>10. \A x \in DoneBelow(c, fs) : x \in Matches(c)
    BY DEF DoneBelow
  <1>11. Done(c, g) = {x \in DoneBelow(c, fs) : ~Pending(x, h)}
    <2>1. Done(c, g) = {x \in DoneBelow(c, g) : ~Pending(x, g[Len(g)])}
      BY <1>7, DoneIs
    <2> QED
      BY <1>7, <1>8, <2>1
  <1>12. Done(c, fs) = {x \in DoneBelow(c, fs) : ~Pending(x, f)}
    BY DoneIs
  <1> QED
    BY <1>7, <1>9, <1>10, <1>11, <1>12

\* The directory before a trailing slash.
SlashTop(c, fs, f, g) ==
    /\ Opening(c, fs) /\ f = fs[Len(fs)] /\ f.opened = FALSE /\ c.pattern[f.at] = Slash
    /\ OpenError(c.tree, f.path) \in {"none", "EACCES"}
    /\ g = SubSeq(fs, 1, Len(fs) - 1)

LEMMA SlashIs ==
    ASSUME NEW c, NEW fs, NEW f, NEW g, SlashTop(c, fs, f, g)
    PROVE  /\ RightFrames(c, g) /\ Done(c, g) = Done(c, fs) \cup {f.path} /\ f.path \notin Done(c, fs)
           /\ f.path \in Matches(c) /\ IsDir(c.tree, f.path)
  <1> USE DEF SlashTop
  <1> DEFINE n == Len(fs)
  <1>0. /\ n \in 1 .. Len(c.pattern) /\ n \in 1 .. n /\ n \in Nat /\ Len(c.pattern) \in Nat /\ Depth(c) \in Nat
        /\ RightFrame(c, f, n) /\ f.path \in Seq(PathNames(c))
    BY TopIs
  <1>1. f.at = n /\ Len(f.path) = n - 1 /\ Follows(c, f.path)
    BY <1>0 DEF RightFrame
  <1>2. Legal(c) /\ c.pattern # <<>>
    BY DEF Opening
  <1>3. IsDir(c.tree, f.path)
    BY DEF OpenError
  <1>4. n = Len(c.pattern) /\ Depth(c) < Len(c.pattern) /\ Depth(c) = n - 1
    <2>1. n = Len(c.pattern)
      BY <1>0, <1>1, <1>2, PatternIs
    <2>2. Depth(c) < Len(c.pattern) /\ Len(c.pattern) <= Depth(c) + 1
      BY <1>1, <1>2, <2>1, PatternIs
    <2> QED
      BY <1>0, <2>1, <2>2
  <1>5. f.path \in Matches(c)
    BY <1>0, <1>1, <1>2, <1>3, <1>4, MatchOf
  <1> HIDE DEF n
  <1>6. ASSUME NEW x \in Matches(c) PROVE Pending(x, f) <=> x = f.path
    <2>1. Pending(x, f) <=> Agrees(x, f.path)
      BY <1>0, <1>2, PendingIs
    <2>2. x \in Seq(PathNames(c)) /\ Len(x) = Len(f.path)
      BY <1>1, <1>2, <1>4, MatchIs
    <2>3. Agrees(x, f.path) => x = f.path
      BY <1>0, <2>2, SeqEqual DEF Agrees
    <2>4. x = f.path => Agrees(x, f.path)
      BY DEF Agrees
    <2> QED
      BY <2>1, <2>3, <2>4
  <1>7. f.path \in DoneBelow(c, fs)
    BY <1>5, NotBelow DEF Agrees
  <1>8. Done(c, fs) = {x \in DoneBelow(c, fs) : ~Pending(x, f)}
    BY DoneIs
  <1>9. \A x \in DoneBelow(c, fs) : x \in Matches(c)
    BY DEF DoneBelow
  <1> QED
    BY <1>3, <1>5, <1>6, <1>7, <1>8, <1>9, PoppedIs

\* The innermost frame with its next entry read.
NextIs(c, fs, f, h, e) ==
    /\ Opening(c, fs) /\ f = fs[Len(fs)] /\ f.opened = TRUE /\ f.left # <<>> /\ e = Head(f.left)
    /\ h \in FrameSet(c) /\ h.path = f.path /\ h.at = f.at /\ h.opened = TRUE /\ h.left = Tail(f.left)

\* What this says of the frame, of the entry and of the matches.
ReadStep(c, fs, f, h, e, n, g) ==
    /\ n \in Nat /\ n \in 1 .. Len(c.pattern) /\ Len(c.pattern) \in Nat /\ Legal(c) /\ c.pattern # <<>>
    /\ f.at = n /\ f.path \in Seq(PathNames(c)) /\ Len(f.path) = n - 1 /\ Follows(c, f.path)
    /\ c.pattern[n] # Slash
    /\ e \in DirEntries(c) /\ e.name \in PathNames(c) /\ Listed(c.tree, f.path, e.name)
    /\ e.type = "dir" => IsDir(c.tree, Append(f.path, e.name))
    /\ e.type \notin {"unknown", "dir", "link"} => ~IsDir(c.tree, Append(f.path, e.name))
    /\ ReadPast(h, e.name)
    /\ Opening(c, g) /\ g[Len(g)] = h /\ Len(g) = n /\ DoneBelow(c, g) = DoneBelow(c, fs)
    /\ \A i \in 1 .. (n - 1) : g[i] = fs[i]
    /\ Done(c, g) = {x \in DoneBelow(c, fs) : ~Pending(x, h)}
    /\ Done(c, fs) = {x \in DoneBelow(c, fs) : ~Pending(x, f)}
    /\ \A x \in Matches(c) : Pending(x, f) <=> Pending(x, h) \/ (Agrees(x, f.path) /\ x[n] = e.name)
    /\ \A x \in Matches(c) : Pending(x, h) => x[n] # e.name

LEMMA EntryRead ==
    ASSUME NEW c, NEW fs, NEW f, NEW h, NEW e, NextIs(c, fs, f, h, e), NEW n, n = Len(fs), NEW g, Replaces(fs, n, h, g)
    PROVE  ReadStep(c, fs, f, h, e, n, g)
  <1>0. /\ n \in 1 .. Len(c.pattern) /\ n \in 1 .. n /\ n \in Nat /\ Len(c.pattern) \in Nat
        /\ RightFrame(c, f, n) /\ f.path \in Seq(PathNames(c)) /\ f.left \in Seq(DirEntries(c))
    BY TopIs DEF NextIs
  <1>1. /\ f.at = n /\ Len(f.path) = n - 1 /\ Follows(c, f.path)
        /\ c.pattern[n] # Slash /\ OpenError(c.tree, f.path) = "none" /\ RightLeft(c, f.path, f.left)
    BY <1>0 DEF RightFrame, NextIs
  <1>2. Legal(c) /\ c.pattern # <<>> /\ fs \in Seq(FrameSet(c)) /\ Opening(c, fs)
    BY DEF Opening, RightFrames, NextIs
  <1>3. /\ Head(f.left) \in DirEntries(c) /\ Head(f.left) = f.left[1]
        /\ Tail(f.left) \in Seq(DirEntries(c)) /\ Len(Tail(f.left)) = Len(f.left) - 1
        /\ \A k \in 1 .. Len(Tail(f.left)) : Tail(f.left)[k] = f.left[k + 1]
    BY <1>0, HeadTailProperties DEF NextIs
  <1>4. /\ Len(f.left) \in Nat /\ Len(f.left) # 0 /\ DOMAIN f.left = 1 .. Len(f.left)
    BY <1>0, LenProperties, EmptySeq DEF NextIs
  <1> DEFINE m == Len(f.left)
             es == f.left
             t == h.left
  <1>5. /\ m \in Nat /\ m # 0 /\ DOMAIN es = 1 .. m /\ e \in DirEntries(c) /\ e = es[1]
        /\ t \in Seq(DirEntries(c)) /\ DOMAIN t = 1 .. (m - 1) /\ \A k \in 1 .. (m - 1) : t[k] = es[k + 1]
    <2>1. t = Tail(f.left) /\ e = Head(f.left)
      BY DEF NextIs
    <2>2. DOMAIN Tail(f.left) = 1 .. Len(Tail(f.left))
      BY <1>3, LenProperties
    <2> QED
      BY <1>3, <1>4, <2>1, <2>2
  <1>6. /\ \A i, j \in DOMAIN es : es[i].name = es[j].name => i = j
        /\ \A i \in DOMAIN es :
            /\ es[i].name \in PathNames(c) /\ Listed(c.tree, f.path, es[i].name)
            /\ es[i].type = "dir" => IsDir(c.tree, Append(f.path, es[i].name))
            /\ es[i].type \notin {"unknown", "dir", "link"} => ~IsDir(c.tree, Append(f.path, es[i].name))
    BY <1>1 DEF RightLeft
  <1> HIDE DEF m, es, t
  <1>7. /\ e.name \in PathNames(c) /\ Listed(c.tree, f.path, e.name)
        /\ e.type = "dir" => IsDir(c.tree, Append(f.path, e.name))
        /\ e.type \notin {"unknown", "dir", "link"} => ~IsDir(c.tree, Append(f.path, e.name))
    <2>1. 1 \in DOMAIN es
      BY <1>5
    <2> QED
      BY <1>5, <1>6, <2>1
  <1>8. \A k \in DOMAIN t : k + 1 \in DOMAIN es /\ t[k] = es[k + 1] /\ k + 1 # 1 /\ k \in Nat
    BY <1>5
  <1>9. ReadPast(h, e.name)
    <2>1. \A k \in DOMAIN t : t[k].name # e.name
      <3> SUFFICES ASSUME NEW k \in DOMAIN t, t[k].name = e.name PROVE FALSE
        OBVIOUS
      <3>1. 1 \in DOMAIN es /\ k + 1 \in DOMAIN es /\ es[k + 1].name = es[1].name /\ k + 1 # 1
        BY <1>5, <1>8
      <3> QED
        BY <1>6, <3>1
    <2> QED
      BY <2>1 DEF ReadPast, t
  <1>10. RightLeft(c, f.path, t)
    <2>1. ASSUME NEW i \in DOMAIN t, NEW j \in DOMAIN t, t[i].name = t[j].name PROVE i = j
      <3>1. i + 1 = j + 1
        BY <1>6, <1>8, <2>1
      <3> QED
        BY <1>8, <3>1
    <2>2. \A i \in DOMAIN t :
            /\ t[i].name \in PathNames(c) /\ Listed(c.tree, f.path, t[i].name)
            /\ t[i].type = "dir" => IsDir(c.tree, Append(f.path, t[i].name))
            /\ t[i].type \notin {"unknown", "dir", "link"} => ~IsDir(c.tree, Append(f.path, t[i].name))
      BY <1>6, <1>8
    <2> QED
      BY <2>1, <2>2 DEF RightLeft
  <1>11. RightFrame(c, h, n)
    BY <1>1, <1>10 DEF RightFrame, NextIs, t
  <1>12. /\ g \in Seq(FrameSet(c)) /\ Len(g) = n
         /\ \A j \in 1 .. n : g[j] = IF j = n THEN h ELSE fs[j]
    <2>1. h \in FrameSet(c)
      BY DEF NextIs
    <2> QED
      BY <1>0, <1>2, <2>1, ExceptSeq DEF Replaces
  <1>13. \A j \in 1 .. (n - 1) : j \in 1 .. n /\ j # n
    BY <1>0
  <1>14. g[n] = h /\ \A j \in 1 .. (n - 1) : g[j] = fs[j]
    BY <1>0, <1>12, <1>13
  <1>15. TopChanges(c, fs, g)
    BY <1>11, <1>12, <1>14 DEF TopChanges, NextIs
  <1>16. Opening(c, g) /\ DoneBelow(c, g) = DoneBelow(c, fs)
    BY <1>2, <1>15, ChangedTop
  <1>17. Done(c, g) = {x \in DoneBelow(c, fs) : ~Pending(x, h)}
    <2>1. Done(c, g) = {x \in DoneBelow(c, g) : ~Pending(x, g[Len(g)])}
      BY <1>16, DoneIs
    <2> QED
      BY <1>12, <1>14, <1>16, <2>1
  <1>18. Done(c, fs) = {x \in DoneBelow(c, fs) : ~Pending(x, f)}
    <2>1. Done(c, fs) = {x \in DoneBelow(c, fs) : ~Pending(x, fs[Len(fs)])}
      BY <1>2, DoneIs
    <2> QED
      BY <2>1 DEF NextIs
  <1>19. ASSUME NEW x \in Matches(c)
         PROVE  /\ Pending(x, f) <=> Pending(x, h) \/ (Agrees(x, f.path) /\ x[n] = e.name)
                /\ Pending(x, h) => x[n] # e.name
    <2>1. Pending(x, f) <=> Agrees(x, f.path) /\ \E k \in DOMAIN es : es[k].name = x[n]
      BY <1>0, <1>2, PendingIs DEF NextIs, es
    <2>2. Pending(x, h) <=> Agrees(x, f.path) /\ \E k \in DOMAIN t : t[k].name = x[n]
      <3>1. h.path \in Seq(PathNames(c)) /\ h.path = f.path /\ h.opened
        BY <1>0 DEF NextIs
      <3>2. Pending(x, h) <=> /\ Agrees(x, h.path)
                              /\ h.opened => \E k \in DOMAIN h.left : h.left[k].name = x[n]
        BY <1>0, <1>2, <1>11, <3>1, PendingIs
      <3> QED
        BY <3>1, <3>2 DEF t
    <2>3. (\E k \in DOMAIN es : es[k].name = x[n]) <=> (\E k \in DOMAIN t : t[k].name = x[n]) \/ x[n] = e.name
      <3>1. ASSUME NEW k \in DOMAIN es, es[k].name = x[n] PROVE (\E i \in DOMAIN t : t[i].name = x[n]) \/ x[n] = e.name
        <4>1. CASE k = 1
          BY <1>5, <3>1, <4>1
        <4>2. CASE k # 1
          <5>1. PICK i \in DOMAIN t : i = k - 1
            BY <1>5, <4>2
          <5>2. t[i] = es[k]
            BY <1>5, <5>1
          <5> QED
            BY <3>1, <5>2
        <4> QED
          BY <4>1, <4>2
      <3>2. (\E k \in DOMAIN t : t[k].name = x[n]) => \E k \in DOMAIN es : es[k].name = x[n]
        BY <1>8
      <3>3. 1 \in DOMAIN es
        BY <1>5
      <3> QED
        BY <1>5, <3>1, <3>2, <3>3
    <2>4. Pending(x, h) => x[n] # e.name
      BY <1>9, <2>2 DEF ReadPast, t
    <2> QED
      BY <2>1, <2>2, <2>3, <2>4
  <1> QED
    BY <1>0, <1>1, <1>2, <1>5, <1>7, <1>9, <1>12, <1>14, <1>16, <1>17, <1>18, <1>19 DEF ReadStep

\* An entry that is refused is in no match.
Turned(c, n, e) ==
    \/ e.name \notin c.pattern[n].accepts
    \/ n # Len(c.pattern) /\ e.type \notin {"unknown", "dir", "link"}
    \/ n # Len(c.pattern) /\ "PERIOD" \in c.flags /\ e.name = Dot /\ e.name \notin c.pattern[n].period

LEMMA RefusedIs ==
    ASSUME NEW c, NEW fs, NEW f, NEW h, NEW e, NextIs(c, fs, f, h, e), NEW n, n = Len(fs), NEW g, Replaces(fs, n, h, g),
           Turned(c, n, e)
    PROVE  Opening(c, g) /\ Done(c, g) = Done(c, fs)
  <1>0. /\ n \in Nat /\ n \in 1 .. Len(c.pattern) /\ Len(c.pattern) \in Nat /\ Legal(c) /\ c.pattern # <<>>
        /\ f.path \in Seq(PathNames(c)) /\ Len(f.path) = n - 1 /\ c.pattern[n] # Slash /\ e.name \in PathNames(c)
        /\ e.type \notin {"unknown", "dir", "link"} => ~IsDir(c.tree, Append(f.path, e.name))
        /\ Opening(c, g)
        /\ Done(c, g) = {x \in DoneBelow(c, fs) : ~Pending(x, h)}
        /\ Done(c, fs) = {x \in DoneBelow(c, fs) : ~Pending(x, f)}
        /\ \A x \in Matches(c) : Pending(x, f) <=> Pending(x, h) \/ (Agrees(x, f.path) /\ x[n] = e.name)
    <2>1. ReadStep(c, fs, f, h, e, n, g)
      BY EntryRead
    <2> QED
      BY <2>1 DEF ReadStep
  <1>1. /\ Depth(c) \in Nat /\ Depth(c) <= Len(c.pattern) /\ n <= Depth(c)
    BY <1>0, PatternIs
  <1>2. ASSUME NEW x \in Matches(c), Agrees(x, f.path), x[n] = e.name PROVE FALSE
    <2>1. x \in Seq(PathNames(c)) /\ Len(x) = Depth(c) /\ n \in 1 .. Depth(c)
      BY <1>0, <1>1, MatchIs
    <2>2. /\ x[n] \in c.pattern[n].accepts
          /\ (n < Len(c.pattern) /\ "PERIOD" \in c.flags /\ x[n] = Dot) => x[n] \in c.pattern[n].period
      BY <1>0, <2>1, MatchIs
    <2>3. n # Len(c.pattern) => n < Len(c.pattern)
      BY <1>0
    <2>4. n # Len(c.pattern) /\ e.type \notin {"unknown", "dir", "link"}
      BY <1>2, <2>2, <2>3 DEF Turned
    <2>5. PICK q \in Seq(PathNames(c)) : q = Append(f.path, e.name)
      BY <1>0, AppendProperties
    <2>6. Len(q) = n /\ (\A i \in 1 .. Len(f.path) : q[i] = f.path[i]) /\ q[n] = e.name
      BY <1>0, <2>5, AppendProperties
    <2>7. \A i \in 1 .. n : x[i] = q[i]
      <3>1. \A i \in 1 .. n : i = n \/ i \in 1 .. Len(f.path)
        BY <1>0
      <3> QED
        BY <1>2, <2>6, <3>1 DEF Agrees
    <2>8. SubSeq(x, 1, n) = q
      BY <1>1, <2>1, <2>6, <2>7, PrefixIs
    <2>9. IsDir(c.tree, q)
      <3>1. CASE n = Depth(c)
        <4>1. x = q
          BY <2>1, <2>8, <3>1, SubSeqFull
        <4>2. Depth(c) < Len(c.pattern)
          BY <2>3, <2>4, <3>1
        <4> QED
          BY <1>0, <4>1, <4>2, MatchIs
      <3>2. CASE n # Depth(c)
        <4>1. PICK k \in 1 .. Depth(c) : k = n + 1
          BY <1>0, <1>1, <3>2
        <4>2. Listed(c.tree, SubSeq(x, 1, k - 1), x[k])
          BY <1>0, MatchIs
        <4>3. k - 1 = n
          BY <1>0, <4>1
        <4>4. OpenError(c.tree, q) = "none"
          BY <2>8, <4>2, <4>3 DEF Listed
        <4> QED
          BY <4>4 DEF OpenError
      <3> QED
        BY <3>1, <3>2
    <2> QED
      BY <1>0, <2>4, <2>5, <2>9
  <1>3. \A x \in DoneBelow(c, fs) : x \in Matches(c)
    BY DEF DoneBelow
  <1>4. \A x \in DoneBelow(c, fs) : Pending(x, f) <=> Pending(x, h)
    BY <1>0, <1>2, <1>3
  <1> QED
    BY <1>0, <1>4

\* One that is not leads on to the next component.
EntryAccepted(c, n, e) ==
    /\ e.name \in c.pattern[n].accepts
    /\ n # Len(c.pattern) => ~("PERIOD" \in c.flags /\ e.name = Dot /\ e.name \notin c.pattern[n].period)
Enters(f, e, g, a) == a = Append(g, Frame(Append(f.path, e.name), f.at + 1))
Cleared(f) == [f EXCEPT !.error = "none"]

LEMMA DescendIs ==
    ASSUME NEW c, NEW fs, NEW f, NEW h, NEW e, NextIs(c, fs, f, h, e), NEW n, n = Len(fs), NEW g, Replaces(fs, n, h, g),
           n # Len(c.pattern), EntryAccepted(c, n, e), NEW a, Enters(f, e, g, a)
    PROVE  Opening(c, a) /\ Done(c, a) = Done(c, fs)
  <1> USE DEF EntryAccepted
  <1> PICK d : d = Frame(Append(f.path, e.name), f.at + 1) /\ a = Append(g, d)
    BY DEF Enters
  <1>0. /\ n \in Nat /\ n \in 1 .. Len(c.pattern) /\ Len(c.pattern) \in Nat /\ Legal(c) /\ c.pattern # <<>>
        /\ f.at = n /\ f.path \in Seq(PathNames(c)) /\ Len(f.path) = n - 1 /\ Follows(c, f.path)
        /\ e.name \in PathNames(c) /\ Listed(c.tree, f.path, e.name)
        /\ ReadPast(h, e.name)
        /\ Opening(c, g) /\ g[Len(g)] = h /\ Len(g) = n /\ DoneBelow(c, g) = DoneBelow(c, fs)
        /\ \A i \in 1 .. (n - 1) : g[i] = fs[i]
        /\ Done(c, g) = {x \in DoneBelow(c, fs) : ~Pending(x, h)}
        /\ Done(c, fs) = {x \in DoneBelow(c, fs) : ~Pending(x, f)}
        /\ \A x \in Matches(c) : Pending(x, f) <=> Pending(x, h) \/ (Agrees(x, f.path) /\ x[n] = e.name)
    <2>1. ReadStep(c, fs, f, h, e, n, g)
      BY EntryRead
    <2> QED
      BY <2>1 DEF ReadStep
  <1>1. PICK q \in Seq(PathNames(c)) : q = Append(f.path, e.name)
    BY <1>0, AppendProperties
  <1>2. Len(q) = n /\ (\A i \in 1 .. (n - 1) : q[i] = f.path[i]) /\ q[n] = e.name
    BY <1>0, <1>1, AppendProperties
  <1>3. Follows(c, q)
    <2>1. n = Len(f.path) + 1
      BY <1>0
    <2> QED
      BY <1>0, <1>1, <2>1, FollowsOn
  <1>4. PICK k \in Nat : k = n + 1
    BY <1>0
  <1>5. /\ d.path = q /\ d.at = k /\ d.opened = FALSE /\ d.left = <<>> /\ d.error = "none"
        /\ d = [path |-> q, at |-> k, opened |-> FALSE, left |-> <<>>, error |-> "none"]
    BY <1>0, <1>1, <1>4 DEF Frame
  <1>6. d \in FrameSet(c)
    <2>1. <<>> \in Seq(DirEntries(c)) /\ "none" \in GlobErrors
      BY DEF GlobErrors
    <2> QED
      BY <1>1, <1>4, <1>5, <2>1 DEF FrameSet
  <1>7. RightFrame(c, d, k)
    BY <1>0, <1>2, <1>3, <1>4, <1>5 DEF RightFrame
  <1>8. \A i \in 1 .. Len(g) : ReadPast(g[i], d.path[i])
    <2> SUFFICES ASSUME NEW i \in 1 .. n PROVE ReadPast(g[i], q[i])
      BY <1>0, <1>5
    <2>1. CASE i = n
      BY <1>0, <1>2, <2>1
    <2>2. CASE i # n
      <3>1. i \in 1 .. (n - 1) /\ i \in 1 .. n /\ n \in 1 .. n /\ i < n
        BY <1>0, <2>2
      <3>2. ReadPast(fs[i], fs[n].path[i])
        <4>1. Opening(c, fs)
          BY DEF NextIs
        <4> QED
          BY <3>1, <4>1, TopIs
      <3>3. g[i] = fs[i] /\ q[i] = f.path[i] /\ f = fs[n]
        BY <1>0, <1>2, <3>1 DEF NextIs
      <3> QED
        BY <3>2, <3>3
    <2> QED
      BY <2>1, <2>2
  <1>9. g[Len(g)].opened
    BY <1>0 DEF NextIs
  <1>10. k <= Len(c.pattern) /\ k = Len(g) + 1 /\ k \in 1 .. Len(c.pattern)
    BY <1>0, <1>4
  <1>11. Opening(c, a) /\ a[Len(a)] = d /\ DoneBelow(c, a) = Done(c, g)
    <2>1. Deeper(c, g, d, k, a)
      BY <1>6, <1>7, <1>8, <1>9, <1>10 DEF Deeper
    <2>2. Opening(c, g)
      BY <1>0
    <2> QED
      BY <2>1, <2>2, DeeperFrame
  <1>12. ASSUME NEW x \in Matches(c) PROVE Pending(x, d) <=> Agrees(x, f.path) /\ x[n] = e.name
    <2>1. Pending(x, d) <=> Agrees(x, q)
      <3>1. Legal(c) /\ c.pattern # <<>> /\ d.path \in Seq(PathNames(c)) /\ k \in 1 .. Len(c.pattern)
        BY <1>0, <1>1, <1>5, <1>10
      <3>2. Pending(x, d) <=> /\ Agrees(x, d.path)
                              /\ d.opened => \E i \in DOMAIN d.left : d.left[i].name = x[k]
        BY <1>7, <3>1, PendingIs
      <3> QED
        BY <1>5, <3>2
    <2>2. \A i \in 1 .. n : i = n \/ i \in 1 .. (n - 1)
      BY <1>0
    <2>3. n \in 1 .. n /\ \A i \in 1 .. (n - 1) : i \in 1 .. n
      BY <1>0
    <2>4. Agrees(x, q) <=> Agrees(x, f.path) /\ x[n] = e.name
      BY <1>0, <1>2, <2>2, <2>3 DEF Agrees
    <2> QED
      BY <2>1, <2>4
  <1>13. Done(c, a) = {x \in Done(c, g) : ~Pending(x, d)}
    <2>0. Opening(c, a)
      BY <1>11
    <2>1. Done(c, a) = {x \in DoneBelow(c, a) : ~Pending(x, a[Len(a)])}
      BY <2>0, DoneIs
    <2> QED
      BY <1>11, <2>1
  <1>14. \A x \in DoneBelow(c, fs) : x \in Matches(c)
    BY DEF DoneBelow
  <1> QED
    BY <1>0, <1>11, <1>12, <1>13, <1>14

\* And of the last component it is a match.
Reaches(f, e, q) == q = Append(f.path, e.name)
Reached(c, fs, g, e, q) ==
    /\ Opening(c, g) /\ Done(c, g) = Done(c, fs) \cup {q} /\ q \notin Done(c, fs)
    /\ q \in Seq(PathNames(c))
    /\ e.type = "dir" => IsDir(c.tree, q)
    /\ e.type \notin {"unknown", "dir", "link"} => ~IsDir(c.tree, q)

LEMMA EntryMatches ==
    ASSUME NEW c, NEW fs, NEW f, NEW h, NEW e, NextIs(c, fs, f, h, e), NEW n, n = Len(fs), NEW g, Replaces(fs, n, h, g),
           n = Len(c.pattern), EntryAccepted(c, n, e), NEW q, Reaches(f, e, q)
    PROVE  Reached(c, fs, g, e, q)
  <1> USE DEF EntryAccepted, Reaches
  <1>0. /\ n \in Nat /\ n \in 1 .. Len(c.pattern) /\ Len(c.pattern) \in Nat /\ Legal(c) /\ c.pattern # <<>>
        /\ f.at = n /\ f.path \in Seq(PathNames(c)) /\ Len(f.path) = n - 1 /\ Follows(c, f.path)
        /\ c.pattern[n] # Slash /\ e.name \in PathNames(c) /\ Listed(c.tree, f.path, e.name)
        /\ e.type = "dir" => IsDir(c.tree, q)
        /\ e.type \notin {"unknown", "dir", "link"} => ~IsDir(c.tree, q)
        /\ Opening(c, g)
        /\ Done(c, g) = {x \in DoneBelow(c, fs) : ~Pending(x, h)}
        /\ Done(c, fs) = {x \in DoneBelow(c, fs) : ~Pending(x, f)}
        /\ \A x \in Matches(c) : Pending(x, f) <=> Pending(x, h) \/ (Agrees(x, f.path) /\ x[n] = e.name)
        /\ \A x \in Matches(c) : Pending(x, h) => x[n] # e.name
    <2>1. ReadStep(c, fs, f, h, e, n, g)
      BY EntryRead
    <2> QED
      BY <2>1 DEF ReadStep
  <1>1. q \in Seq(PathNames(c)) /\ Len(q) = n /\ (\A i \in 1 .. Len(f.path) : q[i] = f.path[i]) /\ q[n] = e.name
    BY <1>0, AppendProperties
  <1>2. Follows(c, q)
    <2>1. n = Len(f.path) + 1
      BY <1>0
    <2> QED
      BY <1>0, <2>1, FollowsOn
  <1>3. Depth(c) = n
    BY <1>0, PatternIs
  <1>4. q \in Matches(c)
    <2>1. Legal(c) /\ c.pattern # <<>> /\ Len(q) = Depth(c) /\ ~(Depth(c) < Len(c.pattern))
      BY <1>0, <1>1, <1>3
    <2> QED
      BY <1>1, <1>2, <2>1, MatchOf
  <1>5. Agrees(q, f.path)
    BY <1>1 DEF Agrees
  <1>6. ASSUME NEW x \in Matches(c), Agrees(x, f.path), x[n] = e.name PROVE x = q
    <2>1. x \in Seq(PathNames(c)) /\ Len(x) = n
      BY <1>0, <1>3, MatchIs
    <2>2. \A i \in 1 .. n : i = n \/ i \in 1 .. Len(f.path)
      BY <1>0
    <2>3. \A i \in 1 .. Len(x) : x[i] = q[i]
      BY <1>1, <1>6, <2>1, <2>2 DEF Agrees
    <2> QED
      BY <1>1, <2>1, <2>3, SeqEqual
  <1>7. q \in DoneBelow(c, fs)
    <2>1. Opening(c, fs) /\ f = fs[Len(fs)]
      BY DEF NextIs
    <2> QED
      BY <1>4, <1>5, <2>1, NotBelow
  <1>8. \A x \in DoneBelow(c, fs) : x \in Matches(c)
    BY DEF DoneBelow
  <1>9. Pending(q, f) /\ ~Pending(q, h)
    BY <1>0, <1>1, <1>4, <1>5
  <1>10. Done(c, g) = Done(c, fs) \cup {q}
    <2>1. \A x \in Done(c, g) : x \in Done(c, fs) \/ x = q
      BY <1>0, <1>6, <1>8
    <2>2. \A x \in Done(c, fs) : x \in Done(c, g)
      BY <1>0, <1>8
    <2>3. q \in Done(c, g)
      BY <1>0, <1>7, <1>9
    <2> QED
      BY <2>1, <2>2, <2>3
  <1> QED
    BY <1>0, <1>1, <1>9, <1>10 DEF Reached

(***************************************************************************)
(* The list and its blocks.                                                *)
(***************************************************************************)

LEMMA FreshIs ==
    ASSUME heap \subseteq Nat \ {0}, IsFiniteSet(heap)
    PROVE  Fresh \in Nat \ {0} /\ Fresh \notin heap
  <1> DEFINE n == Cardinality(heap)
  <1>1. n \in Nat
    BY FS_CardinalityType
  <1>2. \E b \in 1 .. (n + 1) : b \notin heap
    <2> SUFFICES ASSUME \A b \in 1 .. (n + 1) : b \in heap PROVE FALSE
      OBVIOUS
    <2>1. PICK m \in Nat : m = n + 1
      BY <1>1
    <2>2. 1 .. m \in SUBSET heap
      BY <2>1
    <2>3. Cardinality(1 .. m) <= n
      BY <2>2, FS_Subset
    <2> HIDE DEF n
    <2>4. Cardinality(1 .. m) = m
      <3>1. 1 \in Int /\ m \in Int /\ m >= 1
        BY <1>1, <2>1
      <3>2. Cardinality(1 .. m) = IF 1 > m THEN 0 ELSE m - 1 + 1
        BY <3>1, FS_Interval
      <3> QED
        BY <3>1, <3>2
    <2> QED
      BY <1>1, <2>1, <2>3, <2>4
  <1>3. Fresh \in 1 .. (n + 1) /\ Fresh \notin heap
    BY <1>2 DEF Fresh
  <1> HIDE DEF n
  <1> QED
    BY <1>1, <1>3

LEMMA MatchesAre ==
    ASSUME NEW s \in Seq(MatchSet)
    PROVE  /\ Len(s) \in Nat /\ DOMAIN s = 1 .. Len(s)
           /\ \A i \in 1 .. Len(s) : s[i] \in MatchSet /\ s[i].name \in Seq(Int) /\ s[i].mark \in 0 .. 2 /\ s[i].block \in Nat
  <1>1. Len(s) \in Nat /\ DOMAIN s = 1 .. Len(s) /\ \A i \in 1 .. Len(s) : s[i] \in MatchSet
    BY LenProperties, ElementOfSeq
  <1> QED
    BY <1>1 DEF MatchSet

LEMMA NothingListed ==
    /\ NamesOf(<<>>) = {} /\ BlocksOf(<<>>) = {}
    /\ \A c : RightList(c, <<>>)
  BY DEF NamesOf, BlocksOf, RightList, Apart, RightMarks

LEMMA ListGrows ==
    ASSUME NEW s \in Seq(MatchSet), NEW m \in MatchSet, NEW t, t = Append(s, m)
    PROVE  /\ t \in Seq(MatchSet)
           /\ NamesOf(t) = NamesOf(s) \cup {m.name}
           /\ BlocksOf(t) = BlocksOf(s) \cup {m.block}
           /\ \A c : RightList(c, s) /\ m.name \notin NamesOf(s) /\ RightMark(c, m) => RightList(c, t)
           /\ \A g, h : RightBlocks(g, s, h) /\ m.block # 0 /\ m.block \notin h => RightBlocks(g, t, h \cup {m.block})
  <1> DEFINE n == Len(s)
  <1>1. n \in Nat /\ DOMAIN s = 1 .. n
    BY LenProperties
  <1>2. t \in Seq(MatchSet) /\ Len(t) = n + 1 /\ (\A i \in 1 .. n : t[i] = s[i]) /\ t[n + 1] = m
    BY <1>1, AppendProperties
  <1>3. PICK k \in Nat : k = n + 1
    BY <1>1
  <1>4. DOMAIN t = 1 .. k
    BY <1>2, <1>3, LenProperties
  <1> HIDE DEF n
  <1>5. /\ \A i \in 1 .. k : (i \in 1 .. n /\ t[i] = s[i]) \/ (i = k /\ t[i] = m)
        /\ \A i \in 1 .. n : i \in 1 .. k /\ t[i] = s[i]
        /\ k \in 1 .. k /\ t[k] = m
    BY <1>1, <1>2, <1>3
  <1>6. NamesOf(t) = NamesOf(s) \cup {m.name} /\ BlocksOf(t) = BlocksOf(s) \cup {m.block}
    BY <1>1, <1>4, <1>5 DEF NamesOf, BlocksOf
  <1>7. ASSUME NEW c, RightList(c, s), m.name \notin NamesOf(s), RightMark(c, m) PROVE RightList(c, t)
    <2>1. \A i, j \in 1 .. k : t[i].name = t[j].name => i = j
      <3>1. \A i, j \in 1 .. n : s[i].name = s[j].name => i = j
        BY <1>1, <1>7 DEF RightList, Apart
      <3>2. \A i \in 1 .. n : s[i].name # m.name
        BY <1>1, <1>7 DEF NamesOf
      <3> QED
        BY <1>5, <3>1, <3>2
    <2>2. \A i \in 1 .. k : RightMark(c, t[i])
      BY <1>1, <1>5, <1>7 DEF RightList, RightMarks
    <2> QED
      BY <1>4, <2>1, <2>2 DEF RightList, Apart, RightMarks
  <1>8. ASSUME NEW g, NEW h, RightBlocks(g, s, h), m.block # 0, m.block \notin h PROVE RightBlocks(g, t, h \cup {m.block})
    <2>1. h = BlocksOf(s) \cup (BlocksOf(g.pathv) \ {0})
      BY <1>8 DEF RightBlocks
    <2>2. m.block \notin BlocksOf(g.pathv)
      BY <1>8, <2>1
    <2>3. \A i \in 1 .. k : t[i].block # 0 /\ t[i].block \notin BlocksOf(g.pathv)
      BY <1>1, <1>5, <1>8, <2>2 DEF RightBlocks
    <2>4. h \cup {m.block} = BlocksOf(t) \cup (BlocksOf(g.pathv) \ {0})
      BY <1>6, <2>1
    <2> QED
      BY <1>4, <1>8, <2>3, <2>4 DEF RightBlocks
  <1> QED
    BY <1>2, <1>6, <1>7, <1>8

(***************************************************************************)
(* The search.                                                             *)
(***************************************************************************)

\* The variables a search does not touch, and those it does.
Undisturbed == UNCHANGED <<todo, gl, result, before>>
SearchTypes ==
    /\ list' \in Seq(MatchSet)
    /\ heap' \subseteq Nat \ {0} /\ IsFiniteSet(heap')
    /\ globErrno' \in GlobErrors
    /\ shortages' \in 0 .. Shortages
    /\ RightBlocks(gl, list', heap')

LEMMA CallIs ==
    ASSUME GlobTypes, todo # <<>>
    PROVE  Legal(call) /\ todo \in Seq(CallSet) /\ 1 \in DOMAIN todo
  <1>1. todo \in Seq(CallSet) /\ \A i \in DOMAIN todo : Legal(todo[i])
    BY DEF GlobTypes, LegalCalls
  <1>2. 1 \in DOMAIN todo
    BY <1>1, LenProperties, EmptySeq
  <1> QED
    BY <1>1, <1>2 DEF call

LEMMA SearchStep ==
    ASSUME GlobInv, globStep = "match", Undisturbed, SearchTypes,
           \/ globStep' = "match" /\ error' = "none" /\ Globbing(call, frames', list')
           \/ /\ globStep' = "collect" /\ error' \in {"none", "ABORTED", "NOSPACE"} /\ Collecting(call, error', list')
              /\ error' = "NOSPACE" => shortages' < Shortages
    PROVE  GlobInv'
  <1>1. /\ todo' = todo /\ gl' = gl /\ result' = result /\ before' = before /\ call' = call
    BY DEF Undisturbed, call
  <1>2. GlobTypes'
    BY <1>1 DEF GlobInv, GlobTypes, SearchTypes
  <1>3. GlobBlocks'
    <2>1. /\ todo # <<>> /\ result = "none" /\ before = gl.pathc
          /\ FirstCall(call) => gl.pathv = <<>> /\ gl.pathc = 0
          /\ "DOOFFS" \notin call.flags => gl.offs = 0
      BY DEF GlobInv, GlobBlocks
    <2> QED
      BY <1>1, <2>1 DEF GlobBlocks, SearchTypes
  <1>4. GlobReturned'
    BY DEF GlobReturned
  <1> QED
    BY <1>1, <1>2, <1>3, <1>4 DEF GlobInv

\* A call of match_in_dir returns.
LEMMA ReturnKeeps ==
    ASSUME GlobInv, globStep = "match", Undisturbed, SearchTypes, ReturnFrom("none"),
           RightFrames(call, Popped), NamesOf(list') = Done(call, Popped), RightList(call, list')
    PROVE  GlobInv'
  <1>1. Opening(call, frames)
    BY DEF GlobInv, Globbing
  <1>2. frames' = Popped /\ error' = "none" /\ globStep' = IF frames' = <<>> THEN "collect" ELSE "match"
    BY DEF ReturnFrom
  <1>3. CASE Popped = <<>>
    <2>1. Done(call, <<>>) = Matches(call)
      BY DEF Done
    <2>2. Collecting(call, "none", list')
      BY <1>3, <2>1 DEF Collecting, Gives
    <2> QED
      BY <1>2, <1>3, <2>2, SearchStep
  <1>4. CASE Popped # <<>>
    <2>1. Globbing(call, frames', list')
      BY <1>1, <1>2, <1>4 DEF Globbing, Opening
    <2> QED
      BY <1>2, <1>4, <2>1, SearchStep
  <1> QED
    BY <1>3, <1>4

LEMMA AbortKeeps ==
    ASSUME GlobInv, globStep = "match", Undisturbed, SearchTypes, NEW e, ReturnFrom(e), UNCHANGED list,
           \/ e = "ABORTED" /\ (call.strict \/ Has("ERR"))
           \/ e = "NOSPACE" /\ shortages' < Shortages
    PROVE  GlobInv'
  <1>1. Globbing(call, frames, list)
    BY DEF GlobInv
  <1>2. NamesOf(list) \subseteq Matches(call) /\ RightList(call, list)
    BY <1>1 DEF Globbing, Done
  <1>3. error' = e /\ frames' = <<>> /\ globStep' = "collect"
    BY DEF ReturnFrom
  <1>4. Collecting(call, e, list)
    BY <1>2 DEF Collecting, Stops, Has
  <1> QED
    BY <1>3, <1>4, SearchStep

LEMMA TopOf ==
    ASSUME GlobInv, globStep = "match"
    PROVE  /\ Opening(call, frames) /\ todo # <<>> /\ NamesOf(list) = Done(call, frames) /\ RightList(call, list)
           /\ Len(frames) \in Nat /\ Len(frames) \in 1 .. Len(call.pattern) /\ Len(frames) \in 1 .. Len(frames)
           /\ frames \in Seq(FrameSet(call)) /\ DOMAIN frames = 1 .. Len(frames)
           /\ top \in FrameSet(call) /\ top.at = Len(frames) /\ top.path \in Seq(PathNames(call)) /\ top.opened \in BOOLEAN
           /\ top = frames[Len(frames)] /\ Popped = SubSeq(frames, 1, Len(frames) - 1)
           /\ component = call.pattern[top.at]
           /\ IsLast <=> top.at = Len(call.pattern)
           /\ globErrno \in GlobErrors /\ shortages \in 0 .. Shortages /\ RightBlocks(gl, list, heap)
           /\ list \in Seq(MatchSet) /\ heap \subseteq Nat \ {0} /\ IsFiniteSet(heap)
  <1>1. /\ Opening(call, frames) /\ todo # <<>> /\ NamesOf(list) = Done(call, frames) /\ RightList(call, list)
        /\ globErrno \in GlobErrors /\ shortages \in 0 .. Shortages /\ RightBlocks(gl, list, heap)
        /\ list \in Seq(MatchSet) /\ heap \subseteq Nat \ {0} /\ IsFiniteSet(heap)
    BY DEF GlobInv, GlobTypes, GlobBlocks, Globbing
  <1>2. /\ Len(frames) \in Nat /\ Len(frames) \in 1 .. Len(call.pattern) /\ DOMAIN frames = 1 .. Len(frames)
        /\ \A i \in 1 .. Len(frames) : frames[i] \in FrameSet(call) /\ RightFrame(call, frames[i], i)
        /\ \A i \in 1 .. Len(frames) : frames[i].path \in Seq(PathNames(call)) /\ frames[i].opened \in BOOLEAN
    BY <1>1, TopIs
  <1>3. Len(frames) \in 1 .. Len(frames)
    BY <1>2
  <1>4. frames \in Seq(FrameSet(call))
    BY <1>1 DEF Opening, RightFrames
  <1>5. /\ top \in FrameSet(call) /\ top.at = Len(frames) /\ top.path \in Seq(PathNames(call)) /\ top.opened \in BOOLEAN
    BY <1>2, <1>3 DEF top, RightFrame
  <1> QED
    BY <1>1, <1>2, <1>3, <1>4, <1>5 DEF top, Popped, component, IsLast

LEMMA ErrnoOf ==
    ASSUME NEW tree, NEW path
    PROVE  OpenError(tree, path) \in {"none", "ENOENT", "ENOTDIR", "EACCES"}
  BY DEF OpenError, IsDir

LEMMA AbortsIs ==
    ASSUME NEW e
    PROVE  Aborts(e) = "none" \/ (Aborts(e) = "ABORTED" /\ (call.strict \/ Has("ERR")))
  BY DEF Aborts

LEMMA SameTypes ==
    ASSUME GlobInv, globStep = "match", UNCHANGED <<list, heap, shortages>>, globErrno' \in GlobErrors
    PROVE  SearchTypes
  BY TopOf DEF SearchTypes

\* A call returns with what it had found.
LEMMA ReturnsSame ==
    ASSUME GlobInv, globStep = "match", Undisturbed, UNCHANGED <<list, heap, shortages>>, globErrno' \in GlobErrors,
           NEW e, ReturnFrom(e), e = "none" \/ (e = "ABORTED" /\ (call.strict \/ Has("ERR"))),
           RightFrames(call, Popped), Done(call, Popped) = Done(call, frames)
    PROVE  GlobInv'
  <1>1. SearchTypes
    BY SameTypes
  <1>2. CASE e = "none"
    <2>1. NamesOf(list') = Done(call, Popped) /\ RightList(call, list')
      BY TopOf
    <2>2. ReturnFrom("none")
      BY <1>2
    <2> QED
      BY <1>1, <2>1, <2>2, ReturnKeeps
  <1>3. CASE e = "ABORTED" /\ (call.strict \/ Has("ERR"))
    BY <1>1, <1>3, AbortKeeps
  <1> QED
    BY <1>2, <1>3

LEMMA OpenFailsKeeps == GlobInv /\ OpenFails => GlobInv'
  <1> SUFFICES ASSUME GlobInv, OpenFails PROVE GlobInv'
    OBVIOUS
  <1>0. PICK e : e = OpenError(call.tree, top.path)
    OBVIOUS
  <1>1. /\ globStep = "match" /\ top.opened = FALSE /\ e # "none" /\ globErrno' = e
        /\ ~(e = "EACCES" /\ component = Slash)
        /\ ReturnFrom(IF e = "ENOTDIR" THEN "none" ELSE Aborts(e))
        /\ Undisturbed /\ UNCHANGED <<list, heap, shortages>>
    BY <1>0 DEF OpenFails, IsTop, Undisturbed
  <1>2. globErrno' \in GlobErrors
    BY <1>0, <1>1, ErrnoOf DEF GlobErrors
  <1>3. RightFrames(call, Popped) /\ Done(call, Popped) = Done(call, frames)
    <2>1. /\ Opening(call, frames) /\ top = frames[Len(frames)] /\ Popped = SubSeq(frames, 1, Len(frames) - 1)
          /\ component = call.pattern[top.at]
      BY <1>1, TopOf
    <2>2. Ended(call, top, e)
      BY <1>1, <2>1 DEF Ended
    <2> QED
      BY <1>0, <2>1, <2>2, ReturnedIs
  <1>4. PICK r : r = (IF e = "ENOTDIR" THEN "none" ELSE Aborts(e))
    OBVIOUS
  <1>5. r = "none" \/ (r = "ABORTED" /\ (call.strict \/ Has("ERR")))
    BY <1>4, AbortsIs
  <1> QED
    BY <1>1, <1>2, <1>3, <1>4, <1>5, ReturnsSame

LEMMA ReadEndsKeeps == GlobInv /\ ReadEnds => GlobInv'
  <1> SUFFICES ASSUME GlobInv, ReadEnds PROVE GlobInv'
    OBVIOUS
  <1>1. /\ globStep = "match" /\ top.opened = TRUE /\ top.left = <<>>
        /\ ReturnFrom(IF top.error # "none" THEN Aborts(top.error) ELSE "none")
        /\ Undisturbed /\ UNCHANGED <<list, heap, globErrno, shortages>>
    BY DEF ReadEnds, IsTop, Undisturbed
  <1>2. globErrno' \in GlobErrors
    BY <1>1, TopOf
  <1>3. RightFrames(call, Popped) /\ Done(call, Popped) = Done(call, frames)
    <2>1. Opening(call, frames) /\ top = frames[Len(frames)] /\ Popped = SubSeq(frames, 1, Len(frames) - 1)
      BY <1>1, TopOf
    <2>2. PICK e : e = OpenError(call.tree, top.path)
      OBVIOUS
    <2>3. Ended(call, top, e)
      BY <1>1 DEF Ended
    <2> QED
      BY <2>1, <2>2, <2>3, ReturnedIs
  <1>4. PICK r : r = (IF top.error # "none" THEN Aborts(top.error) ELSE "none")
    OBVIOUS
  <1>5. r = "none" \/ (r = "ABORTED" /\ (call.strict \/ Has("ERR")))
    BY <1>4, AbortsIs
  <1> QED
    BY <1>1, <1>2, <1>3, <1>4, <1>5, ReturnsSame

LEMMA ExceptTwice ==
    ASSUME NEW s, NEW n \in DOMAIN s, NEW a, NEW b
    PROVE  [s EXCEPT ![n] = a][n] = a /\ [[s EXCEPT ![n] = a] EXCEPT ![n] = b] = [s EXCEPT ![n] = b]
  OBVIOUS

Edited(f, b, es, e) == [[[f EXCEPT !.opened = b] EXCEPT !.left = es] EXCEPT !.error = e]
Left(f, es) == [f EXCEPT !.left = es]

LEMMA FrameFields ==
    ASSUME NEW c, NEW f \in FrameSet(c), NEW b \in BOOLEAN, NEW es, NEW e
    PROVE  /\ Edited(f, b, es, e) = [path |-> f.path, at |-> f.at, opened |-> b, left |-> es, error |-> e]
           /\ Left(f, es) = [path |-> f.path, at |-> f.at, opened |-> f.opened, left |-> es, error |-> f.error]
  <1>1. PICK p, a, o, l, r : f = [path |-> p, at |-> a, opened |-> o, left |-> l, error |-> r]
    <2>1. f = [path |-> f.path, at |-> f.at, opened |-> f.opened, left |-> f.left, error |-> f.error]
      BY DEF FrameSet
    <2> QED
      BY <2>1
  <1>2. f.path = p /\ f.at = a /\ f.opened = o /\ f.left = l /\ f.error = r
    BY <1>1
  <1>3. /\ [f EXCEPT !.opened = b] = [path |-> p, at |-> a, opened |-> b, left |-> l, error |-> r]
        /\ [f EXCEPT !.left = es] = [path |-> p, at |-> a, opened |-> o, left |-> es, error |-> r]
    BY <1>1
  <1>4. [[path |-> p, at |-> a, opened |-> b, left |-> l, error |-> r] EXCEPT !.left = es]
            = [path |-> p, at |-> a, opened |-> b, left |-> es, error |-> r]
    OBVIOUS
  <1>5. [[path |-> p, at |-> a, opened |-> b, left |-> es, error |-> r] EXCEPT !.error = e]
            = [path |-> p, at |-> a, opened |-> b, left |-> es, error |-> e]
    OBVIOUS
  <1> QED
    BY <1>2, <1>3, <1>4, <1>5 DEF Edited, Left

Opens(fs, n, b, es, e, g) == g = [fs EXCEPT ![n].opened = b, ![n].left = es, ![n].error = e]

LEMMA FrameOpened ==
    ASSUME NEW c, NEW fs, NEW n \in DOMAIN fs, NEW f \in FrameSet(c), f = fs[n], NEW b \in BOOLEAN, NEW es, NEW e,
           NEW h, h = [path |-> f.path, at |-> f.at, opened |-> b, left |-> es, error |-> e],
           NEW g, Opens(fs, n, b, es, e, g)
    PROVE  Replaces(fs, n, h, g)
  <1>1. PICK r : r = [f EXCEPT !.opened = b]
    OBVIOUS
  <1>2. PICK q : q = [r EXCEPT !.left = es]
    OBVIOUS
  <1>5. [q EXCEPT !.error = e] = h
    <2>1. Edited(f, b, es, e) = h
      BY FrameFields
    <2> QED
      BY <1>1, <1>2, <2>1 DEF Edited
  <1>6. PICK g1 : g1 = [fs EXCEPT ![n] = r]
    OBVIOUS
  <1>7. g1[n] = r /\ [g1 EXCEPT ![n] = q] = [fs EXCEPT ![n] = q]
    BY <1>6, ExceptTwice
  <1>8. PICK g2 : g2 = [fs EXCEPT ![n] = q]
    OBVIOUS
  <1>9. g2[n] = q /\ [g2 EXCEPT ![n] = h] = [fs EXCEPT ![n] = h]
    BY <1>8, ExceptTwice
  <1>10. [fs EXCEPT ![n].opened = b] = g1
    BY <1>1, <1>6
  <1>11. [g1 EXCEPT ![n].left = es] = g2
    BY <1>2, <1>7, <1>8
  <1>12. [g2 EXCEPT ![n].error = e] = [fs EXCEPT ![n] = h]
    BY <1>5, <1>9
  <1>13. g = [[[fs EXCEPT ![n].opened = b] EXCEPT ![n].left = es] EXCEPT ![n].error = e]
    BY DEF Opens
  <1> QED
    BY <1>10, <1>11, <1>12, <1>13 DEF Replaces

LEMMA OpenedKeeps == GlobInv /\ Opened => GlobInv'
  <1> SUFFICES ASSUME GlobInv, Opened PROVE GlobInv'
    OBVIOUS
  <1>1. /\ globStep = "match" /\ top.opened = FALSE /\ OpenError(call.tree, top.path) = "none" /\ component # Slash
        /\ frames' = [frames EXCEPT ![Len(frames)].opened = TRUE,
                                    ![Len(frames)].left = call.tree[Place(top.path)].list,
                                    ![Len(frames)].error = globErrno]
        /\ Undisturbed /\ UNCHANGED <<globStep, list, heap, globErrno, error, shortages>>
    BY DEF Opened, IsTop, Undisturbed
  <1>2. /\ Opening(call, frames) /\ top = frames[Len(frames)] /\ component = call.pattern[top.at]
        /\ NamesOf(list) = Done(call, frames) /\ RightList(call, list) /\ globErrno \in GlobErrors
        /\ top \in FrameSet(call) /\ Len(frames) \in DOMAIN frames /\ frames \in Seq(FrameSet(call))
        /\ top.path \in Seq(PathNames(call)) /\ Len(top.path) < Len(call.pattern)
    <2>1. Len(top.path) < Len(call.pattern)
      <3>1. RightFrame(call, top, Len(frames)) /\ Len(frames) \in 1 .. Len(call.pattern) /\ Len(call.pattern) \in Nat
        BY <1>1, TopOf, TopIs
      <3> QED
        BY <3>1 DEF RightFrame
    <2> QED
      BY <1>1, <2>1, TopOf
  <1>3. PICK es : es = call.tree[Place(top.path)].list
    OBVIOUS
  <1>4. es \in Seq(DirEntries(call))
    <2>1. Legal(call)
      BY <1>2 DEF Opening
    <2> QED
      BY <1>1, <1>2, <1>3, <2>1, ListingIs
  <1>5. PICK b \in BOOLEAN : b = TRUE
    OBVIOUS
  <1>6. PICK h : h = [path |-> top.path, at |-> top.at, opened |-> b, left |-> es, error |-> globErrno]
    OBVIOUS
  <1>7. h \in FrameSet(call)
    BY <1>2, <1>4, <1>6 DEF FrameSet
  <1>8. PICK g, n : g = frames' /\ n = Len(frames)
    OBVIOUS
  <1>9. Opening(call, g) /\ Done(call, g) = Done(call, frames)
    <2>1. /\ h.path = top.path /\ h.at = top.at /\ h.opened = TRUE /\ h.left = call.tree[Place(top.path)].list
      BY <1>3, <1>5, <1>6
    <2>2. PICK e : e = globErrno
      OBVIOUS
    <2>3. Opens(frames, n, b, es, e, g)
      BY <1>1, <1>3, <1>5, <1>8, <2>2 DEF Opens
    <2>4. Replaces(frames, n, h, g)
      <3>1. n \in DOMAIN frames /\ top \in FrameSet(call) /\ top = frames[n]
        BY <1>2, <1>8
      <3> QED
        BY <1>6, <2>2, <2>3, <3>1, FrameOpened
    <2>5. top.opened = FALSE /\ OpenError(call.tree, top.path) = "none" /\ call.pattern[top.at] # Slash
      BY <1>1, <1>2
    <2> QED
      BY <1>2, <1>7, <1>8, <2>1, <2>4, <2>5, OpenedIs
  <1>10. SearchTypes
    BY <1>1, <1>2, SameTypes
  <1>11. Globbing(call, frames', list')
    BY <1>1, <1>2, <1>8, <1>9 DEF Globbing
  <1>12. error' = "none"
    BY <1>1 DEF GlobInv
  <1> QED
    BY <1>1, <1>10, <1>11, <1>12, SearchStep

\* malloc fails, or gives a block that no match has.
LEMMA ShortOf ==
    ASSUME GlobInv, Shorten
    PROVE  /\ globErrno' \in GlobErrors /\ shortages' \in 0 .. Shortages /\ shortages' < Shortages
  <1>1. Shortages \in Nat /\ shortages \in 0 .. Shortages
    BY GlobAssumption DEF GlobInv, GlobTypes
  <1> QED
    BY <1>1 DEF Shorten, GlobErrors

LEMMA AppendOf ==
    ASSUME GlobInv, globStep = "match", NEW path, path \in Seq(PathNames(call)), NEW mark \in 0 .. 2, Append1(path, mark),
           globErrno' \in GlobErrors, path \notin NamesOf(list),
           NEW m, m = [name |-> path, mark |-> mark, block |-> Fresh], RightMark(call, m)
    PROVE  /\ SearchTypes
           /\ NamesOf(list') = NamesOf(list) \cup {path}
           /\ RightList(call, list')
  <1>1. /\ RightBlocks(gl, list, heap) /\ list \in Seq(MatchSet) /\ heap \subseteq Nat \ {0} /\ IsFiniteSet(heap)
        /\ RightList(call, list) /\ shortages \in 0 .. Shortages
    BY TopOf
  <1>2. PICK b : b = Fresh
    OBVIOUS
  <1>3. b \in Nat \ {0} /\ b \notin heap
    BY <1>1, <1>2, FreshIs
  <1>4. path \in Seq(Int)
    <2>1. PathNames(call) \subseteq Int
      BY DEF PathNames
    <2> QED
      BY <2>1, SeqMonotonic
  <1>5. m.name = path /\ m.block = b /\ m \in MatchSet
    BY <1>2, <1>3, <1>4 DEF MatchSet
  <1>6. PICK t : t = Append(list, m)
    OBVIOUS
  <1>7. list' = t /\ heap' = heap \cup {b} /\ shortages' = shortages
    BY <1>2, <1>6 DEF Append1
  <1>8. /\ t \in Seq(MatchSet)
        /\ NamesOf(t) = NamesOf(list) \cup {m.name}
        /\ \A c : RightList(c, list) /\ m.name \notin NamesOf(list) /\ RightMark(c, m) => RightList(c, t)
        /\ \A g, h : RightBlocks(g, list, h) /\ m.block # 0 /\ m.block \notin h => RightBlocks(g, t, h \cup {m.block})
    BY <1>1, <1>5, <1>6, ListGrows
  <1>9. RightList(call, t)
    BY <1>1, <1>5, <1>8
  <1>10. RightBlocks(gl, t, heap \cup {b})
    BY <1>1, <1>3, <1>5, <1>8
  <1>11. heap \cup {b} \subseteq Nat \ {0} /\ IsFiniteSet(heap \cup {b})
    BY <1>1, <1>3, FS_AddElement
  <1> QED
    BY <1>1, <1>5, <1>7, <1>8, <1>9, <1>10, <1>11 DEF SearchTypes

LEMMA ShortKeeps ==
    ASSUME GlobInv, globStep = "match", Undisturbed, Shorten, ReturnFrom("NOSPACE"), UNCHANGED <<list, heap>>
    PROVE  GlobInv'
  <1>1. SearchTypes
    BY ShortOf, TopOf DEF SearchTypes
  <1> QED
    BY <1>1, ShortOf, AbortKeeps

LEMMA SlashMatchesKeeps == GlobInv /\ SlashMatches => GlobInv'
  <1> SUFFICES ASSUME GlobInv, SlashMatches PROVE GlobInv'
    OBVIOUS
  <1>1. /\ globStep = "match" /\ top.opened = FALSE /\ component = Slash
        /\ OpenError(call.tree, top.path) \in {"none", "EACCES"} /\ Undisturbed
    BY DEF SlashMatches, IsTop, Undisturbed
  <1>2. /\ Opening(call, frames) /\ top = frames[Len(frames)] /\ Popped = SubSeq(frames, 1, Len(frames) - 1)
        /\ component = call.pattern[top.at] /\ NamesOf(list) = Done(call, frames)
        /\ top.path \in Seq(PathNames(call)) /\ globErrno \in GlobErrors
    BY <1>1, TopOf
  <1>3. CASE /\ Append1(top.path, IF top.path # <<>> THEN 1 ELSE 0)
             /\ globErrno' = IF OpenError(call.tree, top.path) = "EACCES" THEN "EACCES" ELSE globErrno
             /\ ReturnFrom("none")
    <2>1. /\ RightFrames(call, Popped) /\ Done(call, Popped) = Done(call, frames) \cup {top.path} /\ top.path \notin Done(call, frames)
          /\ IsDir(call.tree, top.path)
      <3>1. PICK c, fs, f, g : c = call /\ fs = frames /\ f = top /\ g = Popped
        OBVIOUS
      <3>2. SlashTop(c, fs, f, g)
        BY <1>1, <1>2, <3>1 DEF SlashTop
      <3>3. RightFrames(c, g) /\ Done(c, g) = Done(c, fs) \cup {f.path} /\ f.path \notin Done(c, fs) /\ IsDir(c.tree, f.path)
        BY <3>2, SlashIs
      <3> QED
        BY <3>1, <3>3
    <2>2. PICK mark \in 0 .. 2 : mark = (IF top.path # <<>> THEN 1 ELSE 0)
      OBVIOUS
    <2>3. PICK m : m = [name |-> top.path, mark |-> mark, block |-> Fresh]
      OBVIOUS
    <2>4. RightMark(call, m)
      <3>1. m.name = top.path /\ m.mark = mark
        BY <2>3
      <3> QED
        BY <2>1, <2>2, <3>1 DEF RightMark
    <2>5. globErrno' \in GlobErrors
      BY <1>2, <1>3 DEF GlobErrors
    <2>6. Append1(top.path, mark)
      BY <1>3, <2>2
    <2>7. top.path \notin NamesOf(list)
      BY <1>2, <2>1
    <2>8. SearchTypes /\ NamesOf(list') = NamesOf(list) \cup {top.path} /\ RightList(call, list')
      BY <1>1, <1>2, <2>3, <2>4, <2>5, <2>6, <2>7, AppendOf
    <2>9. NamesOf(list') = Done(call, Popped)
      BY <1>2, <2>1, <2>8
    <2> QED
      BY <1>1, <1>3, <2>1, <2>8, <2>9, ReturnKeeps
  <1>4. CASE Shorten /\ ReturnFrom("NOSPACE") /\ UNCHANGED <<list, heap>>
    BY <1>1, <1>4, ShortKeeps
  <1> QED
    BY <1>3, <1>4 DEF SlashMatches

LEMMA FrameRead ==
    ASSUME NEW c, NEW fs, NEW n \in DOMAIN fs, NEW f \in FrameSet(c), f = fs[n], NEW h, h = Left(f, Tail(f.left)),
           NEW g, g = [fs EXCEPT ![n].left = Tail(@)]
    PROVE  Replaces(fs, n, h, g)
  BY DEF Replaces, Left

LEMMA ReadingIs ==
    ASSUME GlobInv, Reading
    PROVE  \E h, g, n : NextIs(call, frames, top, h, entry) /\ n = Len(frames) /\ Replaces(frames, n, h, g) /\ g = Rest
  <1>1. globStep = "match" /\ top.opened = TRUE /\ top.left # <<>>
    BY DEF Reading, IsTop
  <1>2. /\ Opening(call, frames) /\ top = frames[Len(frames)] /\ top \in FrameSet(call) /\ Len(frames) \in DOMAIN frames
    BY <1>1, TopOf
  <1>3. PICK n, h, g, es : n = Len(frames) /\ es = Tail(top.left) /\ h = Left(top, es) /\ g = Rest
    OBVIOUS
  <1>4. g = [frames EXCEPT ![n].left = Tail(@)]
    BY <1>3 DEF Rest
  <1>5. Replaces(frames, n, h, g)
    BY <1>2, <1>3, <1>4, FrameRead
  <1>6. PICK b \in BOOLEAN : b = TRUE
    OBVIOUS
  <1>7. h = [path |-> top.path, at |-> top.at, opened |-> b, left |-> es, error |-> top.error]
    BY <1>1, <1>2, <1>3, <1>6, FrameFields
  <1>8. top.path \in Seq(PathNames(call)) /\ top.at \in Nat /\ top.error \in GlobErrors /\ es \in Seq(DirEntries(call))
    <2>1. top.path \in Seq(PathNames(call)) /\ top.at \in Nat /\ top.error \in GlobErrors /\ top.left \in Seq(DirEntries(call))
      BY <1>2 DEF FrameSet
    <2> QED
      BY <1>1, <1>3, <2>1, HeadTailProperties
  <1>9. h \in FrameSet(call)
    BY <1>7, <1>8 DEF FrameSet
  <1>10. h.path = top.path /\ h.at = top.at /\ h.opened = TRUE /\ h.left = Tail(top.left)
    <2>1. es = Tail(top.left)
      BY <1>3
    <2> QED
      BY <1>6, <1>7, <2>1
  <1>11. NextIs(call, frames, top, h, entry)
    BY <1>1, <1>2, <1>9, <1>10 DEF NextIs, entry
  <1> QED
    BY <1>3, <1>5, <1>11

\* The same when error was overwritten by the call for the entry.
ClearedRest == [Rest EXCEPT ![Len(frames)].error = "none"]

LEMMA FrameCleared ==
    ASSUME NEW c, NEW fs \in Seq(FrameSet(c)), NEW n \in 1 .. Len(fs), NEW h \in FrameSet(c),
           NEW g, Replaces(fs, n, h, g), NEW k, k = Cleared(h), NEW r, r = [g EXCEPT ![n].error = "none"]
    PROVE  Replaces(fs, n, k, r)
  <1>1. n \in DOMAIN fs /\ g = [fs EXCEPT ![n] = h]
    BY LenProperties DEF Replaces
  <1>2. g[n] = h
    BY <1>1
  <1>3. r = [g EXCEPT ![n] = k]
    BY <1>2 DEF Cleared
  <1> QED
    BY <1>1, <1>3 DEF Replaces

LEMMA ClearedFields ==
    ASSUME NEW c, NEW h \in FrameSet(c)
    PROVE  /\ Cleared(h) \in FrameSet(c)
           /\ Cleared(h).path = h.path /\ Cleared(h).at = h.at /\ Cleared(h).opened = h.opened /\ Cleared(h).left = h.left
  <1>1. "none" \in GlobErrors
    BY DEF GlobErrors
  <1> QED
    BY <1>1 DEF Cleared, FrameSet

LEMMA ReadingClears ==
    ASSUME GlobInv, Reading
    PROVE  \E h, g, n : NextIs(call, frames, top, h, entry) /\ n = Len(frames) /\ Replaces(frames, n, h, g) /\ g = ClearedRest
  <1>1. PICK h, g, n : NextIs(call, frames, top, h, entry) /\ n = Len(frames) /\ Replaces(frames, n, h, g) /\ g = Rest
    BY ReadingIs
  <1>2. frames \in Seq(FrameSet(call)) /\ Len(frames) \in 1 .. Len(frames)
    BY TopOf DEF Reading, IsTop
  <1>3. PICK k : k = Cleared(h)
    OBVIOUS
  <1>4. h \in FrameSet(call) /\ h.path = top.path /\ h.at = top.at /\ h.opened = TRUE /\ h.left = Tail(top.left)
    BY <1>1 DEF NextIs
  <1>5. k \in FrameSet(call) /\ k.path = h.path /\ k.at = h.at /\ k.opened = h.opened /\ k.left = h.left
    BY <1>3, <1>4, ClearedFields
  <1>6. NextIs(call, frames, top, k, entry)
    BY <1>1, <1>4, <1>5 DEF NextIs
  <1>7. PICK r : r = [g EXCEPT ![n].error = "none"]
    OBVIOUS
  <1>8. Replaces(frames, n, k, r)
    BY <1>1, <1>2, <1>3, <1>4, <1>7, FrameCleared
  <1>9. r = ClearedRest
    BY <1>1, <1>7 DEF ClearedRest
  <1> QED
    BY <1>1, <1>6, <1>8, <1>9

LEMMA SkipEntryKeeps == GlobInv /\ SkipEntry => GlobInv'
  <1> SUFFICES ASSUME GlobInv, SkipEntry PROVE GlobInv'
    OBVIOUS
  <1>1. /\ globStep = "match" /\ Reading /\ Refused /\ frames' = Rest /\ Undisturbed
        /\ UNCHANGED <<globStep, list, heap, globErrno, error, shortages>>
    BY DEF SkipEntry, Reading, IsTop, Undisturbed
  <1>2. PICK h, g, n : NextIs(call, frames, top, h, entry) /\ n = Len(frames) /\ Replaces(frames, n, h, g) /\ g = Rest
    BY <1>1, ReadingIs
  <1>3. /\ NamesOf(list) = Done(call, frames) /\ RightList(call, list) /\ globErrno \in GlobErrors /\ error = "none"
        /\ component = call.pattern[top.at] /\ top.at = n
        /\ IsLast <=> top.at = Len(call.pattern)
    BY <1>1, <1>2, TopOf DEF GlobInv
  <1>4. Turned(call, n, entry)
    BY <1>1, <1>3 DEF Refused, NotADir, Has, Turned
  <1>5. Opening(call, g) /\ Done(call, g) = Done(call, frames)
    BY <1>2, <1>4, RefusedIs
  <1>6. Globbing(call, frames', list')
    BY <1>1, <1>2, <1>3, <1>5 DEF Globbing
  <1>7. SearchTypes
    BY <1>1, <1>3, SameTypes
  <1> QED
    BY <1>1, <1>3, <1>6, <1>7, SearchStep

LEMMA DescendKeeps == GlobInv /\ Descend => GlobInv'
  <1> SUFFICES ASSUME GlobInv, Descend PROVE GlobInv'
    OBVIOUS
  <1>1. /\ globStep = "match" /\ Reading /\ ~Refused /\ ~IsLast /\ Undisturbed
        /\ frames' = Append(ClearedRest, Frame(Append(top.path, entry.name), top.at + 1))
        /\ UNCHANGED <<globStep, list, heap, globErrno, error, shortages>>
    BY DEF Descend, Reading, IsTop, Undisturbed, ClearedRest
  <1>2. PICK h, g, n : NextIs(call, frames, top, h, entry) /\ n = Len(frames) /\ Replaces(frames, n, h, g) /\ g = ClearedRest
    BY <1>1, ReadingClears
  <1>3. /\ NamesOf(list) = Done(call, frames) /\ RightList(call, list) /\ globErrno \in GlobErrors /\ error = "none"
        /\ component = call.pattern[top.at] /\ top.at = n
        /\ IsLast <=> top.at = Len(call.pattern)
    BY <1>1, <1>2, TopOf DEF GlobInv
  <1>4. /\ n # Len(call.pattern) /\ entry.name \in call.pattern[n].accepts
        /\ ~("PERIOD" \in call.flags /\ entry.name = Dot /\ entry.name \notin call.pattern[n].period)
    BY <1>1, <1>3 DEF Refused, Has
  <1>5. PICK d, a : d = Frame(Append(top.path, entry.name), top.at + 1) /\ a = Append(g, d)
    OBVIOUS
  <1>6. Opening(call, a) /\ Done(call, a) = Done(call, frames)
    <2>1. PICK c, fs, f, e : c = call /\ fs = frames /\ f = top /\ e = entry
      OBVIOUS
    <2>2. NextIs(c, fs, f, h, e) /\ n = Len(fs) /\ Replaces(fs, n, h, g)
      BY <1>2, <2>1
    <2>3. n # Len(c.pattern) /\ EntryAccepted(c, n, e) /\ Enters(f, e, g, a)
      BY <1>4, <1>5, <2>1 DEF EntryAccepted, Enters
    <2>4. Opening(c, a) /\ Done(c, a) = Done(c, fs)
      BY <2>2, <2>3, DescendIs
    <2> QED
      BY <2>1, <2>4
  <1>7. Globbing(call, frames', list')
    BY <1>1, <1>2, <1>3, <1>5, <1>6 DEF Globbing
  <1>8. SearchTypes
    BY <1>1, <1>3, SameTypes
  <1> QED
    BY <1>1, <1>3, <1>7, <1>8, SearchStep

\* The mark that GLOB_MARK asks for.
LEMMA MarkOf ==
    ASSUME NEW path, NEW mark \in Marks(path), NEW m, m.name = path, m.mark = mark,
           entry.type = "dir" => IsDir(call.tree, path),
           entry.type \notin {"unknown", "dir", "link"} => ~IsDir(call.tree, path)
    PROVE  mark \in 0 .. 2 /\ RightMark(call, m)
  <1>1. CASE ~Has("MARK")
    BY <1>1 DEF Marks, Has, RightMark
  <1>2. CASE Has("MARK") /\ entry.type \notin {"unknown", "link"}
    <2>1. mark = IF entry.type = "dir" THEN 1 ELSE 0
      BY <1>2 DEF Marks
    <2> QED
      BY <1>2, <2>1 DEF RightMark
  <1>3. CASE Has("MARK") /\ ~(entry.type \notin {"unknown", "link"})
    <2>1. mark \in IF Exists(call.tree, path) THEN {IF IsDir(call.tree, path) THEN 1 ELSE 0} ELSE {0, 1}
      BY <1>3 DEF Marks
    <2> QED
      BY <2>1 DEF RightMark
  <1> QED
    BY <1>1, <1>2, <1>3

LEMMA AppendEntryKeeps == GlobInv /\ AppendEntry => GlobInv'
  <1> SUFFICES ASSUME GlobInv, AppendEntry PROVE GlobInv'
    OBVIOUS
  <1>0. PICK path : path = Append(top.path, entry.name)
    OBVIOUS
  <1>1. /\ globStep = "match" /\ Reading /\ ~Refused /\ IsLast /\ Undisturbed
    BY DEF AppendEntry, Reading, IsTop, Undisturbed
  <1>2. PICK h, g, n : NextIs(call, frames, top, h, entry) /\ n = Len(frames) /\ Replaces(frames, n, h, g) /\ g = Rest
    BY <1>1, ReadingIs
  <1>3. /\ NamesOf(list) = Done(call, frames) /\ RightList(call, list) /\ globErrno \in GlobErrors /\ error = "none"
        /\ component = call.pattern[top.at] /\ top.at = n
        /\ IsLast <=> top.at = Len(call.pattern)
    BY <1>1, <1>2, TopOf DEF GlobInv
  <1>4. n = Len(call.pattern) /\ entry.name \in call.pattern[n].accepts
    BY <1>1, <1>3 DEF Refused
  <1>5. /\ Opening(call, g) /\ Done(call, g) = Done(call, frames) \cup {path} /\ path \notin Done(call, frames)
        /\ path \in Seq(PathNames(call))
        /\ entry.type = "dir" => IsDir(call.tree, path)
        /\ entry.type \notin {"unknown", "dir", "link"} => ~IsDir(call.tree, path)
    <2>1. PICK c, fs, f, e : c = call /\ fs = frames /\ f = top /\ e = entry
      OBVIOUS
    <2>2. NextIs(c, fs, f, h, e) /\ n = Len(fs) /\ Replaces(fs, n, h, g)
      BY <1>2, <2>1
    <2>3. n = Len(c.pattern) /\ EntryAccepted(c, n, e) /\ Reaches(f, e, path)
      BY <1>0, <1>4, <2>1 DEF EntryAccepted, Reaches
    <2>4. Reached(c, fs, g, e, path)
      BY <2>2, <2>3, EntryMatches
    <2> QED
      BY <2>1, <2>4 DEF Reached
  <1>6. CASE /\ \E mark \in Marks(path) : Append1(path, mark)
             /\ globErrno' = IF (Has("MARK") /\ entry.type \in {"unknown", "link"}) /\ ~Exists(call.tree, path) THEN "ENOENT" ELSE globErrno
             /\ frames' = Rest
             /\ UNCHANGED <<globStep, error>>
    <2>1. PICK mark \in Marks(path) : Append1(path, mark)
      BY <1>6
    <2>2. PICK m : m = [name |-> path, mark |-> mark, block |-> Fresh]
      OBVIOUS
    <2>3. m.name = path /\ m.mark = mark
      BY <2>2
    <2>4. mark \in 0 .. 2 /\ RightMark(call, m)
      BY <1>5, <2>3, MarkOf
    <2>5. globErrno' \in GlobErrors
      BY <1>3, <1>6 DEF GlobErrors
    <2>6. path \notin NamesOf(list)
      BY <1>3, <1>5
    <2>7. SearchTypes /\ NamesOf(list') = NamesOf(list) \cup {path} /\ RightList(call, list')
      BY <1>1, <1>5, <2>1, <2>2, <2>4, <2>5, <2>6, AppendOf
    <2>8. Globbing(call, frames', list')
      BY <1>2, <1>3, <1>5, <1>6, <2>7 DEF Globbing
    <2> QED
      BY <1>1, <1>3, <1>6, <2>7, <2>8, SearchStep
  <1>7. CASE Shorten /\ ReturnFrom("NOSPACE") /\ UNCHANGED <<list, heap>>
    BY <1>1, <1>7, ShortKeeps
  <1> QED
    BY <1>0, <1>6, <1>7 DEF AppendEntry
(***************************************************************************)
(* What was collected: it is freed, or becomes the end of the array.       *)
(***************************************************************************)

GlSet == [offs : Nat, pathc : Nat, pathv : Seq(MatchSet), array : BOOLEAN]
Ready(g, s, h, k) ==
    /\ g \in GlSet /\ s = <<>> /\ h \subseteq Nat \ {0} /\ IsFiniteSet(h) /\ RightBlocks(g, s, h)
    /\ k \in 0 .. Shortages

LEMMA CollectOf ==
    ASSUME GlobInv, globStep = "collect"
    PROVE  /\ todo # <<>> /\ result = "none" /\ before = gl.pathc /\ gl \in GlSet /\ Legal(call)
           /\ Collecting(call, error, list) /\ RightList(call, list) /\ RightBlocks(gl, list, heap)
           /\ list \in Seq(MatchSet) /\ heap \subseteq Nat \ {0} /\ IsFiniteSet(heap)
           /\ globErrno \in GlobErrors /\ error \in {"none", "ABORTED", "NOSPACE"} /\ shortages \in 0 .. Shortages
           /\ FirstCall(call) => gl.pathv = <<>> /\ gl.pathc = 0
           /\ "DOOFFS" \notin call.flags => gl.offs = 0
           /\ error = "NOSPACE" => shortages < Shortages
  <1>1. GlobTypes /\ GlobBlocks /\ Collecting(call, error, list)
    BY DEF GlobInv
  <1>2. todo # <<>>
    BY <1>1 DEF GlobBlocks
  <1>3. Legal(call)
    BY <1>1, <1>2, CallIs
  <1>4. RightList(call, list)
    BY <1>1 DEF Collecting
  <1> QED
    BY <1>1, <1>2, <1>3, <1>4 DEF GlobBlocks, GlobTypes, GlSet

LEMMA ReturnStep ==
    ASSUME GlobInv, globStep = "collect", NEW r, Return(r), r \in {"0", "NOMATCH", "ABORTED", "NOSPACE"},
           Ready(gl', list', heap', shortages'), globErrno' \in GlobErrors,
           gl'.offs = gl.offs, gl.pathc <= gl'.pathc, r = "NOSPACE" => shortages' < Shortages,
           GlobAnswered(call, r, New')
    PROVE  GlobInv'
  <1>1. todo' = todo /\ error' = error /\ before' = before /\ call' = call /\ globStep' = "ready" /\ result' = r
    BY DEF Return, call
  <1>2. GlobTypes'
    BY <1>1 DEF GlobInv, GlobTypes, Ready, GlSet
  <1>3. GlobBlocks'
    BY <1>1, CollectOf DEF GlobBlocks, Ready
  <1>4. GlobReturned'
    BY <1>1, CollectOf DEF GlobReturned
  <1> QED
    BY <1>1, <1>2, <1>3, <1>4 DEF GlobInv

LEMMA ReturnedNone ==
    ASSUME NEW c, NEW r, r = "NOSPACE" \/ (r = "NOMATCH" /\ (Matches(c) = {} \/ c.strict \/ "ERR" \in c.flags))
    PROVE  GlobAnswered(c, r, <<>>)
  BY NothingListed DEF GlobAnswered

LEMMA NoneNew ==
    ASSUME gl' \in GlSet, before' = gl'.pathc
    PROVE  New' = <<>>
  <1>1. PICK p, n : p = gl'.pathv /\ n = Len(p)
    OBVIOUS
  <1>2. n \in Nat /\ gl'.pathc \in Nat
    BY <1>1, LenProperties DEF GlSet
  <1>3. New' = SubSeq(p, n - 0 + 1, n)
    <2>1. New' = SubSeq(gl'.pathv, Len(gl'.pathv) - (gl'.pathc - before') + 1, Len(gl'.pathv))
      BY DEF New
    <2>2. PICK k : k = gl'.pathc - before'
      OBVIOUS
    <2>3. k = 0
      BY <1>2, <2>2
    <2> QED
      BY <1>1, <2>1, <2>2, <2>3
  <1>4. n - 0 + 1 \in Int /\ n < n - 0 + 1 /\ n \in Int
    BY <1>2
  <1> QED
    BY <1>3, <1>4, SubSeqEmpty

LEMMA NothingNew ==
    ASSUME GlobInv, globStep = "collect", Return("NOSPACE") \/ Return("NOMATCH"), gl' = gl
    PROVE  New' = <<>>
  <1>1. gl' \in GlSet /\ before = gl.pathc
    BY CollectOf
  <1>2. before' = gl'.pathc
    BY <1>1 DEF Return
  <1> QED
    BY <1>1, <1>2, NoneNew

LEMMA Freed ==
    ASSUME GlobInv, globStep = "collect", FreeList, gl' = gl, shortages' \in 0 .. Shortages
    PROVE  Ready(gl', list', heap', shortages')
  <1>1. RightBlocks(gl, list, heap) /\ gl \in GlSet /\ heap \subseteq Nat \ {0} /\ IsFiniteSet(heap)
    BY CollectOf
  <1>2. heap' = heap \ BlocksOf(list) /\ list' = <<>>
    BY DEF FreeList, BlocksOf
  <1>3. heap' \subseteq Nat \ {0} /\ IsFiniteSet(heap')
    BY <1>1, <1>2, FS_Subset
  <1>4. \A b \in BlocksOf(list) : b \notin BlocksOf(gl.pathv)
    BY <1>1 DEF RightBlocks, BlocksOf
  <1>5. heap' = BlocksOf(<<>>) \cup (BlocksOf(gl.pathv) \ {0})
    BY <1>1, <1>2, <1>4, NothingListed DEF RightBlocks
  <1>6. RightBlocks(gl, <<>>, heap')
    BY <1>1, <1>5 DEF RightBlocks
  <1> QED
    BY <1>1, <1>2, <1>3, <1>6 DEF Ready

LEMMA NoSpaceKeeps == GlobInv /\ NoSpace => GlobInv'
  <1> SUFFICES ASSUME GlobInv, NoSpace PROVE GlobInv'
    OBVIOUS
  <1>1. globStep = "collect" /\ error = "NOSPACE" /\ FreeList /\ Return("NOSPACE") /\ UNCHANGED <<gl, globErrno, shortages>>
    BY DEF NoSpace
  <1>2. /\ shortages \in 0 .. Shortages /\ shortages < Shortages /\ globErrno \in GlobErrors /\ gl.pathc \in Nat
    BY <1>1, CollectOf DEF GlSet
  <1>3. Ready(gl', list', heap', shortages')
    BY <1>1, <1>2, Freed
  <1>4. GlobAnswered(call, "NOSPACE", New')
    BY <1>1, NothingNew, ReturnedNone
  <1> QED
    BY <1>1, <1>2, <1>3, <1>4, ReturnStep


LEMMA NoArrayKeeps == GlobInv /\ NoArray => GlobInv'
  <1> SUFFICES ASSUME GlobInv, NoArray PROVE GlobInv'
    OBVIOUS
  <1>1. globStep = "collect" /\ Shorten /\ FreeList /\ Return("NOSPACE") /\ gl' = gl
    BY DEF NoArray
  <1>2. gl.pathc \in Nat
    BY <1>1, CollectOf DEF GlSet
  <1>3. Ready(gl', list', heap', shortages')
    BY <1>1, ShortOf, Freed
  <1>4. GlobAnswered(call, "NOSPACE", New')
    BY <1>1, NothingNew, ReturnedNone
  <1> QED
    BY <1>1, <1>2, <1>3, <1>4, ShortOf, ReturnStep

LEMMA NoMatchKeeps == GlobInv /\ NoMatch => GlobInv'
  <1> SUFFICES ASSUME GlobInv, NoMatch PROVE GlobInv'
    OBVIOUS
  <1>1. globStep = "collect" /\ error # "NOSPACE" /\ list = <<>> /\ gl' = gl
    BY DEF NoMatch
  <1>2. /\ Collecting(call, error, <<>>) /\ RightBlocks(gl, <<>>, heap) /\ gl \in GlSet /\ gl.pathc \in Nat
        /\ heap \subseteq Nat \ {0} /\ IsFiniteSet(heap) /\ globErrno \in GlobErrors
        /\ error \in {"none", "ABORTED"} /\ shortages \in 0 .. Shortages
    BY <1>1, CollectOf DEF GlSet
  <1>3. (error = "none" => Matches(call) = {}) /\ (error = "ABORTED" => call.strict \/ "ERR" \in call.flags)
    BY <1>2, NothingListed DEF Collecting, Gives, Stops
  <1>4. CASE ~Has("NOCHECK") /\ Return("NOMATCH") /\ UNCHANGED <<list, heap, globErrno, shortages>>
    <2>1. Ready(gl', list', heap', shortages')
      BY <1>1, <1>2, <1>4 DEF Ready
    <2>2. GlobAnswered(call, "NOMATCH", New')
      BY <1>1, <1>2, <1>3, <1>4, NothingNew, ReturnedNone
    <2> QED
      BY <1>1, <1>2, <1>4, <2>1, <2>2, ReturnStep
  <1>5. CASE Has("NOCHECK") /\ Shorten /\ Return("NOSPACE") /\ UNCHANGED <<list, heap>>
    <2>1. Ready(gl', list', heap', shortages')
      BY <1>1, <1>2, <1>5, ShortOf DEF Ready
    <2>2. GlobAnswered(call, "NOSPACE", New')
      BY <1>1, <1>5, NothingNew, ReturnedNone
    <2> QED
      BY <1>1, <1>2, <1>5, <2>1, <2>2, ShortOf, ReturnStep
  <1>6. CASE /\ Has("NOCHECK") /\ Append1(<<Dot>>, 0)
             /\ UNCHANGED <<globStep, todo, frames, globErrno, error, result, before>>
    <2>1. PICK b, p, m, t : b = Fresh /\ p = <<Dot>> /\ m = [name |-> p, mark |-> 0, block |-> b] /\ t = Append(<<>>, m)
      OBVIOUS
    <2>2. list' = t /\ heap' = heap \cup {b} /\ shortages' = shortages
      BY <1>1, <1>6, <2>1 DEF Append1
    <2>3. b \in Nat \ {0} /\ b \notin heap
      BY <1>2, <2>1, FreshIs
    <2>4. p \in Seq(Int)
      BY <2>1, GlobAssumption
    <2>5. m \in MatchSet /\ m.name = p /\ m.block = b
      BY <2>1, <2>3, <2>4 DEF MatchSet
    <2>6. RightMark(call, m) /\ RightList(call, <<>>) /\ m.name \notin NamesOf(<<>>)
      BY <2>1, <2>5, NothingListed DEF RightMark
    <2>7. PICK s \in Seq(MatchSet) : s = <<>>
      BY EmptySeq
    <2>8. /\ t \in Seq(MatchSet)
          /\ NamesOf(t) = NamesOf(s) \cup {m.name}
          /\ \A c : RightList(c, s) /\ m.name \notin NamesOf(s) /\ RightMark(c, m) => RightList(c, t)
          /\ \A g, h : RightBlocks(g, s, h) /\ m.block # 0 /\ m.block \notin h => RightBlocks(g, t, h \cup {m.block})
      <3>1. t = Append(s, m)
        BY <2>1, <2>7
      <3> QED
        BY <2>5, <3>1, ListGrows
    <2>9. RightList(call, t) /\ NamesOf(t) = {<<Dot>>}
      BY <2>1, <2>5, <2>6, <2>7, <2>8, NothingListed
    <2>10. RightBlocks(gl, t, heap \cup {b})
      BY <1>2, <2>3, <2>5, <2>7, <2>8
    <2>11. Collecting(call, error, t)
      BY <1>2, <1>3, <1>6, <2>9 DEF Collecting, Gives, Stops, Has
    <2>12. IsFiniteSet(heap \cup {b}) /\ heap \cup {b} \subseteq Nat \ {0}
      BY <1>2, <2>3, FS_AddElement
    <2>13. call' = call
      BY <1>6 DEF call
    <2>14. GlobTypes'
      BY <1>1, <1>6, <2>2, <2>8, <2>12 DEF GlobInv, GlobTypes
    <2>15. GlobBlocks'
      BY <1>1, <1>6, <2>2, <2>10, <2>13 DEF GlobInv, GlobBlocks
    <2>16. GlobReturned'
      BY <1>1, <1>6 DEF GlobReturned
    <2> QED
      BY <1>1, <1>6, <2>2, <2>11, <2>13, <2>14, <2>15, <2>16 DEF GlobInv
  <1> QED
    BY <1>4, <1>5, <1>6 DEF NoMatch

\* The array before what is added to it: the offsets and what earlier calls found.
Extends(g, o, old, pad, A) ==
    /\ old = g.pathv \/ (g.pathv = <<>> /\ old = [i \in 1 .. o |-> Null])
    /\ pad = [i \in 1 .. ((o + g.pathc) - Len(old)) |-> Unset]
    /\ A = old \o pad

LEMMA ExtendedIs ==
    ASSUME NEW g \in GlSet, NEW s, NEW h, RightBlocks(g, s, h), NEW o \in Nat, o = g.offs,
           NEW old, NEW pad, NEW A, Extends(g, o, old, pad, A)
    PROVE  /\ A \in Seq(MatchSet) /\ Len(A) = o + g.pathc
           /\ \A i \in 1 .. Len(A) : A[i].block = 0 <=> i <= o
           /\ BlocksOf(A) \ {0} = BlocksOf(g.pathv) \ {0}
  <1>0. Len(<<>>) = 0
    BY EmptySeq
  <1> PICK p : p = g.pathv
    OBVIOUS
  <1>1. PICK k \in Nat : p = g.pathv /\ k = o + g.pathc
    <2>1. g.pathc \in Nat
      BY DEF GlSet
    <2> QED
      BY <2>1
  <1>2. p \in Seq(MatchSet) /\ Len(p) \in Nat /\ DOMAIN p = 1 .. Len(p) /\ g.pathc \in Nat
    <2>1. p \in Seq(MatchSet) /\ g.pathc \in Nat
      BY <1>1 DEF GlSet
    <2> QED
      BY <2>1, LenProperties
  <1>3. (p = <<>> /\ k = o) \/ Len(p) = k
    BY <1>1, <1>2 DEF RightBlocks
  <1>4. \A i \in 1 .. Len(p) : p[i].block = 0 <=> i <= o
    BY <1>1, <1>2 DEF RightBlocks
  <1>5. Null \in MatchSet /\ Unset \in MatchSet /\ Null.block = 0 /\ Unset.block = 0
    <2>1. <<>> \in Seq(Int)
      BY EmptySeq
    <2>3. Null = [name |-> <<>>, mark |-> 0, block |-> 0] /\ Unset = [name |-> <<>>, mark |-> 2, block |-> 0]
      BY DEF Null, Unset
    <2> QED
      BY <2>1, <2>3 DEF MatchSet
  <1>6. old = p \/ (p = <<>> /\ old = [i \in 1 .. o |-> Null])
    BY <1>1 DEF Extends
  <1>7. /\ old \in Seq(MatchSet) /\ Len(old) \in Nat /\ (Len(old) = k \/ (old = <<>> /\ k = o))
        /\ \A i \in 1 .. Len(old) : old[i].block = 0 <=> i <= o
    <2>1. CASE old = p
      BY <1>2, <1>3, <1>4, <2>1
    <2>2. CASE p = <<>> /\ old = [i \in 1 .. o |-> Null]
      <3>1. k = o
        BY <1>0, <1>2, <1>3, <2>2, <1>1
      <3>2. old \in Seq(MatchSet) /\ Len(old) = o /\ \A i \in 1 .. o : old[i] = Null
        BY <1>5, <2>2
      <3> QED
        BY <1>5, <3>1, <3>2
    <2> QED
      BY <1>6, <2>1, <2>2
  <1>8. PICK n \in Nat : n = k - Len(old)
    BY <1>0, <1>7
  <1>9. pad = [i \in 1 .. n |-> Unset]
    BY <1>1, <1>8 DEF Extends
  <1>10. pad \in Seq(MatchSet) /\ Len(pad) = n /\ \A i \in 1 .. n : pad[i] = Unset
    BY <1>5, <1>9
  <1>11. A = old \o pad
    BY DEF Extends
  <1>12. /\ A \in Seq(MatchSet) /\ Len(A) = k
         /\ \A i \in 1 .. k : A[i] = IF i <= Len(old) THEN old[i] ELSE pad[i - Len(old)]
    <2>0. /\ old \o pad \in Seq(MatchSet) /\ Len(old \o pad) = Len(old) + Len(pad)
          /\ \A i \in 1 .. Len(old) + Len(pad) : (old \o pad)[i] = IF i <= Len(old) THEN old[i] ELSE pad[i - Len(old)]
      <3>1. old \in Seq(MatchSet) /\ pad \in Seq(MatchSet)
        BY <1>7, <1>10
      <3> QED
        BY <3>1, ConcatProperties
    <2>1. /\ A \in Seq(MatchSet) /\ Len(A) = Len(old) + n
          /\ \A i \in 1 .. Len(old) + n : A[i] = IF i <= Len(old) THEN old[i] ELSE pad[i - Len(old)]
      BY <1>10, <1>11, <2>0
    <2>2. Len(old) + n = k
      BY <1>7, <1>8
    <2> QED
      BY <2>1, <2>2
  <1>13. \A i \in 1 .. k : A[i].block = 0 <=> i <= o
    <2> SUFFICES ASSUME NEW i \in 1 .. k PROVE A[i].block = 0 <=> i <= o
      OBVIOUS
    <2>1. CASE i <= Len(old)
      BY <1>7, <1>12, <2>1
    <2>2. CASE ~(i <= Len(old))
      <3>1. i - Len(old) \in 1 .. n /\ i <= o
        BY <1>0, <1>7, <1>8, <2>2
      <3> QED
        BY <1>5, <1>10, <1>12, <2>2, <3>1
    <2> QED
      BY <2>1, <2>2
  <1>14. DOMAIN A = 1 .. k
    BY <1>12, LenProperties
  <1>15. BlocksOf(A) \ {0} = BlocksOf(p) \ {0}
    <2>1. ASSUME NEW i \in 1 .. k, A[i].block # 0 PROVE A[i].block \in BlocksOf(p)
      <3>1. ~(i <= o)
        BY <1>13, <2>1
      <3>2. old = p /\ i \in 1 .. Len(p)
        BY <1>0, <1>2, <1>3, <1>6, <3>1
      <3>3. A[i] = p[i]
        BY <1>2, <1>12, <3>2
      <3> QED
        BY <1>2, <3>2, <3>3 DEF BlocksOf
    <2>2. ASSUME NEW i \in 1 .. Len(p), p[i].block # 0 PROVE p[i].block \in BlocksOf(A)
      <3>1. old = p /\ i \in 1 .. k
        BY <1>0, <1>2, <1>3, <1>6
      <3>2. A[i] = p[i]
        BY <1>2, <1>12, <3>1
      <3> QED
        BY <1>14, <3>1, <3>2 DEF BlocksOf
    <2> QED
      BY <1>2, <1>14, <2>1, <2>2 DEF BlocksOf
  <1> QED
    BY <1>1, <1>12, <1>13, <1>15

LEMMA MatchAt ==
    ASSUME NEW s \in Seq(MatchSet)
    PROVE  /\ \A i \in 1 .. Len(s) : s[i].block \in BlocksOf(s) /\ s[i].name \in NamesOf(s)
           /\ \A b \in BlocksOf(s) : \E i \in 1 .. Len(s) : s[i].block = b
           /\ \A n \in NamesOf(s) : \E i \in 1 .. Len(s) : s[i].name = n
  <1>1. DOMAIN s = 1 .. Len(s)
    BY LenProperties
  <1> QED
    BY <1>1 DEF BlocksOf, NamesOf

\* The list as it is added, sorted or as it is.
Arranged(c, s, t) == t = IF "NOSORT" \in c.flags THEN s ELSE Sorted(s)

LEMMA ArrangedIs ==
    ASSUME NEW c, NEW s \in Seq(MatchSet), RightList(c, s), NEW t, Arranged(c, s, t)
    PROVE  /\ t \in Seq(MatchSet) /\ Len(t) = Len(s) /\ RightList(c, t)
           /\ NamesOf(t) = NamesOf(s) /\ BlocksOf(t) = BlocksOf(s)
           /\ "NOSORT" \notin c.flags => \A i, j \in DOMAIN t : i < j => NameBefore(t[i].name, t[j].name)
  <1>1. CASE "NOSORT" \in c.flags
    BY <1>1 DEF Arranged
  <1>2. CASE "NOSORT" \notin c.flags
    <2>1. t = Sorted(s) /\ Apart(s) /\ RightMarks(c, s)
      BY <1>2 DEF Arranged, RightList
    <2>2. /\ t \in Seq(MatchSet) /\ Len(t) = Len(s)
          /\ \A k \in 1 .. Len(s) : \E i \in 1 .. Len(s) : t[k] = s[i]
          /\ \A i \in 1 .. Len(s) : \E k \in 1 .. Len(s) : t[k] = s[i]
          /\ \A i, j \in 1 .. Len(s) : i < j => NameBefore(t[i].name, t[j].name)
      BY <2>1, SortedIs
    <2>3. Len(s) \in Nat /\ DOMAIN s = 1 .. Len(s) /\ DOMAIN t = 1 .. Len(s)
      BY <2>2, LenProperties
    <2>4. \A i \in 1 .. Len(s) : t[i].name \in Seq(Int)
      BY <2>2, MatchesAre
    <2>5. Apart(t)
      <3> SUFFICES ASSUME NEW i \in 1 .. Len(s), NEW j \in 1 .. Len(s), t[i].name = t[j].name, i # j PROVE FALSE
        BY <2>3 DEF Apart
      <3>1. NameBefore(t[i].name, t[j].name) \/ NameBefore(t[j].name, t[i].name)
        BY <2>2, <2>3
      <3> QED
        BY <2>4, <3>1, BeforeOrders
    <2>6. RightMarks(c, t)
      BY <2>1, <2>2, <2>3 DEF RightMarks
    <2>7. NamesOf(t) = NamesOf(s) /\ BlocksOf(t) = BlocksOf(s)
      <3>1. /\ \A k \in 1 .. Len(s) : \E i \in 1 .. Len(s) : t[k].name = s[i].name /\ t[k].block = s[i].block
            /\ \A i \in 1 .. Len(s) : \E k \in 1 .. Len(s) : t[k].name = s[i].name /\ t[k].block = s[i].block
        BY <2>2
      <3>2. ASSUME NEW x \in NamesOf(t) PROVE x \in NamesOf(s)
        <4>1. PICK k \in 1 .. Len(t) : t[k].name = x
          BY <2>2, MatchAt
        <4>2. PICK i \in 1 .. Len(s) : s[i].name = x
          BY <2>2, <3>1, <4>1
        <4> QED
          BY <4>2, MatchAt
      <3>3. ASSUME NEW x \in NamesOf(s) PROVE x \in NamesOf(t)
        <4>1. PICK i \in 1 .. Len(s) : s[i].name = x
          BY MatchAt
        <4>2. PICK k \in 1 .. Len(t) : t[k].name = x
          BY <2>2, <3>1, <4>1
        <4> QED
          BY <2>2, <4>2, MatchAt
      <3>4. ASSUME NEW x \in BlocksOf(t) PROVE x \in BlocksOf(s)
        <4>1. PICK k \in 1 .. Len(t) : t[k].block = x
          BY <2>2, MatchAt
        <4>2. PICK i \in 1 .. Len(s) : s[i].block = x
          BY <2>2, <3>1, <4>1
        <4> QED
          BY <4>2, MatchAt
      <3>5. ASSUME NEW x \in BlocksOf(s) PROVE x \in BlocksOf(t)
        <4>1. PICK i \in 1 .. Len(s) : s[i].block = x
          BY MatchAt
        <4>2. PICK k \in 1 .. Len(t) : t[k].block = x
          BY <2>2, <3>1, <4>1
        <4> QED
          BY <2>2, <4>2, MatchAt
      <3> QED
        BY <3>2, <3>3, <3>4, <3>5
    <2> QED
      BY <2>2, <2>3, <2>5, <2>6, <2>7 DEF RightList
  <1> QED
    BY <1>1, <1>2

\* The end of a sequence.
LEMMA EndIs ==
    ASSUME NEW S, NEW p \in Seq(S), NEW b \in Seq(S), NEW n \in Nat, Len(p) = n + Len(b),
           \A i \in 1 .. Len(b) : p[n + i] = b[i]
    PROVE  SubSeq(p, n + 1, n + Len(b)) = b
  <1>1. PICK k \in Nat : k = Len(b)
    BY LenProperties
  <1>2. PICK m, l \in Int : m = n + 1 /\ l = n + k
    OBVIOUS
  <1>3. \A i \in m .. l : p[i] \in S
    <2>1. \A i \in m .. l : i \in 1 .. Len(p)
      BY <1>1, <1>2
    <2> QED
      BY <2>1, ElementOfSeq
  <1>4. /\ SubSeq(p, m, l) \in Seq(S) /\ Len(SubSeq(p, m, l)) = (IF m <= l THEN l - m + 1 ELSE 0)
        /\ \A i \in 1 .. l - m + 1 : SubSeq(p, m, l)[i] = p[m + i - 1]
    BY <1>3, SubSeqProperties
  <1>5. PICK u : u = SubSeq(p, m, l)
    OBVIOUS
  <1>6. l - m + 1 = k /\ Len(u) = k /\ u \in Seq(S)
    BY <1>2, <1>4, <1>5
  <1>7. \A i \in 1 .. k : u[i] = b[i]
    <2> SUFFICES ASSUME NEW i \in 1 .. k PROVE u[i] = b[i]
      OBVIOUS
    <2>1. u[i] = p[m + i - 1]
      BY <1>4, <1>5, <1>6
    <2>2. m + i - 1 = n + i
      BY <1>2
    <2> QED
      BY <1>1, <2>1, <2>2
  <1>8. u = b
    BY <1>1, <1>6, <1>7, SeqEqual
  <1> QED
    BY <1>1, <1>2, <1>5, <1>8

\* Two sequences one after the other.
LEMMA ConcatIs ==
    ASSUME NEW S, NEW a \in Seq(S), NEW b \in Seq(S), NEW p, p = a \o b, NEW n, n = Len(a), NEW k, k = Len(b)
    PROVE  /\ p \in Seq(S) /\ Len(p) = n + k /\ DOMAIN p = 1 .. (n + k)
           /\ \A i \in 1 .. n : i \in 1 .. (n + k) /\ p[i] = a[i]
           /\ \A i \in 1 .. k : n + i \in 1 .. (n + k) /\ p[n + i] = b[i]
           /\ \A i \in 1 .. (n + k) : i \in 1 .. n \/ (i - n \in 1 .. k /\ p[i] = b[i - n] /\ i > n)
           /\ SubSeq(p, n + 1, n + k) = b
  <1>1. /\ a \o b \in Seq(S) /\ Len(a \o b) = Len(a) + Len(b)
        /\ \A i \in 1 .. Len(a) + Len(b) : (a \o b)[i] = IF i <= Len(a) THEN a[i] ELSE b[i - Len(a)]
    BY ConcatProperties
  <1>2. n \in Nat /\ k \in Nat
    BY LenProperties
  <1>3. p \in Seq(S) /\ Len(p) = n + k /\ \A i \in 1 .. n + k : p[i] = IF i <= n THEN a[i] ELSE b[i - n]
    BY <1>1
  <1>4. DOMAIN p = 1 .. (n + k)
    BY <1>3, LenProperties
  <1>5. \A i \in 1 .. n : i \in 1 .. (n + k) /\ p[i] = a[i]
    BY <1>2, <1>3
  <1>6. \A i \in 1 .. k : n + i \in 1 .. (n + k) /\ p[n + i] = b[i]
    <2> SUFFICES ASSUME NEW i \in 1 .. k PROVE n + i \in 1 .. (n + k) /\ p[n + i] = b[i]
      OBVIOUS
    <2>1. PICK j \in 1 .. n + k : j = n + i
      BY <1>2
    <2>2. ~(j <= n) /\ j - n = i
      BY <1>2, <2>1
    <2> QED
      BY <1>3, <2>1, <2>2
  <1>7. \A i \in 1 .. (n + k) : i \in 1 .. n \/ (i - n \in 1 .. k /\ p[i] = b[i - n] /\ i > n)
    BY <1>2, <1>3
  <1>8. SubSeq(p, n + 1, n + k) = b
    <2>1. Len(p) = n + Len(b) /\ \A i \in 1 .. Len(b) : p[n + i] = b[i]
      BY <1>3, <1>6
    <2> QED
      BY <1>2, <1>3, <2>1, EndIs
  <1> QED
    BY <1>3, <1>4, <1>5, <1>6, <1>7, <1>8

LEMMA ConcatBlocks ==
    ASSUME NEW a \in Seq(MatchSet), NEW b \in Seq(MatchSet), NEW p, p = a \o b
    PROVE  BlocksOf(p) = BlocksOf(a) \cup BlocksOf(b)
  <1>1. PICK n, k : n = Len(a) /\ k = Len(b)
    OBVIOUS
  <1>2. /\ p \in Seq(MatchSet) /\ Len(p) = n + k
        /\ \A i \in 1 .. n : i \in 1 .. (n + k) /\ p[i] = a[i]
        /\ \A i \in 1 .. k : n + i \in 1 .. (n + k) /\ p[n + i] = b[i]
        /\ \A i \in 1 .. (n + k) : i \in 1 .. n \/ (i - n \in 1 .. k /\ p[i] = b[i - n] /\ i > n)
    BY <1>1, ConcatIs
  <1>3. ASSUME NEW x \in BlocksOf(p) PROVE x \in BlocksOf(a) \cup BlocksOf(b)
    <2>0. \E i \in 1 .. Len(p) : p[i].block = x
      <3>1. p \in Seq(MatchSet)
        BY <1>2
      <3> QED
        BY <3>1, MatchAt
    <2>1. PICK i \in 1 .. (n + k) : p[i].block = x
      BY <1>2, <2>0
    <2>2. CASE i \in 1 .. n
      BY <1>1, <1>2, <2>1, <2>2, MatchAt
    <2>3. CASE i - n \in 1 .. k /\ p[i] = b[i - n]
      <3>1. PICK j \in 1 .. k : j = i - n
        BY <2>3
      <3> QED
        BY <1>1, <2>1, <2>3, <3>1, MatchAt
    <2> QED
      BY <1>2, <2>2, <2>3
  <1>4. ASSUME NEW x \in BlocksOf(a) PROVE x \in BlocksOf(p)
    <2>1. PICK i \in 1 .. n : a[i].block = x
      BY <1>1, MatchAt
    <2>2. i \in 1 .. Len(p) /\ p[i].block = x
      BY <1>2, <2>1
    <2> QED
      BY <1>2, <2>2, MatchAt
  <1>5. ASSUME NEW x \in BlocksOf(b) PROVE x \in BlocksOf(p)
    <2>1. PICK i \in 1 .. k : b[i].block = x
      BY <1>1, MatchAt
    <2>2. PICK j \in 1 .. Len(p) : p[j].block = x
      BY <1>2, <2>1
    <2> QED
      BY <1>2, <2>2, MatchAt
  <1> QED
    BY <1>3, <1>4, <1>5

\* The array with the list at its end.
Joins(g, s, A, t, q) ==
    /\ Len(A) = g.offs + g.pathc /\ \A i \in 1 .. Len(A) : A[i].block = 0 <=> i <= g.offs
    /\ BlocksOf(A) \ {0} = BlocksOf(g.pathv) \ {0}
    /\ Len(t) = Len(s) /\ BlocksOf(t) = BlocksOf(s)
    /\ q.offs = g.offs /\ q.pathc = g.pathc + Len(s) /\ q.pathv = A \o t
Joined(s, h, t, q) ==
    /\ q.pathv \in Seq(MatchSet) /\ RightBlocks(q, <<>>, h)
    /\ SubSeq(q.pathv, Len(q.pathv) - Len(s) + 1, Len(q.pathv)) = t

LEMMA JoinedIs ==
    ASSUME NEW g \in GlSet, NEW s \in Seq(MatchSet), NEW h, RightBlocks(g, s, h),
           NEW A \in Seq(MatchSet), NEW t \in Seq(MatchSet), NEW q, Joins(g, s, A, t, q)
    PROVE  Joined(s, h, t, q)
  <1>1. PICK p, n, k, o, z : p = A \o t /\ n = Len(A) /\ k = Len(t) /\ o = g.offs /\ z = g.pathc
    OBVIOUS
  <1>2. n \in Nat /\ k \in Nat /\ o \in Nat /\ z \in Nat
    BY <1>1, LenProperties DEF GlSet
  <1>3. /\ p \in Seq(MatchSet) /\ Len(p) = n + k /\ DOMAIN p = 1 .. (n + k)
        /\ \A i \in 1 .. n : i \in 1 .. (n + k) /\ p[i] = A[i]
        /\ \A i \in 1 .. (n + k) : i \in 1 .. n \/ (i - n \in 1 .. k /\ p[i] = t[i - n] /\ i > n)
        /\ SubSeq(p, n + 1, n + k) = t
    BY <1>1, ConcatIs
  <1>4. n = o + z /\ k = Len(s) /\ q.offs = o /\ q.pathc = z + k /\ q.pathv = p
    BY <1>1 DEF Joins
  <1>a. \A i \in 1 .. n : A[i].block = 0 <=> i <= o
    BY <1>1 DEF Joins
  <1>b. BlocksOf(A) \ {0} = BlocksOf(g.pathv) \ {0} /\ BlocksOf(t) = BlocksOf(s)
    BY DEF Joins
  <1>5. (\A b \in BlocksOf(s) : b # 0) /\ h = BlocksOf(s) \cup (BlocksOf(g.pathv) \ {0})
    BY DEF RightBlocks, BlocksOf
  <1>6. BlocksOf(p) = BlocksOf(A) \cup BlocksOf(t)
    BY <1>1, ConcatBlocks
  <1>7. h = BlocksOf(<<>>) \cup (BlocksOf(p) \ {0})
    BY <1>b, <1>5, <1>6, NothingListed
  <1>8. \A i \in 1 .. (n + k) : p[i].block = 0 <=> i <= o
    <2> SUFFICES ASSUME NEW i \in 1 .. (n + k) PROVE p[i].block = 0 <=> i <= o
      OBVIOUS
    <2>1. CASE i \in 1 .. n
      BY <1>3, <1>a, <2>1
    <2>2. CASE i - n \in 1 .. k /\ p[i] = t[i - n] /\ i > n
      <3>1. PICK j \in 1 .. k : j = i - n
        BY <2>2
      <3>2. p[i].block # 0
        BY <1>1, <1>b, <1>5, <2>2, <3>1, MatchAt
      <3>3. ~(i <= o)
        BY <1>2, <1>4, <2>2
      <3> QED
        BY <3>2, <3>3
    <2> QED
      BY <1>3, <2>1, <2>2
  <1>9. RightBlocks(q, <<>>, h)
    <2>1. Len(p) = o + (z + k)
      BY <1>2, <1>3, <1>4
    <2>2. \A i \in DOMAIN p : p[i].block = 0 <=> i <= o
      BY <1>3, <1>8
    <2> QED
      BY <1>4, <1>7, <2>1, <2>2 DEF RightBlocks
  <1>10. (n + k) - k + 1 = n + 1
    BY <1>2
  <1> QED
    BY <1>3, <1>4, <1>9, <1>10 DEF Joined

LEMMA FillKeeps == GlobInv /\ Fill => GlobInv'
  <1> SUFFICES ASSUME GlobInv, Fill PROVE GlobInv'
    OBVIOUS
  <1>0. PICK b \in BOOLEAN : b = TRUE
    OBVIOUS
  <1>1. PICK o, old, pad, A, t :
            /\ o = (IF Has("DOOFFS") THEN gl.offs ELSE 0)
            /\ old = (IF Has("APPEND") THEN gl.pathv ELSE [i \in 1 .. o |-> Null])
            /\ pad = [i \in 1 .. ((o + gl.pathc) - Len(old)) |-> Unset]
            /\ A = old \o pad
            /\ t = (IF Has("NOSORT") THEN list ELSE Sorted(list))
    OBVIOUS
  <1>2. /\ globStep = "collect" /\ error # "NOSPACE" /\ list' = <<>>
        /\ gl' = [gl EXCEPT !.pathv = A \o t, !.pathc = @ + Len(list), !.array = b]
        /\ Return(IF error = "none" THEN "0" ELSE error) /\ UNCHANGED <<heap, globErrno, shortages>>
    BY <1>0, <1>1 DEF Fill
  <1>3. /\ gl \in GlSet /\ list \in Seq(MatchSet) /\ RightBlocks(gl, list, heap) /\ RightList(call, list)
        /\ Collecting(call, error, list) /\ before = gl.pathc /\ error \in {"none", "ABORTED"}
        /\ heap \subseteq Nat \ {0} /\ IsFiniteSet(heap) /\ globErrno \in GlobErrors /\ shortages \in 0 .. Shortages
        /\ FirstCall(call) => gl.pathv = <<>> /\ gl.pathc = 0
        /\ "DOOFFS" \notin call.flags => gl.offs = 0
    BY <1>2, CollectOf
  <1>4. o = gl.offs /\ gl.offs \in Nat /\ gl.pathc \in Nat
    BY <1>1, <1>3 DEF Has, GlSet
  <1>5. Extends(gl, o, old, pad, A)
    BY <1>1, <1>3 DEF Has, FirstCall, Extends
  <1>6. A \in Seq(MatchSet) /\ Len(A) = o + gl.pathc /\ (\A i \in 1 .. Len(A) : A[i].block = 0 <=> i <= o)
        /\ BlocksOf(A) \ {0} = BlocksOf(gl.pathv) \ {0}
    BY <1>3, <1>4, <1>5, ExtendedIs
  <1>7. Arranged(call, list, t)
    BY <1>1 DEF Has, Arranged
  <1>8. /\ t \in Seq(MatchSet) /\ Len(t) = Len(list) /\ RightList(call, t)
        /\ NamesOf(t) = NamesOf(list) /\ BlocksOf(t) = BlocksOf(list)
        /\ "NOSORT" \notin call.flags => \A i, j \in DOMAIN t : i < j => NameBefore(t[i].name, t[j].name)
    BY <1>3, <1>7, ArrangedIs
  <1>9. /\ gl'.offs = gl.offs /\ gl'.pathc = gl.pathc + Len(list) /\ gl'.pathv = A \o t
        /\ gl' = [offs |-> gl.offs, pathc |-> gl.pathc + Len(list), pathv |-> A \o t, array |-> b]
    BY <1>2, <1>3 DEF GlSet
  <1>10. Joins(gl, list, A, t, gl')
    BY <1>4, <1>6, <1>8, <1>9 DEF Joins
  <1>11. /\ gl'.pathv \in Seq(MatchSet) /\ RightBlocks(gl', <<>>, heap)
         /\ SubSeq(gl'.pathv, Len(gl'.pathv) - Len(list) + 1, Len(gl'.pathv)) = t
    <2>1. PICK q : q = gl'
      OBVIOUS
    <2>2. Joins(gl, list, A, t, q)
      BY <1>10, <2>1
    <2>3. Joined(list, heap, t, q)
      BY <1>3, <1>6, <1>8, <2>2, JoinedIs
    <2> QED
      BY <2>1, <2>3 DEF Joined
  <1>12. Len(list) \in Nat
    BY <1>3, LenProperties
  <1>13. New' = t
    <2>1. New' = SubSeq(gl'.pathv, Len(gl'.pathv) - (gl'.pathc - before') + 1, Len(gl'.pathv))
      BY DEF New
    <2>2. gl'.pathc - before' = Len(list)
      <3>1. before' = gl.pathc
        BY <1>2, <1>3 DEF Return
      <3> QED
        BY <1>4, <1>9, <1>12, <3>1
    <2> QED
      BY <1>11, <2>1, <2>2
  <1>14. gl' \in GlSet
    <2>1. gl.pathc + Len(list) \in Nat
      BY <1>4, <1>12
    <2>2. A \o t \in Seq(MatchSet)
      BY <1>9, <1>11
    <2> QED
      BY <1>4, <1>9, <2>1, <2>2 DEF GlSet
  <1>15. Ready(gl', list', heap', shortages')
    BY <1>2, <1>3, <1>11, <1>14 DEF Ready
  <1>16. PICK r : r = IF error = "none" THEN "0" ELSE error
    OBVIOUS
  <1>17. r \in {"0", "ABORTED"} /\ Return(r)
    BY <1>2, <1>3, <1>16
  <1>18. GlobAnswered(call, r, t)
    <2>1. (r = "0" => Gives(call, list)) /\ (r = "ABORTED" => Stops(call, list))
      BY <1>3, <1>16 DEF Collecting
    <2>2. (r = "0" => Gives(call, t)) /\ (r = "ABORTED" => Stops(call, t))
      BY <1>8, <2>1 DEF Gives, Stops
    <2> QED
      BY <1>8, <1>17, <2>2 DEF GlobAnswered
  <1>19. gl.pathc <= gl'.pathc
    BY <1>4, <1>9, <1>12
  <1> QED
    BY <1>2, <1>3, <1>9, <1>13, <1>15, <1>17, <1>18, <1>19, ReturnStep

(***************************************************************************)
(* The caller.                                                             *)
(***************************************************************************)

LEMMA LaterCalls ==
    ASSUME NEW cs, LegalCalls(cs), cs # <<>>
    PROVE  /\ LegalCalls(Tail(cs))
           /\ Tail(cs) # <<>> => "APPEND" \in Tail(cs)[1].flags /\ ("DOOFFS" \in Tail(cs)[1].flags <=> "DOOFFS" \in cs[1].flags)
  <1>1. PICK t, n, k : t = Tail(cs) /\ n = Len(cs) /\ k = Len(t)
    OBVIOUS
  <1>2. cs \in Seq(CallSet) /\ DOMAIN cs = 1 .. n /\ n \in Nat
    BY <1>1, LenProperties DEF LegalCalls
  <1>3. t \in Seq(CallSet) /\ k = n - 1 /\ \A i \in 1 .. k : t[i] = cs[i + 1]
    BY <1>1, <1>2, HeadTailProperties
  <1>4. DOMAIN t = 1 .. k /\ k \in Nat
    BY <1>1, <1>3, LenProperties
  <1>5. \A i \in 1 .. k : i + 1 \in DOMAIN cs /\ t[i] = cs[i + 1] /\ i + 1 > 1
    BY <1>2, <1>3
  <1>6. \A i \in 1 .. k : Legal(t[i]) /\ "APPEND" \in t[i].flags
    BY <1>5 DEF LegalCalls
  <1>7. 1 \in DOMAIN cs
    BY <1>2, EmptySeq
  <1>8. \A i \in 1 .. k : "DOOFFS" \in t[i].flags <=> "DOOFFS" \in cs[1].flags
    BY <1>5, <1>7 DEF LegalCalls
  <1>9. LegalCalls(t)
    BY <1>3, <1>4, <1>6, <1>8 DEF LegalCalls
  <1>10. t # <<>> => 1 \in 1 .. k
    BY <1>1, <1>3, <1>4, EmptySeq
  <1> QED
    BY <1>1, <1>6, <1>8, <1>9, <1>10

LEMMA CallerGoesOnKeeps == GlobInv /\ CallerGoesOn => GlobInv'
  <1> SUFFICES ASSUME GlobInv, CallerGoesOn PROVE GlobInv'
    OBVIOUS
  <1>1. /\ globStep = "ready" /\ result # "none" /\ todo # <<>> /\ todo' = Tail(todo) /\ result' = "none"
        /\ UNCHANGED <<globStep, frames, list, heap, gl, globErrno, error, shortages, before>>
    BY DEF CallerGoesOn
  <1>2. LegalCalls(todo')
    BY <1>1, LaterCalls DEF GlobInv, GlobTypes
  <1>3. todo' # <<>> => ~FirstCall(call') /\ ("DOOFFS" \in call'.flags <=> "DOOFFS" \in call.flags)
    BY <1>1, LaterCalls DEF GlobInv, GlobTypes, FirstCall, call
  <1>4. GlobTypes'
    BY <1>1, <1>2 DEF GlobInv, GlobTypes
  <1>5. GlobBlocks'
    BY <1>1, <1>3 DEF GlobInv, GlobBlocks
  <1>6. GlobReturned'
    BY <1>1 DEF GlobReturned
  <1> QED
    BY <1>1, <1>4, <1>5, <1>6 DEF GlobInv

\* What globfree frees is all that is allocated.
LEMMA AllFreed ==
    ASSUME NEW g \in GlSet, NEW h, RightBlocks(g, <<>>, h)
    PROVE  h \ {g.pathv[g.offs + i].block : i \in 1 .. g.pathc} = {}
  <1> SUFFICES ASSUME NEW b \in h PROVE \E i \in 1 .. g.pathc : g.pathv[g.offs + i].block = b
    OBVIOUS
  <1>1. PICK p, o, z : p = g.pathv /\ o = g.offs /\ z = g.pathc
    OBVIOUS
  <1>2. p \in Seq(MatchSet) /\ o \in Nat /\ z \in Nat
    BY <1>1 DEF GlSet
  <1>3. b \in BlocksOf(p) /\ b # 0
    BY <1>1, NothingListed DEF RightBlocks
  <1>4. PICK j \in 1 .. Len(p) : p[j].block = b
    BY <1>2, <1>3, MatchAt
  <1>5. Len(p) \in Nat /\ DOMAIN p = 1 .. Len(p)
    BY <1>2, LenProperties
  <1>6. ~(j <= o) /\ (p = <<>> \/ Len(p) = o + z)
    BY <1>1, <1>3, <1>4, <1>5 DEF RightBlocks
  <1>7. p # <<>>
    BY <1>4, <1>5, EmptySeq
  <1>8. PICK l \in Nat : l = Len(p) /\ l = o + z
    BY <1>5, <1>6, <1>7
  <1>9. PICK i \in 1 .. z : o + i = j
    <2>1. j \in 1 .. l /\ j > o
      BY <1>2, <1>6, <1>8
    <2>2. j - o \in 1 .. z /\ o + (j - o) = j
      BY <1>2, <1>8, <2>1
    <2> QED
      BY <2>2
  <1> QED
    BY <1>1, <1>4, <1>9

LEMMA GlobFreeKeeps == GlobInv /\ GlobFree => GlobInv'
  <1> SUFFICES ASSUME GlobInv, GlobFree PROVE GlobInv'
    OBVIOUS
  <1>0. PICK b \in BOOLEAN : b = FALSE
    OBVIOUS
  <1>1. /\ globStep = "ready" /\ todo = <<>> /\ globStep' = "over"
        /\ heap' = heap \ {gl.pathv[gl.offs + i].block : i \in 1 .. gl.pathc}
        /\ gl' = [gl EXCEPT !.pathc = 0, !.pathv = <<>>, !.array = b]
        /\ UNCHANGED <<todo, frames, list, globErrno, error, shortages, result, before>>
    BY <1>0 DEF GlobFree
  <1>2. list = <<>> /\ gl \in GlSet /\ RightBlocks(gl, list, heap)
    BY <1>1 DEF GlobInv, GlobTypes, GlobBlocks, GlSet
  <1>3. heap' = {}
    BY <1>1, <1>2, AllFreed
  <1>4. gl' = [offs |-> gl.offs, pathc |-> 0, pathv |-> <<>>, array |-> b] /\ gl.offs \in Nat
    BY <1>1, <1>2 DEF GlSet
  <1>5. gl' \in GlSet
    <2>1. <<>> \in Seq(MatchSet)
      BY EmptySeq
    <2> QED
      BY <1>4, <2>1 DEF GlSet
  <1>6. RightBlocks(gl', <<>>, {})
    BY <1>4, NothingListed DEF RightBlocks
  <1>7. GlobTypes'
    BY <1>1, <1>3, <1>5, FS_EmptySet DEF GlobInv, GlobTypes, GlSet
  <1>8. call' = call
    BY <1>1 DEF call
  <1>9. GlobBlocks'
    BY <1>1, <1>2, <1>3, <1>4, <1>6, <1>8 DEF GlobInv, GlobBlocks
  <1>10. GlobReturned'
    BY <1>1 DEF GlobReturned
  <1> QED
    BY <1>1, <1>7, <1>9, <1>10 DEF GlobInv

\* A call begins: nothing is found, and everything is pending in the first directory.
LEMMA SearchStarts ==
    ASSUME NEW c, Legal(c), c.pattern # <<>>, NEW fs, fs = <<Frame(<<>>, 1)>>
    PROVE  Globbing(c, fs, <<>>)
  <1>0. PICK b \in BOOLEAN : b = FALSE
    OBVIOUS
  <1>1. PICK f : f = [path |-> <<>>, at |-> 1, opened |-> b, left |-> <<>>, error |-> "none"]
    OBVIOUS
  <1>2. fs = <<f>>
    BY <1>0, <1>1 DEF Frame
  <1>3. f.path = <<>> /\ f.at = 1 /\ f.opened = FALSE
    BY <1>0, <1>1
  <1>4. <<>> \in Seq(PathNames(c)) /\ <<>> \in Seq(DirEntries(c)) /\ "none" \in GlobErrors
    BY EmptySeq DEF GlobErrors
  <1>5. f \in FrameSet(c)
    BY <1>1, <1>4 DEF FrameSet
  <1>6. Len(c.pattern) \in Nat /\ 1 <= Len(c.pattern) /\ 1 \in 1 .. Len(c.pattern)
    BY EmptySeq, LenProperties DEF Legal
  <1>7. fs \in Seq(FrameSet(c)) /\ Len(fs) = 1 /\ DOMAIN fs = {1} /\ fs[1] = f
    BY <1>2, <1>5
  <1>8. RightFrame(c, f, 1)
    <2>1. Len(f.path) = 1 - 1 /\ DOMAIN f.path = {}
      BY <1>3, EmptySeq
    <2> QED
      BY <1>3, <2>1 DEF RightFrame, Follows
  <1>9. RightFrames(c, fs)
    BY <1>6, <1>7, <1>8 DEF RightFrames
  <1>10. Opening(c, fs)
    BY <1>7, <1>9, EmptySeq DEF Opening
  <1>11. ASSUME NEW x \in Matches(c) PROVE Pending(x, f)
    <2>1. f.path \in Seq(PathNames(c)) /\ Agrees(x, f.path)
      <3>1. 1 .. Len(f.path) = {}
        BY <1>3, EmptySeq
      <3> QED
        BY <1>3, <1>4, <3>1 DEF Agrees
    <2>2. Pending(x, f) <=> /\ Agrees(x, f.path)
                            /\ f.opened => \E k \in DOMAIN f.left : f.left[k].name = x[1]
      BY <1>6, <1>8, <2>1, PendingIs
    <2> QED
      BY <1>3, <2>1, <2>2
  <1>12. Done(c, fs) = {}
    BY <1>7, <1>11 DEF Done
  <1> QED
    BY <1>10, <1>12, NothingListed DEF Globbing

\* The glob_t as a call finds it, and as it is when the search starts.
Started(c, g) ==
    /\ g \in GlSet /\ RightBlocks(g, <<>>, heap) /\ (FirstCall(c) => g.pathv = <<>> /\ g.pathc = 0)
    /\ "DOOFFS" \notin c.flags => g.offs = 0

LEMMA StartIs ==
    ASSUME GlobInv, Start
    PROVE  /\ GlobTypes /\ GlobBlocks /\ list = <<>> /\ Legal(call) /\ call' = call /\ Started(call, gl')
           /\ globStep = "ready" /\ todo # <<>> /\ result = "none" /\ error' = "none" /\ before' = gl'.pathc
           /\ UNCHANGED <<todo, list, heap, globErrno, shortages>>
  <1>0. PICK b \in BOOLEAN : b = FALSE
    OBVIOUS
  <1>1. /\ globStep = "ready" /\ todo # <<>> /\ result = "none" /\ error' = "none"
        /\ gl' = IF Has("APPEND") THEN gl
                 ELSE [offs |-> IF Has("DOOFFS") THEN gl.offs ELSE 0, pathc |-> 0, pathv |-> <<>>, array |-> b]
        /\ before' = gl'.pathc
        /\ UNCHANGED <<todo, list, heap, globErrno, shortages>>
    BY <1>0 DEF Start
  <1>2. GlobTypes /\ GlobBlocks /\ gl \in GlSet /\ list = <<>> /\ RightBlocks(gl, <<>>, heap)
    BY <1>1 DEF GlobInv, GlobTypes, GlobBlocks, GlSet
  <1>3. Legal(call) /\ call' = call
    BY <1>1, <1>2, CallIs DEF call
  <1>4. gl' \in GlSet /\ RightBlocks(gl', <<>>, heap) /\ (FirstCall(call) => gl'.pathv = <<>> /\ gl'.pathc = 0)
        /\ ("DOOFFS" \notin call.flags => gl'.offs = 0)
    <2>1. CASE Has("APPEND")
      BY <1>1, <1>2, <2>1 DEF Has, FirstCall, GlobBlocks
    <2>2. CASE ~Has("APPEND")
      <3>1. PICK o : o = IF Has("DOOFFS") THEN gl.offs ELSE 0
        OBVIOUS
      <3>2. gl' = [offs |-> o, pathc |-> 0, pathv |-> <<>>, array |-> b]
        BY <1>1, <2>2, <3>1
      <3>3. o \in Nat /\ ("DOOFFS" \notin call.flags => o = 0)
        BY <1>2, <3>1 DEF GlSet, Has
      <3>4. <<>> \in Seq(MatchSet)
        BY EmptySeq
      <3>5. gl' \in GlSet
        BY <3>2, <3>3, <3>4 DEF GlSet
      <3>6. gl.pathv = <<>>
        BY <1>1, <1>2, <2>2 DEF Has, FirstCall, GlobBlocks
      <3>7. heap = BlocksOf(<<>>) \cup (BlocksOf(<<>>) \ {0})
        BY <1>2, <3>6 DEF RightBlocks
      <3>8. RightBlocks(gl', <<>>, heap)
        BY <3>2, <3>7 DEF RightBlocks
      <3> QED
        BY <3>2, <3>3, <3>5, <3>8
    <2> QED
      BY <2>1, <2>2
  <1> QED
    BY <1>1, <1>2, <1>3, <1>4 DEF Started

LEMMA TooLongKeeps == GlobInv /\ TooLong => GlobInv'
  <1> SUFFICES ASSUME GlobInv, TooLong PROVE GlobInv'
    OBVIOUS
  <1>1. Start /\ call.long /\ result' = "NOSPACE" /\ UNCHANGED <<globStep, frames>>
    BY DEF TooLong
  <1>2. /\ GlobTypes /\ GlobBlocks /\ list = <<>> /\ call' = call /\ Started(call, gl')
        /\ globStep = "ready" /\ todo # <<>> /\ error' = "none" /\ before' = gl'.pathc
        /\ UNCHANGED <<todo, list, heap, globErrno, shortages>>
    BY <1>1, StartIs
  <1>3. gl' \in GlSet /\ RightBlocks(gl', <<>>, heap) /\ ("DOOFFS" \notin call.flags => gl'.offs = 0)
    BY <1>2 DEF Started
  <1>4. GlobTypes'
    BY <1>1, <1>2, <1>3 DEF GlobTypes, GlSet
  <1>5. GlobBlocks'
    BY <1>1, <1>2, <1>3 DEF GlobBlocks
  <1>6. New' = <<>>
    BY <1>2, <1>3, NoneNew
  <1>7. GlobAnswered(call', result', New')
    BY <1>1, <1>6, ReturnedNone
  <1>8. before' <= gl'.pathc
    BY <1>2, <1>3 DEF GlSet
  <1> QED
    BY <1>1, <1>2, <1>4, <1>5, <1>7, <1>8 DEF GlobInv, GlobReturned

LEMMA GlobCallKeeps == GlobInv /\ GlobCall => GlobInv'
  <1> SUFFICES ASSUME GlobInv, GlobCall PROVE GlobInv'
    OBVIOUS
  <1>1. /\ Start /\ UNCHANGED result
        /\ frames' = IF call.pattern = <<>> THEN <<>> ELSE <<Frame(<<>>, 1)>>
        /\ globStep' = IF call.pattern = <<>> THEN "collect" ELSE "match"
    BY DEF GlobCall
  <1>2. /\ GlobTypes /\ GlobBlocks /\ list = <<>> /\ Legal(call) /\ call' = call /\ Started(call, gl')
        /\ globStep = "ready" /\ todo # <<>> /\ result = "none" /\ error' = "none" /\ before' = gl'.pathc
        /\ UNCHANGED <<todo, list, heap, globErrno, shortages>>
    BY <1>1, StartIs
  <1>3. gl' \in GlSet /\ RightBlocks(gl', <<>>, heap) /\ (FirstCall(call) => gl'.pathv = <<>> /\ gl'.pathc = 0)
        /\ ("DOOFFS" \notin call.flags => gl'.offs = 0)
    BY <1>2 DEF Started
  <1>4. GlobTypes'
    BY <1>1, <1>2, <1>3 DEF GlobTypes, GlSet
  <1>5. GlobBlocks'
    <2>1. globStep' \in {"match", "collect"}
      BY <1>1
    <2>2. FirstCall(call') => gl'.pathv = <<>> /\ gl'.pathc = 0
      BY <1>2, <1>3
    <2>3. "DOOFFS" \notin call'.flags => gl'.offs = 0
      BY <1>2, <1>3
    <2> QED
      BY <1>1, <1>2, <1>3, <2>1, <2>2, <2>3 DEF GlobBlocks
  <1>6. GlobReturned'
    BY <1>1, <1>2 DEF GlobReturned
  <1>7. globStep' = "match" => error' = "none" /\ Globbing(call', frames', list')
    <2>1. globStep' = "match" => call.pattern # <<>>
      BY <1>1
    <2> QED
      BY <1>1, <1>2, <2>1, SearchStarts
  <1>8. globStep' = "collect" => Collecting(call', error', list')
    <2> SUFFICES ASSUME globStep' = "collect" PROVE Collecting(call', error', list')
      OBVIOUS
    <2>1. call.pattern = <<>>
      BY <1>1
    <2>2. Matches(call) = {}
      BY <2>1 DEF Matches
    <2> QED
      BY <1>1, <1>2, <2>2, NothingListed DEF Collecting, Gives
  <1> QED
    BY <1>4, <1>5, <1>6, <1>7, <1>8 DEF GlobInv

LEMMA LegalStart ==
    ASSUME NEW cs \in GlobCalls
    PROVE  LegalCalls(cs) /\ (cs # <<>> => FirstCall(cs[1]))
  <1>1. /\ cs \in Seq(ToSet(cs))
        /\ \A i \in DOMAIN cs : ("APPEND" \in cs[i].flags <=> i > 1) /\ ("DOOFFS" \in cs[i].flags <=> "DOOFFS" \in cs[1].flags)
    BY GlobAssumption
  <1>2. \A i \in DOMAIN cs : Legal(cs[i])
    BY GlobAssumption DEF Legal
  <1>3. cs \in Seq(CallSet)
    <2>1. ToSet(cs) \subseteq CallSet
      BY DEF CallSet
    <2> QED
      BY <1>1, <2>1, SeqMonotonic
  <1>4. LegalCalls(cs)
    BY <1>1, <1>2, <1>3 DEF LegalCalls
  <1>5. cs # <<>> => 1 \in DOMAIN cs
    BY <1>3, LenProperties, EmptySeq
  <1>6. cs # <<>> => FirstCall(cs[1])
    BY <1>1, <1>5 DEF FirstCall
  <1> QED
    BY <1>4, <1>6

LEMMA GlobStarts == GlobInit => GlobInv
  <1> SUFFICES ASSUME GlobInit PROVE GlobInv
    OBVIOUS
  <1>0. PICK b \in BOOLEAN : b = FALSE
    OBVIOUS
  <1>1. PICK offs \in Offsets : gl = [offs |-> offs, pathc |-> 0, pathv |-> <<>>, array |-> b]
    BY <1>0 DEF GlobInit
  <1>2. /\ globStep = "ready" /\ todo \in GlobCalls /\ list = <<>> /\ heap = {} /\ globErrno \in Errnos
        /\ error = "none" /\ shortages = Shortages /\ result = "none" /\ before = 0
    BY DEF GlobInit
  <1>3. LegalCalls(todo) /\ (todo # <<>> => FirstCall(call))
    BY <1>2, LegalStart DEF call
  <1>4. offs \in Nat /\ Shortages \in Nat /\ <<>> \in Seq(MatchSet)
    BY GlobAssumption, EmptySeq
  <1>5. gl \in GlSet
    BY <1>1, <1>4 DEF GlSet
  <1>6. GlobTypes
    BY <1>2, <1>3, <1>4, <1>5, FS_EmptySet DEF GlobTypes, GlSet, GlobErrors
  <1>7. RightBlocks(gl, <<>>, {})
    BY <1>1, NothingListed DEF RightBlocks
  <1>8. GlobBlocks
    BY <1>1, <1>2, <1>3, <1>7 DEF GlobBlocks
  <1> QED
    BY <1>2, <1>6, <1>8 DEF GlobInv, GlobReturned

\* Between two states of a glob the invariant holds also if nothing happens.
LEMMA GlobStays == GlobInv /\ UNCHANGED globVars => GlobInv'
  <1> SUFFICES ASSUME GlobInv, UNCHANGED globVars PROVE GlobInv'
    OBVIOUS
  <1>1. /\ globStep' = globStep /\ todo' = todo /\ frames' = frames /\ list' = list /\ heap' = heap /\ gl' = gl
        /\ globErrno' = globErrno /\ error' = error /\ shortages' = shortages /\ result' = result /\ before' = before
    BY DEF globVars
  <1>2. call' = call /\ New' = New
    BY <1>1 DEF call, New
  <1>3. GlobTypes' /\ GlobBlocks' /\ GlobReturned'
    BY <1>1, <1>2 DEF GlobInv, GlobTypes, GlobBlocks, GlobReturned
  <1> QED
    BY <1>1, <1>2, <1>3 DEF GlobInv

LEMMA GlobStepKeeps == GlobInv /\ [GlobNext]_globVars => GlobInv'
  BY TooLongKeeps, GlobCallKeeps, OpenFailsKeeps, OpenedKeeps, SlashMatchesKeeps, SkipEntryKeeps, DescendKeeps, AppendEntryKeeps,
     ReadEndsKeeps, NoSpaceKeeps, NoMatchKeeps, FillKeeps, NoArrayKeeps, CallerGoesOnKeeps, GlobFreeKeeps, GlobStays
  DEF GlobNext

\* Whatever the trees, the patterns, the flags and the allocations that fail: while glob
\* searches, it has found what the pattern matches and what does not wait in a directory it
\* reads, each path once; what it returned is as asked; and the blocks allocated are those of
\* the list and of the array.
THEOREM GlobInvariant == GlobSpec => []GlobInv
  <1>1. GlobInv /\ [GlobNext]_globVars => GlobInv'
    BY GlobStepKeeps
  <1> QED
    BY <1>1, GlobStarts, PTL DEF GlobSpec

\* A list without repetitions has as many names as entries.
LEMMA NamesCounted ==
    ASSUME NEW s \in Seq(MatchSet), Apart(s)
    PROVE  Cardinality(NamesOf(s)) = Len(s)
  <1> DEFINE n == Len(s)
             f == [i \in 1 .. n |-> s[i].name]
  <1>1. n \in Nat /\ DOMAIN s = 1 .. n
    BY LenProperties
  <1>2. \A i \in 1 .. n : f[i] = s[i].name
    OBVIOUS
  <1>3. f \in [1 .. n -> NamesOf(s)]
    BY MatchAt
  <1>4. (\A i, j \in 1 .. n : f[i] = f[j] => i = j) /\ \A x \in NamesOf(s) : \E i \in 1 .. n : f[i] = x
    <2>1. \A i, j \in 1 .. n : f[i] = f[j] => i = j
      BY <1>1, <1>2 DEF Apart
    <2>2. \A x \in NamesOf(s) : \E i \in 1 .. n : f[i] = x
      BY <1>2, MatchAt
    <2> QED
      BY <2>1, <2>2
  <1>5. f \in Injection(1 .. n, NamesOf(s)) /\ f \in Surjection(1 .. n, NamesOf(s))
    <2> HIDE DEF f
    <2> QED
      BY <1>3, <1>4 DEF Injection, IsInjective, Surjection
  <1>6. IsFiniteSet(1 .. n) /\ Cardinality(1 .. n) = n
    <2> HIDE DEF n
    <2>1. 1 \in Int /\ n \in Int
      BY <1>1
    <2>2. IsFiniteSet(1 .. n) /\ Cardinality(1 .. n) = IF 1 > n THEN 0 ELSE n - 1 + 1
      BY <2>1, FS_Interval
    <2> QED
      BY <1>1, <2>2
  <1> HIDE DEF f, n
  <1>7. Cardinality(NamesOf(s)) = Cardinality(1 .. n)
    BY <1>5, <1>6, FS_Surjection
  <1> QED
    BY <1>6, <1>7 DEF n

LEMMA FoundIs ==
    ASSUME GlobInv, before <= gl.pathc
    PROVE  New \in Seq(MatchSet)
  <1>1. PICK p, m, n : p = gl.pathv /\ n = Len(p) /\ m = Len(gl.pathv) - (gl.pathc - before) + 1
    OBVIOUS
  <1>2. p \in Seq(MatchSet) /\ gl.pathc \in Nat /\ gl.offs \in Nat /\ before \in Nat
    BY <1>1 DEF GlobInv, GlobTypes
  <1>3. n \in Nat /\ (p = <<>> => n = 0)
    BY <1>1, <1>2, LenProperties, EmptySeq
  <1>4. (p = <<>> /\ gl.pathc = 0) \/ n = gl.offs + gl.pathc
    BY <1>1 DEF GlobInv, GlobBlocks, RightBlocks
  <1>5. PICK z, o \in Nat : z = gl.pathc /\ o = gl.offs
    BY <1>2
  <1>6. m \in Int /\ 1 <= m
    <2>1. PICK k \in Nat : k = before
      BY <1>2
    <2>2. m = n - (z - k) + 1 /\ k <= z
      BY <1>1, <1>5, <2>1
    <2>3. (n = 0 /\ z = 0) \/ n = o + z
      BY <1>3, <1>4, <1>5
    <2> QED
      BY <1>3, <2>2, <2>3
  <1>7. \A i \in m .. n : p[i] \in MatchSet
    <2>1. \A i \in m .. n : i \in 1 .. Len(p)
      BY <1>1, <1>3, <1>6
    <2> QED
      BY <1>2, <2>1, ElementOfSeq
  <1>8. SubSeq(p, m, n) \in Seq(MatchSet)
    BY <1>3, <1>6, <1>7, SubSeqProperties
  <1> QED
    BY <1>1, <1>8 DEF New

LEMMA RightWhenReturned ==
    ASSUME GlobInv, globStep = "ready", result # "none", todo # <<>>
    PROVE  /\ result = "0" => (Found = Matching \/ (Has("NOCHECK") /\ Matching = {} /\ Found = {<<Dot>>}))
           /\ result = "NOMATCH" /\ Tolerant => Matching = {}
           /\ result = "ABORTED" => ~Tolerant /\ (Found \subseteq Matching \/ Has("NOCHECK"))
           /\ result = "NOSPACE" => (shortages < Shortages \/ call.long) /\ New = <<>>
           /\ Cardinality(Found) = Len(New)
           /\ ~Has("NOSORT") => \A i, j \in DOMAIN New : i < j => NameBefore(New[i].name, New[j].name)
           /\ \A i \in DOMAIN New : (Has("MARK") /\ Exists(call.tree, New[i].name) /\ New[i].name \notin {<<>>, <<Dot>>})
                                       => (New[i].mark = 1 <=> IsDir(call.tree, New[i].name))
  <1>1. PICK s : s = New
    OBVIOUS
  <1>2. GlobAnswered(call, result, s) /\ s \in Seq(MatchSet)
    <2>1. before <= gl.pathc /\ GlobAnswered(call, result, New)
      BY DEF GlobInv, GlobReturned
    <2> QED
      BY <1>1, <2>1, FoundIs
  <1>3. Found = NamesOf(s) /\ Matching = Matches(call)
    BY <1>1 DEF Found, NamesOf, Matching
  <1>4. result = "NOSPACE" => shortages < Shortages \/ call.long
    BY DEF GlobInv, GlobBlocks
  <1>5. RightList(call, s)
    BY <1>2 DEF GlobAnswered
  <1>6. Cardinality(NamesOf(s)) = Len(s)
    BY <1>2, <1>5, NamesCounted DEF RightList
  <1>7. result = "0" => (Found = Matching \/ (Has("NOCHECK") /\ Matching = {} /\ Found = {<<Dot>>}))
    BY <1>2, <1>3 DEF GlobAnswered, Gives, Has
  <1>8. result = "NOMATCH" /\ Tolerant => Matching = {}
    BY <1>2, <1>3 DEF GlobAnswered, Tolerant, Has
  <1>9. result = "ABORTED" => ~Tolerant /\ (Found \subseteq Matching \/ Has("NOCHECK"))
    BY <1>2, <1>3 DEF GlobAnswered, Stops, Tolerant, Has
  <1>10. ~Has("NOSORT") => \A i, j \in DOMAIN s : i < j => NameBefore(s[i].name, s[j].name)
    BY <1>2 DEF GlobAnswered, Has
  <1>11. \A i \in DOMAIN s : (Has("MARK") /\ Exists(call.tree, s[i].name) /\ s[i].name \notin {<<>>, <<Dot>>})
                                => (s[i].mark = 1 <=> IsDir(call.tree, s[i].name))
    BY <1>5 DEF RightList, RightMarks, RightMark, Has
  <1>12. result = "NOSPACE" => s = <<>>
    BY <1>2 DEF GlobAnswered
  <1> QED
    BY <1>1, <1>3, <1>4, <1>6, <1>7, <1>8, <1>9, <1>10, <1>11, <1>12

LEMMA RightAtRest ==
    ASSUME GlobInv, globStep \in {"ready", "over"}
    PROVE  /\ heap = {gl.pathv[i].block : i \in DOMAIN gl.pathv} \ {0}
           /\ \A i \in 1 .. gl.pathc : gl.pathv[gl.offs + i].block # 0
           /\ globStep = "over" => heap = {}
  <1>1. RightBlocks(gl, <<>>, heap) /\ gl \in GlSet /\ (globStep = "over" => gl.pathv = <<>>)
    BY DEF GlobInv, GlobBlocks, GlobTypes, GlSet
  <1>2. PICK p, o, z : p = gl.pathv /\ o = gl.offs /\ z = gl.pathc
    OBVIOUS
  <1>3. p \in Seq(MatchSet) /\ o \in Nat /\ z \in Nat
    BY <1>1, <1>2 DEF GlSet
  <1>4. heap = BlocksOf(p) \ {0}
    BY <1>1, <1>2, NothingListed DEF RightBlocks
  <1>5. ((p = <<>> /\ z = 0) \/ Len(p) = o + z) /\ (\A i \in DOMAIN p : p[i].block = 0 <=> i <= o) /\ DOMAIN p = 1 .. Len(p)
    BY <1>1, <1>2, <1>3, LenProperties DEF RightBlocks
  <1>6. ASSUME NEW i \in 1 .. z PROVE p[o + i].block # 0
    <2>1. Len(p) = o + z
      BY <1>5
    <2>2. PICK j \in 1 .. Len(p) : j = o + i
      BY <1>3, <2>1
    <2>3. ~(j <= o)
      BY <1>3, <2>2
    <2> QED
      BY <1>5, <2>2, <2>3
  <1>7. globStep = "over" => heap = {}
    BY <1>1, <1>2, <1>4, NothingListed
  <1> QED
    BY <1>2, <1>4, <1>6, <1>7 DEF BlocksOf

\* For every tree, pattern, flags and shortage of memory: glob returns what the pattern matches
\* (glob, match_in_dir), each path once, sorted and marked as asked; it fails only for the
\* reasons it has; and globfree leaves no block that was allocated.
THEOREM GlobAlwaysRight == GlobSpec => []GlobRight
  <1>1. GlobInv => GlobRight
    <2> SUFFICES ASSUME GlobInv PROVE GlobRight
      OBVIOUS
    <2>1. CASE globStep = "ready" /\ result # "none" /\ todo # <<>>
      <3>1. globStep \in {"ready", "over"} /\ globStep # "over"
        BY <2>1
      <3> QED
        BY <2>1, <3>1, RightWhenReturned, RightAtRest DEF GlobRight
    <2>2. CASE ~(globStep = "ready" /\ result # "none" /\ todo # <<>>)
      <3>1. globStep = "over" => globStep \in {"ready", "over"}
        OBVIOUS
      <3> QED
        BY <2>2, <3>1, RightAtRest DEF GlobRight
    <2> QED
      BY <2>1, <2>2
  <1> QED
    BY <1>1, GlobInvariant, PTL

=============================================================================
