------------------------------- MODULE Memcpy -------------------------------
(***************************************************************************)
(* memcpy (memcpy/memcpy_x86_64.cpp, memcpy_aarch64.cpp): small sizes by   *)
(* two overlapping moves, medium ones by moves of 16 bytes from the start  *)
(* and one at the end, large ones by aligned blocks of 128 bytes.          *)
(* dst and src are counted from the pointers of the call, and a move puts  *)
(* the pairs of the offsets it stores to and loads from into moved.        *)
(***************************************************************************)
EXTENDS Integers

CONSTANTS
    Sizes,          \* the sizes asked for
    Alignments      \* the addresses of the destination, modulo 16

ASSUME MemcpyAssumption == Sizes \subseteq Nat /\ Alignments \subseteq 0 .. 15

VARIABLES
    label,          \* "call", "tail", "medium", "large" or "return"
    asked, align,   \* the size and the destination's address modulo 16
    dst, src, size,
    moved

memVars == <<label, asked, align, dst, src, size, moved>>

\* The pairs a move of n bytes makes.
Chunk(to, from, n) == {<<to + i, from + i>> : i \in 0 .. (n - 1)}

Idle(q, a) ==
    /\ label = "call"
    /\ asked = q /\ align = a
    /\ dst = 0 /\ src = 0 /\ size = q
    /\ moved = {}

MemInit == \E q \in Sizes, a \in Alignments : Idle(q, a)

Enter == label = "call" /\ label' = "tail" /\ UNCHANGED <<asked, align, dst, src, size, moved>>

Advance(n) == dst' = dst + n /\ src' = src + n /\ size' = size - n

\* Two moves of n bytes, the second one over the end of the first.
TwoMoves(n) == Chunk((dst + size) - n, (src + size) - n, n) \cup Chunk(dst, src, n)

Small ==
    /\ label = "tail" /\ size <= 16
    /\ \/ size >= 8 /\ moved' = moved \cup TwoMoves(8)
       \/ size >= 4 /\ size < 8 /\ moved' = moved \cup TwoMoves(4)
       \/ size >= 2 /\ size < 4 /\ moved' = moved \cup TwoMoves(2)
       \/ size < 2 /\ moved' = moved \cup Chunk(dst, src, size)
    /\ label' = "return"
    /\ UNCHANGED <<asked, align, dst, src, size>>

\* The last 16 bytes first.
Medium ==
    /\ label = "tail" /\ size > 16 /\ size <= 128
    /\ moved' = moved \cup Chunk((dst + size) - 16, (src + size) - 16, 16)
    /\ label' = "medium"
    /\ UNCHANGED <<asked, align, dst, src, size>>

MediumMove ==
    /\ label = "medium" /\ size > 16
    /\ moved' = moved \cup Chunk(dst, src, 16)
    /\ Advance(16)
    /\ UNCHANGED <<label, asked, align>>

MediumEnds ==
    /\ label = "medium" /\ size <= 16
    /\ label' = "return"
    /\ UNCHANGED <<asked, align, dst, src, size, moved>>

\* Mutant: the distance from the multiple of 16 before.
PaddingMutant == (align + dst) % 16

\* To the next multiple of 16, by one move of 16 bytes whose end is moved again.
Padding == (16 - ((align + dst) % 16)) % 16

Large ==
    /\ label = "tail" /\ size > 128
    /\ moved' = IF Padding > 0 THEN moved \cup Chunk(dst, src, 16) ELSE moved
    /\ Advance(Padding)
    /\ label' = "large"
    /\ UNCHANGED <<asked, align>>

\* Eight loads and eight aligned stores.
LargeMove ==
    /\ label = "large" /\ size >= 128
    /\ moved' = moved \cup Chunk(dst, src, 128)
    /\ Advance(128)
    /\ UNCHANGED <<label, asked, align>>

LargeEnds ==
    /\ label = "large" /\ size < 128
    /\ label' = "tail"
    /\ UNCHANGED <<asked, align, dst, src, size, moved>>

\* aarch64 makes the same moves, and none that must be aligned.
MemNext == Enter \/ Small \/ Medium \/ MediumMove \/ MediumEnds \/ Large \/ LargeMove \/ LargeEnds

MemSpec == MemInit /\ [][MemNext]_memVars

-----------------------------------------------------------------------------

\* Each byte asked for is moved to its own place, and at no time is a byte outside of the
\* two buffers loaded or stored, whatever the size and the address; the block moves store
\* to addresses that are multiples of 16, as movdqa demands.
Copied ==
    /\ moved \subseteq Chunk(0, 0, asked)
    /\ label = "return" => moved = Chunk(0, 0, asked)
    /\ label = "large" => (align + dst) % 16 = 0

=============================================================================
