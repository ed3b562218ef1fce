----------------------------- MODULE Collapsers -----------------------------
(***************************************************************************)
(* The parsers of tfg (tfg/stackcollapsers): each reads a file line by     *)
(* line and makes a list of stacks with their counts.  A line is what the  *)
(* parsers tell apart of it, after strip():                                *)
(*   blank                                                                 *)
(*   stack   frames joined by `;' and a count: two fields                  *)
(*   spaced  the same, with spaces in the frames: more than three fields   *)
(*   count   a number alone                                                *)
(*   frame   two or three fields, no count at the end                      *)
(*   header  more than three fields, no count at the end                   *)
(*   short   one field, no number                                          *)
(* and the name a parser takes from it: for dtrace the whole line, for     *)
(* perf the second field, or of more than three what precedes the first    *)
(* number (NoComm when that is nothing).                                   *)
(***************************************************************************)
EXTENDS Integers, SequencesExt

CONSTANT NoComm     \* the empty command name

VARIABLES
    format,     \* --type: "none", "dtrace", "perf" or "pyspy"
    input,      \* the lines of the file
    line,       \* the number of lines read
    stack, comm,
    result,     \* the list parse() will return
    failed      \* parse() has raised an exception

parseVars == <<format, input, line, stack, comm, result, failed>>

\* A name n + Offset is the name n with an address offset (`+0x42') at its end.
Offset == 10
Unnamed == 1        \* the empty name, which is below the others
TrimOffset(n) == n % Offset
Names == {n \in Nat : TrimOffset(n) # 0}
TrimAll(frames) == [i \in DOMAIN frames |-> TrimOffset(frames[i])]

Kinds == {"blank", "stack", "spaced", "count", "frame", "header", "short"}

IsLine(l) ==
    /\ l.kind \in Kinds
    /\ l.kind # "blank" => l.name \in Names
    /\ l.kind \in {"stack", "spaced"} => l.frames \in Seq(Names) \ {<<>>}
    /\ l.kind \in {"stack", "spaced", "count"} => l.count \in Nat

ParseInit(inputs) ==
    /\ \E i \in inputs : format = i.format /\ input = i.lines
    /\ line = 0
    /\ stack = <<>>
    /\ comm = NoComm
    /\ result = <<>>
    /\ failed = FALSE

Parsing == ~failed /\ line < Len(input)
This == input[line + 1]

Took(frames, n) == result' = Append(result, [frames |-> frames, count |-> n])
Raise == failed' = TRUE /\ UNCHANGED <<stack, comm, result>>

\* Lines that are in no parser's way, and the empty ones the first three skip.
SkipBlank ==
    /\ This.kind = "blank"
    /\ UNCHANGED <<stack, comm, result, failed>>

CollapsedStack ==
    /\ This.kind = "stack"
    /\ Took(TrimAll(This.frames), This.count)
    /\ UNCHANGED <<stack, comm, failed>>

\* There are not two fields, or the second is no number.
CollapsedError ==
    /\ This.kind \notin {"blank", "stack"}
    /\ Raise

CollapsedLine ==
    /\ format = "none"
    /\ SkipBlank \/ CollapsedStack \/ CollapsedError

\* What follows the last space is the count; a number alone counts for one empty name.
PySpyStack ==
    /\ This.kind \in {"stack", "spaced", "count"}
    /\ Took(IF This.kind = "count" THEN <<Unnamed>> ELSE This.frames, This.count)
    /\ UNCHANGED <<stack, comm, failed>>

PySpyError ==
    /\ This.kind \in {"frame", "header", "short"}
    /\ Raise

PySpyLine ==
    /\ format = "pyspy"
    /\ SkipBlank \/ PySpyStack \/ PySpyError

\* What is no number is a frame, whatever it looks like.
DtraceFrame ==
    /\ This.kind \notin {"blank", "count"}
    /\ stack' = Append(stack, TrimOffset(This.name))
    /\ UNCHANGED <<comm, result, failed>>

DtraceCount ==
    /\ This.kind = "count"
    /\ IF stack = <<>>
       THEN Raise
       ELSE /\ Took(Reverse(stack), This.count)
            /\ stack' = <<>>
            /\ UNCHANGED <<comm, failed>>

DtraceLine ==
    /\ format = "dtrace"
    /\ SkipBlank \/ DtraceFrame \/ DtraceCount

\* Mutant: the frames stay for the next sample.
PerfBlankMutant ==
    /\ This.kind = "blank"
    /\ IF comm # NoComm
       THEN /\ Took(Reverse(Append(stack, comm)), 1)
            /\ comm' = NoComm
            /\ UNCHANGED stack
       ELSE UNCHANGED <<stack, comm, result>>
    /\ UNCHANGED failed

\* Only the empty line after a sample takes it, and only when a header was seen.
PerfBlank ==
    /\ This.kind = "blank"
    /\ IF comm # NoComm
       THEN /\ Took(Reverse(Append(stack, comm)), 1)
            /\ stack' = <<>>
            /\ comm' = NoComm
       ELSE UNCHANGED <<stack, comm, result>>
    /\ UNCHANGED failed

PerfHeader ==
    /\ This.kind \in {"header", "spaced"}
    /\ IF This.name = NoComm
       THEN Raise
       ELSE comm' = This.name /\ UNCHANGED <<stack, result, failed>>

PerfFrame ==
    /\ This.kind \notin {"blank", "header", "spaced"}
    /\ IF This.kind \in {"short", "count"}
       THEN Raise
       ELSE stack' = Append(stack, TrimOffset(This.name)) /\ UNCHANGED <<comm, result, failed>>

PerfLine ==
    /\ format = "perf"
    /\ PerfBlank \/ PerfHeader \/ PerfFrame

ReadLine ==
    /\ Parsing
    /\ CollapsedLine \/ PySpyLine \/ DtraceLine \/ PerfLine
    /\ line' = line + 1
    /\ UNCHANGED <<format, input>>

-----------------------------------------------------------------------------

\* A perf file in which a header opens each sample, no other line has as many fields, and an
\* empty line follows each sample.  What perf writes is so only while no frame has spaces: one
\* of a C++ symbol with several words, or with "(deleted)" behind its file, has more than three
\* fields too, and is taken for a header (perfcollapser.py:40).
WellFormed ==
    format = "perf" =>
        \A i \in DOMAIN input :
            LET blankBefore == i = 1 \/ input[i - 1].kind = "blank"
            IN /\ input[i].kind = "header" <=> blankBefore /\ input[i].kind # "blank"
               /\ input[i].kind \notin {"stack", "spaced"}

\* The lines of a file at which a sample is complete, and those it is made of.
EndsSample(type, lines, i) ==
    LET kind == lines[i].kind
    IN CASE type = "dtrace" -> kind = "count"
         [] type = "perf" -> i > 1 /\ kind = "blank" /\ lines[i - 1].kind # "blank"
         [] OTHER -> kind # "blank"

LinesOf(type, lines, i) ==
    {j \in 1 .. (i - 1) : lines[j].kind # "blank" /\ \A k \in j .. (i - 1) : ~EndsSample(type, lines, k)}

\* The members of a set of lines from the first to the last, and the names at them.
Place(I, i) == Cardinality({j \in I : j <= i})
Nth(I, k) == CHOOSE i \in {j \in I : Place(I, j) = k} : TRUE
NamesAt(lines, I) == [k \in 1 .. Cardinality(I) |-> TrimOffset(lines[Nth(I, k)].name)]

SampleAt(type, lines, i) ==
    LET this == lines[i]
        mine == LinesOf(type, lines, i)
        header == CHOOSE h \in mine : lines[h].kind = "header"
    IN CASE type = "none" -> [frames |-> TrimAll(this.frames), count |-> this.count]
         [] type = "pyspy" ->
               [frames |-> IF this.kind = "count" THEN <<Unnamed>> ELSE this.frames,
                count |-> this.count]
         [] type = "dtrace" -> [frames |-> Reverse(NamesAt(lines, mine)), count |-> this.count]
         [] OTHER ->
               [frames |-> <<lines[header].name>> \o Reverse(NamesAt(lines, mine \ {header})), count |-> 1]

SamplesAt(type, lines, I) == [k \in 1 .. Cardinality(I) |-> SampleAt(type, lines, Nth(I, k))]

Sampled == {i \in 1 .. line : EndsSample(format, input, i)}

\* Of a file that is well-formed if it is perf's, the parser has taken exactly the samples
\* that are complete in what it has read, each with its own frames from the root to the top,
\* and no line leaks into the next sample; it raises only at a line it cannot take (the loops
\* of dtracecollapser.py:31, perfcollapser.py:31, pyspycollapser.py:8 and
\* stackcollapser.py:52).  A last sample without an empty line behind it is not complete.
ParsesSamples ==
    WellFormed =>
        IF failed
        THEN input[line].kind \in
                CASE format = "none" -> {"spaced", "count", "frame", "header", "short"}
                  [] format = "pyspy" -> {"frame", "header", "short"}
                  [] format = "dtrace" -> {"count"}
                  [] OTHER -> {"header", "short", "count"}
        ELSE result = SamplesAt(format, input, Sampled)

=============================================================================
