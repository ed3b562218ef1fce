------------------------------- MODULE MCTfg --------------------------------
(* Instances of Tfg for TLC: the files are lists of the lines below. *)
EXTENDS Tfg

Blank == [kind |-> "blank"]
Stack(frames, n) == [kind |-> "stack", frames |-> frames, count |-> n, name |-> 9]
Spaced(frames, n) == [kind |-> "spaced", frames |-> frames, count |-> n, name |-> 8]
Count(n) == [kind |-> "count", frames |-> <<>>, count |-> n, name |-> 7]
Frame(n) == [kind |-> "frame", name |-> n]
Header(n) == [kind |-> "header", name |-> n]
Short == [kind |-> "short", name |-> 6]

Nameless == 99

Job(type, lines, dump, colors) ==
    [format |-> type, lines |-> lines, dump |-> dump, palette |-> colors]

\* A sample of each tool, with an offset, a name of its own format, and a wrong line.
PerfLines == {Blank, Header(2), Frame(13), Frame(4), Short}
DtraceLines == {Blank, Frame(2), Frame(13), Count(1), Header(5)}
StackLines == {Blank, Stack(<<2, 13>>, 1), Stack(<<2>>, 2), Stack(<<2, 4>>, 1), Spaced(<<2, 3>>, 1)}

FilesOf(lines, size) == UNION {[1 .. n -> lines] : n \in 0 .. size}

DumpJobs ==
    {Job("perf", f, TRUE, "hot") : f \in FilesOf(PerfLines, 5)}
    \cup {Job("dtrace", f, TRUE, "hot") : f \in FilesOf(DtraceLines, 4)}
    \cup {Job(t, f, TRUE, "hot") : t \in {"none", "pyspy"}, f \in FilesOf(StackLines, 3)}
    \cup {Job("perf", <<Header(Nameless)>>, TRUE, "hot"), Job("pyspy", <<Count(2), Frame(4)>>, TRUE, "hot"),
          Job("perf", <<Header(2), Count(3)>>, TRUE, "hot")}

\* Trees with frames of every width, small ones among them, deeper than the window.
Few == <<Stack(<<2, 3>>, 4), Stack(<<2, 4, 3>>, 3), Stack(<<2, 5>>, 1), Stack(<<3>>, 1), Stack(<<4>>, 1)>>
Full == <<Stack(<<2, 3, 2>>, 6), Stack(<<4>>, 6), Stack(<<3>>, 1), Stack(<<5, 2>>, 1)>>
Many == <<Stack(<<2>>, 9), Stack(<<3, 3>>, 1), Stack(<<4>>, 1), Stack(<<5>>, 1), Stack(<<6, 2>>, 1), Stack(<<7>>, 1)>>
Deep == <<Stack(<<2, 3, 4, 5, 6>>, 2), Stack(<<2, 3>>, 1), Stack(<<2, 3, 4, 2>>, 1)>>
Zero == <<Stack(<<2>>, 3), Stack(<<3, 2>>, 0)>>

BrowseJobs ==
    {Job("none", f, FALSE, "hot") : f \in {Few, Full, Many, Deep, Zero, <<>>}}
    \cup {Job("none", Few, FALSE, "wakeup")}

MCJobs == DumpJobs \cup BrowseJobs

=============================================================================
