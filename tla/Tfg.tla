-------------------------------- MODULE Tfg ---------------------------------
(***************************************************************************)
(* tfg (tfg/main.py): a profile is parsed, its stacks are added to a call  *)
(* tree, and the tree is printed or shown by the browser.                  *)
(***************************************************************************)
EXTENDS Browser, Collapsers

CONSTANT Jobs       \* [format, lines, dump, palette], the command lines and their files

ASSUME JobsAssumption ==
    /\ NoComm \in Names
    /\ \A job \in Jobs : job.lines \in Seq(ToSet(job.lines)) /\ \A l \in ToSet(job.lines) : IsLine(l)

VARIABLES
    step,           \* "parse", "add", "dump", "browse" or "exit"
    added,          \* the number of stacks added
    dumping, palette,
    printed         \* the lines --dump has written

vars == <<parseVars, treeVars, browserVars, step, added, dumping, palette, printed>>

Init ==
    /\ \E job \in Jobs :
        /\ ParseInit({job})
        /\ dumping = job.dump
        /\ palette = job.palette
    /\ TreeInit
    /\ BrowserInit
    /\ step = "parse"
    /\ added = 0
    /\ printed = {}

Parse ==
    /\ step = "parse"
    /\ ReadLine
    /\ UNCHANGED <<treeVars, browserVars, step, added, dumping, palette, printed>>

\* The exception ends the program.
ParseFails ==
    /\ step = "parse" /\ failed
    /\ step' = "exit"
    /\ UNCHANGED <<parseVars, treeVars, browserVars, added, dumping, palette, printed>>

ParseEnds ==
    /\ step = "parse" /\ ~failed /\ line = Len(input)
    /\ step' = "add"
    /\ UNCHANGED <<parseVars, treeVars, browserVars, added, dumping, palette, printed>>

Add ==
    /\ step = "add" /\ rest = <<>> /\ added < Len(result)
    /\ AddStack(result[added + 1].frames, result[added + 1].count)
    /\ added' = added + 1
    /\ UNCHANGED <<parseVars, browserVars, step, dumping, palette, printed>>

Insert ==
    /\ step = "add"
    /\ InsertFrame
    /\ UNCHANGED <<parseVars, browserVars, step, added, dumping, palette, printed>>

AllAdded == step = "add" /\ rest = <<>> /\ added = Len(result)

DumpTree ==
    /\ AllAdded /\ dumping
    /\ printed' = Dump
    /\ step' = "exit"
    /\ UNCHANGED <<parseVars, treeVars, browserVars, added, dumping, palette>>

Browse ==
    /\ AllAdded /\ ~dumping
    /\ Display(palette)
    /\ step' = "browse"
    /\ UNCHANGED <<parseVars, treeVars, added, dumping, palette, printed>>

Turn ==
    /\ step = "browse"
    /\ Key \/ Crash
    /\ UNCHANGED <<parseVars, treeVars, step, added, dumping, palette, printed>>

Exited == step = "exit" \/ (step = "browse" /\ window \in {"none", "crashed"})

Done == Exited /\ UNCHANGED vars

Next == Parse \/ ParseFails \/ ParseEnds \/ Add \/ Insert \/ DumpTree \/ Browse \/ Turn \/ Done

\* The program computes without stopping; only the user may never press a key.
Spec ==
    /\ Init /\ [][Next]_vars
    /\ WF_vars(Parse \/ ParseFails \/ ParseEnds \/ Add \/ Insert \/ DumpTree \/ Browse)

-----------------------------------------------------------------------------

SamplesOf(frames) ==
    SumFunctionOnSet([i \in DOMAIN result |-> result[i].count],
                     {i \in DOMAIN result : result[i].frames = frames})

\* What has been printed is the samples that were parsed, each stack once with all of them.
DumpHolds ==
    printed = {<<r.frames, SamplesOf(r.frames)>> : r \in {s \in ToSet(result) : SamplesOf(s.frames) > 0}}

\* Every file is dumped, shown or refused, and what is dumped is what was parsed (main.py:27,
\* calltree.py:74).
DumpsSamples == <>(step = "browse" \/ (step = "exit" /\ (~failed => DumpHolds)))

=============================================================================
