------------------------------ MODULE CallTree ------------------------------
(***************************************************************************)
(* The call tree of the flame graph (tfg/calltree/calltree.py).  A node is *)
(* named by its path from the head, which is <<>>; a frame's name is a     *)
(* number, ordered as the names are.  The order of the children of a node  *)
(* is not kept: the browser sorts them, and the dump is a set of lines.    *)
(***************************************************************************)
EXTENDS Integers, FiniteSetsExt, SequencesExt

VARIABLES
    tree,       \* path |-> [base, count], the samples at and below a node
    at,         \* the node _insert_frame has come to
    rest,       \* the frames it has still to insert
    amount      \* the count of their stack

treeVars == <<tree, at, rest, amount>>

NewNode == [base |-> 0, count |-> 0]

TreeInit ==
    /\ tree = [p \in {<<>>} |-> NewNode]
    /\ at = <<>>
    /\ rest = <<>>
    /\ amount = 0

Counts(t) == [p \in DOMAIN t |-> t[p].count]

Children(t, p) == {q \in DOMAIN t : Len(q) = Len(p) + 1 /\ IsPrefix(p, q)}

AddStack(frames, n) ==
    /\ tree' = [tree EXCEPT ![<<>>] = [base |-> @.base, count |-> @.count + n]]
    /\ at' = <<>>
    /\ rest' = frames
    /\ amount' = n

\* _get_or_create_frame finds the child of that name or appends one without samples.
GetOrCreate(p) == IF p \in DOMAIN tree THEN tree[p] ELSE NewNode
PutNode(p, node) == tree' = [q \in DOMAIN tree \cup {p} |-> IF q = p THEN node ELSE tree[q]]

\* Mutant: every frame of a stack keeps a base_count.
InsertFrameMutant ==
    /\ rest # <<>>
    /\ LET p == Append(at, Head(rest))
           frame == GetOrCreate(p)
       IN /\ PutNode(p, [base |-> frame.base + amount, count |-> frame.count + amount])
          /\ at' = p
    /\ rest' = Tail(rest)
    /\ UNCHANGED amount

\* One level of the recursion; only the top frame of the stack keeps a base_count.
InsertFrame ==
    /\ rest # <<>>
    /\ LET p == Append(at, Head(rest))
           frame == GetOrCreate(p)
       IN /\ PutNode(p, [base |-> frame.base + (IF Len(rest) = 1 THEN amount ELSE 0),
                         count |-> frame.count + amount])
          /\ at' = p
    /\ rest' = Tail(rest)
    /\ UNCHANGED amount

\* Mutant: the samples below a frame are printed as its own.
DumpMutant == {<<p, tree[p].count>> : p \in {q \in DOMAIN tree : tree[q].base > 0}}

Dump == {<<p, tree[p].base>> : p \in {q \in DOMAIN tree : tree[q].base > 0}}

-----------------------------------------------------------------------------

\* At every moment, also between the levels of an insertion, the samples of a node are
\* its own and its children's, and what the insertion that has come to it still carries
\* (calltree.py add_stack and _insert_frame).
CountsAddUp ==
    \A p \in DOMAIN tree :
        tree[p].count =
            tree[p].base + SumFunctionOnSet(Counts(tree), Children(tree, p))
                + (IF p = at /\ rest # <<>> THEN amount ELSE 0)

=============================================================================
