----------------------------- MODULE FileActions -----------------------------
(***************************************************************************)
(* The list of file actions of posix_spawn (glibc-compatibility.c): each   *)
(* posix_spawn_file_actions_add... puts a block before the others, as far  *)
(* as there is memory, and destroy frees them all.                         *)
(***************************************************************************)
EXTENDS Integers, Sequences

CONSTANTS
    ActionCalls,    \* [cmd, fd, srcfd], the actions a caller may add
    Blocks,         \* the blocks malloc may return
    MaxAdds         \* bound on the calls

ASSUME FileActionsAssumption == MaxAdds \in Nat /\ Blocks \subseteq Nat \ {0}

VARIABLES
    actions,        \* fa->__actions, 0 for none
    block,          \* the contents of the blocks, and which of them are allocated
    cursor,         \* of destroy: the block it frees next, 0 before and after it runs
    destroyed,
    added,          \* what was added and reported so, in that order
    addRet, adds

actionVars == <<actions, block, cursor, destroyed, added, addRet, adds>>

Unused == [used |-> FALSE, next |-> 0, prev |-> 0, op |-> 0]

ActionsIdle ==
    /\ actions = 0 /\ block = [b \in Blocks |-> Unused]
    /\ cursor = 0 /\ destroyed = TRUE /\ added = <<>> /\ addRet = "0" /\ adds = 0

\* posix_spawn_file_actions_init
ActionsInit ==
    /\ actions = 0 /\ block = [b \in Blocks |-> Unused]
    /\ cursor = 0 /\ destroyed = FALSE /\ added = <<>> /\ addRet = "0" /\ adds = 0

Calling == ~destroyed /\ adds < MaxAdds /\ adds' = adds + 1

\* Each but addchdir_np, which takes no descriptor, refuses negative ones; adddup2 has two.
Refuses(op) == op.cmd # "chdir" /\ (op.fd < 0 \/ (op.cmd = "dup2" /\ op.srcfd < 0))

BadDescriptor(op) ==
    /\ Calling /\ Refuses(op)
    /\ addRet' = "EBADF"
    /\ UNCHANGED <<actions, block, cursor, destroyed, added>>

NoMemory(op) ==
    /\ Calling /\ ~Refuses(op)
    /\ addRet' = "ENOMEM"
    /\ UNCHANGED <<actions, block, cursor, destroyed, added>>

\* Mutant: the back link of the first action is not set.
AddActionMutant(op) ==
    /\ Calling /\ ~Refuses(op)
    /\ \E b \in Blocks :
        /\ ~block[b].used
        /\ block' = [block EXCEPT ![b] = [used |-> TRUE, next |-> actions, prev |-> 0, op |-> op]]
        /\ actions' = b
    /\ added' = Append(added, op) /\ addRet' = "0"
    /\ UNCHANGED <<cursor, destroyed>>

AddAction(op) ==
    /\ Calling /\ ~Refuses(op)
    /\ \E b \in Blocks :
        /\ ~block[b].used
        /\ block' = [x \in Blocks |->
                        IF x = b THEN [used |-> TRUE, next |-> actions, prev |-> 0, op |-> op]
                        ELSE IF x = actions THEN [block[x] EXCEPT !.prev = b] ELSE block[x]]
        /\ actions' = b
    /\ added' = Append(added, op) /\ addRet' = "0"
    /\ UNCHANGED <<cursor, destroyed>>

\* posix_spawn_file_actions_destroy: next is read before the block is freed, and
\* fa->__actions stays as it is.
Destroy ==
    /\ ~destroyed
    /\ destroyed' = TRUE /\ cursor' = actions
    /\ UNCHANGED <<actions, block, added, addRet, adds>>

FreeAction ==
    /\ cursor # 0
    /\ cursor' = block[cursor].next
    /\ block' = [block EXCEPT ![cursor] = Unused]
    /\ UNCHANGED <<actions, destroyed, added, addRet, adds>>

ActionsNext ==
    \/ Destroy \/ FreeAction
    \/ \E op \in ActionCalls : BadDescriptor(op) \/ NoMemory(op) \/ AddAction(op)

ActionsSpec == ActionsInit /\ [][ActionsNext]_actionVars

-----------------------------------------------------------------------------

Allocated == {b \in Blocks : block[b].used}

\* The allocated blocks, in the order of their links from b on.
Linked(list, n, b) ==
    /\ b = IF n = 0 THEN 0 ELSE list[1]
    /\ Allocated = {list[i] : i \in 1 .. n}
    /\ \A i, j \in 1 .. n : list[i] = list[j] => i = j
    /\ \A i \in 1 .. n : block[list[i]].next = IF i = n THEN 0 ELSE list[i + 1]

\* What was added, the last one first, linked back too for the child that walks it backwards.
Holds(list, n) ==
    \A i \in 1 .. n : /\ block[list[i]].op = added[n + 1 - i]
                      /\ block[list[i]].prev = IF i = 1 THEN 0 ELSE list[i - 1]

\* The list is what was added; a call that fails changes nothing; no block is lost, none is
\* freed twice, and after destroy none is left.
ActionsKept ==
    LET n == Len(added)
    IN /\ ~destroyed => \E list \in [1 .. n -> Blocks] : Linked(list, n, actions) /\ Holds(list, n)
       /\ destroyed => \E k \in 0 .. n : \E list \in [1 .. k -> Blocks] : Linked(list, k, cursor)

=============================================================================
