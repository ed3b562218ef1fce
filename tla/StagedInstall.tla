---------------------------- MODULE StagedInstall ----------------------------
(***************************************************************************)
(* What bootstrap-prefix.sh promises to whoever runs it, in as many runs   *)
(* as it takes: three stages finish one after the other and each of them   *)
(* once; the scaffolding the first two were built in is dropped only when  *)
(* the third is through; the prefix is declared ready only after that, and *)
(* nothing is ever taken back.                                             *)
(***************************************************************************)
EXTENDS Naturals

VARIABLES
    level,    \* the last stage that is finished, 0 when none is
    dropped,  \* the scaffolding has begun to go
    ready     \* the user has been told that the prefix can be entered

vars == <<level, dropped, ready>>

Init == level = 0 /\ dropped = FALSE /\ ready = FALSE

FinishStage ==
    /\ level < 3
    /\ level' = level + 1
    /\ UNCHANGED <<dropped, ready>>

Drop ==
    /\ level = 3
    /\ dropped' = TRUE
    /\ UNCHANGED <<level, ready>>

Declare ==
    /\ dropped
    /\ ready' = TRUE
    /\ UNCHANGED <<level, dropped>>

Next == FinishStage \/ Drop \/ Declare

Spec == Init /\ [][Next]_vars
=============================================================================
