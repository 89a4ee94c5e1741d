------------------------------ MODULE MC_Mpmc ------------------------------
(* MpmcLinkedQueue with a retire threshold of 1, so that every pop advances  *)
(* the epoch and tries to reclaim.                                           *)
EXTENDS MpmcLinkedQueue, TLC

CONSTANTS p1, t1, t2
Pushing == {p1, t1}
Popping == {t1, t2}
PoppersFirst == <<t1, t2>>
PurePushers == {p1}
\* Tokens that die with their thread, as in the code's tests.
AllThreads == {p1, t1, t2}

=============================================================================
