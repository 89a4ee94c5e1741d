------------------------------ MODULE MC_Pool ------------------------------
(* FixedBlockPool with slabs of three blocks and a cache limit of four, so   *)
(* that refills, flushes and new slabs all happen with few blocks.           *)
EXTENDS FixedBlockPool

CONSTANTS t1, t2
MCThreads == {t1, t2}
ThreadSymmetry == Permutations(MCThreads)

=============================================================================
