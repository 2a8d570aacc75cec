---------------------- MODULE MCBoundedShuffleAllocator ----------------------
(* Four blocks over a page table of two entries and seven units of memory, *)
(* so that short grants, a full page table and reused page numbers occur.  *)
EXTENDS BoundedShuffleAllocator, TLC

CONSTANTS b1, b2, b3, b4

MCBlocks == {b1, b2, b3, b4}
MCRequests == 1 .. 6
BlockSymmetry == Permutations(MCBlocks)
=============================================================================
