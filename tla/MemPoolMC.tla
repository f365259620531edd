----------------------------- MODULE MemPoolMC -----------------------------
(* A small instance of MemPool for TLC. *)
EXTENDS MemPool

CONSTANTS main, r1, r2, x1, x2

ThreeThreads == {main, r1, r2}
TwoPackets == {x1, x2}
=============================================================================
