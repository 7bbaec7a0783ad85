---------------------------- MODULE MCGpuMemory ----------------------------
(* Instances of GpuMemory with two requests in flight, two allocations and *)
(* two holders, which are interchangeable.                                 *)
EXTENDS GpuMemory, TLC

CONSTANTS t1, t2, a1, a2, h1, h2, c1

Symmetry == Permutations(Threads) \cup Permutations(Allocs) \cup Permutations(Holders)
=============================================================================
