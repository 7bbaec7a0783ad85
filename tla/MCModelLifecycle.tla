-------------------------- MODULE MCModelLifecycle --------------------------
(* Instances of ModelLifecycle: threads t1, t2 and t3 of the daemon, or t1 *)
(* of the daemon and t2 of a CLI command that shares its cache root.       *)
EXTENDS ModelLifecycle, TLC

CONSTANTS t1, t2, t3, daemon, cli, h1, h2

OneProcess   == [t \in Threads |-> daemon]
TwoProcesses == [t \in Threads |-> IF t = t1 THEN daemon ELSE cli]

(* The threads of one process are interchangeable, and so are the holders. *)
ThreadsAndHolders == Permutations(Threads) \cup Permutations(Holders)
OnlyHolders       == Permutations(Holders)
=============================================================================
