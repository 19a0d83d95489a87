---------------------------- MODULE MCJobManager ----------------------------
(* JobManager on a small instance: all jobs collect one stock. *)
EXTENDS JobManager, TLC

CONSTANTS s1

MCStocks  == {s1}
MCStockOf == [j \in Jobs |-> s1]
Symmetric == Permutations(Jobs) \cup Permutations(Callers)
=============================================================================
