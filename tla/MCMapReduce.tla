----------------------------- MODULE MCMapReduce -----------------------------
(* Instances of MapReduce for TLC *)
EXTENDS MapReduce, TLC

(* Which worker is which does not matter for safety *)
WorkerSymmetry == Permutations(Worker)

(* A bound: at most two tasks, of either phase, are queued again, each as     *)
(* often as the ten seconds allow                                            *)
FewRequeued == Cardinality(requeued') <= 2
=============================================================================
