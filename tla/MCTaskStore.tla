----------------------------- MODULE MCTaskStore -----------------------------
(* TaskStore with tasks and processes that TLC may exchange. *)
EXTENDS TaskStore, TLC

Symmetric == Permutations(Task) \cup Permutations(Proc)
==============================================================================
