-------------------------- MODULE MCCircuitDeadlines --------------------------
(* An instance of CircuitDeadlines for TLC: the requests of two accounts.     *)
EXTENDS CircuitDeadlines, TLC
CONSTANTS v1, a1, a2, m1

TwoAccounts  == {[prov |-> v1, acc |-> a, mod |-> m1] : a \in {a1, a2}}
NoTargets    == {}
NoRetryAfter == {}

Perms == Permutations(Account)
===============================================================================
