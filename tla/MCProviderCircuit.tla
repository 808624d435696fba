-------------------------- MODULE MCProviderCircuit --------------------------
(* An instance of ProviderCircuit for TLC: the requests of one model.        *)
EXTENDS ProviderCircuit, TLC
CONSTANTS v1, a1, m1

OneModel     == {[prov |-> v1, acc |-> a1, mod |-> m1]}
NoTargets    == {}
NoRetryAfter == {}

Perms == {f @@ g : f \in Permutations(Proc), g \in Permutations(Req)}
==============================================================================
