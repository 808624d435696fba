----------------------------- MODULE AtomicStore -----------------------------
(***************************************************************************)
(* What withStoreLock (packages/core/src/provider-circuit.ts) achieves: a  *)
(* file-backed operation reads, modifies and writes the store in one step, *)
(* so no operation of one process undoes that of another, unless the       *)
(* process is exposed: only then its write may undo others.  The store is  *)
(* reduced to how many operations of each process it reflects.             *)
(***************************************************************************)
EXTENDS Naturals

CONSTANT Proc
VARIABLES store, exposed

Init == store = [p \in Proc |-> 0] /\ exposed = {}

Update(p) == store' = [store EXCEPT ![p] = @ + 1]

\* The write of an exposed process: what it had read, and its operation.
Overwrite(p) == p \in exposed /\ store' \in [Proc -> Nat] /\ store'[p] > 0

Next == \E p \in Proc : Update(p) \/ Overwrite(p)

Spec == Init /\ [][Next]_store
==============================================================================
