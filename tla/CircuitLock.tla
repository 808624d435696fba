----------------------------- MODULE CircuitLock -----------------------------
(***************************************************************************)
(* withStoreLock (packages/core/src/provider-circuit.ts): the lock around  *)
(* every file-backed operation of the circuit breaker is a directory.      *)
(* mkdir takes it, rm gives it back; a lock whose mtime is older than      *)
(* STORE_LOCK_STALE_MS is evicted with the same rm.  Between two system    *)
(* calls of one process any other process may run.  Its names are its own, *)
(* so that it can stand beside ProviderCircuit in one module of proofs.    *)
(***************************************************************************)
EXTENDS Integers, FiniteSets, FiniteSetsExt

CONSTANTS
    Window,         \* the cooperating Nexus windows, a process each
    NoWindow,
    Stale,          \* STORE_LOCK_STALE_MS
    Wait,           \* STORE_LOCK_WAIT_MS
    MaxOps,         \* bound: operations begun by all processes
    HolderMayCrash, \* may a process die while it holds the lock?
    HolderMayStall  \* may a holder be suspended for longer than Stale?

ASSUME LockAssumption ==
    /\ NoWindow \notin Window
    /\ Stale \in Nat /\ Wait \in Nat /\ MaxOps \in Nat
    /\ HolderMayCrash \in BOOLEAN /\ HolderMayStall \in BOOLEAN

VARIABLES
    pc,         \* where each process is in withStoreLock
    lock,       \* the directory: who made it (NoWindow: it does not exist), its age
    waited,     \* time each process has waited since its deadline was set
    mem,        \* the entries map each process loaded
    store,      \* the store: operations of each process it reflects
    done,       \* operations each process has completed
    late,       \* windows about to remove a stale lock that is gone (history)
    robbed,     \* windows inside whose lock another one has removed (history)
    crossed     \* windows inside when a robbed one wrote the store (history)

history  == <<late, robbed, crossed>>
lockVars == <<pc, lock, waited, mem, store, done, history>>

Ops == [Window -> Nat]
InSection == {"load", "save", "release"}

LockTypeOK ==
    /\ pc \in [Window -> {"idle", "mkdir", "stat", "evict", "load", "save", "release", "dead"}]
    /\ lock \in [by : Window \cup {NoWindow}, age : 0 .. Stale + 1]
    /\ waited \in [Window -> 0 .. Wait]
    /\ mem \in [Window -> Ops] /\ store \in Ops /\ done \in Ops
    /\ late \subseteq Window /\ robbed \subseteq Window /\ crossed \subseteq Window

Free == [by |-> NoWindow, age |-> 0]
Goto(p, l) == pc' = [pc EXCEPT ![p] = l]

LockInit ==
    /\ pc = [p \in Window |-> "idle"]
    /\ lock = Free
    /\ waited = [p \in Window |-> 0]
    /\ mem = [p \in Window |-> [q \in Window |-> 0]]
    /\ store = [p \in Window |-> 0]
    /\ done = [p \in Window |-> 0]
    /\ late = {} /\ robbed = {} /\ crossed = {}

Begun == MapThenSumSet(LAMBDA p : done[p], Window)
           + Cardinality({p \in Window : pc[p] # "idle"})

Begin(p) ==
    /\ pc[p] = "idle" /\ Begun < MaxOps
    /\ Goto(p, "mkdir")
    /\ waited' = [waited EXCEPT ![p] = 0]
    /\ UNCHANGED <<lock, mem, store, done, history>>

Mkdir(p) ==
    /\ pc[p] = "mkdir"
    /\ \/ lock.by = NoWindow /\ lock' = [by |-> p, age |-> 0] /\ Goto(p, "load")
       \/ lock.by # NoWindow /\ Goto(p, "stat") /\ UNCHANGED lock
    /\ UNCHANGED <<waited, mem, store, done, history>>

\* Mutant: any lock found is considered stale.
StatEager(p) ==
    /\ pc[p] = "stat"
    /\ \/ lock.by = NoWindow /\ Goto(p, "mkdir")
       \/ lock.by # NoWindow /\ Goto(p, "evict")
    /\ UNCHANGED <<lock, waited, mem, store, done, history>>

\* Mutant: a stale lock is waited for, not evicted.
StatPatient(p) ==
    /\ pc[p] = "stat"
    /\ Goto(p, "mkdir")
    /\ UNCHANGED <<lock, waited, mem, store, done, history>>

\* A vanished lock, or a fresh one after a pause of 10 ms, is tried again.  At
\* the deadline the operation is called again; it has storeLockDepth 0 and so
\* enters withStoreLock anew, with a new deadline.
Stat(p) ==
    /\ pc[p] = "stat"
    /\ \/ lock.by = NoWindow /\ Goto(p, "mkdir") /\ UNCHANGED waited
       \/ lock.by # NoWindow /\ lock.age > Stale /\ Goto(p, "evict") /\ UNCHANGED waited
       \/ /\ lock.by # NoWindow /\ lock.age <= Stale
          /\ Goto(p, "mkdir")
          /\ waited' = [waited EXCEPT ![p] = IF @ >= Wait THEN 0 ELSE @]
    /\ UNCHANGED <<lock, mem, store, done, history>>

\* The windows about to evict have lost their aim when p removes the lock.
Others(p) == {q \in Window \ {p} : pc[q] = "evict"}

\* rmSync removes whatever directory is there by now: the stale lock, or the one
\* of a window that has come in since.
Evict(p) ==
    /\ pc[p] = "evict"
    /\ lock' = Free
    /\ Goto(p, "mkdir")
    /\ late' = Others(p)
    /\ robbed' = IF p \in late \/ lock.age > Stale THEN robbed \cup ({lock.by} \ {NoWindow})
                 ELSE robbed
    /\ UNCHANGED <<waited, mem, store, done, crossed>>

\* Mutant: the entries are those of the previous operation.
LoadStale(p) ==
    /\ pc[p] = "load"
    /\ Goto(p, "save")
    /\ UNCHANGED <<lock, waited, mem, store, done, history>>

\* entries.clear(); load()
Load(p) ==
    /\ pc[p] = "load"
    /\ mem' = [mem EXCEPT ![p] = store]
    /\ Goto(p, "save")
    /\ UNCHANGED <<lock, waited, store, done, history>>

\* The operation and persist(): the store becomes the changed map, also that of
\* a window which has lost its lock.
Save(p) ==
    /\ pc[p] = "save"
    /\ store' = [mem[p] EXCEPT ![p] = @ + 1]
    /\ mem' = [mem EXCEPT ![p] = store']
    /\ Goto(p, "release")
    /\ crossed' = IF p \in robbed THEN crossed \cup {q \in Window : pc[q] \in InSection}
                  ELSE crossed
    /\ UNCHANGED <<lock, waited, done, late, robbed>>

\* The finally: rmSync again, whoever the directory belongs to by now.
Release(p) ==
    /\ pc[p] = "release"
    /\ lock' = Free
    /\ done' = [done EXCEPT ![p] = @ + 1]
    /\ Goto(p, "idle")
    /\ late' = Others(p)
    /\ robbed' = (IF p \in robbed THEN robbed \cup ({lock.by} \ {NoWindow}) ELSE robbed) \ {p}
    /\ crossed' = crossed \ {p}
    /\ UNCHANGED <<waited, mem, store>>

Die(p) ==
    /\ pc[p] # "dead"
    /\ pc[p] \in InSection => HolderMayCrash
    /\ Goto(p, "dead")
    /\ UNCHANGED <<lock, waited, mem, store, done, history>>

\* The clock; unless holders may stall, the lock of a live one stays fresh.
Elapse ==
    /\ HolderMayStall \/ lock.age < Stale \/ ~ \E p \in Window : pc[p] \in InSection
    /\ lock' = IF lock.by = NoWindow \/ lock.age > Stale THEN lock
               ELSE [lock EXCEPT !.age = @ + 1]
    /\ waited' = [p \in Window |-> IF waited[p] < Wait THEN waited[p] + 1 ELSE waited[p]]
    /\ UNCHANGED <<pc, mem, store, done, history>>

Step(p) ==
    Begin(p) \/ Mkdir(p) \/ Stat(p) \/ Evict(p) \/ Load(p) \/ Save(p) \/ Release(p)

LockNext ==
    \/ \E p \in Window : Step(p) \/ Die(p)
    \/ Elapse

LockSpec == LockInit /\ [][LockNext]_lockVars

\* A live process keeps running and time passes.
FairLockSpec == LockSpec /\ (\A p \in Window : WF_lockVars(Step(p))) /\ WF_lockVars(Elapse)

(***************************************************************************)
(* Properties.                                                             *)
(***************************************************************************)
\* "Serialize every file-backed read/modify/write cycle": at most one window is
\* inside with its lock in place.  A window loses it there only to one that had
\* found an older lock stale, or found this one stale, or to a window that has
\* lost its own: then two of them are inside, against that comment.
MutualExclusion ==
    \A p, q \in Window : (/\ pc[p] \in InSection /\ p \notin robbed
                         /\ pc[q] \in InSection /\ q \notin robbed) => p = q

\* "independent Nexus windows cannot overwrite each other's failures": the
\* locked operations implement atomic updates of the store, save those of a
\* window that has lost its lock and of the window it wrote the store under.
Atomic == INSTANCE AtomicStore WITH Proc <- Window, exposed <- robbed \cup crossed
ImplementsAtomicStore == Atomic!Spec

\* An operation of a process that stays alive ends, even when the holder of the
\* lock has died: the stale lock is evicted.
OperationEnds ==
    \A p \in Window : (pc[p] # "idle") ~> (pc[p] \in {"idle", "dead"})
==============================================================================
