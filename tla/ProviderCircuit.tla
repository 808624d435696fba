--------------------------- MODULE ProviderCircuit ---------------------------
(***************************************************************************)
(* The persistent provider circuit breaker                                 *)
(* (packages/core/src/provider-circuit.ts) and the guard that calls it     *)
(* around every dispatch (withProviderCircuit, packages/core/src/router.ts)*)
(*                                                                         *)
(* Several Nexus processes share one JSON file.  Every public operation    *)
(* runs inside withStoreLock, which reloads the file, so an operation is   *)
(* one atomic step on the file here; module CircuitLock studies the lock   *)
(* itself.  What a process keeps between two operations is only the last   *)
(* clock value it saw (lastClockMs): its entries map is cleared and        *)
(* reloaded by the next operation.                                         *)
(***************************************************************************)
EXTENDS Integers, FiniteSets

CONSTANTS
    Proc,           \* process ids (pids); a pid may be reused after a crash
    Req,            \* dispatches in flight; also the ids of the leases they get
    Provider, Account, Model,       \* the segments of a target
    NoAccount, NoModel,             \* an omitted segment: a broader scope
    NoReq, NoProc,                  \* "undefined" lease id and owner
    RequestTarget,  \* the targets requests are made for
    AnnotateTarget, \* the targets annotate() is called for
    RetryAfter,     \* Retry-After values an error may carry
    Backs,          \* backward corrections of the wall clock that may happen
    PersistMayFail, \* may persist() fail (full disk, read-only home)?
    Threshold,      \* transientFailureThreshold
    BaseCooldown, MaxCooldown, QuotaCooldown, ModelCooldown,
    LeaseTTL,       \* PROBE_LEASE_TTL_MS
    Skew,           \* maxClockSkewMs
    MaxEntries,     \* maxEntries
    OpenCap,        \* bound: openCount saturates here, where the back-off has
    MaxTime         \* bound: the wall clock stops here

NoTime == -1        \* an undefined timestamp

ASSUME CircuitAssumption ==
    /\ Proc # {} /\ Req # {}
    /\ NoReq \notin Req /\ NoProc \notin Proc
    /\ NoAccount \notin Account /\ NoModel \notin Model
    /\ Threshold \in Nat \ {0} /\ OpenCap \in Nat \ {0} /\ MaxEntries \in Nat \ {0}
    /\ BaseCooldown \in Nat \ {0} /\ MaxCooldown \in Nat \ {0}
    /\ QuotaCooldown \in Nat \ {0} /\ ModelCooldown \in Nat \ {0}
    /\ LeaseTTL \in Nat \ {0} /\ Skew \in Nat \ {0} /\ MaxTime \in Nat
    /\ RetryAfter \subseteq Nat /\ Backs \subseteq Nat \ {0}
    /\ PersistMayFail \in BOOLEAN

Target == [prov : Provider, acc : Account \cup {NoAccount}, mod : Model \cup {NoModel}]

ASSUME TargetAssumption ==
    RequestTarget \subseteq Target /\ AnnotateTarget \subseteq Target

\* Saturating openCount at OpenCap must not change a cooldown.
ASSUME BackoffSaturates == BaseCooldown * 2^(OpenCap - 1) >= MaxCooldown

VARIABLES
    clock,          \* the wall clock (Date.now())
    lastClock,      \* lastClockMs of each process
    alive,          \* is there a process with this pid?
    file,           \* the JSON store: savedAt and the entries
    req             \* the dispatches: state, process, target, keys of the lease

vars == <<clock, lastClock, alive, file, req>>

Reason == {"quota", "auth", "model_unavailable", "transient"}
Time   == Nat \cup {NoTime}

\* A CircuitEntry; a key the map does not hold is the entry in state "absent".
Entry == [state    : {"absent", "closed", "open", "half-open"},
          attempts : 0 .. Threshold,
          opens    : 0 .. OpenCap,
          until    : Time,
          lease    : Req \cup {NoReq},
          owner    : Proc \cup {NoProc},
          expires  : Time]

Request == [st   : {"fresh", "running", "settled", "lost"},
            proc : Proc \cup {NoProc},
            tgt  : Target,
            keys : SUBSET Target]

Absent == [state |-> "absent", attempts |-> 0, opens |-> 0, until |-> NoTime,
           lease |-> NoReq, owner |-> NoProc, expires |-> NoTime]
Closed == [Absent EXCEPT !.state = "closed"]

TypeOK ==
    /\ clock \in 0 .. MaxTime
    /\ lastClock \in [Proc -> 0 .. MaxTime]
    /\ alive \in [Proc -> BOOLEAN]
    /\ file \in [savedAt : 0 .. MaxTime, entries : [Target -> Entry]]
    /\ req \in [Req -> Request]
    /\ \A r \in Req : req[r].st = "running" => req[r].proc \in Proc

(***************************************************************************)
(* Scopes.                                                                 *)
(***************************************************************************)
AppliesTo(scope, t) ==
    /\ scope.prov = t.prov
    /\ scope.acc \in {NoAccount, t.acc}
    /\ scope.mod \in {NoModel, t.mod}

\* Mutant: a quota failure blocks the provider, not the account.
FailureScopeWholeProvider(t, reason) ==
    IF reason \in {"quota", "auth"} THEN [t EXCEPT !.acc = NoAccount, !.mod = NoModel] ELSE t

FailureScope(t, reason) ==
    IF reason \in {"quota", "auth"} THEN [t EXCEPT !.mod = NoModel] ELSE t

Present(E) == {k \in Target : E[k].state # "absent"}
Applicable(E, t) == {k \in Present(E) : AppliesTo(k, t)}

(***************************************************************************)
(* Time: rebasing deadlines, expiring blocks and leases.                   *)
(***************************************************************************)
NotBelowZero(n) == IF n < 0 THEN 0 ELSE n

\* Mutant: deadlines are not rebased.
ShiftTimestampsNot(E, delta) == E

\* shiftTimestamps: lease expiries are not among what it shifts.
ShiftTimestamps(E, delta) ==
    [k \in Target |-> IF E[k].until = NoTime THEN E[k]
                      ELSE [E[k] EXCEPT !.until = NotBelowZero(@ + delta)]]

Unleased(e) == [e EXCEPT !.lease = NoReq, !.owner = NoProc, !.expires = NoTime]

\* Mutant: a block without deadline counts as expired.
ExpireOpenUndated(e, now) ==
    IF e.state = "open" /\ e.until <= now THEN [Unleased(e) EXCEPT !.state = "half-open"] ELSE e

\* Mutant: a block expires one tick early.
ExpireOpenEarly(e, now) ==
    IF e.state = "open" /\ e.until # NoTime /\ e.until - 1 <= now
    THEN [Unleased(e) EXCEPT !.state = "half-open"] ELSE e

ExpireOpen(e, now) ==
    IF e.state = "open" /\ e.until # NoTime /\ e.until <= now
    THEN [Unleased(e) EXCEPT !.state = "half-open"] ELSE e

\* Mutant: a lease of any other process counts as abandoned.
LeaseGoneIfForeign(e, now, p) ==
    \/ e.owner \in Proc \ {p}
    \/ e.expires # NoTime /\ e.expires <= now

\* The owner is probed with kill(pid, 0), but never by itself.
LeaseGone(e, now, p) ==
    \/ e.owner \in Proc \ {p} /\ ~alive[e.owner]
    \/ e.expires # NoTime /\ e.expires <= now

ExpireLease(e, now, p) ==
    IF e.state = "half-open" /\ e.lease # NoReq /\ LeaseGone(e, now, p)
    THEN Unleased(e) ELSE e

\* expireOpenEntries and expireProbeLeases on the entries of keys K.
Refresh(E, K, now, p) ==
    [k \in Target |-> IF k \in K THEN ExpireLease(ExpireOpen(E[k], now), now, p)
                      ELSE E[k]]

\* load(): what process p reads, judged by the clock it remembers.
Loaded(p) ==
    LET behind == lastClock[p] < file.savedAt - Skew
        E == IF behind THEN ShiftTimestamps(file.entries, lastClock[p] - file.savedAt)
             ELSE file.entries
    IN  Refresh(E, Target, lastClock[p], p)

\* now(): the time of an operation of p; a large backward jump rebases.
Jumped(p) == clock < lastClock[p] - Skew
NowOf(p) == IF Jumped(p) \/ clock >= lastClock[p] THEN clock ELSE lastClock[p]
Opened(p) == IF Jumped(p) THEN ShiftTimestamps(Loaded(p), clock - lastClock[p])
             ELSE Loaded(p)

(***************************************************************************)
(* Persisting.                                                             *)
(***************************************************************************)
\* persist() stamps the store with the writer's lastClockMs; a failed one
\* leaves the old file in place.
Persist(at, E) ==
    \/ file' = [savedAt |-> at, entries |-> E]
    \/ PersistMayFail /\ file' = file

PersistIfChanged(at, before, after) ==
    \/ before # after /\ Persist(at, after)
    \/ before = after /\ UNCHANGED file

\* Mutant: any entry may be evicted, the one just recorded included.
PrunedAny(E, spared) ==
    IF Cardinality(Present(E)) <= MaxEntries THEN {E}
    ELSE {[k \in Target |-> IF k = v THEN Absent ELSE E[k]] : v \in Present(E)}

\* prune(): one entry too many can exist; a closed one goes first, and the one
\* just stamped with lastFailureAt = now (spared) goes last.
Pruned(E, spared) ==
    IF Cardinality(Present(E)) <= MaxEntries THEN {E}
    ELSE LET closed == {k \in Present(E) : E[k].state = "closed"}
             pool   == IF closed # {} THEN closed ELSE Present(E)
             victim == IF pool \subseteq spared THEN pool ELSE pool \ spared
         IN  {[k \in Target |-> IF k = v THEN Absent ELSE E[k]] : v \in victim}

(***************************************************************************)
(* What a failure does to one entry.                                       *)
(***************************************************************************)
AtMost(n, max) == IF n > max THEN max ELSE n

Backoff(opens) ==
    LET d == BaseCooldown * 2^(opens - 1) IN IF d \in 0 .. MaxCooldown THEN d ELSE MaxCooldown

Cooldown(reason, opens) ==
    CASE reason = "quota"             -> QuotaCooldown
      [] reason = "model_unavailable" -> ModelCooldown
      [] OTHER                        -> Backoff(opens)

BlockedUntil(reason, opens, retry, now) ==
    IF retry # NoTime THEN now + retry
    ELSE IF reason = "auth" THEN NoTime
    ELSE now + Cooldown(reason, opens)

\* Mutant: the lease of a failed probe is not deleted.
ApplyFailureKeepingLease(e, reason, retry, now, wasProbe) ==
    [e EXCEPT !.state = "open", !.until = BlockedUntil(reason, 1, retry, now)]

ApplyFailure(e, reason, retry, now, wasProbe) ==
    LET tries == AtMost(e.attempts + 1, Threshold)
        opens == AtMost(e.opens + 1, OpenCap)
        shouldOpen == \/ reason # "transient"
                      \/ wasProbe
                      \/ retry # NoTime
                      \/ tries >= Threshold
    IN  IF shouldOpen
        THEN [Absent EXCEPT !.state = "open", !.attempts = tries, !.opens = opens,
                            !.until = BlockedUntil(reason, opens, retry, now)]
        ELSE [Absent EXCEPT !.state = "closed", !.attempts = tries, !.opens = e.opens]

\* Probed keys reopen whatever the failure's scope; then the scope itself.
FailedEntries(E, keys, t, reason, retry, now) ==
    LET scope == FailureScope(t, reason)
        old   == IF E[scope].state = "absent" THEN Closed ELSE E[scope]
    IN  [k \in Target |->
            IF k \in keys THEN ApplyFailure(E[k], reason, retry, now, TRUE)
            ELSE IF k = scope
                 THEN ApplyFailure(old, reason, retry, now, old.state = "half-open")
            ELSE E[k]]

(***************************************************************************)
(* Initially no process has run and the file does not exist.               *)
(***************************************************************************)
Init ==
    /\ clock = 0
    /\ lastClock = [p \in Proc |-> 0]
    /\ alive = [p \in Proc |-> FALSE]
    /\ file = [savedAt |-> 0, entries |-> [k \in Target |-> Absent]]
    /\ \E t \in RequestTarget :
          req = [r \in Req |-> [st |-> "fresh", proc |-> NoProc, tgt |-> t, keys |-> {}]]

\* A randomUUID no store and no dispatch knows.
FreshId(r) == req[r].st # "running" /\ \A k \in Target : file.entries[k].lease # r

Dispatch(p, r, t, keys) ==
    req' = [req EXCEPT ![r] = [st |-> "running", proc |-> p, tgt |-> t, keys |-> keys]]
Ended(q, st) == [q EXCEPT !.st = st, !.proc = NoProc, !.keys = {}]
Settle(r) == req' = [req EXCEPT ![r] = Ended(@, "settled")]

Ticked(p) == lastClock' = [lastClock EXCEPT ![p] = NowOf(p)]

(***************************************************************************)
(* tryAcquire                                                              *)
(***************************************************************************)
Blockers(R, K) == {k \in K : \/ R[k].state = "open"
                             \/ R[k].state = "half-open" /\ R[k].lease # NoReq}
Probes(R, K) == {k \in K : R[k].state = "half-open"}

Granted(R, K, p, r, now) ==
    [k \in Target |-> IF k \in K
                      THEN [R[k] EXCEPT !.lease = r, !.owner = p, !.expires = now + LeaseTTL]
                      ELSE R[k]]

AcquireDenied(p, t) ==
    LET E == Opened(p)
        R == Refresh(E, Applicable(E, t), NowOf(p), p)
    IN  /\ Blockers(R, Applicable(E, t)) # {}
        /\ PersistIfChanged(NowOf(p), E, R)
        /\ UNCHANGED req

AcquirePlain(p, r, t) ==
    LET E == Opened(p)
        R == Refresh(E, Applicable(E, t), NowOf(p), p)
    IN  /\ Blockers(R, Applicable(E, t)) = {}
        /\ Probes(R, Applicable(E, t)) = {}
        /\ PersistIfChanged(NowOf(p), E, R)
        /\ Dispatch(p, r, t, {})

AcquireProbe(p, r, t) ==
    LET E == Opened(p)
        R == Refresh(E, Applicable(E, t), NowOf(p), p)
        K == Probes(R, Applicable(E, t))
    IN  /\ Blockers(R, Applicable(E, t)) = {}
        /\ K # {}
        /\ Persist(NowOf(p), Granted(R, K, p, r, NowOf(p)))
        /\ Dispatch(p, r, t, K)

TryAcquire(p, r, t) ==
    /\ alive[p] /\ FreshId(r)
    /\ Ticked(p)
    /\ AcquireDenied(p, t) \/ AcquirePlain(p, r, t) \/ AcquireProbe(p, r, t)
    /\ UNCHANGED <<clock, alive>>

(***************************************************************************)
(* recordFailure, recordSuccess                                            *)
(***************************************************************************)
ActiveLease(E, r) == \A k \in req[r].keys : E[k].lease = r

\* status(): refresh the applicable entries.
StatusOf(p, t, E) ==
    PersistIfChanged(NowOf(p), E, Refresh(E, Applicable(E, t), NowOf(p), p))

\* A lease that is no longer active makes the report a mere status().
StaleReport(r) ==
    LET p == req[r].proc IN
    /\ ~ActiveLease(Opened(p), r)
    /\ StatusOf(p, req[r].tgt, Opened(p))

\* releaseProbe and the status() after it, for a request-specific failure.
ReleaseProbe(r) ==
    LET p == req[r].proc
        E == Opened(p)
        F == [k \in Target |-> IF k \in req[r].keys
                               THEN [Unleased(E[k]) EXCEPT !.state = "open", !.until = NowOf(p)]
                               ELSE E[k]]
    IN  /\ ActiveLease(E, r)
        /\ PersistIfChanged(NowOf(p), E, Refresh(F, Applicable(F, req[r].tgt), NowOf(p), p))

ProviderFailure(r, reason, retry) ==
    LET p == req[r].proc
        E == Opened(p)
        F == FailedEntries(E, req[r].keys, req[r].tgt, reason, retry, NowOf(p))
    IN  /\ ActiveLease(E, r)
        /\ \E G \in Pruned(F, req[r].keys \cup {FailureScope(req[r].tgt, reason)}) :
              Persist(NowOf(p), G)

\* reason "none": classifyProviderCircuitFailure returned undefined.
RecordFailure(r, reason, retry) ==
    /\ req[r].st = "running"
    /\ \/ StaleReport(r)
       \/ reason = "none" /\ ReleaseProbe(r)
       \/ reason # "none" /\ ProviderFailure(r, reason, retry)
    /\ Ticked(req[r].proc) /\ Settle(r)
    /\ UNCHANGED <<clock, alive>>

\* Mutant: a success skips every leased entry, its own probe included.
ClosedByUnleased(E, r) == {k \in Applicable(E, req[r].tgt) : E[k].lease = NoReq}

\* Entries a success closes: all applicable ones, but a leased report leaves
\* those that someone else is probing.
ClosedBy(E, r) ==
    {k \in Applicable(E, req[r].tgt) :
        req[r].keys # {} => E[k].lease \in {NoReq, r}}

CloseAll(r) ==
    LET p == req[r].proc
        E == Opened(p)
        F == [k \in Target |-> IF k \in ClosedBy(E, r) THEN Closed ELSE E[k]]
        R == Refresh(F, Applicable(F, req[r].tgt), NowOf(p), p)
    IN  /\ ActiveLease(E, r)
        /\ \/ ClosedBy(E, r) # {} /\ Persist(NowOf(p), R)
           \/ ClosedBy(E, r) = {} /\ UNCHANGED file

RecordSuccess(r) ==
    /\ req[r].st = "running"
    /\ StaleReport(r) \/ CloseAll(r)
    /\ Ticked(req[r].proc) /\ Settle(r)
    /\ UNCHANGED <<clock, alive>>

\* The consumer stops reading: withProviderCircuit has no finally, so the
\* breaker is told nothing.
Abandon(r) ==
    /\ req[r].st = "running"
    /\ req' = [req EXCEPT ![r] = Ended(@, "lost")]
    /\ UNCHANGED <<clock, lastClock, alive, file>>

(***************************************************************************)
(* reset, annotate, status, listStatuses                                   *)
(***************************************************************************)
\* reset() and annotate() do not read the clock: savedAt is the remembered one.
Reset(p, scope) ==
    LET E == Loaded(p)
        gone == {k \in Present(E) : AppliesTo(scope, k)}
    IN  /\ alive[p]
        /\ gone # {}
        /\ Persist(lastClock[p], [k \in Target |-> IF k \in gone THEN Absent ELSE E[k]])
        /\ UNCHANGED <<clock, lastClock, alive, req>>

ResetAll(p) ==
    /\ alive[p]
    /\ Persist(lastClock[p], [k \in Target |-> Absent])
    /\ UNCHANGED <<clock, lastClock, alive, req>>

Annotate(p, t) ==
    LET E == Loaded(p)
        F == IF E[t].state = "absent" THEN [E EXCEPT ![t] = Closed] ELSE E
    IN  /\ alive[p]
        /\ \E G \in Pruned(F, {}) : Persist(lastClock[p], G)
        /\ UNCHANGED <<clock, lastClock, alive, req>>

Status(p, t) ==
    /\ alive[p]
    /\ Ticked(p)
    /\ StatusOf(p, t, Opened(p))
    /\ UNCHANGED <<clock, alive, req>>

ListStatuses(p) ==
    /\ alive[p]
    /\ Ticked(p)
    /\ PersistIfChanged(NowOf(p), Opened(p), Refresh(Opened(p), Target, NowOf(p), p))
    /\ UNCHANGED <<clock, alive, req>>

(***************************************************************************)
(* The environment: processes come and go, the wall clock advances and is  *)
(* corrected.                                                              *)
(***************************************************************************)
\* The constructor; its load() writes nothing.
Start(p) ==
    /\ ~alive[p]
    /\ alive' = [alive EXCEPT ![p] = TRUE]
    /\ lastClock' = [lastClock EXCEPT ![p] = clock]
    /\ UNCHANGED <<clock, file, req>>

Crash(p) ==
    /\ alive[p]
    /\ alive' = [alive EXCEPT ![p] = FALSE]
    /\ req' = [r \in Req |-> IF req[r].st = "running" /\ req[r].proc = p
                             THEN Ended(req[r], "lost") ELSE req[r]]
    /\ UNCHANGED <<clock, lastClock, file>>

Tick ==
    /\ clock < MaxTime
    /\ clock' = clock + 1
    /\ UNCHANGED <<lastClock, alive, file, req>>

ClockBack(d) ==
    /\ clock >= d
    /\ clock' = clock - d
    /\ UNCHANGED <<lastClock, alive, file, req>>

FailureStep ==
    \E r \in Req, retry \in RetryAfter \cup {NoTime}, reason \in Reason \cup {"none"} :
        RecordFailure(r, reason, retry)

OtherStep ==
    \/ \E p \in Proc, r \in Req, t \in RequestTarget : TryAcquire(p, r, t)
    \/ \E r \in Req : RecordSuccess(r)
    \/ \E r \in Req : Abandon(r)
    \/ \E p \in Proc, v \in Provider :
          Reset(p, [prov |-> v, acc |-> NoAccount, mod |-> NoModel])
    \/ \E p \in Proc : ResetAll(p)
    \/ \E p \in Proc, t \in AnnotateTarget : Annotate(p, t)
    \/ \E p \in Proc, t \in RequestTarget : Status(p, t)
    \/ \E p \in Proc : ListStatuses(p)
    \/ \E p \in Proc : Start(p)
    \/ \E p \in Proc : Crash(p)
    \/ Tick
    \/ \E d \in Backs : ClockBack(d)

Next == FailureStep \/ OtherStep

Spec == Init /\ [][Next]_vars

(***************************************************************************)
(* Properties.                                                             *)
(***************************************************************************)
\* The probe lease a stored entry carries (applyFailure, tryAcquire,
\* expireOpenEntries): only a half-open circuit is leased, with an owner and an
\* expiry, and while the holder is still running it is the process that owns
\* the entry and knows the key, so its report will find the lease.
LeaseAccountable ==
    \A k \in Target : LET e == file.entries[k] IN
        e.lease # NoReq =>
            /\ e.state = "half-open" /\ e.owner \in Proc /\ e.expires # NoTime
            /\ req[e.lease].st # "fresh"
            /\ req[e.lease].st = "running" =>
                  k \in req[e.lease].keys /\ req[e.lease].proc = e.owner

\* r reports its outcome in this step.
Reports(r) == req[r].st = "running" /\ req'[r].st = "settled"

\* The report of r in this step is a failure of scope k.
FailsAt(r, k) ==
    \E reason \in Reason, retry \in RetryAfter \cup {NoTime} :
        RecordFailure(r, reason, retry) /\ k = FailureScope(req[r].tgt, reason)

\* It is a success, and closes circuit k.
SucceedsAt(r, k) ==
    RecordSuccess(r) /\ AppliesTo(k, req[r].tgt) /\ file'.entries[k].state = "closed"

\* An entry leaves the store by a reset, or by the prune of a full store in
\* which no circuit is closed.
Removed(k) ==
    /\ file'.entries[k].state = "absent"
    /\ \/ \E p \in Proc : \/ ResetAll(p)
                          \/ Reset(p, [prov |-> k.prov, acc |-> NoAccount, mod |-> NoModel])
       \/ /\ Cardinality(Present(file.entries)) >= MaxEntries
          /\ \A j \in Present(file.entries) : file.entries[j].state # "closed"

\* The time has come for a lease by the clock of some process, or its owner is
\* dead.
Lapsed(e) ==
    \/ ~alive[e.owner]
    \/ \E p \in Proc : alive[p] /\ (e.expires <= clock \/ e.expires <= lastClock[p])

\* tryAcquire: "expired open circuits allow exactly one half-open probe".  A
\* lease that has not lapsed is ended only by the report of its own request, by
\* the success of one that never had a lease, by a failure of that very scope,
\* or with its entry.
LeaseKept ==
    \A k \in Target : LET e == file.entries[k] IN
        (e.lease # NoReq /\ file'.entries[k].lease # e.lease) =>
            \/ Lapsed(e)
            \/ \E r \in Req :
                  /\ Reports(r)
                  /\ r = e.lease \/ (req[r].keys = {} /\ SucceedsAt(r, k)) \/ FailsAt(r, k)
            \/ Removed(k)
LeaseNotStolen == [][LeaseKept]_vars

\* applyFailure, "Credential changes/manual reset are the only reliable recovery
\* signal": neither time, nor a clock correction, nor a crash, nor the reads of
\* any process lift a block without deadline.  The success of a request it
\* covers that was still in flight closes it, a later failure of that very scope
\* may give it a deadline, and it may go with its entry.
AuthBlocked(k) == file.entries[k].state = "open" /\ file.entries[k].until = NoTime
AuthBlockKept ==
    \A k \in Target : AuthBlocked(k) =>
        \/ AuthBlocked(k)'
        \/ \E r \in Req : Reports(r) /\ (SucceedsAt(r, k) \/ FailsAt(r, k))
        \/ Removed(k)
AuthBlockStays == [][AuthBlockKept]_vars

\* Neither of the two may be taken from the store by anyone else: not by the
\* expiry, the failures or the annotations of other scopes, nor by another
\* process that loads, prunes and saves the same file, nor by a report whose
\* lease is no longer its own.
NothingTakenAway == LeaseNotStolen /\ AuthBlockStays

\* failureScope, recordFailure: a target becomes blocked only by the report of a
\* request of the same account (provider, for requests without one), and by a
\* request for another model only through the account-wide entry.
OpenFor(E, t) == \E k \in Applicable(E, t) : E[k].state = "open"
BlastContained ==
    \A t \in RequestTarget :
        (OpenFor(file'.entries, t) /\ ~OpenFor(file.entries, t)) =>
            \E r \in Req :
                /\ req[r].st = "running" /\ req'[r].st = "settled"
                /\ t.prov = req[r].tgt.prov
                /\ req[r].tgt.acc \in {NoAccount, t.acc}
                /\ \/ req[r].tgt.mod \in {NoModel, t.mod}
                   \/ file'.entries[[req[r].tgt EXCEPT !.mod = NoModel]].state = "open"
BlastRadius == [][BlastContained]_vars

\* recordFailure: once a quota or auth failure is reported by the active lease
\* (or without one), the very next tryAcquire of the same process for the same
\* target is refused.
Denied(p, t) ==
    LET E == Opened(p)
        R == Refresh(E, Applicable(E, t), NowOf(p), p)
    IN  Blockers(R, Applicable(E, t)) # {}
BlockedAtOnce ==
    \A r \in Req, p \in Proc, t \in RequestTarget, reason \in {"quota", "auth"} :
        (/\ req[r].st = "running" /\ req'[r].st = "settled"
         /\ req[r].proc = p /\ req[r].tgt = t
         /\ ActiveLease(Opened(p), r)
         /\ RecordFailure(r, reason, NoTime)) => Denied(p, t)'
FailureBlocksAtOnce == [][BlockedAtOnce]_vars

\* "Admit exactly one half-open probe; keep the others blocked until it settles"
\* (docs/EDGE-CASE-AUDIT.md): a probe that reports its outcome leaves a lease on
\* none of its circuits, unless one of them had been taken from it before.
LeaseReleased ==
    \A r \in Req : Reports(r) =>
        \/ \A k \in Target : file'.entries[k].lease # r
        \/ \E k \in req[r].keys : file.entries[k].lease # r \/ Lapsed(file.entries[k])
SettledLeaseReleased == [][LeaseReleased]_vars
==============================================================================
