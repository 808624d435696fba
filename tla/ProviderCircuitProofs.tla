------------------------ MODULE ProviderCircuitProofs ------------------------
(***************************************************************************)
(* Proofs about ProviderCircuit and CircuitDeadlines, for every set of     *)
(* processes, requests and targets, and every setting of the cooldowns;    *)
(* and, in the last section, about the lock that makes their operations    *)
(* atomic (CircuitLock).                                                   *)
(***************************************************************************)
EXTENDS CircuitDeadlines, CircuitLock, FiniteSetTheorems, WellFoundedInduction, TLAPS

Entries == [Target -> Entry]

(***************************************************************************)
(* The operators on entries are well typed.                                *)
(***************************************************************************)

\* The two constant entries are entries.
LEMMA ConstantEntries == Absent \in Entry /\ Closed \in Entry
BY CircuitAssumption DEF Absent, Closed, Entry, NoTime, Time

\* unleasing, expiring and rebasing one entry give an entry.
LEMMA EntryOps ==
    ASSUME NEW e \in Entry, NEW now \in Int, NEW p \in Proc
    PROVE  /\ Unleased(e) \in Entry
           /\ ExpireOpen(e, now) \in Entry
           /\ ExpireLease(e, now, p) \in Entry
<1>1. ASSUME NEW f \in Entry PROVE Unleased(f) \in Entry
  BY <1>1 DEF Unleased, Entry, NoTime, Time
<1>2. ExpireOpen(e, now) \in Entry
  BY <1>1 DEF ExpireOpen, Entry
<1>3. ExpireLease(e, now, p) \in Entry
  BY <1>1 DEF ExpireLease
<1> QED BY <1>1, <1>2, <1>3

\* shiftTimestamps keeps the entries well typed: no deadline becomes negative.
LEMMA ShiftType ==
    ASSUME NEW E \in Entries, NEW delta \in Int
    PROVE  ShiftTimestamps(E, delta) \in Entries
<1>1. ASSUME NEW k \in Target, E[k].until # NoTime
      PROVE  [E[k] EXCEPT !.until = NotBelowZero(@ + delta)] \in Entry
  BY <1>1 DEF Entries, Entry, Time, NoTime, NotBelowZero
<1> QED BY <1>1 DEF ShiftTimestamps, Entries

\* The refresh of any set of keys keeps the entries well typed.
LEMMA RefreshType ==
    ASSUME NEW E \in Entries, NEW K, NEW now \in Int, NEW p \in Proc
    PROVE  Refresh(E, K, now, p) \in Entries
BY EntryOps DEF Refresh, Entries

\* What load() and now() hand to an operation is well typed.
LEMMA OpenedType ==
    ASSUME TypeOK, NEW p \in Proc
    PROVE  /\ Loaded(p) \in Entries /\ Opened(p) \in Entries
           /\ NowOf(p) \in 0 .. MaxTime
<1>1. /\ file.entries \in Entries /\ file.savedAt \in Int
      /\ lastClock[p] \in 0 .. MaxTime /\ clock \in 0 .. MaxTime
  BY CircuitAssumption DEF TypeOK, Entries
<1>2. lastClock[p] \in Int /\ lastClock[p] - file.savedAt \in Int /\ clock - lastClock[p] \in Int
  BY <1>1, CircuitAssumption
<1>3. Loaded(p) \in Entries
  <2>1. ShiftTimestamps(file.entries, lastClock[p] - file.savedAt) \in Entries
    BY <1>1, <1>2, ShiftType
  <2> QED BY <1>1, <1>2, <2>1, RefreshType DEF Loaded
<1>4. Opened(p) \in Entries
  BY <1>2, <1>3, ShiftType DEF Opened
<1>5. NowOf(p) \in 0 .. MaxTime
  BY <1>1 DEF NowOf
<1> QED BY <1>3, <1>4, <1>5

\* The cooldown of a failure is a natural number, so a deadline is a time.
LEMMA BlockedUntilType ==
    ASSUME NEW reason, NEW opens, NEW retry \in RetryAfter \cup {NoTime}, NEW now \in Nat
    PROVE  BlockedUntil(reason, opens, retry, now) \in Time
<1>1. Backoff(opens) \in Nat
  BY CircuitAssumption DEF Backoff
<1>2. Cooldown(reason, opens) \in Nat
  BY <1>1, CircuitAssumption DEF Cooldown
<1> QED BY <1>2, CircuitAssumption DEF BlockedUntil, Time, NoTime

\* applyFailure gives an entry without a lease.
LEMMA ApplyFailureType ==
    ASSUME NEW e \in Entry, NEW reason, NEW retry \in RetryAfter \cup {NoTime},
           NEW now \in Nat, NEW w
    PROVE  LET f == ApplyFailure(e, reason, retry, now, w)
           IN  f \in Entry /\ f.lease = NoReq
<1> DEFINE tries == AtMost(e.attempts + 1, Threshold)
           opens == AtMost(e.opens + 1, OpenCap)
           till  == BlockedUntil(reason, opens, retry, now)
           A == [Absent EXCEPT !.state = "open", !.attempts = tries, !.opens = opens,
                               !.until = till]
           B == [Absent EXCEPT !.state = "closed", !.attempts = tries, !.opens = e.opens]
<1>1. tries \in 0 .. Threshold /\ opens \in 0 .. OpenCap /\ e.opens \in 0 .. OpenCap
  BY CircuitAssumption DEF Entry, AtMost
<1>2. till \in Time
  BY BlockedUntilType
<1> HIDE DEF tries, opens, till
<1>3. A \in Entry /\ A.lease = NoReq
  BY <1>1, <1>2, ConstantEntries DEF Absent, Entry
<1>4. B \in Entry /\ B.lease = NoReq
  BY <1>1, ConstantEntries DEF Absent, Entry
<1> USE DEF tries, opens, till
<1>5. ApplyFailure(e, reason, retry, now, w) \in {A, B}
  BY DEF ApplyFailure
<1> HIDE DEF A, B
<1> QED BY <1>3, <1>4, <1>5

\* prune() removes at most one entry and changes no other.
LEMMA PrunedEntries ==
    ASSUME NEW E \in Entries, NEW spared, NEW G \in Pruned(E, spared)
    PROVE  G \in Entries /\ \A k \in Target : G[k] = E[k] \/ G[k] = Absent
<1>1. CASE G = E
  BY <1>1
<1>2. CASE \E v \in Target : G = [k \in Target |-> IF k = v THEN Absent ELSE E[k]]
  BY <1>2, ConstantEntries DEF Entries
<1>3. G = E \/ \E v \in Target : G = [k \in Target |-> IF k = v THEN Absent ELSE E[k]]
  BY DEF Pruned, Present
<1> QED BY <1>1, <1>2, <1>3

\* A failure report keeps the entries well typed.
LEMMA FailedType ==
    ASSUME NEW E \in Entries, NEW keys \in SUBSET Target, NEW t \in Target, NEW reason,
           NEW retry \in RetryAfter \cup {NoTime}, NEW now \in Nat
    PROVE  FailedEntries(E, keys, t, reason, retry, now) \in Entries
<1> DEFINE scope == FailureScope(t, reason)
           old == IF E[scope].state = "absent" THEN Closed ELSE E[scope]
<1>1. scope \in Target
  BY DEF FailureScope, Target
<1>2. old \in Entry
  BY <1>1, ConstantEntries DEF Entries
<1>3. \A k \in Target : E[k] \in Entry
  BY DEF Entries
<1>4. \A e \in Entry : \A w \in BOOLEAN : ApplyFailure(e, reason, retry, now, w) \in Entry
  BY ApplyFailureType
<1>5. ApplyFailure(old, reason, retry, now, old.state = "half-open") \in Entry
  BY <1>2, <1>4
<1> QED BY <1>3, <1>4, <1>5 DEF FailedEntries, Entries

\* Taking the lease keeps the entries well typed.
LEMMA GrantedType ==
    ASSUME NEW R \in Entries, NEW K, NEW p \in Proc, NEW r \in Req, NEW now \in Nat
    PROVE  Granted(R, K, p, r, now) \in Entries
<1>1. ASSUME NEW k \in Target
      PROVE  [R[k] EXCEPT !.lease = r, !.owner = p, !.expires = now + LeaseTTL] \in Entry
  <2>1. R[k] \in Entry /\ now + LeaseTTL \in Time
    BY CircuitAssumption DEF Entries, Time
  <2> QED BY <2>1 DEF Entry
<1> QED BY <1>1 DEF Granted, Entries

(***************************************************************************)
(* Type correctness.                                                       *)
(***************************************************************************)
FileType == [savedAt : 0 .. MaxTime, entries : Entries]

\* persist() leaves a well-typed store.
LEMMA PersistType ==
    ASSUME NEW at \in 0 .. MaxTime, NEW E \in Entries, file \in FileType
    PROVE  /\ Persist(at, E) => file' \in FileType
           /\ \A B : PersistIfChanged(at, B, E) => file' \in FileType
<1>1. [savedAt |-> at, entries |-> E] \in FileType
  BY DEF FileType
<1>2. Persist(at, E) => file' \in FileType
  BY <1>1 DEF Persist
<1> QED BY <1>2 DEF PersistIfChanged

\* A dispatch that ends is a well-typed one that no longer runs.
LEMMA EndedType ==
    ASSUME NEW q \in Request, NEW st \in {"settled", "lost"}
    PROVE  Ended(q, st) \in Request /\ Ended(q, st).st # "running"
BY CircuitAssumption DEF Ended, Request

\* The part of a report that all of its branches share.
LEMMA ReportTypes ==
    ASSUME TypeOK, NEW r \in Req, req[r].st = "running", file' \in FileType,
           Ticked(req[r].proc), Settle(r), UNCHANGED <<clock, alive>>
    PROVE  TypeOK'
<1>1. req[r].proc \in Proc /\ NowOf(req[r].proc) \in 0 .. MaxTime
  BY OpenedType DEF TypeOK
<1>2. lastClock' \in [Proc -> 0 .. MaxTime]
  BY <1>1 DEF Ticked, TypeOK
<1>3. /\ req' \in [Req -> Request]
      /\ \A q \in Req : req'[q].st = "running" => req'[q].proc \in Proc
  <2>1. req[r] \in Request
    BY DEF TypeOK
  <2>2. Ended(req[r], "settled") \in Request /\ Ended(req[r], "settled").st # "running"
    BY <2>1, EndedType
  <2> QED BY <2>2 DEF Settle, TypeOK
<1> QED BY <1>2, <1>3 DEF TypeOK, FileType, Entries

\* A report's file, in each branch of recordFailure and recordSuccess.
LEMMA ReportFile ==
    ASSUME TypeOK, NEW r \in Req, req[r].st = "running"
    PROVE  /\ StaleReport(r) => file' \in FileType
           /\ ReleaseProbe(r) => file' \in FileType
           /\ CloseAll(r) => file' \in FileType
           /\ \A retry \in RetryAfter \cup {NoTime}, reason \in Reason :
                 ProviderFailure(r, reason, retry) => file' \in FileType
<1> DEFINE p == req[r].proc
           t == req[r].tgt
           keys == req[r].keys
           E == Opened(p)
           now == NowOf(p)
           Rel == [k \in Target |-> IF k \in keys
                      THEN [Unleased(E[k]) EXCEPT !.state = "open", !.until = now]
                      ELSE E[k]]
           Clo == [k \in Target |-> IF k \in ClosedBy(E, r) THEN Closed ELSE E[k]]
<1>1. /\ p \in Proc /\ t \in Target /\ keys \in SUBSET Target
      /\ E \in Entries /\ now \in 0 .. MaxTime /\ now \in Nat /\ now \in Int
      /\ file \in FileType
  BY OpenedType, CircuitAssumption DEF TypeOK, Request, FileType, Entries
<1> HIDE DEF p, t, keys, E, now
<1>2. \A F \in Entries : \A K : Refresh(F, K, now, p) \in Entries
  BY <1>1, RefreshType
<1>3. StaleReport(r) => file' \in FileType
  BY <1>1, <1>2, PersistType DEF StaleReport, StatusOf, p, t, E, now
<1>4. ReleaseProbe(r) => file' \in FileType
  <2>1. ASSUME NEW k \in Target
        PROVE  [Unleased(E[k]) EXCEPT !.state = "open", !.until = now] \in Entry
    <3>1. Unleased(E[k]) \in Entry
      BY <1>1, EntryOps DEF Entries
    <3> QED BY <1>1, <3>1 DEF Entry, Time
  <2>2. Rel \in Entries
    BY <1>1, <2>1 DEF Entries
  <2>3. Refresh(Rel, Applicable(Rel, t), now, p) \in Entries
    BY <1>2, <2>2
  <2> QED BY <1>1, <2>3, PersistType DEF ReleaseProbe, p, t, E, now, keys
<1>5. CloseAll(r) => file' \in FileType
  <2>1. Clo \in Entries
    BY <1>1, ConstantEntries DEF Entries
  <2>2. Refresh(Clo, Applicable(Clo, t), now, p) \in Entries
    BY <1>2, <2>1
  <2> QED BY <1>1, <2>2, PersistType DEF CloseAll, p, t, E, now
<1>6. ASSUME NEW retry \in RetryAfter \cup {NoTime}, NEW reason \in Reason,
             ProviderFailure(r, reason, retry)
      PROVE  file' \in FileType
  <2> DEFINE F == FailedEntries(E, keys, t, reason, retry, now)
  <2>1. F \in Entries
    BY <1>1, FailedType
  <2>2. PICK G \in Pruned(F, keys \cup {FailureScope(t, reason)}) : Persist(now, G)
    BY <1>6 DEF ProviderFailure, p, t, E, now, keys
  <2>3. G \in Entries
    BY <2>1, <2>2, PrunedEntries
  <2> QED BY <1>1, <2>2, <2>3, PersistType
<1> QED BY <1>3, <1>4, <1>5, <1>6

\* Every step of the breaker, of its callers and of the environment.
LEMMA TypeStep == TypeOK /\ [Next]_vars => TypeOK'
<1> SUFFICES ASSUME TypeOK, [Next]_vars PROVE TypeOK'
  OBVIOUS
<1>a. file \in FileType
  BY DEF TypeOK, FileType, Entries
<1>b. \A p \in Proc : /\ Opened(p) \in Entries /\ Loaded(p) \in Entries
                      /\ NowOf(p) \in 0 .. MaxTime /\ NowOf(p) \in Nat /\ NowOf(p) \in Int
                      /\ lastClock[p] \in 0 .. MaxTime
  BY OpenedType, CircuitAssumption DEF TypeOK
<1>c. \A p \in Proc, E \in Entries : \A K : Refresh(E, K, NowOf(p), p) \in Entries
  BY <1>b, RefreshType
<1>d. \A p \in Proc : Ticked(p) => lastClock' \in [Proc -> 0 .. MaxTime]
  BY <1>b DEF Ticked, TypeOK
<1>1. ASSUME NEW p \in Proc, NEW r \in Req, NEW t \in RequestTarget, TryAcquire(p, r, t)
      PROVE  TypeOK'
  <2> DEFINE E == Opened(p)
             R == Refresh(E, Applicable(E, t), NowOf(p), p)
             K == Probes(R, Applicable(E, t))
  <2>1. t \in Target
    BY TargetAssumption
  <2>2. E \in Entries /\ R \in Entries /\ K \in SUBSET Target
    BY <1>b, <1>c DEF Probes, Applicable, Present
  <2>3. Granted(R, K, p, r, NowOf(p)) \in Entries
    BY <2>2, <1>b, GrantedType
  <2>4. ASSUME NEW keys \in SUBSET Target, Dispatch(p, r, t, keys)
        PROVE  /\ req' \in [Req -> Request]
               /\ \A q \in Req : req'[q].st = "running" => req'[q].proc \in Proc
    BY <2>1, <2>4 DEF Dispatch, TypeOK, Request
  <2> HIDE DEF E, R, K
  <2>5. CASE AcquireDenied(p, t)
    BY <2>5, <2>2, <1>a, <1>b, <1>d, PersistType, <1>1
       DEF AcquireDenied, TryAcquire, E, R, TypeOK, FileType, Entries
  <2>6. CASE AcquirePlain(p, r, t)
    <3>1. file' \in FileType
      BY <2>6, <2>2, <1>a, <1>b, PersistType DEF AcquirePlain, E, R
    <3>2. Dispatch(p, r, t, {})
      BY <2>6 DEF AcquirePlain
    <3> QED BY <3>1, <3>2, <2>4, <1>d, <1>1 DEF TryAcquire, TypeOK, FileType, Entries
  <2>7. CASE AcquireProbe(p, r, t)
    <3>1. file' \in FileType
      BY <2>7, <2>3, <1>a, <1>b, PersistType DEF AcquireProbe, E, R, K
    <3>2. Dispatch(p, r, t, K)
      BY <2>7 DEF AcquireProbe, E, R, K
    <3> QED BY <3>1, <3>2, <2>2, <2>4, <1>d, <1>1 DEF TryAcquire, TypeOK, FileType, Entries
  <2> QED BY <2>5, <2>6, <2>7, <1>1 DEF TryAcquire
<1>2. ASSUME NEW r \in Req, NEW retry \in RetryAfter \cup {NoTime},
             NEW reason \in Reason \cup {"none"}, RecordFailure(r, reason, retry)
      PROVE  TypeOK'
  <2>1. file' \in FileType
    BY <1>2, ReportFile DEF RecordFailure
  <2> QED BY <1>2, <2>1, ReportTypes DEF RecordFailure
<1>3. ASSUME NEW r \in Req, RecordSuccess(r) PROVE TypeOK'
  <2>1. file' \in FileType
    BY <1>3, ReportFile DEF RecordSuccess
  <2> QED BY <1>3, <2>1, ReportTypes DEF RecordSuccess
<1>4. ASSUME NEW r \in Req, Abandon(r) PROVE TypeOK'
  BY <1>4, EndedType DEF Abandon, TypeOK
<1>5. ASSUME NEW p \in Proc, NEW E \in Entries, Persist(lastClock[p], E),
             UNCHANGED <<clock, lastClock, alive, req>>
      PROVE  TypeOK'
  BY <1>5, <1>a, <1>b, PersistType DEF TypeOK, FileType, Entries
<1>6. ASSUME NEW p \in Proc, NEW scope, Reset(p, scope) PROVE TypeOK'
  <2> DEFINE gone == {k \in Present(Loaded(p)) : AppliesTo(scope, k)}
             G == [k \in Target |-> IF k \in gone THEN Absent ELSE Loaded(p)[k]]
  <2>1. G \in Entries
    BY <1>b, ConstantEntries DEF Entries
  <2> QED BY <1>5, <1>6, <2>1 DEF Reset
<1>7. ASSUME NEW p \in Proc, ResetAll(p) PROVE TypeOK'
  <2>1. [k \in Target |-> Absent] \in Entries
    BY ConstantEntries DEF Entries
  <2> QED BY <1>5, <1>7, <2>1 DEF ResetAll
<1>8. ASSUME NEW p \in Proc, NEW t \in AnnotateTarget, Annotate(p, t) PROVE TypeOK'
  <2> DEFINE E == Loaded(p)
             F == IF E[t].state = "absent" THEN [E EXCEPT ![t] = Closed] ELSE E
  <2>1. F \in Entries
    BY <1>b, ConstantEntries DEF Entries
  <2>2. PICK G \in Pruned(F, {}) : Persist(lastClock[p], G)
    BY <1>8 DEF Annotate
  <2> HIDE DEF F
  <2>3. G \in Entries
    BY <2>1, <2>2, PrunedEntries
  <2> QED BY <1>5, <1>8, <2>2, <2>3 DEF Annotate
<1>9. ASSUME NEW p \in Proc, NEW t \in RequestTarget, Status(p, t) PROVE TypeOK'
  <2>1. file' \in FileType
    BY <1>9, <1>a, <1>b, <1>c, PersistType DEF Status, StatusOf
  <2> QED BY <1>9, <2>1, <1>d DEF Status, TypeOK, FileType, Entries
<1>10. ASSUME NEW p \in Proc, ListStatuses(p) PROVE TypeOK'
  <2>1. file' \in FileType
    BY <1>10, <1>a, <1>b, <1>c, PersistType DEF ListStatuses
  <2> QED BY <1>10, <2>1, <1>d DEF ListStatuses, TypeOK, FileType, Entries
<1>11. ASSUME NEW p \in Proc, Start(p) PROVE TypeOK'
  BY <1>11 DEF Start, TypeOK
<1>12. ASSUME NEW p \in Proc, Crash(p) PROVE TypeOK'
  BY <1>12, EndedType DEF Crash, TypeOK
<1>13. CASE Tick
  BY <1>13, CircuitAssumption DEF Tick, TypeOK
<1>14. ASSUME NEW d \in Backs, ClockBack(d) PROVE TypeOK'
  BY <1>14, CircuitAssumption DEF ClockBack, TypeOK
<1>15. CASE UNCHANGED vars
  BY <1>15 DEF vars, TypeOK
<1> QED BY <1>1, <1>2, <1>3, <1>4, <1>6, <1>7, <1>8, <1>9, <1>10, <1>11, <1>12, <1>13,
           <1>14, <1>15 DEF Next, FailureStep, OtherStep

\* The store, the clocks and the dispatches keep their types, for any number of
\* processes, requests and targets.
THEOREM TypeCorrect == Spec => []TypeOK
<1>1. Init => TypeOK
  BY CircuitAssumption, TargetAssumption, ConstantEntries DEF Init, TypeOK, Request
<1> QED BY <1>1, TypeStep, PTL DEF Spec

(***************************************************************************)
(* Leases.  Reading the store - rebasing, expiring - can lose a lease and  *)
(* never makes one, and never touches a block without deadline.            *)
(***************************************************************************)
SameLease(e, f) ==
    f.lease = e.lease /\ f.owner = e.owner /\ f.expires = e.expires /\ f.state = e.state

Forever(e) == e.state = "open" /\ e.until = NoTime

\* F is E after some rebasing and expiring.
Faded(E, F) ==
    \A k \in Target : /\ F[k].lease # NoReq => SameLease(E[k], F[k])
                      /\ Forever(E[k]) => Forever(F[k])

\* shiftTimestamps leaves leases and undated blocks alone.
LEMMA ShiftFades ==
    ASSUME NEW E \in Entries, NEW delta \in Int
    PROVE  Faded(E, ShiftTimestamps(E, delta))
<1>1. ASSUME NEW k \in Target
      PROVE  /\ SameLease(E[k], ShiftTimestamps(E, delta)[k])
             /\ Forever(E[k]) => Forever(ShiftTimestamps(E, delta)[k])
  <2>1. E[k] \in Entry
    BY DEF Entries
  <2> QED BY <2>1 DEF ShiftTimestamps, SameLease, Forever, Entry
<1> QED BY <1>1 DEF Faded

\* Neither an expired block nor an expired lease is replaced by a new lease.
LEMMA RefreshFades ==
    ASSUME NEW E \in Entries, NEW K, NEW now \in Int, NEW p \in Proc
    PROVE  Faded(E, Refresh(E, K, now, p))
<1>1. ASSUME NEW e \in Entry
      PROVE  LET f == ExpireLease(ExpireOpen(e, now), now, p)
             IN  /\ f.lease # NoReq => SameLease(e, f)
                 /\ Forever(e) => Forever(f)
  <2>1. CASE ExpireOpen(e, now) = e
    BY <2>1 DEF ExpireLease, Unleased, SameLease, Forever, Entry
  <2>2. CASE ExpireOpen(e, now) # e
    <3>1. ExpireOpen(e, now).lease = NoReq /\ ~Forever(e)
      BY <2>2 DEF ExpireOpen, Unleased, Forever, Entry
    <3> QED BY <3>1 DEF ExpireLease
  <2> QED BY <2>1, <2>2
<1>2. \A k \in Target : E[k] \in Entry
  BY DEF Entries
<1>3. \A e : SameLease(e, e)
  BY DEF SameLease
<1> QED BY <1>1, <1>2, <1>3 DEF Faded, Refresh

\* Fading composes.
LEMMA FadedTrans ==
    ASSUME NEW E, NEW F, NEW G, Faded(E, F), Faded(F, G)
    PROVE  Faded(E, G)
BY DEF Faded, SameLease

\* What an operation works on is the store, faded.
LEMMA OpenedFades ==
    ASSUME TypeOK, NEW p \in Proc
    PROVE  /\ Faded(file.entries, Loaded(p))
           /\ Faded(file.entries, Opened(p))
           /\ \A K : Faded(file.entries, Refresh(Opened(p), K, NowOf(p), p))
<1>1. /\ file.entries \in Entries /\ file.savedAt \in Int
      /\ lastClock[p] \in Int /\ clock \in Int
      /\ Loaded(p) \in Entries /\ Opened(p) \in Entries /\ NowOf(p) \in Int
  BY CircuitAssumption, OpenedType DEF TypeOK, Entries
<1>2. Faded(file.entries, Loaded(p))
  <2> DEFINE S == ShiftTimestamps(file.entries, lastClock[p] - file.savedAt)
  <2>1. S \in Entries /\ Faded(file.entries, S)
    BY <1>1, ShiftType, ShiftFades
  <2>2. Faded(S, Refresh(S, Target, lastClock[p], p))
    BY <1>1, <2>1, RefreshFades
  <2>3. Faded(file.entries, Refresh(file.entries, Target, lastClock[p], p))
    BY <1>1, RefreshFades
  <2> HIDE DEF S
  <2>4. Faded(file.entries, Refresh(S, Target, lastClock[p], p))
    BY <2>1, <2>2, FadedTrans
  <2> QED BY <2>3, <2>4 DEF Loaded, S
<1>3. Faded(file.entries, Opened(p))
  <2>1. Faded(Loaded(p), ShiftTimestamps(Loaded(p), clock - lastClock[p]))
    BY <1>1, ShiftFades
  <2>2. Faded(file.entries, ShiftTimestamps(Loaded(p), clock - lastClock[p]))
    BY <1>2, <2>1, FadedTrans
  <2> QED BY <1>2, <2>2 DEF Opened
<1>4. ASSUME NEW K PROVE Faded(file.entries, Refresh(Opened(p), K, NowOf(p), p))
  BY <1>1, <1>3, RefreshFades, FadedTrans
<1> QED BY <1>2, <1>3, <1>4

\* No lease appears in the store.
Inherits == \A k \in Target :
    file'.entries[k].lease # NoReq => SameLease(file.entries[k], file'.entries[k])

\* Dispatches only come to an end.
OnlyEnds == \A r \in Req : req'[r] = req[r] \/ req'[r].st \in {"settled", "lost"}

\* A store written from entries that add no lease inherits its leases.
LEMMA PersistInherits ==
    ASSUME TypeOK, NEW at, NEW E,
           \A k \in Target : E[k].lease # NoReq => SameLease(file.entries[k], E[k])
    PROVE  /\ Persist(at, E) => Inherits
           /\ \A B : PersistIfChanged(at, B, E) => Inherits
<1>1. UNCHANGED file => Inherits
  BY DEF Inherits, SameLease
<1>2. file' = [savedAt |-> at, entries |-> E] => Inherits
  BY DEF Inherits
<1> QED BY <1>1, <1>2 DEF Persist, PersistIfChanged

\* The reports, the resets, the annotations and the reads add no lease.
LEMMA ReportInherits ==
    ASSUME TypeOK, NEW r \in Req, req[r].st = "running"
    PROVE  /\ StaleReport(r) => Inherits
           /\ ReleaseProbe(r) => Inherits
           /\ CloseAll(r) => Inherits
           /\ \A retry \in RetryAfter \cup {NoTime}, reason \in Reason :
                 ProviderFailure(r, reason, retry) => Inherits
<1> DEFINE p == req[r].proc
           t == req[r].tgt
           keys == req[r].keys
           E == Opened(p)
           now == NowOf(p)
           Rel == [k \in Target |-> IF k \in keys
                      THEN [Unleased(E[k]) EXCEPT !.state = "open", !.until = now]
                      ELSE E[k]]
           Clo == [k \in Target |-> IF k \in ClosedBy(E, r) THEN Closed ELSE E[k]]
<1>1. /\ p \in Proc /\ t \in Target /\ keys \in SUBSET Target
      /\ E \in Entries /\ now \in Nat /\ now \in Int
      /\ Faded(file.entries, E)
      /\ \A K : Faded(file.entries, Refresh(E, K, now, p))
  BY OpenedType, OpenedFades, CircuitAssumption DEF TypeOK, Request
<1> HIDE DEF p, t, keys, E, now
<1>2. ASSUME NEW F \in Entries, \A k \in Target : F[k] = E[k] \/ F[k].lease = NoReq,
             NEW K, NEW k \in Target, Refresh(F, K, now, p)[k].lease # NoReq
      PROVE  SameLease(file.entries[k], Refresh(F, K, now, p)[k])
  <2>1. SameLease(F[k], Refresh(F, K, now, p)[k])
    BY <1>1, <1>2, RefreshFades DEF Faded
  <2>2. F[k] = E[k] /\ SameLease(file.entries[k], E[k])
    BY <1>1, <1>2, <2>1 DEF SameLease, Faded
  <2> QED BY <2>1, <2>2 DEF SameLease
<1>3. StaleReport(r) => Inherits
  BY <1>1, PersistInherits DEF StaleReport, StatusOf, Faded, p, t, E, now
<1>4. ReleaseProbe(r) => Inherits
  <2>1. \A k \in Target : E[k] \in Entry /\ Unleased(E[k]) \in Entry
    BY <1>1, EntryOps DEF Entries
  <2>2. \A k \in Target : Unleased(E[k]).lease = NoReq
    BY <2>1 DEF Unleased, Entry
  <2>3. \A k \in Target : [Unleased(E[k]) EXCEPT !.state = "open", !.until = now] \in Entry
    BY <1>1, <2>1, ZenonT(60) DEF Entry, Time
  <2>4. Rel \in Entries /\ \A k \in Target : Rel[k] = E[k] \/ Rel[k].lease = NoReq
    BY <2>1, <2>2, <2>3 DEF Entries, Entry
  <2> HIDE DEF Rel
  <2>5. \A k \in Target : Refresh(Rel, Applicable(Rel, t), now, p)[k].lease # NoReq =>
            SameLease(file.entries[k], Refresh(Rel, Applicable(Rel, t), now, p)[k])
    BY <1>2, <2>4
  <2> QED BY <2>5, PersistInherits DEF ReleaseProbe, Rel, p, t, keys, E, now
<1>5. CloseAll(r) => Inherits
  <2>1. Clo \in Entries /\ \A k \in Target : Clo[k] = E[k] \/ Clo[k].lease = NoReq
    BY <1>1, ConstantEntries DEF Entries, Closed, Absent
  <2> HIDE DEF Clo
  <2>2. \A k \in Target : Refresh(Clo, Applicable(Clo, t), now, p)[k].lease # NoReq =>
            SameLease(file.entries[k], Refresh(Clo, Applicable(Clo, t), now, p)[k])
    BY <1>2, <2>1
  <2>3. UNCHANGED file => Inherits
    BY DEF Inherits, SameLease
  <2> QED BY <2>2, <2>3, PersistInherits DEF CloseAll, Clo, p, t, E, now
<1>6. ASSUME NEW retry \in RetryAfter \cup {NoTime}, NEW reason \in Reason,
             ProviderFailure(r, reason, retry)
      PROVE  Inherits
  <2> DEFINE F == FailedEntries(E, keys, t, reason, retry, now)
             scope == FailureScope(t, reason)
             old == IF E[scope].state = "absent" THEN Closed ELSE E[scope]
  <2>1. F \in Entries
    BY <1>1, FailedType
  <2>2. scope \in Target /\ old \in Entry /\ \A k \in Target : E[k] \in Entry
    BY <1>1, ConstantEntries DEF FailureScope, Target, Entries
  <2>3. \A k \in Target : F[k] = E[k] \/ F[k].lease = NoReq
    <3>1. \A k \in Target : ApplyFailure(E[k], reason, retry, now, TRUE).lease = NoReq
      BY <1>1, <2>2, ApplyFailureType, ZenonT(60)
    <3>2. ApplyFailure(old, reason, retry, now, old.state = "half-open").lease = NoReq
      BY <1>1, <2>2, ApplyFailureType
    <3> QED BY <3>1, <3>2 DEF FailedEntries
  <2> HIDE DEF F
  <2>4. PICK G \in Pruned(F, keys \cup {scope}) : Persist(now, G)
    BY <1>6 DEF ProviderFailure, F, p, t, keys, E, now
  <2>5. \A k \in Target : G[k].lease # NoReq => G[k] = E[k]
    BY <2>1, <2>3, <2>4, PrunedEntries DEF Absent
  <2>6. \A k \in Target : G[k].lease # NoReq => SameLease(file.entries[k], G[k])
    BY <1>1, <2>5 DEF Faded
  <2> QED BY <2>4, <2>6, PersistInherits
<1> QED BY <1>3, <1>4, <1>5, <1>6

\* A step either adds no lease while dispatches end, or starts one dispatch.
Quiet == Inherits /\ OnlyEnds
Begins(p, r, t) == Inherits /\ FreshId(r) /\ Dispatch(p, r, t, {})
Probing(p, r, t, K, R) ==
    /\ FreshId(r) /\ Dispatch(p, r, t, K)
    /\ K = Probes(R, Applicable(Opened(p), t))
    /\ R = Refresh(Opened(p), Applicable(Opened(p), t), NowOf(p), p)
    /\ Blockers(R, Applicable(Opened(p), t)) = {}
    /\ Persist(NowOf(p), Granted(R, K, p, r, NowOf(p)))

\* The three kinds of step, as far as leases are concerned.
LEMMA StepKinds ==
    ASSUME TypeOK, [Next]_vars
    PROVE  \/ Quiet
           \/ \E p \in Proc, r \in Req, t \in RequestTarget :
                 Begins(p, r, t) \/ \E K, R : Probing(p, r, t, K, R)
<1>a. \A r \in Req : Settle(r) => OnlyEnds
  BY DEF Settle, OnlyEnds, Ended, TypeOK, Request
<1>b. UNCHANGED req => OnlyEnds
  BY DEF OnlyEnds
<1>c. UNCHANGED file => Inherits
  BY DEF Inherits, SameLease
<1>1. ASSUME NEW p \in Proc, NEW r \in Req, NEW t \in RequestTarget, TryAcquire(p, r, t)
      PROVE  Quiet \/ Begins(p, r, t) \/ \E K, R : Probing(p, r, t, K, R)
  <2> DEFINE E == Opened(p)
             R == Refresh(E, Applicable(E, t), NowOf(p), p)
             K == Probes(R, Applicable(E, t))
  <2>1. \A k \in Target : R[k].lease # NoReq => SameLease(file.entries[k], R[k])
    BY OpenedFades DEF Faded
  <2>2. CASE AcquireDenied(p, t)
    BY <2>1, <2>2, <1>b, PersistInherits DEF AcquireDenied, Quiet
  <2>3. CASE AcquirePlain(p, r, t)
    BY <2>1, <2>3, <1>1, PersistInherits DEF AcquirePlain, TryAcquire, Begins
  <2>4. CASE AcquireProbe(p, r, t)
    <3>1. Probing(p, r, t, K, R)
      BY <2>4, <1>1 DEF AcquireProbe, TryAcquire, Probing
    <3> QED BY <3>1
  <2> QED BY <2>2, <2>3, <2>4, <1>1 DEF TryAcquire
<1>2. ASSUME NEW r \in Req, NEW retry \in RetryAfter \cup {NoTime},
             NEW reason \in Reason \cup {"none"}, RecordFailure(r, reason, retry)
      PROVE  Quiet
  BY <1>2, <1>a, ReportInherits DEF RecordFailure, Quiet
<1>3. ASSUME NEW r \in Req, RecordSuccess(r) PROVE Quiet
  BY <1>3, <1>a, ReportInherits DEF RecordSuccess, Quiet
<1>4. ASSUME NEW r \in Req, Abandon(r) PROVE Quiet
  <2>1. OnlyEnds
    BY <1>4 DEF Abandon, OnlyEnds, Ended, TypeOK, Request
  <2> QED BY <2>1, <1>4, <1>c DEF Abandon, Quiet
<1>5. ASSUME NEW p \in Proc, NEW scope, Reset(p, scope) PROVE Quiet
  <2> DEFINE gone == {k \in Present(Loaded(p)) : AppliesTo(scope, k)}
             G == [k \in Target |-> IF k \in gone THEN Absent ELSE Loaded(p)[k]]
  <2>1. \A k \in Target : G[k].lease # NoReq => SameLease(file.entries[k], G[k])
    BY OpenedFades DEF Faded, Absent
  <2> QED BY <2>1, <1>5, <1>b, PersistInherits DEF Reset, Quiet
<1>6. ASSUME NEW p \in Proc, ResetAll(p) PROVE Quiet
  <2> DEFINE G == [k \in Target |-> Absent]
  <2>1. \A k \in Target : G[k].lease # NoReq => SameLease(file.entries[k], G[k])
    BY DEF Absent
  <2> QED BY <2>1, <1>6, <1>b, PersistInherits DEF ResetAll, Quiet
<1>7. ASSUME NEW p \in Proc, NEW t \in AnnotateTarget, Annotate(p, t) PROVE Quiet
  <2> DEFINE E == Loaded(p)
             F == IF E[t].state = "absent" THEN [E EXCEPT ![t] = Closed] ELSE E
  <2>1. E \in Entries /\ Faded(file.entries, E)
    BY OpenedType, OpenedFades
  <2>2. F \in Entries /\ \A k \in Target : F[k].lease # NoReq => F[k] = E[k]
    BY <2>1, ConstantEntries DEF Entries, Closed, Absent
  <2>3. PICK G \in Pruned(F, {}) : Persist(lastClock[p], G)
    BY <1>7 DEF Annotate
  <2> HIDE DEF F
  <2>4. \A k \in Target : G[k].lease # NoReq => G[k] = E[k]
    BY <2>2, <2>3, PrunedEntries DEF Absent
  <2>5. \A k \in Target : G[k].lease # NoReq => SameLease(file.entries[k], G[k])
    BY <2>1, <2>4 DEF Faded
  <2> QED BY <1>7, <1>b, <2>3, <2>5, PersistInherits DEF Annotate, Quiet
<1>8. ASSUME NEW p \in Proc, NEW t, Status(p, t) \/ ListStatuses(p) PROVE Quiet
  <2>1. ASSUME NEW K, NEW k \in Target, Refresh(Opened(p), K, NowOf(p), p)[k].lease # NoReq
        PROVE  SameLease(file.entries[k], Refresh(Opened(p), K, NowOf(p), p)[k])
    BY <2>1, OpenedFades DEF Faded
  <2> QED BY <2>1, <1>8, <1>b, PersistInherits DEF Status, StatusOf, ListStatuses, Quiet
<1>9. ASSUME NEW p \in Proc, Crash(p) PROVE Quiet
  <2>1. \A q \in Request : Ended(q, "lost").st = "lost"
    BY DEF Ended, Request
  <2>2. OnlyEnds
    BY <1>9, <2>1 DEF Crash, OnlyEnds, TypeOK
  <2> QED BY <2>2, <1>9, <1>c DEF Crash, Quiet
<1>10. ASSUME \/ \E p \in Proc : Start(p)
              \/ Tick
              \/ \E d \in Backs : ClockBack(d)
              \/ UNCHANGED vars
       PROVE  Quiet
  BY <1>10, <1>b, <1>c DEF Start, Tick, ClockBack, vars, Quiet
<1> QED BY <1>1, <1>2, <1>3, <1>4, <1>5, <1>6, <1>7, <1>8, <1>9, <1>10
        DEF Next, FailureStep, OtherStep

\* LeaseAccountable is inductive on top of the types.
LEMMA AccountableStep == TypeOK /\ LeaseAccountable /\ [Next]_vars => LeaseAccountable'
<1> SUFFICES ASSUME TypeOK, LeaseAccountable, [Next]_vars, NEW k \in Target,
                    file'.entries[k].lease # NoReq
             PROVE  LET e == file'.entries[k] IN
                    /\ e.state = "half-open" /\ e.owner \in Proc /\ e.expires # NoTime
                    /\ req'[e.lease].st # "fresh"
                    /\ req'[e.lease].st = "running" =>
                          k \in req'[e.lease].keys /\ req'[e.lease].proc = e.owner
  BY DEF LeaseAccountable
<1> DEFINE e == file.entries[k]
           f == file'.entries[k]
<1>a. e \in Entry /\ f \in Entry
  BY TypeStep DEF TypeOK
<1>b. e.lease # NoReq =>
         /\ e.lease \in Req
         /\ e.state = "half-open" /\ e.owner \in Proc /\ e.expires # NoTime
         /\ req[e.lease].st # "fresh"
         /\ req[e.lease].st = "running" =>
               k \in req[e.lease].keys /\ req[e.lease].proc = e.owner
  BY <1>a DEF LeaseAccountable, Entry
<1>1. CASE Quiet
  BY <1>1, <1>b DEF Quiet, Inherits, SameLease, OnlyEnds
<1>2. ASSUME NEW p \in Proc, NEW r \in Req, NEW t \in RequestTarget, Begins(p, r, t)
      PROVE  f.lease \in Req /\ f.lease # r /\ req'[f.lease] = req[f.lease] /\ SameLease(e, f)
  <2>1. SameLease(e, f) /\ f.lease \in Req
    BY <1>2, <1>a DEF Begins, Inherits, Entry
  <2>2. e.lease # r
    BY <1>2 DEF Begins, FreshId
  <2> QED BY <2>1, <2>2, <1>2 DEF Begins, Dispatch, SameLease, TypeOK
<1>3. ASSUME NEW p \in Proc, NEW r \in Req, NEW t \in RequestTarget, NEW K, NEW R,
             Probing(p, r, t, K, R)
      PROVE  /\ f.state = "half-open" /\ f.owner \in Proc /\ f.expires # NoTime
             /\ req'[f.lease].st # "fresh"
             /\ req'[f.lease].st = "running" =>
                   k \in req'[f.lease].keys /\ req'[f.lease].proc = f.owner
  <2>0. e.lease # r /\ req' = [req EXCEPT ![r] = [st |-> "running", proc |-> p, tgt |-> t, keys |-> K]]
    BY <1>3 DEF Probing, FreshId, Dispatch
  <2>1. CASE f = e
    <3>1. f.lease \in Req /\ f.lease # r
      BY <2>0, <2>1, <1>b
    <3>2. req'[f.lease] = req[f.lease]
      BY <2>0, <3>1 DEF TypeOK
    <3> QED BY <2>1, <3>2, <1>b
  <2>2. CASE k \in K /\ f = [R[k] EXCEPT !.lease = r, !.owner = p, !.expires = NowOf(p) + LeaseTTL]
    <3>1. R[k] \in Entry /\ R[k].state = "half-open" /\ NowOf(p) \in Nat
      <4>1. Opened(p) \in Entries /\ NowOf(p) \in Nat /\ NowOf(p) \in Int
        BY OpenedType, CircuitAssumption
      <4> QED BY <1>3, <2>2, <4>1, RefreshType DEF Probing, Probes, Entries
    <3>2. f.state = "half-open" /\ f.owner = p /\ f.lease = r /\ f.expires = NowOf(p) + LeaseTTL
      BY <2>2, <3>1 DEF Entry
    <3>3. f.expires # NoTime
      BY <3>1, <3>2, CircuitAssumption DEF NoTime
    <3> QED BY <2>0, <2>2, <3>2, <3>3 DEF TypeOK
  <2>3. CASE k \notin K /\ f = R[k]
    <3>1. SameLease(e, f)
      BY <1>3, <2>3, OpenedFades DEF Probing, Faded
    <3>2. f.lease \in Req /\ f.lease # r
      BY <2>0, <3>1, <1>b DEF SameLease
    <3>3. req'[f.lease] = req[f.lease]
      BY <2>0, <3>2 DEF TypeOK
    <3> QED BY <3>1, <3>3, <1>b DEF SameLease
  <2>4. f = e \/ f = Granted(R, K, p, r, NowOf(p))[k]
    BY <1>3 DEF Probing, Persist
  <2>5. f = e \/ (k \in K /\ f = [R[k] EXCEPT !.lease = r, !.owner = p,
                                             !.expires = NowOf(p) + LeaseTTL])
               \/ (k \notin K /\ f = R[k])
    BY <2>4 DEF Granted
  <2> HIDE DEF e, f
  <2> QED BY <2>1, <2>2, <2>3, <2>5
<1> QED BY <1>1, <1>2, <1>3, <1>b, StepKinds DEF SameLease

\* Every lease in the store is on a half-open circuit and is known to the
\* request that runs under it: its report will find the lease.
THEOREM LeasesAccountable == Spec => []LeaseAccountable
<1>1. Init => LeaseAccountable
  BY DEF Init, LeaseAccountable, Absent
<1> QED BY <1>1, AccountableStep, TypeStep, TypeCorrect, PTL DEF Spec

(***************************************************************************)
(* Scopes: the keys the store can hold, and those a lease can be over.     *)
(***************************************************************************)
Scopes == AnnotateTarget \cup {FailureScope(t, reason) : t \in RequestTarget, reason \in Reason}

Scoped ==
    /\ Present(file.entries) \subseteq Scopes
    /\ \A r \in Req : /\ req[r].tgt \in RequestTarget
                      /\ req[r].st = "running" =>
                            req[r].keys \subseteq {k \in Scopes : AppliesTo(k, req[r].tgt)}

\* Reading the store adds no entry.
LEMMA RefreshAddsNone ==
    ASSUME NEW E, NEW K, NEW now, NEW p
    PROVE  Present(Refresh(E, K, now, p)) \subseteq Present(E)
<1>1. ASSUME NEW e, e.state = "absent"
      PROVE  ExpireLease(ExpireOpen(e, now), now, p) = e
  BY <1>1 DEF ExpireOpen, ExpireLease
<1> QED BY <1>1 DEF Refresh, Present

LEMMA OpenedAddsNone ==
    ASSUME TypeOK, NEW p \in Proc
    PROVE  /\ Present(Loaded(p)) \subseteq Present(file.entries)
           /\ Present(Opened(p)) \subseteq Present(file.entries)
<1>1. ASSUME NEW E \in Entries, NEW delta \in Int
      PROVE  Present(ShiftTimestamps(E, delta)) \subseteq Present(E)
  <2>1. \A k \in Target : E[k] \in Entry
    BY DEF Entries
  <2> QED BY <2>1 DEF ShiftTimestamps, Present, Entry
<1>2. /\ file.entries \in Entries /\ lastClock[p] - file.savedAt \in Int
      /\ Loaded(p) \in Entries /\ clock - lastClock[p] \in Int
  BY CircuitAssumption, OpenedType DEF TypeOK, Entries
<1>3. Present(Loaded(p)) \subseteq Present(file.entries)
  BY <1>1, <1>2, RefreshAddsNone DEF Loaded
<1>4. Present(Opened(p)) \subseteq Present(Loaded(p))
  BY <1>1, <1>2 DEF Opened
<1> QED BY <1>3, <1>4

LEMMA PersistScoped ==
    ASSUME NEW S, Present(file.entries) \subseteq S, NEW at, NEW E, Present(E) \subseteq S
    PROVE  /\ Persist(at, E) => Present(file'.entries) \subseteq S
           /\ \A B : PersistIfChanged(at, B, E) => Present(file'.entries) \subseteq S
<1>1. Persist(at, E) => Present(file'.entries) \subseteq S
  BY DEF Persist
<1> QED BY <1>1 DEF PersistIfChanged

LEMMA ReportScoped ==
    ASSUME TypeOK, Scoped, NEW r \in Req, req[r].st = "running"
    PROVE  LET Kept == Present(file'.entries) \subseteq Scopes
           IN  /\ StaleReport(r) => Kept
               /\ ReleaseProbe(r) => Kept
               /\ CloseAll(r) => Kept
               /\ \A retry \in RetryAfter \cup {NoTime}, reason \in Reason :
                     ProviderFailure(r, reason, retry) => Kept
<1> DEFINE p == req[r].proc
           t == req[r].tgt
           keys == req[r].keys
           E == Opened(p)
           now == NowOf(p)
           Rel == [k \in Target |-> IF k \in keys
                      THEN [Unleased(E[k]) EXCEPT !.state = "open", !.until = now]
                      ELSE E[k]]
           Clo == [k \in Target |-> IF k \in ClosedBy(E, r) THEN Closed ELSE E[k]]
<1>1. /\ p \in Proc /\ t \in Target /\ t \in RequestTarget
      /\ keys \subseteq Scopes /\ E \in Entries
      /\ Present(E) \subseteq Scopes /\ Present(file.entries) \subseteq Scopes
  BY OpenedType, OpenedAddsNone, TargetAssumption DEF TypeOK, Request, Scoped
<1> HIDE DEF p, t, keys, E, now
<1>2. StaleReport(r) => Present(file'.entries) \subseteq Scopes
  BY <1>1, RefreshAddsNone, PersistScoped DEF StaleReport, StatusOf, p, t, E, now
<1>3. ReleaseProbe(r) => Present(file'.entries) \subseteq Scopes
  <2>1. Present(Rel) \subseteq Scopes
    BY <1>1 DEF Present
  <2>2. Present(Refresh(Rel, Applicable(Rel, t), now, p)) \subseteq Scopes
    BY <2>1, RefreshAddsNone
  <2> QED BY <1>1, <2>2, PersistScoped DEF ReleaseProbe, p, t, keys, E, now
<1>4. CloseAll(r) => Present(file'.entries) \subseteq Scopes
  <2>1. Present(Clo) \subseteq Scopes
    BY <1>1 DEF Present, ClosedBy, Applicable
  <2>2. Present(Refresh(Clo, Applicable(Clo, t), now, p)) \subseteq Scopes
    BY <2>1, RefreshAddsNone
  <2> QED BY <1>1, <2>2, PersistScoped DEF CloseAll, p, t, E, now
<1>5. ASSUME NEW retry \in RetryAfter \cup {NoTime}, NEW reason \in Reason,
             ProviderFailure(r, reason, retry)
      PROVE  Present(file'.entries) \subseteq Scopes
  <2> DEFINE F == FailedEntries(E, keys, t, reason, retry, now)
  <2>1. FailureScope(t, reason) \in Scopes
    BY <1>1 DEF Scopes
  <2>2. \A k \in Target : k \in Scopes \/ F[k] = E[k]
    BY <1>1, <2>1 DEF FailedEntries
  <2>3. F \in Entries
    <3>1. keys \in SUBSET Target /\ now \in Nat
      BY <1>1, OpenedType, CircuitAssumption DEF TypeOK, Request, keys, now
    <3> QED BY <1>1, <3>1, FailedType
  <2> HIDE DEF F
  <2>4. PICK G \in Pruned(F, keys \cup {FailureScope(t, reason)}) : Persist(now, G)
    BY <1>5 DEF ProviderFailure, F, p, t, keys, E, now
  <2>5. Present(G) \subseteq Scopes
    BY <1>1, <2>2, <2>3, <2>4, PrunedEntries DEF Present, Absent
  <2> QED BY <1>1, <2>4, <2>5, PersistScoped
<1> QED BY <1>2, <1>3, <1>4, <1>5

LEMMA ScopedStep == TypeOK /\ Scoped /\ [Next]_vars => Scoped'
<1> SUFFICES ASSUME TypeOK, Scoped, [Next]_vars PROVE Scoped'
  OBVIOUS
<1> DEFINE Kept == Present(file'.entries) \subseteq Scopes
           Leases == \A r \in Req :
                        /\ req'[r].tgt \in RequestTarget
                        /\ req'[r].st = "running" =>
                              req'[r].keys \subseteq {k \in Scopes : AppliesTo(k, req'[r].tgt)}
<1>a. /\ Present(file.entries) \subseteq Scopes
      /\ \A p \in Proc : Present(Loaded(p)) \subseteq Scopes /\ Present(Opened(p)) \subseteq Scopes
  BY OpenedAddsNone DEF Scoped
<1>b. UNCHANGED req => Leases
  BY DEF Scoped
<1>c. UNCHANGED file => Kept
  BY <1>a
<1>d. \A r \in Req : Settle(r) => Leases
  BY DEF Settle, Ended, Scoped, TypeOK, Request
<1>e. \A p \in Proc : \A K : Present(Refresh(Opened(p), K, NowOf(p), p)) \subseteq Scopes
  BY <1>a, RefreshAddsNone
<1>1. ASSUME NEW p \in Proc, NEW r \in Req, NEW t \in RequestTarget, TryAcquire(p, r, t)
      PROVE  Kept /\ Leases
  <2> DEFINE E == Opened(p)
             R == Refresh(E, Applicable(E, t), NowOf(p), p)
             K == Probes(R, Applicable(E, t))
  <2>1. Present(R) \subseteq Scopes /\ K \subseteq {k \in Scopes : AppliesTo(k, t)}
    BY <1>a, <1>e DEF Probes, Applicable
  <2>2. ASSUME NEW keys, keys \subseteq {k \in Scopes : AppliesTo(k, t)}, Dispatch(p, r, t, keys) PROVE Leases
    BY <2>2 DEF Dispatch, Scoped, TypeOK
  <2>3. Present(Granted(R, K, p, r, NowOf(p))) \subseteq Scopes
    <3>1. \A k \in Target : R[k] \in Entry
      BY OpenedType, RefreshType, CircuitAssumption DEF Entries
    <3> HIDE DEF R, K
    <3>2. \A k \in Target : Granted(R, K, p, r, NowOf(p))[k].state = R[k].state
      BY <3>1 DEF Granted, Entry
    <3> QED BY <2>1, <3>2 DEF Present
  <2>4. CASE AcquireDenied(p, t)
    BY <2>1, <2>4, <1>a, <1>b, PersistScoped DEF AcquireDenied
  <2>5. CASE AcquirePlain(p, r, t)
    BY <2>1, <2>2, <2>5, <1>a, PersistScoped DEF AcquirePlain
  <2>6. CASE AcquireProbe(p, r, t)
    BY <2>1, <2>2, <2>3, <2>6, <1>a, PersistScoped DEF AcquireProbe
  <2> QED BY <2>4, <2>5, <2>6, <1>1 DEF TryAcquire
<1>2. ASSUME FailureStep PROVE Kept /\ Leases
  BY <1>2, <1>d, ReportScoped DEF FailureStep, RecordFailure
<1>3. ASSUME NEW r \in Req, RecordSuccess(r) PROVE Kept /\ Leases
  BY <1>3, <1>d, ReportScoped DEF RecordSuccess
<1>4. ASSUME NEW r \in Req, Abandon(r) PROVE Kept /\ Leases
  BY <1>4, <1>c DEF Abandon, Ended, Scoped, TypeOK, Request
<1>5. ASSUME NEW p \in Proc, NEW scope, Reset(p, scope) PROVE Kept /\ Leases
  <2> DEFINE gone == {k \in Present(Loaded(p)) : AppliesTo(scope, k)}
             G == [k \in Target |-> IF k \in gone THEN Absent ELSE Loaded(p)[k]]
  <2>1. Present(G) \subseteq Scopes
    BY <1>a DEF Present, Absent
  <2> HIDE DEF G
  <2> QED BY <1>5, <1>a, <1>b, <2>1, PersistScoped DEF Reset, G
<1>6. ASSUME NEW p \in Proc, ResetAll(p) PROVE Kept /\ Leases
  <2>1. Present([k \in Target |-> Absent]) \subseteq Scopes
    BY DEF Present, Absent
  <2> QED BY <1>6, <1>a, <1>b, <2>1, PersistScoped DEF ResetAll
<1>7. ASSUME NEW p \in Proc, NEW t \in AnnotateTarget, Annotate(p, t) PROVE Kept /\ Leases
  <2> DEFINE E == Loaded(p)
             F == IF E[t].state = "absent" THEN [E EXCEPT ![t] = Closed] ELSE E
  <2>1. F \in Entries /\ \A k \in Target : F[k] = E[k] \/ k \in Scopes
    <3>1. E \in Entries /\ t \in Scopes /\ t \in Target
      BY OpenedType, TargetAssumption DEF Scopes
    <3> HIDE DEF E
    <3> QED BY <3>1, ConstantEntries DEF Entries
  <2>2. PICK G \in Pruned(F, {}) : Persist(lastClock[p], G)
    BY <1>7 DEF Annotate
  <2> HIDE DEF F
  <2>3. Present(G) \subseteq Scopes
    BY <1>a, <2>1, <2>2, PrunedEntries DEF Present, Absent
  <2> QED BY <1>7, <1>a, <1>b, <2>2, <2>3, PersistScoped DEF Annotate
<1>8. ASSUME NEW p \in Proc, NEW t, Status(p, t) \/ ListStatuses(p) PROVE Kept /\ Leases
  BY <1>8, <1>a, <1>b, <1>e, PersistScoped DEF Status, StatusOf, ListStatuses
<1>9. ASSUME NEW p \in Proc, Crash(p) PROVE Kept /\ Leases
  <2>1. \A q \in Request : Ended(q, "lost").tgt = q.tgt /\ Ended(q, "lost").st = "lost"
    BY DEF Ended, Request
  <2>2. ASSUME NEW r \in Req
        PROVE  req'[r] = req[r] \/ (req'[r].tgt = req[r].tgt /\ req'[r].st = "lost")
    BY <1>9, <2>1 DEF Crash, TypeOK
  <2> QED BY <1>9, <1>c, <2>2 DEF Crash, Scoped
<1>10. ASSUME \/ \E p \in Proc : Start(p)
              \/ Tick
              \/ \E d \in Backs : ClockBack(d)
              \/ UNCHANGED vars
       PROVE  Kept /\ Leases
  BY <1>10, <1>b, <1>c DEF Start, Tick, ClockBack, vars
<1>11. Kept /\ Leases
  BY <1>1, <1>2, <1>3, <1>4, <1>5, <1>6, <1>7, <1>8, <1>9, <1>10 DEF Next, OtherStep
<1> QED BY <1>11 DEF Scoped

\* What an operation finds in the store is within the scopes.
LEMMA ScopedAlways == Spec => []Scoped
<1>1. Init => Scoped
  BY DEF Init, Scoped, Present, Absent
<1> QED BY <1>1, ScopedStep, TypeCorrect, PTL DEF Spec

\* Only a report settles a request.
LEMMA SettledByReport ==
    ASSUME TypeOK, [Next]_vars, NEW q \in Req, req[q].st # "settled", req'[q].st = "settled"
    PROVE  \/ RecordSuccess(q)
           \/ \E retry \in RetryAfter \cup {NoTime}, reason \in Reason \cup {"none"} :
                 RecordFailure(q, reason, retry)
<1>1. \A r \in Req : Settle(r) /\ r # q => req'[q] = req[q]
  BY DEF Settle, TypeOK
<1>2. \A r \in Req : Ended(req[r], "lost").st = "lost"
  BY DEF Ended, TypeOK, Request
<1>3. ASSUME NEW p \in Proc, NEW r \in Req, NEW t \in RequestTarget, TryAcquire(p, r, t)
      PROVE  FALSE
  <2>1. ASSUME NEW keys, Dispatch(p, r, t, keys) PROVE FALSE
    BY <2>1 DEF Dispatch, TypeOK
  <2> QED BY <1>3, <2>1 DEF TryAcquire, AcquireDenied, AcquirePlain, AcquireProbe
<1>4. ASSUME NEW r \in Req, Abandon(r) PROVE FALSE
  BY <1>2, <1>4 DEF Abandon, TypeOK
<1>5. ASSUME NEW p \in Proc, Crash(p) PROVE FALSE
  BY <1>2, <1>5 DEF Crash, TypeOK
<1>6. ASSUME UNCHANGED req PROVE FALSE
  BY <1>6
<1>7. CASE FailureStep
  BY <1>1, <1>7 DEF FailureStep, RecordFailure
<1>8. CASE OtherStep
  BY <1>1, <1>3, <1>4, <1>5, <1>6, <1>8
     DEF OtherStep, RecordSuccess, Reset, ResetAll, Annotate, Status, ListStatuses, Start, Tick,
         ClockBack
<1> QED BY <1>6, <1>7, <1>8 DEF Next, vars

\* A request in flight has a running process.
RunsAlive == \A r \in Req : req[r].st = "running" => alive[req[r].proc]

\* A dispatch ends with its process.
LEMMA RunsAliveStep == TypeOK /\ RunsAlive /\ [Next]_vars => RunsAlive'
<1> SUFFICES ASSUME TypeOK, RunsAlive, [Next]_vars PROVE RunsAlive'
  OBVIOUS
<1>1. ASSUME UNCHANGED <<alive, req>> PROVE RunsAlive'
  BY <1>1 DEF RunsAlive
<1>2. ASSUME NEW r \in Req, UNCHANGED alive, NEW st \in {"settled", "lost"},
             req' = [req EXCEPT ![r] = Ended(@, st)]
      PROVE  RunsAlive'
  <2>1. req'[r].st # "running" /\ \A q \in Req \ {r} : req'[q] = req[q]
    BY <1>2, EndedType DEF TypeOK
  <2> QED BY <1>2, <2>1 DEF RunsAlive
<1>3. ASSUME NEW p \in Proc, NEW r \in Req, NEW t \in RequestTarget, TryAcquire(p, r, t)
      PROVE  RunsAlive'
  <2>1. \A K : Dispatch(p, r, t, K) => /\ req'[r].proc = p
                                       /\ \A q \in Req \ {r} : req'[q] = req[q]
    BY DEF Dispatch, TypeOK
  <2>2. alive[p] /\ alive' = alive
    BY <1>3 DEF TryAcquire
  <2>3. ASSUME NEW K, Dispatch(p, r, t, K) PROVE RunsAlive'
    BY <2>1, <2>2, <2>3 DEF RunsAlive
  <2> QED BY <1>1, <1>3, <2>2, <2>3 DEF TryAcquire, AcquireDenied, AcquirePlain, AcquireProbe
<1>4. ASSUME FailureStep PROVE RunsAlive'
  BY <1>2, <1>4 DEF FailureStep, RecordFailure, Settle
<1>5. ASSUME NEW r \in Req, RecordSuccess(r) \/ Abandon(r) PROVE RunsAlive'
  BY <1>2, <1>5 DEF RecordSuccess, Abandon, Settle
<1>6. ASSUME NEW p \in Proc, Start(p) PROVE RunsAlive'
  <2>1. req' = req /\ \A q \in Proc : alive[q] => alive'[q]
    BY <1>6 DEF Start, TypeOK
  <2> QED BY <2>1 DEF RunsAlive, TypeOK
<1>7. ASSUME NEW p \in Proc, Crash(p) PROVE RunsAlive'
  <2>1. \A q \in Proc \ {p} : alive[q] => alive'[q]
    BY <1>7 DEF Crash, TypeOK
  <2>2. ASSUME NEW r \in Req, req'[r].st = "running"
        PROVE  req'[r] = req[r] /\ req[r].proc # p
    <3>1. Ended(req[r], "lost").st # "running"
      BY EndedType DEF TypeOK
    <3> QED BY <1>7, <2>2, <3>1 DEF Crash
  <2> QED BY <2>1, <2>2 DEF RunsAlive, TypeOK
<1>8. ASSUME OtherStep PROVE RunsAlive'
  BY <1>1, <1>3, <1>5, <1>6, <1>7, <1>8
     DEF OtherStep, Reset, ResetAll, Annotate, Status, ListStatuses, Tick, ClockBack
<1> QED BY <1>1, <1>4, <1>8 DEF Next, vars

(***************************************************************************)
(* The size of the store.  A failure or an annotation adds at most one     *)
(* entry, and prune() then takes one away.                                 *)
(***************************************************************************)
Small(E) == IsFiniteSet(Present(E)) /\ Cardinality(Present(E)) <= MaxEntries
Fits == Small(file.entries)

\* The keys of a report whose lease is active are leased by it in the store.
LEMMA LeasedKeys ==
    ASSUME TypeOK, LeaseAccountable, NEW r \in Req, NEW p \in Proc, ActiveLease(Opened(p), r)
    PROVE  \A j \in req[r].keys : /\ j \in Target /\ file.entries[j].lease = r
                                  /\ file.entries[j].state = "half-open"
<1> SUFFICES ASSUME NEW j \in req[r].keys
             PROVE  /\ j \in Target /\ file.entries[j].lease = r
                    /\ file.entries[j].state = "half-open"
  OBVIOUS
<1>1. j \in Target /\ Opened(p)[j].lease = r /\ r # NoReq
  BY CircuitAssumption DEF TypeOK, Request, ActiveLease
<1>2. file.entries[j].lease = r
  BY <1>1, OpenedFades DEF Faded, SameLease
<1> QED BY <1>1, <1>2 DEF LeaseAccountable

\* Fewer entries fit as well.
LEMMA SmallerFits ==
    ASSUME NEW E, NEW G, Small(E), Present(G) \subseteq Present(E)
    PROVE  Small(G)
<1>1. IsFiniteSet(Present(G)) /\ Cardinality(Present(G)) <= Cardinality(Present(E))
  BY FS_Subset DEF Small
<1>2. Cardinality(Present(G)) \in Nat /\ Cardinality(Present(E)) \in Nat
  BY <1>1, FS_CardinalityType DEF Small
<1> QED BY <1>1, <1>2, CircuitAssumption DEF Small

\* One entry more than fits is pruned away.
LEMMA PrunedFits ==
    ASSUME NEW E, Small(E), NEW x, NEW F, Present(F) \subseteq Present(E) \cup {x},
           NEW spared, NEW G \in Pruned(F, spared)
    PROVE  /\ Small(G)
           /\ Cardinality(Present(F)) > MaxEntries =>
                 x \notin Present(E) /\ Cardinality(Present(E)) >= MaxEntries
<1> DEFINE P == Present(E)
           Q == Present(F)
<1>1. /\ IsFiniteSet(P) /\ Cardinality(P) \in Nat /\ Cardinality(P) <= MaxEntries
      /\ MaxEntries \in Nat
  BY FS_CardinalityType, CircuitAssumption DEF Small
<1>2. /\ IsFiniteSet(P \cup {x})
      /\ Cardinality(P \cup {x}) = IF x \in P THEN Cardinality(P) ELSE Cardinality(P) + 1
  BY <1>1, FS_AddElement
<1>3. /\ IsFiniteSet(Q) /\ Cardinality(Q) \in Nat
      /\ Cardinality(Q) <= IF x \in P THEN Cardinality(P) ELSE Cardinality(P) + 1
  BY <1>1, <1>2, FS_Subset, FS_CardinalityType
<1>4. Cardinality(Q) > MaxEntries => x \notin P /\ Cardinality(P) >= MaxEntries
  BY <1>1, <1>3
<1>5. Small(G)
  <2>1. CASE Cardinality(Q) <= MaxEntries
    BY <1>3, <2>1 DEF Pruned, Small
  <2>2. CASE ~(Cardinality(Q) <= MaxEntries)
    <3>1. PICK v \in Q : G = [k \in Target |-> IF k = v THEN Absent ELSE F[k]]
      BY <2>2 DEF Pruned
    <3>2. Present(G) \subseteq Q \ {v}
      BY <3>1 DEF Present, Absent
    <3>3. IsFiniteSet(Q \ {v}) /\ Cardinality(Q \ {v}) = Cardinality(Q) - 1
      BY <1>3, FS_RemoveElement
    <3>4. /\ IsFiniteSet(Present(G)) /\ Cardinality(Present(G)) <= Cardinality(Q) - 1
          /\ Cardinality(Present(G)) \in Nat
      BY <3>2, <3>3, FS_Subset, FS_CardinalityType
    <3> QED BY <1>1, <1>3, <3>4 DEF Small
  <2> QED BY <2>1, <2>2
<1> QED BY <1>4, <1>5

\* A failure report adds its scope at most.
LEMMA FailedPresent ==
    ASSUME TypeOK, LeaseAccountable, NEW r \in Req, NEW p \in Proc, ActiveLease(Opened(p), r),
           NEW reason, NEW retry, NEW now
    PROVE  Present(FailedEntries(Opened(p), req[r].keys, req[r].tgt, reason, retry, now))
              \subseteq Present(file.entries) \cup {FailureScope(req[r].tgt, reason)}
<1>1. \A j \in req[r].keys : j \in Present(file.entries)
  BY LeasedKeys DEF Present
<1>2. Present(Opened(p)) \subseteq Present(file.entries)
  BY OpenedAddsNone
<1> QED BY <1>1, <1>2 DEF FailedEntries, Present

\* A store written from entries that fit fits.
LEMMA PersistFits ==
    ASSUME Fits, NEW at, NEW E, Small(E)
    PROVE  /\ Persist(at, E) => Fits'
           /\ \A B : PersistIfChanged(at, B, E) => Fits'
<1>1. UNCHANGED file => Fits'
  BY DEF Fits, Small, Present
<1>2. file' = [savedAt |-> at, entries |-> E] => Fits'
  BY DEF Fits, Small, Present
<1> QED BY <1>1, <1>2 DEF Persist, PersistIfChanged

\* The reports keep the store within its size.
LEMMA ReportFits ==
    ASSUME TypeOK, LeaseAccountable, Fits, NEW r \in Req, req[r].st = "running"
    PROVE  /\ StaleReport(r) => Fits'
           /\ ReleaseProbe(r) => Fits'
           /\ CloseAll(r) => Fits'
           /\ \A retry \in RetryAfter \cup {NoTime}, reason \in Reason :
                 ProviderFailure(r, reason, retry) => Fits'
<1> DEFINE p == req[r].proc
           t == req[r].tgt
           keys == req[r].keys
           E == Opened(p)
           now == NowOf(p)
           Rel == [k \in Target |-> IF k \in keys
                      THEN [Unleased(E[k]) EXCEPT !.state = "open", !.until = now]
                      ELSE E[k]]
           Clo == [k \in Target |-> IF k \in ClosedBy(E, r) THEN Closed ELSE E[k]]
<1>1. p \in Proc /\ Present(E) \subseteq Present(file.entries) /\ Small(file.entries)
  BY OpenedAddsNone DEF TypeOK, Fits
<1>2. ActiveLease(E, r) => \A j \in keys : j \in Present(file.entries)
  BY <1>1, LeasedKeys DEF Present
<1> HIDE DEF p, t, keys, E, now
<1>3. ASSUME NEW F, Present(F) \subseteq Present(file.entries), NEW K
      PROVE  Small(Refresh(F, K, now, p))
  BY <1>1, <1>3, RefreshAddsNone, SmallerFits
<1>4. StaleReport(r) => Fits'
  BY <1>1, <1>3, PersistFits DEF StaleReport, StatusOf, p, t, E, now
<1>5. ReleaseProbe(r) => Fits'
  <2>1. ActiveLease(E, r) => Present(Rel) \subseteq Present(file.entries)
    BY <1>1, <1>2 DEF Present
  <2> HIDE DEF Rel
  <2>2. ActiveLease(E, r) => Small(Refresh(Rel, Applicable(Rel, t), now, p))
    BY <1>3, <2>1
  <2> QED BY <2>2, PersistFits DEF ReleaseProbe, Rel, p, t, keys, E, now
<1>6. CloseAll(r) => Fits'
  <2>1. Present(Clo) \subseteq Present(file.entries)
    BY <1>1 DEF Present, ClosedBy, Applicable
  <2> HIDE DEF Clo
  <2>2. Small(Refresh(Clo, Applicable(Clo, t), now, p))
    BY <1>3, <2>1
  <2>3. UNCHANGED file => Fits'
    BY DEF Fits, Small, Present
  <2> QED BY <2>2, <2>3, PersistFits DEF CloseAll, Clo, p, t, E, now
<1>7. ASSUME NEW retry \in RetryAfter \cup {NoTime}, NEW reason \in Reason,
             ProviderFailure(r, reason, retry)
      PROVE  Fits'
  <2> DEFINE F == FailedEntries(E, keys, t, reason, retry, now)
  <2>1. Present(F) \subseteq Present(file.entries) \cup {FailureScope(t, reason)}
    BY <1>1, <1>7, FailedPresent DEF ProviderFailure, p, t, keys, E, now
  <2> HIDE DEF F
  <2>2. PICK G \in Pruned(F, keys \cup {FailureScope(t, reason)}) : Persist(now, G)
    BY <1>7 DEF ProviderFailure, F, p, t, keys, E, now
  <2>3. Small(G)
    BY <1>1, <2>1, <2>2, PrunedFits
  <2> QED BY <2>2, <2>3, PersistFits
<1> QED BY <1>4, <1>5, <1>6, <1>7

\* An annotation adds its key at most.
LEMMA AnnotatedPresent ==
    ASSUME TypeOK, NEW p \in Proc, NEW t
    PROVE  LET E == Loaded(p)
               F == IF E[t].state = "absent" THEN [E EXCEPT ![t] = Closed] ELSE E
           IN  /\ Present(F) \subseteq Present(file.entries) \cup {t}
               /\ E[t].state # "absent" => Present(F) \subseteq Present(file.entries)
<1>1. Loaded(p) \in Entries /\ Present(Loaded(p)) \subseteq Present(file.entries)
  BY OpenedType, OpenedAddsNone
<1> QED BY <1>1 DEF Entries, Present

LEMMA FitsStep == TypeOK /\ LeaseAccountable /\ Fits /\ [Next]_vars => Fits'
<1> SUFFICES ASSUME TypeOK, LeaseAccountable, Fits, [Next]_vars PROVE Fits'
  OBVIOUS
<1>a. UNCHANGED file => Fits'
  BY DEF Fits, Small, Present
<1>b. \A p \in Proc : /\ Present(Loaded(p)) \subseteq Present(file.entries)
                      /\ Present(Opened(p)) \subseteq Present(file.entries)
  BY OpenedAddsNone
<1>c. \A p \in Proc : \A K : Small(Refresh(Opened(p), K, NowOf(p), p))
  BY <1>b, RefreshAddsNone, SmallerFits DEF Fits
<1>1. ASSUME NEW p \in Proc, NEW r \in Req, NEW t \in RequestTarget, TryAcquire(p, r, t)
      PROVE  Fits'
  <2> DEFINE E == Opened(p)
             R == Refresh(E, Applicable(E, t), NowOf(p), p)
             K == Probes(R, Applicable(E, t))
  <2>1. Small(R) /\ \A k \in Target : R[k] \in Entry
    BY <1>c, OpenedType, RefreshType, CircuitAssumption DEF Entries
  <2> HIDE DEF R, K
  <2>2. Small(Granted(R, K, p, r, NowOf(p)))
    <3>1. \A k \in Target : Granted(R, K, p, r, NowOf(p))[k].state = R[k].state
      BY <2>1 DEF Granted, Entry
    <3>2. Present(Granted(R, K, p, r, NowOf(p))) \subseteq Present(R)
      BY <3>1 DEF Present
    <3> QED BY <2>1, <3>2, SmallerFits
  <2> QED BY <1>1, <2>1, <2>2, PersistFits
          DEF TryAcquire, AcquireDenied, AcquirePlain, AcquireProbe, R, K
<1>2. ASSUME FailureStep PROVE Fits'
  BY <1>2, ReportFits DEF FailureStep, RecordFailure
<1>3. ASSUME NEW r \in Req, RecordSuccess(r) PROVE Fits'
  BY <1>3, ReportFits DEF RecordSuccess
<1>4. ASSUME NEW p \in Proc, NEW scope, Reset(p, scope) PROVE Fits'
  <2> DEFINE gone == {k \in Present(Loaded(p)) : AppliesTo(scope, k)}
             G == [k \in Target |-> IF k \in gone THEN Absent ELSE Loaded(p)[k]]
  <2>1. Present(G) \subseteq Present(file.entries)
    BY <1>b DEF Present, Absent
  <2> HIDE DEF G
  <2> QED BY <1>4, <2>1, SmallerFits, PersistFits DEF Reset, G, Fits
<1>5. ASSUME NEW p \in Proc, ResetAll(p) PROVE Fits'
  <2>1. Present([k \in Target |-> Absent]) \subseteq Present(file.entries)
    BY DEF Present, Absent
  <2> QED BY <1>5, <2>1, SmallerFits, PersistFits DEF ResetAll, Fits
<1>6. ASSUME NEW p \in Proc, NEW t \in AnnotateTarget, Annotate(p, t) PROVE Fits'
  <2> DEFINE E == Loaded(p)
             F == IF E[t].state = "absent" THEN [E EXCEPT ![t] = Closed] ELSE E
  <2>1. Present(F) \subseteq Present(file.entries) \cup {t}
    BY AnnotatedPresent
  <2>2. PICK G \in Pruned(F, {}) : Persist(lastClock[p], G)
    BY <1>6 DEF Annotate
  <2> HIDE DEF F
  <2>3. Small(G)
    BY <2>1, <2>2, PrunedFits DEF Fits
  <2> QED BY <2>2, <2>3, PersistFits
<1>7. ASSUME NEW p \in Proc, NEW t, Status(p, t) \/ ListStatuses(p) PROVE Fits'
  BY <1>7, <1>c, PersistFits DEF Status, StatusOf, ListStatuses
<1> QED BY <1>a, <1>1, <1>2, <1>3, <1>4, <1>5, <1>6, <1>7
       DEF Next, OtherStep, Abandon, Start, Crash, Tick, ClockBack, vars

(***************************************************************************)
(* What belongs to somebody stays: a lease that has not lapsed, and a      *)
(* block without deadline.  Reading the store touches neither, so only the *)
(* outcome that ends it, a reset, or the prune of a full store is left.    *)
(***************************************************************************)
HeldEntry(e) == (e.lease # NoReq /\ ~Lapsed(e)) \/ Forever(e)

\* f still is what e was.
Stands(e, f) == /\ (e.lease # NoReq /\ ~Lapsed(e)) => SameLease(e, f)
                /\ Forever(e) => Forever(f)

\* What a running process finds of an entry in the store.
LEMMA ReadingStands ==
    ASSUME TypeOK, LeaseAccountable, NEW p \in Proc, alive[p], NEW k \in Target
    PROVE  /\ Stands(file.entries[k], Loaded(p)[k])
           /\ Stands(file.entries[k], Opened(p)[k])
           /\ \A K : Stands(file.entries[k], Refresh(Opened(p), K, NowOf(p), p)[k])
<1> DEFINE e == file.entries[k]
           Leased == e.lease # NoReq /\ ~Lapsed(e)
<1>1. /\ file.entries \in Entries /\ e \in Entry /\ Loaded(p) \in Entries
      /\ Opened(p)[k] \in Entry /\ Loaded(p)[k] \in Entry
  BY OpenedType DEF TypeOK, Entries
<1>2. Forever(e) => /\ Forever(Loaded(p)[k]) /\ Forever(Opened(p)[k])
                    /\ \A K : Forever(Refresh(Opened(p), K, NowOf(p), p)[k])
  BY OpenedFades DEF Faded
<1>3. Leased => /\ e.state = "half-open"
                /\ ~LeaseGone(e, lastClock[p], p) /\ ~LeaseGone(e, NowOf(p), p)
  <2>1. NowOf(p) = clock \/ NowOf(p) = lastClock[p]
    BY DEF NowOf
  <2> QED BY <2>1 DEF LeaseAccountable, Lapsed, LeaseGone
<1>4. ASSUME Leased, NEW g, SameLease(e, g), NEW now, now = lastClock[p] \/ now = NowOf(p)
      PROVE  ExpireLease(ExpireOpen(g, now), now, p) = g
  BY <1>3, <1>4 DEF SameLease, ExpireOpen, ExpireLease, LeaseGone
<1>5. ASSUME Leased PROVE SameLease(e, Loaded(p)[k])
  <2> DEFINE S == ShiftTimestamps(file.entries, lastClock[p] - file.savedAt)
  <2>1. SameLease(e, S[k]) /\ SameLease(e, e)
    BY <1>1 DEF ShiftTimestamps, SameLease, Entry
  <2> HIDE DEF S
  <2> QED BY <1>4, <1>5, <2>1 DEF Loaded, Refresh, S
<1>6. ASSUME Leased PROVE SameLease(e, Opened(p)[k])
  BY <1>1, <1>5, <1>6 DEF Opened, ShiftTimestamps, SameLease, Entry
<1>7. ASSUME Leased, NEW K PROVE SameLease(e, Refresh(Opened(p), K, NowOf(p), p)[k])
  BY <1>4, <1>6, <1>7 DEF Refresh
<1> QED BY <1>2, <1>5, <1>6, <1>7 DEF Stands

\* A store written from entries in which it stands keeps it.
LEMMA PersistStands ==
    ASSUME NEW k \in Target, NEW at, NEW E, Stands(file.entries[k], E[k])
    PROVE  /\ Persist(at, E) => Stands(file.entries[k], file'.entries[k])
           /\ \A B : PersistIfChanged(at, B, E) => Stands(file.entries[k], file'.entries[k])
<1>1. UNCHANGED file => Stands(file.entries[k], file'.entries[k])
  BY DEF Stands, SameLease
<1>2. file' = [savedAt |-> at, entries |-> E] => Stands(file.entries[k], file'.entries[k])
  OBVIOUS
<1> QED BY <1>1, <1>2 DEF Persist, PersistIfChanged

\* An entry that stands is neither closed nor missing.
LEMMA StandingState ==
    ASSUME LeaseAccountable, NEW k \in Target, HeldEntry(file.entries[k]), NEW f,
           Stands(file.entries[k], f)
    PROVE  /\ f.state \in {"open", "half-open"}
           /\ f.state = "half-open" => f.lease # NoReq
BY DEF LeaseAccountable, HeldEntry, Stands, SameLease, Forever

\* The outcome of r ends what is recorded at scope k.
EndedBy(r, k) ==
    \/ r = file.entries[k].lease
    \/ SucceedsAt(r, k) /\ (req[r].keys = {} \/ file.entries[k].lease = NoReq)
    \/ FailsAt(r, k)

\* prune() takes something that is held only from a full store in which nothing
\* is closed: G is F pruned, and F the entries an operation of p has changed.
LEMMA PrunedStands ==
    ASSUME TypeOK, LeaseAccountable, Fits, NEW p \in Proc, alive[p],
           NEW k \in Target, HeldEntry(file.entries[k]),
           NEW x, NEW F, Present(F) \subseteq Present(file.entries) \cup {x},
           \A j \in Target : F[j] = Opened(p)[j] \/ j = x \/ Opened(p)[j].state # "closed",
           Stands(file.entries[k], F[k]),
           NEW spared, k \notin spared, NEW G \in Pruned(F, spared),
           NEW at, Persist(at, G)
    PROVE  Stands(file.entries[k], file'.entries[k]) \/ Removed(k)
<1>1. CASE G[k] = F[k]
  BY <1>1, PersistStands
<1>2. CASE G[k] # F[k]
  <2> DEFINE closed == {j \in Present(F) : F[j].state = "closed"}
             pool == IF closed # {} THEN closed ELSE Present(F)
             victim == IF pool \subseteq spared THEN pool ELSE pool \ spared
  <2>1. /\ ~(Cardinality(Present(F)) <= MaxEntries)
        /\ \E v \in victim : G = [j \in Target |-> IF j = v THEN Absent ELSE F[j]]
    BY <1>2 DEF Pruned
  <2>2. /\ k \in victim /\ G[k] = Absent
        /\ Cardinality(Present(F)) \in Nat /\ Cardinality(Present(file.entries)) \in Nat
    <3>1. IsFiniteSet(Present(F))
      <4>1. IsFiniteSet(Present(file.entries) \cup {x})
        BY FS_AddElement DEF Fits, Small
      <4> QED BY <4>1, FS_Subset
    <3> QED BY <1>2, <2>1, <3>1, FS_CardinalityType DEF Fits, Small
  <2>3. closed = {}
    BY <2>2, StandingState
  <2>4. x \notin Present(file.entries) /\ Cardinality(Present(file.entries)) >= MaxEntries
    <3>1. Cardinality(Present(F)) > MaxEntries
      BY <2>1, <2>2, CircuitAssumption
    <3>2. Small(file.entries)
      BY DEF Fits
    <3> QED BY <3>1, <3>2, PrunedFits
  <2>5. ASSUME NEW j \in Present(file.entries), file.entries[j].state = "closed" PROVE FALSE
    <3>1. j \in Target /\ j # x /\ Opened(p)[j].state = "closed"
      <4>1. ASSUME NEW e \in Entry, e.state = "closed", NEW now
            PROVE  ExpireLease(ExpireOpen(e, now), now, p) = e
        BY <4>1 DEF ExpireOpen, ExpireLease
      <4>2. ASSUME NEW E \in Entries, E[j].state = "closed", NEW delta
            PROVE  ShiftTimestamps(E, delta)[j].state = "closed"
        <5>1. j \in Target /\ E[j] \in Entry
          BY DEF Present, Entries
        <5> QED BY <4>2, <5>1 DEF ShiftTimestamps, Entry
      <4>3. j \in Target /\ file.entries \in Entries /\ Loaded(p) \in Entries
        BY OpenedType DEF TypeOK, Entries, Present
      <4>4. lastClock[p] - file.savedAt \in Int /\ lastClock[p] \in Int
        BY CircuitAssumption DEF TypeOK
      <4>5. Loaded(p)[j].state = "closed"
        <5>1. ASSUME NEW E \in Entries, E[j].state = "closed"
              PROVE  Refresh(E, Target, lastClock[p], p)[j].state = "closed"
          BY <4>1, <4>3, <5>1 DEF Refresh, Entries
        <5>2. ShiftTimestamps(file.entries, lastClock[p] - file.savedAt) \in Entries
          BY <4>3, <4>4, ShiftType
        <5> QED BY <2>5, <4>2, <4>3, <5>1, <5>2 DEF Loaded
      <4>6. Opened(p)[j].state = "closed"
        BY <4>2, <4>3, <4>5 DEF Opened
      <4> QED BY <2>4, <4>3, <4>6
    <3>2. j \in closed
      BY <3>1 DEF Present
    <3> QED BY <2>3, <3>2
  <2>6. CASE file' = file
    BY <2>6 DEF Stands, SameLease
  <2>7. CASE file' = [savedAt |-> at, entries |-> G]
    BY <2>2, <2>4, <2>5, <2>7 DEF Removed, Absent
  <2> QED BY <2>6, <2>7 DEF Persist
<1> QED BY <1>1, <1>2

\* What becomes of something held in a report of r.
LEMMA ReportStands ==
    ASSUME TypeOK, LeaseAccountable, Fits, NEW r \in Req, req[r].st = "running",
           alive[req[r].proc], NEW k \in Target, HeldEntry(file.entries[k])
    PROVE  LET Kept == Stands(file.entries[k], file'.entries[k])
           IN  /\ StaleReport(r) => Kept
               /\ ReleaseProbe(r) => Kept \/ r = file.entries[k].lease
               /\ CloseAll(r) /\ RecordSuccess(r) => Kept \/ EndedBy(r, k)
               /\ \A retry \in RetryAfter \cup {NoTime}, reason \in Reason :
                     ProviderFailure(r, reason, retry) /\ RecordFailure(r, reason, retry) =>
                        Kept \/ EndedBy(r, k) \/ Removed(k)
<1> DEFINE p == req[r].proc
           t == req[r].tgt
           keys == req[r].keys
           E == Opened(p)
           now == NowOf(p)
           Rel == [j \in Target |-> IF j \in keys
                      THEN [Unleased(E[j]) EXCEPT !.state = "open", !.until = now]
                      ELSE E[j]]
           Clo == [j \in Target |-> IF j \in ClosedBy(E, r) THEN Closed ELSE E[j]]
           Kept == Stands(file.entries[k], file'.entries[k])
<1>1. /\ p \in Proc /\ alive[p] /\ t \in Target
      /\ Stands(file.entries[k], E[k])
      /\ \A K : Stands(file.entries[k], Refresh(E, K, now, p)[k])
  BY ReadingStands DEF TypeOK, Request
<1>2. ActiveLease(E, r) => \A j \in keys : /\ j \in Target /\ file.entries[j].lease = r
                                           /\ E[j].lease = r /\ E[j].state # "closed"
  <2>1. ActiveLease(E, r) => \A j \in keys : /\ j \in Target /\ file.entries[j].lease = r
                                             /\ file.entries[j].state = "half-open"
    BY <1>1, LeasedKeys
  <2>2. ASSUME ActiveLease(E, r), NEW j \in keys, j \in Target PROVE SameLease(file.entries[j], E[j])
    BY <1>1, <2>2, OpenedFades, CircuitAssumption DEF ActiveLease, Faded
  <2> QED BY <2>1, <2>2 DEF SameLease
<1>3. UNCHANGED file => Kept
  BY DEF Stands, SameLease
<1> HIDE DEF p, t, keys, E, now
<1>4. ASSUME NEW F, F[k] = E[k], NEW K PROVE Stands(file.entries[k], Refresh(F, K, now, p)[k])
  BY <1>1, <1>4 DEF Refresh
<1>5. StaleReport(r) => Kept
  BY <1>1, PersistStands DEF StaleReport, StatusOf, p, t, E, now
<1>6. ReleaseProbe(r) => Kept \/ r = file.entries[k].lease
  <2>1. CASE k \in keys
    BY <1>2, <2>1 DEF ReleaseProbe, p, E
  <2>2. CASE k \notin keys
    <3>1. Stands(file.entries[k], Refresh(Rel, Applicable(Rel, t), now, p)[k])
      BY <1>4, <2>2
    <3> QED BY <3>1, PersistStands DEF ReleaseProbe, p, t, keys, E, now
  <2> QED BY <2>1, <2>2
<1>7. CloseAll(r) /\ RecordSuccess(r) => Kept \/ EndedBy(r, k)
  <2>1. CASE k \notin ClosedBy(E, r)
    <3>1. Stands(file.entries[k], Refresh(Clo, Applicable(Clo, t), now, p)[k])
      BY <1>4, <2>1
    <3> QED BY <1>3, <3>1, PersistStands DEF CloseAll, p, t, E, now
  <2>2. CASE k \in ClosedBy(E, r)
    <3>1. AppliesTo(k, t)
      BY <2>2 DEF ClosedBy, Applicable, t
    <3>2. keys = {} \/ file.entries[k].lease \in {NoReq, r}
      <4>1. keys = {} \/ E[k].lease \in {NoReq, r}
        BY <2>2 DEF ClosedBy, keys
      <4>2. file.entries[k].lease # NoReq => SameLease(file.entries[k], E[k])
        BY <1>1 DEF HeldEntry, Stands, LeaseAccountable, Forever
      <4> QED BY <4>1, <4>2 DEF SameLease
    <3>3. Refresh(Clo, Applicable(Clo, t), now, p)[k].state = "closed"
      BY <2>2 DEF Refresh, ExpireOpen, ExpireLease, Closed, Absent
    <3>4. CloseAll(r) => UNCHANGED file \/ file'.entries[k].state = "closed"
      <4> HIDE DEF Clo
      <4>1. \A at : Persist(at, Refresh(Clo, Applicable(Clo, t), now, p)) =>
               UNCHANGED file \/ file'.entries[k].state = "closed"
        BY <3>3 DEF Persist
      <4> QED BY <4>1 DEF CloseAll, Clo, p, t, E, now
    <3> QED BY <1>3, <3>1, <3>2, <3>4 DEF EndedBy, SucceedsAt, t, keys
  <2> QED BY <2>1, <2>2
<1>8. ASSUME NEW retry \in RetryAfter \cup {NoTime}, NEW reason \in Reason,
             ProviderFailure(r, reason, retry), RecordFailure(r, reason, retry)
      PROVE  Kept \/ EndedBy(r, k) \/ Removed(k)
  <2> DEFINE F == FailedEntries(E, keys, t, reason, retry, now)
             x == FailureScope(t, reason)
  <2>0. ActiveLease(E, r)
    BY <1>8 DEF ProviderFailure, E, p
  <2>1. CASE k \in keys
    BY <1>2, <2>0, <2>1 DEF EndedBy
  <2>2. CASE k = x
    BY <1>8, <2>2 DEF EndedBy, FailsAt, t
  <2>3. CASE k \notin keys \cup {x}
    <3>1. Present(F) \subseteq Present(file.entries) \cup {x}
      BY <1>1, <2>0, FailedPresent DEF p, t, keys, E, now
    <3>2. F[k] = E[k] /\ \A j \in Target : F[j] = E[j] \/ j = x \/ E[j].state # "closed"
      BY <1>2, <2>0, <2>3 DEF FailedEntries
    <3> HIDE DEF F
    <3>3. PICK G \in Pruned(F, keys \cup {x}) : Persist(now, G)
      BY <1>8 DEF ProviderFailure, F, p, t, keys, E, now
    <3>4. Stands(file.entries[k], F[k]) /\ \A j \in Target : F[j] = Opened(p)[j] \/ j = x \/ Opened(p)[j].state # "closed"
      BY <1>1, <3>2 DEF E
    <3> HIDE DEF x
    <3>5. Kept \/ Removed(k)
      BY <1>1, <2>3, <3>1, <3>3, <3>4, PrunedStands
    <3> QED BY <3>5
  <2> QED BY <2>1, <2>2, <2>3
<1> QED BY <1>5, <1>6, <1>7, <1>8

\* An annotation takes nothing: its own closed entry is there to be pruned.
LEMMA AnnotateStands ==
    ASSUME TypeOK, LeaseAccountable, Fits, NEW p \in Proc, NEW t \in AnnotateTarget,
           Annotate(p, t), NEW k \in Target, HeldEntry(file.entries[k])
    PROVE  Stands(file.entries[k], file'.entries[k])
<1> DEFINE E == Loaded(p)
           F == IF E[t].state = "absent" THEN [E EXCEPT ![t] = Closed] ELSE E
           closed == {j \in Present(F) : F[j].state = "closed"}
<1>1. E \in Entries /\ Stands(file.entries[k], E[k]) /\ t \in Target
  BY OpenedType, ReadingStands, TargetAssumption DEF Annotate
<1>2. /\ Present(F) \subseteq Present(file.entries) \cup {t}
      /\ E[t].state # "absent" => Present(F) \subseteq Present(file.entries)
  BY AnnotatedPresent
<1>3. E[k].state \in {"open", "half-open"}
  BY <1>1, StandingState
<1>4. F[k] = E[k] /\ (E[t].state = "absent" => t \in closed) /\ k \notin closed
  BY <1>1, <1>3 DEF Entries, Closed, Present
<1>5. PICK G \in Pruned(F, {}) : Persist(lastClock[p], G)
  BY DEF Annotate
<1>6. Cardinality(Present(F)) <= MaxEntries \/ E[t].state = "absent"
  <2> HIDE DEF F, E
  <2>1. ASSUME E[t].state # "absent" PROVE Small(F)
    BY <1>2, <2>1, SmallerFits DEF Fits
  <2> QED BY <2>1 DEF Small
<1> HIDE DEF F, E
<1>7. G[k] = F[k]
  <2>1. CASE Cardinality(Present(F)) <= MaxEntries
    BY <1>5, <2>1 DEF Pruned
  <2>2. CASE ~(Cardinality(Present(F)) <= MaxEntries)
    <3>1. closed # {}
      BY <1>4, <1>6, <2>2
    <3>2. \E v \in closed : G = [j \in Target |-> IF j = v THEN Absent ELSE F[j]]
      BY <1>5, <2>2, <3>1 DEF Pruned
    <3> QED BY <1>4, <3>2
  <2> QED BY <2>1, <2>2
<1> QED BY <1>1, <1>4, <1>5, <1>7, PersistStands

\* The step of the theorems below.
LEMMA HeldStep ==
    ASSUME TypeOK, LeaseAccountable, Fits, RunsAlive, [Next]_vars,
           NEW k \in Target, HeldEntry(file.entries[k])
    PROVE  \/ Stands(file.entries[k], file'.entries[k])
           \/ \E r \in Req : Reports(r) /\ EndedBy(r, k)
           \/ Removed(k)
<1> DEFINE e == file.entries[k]
           Kept == Stands(e, file'.entries[k])
           Goal == Kept \/ (\E r \in Req : Reports(r) /\ EndedBy(r, k)) \/ Removed(k)
<1>a. UNCHANGED file => Goal
  BY DEF Stands, SameLease
<1>b. ASSUME NEW r \in Req, req[r].st = "running", Settle(r) PROVE Reports(r)
  <2>1. Ended(req[r], "settled").st = "settled"
    BY DEF Ended, TypeOK, Request
  <2> QED BY <1>b, <2>1 DEF Settle, TypeOK, Reports
<1>1. ASSUME NEW p \in Proc, NEW r \in Req, NEW t \in RequestTarget, TryAcquire(p, r, t)
      PROVE  Goal
  <2> DEFINE R == Refresh(Opened(p), Applicable(Opened(p), t), NowOf(p), p)
             A == Applicable(Opened(p), t)
             K == Probes(R, A)
  <2>1. Stands(e, R[k])
    BY <1>1, ReadingStands DEF TryAcquire
  <2>2. Blockers(R, A) = {} => k \notin K
    BY <2>1, StandingState DEF Blockers, Probes
  <2>3. Blockers(R, A) = {} => Granted(R, K, p, r, NowOf(p))[k] = R[k]
    BY <2>2 DEF Granted
  <2>4. TryAcquire(p, r, t) => \/ PersistIfChanged(NowOf(p), Opened(p), R)
                               \/ Blockers(R, A) = {} /\ Persist(NowOf(p), Granted(R, K, p, r, NowOf(p)))
    BY DEF TryAcquire, AcquireDenied, AcquirePlain, AcquireProbe
  <2> HIDE DEF R, A, K
  <2>5. Kept
    BY <1>1, <2>1, <2>3, <2>4, PersistStands
  <2> QED BY <2>5
<1>2. ASSUME NEW r \in Req, NEW retry \in RetryAfter \cup {NoTime},
             NEW reason \in Reason \cup {"none"}, RecordFailure(r, reason, retry)
      PROVE  Goal
  <2>1. req[r].st = "running" /\ alive[req[r].proc] /\ Reports(r)
    BY <1>2, <1>b DEF RecordFailure, RunsAlive
  <2>2. CASE StaleReport(r)
    BY <2>1, <2>2, ReportStands
  <2>3. CASE ReleaseProbe(r)
    BY <2>1, <2>3, ReportStands DEF EndedBy
  <2>4. CASE reason # "none" /\ ProviderFailure(r, reason, retry)
    <3>1. reason \in Reason
      BY <2>4
    <3>2. Kept \/ EndedBy(r, k) \/ Removed(k)
      BY <1>2, <2>1, <2>4, <3>1, ReportStands
    <3> QED BY <2>1, <3>2
  <2> QED BY <1>2, <2>2, <2>3, <2>4 DEF RecordFailure
<1>3. ASSUME NEW r \in Req, RecordSuccess(r) PROVE Goal
  <2>1. req[r].st = "running" /\ alive[req[r].proc] /\ Reports(r)
    BY <1>3, <1>b DEF RecordSuccess, RunsAlive
  <2>2. Kept \/ EndedBy(r, k)
    BY <1>3, <2>1, ReportStands DEF RecordSuccess
  <2> QED BY <2>1, <2>2
<1>4. ASSUME NEW p \in Proc, NEW v \in Provider,
             Reset(p, [prov |-> v, acc |-> NoAccount, mod |-> NoModel])
      PROVE  Goal
  <2> DEFINE scope == [prov |-> v, acc |-> NoAccount, mod |-> NoModel]
             gone == {j \in Present(Loaded(p)) : AppliesTo(scope, j)}
             G == [j \in Target |-> IF j \in gone THEN Absent ELSE Loaded(p)[j]]
  <2>1. CASE k \notin gone
    <3>1. Stands(e, G[k])
      BY <1>4, <2>1, ReadingStands DEF Reset
    <3> QED BY <1>4, <3>1, PersistStands DEF Reset
  <2>2. CASE k \in gone
    <3>1. v = k.prov
      BY <2>2 DEF AppliesTo
    <3>2. G[k].state = "absent"
      BY <2>2 DEF Absent
    <3>3. UNCHANGED file \/ file'.entries[k].state = "absent"
      BY <1>4, <3>2 DEF Reset, Persist
    <3> QED BY <1>4, <1>a, <3>1, <3>3 DEF Removed
  <2> QED BY <2>1, <2>2
<1>5. ASSUME NEW p \in Proc, ResetAll(p) PROVE Goal
  <2>1. UNCHANGED file \/ file'.entries[k].state = "absent"
    BY <1>5 DEF ResetAll, Persist, Absent
  <2> QED BY <1>5, <1>a, <2>1 DEF Removed
<1>6. ASSUME NEW p \in Proc, NEW t \in AnnotateTarget, Annotate(p, t) PROVE Goal
  BY <1>6, AnnotateStands
<1>7. ASSUME NEW p \in Proc, NEW t, Status(p, t) \/ ListStatuses(p) PROVE Goal
  BY <1>7, ReadingStands, PersistStands DEF Status, StatusOf, ListStatuses
<1> QED BY <1>a, <1>1, <1>2, <1>3, <1>4, <1>5, <1>6, <1>7
       DEF Next, FailureStep, OtherStep, Abandon, Start, Crash, Tick, ClockBack, vars

\* The store never holds more entries than maxEntries, and a request in flight
\* has a running process.
LEMMA SizeAndOwners == Spec => []Fits /\ []RunsAlive
<1>1. Init => Fits /\ RunsAlive
  <2>1. Init => Present(file.entries) = {}
    BY DEF Init, Present, Absent
  <2>2. Init => Fits
    BY <2>1, FS_EmptySet, CircuitAssumption DEF Fits, Small
  <2>3. Init => \A r \in Req : req[r].st = "fresh"
    BY DEF Init
  <2> QED BY <2>2, <2>3 DEF RunsAlive
<1> QED BY <1>1, FitsStep, RunsAliveStep, TypeCorrect, LeasesAccountable, PTL DEF Spec

\* "exactly one half-open probe": a lease whose time has not come and whose
\* owner lives is ended only by the report of its own request, by the success
\* of one without a lease, by a failure of that very scope, by a reset, or by
\* the prune of a full store without closed circuits - whatever the clock does.
THEOREM LeasesNotStolen == Spec => LeaseNotStolen
<1>1. TypeOK /\ LeaseAccountable /\ Fits /\ RunsAlive /\ [Next]_vars => [LeaseKept]_vars
  <2> SUFFICES ASSUME TypeOK, LeaseAccountable, Fits, RunsAlive, [Next]_vars, NEW k \in Target,
                      file.entries[k].lease # NoReq, ~Lapsed(file.entries[k]),
                      file'.entries[k].lease # file.entries[k].lease,
                      ~Removed(k)
               PROVE  \E r \in Req :
                         /\ Reports(r)
                         /\ \/ r = file.entries[k].lease
                            \/ req[r].keys = {} /\ SucceedsAt(r, k)
                            \/ FailsAt(r, k)
    BY DEF LeaseKept
  <2>1. HeldEntry(file.entries[k]) /\ ~Stands(file.entries[k], file'.entries[k])
    BY DEF HeldEntry, Stands, SameLease
  <2> QED BY <2>1, HeldStep DEF EndedBy
<1> QED BY <1>1, TypeCorrect, LeasesAccountable, SizeAndOwners, PTL DEF Spec, LeaseNotStolen

\* "Credential changes/manual reset are the only reliable recovery signal": a
\* block without deadline ends only by the success of a request it covers, by
\* a failure of that very scope, by a reset, or by the prune of a full store
\* without closed circuits.
THEOREM AuthBlocksStay == Spec => AuthBlockStays
<1>1. TypeOK /\ LeaseAccountable /\ Fits /\ RunsAlive /\ [Next]_vars => [AuthBlockKept]_vars
  <2> SUFFICES ASSUME TypeOK, LeaseAccountable, Fits, RunsAlive, [Next]_vars, NEW k \in Target,
                      Forever(file.entries[k]), ~Forever(file'.entries[k]), ~Removed(k)
               PROVE  \E r \in Req : Reports(r) /\ (SucceedsAt(r, k) \/ FailsAt(r, k))
    BY DEF AuthBlockKept, AuthBlocked, Forever
  <2>1. HeldEntry(file.entries[k]) /\ ~Stands(file.entries[k], file'.entries[k])
    BY DEF HeldEntry, Stands
  <2>2. \A r \in Req : r # file.entries[k].lease
    BY CircuitAssumption DEF LeaseAccountable, Forever
  <2> QED BY <2>1, <2>2, HeldStep DEF EndedBy
<1> QED BY <1>1, TypeCorrect, LeasesAccountable, SizeAndOwners, PTL DEF Spec, AuthBlockStays

\* Both together (LeaseNotStolen, AuthBlockStays), as the runs check them.
THEOREM NothingIsTakenAway == Spec => NothingTakenAway
BY LeasesNotStolen, AuthBlocksStay DEF NothingTakenAway

(***************************************************************************)
(* What a settled probe leaves behind.                                     *)
(***************************************************************************)
\* The report of a probe whose lease is active clears each of its circuits.
LEMMA ReportReleases ==
    ASSUME TypeOK, LeaseAccountable, Scoped, ~PersistMayFail,
           NEW r \in Req, req[r].st = "running", ActiveLease(Opened(req[r].proc), r),
           NEW k \in Target, k \in req[r].keys
    PROVE  LET Cleared == file'.entries[k].lease = NoReq
           IN  /\ ~StaleReport(r)
               /\ ReleaseProbe(r) => Cleared
               /\ CloseAll(r) => Cleared
               /\ \A retry \in RetryAfter \cup {NoTime}, reason \in Reason :
                     ProviderFailure(r, reason, retry) => Cleared
<1> DEFINE p == req[r].proc
           t == req[r].tgt
           keys == req[r].keys
           E == Opened(p)
           now == NowOf(p)
           Rel == [j \in Target |-> IF j \in keys
                      THEN [Unleased(E[j]) EXCEPT !.state = "open", !.until = now]
                      ELSE E[j]]
           Clo == [j \in Target |-> IF j \in ClosedBy(E, r) THEN Closed ELSE E[j]]
<1>1. /\ p \in Proc /\ t \in Target /\ k \in keys /\ keys \in SUBSET Target /\ r # NoReq
      /\ AppliesTo(k, t)
  BY CircuitAssumption DEF TypeOK, Request, Scoped
<1>2. E \in Entries /\ now \in Nat /\ now \in Int
  BY <1>1, OpenedType, CircuitAssumption
<1>3. file.entries[k].state = "half-open"
  BY <1>1, LeasedKeys
<1>4. SameLease(file.entries[k], E[k])
  BY <1>1, OpenedFades DEF Faded, ActiveLease
<1>5. E[k].lease = r /\ E[k].state = "half-open" /\ E[k] \in Entry
  BY <1>1, <1>2, <1>3, <1>4 DEF SameLease, ActiveLease, Entries
<1>6. ~StaleReport(r)
  BY DEF StaleReport
<1> HIDE DEF p, t, keys, E, now
<1>7. ASSUME NEW F \in Entries, F[k].lease = NoReq, NEW K
      PROVE  Refresh(F, K, now, p)[k].lease = NoReq
  <2>1. Faded(F, Refresh(F, K, now, p))
    BY <1>1, <1>2, RefreshFades
  <2> QED BY <1>7, <2>1 DEF Faded, SameLease
<1>8. ASSUME NEW at, NEW G, G[k].lease = NoReq, Persist(at, G) \/ PersistIfChanged(at, E, G)
      PROVE  file'.entries[k].lease = NoReq
  <2>1. E # G
    BY <1>1, <1>5, <1>8
  <2> QED BY <1>8, <2>1 DEF Persist, PersistIfChanged
<1>9. ReleaseProbe(r) => file'.entries[k].lease = NoReq
  <2>1. \A j \in Target : E[j] \in Entry /\ Unleased(E[j]) \in Entry
    BY <1>1, <1>2, EntryOps DEF Entries
  <2>2. \A j \in Target : [Unleased(E[j]) EXCEPT !.state = "open", !.until = now] \in Entry
    BY <1>2, <2>1, ZenonT(60) DEF Entry, Time
  <2>3. Unleased(E[k]).lease = NoReq
    BY <2>1 DEF Unleased, Entry
  <2>4. Rel \in Entries /\ Rel[k].lease = NoReq
    BY <1>1, <2>1, <2>2, <2>3, ZenonT(60) DEF Entries, Entry
  <2> HIDE DEF Rel
  <2>5. Refresh(Rel, Applicable(Rel, t), now, p)[k].lease = NoReq
    BY <1>7, <2>4
  <2> QED BY <1>8, <2>5 DEF ReleaseProbe, Rel, p, t, keys, E, now
<1>10. CloseAll(r) => file'.entries[k].lease = NoReq
  <2>1. k \in ClosedBy(E, r)
    BY <1>1, <1>5 DEF ClosedBy, Applicable, Present, t
  <2>2. Clo \in Entries /\ Clo[k].lease = NoReq
    BY <1>2, <2>1, ConstantEntries DEF Entries, Closed, Absent
  <2> HIDE DEF Clo
  <2>3. Refresh(Clo, Applicable(Clo, t), now, p)[k].lease = NoReq
    BY <1>7, <2>2
  <2> QED BY <1>8, <2>1, <2>3 DEF CloseAll, Clo, p, t, E, now
<1>11. ASSUME NEW retry \in RetryAfter \cup {NoTime}, NEW reason \in Reason,
              ProviderFailure(r, reason, retry)
       PROVE  file'.entries[k].lease = NoReq
  <2> DEFINE F == FailedEntries(E, keys, t, reason, retry, now)
  <2>1. F \in Entries
    BY <1>1, <1>2, FailedType
  <2>2. F[k].lease = NoReq
    <3>1. ApplyFailure(E[k], reason, retry, now, TRUE).lease = NoReq
      BY <1>2, <1>5, ApplyFailureType
    <3> QED BY <1>1, <3>1 DEF FailedEntries
  <2> HIDE DEF F
  <2>3. PICK G \in Pruned(F, keys \cup {FailureScope(t, reason)}) : Persist(now, G)
    BY <1>11 DEF ProviderFailure, F, p, t, keys, E, now
  <2>4. G[k].lease = NoReq
    BY <2>1, <2>2, <2>3, PrunedEntries DEF Absent
  <2> QED BY <1>8, <2>3, <2>4
<1> QED BY <1>6, <1>9, <1>10, <1>11

\* "keep the others blocked until it settles": a probe that reports its outcome
\* leaves a lease on none of its circuits, unless one of them had been taken
\* from it or had lapsed before, if saves succeed.
THEOREM SettledLeasesReleased ==
    ASSUME ~PersistMayFail
    PROVE  Spec => SettledLeaseReleased
<1>1. TypeOK /\ LeaseAccountable /\ Scoped /\ RunsAlive /\ [Next]_vars => [LeaseReleased]_vars
  <2> SUFFICES ASSUME TypeOK, LeaseAccountable, Scoped, RunsAlive, [Next]_vars,
                      NEW r \in Req, Reports(r), NEW k \in Target, file'.entries[k].lease = r,
                      \A j \in req[r].keys : /\ file.entries[j].lease = r
                                             /\ ~Lapsed(file.entries[j])
               PROVE  FALSE
    BY DEF LeaseReleased
  <2>1. /\ req[r].st = "running" /\ req[r].proc \in Proc /\ alive[req[r].proc]
        /\ r # NoReq /\ req[r].keys \subseteq Target
    BY CircuitAssumption DEF Reports, TypeOK, Request, RunsAlive
  <2>2. ActiveLease(Opened(req[r].proc), r)
    <3>1. ASSUME NEW j \in req[r].keys PROVE Opened(req[r].proc)[j].lease = r
      <4>1. Stands(file.entries[j], Opened(req[r].proc)[j])
        BY <2>1, ReadingStands
      <4> QED BY <2>1, <4>1 DEF Stands, SameLease
    <3> QED BY <3>1 DEF ActiveLease
  <2>3. PICK retry \in RetryAfter \cup {NoTime}, reason \in Reason \cup {"none"} :
           RecordSuccess(r) \/ RecordFailure(r, reason, retry)
    BY SettledByReport DEF Reports
  <2>4. Inherits
    BY <2>1, <2>3, ReportInherits DEF RecordSuccess, RecordFailure
  <2>5. k \in req[r].keys
    <3>1. file.entries[k].lease = r
      BY <2>1, <2>4 DEF Inherits, SameLease
    <3> QED BY <2>1, <3>1 DEF LeaseAccountable
  <2>6. file'.entries[k].lease = NoReq
    BY <2>1, <2>2, <2>3, <2>5, ReportReleases DEF RecordSuccess, RecordFailure
  <2> QED BY <2>1, <2>6
<1> QED BY <1>1, TypeCorrect, LeasesAccountable, ScopedAlways, SizeAndOwners, PTL
        DEF Spec, SettledLeaseReleased

(***************************************************************************)
(* What a failure blocks.                                                  *)
(***************************************************************************)
\* Reading the store opens no circuit.
LEMMA OpenedOpensNone ==
    ASSUME TypeOK, NEW p \in Proc, NEW k \in Target
    PROVE  /\ Loaded(p)[k].state = "open" => file.entries[k].state = "open"
           /\ Opened(p)[k].state = "open" => file.entries[k].state = "open"
           /\ \A E, K, now : Refresh(E, K, now, p)[k].state = "open" => E[k].state = "open"
<1>1. ASSUME NEW E, NEW K, NEW now, Refresh(E, K, now, p)[k].state = "open"
      PROVE  E[k].state = "open"
  <2>1. ASSUME NEW e, ExpireLease(ExpireOpen(e, now), now, p).state = "open"
        PROVE  e.state = "open"
    <3>1. CASE e.state = "open"
      BY <3>1
    <3>2. CASE e.state # "open"
      <4>1. ExpireOpen(e, now) = e
        BY <3>2 DEF ExpireOpen
      <4>2. CASE e.state = "half-open" /\ e.lease # NoReq /\ LeaseGone(e, now, p)
        <5>1. ExpireLease(e, now, p) = Unleased(e)
          BY <4>2 DEF ExpireLease
        <5> QED BY <2>1, <4>1, <5>1 DEF Unleased
      <4>3. CASE ~(e.state = "half-open" /\ e.lease # NoReq /\ LeaseGone(e, now, p))
        BY <2>1, <4>1, <4>3 DEF ExpireLease
      <4> QED BY <4>2, <4>3
    <3> QED BY <3>1, <3>2
  <2> QED BY <1>1, <2>1 DEF Refresh
<1>2. ASSUME NEW E \in Entries, NEW delta \in Int
      PROVE  ShiftTimestamps(E, delta)[k].state = E[k].state
  <2>1. E[k] \in Entry
    BY DEF Entries
  <2> QED BY <2>1 DEF ShiftTimestamps, Entry
<1>3. /\ file.entries \in Entries /\ lastClock[p] - file.savedAt \in Int
      /\ Loaded(p) \in Entries /\ clock - lastClock[p] \in Int
  BY CircuitAssumption, OpenedType DEF TypeOK, Entries
<1>4. Loaded(p)[k].state = "open" => file.entries[k].state = "open"
  BY <1>1, <1>2, <1>3 DEF Loaded
<1>5. Opened(p)[k].state = "open" => Loaded(p)[k].state = "open"
  BY <1>2, <1>3 DEF Opened
<1> QED BY <1>1, <1>4, <1>5

LEMMA PersistOpens ==
    ASSUME NEW k, file.entries[k].state # "open", NEW at, NEW E, E[k].state # "open"
    PROVE  /\ Persist(at, E) => file'.entries[k].state # "open"
           /\ \A B : PersistIfChanged(at, B, E) => file'.entries[k].state # "open"
<1>1. Persist(at, E) => file'.entries[k].state # "open"
  BY DEF Persist
<1> QED BY <1>1 DEF PersistIfChanged

\* A report opens the keys of its lease and the scope of its failure, only.
Hit(r, k) == k \in req[r].keys \/ \E reason \in Reason : k = FailureScope(req[r].tgt, reason)

LEMMA ReportOpens ==
    ASSUME TypeOK, NEW r \in Req, req[r].st = "running",
           NEW k \in Target, file.entries[k].state # "open", ~Hit(r, k)
    PROVE  LET Shut == file'.entries[k].state # "open"
           IN  /\ StaleReport(r) => Shut
               /\ ReleaseProbe(r) => Shut
               /\ CloseAll(r) => Shut
               /\ \A retry \in RetryAfter \cup {NoTime}, reason \in Reason :
                     ProviderFailure(r, reason, retry) => Shut
<1> DEFINE p == req[r].proc
           t == req[r].tgt
           keys == req[r].keys
           E == Opened(p)
           now == NowOf(p)
           Rel == [j \in Target |-> IF j \in keys
                      THEN [Unleased(E[j]) EXCEPT !.state = "open", !.until = now]
                      ELSE E[j]]
           Clo == [j \in Target |-> IF j \in ClosedBy(E, r) THEN Closed ELSE E[j]]
<1>1. /\ p \in Proc /\ t \in Target /\ keys \in SUBSET Target /\ k \notin keys
      /\ \A reason \in Reason : k # FailureScope(t, reason)
      /\ E \in Entries /\ now \in Nat /\ E[k].state # "open"
      /\ \A F, K : F[k].state # "open" => Refresh(F, K, now, p)[k].state # "open"
  BY OpenedType, OpenedOpensNone, CircuitAssumption DEF TypeOK, Request, Hit
<1> HIDE DEF p, t, keys, E, now
<1>2. StaleReport(r) => file'.entries[k].state # "open"
  BY <1>1, PersistOpens DEF StaleReport, StatusOf, p, t, E, now
<1>3. ReleaseProbe(r) => file'.entries[k].state # "open"
  <2>1. Rel[k].state # "open"
    BY <1>1
  <2> HIDE DEF Rel
  <2>2. Refresh(Rel, Applicable(Rel, t), now, p)[k].state # "open"
    BY <1>1, <2>1
  <2> QED BY <2>2, PersistOpens DEF ReleaseProbe, Rel, p, t, keys, E, now
<1>4. CloseAll(r) => file'.entries[k].state # "open"
  <2>1. Clo[k].state # "open"
    BY <1>1 DEF Closed, Absent
  <2> HIDE DEF Clo
  <2>2. Refresh(Clo, Applicable(Clo, t), now, p)[k].state # "open"
    BY <1>1, <2>1
  <2> QED BY <2>2, PersistOpens DEF CloseAll, Clo, p, t, E, now
<1>5. ASSUME NEW retry \in RetryAfter \cup {NoTime}, NEW reason \in Reason,
             ProviderFailure(r, reason, retry)
      PROVE  file'.entries[k].state # "open"
  <2> DEFINE F == FailedEntries(E, keys, t, reason, retry, now)
  <2>1. F \in Entries
    BY <1>1, FailedType
  <2>2. F[k] = E[k]
    BY <1>1 DEF FailedEntries
  <2> HIDE DEF F
  <2>3. PICK G \in Pruned(F, keys \cup {FailureScope(t, reason)}) : Persist(now, G)
    BY <1>5 DEF ProviderFailure, F, p, t, keys, E, now
  <2>4. G[k].state # "open"
    BY <1>1, <2>1, <2>2, <2>3, PrunedEntries DEF Absent
  <2> QED BY <2>3, <2>4, PersistOpens
<1> QED BY <1>2, <1>3, <1>4, <1>5

\* Nothing else opens a circuit.
LEMMA StepOpens ==
    ASSUME TypeOK, [Next]_vars, NEW k \in Target,
           file.entries[k].state # "open", file'.entries[k].state = "open"
    PROVE  \E r \in Req : req[r].st = "running" /\ req'[r].st = "settled" /\ Hit(r, k)
<1> DEFINE Goal == \E r \in Req : req[r].st = "running" /\ req'[r].st = "settled" /\ Hit(r, k)
<1>a. \A p \in Proc : /\ Loaded(p)[k].state # "open" /\ Opened(p)[k].state # "open"
                      /\ \A K : Refresh(Opened(p), K, NowOf(p), p)[k].state # "open"
  BY OpenedOpensNone
<1>b. \A r \in Req : Settle(r) => req'[r].st = "settled"
  BY DEF Settle, Ended, TypeOK, Request
<1>1. ASSUME NEW p \in Proc, NEW r \in Req, NEW t \in RequestTarget, TryAcquire(p, r, t)
      PROVE  Goal
  <2> DEFINE E == Opened(p)
             R == Refresh(E, Applicable(E, t), NowOf(p), p)
             K == Probes(R, Applicable(E, t))
  <2>1. R[k].state # "open"
    BY <1>a
  <2>2. Granted(R, K, p, r, NowOf(p))[k].state # "open"
    <3>1. R[k] \in Entry
      BY OpenedType, RefreshType, CircuitAssumption DEF Entries
    <3> HIDE DEF R, K
    <3> QED BY <2>1, <3>1 DEF Granted, Entry
  <2>3. CASE AcquireDenied(p, t)
    BY <2>1, <2>3, PersistOpens DEF AcquireDenied
  <2>4. CASE AcquirePlain(p, r, t)
    BY <2>1, <2>4, PersistOpens DEF AcquirePlain
  <2>5. CASE AcquireProbe(p, r, t)
    BY <2>2, <2>5, PersistOpens DEF AcquireProbe
  <2> QED BY <2>3, <2>4, <2>5, <1>1 DEF TryAcquire
<1>2. ASSUME FailureStep PROVE Goal
  BY <1>2, <1>b, ReportOpens DEF FailureStep, RecordFailure
<1>3. ASSUME NEW r \in Req, RecordSuccess(r) PROVE Goal
  BY <1>3, <1>b, ReportOpens DEF RecordSuccess
<1>4. ASSUME UNCHANGED file PROVE Goal
  BY <1>4
<1>5. ASSUME NEW p \in Proc, NEW scope, Reset(p, scope) PROVE Goal
  <2> DEFINE gone == {j \in Present(Loaded(p)) : AppliesTo(scope, j)}
             G == [j \in Target |-> IF j \in gone THEN Absent ELSE Loaded(p)[j]]
  <2>1. G[k].state # "open"
    BY <1>a DEF Absent
  <2> HIDE DEF G
  <2> QED BY <1>5, <2>1, PersistOpens DEF Reset, G
<1>6. ASSUME NEW p \in Proc, ResetAll(p) PROVE Goal
  <2>1. [j \in Target |-> Absent][k].state # "open"
    BY DEF Absent
  <2> QED BY <1>6, <2>1, PersistOpens DEF ResetAll
<1>7. ASSUME NEW p \in Proc, NEW t \in AnnotateTarget, Annotate(p, t) PROVE Goal
  <2> DEFINE E == Loaded(p)
             F == IF E[t].state = "absent" THEN [E EXCEPT ![t] = Closed] ELSE E
  <2>1. F \in Entries /\ F[k].state # "open"
    <3>1. E \in Entries /\ t \in Target /\ E[k].state # "open"
      BY <1>a, OpenedType, TargetAssumption
    <3> HIDE DEF E
    <3> QED BY <3>1, ConstantEntries DEF Entries, Closed, Absent
  <2>2. PICK G \in Pruned(F, {}) : Persist(lastClock[p], G)
    BY <1>7 DEF Annotate
  <2> HIDE DEF F
  <2>3. G[k].state # "open"
    BY <2>1, <2>2, PrunedEntries DEF Absent
  <2> QED BY <2>2, <2>3, PersistOpens
<1>8. ASSUME NEW p \in Proc, NEW t, Status(p, t) \/ ListStatuses(p) PROVE Goal
  BY <1>8, <1>a, PersistOpens DEF Status, StatusOf, ListStatuses
<1>9. ASSUME OtherStep PROVE Goal
  BY <1>1, <1>3, <1>4, <1>5, <1>6, <1>7, <1>8, <1>9
     DEF OtherStep, Abandon, Start, Crash, Tick, ClockBack
<1> QED BY <1>2, <1>4, <1>9 DEF Next, vars

\* The targets of one provider all name an account, or none does.
Accounts == \A s \in Scopes, t \in RequestTarget : AppliesTo(s, t) => s.acc = t.acc

LEMMA BlastStep ==
    ASSUME Accounts
    PROVE  TypeOK /\ Scoped /\ [Next]_vars => BlastContained
<1> SUFFICES ASSUME TypeOK, Scoped, [Next]_vars, NEW t \in RequestTarget,
                    OpenFor(file'.entries, t), ~OpenFor(file.entries, t)
             PROVE  \E r \in Req :
                       /\ req[r].st = "running" /\ req'[r].st = "settled"
                       /\ t.prov = req[r].tgt.prov
                       /\ req[r].tgt.acc \in {NoAccount, t.acc}
                       /\ \/ req[r].tgt.mod \in {NoModel, t.mod}
                          \/ file'.entries[[req[r].tgt EXCEPT !.mod = NoModel]].state = "open"
  BY DEF BlastContained
<1>1. PICK k \in Target : file'.entries[k].state = "open" /\ AppliesTo(k, t)
  BY DEF OpenFor, Applicable, Present
<1>2. file.entries[k].state # "open"
  BY <1>1 DEF OpenFor, Applicable, Present
<1>3. PICK r \in Req : req[r].st = "running" /\ req'[r].st = "settled" /\ Hit(r, k)
  BY <1>1, <1>2, StepOpens
<1> DEFINE u == req[r].tgt
<1>4. u \in RequestTarget /\ u \in Target
  BY TargetAssumption DEF Scoped
<1>5. k \in Scopes /\ AppliesTo(k, u)
  <2>1. CASE k \in req[r].keys
    BY <1>3, <2>1 DEF Scoped
  <2>2. ASSUME NEW reason \in Reason, k = FailureScope(u, reason)
        PROVE  k \in Scopes /\ AppliesTo(k, u)
    <3>1. k \in Scopes
      BY <1>4, <2>2 DEF Scopes
    <3>2. k.prov = u.prov /\ k.acc = u.acc /\ k.mod \in {NoModel, u.mod}
      BY <1>4, <2>2 DEF FailureScope, Target
    <3> QED BY <3>1, <3>2 DEF AppliesTo
  <2> QED BY <1>3, <2>1, <2>2 DEF Hit
<1>6. k.acc = t.acc /\ k.acc = u.acc /\ k.prov = t.prov /\ k.prov = u.prov
  BY <1>1, <1>4, <1>5 DEF Accounts, AppliesTo
<1>7. u.mod \in {NoModel, t.mod} \/ k = [u EXCEPT !.mod = NoModel]
  <2>1. CASE k.mod = NoModel
    BY <1>4, <1>6, <2>1 DEF Target
  <2>2. CASE k.mod # NoModel
    BY <1>1, <1>5, <2>2 DEF AppliesTo
  <2> QED BY <2>1, <2>2
<1> QED BY <1>1, <1>3, <1>6, <1>7

\* A circuit opens for a target only by the report of a request of its own
\* account, and for another model only through the account-wide entry
\* (failureScope, recordFailure).
THEOREM FailuresStayInScope ==
    ASSUME Accounts
    PROVE  Spec => BlastRadius
<1>1. TypeOK /\ Scoped /\ [Next]_vars => BlastContained
  BY BlastStep
<1> QED BY <1>1, ScopedAlways, TypeCorrect, PTL DEF Spec, BlastRadius

\* The store has room for the entries that can apply to one target, so a prune
\* never removes those that a report has just stamped.
Room == \A t \in RequestTarget : LET S == {k \in Scopes : AppliesTo(k, t)}
                                 IN  IsFiniteSet(S) /\ Cardinality(S) <= MaxEntries

LEMMA SparedStays ==
    ASSUME NEW E, NEW S, IsFiniteSet(S), Cardinality(S) <= MaxEntries,
           NEW spared \in SUBSET S, NEW k \in spared \cap Target,
           E[k].state = "open", NEW G \in Pruned(E, spared)
    PROVE  G[k] = E[k]
<1>1. CASE Cardinality(Present(E)) <= MaxEntries
  BY <1>1 DEF Pruned
<1>2. CASE ~(Cardinality(Present(E)) <= MaxEntries)
  <2> DEFINE closed == {j \in Present(E) : E[j].state = "closed"}
             pool   == IF closed # {} THEN closed ELSE Present(E)
             victim == IF pool \subseteq spared THEN pool ELSE pool \ spared
  <2>1. k \notin victim
    <3>1. CASE closed # {}
      BY <3>1
    <3>2. CASE closed = {}
      <4>1. ~(Present(E) \subseteq spared)
        <5> SUFFICES ASSUME Present(E) \subseteq S PROVE FALSE
          OBVIOUS
        <5>1. Cardinality(Present(E)) <= Cardinality(S) /\ IsFiniteSet(Present(E))
          BY FS_Subset
        <5>2. Cardinality(Present(E)) \in Nat /\ Cardinality(S) \in Nat
          BY <5>1, FS_CardinalityType
        <5> QED BY <1>2, <5>1, <5>2, CircuitAssumption
      <4> QED BY <3>2, <4>1
    <3> QED BY <3>1, <3>2
  <2>2. \E v \in victim : G = [j \in Target |-> IF j = v THEN Absent ELSE E[j]]
    BY <1>2 DEF Pruned
  <2> HIDE DEF victim
  <2> QED BY <2>1, <2>2
<1> QED BY <1>1, <1>2

\* The block that a quota or auth failure gives its scope.
BlocksAfter(e, now) == e.state = "open" /\ (e.until = NoTime \/ e.until > now)

LEMMA BlockOfFailure ==
    ASSUME NEW E \in Entries, NEW keys \in SUBSET Target, NEW t \in Target,
           NEW reason \in {"quota", "auth"}, NEW now \in Nat
    PROVE  BlocksAfter(FailedEntries(E, keys, t, reason, NoTime, now)[FailureScope(t, reason)], now)
<1> DEFINE scope == FailureScope(t, reason)
           old == IF E[scope].state = "absent" THEN Closed ELSE E[scope]
<1>1. scope \in Target
  BY DEF FailureScope, Target
<1>2. ASSUME NEW opens PROVE LET u == BlockedUntil(reason, opens, NoTime, now)
                             IN  u = NoTime \/ u > now
  BY CircuitAssumption DEF BlockedUntil, Cooldown
<1>3. ASSUME NEW e, NEW w
      PROVE  BlocksAfter(ApplyFailure(e, reason, NoTime, now, w), now)
  <2> DEFINE tries == AtMost(e.attempts + 1, Threshold)
             opens == AtMost(e.opens + 1, OpenCap)
             till  == BlockedUntil(reason, opens, NoTime, now)
             A == [Absent EXCEPT !.state = "open", !.attempts = tries, !.opens = opens,
                                 !.until = till]
  <2>1. ApplyFailure(e, reason, NoTime, now, w) = A
    BY DEF ApplyFailure
  <2>2. till = NoTime \/ till > now
    BY <1>2
  <2> HIDE DEF tries, opens, till
  <2>3. A.state = "open" /\ A.until = till
    BY DEF Absent
  <2> QED BY <2>1, <2>2, <2>3 DEF BlocksAfter
<1>4. FailedEntries(E, keys, t, reason, NoTime, now)[scope] \in
         {ApplyFailure(E[scope], reason, NoTime, now, TRUE),
          ApplyFailure(old, reason, NoTime, now, old.state = "half-open")}
  BY <1>1 DEF FailedEntries
<1> HIDE DEF scope, old
<1>5. BlocksAfter(FailedEntries(E, keys, t, reason, NoTime, now)[scope], now)
  <2>1. BlocksAfter(ApplyFailure(E[scope], reason, NoTime, now, TRUE), now)
    BY <1>3
  <2>2. BlocksAfter(ApplyFailure(old, reason, NoTime, now, old.state = "half-open"), now)
    BY <1>3
  <2> QED BY <1>4, <2>1, <2>2, Zenon
<1> QED BY <1>5 DEF scope

\* An operation at the time the store was saved finds its blocks as they are.
LEMMA BlockIsSeen ==
    ASSUME NEW p \in Proc, NEW k \in Target, NEW t, AppliesTo(k, t), NEW now \in Nat,
           file'.savedAt = now, lastClock'[p] = now, NowOf(p)' = now,
           clock' \in Nat, now - Skew <= clock',
           BlocksAfter(file'.entries[k], now), file'.entries[k].until \in Time
    PROVE  Denied(p, t)'
<1> DEFINE e == file'.entries[k]
<1>1. ~Jumped(p)' /\ ~(lastClock'[p] < file'.savedAt - Skew)
  BY CircuitAssumption DEF Jumped
<1>2. ASSUME NEW f, f = e PROVE ExpireLease(ExpireOpen(f, now), now, p)' = f
  <2>1. ExpireOpen(f, now) = f
    BY <1>2, CircuitAssumption DEF ExpireOpen, BlocksAfter, Time, NoTime
  <2> QED BY <1>2, <2>1 DEF ExpireLease, BlocksAfter
<1>3. Loaded(p)' = Refresh(file.entries, Target, lastClock[p], p)'
  BY <1>1 DEF Loaded
<1>4. Opened(p)' = Loaded(p)'
  BY <1>1 DEF Opened
<1>5. Opened(p)'[k] = e
  BY <1>2, <1>3, <1>4 DEF Refresh
<1>6. k \in Applicable(Opened(p), t)'
  BY <1>5 DEF Applicable, Present, BlocksAfter
<1>7. Refresh(Opened(p), Applicable(Opened(p), t), NowOf(p), p)'[k] = e
  BY <1>2, <1>5 DEF Refresh
<1> QED BY <1>6, <1>7 DEF Denied, Blockers, BlocksAfter

LEMMA BlocksStep ==
    ASSUME Room, ~PersistMayFail
    PROVE  TypeOK /\ Scoped /\ [Next]_vars => BlockedAtOnce
<1> SUFFICES ASSUME TypeOK, Scoped, NEW r \in Req, NEW p \in Proc, NEW t \in RequestTarget,
                    NEW reason \in {"quota", "auth"}, [Next]_vars,
                    req[r].st = "running", req[r].proc = p, req[r].tgt = t,
                    ActiveLease(Opened(p), r), RecordFailure(r, reason, NoTime)
             PROVE  Denied(p, t)'
  BY DEF BlockedAtOnce
<1> DEFINE E == Opened(p)
           keys == req[r].keys
           now == NowOf(p)
           scope == FailureScope(t, reason)
           F == FailedEntries(E, keys, t, reason, NoTime, now)
           S == {k \in Scopes : AppliesTo(k, t)}
<1>1. /\ t \in Target /\ keys \in SUBSET Target /\ keys \subseteq S
      /\ E \in Entries /\ now \in 0 .. MaxTime /\ now \in Nat /\ reason \in Reason
      /\ clock \in Nat /\ lastClock[p] \in Nat
  BY OpenedType, CircuitAssumption, TargetAssumption DEF TypeOK, Request, Scoped, Reason
<1>2. scope \in S /\ scope \in Target
  <2>1. /\ scope \in Target /\ scope.prov = t.prov /\ scope.acc = t.acc
        /\ scope.mod \in {NoModel, t.mod}
    BY <1>1 DEF FailureScope, Target
  <2> QED BY <1>1, <2>1 DEF Scopes, AppliesTo
<1>3. PICK G \in Pruned(F, keys \cup {scope}) : Persist(now, G)
  <2>1. ProviderFailure(r, reason, NoTime)
    BY DEF RecordFailure, StaleReport, ReleaseProbe
  <2> QED BY <2>1 DEF ProviderFailure
<1>4. F \in Entries /\ BlocksAfter(F[scope], now)
  <2> HIDE DEF E, keys, now
  <2> QED BY <1>1, FailedType, BlockOfFailure
<1> HIDE DEF E, keys, now, F
<1>5. G[scope] = F[scope] /\ F[scope].until \in Time
  <2>1. IsFiniteSet(S) /\ Cardinality(S) <= MaxEntries
    BY DEF Room
  <2>2. G[scope] = F[scope]
    BY <1>1, <1>2, <1>3, <1>4, <2>1, SparedStays DEF BlocksAfter
  <2> QED BY <1>2, <1>4, <2>2 DEF Entries, Entry
<1>6. file'.savedAt = now /\ file'.entries = G /\ clock' = clock /\ lastClock'[p] = now
  BY <1>3 DEF Persist, RecordFailure, Ticked, TypeOK, now
<1>7. now - Skew <= clock /\ NowOf(p)' = now
  <2>1. now - Skew <= clock
    BY <1>1, CircuitAssumption DEF NowOf, Jumped, now
  <2>2. now = clock \/ (now = lastClock[p] /\ clock < lastClock[p])
    BY <1>1, CircuitAssumption DEF NowOf, Jumped, now
  <2>3. ~Jumped(p)'
    BY <1>6, <2>1, <1>1, CircuitAssumption DEF Jumped
  <2>4. NowOf(p)' = IF Jumped(p)' \/ clock' >= lastClock'[p] THEN clock' ELSE lastClock'[p]
    BY DEF NowOf
  <2>5. NowOf(p)' = IF clock >= now THEN clock ELSE now
    BY <1>6, <2>3, <2>4
  <2> QED BY <1>1, <2>1, <2>2, <2>5
<1> HIDE DEF scope
<1>8. /\ AppliesTo(scope, t) /\ BlocksAfter(file'.entries[scope], now)
      /\ file'.entries[scope].until \in Time
  BY <1>2, <1>4, <1>5, <1>6
<1> QED BY <1>1, <1>2, <1>6, <1>7, <1>8, BlockIsSeen

\* Once a quota or auth failure has been reported under an active lease, the same
\* process is refused the same target at once: the block outlives the prune, the
\* save and the reload of the store (recordFailure, tryAcquire).
THEOREM FailuresBlockAtOnce ==
    ASSUME Room, ~PersistMayFail
    PROVE  Spec => FailureBlocksAtOnce
<1>1. TypeOK /\ Scoped /\ [Next]_vars => BlockedAtOnce
  BY BlocksStep
<1> QED BY <1>1, ScopedAlways, TypeCorrect, PTL DEF Spec, FailureBlocksAtOnce

(***************************************************************************)
(* Deadlines in real time when the clock may be set back, for one running  *)
(* process at a time.  What the store or a process takes for the time is   *)
(* an anchor: a value of the clock, the real time at which it was current, *)
(* and the number of corrections made by then.                             *)
(***************************************************************************)
Anchor == [clk : Nat, real : Nat, cor : Nat]

\* Real time goes on, and the clock falls behind it only by being set back.
Before(a, b) ==
    /\ a.real <= b.real /\ a.real - a.clk <= b.real - b.clk
    /\ a.cor <= b.cor /\ (b.clk < a.clk => a.cor < b.cor)

Horizon(a) == a.clk + LongestBlock + Skew * a.cor

\* Entry e, as someone knows it who takes a for the time: it blocks for as long
\* as real time d asks, and for no longer than a block may last.
Timed(e, d, a) ==
    /\ e.state = "open" /\ e.until # NoTime =>
          d <= e.until + a.real - a.clk /\ e.until <= Horizon(a)
    /\ e.state = "half-open" => d <= a.real

Today == [clk |-> clock, real |-> RealTime, cor |-> corrections]

OneAtATime == \A p, q \in Proc : alive[p] /\ alive[q] => p = q

\* Retry-After values are bounded.
Capped == \E b \in Nat : \A n \in RetryAfter : n <= b

LEMMA LeastNumber == \A S \in SUBSET Nat : S # {} => \E m \in S : \A k \in S : m <= k
<1> SUFFICES ASSUME NEW S \in SUBSET Nat, S # {} PROVE \E m \in S : \A k \in S : m <= k
  OBVIOUS
<1> DEFINE R == {ss \in Nat \X Nat : ss[1] < ss[2]}
<1>1. IsWellFoundedOn(R, Nat)
  BY NatLessThanWellFounded DEF OpToRel
<1>2. PICK m \in S : \A k \in S : ~(<<k, m>> \in R)
  BY <1>1, WFMin
<1>3. \A k \in S : ~(k < m)
  BY <1>2
<1> QED BY <1>3

\* There is a longest block.
LEMMA LongestIs ==
    ASSUME Capped
    PROVE  /\ LongestBlock \in Nat
           /\ \A n \in RetryAfter \cup {QuotaCooldown, ModelCooldown, MaxCooldown} :
                 n <= LongestBlock
<1> DEFINE M == RetryAfter \cup {QuotaCooldown, ModelCooldown, MaxCooldown}
           U == {b \in Nat : \A n \in M : n <= b}
<1>1. M \in SUBSET Nat /\ M # {}
  BY CircuitAssumption
<1>2. U # {}
  <2>1. PICK b \in Nat : \A n \in RetryAfter : n <= b
    BY DEF Capped
  <2>2. b + QuotaCooldown + ModelCooldown + MaxCooldown \in U
    BY <1>1, <2>1, CircuitAssumption
  <2> QED BY <2>2
<1> HIDE DEF M
<1>3. PICK u \in U : \A b \in U : u <= b
  BY <1>2, LeastNumber
<1>4. u \in M
  <2> SUFFICES ASSUME u \notin M PROVE FALSE
    OBVIOUS
  <2>1. \A n \in M : n \in Nat /\ n < u
    BY <1>1, <1>3
  <2>2. u - 1 \in U
    <3>1. u \in Nat /\ u - 1 \in Nat
      <4>1. PICK n \in M : TRUE
        BY <1>1
      <4>2. n \in Nat /\ n < u /\ u \in Nat
        BY <2>1, <1>3
      <4> QED BY <4>2
    <3>2. \A n \in M : n <= u - 1
      BY <2>1, <3>1
    <3> QED BY <3>1, <3>2 DEF M
  <2> QED BY <1>3, <2>2
<1>5. \E n \in M : \A m \in M : m <= n
  BY <1>3, <1>4
<1>6. LongestBlock \in M /\ \A m \in M : m <= LongestBlock
  BY <1>5 DEF LongestBlock, M
<1> QED BY <1>1, <1>6 DEF M

\* Anchors are ordered.
LEMMA BeforeOrder ==
    /\ \A a \in Anchor : Before(a, a)
    /\ \A a, b, c \in Anchor : Before(a, b) /\ Before(b, c) => Before(a, c)
BY DEF Before, Anchor

\* A correction of the clock pays for the skew it may hide in.
LEMMA Horizons ==
    ASSUME Capped, NEW a \in Anchor, NEW b \in Anchor, Before(a, b)
    PROVE  /\ Horizon(a) \in Nat /\ Horizon(b) \in Nat
           /\ Horizon(a) + b.clk - a.clk <= Horizon(b)
           /\ b.clk >= a.clk - Skew => Horizon(a) <= Horizon(b)
<1>1. /\ Skew \in Nat /\ LongestBlock \in Nat /\ a.clk \in Nat /\ b.clk \in Nat
      /\ a.cor \in Nat /\ b.cor \in Nat
  BY CircuitAssumption, LongestIs DEF Anchor
<1>2. \A x, y \in Nat : x <= y => Skew * x <= Skew * y
  BY <1>1
<1>3. \A x, y \in Nat : x < y => Skew * x + Skew <= Skew * y
  <2> SUFFICES ASSUME NEW x \in Nat, NEW y \in Nat, x < y PROVE Skew * x + Skew <= Skew * y
    OBVIOUS
  <2>1. Skew * (x + 1) <= Skew * y
    BY <1>2
  <2>2. Skew * (x + 1) = Skew * x + Skew
    BY <1>1
  <2> QED BY <2>1, <2>2
<1>4. /\ Skew * a.cor \in Nat /\ Skew * b.cor \in Nat /\ Skew * a.cor <= Skew * b.cor
      /\ b.clk < a.clk => Skew * a.cor + Skew <= Skew * b.cor
  BY <1>1, <1>2, <1>3 DEF Before
<1> QED BY <1>1, <1>4 DEF Horizon

\* An entry is read by a later clock that tolerates the difference.
LEMMA LaterTimed ==
    ASSUME Capped, NEW a \in Anchor, NEW b \in Anchor, Before(a, b), b.clk >= a.clk - Skew,
           NEW e \in Entry, NEW d \in Int, Timed(e, d, a)
    PROVE  Timed(e, d, b)
<1>1. Horizon(a) <= Horizon(b) /\ Horizon(a) \in Nat /\ Horizon(b) \in Nat
  BY Horizons
<1>2. e.until \in Int
  BY DEF Entry, Time, NoTime
<1> QED BY <1>1, <1>2 DEF Timed, Before, Anchor

\* Or it is rebased to a later clock, as shiftTimestamps does.
LEMMA ShiftTimed ==
    ASSUME Capped, NEW a \in Anchor, NEW b \in Anchor, Before(a, b),
           NEW E \in Entries, NEW k \in Target, NEW d \in Int, Timed(E[k], d, a)
    PROVE  Timed(ShiftTimestamps(E, b.clk - a.clk)[k], d, b)
<1> DEFINE e == E[k]
           f == ShiftTimestamps(E, b.clk - a.clk)[k]
           delta == b.clk - a.clk
<1>1. e \in Entry /\ e.until \in Int
  BY DEF Entries, Entry, Time, NoTime
<1>2. /\ f.state = e.state
      /\ e.until = NoTime => f.until = NoTime
      /\ e.until # NoTime => f.until = NotBelowZero(e.until + delta)
  BY <1>1 DEF ShiftTimestamps, Entry
<1>3. /\ a.clk \in Nat /\ b.clk \in Nat /\ a.real \in Nat /\ b.real \in Nat /\ delta \in Int
      /\ Horizon(a) \in Nat /\ Horizon(b) \in Nat /\ Horizon(a) + b.clk - a.clk <= Horizon(b)
  BY Horizons DEF Anchor
<1>4. Timed(e, d, a)
  OBVIOUS
<1> HIDE DEF e, f
<1>5. ASSUME f.state = "open", f.until # NoTime
      PROVE  d <= f.until + b.real - b.clk /\ f.until <= Horizon(b)
  <2>1. d <= e.until + a.real - a.clk /\ e.until <= Horizon(a)
    BY <1>2, <1>4, <1>5 DEF Timed
  <2>2. f.until = NotBelowZero(e.until + delta)
    BY <1>2, <1>5
  <2>3. f.until >= e.until + delta /\ f.until \in {0, e.until + delta} /\ f.until \in Int
    BY <1>1, <1>3, <2>2 DEF NotBelowZero
  <2> QED BY <1>1, <1>3, <2>1, <2>3 DEF Before
<1>6. f.state = "half-open" => d <= b.real
  BY <1>2, <1>3, <1>4 DEF Timed, Before
<1> QED BY <1>5, <1>6 DEF Timed, f

\* Expiring entries by a time that is not ahead.
LEMMA RefreshTimed ==
    ASSUME NEW a \in Anchor, NEW E \in Entries, NEW k \in Target, NEW d \in Int,
           Timed(E[k], d, a), NEW K, NEW p \in Proc
    PROVE  Timed(Refresh(E, K, a.clk, p)[k], d, a)
<1> DEFINE f == E[k]
           g == ExpireOpen(f, a.clk)
           h == ExpireLease(g, a.clk, p)
<1>1. f \in Entry /\ f.until \in Int /\ a.clk \in Int /\ a.real \in Int
  BY DEF Entries, Entry, Time, NoTime, Anchor
<1>2. /\ \/ g.state = f.state
         \/ f.state = "open" /\ f.until # NoTime /\ f.until <= a.clk /\ g.state = "half-open"
      /\ g.until = f.until /\ g \in Entry
  <2> DEFINE u == Unleased(f)
             w == [u EXCEPT !.state = "half-open"]
  <2>1. u \in Entry /\ u.until = f.until
    BY <1>1, EntryOps DEF Unleased, Entry
  <2> HIDE DEF u
  <2>2. w.state = "half-open" /\ w.until = u.until
    BY <2>1 DEF Entry
  <2>3. (g = w /\ f.state = "open" /\ f.until # NoTime /\ f.until <= a.clk) \/ g = f
    BY DEF ExpireOpen, u
  <2>4. g \in Entry
    BY <1>1, EntryOps
  <2> HIDE DEF w, g, f
  <2> QED BY <2>1, <2>2, <2>3, <2>4
<1>3. h.state = g.state /\ h.until = g.until
  <2>1. Unleased(g).state = g.state /\ Unleased(g).until = g.until
    BY <1>2 DEF Unleased, Entry
  <2> QED BY <2>1 DEF ExpireLease
<1>4. Refresh(E, K, a.clk, p)[k] \in {f, h}
  BY DEF Refresh
<1>5. Timed(f, d, a)
  OBVIOUS
<1> HIDE DEF f, g, h
<1>6. Timed(h, d, a)
  BY <1>1, <1>2, <1>3, <1>5 DEF Timed
<1> QED BY <1>4, <1>5, <1>6

\* What a process knows of the time: the store was saved before it last looked
\* at the clock, and both were before now.
Known(p, f, l) ==
    /\ f \in Anchor /\ l \in Anchor /\ f.clk = file.savedAt /\ l.clk = lastClock[p]
    /\ Before(f, l) /\ Before(l, Today)

\* The time of an operation of p that last knew l.
Moment(p, l) ==
    [clk |-> NowOf(p), real |-> RealTime, cor |-> IF NowOf(p) = clock THEN corrections ELSE l.cor]

LEMMA MomentIs ==
    ASSUME TypeOK, setBack \in Nat, corrections \in Nat, NEW p \in Proc, NEW f, NEW l,
           Known(p, f, l)
    PROVE  LET n == Moment(p, l)
           IN  /\ Today \in Anchor /\ n \in Anchor /\ n.clk = NowOf(p) /\ n.real = RealTime
               /\ Before(l, n) /\ Before(f, n) /\ Before(n, Today)
               /\ Jumped(p) => n.clk = clock
               /\ ~Jumped(p) => n.clk >= l.clk
<1> DEFINE n == Moment(p, l)
<1>1. /\ clock \in Nat /\ lastClock[p] \in Nat /\ RealTime \in Nat /\ l \in Anchor /\ f \in Anchor
      /\ l.cor \in Nat /\ l.clk = lastClock[p] /\ Before(l, Today) /\ Before(f, l)
      /\ l.clk \in Nat /\ l.real \in Nat /\ RealTime = clock + setBack
  BY CircuitAssumption DEF TypeOK, RealTime, Known, Anchor
<1>2. /\ Today \in Anchor /\ Today.clk = clock /\ Today.real = RealTime
      /\ Today.cor = corrections
  BY <1>1 DEF Today, Anchor
<1>3. /\ NowOf(p) \in {clock, lastClock[p]} /\ NowOf(p) >= clock
      /\ Jumped(p) => NowOf(p) = clock
      /\ ~Jumped(p) => NowOf(p) >= lastClock[p]
      /\ NowOf(p) \in Nat
  BY <1>1, CircuitAssumption DEF NowOf, Jumped
<1>4. /\ n \in Anchor /\ n.clk = NowOf(p) /\ n.real = RealTime
      /\ n.cor = IF NowOf(p) = clock THEN corrections ELSE l.cor
  BY <1>1, <1>3 DEF Moment, Anchor
<1>5. /\ l.real <= RealTime /\ l.real - l.clk <= RealTime - clock
      /\ l.cor <= corrections /\ (clock < l.clk => l.cor < corrections)
  BY <1>1, <1>2 DEF Before
<1> HIDE DEF n
<1>6. CASE NowOf(p) = clock
  <2>1. Before(l, n) /\ Before(n, Today)
    BY <1>1, <1>2, <1>4, <1>5, <1>6 DEF Before
  <2> QED BY <1>1, <1>2, <1>3, <1>4, <2>1, BeforeOrder, <1>6 DEF n
<1>7. CASE NowOf(p) # clock
  <2>1. n.clk = l.clk /\ clock < l.clk /\ n.cor = l.cor
    BY <1>1, <1>3, <1>4, <1>7
  <2>2. Before(l, n)
    BY <1>1, <1>4, <1>5, <2>1 DEF Before
  <2>3. Before(n, Today)
    BY <1>1, <1>2, <1>4, <1>5, <2>1 DEF Before
  <2> QED BY <1>1, <1>2, <1>3, <1>4, <2>1, <2>2, <2>3, BeforeOrder, <1>7 DEF n
<1> QED BY <1>6, <1>7

\* Reading the store, rebasing what has to be.
LEMMA OpenedTimed ==
    ASSUME Capped, TypeOK, setBack \in Nat, corrections \in Nat, NEW p \in Proc, NEW f, NEW l,
           Known(p, f, l), NEW k \in Target, NEW d \in Int, Timed(file.entries[k], d, f)
    PROVE  /\ Timed(Loaded(p)[k], d, l)
           /\ Timed(Opened(p)[k], d, Moment(p, l))
           /\ \A K : Timed(Refresh(Opened(p), K, NowOf(p), p)[k], d, Moment(p, l))
<1> DEFINE n == Moment(p, l)
           S == ShiftTimestamps(file.entries, lastClock[p] - file.savedAt)
           R == ShiftTimestamps(Loaded(p), clock - lastClock[p])
<1>1. /\ file.entries \in Entries /\ Loaded(p) \in Entries /\ Opened(p) \in Entries
      /\ file.entries[k] \in Entry /\ Loaded(p)[k] \in Entry
  BY OpenedType DEF TypeOK, Entries
<1>2. /\ f \in Anchor /\ l \in Anchor /\ f.clk = file.savedAt /\ l.clk = lastClock[p]
      /\ Before(f, l)
  BY DEF Known
<1>3. /\ n \in Anchor /\ n.clk = NowOf(p) /\ Before(l, n)
      /\ Jumped(p) => n.clk = clock
      /\ ~Jumped(p) => n.clk >= l.clk
  BY MomentIs
<1>4. f.clk \in Nat /\ l.clk \in Nat /\ n.clk \in Nat /\ Skew \in Nat
  BY <1>2, <1>3, CircuitAssumption DEF Anchor
<1> HIDE DEF n
<1>5. Timed(Loaded(p)[k], d, l)
  <2>1. CASE lastClock[p] < file.savedAt - Skew
    <3>1. S \in Entries /\ Loaded(p) = Refresh(S, Target, l.clk, p)
      BY <1>1, <1>2, <1>4, <2>1, ShiftType DEF Loaded
    <3>2. Timed(S[k], d, l)
      BY <1>1, <1>2, ShiftTimed
    <3> HIDE DEF S
    <3> QED BY <1>2, <3>1, <3>2, RefreshTimed
  <2>2. CASE ~(lastClock[p] < file.savedAt - Skew)
    <3>1. Loaded(p) = Refresh(file.entries, Target, l.clk, p)
      BY <1>2, <2>2 DEF Loaded
    <3>2. l.clk >= f.clk - Skew
      BY <1>2, <1>4, <2>2
    <3>3. Timed(file.entries[k], d, l)
      BY <1>1, <1>2, <3>2, LaterTimed
    <3> QED BY <1>1, <1>2, <3>1, <3>3, RefreshTimed
  <2> QED BY <2>1, <2>2
<1>6. Timed(Opened(p)[k], d, n)
  <2>1. CASE Jumped(p)
    <3>1. Opened(p) = ShiftTimestamps(Loaded(p), n.clk - l.clk)
      BY <1>2, <1>3, <2>1 DEF Opened
    <3>2. Timed(ShiftTimestamps(Loaded(p), n.clk - l.clk)[k], d, n)
      BY <1>1, <1>2, <1>3, <1>5, ShiftTimed
    <3> QED BY <3>1, <3>2
  <2>2. CASE ~Jumped(p)
    <3>1. Opened(p) = Loaded(p) /\ n.clk >= l.clk - Skew
      BY <1>3, <1>4, <2>2 DEF Opened
    <3>2. Timed(Loaded(p)[k], d, n)
      BY <1>1, <1>2, <1>3, <1>5, <3>1, LaterTimed
    <3> QED BY <3>1, <3>2
  <2> QED BY <2>1, <2>2
<1>7. ASSUME NEW K PROVE Timed(Refresh(Opened(p), K, NowOf(p), p)[k], d, n)
  <2>1. Timed(Refresh(Opened(p), K, n.clk, p)[k], d, n)
    BY <1>1, <1>3, <1>6, RefreshTimed
  <2> QED BY <1>3, <2>1
<1> QED BY <1>5, <1>6, <1>7 DEF n

\* All that p may rely on when it looks at the store.
Timing(p, f, l) ==
    /\ TypeOK /\ setBack \in Nat /\ corrections \in Nat /\ due \in [Target -> Int]
    /\ Known(p, f, l) /\ \A k \in Target : Timed(file.entries[k], due[k], f)

\* The store is left alone, or rewritten with the time a.
Keeps(a) ==
    \/ file' = file
    \/ file'.savedAt = a.clk /\ \A k \in Target : Timed(file'.entries[k], due[k], a)

LEMMA PersistTimed ==
    ASSUME ~PersistMayFail, NEW a, NEW at, at = a.clk, NEW E,
           \A k \in Target : Timed(E[k], due[k], a)
    PROVE  Persist(at, E) \/ (\E B : PersistIfChanged(at, B, E)) => Keeps(a)
BY DEF Persist, PersistIfChanged, Keeps

\* The deadline a failure gives an entry is a time within the horizon.
LEMMA FailureHorizon ==
    ASSUME Capped, NEW a \in Anchor, NEW reason, NEW opens,
           NEW retry \in RetryAfter \cup {NoTime}
    PROVE  LET u == BlockedUntil(reason, opens, retry, a.clk)
           IN  u \in Int /\ (u # NoTime => u <= Horizon(a))
<1>1. a.clk \in Nat /\ a.cor \in Nat /\ Skew * a.cor \in Nat
  BY CircuitAssumption DEF Anchor
<1>2. LongestBlock \in Nat /\ Horizon(a) >= a.clk + LongestBlock /\ Horizon(a) \in Nat
  BY <1>1, LongestIs DEF Horizon
<1>3. Backoff(opens) \in Nat /\ Backoff(opens) <= MaxCooldown
  BY CircuitAssumption DEF Backoff
<1>4. Cooldown(reason, opens) \in Nat /\ Cooldown(reason, opens) <= LongestBlock
  <2>1. /\ QuotaCooldown \in Nat /\ ModelCooldown \in Nat /\ MaxCooldown \in Nat
        /\ QuotaCooldown <= LongestBlock /\ ModelCooldown <= LongestBlock
        /\ MaxCooldown <= LongestBlock
    BY CircuitAssumption, LongestIs
  <2> QED BY <1>2, <1>3, <2>1 DEF Cooldown
<1>5. retry # NoTime => retry \in Nat /\ retry <= LongestBlock
  BY CircuitAssumption, LongestIs
<1> QED BY <1>1, <1>2, <1>4, <1>5 DEF BlockedUntil, NoTime

\* What a failure makes of an entry is no probe, and blocks within the horizon.
Fresh(g, a) ==
    /\ g.state # "half-open"
    /\ g.state = "open" /\ g.until # NoTime => g.until <= Horizon(a)

LEMMA FailureTimed ==
    ASSUME Capped, NEW a \in Anchor, NEW e, NEW reason, NEW w,
           NEW retry \in RetryAfter \cup {NoTime}
    PROVE  Fresh(ApplyFailure(e, reason, retry, a.clk, w), a)
<1> DEFINE tries == AtMost(e.attempts + 1, Threshold)
           opens == AtMost(e.opens + 1, OpenCap)
           till  == BlockedUntil(reason, opens, retry, a.clk)
           A == [Absent EXCEPT !.state = "open", !.attempts = tries, !.opens = opens,
                               !.until = till]
           B == [Absent EXCEPT !.state = "closed", !.attempts = tries, !.opens = e.opens]
<1>1. ApplyFailure(e, reason, retry, a.clk, w) \in {A, B}
  BY DEF ApplyFailure
<1>2. till # NoTime => till <= Horizon(a)
  BY FailureHorizon
<1> HIDE DEF tries, opens, till
<1>3. A.state = "open" /\ A.until = till /\ B.state = "closed"
  BY DEF Absent
<1> HIDE DEF A, B
<1> QED BY <1>1, <1>2, <1>3 DEF Fresh

\* The report of a request.
LEMMA ReportTimed ==
    ASSUME Capped, ~PersistMayFail, LeaseAccountable, NEW r \in Req, req[r].st = "running",
           NEW f, NEW l, Timing(req[r].proc, f, l)
    PROVE  LET n == Moment(req[r].proc, l)
           IN  /\ StaleReport(r) => Keeps(n)
               /\ ReleaseProbe(r) => Keeps(n)
               /\ CloseAll(r) => Keeps(n)
               /\ \A retry \in RetryAfter \cup {NoTime}, reason \in Reason :
                     ProviderFailure(r, reason, retry) =>
                        /\ file'.savedAt = n.clk
                        /\ \A k \in Target :
                              IF k \in Stamped(r, reason) THEN Fresh(file'.entries[k], n)
                              ELSE Timed(file'.entries[k], due[k], n)
<1> DEFINE p == req[r].proc
           t == req[r].tgt
           keys == req[r].keys
           E == Opened(p)
           now == NowOf(p)
           n == Moment(p, l)
           Rel == [j \in Target |-> IF j \in keys
                      THEN [Unleased(E[j]) EXCEPT !.state = "open", !.until = now]
                      ELSE E[j]]
           Clo == [j \in Target |-> IF j \in ClosedBy(E, r) THEN Closed ELSE E[j]]
<1>0. /\ TypeOK /\ setBack \in Nat /\ corrections \in Nat /\ due \in [Target -> Int]
      /\ Known(p, f, l) /\ \A k \in Target : Timed(file.entries[k], due[k], f)
  BY DEF Timing
<1>1. p \in Proc /\ t \in Target /\ keys \in SUBSET Target
  BY <1>0 DEF TypeOK, Request
<1>2. E \in Entries /\ now \in Nat /\ Faded(file.entries, E)
  BY <1>0, <1>1, OpenedType, OpenedFades, CircuitAssumption
<1>3. /\ n \in Anchor /\ n.clk = now /\ n.real \in Nat /\ f.real <= n.real /\ f.real \in Nat
      /\ Horizon(n) \in Nat /\ Horizon(n) >= n.clk
  <2>1. /\ n \in Anchor /\ n.clk = now /\ Before(f, n) /\ f \in Anchor
    BY <1>0, <1>1, MomentIs DEF Known
  <2> HIDE DEF n, now
  <2>2. Skew * n.cor \in Nat /\ n.clk \in Nat
    BY <2>1, CircuitAssumption DEF Anchor
  <2> QED BY <2>1, <2>2, LongestIs DEF Horizon, Before, Anchor
<1>4. ASSUME NEW k \in Target
      PROVE  /\ Timed(E[k], due[k], n)
             /\ \A K : Timed(Refresh(E, K, now, p)[k], due[k], n)
             /\ due[k] \in Int
  <2>1. due[k] \in Int
    BY <1>0
  <2> QED BY <1>0, <1>1, <2>1, OpenedTimed
<1> HIDE DEF p, t, keys, E, now, n
<1>5. StaleReport(r) => Keeps(n)
  BY <1>3, <1>4, PersistTimed DEF StaleReport, StatusOf, p, t, E, now
<1>6. ReleaseProbe(r) => Keeps(n)
  <2> SUFFICES ASSUME ReleaseProbe(r) PROVE Keeps(n)
    OBVIOUS
  <2>1. \A j \in Target : E[j] \in Entry /\ Unleased(E[j]) \in Entry
    BY <1>1, <1>2, EntryOps DEF Entries, p
  <2>2. \A j \in Target : LET g == [Unleased(E[j]) EXCEPT !.state = "open", !.until = now]
                          IN  g \in Entry /\ g.state = "open" /\ g.until = now
    BY <1>2, <2>1, ZenonT(60) DEF Entry, Time
  <2>3. Rel \in Entries
    BY <2>1, <2>2 DEF Entries
  <2>4. ASSUME NEW k \in Target PROVE Timed(Rel[k], due[k], n)
    <3>1. CASE k \in keys
      <4>1. E[k].lease = r /\ r # NoReq
        BY <3>1, CircuitAssumption DEF ReleaseProbe, ActiveLease, keys, E, p
      <4>2. file.entries[k].state = "half-open"
        BY <1>2, <4>1 DEF Faded, SameLease, LeaseAccountable
      <4>3. due[k] <= f.real
        BY <1>0, <4>2 DEF Timed
      <4>4. Rel[k].state = "open" /\ Rel[k].until = now
        BY <2>2, <3>1
      <4>5. due[k] <= now + n.real - n.clk /\ now <= Horizon(n)
        BY <1>2, <1>3, <1>4, <4>3
      <4> HIDE DEF Rel
      <4> QED BY <4>4, <4>5 DEF Timed
    <3>2. CASE k \notin keys
      BY <1>4, <3>2
    <3> QED BY <3>1, <3>2
  <2> HIDE DEF Rel
  <2>5. ASSUME NEW k \in Target, NEW K PROVE Timed(Refresh(Rel, K, now, p)[k], due[k], n)
    BY <1>1, <1>3, <1>4, <2>3, <2>4, RefreshTimed DEF p
  <2> QED BY <1>3, <2>5, PersistTimed DEF ReleaseProbe, Rel, p, t, keys, E, now
<1>7. CloseAll(r) => Keeps(n)
  <2>1. Clo \in Entries
    BY <1>2, ConstantEntries DEF Entries
  <2>2. \A k \in Target : Timed(Clo[k], due[k], n)
    BY <1>4 DEF Closed, Absent, Timed
  <2> HIDE DEF Clo
  <2>3. ASSUME NEW k \in Target, NEW K PROVE Timed(Refresh(Clo, K, now, p)[k], due[k], n)
    BY <1>1, <1>3, <1>4, <2>1, <2>2, RefreshTimed DEF p
  <2> SUFFICES ASSUME CloseAll(r) PROVE Keeps(n)
    OBVIOUS
  <2>4. CASE UNCHANGED file
    BY <2>4 DEF Keeps
  <2>5. CASE Persist(now, Refresh(Clo, Applicable(Clo, t), now, p))
    BY <1>3, <2>3, <2>5, PersistTimed
  <2> QED BY <2>4, <2>5 DEF CloseAll, Clo, p, t, E, now
<1>8. ASSUME NEW retry \in RetryAfter \cup {NoTime}, NEW reason \in Reason,
             ProviderFailure(r, reason, retry)
      PROVE  /\ file'.savedAt = n.clk
             /\ \A k \in Target :
                   IF k \in Stamped(r, reason) THEN Fresh(file'.entries[k], n)
                   ELSE Timed(file'.entries[k], due[k], n)
  <2> DEFINE F == FailedEntries(E, keys, t, reason, retry, now)
             scope == FailureScope(t, reason)
             old == IF E[scope].state = "absent" THEN Closed ELSE E[scope]
  <2>1. F \in Entries
    BY <1>1, <1>2, FailedType DEF p, t, keys
  <2>2. Stamped(r, reason) = keys \cup {scope}
    BY <1>8 DEF Stamped, ProviderFailure, Reason, p, t, keys, E
  <2>3. ASSUME NEW k \in Target PROVE IF k \in keys \cup {scope} THEN Fresh(F[k], n) ELSE F[k] = E[k]
    <3>1. \A x, w : Fresh(ApplyFailure(x, reason, retry, now, w), n)
      BY <1>3, FailureTimed
    <3>2. \/ k \notin keys \cup {scope} /\ F[k] = E[k]
          \/ k \in keys /\ F[k] = ApplyFailure(E[k], reason, retry, now, TRUE)
          \/ k = scope /\ F[k] = ApplyFailure(old, reason, retry, now, old.state = "half-open")
      BY DEF FailedEntries
    <3>3. /\ Fresh(ApplyFailure(E[k], reason, retry, now, TRUE), n)
          /\ Fresh(ApplyFailure(old, reason, retry, now, old.state = "half-open"), n)
      BY <3>1
    <3> HIDE DEF F, scope, old
    <3> QED BY <3>2, <3>3
  <2> HIDE DEF F
  <2>4. PICK G \in Pruned(F, keys \cup {scope}) : Persist(now, G)
    BY <1>8 DEF ProviderFailure, F, p, t, keys, E, now
  <2>5. ASSUME NEW k \in Target
        PROVE  IF k \in keys \cup {scope} THEN Fresh(G[k], n) ELSE Timed(G[k], due[k], n)
    <3>1. G[k] = F[k] \/ G[k] = Absent
      BY <2>1, <2>4, PrunedEntries
    <3>2. Timed(Absent, due[k], n) /\ Fresh(Absent, n)
      BY DEF Absent, Timed, Fresh
    <3> HIDE DEF scope
    <3> QED BY <1>4, <2>3, <3>1, <3>2
  <2>6. file'.savedAt = n.clk /\ file'.entries = G
    BY <1>3, <2>4 DEF Persist
  <2> QED BY <2>2, <2>5, <2>6
<1> QED BY <1>5, <1>6, <1>7, <1>8 DEF n, p

\* An operation of p: the store is left alone or rewritten with the time of the
\* operation, or, by reset and annotate, with the time p knew before.
Operates(p) ==
    /\ alive[p] /\ UNCHANGED <<clock, alive>>
    /\ \A f, l : Timing(p, f, l) =>
          \E a \in {l, Moment(p, l)} : lastClock'[p] = a.clk /\ Keeps(a)

LEMMA AcquireTimed ==
    ASSUME Capped, ~PersistMayFail, NEW p \in Proc, NEW r \in Req, NEW t \in RequestTarget,
           TryAcquire(p, r, t), NEW f, NEW l, Timing(p, f, l)
    PROVE  Keeps(Moment(p, l))
<1> DEFINE E == Opened(p)
           R == Refresh(E, Applicable(E, t), NowOf(p), p)
           K == Probes(R, Applicable(E, t))
           G == Granted(R, K, p, r, NowOf(p))
           n == Moment(p, l)
<1>1. /\ TypeOK /\ setBack \in Nat /\ corrections \in Nat /\ due \in [Target -> Int]
      /\ Known(p, f, l) /\ \A k \in Target : Timed(file.entries[k], due[k], f)
  BY DEF Timing
<1>2. n.clk = NowOf(p)
  BY <1>1, MomentIs
<1>3. R \in Entries
  BY <1>1, OpenedType, RefreshType, CircuitAssumption
<1> HIDE DEF n
<1>4. ASSUME NEW k \in Target
      PROVE  Timed(R[k], due[k], n) /\ Timed(G[k], due[k], n)
  <2>1. due[k] \in Int
    BY <1>1
  <2>2. Timed(R[k], due[k], n)
    BY <1>1, <2>1, OpenedTimed DEF n
  <2>3. R[k] \in Entry
    BY <1>3 DEF Entries
  <2> HIDE DEF R, K
  <2>4. G[k].state = R[k].state /\ G[k].until = R[k].until
    BY <2>3 DEF Granted, Entry
  <2> HIDE DEF G
  <2> QED BY <2>2, <2>4 DEF Timed
<1> HIDE DEF G
<1>5. CASE AcquireDenied(p, t)
  BY <1>2, <1>4, <1>5, PersistTimed DEF AcquireDenied, n
<1>6. CASE AcquirePlain(p, r, t)
  BY <1>2, <1>4, <1>6, PersistTimed DEF AcquirePlain, n
<1>7. CASE AcquireProbe(p, r, t)
  BY <1>2, <1>4, <1>7, PersistTimed DEF AcquireProbe, G, n
<1> QED BY <1>5, <1>6, <1>7 DEF TryAcquire

LEMMA ResetTimed ==
    ASSUME Capped, ~PersistMayFail, NEW p \in Proc, NEW f, NEW l, Timing(p, f, l)
    PROVE  /\ \A scope : Reset(p, scope) => Keeps(l)
           /\ ResetAll(p) => Keeps(l)
           /\ \A t \in AnnotateTarget : Annotate(p, t) => Keeps(l)
<1>1. /\ TypeOK /\ setBack \in Nat /\ corrections \in Nat /\ due \in [Target -> Int]
      /\ Known(p, f, l) /\ \A k \in Target : Timed(file.entries[k], due[k], f)
  BY DEF Timing
<1>2. l.clk = lastClock[p]
  BY <1>1 DEF Known
<1>3. ASSUME NEW k \in Target
      PROVE  Timed(Loaded(p)[k], due[k], l) /\ Timed(Absent, due[k], l) /\ Timed(Closed, due[k], l)
  <2>1. due[k] \in Int
    BY <1>1
  <2> QED BY <1>1, <2>1, OpenedTimed DEF Absent, Closed, Timed
<1>4. ASSUME NEW scope, Reset(p, scope) PROVE Keeps(l)
  <2> DEFINE gone == {j \in Present(Loaded(p)) : AppliesTo(scope, j)}
             G == [j \in Target |-> IF j \in gone THEN Absent ELSE Loaded(p)[j]]
  <2>1. \A k \in Target : Timed(G[k], due[k], l)
    BY <1>3
  <2> HIDE DEF G
  <2> QED BY <1>2, <1>4, <2>1, PersistTimed DEF Reset, G
<1>5. ASSUME ResetAll(p) PROVE Keeps(l)
  <2>1. \A k \in Target : Timed([j \in Target |-> Absent][k], due[k], l)
    BY <1>3
  <2> QED BY <1>2, <1>5, <2>1, PersistTimed DEF ResetAll
<1>6. ASSUME NEW t \in AnnotateTarget, Annotate(p, t) PROVE Keeps(l)
  <2> DEFINE E == Loaded(p)
             F == IF E[t].state = "absent" THEN [E EXCEPT ![t] = Closed] ELSE E
  <2>1. E \in Entries /\ t \in Target
    BY <1>1, OpenedType, TargetAssumption
  <2>2. PICK G \in Pruned(F, {}) : Persist(lastClock[p], G)
    BY <1>6 DEF Annotate
  <2>3. ASSUME NEW k \in Target PROVE Timed(F[k], due[k], l)
    <3>1. F[k] \in {E[k], Closed}
      BY <2>1 DEF Entries
    <3> HIDE DEF F
    <3> QED BY <1>3, <3>1
  <2>4. F \in Entries
    <3> HIDE DEF E
    <3> QED BY <2>1, ConstantEntries DEF Entries
  <2> HIDE DEF F
  <2>5. \A k \in Target : Timed(G[k], due[k], l)
    BY <1>3, <2>2, <2>3, <2>4, PrunedEntries
  <2> QED BY <1>2, <2>2, <2>5, PersistTimed
<1> QED BY <1>4, <1>5, <1>6

LEMMA StatusTimed ==
    ASSUME Capped, ~PersistMayFail, NEW p \in Proc, NEW f, NEW l, Timing(p, f, l)
    PROVE  /\ \A t : Status(p, t) => Keeps(Moment(p, l))
           /\ ListStatuses(p) => Keeps(Moment(p, l))
<1> DEFINE n == Moment(p, l)
<1>1. /\ TypeOK /\ setBack \in Nat /\ corrections \in Nat /\ due \in [Target -> Int]
      /\ Known(p, f, l) /\ \A k \in Target : Timed(file.entries[k], due[k], f)
  BY DEF Timing
<1>2. n.clk = NowOf(p)
  BY <1>1, MomentIs
<1>3. ASSUME NEW K, NEW k \in Target
      PROVE  Timed(Refresh(Opened(p), K, NowOf(p), p)[k], due[k], n)
  <2>1. due[k] \in Int
    BY <1>1
  <2> QED BY <1>1, <2>1, OpenedTimed
<1> HIDE DEF n
<1> QED BY <1>2, <1>3, PersistTimed DEF Status, StatusOf, ListStatuses, n

\* What the steps other than a failure do to the store.
LEMMA OtherStepTimed ==
    ASSUME Capped, ~PersistMayFail, TypeOK, LeaseAccountable, RunsAlive, OtherStep
    PROVE  \/ \E p \in Proc : Operates(p)
           \/ \E r \in Req : Abandon(r)
           \/ \E p \in Proc : Start(p)
           \/ \E p \in Proc : Crash(p)
           \/ Tick
           \/ \E d \in Backs : ClockBack(d)
<1>1. ASSUME NEW p \in Proc, NEW f, NEW l, Timing(p, f, l)
      PROVE  /\ Ticked(p) => lastClock'[p] = Moment(p, l).clk
             /\ UNCHANGED lastClock => lastClock'[p] = l.clk
  <2>1. TypeOK /\ setBack \in Nat /\ corrections \in Nat /\ Known(p, f, l)
    BY <1>1 DEF Timing
  <2>2. Moment(p, l).clk = NowOf(p) /\ l.clk = lastClock[p]
    BY <2>1, MomentIs DEF Known
  <2> QED BY <2>2 DEF Ticked, TypeOK
<1>2. ASSUME NEW p \in Proc, NEW r \in Req, NEW t \in RequestTarget, TryAcquire(p, r, t)
      PROVE  Operates(p)
  <2>1. \A f, l : Timing(p, f, l) => Keeps(Moment(p, l))
    BY <1>2, AcquireTimed
  <2> QED BY <1>1, <1>2, <2>1 DEF TryAcquire, Operates
<1>3. ASSUME NEW r \in Req, RecordSuccess(r) PROVE Operates(req[r].proc)
  <2>1. req[r].st = "running" /\ req[r].proc \in Proc /\ alive[req[r].proc]
    BY <1>3 DEF RecordSuccess, RunsAlive, TypeOK
  <2>2. \A f, l : Timing(req[r].proc, f, l) => Keeps(Moment(req[r].proc, l))
    BY <1>3, <2>1, ReportTimed DEF RecordSuccess
  <2> QED BY <1>1, <1>3, <2>1, <2>2 DEF RecordSuccess, Operates
<1>4. ASSUME NEW p \in Proc, NEW scope, Reset(p, scope) PROVE Operates(p)
  <2>1. \A f, l : Timing(p, f, l) => Keeps(l)
    BY <1>4, ResetTimed
  <2> QED BY <1>1, <1>4, <2>1 DEF Reset, Operates
<1>5. ASSUME NEW p \in Proc, ResetAll(p) PROVE Operates(p)
  <2>1. \A f, l : Timing(p, f, l) => Keeps(l)
    BY <1>5, ResetTimed
  <2> QED BY <1>1, <1>5, <2>1 DEF ResetAll, Operates
<1>6. ASSUME NEW p \in Proc, NEW t \in AnnotateTarget, Annotate(p, t) PROVE Operates(p)
  <2>1. \A f, l : Timing(p, f, l) => Keeps(l)
    BY <1>6, ResetTimed
  <2> QED BY <1>1, <1>6, <2>1 DEF Annotate, Operates
<1>7. ASSUME NEW p \in Proc, NEW t, Status(p, t) \/ ListStatuses(p) PROVE Operates(p)
  <2>1. \A f, l : Timing(p, f, l) => Keeps(Moment(p, l))
    BY <1>7, StatusTimed
  <2> QED BY <1>1, <1>7, <2>1 DEF Status, ListStatuses, Operates
<1>8. \A r \in Req : RecordSuccess(r) => req[r].proc \in Proc
  BY DEF RecordSuccess, TypeOK
<1> QED BY <1>2, <1>3, <1>4, <1>5, <1>6, <1>7, <1>8 DEF OtherStep

\* The store was last written by someone who knew the time as well as anyone,
\* and every running process knows it no worse than the store does.
Standing(f) ==
    /\ f \in Anchor /\ f.clk = file.savedAt /\ Before(f, Today)
    /\ \A k \in Target : Timed(file.entries[k], due[k], f)
    /\ \A p \in Proc : alive[p] => \E l : Known(p, f, l)

TimesKnown ==
    /\ setBack \in Nat /\ corrections \in Nat /\ due \in [Target -> Int]
    /\ \E f : Standing(f)

\* What becomes of the promised times.
LEMMA DueIs ==
    ASSUME TypeOK, TypeOK', due \in [Target -> Int], setBack \in Nat, NEW K, NEW now \in Nat,
           due' = NewDue(K, now)
    PROVE  /\ due' \in [Target -> Int]
           /\ \A k \in Target :
                 LET e == file'.entries[k]
                 IN  \/ e.state \in {"closed", "absent"}
                     \/ k \notin K /\ due'[k] = due[k]
                     \/ k \in K /\ (e.until = NoTime \/ due'[k] = e.until + RealTime - now)
<1>1. \A k \in Target : file'.entries[k].until \in Int
  <2>1. \A k \in Target : file'.entries[k] \in Entry
    BY DEF TypeOK
  <2> QED BY <2>1 DEF Entry, Time, NoTime
<1>2. RealTime \in Int
  BY CircuitAssumption DEF TypeOK, RealTime
<1>3. \A k \in Target :
         due'[k] = IF file'.entries[k].state \in {"closed", "absent"} THEN NoTime
                   ELSE IF k \in K
                        THEN IF file'.entries[k].until = NoTime THEN NoTime
                             ELSE RealTime + file'.entries[k].until - now
                        ELSE due[k]
  BY DEF NewDue
<1>4. due' = [k \in Target |-> due'[k]]
  BY DEF NewDue
<1>5. \A k \in Target : due'[k] \in Int
  BY <1>1, <1>2, <1>3 DEF NoTime
<1>6. due' \in [Target -> Int]
  BY <1>4, <1>5
<1> HIDE DEF NoTime
<1>7. ASSUME NEW k \in Target
      PROVE  \/ file'.entries[k].state \in {"closed", "absent"}
             \/ k \notin K /\ due'[k] = due[k]
             \/ /\ k \in K
                /\ \/ file'.entries[k].until = NoTime
                   \/ due'[k] = RealTime + file'.entries[k].until - now
  BY <1>3, Zenon
<1>8. \A k \in Target : RealTime + file'.entries[k].until - now = file'.entries[k].until + RealTime - now
  BY <1>1, <1>2
<1> QED BY <1>6, <1>7, <1>8

\* An operation of the only running process leaves the times known, if what it
\* leaves in the store is timed by a store or a clock known before.
LEMMA OperationKnown ==
    ASSUME TypeOK, setBack \in Nat, corrections \in Nat,
           OneAtATime, NEW p \in Proc, alive[p], alive' = alive,
           Today' = Today, corrections' \in Nat, setBack' \in Nat, due' \in [Target -> Int],
           NEW f \in Anchor, NEW a \in Anchor, Before(f, a), Before(a, Today),
           lastClock'[p] = a.clk, NEW g \in {f, a}, g.clk = file'.savedAt,
           \A k \in Target : Timed(file'.entries[k], due'[k], g)
    PROVE  TimesKnown'
<1>1. Before(g, a) /\ g \in Anchor
  BY BeforeOrder
<1>2. Today \in Anchor
  BY CircuitAssumption DEF TypeOK, Today, Anchor, RealTime
<1>3. Before(g, Today)
  BY <1>1, <1>2, BeforeOrder
<1>4. Known(p, g, a)'
  BY <1>1 DEF Known
<1>5. \A q \in Proc : alive'[q] => q = p
  BY DEF OneAtATime
<1>6. Standing(g)'
  BY <1>1, <1>3, <1>4, <1>5 DEF Standing
<1> QED BY <1>6 DEF TimesKnown

\* The steps of the environment: time goes on, or is set back and counted.
LEMMA TimeGoesOn ==
    ASSUME TypeOK, setBack \in Nat, corrections \in Nat, DOther,
           clock' = clock \/ Tick \/ (\E d \in Backs : ClockBack(d))
    PROVE  /\ setBack' \in Nat /\ corrections' \in Nat
           /\ Today \in Anchor /\ Today' \in Anchor /\ Before(Today, Today')
           /\ clock' = clock => Today' = Today
<1>1. /\ setBack' = setBack + (IF clock' < clock THEN clock - clock' ELSE 0)
      /\ corrections' = corrections + (IF clock' < clock THEN 1 ELSE 0)
  BY DEF DOther
<1>2. clock \in Nat
  BY CircuitAssumption DEF TypeOK
<1>3. /\ Today = [clk |-> clock, real |-> clock + setBack, cor |-> corrections]
      /\ Today' = [clk |-> clock', real |-> clock' + setBack', cor |-> corrections']
  BY DEF Today, RealTime
<1>4. ASSUME clock' \in Nat, clock' >= clock
      PROVE  setBack' = setBack /\ corrections' = corrections
  <2>1. ~(clock' < clock)
    BY <1>2, <1>4
  <2>2. setBack' = setBack + 0 /\ corrections' = corrections + 0
    BY <1>1, <2>1, Zenon
  <2> QED BY <2>2
<1>5. CASE clock' = clock \/ Tick
  <2>1. PICK d \in Nat : clock' = clock + d
    BY <1>2, <1>5 DEF Tick
  <2>2. clock' \in Nat /\ clock' >= clock
    BY <1>2, <2>1
  <2>3. setBack' = setBack /\ corrections' = corrections
    BY <1>4, <2>2
  <2>4. /\ Today \in Anchor
        /\ Today' = [clk |-> clock + d, real |-> clock + d + setBack, cor |-> corrections]
    BY <1>2, <1>3, <2>1, <2>3 DEF Anchor
  <2>5. Today' \in Anchor /\ Before(Today, Today')
    BY <1>2, <1>3, <2>4 DEF Anchor, Before
  <2>6. clock' = clock => Today' = Today
    BY <1>3, <2>3
  <2> QED BY <2>3, <2>4, <2>5, <2>6
<1>6. ASSUME NEW d \in Backs, ClockBack(d)
      PROVE  /\ setBack' \in Nat /\ corrections' \in Nat
             /\ Today \in Anchor /\ Today' \in Anchor /\ Before(Today, Today')
             /\ clock' # clock
  <2>1. d \in Nat /\ d # 0 /\ clock' = clock - d /\ clock' \in Nat /\ clock' < clock
    BY <1>2, <1>6, CircuitAssumption DEF ClockBack
  <2>2. setBack' = setBack + (clock - clock') /\ corrections' = corrections + 1
    BY <1>1, <2>1, Zenon
  <2>3. setBack' = setBack + d /\ clock' + setBack' = clock + setBack
    BY <1>2, <2>1, <2>2
  <2> QED BY <1>2, <1>3, <2>1, <2>2, <2>3 DEF Anchor, Before
<1>7. CASE \E d \in Backs : ClockBack(d)
  <2>1. PICK d \in Backs : ClockBack(d)
    BY <1>7
  <2> HIDE DEF Today, Anchor, Before
  <2> QED BY <1>6, <2>1
<1> QED BY <1>5, <1>7

LEMMA EnvironmentKnown ==
    ASSUME TypeOK, TimesKnown, setBack' \in Nat, corrections' \in Nat, file' = file,
           due' \in [Target -> Int],
           \A k \in Target : file'.entries[k].state \in {"closed", "absent"} \/ due'[k] = due[k],
           Today \in Anchor, Today' \in Anchor, Before(Today, Today'),
           \A p \in Proc : alive'[p] => \/ alive[p] /\ lastClock'[p] = lastClock[p]
                                        \/ lastClock'[p] = clock
    PROVE  TimesKnown'
<1>1. PICK f : Standing(f)
  BY DEF TimesKnown
<1>2. f \in Anchor /\ Before(f, Today) /\ f.clk = file'.savedAt /\ Before(f, Today')
  BY <1>1, BeforeOrder DEF Standing
<1>3. ASSUME NEW k \in Target PROVE Timed(file'.entries[k], due'[k], f)
  BY <1>1 DEF Standing, Timed
<1>4. ASSUME NEW p \in Proc, alive'[p] PROVE \E l : Known(p, f, l)'
  <2>1. CASE alive[p] /\ lastClock'[p] = lastClock[p]
    <3>1. PICK l : Known(p, f, l)
      BY <1>1, <2>1 DEF Standing
    <3>2. Before(l, Today') /\ l \in Anchor
      BY <3>1, BeforeOrder DEF Known
    <3>3. Known(p, f, l)'
      BY <2>1, <3>1, <3>2 DEF Known
    <3> QED BY <3>3
  <2>2. CASE lastClock'[p] = clock
    <3>1. Today.clk = clock
      BY DEF Today
    <3>2. ASSUME NEW l, l = Today PROVE Known(p, f, l)'
      BY <1>2, <2>2, <3>1, <3>2 DEF Known
    <3> QED BY <3>2
  <2> QED BY <1>4, <2>1, <2>2
<1>5. Standing(f)'
  BY <1>2, <1>3, <1>4 DEF Standing
<1> QED BY <1>5 DEF TimesKnown

LEMMA OtherKnown ==
    ASSUME Capped, ~PersistMayFail, OneAtATime, TypeOK, TypeOK', LeaseAccountable, RunsAlive,
           TimesKnown, DOther
    PROVE  TimesKnown'
<1>1. setBack \in Nat /\ corrections \in Nat /\ due \in [Target -> Int]
  BY DEF TimesKnown
<1>2. /\ due' \in [Target -> Int]
      /\ \A k \in Target : file'.entries[k].state \in {"closed", "absent"} \/ due'[k] = due[k]
  <2>1. due' = NewDue({}, 0)
    BY DEF DOther
  <2> QED BY <1>1, <2>1, DueIs
<1>3. ASSUME NEW p \in Proc, Operates(p) PROVE TimesKnown'
  <2>1. alive[p] /\ alive' = alive /\ clock' = clock
    BY <1>3 DEF Operates
  <2>2. /\ setBack' \in Nat /\ corrections' \in Nat /\ Today' = Today
    BY <1>1, <2>1, TimeGoesOn
  <2>3. PICK f : Standing(f)
    BY DEF TimesKnown
  <2>4. PICK l : Known(p, f, l)
    BY <2>1, <2>3 DEF Standing
  <2>5. Timing(p, f, l)
    BY <1>1, <2>3, <2>4 DEF Standing, Timing
  <2>6. PICK a \in {l, Moment(p, l)} : lastClock'[p] = a.clk /\ Keeps(a)
    BY <1>3, <2>5 DEF Operates
  <2>7. f \in Anchor /\ a \in Anchor /\ Before(f, a) /\ Before(a, Today)
    BY <1>1, <2>4, MomentIs DEF Known
  <2>8. \A k \in Target : Timed(file.entries[k], due[k], f) /\ f.clk = file.savedAt
    BY <2>3 DEF Standing
  <2>9. CASE file' = file
    <3>1. \A k \in Target : Timed(file'.entries[k], due'[k], f)
      BY <1>2, <2>8, <2>9 DEF Timed
    <3>2. f.clk = file'.savedAt
      BY <2>3, <2>9 DEF Standing
    <3> QED BY <1>1, <1>2, <2>1, <2>2, <2>6, <2>7, <3>1, <3>2, OperationKnown
  <2>10. CASE file'.savedAt = a.clk /\ \A k \in Target : Timed(file'.entries[k], due[k], a)
    <3>1. \A k \in Target : Timed(file'.entries[k], due'[k], a)
      BY <1>2, <2>10 DEF Timed
    <3> QED BY <1>1, <1>2, <2>1, <2>2, <2>6, <2>7, <2>10, <3>1, OperationKnown
  <2> QED BY <2>6, <2>9, <2>10 DEF Keeps
<1>4. ASSUME clock' = clock \/ Tick \/ (\E d \in Backs : ClockBack(d)), file' = file,
             \A p \in Proc : alive'[p] => \/ alive[p] /\ lastClock'[p] = lastClock[p]
                                          \/ lastClock'[p] = clock
      PROVE  TimesKnown'
  <2>1. /\ setBack' \in Nat /\ corrections' \in Nat
        /\ Today \in Anchor /\ Today' \in Anchor /\ Before(Today, Today')
    BY <1>1, <1>4, TimeGoesOn
  <2> QED BY <1>2, <1>4, <2>1, EnvironmentKnown
<1>5. ASSUME NEW r \in Req, Abandon(r) PROVE TimesKnown'
  BY <1>4, <1>5 DEF Abandon
<1>6. ASSUME NEW p \in Proc, Start(p) PROVE TimesKnown'
  BY <1>4, <1>6 DEF Start, TypeOK
<1>7. ASSUME NEW p \in Proc, Crash(p) PROVE TimesKnown'
  BY <1>4, <1>7 DEF Crash, TypeOK
<1>8. CASE Tick \/ \E d \in Backs : ClockBack(d)
  BY <1>4, <1>8 DEF Tick, ClockBack
<1>9. OtherStep
  BY DEF DOther
<1> QED BY <1>3, <1>5, <1>6, <1>7, <1>8, <1>9, OtherStepTimed

LEMMA FailureKnown ==
    ASSUME Capped, ~PersistMayFail, OneAtATime, TypeOK, TypeOK', LeaseAccountable, RunsAlive,
           TimesKnown, DFailure
    PROVE  TimesKnown'
<1>1. setBack \in Nat /\ corrections \in Nat /\ due \in [Target -> Int]
  BY DEF TimesKnown
<1>2. PICK r \in Req, retry \in RetryAfter \cup {NoTime}, reason \in Reason \cup {"none"} :
         /\ RecordFailure(r, reason, retry)
         /\ due' = NewDue(Stamped(r, reason), NowOf(req[r].proc))
         /\ UNCHANGED <<setBack, corrections>>
  BY DEF DFailure
<1> DEFINE p == req[r].proc
           K == Stamped(r, reason)
<1>3. req[r].st = "running" /\ p \in Proc /\ alive[p] /\ alive' = alive /\ clock' = clock
  BY <1>2 DEF RecordFailure, TypeOK, RunsAlive
<1>4. Today' = Today /\ setBack' \in Nat /\ corrections' \in Nat
  BY <1>1, <1>2, <1>3 DEF Today, RealTime
<1>5. PICK f : Standing(f)
  BY DEF TimesKnown
<1>6. PICK l : Known(p, f, l)
  BY <1>3, <1>5 DEF Standing
<1>7. Timing(p, f, l)
  BY <1>1, <1>5, <1>6 DEF Standing, Timing
<1> DEFINE n == Moment(p, l)
<1>8. /\ f \in Anchor /\ n \in Anchor /\ Before(f, n) /\ Before(n, Today)
      /\ n.clk = NowOf(p) /\ n.real = RealTime
  BY <1>1, <1>3, <1>6, MomentIs DEF Known
<1>9. NowOf(p) \in Nat
  BY <1>8 DEF Anchor
<1>10. lastClock'[p] = n.clk
  BY <1>2, <1>3, <1>8 DEF RecordFailure, Ticked, TypeOK
<1>11. /\ due' \in [Target -> Int]
       /\ \A k \in Target :
             LET e == file'.entries[k]
             IN  \/ e.state \in {"closed", "absent"}
                 \/ k \notin K /\ due'[k] = due[k]
                 \/ k \in K /\ (e.until = NoTime \/ due'[k] = e.until + RealTime - NowOf(p))
  BY <1>1, <1>2, <1>9, DueIs
<1> HIDE DEF n
<1>12. CASE StaleReport(r) \/ (reason = "none" /\ ReleaseProbe(r))
  <2>1. Keeps(n)
    BY <1>3, <1>7, <1>12, ReportTimed DEF n
  <2>2. K = {}
    BY <1>12 DEF Stamped, StaleReport
  <2>3. \A k \in Target : file'.entries[k].state \in {"closed", "absent"} \/ due'[k] = due[k]
    BY <1>11, <2>2
  <2>4. CASE file' = file
    <3>1. \A k \in Target : Timed(file'.entries[k], due'[k], f)
      BY <1>5, <2>3, <2>4 DEF Standing, Timed
    <3>2. f.clk = file'.savedAt
      BY <1>5, <2>4 DEF Standing
    <3> QED BY <1>1, <1>3, <1>4, <1>8, <1>10, <1>11, <3>1, <3>2, OperationKnown
  <2>5. CASE file'.savedAt = n.clk /\ \A k \in Target : Timed(file'.entries[k], due[k], n)
    <3>1. \A k \in Target : Timed(file'.entries[k], due'[k], n)
      BY <2>3, <2>5 DEF Timed
    <3> QED BY <1>1, <1>3, <1>4, <1>8, <1>10, <1>11, <2>5, <3>1, OperationKnown
  <2> QED BY <2>1, <2>4, <2>5 DEF Keeps
<1>13. CASE reason # "none" /\ ProviderFailure(r, reason, retry)
  <2>1. /\ file'.savedAt = n.clk
        /\ \A k \in Target : IF k \in K THEN Fresh(file'.entries[k], n)
                             ELSE Timed(file'.entries[k], due[k], n)
    BY <1>3, <1>7, <1>13, ReportTimed DEF n, Reason
  <2> HIDE DEF K
  <2>2. ASSUME NEW k \in Target PROVE Timed(file'.entries[k], due'[k], n)
    <3> DEFINE g == file'.entries[k]
    <3>1. /\ g.until \in Int /\ due[k] \in Int /\ due'[k] \in Int /\ RealTime \in Int
      <4>1. g \in Entry
        BY DEF TypeOK
      <4> QED BY <1>1, <1>8, <1>11, <4>1 DEF Entry, Time, NoTime, Anchor
    <3>2. \/ g.state \in {"closed", "absent"}
          \/ k \notin K /\ due'[k] = due[k]
          \/ k \in K /\ (g.until = NoTime \/ due'[k] = g.until + RealTime - NowOf(p))
      BY <1>11
    <3>3. IF k \in K THEN Fresh(g, n) ELSE Timed(g, due[k], n)
      BY <2>1
    <3> HIDE DEF g, p
    <3>4. CASE g.state \in {"closed", "absent"}
      BY <3>4 DEF Timed, g
    <3>5. CASE k \notin K /\ due'[k] = due[k]
      BY <3>3, <3>5 DEF g
    <3>6. CASE k \in K /\ (g.until = NoTime \/ due'[k] = g.until + RealTime - NowOf(p))
      <4>1. Fresh(g, n)
        BY <3>3, <3>6
      <4>2. Timed(g, due'[k], n)
        BY <1>8, <1>9, <3>1, <3>6, <4>1 DEF Timed, Fresh
      <4> QED BY <4>2 DEF g
    <3> QED BY <3>2, <3>4, <3>5, <3>6
  <2> QED BY <1>1, <1>3, <1>4, <1>8, <1>10, <1>11, <2>1, <2>2, OperationKnown
<1> QED BY <1>2, <1>12, <1>13 DEF RecordFailure

\* What a running process sees of the store bears the promise out.
LEMMA SeenInTime ==
    ASSUME Capped, TypeOK, TimesKnown
    PROVE  BlockLastsAsPromised
<1>1. setBack \in Nat /\ corrections \in Nat /\ due \in [Target -> Int]
  BY DEF TimesKnown
<1>2. ASSUME NEW p \in Proc, alive[p], NEW k \in Target
      PROVE  /\ View(p)[k].state = "half-open" => RealTime >= due[k]
             /\ View(p)[k].state = "open" =>
                   View(p)[k].until <= NowOf(p) + LongestBlock + Skew * corrections
  <2>1. PICK f : Standing(f)
    BY DEF TimesKnown
  <2>2. PICK l : Known(p, f, l)
    BY <1>2, <2>1 DEF Standing
  <2> DEFINE n == Moment(p, l)
             e == View(p)[k]
  <2>3. due[k] \in Int /\ Timed(file.entries[k], due[k], f)
    BY <1>1, <2>1 DEF Standing
  <2>4. Timed(e, due[k], n)
    BY <1>1, <2>2, <2>3, OpenedTimed DEF View
  <2>5. /\ Today \in Anchor /\ n \in Anchor /\ n.clk = NowOf(p) /\ n.real = RealTime
        /\ Before(n, Today)
    BY <1>1, <2>2, MomentIs
  <2>6. e.until \in Int
    <3>1. View(p) \in Entries
      BY OpenedType, RefreshType, CircuitAssumption DEF View
    <3>2. e \in Entry
      BY <3>1 DEF Entries
    <3> QED BY <3>2 DEF Entry, Time, NoTime
  <2> HIDE DEF n, e
  <2>7. e.state = "half-open" => RealTime >= due[k]
    BY <2>3, <2>4, <2>5 DEF Timed, Anchor
  <2>8. /\ Horizon(n) \in Nat /\ Horizon(n) <= NowOf(p) + LongestBlock + Skew * corrections
        /\ NowOf(p) + LongestBlock + Skew * corrections \in Nat
    <3>1. /\ n.clk \in Nat /\ n.cor \in Nat /\ n.cor <= corrections /\ NowOf(p) \in Nat
      BY <2>5 DEF Anchor, Before, Today
    <3>2. Skew \in Nat /\ LongestBlock \in Nat
      BY CircuitAssumption, LongestIs
    <3>3. \A x, y \in Nat : x <= y => Skew * x <= Skew * y
      BY <3>2
    <3>4. Skew * n.cor <= Skew * corrections /\ Skew * n.cor \in Nat /\ Skew * corrections \in Nat
      BY <1>1, <3>1, <3>2, <3>3
    <3> QED BY <2>5, <3>1, <3>2, <3>4 DEF Horizon
  <2>9. ASSUME e.state = "open"
        PROVE  e.until <= NowOf(p) + LongestBlock + Skew * corrections
    <3>1. e.until = NoTime \/ e.until <= Horizon(n)
      BY <2>4, <2>9 DEF Timed
    <3> QED BY <2>6, <2>8, <3>1 DEF NoTime
  <2> QED BY <2>7, <2>9 DEF e
<1> QED BY <1>2 DEF BlockLastsAsPromised, BlockNotShortened, BlockNotExtended

\* However often the clock is set back and however long a process is idle or
\* down, a block lasts in real time: whoever looks finds a circuit ready for a
\* probe no sooner than was promised, and blocked for no longer than the longest
\* cooldown, beyond the tolerated skew per correction (now, load, shiftTimestamps,
\* persist).  One process runs at a time, saves do not fail, and the Retry-After
\* values are bounded.
THEOREM BlocksLastAsPromised ==
    ASSUME ~PersistMayFail, Capped
    PROVE  DSpec /\ []OneAtATime => []BlockLastsAsPromised
<1> DEFINE I == TypeOK /\ LeaseAccountable /\ RunsAlive /\ TimesKnown
<1>1. DInit => I
  <2> SUFFICES ASSUME DInit PROVE I
    OBVIOUS
  <2>1. Init
    BY DEF DInit
  <2>2. TypeOK /\ LeaseAccountable
    BY <2>1, CircuitAssumption, TargetAssumption, ConstantEntries
       DEF Init, TypeOK, Request, LeaseAccountable, Absent
  <2>3. RunsAlive
    BY <2>1 DEF Init, RunsAlive
  <2>4. setBack = 0 /\ corrections = 0 /\ due = [k \in Target |-> NoTime] /\ clock = 0
    BY <2>1 DEF DInit, Init
  <2>5. Today \in Anchor /\ Today.clk = 0 /\ Before(Today, Today)
    BY <2>4 DEF Today, Anchor, RealTime, Before
  <2>6. Standing(Today)
    BY <2>1, <2>5 DEF Init, Standing, Timed, Absent
  <2>7. due \in [Target -> Int]
    BY <2>4 DEF NoTime
  <2> QED BY <2>2, <2>3, <2>4, <2>6, <2>7 DEF TimesKnown
<1>2. I /\ OneAtATime /\ [DNext]_dvars => I'
  <2> SUFFICES ASSUME I, OneAtATime, [DNext]_dvars PROVE I'
    OBVIOUS
  <2>1. [Next]_vars
    BY DEF DNext, DFailure, DOther, dvars, vars, Next, FailureStep
  <2>2. TypeOK' /\ LeaseAccountable' /\ RunsAlive'
    BY <2>1, TypeStep, AccountableStep, RunsAliveStep
  <2>3. CASE UNCHANGED dvars
    <3>1. UNCHANGED <<Today, clock, lastClock, alive, file, setBack, corrections, due>>
      BY <2>3 DEF dvars, Today, RealTime
    <3> QED BY <2>2, <3>1 DEF TimesKnown, Standing, Known
  <2> QED BY <2>2, <2>3, OtherKnown, FailureKnown DEF DNext
<1>3. I => BlockLastsAsPromised
  BY SeenInTime
<1> QED BY <1>1, <1>2, <1>3, PTL DEF DSpec

(***************************************************************************)
(* The lock around each operation (CircuitLock), for any number of windows *)
(* which may die or be suspended anywhere.                                 *)
(***************************************************************************)

\* Every step keeps the types of the lock's variables.
LEMMA LockTypeStep == LockTypeOK /\ [LockNext]_lockVars => LockTypeOK'
<1> SUFFICES ASSUME LockTypeOK, [LockNext]_lockVars PROVE LockTypeOK'
  OBVIOUS
<1> USE LockAssumption DEF LockTypeOK, Ops, Free, Goto, history
<1>1. ASSUME NEW p \in Window, Begin(p) PROVE LockTypeOK'
  BY <1>1 DEF Begin
<1>2. ASSUME NEW p \in Window, Mkdir(p) PROVE LockTypeOK'
  BY <1>2 DEF Mkdir
<1>3. ASSUME NEW p \in Window, Stat(p) PROVE LockTypeOK'
  <2>1. pc' \in [Window -> {"idle", "mkdir", "stat", "evict", "load", "save", "release", "dead"}]
    BY <1>3 DEF Stat
  <2>2. waited' \in [Window -> 0 .. Wait]
    BY <1>3 DEF Stat
  <2> QED BY <1>3, <2>1, <2>2 DEF Stat
<1>4. ASSUME NEW p \in Window, Evict(p) PROVE LockTypeOK'
  <2>1. lock' \in [by : Window \cup {NoWindow}, age : 0 .. Stale + 1]
    BY <1>4 DEF Evict
  <2>2. late' \subseteq Window /\ robbed' \subseteq Window
    BY <1>4 DEF Evict, Others
  <2> QED BY <1>4, <2>1, <2>2 DEF Evict
<1>5. ASSUME NEW p \in Window, Load(p) PROVE LockTypeOK'
  BY <1>5 DEF Load
<1>6. ASSUME NEW p \in Window, Save(p) PROVE LockTypeOK'
  <2>1. mem[p] \in [Window -> Nat]
    OBVIOUS
  <2>2. store' \in [Window -> Nat]
    BY <1>6, <2>1 DEF Save
  <2>3. crossed' \subseteq Window
    BY <1>6 DEF Save
  <2> QED BY <1>6, <2>2, <2>3 DEF Save
<1>7. ASSUME NEW p \in Window, Release(p) PROVE LockTypeOK'
  <2>1. late' \subseteq Window /\ robbed' \subseteq Window /\ crossed' \subseteq Window
    BY <1>7 DEF Release, Others
  <2> QED BY <1>7, <2>1 DEF Release
<1>8. ASSUME NEW p \in Window, Die(p) PROVE LockTypeOK'
  BY <1>8 DEF Die
<1>9. CASE Elapse
  BY <1>9 DEF Elapse
<1>10. CASE UNCHANGED lockVars
  BY <1>10 DEF lockVars
<1> QED BY <1>1, <1>2, <1>3, <1>4, <1>5, <1>6, <1>7, <1>8, <1>9, <1>10 DEF LockNext, Step

\* The lock's variables keep their types for any number of windows.
THEOREM LockTypeCorrect == LockSpec => []LockTypeOK
<1>1. LockInit => LockTypeOK
  BY LockAssumption DEF LockInit, LockTypeOK, Ops, Free
<1> QED BY <1>1, LockTypeStep, PTL DEF LockSpec

(***************************************************************************)
(* The inductive invariant.  A window in the section that was not robbed   *)
(* owns the directory.  A window about to evict has the stale lock it saw  *)
(* before it, or is known to be late.  What a window has loaded is what    *)
(* the store says, until it is robbed or a robbed one writes under it.     *)
(***************************************************************************)
LockOwned == \A p \in Window : pc[p] \in InSection /\ p \notin robbed => lock.by = p
Aimed == \A p \in Window : pc[p] = "evict" /\ p \notin late =>
             lock.by # NoWindow /\ lock.age > Stale
LoadedFresh == \A p \in Window : pc[p] = "save" /\ p \notin robbed \cup crossed => mem[p] = store

LockInv == LockTypeOK /\ LockOwned /\ Aimed /\ LoadedFresh

\* A lock is removed only under a window that is counted as robbed.
LEMMA EvictedIsRobbed ==
    ASSUME LockInv, NEW p \in Window, Evict(p), lock.by # NoWindow
    PROVE  lock.by \in robbed'
BY DEF LockInv, Aimed, Evict

\* Every step keeps the lock in order.
LEMMA LockInvStep == LockInv /\ [LockNext]_lockVars => LockInv'
<1> SUFFICES ASSUME LockInv, [LockNext]_lockVars
             PROVE  (LockOwned /\ Aimed /\ LoadedFresh)'
  BY LockTypeStep DEF LockInv
<1> USE LockAssumption DEF LockInv, LockTypeOK, LockOwned, Aimed, LoadedFresh, InSection,
                           Goto, Free, Ops, history, Others
<1>1. ASSUME NEW p \in Window, Begin(p) PROVE (LockOwned /\ Aimed /\ LoadedFresh)'
  BY <1>1 DEF Begin
<1>2. ASSUME NEW p \in Window, Mkdir(p) PROVE (LockOwned /\ Aimed /\ LoadedFresh)'
  BY <1>2 DEF Mkdir
<1>3. ASSUME NEW p \in Window, Stat(p) PROVE (LockOwned /\ Aimed /\ LoadedFresh)'
  BY <1>3 DEF Stat
<1>4. ASSUME NEW p \in Window, Evict(p) PROVE (LockOwned /\ Aimed /\ LoadedFresh)'
  <2>1. LockOwned'
    BY <1>4, EvictedIsRobbed DEF Evict
  <2>2. Aimed'
    BY <1>4 DEF Evict
  <2>3. LoadedFresh'
    BY <1>4 DEF Evict
  <2> QED BY <2>1, <2>2, <2>3
<1>5. ASSUME NEW p \in Window, Load(p) PROVE (LockOwned /\ Aimed /\ LoadedFresh)'
  BY <1>5 DEF Load
<1>6. ASSUME NEW p \in Window, Save(p) PROVE (LockOwned /\ Aimed /\ LoadedFresh)'
  <2>1. (LockOwned /\ Aimed)'
    BY <1>6 DEF Save
  <2>2. ASSUME NEW q \in Window, pc'[q] = "save", q \notin robbed' \cup crossed'
        PROVE  FALSE
    <3>1. q # p /\ pc[q] = "save" /\ q \notin robbed
      BY <1>6, <2>2 DEF Save
    <3>2. p \notin robbed
      BY <1>6, <2>2, <3>1 DEF Save
    <3> QED BY <1>6, <3>1, <3>2 DEF Save
  <2> QED BY <2>1, <2>2
<1>7. ASSUME NEW p \in Window, Release(p) PROVE (LockOwned /\ Aimed /\ LoadedFresh)'
  <2>1. LockOwned'
    BY <1>7 DEF Release
  <2>2. Aimed'
    BY <1>7 DEF Release
  <2>3. LoadedFresh'
    BY <1>7 DEF Release
  <2> QED BY <2>1, <2>2, <2>3
<1>8. ASSUME NEW p \in Window, Die(p) PROVE (LockOwned /\ Aimed /\ LoadedFresh)'
  BY <1>8 DEF Die
<1>9. CASE Elapse
  BY <1>9 DEF Elapse
<1>10. CASE UNCHANGED lockVars
  BY <1>10 DEF lockVars
<1> QED BY <1>1, <1>2, <1>3, <1>4, <1>5, <1>6, <1>7, <1>8, <1>9, <1>10 DEF LockNext, Step

\* LockInv is an invariant.
LEMMA LockInvHolds == LockSpec => []LockInv
<1>1. LockInit => LockInv
  BY LockAssumption DEF LockInit, LockInv, LockTypeOK, LockOwned, Aimed, LoadedFresh,
                        InSection, Ops, Free
<1>2. LockInv /\ [LockNext]_lockVars => LockInv'
  BY LockInvStep
<1> QED BY <1>1, <1>2, PTL DEF LockSpec

\* Whatever windows die or are suspended, at most one is inside with its lock in
\* place: it is lost there only to one of the races counted in robbed
\* (withStoreLock).
THEOREM LockExclusive == LockSpec => []MutualExclusion
<1>1. LockInv => MutualExclusion
  BY DEF LockInv, LockOwned, MutualExclusion
<1> QED BY <1>1, LockInvHolds, PTL

\* Every write of a window that was neither robbed nor crossed by a robbed one
\* is an atomic update of the store, whatever windows die or are suspended
\* (withStoreLock).
THEOREM OperationsAtomic == LockSpec => ImplementsAtomicStore
<1>1. LockInit => Atomic!Init
  BY DEF LockInit, Atomic!Init
<1>2. LockInv /\ [LockNext]_lockVars => [Atomic!Next]_store
  <2> SUFFICES ASSUME LockInv, [LockNext]_lockVars PROVE Atomic!Next \/ UNCHANGED store
    OBVIOUS
  <2>1. ASSUME NEW p \in Window, Save(p) PROVE Atomic!Update(p) \/ Atomic!Overwrite(p)
    <3>1. CASE p \in robbed \cup crossed
      <4>1. mem[p] \in [Window -> Nat]
        BY DEF LockInv, LockTypeOK, Ops
      <4>2. store' \in [Window -> Nat] /\ store'[p] > 0
        BY <2>1, <4>1 DEF Save
      <4> QED BY <3>1, <4>2 DEF Atomic!Overwrite
    <3>2. CASE p \notin robbed \cup crossed
      BY <2>1, <3>2 DEF Save, LockInv, LoadedFresh, Atomic!Update
    <3> QED BY <3>1, <3>2
  <2>2. ASSUME NEW p \in Window,
               Begin(p) \/ Mkdir(p) \/ Stat(p) \/ Evict(p) \/ Load(p) \/ Release(p) \/ Die(p)
        PROVE  UNCHANGED store
    BY <2>2 DEF Begin, Mkdir, Stat, Evict, Load, Release, Die, history
  <2> QED BY <2>1, <2>2 DEF LockNext, Step, Elapse, lockVars, Atomic!Next
<1> QED BY <1>1, <1>2, LockInvHolds, PTL DEF LockSpec, ImplementsAtomicStore, Atomic!Spec
==============================================================================
