-------------------------- MODULE TerminalJobsProofs --------------------------
(***************************************************************************)
(* Proofs about TerminalJobs.  All of them rest on what holds of one job   *)
(* (Sound) and on how one job may change in a step (Evolves): a settled    *)
(* job keeps its report, and only a spawn makes a job live.                *)
(***************************************************************************)
EXTENDS TerminalJobs, FiniteSetTheorems, TLAPS

\* A job that still says "running" was never signalled; one that says how it
\* ended is settled and its child is gone; and a settled job whose child lives
\* is one of a foreign child, and has failed.
Sound(j, J) ==
    /\ J \in JobRecord
    /\ J.status = "none" => J.child = "none" /\ J.outputBytes = 0 /\ ~J.closed
    /\ J.status \in {"none", "running"} =>
          /\ J.got = {} /\ J.grace = {} /\ ~J.settled
          /\ ~J.outputCapped /\ ~J.timedOut
    /\ J.status = "exited" => J.ended = "code" /\ J.got = {} /\ ~J.outputCapped /\ ~J.timedOut
    /\ J.status \in {"exited", "error"} => J.settled
    /\ J.settled => J.grace = {} /\ (J.status = "error" \/ (J.child = "dead" /\ J.closed))
    /\ J.settled /\ J.child = "alive" => j \in Foreign
    /\ J.closed => J.settled /\ J.child # "alive"
    /\ J.child = "alive" => J.status # "none"
    /\ J.child = "dead" <=> J.ended # "no"
    /\ J.child = "none" => ~J.piped
    /\ J.outputCapped <=> J.outputBytes > MaxOutput

AllSound == job \in [Job -> JobRecord] /\ \A j \in Job : Sound(j, job[j])

\* How a job may change in any step but its spawn.
Evolves(j, J, K) ==
    /\ Sound(j, K)
    /\ J.settled => K.settled /\ Report(K) = Report(J)
    /\ K.status # "none" /\ ~K.settled => J.status # "none" /\ ~J.settled

LEMMA EvolvesRefl == ASSUME NEW j, NEW J, Sound(j, J) PROVE Evolves(j, J, J)
  BY DEF Evolves

\* A step that changes one job.
LEMMA OneJob ==
    ASSUME AllSound, NEW j \in Job, NEW K, Evolves(j, job[j], K), job' = [job EXCEPT ![j] = K]
    PROVE  AllSound' /\ \A k \in Job : Evolves(k, job[k], job'[k])
<1>1. K \in JobRecord BY DEF Evolves, Sound
<1>2. job' \in [Job -> JobRecord] BY <1>1 DEF AllSound
<1>3. \A k \in Job : Evolves(k, job[k], job'[k])
  BY EvolvesRefl DEF AllSound
<1> QED BY <1>2, <1>3 DEF AllSound, Evolves

-----------------------------------------------------------------------------
\* One lemma for each way a job changes.
LEMMA SignalKeeps ==
    ASSUME NEW j, NEW J, Sound(j, J), J.status \notin {"none", "running", "exited"},
           NEW sig \in {"TERM", "KILL"}
    PROVE  /\ Evolves(j, J, Signalled(J, sig))
           /\ Signalled(J, sig).settled = J.settled
  BY DEF Sound, JobRecord, Evolves, Report, Signalled

\* The error event of a command that did not start, or of a refused signal.
LEMMA ErrorKeeps ==
    ASSUME NEW j, NEW J, Sound(j, J), J.status # "none", ~J.settled,
           J.child = "none" \/ j \in Foreign
    PROVE  Evolves(j, J, Failed(J))
  BY DEF Sound, JobRecord, Failed, Settled, Evolves, Report

\* A handler that marks a running job (K) and then signals its child.
LEMMA MarkedKeeps ==
    ASSUME NEW j, NEW J, Sound(j, J), J.status # "none", ~J.settled,
           NEW K, Sound(j, K), K.status = "killed", ~K.settled, NEW sig \in {"TERM", "KILL"}
    PROVE  /\ Evolves(j, J, Signalled(K, sig))
           /\ j \in Foreign => Evolves(j, J, Failed(K))
  BY SignalKeeps, ErrorKeeps DEF Evolves

LEMMA KilledKeeps ==
    ASSUME NEW j, NEW J, Sound(j, J), J.status # "none", ~J.settled
    PROVE  /\ Evolves(j, J, Signalled(Killed(J), "TERM"))
           /\ j \in Foreign => Evolves(j, J, Failed(Killed(J)))
<1>1. Sound(j, Killed(J)) /\ Killed(J).status = "killed" /\ ~Killed(J).settled
  BY DEF Sound, JobRecord, Killed
<1> QED BY <1>1, MarkedKeeps

LEMMA TimedOutKeeps ==
    ASSUME NEW j, NEW J, Sound(j, J), J.status # "none", ~J.settled
    PROVE  /\ Evolves(j, J, Signalled(TimedOut(J), "TERM"))
           /\ j \in Foreign => Evolves(j, J, Failed(TimedOut(J)))
<1>1. Sound(j, TimedOut(J)) /\ TimedOut(J).status = "killed" /\ ~TimedOut(J).settled
  BY DEF Sound, JobRecord, TimedOut
<1> QED BY <1>1, MarkedKeeps

LEMMA EscalationKeeps ==
    ASSUME NEW j, NEW J, Sound(j, J), NEW for \in J.grace
    PROVE  /\ J.status # "none" /\ ~J.settled
           /\ Evolves(j, J, Signalled(Escalated(J, for), "KILL"))
           /\ j \in Foreign => Evolves(j, J, Failed(Escalated(J, for)))
<1>1. J.status = "killed" /\ ~J.settled
  BY DEF Sound, JobRecord
<1>2. Sound(j, Escalated(J, for)) /\ Escalated(J, for).status = "killed" /\ ~Escalated(J, for).settled
  BY <1>1 DEF Sound, JobRecord, Escalated
<1> QED BY <1>1, <1>2, MarkedKeeps

LEMMA DataKeeps ==
    ASSUME NEW j, NEW J, Sound(j, J), J.status # "none", ~J.settled, ~J.outputCapped
    PROVE  /\ Grown(J).outputBytes <= MaxOutput => Evolves(j, J, Grown(J))
           /\ Grown(J).outputBytes > MaxOutput =>
                 /\ Evolves(j, J, Signalled(Capped(Grown(J)), "TERM"))
                 /\ j \in Foreign => Evolves(j, J, Failed(Capped(Grown(J))))
<1> DEFINE K == Grown(J)
           C == Capped(K)
<1>1. J \in JobRecord /\ J.outputBytes \in 0 .. MaxOutput
  BY JobsAssumption DEF Sound, JobRecord
<1>2. K \in JobRecord /\ K.outputBytes \in 0 .. MaxOutput + 1
  BY <1>1, JobsAssumption DEF JobRecord, Grown
<1>3. CASE K.outputBytes > MaxOutput
  <2>1. C.outputBytes > MaxOutput  BY <1>2, <1>3 DEF JobRecord, Capped
  <2>2. Sound(j, C) /\ C.status = "killed" /\ ~C.settled
    BY <1>1, <1>2, <2>1, ZenonT(60) DEF Sound, JobRecord, Capped, Grown
  <2> HIDE DEF C
  <2>3. /\ Evolves(j, J, Signalled(C, "TERM"))
        /\ j \in Foreign => Evolves(j, J, Failed(C))
    BY <2>2, MarkedKeeps
  <2> QED BY <1>2, <1>3, <2>3, JobsAssumption DEF C
<1>4. CASE ~(K.outputBytes > MaxOutput)
  <2>1. K.outputBytes <= MaxOutput  BY <1>2, <1>4, JobsAssumption
  <2>2. Sound(j, K) /\ K.status # "none" /\ ~K.settled
    BY <1>1, <1>2, <1>4, <2>1 DEF Sound, JobRecord, Grown
  <2> QED BY <1>4, <2>2 DEF Evolves
<1> QED BY <1>3, <1>4

LEMMA CloseKeeps ==
    ASSUME NEW j, NEW J, Sound(j, J), ~J.closed,
           \/ J.child = "dead"
           \/ J.child = "none" /\ J.settled,
           NEW status, status = IF J.status = "running"
                                THEN IF J.ended = "signal" THEN "killed" ELSE "exited"
                                ELSE J.status
    PROVE  Evolves(j, J, [Settled(J) EXCEPT !.closed = TRUE, !.status = status])
  BY DEF Sound, JobRecord, Settled, Evolves, Report

LEMMA EndKeeps ==
    ASSUME NEW j, NEW J, Sound(j, J), J.child = "alive", NEW how \in {"code", "signal"},
           NEW kept \in BOOLEAN
    PROVE  Evolves(j, J, [J EXCEPT !.child = "dead", !.ended = how, !.piped = kept])
  BY DEF Sound, JobRecord, Evolves, Report

LEMMA UnpipeKeeps ==
    ASSUME NEW j, NEW J, Sound(j, J), J.child = "dead"
    PROVE  Evolves(j, J, [J EXCEPT !.piped = FALSE])
  BY DEF Sound, JobRecord, Evolves, Report

-----------------------------------------------------------------------------
\* Every step but a spawn.
LEMMA StepEvolves ==
    ASSUME AllSound, [Next]_vars, ~\E j \in Job, exists \in BOOLEAN : Spawn(j, exists)
    PROVE  AllSound' /\ \A k \in Job : Evolves(k, job[k], job'[k])
<1>1. job \in [Job -> JobRecord] /\ \A k \in Job : Sound(k, job[k])
  BY DEF AllSound
<1>2. CASE UNCHANGED job
  BY <1>1, <1>2, EvolvesRefl DEF AllSound
<1>3. ASSUME NEW j \in Job, SpawnError(j) PROVE AllSound' /\ \A k \in Job : Evolves(k, job[k], job'[k])
  BY <1>1, <1>3, ErrorKeeps, OneJob DEF SpawnError, Running, Spawned
<1>4. ASSUME NEW j \in Job, OnData(j) PROVE AllSound' /\ \A k \in Job : Evolves(k, job[k], job'[k])
  BY <1>1, <1>4, DataKeeps, OneJob DEF OnData, Running, Spawned, Refusable
<1>5. ASSUME NEW j \in Job, OnRuntimeExceeded(j)
      PROVE  AllSound' /\ \A k \in Job : Evolves(k, job[k], job'[k])
  BY <1>1, <1>5, TimedOutKeeps, OneJob DEF OnRuntimeExceeded, Signals, Running, Spawned, Refusable
<1>6. ASSUME NEW j \in Job, Kill(j) PROVE AllSound' /\ \A k \in Job : Evolves(k, job[k], job'[k])
  BY <1>1, <1>6, KilledKeeps, OneJob DEF Kill, Signals, Running, Spawned, Refusable
<1>7. ASSUME NEW j \in Job, NEW for \in {"limit", "kill"}, Escalate(j, for)
      PROVE  AllSound' /\ \A k \in Job : Evolves(k, job[k], job'[k])
  BY <1>1, <1>7, EscalationKeeps, OneJob DEF Escalate, Signals, Refusable
<1>8. ASSUME NEW j \in Job, Close(j) PROVE AllSound' /\ \A k \in Job : Evolves(k, job[k], job'[k])
  <2> DEFINE status == IF job[j].status = "running" THEN ByExit(j) ELSE job[j].status
  <2>1. \/ job[j].child = "dead"
        \/ job[j].child = "none" /\ job[j].settled
    BY <1>8 DEF Close, CloseEvent
  <2>2. Evolves(j, job[j], [Settled(job[j]) EXCEPT !.closed = TRUE, !.status = status])
    BY <1>1, <1>8, <2>1, CloseKeeps DEF Close, CloseEvent, ByExit
  <2> QED BY <1>8, <2>2, OneJob DEF Close, Closed
<1>9. ASSUME NEW j \in Job, Die(j) \/ Leave(j)
      PROVE  AllSound' /\ \A k \in Job : Evolves(k, job[k], job'[k])
  <2>1. PICK how \in {"code", "signal"}, kept \in BOOLEAN : End(j, how, kept)
    BY <1>9 DEF Die, Leave
  <2> QED BY <1>1, <2>1, EndKeeps, OneJob DEF End
<1>10. ASSUME NEW j \in Job, Unpipe(j) PROVE AllSound' /\ \A k \in Job : Evolves(k, job[k], job'[k])
  <2>1. job' = [job EXCEPT ![j] = [job[j] EXCEPT !.piped = FALSE]]
    BY <1>10 DEF Unpipe
  <2> QED BY <1>1, <1>10, <2>1, UnpipeKeeps, OneJob DEF Unpipe
<1>11. ASSUME KillAll PROVE AllSound' /\ \A k \in Job : Evolves(k, job[k], job'[k])
  <2>1. PICK refusing \in SUBSET {j \in Live : Refusable(j)} :
          job' = [j \in Job |->
                   IF j \in refusing THEN Failed(Killed(job[j]))
                   ELSE IF j \in Live THEN Signalled(Killed(job[j]), "TERM") ELSE job[j]]
    BY <1>11 DEF KillAll
  <2>3. \A k \in Job : Evolves(k, job[k], job'[k])
    <3> SUFFICES ASSUME NEW k \in Job PROVE Evolves(k, job[k], job'[k])
      OBVIOUS
    <3>1. CASE k \in Live
      BY <1>1, <2>1, <3>1, KilledKeeps DEF Live, Running, Spawned, Refusable
    <3>2. CASE k \notin Live
      BY <1>1, <2>1, <3>2, EvolvesRefl
    <3> QED BY <3>1, <3>2
  <2>2. job' \in [Job -> JobRecord]
    BY <2>1, <2>3 DEF Evolves, Sound
  <2> QED BY <2>2, <2>3 DEF AllSound, Evolves
<1> QED
  BY <1>2, <1>3, <1>4, <1>5, <1>6, <1>7, <1>8, <1>9, <1>10, <1>11 DEF Next, vars, Iterate, Pull

\* A spawn makes one job live, which was not settled.
LEMMA SpawnStarts ==
    ASSUME AllSound, NEW j \in Job, NEW exists \in BOOLEAN, Spawn(j, exists)
    PROVE  /\ AllSound'
           /\ \A k \in Job \ {j} : job'[k] = job[k]
           /\ ~job[j].settled /\ Cardinality(Live) < MaxJobs
<1>1. Sound(j, Started(exists))
  <2>1. NewJob \in JobRecord /\ 0 \in 0 .. MaxOutput + 1 /\ ~(0 > MaxOutput)
    BY JobsAssumption DEF NewJob, JobRecord
  <2>2. CASE exists = TRUE  BY <2>1, <2>2 DEF Sound, JobRecord, Started, NewJob
  <2>3. CASE exists = FALSE  BY <2>1, <2>3 DEF Sound, JobRecord, Started, NewJob
  <2> QED BY <2>2, <2>3
<1>2. ~job[j].settled /\ Cardinality(Live) < MaxJobs
  BY DEF Spawn, Spawned, AllSound, Sound
<1>3. job' = [job EXCEPT ![j] = Started(exists)] /\ Started(exists) \in JobRecord
  BY <1>1 DEF Spawn, Sound
<1> HIDE DEF Started
<1> QED BY <1>1, <1>2, <1>3 DEF AllSound

LEMMA SoundStep == AllSound /\ [Next]_vars => AllSound'
  BY StepEvolves, SpawnStarts

LEMMA SoundInit == Init => AllSound
  BY JobsAssumption DEF Init, AllSound, Sound, NewJob, JobRecord

LEMMA AlwaysSound == Spec => []AllSound
  BY SoundInit, SoundStep, PTL DEF Spec

-----------------------------------------------------------------------------
\* What a job reports once it is settled is final (settle is entered once).
THEOREM ReportsFinal == Spec => ReportIsFinal
<1>1. AllSound /\ [Next]_vars =>
        [\A j \in Job : job[j].settled => job'[j].settled /\ Report(job'[j]) = Report(job[j])]_vars
  BY StepEvolves, SpawnStarts DEF Evolves
<1> QED BY <1>1, AlwaysSound, PTL DEF Spec, ReportIsFinal

\* A job reported as exited or killed has lost its child; one reported as
\* exited ended by itself, unsignalled; one that passed a
\* limit is not reported as exited, and one is reported as capped just when
\* its output passed the cap (close, kill, onData).
THEOREM ReportsTrue == Spec => []ReportIsTrue
<1>1. AllSound => ReportIsTrue
  BY DEF AllSound, Sound, JobRecord, ReportIsTrue
<1> QED BY <1>1, AlwaysSound, PTL

\* A report is true when it is given and never changes afterwards (settle).
THEOREM ReportsStand == Spec => ReportStands
<1>1. ReportIsTrue' => [ReportIsTrue']_vars
  OBVIOUS
<1> QED  BY <1>1, ReportsFinal, ReportsTrue, PTL DEF ReportStands

-----------------------------------------------------------------------------
LEMMA LiveFinite == IsFiniteSet(Live) /\ Cardinality(Live) \in Nat
  BY JobsAssumption, FS_Subset, FS_CardinalityType DEF Live

\* The live jobs never outnumber the slots.
LEMMA LiveStep ==
    ASSUME AllSound, [Next]_vars, Cardinality(Live) <= MaxJobs
    PROVE  Cardinality(Live') <= MaxJobs
<1>1. CASE \E j \in Job, exists \in BOOLEAN : Spawn(j, exists)
  <2>1. PICK j \in Job, exists \in BOOLEAN : Spawn(j, exists)  BY <1>1
  <2>2. Live' \subseteq Live \cup {j} /\ Cardinality(Live) < MaxJobs
    BY <2>1, SpawnStarts DEF Live, Running, Spawned
  <2>3. IsFiniteSet(Live \cup {j}) /\ Cardinality(Live \cup {j}) <= Cardinality(Live) + 1
    <3>1. IsFiniteSet(Live) /\ Cardinality(Live) \in Nat  BY LiveFinite
    <3>2. /\ IsFiniteSet(Live \cup {j})
          /\ \/ Cardinality(Live \cup {j}) = Cardinality(Live)
             \/ Cardinality(Live \cup {j}) = Cardinality(Live) + 1
      BY <3>1, FS_AddElement
    <3> QED BY <3>1, <3>2
  <2>4. Cardinality(Live') <= Cardinality(Live \cup {j}) /\ Cardinality(Live') \in Nat
    BY <2>2, <2>3, FS_Subset, FS_CardinalityType
  <2>5. Cardinality(Live \cup {j}) \in Nat  BY <2>3, FS_CardinalityType
  <2> QED BY <2>2, <2>3, <2>4, <2>5, LiveFinite, JobsAssumption
<1>2. CASE ~\E j \in Job, exists \in BOOLEAN : Spawn(j, exists)
  <2>1. Live' \subseteq Live
    BY <1>2, StepEvolves DEF Live, Running, Spawned, Evolves
  <2>2. Cardinality(Live') <= Cardinality(Live) /\ Cardinality(Live') \in Nat
    BY <2>1, LiveFinite, FS_Subset, FS_CardinalityType
  <2> QED BY <2>2, LiveFinite, JobsAssumption
<1> QED BY <1>1, <1>2

\* A child that lives has a slot, or has refused a signal.
LEMMA EscapedSound ==
    ASSUME AllSound
    PROVE  /\ Alive \ Escaped \subseteq Live
           /\ Escaped \subseteq Foreign
           /\ \A j \in Alive : job[j].settled <=> j \in Escaped
  BY DEF AllSound, Sound, Alive, Escaped, Live, Running, Spawned

\* The children alive never outnumber the slots, but for those whose user
\* refused a signal (spawn counts the jobs that are not settled, and only a
\* refused signal settles a job while its child lives).
THEOREM ChildrenStayBounded == Spec => []ChildrenBounded
<1>1. Init => Cardinality(Live) <= MaxJobs
  <2>1. Init => Live = {}  BY DEF Init, Live, Running, Spawned, NewJob
  <2> QED BY <2>1, FS_EmptySet, JobsAssumption
<1>2. AllSound /\ [Next]_vars /\ Cardinality(Live) <= MaxJobs => (Cardinality(Live) <= MaxJobs)'
  BY LiveStep
<1>3. AllSound /\ Cardinality(Live) <= MaxJobs => ChildrenBounded
  <2> SUFFICES ASSUME AllSound, Cardinality(Live) <= MaxJobs PROVE ChildrenBounded
    OBVIOUS
  <2>1. /\ Cardinality(Alive \ Escaped) <= Cardinality(Live)
        /\ Cardinality(Alive \ Escaped) \in Nat
    BY EscapedSound, LiveFinite, FS_Subset, FS_CardinalityType
  <2> QED BY <2>1, EscapedSound, LiveFinite, JobsAssumption DEF ChildrenBounded
<1> QED BY <1>1, <1>2, <1>3, AlwaysSound, PTL DEF Spec

-----------------------------------------------------------------------------
\* The readers.  An iterator follows one job and is not ahead of it; parked,
\* it has read everything there is.
ReaderRecord == [on : SUBSET Job, at : Nat, parked : BOOLEAN, done : BOOLEAN]

ReaderSound(r) ==
    /\ r \in ReaderRecord
    /\ r.on = {} => r.at = 0 /\ ~r.parked
    /\ \A j, k \in r.on : j = k
    /\ \A j \in r.on : /\ r.at <= job[j].outputBytes
                       /\ r.parked => r.at = job[j].outputBytes /\ ~job[j].settled

ReadersSound ==
    /\ reader \in [Consumer -> ReaderRecord]
    /\ \A c \in Consumer : ReaderSound(reader[c])

\* What an iterator sees of the jobs does not change.
Quiet == \A k \in Job : /\ job'[k].outputBytes = job[k].outputBytes
                         /\ job'[k].settled = job[k].settled

LEMMA QuietUpdate ==
    ASSUME AllSound, NEW j \in Job, NEW K, job' = [job EXCEPT ![j] = K],
           K.outputBytes = job[j].outputBytes, K.settled = job[j].settled
    PROVE  Quiet
  BY DEF Quiet, AllSound

LEMMA SignalQuiet ==
    ASSUME NEW J \in JobRecord, NEW sig
    PROVE  /\ Signalled(J, sig).outputBytes = J.outputBytes
           /\ Signalled(J, sig).settled = J.settled
  BY DEF Signalled, JobRecord

LEMMA MarkQuiet ==
    ASSUME NEW J \in JobRecord, NEW for
    PROVE  /\ Killed(J) \in JobRecord /\ Killed(J).outputBytes = J.outputBytes
           /\ Killed(J).settled = J.settled
           /\ TimedOut(J) \in JobRecord /\ TimedOut(J).outputBytes = J.outputBytes
           /\ TimedOut(J).settled = J.settled
           /\ Escalated(J, for) \in JobRecord /\ Escalated(J, for).outputBytes = J.outputBytes
           /\ Escalated(J, for).settled = J.settled
  BY DEF Killed, TimedOut, Escalated, JobRecord

LEMMA FailedKeepsOutput ==
    ASSUME NEW J \in JobRecord
    PROVE  Failed(J).outputBytes = J.outputBytes
  BY DEF Failed, Settled, JobRecord

LEMMA DataGrows ==
    ASSUME NEW J \in JobRecord
    PROVE  /\ Grown(J).outputBytes = J.outputBytes + 1
           /\ Signalled(Capped(Grown(J)), "TERM").outputBytes = J.outputBytes + 1
           /\ Failed(Capped(Grown(J))).outputBytes = J.outputBytes + 1
  BY DEF Grown, Capped, Signalled, Failed, Settled, JobRecord

\* Chunks and the end of a job are the steps that wake its iterators.
Waking == \E jobs \in SUBSET Job :
             /\ Wake(jobs)
             /\ \A j \in jobs : job'[j].outputBytes >= job[j].outputBytes
             /\ \A k \in Job \ jobs : /\ job'[k].outputBytes = job[k].outputBytes
                                       /\ job'[k].settled = job[k].settled

LEMMA WakingOne ==
    ASSUME AllSound, NEW j \in Job, NEW K, job' = [job EXCEPT ![j] = K],
           K.outputBytes >= job[j].outputBytes, Wake({j})
    PROVE  Waking
<1>1. /\ \A k \in {j} : job'[k].outputBytes >= job[k].outputBytes
      /\ \A k \in Job \ {j} : job'[k] = job[k]
  BY DEF AllSound
<1> QED BY <1>1 DEF Waking

\* A handler that marks its job without touching what iterators see, and
\* signals: nothing is seen, or the refusal wakes the iterators.
LEMMA SignalsKinds ==
    ASSUME AllSound, NEW j \in Job, NEW K \in JobRecord, NEW sig, Signals(j, K, sig),
           K.outputBytes = job[j].outputBytes, K.settled = job[j].settled
    PROVE  (Quiet /\ UNCHANGED reader) \/ Waking
<1>1. job[j].outputBytes \in Nat  BY JobsAssumption DEF AllSound, JobRecord
<1>2. CASE job' = [job EXCEPT ![j] = Signalled(K, sig)] /\ UNCHANGED reader
  <2> DEFINE L == Signalled(K, sig)
  <2>1. L.outputBytes = job[j].outputBytes /\ L.settled = job[j].settled  BY SignalQuiet
  <2>2. job' = [job EXCEPT ![j] = L]  BY <1>2
  <2> HIDE DEF L
  <2> QED BY <1>2, <2>1, <2>2, QuietUpdate
<1>3. CASE job' = [job EXCEPT ![j] = Failed(K)] /\ Wake({j})
  <2> DEFINE L == Failed(K)
  <2>1. L.outputBytes >= job[j].outputBytes  BY <1>1, FailedKeepsOutput
  <2>2. job' = [job EXCEPT ![j] = L]  BY <1>3
  <2> HIDE DEF L
  <2> QED BY <1>3, <2>1, <2>2, WakingOne
<1> QED BY <1>2, <1>3 DEF Signals

LEMMA StepKinds ==
    ASSUME AllSound, [Next]_vars
    PROVE  \/ Quiet /\ UNCHANGED reader
           \/ Waking
           \/ \E c \in Consumer, j \in Job : Iterate(c, j) \/ Pull(c, j)
<1>1. /\ job \in [Job -> JobRecord] /\ \A k \in Job : Sound(k, job[k])
      /\ \A k \in Job : job[k].outputBytes \in Nat
  BY JobsAssumption DEF AllSound, JobRecord
<1>2. CASE UNCHANGED vars  BY <1>2 DEF Quiet, vars
<1>3. ASSUME NEW j \in Job, NEW exists \in BOOLEAN, Spawn(j, exists)
      PROVE  Quiet /\ UNCHANGED reader
  <2>1. job[j].outputBytes = 0 /\ ~job[j].settled /\ job[j].settled \in BOOLEAN
    BY <1>1, <1>3 DEF Spawn, Spawned, Sound, JobRecord
  <2>2. Started(exists).outputBytes = 0 /\ Started(exists).settled = FALSE
    BY DEF Started, NewJob
  <2> QED BY <1>3, <2>1, <2>2, QuietUpdate DEF Spawn
<1>4. ASSUME NEW j \in Job, SpawnError(j) PROVE Waking
  <2> DEFINE L == Failed(job[j])
  <2>1. L.outputBytes >= job[j].outputBytes  BY <1>1, FailedKeepsOutput
  <2>2. job' = [job EXCEPT ![j] = L] /\ Wake({j})  BY <1>4 DEF SpawnError
  <2> HIDE DEF L
  <2> QED BY <2>1, <2>2, WakingOne
<1>5. ASSUME NEW j \in Job, OnData(j) PROVE Waking
  <2>1. PICK K : job' = [job EXCEPT ![j] = K] /\ K.outputBytes = job[j].outputBytes + 1 /\ Wake({j})
    BY <1>1, <1>5, DataGrows DEF OnData
  <2>2. K.outputBytes >= job[j].outputBytes  BY <1>1, <2>1
  <2> QED BY <2>1, <2>2, WakingOne
<1>6. ASSUME NEW j \in Job, OnRuntimeExceeded(j) PROVE (Quiet /\ UNCHANGED reader) \/ Waking
  BY <1>1, <1>6, MarkQuiet, SignalsKinds DEF OnRuntimeExceeded
<1>7. ASSUME NEW j \in Job, Kill(j) PROVE (Quiet /\ UNCHANGED reader) \/ Waking
  BY <1>1, <1>7, MarkQuiet, SignalsKinds DEF Kill
<1>8. ASSUME NEW j \in Job, NEW for \in {"limit", "kill"}, Escalate(j, for)
      PROVE  (Quiet /\ UNCHANGED reader) \/ Waking
  BY <1>1, <1>8, MarkQuiet, SignalsKinds DEF Escalate
<1>9. ASSUME NEW j \in Job, Close(j) PROVE Waking
  <2>1. ASSUME NEW status PROVE
          [Settled(job[j]) EXCEPT !.closed = TRUE, !.status = status].outputBytes
             = job[j].outputBytes
    BY <1>1 DEF Settled, JobRecord
  <2>2. PICK status : /\ job' = [job EXCEPT ![j] = [Settled(job[j]) EXCEPT !.closed = TRUE,
                                                                        !.status = status]]
                      /\ Wake({j})
    BY <1>9 DEF Close, Closed
  <2> DEFINE L == [Settled(job[j]) EXCEPT !.closed = TRUE, !.status = status]
  <2>3. L.outputBytes >= job[j].outputBytes  BY <1>1, <2>1
  <2>4. job' = [job EXCEPT ![j] = L]  BY <2>2
  <2> HIDE DEF L
  <2> QED BY <2>2, <2>3, <2>4, WakingOne
<1>10. ASSUME NEW j \in Job, Die(j) \/ Leave(j) PROVE Quiet /\ UNCHANGED reader
  <2>1. PICK how \in {"code", "signal"}, kept \in BOOLEAN : End(j, how, kept)
    BY <1>10 DEF Die, Leave
  <2> DEFINE K == [job[j] EXCEPT !.child = "dead", !.ended = how, !.piped = kept]
  <2>2. K.outputBytes = job[j].outputBytes /\ K.settled = job[j].settled
    BY <1>1 DEF JobRecord
  <2> QED BY <2>1, <2>2, QuietUpdate DEF End
<1>11. ASSUME NEW j \in Job, Unpipe(j) PROVE Quiet /\ UNCHANGED reader
  <2> DEFINE K == [job[j] EXCEPT !.piped = FALSE]
  <2>1. job' = [job EXCEPT ![j] = K] /\ UNCHANGED reader  BY <1>11 DEF Unpipe
  <2>2. K.outputBytes = job[j].outputBytes /\ K.settled = job[j].settled
    BY <1>1 DEF JobRecord
  <2> QED BY <2>1, <2>2, QuietUpdate
<1>12. ASSUME KillAll PROVE Waking
  <2>1. PICK refusing \in SUBSET {j \in Live : Refusable(j)} :
          /\ job' = [j \in Job |->
                       IF j \in refusing THEN Failed(Killed(job[j]))
                       ELSE IF j \in Live THEN Signalled(Killed(job[j]), "TERM") ELSE job[j]]
          /\ Wake(refusing)
    BY <1>12 DEF KillAll
  <2>2. refusing \in SUBSET Job  BY <2>1 DEF Live
  <2>3. \A j \in refusing : job'[j].outputBytes >= job[j].outputBytes
    <3> TAKE j \in refusing
    <3>1. job'[j] = Failed(Killed(job[j]))  BY <2>1, <2>2
    <3>2. Killed(job[j]) \in JobRecord /\ Killed(job[j]).outputBytes = job[j].outputBytes
      BY <1>1, <2>2, MarkQuiet
    <3>3. Failed(Killed(job[j])).outputBytes = job[j].outputBytes  BY <3>2, FailedKeepsOutput
    <3> QED BY <1>1, <2>2, <3>1, <3>3
  <2>4. \A k \in Job \ refusing : /\ job'[k].outputBytes = job[k].outputBytes
                                   /\ job'[k].settled = job[k].settled
    <3> TAKE k \in Job \ refusing
    <3>1. CASE k \in Live
      <4>1. job'[k] = Signalled(Killed(job[k]), "TERM")  BY <2>1, <3>1
      <4>2. /\ Killed(job[k]) \in JobRecord /\ Killed(job[k]).outputBytes = job[k].outputBytes
            /\ Killed(job[k]).settled = job[k].settled
        BY <1>1, MarkQuiet
      <4> QED BY <4>1, <4>2, SignalQuiet
    <3>2. CASE k \notin Live  BY <2>1, <3>2
    <3> QED BY <3>1, <3>2
  <2> QED BY <2>1, <2>2, <2>3, <2>4 DEF Waking
<1> QED
  BY <1>2, <1>3, <1>4, <1>5, <1>6, <1>7, <1>8, <1>9, <1>10, <1>11, <1>12 DEF Next

LEMMA PulledKeeps ==
    ASSUME NEW r, ReaderSound(r), NEW j \in r.on, job[j].outputBytes \in Nat, ~r.parked
    PROVE  ReaderSound(Pulled(r, job[j]))
<1>1. CASE r.at < job[j].outputBytes
  BY <1>1 DEF Pulled, ReaderSound, ReaderRecord
<1>2. CASE ~(r.at < job[j].outputBytes)
  <2>1. r.at = job[j].outputBytes  BY <1>2 DEF ReaderSound, ReaderRecord
  <2>2. CASE job[j].settled
    <3>1. Pulled(r, job[j]) = [r EXCEPT !.done = TRUE]  BY <2>1, <2>2 DEF Pulled
    <3> QED BY <3>1 DEF ReaderSound, ReaderRecord
  <2>3. CASE ~job[j].settled
    <3>1. Pulled(r, job[j]) = [r EXCEPT !.parked = TRUE]  BY <2>1, <2>3 DEF Pulled
    <3> QED BY <2>1, <2>3, <3>1 DEF ReaderSound, ReaderRecord
  <2> QED BY <2>2, <2>3
<1> QED BY <1>1, <1>2

LEMMA ReadersStep ==
    ASSUME AllSound, ReadersSound, [Next]_vars
    PROVE  ReadersSound'
<1>1. \A k \in Job : job[k].outputBytes \in Nat
  BY JobsAssumption DEF AllSound, JobRecord
<1>2. CASE Quiet /\ UNCHANGED reader
  BY <1>2 DEF Quiet, ReadersSound, ReaderSound, ReaderRecord
<1>3. CASE Waking
  <2>1. PICK jobs \in SUBSET Job :
             /\ Wake(jobs)
             /\ \A j \in jobs : job'[j].outputBytes >= job[j].outputBytes
             /\ \A k \in Job \ jobs : /\ job'[k].outputBytes = job[k].outputBytes
                                       /\ job'[k].settled = job[k].settled
    BY <1>3 DEF Waking
  <2>2. \A j \in Job : job'[j].outputBytes \in Nat
    BY SoundStep, JobsAssumption DEF AllSound, JobRecord
  <2>3. \A c \in Consumer : ReaderSound(reader[c])'
    <3> SUFFICES ASSUME NEW c \in Consumer PROVE ReaderSound(reader[c])'
      OBVIOUS
    <3>1. reader[c] \in ReaderRecord /\ ReaderSound(reader[c])
      BY DEF ReadersSound
    <3>2. CASE reader[c].on \cap jobs # {}
      <4>1. reader'[c] = [reader[c] EXCEPT !.parked = FALSE]  BY <2>1, <3>2 DEF Wake
      <4>2. \A k \in reader[c].on : k \in jobs  BY <3>1, <3>2 DEF ReaderSound
      <4>3. /\ reader'[c] \in ReaderRecord /\ ~reader'[c].parked
            /\ reader'[c].on = reader[c].on /\ reader'[c].at = reader[c].at
        BY <3>1, <4>1 DEF ReaderRecord
      <4>4. \A k \in reader[c].on : reader[c].at <= job'[k].outputBytes
        <5> TAKE k \in reader[c].on
        <5>1. reader[c].at \in Nat /\ reader[c].at <= job[k].outputBytes
          BY <3>1 DEF ReaderSound, ReaderRecord
        <5> QED BY <1>1, <2>1, <2>2, <4>2, <5>1
      <4> QED BY <3>1, <4>3, <4>4 DEF ReaderSound, ReaderRecord
    <3>3. CASE reader[c].on \cap jobs = {}
      <4>1. reader'[c] = reader[c]  BY <2>1, <3>3 DEF Wake
      <4>2. \A k \in reader[c].on : /\ job'[k].outputBytes = job[k].outputBytes
                                    /\ job'[k].settled = job[k].settled
        BY <2>1, <3>1, <3>3 DEF ReaderRecord
      <4> QED BY <3>1, <4>1, <4>2 DEF ReaderSound, ReaderRecord
    <3> QED BY <3>2, <3>3
  <2>4. reader' \in [Consumer -> ReaderRecord]
    <3>1. \A c \in Consumer : reader'[c] \in ReaderRecord  BY <2>3 DEF ReaderSound, ReaderRecord
    <3> QED BY <2>1, <3>1 DEF Wake
  <2> QED BY <2>3, <2>4 DEF ReadersSound
<1>4. ASSUME NEW c \in Consumer, NEW j \in Job, Iterate(c, j) PROVE ReadersSound'
  BY <1>1, <1>4 DEF Iterate, ReadersSound, ReaderSound, ReaderRecord
<1>5. ASSUME NEW c \in Consumer, NEW j \in Job, Pull(c, j) PROVE ReadersSound'
  <2>1. ReaderSound(Pulled(reader[c], job[j])) /\ Pulled(reader[c], job[j]) \in ReaderRecord
    BY <1>1, <1>5, PulledKeeps DEF Pull, ReadersSound, ReaderSound, ReaderRecord
  <2> QED BY <1>5, <2>1 DEF Pull, ReadersSound, ReaderSound, ReaderRecord
<1> QED BY <1>2, <1>3, <1>4, <1>5, StepKinds

LEMMA AlwaysReadersSound == Spec => []ReadersSound
<1>1. Init => ReadersSound
  BY DEF Init, ReadersSound, ReaderSound, ReaderRecord, Idle
<1> QED BY <1>1, ReadersStep, AlwaysSound, PTL DEF Spec

\* No wake-up is lost: an iterator parked on a job has read all of its output,
\* and the job has not ended (push and close wake, iterate parks last).
THEOREM NoWakeupLost == Spec => []NoLostWakeup
<1>1. ReadersSound => NoLostWakeup
  BY DEF ReadersSound, ReaderSound, NoLostWakeup
<1> QED BY <1>1, AlwaysReadersSound, PTL

\* Every variable keeps its type; the output kept never passes the cap by more
\* than the chunk that reached it (onData).
THEOREM TypeCorrect == Spec => []TypeOK
<1>1. AllSound /\ ReadersSound => TypeOK
  <2> SUFFICES ASSUME AllSound, ReadersSound, NEW c \in Consumer
               PROVE  reader[c].at \in 0 .. MaxOutput + 1
    BY DEF AllSound, ReadersSound, TypeOK, ReaderRecord
  <2>1. reader[c].on # {} => \E j \in Job : reader[c].at <= job[j].outputBytes
    BY DEF ReadersSound, ReaderSound, ReaderRecord
  <2>2. \A j \in Job : job[j].outputBytes \in 0 .. MaxOutput + 1
    BY DEF AllSound, JobRecord
  <2>3. reader[c].at \in Nat /\ (reader[c].on = {} => reader[c].at = 0)
    BY DEF ReadersSound, ReaderSound, ReaderRecord
  <2> QED BY <2>1, <2>2, <2>3, JobsAssumption
<1> QED BY <1>1, AlwaysSound, AlwaysReadersSound, PTL
===============================================================================
