----------------------------- MODULE EngineRuns -----------------------------
(***************************************************************************)
(* Runs of one engine behind the daemon: the registry of runs (RunManager, *)
(* packages/server/src/runs.ts), the orchestration primitives that drive   *)
(* the lanes of a run (packages/core/src/orchestrate/orchestrator.ts), the *)
(* bus that numbers and merges their chunks (core/src/bus.ts), the tree of *)
(* cancel scopes (core/src/cancel.ts) and the event log.                   *)
(*                                                                         *)
(* A lane is a generator: a pull is outstanding ("working") until the      *)
(* provider yields a chunk, which the bus numbers at once ("ready"); the   *)
(* merge takes any ready chunk, the pump persists it, pushes it to the     *)
(* queue the clients replay, and only then pulls that lane again.  What a  *)
(* provider streams is StreamPipeline's subject: here text, then one       *)
(* terminal chunk.                                                         *)
(***************************************************************************)
EXTENDS Integers, Sequences, FiniteSets, SequencesExt, FiniteSetsExt

CONSTANTS
    Run,            \* requests to start a run
    KindsOf(_),     \* the primitives a request may ask for
    Lanes,          \* backends of a multi-lane run, stages of a chain
    Optional,       \* stages a chain goes on without
    Gated,          \* stages behind a confirm gate
    MaxText(_, _),  \* bound: text chunks a lane of a run streams before its end
    MaxActive,      \* maxConcurrentRuns
    Waits,          \* requests whose session makes start wait for the store
    JudgeThrows     \* may the judge throw?

Kinds == {"single", "compare", "first", "best", "consensus", "chain"}

ASSUME EngineAssumption ==
    /\ IsFiniteSet(Run) /\ \A r \in Run : KindsOf(r) \subseteq Kinds
    /\ Lanes \in Nat \ {0} /\ Optional \subseteq 1..Lanes /\ Gated \subseteq 1..Lanes
    /\ \A r \in Run, l \in 1..Lanes : MaxText(r, l) \in Nat
    /\ MaxActive \in Nat \ {0} /\ Waits \subseteq Run /\ JudgeThrows \in BOOLEAN

VARIABLES
    run,    \* run -> its record in the registry and its dispatch
    lane,   \* run -> lane -> the generator of that lane
    overtaken   \* requests that waited for their session past the cap check
                \* while another run was registered (history)

vars == <<run, lane, overtaken>>

NoChunk == [seq |-> -1, lane |-> 0, chunk |-> "none"]
NewRun  == [state |-> "none", kind |-> "none", scope |-> "live", pump |-> "idle",
            stamped |-> 0, held |-> NoChunk, log |-> <<>>, winner |-> 0, partial |-> FALSE]
NewLane == [at |-> "unstarted", out |-> NoChunk, sent |-> 0, end |-> "none",
            scope |-> "live"]

LaneSet   == 1..Lanes
LanesOf(k) == IF k = "single" THEN {1} ELSE LaneSet
Terminal  == {"ok", "error", "cancelled"}
Active    == {r \in Run : run[r].state = "running"}
Resolving == {r \in Run : run[r].state = "resolving"}
Lane(r)   == LanesOf(run[r].kind)
Started(r) == {l \in Lane(r) : lane[r][l].at # "unstarted"}

-----------------------------------------------------------------------------
\* CancelScope.cancel on the scope of a run: itself, then every lane below.
\* (The reason is carried along and decides nothing here.)
Cancelled(ls) ==
    [l \in DOMAIN ls |-> IF ls[l].at = "unstarted" THEN ls[l]
                         ELSE [ls[l] EXCEPT !.scope = "cancelled"]]
\* (Mutant: the lanes are not told.)
CancelOnlyRoot(r) ==
    /\ run[r].scope = "live"
    /\ run' = [run EXCEPT ![r].scope = "cancelled"]
    /\ UNCHANGED lane
CancelRun(r) ==
    /\ run[r].scope = "live"
    /\ run' = [run EXCEPT ![r].scope = "cancelled"]
    /\ lane' = [lane EXCEPT ![r] = Cancelled(@)]

\* A lane scope made from a cancelled scope starts cancelled (the constructor).
StartLane(l, parent) == [l EXCEPT !.at = "working", !.scope = parent]

Init ==
    /\ run = [r \in Run |-> NewRun]
    /\ lane = [r \in Run |-> [l \in LaneSet |-> NewLane]]
    /\ overtaken = {}

\* start: refuse beyond the cap, then resolve the session.  An await that does
\* not really wait lets no other request in before the run is registered.
Alone(r) == \A q \in Resolving : q = r \/ q \in Waits

\* (Mutant: one run beyond the cap.)
FullLate == Cardinality(Active) > MaxActive
Full == Cardinality(Active) >= MaxActive

Request(r, k) ==
    /\ run[r].state = "none" /\ k \in KindsOf(r) /\ Alone(r)
    /\ run' = IF Full THEN [run EXCEPT ![r].state = "refused"]
              ELSE [run EXCEPT ![r].state = "resolving", ![r].kind = k]
    /\ UNCHANGED <<lane, overtaken>>

\* The rest of start: dispatch, register.  A body the primitives refuse (no
\* such provider) leaves no record.
Register(r) ==
    /\ run[r].state = "resolving" /\ Alone(r)
    /\ run' = [run EXCEPT ![r].state = "running"]
    /\ lane' = [lane EXCEPT ![r] =
                  [l \in LaneSet |-> IF l \in Lane(r) /\ run[r].kind # "chain"
                                     THEN StartLane(@[l], "live") ELSE @[l]]]
    /\ overtaken' = overtaken \cup (Resolving \ {r})
BadRequest(r) ==
    /\ run[r].state = "resolving" /\ Alone(r)
    /\ run' = [run EXCEPT ![r].state = "refused"]
    /\ UNCHANGED <<lane, overtaken>>

-----------------------------------------------------------------------------
Rejected(r) == run' = [run EXCEPT ![r].state = "error", ![r].pump = "failed"]

\* publish: the provider yields a chunk and the bus numbers it.  The bus has
\* one counter for all runs; what matters is the order it gives those of one.
Yield(r, l, chunk) ==
    /\ lane[r][l].at = "working" /\ lane[r][l].end = "none"
    /\ chunk = "text" => lane[r][l].sent < MaxText(r, l)
    /\ chunk = "cancelled" => lane[r][l].scope # "live"
    /\ LET sending == [lane[r][l] EXCEPT !.at = "ready", !.sent = @ + 1,
                  !.out = [seq |-> run[r].stamped, lane |-> l, chunk |-> chunk],
                  !.end = IF chunk \in Terminal THEN chunk ELSE "none"]
       IN  lane' = [lane EXCEPT ![r][l] = sending]
    /\ run' = [run EXCEPT ![r].stamped = @ + 1]
    /\ UNCHANGED overtaken

\* The generator returns after its terminal chunk.
Return(r, l) ==
    /\ lane[r][l].at = "working" /\ lane[r][l].end # "none"
    /\ lane' = [lane EXCEPT ![r][l].at = "ended"]
    /\ UNCHANGED <<run, overtaken>>

\* The callback that approves a switch of provider throws; only a single run
\* has providers to switch to.  The pump rejects and no terminal chunk is shown.
Throw(r) ==
    /\ run[r].state = "running" /\ run[r].kind = "single" /\ run[r].pump = "idle"
    /\ lane[r][1].at = "working" /\ lane[r][1].end = "none"
    /\ lane' = [lane EXCEPT ![r][1].at = "ended"]
    /\ Rejected(r)
    /\ UNCHANGED overtaken

\* merge: whichever pull has settled is yielded to the pump.
Merge(r, l) ==
    /\ run[r].state = "running" /\ run[r].pump = "idle"
    /\ lane[r][l].at = "ready"
    /\ run' = [run EXCEPT ![r].held = lane[r][l].out, ![r].pump = "persisting"]
    /\ lane' = [lane EXCEPT ![r][l].at = "yielded", ![r][l].out = NoChunk]
    /\ UNCHANGED overtaken

\* onLaneTerminal of race "first": the first lane seen to end well wins.
\* (Mutant: an early failure wins the race.)
WinnerAfterAny(r, c) ==
    IF run[r].kind = "first" /\ run[r].winner = 0 /\ c.chunk \in Terminal
    THEN c.lane ELSE run[r].winner
WinnerAfter(r, c) ==
    IF run[r].kind = "first" /\ run[r].winner = 0 /\ c.chunk = "ok"
    THEN c.lane ELSE run[r].winner

\* The pump resumes after the append (which may fail: it is only reported),
\* pushes the chunk, cancels the losers of a race just won, and pulls the lane
\* again.
\* (Mutant: what a cancelled run still streams is not shown.)
PersistUnlessCancelled(r) ==
    /\ run[r].pump = "persisting"
    /\ LET c == run[r].held
           w == WinnerAfter(r, c)
           again == [lane[r] EXCEPT ![c.lane].at = "working"]
       IN  /\ run' = [run EXCEPT ![r].winner = w,
                        ![r].log = IF run[r].scope = "live" THEN Append(@, c) ELSE @,
                        ![r].held = NoChunk, ![r].pump = "idle"]
           /\ lane' = [lane EXCEPT ![r] =
                         IF w = run[r].winner THEN again
                         ELSE [Cancelled(again) EXCEPT ![w] = again[w]]]
    /\ UNCHANGED overtaken
Persist(r) ==
    /\ run[r].pump = "persisting"
    /\ LET c == run[r].held
           w == WinnerAfter(r, c)
           again == [lane[r] EXCEPT ![c.lane].at = "working"]
       IN  /\ run' = [run EXCEPT ![r].log = Append(@, c), ![r].winner = w,
                                 ![r].held = NoChunk, ![r].pump = "idle"]
           /\ lane' = [lane EXCEPT ![r] =
                         IF w = run[r].winner THEN again
                         ELSE [Cancelled(again) EXCEPT ![w] = again[w]]]
    /\ UNCHANGED overtaken

\* runChain: the next stage, or the end of the chain.  A gate the user declines
\* and a stage that fails stop it, unless the stage is optional.
ChainGoesOn(r) ==
    LET n == Cardinality(Started(r))
    IN  /\ \A l \in Started(r) : lane[r][l].at = "ended"
        /\ n < Lanes
        /\ IF n = 0 THEN TRUE ELSE lane[r][n].end = "ok" \/ n \in Optional
NextStage(r) ==
    /\ run[r].state = "running" /\ run[r].kind = "chain" /\ run[r].pump = "idle"
    /\ ChainGoesOn(r)
    /\ LET n == Cardinality(Started(r)) + 1
       IN  lane' = [lane EXCEPT ![r][n] = StartLane(@, run[r].scope)]
    /\ UNCHANGED <<run, overtaken>>

Ok(r) == {l \in Lane(r) : lane[r][l].end = "ok"}

\* What a lane set that has drained settles into, by primitive.  record.state
\* follows from the outcome; a judge that throws rejects it.
Settled(r, winner, partial) ==
    run' = [run EXCEPT ![r] = [@ EXCEPT
              !.state = IF Ok(r) # {} THEN "done" ELSE "error",
              !.pump = "settled", !.winner = winner, !.partial = partial]]

SettleSingle(r) ==
    /\ run[r].kind = "single"
    /\ Settled(r, 1, Ok(r) = {})
SettleCompare(r) ==
    /\ run[r].kind = "compare"
    /\ Settled(r, 0, Ok(r) # Lane(r))
SettleFirst(r) ==
    /\ run[r].kind = "first"
    /\ Settled(r, run[r].winner, run[r].winner = 0)
\* With a judge; one lane that ended well is enough for "best", "consensus"
\* needs a quorum of two.
SettleJudged(r) ==
    /\ run[r].kind \in {"best", "consensus"}
    /\ IF Cardinality(Ok(r)) < (IF run[r].kind = "best" THEN 1 ELSE 2)
       THEN Settled(r, 0, TRUE)
       ELSE \/ \E w \in Ok(r) : Settled(r, w, Ok(r) # Lane(r))
            \/ JudgeThrows /\ Rejected(r)
SettleChain(r) ==
    /\ run[r].kind = "chain"
    /\ ~ChainGoesOn(r) \/ Cardinality(Started(r)) + 1 \in Gated
    /\ Settled(r, IF Ok(r) = {} THEN 0 ELSE Max(Ok(r)), Ok(r) # Lane(r))

Settle(r) ==
    /\ run[r].state = "running" /\ run[r].pump = "idle"
    /\ run[r].kind = "chain" \/ Started(r) = Lane(r)
    /\ \A l \in Started(r) : lane[r][l].at = "ended"
    /\ \/ SettleSingle(r) \/ SettleCompare(r) \/ SettleFirst(r)
       \/ SettleJudged(r) \/ SettleChain(r)
    /\ UNCHANGED <<lane, overtaken>>

-----------------------------------------------------------------------------
\* The client cancels the run, or its wall-clock budget is spent.
Cancel(r) ==
    /\ run[r].state = "running" /\ CancelRun(r)
    /\ UNCHANGED overtaken
Timeout(r) ==
    /\ run[r].state = "running" /\ CancelRun(r)
    /\ UNCHANGED overtaken

\* race "best": the lanes still running are cut off after bestTimeoutMs.
BestTimeout(r) ==
    /\ run[r].state = "running" /\ run[r].kind = "best"
    /\ \E l \in Started(r) : lane[r][l].scope = "live"
    /\ lane' = [lane EXCEPT ![r] = Cancelled(@)]
    /\ UNCHANGED <<run, overtaken>>

Next ==
    \E r \in Run :
       \/ \E k \in Kinds : Request(r, k)
       \/ Register(r) \/ BadRequest(r)
       \/ \E l \in LaneSet : \/ \E c \in Terminal \cup {"text"} : Yield(r, l, c)
                             \/ Return(r, l)
                             \/ Merge(r, l)
       \/ Throw(r)
       \/ Persist(r) \/ NextStage(r) \/ Settle(r)
       \/ Cancel(r) \/ Timeout(r) \/ BestTimeout(r)

Spec == Init /\ [][Next]_vars

\* The pump's own steps go on; a provider answers at the latest when its scope
\* is cancelled; the wall-clock timer fires.  Nothing says that a provider whose
\* scope is live ever answers.
Stops(r, l) == /\ lane[r][l].scope # "live"
               /\ \E c \in Terminal \cup {"text"} : Yield(r, l, c)
Pump(r) == \/ \E l \in LaneSet : Merge(r, l)
           \/ Persist(r)
           \/ NextStage(r)
           \/ Settle(r)
Fairness == \A r \in Run :
    /\ WF_vars(Register(r)) /\ WF_vars(Pump(r)) /\ WF_vars(Timeout(r))
    /\ \A l \in LaneSet : WF_vars(Stops(r, l)) /\ WF_vars(Return(r, l))
FairSpec == Spec /\ Fairness

-----------------------------------------------------------------------------
Delivered(r, l) == {n \in DOMAIN run[r].log : run[r].log[n].lane = l}
Held(r, l)  == run[r].held.lane = l
Ready(r, l) == lane[r][l].at = "ready"
OnWay(r, l) == (IF Held(r, l) THEN 1 ELSE 0) + (IF Ready(r, l) THEN 1 ELSE 0)

\* Merging by a race over pulls loses nothing and repeats nothing: what a
\* client replays of a lane, and what is on its way, are the chunks of that
\* lane in the order the bus numbered them, and nothing is on its way once the
\* run has settled (mergeAsyncIterables, publish, driveConcurrent).
DeliveredOnce ==
    \A r \in Run, l \in LaneSet :
       /\ Cardinality(Delivered(r, l)) + OnWay(r, l) = lane[r][l].sent
       /\ \A m, n \in Delivered(r, l) : m < n => run[r].log[m].seq < run[r].log[n].seq
       /\ \A n \in Delivered(r, l) :
             /\ Held(r, l) => run[r].log[n].seq < run[r].held.seq
             /\ Ready(r, l) => run[r].log[n].seq < lane[r][l].out.seq
       /\ Held(r, l) /\ Ready(r, l) => run[r].held.seq < lane[r][l].out.seq
       /\ run[r].state \in {"done", "error"} => OnWay(r, l) = 0

\* The state the registry reports, the winner and the lanes agree with what
\* the clients of the run were shown, whatever was cancelled or timed out in
\* the meantime; a race that is won leaves no loser running unwarned.
SeenOk(r) == {c.lane : c \in {d \in Range(run[r].log) : d.chunk = "ok"}}
OutcomeIsWhatWasSeen ==
    \A r \in Run :
       /\ run[r].state = "done" => SeenOk(r) # {}
       /\ run[r].state = "error" => run[r].pump = "failed" \/ SeenOk(r) = {}
       /\ run[r].winner # 0 /\ run[r].kind # "single" => run[r].winner \in SeenOk(r)
       /\ run[r].kind = "first" /\ run[r].winner # 0 =>
             \A l \in LaneSet \ {run[r].winner} : lane[r][l].scope # "live"
       /\ run[r].pump = "settled" /\ run[r].kind \in {"compare", "chain"} =>
             (run[r].partial <=> SeenOk(r) # Lane(r))
       /\ run[r].pump = "settled" /\ run[r].kind = "consensus" =>
             (run[r].partial <=> SeenOk(r) # Lane(r) \/ Lanes < 2)

\* "Max runs allowed in the running state at once" (RunManagerLimits) is kept
\* by every run whose start was not overtaken, and is kept altogether where no
\* session waits: only a request that waited for its session past the cap
\* check, while another run was registered, may come on top.
ActiveBounded ==
    /\ Cardinality(Active \ overtaken) <= MaxActive
    /\ overtaken \subseteq Waits

\* A run never holds its slot for ever, whatever its providers do.
RunReaped == \A r \in Run : run[r].state = "running" ~> run[r].state \in {"done", "error"}
==============================================================================
