--------------------------- MODULE EngineRunsProofs ---------------------------
(***************************************************************************)
(* Proofs about EngineRuns, for any number of requests, lanes and chunks.  *)
(* The inductive invariant says of each run where its chunks are (Placed), *)
(* how far it has come (Staged) and that its outcome agrees with what was  *)
(* shown (Judged); of the registry, that each request past the cap check   *)
(* was counted (Capped).  Every action is reduced to what it makes of one  *)
(* lane (Lane...), then of one run (Good...), then of all (Moved).         *)
(***************************************************************************)
EXTENDS EngineRuns, SequenceTheorems, FiniteSetTheorems, WellFoundedInduction, TLAPS

Sent == [seq : Nat, lane : LaneSet, chunk : {"text"} \cup Terminal]
RunRecord ==
    [state : {"none", "resolving", "running", "refused", "done", "error"},
     kind : Kinds \cup {"none"}, scope : {"live", "cancelled"},
     pump : {"idle", "persisting", "settled", "failed"}, stamped : Nat,
     held : Sent \cup {NoChunk}, log : Seq(Sent), winner : 0 .. Lanes, partial : BOOLEAN]
LaneRecord ==
    [at : {"unstarted", "working", "ready", "yielded", "ended"}, out : Sent \cup {NoChunk},
     sent : Nat, end : {"none"} \cup Terminal, scope : {"live", "cancelled"}]

TypeOK ==
    /\ run \in [Run -> RunRecord]
    /\ lane \in [Run -> [LaneSet -> LaneRecord]]
    /\ overtaken \in SUBSET Run

-----------------------------------------------------------------------------
\* Sets of natural numbers: the least and the greatest element.
LEMMA Least == \A S \in SUBSET Nat : S # {} => \E m \in S : \A k \in S : m <= k
<1> SUFFICES ASSUME NEW S \in SUBSET Nat, S # {} PROVE \E m \in S : \A k \in S : m <= k
  OBVIOUS
<1> DEFINE R == {ss \in Nat \X Nat : ss[1] < ss[2]}
<1>1. IsWellFoundedOn(R, Nat)
  BY NatLessThanWellFounded DEF OpToRel
<1>2. PICK m \in S : \A k \in S : ~(<<k, m>> \in R)
  BY <1>1, WFMin
<1>3. \A k \in S : ~(k < m)
  BY <1>2
<1> QED BY <1>3

LEMMA Greatest ==
    ASSUME NEW b \in Nat, NEW S \in SUBSET (0 .. b), S # {}
    PROVE  Max(S) \in S /\ \A k \in S : k <= Max(S)
<1> DEFINE D == {b - k : k \in S}
<1>1. D \in SUBSET Nat /\ D # {}
  <2>1. \A k \in S : b - k \in Nat
    OBVIOUS
  <2> QED BY <2>1
<1>2. PICK d \in D : \A e \in D : d <= e
  BY <1>1, Least
<1>3. PICK m \in S : d = b - m
  OBVIOUS
<1>4. \A k \in S : m >= k
  <2>1. ASSUME NEW k \in S PROVE m >= k
    <3>1. d <= b - k
      BY <1>2
    <3> QED BY <1>3, <3>1
  <2> QED BY <2>1
<1>5. Max(S) \in S /\ \A k \in S : Max(S) >= k
  BY <1>4 DEF Max
<1> QED BY <1>5

-----------------------------------------------------------------------------
\* One step is a step of one run; the others stay as they are.
RunStep(r) ==
    \/ \E k \in Kinds : Request(r, k)
    \/ Register(r) \/ BadRequest(r)
    \/ \E l \in LaneSet : \/ \E c \in Terminal \cup {"text"} : Yield(r, l, c)
                          \/ Return(r, l)
                          \/ Merge(r, l)
    \/ Throw(r)
    \/ Persist(r) \/ NextStage(r) \/ Settle(r)
    \/ Cancel(r) \/ Timeout(r) \/ BestTimeout(r)

\* What a step makes of the record u and the lanes ls of its run.
Becomes(r, u, ls) == run' = [run EXCEPT ![r] = u] /\ lane' = [lane EXCEPT ![r] = ls]

LEMMA NoChunkIsNotSent == NoChunk \notin Sent /\ \A c \in Sent : c.lane \in LaneSet /\ c.lane # 0
  BY DEF Sent, NoChunk, LaneSet

LEMMA Counting == /\ Active \subseteq Run /\ Resolving \subseteq Run
                  /\ IsFiniteSet(Active) /\ IsFiniteSet(Resolving)
                  /\ Cardinality(Active) \in Nat /\ Cardinality(Resolving) \in Nat
<1>1. Active \subseteq Run /\ Resolving \subseteq Run
  BY DEF Active, Resolving
<1>2. IsFiniteSet(Active) /\ IsFiniteSet(Resolving)
  BY <1>1, FS_Subset, EngineAssumption
<1> QED BY <1>1, <1>2, FS_CardinalityType

\* A request that is registered leaves those behind that still wait.
Overtakes(r) == overtaken' = overtaken \cup (Resolving \ {r}) /\ Resolving \ {r} \subseteq Waits

LEMMA StartEffects ==
    ASSUME TypeOK, NEW r \in Run, NEW u, NEW ls, u = run[r], ls = lane[r]
    PROVE  /\ \A k \in Kinds : Request(r, k) =>
                 /\ u.state = "none"
                 /\ \/ Becomes(r, [u EXCEPT !.state = "refused"], ls) /\ overtaken' = overtaken
                    \/ /\ Cardinality(Active) < MaxActive
                       /\ Becomes(r, [u EXCEPT !.state = "resolving", !.kind = k], ls)
                       /\ overtaken' = overtaken
           /\ Register(r) =>
                 /\ u.state = "resolving" /\ Overtakes(r)
                 /\ Becomes(r, [u EXCEPT !.state = "running"],
                               [l \in LaneSet |-> IF l \in LanesOf(u.kind) /\ u.kind # "chain"
                                                  THEN StartLane(ls[l], "live") ELSE ls[l]])
           /\ BadRequest(r) =>
                 /\ u.state = "resolving" /\ overtaken' = overtaken
                 /\ Becomes(r, [u EXCEPT !.state = "refused"], ls)
<1> USE DEF Becomes
<1>1. run = [run EXCEPT ![r] = u] /\ lane = [lane EXCEPT ![r] = ls]
  BY DEF TypeOK
<1>2. ASSUME NEW k \in Kinds, Request(r, k)
      PROVE  /\ u.state = "none"
             /\ \/ Becomes(r, [u EXCEPT !.state = "refused"], ls) /\ overtaken' = overtaken
                \/ /\ Cardinality(Active) < MaxActive
                   /\ Becomes(r, [u EXCEPT !.state = "resolving", !.kind = k], ls)
                   /\ overtaken' = overtaken
  <2>1. CASE Cardinality(Active) >= MaxActive
    BY <1>1, <1>2, <2>1 DEF Request, Full, TypeOK
  <2>2. CASE ~(Cardinality(Active) >= MaxActive)
    <3>1. Cardinality(Active) < MaxActive
      BY <2>2, Counting, EngineAssumption
    <3>2. run' = [run EXCEPT ![r].state = "resolving", ![r].kind = k] /\ lane' = lane
          /\ overtaken' = overtaken /\ u.state = "none"
      BY <1>2, <2>2 DEF Request, Full
    <3>3. run' = [run EXCEPT ![r] = [u EXCEPT !.state = "resolving", !.kind = k]]
      BY <3>2, Zenon DEF TypeOK
    <3> QED BY <1>1, <3>1, <3>2, <3>3
  <2> QED BY <2>1, <2>2
<1>3. ASSUME Register(r)
      PROVE  /\ u.state = "resolving" /\ Overtakes(r)
             /\ Becomes(r, [u EXCEPT !.state = "running"],
                           [l \in LaneSet |-> IF l \in LanesOf(u.kind) /\ u.kind # "chain"
                                              THEN StartLane(ls[l], "live") ELSE ls[l]])
  BY <1>1, <1>3 DEF Register, Alone, Overtakes, TypeOK, Lane
<1>4. ASSUME BadRequest(r)
      PROVE  /\ u.state = "resolving" /\ overtaken' = overtaken
             /\ Becomes(r, [u EXCEPT !.state = "refused"], ls)
  BY <1>1, <1>4 DEF BadRequest, TypeOK
<1> QED BY <1>2, <1>3, <1>4

\* The lanes: a chunk is sent, the lane ends, a chunk is merged.
LaneBecomes(r, l, u, x) == Becomes(r, u, [lane[r] EXCEPT ![l] = x])
Chunk(r, l, c) == [seq |-> run[r].stamped, lane |-> l, chunk |-> c]
EndAfter(c) == IF c \in Terminal THEN c ELSE "none"

LEMMA YieldEffects ==
    ASSUME TypeOK, NEW r \in Run, NEW l \in LaneSet, NEW c \in Terminal \cup {"text"}, Yield(r, l, c)
    PROVE  /\ lane[r][l].at = "working" /\ lane[r][l].end = "none"
           /\ LaneBecomes(r, l, [run[r] EXCEPT !.stamped = run[r].stamped + 1],
                 [lane[r][l] EXCEPT !.at = "ready", !.sent = lane[r][l].sent + 1,
                               !.out = Chunk(r, l, c), !.end = EndAfter(c)])
<1> USE DEF Becomes, LaneBecomes
<1>0. run = [run EXCEPT ![r] = run[r]] /\ 1 \in LaneSet /\ lane[r] \in [LaneSet -> LaneRecord]
  BY EngineAssumption DEF TypeOK, LaneSet
<1>1. lane[r][l].at = "working" /\ lane[r][l].end = "none" /\ run' = [run EXCEPT ![r].stamped = @ + 1]
      /\ lane' = [lane EXCEPT ![r][l] = [lane[r][l] EXCEPT !.at = "ready", !.sent = @ + 1,
                          !.out = [seq |-> run[r].stamped, lane |-> l, chunk |-> c],
                          !.end = IF c \in Terminal THEN c ELSE "none"]]
  BY DEF Yield
<1>2. run' = [run EXCEPT ![r] = [run[r] EXCEPT !.stamped = run[r].stamped + 1]]
  BY <1>1, Zenon
<1>3. lane' = [lane EXCEPT ![r] = [lane[r] EXCEPT ![l] =
          [lane[r][l] EXCEPT !.at = "ready", !.sent = lane[r][l].sent + 1,
              !.out = [seq |-> run[r].stamped, lane |-> l, chunk |-> c],
              !.end = IF c \in Terminal THEN c ELSE "none"]]]
  BY <1>0, <1>1, Zenon DEF TypeOK
<1> QED BY <1>1, <1>2, <1>3 DEF Chunk, EndAfter

LEMMA ReturnEffects ==
    ASSUME TypeOK, NEW r \in Run, NEW l \in LaneSet, Return(r, l)
    PROVE  /\ lane[r][l].at = "working" /\ lane[r][l].end # "none"
           /\ LaneBecomes(r, l, run[r], [lane[r][l] EXCEPT !.at = "ended"])
<1> USE DEF Becomes, LaneBecomes
<1>0. run = [run EXCEPT ![r] = run[r]] /\ 1 \in LaneSet /\ lane[r] \in [LaneSet -> LaneRecord]
  BY EngineAssumption DEF TypeOK, LaneSet
<1>1. lane[r][l].at = "working" /\ lane[r][l].end # "none" /\ run' = run
      /\ lane' = [lane EXCEPT ![r][l].at = "ended"]
  BY DEF Return
<1>2. lane' = [lane EXCEPT ![r] = [lane[r] EXCEPT ![l] = [lane[r][l] EXCEPT !.at = "ended"]]]
  BY <1>1, Zenon
<1> QED BY <1>0, <1>1, <1>2

LEMMA ThrowEffects ==
    ASSUME TypeOK, NEW r \in Run, Throw(r)
    PROVE  /\ run[r].state = "running" /\ run[r].kind = "single" /\ run[r].pump = "idle"
           /\ lane[r][1].at = "working" /\ lane[r][1].end = "none"
           /\ LaneBecomes(r, 1, [run[r] EXCEPT !.state = "error", !.pump = "failed"],
                                [lane[r][1] EXCEPT !.at = "ended"])
<1> USE DEF Becomes, LaneBecomes
<1>0. run = [run EXCEPT ![r] = run[r]] /\ 1 \in LaneSet /\ lane[r] \in [LaneSet -> LaneRecord]
  BY EngineAssumption DEF TypeOK, LaneSet
<1>1. /\ run[r].state = "running" /\ run[r].kind = "single" /\ run[r].pump = "idle"
      /\ lane[r][1].at = "working" /\ lane[r][1].end = "none"
      /\ run' = [run EXCEPT ![r].state = "error", ![r].pump = "failed"]
      /\ lane' = [lane EXCEPT ![r][1].at = "ended"]
  BY DEF Throw, Rejected
<1>2. run' = [run EXCEPT ![r] = [run[r] EXCEPT !.state = "error", !.pump = "failed"]]
  BY <1>1, Zenon DEF TypeOK
<1>3. lane' = [lane EXCEPT ![r] = [lane[r] EXCEPT ![1] = [lane[r][1] EXCEPT !.at = "ended"]]]
  BY <1>1, Zenon
<1> QED BY <1>1, <1>2, <1>3

LEMMA MergeEffects ==
    ASSUME TypeOK, NEW r \in Run, NEW l \in LaneSet, Merge(r, l)
    PROVE  /\ run[r].state = "running" /\ run[r].pump = "idle" /\ lane[r][l].at = "ready"
           /\ LaneBecomes(r, l, [run[r] EXCEPT !.held = lane[r][l].out, !.pump = "persisting"],
                                [lane[r][l] EXCEPT !.at = "yielded", !.out = NoChunk])
<1> USE DEF Becomes, LaneBecomes
<1>0. run = [run EXCEPT ![r] = run[r]] /\ 1 \in LaneSet /\ lane[r] \in [LaneSet -> LaneRecord]
  BY EngineAssumption DEF TypeOK, LaneSet
<1>1. /\ run[r].state = "running" /\ run[r].pump = "idle" /\ lane[r][l].at = "ready"
      /\ run' = [run EXCEPT ![r].held = lane[r][l].out, ![r].pump = "persisting"]
      /\ lane' = [lane EXCEPT ![r][l].at = "yielded", ![r][l].out = NoChunk]
  BY DEF Merge
<1>2. run' = [run EXCEPT ![r] = [run[r] EXCEPT !.held = lane[r][l].out, !.pump = "persisting"]]
  BY <1>1, Zenon DEF TypeOK
<1>3. lane' = [lane EXCEPT ![r] = [lane[r] EXCEPT ![l] =
                  [lane[r][l] EXCEPT !.at = "yielded", !.out = NoChunk]]]
  BY <1>0, <1>1, Zenon DEF TypeOK
<1> QED BY <1>1, <1>2, <1>3

-----------------------------------------------------------------------------
\* What holds of a lane x, number l of its run, given the log lg of the run, the
\* chunk h its pump holds and the counter s.  A lane that has yielded is the one
\* the pump holds a chunk of.
Of(lg, l) == {n \in DOMAIN lg : lg[n].lane = l}
Sits(h, l, x) ==
    /\ x.at = "yielded" <=> h.lane = l
    /\ x.at = "ready" => x.out \in Sent /\ x.out.lane = l
    /\ x.at = "unstarted" => x = NewLane

\* A terminal chunk shown or on its way is the end of its lane, and an end is
\* shown or on its way.
Tells(lg, h, l, x) ==
    /\ \A n \in Of(lg, l) : lg[n].chunk \in Terminal => x.end = lg[n].chunk
    /\ h.lane = l /\ h.chunk \in Terminal => x.end = h.chunk
    /\ x.at = "ready" /\ x.out.chunk \in Terminal => x.end = x.out.chunk
    /\ x.end # "none" => \/ \E n \in Of(lg, l) : lg[n].chunk = x.end
                         \/ h.lane = l /\ h.chunk = x.end
                         \/ x.at = "ready" /\ x.out.chunk = x.end

\* All that was sent is shown or on its way, in the order of the numbers.
Counts(lg, h, s, l, x) ==
    /\ x.at = "ready" => x.out.seq < s
    /\ Cardinality(Of(lg, l)) + (IF h.lane = l THEN 1 ELSE 0)
          + (IF x.at = "ready" THEN 1 ELSE 0) = x.sent
    /\ \A m, n \in Of(lg, l) : m < n => lg[m].seq < lg[n].seq
    /\ \A n \in Of(lg, l) : /\ h.lane = l => lg[n].seq < h.seq
                            /\ x.at = "ready" => lg[n].seq < x.out.seq
LaneOk(lg, h, s, l, x) == Sits(h, l, x) /\ Tells(lg, h, l, x) /\ Counts(lg, h, s, l, x)

\* What holds of the record u and the lanes ls of every run: where its chunks
\* are, how far it has come (stages start in their order), and that its outcome
\* agrees with what was shown.
IsUp(x) == x.at # "unstarted"
InOrder(ls) == \E c \in 0 .. Lanes : {l \in LaneSet : IsUp(ls[l])} = 1 .. c

Placed(u, ls) ==
    /\ \A l \in LaneSet : LaneOk(u.log, u.held, u.stamped, l, ls[l])
    /\ \A n \in DOMAIN u.log : u.log[n].seq < u.stamped
    /\ u.held.seq < u.stamped
    /\ u.pump = "persisting" <=> u.held # NoChunk

Staged(u, ls) ==
    /\ \A l \in LaneSet \ LanesOf(u.kind) : ~IsUp(ls[l])
    /\ u.state \in {"none", "resolving", "refused"} =>
          /\ u.log = <<>> /\ u.winner = 0 /\ u.pump = "idle"
          /\ \A l \in LaneSet : ~IsUp(ls[l])
    /\ u.state = "running" => /\ u.pump \in {"idle", "persisting"}
                              /\ u.kind # "chain" => \A l \in LanesOf(u.kind) : IsUp(ls[l])
                              /\ u.kind = "chain" => InOrder(ls)
    /\ u.state = "done" => u.pump = "settled"
    /\ u.state = "error" => u.pump \in {"settled", "failed"}
    /\ u.state \in {"done", "error"} => \A l \in LaneSet : ls[l].at \in {"unstarted", "ended"}

ShownOk(lg) == {l \in LaneSet : \E n \in Of(lg, l) : lg[n].chunk = "ok"}
Judged(u, ls) ==
    /\ u.state = "done" => ShownOk(u.log) # {}
    /\ u.state = "error" => u.pump = "failed" \/ ShownOk(u.log) = {}
    /\ u.winner # 0 /\ u.kind # "single" => u.winner \in ShownOk(u.log)
    /\ u.kind = "first" /\ u.winner # 0 => \A l \in LaneSet \ {u.winner} : ls[l].scope # "live"
    /\ u.pump = "settled" /\ u.kind \in {"compare", "chain"} =>
          (u.partial <=> ShownOk(u.log) # LanesOf(u.kind))
    /\ u.pump = "settled" /\ u.kind = "consensus" =>
          (u.partial <=> ShownOk(u.log) # LanesOf(u.kind) \/ Lanes < 2)

Good(u, ls) ==
    /\ u \in RunRecord /\ ls \in [LaneSet -> LaneRecord]
    /\ Placed(u, ls) /\ Staged(u, ls) /\ Judged(u, ls)

\* A request that waits for its session and was not overtaken still has a slot.
Capped ==
    /\ ActiveBounded
    /\ Resolving \ overtaken # {} => Cardinality(Active) < MaxActive

IInv == /\ run \in [Run -> RunRecord] /\ lane \in [Run -> [LaneSet -> LaneRecord]]
        /\ overtaken \in SUBSET Run
        /\ \A r \in Run : Good(run[r], lane[r])
        /\ Capped

-----------------------------------------------------------------------------
\* What each kind of step makes of one lane.
LEMMA LogTyped ==
    ASSUME NEW lg \in Seq(Sent)
    PROVE  \A n \in DOMAIN lg : lg[n] \in Sent /\ lg[n].seq \in Nat
<1>1. \A n \in DOMAIN lg : lg[n] \in Sent
  OBVIOUS
<1> QED BY <1>1 DEF Sent

LEMMA OfIsFinite ==
    ASSUME NEW lg \in Seq(Sent), NEW l
    PROVE  /\ Of(lg, l) \subseteq 1 .. Len(lg) /\ IsFiniteSet(Of(lg, l))
           /\ Cardinality(Of(lg, l)) \in Nat
<1>1. Of(lg, l) \subseteq 1 .. Len(lg)
  BY DEF Of
<1>2. IsFiniteSet(1 .. Len(lg))
  <2>1. Len(lg) \in Int /\ 1 \in Int
    OBVIOUS
  <2> QED BY <2>1, FS_Interval
<1>3. IsFiniteSet(Of(lg, l))
  BY <1>1, <1>2, FS_Subset
<1> QED BY <1>1, <1>3, FS_CardinalityType

LEMMA LaneKept ==
    ASSUME NEW lg, NEW h, NEW s \in Nat, NEW t \in Nat, NEW l \in LaneSet,
           NEW x \in LaneRecord, NEW y \in LaneRecord, LaneOk(lg, h, s, l, x), s <= t,
           y.at = x.at, y.out = x.out, y.sent = x.sent, y.end = x.end, ~IsUp(x) => y = x
    PROVE  LaneOk(lg, h, t, l, y)
<1>1. Sits(h, l, y)
  BY DEF LaneOk, Sits, IsUp
<1>2. Tells(lg, h, l, y)
  BY DEF LaneOk, Tells
<1>3. Counts(lg, h, t, l, y)
  <2>1. y.at = "ready" => y.out.seq < t
    BY DEF LaneOk, Sits, Counts, Sent
  <2> QED BY <2>1 DEF LaneOk, Counts
<1> QED BY <1>1, <1>2, <1>3 DEF LaneOk

LEMMA LaneStarts ==
    ASSUME NEW lg, NEW h, NEW s, NEW l \in LaneSet, NEW p,
           NEW x, LaneOk(lg, h, s, l, x), ~IsUp(x)
    PROVE  LaneOk(lg, h, s, l, StartLane(x, p))
<1> DEFINE y == StartLane(x, p)
<1>1. x = NewLane /\ h.lane # l
  BY DEF LaneOk, Sits, IsUp
<1>2. y.at = "working" /\ y.out = x.out /\ y.sent = x.sent /\ y.end = x.end
  BY <1>1 DEF StartLane, NewLane
<1> HIDE DEF y
<1>3. Sits(h, l, y)
  BY <1>1, <1>2 DEF Sits
<1>4. Tells(lg, h, l, y)
  BY <1>1, <1>2 DEF LaneOk, Tells, NewLane
<1>5. Counts(lg, h, s, l, y)
  BY <1>1, <1>2 DEF LaneOk, Counts, NewLane
<1> QED BY <1>3, <1>4, <1>5 DEF LaneOk, y

LEMMA LaneYields ==
    ASSUME NEW lg \in Seq(Sent), NEW h, NEW s \in Nat, NEW l \in LaneSet,
           NEW c \in Terminal \cup {"text"}, NEW x \in LaneRecord, NEW y \in LaneRecord,
           LaneOk(lg, h, s, l, x), \A n \in DOMAIN lg : lg[n].seq < s,
           x.at = "working", x.end = "none",
           y.at = "ready", y.sent = x.sent + 1, y.end = EndAfter(c),
           y.out = [seq |-> s, lane |-> l, chunk |-> c]
    PROVE  LaneOk(lg, h, s + 1, l, y)
<1>1. h.lane # l
  BY DEF LaneOk, Sits
<1>2. y.out.seq = s /\ y.out.lane = l /\ y.out.chunk = c /\ y.out \in Sent
  BY DEF Sent
<1>3. \A n \in Of(lg, l) : ~(lg[n].chunk \in Terminal)
  BY DEF LaneOk, Tells, Terminal
<1>4. Sits(h, l, y)
  BY <1>1, <1>2 DEF Sits
<1>5. Tells(lg, h, l, y)
  BY <1>1, <1>2, <1>3 DEF Tells, EndAfter
<1>6. Counts(lg, h, s + 1, l, y)
  <2>1. Cardinality(Of(lg, l)) + 0 + 0 = x.sent /\ \A n \in Of(lg, l) : lg[n].seq < s
    BY <1>1 DEF LaneOk, Counts, Of
  <2>2. Cardinality(Of(lg, l)) + 0 + 1 = y.sent
    BY <2>1, OfIsFinite
  <2>3. \A m, n \in Of(lg, l) : m < n => lg[m].seq < lg[n].seq
    BY DEF LaneOk, Counts
  <2> QED BY <1>1, <1>2, <2>1, <2>2, <2>3 DEF Counts
<1> QED BY <1>4, <1>5, <1>6 DEF LaneOk

LEMMA LaneEnds ==
    ASSUME NEW lg, NEW h, NEW s, NEW l \in LaneSet, NEW x \in LaneRecord, NEW y \in LaneRecord,
           LaneOk(lg, h, s, l, x), x.at = "working",
           y.at = "ended", y.out = x.out, y.sent = x.sent, y.end = x.end
    PROVE  LaneOk(lg, h, s, l, y)
<1>1. Sits(h, l, y)
  BY DEF LaneOk, Sits
<1>2. Tells(lg, h, l, y)
  BY DEF LaneOk, Tells
<1>3. Counts(lg, h, s, l, y)
  BY DEF LaneOk, Counts
<1> QED BY <1>1, <1>2, <1>3 DEF LaneOk

LEMMA LaneMerged ==
    ASSUME NEW lg \in Seq(Sent), NEW s, NEW l \in LaneSet,
           NEW x \in LaneRecord, NEW y \in LaneRecord, LaneOk(lg, NoChunk, s, l, x), x.at = "ready",
           y.at = "yielded", y.sent = x.sent, y.end = x.end
    PROVE  LaneOk(lg, x.out, s, l, y)
<1>1. x.out \in Sent /\ x.out.lane = l /\ NoChunk.lane # l
  BY NoChunkIsNotSent DEF LaneOk, Sits, NoChunk, LaneSet
<1>2. Sits(x.out, l, y)
  BY <1>1 DEF Sits
<1>3. Tells(lg, x.out, l, y)
  BY <1>1 DEF LaneOk, Tells
<1>4. Counts(lg, x.out, s, l, y)
  <2>1. Cardinality(Of(lg, l)) + 0 + 1 = y.sent
    BY <1>1 DEF LaneOk, Counts
  <2>2. Cardinality(Of(lg, l)) + 1 + 0 = y.sent
    BY <2>1, OfIsFinite
  <2>3. \A n \in Of(lg, l) : lg[n].seq < x.out.seq
    BY DEF LaneOk, Counts
  <2> QED BY <1>1, <2>2, <2>3 DEF LaneOk, Counts
<1> QED BY <1>2, <1>3, <1>4 DEF LaneOk

LEMMA LaneBeside ==
    ASSUME NEW lg, NEW h, NEW s, NEW l \in LaneSet, NEW x,
           LaneOk(lg, NoChunk, s, l, x), h.lane # l
    PROVE  LaneOk(lg, h, s, l, x)
<1>1. NoChunk.lane # l
  BY DEF NoChunk, LaneSet
<1>2. Sits(h, l, x)
  BY <1>1 DEF LaneOk, Sits
<1>3. Tells(lg, h, l, x)
  BY <1>1 DEF LaneOk, Tells
<1>4. Counts(lg, h, s, l, x)
  BY <1>1 DEF LaneOk, Counts
<1> QED BY <1>2, <1>3, <1>4 DEF LaneOk

\* The pump shows the chunk it holds: to its own lane, which it pulls again, and
\* to the others.
LEMMA LanePulled ==
    ASSUME NEW lg \in Seq(Sent), NEW h \in Sent, NEW s, NEW l \in LaneSet,
           NEW x \in LaneRecord, NEW y \in LaneRecord, LaneOk(lg, h, s, l, x), h.lane = l,
           y.at = "working", y.sent = x.sent, y.end = x.end
    PROVE  LaneOk(Append(lg, h), NoChunk, s, l, y)
<1> DEFINE k == Len(lg) + 1
           mg == Append(lg, h)
<1>1. x.at = "yielded" /\ NoChunk.lane # l
  BY DEF LaneOk, Sits, NoChunk, LaneSet
<1>2. /\ k \in Nat /\ DOMAIN mg = 1 .. k /\ DOMAIN lg = 1 .. Len(lg) /\ mg[k] = h
      /\ \A n \in DOMAIN lg : mg[n] = lg[n]
  OBVIOUS
<1> HIDE DEF mg
<1>3. Of(mg, l) = Of(lg, l) \cup {k} /\ k \notin Of(lg, l) /\ \A n \in Of(lg, l) : mg[n] = lg[n] /\ n < k
  <2>1. \A n \in DOMAIN mg : n \in DOMAIN lg \/ n = k
    BY <1>2
  <2> QED BY <1>2, <2>1 DEF Of
<1>4. Sits(NoChunk, l, y)
  BY <1>1 DEF Sits
<1>5. Tells(mg, NoChunk, l, y)
  BY <1>1, <1>2, <1>3 DEF LaneOk, Tells
<1>6. Counts(mg, NoChunk, s, l, y)
  <2>1. Cardinality(Of(lg, l)) + 1 + 0 = x.sent
    BY <1>1 DEF LaneOk, Counts
  <2>2. Cardinality(Of(mg, l)) = Cardinality(Of(lg, l)) + 1
    BY <1>3, OfIsFinite, FS_AddElement, ZenonT(60)
  <2>3. Cardinality(Of(mg, l)) + 0 + 0 = y.sent
    BY <2>1, <2>2, OfIsFinite
  <2>4. \A m, n \in Of(lg, l) : m < n => lg[m].seq < lg[n].seq
    BY DEF LaneOk, Counts
  <2>5. \A n \in Of(lg, l) : lg[n].seq < h.seq
    BY DEF LaneOk, Counts
  <2>6. \A m, n \in Of(mg, l) : m < n => mg[m].seq < mg[n].seq
    BY <1>2, <1>3, <2>4, <2>5 DEF Of
  <2> QED BY <1>1, <2>3, <2>6 DEF Counts
<1> QED BY <1>4, <1>5, <1>6 DEF LaneOk, mg

LEMMA LanePassed ==
    ASSUME NEW lg \in Seq(Sent), NEW h \in Sent, NEW s \in Nat, NEW l \in LaneSet,
           NEW x \in LaneRecord, NEW y \in LaneRecord, LaneOk(lg, h, s, l, x), h.lane # l,
           y.at = x.at, y.out = x.out, y.sent = x.sent, y.end = x.end, ~IsUp(x) => y = x
    PROVE  LaneOk(Append(lg, h), NoChunk, s, l, y)
<1> DEFINE k == Len(lg) + 1
           mg == Append(lg, h)
<1>1. x.at # "yielded" /\ NoChunk.lane # l
  BY DEF LaneOk, Sits, NoChunk, LaneSet
<1>2. /\ k \in Nat /\ DOMAIN mg = 1 .. k /\ DOMAIN lg = 1 .. Len(lg) /\ mg[k] = h
      /\ \A n \in DOMAIN lg : mg[n] = lg[n]
  OBVIOUS
<1> HIDE DEF mg
<1>3. Of(mg, l) = Of(lg, l) /\ \A n \in Of(lg, l) : mg[n] = lg[n]
  <2>1. \A n \in DOMAIN mg : n \in DOMAIN lg \/ n = k
    BY <1>2
  <2> QED BY <1>2, <2>1 DEF Of
<1>4. Sits(NoChunk, l, y)
  BY <1>1 DEF LaneOk, Sits, IsUp
<1>5. Tells(mg, NoChunk, l, y)
  BY <1>1, <1>3 DEF LaneOk, Tells
<1>6. Counts(mg, NoChunk, s, l, y)
  BY <1>1, <1>3 DEF LaneOk, Counts
<1> QED BY <1>4, <1>5, <1>6 DEF LaneOk, mg

\* A run none of whose lanes has a chunk on its way was shown all their ends.
LEMMA AllShown ==
    ASSUME NEW u \in RunRecord, NEW ls \in [LaneSet -> LaneRecord], Placed(u, ls),
           \A l \in LaneSet : ls[l].at \notin {"ready", "yielded"}
    PROVE  ShownOk(u.log) = {l \in LaneSet : ls[l].end = "ok"}
<1>1. ASSUME NEW l \in LaneSet
      PROVE  (\E n \in Of(u.log, l) : u.log[n].chunk = "ok") <=> ls[l].end = "ok"
  <2>1. Tells(u.log, u.held, l, ls[l]) /\ u.held.lane # l
    BY DEF Placed, LaneOk, Sits
  <2> QED BY <2>1 DEF Tells, Terminal
<1> QED BY <1>1 DEF ShownOk

\* Chunks already shown are shown for ever.
LEMMA MoreShown ==
    ASSUME NEW lg \in Seq(Sent), NEW h \in Sent
    PROVE  /\ ShownOk(lg) \subseteq ShownOk(Append(lg, h))
           /\ h.chunk = "ok" => h.lane \in ShownOk(Append(lg, h))
<1> DEFINE k == Len(lg) + 1
           mg == Append(lg, h)
<1>1. /\ DOMAIN mg = 1 .. k /\ DOMAIN lg = 1 .. Len(lg) /\ mg[k] = h /\ k \in DOMAIN mg
      /\ \A n \in DOMAIN lg : n \in DOMAIN mg /\ mg[n] = lg[n]
  OBVIOUS
<1>2. h.lane \in LaneSet
  BY NoChunkIsNotSent
<1> HIDE DEF mg
<1> QED BY <1>1, <1>2 DEF ShownOk, Of, mg

-----------------------------------------------------------------------------
\* What each kind of step makes of one run: its record u and its lanes ls.
LEMMA JudgedKept ==
    ASSUME NEW u, NEW ls, NEW v, NEW ms, Judged(u, ls),
           v.log = u.log, v.winner = u.winner, v.kind = u.kind, v.state = u.state,
           \/ v.pump = u.pump /\ v.partial = u.partial
           \/ v.state = "running" /\ v.pump # "settled",
           \A l \in LaneSet : ls[l].scope # "live" => ms[l].scope # "live" \/ u.kind = "chain"
    PROVE  Judged(v, ms)
<1> ShownOk(v.log) = ShownOk(u.log)
  OBVIOUS
<1> QED BY DEF Judged

LEMMA GoodBefore ==
    ASSUME NEW u, NEW ls, Good(u, ls), u.state \in {"none", "resolving"}, NEW v,
           NEW k \in Kinds \cup {"none"}, NEW s \in {"resolving", "refused"},
           v = [u EXCEPT !.state = s, !.kind = k]
    PROVE  Good(v, ls)
<1>1. /\ v \in RunRecord /\ v.state = s /\ v.kind = k /\ v.log = u.log /\ v.held = u.held
      /\ v.pump = u.pump /\ v.winner = u.winner /\ v.stamped = u.stamped
  BY DEF Good, RunRecord
<1>2. /\ u.log = <<>> /\ u.winner = 0 /\ u.pump = "idle"
      /\ \A l \in LaneSet : ~IsUp(ls[l])
  BY DEF Good, Staged
<1>3. Placed(v, ls)
  BY <1>1 DEF Good, Placed
<1>4. Staged(v, ls)
  BY <1>1, <1>2 DEF Staged
<1>5. Judged(v, ls)
  BY <1>1, <1>2 DEF Judged
<1> QED BY <1>1, <1>3, <1>4, <1>5 DEF Good

LEMMA GoodRegistered ==
    ASSUME NEW u, NEW ls, Good(u, ls), u.state = "resolving", NEW v, NEW ms,
           v = [u EXCEPT !.state = "running"],
           ms = [l \in LaneSet |-> IF l \in LanesOf(u.kind) /\ u.kind # "chain"
                                   THEN StartLane(ls[l], "live") ELSE ls[l]]
    PROVE  Good(v, ms)
<1>1. /\ v \in RunRecord /\ v.state = "running" /\ v.kind = u.kind /\ v.log = u.log
      /\ v.held = u.held /\ v.pump = u.pump /\ v.winner = u.winner /\ v.stamped = u.stamped
  BY DEF Good, RunRecord
<1>2. /\ u.log = <<>> /\ u.winner = 0 /\ u.pump = "idle"
      /\ \A l \in LaneSet : ~IsUp(ls[l]) /\ LaneOk(u.log, u.held, u.stamped, l, ls[l])
                            /\ ls[l] \in LaneRecord
  BY DEF Good, Staged, Placed
<1>3. \A l \in LaneSet : /\ StartLane(ls[l], "live") \in LaneRecord
                         /\ IsUp(StartLane(ls[l], "live"))
                         /\ LaneOk(u.log, u.held, u.stamped, l, StartLane(ls[l], "live"))
  BY <1>2, LaneStarts DEF StartLane, LaneRecord, IsUp
<1>4. ms \in [LaneSet -> LaneRecord] /\ Placed(v, ms)
  <2>1. ms \in [LaneSet -> LaneRecord]
        /\ \A l \in LaneSet : LaneOk(u.log, u.held, u.stamped, l, ms[l])
    BY <1>2, <1>3
  <2> HIDE DEF LaneOk
  <2> QED BY <1>1, <2>1 DEF Good, Placed
<1>5. Staged(v, ms)
  <2>1. \A l \in LaneSet : IsUp(ms[l]) <=> l \in LanesOf(u.kind) /\ u.kind # "chain"
    BY <1>2, <1>3
  <2>2. u.kind = "chain" => InOrder(ms)
    <3>1. u.kind = "chain" => {l \in LaneSet : IsUp(ms[l])} = 1 .. 0
      BY <2>1
    <3> QED BY <3>1, EngineAssumption DEF InOrder
  <2>3. \A l \in LanesOf(u.kind) : l \in LaneSet
    BY EngineAssumption DEF LanesOf, LaneSet
  <2> QED BY <1>1, <1>2, <2>1, <2>2, <2>3 DEF Staged
<1>6. Judged(v, ms)
  BY <1>1, <1>2 DEF Judged
<1> QED BY <1>1, <1>4, <1>5, <1>6 DEF Good

\* One lane moves on; the record changes in its counter and in what it holds.
LEMMA GoodMoved ==
    ASSUME NEW u, NEW ls, Good(u, ls), NEW v \in RunRecord, NEW ms,
           NEW l \in LaneSet, NEW y \in LaneRecord, ms = [ls EXCEPT ![l] = y],
           IsUp(ls[l]), IsUp(y), y.scope = ls[l].scope,
           LaneOk(v.log, v.held, v.stamped, l, y),
           \A m \in LaneSet \ {l} : LaneOk(v.log, v.held, v.stamped, m, ls[m]),
           \A n \in DOMAIN v.log : v.log[n].seq < v.stamped, v.held.seq < v.stamped,
           v.pump = "persisting" <=> v.held # NoChunk,
           v.log = u.log, v.winner = u.winner, v.kind = u.kind, v.state = u.state,
           u.state = "running", v.pump \in {"idle", "persisting"}
    PROVE  Good(v, ms)
<1>1. ls \in [LaneSet -> LaneRecord] /\ ms \in [LaneSet -> LaneRecord]
      /\ ms[l] = y /\ \A m \in LaneSet \ {l} : ms[m] = ls[m]
  BY DEF Good
<1>2. Placed(v, ms)
  BY <1>1 DEF Placed
<1>3. \A m \in LaneSet : IsUp(ms[m]) <=> IsUp(ls[m])
  BY <1>1
<1>4. Staged(v, ms)
  <2>1. InOrder(ls) => InOrder(ms)
    <3>1. {m \in LaneSet : IsUp(ms[m])} = {m \in LaneSet : IsUp(ls[m])}
      BY <1>3
    <3> QED BY <3>1 DEF InOrder
  <2>2. LanesOf(u.kind) \subseteq LaneSet
    BY EngineAssumption DEF LanesOf, LaneSet
  <2> QED BY <1>3, <2>1, <2>2 DEF Good, Staged
<1>5. Judged(v, ms)
  <2>1. \A m \in LaneSet : ls[m].scope # "live" => ms[m].scope # "live"
    BY <1>1
  <2>2. v.state = "running" /\ v.pump # "settled"
    OBVIOUS
  <2>3. ShownOk(v.log) = ShownOk(u.log)
    OBVIOUS
  <2> QED BY <2>1, <2>2, <2>3 DEF Good, Judged
<1> QED BY <1>1, <1>2, <1>4, <1>5 DEF Good

\* A lane that is working belongs to a run that is running.
LEMMA RunningWhile ==
    ASSUME NEW u, NEW ls, Good(u, ls), NEW l \in LaneSet,
           ls[l].at \in {"working", "ready", "yielded"}
    PROVE  /\ u.state = "running" /\ u.pump \in {"idle", "persisting"}
           /\ IsUp(ls[l]) /\ ls[l] \in LaneRecord /\ u \in RunRecord
<1>1. u \in RunRecord /\ ls[l] \in LaneRecord /\ IsUp(ls[l])
  BY DEF Good, IsUp
<1>2. u.state \in {"none", "resolving", "running", "refused", "done", "error"}
  BY <1>1 DEF RunRecord
<1> QED BY <1>1, <1>2 DEF Good, Staged

LEMMA GoodYields ==
    ASSUME NEW u, NEW ls, Good(u, ls), NEW v, NEW ms, NEW l \in LaneSet,
           NEW c \in Terminal \cup {"text"}, NEW k,
           k = [seq |-> u.stamped, lane |-> l, chunk |-> c], ls[l].at = "working", ls[l].end = "none",
           v = [u EXCEPT !.stamped = u.stamped + 1],
           ms = [ls EXCEPT ![l] =
                   [ls[l] EXCEPT !.at = "ready", !.sent = ls[l].sent + 1,
                                 !.out = k, !.end = EndAfter(c)]]
    PROVE  Good(v, ms)
<1> DEFINE x == ls[l]
           y == [x EXCEPT !.at = "ready", !.sent = x.sent + 1,
                          !.out = k, !.end = EndAfter(c)]
<1>1. /\ u.state = "running" /\ u.pump \in {"idle", "persisting"} /\ IsUp(x) /\ x \in LaneRecord
      /\ u \in RunRecord
  BY RunningWhile
<1>2. /\ v \in RunRecord /\ v.stamped = u.stamped + 1 /\ v.log = u.log /\ v.held = u.held
      /\ v.winner = u.winner /\ v.kind = u.kind /\ v.state = u.state /\ v.pump = u.pump
      /\ u.stamped \in Nat /\ u.log \in Seq(Sent) /\ u.held \in Sent \cup {NoChunk}
  BY <1>1, SMTT(30) DEF RunRecord
<1>3. /\ y \in LaneRecord /\ y.at = "ready" /\ y.sent = x.sent + 1 /\ y.end = EndAfter(c)
      /\ y.out = [seq |-> u.stamped, lane |-> l, chunk |-> c] /\ y.scope = x.scope /\ IsUp(y)
  <2>1. k \in Sent
    BY <1>2 DEF Sent
  <2>2. EndAfter(c) \in {"none"} \cup Terminal /\ x.sent + 1 \in Nat
    BY <1>1 DEF EndAfter, LaneRecord
  <2> HIDE DEF x
  <2> QED BY <1>1, <2>1, <2>2 DEF LaneRecord, IsUp
<1>4. /\ \A m \in LaneSet : LaneOk(u.log, u.held, u.stamped, m, ls[m]) /\ ls[m] \in LaneRecord
      /\ \A n \in DOMAIN u.log : u.log[n].seq < u.stamped
      /\ u.held.seq < u.stamped
      /\ u.pump = "persisting" <=> u.held # NoChunk
  BY DEF Good, Placed
<1>5. ms = [ls EXCEPT ![l] = y]
  OBVIOUS
<1> HIDE DEF y, x
<1>6. LaneOk(v.log, v.held, v.stamped, l, y)
  <2>1. LaneOk(u.log, u.held, u.stamped, l, x) /\ x.at = "working" /\ x.end = "none"
    BY <1>4 DEF x
  <2>2. LaneOk(u.log, u.held, u.stamped + 1, l, y)
    BY <1>1, <1>2, <1>3, <1>4, <2>1, LaneYields
  <2> QED BY <1>2, <2>2
<1>7. \A m \in LaneSet \ {l} : LaneOk(v.log, v.held, v.stamped, m, ls[m])
  <2>1. ASSUME NEW m \in LaneSet PROVE LaneOk(u.log, u.held, u.stamped + 1, m, ls[m])
    <3>1. u.stamped \in Nat /\ u.stamped + 1 \in Nat /\ u.stamped <= u.stamped + 1
      BY <1>2
    <3> QED BY <1>4, <3>1, LaneKept
  <2> QED BY <1>2, <2>1
<1>8. (\A n \in DOMAIN v.log : v.log[n].seq < v.stamped) /\ v.held.seq < v.stamped
  <2>1. \A n \in DOMAIN u.log : u.log[n].seq \in Nat
    BY <1>2, LogTyped
  <2>2. u.held.seq \in Int
    BY <1>2 DEF Sent, NoChunk
  <2> QED BY <1>2, <1>4, <2>1, <2>2
<1>9. IsUp(ls[l]) /\ y.scope = ls[l].scope
  BY <1>1, <1>3 DEF x
<1>10. v.pump = "persisting" <=> v.held # NoChunk
  BY <1>2, <1>4
<1> QED BY <1>1, <1>2, <1>3, <1>5, <1>6, <1>7, <1>8, <1>9, <1>10, GoodMoved, Zenon

LEMMA GoodReturns ==
    ASSUME NEW u, NEW ls, Good(u, ls), NEW ms, NEW l \in LaneSet, ls[l].at = "working",
           ms = [ls EXCEPT ![l] = [ls[l] EXCEPT !.at = "ended"]]
    PROVE  Good(u, ms)
<1> DEFINE x == ls[l]
           y == [x EXCEPT !.at = "ended"]
<1>1. /\ u.state = "running" /\ u.pump \in {"idle", "persisting"} /\ IsUp(x) /\ x \in LaneRecord
      /\ u \in RunRecord
  BY RunningWhile
<1>2. /\ y \in LaneRecord /\ y.at = "ended" /\ y.sent = x.sent /\ y.end = x.end
      /\ y.out = x.out /\ y.scope = x.scope /\ IsUp(y)
  BY <1>1 DEF LaneRecord, IsUp
<1>3. /\ \A m \in LaneSet : LaneOk(u.log, u.held, u.stamped, m, ls[m])
      /\ \A n \in DOMAIN u.log : u.log[n].seq < u.stamped
      /\ u.held.seq < u.stamped
      /\ u.pump = "persisting" <=> u.held # NoChunk
  BY DEF Good, Placed
<1>4. ms = [ls EXCEPT ![l] = y]
  OBVIOUS
<1> HIDE DEF y
<1>5. LaneOk(u.log, u.held, u.stamped, l, y)
  BY <1>1, <1>2, <1>3, LaneEnds
<1> QED BY <1>1, <1>2, <1>3, <1>4, <1>5, GoodMoved

LEMMA GoodMerged ==
    ASSUME NEW u, NEW ls, Good(u, ls), NEW v, NEW ms, NEW l \in LaneSet, u.pump = "idle",
           ls[l].at = "ready", v = [u EXCEPT !.held = ls[l].out, !.pump = "persisting"],
           ms = [ls EXCEPT ![l] = [ls[l] EXCEPT !.at = "yielded", !.out = NoChunk]]
    PROVE  Good(v, ms)
<1> DEFINE x == ls[l]
           y == [x EXCEPT !.at = "yielded", !.out = NoChunk]
<1>1. /\ u.state = "running" /\ IsUp(x) /\ x \in LaneRecord /\ u \in RunRecord
  BY RunningWhile
<1>2. /\ \A m \in LaneSet : LaneOk(u.log, u.held, u.stamped, m, ls[m])
      /\ \A n \in DOMAIN u.log : u.log[n].seq < u.stamped
      /\ u.held = NoChunk
  BY DEF Good, Placed
<1>3. x.out \in Sent /\ x.out.lane = l /\ x.out.seq < u.stamped /\ x.out # NoChunk
  BY <1>2, NoChunkIsNotSent DEF LaneOk, Sits, Counts
<1>4. /\ v \in RunRecord /\ v.stamped = u.stamped /\ v.log = u.log /\ v.held = x.out
      /\ v.winner = u.winner /\ v.kind = u.kind /\ v.state = u.state /\ v.pump = "persisting"
  BY <1>1, <1>3 DEF RunRecord
<1>5. /\ y \in LaneRecord /\ y.at = "yielded" /\ y.sent = x.sent /\ y.end = x.end
      /\ y.scope = x.scope /\ IsUp(y)
  BY <1>1 DEF LaneRecord, IsUp
<1>6. ms = [ls EXCEPT ![l] = y] /\ x.at = "ready"
  OBVIOUS
<1>7. LaneOk(u.log, NoChunk, u.stamped, l, x) /\ u.log \in Seq(Sent)
  BY <1>1, <1>2 DEF RunRecord
<1> HIDE DEF y
<1>8. LaneOk(v.log, v.held, v.stamped, l, y)
  <2>1. LaneOk(u.log, x.out, u.stamped, l, y)
    BY <1>1, <1>5, <1>6, <1>7, LaneMerged
  <2> QED BY <1>4, <2>1
<1>9. \A m \in LaneSet \ {l} : LaneOk(v.log, v.held, v.stamped, m, ls[m])
  <2>1. ASSUME NEW m \in LaneSet \ {l} PROVE LaneOk(u.log, x.out, u.stamped, m, ls[m])
    BY <1>2, <1>3, LaneBeside
  <2> QED BY <1>4, <2>1
<1> QED BY <1>1, <1>2, <1>3, <1>4, <1>5, <1>6, <1>8, <1>9, GoodMoved

\* The run is over when none of its lanes has anything left to say.
Ended(ls) == \A l \in LaneSet : ls[l].at \in {"unstarted", "ended"}

LEMMA GoodRejected ==
    ASSUME NEW u, NEW ls, Good(u, ls), NEW v, Ended(ls), u.state = "running", u.pump = "idle",
           v = [u EXCEPT !.state = "error", !.pump = "failed"]
    PROVE  Good(v, ls)
<1>1. /\ v \in RunRecord /\ v.state = "error" /\ v.kind = u.kind /\ v.log = u.log
      /\ v.held = u.held /\ v.pump = "failed" /\ v.winner = u.winner /\ v.stamped = u.stamped
  BY DEF Good, RunRecord
<1>2. Placed(v, ls)
  BY <1>1 DEF Good, Placed
<1>3. Staged(v, ls)
  BY <1>1 DEF Good, Staged, Ended
<1>4. ShownOk(v.log) = ShownOk(u.log)
  BY <1>1
<1>5. Judged(v, ls)
  BY <1>1, <1>4 DEF Good, Judged
<1> QED BY <1>1, <1>2, <1>3, <1>5 DEF Good

LEMMA GoodThrown ==
    ASSUME NEW u, NEW ls, Good(u, ls), NEW v, NEW ms, u.kind = "single", u.pump = "idle",
           ls[1].at = "working", v = [u EXCEPT !.state = "error", !.pump = "failed"],
           ms = [ls EXCEPT ![1] = [ls[1] EXCEPT !.at = "ended"]]
    PROVE  Good(v, ms)
<1>1. 1 \in LaneSet
  BY EngineAssumption DEF LaneSet
<1>2. u.state = "running"
  BY <1>1, RunningWhile
<1>3. Good(u, ms)
  BY <1>1, GoodReturns
<1>4. Ended(ms)
  <2>1. ls \in [LaneSet -> LaneRecord] /\ \A l \in LaneSet \ {1} : ls[l].at = "unstarted"
    BY DEF Good, Staged, IsUp, LanesOf
  <2>2. ms[1].at = "ended" /\ \A l \in LaneSet \ {1} : ms[l] = ls[l]
    BY <1>1, <2>1 DEF LaneRecord
  <2> QED BY <2>1, <2>2 DEF Ended
<1> QED BY <1>2, <1>3, <1>4, GoodRejected

\* The outcome of a primitive: what the lanes that ended well amount to.
LEMMA GoodSettled ==
    ASSUME NEW u, NEW ls, Good(u, ls), NEW v, NEW ok, NEW w \in 0 .. Lanes, NEW p \in BOOLEAN,
           Ended(ls), u.state = "running", u.pump = "idle",
           ok = {l \in LanesOf(u.kind) : ls[l].end = "ok"},
           v = [u EXCEPT !.state = IF ok # {} THEN "done" ELSE "error",
                         !.pump = "settled", !.winner = w, !.partial = p],
           w # 0 /\ u.kind # "single" => w \in ok, u.kind = "first" => w = u.winner,
           u.kind \in {"compare", "chain"} => (p <=> ok # LanesOf(u.kind)),
           u.kind = "consensus" => (p <=> ok # LanesOf(u.kind) \/ Lanes < 2)
    PROVE  Good(v, ls)
<1>1. /\ v \in RunRecord /\ v.state = (IF ok # {} THEN "done" ELSE "error") /\ v.kind = u.kind
      /\ v.log = u.log /\ v.held = u.held /\ v.pump = "settled" /\ v.winner = w
      /\ v.stamped = u.stamped /\ v.partial = p
  BY DEF Good, RunRecord
<1>2. Placed(v, ls)
  BY <1>1 DEF Good, Placed
<1>3. Staged(v, ls)
  BY <1>1 DEF Good, Staged, Ended
<1>4. ShownOk(v.log) = ok
  <2>1. ShownOk(u.log) = {l \in LaneSet : ls[l].end = "ok"}
    BY AllShown DEF Good, Ended
  <2>2. \A l \in LaneSet : ls[l].end = "ok" => l \in LanesOf(u.kind)
    BY DEF Good, Staged, Placed, LaneOk, Sits, IsUp, NewLane
  <2>3. LanesOf(u.kind) \subseteq LaneSet
    BY EngineAssumption DEF LanesOf, LaneSet
  <2> QED BY <1>1, <2>1, <2>2, <2>3
<1>5. Judged(v, ls)
  <2>1. Judged(u, ls)
    BY DEF Good
  <2> QED BY <1>1, <1>4, <2>1 DEF Judged
<1> QED BY <1>1, <1>2, <1>3, <1>5 DEF Good

\* A cancellation reaches the scopes of the lanes that have started, and nothing
\* else.
LEMMA CancelledLanes ==
    ASSUME NEW ls \in [LaneSet -> LaneRecord]
    PROVE  /\ Cancelled(ls) \in [LaneSet -> LaneRecord]
           /\ \A l \in LaneSet :
                 /\ Cancelled(ls)[l].at = ls[l].at /\ Cancelled(ls)[l].out = ls[l].out
                 /\ Cancelled(ls)[l].sent = ls[l].sent /\ Cancelled(ls)[l].end = ls[l].end
                 /\ Cancelled(ls)[l].scope = IF IsUp(ls[l]) THEN "cancelled" ELSE ls[l].scope
                 /\ ~IsUp(ls[l]) => Cancelled(ls)[l] = ls[l]
  BY DEF Cancelled, LaneRecord, IsUp

LEMMA GoodCancelled ==
    ASSUME NEW u, NEW ls, Good(u, ls), NEW v \in {u, [u EXCEPT !.scope = "cancelled"]},
           NEW ms, ms = Cancelled(ls)
    PROVE  Good(v, ms)
<1>1. /\ v \in RunRecord /\ v.state = u.state /\ v.kind = u.kind /\ v.log = u.log
      /\ v.held = u.held /\ v.pump = u.pump /\ v.winner = u.winner /\ v.stamped = u.stamped
      /\ v.partial = u.partial
  BY DEF Good, RunRecord
<1>2. ls \in [LaneSet -> LaneRecord] /\ u \in RunRecord /\ u.stamped \in Nat
  BY DEF Good, RunRecord
<1>3. ms \in [LaneSet -> LaneRecord] /\ \A l \in LaneSet :
         /\ ms[l] \in LaneRecord /\ ms[l].at = ls[l].at /\ ms[l].out = ls[l].out
         /\ ms[l].sent = ls[l].sent /\ ms[l].end = ls[l].end /\ (~IsUp(ls[l]) => ms[l] = ls[l])
         /\ ls[l].scope # "live" => ms[l].scope # "live"
  BY <1>2 DEF Cancelled, LaneRecord, IsUp
<1>4. Placed(v, ms)
  <2>1. \A l \in LaneSet : LaneOk(u.log, u.held, u.stamped, l, ms[l])
    <3>1. \A l \in LaneSet : LaneOk(u.log, u.held, u.stamped, l, ls[l]) /\ ls[l] \in LaneRecord
      BY <1>2 DEF Good, Placed
    <3> QED BY <1>2, <1>3, <3>1, LaneKept
  <2> QED BY <1>1, <2>1 DEF Good, Placed
<1>5. \A l \in LaneSet : IsUp(ms[l]) <=> IsUp(ls[l])
  BY <1>3 DEF IsUp
<1>6. Staged(v, ms)
  <2>1. InOrder(ls) => InOrder(ms)
    <3>1. {l \in LaneSet : IsUp(ms[l])} = {l \in LaneSet : IsUp(ls[l])}
      BY <1>5
    <3> QED BY <3>1 DEF InOrder
  <2>2. LanesOf(u.kind) \subseteq LaneSet
    BY EngineAssumption DEF LanesOf, LaneSet
  <2> QED BY <1>1, <1>3, <1>5, <2>1, <2>2 DEF Good, Staged
<1>7. Judged(v, ms)
  BY <1>1, <1>3, JudgedKept DEF Good
<1> QED BY <1>1, <1>3, <1>4, <1>6, <1>7 DEF Good

\* The next stage of a chain is the first that has not started.
LEMMA GoodNextStage ==
    ASSUME NEW u, NEW ls, Good(u, ls), NEW ms, NEW n, u.kind = "chain", u.state = "running",
           n = Cardinality({l \in LanesOf(u.kind) : IsUp(ls[l])}) + 1, n - 1 < Lanes,
           ms = [ls EXCEPT ![n] = StartLane(ls[n], u.scope)]
    PROVE  Good(u, ms)
<1> DEFINE y == StartLane(ls[n], u.scope)
           up == {l \in LaneSet : IsUp(ls[l])}
<1>1. PICK c \in 0 .. Lanes : up = 1 .. c
  BY DEF Good, Staged, InOrder
<1>2. n = c + 1
  <2>1. {l \in LanesOf(u.kind) : IsUp(ls[l])} = up
    BY DEF LanesOf
  <2>2. Cardinality(1 .. c) = c
    <3>1. c \in Int /\ 1 \in Int /\ ~(1 > c + 1)
      OBVIOUS
    <3>2. 1 > c => c = 0
      OBVIOUS
    <3> QED BY <3>1, <3>2, FS_Interval
  <2> HIDE DEF up
  <2> QED BY <1>1, <2>1, <2>2
<1>3. n \in LaneSet /\ ~IsUp(ls[n]) /\ ls[n] \in LaneRecord
  BY <1>1, <1>2, EngineAssumption DEF LaneSet, Good
<1>4. ls \in [LaneSet -> LaneRecord] /\ u \in RunRecord /\ u.scope \in {"live", "cancelled"}
  BY DEF Good, RunRecord
<1>5. y \in LaneRecord /\ IsUp(y)
  BY <1>3, <1>4 DEF StartLane, LaneRecord, IsUp
<1>6. LaneOk(u.log, u.held, u.stamped, n, y)
  BY <1>3, LaneStarts DEF Good, Placed
<1>7. ms = [ls EXCEPT ![n] = y]
  OBVIOUS
<1> HIDE DEF y
<1>8. ms \in [LaneSet -> LaneRecord] /\ ms[n] = y /\ \A l \in LaneSet \ {n} : ms[l] = ls[l]
  BY <1>3, <1>4, <1>5, <1>7
<1>9. Placed(u, ms)
  BY <1>6, <1>8 DEF Good, Placed
<1>10. Staged(u, ms)
  <2>1. {l \in LaneSet : IsUp(ms[l])} = 1 .. (c + 1)
    <3>1. \A l \in LaneSet : IsUp(ms[l]) <=> l = n \/ l \in 1 .. c
      BY <1>1, <1>5, <1>8
    <3>2. c \in Nat /\ n \in 1 .. Lanes /\ Lanes \in Nat
      BY <1>3, EngineAssumption DEF LaneSet
    <3>3. \A e : e \in 1 .. (c + 1) <=> e \in 1 .. Lanes /\ (e = n \/ e \in 1 .. c)
      BY <1>2, <3>2
    <3> QED BY <3>1, <3>3 DEF LaneSet
  <2>2. InOrder(ms)
    <3>1. c + 1 \in 0 .. Lanes
      BY <1>2, <1>3, EngineAssumption DEF LaneSet
    <3> QED BY <2>1, <3>1 DEF InOrder
  <2> QED BY <2>2 DEF Good, Staged, LanesOf
<1>11. Judged(u, ms)
  BY JudgedKept DEF Good
<1> QED BY <1>4, <1>8, <1>9, <1>10, <1>11 DEF Good

\* The pump shows what it holds; the losers of a race just won are told.
LEMMA GoodShown ==
    ASSUME NEW u, NEW ls, Good(u, ls), NEW v \in RunRecord, NEW ms \in [LaneSet -> LaneRecord],
           NEW w, u.pump = "persisting", v.winner = w,
           w # u.winner => u.kind = "first" /\ w = u.held.lane /\ u.held.chunk = "ok",
           v.stamped = u.stamped, v.log = Append(u.log, u.held), v.held = NoChunk,
           v.kind = u.kind, v.state = u.state, v.pump = "idle",
           \A l \in LaneSet :
              /\ ms[l].at = IF l = u.held.lane THEN "working" ELSE ls[l].at
              /\ ms[l].out = ls[l].out /\ ms[l].sent = ls[l].sent /\ ms[l].end = ls[l].end
              /\ ms[l].scope = IF w = u.winner \/ l = w \/ ~IsUp(ls[l])
                               THEN ls[l].scope ELSE "cancelled"
              /\ ~IsUp(ls[l]) => ms[l] = ls[l]
    PROVE  Good(v, ms)
<1> DEFINE h == u.held
           d == u.held.lane
           mg == Append(u.log, h)
<1>1. /\ h \in Sent /\ d \in LaneSet /\ u.log \in Seq(Sent) /\ u.stamped \in Nat
      /\ u \in RunRecord /\ ls \in [LaneSet -> LaneRecord]
  BY NoChunkIsNotSent DEF Good, Placed, RunRecord
<1>2. \A l \in LaneSet : LaneOk(u.log, h, u.stamped, l, ls[l]) /\ ls[l] \in LaneRecord
                         /\ ms[l] \in LaneRecord
  BY <1>1 DEF Good, Placed
<1>3. ls[d].at = "yielded"
  BY <1>1, <1>2 DEF LaneOk, Sits
<1>4. u.state = "running"
  BY <1>1, <1>3, RunningWhile
<1>5. \A l \in LaneSet : IsUp(ms[l]) <=> IsUp(ls[l])
  BY <1>3 DEF IsUp
<1> HIDE DEF mg
<1>6. Placed(v, ms)
  <2>1. ASSUME NEW l \in LaneSet PROVE LaneOk(mg, NoChunk, u.stamped, l, ms[l])
    <3>1. CASE l = d
      <4>1. ms[l].at = "working" /\ ms[l].sent = ls[l].sent /\ ms[l].end = ls[l].end
        BY <3>1
      <4> QED BY <1>1, <1>2, <3>1, <4>1, LanePulled DEF mg
    <3>2. CASE l # d
      <4>1. /\ ms[l].at = ls[l].at /\ ms[l].sent = ls[l].sent /\ ms[l].end = ls[l].end
            /\ ms[l].out = ls[l].out /\ (~IsUp(ls[l]) => ms[l] = ls[l])
        BY <3>2
      <4> QED BY <1>1, <1>2, <3>2, <4>1, LanePassed DEF mg
    <3> QED BY <3>1, <3>2
  <2>2. \A n \in DOMAIN mg : mg[n].seq < u.stamped
    <3>1. (\A n \in DOMAIN u.log : u.log[n].seq < u.stamped) /\ h.seq < u.stamped
      BY DEF Good, Placed
    <3>2. \A n \in DOMAIN mg : mg[n] = h \/ (n \in DOMAIN u.log /\ mg[n] = u.log[n])
      BY <1>1 DEF mg
    <3> QED BY <3>1, <3>2
  <2>3. NoChunk.seq < u.stamped
    BY <1>1 DEF NoChunk
  <2> QED BY <2>1, <2>2, <2>3 DEF Placed, mg
<1>7. Staged(v, ms)
  <2>1. InOrder(ls) => InOrder(ms)
    <3>1. {l \in LaneSet : IsUp(ms[l])} = {l \in LaneSet : IsUp(ls[l])}
      BY <1>5
    <3> QED BY <3>1 DEF InOrder
  <2>2. LanesOf(u.kind) \subseteq LaneSet
    BY EngineAssumption DEF LanesOf, LaneSet
  <2> QED BY <1>4, <1>5, <2>1, <2>2 DEF Good, Staged
<1>8. Judged(v, ms)
  <2>1. ShownOk(u.log) \subseteq ShownOk(mg) /\ (h.chunk = "ok" => d \in ShownOk(mg))
    BY <1>1, MoreShown DEF mg
  <2>2. w # 0 /\ u.kind # "single" => w \in ShownOk(mg)
    BY <2>1 DEF Good, Judged
  <2>3. u.kind = "first" /\ w # 0 => \A l \in LaneSet \ {w} : ms[l].scope # "live"
    <3>1. CASE w = u.winner
      BY <3>1 DEF Good, Judged
    <3>2. CASE w # u.winner
      <4>1. \A l \in LaneSet : IsUp(ls[l])
        BY <1>4, <3>2 DEF Good, Staged, LanesOf
      <4> QED BY <3>2, <4>1
    <3> QED BY <3>1, <3>2
  <2>4. v.log = mg /\ v.state = "running"
    BY <1>4 DEF mg
  <2> QED BY <2>2, <2>3, <2>4 DEF Judged
<1> QED BY <1>6, <1>7, <1>8 DEF Good

Again(ls, d) == [ls EXCEPT ![d].at = "working"]
Told(ls, w) == [Cancelled(ls) EXCEPT ![w] = ls[w]]
WinnerOf(u) == IF u.kind = "first" /\ u.winner = 0 /\ u.held.chunk = "ok"
               THEN u.held.lane ELSE u.winner
RecordShown(u) == [u EXCEPT !.log = Append(u.log, u.held), !.winner = WinnerOf(u),
                            !.held = NoChunk, !.pump = "idle"]
LanesShown(u, ls) ==
    LET again == Again(ls, u.held.lane)
    IN  IF WinnerOf(u) = u.winner THEN again ELSE Told(again, WinnerOf(u))

LEMMA PulledAgain ==
    ASSUME NEW ls \in [LaneSet -> LaneRecord], NEW d \in LaneSet, IsUp(ls[d])
    PROVE  /\ Again(ls, d) \in [LaneSet -> LaneRecord]
           /\ \A l \in LaneSet :
                 /\ Again(ls, d)[l].at = IF l = d THEN "working" ELSE ls[l].at
                 /\ Again(ls, d)[l].out = ls[l].out /\ Again(ls, d)[l].sent = ls[l].sent
                 /\ Again(ls, d)[l].end = ls[l].end /\ Again(ls, d)[l].scope = ls[l].scope
                 /\ IsUp(Again(ls, d)[l]) <=> IsUp(ls[l])
                 /\ ~IsUp(ls[l]) => Again(ls, d)[l] = ls[l]
  BY DEF LaneRecord, IsUp, Again

LEMMA LosersTold ==
    ASSUME NEW ls \in [LaneSet -> LaneRecord], NEW w \in LaneSet
    PROVE  /\ Told(ls, w) \in [LaneSet -> LaneRecord]
           /\ \A l \in LaneSet :
                 /\ Told(ls, w)[l].at = ls[l].at /\ Told(ls, w)[l].out = ls[l].out
                 /\ Told(ls, w)[l].sent = ls[l].sent /\ Told(ls, w)[l].end = ls[l].end
                 /\ Told(ls, w)[l].scope =
                       IF l = w \/ ~IsUp(ls[l]) THEN ls[l].scope ELSE "cancelled"
                 /\ ~IsUp(ls[l]) => Told(ls, w)[l] = ls[l]
<1> DEFINE cs == Cancelled(ls)
           ms == Told(ls, w)
<1>1. cs \in [LaneSet -> LaneRecord] /\ ms = [cs EXCEPT ![w] = ls[w]]
  BY CancelledLanes DEF Told
<1> HIDE DEF cs, ms
<1>2. ms \in [LaneSet -> LaneRecord] /\ \A l \in LaneSet : ms[l] = IF l = w THEN ls[l] ELSE cs[l]
  BY <1>1
<1>3. ASSUME NEW l \in LaneSet
      PROVE  /\ ms[l].at = ls[l].at /\ ms[l].out = ls[l].out
             /\ ms[l].sent = ls[l].sent /\ ms[l].end = ls[l].end
             /\ ms[l].scope = IF l = w \/ ~IsUp(ls[l]) THEN ls[l].scope ELSE "cancelled"
             /\ ~IsUp(ls[l]) => ms[l] = ls[l]
  <2>1. CASE l = w
    <3>1. ms[l] = ls[l]
      BY <1>2, <2>1
    <3> QED BY <2>1, <3>1
  <2>2. CASE l # w
    <3>1. ms[l] = cs[l]
      BY <1>2, <2>2
    <3> QED BY <2>2, <3>1, CancelledLanes DEF cs
  <2> QED BY <2>1, <2>2
<1> QED BY <1>2, <1>3 DEF ms

LEMMA GoodPersisted ==
    ASSUME NEW u, NEW ls, Good(u, ls), u.pump = "persisting"
    PROVE  Good(RecordShown(u), LanesShown(u, ls))
<1> DEFINE d == u.held.lane
           w == WinnerOf(u)
           v == RecordShown(u)
           again == Again(ls, d)
           ms == LanesShown(u, ls)
<1>1. /\ u.held \in Sent /\ d \in LaneSet /\ u.log \in Seq(Sent)
      /\ u.winner \in 0 .. Lanes /\ u \in RunRecord /\ ls \in [LaneSet -> LaneRecord]
  BY NoChunkIsNotSent DEF Good, Placed, RunRecord
<1>2. IsUp(ls[d])
  BY <1>1 DEF Good, Placed, LaneOk, Sits, IsUp
<1>3. w \in 0 .. Lanes /\ (w # u.winner => w \in LaneSet)
      /\ (w # u.winner => u.kind = "first" /\ w = d /\ u.held.chunk = "ok")
  BY <1>1, EngineAssumption DEF LaneSet, WinnerOf
<1>4. Append(u.log, u.held) \in Seq(Sent)
  BY <1>1
<1>5. /\ v \in RunRecord /\ v.stamped = u.stamped /\ v.log = Append(u.log, u.held)
      /\ v.held = NoChunk /\ v.winner = w /\ v.kind = u.kind /\ v.state = u.state
      /\ v.pump = "idle"
  <2> HIDE DEF w
  <2>1. v = [u EXCEPT !.log = Append(u.log, u.held), !.winner = w,
                      !.held = NoChunk, !.pump = "idle"]
    BY DEF w, RecordShown
  <2> QED BY <1>1, <1>3, <1>4, <2>1 DEF RunRecord
<1>6. ms \in [LaneSet -> LaneRecord] /\ \A l \in LaneSet :
         /\ ms[l].at = IF l = d THEN "working" ELSE ls[l].at
         /\ ms[l].out = ls[l].out /\ ms[l].sent = ls[l].sent /\ ms[l].end = ls[l].end
         /\ ms[l].scope = IF w = u.winner \/ l = w \/ ~IsUp(ls[l])
                          THEN ls[l].scope ELSE "cancelled"
         /\ ~IsUp(ls[l]) => ms[l] = ls[l]
  <2>1. again \in [LaneSet -> LaneRecord] /\ \A l \in LaneSet :
           /\ again[l].at = IF l = d THEN "working" ELSE ls[l].at
           /\ again[l].out = ls[l].out /\ again[l].sent = ls[l].sent
           /\ again[l].end = ls[l].end /\ again[l].scope = ls[l].scope
           /\ IsUp(again[l]) <=> IsUp(ls[l])
           /\ ~IsUp(ls[l]) => again[l] = ls[l]
    BY <1>1, <1>2, PulledAgain
  <2>2. CASE w = u.winner
    <3>1. ms = again
      BY <2>2 DEF LanesShown
    <3> HIDE DEF again, ms, w
    <3> QED BY <2>1, <2>2, <3>1
  <2>3. CASE w # u.winner
    <3>1. ms = Told(again, w)
      BY <2>3 DEF LanesShown
    <3> HIDE DEF again, ms, w
    <3>2. /\ ms \in [LaneSet -> LaneRecord]
          /\ \A l \in LaneSet :
                 /\ ms[l].at = again[l].at /\ ms[l].out = again[l].out
                 /\ ms[l].sent = again[l].sent /\ ms[l].end = again[l].end
                 /\ ms[l].scope = IF l = w \/ ~IsUp(again[l]) THEN again[l].scope ELSE "cancelled"
                 /\ ~IsUp(again[l]) => ms[l] = again[l]
      BY <1>3, <2>1, <2>3, <3>1, LosersTold
    <3> QED BY <2>1, <2>3, <3>2
  <2> QED BY <2>2, <2>3
<1> HIDE DEF v, ms, w
<1>7. Good(v, ms)
  BY <1>3, <1>5, <1>6, GoodShown
<1> QED BY <1>7 DEF v, ms

-----------------------------------------------------------------------------
\* A step makes a good record and good lanes of those of its run, and moves the
\* run through the registry in one of three ways.
Asked(r, v)   == /\ run[r].state = "none" /\ v.state = "resolving"
                 /\ Cardinality(Active) < MaxActive
                 /\ overtaken' = overtaken
Entered(r, v) == run[r].state = "resolving" /\ v.state = "running" /\ Overtakes(r)
Left(r, v)    == /\ overtaken' = overtaken
                 /\ \/ v.state = run[r].state
                    \/ v.state \in {"refused", "done", "error"}
Moved(r) == \E v, ms : /\ Becomes(r, v, ms) /\ Good(v, ms)
                       /\ Asked(r, v) \/ Entered(r, v) \/ Left(r, v)

Sound == TypeOK /\ \A r \in Run : Good(run[r], lane[r])

LEMMA StartMoves ==
    ASSUME Sound, NEW r \in Run,
           (\E k \in Kinds : Request(r, k)) \/ Register(r) \/ BadRequest(r)
    PROVE  Moved(r)
<1> DEFINE u == run[r]
           ls == lane[r]
<1>1. Good(u, ls) /\ TypeOK /\ u \in RunRecord /\ u.kind \in Kinds \cup {"none"}
  BY DEF Sound, TypeOK, RunRecord
<1>2. ASSUME NEW k \in Kinds, Request(r, k) PROVE Moved(r)
  <2>1. u.state = "none"
    BY <1>1, <1>2, StartEffects
  <2>2. CASE Becomes(r, [u EXCEPT !.state = "refused"], ls) /\ overtaken' = overtaken
    <3>1. [u EXCEPT !.state = "refused"] = [u EXCEPT !.state = "refused", !.kind = u.kind]
      BY <1>1 DEF RunRecord
    <3>2. Good([u EXCEPT !.state = "refused"], ls)
      BY <1>1, <2>1, <3>1, GoodBefore
    <3>3. [u EXCEPT !.state = "refused"].state = "refused"
      BY <1>1 DEF RunRecord
    <3> QED BY <2>2, <3>2, <3>3, Zenon DEF Moved, Left
  <2>3. CASE /\ Cardinality(Active) < MaxActive
             /\ Becomes(r, [u EXCEPT !.state = "resolving", !.kind = k], ls)
             /\ overtaken' = overtaken
    <3>1. Good([u EXCEPT !.state = "resolving", !.kind = k], ls)
      BY <1>1, <2>1, GoodBefore
    <3>2. [u EXCEPT !.state = "resolving", !.kind = k].state = "resolving"
      BY <1>1 DEF RunRecord
    <3> QED BY <2>1, <2>3, <3>1, <3>2, Zenon DEF Moved, Asked
  <2> QED BY <1>1, <1>2, <2>2, <2>3, StartEffects
<1>3. ASSUME Register(r) PROVE Moved(r)
  <2> DEFINE v == [u EXCEPT !.state = "running"]
             ms == [l \in LaneSet |-> IF l \in LanesOf(u.kind) /\ u.kind # "chain"
                                      THEN StartLane(ls[l], "live") ELSE ls[l]]
  <2>1. u.state = "resolving" /\ Overtakes(r) /\ Becomes(r, v, ms)
    BY <1>1, <1>3, StartEffects
  <2>2. Good(v, ms)
    BY <1>1, <2>1, GoodRegistered
  <2>3. v.state = "running"
    BY <1>1 DEF RunRecord
  <2> HIDE DEF v, ms
  <2> QED BY <2>1, <2>2, <2>3 DEF Moved, Entered
<1>4. ASSUME BadRequest(r) PROVE Moved(r)
  <2> DEFINE v == [u EXCEPT !.state = "refused"]
  <2>1. u.state = "resolving" /\ overtaken' = overtaken /\ Becomes(r, v, ls)
    BY <1>1, <1>4, StartEffects
  <2>2. v = [u EXCEPT !.state = "refused", !.kind = u.kind] /\ v.state = "refused"
    BY <1>1 DEF RunRecord
  <2>3. Good(v, ls)
    BY <1>1, <2>1, <2>2, GoodBefore
  <2> HIDE DEF v
  <2> QED BY <2>1, <2>2, <2>3 DEF Moved, Left
<1> QED BY <1>2, <1>3, <1>4

LEMMA LaneMoves ==
    ASSUME Sound, NEW r \in Run,
           \/ \E l \in LaneSet : \/ \E c \in Terminal \cup {"text"} : Yield(r, l, c)
                                 \/ Return(r, l)
                                 \/ Merge(r, l)
           \/ Throw(r)
    PROVE  Moved(r)
<1> DEFINE u == run[r]
           ls == lane[r]
<1>1. Good(u, ls) /\ TypeOK /\ u \in RunRecord
  BY DEF Sound, TypeOK
<1>2. ASSUME NEW l \in LaneSet, NEW c \in Terminal \cup {"text"}, Yield(r, l, c) PROVE Moved(r)
  <2> DEFINE v == [u EXCEPT !.stamped = u.stamped + 1]
             ms == [ls EXCEPT ![l] =
                      [ls[l] EXCEPT !.at = "ready", !.sent = ls[l].sent + 1,
                                    !.out = Chunk(r, l, c), !.end = EndAfter(c)]]
  <2>1. /\ ls[l].at = "working" /\ ls[l].end = "none"
        /\ LaneBecomes(r, l, [u EXCEPT !.stamped = u.stamped + 1],
               [ls[l] EXCEPT !.at = "ready", !.sent = ls[l].sent + 1,
                             !.out = Chunk(r, l, c), !.end = EndAfter(c)])
    BY <1>1, <1>2, YieldEffects
  <2>2. Becomes(r, v, ms)
    BY <2>1, Zenon DEF LaneBecomes
  <2>3. Chunk(r, l, c) = [seq |-> u.stamped, lane |-> l, chunk |-> c]
    BY DEF Chunk
  <2>4. Good(v, ms)
    BY <1>1, <2>1, <2>3, GoodYields
  <2>5. v.state = u.state /\ overtaken' = overtaken
    BY <1>1, <1>2 DEF RunRecord, Yield
  <2> HIDE DEF v, ms
  <2> QED BY <2>2, <2>4, <2>5 DEF Moved, Left
<1>3. ASSUME NEW l \in LaneSet, Return(r, l) PROVE Moved(r)
  <2> DEFINE ms == [ls EXCEPT ![l] = [ls[l] EXCEPT !.at = "ended"]]
  <2>1. ls[l].at = "working" /\ LaneBecomes(r, l, u, [ls[l] EXCEPT !.at = "ended"])
    BY <1>1, <1>3, ReturnEffects
  <2>2. Becomes(r, u, ms)
    BY <2>1, Zenon DEF LaneBecomes
  <2>3. Good(u, ms)
    BY <1>1, <2>1, GoodReturns
  <2>4. overtaken' = overtaken
    BY <1>3 DEF Return
  <2> HIDE DEF ms
  <2> QED BY <2>2, <2>3, <2>4 DEF Moved, Left
<1>4. ASSUME NEW l \in LaneSet, Merge(r, l) PROVE Moved(r)
  <2> DEFINE v == [u EXCEPT !.held = ls[l].out, !.pump = "persisting"]
             ms == [ls EXCEPT ![l] = [ls[l] EXCEPT !.at = "yielded", !.out = NoChunk]]
  <2>1. /\ u.pump = "idle" /\ ls[l].at = "ready"
        /\ LaneBecomes(r, l, [u EXCEPT !.held = ls[l].out, !.pump = "persisting"],
                             [ls[l] EXCEPT !.at = "yielded", !.out = NoChunk])
    BY <1>1, <1>4, MergeEffects
  <2>2. Becomes(r, v, ms)
    BY <2>1, Zenon DEF LaneBecomes
  <2>3. Good(v, ms)
    BY <1>1, <2>1, GoodMerged
  <2>4. v.state = u.state /\ overtaken' = overtaken
    BY <1>1, <1>4 DEF RunRecord, Merge
  <2> HIDE DEF v, ms
  <2> QED BY <2>2, <2>3, <2>4 DEF Moved, Left
<1>5. ASSUME Throw(r) PROVE Moved(r)
  <2> DEFINE v == [u EXCEPT !.state = "error", !.pump = "failed"]
             ms == [ls EXCEPT ![1] = [ls[1] EXCEPT !.at = "ended"]]
  <2>1. /\ u.kind = "single" /\ u.pump = "idle" /\ ls[1].at = "working"
        /\ LaneBecomes(r, 1, [u EXCEPT !.state = "error", !.pump = "failed"],
                             [ls[1] EXCEPT !.at = "ended"])
    BY <1>1, <1>5, ThrowEffects
  <2>2. Becomes(r, v, ms)
    BY <2>1, Zenon DEF LaneBecomes
  <2>3. Good(v, ms)
    BY <1>1, <2>1, GoodThrown
  <2>4. v.state = "error" /\ overtaken' = overtaken
    BY <1>1, <1>5 DEF RunRecord, Throw
  <2> HIDE DEF v, ms
  <2> QED BY <2>2, <2>3, <2>4 DEF Moved, Left
<1> QED BY <1>2, <1>3, <1>4, <1>5

LEMMA PersistMoves ==
    ASSUME Sound, NEW r \in Run, Persist(r)
    PROVE  Moved(r)
<1> DEFINE c == run[r].held
           w == WinnerAfter(r, c)
           again == [lane[r] EXCEPT ![c.lane].at = "working"]
<1>1. Good(run[r], lane[r]) /\ TypeOK /\ run[r] \in RunRecord
  BY DEF Sound, TypeOK
<1>2. /\ run[r].pump = "persisting" /\ overtaken' = overtaken
      /\ run' = [run EXCEPT ![r].log = Append(@, c), ![r].winner = w,
                            ![r].held = NoChunk, ![r].pump = "idle"]
      /\ lane' = [lane EXCEPT ![r] = IF w = run[r].winner THEN again
                                     ELSE [Cancelled(again) EXCEPT ![w] = again[w]]]
  BY DEF Persist
<1>3. run' = [run EXCEPT ![r] = [run[r] EXCEPT !.log = Append(run[r].log, c), !.winner = w,
                                               !.held = NoChunk, !.pump = "idle"]]
  BY <1>1, <1>2, Zenon DEF TypeOK
<1>4. w = WinnerOf(run[r])
  BY DEF WinnerAfter, WinnerOf
<1>5. again = Again(lane[r], run[r].held.lane)
  BY DEF Again
<1> HIDE DEF w, again
<1>6. run' = [run EXCEPT ![r] = RecordShown(run[r])]
  BY <1>3, <1>4 DEF RecordShown
<1>7. lane' = [lane EXCEPT ![r] = LanesShown(run[r], lane[r])]
  BY <1>2, <1>4, <1>5 DEF LanesShown, Told
<1>8. Good(RecordShown(run[r]), LanesShown(run[r], lane[r]))
  BY <1>1, <1>2, GoodPersisted
<1>9. RecordShown(run[r]).state = run[r].state
  BY <1>1 DEF RecordShown, RunRecord
<1> QED BY <1>2, <1>6, <1>7, <1>8, <1>9, Zenon DEF Moved, Becomes, Left

LEMMA NextStageMoves ==
    ASSUME Sound, NEW r \in Run, NextStage(r)
    PROVE  Moved(r)
<1> DEFINE n == Cardinality(Started(r)) + 1
           ms == [lane[r] EXCEPT ![n] = StartLane(lane[r][n], run[r].scope)]
<1>1. Good(run[r], lane[r]) /\ TypeOK /\ run[r] \in RunRecord
  BY DEF Sound, TypeOK
<1>2. /\ run[r].state = "running" /\ run[r].kind = "chain" /\ ChainGoesOn(r)
      /\ lane' = [lane EXCEPT ![r][n] = StartLane(@, run[r].scope)]
      /\ run' = run /\ overtaken' = overtaken
  BY DEF NextStage
<1>3. n = Cardinality({l \in LanesOf(run[r].kind) : IsUp(lane[r][l])}) + 1
  BY DEF Started, IsUp, Lane
<1>4. Cardinality(Started(r)) \in Nat
  <2>1. Started(r) \subseteq 1 .. Lanes
    BY EngineAssumption DEF Started, Lane, LanesOf, LaneSet
  <2>2. IsFiniteSet(1 .. Lanes)
    BY FS_Interval, EngineAssumption
  <2> QED BY <2>1, <2>2, FS_Subset, FS_CardinalityType
<1>5. n - 1 < Lanes
  <2>1. Cardinality(Started(r)) < Lanes
    BY <1>2 DEF ChainGoesOn
  <2> QED BY <1>4, <2>1, EngineAssumption
<1> HIDE DEF n
<1>6. Good(run[r], ms)
  BY <1>1, <1>2, <1>3, <1>5, GoodNextStage
<1>7. lane' = [lane EXCEPT ![r] = ms]
  BY <1>2, Zenon
<1>8. run' = [run EXCEPT ![r] = run[r]]
  BY <1>1, <1>2 DEF TypeOK
<1> HIDE DEF ms
<1> QED BY <1>2, <1>6, <1>7, <1>8, Zenon DEF Moved, Becomes, Left

LEMMA CancelMoves ==
    ASSUME Sound, NEW r \in Run, Cancel(r) \/ Timeout(r) \/ BestTimeout(r)
    PROVE  Moved(r)
<1> DEFINE v == [run[r] EXCEPT !.scope = "cancelled"]
           ms == Cancelled(lane[r])
<1>1. Good(run[r], lane[r]) /\ TypeOK /\ run[r] \in RunRecord
  BY DEF Sound, TypeOK
<1>2. lane' = [lane EXCEPT ![r] = ms] /\ overtaken' = overtaken
  BY Zenon DEF Cancel, Timeout, BestTimeout, CancelRun
<1>3. CASE Cancel(r) \/ Timeout(r)
  <2>1. run' = [run EXCEPT ![r] = v]
    BY <1>3, Zenon DEF Cancel, Timeout, CancelRun
  <2>2. Good(v, ms)
    BY <1>1, GoodCancelled
  <2>3. v.state = run[r].state
    BY <1>1 DEF RunRecord
  <2> HIDE DEF v, ms
  <2> QED BY <1>2, <2>1, <2>2, <2>3, Zenon DEF Moved, Becomes, Left
<1>4. CASE BestTimeout(r)
  <2>1. run' = [run EXCEPT ![r] = run[r]]
    BY <1>1, <1>4 DEF BestTimeout, TypeOK
  <2>2. Good(run[r], ms)
    BY <1>1, GoodCancelled
  <2> HIDE DEF ms
  <2> QED BY <1>2, <2>1, <2>2, Zenon DEF Moved, Becomes, Left
<1> QED BY <1>3, <1>4

\* A judge is asked when enough lanes ended well; the one it picks is one of
\* them.
LEMMA SettleMoves ==
    ASSUME Sound, NEW r \in Run, Settle(r)
    PROVE  Moved(r)
<1> DEFINE u == run[r]
           ls == lane[r]
           v(w, p) == [u EXCEPT !.state = IF Ok(r) # {} THEN "done" ELSE "error",
                                !.pump = "settled", !.winner = w, !.partial = p]
<1>1. /\ Good(u, ls) /\ TypeOK /\ u \in RunRecord /\ u.winner \in 0 .. Lanes
      /\ Placed(u, ls) /\ Judged(u, ls)
  BY DEF Sound, TypeOK, RunRecord, Good
<1>2. u.state = "running" /\ u.pump = "idle" /\ Ended(ls) /\ lane' = lane /\ overtaken' = overtaken
  <2>1. \A l \in LaneSet \ LanesOf(u.kind) : ~IsUp(ls[l])
    BY <1>1 DEF Good, Staged
  <2> QED BY <2>1 DEF Settle, Started, Lane, Ended, IsUp
<1>3. lane' = [lane EXCEPT ![r] = ls]
  BY <1>1, <1>2 DEF TypeOK
<1>4. Ok(r) = {l \in LanesOf(u.kind) : ls[l].end = "ok"} /\ Ok(r) \subseteq LaneSet
      /\ ShownOk(u.log) = Ok(r) /\ Lane(r) = LanesOf(u.kind)
  <2>1. Ok(r) = {l \in LanesOf(u.kind) : ls[l].end = "ok"} /\ Lane(r) = LanesOf(u.kind)
    BY DEF Ok, Lane
  <2>2. LanesOf(u.kind) \subseteq LaneSet
    BY EngineAssumption DEF LanesOf, LaneSet
  <2>3. ShownOk(u.log) = {l \in LaneSet : ls[l].end = "ok"}
    BY <1>1, <1>2, AllShown DEF Good, Ended
  <2>4. \A l \in LaneSet : ls[l].end = "ok" => l \in LanesOf(u.kind)
    BY <1>1 DEF Good, Staged, Placed, LaneOk, Sits, IsUp, NewLane
  <2> QED BY <2>1, <2>2, <2>3, <2>4
<1>5. ASSUME NEW w \in 0 .. Lanes, NEW p \in BOOLEAN, Settled(r, w, p),
             w # 0 /\ u.kind # "single" => w \in Ok(r), u.kind = "first" => w = u.winner,
             u.kind \in {"compare", "chain"} => (p <=> Ok(r) # LanesOf(u.kind)),
             u.kind = "consensus" => (p <=> Ok(r) # LanesOf(u.kind) \/ Lanes < 2)
      PROVE  Moved(r)
  <2>1. Good(v(w, p), ls)
    BY <1>1, <1>2, <1>4, <1>5, GoodSettled
  <2>2. run' = [run EXCEPT ![r] = v(w, p)]
    BY <1>5, Zenon DEF Settled
  <2>3. v(w, p).state \in {"done", "error"}
    BY <1>1 DEF RunRecord
  <2> HIDE DEF v
  <2> QED BY <1>2, <1>3, <2>1, <2>2, <2>3, Zenon DEF Moved, Becomes, Left
<1>6. ASSUME Rejected(r) PROVE Moved(r)
  <2> DEFINE x == [u EXCEPT !.state = "error", !.pump = "failed"]
  <2>1. Good(x, ls)
    BY <1>1, <1>2, GoodRejected
  <2>2. run' = [run EXCEPT ![r] = x]
    BY <1>1, <1>6, Zenon DEF Rejected, TypeOK
  <2>3. x.state = "error"
    BY <1>1 DEF RunRecord
  <2> HIDE DEF x
  <2> QED BY <1>2, <1>3, <2>1, <2>2, <2>3, Zenon DEF Moved, Becomes, Left
<1>7. ASSUME SettleSingle(r) PROVE Moved(r)
  <2>1. 1 \in 0 .. Lanes /\ u.kind = "single" /\ Settled(r, 1, Ok(r) = {})
    BY <1>7, EngineAssumption DEF SettleSingle
  <2> QED BY <1>5, <2>1
<1>8. ASSUME SettleCompare(r) PROVE Moved(r)
  <2>1. 0 \in 0 .. Lanes /\ u.kind = "compare" /\ Settled(r, 0, Ok(r) # LanesOf(u.kind))
    BY <1>4, <1>8, EngineAssumption DEF SettleCompare
  <2> QED BY <1>5, <2>1
<1>9. ASSUME SettleFirst(r) PROVE Moved(r)
  <2>1. u.kind = "first" /\ Settled(r, u.winner, u.winner = 0)
    BY <1>9 DEF SettleFirst
  <2>2. u.winner # 0 => u.winner \in Ok(r)
    BY <1>1, <1>4, <2>1 DEF Judged
  <2> QED BY <1>1, <1>5, <2>1, <2>2
<1>10. ASSUME SettleJudged(r) PROVE Moved(r)
  <2>1. u.kind \in {"best", "consensus"}
    BY <1>10 DEF SettleJudged
  <2>2. CASE Cardinality(Ok(r)) < (IF u.kind = "best" THEN 1 ELSE 2)
    <3>1. Settled(r, 0, TRUE)
      BY <1>10, <2>2, Zenon DEF SettleJudged
    <3>2. ASSUME u.kind = "consensus", Ok(r) = LanesOf(u.kind) PROVE Lanes < 2
      <4>1. Cardinality(LaneSet) = Lanes
        BY EngineAssumption, FS_Interval DEF LaneSet
      <4>2. Ok(r) = LaneSet
        BY <3>2 DEF LanesOf
      <4> QED BY <2>2, <3>2, <4>1, <4>2
    <3>3. 0 \in 0 .. Lanes
      BY EngineAssumption
    <3> QED BY <1>5, <2>1, <3>1, <3>2, <3>3
  <2>3. CASE /\ ~(Cardinality(Ok(r)) < (IF u.kind = "best" THEN 1 ELSE 2))
             /\ \E w \in Ok(r) : Settled(r, w, Ok(r) # Lane(r))
    <3>1. PICK w \in Ok(r) : Settled(r, w, Ok(r) # LanesOf(u.kind))
      BY <1>4, <2>3
    <3>2. w \in 0 .. Lanes
      BY <1>4, EngineAssumption DEF LaneSet
    <3>3. u.kind = "consensus" => ~(Lanes < 2)
      <4>1. IsFiniteSet(LaneSet) /\ Cardinality(LaneSet) = Lanes
        BY EngineAssumption, FS_Interval DEF LaneSet
      <4>2. Cardinality(Ok(r)) <= Lanes /\ Cardinality(Ok(r)) \in Nat
        BY <1>4, <4>1, FS_Subset, FS_CardinalityType
      <4> QED BY <2>3, <4>2, EngineAssumption
    <3> QED BY <1>5, <2>1, <3>1, <3>2, <3>3
  <2> QED BY <1>6, <1>10, <2>2, <2>3 DEF SettleJudged
<1>11. ASSUME SettleChain(r) PROVE Moved(r)
  <2> DEFINE w == IF Ok(r) = {} THEN 0 ELSE Max(Ok(r))
  <2>1. u.kind = "chain" /\ Settled(r, w, Ok(r) # LanesOf(u.kind))
    BY <1>4, <1>11 DEF SettleChain
  <2>2. w \in 0 .. Lanes /\ (w # 0 => w \in Ok(r))
    <3>1. Ok(r) \in SUBSET (0 .. Lanes) /\ Lanes \in Nat
      BY <1>4, EngineAssumption DEF LaneSet
    <3>2. Ok(r) # {} => Max(Ok(r)) \in Ok(r)
      BY <3>1, Greatest
    <3> QED BY <3>1, <3>2
  <2> HIDE DEF w
  <2> QED BY <1>5, <2>1, <2>2
<1> QED BY <1>7, <1>8, <1>9, <1>10, <1>11 DEF Settle

-----------------------------------------------------------------------------
LEMMA InvariantInParts == IInv <=> Sound /\ Capped
  BY DEF IInv, Sound, TypeOK

LEMMA MovedIsSound ==
    ASSUME Sound, Capped, NEW r \in Run, Moved(r)
    PROVE  Sound' /\ Capped'
<1>1. PICK v, ms : /\ Becomes(r, v, ms) /\ Good(v, ms)
                   /\ Asked(r, v) \/ Entered(r, v) \/ Left(r, v)
  BY Zenon DEF Moved
<1>2. v \in RunRecord /\ ms \in [LaneSet -> LaneRecord]
  BY <1>1 DEF Good
<1>3. /\ run' \in [Run -> RunRecord] /\ lane' \in [Run -> [LaneSet -> LaneRecord]]
      /\ run'[r] = v /\ lane'[r] = ms
      /\ \A q \in Run \ {r} : run'[q] = run[q] /\ lane'[q] = lane[q]
  BY <1>1, <1>2 DEF Sound, TypeOK, Becomes
<1>4. /\ Cardinality(Active) \in Nat /\ IsFiniteSet(Active) /\ MaxActive \in Nat
      /\ Active \subseteq Run /\ Resolving \subseteq Run /\ overtaken \subseteq Run
      /\ overtaken \subseteq Waits /\ Waits \subseteq Run
  BY Counting, EngineAssumption DEF Sound, TypeOK, Capped, ActiveBounded
<1>5. overtaken' \subseteq Run /\ overtaken' \subseteq Waits /\ overtaken \subseteq overtaken'
  BY <1>1, <1>4 DEF Asked, Entered, Left, Overtakes
<1>6. Sound'
  <2>1. \A q \in Run : Good(run'[q], lane'[q])
    BY <1>1, <1>3 DEF Sound
  <2> QED BY <1>3, <1>5, <2>1 DEF Sound, TypeOK
<1>7. /\ Cardinality(Active \ overtaken) <= MaxActive /\ IsFiniteSet(Active \ overtaken)
      /\ Cardinality(Active \ overtaken) \in Nat
  BY <1>4, FS_Subset, FS_CardinalityType DEF Capped, ActiveBounded
<1>8. /\ Cardinality(Active' \ overtaken') <= MaxActive
      /\ Resolving' \ overtaken' # {} => Cardinality(Active') < MaxActive
  <2>1. CASE Asked(r, v)
    BY <1>3, <1>7, <2>1 DEF Active, Resolving, Asked
  <2>2. CASE Entered(r, v)
    <3>1. Active' = Active \cup {r} /\ r \notin Active /\ r \in Resolving
          /\ Resolving' = Resolving \ {r} /\ overtaken' = overtaken \cup (Resolving \ {r})
      BY <1>3, <2>2 DEF Active, Resolving, Entered, Overtakes
    <3>2. CASE r \in overtaken
      <4>1. Active' \ overtaken' \subseteq Active \ overtaken
        BY <3>1, <3>2
      <4>2. /\ Cardinality(Active' \ overtaken') <= Cardinality(Active \ overtaken)
            /\ Cardinality(Active' \ overtaken') \in Nat
        BY <1>7, <4>1, FS_Subset, FS_CardinalityType
      <4> QED BY <1>4, <1>7, <3>1, <4>2
    <3>3. CASE r \notin overtaken
      <4>1. Cardinality(Active) < MaxActive
        BY <3>1, <3>3 DEF Capped
      <4>2. IsFiniteSet(Active') /\ Cardinality(Active') = Cardinality(Active) + 1
        BY <1>4, <3>1, FS_AddElement
      <4>3. /\ Cardinality(Active' \ overtaken') <= Cardinality(Active')
            /\ Cardinality(Active' \ overtaken') \in Nat
        BY <4>2, FS_Subset, FS_CardinalityType
      <4> QED BY <1>4, <3>1, <4>1, <4>2, <4>3
    <3> QED BY <3>2, <3>3
  <2>3. CASE Left(r, v)
    <3>1. Active' \subseteq Active /\ Resolving' \subseteq Resolving /\ overtaken' = overtaken
      BY <1>3, <2>3 DEF Active, Resolving, Left
    <3>2. Cardinality(Active') <= Cardinality(Active) /\ Cardinality(Active') \in Nat
      BY <1>4, <3>1, FS_Subset, FS_CardinalityType
    <3>3. Active' \ overtaken' \subseteq Active \ overtaken
      BY <3>1
    <3>4. /\ Cardinality(Active' \ overtaken') <= Cardinality(Active \ overtaken)
          /\ Cardinality(Active' \ overtaken') \in Nat
      BY <1>7, <3>3, FS_Subset, FS_CardinalityType
    <3>5. Resolving' \ overtaken' # {} => Resolving \ overtaken # {}
      BY <3>1
    <3>6. Resolving \ overtaken # {} => Cardinality(Active) < MaxActive
      BY DEF Capped
    <3> QED BY <1>4, <1>7, <3>2, <3>4, <3>5, <3>6
  <2> QED BY <1>1, <2>1, <2>2, <2>3
<1> QED BY <1>5, <1>6, <1>8 DEF Capped, ActiveBounded

LEMMA InitIInv == Init => IInv
<1> SUFFICES ASSUME Init PROVE IInv
  OBVIOUS
<1>1. /\ run = [r \in Run |-> NewRun] /\ lane = [r \in Run |-> [l \in LaneSet |-> NewLane]]
      /\ overtaken = {}
  BY DEF Init
<1>2. NewRun \in RunRecord
  BY EngineAssumption DEF NewRun, RunRecord
<1>3. [l \in LaneSet |-> NewLane] \in [LaneSet -> LaneRecord]
  BY DEF NewLane, LaneRecord
<1> DEFINE ls == [l \in LaneSet |-> NewLane]
<1>4. Of(NewRun.log, 0) = {} /\ \A l \in LaneSet : Of(NewRun.log, l) = {}
  BY DEF NewRun, Of
<1>5. Placed(NewRun, ls)
  <2>1. \A l \in LaneSet : ls[l] = NewLane /\ NoChunk.lane # l
    BY DEF NoChunk, LaneSet
  <2>2. Cardinality({}) = 0
    BY FS_EmptySet
  <2>3. ASSUME NEW l \in LaneSet PROVE LaneOk(NewRun.log, NewRun.held, NewRun.stamped, l, NewLane)
    <3>1. NewRun.held = NoChunk /\ NewLane.at = "unstarted" /\ NewLane.end = "none" /\ NewLane.sent = 0
      BY DEF NewRun, NewLane
    <3>2. Sits(NewRun.held, l, NewLane)
      BY <2>1, <3>1 DEF Sits
    <3>3. Tells(NewRun.log, NewRun.held, l, NewLane)
      BY <1>4, <2>1, <3>1 DEF Tells
    <3>4. Counts(NewRun.log, NewRun.held, NewRun.stamped, l, NewLane)
      BY <1>4, <2>1, <2>2, <3>1 DEF Counts
    <3> QED BY <3>2, <3>3, <3>4 DEF LaneOk
  <2>4. /\ NewRun.log = <<>> /\ NewRun.held = NoChunk /\ NewRun.pump = "idle"
        /\ NoChunk.seq < NewRun.stamped
    BY DEF NewRun, NoChunk
  <2> QED BY <2>1, <2>3, <2>4 DEF Placed
<1>6. Staged(NewRun, ls)
  BY DEF Staged, NewRun, NewLane, IsUp
<1>7. Judged(NewRun, ls)
  BY DEF Judged, NewRun
<1>8. Good(NewRun, ls)
  BY <1>2, <1>3, <1>5, <1>6, <1>7 DEF Good
<1>9. Capped
  <2>1. Active = {} /\ Resolving = {}
    BY <1>1 DEF Active, Resolving, NewRun
  <2>2. Cardinality({}) = 0
    BY FS_EmptySet
  <2> QED BY <1>1, <2>1, <2>2, EngineAssumption DEF Capped, ActiveBounded
<1> HIDE DEF ls
<1>10. \A r \in Run : run[r] = NewRun /\ lane[r] = ls
  BY <1>1 DEF ls
<1> QED BY <1>1, <1>2, <1>3, <1>8, <1>9, <1>10 DEF IInv

LEMMA NextIInv == IInv /\ [Next]_vars => IInv'
<1> SUFFICES ASSUME IInv, [Next]_vars PROVE IInv'
  OBVIOUS
<1>1. Sound /\ Capped
  BY InvariantInParts
<1>2. ASSUME NEW r \in Run, RunStep(r) PROVE Moved(r)
  BY <1>1, <1>2, StartMoves, LaneMoves, PersistMoves, NextStageMoves, SettleMoves, CancelMoves
     DEF RunStep
<1>3. CASE Next
  <2>1. PICK r \in Run : RunStep(r)
    BY <1>3 DEF Next, RunStep
  <2>2. Sound' /\ Capped'
    BY <1>1, <1>2, <2>1, MovedIsSound
  <2> QED BY <2>2 DEF IInv, Sound, TypeOK
<1>4. CASE UNCHANGED vars
  BY <1>4 DEF vars, IInv, Capped, ActiveBounded, Active, Resolving
<1> QED BY <1>3, <1>4

-----------------------------------------------------------------------------
\* The records of runs and lanes keep their shape: a winner is a lane or 0, and
\* a log holds chunks that a lane really sent (runs.ts, orchestrator.ts).
THEOREM TypeCorrect == Spec => []TypeOK
<1>1. IInv => TypeOK
  BY DEF IInv, TypeOK
<1> QED BY <1>1, InitIInv, NextIInv, PTL DEF Spec

\* Merging lanes by a race over their pulls neither loses, repeats nor reorders
\* a chunk of a lane, for any number of lanes and chunks, whatever is cancelled
\* meanwhile (mergeAsyncIterables, publish, driveConcurrent).
THEOREM NothingLostNorRepeated == Spec => []DeliveredOnce
<1>1. IInv => DeliveredOnce
  <2> SUFFICES ASSUME IInv, NEW r \in Run, NEW l \in LaneSet
               PROVE  /\ Cardinality(Delivered(r, l)) + OnWay(r, l) = lane[r][l].sent
                      /\ \A m, n \in Delivered(r, l) :
                            m < n => run[r].log[m].seq < run[r].log[n].seq
                      /\ \A n \in Delivered(r, l) :
                            /\ Held(r, l) => run[r].log[n].seq < run[r].held.seq
                            /\ Ready(r, l) => run[r].log[n].seq < lane[r][l].out.seq
                      /\ Held(r, l) /\ Ready(r, l) => run[r].held.seq < lane[r][l].out.seq
                      /\ run[r].state \in {"done", "error"} => OnWay(r, l) = 0
    BY DEF DeliveredOnce
  <2> DEFINE u == run[r]
             x == lane[r][l]
  <2>1. Sits(u.held, l, x) /\ Counts(u.log, u.held, u.stamped, l, x) /\ Staged(u, lane[r])
    BY DEF IInv, Good, Placed, LaneOk
  <2>2. Delivered(r, l) = Of(u.log, l)
    BY DEF Delivered, Of
  <2>3. ~(Held(r, l) /\ Ready(r, l))
    BY <2>1 DEF Held, Ready, Sits
  <2>4. Cardinality(Of(u.log, l)) \in Nat
    BY OfIsFinite DEF IInv, RunRecord
  <2>5. Cardinality(Delivered(r, l)) + OnWay(r, l) = x.sent
    <3>1. Cardinality(Of(u.log, l)) + (IF Held(r, l) THEN 1 ELSE 0)
             + (IF Ready(r, l) THEN 1 ELSE 0) = x.sent
      BY <2>1 DEF Counts, Held, Ready
    <3> QED BY <2>2, <2>4, <3>1 DEF OnWay
  <2>6. u.state \in {"done", "error"} => ~Held(r, l) /\ ~Ready(r, l)
    BY <2>1 DEF Staged, Sits, Held, Ready
  <2> QED BY <2>1, <2>2, <2>3, <2>5, <2>6 DEF Counts, Held, Ready, OnWay
<1> QED BY <1>1, InitIInv, NextIInv, PTL DEF Spec

\* The state, the winner and the lanes the registry reports agree with what the
\* clients of the run were shown (record.state, winnerLaneId, partial).
THEOREM OutcomeIsTrue == Spec => []OutcomeIsWhatWasSeen
<1>1. IInv => OutcomeIsWhatWasSeen
  <2> SUFFICES ASSUME IInv PROVE OutcomeIsWhatWasSeen
    OBVIOUS
  <2>1. ASSUME NEW r \in Run PROVE SeenOk(r) = ShownOk(run[r].log)
    <3>1. \A n \in DOMAIN run[r].log : run[r].log[n].lane \in LaneSet
      <4>1. run[r].log \in Seq(Sent)
        BY DEF IInv, RunRecord
      <4>2. \A n \in DOMAIN run[r].log : run[r].log[n] \in Sent
        BY <4>1, LogTyped
      <4> QED BY <4>2 DEF Sent
    <3> QED BY <3>1 DEF SeenOk, ShownOk, Of, Range
  <2>2. \A r \in Run : Judged(run[r], lane[r])
    BY DEF IInv, Good
  <2> QED BY <2>1, <2>2 DEF OutcomeIsWhatWasSeen, Judged, Lane
<1> QED BY <1>1, InitIInv, NextIInv, PTL DEF Spec

\* However many requests there are, and whichever of them wait for the store,
\* the runs in progress exceed the cap by no more than those that were overtaken
\* while they waited (RunManager.start).
THEOREM CapHolds == Spec => []ActiveBounded
<1>1. IInv => ActiveBounded
  BY DEF IInv, Capped
<1> QED BY <1>1, InitIInv, NextIInv, PTL DEF Spec

\* Where no session makes start wait, "max runs allowed in the running state at
\* once" is what it says (RunManagerLimits).
THEOREM CapExact == Waits = {} => (Spec => [](Cardinality(Active) <= MaxActive))
<1> SUFFICES ASSUME Waits = {} PROVE Spec => [](Cardinality(Active) <= MaxActive)
  OBVIOUS
<1>1. IInv => Cardinality(Active) <= MaxActive
  <2> SUFFICES ASSUME IInv PROVE Cardinality(Active) <= MaxActive
    OBVIOUS
  <2>1. Active \ overtaken = Active /\ Cardinality(Active \ overtaken) <= MaxActive
    BY DEF IInv, Capped, ActiveBounded
  <2> QED BY <2>1
<1>2. Spec => []IInv
  BY InitIInv, NextIInv, PTL DEF Spec
<1> QED BY <1>1, <1>2, PTL
===============================================================================
