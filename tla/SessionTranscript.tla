-------------------------- MODULE SessionTranscript --------------------------
(***************************************************************************)
(* The conversation a session owns (openSession, packages/core/src/        *)
(* engine.ts) and its durable copy (appendTranscript and loadTranscript,   *)
(* packages/cli/src/history.ts).                                           *)
(*                                                                         *)
(* The live transcript is mutated by newTurn, by the replies the           *)
(* orchestrator summarizes, by record() at the end of the turn and by the  *)
(* compaction of a provider switch.  The store keeps one group of messages *)
(* per sequence number: 2k for the input of a turn, 2k+1 for its reply.    *)
(* A process may stop or crash, and a later one resumes the session from   *)
(* the store.  A message costs one token; its text is its turn and lane.   *)
(***************************************************************************)
EXTENDS Integers, Sequences, FiniteSets, SequencesExt, FiniteSetsExt

CONSTANTS
    Kinds,      \* how turns are dispatched: "single", or one of the primitives
                \* "compare", "race", "consensus" and "chain"
    Lanes,      \* lanes of a turn that is not "single"
    Faults,     \* what may go wrong: "error" (a lane fails), "throw" (the
                \* dispatch itself throws), "crash" (the process dies mid-turn)
    Overlap,    \* may a turn start before the previous one has settled (SDK)?
    MaxTokens,  \* maxTokensNow(): the history budget
    MaxTurns,   \* bound: turns in the life of the session
    MaxStarts,  \* bound: processes that open the session, one after another
    MaxCompactions  \* bound: compactions by an explicit provider switch

ASSUME TranscriptAssumption ==
    /\ Kinds \subseteq {"single", "compare", "race", "consensus", "chain"} /\ Kinds # {}
    /\ Faults \subseteq {"error", "throw", "crash"}
    /\ Overlap \in BOOLEAN
    /\ Lanes \in Nat \ {0} /\ MaxTokens \in Nat \ {0}
    /\ MaxTurns \in Nat /\ MaxStarts \in Nat \ {0} /\ MaxCompactions \in Nat

VARIABLES
    up,         \* is a process holding the session?
    starts,     \* processes that opened it so far
    live,       \* transcript: the live conversation of that process
    seq,        \* the next sequence number it will use
    durable,    \* the transcript table: sequence number -> messages
    turns,      \* the turns so far, oldest first
    overlapped, \* has a turn started before another had settled? (history)
    slipped,    \* has a process resumed a store with free numbers? (history)
    compactions

vars == <<up, starts, live, seq, durable, turns, overlapped, slipped, compactions>>

Question(t)  == [role |-> "user", turn |-> t, lane |-> 0]
Reply(t, l)  == [role |-> "assistant", turn |-> t, lane |-> l]
Summary      == [role |-> "system", turn |-> 0, lane |-> 0]
IsSystem(m)    == m.role = "system"
IsAssistant(m) == m.role = "assistant"

Seqs == 0 .. 2 * MaxTurns + 1
Message == {Question(t) : t \in 1..MaxTurns} \cup {Summary}
             \cup {Reply(t, l) : t \in 1..MaxTurns, l \in 1..Lanes}

\* What one turn's closures remember.  phase "gone": its process is gone, or the
\* caller dropped the turn without recording an outcome.
Turn == [kind : Kinds, at : Seqs, recorded : {<<>>} \cup {<<m>> : m \in Message},
         results : UNION {[1..n -> {"ok", "error"}] : n \in 0..Lanes},
         phase : {"open", "recorded", "rolledBack", "gone"}]

LanesOf(k) == IF k = "single" THEN 1 ELSE Lanes

-----------------------------------------------------------------------------
\* boundTranscript: from the newest message of the head backwards, keep what
\* fits, and every system message; drop the replies that would come first.
BoundLeaky(messages, keepTail) ==
    LET tailLen == Min({keepTail, Len(messages)})
        headLen == Len(messages) - tailLen
        Fits(i) == tailLen + headLen - i + 1 <= MaxTokens
        at      == SelectSeq([i \in 1..headLen |-> i],
                             LAMBDA i : IsSystem(messages[i]) \/ Fits(i))
    IN  [i \in 1..Len(at) |-> messages[at[i]]]
          \o SubSeq(messages, headLen + 1, Len(messages))
BoundTranscript(messages, keepTail) ==
    LET tailLen == Min({keepTail, Len(messages)})
        headLen == Len(messages) - tailLen
        Fits(i) == tailLen + headLen - i + 1 <= MaxTokens
        at      == SelectSeq([i \in 1..headLen |-> i],
                             LAMBDA i : IsSystem(messages[i]) \/ Fits(i))
        kept    == [i \in 1..Len(at) |-> messages[at[i]]]
        first   == SelectInSeq(kept, LAMBDA m : ~IsAssistant(m))
    IN  (IF first = 0 THEN <<>> ELSE SubSeq(kept, first, Len(kept)))
          \o SubSeq(messages, headLen + 1, Len(messages))

\* resumable: drop what follows the last reply.
Resumable(messages) == SubSeq(messages, 1, SelectLastInSeq(messages, IsAssistant))

Without(messages, gone) == SelectSeq(messages, LAMBDA m : m \notin gone)

\* loadTranscript: ORDER BY seq, idx.
Loaded == FlattenSeq([i \in 1 .. 2 * MaxTurns + 2 |-> durable[i - 1]])

OpenTurns == {t \in DOMAIN turns : turns[t].phase = "open"}

-----------------------------------------------------------------------------
Init ==
    /\ up = TRUE /\ starts = 1
    /\ live = <<>> /\ seq = 0
    /\ durable = [s \in Seqs |-> <<>>]
    /\ turns = <<>> /\ overlapped = FALSE /\ slipped = FALSE /\ compactions = 0

\* newTurn: thread the history ahead of the input, persist the input.
NewTurn(k) ==
    /\ up /\ Len(turns) < MaxTurns
    /\ Overlap \/ OpenTurns = {}
    /\ LET input == <<Question(Len(turns) + 1)>>
       IN  /\ live' = BoundTranscript(live \o input, 1)
           /\ durable' = [durable EXCEPT ![seq] = input]
    /\ seq' = seq + 2
    /\ turns' = Append(turns, [kind |-> k, at |-> seq, recorded |-> <<>>,
                               results |-> <<>>, phase |-> "open"])
    /\ overlapped' = (overlapped \/ OpenTurns # {})
    /\ UNCHANGED <<up, starts, slipped, compactions>>

\* recordReply: the reply replaces the one recorded before, in both copies.
RecordReplyStacking(t, reply) ==
    /\ live' = BoundTranscript(live \o reply, 1)
    /\ durable' = [durable EXCEPT ![turns[t].at + 1] = reply]
RecordReply(t, reply) ==
    /\ live' = BoundTranscript(Without(live, Range(turns[t].recorded)) \o reply, 1)
    /\ durable' = [durable EXCEPT ![turns[t].at + 1] = reply]

\* rollbackUnansweredInput: take the input back from both copies.
RollbackLiveOnly(t) ==
    /\ live' = Without(live, {Question(t)})
    /\ UNCHANGED durable
Rollback(t) ==
    /\ live' = Without(live, {Question(t)})
    /\ durable' = [durable EXCEPT ![turns[t].at] = <<>>, ![turns[t].at + 1] = <<>>]

\* The orchestrator summarizes the settled lanes in lane order; a reply is
\* captured by the turn's store.
Summarize(t, status) ==
    /\ up /\ turns[t].phase = "open"
    /\ Len(turns[t].results) < LanesOf(turns[t].kind)
    /\ status = "error" => "error" \in Faults
    /\ LET reply == <<Reply(t, Len(turns[t].results) + 1)>>
       IN  IF status = "ok"
           THEN /\ RecordReply(t, reply)
                /\ turns' = [turns EXCEPT ![t].results = Append(@, status),
                                          ![t].recorded = reply]
           ELSE /\ turns' = [turns EXCEPT ![t].results = Append(@, status)]
                /\ UNCHANGED <<live, durable>>
    /\ UNCHANGED <<up, starts, seq, overlapped, slipped, compactions>>

\* A chain may stop at any stage; every other dispatch settles all its lanes.
Settled(t) == \/ turns[t].kind = "chain"
              \/ Len(turns[t].results) = LanesOf(turns[t].kind)

\* The lanes an outcome may name as its winner.  A comparison names none, and
\* neither does a consensus without a quorum of two.
Winners(t) ==
    LET ok == {l \in DOMAIN turns[t].results : turns[t].results[l] = "ok"}
    IN  CASE turns[t].kind \in {"single", "race"}            -> ok
          [] turns[t].kind = "consensus" /\ Cardinality(ok) > 1 -> ok
          [] turns[t].kind = "chain" /\ ok # {}               -> {Max(ok)}
          [] OTHER                                           -> {}

\* The lane record() is about: the winner, or else the first one.
Decisive(t) == IF Winners(t) = {} THEN {1} ELSE Winners(t)

\* record(outcome): the turn boundary.
Record(t) ==
    /\ up /\ turns[t].phase = "open"
    /\ Settled(t)
    /\ \E l \in Decisive(t) :
          IF l \in DOMAIN turns[t].results /\ turns[t].results[l] = "ok"
          THEN /\ RecordReply(t, <<Reply(t, l)>>)
               /\ turns' = [turns EXCEPT ![t].recorded = <<Reply(t, l)>>,
                                         ![t].phase = "recorded"]
          ELSE /\ Rollback(t)
               /\ turns' = [turns EXCEPT ![t].phase = "rolledBack"]
    /\ UNCHANGED <<up, starts, seq, overlapped, slipped, compactions>>

\* The dispatch throws: the caller's catch reports it and records nothing.
Throw(t) ==
    /\ up /\ turns[t].phase = "open" /\ "throw" \in Faults
    /\ turns' = [turns EXCEPT ![t].phase = "gone"]
    /\ UNCHANGED <<up, starts, live, seq, durable, overlapped, slipped, compactions>>

\* An explicit switch to a smaller context window: compactHistory keeps the
\* newest messages, at least those from the last question on, and puts a
\* summary of the others first; setTranscript bounds the result.
Compact ==
    /\ up /\ OpenTurns = {} /\ compactions < MaxCompactions
    /\ LET talk == SelectSeq(live, LAMBDA m : ~IsSystem(m))
           last == SelectLastInSeq(talk, LAMBDA m : m.role = "user")
       IN  \E from \in 2 .. (IF last = 0 THEN Len(talk) ELSE last) :
              live' = BoundTranscript(SelectSeq(live, IsSystem) \o <<Summary>>
                                        \o SubSeq(talk, from, Len(talk)), 1)
    /\ compactions' = compactions + 1
    /\ UNCHANGED <<up, starts, seq, durable, turns, overlapped, slipped>>

\* The process ends, between turns or (a crash) in the middle of one.
Stop ==
    /\ up
    /\ OpenTurns = {} \/ "crash" \in Faults
    /\ up' = FALSE /\ live' = <<>>
    /\ turns' = [t \in DOMAIN turns |->
                    [turns[t] EXCEPT !.phase = IF @ = "open" THEN "gone" ELSE @]]
    /\ UNCHANGED <<starts, seq, durable, overlapped, slipped, compactions>>

\* Numbers of earlier turns are free: they were rolled back, or never answered.
Gap == \E s \in Seqs : durable[s] = <<>> /\ \E later \in Seqs : later > s /\ durable[later] # <<>>

\* (Mutant: the numbers start over.)
ResumeAtZero ==
    /\ ~up /\ starts < MaxStarts
    /\ up' = TRUE /\ starts' = starts + 1
    /\ live' = IF Loaded = <<>> THEN <<>> ELSE BoundTranscript(Resumable(Loaded), 1)
    /\ seq' = 0 /\ slipped' = (slipped \/ Gap)
    /\ UNCHANGED <<durable, turns, overlapped, compactions>>
\* openSession({resume}): rehydrate, and go on from the message count.
Resume ==
    /\ ~up /\ starts < MaxStarts
    /\ up' = TRUE /\ starts' = starts + 1
    /\ live' = IF Loaded = <<>> THEN <<>> ELSE BoundTranscript(Resumable(Loaded), 1)
    /\ seq' = Len(Loaded) /\ slipped' = (slipped \/ Gap)
    /\ UNCHANGED <<durable, turns, overlapped, compactions>>

Next ==
    \/ \E k \in Kinds : NewTurn(k)
    \/ \E t \in DOMAIN turns : \/ \E status \in {"ok", "error"} : Summarize(t, status)
                               \/ Record(t)
                               \/ Throw(t)
    \/ Compact
    \/ Stop
    \/ Resume

Spec == Init /\ [][Next]_vars

-----------------------------------------------------------------------------
TypeOK ==
    /\ up \in BOOLEAN /\ starts \in 1..MaxStarts
    /\ live \in Seq(Message) /\ durable \in [Seqs -> Seq(Message)]
    /\ seq \in 0 .. 2 * MaxTurns
    /\ turns \in Seq(Turn) /\ Len(turns) <= MaxTurns
    /\ compactions \in 0..MaxCompactions /\ {overlapped, slipped} \subseteq BOOLEAN

Talk == SelectSeq(live, LAMBDA m : ~IsSystem(m))

\* One process, one turn at a time, each settled: no input is left unanswered
\* behind another, and none is taken back after a lane had answered it, as
\* record() does when the lane it is about failed and another had not.
Orderly == /\ starts = 1 /\ ~overlapped
           /\ \A t \in DOMAIN turns :
                 /\ turns[t].phase # "gone"
                 /\ turns[t].phase = "rolledBack" => turns[t].recorded = <<>>

\* What a provider is sent opens on a question, however it was trimmed, unless
\* a compaction put its summary there, and never holds two questions or two
\* replies in a row (boundTranscript, and the rollback of unanswered input).
Alternates ==
    Orderly => /\ Talk # <<>> /\ compactions = 0 => Talk[1].role = "user"
               /\ \A i \in 1 .. Len(Talk) - 1 : Talk[i].role # Talk[i + 1].role

\* The live conversation is the recent part of the durable one: no message
\* is kept, lost, replaced or reordered in only one of the two copies
\* (newTurn, recordReply, rollbackUnansweredInput).
LiveIsRecentDurable == up /\ Orderly => IsSuffix(Talk, Loaded)

\* Once a turn has its recorded reply, its question and its reply stay in the
\* store whatever later turns, failures and resumptions do (seq).
Stored(t) == /\ \E s \in Seqs : Question(t) \in Range(durable[s])
             /\ \E s \in Seqs : Range(turns[t].recorded) \subseteq Range(durable[s])
Kept == \A t \in DOMAIN turns : turns[t].phase = "recorded" => Stored(t)'
AnsweredTurnsKept == [][Kept]_vars

\* That holds as long as no process resumes a store with free numbers: it goes
\* on from the number of messages it has loaded (openSession).
KeptUnlessNumbersAreFree == [][~slipped => Kept]_vars

\* However many lanes settle, and in whatever order concurrent turns do, a
\* turn has at most one reply in each copy, after its question.  A turn rolled
\* back has nothing in the store, and no question in the live copy; a reply is
\* there only if a lane had answered before the outcome was recorded
\* (recordReply's slot, rollbackUnansweredInput).
Positions(s, P(_)) == {i \in DOMAIN s : P(s[i])}
OneReplyPerTurn ==
    \A s \in {live, Loaded}, t \in DOMAIN turns :
       LET qs == Positions(s, LAMBDA m : m = Question(t))
           rs == Positions(s, LAMBDA m : IsAssistant(m) /\ m.turn = t)
       IN  /\ Cardinality(qs) <= 1 /\ Cardinality(rs) <= 1
           /\ \A q \in qs, r \in rs : q < r
           /\ turns[t].phase = "rolledBack" =>
                 /\ qs = {}
                 /\ s = Loaded \/ turns[t].recorded = <<>> => rs = {}
==============================================================================
