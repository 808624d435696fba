------------------------ MODULE StreamPipelineProofs ------------------------
(***************************************************************************)
(* Proofs about StreamPipeline: the consumer sees one well-formed run, a   *)
(* provider is left only when it is safe, and leases are settled in time,  *)
(* for any number of candidates, attempts and chunks, any tools, and any   *)
(* options.                                                                *)
(*                                                                         *)
(* The stream is taken as a whole: what the consumer has taken and what it *)
(* may still take (All).  A chunk of an adapter adds to its end; the       *)
(* invariant ties the stream so far to what the buffers of retry and of    *)
(* fail-over hold, to the calls the source has opened and closed, and to   *)
(* the statuses that the recovery tracker has noted.                       *)
(***************************************************************************)
EXTENDS StreamPipeline, SequenceTheorems, WellFoundedInduction, TLAPS

All == out \o queue

Waiting == {"admit", "attempt", "backoff"}  \* the candidate may still answer
Going   == Waiting \cup {"handover"}

-----------------------------------------------------------------------------
\* A stream as the consumer is promised it.
LegalAt(s, n) ==
    /\ \A m \in 1 .. n - 1 : ~Terminal(s[m])
    /\ n = 1 => s[n].type \in {"run-start", "error"}
    /\ s[n].type = "run-start" => n = 1
    /\ s[n].type = "tool-start" =>
          \A m \in 1 .. n - 1 : ~(s[m].type = "tool-start" /\ s[m].id = s[n].id)
    /\ s[n].type = "tool-end" =>
          /\ \E m \in 1 .. n - 1 : s[m].type = "tool-start" /\ s[m].id = s[n].id
          /\ \A m \in 1 .. n - 1 : ~(s[m].type = "tool-end" /\ s[m].id = s[n].id)
LegalStream(s) == \A n \in 1 .. Len(s) : LegalAt(s, n)

\* Its chunks come from the candidates so far, each from one attempt, and only
\* actions and run-ends name a call.
Names(c) == c.id # NoId => c.type \in {"tool-start", "tool-end", "tool-result", "run-end"}
StampsRight(s) ==
    \A n \in 1 .. Len(s) :
       /\ s[n].cand <= cand /\ (s[n].cand = cand => s[n].att = attempt)
       /\ s[n].id = NoId \/ s[n].id[1] = s[n].cand
       /\ Names(s[n])
       /\ \A m \in 1 .. Len(s) : s[m].cand = s[n].cand => s[m].att = s[n].att

\* Candidate c has shown nothing, or nothing that must not be repeated.
LeftSafely(s, c) ==
    (\E n \in 1 .. Len(s) : s[n].cand = c /\ ~Terminal(s[n])) =>
       /\ setup.recovery
       /\ \A n \in 1 .. Len(s) :
             s[n].cand = c /\ s[n].type = "tool-start" /\ ToolOf(s[n].id) \in WriteTool =>
                /\ ToolOf(s[n].id) \in Approved
                /\ \E m \in 1 .. Len(s) :
                      s[m].cand = c /\ s[m].type = "tool-result" /\ s[m].id = s[n].id
AllLeftSafely(s) == \A c \in 1 .. cand - 1 : LeftSafely(s, c)

StreamInv(s) == LegalStream(s) /\ StampsRight(s) /\ AllLeftSafely(s)

\* No terminal has been sent, and nothing was lost track of: of the current
\* candidate the calls that were started and ended are S and D, and sn knows
\* what became of them.
Tracked(s, sn) ==
    /\ \A n \in 1 .. Len(s) :
          s[n].type = "tool-start" /\ s[n].cand = cand =>
             s[n].id \in ToolIds /\ sn.acts[s[n].id] # "none"
    /\ \A i \in ToolIds :
          /\ i[1] = cand /\ sn.acts[i] = "completed" =>
                \E n \in 1 .. Len(s) :
                   s[n].cand = cand /\ s[n].type = "tool-result" /\ s[n].id = i
          /\ i[1] > cand => sn.acts[i] = "none"
    /\ sn.content => s # <<>>
NoTerminal(s) == \A n \in 1 .. Len(s) : ~Terminal(s[n])
CallsKnown(s, S, D) ==
    /\ \A n \in 1 .. Len(s) : s[n].cand = cand =>
          /\ s[n].type = "tool-start" => s[n].id \in S
          /\ s[n].type = "tool-end" => s[n].id \in D
    /\ \A i \in S : \E n \in 1 .. Len(s) : s[n].type = "tool-start" /\ s[n].id = i

\* The state of fail-over: only a continuing candidate withholds anything, and
\* one that is not shows nothing before it commits.
FoRight(s, f, sn) ==
    /\ f.committed => f.pre = <<>>
    /\ recovering <=> f.overlap # "none"
    /\ recovering \/ f.committed => s # <<>>
    /\ ~recovering /\ ~f.committed => s = <<>>
    /\ recovering /\ ~f.committed => SafeToContinue(sn)

\* A preamble: opened by a run-start, with the stamp of the attempt.
PreambleRight(pre) ==
    \A n \in 1 .. Len(pre) :
       /\ Preamble(pre[n]) /\ pre[n].cand = cand /\ pre[n].att = attempt
       /\ pre[n].id = NoId
       /\ pre[n].type = "run-start" <=> n = 1
Buffered(pre) ==
    \A n \in 1 .. Len(pre) :
       pre[n].cand = cand /\ pre[n].att = attempt /\ Preamble(pre[n]) /\ pre[n].id = NoId

SourceInv ==
    phase \in Waiting =>
       /\ PreambleRight(rty.pre) /\ (rty.committed => rty.pre = <<>>)
       /\ src.started <=> rty.committed \/ rty.pre # <<>>
       /\ src.open = rty.started \ rty.ended /\ src.closed = rty.ended
       /\ rty.ended \subseteq rty.started
       /\ \A i \in rty.started : i[1] = cand
       /\ phase = "backoff" => ~rty.committed /\ queue = <<>> /\ attempt < setup.attempts
       /\ phase # "backoff" => src.n <= setup.chunks

WaitingInv ==
    phase \in Waiting =>
       /\ NoTerminal(All) /\ Tracked(All, seen) /\ FoRight(All, fo, seen)
       /\ CallsKnown(All, rty.started, rty.ended)
       /\ ~rty.committed => /\ fo.pre = <<>> /\ ~fo.committed
                            /\ \A n \in 1 .. Len(All) : All[n].cand # cand
       /\ Buffered(fo.pre)
       /\ ~recovering /\ rty.committed => fo.committed

HandoverInv ==
    phase = "handover" =>
       /\ NoTerminal(All) /\ Tracked(All, seen) /\ cand < Candidate
       /\ handed.error.type = "error" /\ handed.error.id = NoId
       /\ handed.error.cand = cand /\ handed.error.att = attempt
       /\ handed.plan => SafeToContinue(seen)
       /\ ~handed.plan => All = <<>>

OutputInv ==
    /\ StreamInv(All)
    /\ \A n \in 1 .. Len(queue) : queue[n].cand = cand
    /\ phase \in {"left", "threw"} => NoTerminal(All)

IInv == SourceInv /\ WaitingInv /\ HandoverInv /\ OutputInv /\ LeaseSettledInTime

-----------------------------------------------------------------------------
\* Sequences: one more element, and two sequences joined.
LEMMA Appended ==
    ASSUME NEW S, NEW s \in Seq(S), NEW e \in S
    PROVE  /\ Append(s, e) \in Seq(S) /\ Append(s, e) # <<>>
           /\ Len(s) \in Nat /\ Len(Append(s, e)) = Len(s) + 1
           /\ \A i \in 1 .. Len(s) : Append(s, e)[i] = s[i] /\ s[i] \in S
           /\ Append(s, e)[Len(s) + 1] = e
           /\ \A i \in 1 .. Len(s) + 1 : i \in 1 .. Len(s) \/ i = Len(s) + 1
  BY AppendProperties, LenProperties, ElementOfSeq

LEMMA Joined ==
    ASSUME NEW S, NEW s \in Seq(S), NEW t \in Seq(S)
    PROVE  /\ s \o t \in Seq(S) /\ Len(s) \in Nat /\ Len(t) \in Nat
           /\ Len(s \o t) = Len(s) + Len(t)
           /\ \A i \in 1 .. Len(s) : (s \o t)[i] = s[i] /\ s[i] \in S
           /\ \A i \in 1 .. Len(t) : (s \o t)[Len(s) + i] = t[i] /\ t[i] \in S
           /\ \A i \in 1 .. Len(s) + Len(t) :
                 i \in 1 .. Len(s) \/ (i - Len(s) \in 1 .. Len(t) /\ (s \o t)[i] = t[i - Len(s)])
<1>1. /\ s \o t \in Seq(S) /\ Len(s) \in Nat /\ Len(t) \in Nat
      /\ Len(s \o t) = Len(s) + Len(t)
  BY ConcatProperties, LenProperties
<1>2. \A i \in 1 .. Len(s) : (s \o t)[i] = s[i] /\ s[i] \in S
  BY <1>1, ConcatProperties, ElementOfSeq
<1>3. \A i \in 1 .. Len(t) : (s \o t)[Len(s) + i] = t[i] /\ t[i] \in S
  BY <1>1, ConcatProperties, ElementOfSeq
<1>4. \A i \in 1 .. Len(s) + Len(t) :
                 i \in 1 .. Len(s) \/ (i - Len(s) \in 1 .. Len(t) /\ (s \o t)[i] = t[i - Len(s)])
  BY <1>1, ConcatProperties
<1> QED BY <1>1, <1>2, <1>3, <1>4

-----------------------------------------------------------------------------
\* Chunks.
Types   == {"run-start", "session-init", "usage", "text", "tool-start", "tool-end",
            "tool-result", "run-end", "error"}
CallTypes == {"tool-start", "tool-end", "tool-result"}
Classes == {"none", "ok", "empty", "filtered", "retryable", "eligible", "fatal"}
Here    == cand \in 1 .. Candidate /\ attempt \in 1 .. setup.attempts

\* A chunk of the attempt that is under way: only actions and run-ends name a
\* call, and it is one of this candidate.
OfAttempt(c) ==
    /\ c \in Stamped /\ c.cand = cand /\ c.att = attempt
    /\ c.type \in CallTypes => c.id \in ToolIds /\ c.id[1] = cand
    /\ c.type \notin CallTypes \cup {"run-end"} => c.id = NoId
    /\ c.id # NoId => c.id \in ToolIds /\ c.id[1] = cand

LEMMA IdParts ==
    /\ \A i \in ToolIds : i[1] \in 1 .. Candidate /\ i[2] \in Tool /\ ToolOf(i) = i[2] /\ i # NoId
    /\ Here => \A t \in Tool : ToolId(t) \in ToolIds /\ ToolId(t)[1] = cand
<1>1. \A i \in ToolIds : i[1] \in 1 .. Candidate /\ i[2] \in Tool /\ ToolOf(i) = i[2]
  BY DEF ToolIds, ToolOf
<1>2. \A i \in ToolIds : i # NoId
  BY PipelineAssumption, <1>1 DEF NoId, Tool
<1>3. ASSUME Here PROVE \A t \in Tool : ToolId(t) \in ToolIds /\ ToolId(t)[1] = cand
  BY <1>3 DEF Here, ToolIds, ToolId
<1> QED BY <1>1, <1>2, <1>3

LEMMA ChunkParts ==
    ASSUME Here, NEW t \in Types, NEW i \in ToolIds \cup {NoId}, NEW k \in Classes
    PROVE  /\ Chunk(t, i, k).type = t /\ Chunk(t, i, k).id = i /\ Chunk(t, i, k).class = k
           /\ Chunk(t, i, k).cand = cand /\ Chunk(t, i, k).att = attempt
           /\ Chunk(t, i, k) \in Stamped
  BY DEF Chunk, Stamped, Types, Classes, Here

LEMMA OfAttemptChunk ==
    ASSUME Here, NEW t \in Types, NEW i \in ToolIds \cup {NoId}, NEW k \in Classes,
           t \in CallTypes => i # NoId, t \notin CallTypes \cup {"run-end"} => i = NoId,
           i # NoId => i[1] = cand
    PROVE  OfAttempt(Chunk(t, i, k)) /\ Chunk(t, i, k).type = t /\ Chunk(t, i, k).class = k
           /\ Chunk(t, i, k).id = i
  BY ChunkParts DEF OfAttempt

LEMMA ErrParts ==
    ASSUME Here, NEW k \in Classes
    PROVE  OfAttempt(Err(k)) /\ Err(k).type = "error" /\ Err(k).class = k
  BY OfAttemptChunk DEF Err, CallTypes, Types

LEMMA PlainParts ==
    ASSUME Here, NEW t \in {"run-start", "session-init", "usage", "text"}
    PROVE  OfAttempt(Plain(t)) /\ Plain(t).type = t
<1>1. t \in Types /\ t \notin CallTypes /\ "none" \in Classes
  BY DEF CallTypes, Types, Classes
<1>2. t \notin CallTypes \cup {"run-end"} /\ NoId \in ToolIds \cup {NoId}
  BY <1>1
<1>3. (t \in CallTypes => NoId # NoId) /\ (NoId # NoId => NoId[1] = cand)
  BY <1>1
<1>4. OfAttempt(Chunk(t, NoId, "none"))
  BY <1>1, <1>2, <1>3, OfAttemptChunk
<1>5. Chunk(t, NoId, "none").type = t
  BY <1>1, <1>2, <1>3, OfAttemptChunk
<1> QED BY <1>4, <1>5 DEF Plain

LEMMA RawParts ==
    ASSUME Here, setup \in Setups, NEW c \in Raw
    PROVE  /\ OfAttempt(c)
           /\ c.type = "run-end" => c.class \in {"ok", "empty", "filtered"}
<1>1. setup.tools \subseteq Tool
  BY PipelineAssumption
<1>2. \A t \in Tool : ToolId(t) \in ToolIds /\ ToolId(t)[1] = cand /\ ToolId(t) # NoId
  BY IdParts
<1>3. CASE c \in {Plain(t) : t \in setup.sends \cap {"run-start", "session-init", "usage", "text"}}
  BY <1>3, PlainParts
<1>4. CASE c \in {Chunk(t, ToolId(k), "none") :
                    t \in setup.sends \cap {"tool-start", "tool-end", "tool-result"},
                    k \in setup.tools}
  <2>1. PICK t \in CallTypes, k \in Tool : c = Chunk(t, ToolId(k), "none")
    BY <1>1, <1>4 DEF CallTypes
  <2>2. t \in Types /\ t # "run-end" /\ "none" \in Classes
    BY DEF CallTypes, Types, Classes
  <2>3. /\ ToolId(k) \in ToolIds \cup {NoId} /\ ToolId(k) # NoId
        /\ ToolId(k)[1] = cand /\ t \in CallTypes \cup {"run-end"}
    BY <1>2, <2>1
  <2>4. OfAttempt(Chunk(t, ToolId(k), "none"))
    BY <2>2, <2>3, OfAttemptChunk
  <2>5. Chunk(t, ToolId(k), "none").type = t
    BY <2>2, <2>3, OfAttemptChunk
  <2> QED BY <2>1, <2>2, <2>4, <2>5
<1>5. CASE c \in {Chunk("run-end", NoId, k) : k \in {"ok", "empty", "filtered"}}
  <2>1. PICK k \in {"ok", "empty", "filtered"} : c = Chunk("run-end", NoId, k)
    BY <1>5
  <2>2. "run-end" \in Types /\ "run-end" \notin CallTypes /\ k \in Classes
    BY DEF CallTypes, Types, Classes
  <2>3. OfAttempt(c) /\ c.class = k
    BY <2>1, <2>2, OfAttemptChunk
  <2> QED BY <2>3
<1>6. CASE c \in {Chunk("run-end", ToolId(k), "ok") : k \in setup.tools}
  <2>1. PICK k \in Tool : c = Chunk("run-end", ToolId(k), "ok")
    BY <1>1, <1>6
  <2>2. "run-end" \in Types /\ "run-end" \notin CallTypes /\ "ok" \in Classes
    BY DEF CallTypes, Types, Classes
  <2>3. OfAttempt(c) /\ c.class = "ok"
    BY <1>2, <2>1, <2>2, OfAttemptChunk
  <2> QED BY <2>3
<1>7. CASE c \in {Err(k) : k \in {"retryable", "eligible", "fatal"}}
  BY <1>7, ErrParts DEF Classes
<1> QED BY <1>3, <1>4, <1>5, <1>6, <1>7 DEF Raw

-----------------------------------------------------------------------------
\* A chunk that may come after s.
Follows(s, c) ==
    /\ NoTerminal(s)
    /\ s = <<>> => c.type \in {"run-start", "error"}
    /\ c.type = "run-start" => s = <<>>
    /\ c.type = "tool-start" =>
          \A m \in 1 .. Len(s) : ~(s[m].type = "tool-start" /\ s[m].id = c.id)
    /\ c.type = "tool-end" =>
          /\ \E m \in 1 .. Len(s) : s[m].type = "tool-start" /\ s[m].id = c.id
          /\ \A m \in 1 .. Len(s) : ~(s[m].type = "tool-end" /\ s[m].id = c.id)

LEMMA EmptyIffNone ==
    ASSUME NEW S, NEW s \in Seq(S)
    PROVE  (s = <<>> <=> Len(s) = 0) /\ Len(s) \in Nat
  BY LenProperties, EmptySeq

LEMMA LegalAppend ==
    ASSUME NEW s \in Seq(Stamped), NEW c \in Stamped, LegalStream(s), Follows(s, c)
    PROVE  LegalStream(Append(s, c))
<1> DEFINE t == Append(s, c)
           N == Len(s)
<1>1. /\ N \in Nat /\ Len(t) = N + 1 /\ t[N + 1] = c
      /\ \A i \in 1 .. N : t[i] = s[i]
      /\ \A i \in 1 .. N + 1 : i \in 1 .. N \/ i = N + 1
      /\ s = <<>> <=> N = 0
  BY Appended, EmptyIffNone
<1> HIDE DEF t, N
<1>2. ASSUME NEW n \in 1 .. N PROVE LegalAt(t, n)
  <2>1. LegalAt(s, n) /\ t[n] = s[n] /\ \A m \in 1 .. n - 1 : t[m] = s[m] /\ m \in 1 .. N
    BY <1>1 DEF LegalStream, N
  <2> QED BY <2>1 DEF LegalAt
<1>3. LegalAt(t, N + 1)
  <2>1. \A m \in 1 .. (N + 1) - 1 : t[m] = s[m] /\ m \in 1 .. N
    BY <1>1
  <2>2. \A m \in 1 .. N : m \in 1 .. (N + 1) - 1
    BY <1>1
  <2>3. N + 1 = 1 <=> s = <<>>
    BY <1>1
  <2> QED BY <1>1, <2>1, <2>2, <2>3 DEF LegalAt, Follows, NoTerminal, N
<1> QED BY <1>1, <1>2, <1>3 DEF LegalStream, t

LEMMA StampsAppend ==
    ASSUME NEW s \in Seq(Stamped), NEW c, Here, OfAttempt(c), StampsRight(s)
    PROVE  StampsRight(Append(s, c))
<1> DEFINE t == Append(s, c)
           N == Len(s)
<1>1. /\ N \in Nat /\ Len(t) = N + 1 /\ t[N + 1] = c
      /\ \A i \in 1 .. N : t[i] = s[i]
      /\ \A i \in 1 .. N + 1 : i \in 1 .. N \/ i = N + 1
  BY Appended DEF OfAttempt
<1> HIDE DEF t
<1>2. ASSUME NEW n \in 1 .. N + 1
      PROVE  /\ t[n].cand <= cand /\ (t[n].cand = cand => t[n].att = attempt)
             /\ t[n].id = NoId \/ t[n].id[1] = t[n].cand
  BY <1>1 DEF StampsRight, OfAttempt, Here
<1>3. ASSUME NEW n \in 1 .. N + 1 PROVE Names(t[n])
  <2>1. Names(c)
    BY DEF OfAttempt, Names, CallTypes
  <2> QED BY <1>1, <2>1 DEF StampsRight
<1>4. ASSUME NEW n \in 1 .. N + 1, NEW m \in 1 .. N + 1, t[m].cand = t[n].cand
      PROVE  t[m].att = t[n].att
  <2>1. CASE n \in 1 .. N /\ m \in 1 .. N
    BY <1>1, <1>4, <2>1 DEF StampsRight
  <2>2. CASE n = N + 1 \/ m = N + 1
    BY <1>1, <1>2, <1>4, <2>2 DEF OfAttempt
  <2> QED BY <1>1, <2>1, <2>2
<1> QED BY <1>1, <1>2, <1>3, <1>4 DEF StampsRight, t

LEMMA LeftAppend ==
    ASSUME NEW s \in Seq(Stamped), NEW c \in Stamped, Here, c.cand = cand, AllLeftSafely(s)
    PROVE  AllLeftSafely(Append(s, c))
<1> DEFINE t == Append(s, c)
           N == Len(s)
<1>1. /\ N \in Nat /\ Len(t) = N + 1 /\ t[N + 1] = c
      /\ \A i \in 1 .. N : t[i] = s[i] /\ i \in 1 .. N + 1
      /\ \A i \in 1 .. N + 1 : i \in 1 .. N \/ i = N + 1
  BY Appended
<1> SUFFICES ASSUME NEW k \in 1 .. cand - 1 PROVE LeftSafely(t, k)
  BY DEF AllLeftSafely
<1>2. LeftSafely(s, k) /\ c.cand # k
  BY DEF AllLeftSafely, Here
<1> HIDE DEF t
<1>3. \A n \in 1 .. N + 1 : t[n].cand = k => n \in 1 .. N /\ t[n] = s[n]
  BY <1>1, <1>2
<1> QED BY <1>1, <1>2, <1>3 DEF LeftSafely

LEMMA StreamAppend ==
    ASSUME NEW s \in Seq(Stamped), NEW c, Here, OfAttempt(c), StreamInv(s), Follows(s, c)
    PROVE  StreamInv(Append(s, c)) /\ Append(s, c) \in Seq(Stamped)
<1>1. c \in Stamped /\ c.cand = cand
  BY DEF OfAttempt
<1> QED BY <1>1, LegalAppend, StampsAppend, LeftAppend, Appended DEF StreamInv

-----------------------------------------------------------------------------
\* A buffered preamble that may come after s.
FollowsPre(s, p) ==
    /\ NoTerminal(s) /\ Buffered(p)
    /\ \A n \in 1 .. Len(p) : p[n].type = "run-start" <=> n = 1 /\ s = <<>>

LEMMA LegalJoin ==
    ASSUME NEW s \in Seq(Stamped), NEW p \in Seq(Stamped), LegalStream(s), FollowsPre(s, p)
    PROVE  LegalStream(s \o p) /\ NoTerminal(s \o p)
<1> DEFINE t == s \o p
           N == Len(s)
           M == Len(p)
<1>1. /\ N \in Nat /\ M \in Nat /\ Len(t) = N + M
      /\ \A i \in 1 .. N : t[i] = s[i]
      /\ \A i \in 1 .. N + M : i \in 1 .. N \/ (i - N \in 1 .. M /\ t[i] = p[i - N])
      /\ s = <<>> <=> N = 0
  BY Joined, EmptyIffNone
<1> HIDE DEF t
<1>2. \A i \in 1 .. M : Preamble(p[i])
  BY DEF FollowsPre, Buffered
<1>3. \A i \in 1 .. N + M : ~Terminal(t[i])
  BY <1>1, <1>2 DEF FollowsPre, NoTerminal, Preamble, Terminal
<1>4. ASSUME NEW n \in 1 .. N + M PROVE LegalAt(t, n)
  <2>1. \A m \in 1 .. n - 1 : m \in 1 .. N + M
    BY <1>1
  <2>2. CASE n \in 1 .. N
    <3>1. LegalAt(s, n) /\ t[n] = s[n] /\ \A m \in 1 .. n - 1 : t[m] = s[m]
      BY <1>1, <2>2 DEF LegalStream
    <3> QED BY <3>1 DEF LegalAt
  <2>3. CASE n - N \in 1 .. M /\ t[n] = p[n - N]
    <3>1. t[n].type \in {"run-start", "session-init", "usage"}
      BY <1>2, <2>3 DEF Preamble
    <3>2. t[n].type = "run-start" <=> n - N = 1 /\ N = 0
      BY <1>1, <2>3 DEF FollowsPre
    <3>3. t[n].type = "run-start" <=> n = 1
      BY <1>1, <2>3, <3>2
    <3> QED BY <1>3, <2>1, <3>1, <3>3 DEF LegalAt
  <2> QED BY <1>1, <2>2, <2>3
<1> QED BY <1>1, <1>3, <1>4 DEF LegalStream, NoTerminal, t

LEMMA StampsJoin ==
    ASSUME NEW s \in Seq(Stamped), NEW p \in Seq(Stamped), Here, StampsRight(s), Buffered(p)
    PROVE  StampsRight(s \o p)
<1> DEFINE t == s \o p
           N == Len(s)
           M == Len(p)
<1>1. /\ N \in Nat /\ M \in Nat /\ Len(t) = N + M
      /\ \A i \in 1 .. N : t[i] = s[i]
      /\ \A i \in 1 .. N + M : i \in 1 .. N \/ (i - N \in 1 .. M /\ t[i] = p[i - N])
  BY Joined
<1>2. \A i \in 1 .. M : p[i].cand = cand /\ p[i].att = attempt /\ p[i].id = NoId
  BY DEF Buffered
<1>3. \A n \in 1 .. N :
         /\ s[n].cand <= cand /\ (s[n].cand = cand => s[n].att = attempt)
         /\ s[n].id = NoId \/ s[n].id[1] = s[n].cand
         /\ Names(s[n])
         /\ \A m \in 1 .. N : s[m].cand = s[n].cand => s[m].att = s[n].att
  BY DEF StampsRight
<1>4. cand <= cand
  BY DEF Here
<1> HIDE DEF t, N, M
<1>5. \A i \in 1 .. N + M :
         \/ i \in 1 .. N /\ t[i] = s[i]
         \/ t[i].cand = cand /\ t[i].att = attempt /\ t[i].id = NoId
  <2> SUFFICES ASSUME NEW i \in 1 .. N + M, i \notin 1 .. N
               PROVE  t[i].cand = cand /\ t[i].att = attempt /\ t[i].id = NoId
    BY <1>1
  <2>1. i - N \in 1 .. M /\ t[i] = p[i - N]
    BY <1>1
  <2> QED BY <1>2, <2>1
<1>6. \A n \in 1 .. N + M : t[n].cand <= cand /\ (t[n].cand = cand => t[n].att = attempt)
  BY <1>3, <1>4, <1>5
<1>7. \A n \in 1 .. N + M : t[n].id = NoId \/ t[n].id[1] = t[n].cand
  BY <1>3, <1>5
<1>8. \A n \in 1 .. N + M : Names(t[n])
  BY <1>3, <1>5 DEF Names
<1>9. ASSUME NEW n \in 1 .. N + M, NEW m \in 1 .. N + M, t[m].cand = t[n].cand
      PROVE  t[m].att = t[n].att
  <2>1. CASE t[n].cand = cand
    BY <1>6, <1>9, <2>1
  <2>2. CASE t[n].cand # cand
    BY <1>3, <1>5, <1>9, <2>2
  <2> QED BY <2>1, <2>2
<1> QED BY <1>1, <1>6, <1>7, <1>8, <1>9 DEF StampsRight, t

LEMMA LeftJoin ==
    ASSUME NEW s \in Seq(Stamped), NEW p \in Seq(Stamped), Here, Buffered(p), AllLeftSafely(s)
    PROVE  AllLeftSafely(s \o p)
<1> DEFINE t == s \o p
           N == Len(s)
           M == Len(p)
<1>1. /\ N \in Nat /\ M \in Nat /\ Len(t) = N + M
      /\ \A i \in 1 .. N : t[i] = s[i]
      /\ \A i \in 1 .. N : i \in 1 .. N + M
      /\ \A i \in 1 .. N + M : i \in 1 .. N \/ (i - N \in 1 .. M /\ t[i] = p[i - N])
  BY Joined
<1> SUFFICES ASSUME NEW k \in 1 .. cand - 1 PROVE LeftSafely(t, k)
  BY DEF AllLeftSafely
<1>2. LeftSafely(s, k) /\ k # cand
  BY DEF AllLeftSafely, Here
<1>3. \A i \in 1 .. M : p[i].cand = cand
  BY DEF Buffered
<1> HIDE DEF t, M, N
<1>4. \A n \in 1 .. N + M : t[n].cand = k => n \in 1 .. N /\ t[n] = s[n]
  BY <1>1, <1>2, <1>3
<1>5. ASSUME \E n \in 1 .. Len(t) : t[n].cand = k /\ ~Terminal(t[n])
      PROVE  \E n \in 1 .. Len(s) : s[n].cand = k /\ ~Terminal(s[n])
  BY <1>1, <1>4, <1>5 DEF N
<1>6. ASSUME NEW n \in 1 .. Len(t), LeftSafely(s, k), setup.recovery,
             \E j \in 1 .. Len(s) : s[j].cand = k /\ ~Terminal(s[j]),
             t[n].cand = k, t[n].type = "tool-start", ToolOf(t[n].id) \in WriteTool
      PROVE  /\ ToolOf(t[n].id) \in Approved
             /\ \E m \in 1 .. Len(t) :
                   t[m].cand = k /\ t[m].type = "tool-result" /\ t[m].id = t[n].id
  <2>1. n \in 1 .. Len(s) /\ t[n] = s[n]
    BY <1>1, <1>4, <1>6 DEF N
  <2>2. /\ ToolOf(s[n].id) \in Approved
        /\ \E m \in 1 .. Len(s) :
              s[m].cand = k /\ s[m].type = "tool-result" /\ s[m].id = s[n].id
    BY <1>6, <2>1 DEF LeftSafely
  <2> QED BY <1>1, <2>1, <2>2 DEF N
<1>7. (\E j \in 1 .. Len(s) : s[j].cand = k /\ ~Terminal(s[j])) => setup.recovery
  BY <1>2 DEF LeftSafely
<1> QED BY <1>2, <1>5, <1>6, <1>7 DEF LeftSafely

LEMMA StreamJoin ==
    ASSUME NEW s \in Seq(Stamped), NEW p \in Seq(Stamped), Here, StreamInv(s), FollowsPre(s, p)
    PROVE  StreamInv(s \o p) /\ NoTerminal(s \o p) /\ s \o p \in Seq(Stamped)
<1>1. Buffered(p)
  BY DEF FollowsPre
<1> QED BY <1>1, LegalJoin, StampsJoin, LeftJoin, Joined DEF StreamInv

-----------------------------------------------------------------------------
\* Functions defined by recursion on an initial segment of the naturals.
LEMMA Least == \A S \in SUBSET Nat : S # {} => \E m \in S : \A k \in S : m <= k
<1> SUFFICES ASSUME NEW S \in SUBSET Nat, S # {} PROVE \E m \in S : \A k \in S : m <= k
  OBVIOUS
<1> DEFINE R == {ss \in Nat \X Nat : ss[1] < ss[2]}
<1>1. IsWellFoundedOn(R, Nat)
  BY NatLessThanWellFounded DEF OpToRel
<1>2. PICK m \in S : \A k \in S : ~(<<k, m>> \in R)
  BY <1>1, WFMin
<1>3. \A k \in S : ~(k < m)
  BY <1>2
<1> QED BY <1>3

\* The usage among the first n chunks of a preamble, for each n.
OneUsage(u, c) == IF c.type = "usage" THEN Append(u, c) ELSE u
Usages(pre, m, f) == f = [n \in 0 .. m |-> IF n = 0 THEN <<>> ELSE OneUsage(f[n - 1], pre[n])]

LEMMA UsagesAt ==
    ASSUME NEW pre, NEW m \in Nat, NEW f, Usages(pre, m, f), NEW n \in 0 .. m
    PROVE  f[n] = IF n = 0 THEN <<>> ELSE OneUsage(f[n - 1], pre[n])
  BY DEF Usages

LEMMA UsagesExist == \A pre : \A m \in Nat : \E f : Usages(pre, m, f)
<1> SUFFICES ASSUME NEW pre PROVE \A m \in Nat : \E f : Usages(pre, m, f)
  OBVIOUS
<1> DEFINE S == {m \in Nat : ~ \E f : Usages(pre, m, f)}
<1> SUFFICES ASSUME S # {} PROVE FALSE
  OBVIOUS
<1>1. PICK m \in S : \A k \in S : m <= k
  BY Least
<1>2. m # 0
  <2>1. Usages(pre, 0, [n \in 0 .. 0 |-> <<>>])
    BY DEF Usages
  <2> QED BY <2>1
<1>3. m \in Nat /\ m - 1 \in Nat /\ m - 1 \notin S
  BY <1>1, <1>2
<1>4. PICK f : Usages(pre, m - 1, f)
  BY <1>3
<1> DEFINE g == [n \in 0 .. m |-> IF n <= m - 1 THEN f[n] ELSE OneUsage(f[m - 1], pre[m])]
<1>5. \A n \in 0 .. m : g[n] = IF n = 0 THEN <<>> ELSE OneUsage(g[n - 1], pre[n])
  <2> TAKE n \in 0 .. m
  <2>1. CASE n = m
    BY <1>2, <1>3, <2>1
  <2>2. CASE n # m
    <3>1. n \in 0 .. m - 1
      BY <1>3, <2>2
    <3>2. f[n] = IF n = 0 THEN <<>> ELSE OneUsage(f[n - 1], pre[n])
      BY <1>3, <1>4, <3>1, UsagesAt
    <3>3. g[n] = f[n] /\ (n # 0 => g[n - 1] = f[n - 1])
      BY <1>3, <3>1
    <3> QED BY <3>2, <3>3
  <2> QED BY <2>1, <2>2
<1>6. Usages(pre, m, g)
  BY <1>5 DEF Usages
<1> QED BY <1>1, <1>6

\* A continuing candidate shows only the usage of its preamble.
LEMMA UsageParts ==
    ASSUME NEW pre \in Seq(Stamped), Buffered(pre)
    PROVE  /\ UsageOf(pre) \in Seq(Stamped) /\ Buffered(UsageOf(pre))
           /\ \A i \in 1 .. Len(UsageOf(pre)) : UsageOf(pre)[i].type = "usage"
<1> DEFINE N == Len(pre)
           of == CHOOSE f : Usages(pre, N, f)
           Good(u) == /\ u \in Seq(Stamped) /\ Buffered(u)
                      /\ \A i \in 1 .. Len(u) : u[i].type = "usage"
           Bad == {n \in 0 .. N : ~Good(of[n])}
<1>1. N \in Nat
  BY LenProperties
<1>2. Usages(pre, N, of)
  BY <1>1, UsagesExist
<1>3. UsageOf(pre) = of[N]
  BY DEF UsageOf, Usages, OneUsage
<1>4. Good(<<>>)
  BY DEF Buffered
<1>5. ASSUME NEW u, Good(u), NEW n \in 1 .. N PROVE Good(OneUsage(u, pre[n]))
  <2>1. pre[n] \in Stamped
    BY <1>1, <1>5, ElementOfSeq
  <2>2. CASE pre[n].type = "usage"
    <3>1. /\ Append(u, pre[n]) \in Seq(Stamped)
          /\ \A i \in 1 .. Len(Append(u, pre[n])) :
                i \in 1 .. Len(u) \/ Append(u, pre[n])[i] = pre[n]
          /\ \A i \in 1 .. Len(u) : Append(u, pre[n])[i] = u[i]
      BY <1>5, <2>1, Appended
    <3>2. Buffered(Append(u, pre[n]))
      BY <1>5, <3>1 DEF Buffered
    <3>3. \A i \in 1 .. Len(Append(u, pre[n])) : Append(u, pre[n])[i].type = "usage"
      BY <1>5, <2>2, <3>1
    <3> QED BY <2>2, <3>1, <3>2, <3>3 DEF OneUsage
  <2>3. CASE pre[n].type # "usage"
    BY <1>5, <2>3 DEF OneUsage
  <2> QED BY <2>2, <2>3
<1>6. Bad = {}
  <2> SUFFICES ASSUME Bad # {} PROVE FALSE
    OBVIOUS
  <2>1. Bad \in SUBSET Nat
    BY <1>1
  <2>2. PICK n \in Bad : \A k \in Bad : n <= k
    BY <2>1, Least
  <2> HIDE DEF of, Good
  <2>3. n \in 0 .. N /\ ~Good(of[n])
    BY <2>2
  <2>4. of[n] = IF n = 0 THEN <<>> ELSE OneUsage(of[n - 1], pre[n])
    BY <1>1, <1>2, <2>3, UsagesAt
  <2>5. n # 0
    BY <1>4, <2>3, <2>4
  <2>6. n - 1 \in 0 .. N /\ n \in 1 .. N /\ n - 1 \notin Bad
    BY <1>1, <2>2, <2>3, <2>5
  <2> QED BY <1>5, <2>3, <2>4, <2>5, <2>6
<1>7. Good(of[N])
  BY <1>1, <1>6
<1> QED BY <1>3, <1>7

LEMMA FlushParts ==
    ASSUME NEW pre \in Seq(Stamped), Buffered(pre)
    PROVE  /\ Flush(pre) \in Seq(Stamped) /\ Buffered(Flush(pre))
           /\ recovering => \A i \in 1 .. Len(Flush(pre)) : Flush(pre)[i].type = "usage"
           /\ ~recovering => Flush(pre) = pre
  BY UsageParts DEF Flush

-----------------------------------------------------------------------------
\* The state of fail-over's loop.
FoType   == [pre : Seq(Stamped), committed : BOOLEAN,
             overlap : {"none", "pending", "withheld", "resolved"}]
SeenType == [content : BOOLEAN, acts : [ToolIds -> Status]]
State    == [fo : FoType, seen : SeenType, queue : Seq(Stamped), done : BOOLEAN,
             gaveUp : BOOLEAN, error : Stamped, plan : BOOLEAN]

\* It goes on, is through with the candidate's stream, or has given it up.
IsIn(st, pre, com, ov, sn, q) ==
    /\ st \in State /\ ~st.done /\ ~st.gaveUp /\ ~st.plan
    /\ st.fo.pre = pre /\ st.fo.committed = com /\ st.fo.overlap = ov
    /\ st.seen = sn /\ st.queue = q
IsDone(st, sn, q) == st \in State /\ st.done /\ ~st.gaveUp /\ st.seen = sn /\ st.queue = q
GivenUp(st, sn, q, e, p) ==
    /\ st \in State /\ st.done /\ st.gaveUp
    /\ st.seen = sn /\ st.queue = q /\ st.error = e /\ st.plan = p

LEMMA SetOverlap ==
    ASSUME NEW pre, NEW com, NEW ov, NEW sn, NEW q, NEW st, IsIn(st, pre, com, ov, sn, q),
           NEW x \in {"withheld", "resolved"}
    PROVE  IsIn([st EXCEPT !.fo.overlap = x], pre, com, x, sn, q)
  BY DEF IsIn, State, FoType

LEMMA SetSeen ==
    ASSUME NEW pre, NEW com, NEW ov, NEW sn, NEW q, NEW st, IsIn(st, pre, com, ov, sn, q),
           NEW c, Observe(sn, c) \in SeenType
    PROVE  IsIn([st EXCEPT !.seen = Observe(@, c)], pre, com, ov, Observe(sn, c), q)
  BY DEF IsIn, State

LEMMA SetPre ==
    ASSUME NEW pre, NEW com, NEW ov, NEW sn, NEW q, NEW st, IsIn(st, pre, com, ov, sn, q),
           NEW c \in Stamped
    PROVE  IsIn([st EXCEPT !.fo.pre = Append(@, c)], Append(pre, c), com, ov, sn, q)
<1>1. pre \in Seq(Stamped)
  BY DEF IsIn, State, FoType
<1>2. Append(pre, c) \in Seq(Stamped)
  BY <1>1, AppendProperties
<1> QED
  BY <1>1, <1>2 DEF IsIn, State, FoType

LEMMA EmitParts ==
    ASSUME NEW pre, NEW com, NEW ov, NEW sn, NEW q, NEW st, IsIn(st, pre, com, ov, sn, q),
           NEW cs \in Seq(Stamped)
    PROVE  IsIn(Emit(st, cs), pre, com, ov, sn, q \o cs)
<1>1. q \in Seq(Stamped)
  BY DEF IsIn, State
<1>2. q \o cs \in Seq(Stamped)
  BY <1>1, ConcatProperties
<1> QED
  BY <1>1, <1>2 DEF IsIn, State, FoType, Emit

LEMMA CommitParts ==
    ASSUME NEW pre, NEW com, NEW ov, NEW sn, NEW q, NEW st, IsIn(st, pre, com, ov, sn, q),
           Flush(pre) \in Seq(Stamped)
    PROVE  IsIn(Commit(st), <<>>, TRUE, ov, sn, q \o Flush(pre))
<1> DEFINE t == Emit(st, Flush(pre))
<1>1. IsIn(t, pre, com, ov, sn, q \o Flush(pre))
  BY EmitParts
<1>2. Commit(st) = [t EXCEPT !.fo.committed = TRUE, !.fo.pre = <<>>]
  BY DEF Commit, IsIn
<1>3. <<>> \in Seq(Stamped)
  OBVIOUS
<1>4. t \in State
  BY <1>1 DEF IsIn
<1> HIDE DEF t
<1> DEFINE u == [t EXCEPT !.fo.committed = TRUE, !.fo.pre = <<>>]
<1>5. /\ u.fo = [pre |-> <<>>, committed |-> TRUE, overlap |-> t.fo.overlap]
      /\ u.seen = t.seen /\ u.queue = t.queue /\ u.done = t.done
      /\ u.gaveUp = t.gaveUp /\ u.plan = t.plan /\ u.error = t.error
      /\ u \in State
  BY <1>3, <1>4, ZenonT(60) DEF State, FoType
<1> HIDE DEF u
<1>6. u.fo.pre = <<>> /\ u.fo.committed = TRUE /\ u.fo.overlap = t.fo.overlap
  BY <1>5
<1>7. IsIn(u, <<>>, TRUE, ov, sn, q \o Flush(pre))
  BY <1>1, <1>5, <1>6 DEF IsIn
<1> QED BY <1>2, <1>7 DEF u

LEMMA ReturnParts ==
    ASSUME NEW pre, NEW com, NEW ov, NEW sn, NEW q, NEW st, IsIn(st, pre, com, ov, sn, q)
    PROVE  IsDone(Return(st), sn, q)
  BY DEF IsIn, IsDone, State, Return

LEMMA GiveUpParts ==
    ASSUME NEW pre, NEW com, NEW ov, NEW sn, NEW q, NEW st, IsIn(st, pre, com, ov, sn, q),
           NEW c \in Stamped, SafeToContinue(sn) \in BOOLEAN
    PROVE  /\ GivenUp(GiveUp(st, c), sn, q, c, SafeToContinue(sn))
           /\ GivenUp(GiveUpSilently(st, c), sn, q, c, FALSE)
<1>1. GivenUp(GiveUpSilently(st, c), sn, q, c, FALSE)
  BY DEF IsIn, State, GiveUpSilently, GivenUp
<1>2. GivenUp(GiveUp(st, c), sn, q, c, SafeToContinue(sn))
  BY DEF IsIn, State, GiveUp, GivenUp
<1> QED BY <1>1, <1>2

\* What the tracker knows after one more chunk.
LEMMA ObserveParts ==
    ASSUME NEW sn \in SeenType, NEW c, OfAttempt(c)
    PROVE  /\ Observe(sn, c) \in SeenType
           /\ Observe(sn, c).content <=> sn.content \/ c.type = "text"
           /\ c.type \in CallTypes =>
                 /\ Observe(sn, c).acts[c.id] # "none"
                 /\ Observe(sn, c).acts[c.id] = "completed" => c.type = "tool-result"
                 /\ \A i \in ToolIds \ {c.id} : Observe(sn, c).acts[i] = sn.acts[i]
           /\ c.type \notin CallTypes \cup {"error"} => Observe(sn, c).acts = sn.acts
           /\ c.type = "error" => \A i \in ToolIds :
                 \/ Observe(sn, c).acts[i] = sn.acts[i]
                 \/ sn.acts[i] \in {"in_flight", "ended"} /\ Observe(sn, c).acts[i] = "aborted"
<1> DEFINE t == Observe(sn, c)
<1>0. c.type \in Types /\ (c.type \in CallTypes => c.id \in ToolIds)
  BY DEF OfAttempt, Stamped, Types
<1>1. CASE c.type = "text"
  BY <1>1 DEF Observe, SeenType, CallTypes
<1>2. CASE c.type \in CallTypes
  <2>1. t = [sn EXCEPT !.acts[c.id] = NextStatus(@, c.type)]
    BY <1>2 DEF Observe, CallTypes
  <2>2. NextStatus(sn.acts[c.id], c.type) \in Status \ {"none"}
    BY <1>2 DEF NextStatus, Status, CallTypes
  <2>3. NextStatus(sn.acts[c.id], c.type) = "completed" => c.type = "tool-result"
    BY <1>2 DEF NextStatus, CallTypes
  <2>4. t \in SeenType /\ t.content = sn.content
    BY <1>0, <1>2, <2>1, <2>2 DEF SeenType
  <2>5. /\ t.acts[c.id] = NextStatus(sn.acts[c.id], c.type)
        /\ \A i \in ToolIds \ {c.id} : t.acts[i] = sn.acts[i]
    BY <1>0, <1>2, <2>1, <2>2 DEF SeenType
  <2> QED BY <1>2, <2>2, <2>3, <2>4, <2>5 DEF CallTypes
<1>3. CASE c.type = "error"
  <2> DEFINE a == [i \in ToolIds |->
                      IF sn.acts[i] \in {"in_flight", "ended"} THEN "aborted" ELSE sn.acts[i]]
  <2>1. t = [sn EXCEPT !.acts = a]
    BY <1>3 DEF Observe
  <2>2. a \in [ToolIds -> Status]
    BY DEF SeenType, Status
  <2>3. t \in SeenType /\ t.content = sn.content /\ t.acts = a
    <3> HIDE DEF a
    <3> QED BY <2>1, <2>2 DEF SeenType
  <2> QED BY <1>3, <2>3 DEF CallTypes
<1>4. CASE c.type \notin CallTypes \cup {"text", "error"}
  BY <1>4 DEF Observe, CallTypes
<1> QED BY <1>1, <1>2, <1>3, <1>4 DEF CallTypes

\* An error does not make a recovery unsafe.
LEMMA StaysSafe ==
    ASSUME NEW sn \in SeenType, NEW c, OfAttempt(c),
           SafeToContinue(sn), c.type \notin CallTypes
    PROVE  SafeToContinue(Observe(sn, c))
<1> DEFINE t == Observe(sn, c)
<1>1. /\ t.content <=> sn.content \/ c.type = "text"
      /\ \A i \in ToolIds :
            \/ t.acts[i] = sn.acts[i]
            \/ sn.acts[i] \in {"in_flight", "ended"} /\ t.acts[i] = "aborted"
  BY ObserveParts
<1> HIDE DEF t
<1>2. /\ setup.recovery /\ sn.content
      /\ \A i \in ToolIds :
           /\ sn.acts[i] # "ambiguous"
           /\ ToolOf(i) \in WriteTool =>
                \/ sn.acts[i] = "none"
                \/ sn.acts[i] = "completed" /\ ToolOf(i) \in Approved
  BY DEF SafeToContinue
<1>3. SafeToContinue(t)
  BY <1>1, <1>2 DEF SafeToContinue
<1> QED BY <1>3 DEF t

-----------------------------------------------------------------------------
\* A stream to which the candidate may still add, and what it may add next.
Live(s, sn, S, D) == StreamInv(s) /\ NoTerminal(s) /\ Tracked(s, sn) /\ CallsKnown(s, S, D)

Opens(c)  == IF c.type = "tool-start" THEN {c.id} ELSE {}
Closes(c) == IF c.type = "tool-end" THEN {c.id} ELSE {}
InTurn(c, S, D) ==
    /\ c.type = "tool-start" => c.id \notin S
    /\ c.type = "tool-end" => c.id \in S \ D

LEMMA LiveFollows ==
    ASSUME NEW s \in Seq(Stamped), NEW sn, NEW S, NEW D, Live(s, sn, S, D),
           NEW c, OfAttempt(c), InTurn(c, S, D), c.type = "run-start" <=> s = <<>>
    PROVE  Follows(s, c)
<1>1. \A m \in 1 .. Len(s) : s[m].id = c.id /\ c.type \in CallTypes => s[m].cand = cand
  <2> SUFFICES ASSUME NEW m \in 1 .. Len(s), s[m].id = c.id, c.type \in CallTypes
               PROVE  s[m].cand = cand
    OBVIOUS
  <2>1. c.id \in ToolIds /\ c.id[1] = cand /\ c.id # NoId
    BY IdParts DEF OfAttempt
  <2>2. s[m].id = NoId \/ s[m].id[1] = s[m].cand
    BY DEF Live, StreamInv, StampsRight
  <2> QED BY <2>1, <2>2
<1>2. /\ \A n \in 1 .. Len(s) : s[n].cand = cand =>
            /\ s[n].type = "tool-start" => s[n].id \in S
            /\ s[n].type = "tool-end" => s[n].id \in D
      /\ \A i \in S : \E n \in 1 .. Len(s) : s[n].type = "tool-start" /\ s[n].id = i
  BY DEF Live, CallsKnown
<1>3. c.type = "tool-start" =>
          \A m \in 1 .. Len(s) : ~(s[m].type = "tool-start" /\ s[m].id = c.id)
  BY <1>1, <1>2 DEF InTurn, CallTypes
<1>4. c.type = "tool-end" =>
          /\ \E m \in 1 .. Len(s) : s[m].type = "tool-start" /\ s[m].id = c.id
          /\ \A m \in 1 .. Len(s) : ~(s[m].type = "tool-end" /\ s[m].id = c.id)
  BY <1>1, <1>2 DEF InTurn, CallTypes
<1> QED BY <1>3, <1>4 DEF Follows, Live

LEMMA TrackedChunk ==
    ASSUME NEW s \in Seq(Stamped), NEW sn \in SeenType, Here, Tracked(s, sn),
           NEW c, OfAttempt(c), ~Terminal(c)
    PROVE  Tracked(Append(s, c), Observe(sn, c))
<1> DEFINE t == Append(s, c)
           N == Len(s)
           so == Observe(sn, c)
<1>1. /\ N \in Nat /\ Len(t) = N + 1 /\ t[N + 1] = c /\ t # <<>>
      /\ \A i \in 1 .. N : t[i] = s[i] /\ s[i] \in Stamped
      /\ \A i \in 1 .. N + 1 : i \in 1 .. N \/ i = N + 1
  BY Appended DEF OfAttempt
<1>2. /\ so.content <=> sn.content \/ c.type = "text"
      /\ c.type \in CallTypes =>
            /\ so.acts[c.id] # "none"
            /\ so.acts[c.id] = "completed" => c.type = "tool-result"
            /\ \A i \in ToolIds \ {c.id} : so.acts[i] = sn.acts[i]
      /\ c.type \notin CallTypes \cup {"error"} => so.acts = sn.acts
  BY ObserveParts
<1>3. c.type \in CallTypes => c.id \in ToolIds /\ c.id[1] = cand
  BY DEF OfAttempt
<1>4. c.type # "error" /\ c.cand = cand
  BY DEF Terminal, OfAttempt
<1>5. /\ \A n \in 1 .. N : s[n].type = "tool-start" /\ s[n].cand = cand =>
            s[n].id \in ToolIds /\ sn.acts[s[n].id] # "none"
      /\ \A i \in ToolIds : i[1] = cand /\ sn.acts[i] = "completed" =>
            \E n \in 1 .. N : s[n].cand = cand /\ s[n].type = "tool-result" /\ s[n].id = i
      /\ \A i \in ToolIds : i[1] > cand => sn.acts[i] = "none"
      /\ sn.content => s # <<>>
  BY DEF Tracked
<1> HIDE DEF t, so, N
<1>6. ASSUME NEW n \in 1 .. N + 1, t[n].type = "tool-start", t[n].cand = cand
      PROVE  t[n].id \in ToolIds /\ so.acts[t[n].id] # "none"
  <2>1. CASE n \in 1 .. N
    BY <1>1, <1>2, <1>3, <1>4, <1>5, <1>6, <2>1
  <2>2. CASE n = N + 1
    BY <1>1, <1>2, <1>3, <1>4, <1>6, <2>2 DEF CallTypes
  <2> QED BY <1>1, <2>1, <2>2
<1>7. ASSUME NEW i \in ToolIds, i[1] = cand, so.acts[i] = "completed"
      PROVE  \E n \in 1 .. N + 1 : t[n].cand = cand /\ t[n].type = "tool-result" /\ t[n].id = i
  <2>1. CASE c.type \in CallTypes /\ i = c.id
    <3>1. N + 1 \in 1 .. N + 1 /\ t[N + 1] = c /\ c.type = "tool-result"
      BY <1>1, <1>2, <1>7, <2>1
    <3> QED BY <1>4, <2>1, <3>1
  <2>2. CASE ~(c.type \in CallTypes /\ i = c.id)
    <3>1. sn.acts[i] = "completed"
      BY <1>2, <1>4, <1>7, <2>2
    <3>2. PICK n \in 1 .. N : s[n].cand = cand /\ s[n].type = "tool-result" /\ s[n].id = i
      BY <1>5, <1>7, <3>1
    <3>3. n \in 1 .. N + 1 /\ t[n] = s[n]
      BY <1>1
    <3> QED BY <3>2, <3>3
  <2> QED BY <2>1, <2>2
<1>8. ASSUME NEW i \in ToolIds, i[1] > cand PROVE so.acts[i] = "none"
  <2>1. cand \in Nat /\ i[1] # cand
    BY <1>8, IdParts DEF Here
  <2>2. ~(c.type \in CallTypes /\ i = c.id)
    BY <1>3, <2>1
  <2> QED BY <1>2, <1>4, <1>5, <1>8, <2>2
<1>9. Len(t) = N + 1
  BY <1>1
<1> QED BY <1>1, <1>6, <1>7, <1>8, <1>9 DEF Tracked, t, so

LEMMA KnownChunk ==
    ASSUME NEW s \in Seq(Stamped), NEW S, NEW D, CallsKnown(s, S, D), NEW c \in Stamped
    PROVE  CallsKnown(Append(s, c), S \cup Opens(c), D \cup Closes(c))
<1> DEFINE t == Append(s, c)
           N == Len(s)
<1>1. /\ N \in Nat /\ Len(t) = N + 1 /\ t[N + 1] = c
      /\ \A i \in 1 .. N : t[i] = s[i]
      /\ \A i \in 1 .. N + 1 : i \in 1 .. N \/ i = N + 1
  BY Appended
<1>2. /\ \A n \in 1 .. N : s[n].cand = cand =>
            /\ s[n].type = "tool-start" => s[n].id \in S
            /\ s[n].type = "tool-end" => s[n].id \in D
      /\ \A i \in S : \E n \in 1 .. N : s[n].type = "tool-start" /\ s[n].id = i
  BY DEF CallsKnown
<1> HIDE DEF t, N
<1>3. ASSUME NEW n \in 1 .. N + 1, t[n].cand = cand
      PROVE  /\ t[n].type = "tool-start" => t[n].id \in S \cup Opens(c)
             /\ t[n].type = "tool-end" => t[n].id \in D \cup Closes(c)
  <2>1. CASE n \in 1 .. N
    BY <1>1, <1>2, <1>3, <2>1
  <2>2. CASE n = N + 1
    BY <1>1, <2>2 DEF Opens, Closes
  <2> QED BY <1>1, <2>1, <2>2
<1>4. ASSUME NEW i \in S \cup Opens(c)
      PROVE  \E n \in 1 .. N + 1 : t[n].type = "tool-start" /\ t[n].id = i
  <2>1. CASE i \in S
    <3>1. PICK n \in 1 .. N : s[n].type = "tool-start" /\ s[n].id = i
      BY <1>2, <2>1
    <3>2. n \in 1 .. N + 1 /\ t[n] = s[n]
      BY <1>1
    <3> QED BY <3>1, <3>2
  <2>2. CASE i \in Opens(c)
    <3>1. N + 1 \in 1 .. N + 1
      BY <1>1
    <3> QED BY <1>1, <2>2, <3>1 DEF Opens
  <2> QED BY <2>1, <2>2
<1> QED BY <1>1, <1>3, <1>4 DEF CallsKnown, t

LEMMA LiveChunk ==
    ASSUME NEW s \in Seq(Stamped), NEW sn \in SeenType, NEW S, NEW D, Here,
           Live(s, sn, S, D), NEW c, OfAttempt(c), ~Terminal(c), InTurn(c, S, D),
           c.type = "run-start" <=> s = <<>>
    PROVE  /\ Live(Append(s, c), Observe(sn, c), S \cup Opens(c), D \cup Closes(c))
           /\ Append(s, c) \in Seq(Stamped) /\ Append(s, c) # <<>>
<1>1. Follows(s, c) /\ c \in Stamped
  BY LiveFollows DEF OfAttempt
<1>2. StreamInv(Append(s, c)) /\ Append(s, c) \in Seq(Stamped) /\ Append(s, c) # <<>>
  BY <1>1, StreamAppend, Appended DEF Live
<1>3. NoTerminal(Append(s, c))
  <2>1. /\ \A n \in 1 .. Len(Append(s, c)) : n \in 1 .. Len(s) \/ Append(s, c)[n] = c
        /\ \A n \in 1 .. Len(s) : Append(s, c)[n] = s[n]
    BY <1>1, Appended
  <2> QED BY <2>1 DEF NoTerminal, Live
<1>4. Tracked(Append(s, c), Observe(sn, c))
  BY TrackedChunk DEF Live
<1>5. CallsKnown(Append(s, c), S \cup Opens(c), D \cup Closes(c))
  BY <1>1, KnownChunk DEF Live
<1> QED BY <1>2, <1>3, <1>4, <1>5 DEF Live

LEMMA LivePre ==
    ASSUME NEW s \in Seq(Stamped), NEW sn, NEW S, NEW D, Here,
           Live(s, sn, S, D), NEW p \in Seq(Stamped), FollowsPre(s, p)
    PROVE  /\ Live(s \o p, sn, S, D) /\ s \o p \in Seq(Stamped)
           /\ s # <<>> \/ p # <<>> => s \o p # <<>>
<1> DEFINE t == s \o p
           N == Len(s)
           M == Len(p)
<1>0. StreamInv(t) /\ NoTerminal(t) /\ t \in Seq(Stamped)
  BY StreamJoin DEF Live
<1>1. /\ N \in Nat /\ M \in Nat /\ Len(t) = N + M
      /\ \A i \in 1 .. N : t[i] = s[i]
      /\ \A i \in 1 .. N + M : i \in 1 .. N \/ (i - N \in 1 .. M /\ t[i] = p[i - N])
  BY Joined
<1>2. (s = <<>> <=> N = 0) /\ (p = <<>> <=> M = 0) /\ (t = <<>> <=> N + M = 0)
  BY <1>0, <1>1, EmptyIffNone
<1>3. s # <<>> \/ p # <<>> => t # <<>>
  BY <1>1, <1>2
<1>4. \A i \in 1 .. M : p[i].type \notin CallTypes
  BY DEF FollowsPre, Buffered, Preamble, CallTypes
<1>5. /\ \A n \in 1 .. N : s[n].type = "tool-start" /\ s[n].cand = cand =>
            s[n].id \in ToolIds /\ sn.acts[s[n].id] # "none"
      /\ \A i \in ToolIds : i[1] = cand /\ sn.acts[i] = "completed" =>
            \E n \in 1 .. N : s[n].cand = cand /\ s[n].type = "tool-result" /\ s[n].id = i
      /\ \A i \in ToolIds : i[1] > cand => sn.acts[i] = "none"
      /\ sn.content => s # <<>>
  BY DEF Live, Tracked
<1>6. /\ \A n \in 1 .. N : s[n].cand = cand =>
            /\ s[n].type = "tool-start" => s[n].id \in S
            /\ s[n].type = "tool-end" => s[n].id \in D
      /\ \A i \in S : \E n \in 1 .. N : s[n].type = "tool-start" /\ s[n].id = i
  BY DEF Live, CallsKnown
<1> HIDE DEF t, N, M
<1>7. \A n \in 1 .. N + M : t[n].type \in CallTypes => n \in 1 .. N /\ t[n] = s[n]
  BY <1>1, <1>4
<1>8. \A n \in 1 .. N : n \in 1 .. N + M /\ t[n] = s[n]
  BY <1>1
<1>9. Tracked(t, sn)
  <2>1. \A n \in 1 .. N + M : t[n].type = "tool-start" /\ t[n].cand = cand =>
            t[n].id \in ToolIds /\ sn.acts[t[n].id] # "none"
    BY <1>5, <1>7 DEF CallTypes
  <2>2. \A i \in ToolIds : i[1] = cand /\ sn.acts[i] = "completed" =>
            \E n \in 1 .. N + M : t[n].cand = cand /\ t[n].type = "tool-result" /\ t[n].id = i
    BY <1>5, <1>8
  <2> QED BY <1>1, <1>3, <1>5, <2>1, <2>2 DEF Tracked
<1>10. CallsKnown(t, S, D)
  <2>1. ASSUME NEW n \in 1 .. N + M, t[n].cand = cand
        PROVE  /\ t[n].type = "tool-start" => t[n].id \in S
               /\ t[n].type = "tool-end" => t[n].id \in D
    BY <1>6, <1>7, <2>1 DEF CallTypes
  <2>2. \A i \in S : \E n \in 1 .. N + M : t[n].type = "tool-start" /\ t[n].id = i
    BY <1>6, <1>8
  <2> QED BY <1>1, <2>1, <2>2 DEF CallsKnown
<1> QED BY <1>0, <1>3, <1>9, <1>10 DEF Live, t

\* What is safe to continue may be left.
LEMMA SafeLeft ==
    ASSUME NEW s \in Seq(Stamped), NEW sn, Here,
           StreamInv(s), Tracked(s, sn), SafeToContinue(sn)
    PROVE  LeftSafely(s, cand)
<1> SUFFICES ASSUME NEW n \in 1 .. Len(s), s[n].cand = cand, s[n].type = "tool-start",
                    ToolOf(s[n].id) \in WriteTool
             PROVE  /\ ToolOf(s[n].id) \in Approved
                    /\ \E m \in 1 .. Len(s) :
                          s[m].cand = cand /\ s[m].type = "tool-result" /\ s[m].id = s[n].id
  BY DEF LeftSafely, SafeToContinue
<1>1. s[n].id \in ToolIds /\ sn.acts[s[n].id] # "none"
  BY DEF Tracked
<1>2. sn.acts[s[n].id] = "completed" /\ ToolOf(s[n].id) \in Approved
  BY <1>1 DEF SafeToContinue
<1>3. s[n].id[1] = cand
  BY <1>1, IdParts DEF StreamInv, StampsRight
<1> QED BY <1>1, <1>2, <1>3 DEF Tracked

\* So does a candidate that has shown nothing.
LEMMA NothingLeft == LeftSafely(<<>>, cand)
  BY DEF LeftSafely

-----------------------------------------------------------------------------
\* Fail-over may take the next chunk.
Ready(st, S, D) ==
    /\ IsIn(st, st.fo.pre, st.fo.committed, st.fo.overlap, st.seen, st.queue)
    /\ Live(out \o st.queue, st.seen, S, D) /\ FoRight(out \o st.queue, st.fo, st.seen)
    /\ Buffered(st.fo.pre)
    /\ ~recovering /\ ~st.fo.committed => PreambleRight(st.fo.pre)
    /\ \A n \in 1 .. Len(st.queue) : st.queue[n].cand = cand

\* It has returned, or has given the candidate up.
Finished(st) ==
    /\ st \in State /\ st.done /\ StreamInv(out \o st.queue)
    /\ \A n \in 1 .. Len(st.queue) : st.queue[n].cand = cand
    /\ st.gaveUp =>
          /\ NoTerminal(out \o st.queue) /\ Tracked(out \o st.queue, st.seen)
          /\ cand < Candidate /\ OfAttempt(st.error) /\ st.error.type = "error"
          /\ st.plan => SafeToContinue(st.seen)
          /\ ~st.plan => out \o st.queue = <<>>

Typed == Here /\ out \in Seq(Stamped) /\ recovering \in BOOLEAN

LEMMA ReadyTyped ==
    ASSUME NEW st, NEW S, NEW D, Typed, Ready(st, S, D)
    PROVE  /\ st \in State /\ st.fo.pre \in Seq(Stamped) /\ st.seen \in SeenType
           /\ st.queue \in Seq(Stamped) /\ out \o st.queue \in Seq(Stamped)
           /\ st.fo.committed \in BOOLEAN
<1>1. st \in State
  BY DEF Ready, IsIn
<1>2. /\ st.fo.pre \in Seq(Stamped) /\ st.seen \in SeenType /\ st.queue \in Seq(Stamped)
      /\ st.fo.committed \in BOOLEAN
  BY <1>1 DEF State, FoType
<1> QED BY <1>1, <1>2, ConcatProperties DEF Typed

\* One more chunk after what was sent and what is held back.
LEMMA SentAfter ==
    ASSUME NEW o \in Seq(Stamped), NEW q \in Seq(Stamped), NEW c \in Stamped
    PROVE  o \o (q \o <<c>>) = Append(o \o q, c)
<1>1. <<c>> \in Seq(Stamped) /\ o \o q \in Seq(Stamped)
  BY ConcatProperties
<1>2. o \o (q \o <<c>>) = (o \o q) \o <<c>>
  BY <1>1, ConcatAssociative
<1>3. (o \o q) \o <<c>> = Append(o \o q, c)
  BY <1>1, AppendIsConcat
<1> QED BY <1>2, <1>3

LEMMA SentBehind ==
    ASSUME NEW o \in Seq(Stamped), NEW q \in Seq(Stamped), NEW p \in Seq(Stamped),
           NEW c \in Stamped
    PROVE  o \o ((q \o p) \o <<c>>) = Append((o \o q) \o p, c)
<1>1. q \o p \in Seq(Stamped)
  BY ConcatProperties
<1>2. o \o ((q \o p) \o <<c>>) = Append(o \o (q \o p), c)
  BY <1>1, SentAfter
<1>3. o \o (q \o p) = (o \o q) \o p
  BY ConcatAssociative, Z3
<1> QED BY <1>2, <1>3

LEMMA SentWith ==
    ASSUME NEW o \in Seq(Stamped), NEW q \in Seq(Stamped), NEW p \in Seq(Stamped),
           NEW c \in Stamped
    PROVE  o \o (q \o Append(p, c)) = Append((o \o q) \o p, c)
<1>1. <<c>> \in Seq(Stamped) /\ Append(p, c) = p \o <<c>>
  BY AppendIsConcat
<1>2. q \o (p \o <<c>>) = (q \o p) \o <<c>>
  BY <1>1, ConcatAssociative
<1>3. o \o ((q \o p) \o <<c>>) = Append((o \o q) \o p, c)
  BY SentBehind
<1>4. q \o Append(p, c) = (q \o p) \o <<c>>
  BY <1>1, <1>2
<1> QED BY <1>3, <1>4

\* What is sent of the candidate carries its stamp.
LEMMA SentStamps ==
    ASSUME NEW q \in Seq(Stamped), NEW p \in Seq(Stamped), NEW c \in Stamped, c.cand = cand,
           \A n \in 1 .. Len(q) : q[n].cand = cand, Buffered(p)
    PROVE  /\ \A n \in 1 .. Len(q \o p) : (q \o p)[n].cand = cand
           /\ \A n \in 1 .. Len((q \o p) \o <<c>>) : ((q \o p) \o <<c>>)[n].cand = cand
           /\ \A n \in 1 .. Len(q \o <<c>>) : (q \o <<c>>)[n].cand = cand
           /\ \A n \in 1 .. Len(q \o Append(p, c)) : (q \o Append(p, c))[n].cand = cand
<1>1. ASSUME NEW a \in Seq(Stamped), NEW b \in Seq(Stamped),
             \A n \in 1 .. Len(a) : a[n].cand = cand, \A n \in 1 .. Len(b) : b[n].cand = cand
      PROVE  /\ \A n \in 1 .. Len(a \o b) : (a \o b)[n].cand = cand
             /\ a \o b \in Seq(Stamped)
  BY <1>1, Joined
<1>2. <<c>> \in Seq(Stamped) /\ \A n \in 1 .. Len(<<c>>) : <<c>>[n].cand = cand
  OBVIOUS
<1>3. \A n \in 1 .. Len(p) : p[n].cand = cand
  BY DEF Buffered
<1>4. Append(p, c) \in Seq(Stamped) /\ \A n \in 1 .. Len(Append(p, c)) : Append(p, c)[n].cand = cand
  BY <1>3, Appended
<1>5. q \o p \in Seq(Stamped) /\ \A n \in 1 .. Len(q \o p) : (q \o p)[n].cand = cand
  BY <1>1, <1>3
<1>6. \A n \in 1 .. Len((q \o p) \o <<c>>) : ((q \o p) \o <<c>>)[n].cand = cand
  BY <1>1, <1>2, <1>5
<1>7. \A n \in 1 .. Len(q \o <<c>>) : (q \o <<c>>)[n].cand = cand
  BY <1>1, <1>2
<1>8. \A n \in 1 .. Len(q \o Append(p, c)) : (q \o Append(p, c))[n].cand = cand
  BY <1>1, <1>4
<1> QED BY <1>5, <1>6, <1>7, <1>8

\* What fail-over lets go of its buffer may follow what it has sent.
LEMMA FlushFollows ==
    ASSUME NEW st, NEW S, NEW D, Typed, Ready(st, S, D)
    PROVE  /\ Flush(st.fo.pre) \in Seq(Stamped) /\ Buffered(Flush(st.fo.pre))
           /\ FollowsPre(out \o st.queue, Flush(st.fo.pre))
           /\ Live((out \o st.queue) \o Flush(st.fo.pre), st.seen, S, D)
           /\ (out \o st.queue) \o Flush(st.fo.pre) \in Seq(Stamped)
           /\ recovering \/ st.fo.committed \/ st.fo.pre # <<>> =>
                 (out \o st.queue) \o Flush(st.fo.pre) # <<>>
<1> DEFINE s == out \o st.queue
           p == Flush(st.fo.pre)
<1>1. /\ st.fo.pre \in Seq(Stamped) /\ s \in Seq(Stamped) /\ Buffered(st.fo.pre)
      /\ Live(s, st.seen, S, D) /\ st.fo.committed \in BOOLEAN
  BY ReadyTyped DEF Ready
<1>2. /\ p \in Seq(Stamped) /\ Buffered(p)
      /\ recovering => \A i \in 1 .. Len(p) : p[i].type = "usage"
      /\ ~recovering => p = st.fo.pre
  BY <1>1, FlushParts
<1>3. /\ st.fo.committed => st.fo.pre = <<>>
      /\ recovering \/ st.fo.committed => s # <<>>
      /\ ~recovering /\ ~st.fo.committed => s = <<>>
      /\ ~recovering /\ ~st.fo.committed => PreambleRight(st.fo.pre)
  BY DEF Ready, FoRight
<1> HIDE DEF s, p
<1>4. \A n \in 1 .. Len(p) : p[n].type = "run-start" <=> n = 1 /\ s = <<>>
  <2>1. CASE recovering
    BY <1>2, <1>3, <2>1
  <2>2. CASE ~recovering /\ st.fo.committed
    BY <1>2, <1>3, <2>2
  <2>3. CASE ~recovering /\ ~st.fo.committed
    BY <1>2, <1>3, <2>3 DEF PreambleRight
  <2> QED BY <1>1, <2>1, <2>2, <2>3 DEF Typed
<1>5. FollowsPre(s, p)
  BY <1>1, <1>2, <1>4 DEF FollowsPre, Live
<1>6. Live(s \o p, st.seen, S, D) /\ s \o p \in Seq(Stamped) /\ (s # <<>> \/ p # <<>> => s \o p # <<>>)
  BY <1>1, <1>2, <1>5, LivePre DEF Typed
<1>7. recovering \/ st.fo.committed \/ st.fo.pre # <<>> => s # <<>> \/ p # <<>>
  BY <1>2, <1>3 DEF Typed
<1> QED BY <1>2, <1>5, <1>6, <1>7 DEF s, p

-----------------------------------------------------------------------------
\* One chunk.  Text that may repeat what was shown is withheld.
LEMMA ForwardWithheld ==
    ASSUME NEW st, NEW S, NEW D, NEW c, NEW reveal, Typed, Ready(st, S, D),
           Withheld(st, c, reveal)
    PROVE  Ready(Forward(st, c, reveal), S, D)
<1> DEFINE F == [st EXCEPT !.fo.overlap = "withheld"]
<1>1. Forward(st, c, reveal) = F
  BY DEF Forward, Ready, IsIn
<1>2. IsIn(F, st.fo.pre, st.fo.committed, "withheld", st.seen, st.queue)
  BY SetOverlap DEF Ready
<1>3. recovering
  BY DEF Ready, FoRight, Withheld
<1> HIDE DEF F
<1>4. /\ F.fo.pre = st.fo.pre /\ F.fo.committed = st.fo.committed /\ F.seen = st.seen
      /\ F.queue = st.queue /\ F.fo.overlap = "withheld"
  BY <1>2 DEF IsIn
<1>5. FoRight(out \o F.queue, F.fo, F.seen)
  BY <1>3, <1>4 DEF Ready, FoRight
<1>6. IsIn(F, F.fo.pre, F.fo.committed, F.fo.overlap, F.seen, F.queue)
  BY <1>2, <1>4
<1>7. Ready(F, S, D)
  BY <1>3, <1>4, <1>5, <1>6 DEF Ready
<1> QED BY <1>1, <1>7

\* The preamble is held back until the candidate commits.
LEMMA ForwardPreamble ==
    ASSUME NEW st, NEW S, NEW D, NEW c, NEW reveal, Typed, Ready(st, S, D),
           OfAttempt(c), Preamble(c), ~st.fo.committed,
           ~recovering => PreambleRight(Append(st.fo.pre, c))
    PROVE  /\ Ready(Forward(st, c, reveal), S, D)
           /\ Forward(st, c, reveal).fo.pre = Append(st.fo.pre, c)
           /\ ~Forward(st, c, reveal).fo.committed
<1> DEFINE u == [st EXCEPT !.seen = Observe(@, c)]
           F == [u EXCEPT !.fo.pre = Append(@, c)]
<1>1. c.type \notin CallTypes \cup {"text", "error", "run-end"} /\ c \in Stamped
  BY DEF Preamble, CallTypes, OfAttempt
<1>2. Forward(st, c, reveal) = F
  <2>1. ~Withheld(st, c, reveal) /\ Unwithhold(st, c, reveal) = st
    BY <1>1 DEF Withheld, Unwithhold, Terminal
  <2>2. u.fo.committed = st.fo.committed
    BY DEF Ready, IsIn, State
  <2> QED BY <1>1, <2>1, <2>2 DEF Forward, Ready, IsIn
<1>3. Observe(st.seen, c) = st.seen /\ st.seen \in SeenType
  BY <1>1, ReadyTyped DEF Observe, CallTypes
<1>4. IsIn(u, st.fo.pre, st.fo.committed, st.fo.overlap, st.seen, st.queue)
  BY <1>3, SetSeen DEF Ready
<1>5. IsIn(F, Append(st.fo.pre, c), st.fo.committed, st.fo.overlap, st.seen, st.queue)
  <2> HIDE DEF u
  <2> QED BY <1>1, <1>4, SetPre
<1> HIDE DEF F, u
<1>6. /\ F.fo.pre = Append(st.fo.pre, c) /\ F.fo.committed = st.fo.committed /\ F.seen = st.seen
      /\ F.queue = st.queue /\ F.fo.overlap = st.fo.overlap
  BY <1>5 DEF IsIn
<1>7. IsIn(F, F.fo.pre, F.fo.committed, F.fo.overlap, F.seen, F.queue)
  BY <1>5, <1>6
<1>8. FoRight(out \o F.queue, F.fo, F.seen)
  BY <1>6 DEF Ready, FoRight
<1>9. Buffered(F.fo.pre)
  <2>1. st.fo.pre \in Seq(Stamped) /\ Buffered(st.fo.pre)
    BY ReadyTyped DEF Ready
  <2>2. c.cand = cand /\ c.att = attempt /\ c.id = NoId
    BY <1>1 DEF OfAttempt
  <2>3. /\ \A i \in 1 .. Len(Append(st.fo.pre, c)) :
              i \in 1 .. Len(st.fo.pre) \/ Append(st.fo.pre, c)[i] = c
        /\ \A i \in 1 .. Len(st.fo.pre) : Append(st.fo.pre, c)[i] = st.fo.pre[i]
    BY <1>1, <2>1, Appended
  <2> QED BY <1>6, <2>1, <2>2, <2>3 DEF Buffered
<1>10. Ready(F, S, D)
  BY <1>6, <1>7, <1>8, <1>9 DEF Ready
<1> QED BY <1>2, <1>6, <1>10

\* Content, and the preamble behind it, is sent.
LEMMA ForwardShown ==
    ASSUME NEW st, NEW S, NEW D, NEW c, NEW reveal, Typed, Ready(st, S, D),
           OfAttempt(c), ~Terminal(c), ~Withheld(st, c, reveal), c.type # "run-start",
           Preamble(c) => st.fo.committed, InTurn(c, S, D),
           recovering \/ st.fo.committed \/ st.fo.pre # <<>>
    PROVE  /\ Ready(Forward(st, c, reveal), S \cup Opens(c), D \cup Closes(c))
           /\ Forward(st, c, reveal).fo.committed
<1> DEFINE ov == IF c.type = "text" /\ st.fo.overlap # "none" THEN "resolved" ELSE st.fo.overlap
           u == Unwithhold(st, c, reveal)
           v == [u EXCEPT !.seen = Observe(@, c)]
           w == Commit(v)
           F == Emit(w, <<c>>)
           so == Observe(st.seen, c)
           p == Flush(st.fo.pre)
           q == (st.queue \o p) \o <<c>>
<1>0. /\ st.seen \in SeenType /\ st.queue \in Seq(Stamped) /\ c \in Stamped /\ c.cand = cand
      /\ st.fo.pre \in Seq(Stamped)
  BY ReadyTyped DEF OfAttempt
<1>1. IsIn(u, st.fo.pre, st.fo.committed, ov, st.seen, st.queue)
  <2>1. u = IF c.type = "text" /\ st.fo.overlap # "none" THEN [st EXCEPT !.fo.overlap = "resolved"]
            ELSE st
    BY DEF Unwithhold
  <2>2. IsIn([st EXCEPT !.fo.overlap = "resolved"], st.fo.pre, st.fo.committed, "resolved",
             st.seen, st.queue)
    BY SetOverlap DEF Ready
  <2> QED BY <2>1, <2>2 DEF Ready
<1>2. so \in SeenType
  BY <1>0, ObserveParts
<1>3. p \in Seq(Stamped) /\ Buffered(p)
  BY FlushFollows
<1>4. IsIn(v, st.fo.pre, st.fo.committed, ov, so, st.queue)
  <2> HIDE DEF u, ov
  <2> QED BY <1>1, <1>2, SetSeen
<1>5. IsIn(w, <<>>, TRUE, ov, so, st.queue \o p)
  <2> HIDE DEF v, ov, so
  <2> QED BY <1>3, <1>4, CommitParts
<1>6. IsIn(F, <<>>, TRUE, ov, so, q)
  <2> HIDE DEF w, ov, so, p
  <2>1. <<c>> \in Seq(Stamped)
    BY <1>0
  <2> QED BY <1>5, <2>1, EmitParts
<1>7. Forward(st, c, reveal) = F
  <2>1. ~st.done /\ c.type # "error" /\ c.type # "run-end"
    BY DEF Ready, IsIn, Terminal
  <2>2. v.fo.committed = st.fo.committed
    BY <1>4 DEF IsIn
  <2> HIDE DEF v, w
  <2>3. Forward(st, c, reveal) =
          CASE c.type = "error" -> Failed(v, c)
            [] Preamble(c) /\ ~v.fo.committed -> [v EXCEPT !.fo.pre = Append(@, c)]
            [] c.type = "run-end" -> Return(Emit(Commit(v), <<c>>))
            [] OTHER -> Emit(Commit(v), <<c>>)
    BY <2>1 DEF Forward, v
  <2> QED BY <2>1, <2>2, <2>3 DEF w
<1>8. /\ Live((out \o st.queue) \o p, st.seen, S, D) /\ (out \o st.queue) \o p \in Seq(Stamped)
      /\ (out \o st.queue) \o p # <<>>
  BY FlushFollows
<1>9. out \o q = Append((out \o st.queue) \o p, c)
  <2> HIDE DEF p
  <2>1. /\ out \in Seq(Stamped) /\ st.queue \in Seq(Stamped) /\ p \in Seq(Stamped)
        /\ c \in Stamped
    BY <1>0, <1>3 DEF Typed
  <2> QED BY <2>1, SentBehind
<1>10. /\ Live(out \o q, so, S \cup Opens(c), D \cup Closes(c))
       /\ out \o q # <<>>
  <2> DEFINE s == (out \o st.queue) \o p
  <2>1. Here /\ s \in Seq(Stamped) /\ (c.type = "run-start" <=> s = <<>>)
        /\ Live(s, st.seen, S, D)
    BY <1>8 DEF Typed
  <2>2. out \o q = Append(s, c)
    BY <1>9
  <2> HIDE DEF s, q
  <2>3. Live(Append(s, c), Observe(st.seen, c), S \cup Opens(c), D \cup Closes(c))
    BY <1>0, <2>1, LiveChunk
  <2>4. Append(s, c) # <<>>
    BY <1>0, <2>1, Appended
  <2> QED BY <2>2, <2>3, <2>4
<1>11. \A n \in 1 .. Len(q) : q[n].cand = cand
  BY <1>0, <1>3, SentStamps DEF Ready
<1>12. recovering <=> ov # "none"
  BY DEF Ready, FoRight
<1> HIDE DEF F, so, q, ov
<1>13. F.fo.pre = <<>> /\ F.fo.committed /\ F.fo.overlap = ov /\ F.seen = so /\ F.queue = q
  BY <1>6 DEF IsIn
<1>14. FoRight(out \o F.queue, F.fo, F.seen)
  BY <1>10, <1>12, <1>13 DEF FoRight
<1>15. Buffered(F.fo.pre)
  BY <1>13 DEF Buffered
<1>16. IsIn(F, F.fo.pre, F.fo.committed, F.fo.overlap, F.seen, F.queue)
  BY <1>6, <1>13 DEF IsIn
<1>17. Ready(F, S \cup Opens(c), D \cup Closes(c))
  BY <1>10, <1>11, <1>13, <1>14, <1>15, <1>16 DEF Ready
<1> QED BY <1>7, <1>13, <1>17

-----------------------------------------------------------------------------
\* The candidate's last chunk.  Before it, what was withheld is sent if it goes
\* beyond what was shown.
LEMMA RevealParts ==
    ASSUME NEW pre, NEW com, NEW ov, NEW sn, NEW q, NEW st, IsIn(st, pre, com, ov, sn, q),
           NEW so \in SeenType
    PROVE  IsIn([st EXCEPT !.seen = so, !.fo.overlap = "resolved"], pre, com, "resolved", so, q)
<1> DEFINE u == [st EXCEPT !.seen = so, !.fo.overlap = "resolved"]
<1>1. st \in State
  BY DEF IsIn
<1>2. /\ u.fo = [pre |-> st.fo.pre, committed |-> st.fo.committed, overlap |-> "resolved"]
      /\ u.seen = so /\ u.queue = st.queue /\ u.done = st.done
      /\ u.gaveUp = st.gaveUp /\ u.plan = st.plan /\ u.error = st.error
      /\ u \in State
  BY <1>1, ZenonT(60) DEF State, FoType
<1> HIDE DEF u
<1>3. u.fo.pre = st.fo.pre /\ u.fo.committed = st.fo.committed /\ u.fo.overlap = "resolved"
  BY <1>2
<1>4. IsIn(u, pre, com, "resolved", so, q)
  BY <1>2, <1>3 DEF IsIn
<1> QED BY <1>4 DEF u

LEMMA RevealReady ==
    ASSUME NEW st, NEW S, NEW D, NEW c, NEW reveal, Typed, Ready(st, S, D), Terminal(c)
    PROVE  /\ Ready(Unwithhold(st, c, reveal), S, D)
           /\ Unwithhold(st, c, reveal).fo.pre = st.fo.pre
           /\ Unwithhold(st, c, reveal).fo.committed = st.fo.committed
<1> DEFINE x == Plain("text")
           t == Emit(st, <<x>>)
           so == Observe(st.seen, x)
           u == [t EXCEPT !.seen = Observe(@, x), !.fo.overlap = "resolved"]
           q == st.queue \o <<x>>
<1>0. /\ st.seen \in SeenType /\ st.queue \in Seq(Stamped) /\ out \o st.queue \in Seq(Stamped)
      /\ st.fo.pre \in Seq(Stamped)
  BY ReadyTyped
<1>1. OfAttempt(x) /\ x.type = "text" /\ x \in Stamped /\ x.cand = cand
  BY PlainParts DEF Typed, OfAttempt
<1>2. CASE st.fo.overlap = "withheld" /\ "finish" \in reveal
  <2>1. Unwithhold(st, c, reveal) = u
    BY <1>2 DEF Unwithhold, Terminal
  <2>2. so \in SeenType
    <3> HIDE DEF x
    <3> QED BY <1>0, <1>1, ObserveParts
  <2>3. IsIn(t, st.fo.pre, st.fo.committed, st.fo.overlap, st.seen, q)
    <3>1. <<x>> \in Seq(Stamped)
      BY <1>1
    <3> HIDE DEF x
    <3> QED BY <3>1, EmitParts DEF Ready
  <2>4. IsIn(u, st.fo.pre, st.fo.committed, "resolved", so, q)
    <3>1. Observe(t.seen, x) = so
      BY <2>3 DEF IsIn
    <3> HIDE DEF t, so, q, x
    <3>2. u = [t EXCEPT !.seen = so, !.fo.overlap = "resolved"]
      BY <3>1
    <3>3. IsIn([t EXCEPT !.seen = so, !.fo.overlap = "resolved"],
               st.fo.pre, st.fo.committed, "resolved", so, q)
      BY <2>2, <2>3, RevealParts
    <3> HIDE DEF u
    <3> QED BY <3>2, <3>3
  <2>5. recovering /\ out \o st.queue # <<>>
    BY <1>2 DEF Ready, FoRight
  <2>6. Live(out \o q, so, S, D) /\ out \o q # <<>>
    <3> DEFINE s == out \o st.queue
    <3> HIDE DEF x
    <3>1. out \o q = Append(s, x)
      BY <1>0, <1>1, SentAfter DEF Typed
    <3>2. /\ s \in Seq(Stamped) /\ Live(s, st.seen, S, D) /\ Here /\ ~Terminal(x)
          /\ InTurn(x, S, D) /\ (x.type = "run-start" <=> s = <<>>)
      BY <1>0, <1>1, <2>5 DEF Ready, Typed, Terminal, InTurn
    <3>3. S \cup Opens(x) = S /\ D \cup Closes(x) = D
      BY <1>1 DEF Opens, Closes
    <3> HIDE DEF s
    <3>4. Live(Append(s, x), so, S \cup Opens(x), D \cup Closes(x))
      BY <1>0, <1>1, <3>2, LiveChunk
    <3>5. Append(s, x) # <<>>
      BY <1>1, <3>2, Appended
    <3> QED BY <3>1, <3>3, <3>4, <3>5
  <2>7. \A n \in 1 .. Len(q) : q[n].cand = cand
    <3>1. <<>> \in Seq(Stamped) /\ Buffered(<<>>)
      BY DEF Buffered
    <3>2. \A n \in 1 .. Len(st.queue) : st.queue[n].cand = cand
      BY DEF Ready
    <3> HIDE DEF x
    <3> QED BY <1>0, <1>1, <3>1, <3>2, SentStamps
  <2>8. SafeToContinue(st.seen) => SafeToContinue(so)
    <3> HIDE DEF x
    <3> QED BY <1>0, <1>1, StaysSafe DEF CallTypes
  <2> HIDE DEF u, so, q
  <2>9. /\ u.fo.pre = st.fo.pre /\ u.fo.committed = st.fo.committed /\ u.seen = so
        /\ u.queue = q /\ u.fo.overlap = "resolved"
    BY <2>4 DEF IsIn
  <2>10. FoRight(out \o u.queue, u.fo, u.seen)
    BY <2>5, <2>6, <2>8, <2>9 DEF Ready, FoRight
  <2>11. IsIn(u, u.fo.pre, u.fo.committed, u.fo.overlap, u.seen, u.queue)
    BY <2>4, <2>9
  <2>12. Ready(u, S, D)
    BY <2>5, <2>6, <2>7, <2>9, <2>10, <2>11 DEF Ready
  <2> QED BY <2>1, <2>9, <2>12
<1>3. CASE ~(st.fo.overlap = "withheld" /\ "finish" \in reveal)
  <2>1. Unwithhold(st, c, reveal) = st
    BY <1>3 DEF Unwithhold, Terminal
  <2> QED BY <2>1
<1> QED BY <1>2, <1>3

LEMMA TrackedError ==
    ASSUME NEW s, NEW sn \in SeenType, NEW c, OfAttempt(c), c.type = "error", Tracked(s, sn)
    PROVE  Tracked(s, Observe(sn, c))
<1> DEFINE so == Observe(sn, c)
<1>1. /\ so.content <=> sn.content
      /\ \A i \in ToolIds : \/ so.acts[i] = sn.acts[i]
                            \/ sn.acts[i] \in {"in_flight", "ended"} /\ so.acts[i] = "aborted"
  BY ObserveParts
<1> HIDE DEF so
<1>2. Tracked(s, so)
  BY <1>1 DEF Tracked
<1> QED BY <1>2 DEF so

LEMMA TerminalFollows ==
    ASSUME NEW s \in Seq(Stamped), Here, StreamInv(s), NoTerminal(s),
           NEW c, OfAttempt(c), Terminal(c), s # <<>> \/ c.type = "error"
    PROVE  StreamInv(Append(s, c))
<1>1. Follows(s, c)
  BY DEF Follows, Terminal
<1> QED BY <1>1, StreamAppend

LEMMA ErrorFollows ==
    ASSUME NEW s \in Seq(Stamped), NEW sn, NEW S, NEW D, Here, Live(s, sn, S, D),
           NEW c, OfAttempt(c), Terminal(c), s # <<>> \/ c.type = "error"
    PROVE  StreamInv(Append(s, c))
  BY TerminalFollows DEF Live

\* An error ends the candidate's stream: it is shown, or the candidate is
\* given up for it.
LEMMA FailedParts ==
    ASSUME NEW u, NEW S, NEW D, NEW c, Typed, Ready(u, S, D), OfAttempt(c), c.type = "error"
    PROVE  Finished(Failed([u EXCEPT !.seen = Observe(@, c)], c))
<1> DEFINE v == [u EXCEPT !.seen = Observe(@, c)]
           so == Observe(u.seen, c)
           s == out \o u.queue
           p == Flush(u.fo.pre)
           over == HasNext /\ Eligible(c)
           F == Failed(v, c)
<1> SUFFICES Finished(F)
  OBVIOUS
<1>0. /\ u.seen \in SeenType /\ u.queue \in Seq(Stamped) /\ s \in Seq(Stamped)
      /\ u.fo.pre \in Seq(Stamped) /\ u.fo.committed \in BOOLEAN
      /\ c \in Stamped /\ c.cand = cand /\ Terminal(c) /\ Here /\ out \in Seq(Stamped)
      /\ \A n \in 1 .. Len(u.queue) : u.queue[n].cand = cand
  BY ReadyTyped DEF OfAttempt, Terminal, Typed, Ready
<1>1. so \in SeenType
  BY <1>0, ObserveParts
<1>2. IsIn(v, u.fo.pre, u.fo.committed, u.fo.overlap, so, u.queue)
  <2> HIDE DEF so
  <2> QED BY <1>1, SetSeen DEF Ready, so
<1>3. Live(s, u.seen, S, D) /\ FoRight(s, u.fo, u.seen)
  BY DEF Ready
<1>4. /\ p \in Seq(Stamped) /\ Buffered(p) /\ Live(s \o p, u.seen, S, D)
      /\ s \o p \in Seq(Stamped)
  BY FlushFollows
<1>5. Tracked(s, so) /\ StreamInv(s) /\ NoTerminal(s)
  BY <1>0, <1>3, TrackedError DEF Live
<1>6. SafeToContinue(u.seen) => SafeToContinue(so)
  BY <1>0, StaysSafe DEF CallTypes
<1>7. SafeToContinue(so) \in BOOLEAN
  <2> HIDE DEF so
  <2> QED BY DEF SafeToContinue
<1> HIDE DEF so, v, p
<1>8. /\ v.fo.committed = u.fo.committed /\ v.fo.pre = u.fo.pre /\ v.seen = so
      /\ v.queue = u.queue
  BY <1>2 DEF IsIn
\* It is given up.
<1>9. ASSUME NEW b \in BOOLEAN, over, GivenUp(F, so, u.queue, c, b),
             b => SafeToContinue(so), ~b => s = <<>>
      PROVE  Finished(F)
  <2> HIDE DEF F
  <2>1. /\ F \in State /\ F.done /\ F.queue = u.queue /\ F.seen = so /\ F.error = c
        /\ F.plan = b
    BY <1>9 DEF GivenUp
  <2>2. cand < Candidate
    BY <1>9 DEF HasNext
  <2> QED BY <1>0, <1>5, <1>9, <2>1, <2>2 DEF Finished
\* It is through.
<1>10. ASSUME NEW q \in Seq(Stamped), IsDone(F, so, q), StreamInv(out \o q),
              \A n \in 1 .. Len(q) : q[n].cand = cand
       PROVE  Finished(F)
  BY <1>10 DEF Finished, IsDone
<1>11. CASE ~u.fo.committed /\ over /\ recovering
  <2>1. F = GiveUp(v, c)
    BY <1>8, <1>11 DEF Failed
  <2>2. SafeToContinue(so)
    BY <1>3, <1>6, <1>11 DEF FoRight
  <2>3. GivenUp(F, so, u.queue, c, TRUE)
    <3>1. GivenUp(GiveUp(v, c), so, u.queue, c, SafeToContinue(so))
      BY <1>0, <1>2, <1>7, GiveUpParts
    <3> HIDE DEF F
    <3> QED BY <1>7, <2>1, <2>2, <3>1 DEF GivenUp
  <2> HIDE DEF F, over
  <2> QED BY <1>9, <1>11, <2>2, <2>3
<1>12. CASE ~u.fo.committed /\ over /\ ~recovering
  <2>1. F = GiveUpSilently(v, c)
    BY <1>8, <1>12 DEF Failed
  <2>2. s = <<>>
    BY <1>3, <1>12 DEF FoRight
  <2>3. GivenUp(F, so, u.queue, c, FALSE)
    BY <1>0, <1>2, <1>7, <2>1, GiveUpParts
  <2> HIDE DEF F, over, s
  <2> QED BY <1>9, <1>12, <2>2, <2>3
<1>13. CASE ~u.fo.committed /\ ~over
  <2> DEFINE cs == Append(p, c)
             w == Emit(v, cs)
  <2>1. F = Return(w)
    BY <1>8, <1>13 DEF Failed, p
  <2>2. cs \in Seq(Stamped) /\ u.queue \o cs \in Seq(Stamped)
    BY <1>0, <1>4, Appended, ConcatProperties
  <2>3. IsDone(F, so, u.queue \o cs)
    <3>1. IsIn(w, u.fo.pre, u.fo.committed, u.fo.overlap, so, u.queue \o cs)
      BY <1>2, <2>2, EmitParts
    <3> HIDE DEF w, cs, F
    <3> QED BY <2>1, <3>1, ReturnParts
  <2>4. StreamInv(out \o (u.queue \o cs))
    <3>1. out \o (u.queue \o cs) = Append(s \o p, c)
      <4>1. out \in Seq(Stamped) /\ u.queue \in Seq(Stamped) /\ p \in Seq(Stamped) /\ c \in Stamped
        BY <1>0, <1>4
      <4> QED BY <4>1, SentWith
    <3> HIDE DEF s
    <3>2. StreamInv(Append(s \o p, c))
      BY <1>0, <1>4, ErrorFollows
    <3> QED BY <3>1, <3>2
  <2>5. \A n \in 1 .. Len(u.queue \o cs) : (u.queue \o cs)[n].cand = cand
    BY <1>0, <1>4, SentStamps
  <2> HIDE DEF F, cs
  <2> QED BY <1>10, <2>2, <2>3, <2>4, <2>5
<1>14. CASE u.fo.committed /\ over /\ SafeToContinue(so)
  <2>1. F = GiveUp(v, c)
    BY <1>8, <1>14 DEF Failed
  <2>2. GivenUp(F, so, u.queue, c, TRUE)
    <3>1. GivenUp(GiveUp(v, c), so, u.queue, c, SafeToContinue(so))
      BY <1>0, <1>2, <1>7, GiveUpParts
    <3> HIDE DEF F
    <3> QED BY <1>7, <1>14, <2>1, <3>1 DEF GivenUp
  <2> HIDE DEF F, over
  <2> QED BY <1>9, <1>14, <2>2
<1>15. CASE u.fo.committed /\ ~(over /\ SafeToContinue(so))
  <2> DEFINE cs == <<c>>
             w == Emit(v, cs)
  <2>1. F = Return(w)
    BY <1>8, <1>15 DEF Failed
  <2>2. cs \in Seq(Stamped) /\ u.queue \o cs \in Seq(Stamped)
    BY <1>0, ConcatProperties
  <2>3. IsDone(F, so, u.queue \o cs)
    <3>1. IsIn(w, u.fo.pre, u.fo.committed, u.fo.overlap, so, u.queue \o cs)
      <4> HIDE DEF cs
      <4> QED BY <1>2, <2>2, EmitParts
    <3> HIDE DEF w, cs, F
    <3> QED BY <2>1, <3>1, ReturnParts
  <2>4. StreamInv(out \o (u.queue \o cs))
    <3>1. out \o (u.queue \o cs) = Append(s, c)
      BY <1>0, SentAfter
    <3> HIDE DEF s
    <3>2. StreamInv(Append(s, c))
      BY <1>0, <1>3, ErrorFollows
    <3> QED BY <3>1, <3>2
  <2>5. \A n \in 1 .. Len(u.queue \o cs) : (u.queue \o cs)[n].cand = cand
    BY <1>0, <1>4, SentStamps
  <2> HIDE DEF F, cs
  <2> QED BY <1>10, <2>2, <2>3, <2>4, <2>5
<1> QED
  <2> HIDE DEF F, over
  <2> QED BY <1>0, <1>11, <1>12, <1>13, <1>14, <1>15

\* So does a run-end, which is shown behind what the candidate holds back.
LEMMA EndedParts ==
    ASSUME NEW u, NEW S, NEW D, NEW c, Typed, Ready(u, S, D), OfAttempt(c), c.type = "run-end",
           recovering \/ u.fo.committed \/ u.fo.pre # <<>>
    PROVE  /\ Finished(Return(Emit(Commit([u EXCEPT !.seen = Observe(@, c)]), <<c>>)))
           /\ ~Return(Emit(Commit([u EXCEPT !.seen = Observe(@, c)]), <<c>>)).gaveUp
<1> DEFINE v == [u EXCEPT !.seen = Observe(@, c)]
           w == Commit(v)
           x == Emit(w, <<c>>)
           F == Return(x)
           so == Observe(u.seen, c)
           s == out \o u.queue
           p == Flush(u.fo.pre)
           q == (u.queue \o p) \o <<c>>
<1> SUFFICES Finished(F) /\ ~F.gaveUp
  OBVIOUS
<1>0. /\ u.seen \in SeenType /\ u.queue \in Seq(Stamped) /\ s \in Seq(Stamped)
      /\ u.fo.pre \in Seq(Stamped)
      /\ c \in Stamped /\ c.cand = cand /\ Terminal(c) /\ Here /\ out \in Seq(Stamped)
      /\ \A n \in 1 .. Len(u.queue) : u.queue[n].cand = cand
  BY ReadyTyped DEF OfAttempt, Terminal, Typed, Ready
<1>1. so \in SeenType
  BY <1>0, ObserveParts
<1>2. IsIn(v, u.fo.pre, u.fo.committed, u.fo.overlap, so, u.queue)
  <2> HIDE DEF so
  <2> QED BY <1>1, SetSeen DEF Ready, so
<1>3. /\ p \in Seq(Stamped) /\ Buffered(p) /\ Live(s \o p, u.seen, S, D)
      /\ s \o p \in Seq(Stamped) /\ s \o p # <<>>
  BY FlushFollows
<1> HIDE DEF so, v, s
<1>4. IsIn(w, <<>>, TRUE, u.fo.overlap, so, u.queue \o p)
  BY <1>2, <1>3, CommitParts
<1> HIDE DEF w, p
<1>5. <<c>> \in Seq(Stamped) /\ q \in Seq(Stamped)
  BY <1>0, <1>3, ConcatProperties
<1>6. IsIn(x, <<>>, TRUE, u.fo.overlap, so, q)
  BY <1>4, <1>5, EmitParts
<1>7. IsDone(F, so, q)
  <2> HIDE DEF x, q
  <2> QED BY <1>6, ReturnParts
<1>8. StreamInv(out \o q)
  <2>1. out \in Seq(Stamped) /\ u.queue \in Seq(Stamped) /\ p \in Seq(Stamped) /\ c \in Stamped
    BY <1>0, <1>3
  <2>2. out \o q = Append(s \o p, c)
    BY <2>1, SentBehind DEF s
  <2>3. StreamInv(Append(s \o p, c))
    BY <1>0, <1>3, ErrorFollows
  <2> QED BY <2>2, <2>3
<1>9. \A n \in 1 .. Len(q) : q[n].cand = cand
  BY <1>0, <1>3, SentStamps
<1> HIDE DEF F, q
<1> QED BY <1>7, <1>8, <1>9 DEF Finished, IsDone

LEMMA ForwardTerminal ==
    ASSUME NEW st, NEW S, NEW D, NEW c, NEW reveal, Typed, Ready(st, S, D),
           OfAttempt(c), Terminal(c),
           c.type = "error" \/ recovering \/ st.fo.committed \/ st.fo.pre # <<>>
    PROVE  Finished(Forward(st, c, reveal))
<1> DEFINE u == Unwithhold(st, c, reveal)
           v == [u EXCEPT !.seen = Observe(@, c)]
<1>1. /\ Ready(u, S, D) /\ u.fo.pre = st.fo.pre /\ u.fo.committed = st.fo.committed
  BY RevealReady
<1>2. ~st.done /\ ~Withheld(st, c, reveal) /\ ~Preamble(c)
  BY DEF Ready, IsIn, Withheld, Terminal, Preamble
<1>3. Forward(st, c, reveal) =
        CASE c.type = "error" -> Failed(v, c)
          [] Preamble(c) /\ ~v.fo.committed -> [v EXCEPT !.fo.pre = Append(@, c)]
          [] c.type = "run-end" -> Return(Emit(Commit(v), <<c>>))
          [] OTHER -> Emit(Commit(v), <<c>>)
  BY <1>2 DEF Forward
<1>4. CASE c.type = "error"
  <2>1. Forward(st, c, reveal) = Failed(v, c)
    <3> HIDE DEF v
    <3> QED BY <1>2, <1>3, <1>4
  <2> HIDE DEF u
  <2> QED BY <1>1, <1>4, <2>1, FailedParts
<1>5. CASE c.type # "error"
  <2>1. c.type = "run-end"
    BY <1>5 DEF Terminal
  <2>2. Forward(st, c, reveal) = Return(Emit(Commit(v), <<c>>))
    <3> HIDE DEF v
    <3> QED BY <1>2, <1>3, <2>1
  <2> HIDE DEF u
  <2>3. recovering \/ u.fo.committed \/ u.fo.pre # <<>>
    BY <1>1, <1>5
  <2> QED BY <1>1, <2>1, <2>2, <2>3, EndedParts
<1> QED BY <1>4, <1>5

-----------------------------------------------------------------------------
\* The chunks of one pull, one after another.
Passed(st, cs, reveal, m, f) ==
    f = [n \in 0 .. m |-> IF n = 0 THEN st ELSE Forward(f[n - 1], cs[n], reveal)]

LEMMA PassedExist ==
    \A st, cs, reveal : \A m \in Nat : \E f : Passed(st, cs, reveal, m, f)
<1> SUFFICES ASSUME NEW st, NEW cs, NEW reveal
             PROVE  \A m \in Nat : \E f : Passed(st, cs, reveal, m, f)
  OBVIOUS
<1> DEFINE S == {m \in Nat : ~ \E f : Passed(st, cs, reveal, m, f)}
<1> SUFFICES ASSUME S # {} PROVE FALSE
  OBVIOUS
<1>1. PICK m \in S : \A k \in S : m <= k
  BY Least
<1>2. m # 0
  <2>1. Passed(st, cs, reveal, 0, [n \in 0 .. 0 |-> st])
    BY DEF Passed
  <2> QED BY <2>1
<1>3. m \in Nat /\ m - 1 \in Nat /\ m - 1 \notin S
  BY <1>1, <1>2
<1>4. PICK f : Passed(st, cs, reveal, m - 1, f)
  BY <1>3
<1> DEFINE g == [n \in 0 .. m |-> IF n <= m - 1 THEN f[n] ELSE Forward(f[m - 1], cs[m], reveal)]
<1>5. \A n \in 0 .. m : g[n] = IF n = 0 THEN st ELSE Forward(g[n - 1], cs[n], reveal)
  <2> TAKE n \in 0 .. m
  <2>1. CASE n = m
    BY <1>2, <1>3, <2>1
  <2>2. CASE n # m
    <3>1. n \in 0 .. m - 1
      BY <1>3, <2>2
    <3>2. f[n] = IF n = 0 THEN st ELSE Forward(f[n - 1], cs[n], reveal)
      BY <1>3, <1>4, <3>1 DEF Passed
    <3>3. g[n] = f[n] /\ (n # 0 => g[n - 1] = f[n - 1])
      BY <1>3, <3>1
    <3> QED BY <3>2, <3>3
  <2> QED BY <2>1, <2>2
<1>6. Passed(st, cs, reveal, m, g)
  BY <1>5 DEF Passed
<1> QED BY <1>1, <1>6

Chain(f, st, cs, reveal) ==
    f[0] = st /\ \A n \in 1 .. Len(cs) : f[n] = Forward(f[n - 1], cs[n], reveal)

LEMMA AllForwarded ==
    ASSUME NEW st, NEW cs, NEW reveal, NEW a, a = ForwardAll(st, cs, reveal), Len(cs) \in Nat
    PROVE  \E f : a = f[Len(cs)] /\ Chain(f, st, cs, reveal)
<1> DEFINE N == Len(cs)
           after == CHOOSE f : Passed(st, cs, reveal, N, f)
<1>1. Passed(st, cs, reveal, N, after)
  BY PassedExist
<1>2. a = after[N]
  BY DEF ForwardAll, Passed
<1> HIDE DEF after, N
<1>3. \A n \in 0 .. N : after[n] = IF n = 0 THEN st ELSE Forward(after[n - 1], cs[n], reveal)
  BY <1>1 DEF Passed
<1>4. Chain(after, st, cs, reveal)
  BY <1>3 DEF N, Chain
<1> QED BY <1>2, <1>4 DEF N

\* The preamble that retry has held back comes first: fail-over holds it back
\* in turn.
LEMMA PreambleForwarded ==
    ASSUME Typed, NEW start, NEW S, NEW D, NEW reveal, NEW f,
           NEW pre \in Seq(Stamped), PreambleRight(pre), Ready(start, S, D),
           pre = <<>> \/ (start.fo.pre = <<>> /\ ~start.fo.committed),
           Chain(f, start, pre, reveal)
    PROVE  /\ Ready(f[Len(pre)], S, D)
           /\ pre = <<>> => f[Len(pre)] = start
           /\ pre # <<>> => f[Len(pre)].fo.pre # <<>>
<1> DEFINE N == Len(pre)
           Good(n) == /\ Ready(f[n], S, D) /\ ~f[n].fo.committed
                      /\ Len(f[n].fo.pre) = n /\ \A i \in 1 .. n : f[n].fo.pre[i] = pre[i]
           Bad == {n \in 0 .. N : ~Good(n)}
<1>0. f[0] = start /\ \A n \in 1 .. N : f[n] = Forward(f[n - 1], pre[n], reveal)
  BY DEF Chain
<1>1. N \in Nat /\ (pre = <<>> <=> N = 0)
  BY EmptyIffNone
<1>2. CASE pre = <<>>
  BY <1>0, <1>1, <1>2
<1>3. CASE pre # <<>>
  <2>1. Good(0)
    BY <1>0, <1>3
  <2>2. ASSUME NEW n \in 1 .. N, Good(n - 1) PROVE Good(n)
    <3> DEFINE st == f[n - 1]
               c == pre[n]
    <3>1. c \in Stamped /\ Preamble(c) /\ c.cand = cand /\ c.att = attempt /\ c.id = NoId
          /\ (c.type = "run-start" <=> n = 1)
      BY ElementOfSeq DEF PreambleRight
    <3>2. OfAttempt(c)
      BY <3>1 DEF OfAttempt, Preamble, CallTypes
    <3>3. f[n] = Forward(st, c, reveal)
      BY <1>0
    <3>4. /\ Ready(st, S, D) /\ ~st.fo.committed /\ st.fo.pre \in Seq(Stamped)
          /\ Len(st.fo.pre) = n - 1 /\ \A i \in 1 .. n - 1 : st.fo.pre[i] = pre[i]
      BY <2>2, ReadyTyped
    <3> HIDE DEF st, c
    <3>5. /\ Len(Append(st.fo.pre, c)) = n
          /\ \A i \in 1 .. n : Append(st.fo.pre, c)[i] = pre[i]
      <4>1. /\ Len(Append(st.fo.pre, c)) = Len(st.fo.pre) + 1
            /\ \A i \in 1 .. Len(st.fo.pre) : Append(st.fo.pre, c)[i] = st.fo.pre[i]
            /\ Append(st.fo.pre, c)[Len(st.fo.pre) + 1] = c
        BY <3>1, <3>4, Appended
      <4>2. n \in Nat /\ (n - 1) + 1 = n
        BY <1>1
      <4>3. \A i \in 1 .. n : i \in 1 .. n - 1 \/ i = n
        BY <4>2
      <4> QED BY <3>4, <4>1, <4>2, <4>3 DEF c
    <3>6. PreambleRight(Append(st.fo.pre, c))
      <4>1. \A i \in 1 .. n : i \in 1 .. N
        BY <1>1
      <4> QED BY <3>5, <4>1 DEF PreambleRight
    <3>7. /\ Ready(Forward(st, c, reveal), S, D)
          /\ Forward(st, c, reveal).fo.pre = Append(st.fo.pre, c)
          /\ ~Forward(st, c, reveal).fo.committed
      BY <3>1, <3>2, <3>4, <3>6, ForwardPreamble
    <3> QED BY <3>3, <3>5, <3>7
  <2>3. Bad = {}
    <3> SUFFICES ASSUME Bad # {} PROVE FALSE
      OBVIOUS
    <3>1. Bad \in SUBSET Nat
      BY <1>1
    <3>2. PICK n \in Bad : \A k \in Bad : n <= k
      BY <3>1, Least
    <3> HIDE DEF Good
    <3>3. n \in 0 .. N /\ ~Good(n)
      BY <3>2
    <3>4. n # 0
      BY <2>1, <3>3
    <3>5. n - 1 \in 0 .. N /\ n \in 1 .. N /\ n - 1 \notin Bad
      BY <1>1, <3>2, <3>3, <3>4
    <3> QED BY <2>2, <3>3, <3>5
  <2>4. Good(N)
    BY <1>1, <2>3
  <2>5. Ready(f[N], S, D) /\ Len(f[N].fo.pre) = N
    BY <2>4
  <2>6. f[N].fo.pre # <<>>
    <3>1. f[N].fo.pre \in Seq(Stamped)
      BY <2>5, ReadyTyped
    <3> QED BY <1>1, <1>3, <2>5, <3>1, EmptyIffNone
  <2> QED BY <1>3, <2>5, <2>6
<1> QED BY <1>2, <1>3

\* Then the chunks behind it, t.
Joins(g, start, S, D, pre, t, reveal) ==
    /\ Ready(g[0], S, D)
    /\ pre = <<>> => g[0] = start
    /\ pre # <<>> => g[0].fo.pre # <<>>
    /\ \A n \in 1 .. Len(t) : g[n] = Forward(g[n - 1], t[n], reveal)

LEMMA JoinedForwarded ==
    ASSUME Typed, NEW start, NEW S, NEW D, NEW reveal,
           NEW pre \in Seq(Stamped), PreambleRight(pre), Ready(start, S, D),
           pre = <<>> \/ (start.fo.pre = <<>> /\ ~start.fo.committed),
           NEW t \in Seq(Stamped), NEW end, end = ForwardAll(start, pre \o t, reveal)
    PROVE  \E g : end = g[Len(t)] /\ Joins(g, start, S, D, pre, t, reveal)
<1> DEFINE cs == pre \o t
           N == Len(pre)
           M == Len(t)
<1>1. /\ N \in Nat /\ M \in Nat /\ Len(cs) = N + M /\ Len(cs) \in Nat
      /\ \A i \in 1 .. N : cs[i] = pre[i]
      /\ \A i \in 1 .. M : cs[N + i] = t[i]
  BY Joined
<1> HIDE DEF cs
<1> DEFINE a == ForwardAll(start, cs, reveal)
<1>2. PICK f : a = f[Len(cs)] /\ Chain(f, start, cs, reveal)
  <2> HIDE DEF a
  <2> QED BY <1>1, AllForwarded DEF a
<1>3. \A n \in 1 .. Len(cs) : f[n] = Forward(f[n - 1], cs[n], reveal)
  BY <1>2 DEF Chain
<1>4. Chain(f, start, pre, reveal)
  <2>1. ASSUME NEW n \in 1 .. N PROVE f[n] = Forward(f[n - 1], pre[n], reveal)
    <3>1. n \in 1 .. Len(cs) /\ cs[n] = pre[n]
      BY <1>1
    <3> QED BY <1>3, <3>1
  <2> QED BY <1>2, <2>1 DEF Chain
<1>5. /\ Ready(f[N], S, D)
      /\ pre = <<>> => f[N] = start
      /\ pre # <<>> => f[N].fo.pre # <<>>
  BY <1>4, PreambleForwarded
<1> DEFINE g == [n \in 0 .. M |-> f[N + n]]
<1>6. g[0] = f[N] /\ g[M] = f[N + M]
  BY <1>1
<1>7. \A n \in 1 .. M : g[n] = Forward(g[n - 1], t[n], reveal)
  <2> TAKE n \in 1 .. M
  <2>1. N + n \in 1 .. Len(cs) /\ cs[N + n] = t[n] /\ n \in 0 .. M /\ n - 1 \in 0 .. M
        /\ (N + n) - 1 = N + (n - 1)
    BY <1>1
  <2>2. f[N + n] = Forward(f[(N + n) - 1], cs[N + n], reveal)
    BY <1>3, <2>1
  <2>3. g[n] = f[N + n] /\ g[n - 1] = f[N + (n - 1)]
    BY <2>1
  <2> QED BY <2>1, <2>2, <2>3
<1> HIDE DEF g, N, M
<1>8. a = g[M]
  <2> HIDE DEF a
  <2> QED BY <1>1, <1>2, <1>6
<1>9. /\ Ready(g[0], S, D) /\ (pre = <<>> => g[0] = start)
      /\ (pre # <<>> => g[0].fo.pre # <<>>)
  BY <1>5, <1>6
<1>10. Joins(g, start, S, D, pre, t, reveal)
  BY <1>7, <1>9 DEF Joins, M
<1> QED BY <1>8, <1>10 DEF cs, M, a

-----------------------------------------------------------------------------
\* One pull.  What it starts from, and what becomes of the pipeline.
Start == [fo |-> fo, seen |-> seen, queue |-> <<>>, done |-> FALSE,
          gaveUp |-> FALSE, error |-> Err("fatal"), plan |-> FALSE]
PassTo(cs, end) ==
    /\ fo' = end.fo /\ seen' = end.seen /\ queue' = end.queue
    /\ phase' = IF end.gaveUp THEN "handover" ELSE IF end.done THEN "done" ELSE "attempt"
    /\ handed' = IF end.gaveUp THEN [error |-> end.error, plan |-> end.plan] ELSE handed
    /\ lease' = LeaseAfter(Last(cs))
    /\ UNCHANGED <<cand, attempt, recovering, out, aborted>>

LEMMA PassIs ==
    ASSUME NEW cs, Pass(cs)
    PROVE  \E reveal : PassTo(cs, ForwardAll(Start, cs, reveal))
  BY DEF Pass, PassTo, Start

Attending == TypeOK /\ IInv /\ phase \in Waiting /\ queue = <<>>

LEMMA TypedParts ==
    ASSUME TypeOK
    PROVE  /\ Here /\ Typed /\ fo \in FoType /\ seen \in SeenType
           /\ rty.pre \in Seq(Stamped) /\ queue \in Seq(Stamped) /\ out \in Seq(Stamped)
           /\ fo.pre \in Seq(Stamped) /\ All \in Seq(Stamped)
<1>1. /\ Here /\ Typed /\ fo \in FoType /\ seen \in SeenType
      /\ rty.pre \in Seq(Stamped) /\ queue \in Seq(Stamped) /\ out \in Seq(Stamped)
  BY DEF TypeOK, Here, Typed, FoType, SeenType
<1>2. fo.pre \in Seq(Stamped) /\ All \in Seq(Stamped)
  BY <1>1, ConcatProperties DEF FoType, All
<1> QED BY <1>1, <1>2

LEMMA StartReady ==
    ASSUME Attending
    PROVE  /\ Typed /\ Ready(Start, rty.started, rty.ended)
           /\ rty.pre \in Seq(Stamped) /\ PreambleRight(rty.pre)
           /\ rty.pre = <<>> \/ (Start.fo.pre = <<>> /\ ~Start.fo.committed)
           /\ Start.fo = fo /\ (rty.committed => recovering \/ fo.committed)
<1>1. Here /\ Typed /\ TypeOK
  BY TypedParts DEF Attending
<1>2. Err("fatal") \in Stamped
  <2>1. "fatal" \in Classes
    BY DEF Classes
  <2> QED BY <1>1, <2>1, ErrParts DEF OfAttempt
<1>3. fo \in FoType /\ seen \in SeenType /\ rty.pre \in Seq(Stamped) /\ out \in Seq(Stamped)
  BY <1>1, TypedParts
<1>4. /\ Start \in State /\ Start.fo = fo /\ Start.seen = seen /\ Start.queue = <<>>
      /\ ~Start.done /\ ~Start.gaveUp /\ ~Start.plan
  BY <1>2, <1>3 DEF Start, State
<1>5. out \o <<>> = out /\ All = out
  BY <1>3, ConcatEmptySeq DEF All, Attending
<1>6. /\ NoTerminal(out) /\ Tracked(out, seen) /\ FoRight(out, fo, seen)
      /\ CallsKnown(out, rty.started, rty.ended)
      /\ ~rty.committed => fo.pre = <<>> /\ ~fo.committed
      /\ Buffered(fo.pre)
      /\ ~recovering /\ rty.committed => fo.committed
  BY <1>5 DEF Attending, IInv, WaitingInv
<1>7. StreamInv(out)
  BY <1>5 DEF Attending, IInv, OutputInv
<1>8. PreambleRight(rty.pre) /\ (rty.committed => rty.pre = <<>>)
  BY DEF Attending, IInv, SourceInv
<1>9. rty.committed \in BOOLEAN /\ recovering \in BOOLEAN
  BY <1>1 DEF TypeOK
<1>10. rty.pre = <<>> \/ (fo.pre = <<>> /\ ~fo.committed)
  BY <1>6, <1>8, <1>9
<1>11. ~recovering /\ ~fo.committed => PreambleRight(fo.pre)
  BY <1>6, <1>9 DEF PreambleRight
<1> HIDE DEF Start
<1>12. IsIn(Start, Start.fo.pre, Start.fo.committed, Start.fo.overlap, Start.seen, Start.queue)
  BY <1>4 DEF IsIn
<1>13. Live(out \o Start.queue, Start.seen, rty.started, rty.ended)
  BY <1>4, <1>5, <1>6, <1>7 DEF Live
<1>14. Ready(Start, rty.started, rty.ended)
  BY <1>4, <1>5, <1>6, <1>11, <1>12, <1>13 DEF Ready
<1> QED BY <1>1, <1>3, <1>4, <1>6, <1>8, <1>9, <1>10, <1>14

\* The stream is still right when nothing it refers to has changed.
LEMMA StreamKept ==
    ASSUME NEW s, StreamInv(s), All' = s, UNCHANGED <<cand, attempt, setup>>
    PROVE  StreamInv(All)'
<1>1. LegalStream(All)'
  BY DEF StreamInv, LegalStream, LegalAt, Terminal
<1>2. StampsRight(All)'
  BY DEF StreamInv, StampsRight, Names
<1>3. AllLeftSafely(All)'
  <2>1. \A c : LeftSafely(s, c) => LeftSafely(All, c)'
    BY DEF LeftSafely, Terminal
  <2> QED BY <2>1 DEF StreamInv, AllLeftSafely
<1> QED BY <1>1, <1>2, <1>3 DEF StreamInv

\* Fail-over is through with the candidate.
LEMMA FinishedStep ==
    ASSUME Attending, NEW cs, NEW end, Finished(end), PassTo(cs, end), Terminal(Last(cs)),
           setup' = setup
    PROVE  /\ IInv' /\ phase' \in {"handover", "done"} /\ fo' \in FoType /\ seen' \in SeenType
           /\ queue' \in Seq(Stamped) /\ handed' \in [error : Stamped, plan : BOOLEAN]
           /\ lease' \in {"none", "settled"}
           /\ UNCHANGED <<cand, attempt, recovering, out, aborted>>
<1>1. /\ end \in State /\ end.done /\ StreamInv(out \o end.queue)
      /\ \A n \in 1 .. Len(end.queue) : end.queue[n].cand = cand
  BY DEF Finished
<1>2. UNCHANGED <<cand, attempt, recovering, out, aborted, setup>>
  BY DEF PassTo
<1>3. fo' = end.fo /\ seen' = end.seen /\ queue' = end.queue /\ All' = out \o end.queue
  BY <1>2 DEF PassTo, All
<1>4. phase' = IF end.gaveUp THEN "handover" ELSE "done"
  BY <1>1 DEF PassTo
<1>5. lease' \in {"none", "settled"}
  <2>1. lease \in {"none", "held"}
    BY DEF Attending, IInv, LeaseSettledInTime, Waiting, TypeOK
  <2> QED BY <2>1 DEF PassTo, LeaseAfter
<1>6. handed' = IF end.gaveUp THEN [error |-> end.error, plan |-> end.plan] ELSE handed
  BY DEF PassTo
<1>7. /\ fo' \in FoType /\ seen' \in SeenType /\ queue' \in Seq(Stamped)
      /\ handed' \in [error : Stamped, plan : BOOLEAN]
  <2>1. end.fo \in FoType /\ end.seen \in SeenType /\ end.queue \in Seq(Stamped)
        /\ end.error \in Stamped /\ end.plan \in BOOLEAN
    BY <1>1 DEF State
  <2>2. handed \in [error : Stamped, plan : BOOLEAN]
    BY DEF Attending, TypeOK
  <2> QED BY <1>3, <1>6, <2>1, <2>2
<1>8. phase' \in {"handover", "done"} /\ phase' \notin Waiting
  BY <1>4 DEF Waiting
<1>9. SourceInv' /\ WaitingInv' /\ LeaseSettledInTime'
  BY <1>5, <1>8 DEF SourceInv, WaitingInv, LeaseSettledInTime
<1>10. OutputInv'
  <2>1. StreamInv(All)'
    BY <1>1, <1>2, <1>3, StreamKept
  <2>2. \A n \in 1 .. Len(queue') : queue'[n].cand = cand'
    BY <1>1, <1>2, <1>3
  <2> QED BY <1>8, <2>1, <2>2 DEF OutputInv
<1>11. HandoverInv'
  <2> SUFFICES ASSUME phase' = "handover"
               PROVE  /\ NoTerminal(All)' /\ Tracked(All, seen)' /\ (cand < Candidate)'
                      /\ handed'.error.type = "error" /\ handed'.error.id = NoId
                      /\ handed'.error.cand = cand' /\ handed'.error.att = attempt'
                      /\ handed'.plan => SafeToContinue(seen)'
                      /\ ~handed'.plan => All' = <<>>
    BY DEF HandoverInv
  <2>1. end.gaveUp
    BY <1>4
  <2>2. /\ NoTerminal(out \o end.queue) /\ Tracked(out \o end.queue, end.seen)
        /\ cand < Candidate /\ OfAttempt(end.error) /\ end.error.type = "error"
        /\ end.plan => SafeToContinue(end.seen)
        /\ ~end.plan => out \o end.queue = <<>>
    BY <2>1 DEF Finished
  <2>3. handed'.error = end.error /\ handed'.plan = end.plan
    BY <1>6, <2>1
  <2>4. end.error.id = NoId /\ end.error.cand = cand /\ end.error.att = attempt
    BY <2>2 DEF OfAttempt, CallTypes
  <2>5. NoTerminal(All)' /\ (cand < Candidate)'
    BY <1>2, <1>3, <2>2 DEF NoTerminal, Terminal
  <2>6. Tracked(All, seen)'
    BY <1>2, <1>3, <2>2 DEF Tracked
  <2>7. end.plan => SafeToContinue(seen)'
    BY <1>2, <1>3, <2>2 DEF SafeToContinue
  <2> QED BY <1>2, <1>3, <2>2, <2>3, <2>4, <2>5, <2>6, <2>7
<1> QED BY <1>2, <1>5, <1>7, <1>8, <1>9, <1>10, <1>11 DEF IInv

\* The candidate's stream goes on.
LEMMA ContinuedStep ==
    ASSUME Attending, NEW cs, NEW end, PassTo(cs, end), ~Terminal(Last(cs)), setup' = setup,
           Ready(end, rty'.started, rty'.ended), rty'.committed, SourceInv',
           recovering \/ end.fo.committed, phase # "backoff"
    PROVE  /\ IInv' /\ phase' = "attempt" /\ fo' \in FoType /\ seen' \in SeenType
           /\ queue' \in Seq(Stamped) /\ handed' = handed
           /\ lease' \in {"none", "held"}
           /\ UNCHANGED <<cand, attempt, recovering, out, aborted>>
<1>1. /\ end \in State /\ ~end.done /\ ~end.gaveUp
      /\ Live(out \o end.queue, end.seen, rty'.started, rty'.ended)
      /\ FoRight(out \o end.queue, end.fo, end.seen) /\ Buffered(end.fo.pre)
      /\ \A n \in 1 .. Len(end.queue) : end.queue[n].cand = cand
  BY DEF Ready, IsIn
<1>2. UNCHANGED <<cand, attempt, recovering, out, aborted, setup>>
  BY DEF PassTo
<1>3. fo' = end.fo /\ seen' = end.seen /\ queue' = end.queue /\ All' = out \o end.queue
  BY <1>2 DEF PassTo, All
<1>4. phase' = "attempt" /\ handed' = handed
  BY <1>1 DEF PassTo
<1>5. lease' \in {"none", "held"}
  <2>1. lease \in {"none", "held"}
    BY DEF Attending, IInv, LeaseSettledInTime, Waiting, TypeOK
  <2> QED BY <2>1 DEF PassTo, LeaseAfter
<1>6. /\ fo' \in FoType /\ seen' \in SeenType /\ queue' \in Seq(Stamped)
  BY <1>1, <1>3 DEF State
<1>7. LeaseSettledInTime' /\ HandoverInv'
  BY <1>4, <1>5 DEF LeaseSettledInTime, HandoverInv
<1>8. OutputInv'
  <2>1. StreamInv(All)'
    BY <1>1, <1>2, <1>3, StreamKept DEF Live
  <2>2. \A n \in 1 .. Len(queue') : queue'[n].cand = cand'
    BY <1>1, <1>2, <1>3
  <2> QED BY <1>4, <2>1, <2>2 DEF OutputInv
<1>9. WaitingInv'
  <2>1. NoTerminal(All)'
    BY <1>1, <1>3 DEF Live, NoTerminal, Terminal
  <2>2. Tracked(All, seen)'
    BY <1>1, <1>2, <1>3 DEF Live, Tracked
  <2>3. FoRight(All, fo, seen)'
    BY <1>1, <1>2, <1>3 DEF FoRight, SafeToContinue
  <2>4. CallsKnown(All, rty.started, rty.ended)'
    BY <1>1, <1>2, <1>3 DEF Live, CallsKnown
  <2>5. Buffered(fo.pre)'
    BY <1>1, <1>2, <1>3 DEF Buffered, Preamble
  <2>6. (~recovering /\ rty.committed => fo.committed)'
    BY <1>2, <1>3
  <2> QED BY <2>1, <2>2, <2>3, <2>4, <2>5, <2>6 DEF WaitingInv
<1> QED BY <1>2, <1>4, <1>5, <1>6, <1>7, <1>8, <1>9 DEF IInv

\* What is not preamble is sent or withheld.
LEMMA ForwardMid ==
    ASSUME NEW st, NEW S, NEW D, NEW c, NEW reveal, Typed, Ready(st, S, D),
           OfAttempt(c), ~Terminal(c), c.type # "run-start", InTurn(c, S, D),
           Preamble(c) => st.fo.committed,
           recovering \/ st.fo.committed \/ st.fo.pre # <<>>
    PROVE  /\ Ready(Forward(st, c, reveal), S \cup Opens(c), D \cup Closes(c))
           /\ recovering \/ Forward(st, c, reveal).fo.committed
<1>1. CASE Withheld(st, c, reveal)
  <2>1. Ready(Forward(st, c, reveal), S, D)
    BY <1>1, ForwardWithheld
  <2>2. S \cup Opens(c) = S /\ D \cup Closes(c) = D
    BY <1>1 DEF Withheld, Opens, Closes
  <2>3. recovering
    BY <1>1 DEF Withheld, Ready, FoRight
  <2> QED BY <2>1, <2>2, <2>3
<1>2. CASE ~Withheld(st, c, reveal)
  BY <1>2, ForwardShown
<1> QED BY <1>1, <1>2

-----------------------------------------------------------------------------
\* The adapter's chunk, as the contract has checked it.
SrcType == [n : 0 .. setup.chunks + 1, started : BOOLEAN, init : BOOLEAN,
            open : SUBSET ToolIds, closed : SUBSET ToolIds]
RtyType == [pre : Seq(Stamped), committed : BOOLEAN, answered : BOOLEAN,
            started : SUBSET ToolIds, ended : SUBSET ToolIds]

LEMMA PullParts ==
    ASSUME TypeOK, IInv, NEW c, OfAttempt(c), Pull(c)
    PROVE  /\ src' \in SrcType /\ (~Terminal(c) => src'.n <= setup.chunks)
           /\ src'.started <=> src.started \/ c.type = "run-start"
           /\ src'.open = CASE c.type = "tool-start" -> src.open \cup {c.id}
                            [] c.type = "tool-end" -> src.open \ {c.id}
                            [] OTHER -> src.open
           /\ src'.closed = src.closed \cup Closes(c)
<1>1. setup \in Setups /\ setup.chunks \in Nat
  BY PipelineAssumption DEF TypeOK
<1>2. src \in SrcType
  BY DEF TypeOK, SrcType
<1>3. src.n \in Nat /\ src.n <= setup.chunks /\ (~Terminal(c) => src.n < setup.chunks)
  <2>1. phase = "attempt"
    BY DEF Pull, Pulling
  <2>2. src.n <= setup.chunks
    BY <2>1 DEF IInv, SourceInv, Waiting
  <2> QED BY <1>1, <1>2, <2>2 DEF SrcType, Pull
<1>4. c.type \in CallTypes => c.id \in ToolIds
  BY DEF OfAttempt
<1> DEFINE op == CASE c.type = "tool-start" -> src.open \cup {c.id}
                   [] c.type = "tool-end" -> src.open \ {c.id}
                   [] OTHER -> src.open
           cl == IF c.type = "tool-end" THEN src.closed \cup {c.id} ELSE src.closed
           st == src.started \/ c.type = "run-start"
           it == src.init \/ c.type = "session-init"
<1>5. op \in SUBSET ToolIds
  BY <1>2, <1>4 DEF SrcType, CallTypes
<1>6. cl \in SUBSET ToolIds /\ cl = src.closed \cup Closes(c)
  BY <1>2, <1>4 DEF SrcType, CallTypes, Closes
<1>7. st \in BOOLEAN /\ it \in BOOLEAN
  BY <1>2 DEF SrcType
<1>8. src' = [n |-> src.n + 1, started |-> st, init |-> it, open |-> op, closed |-> cl]
  BY DEF Pull, Consumed
<1> HIDE DEF op, cl, st, it
<1>9. /\ src'.n = src.n + 1 /\ src'.started = st /\ src'.open = op /\ src'.closed = cl
  BY <1>8
<1>10. src.n + 1 \in 0 .. setup.chunks + 1 /\ (~Terminal(c) => src.n + 1 <= setup.chunks)
  BY <1>1, <1>3
<1>11. src' \in SrcType
  BY <1>5, <1>6, <1>7, <1>8, <1>10 DEF SrcType
<1>12. ~Terminal(c) => src'.n <= setup.chunks
  BY <1>9, <1>10
<1> QED BY <1>6, <1>9, <1>11, <1>12 DEF st, op

\* What the source has opened and closed is what retry has counted.
LEMMA SourceParts ==
    ASSUME TypeOK, IInv, phase \in Waiting
    PROVE  /\ src.started <=> rty.committed \/ rty.pre # <<>>
           /\ src.open = rty.started \ rty.ended /\ src.closed = rty.ended
           /\ rty.ended \subseteq rty.started /\ \A i \in rty.started : i[1] = cand
           /\ PreambleRight(rty.pre) /\ (rty.committed => rty.pre = <<>>)
           /\ rty \in RtyType /\ rty.committed \in BOOLEAN
           /\ rty.started \subseteq ToolIds /\ rty.ended \subseteq ToolIds
<1>1. rty \in RtyType
  BY DEF TypeOK, RtyType
<1> QED BY <1>1 DEF IInv, SourceInv, RtyType

LEMMA LegalPull ==
    ASSUME TypeOK, IInv, NEW c, OfAttempt(c), Pull(c), ~Violates(c), c.type # "run-start",
           c.type # "error"
    PROVE  rty.committed \/ rty.pre # <<>>
<1>1. src.started
  BY DEF Violates
<1>2. phase \in Waiting
  BY DEF Pull, Pulling, Waiting
<1> QED BY <1>1, <1>2, SourceParts

\* A type-correct step.
LEMMA TypedStep ==
    ASSUME TypeOK, setup' = setup, cand' \in 1 .. Candidate, attempt' \in 1 .. setup.attempts,
           phase' \in {"admit", "attempt", "backoff", "handover", "done", "left", "threw"},
           src' \in SrcType, rty' \in RtyType, fo' \in FoType, seen' \in SeenType,
           handed' \in [error : Stamped, plan : BOOLEAN],
           lease' \in {"none", "held", "settled"},
           queue' \in Seq(Stamped), out' \in Seq(Stamped),
           recovering' \in BOOLEAN, aborted' \in BOOLEAN
    PROVE  TypeOK'
<1>1. setup' \in Setups
  BY DEF TypeOK
<1>2. Stamped' = Stamped
  BY DEF Stamped
<1>3. src' \in SrcType' /\ rty' \in RtyType' /\ fo' \in FoType' /\ seen' \in SeenType'
      /\ handed' \in [error : Stamped', plan : BOOLEAN]
      /\ queue' \in Seq(Stamped') /\ out' \in Seq(Stamped')
  BY <1>2 DEF SrcType, RtyType, FoType, SeenType
<1> QED BY <1>1, <1>2, <1>3 DEF TypeOK, SrcType, RtyType, FoType, SeenType

-----------------------------------------------------------------------------
\* The actions that hand chunks to fail-over.
LEMMA LastOf ==
    ASSUME NEW s \in Seq(Stamped), NEW e \in Stamped
    PROVE  Last(Append(s, e)) = e /\ Last(s \o <<e>>) = e
<1>1. Last(Append(s, e)) = e
  BY Appended DEF Last
<1>2. Append(s, e) = s \o <<e>>
  BY AppendIsConcat
<1> QED BY <1>1, <1>2

\* An error, behind the preamble or without it.
LEMMA ErrorPass ==
    ASSUME Attending, setup' = setup, NEW e, OfAttempt(e), e.type = "error",
           NEW pre, pre = rty.pre \/ pre = <<>>, NEW cs, cs = Append(pre, e), Pass(cs),
           src' \in SrcType, rty' \in RtyType
    PROVE  TypeOK' /\ IInv'
<1> DEFINE S == rty.started
           D == rty.ended
           t == <<e>>
<1>1. /\ Typed /\ Ready(Start, S, D) /\ pre \in Seq(Stamped) /\ PreambleRight(pre)
      /\ pre = <<>> \/ (Start.fo.pre = <<>> /\ ~Start.fo.committed)
  <2>1. CASE pre = rty.pre
    BY <2>1, StartReady
  <2>2. CASE pre = <<>>
    <3>1. Typed /\ Ready(Start, S, D)
      BY StartReady
    <3>2. pre \in Seq(Stamped) /\ PreambleRight(pre)
      BY <2>2 DEF PreambleRight
    <3> QED BY <2>2, <3>1, <3>2
  <2> QED BY <2>1, <2>2
<1>2. e \in Stamped /\ t \in Seq(Stamped) /\ cs = pre \o t /\ Last(cs) = e /\ Terminal(e)
  <2>1. e \in Stamped /\ Terminal(e)
    BY DEF OfAttempt, Terminal
  <2> QED BY <1>1, <2>1, LastOf, AppendIsConcat
<1>3. PICK reveal : PassTo(cs, ForwardAll(Start, cs, reveal))
  BY PassIs
<1> DEFINE end == ForwardAll(Start, pre \o t, reveal)
<1> HIDE DEF t, S, D
<1>4. PICK g : end = g[Len(t)] /\ Joins(g, Start, S, D, pre, t, reveal)
  <2>1. end = ForwardAll(Start, pre \o t, reveal)
    OBVIOUS
  <2> HIDE DEF end
  <2> QED BY <1>1, <1>2, <2>1, JoinedForwarded
<1>5. Ready(g[0], S, D) /\ end = Forward(g[0], e, reveal)
  <2> HIDE DEF end
  <2> QED BY <1>4 DEF t, Joins
<1>6. Finished(end)
  <2>1. Terminal(e)
    BY <1>2
  <2>2. Finished(Forward(g[0], e, reveal))
    BY <1>1, <1>5, <2>1, ForwardTerminal
  <2> HIDE DEF end
  <2> QED BY <1>5, <2>2
<1>7. PassTo(cs, end)
  BY <1>2, <1>3
<1> HIDE DEF end
<1>8. /\ IInv' /\ phase' \in {"handover", "done"} /\ fo' \in FoType /\ seen' \in SeenType
      /\ queue' \in Seq(Stamped) /\ handed' \in [error : Stamped, plan : BOOLEAN]
      /\ lease' \in {"none", "settled"}
      /\ UNCHANGED <<cand, attempt, recovering, out, aborted>>
  BY <1>2, <1>6, <1>7, FinishedStep
<1>9. TypeOK'
  <2>1. TypeOK
    BY DEF Attending
  <2>2. /\ cand \in 1 .. Candidate /\ attempt \in 1 .. setup.attempts /\ out \in Seq(Stamped)
        /\ recovering \in BOOLEAN /\ aborted \in BOOLEAN
    BY <2>1 DEF TypeOK
  <2> QED BY <1>8, <2>1, <2>2, TypedStep
<1> QED BY <1>8, <1>9

LEMMA AttendingFrom ==
    ASSUME TypeOK, IInv, (phase \in {"admit", "attempt"} /\ queue = <<>>) \/ phase = "backoff"
    PROVE  Attending
  BY DEF Attending, Waiting, IInv, SourceInv

LEMMA ErrClass ==
    ASSUME TypeOK, NEW k \in {"retryable", "eligible", "fatal"}
    PROVE  OfAttempt(Err(k)) /\ Err(k).type = "error"
  BY ErrParts, TypedParts DEF Classes

LEMMA SameSource ==
    ASSUME TypeOK, setup' = setup, UNCHANGED <<src, rty>>
    PROVE  src' \in SrcType /\ rty' \in RtyType
  BY DEF TypeOK, SrcType, RtyType

LEMMA BlockedStep ==
    ASSUME TypeOK, IInv, NEW k \in {"eligible", "fatal"}, Blocked(k), setup' = setup
    PROVE  TypeOK' /\ IInv'
<1>1. Attending
  BY AttendingFrom DEF Blocked
<1>2. OfAttempt(Err(k)) /\ Err(k).type = "error"
  BY ErrClass
<1>3. src' \in SrcType /\ rty' \in RtyType
  BY SameSource DEF Blocked
<1>4. Pass(<<Err(k)>>) /\ <<Err(k)>> = Append(<<>>, Err(k))
  BY DEF Blocked
<1> HIDE DEF Blocked
<1> QED BY <1>1, <1>2, <1>3, <1>4, ErrorPass

LEMMA EndOfStreamStep ==
    ASSUME TypeOK, IInv, EndOfStream, setup' = setup
    PROVE  TypeOK' /\ IInv'
<1>1. Attending
  BY AttendingFrom DEF EndOfStream
<1>2. OfAttempt(Err("eligible")) /\ Err("eligible").type = "error"
  BY ErrClass
<1>3. src' \in SrcType /\ rty' \in RtyType
  BY SameSource DEF EndOfStream
<1>4. Pass(Append(rty.pre, Err("eligible")))
  BY DEF EndOfStream
<1> QED BY <1>1, <1>2, <1>3, <1>4, ErrorPass

LEMMA BackOffAbortedStep ==
    ASSUME TypeOK, IInv, BackOffAborted, setup' = setup
    PROVE  TypeOK' /\ IInv'
<1>1. Attending
  BY AttendingFrom DEF BackOffAborted
<1>2. OfAttempt(Err("fatal")) /\ Err("fatal").type = "error"
  BY ErrClass
<1>3. src' \in SrcType /\ rty' \in RtyType
  BY SameSource DEF BackOffAborted
<1>4. Pass(<<Err("fatal")>>) /\ <<Err("fatal")>> = Append(<<>>, Err("fatal"))
  BY DEF BackOffAborted
<1> QED BY <1>1, <1>2, <1>3, <1>4, ErrorPass

\* The source throws: as an error, or after a pause once more.
LEMMA PauseStep ==
    ASSUME TypeOK, IInv, setup' = setup, phase = "attempt", queue = <<>>, phase' = "backoff",
           ~rty.committed, attempt < setup.attempts, src' \in SrcType,
           src'.started = src.started, src'.open = src.open, src'.closed = src.closed,
           UNCHANGED <<failover, attempt, rty, lease, queue, out, aborted>>
    PROVE  TypeOK' /\ IInv'
<1>0. UNCHANGED <<cand, fo, seen, recovering, handed, attempt, rty, lease, queue, out, aborted>>
  BY DEF failover
<1>1. TypeOK'
  <2>1. /\ rty' \in RtyType /\ fo' \in FoType /\ seen' \in SeenType
        /\ handed' \in [error : Stamped, plan : BOOLEAN] /\ lease' \in {"none", "held", "settled"}
        /\ cand' \in 1 .. Candidate /\ attempt' \in 1 .. setup.attempts
        /\ queue' \in Seq(Stamped) /\ out' \in Seq(Stamped)
        /\ recovering' \in BOOLEAN /\ aborted' \in BOOLEAN
    BY <1>0 DEF TypeOK, RtyType, FoType, SeenType
  <2> QED BY <2>1, TypedStep
<1>2. All' = All
  BY <1>0 DEF All
<1>3. OutputInv'
  <2>1. StreamInv(All)'
    BY <1>0, <1>2, StreamKept DEF IInv, OutputInv
  <2> QED BY <1>0, <2>1 DEF IInv, OutputInv
<1>4. LeaseSettledInTime' /\ HandoverInv'
  BY <1>0 DEF IInv, LeaseSettledInTime, HandoverInv
<1>5. SourceInv'
  <2>1. PreambleRight(rty.pre)'
    BY <1>0 DEF IInv, SourceInv, Waiting, PreambleRight, Preamble
  <2> QED BY <1>0, <2>1 DEF IInv, SourceInv, Waiting
<1>6. WaitingInv'
  <2>0. /\ NoTerminal(All) /\ Tracked(All, seen) /\ FoRight(All, fo, seen)
        /\ CallsKnown(All, rty.started, rty.ended)
        /\ fo.pre = <<>> /\ ~fo.committed
        /\ \A n \in 1 .. Len(All) : All[n].cand # cand
    BY DEF IInv, WaitingInv, Waiting
  <2>1. NoTerminal(All)'
    BY <1>2, <2>0 DEF NoTerminal, Terminal
  <2>2. Tracked(All, seen)'
    BY <1>0, <1>2, <2>0 DEF Tracked
  <2>3. FoRight(All, fo, seen)'
    BY <1>0, <1>2, <2>0 DEF FoRight, SafeToContinue
  <2>4. CallsKnown(All, rty.started, rty.ended)'
    BY <1>0, <1>2, <2>0 DEF CallsKnown
  <2>5. Buffered(fo.pre)'
    BY <1>0, <2>0 DEF Buffered
  <2>6. (\A n \in 1 .. Len(All) : All[n].cand # cand)'
    BY <1>0, <1>2, <2>0
  <2> QED BY <1>0, <2>0, <2>1, <2>2, <2>3, <2>4, <2>5, <2>6 DEF WaitingInv
<1> QED BY <1>1, <1>3, <1>4, <1>5, <1>6 DEF IInv

LEMMA ThrowStep ==
    ASSUME TypeOK, IInv, NEW k \in {"retryable", "eligible", "fatal"}, Throw(k), setup' = setup
    PROVE  TypeOK' /\ IInv'
<1>1. Attending /\ phase = "attempt" /\ queue = <<>>
  BY AttendingFrom DEF Throw
<1>2. /\ OfAttempt(Err(k)) /\ Err(k).type = "error"
      /\ OfAttempt(Err("fatal")) /\ Err("fatal").type = "error"
  BY ErrClass
<1>3. CASE aborted
  <2>1. Pass(<<Err("fatal")>>) /\ <<Err("fatal")>> = Append(<<>>, Err("fatal"))
        /\ UNCHANGED <<src, rty>>
    BY <1>3 DEF Throw
  <2>2. src' \in SrcType /\ rty' \in RtyType
    BY <2>1, SameSource
  <2> QED BY <1>1, <1>2, <2>1, <2>2, ErrorPass
<1>4. CASE ~aborted /\ ~Retryable(Err(k))
  <2>1. Pass(Append(rty.pre, Err(k))) /\ UNCHANGED <<src, rty>>
    BY <1>4 DEF Throw
  <2>2. src' \in SrcType /\ rty' \in RtyType
    BY <2>1, SameSource
  <2> QED BY <1>1, <1>2, <2>1, <2>2, ErrorPass
<1>5. CASE ~aborted /\ Retryable(Err(k))
  <2>1. /\ phase' = "backoff"
        /\ UNCHANGED <<failover, attempt, src, rty, lease, queue, out, aborted>>
    BY <1>5 DEF Throw
  <2>2. ~rty.committed /\ attempt < setup.attempts
    BY <1>5 DEF Retryable
  <2>3. src' \in SrcType /\ src' = src
    BY <2>1, SameSource
  <2> QED BY <1>1, <2>1, <2>2, <2>3, PauseStep
<1> QED BY <1>3, <1>4, <1>5

-----------------------------------------------------------------------------
\* The adapter's chunks.
LEMMA RetryLaterStep ==
    ASSUME TypeOK, IInv, NEW c, OfAttempt(c), RetryLater(c), setup' = setup
    PROVE  TypeOK' /\ IInv'
<1>1. phase = "attempt" /\ queue = <<>> /\ phase' = "backoff" /\ Pull(c)
  BY DEF RetryLater, Pull, Pulling
<1>2. c.type = "error" /\ ~rty.committed /\ attempt < setup.attempts
  BY DEF RetryLater, Retryable
<1>3. /\ src' \in SrcType /\ (src'.started <=> src.started) /\ src'.open = src.open
      /\ src'.closed = src.closed \cup {}
  BY <1>1, <1>2, PullParts DEF Closes
<1>4. src'.started = src.started /\ src'.closed = src.closed
  <2>1. src.started \in BOOLEAN /\ src'.started \in BOOLEAN
    BY <1>3 DEF TypeOK, SrcType
  <2> QED BY <1>3, <2>1
<1>5. UNCHANGED <<failover, attempt, rty, lease, queue, out, aborted>>
  BY DEF RetryLater
<1> QED BY <1>1, <1>2, <1>3, <1>4, <1>5, PauseStep

LEMMA FailAttemptStep ==
    ASSUME TypeOK, IInv, NEW c, OfAttempt(c), FailAttempt(c), setup' = setup
    PROVE  TypeOK' /\ IInv'
<1> DEFINE e == AsError(Checked(c))
<1>1. phase = "attempt" /\ queue = <<>> /\ Pull(c) /\ rty' = rty
  BY DEF FailAttempt, Pull, Pulling
<1>2. Attending
  BY <1>1, AttendingFrom
<1>3. e.type = "error" /\ Pass(Append(rty.pre, e))
  BY DEF FailAttempt
<1>4. OfAttempt(e)
  <2>1. OfAttempt(Err("eligible")) /\ OfAttempt(Err("fatal"))
    BY ErrClass
  <2>2. OfAttempt(Checked(c))
    BY <2>1 DEF Checked
  <2> QED BY <2>1, <2>2 DEF AsError
<1>5. src' \in SrcType /\ rty' \in RtyType
  BY <1>1, PullParts DEF TypeOK, RtyType
<1> HIDE DEF e
<1> QED BY <1>2, <1>3, <1>4, <1>5, ErrorPass

\* A chunk of the preamble is held back by retry.
LEMMA BufferPreambleStep ==
    ASSUME TypeOK, IInv, NEW c, OfAttempt(c), BufferPreamble(c), setup' = setup
    PROVE  TypeOK' /\ IInv'
<1>0. /\ phase = "attempt" /\ queue = <<>> /\ phase' = phase /\ Pull(c) /\ ~Violates(c)
      /\ Preamble(c) /\ ~rty.committed /\ rty' = [rty EXCEPT !.pre = Append(@, c)]
      /\ UNCHANGED <<cand, fo, seen, recovering, handed, attempt, lease, queue, out, aborted>>
  BY DEF BufferPreamble, Pull, Pulling, failover
<1>1. c \in Stamped /\ c.cand = cand /\ c.att = attempt /\ c.id = NoId /\ ~Terminal(c)
      /\ c.type \notin CallTypes
  BY <1>0 DEF OfAttempt, Preamble, CallTypes, Terminal
<1>2. /\ src.started <=> rty.pre # <<>>
      /\ src.open = rty.started \ rty.ended /\ src.closed = rty.ended
      /\ rty.ended \subseteq rty.started /\ \A i \in rty.started : i[1] = cand
      /\ PreambleRight(rty.pre) /\ rty \in RtyType
  BY <1>0, SourceParts DEF Waiting
<1>3. rty.pre \in Seq(Stamped) /\ Append(rty.pre, c) \in Seq(Stamped)
  BY <1>1, <1>2, Appended DEF RtyType
<1>4. /\ rty' \in RtyType /\ rty'.pre = Append(rty.pre, c) /\ rty'.committed = rty.committed
      /\ rty'.started = rty.started /\ rty'.ended = rty.ended
  BY <1>0, <1>2, <1>3 DEF RtyType
<1>5. /\ src' \in SrcType /\ src'.n <= setup.chunks
      /\ src'.started <=> src.started \/ c.type = "run-start"
      /\ src'.open = src.open /\ src'.closed = src.closed \cup {}
  BY <1>0, <1>1, PullParts DEF Closes, CallTypes
<1>6. c.type = "run-start" <=> rty.pre = <<>>
  BY <1>0, <1>2 DEF Violates, Preamble
<1>7. TypeOK'
  <2>1. /\ phase' \in {"attempt"} /\ fo' \in FoType /\ seen' \in SeenType
        /\ handed' \in [error : Stamped, plan : BOOLEAN] /\ lease' \in {"none", "held", "settled"}
        /\ cand' \in 1 .. Candidate /\ attempt' \in 1 .. setup.attempts
        /\ queue' \in Seq(Stamped) /\ out' \in Seq(Stamped)
        /\ recovering' \in BOOLEAN /\ aborted' \in BOOLEAN
    BY <1>0 DEF TypeOK, FoType, SeenType
  <2> QED BY <1>4, <1>5, <2>1, TypedStep
<1>8. All' = All
  BY <1>0 DEF All
<1>9. OutputInv' /\ LeaseSettledInTime' /\ HandoverInv'
  <2>1. StreamInv(All)'
    BY <1>0, <1>8, StreamKept DEF IInv, OutputInv
  <2> QED BY <1>0, <2>1 DEF IInv, OutputInv, LeaseSettledInTime, HandoverInv
<1>10. PreambleRight(rty'.pre)
  <2>1. /\ \A i \in 1 .. Len(Append(rty.pre, c)) :
              i \in 1 .. Len(rty.pre) \/ (i = Len(rty.pre) + 1 /\ Append(rty.pre, c)[i] = c)
        /\ \A i \in 1 .. Len(rty.pre) : Append(rty.pre, c)[i] = rty.pre[i]
        /\ Len(rty.pre) \in Nat /\ (rty.pre = <<>> <=> Len(rty.pre) = 0)
    BY <1>1, <1>3, Appended, EmptyIffNone
  <2>2. c.type = "run-start" <=> Len(rty.pre) + 1 = 1
    BY <1>6, <2>1
  <2> QED BY <1>0, <1>1, <1>2, <1>4, <2>1, <2>2 DEF PreambleRight
<1>11. SourceInv'
  <2>1. PreambleRight(rty.pre)'
    BY <1>0, <1>10 DEF PreambleRight, Preamble
  <2>2. rty'.pre # <<>>
    BY <1>1, <1>3, <1>4, Appended
  <2>3. src'.started
    BY <1>2, <1>5, <1>6
  <2> QED BY <1>0, <1>2, <1>4, <1>5, <2>1, <2>2, <2>3 DEF SourceInv
<1>12. WaitingInv'
  <2>0. /\ NoTerminal(All) /\ Tracked(All, seen) /\ FoRight(All, fo, seen)
        /\ CallsKnown(All, rty.started, rty.ended)
        /\ fo.pre = <<>> /\ ~fo.committed
        /\ \A n \in 1 .. Len(All) : All[n].cand # cand
    BY <1>0 DEF IInv, WaitingInv, Waiting
  <2>1. NoTerminal(All)'
    BY <1>8, <2>0 DEF NoTerminal, Terminal
  <2>2. Tracked(All, seen)'
    BY <1>0, <1>8, <2>0 DEF Tracked
  <2>3. FoRight(All, fo, seen)'
    BY <1>0, <1>8, <2>0 DEF FoRight, SafeToContinue
  <2>4. CallsKnown(All, rty.started, rty.ended)'
    BY <1>0, <1>4, <1>8, <2>0 DEF CallsKnown
  <2>5. Buffered(fo.pre)'
    BY <1>0, <2>0 DEF Buffered
  <2>6. (\A n \in 1 .. Len(All) : All[n].cand # cand)'
    BY <1>0, <1>8, <2>0
  <2> QED BY <1>0, <1>4, <2>0, <2>1, <2>2, <2>3, <2>4, <2>5, <2>6 DEF WaitingInv
<1> QED BY <1>7, <1>9, <1>11, <1>12 DEF IInv

\* A tool call of the adapter starts once, and ends once after it has started.
LEMMA PulledInTurn ==
    ASSUME TypeOK, IInv, NEW c, OfAttempt(c), phase \in Waiting, ~Violates(c)
    PROVE  c.type # "error" /\ c.type # "run-start" => InTurn(c, rty.started, rty.ended)
<1>1. /\ src.open = rty.started \ rty.ended /\ src.closed = rty.ended
      /\ rty.ended \subseteq rty.started
  BY SourceParts
<1>2. SUFFICES ASSUME c.type # "error", c.type # "run-start"
               PROVE  InTurn(c, rty.started, rty.ended)
  OBVIOUS
<1>3. src.started
  BY <1>2 DEF Violates
<1>4. /\ c.type = "tool-start" => c.id \notin src.open \cup src.closed
      /\ c.type = "tool-end" => c.id \in src.open
  BY <1>3 DEF Violates
<1> QED BY <1>1, <1>4 DEF InTurn

\* Content, and what comes after it.
LEMMA ForwardContentStep ==
    ASSUME TypeOK, IInv, NEW c, OfAttempt(c), ForwardContent(c), setup' = setup
    PROVE  TypeOK' /\ IInv'
<1> DEFINE S == rty.started
           D == rty.ended
           t == <<c>>
           cs == Append(rty.pre, c)
           r == [pre       |-> <<>>, committed |-> TRUE,
                 answered  |-> rty.answered \/ c.type = "text",
                 started   |-> IF c.type = "tool-start" THEN rty.started \cup {c.id}
                               ELSE rty.started,
                 ended     |-> IF c.type = "tool-end" THEN rty.ended \cup {c.id}
                               ELSE rty.ended]
<1>0. /\ phase = "attempt" /\ queue = <<>> /\ Pull(c) /\ ~Violates(c) /\ ~Terminal(c)
      /\ (Preamble(c) => rty.committed) /\ rty' = r /\ Pass(cs)
  BY DEF ForwardContent, Pull, Pulling
<1>1. /\ c \in Stamped /\ c.cand = cand /\ c.type # "error" /\ c.type # "run-end"
      /\ (c.type \in CallTypes => c.id \in ToolIds /\ c.id[1] = cand)
      /\ (c.type # "run-start" => (c.type = "tool-start" => c.type \in CallTypes))
  BY <1>0 DEF OfAttempt, Terminal, CallTypes
<1>2. /\ src.started <=> rty.committed \/ rty.pre # <<>>
      /\ src.open = S \ D /\ src.closed = D /\ D \subseteq S
      /\ \A i \in S : i[1] = cand
      /\ rty \in RtyType /\ S \subseteq ToolIds /\ D \subseteq ToolIds
  BY <1>0, SourceParts DEF Waiting
<1>3. c.type # "run-start"
  BY <1>0, <1>2 DEF Violates, Preamble
<1>4. rty.committed \/ rty.pre # <<>>
  BY <1>0, <1>1, <1>3, LegalPull
<1>5. InTurn(c, S, D)
  BY <1>0, <1>1, <1>3, PulledInTurn DEF Waiting
<1>6. Attending
  BY <1>0, AttendingFrom
<1>7. /\ Typed /\ Ready(Start, S, D) /\ rty.pre \in Seq(Stamped) /\ PreambleRight(rty.pre)
      /\ rty.pre = <<>> \/ (Start.fo.pre = <<>> /\ ~Start.fo.committed)
      /\ Start.fo = fo /\ (rty.committed => recovering \/ fo.committed)
  BY <1>6, StartReady
<1>8. /\ t \in Seq(Stamped) /\ cs = rty.pre \o t /\ Last(cs) = c
  BY <1>1, <1>7, LastOf, AppendIsConcat
<1>9. PICK reveal : PassTo(cs, ForwardAll(Start, cs, reveal))
  BY <1>0, PassIs
<1> DEFINE end == ForwardAll(Start, rty.pre \o t, reveal)
<1>10. /\ r \in RtyType /\ r.pre = <<>> /\ r.committed /\ r.started = S \cup Opens(c)
       /\ r.ended = D \cup Closes(c)
  <2>1. S \cup Opens(c) \in SUBSET ToolIds /\ D \cup Closes(c) \in SUBSET ToolIds
    BY <1>1, <1>2, <1>3 DEF Opens, Closes, CallTypes
  <2>2. /\ r.started = S \cup Opens(c) /\ r.ended = D \cup Closes(c)
        /\ r.pre = <<>> /\ r.committed
    BY DEF Opens, Closes
  <2>3. r.answered \in BOOLEAN
    BY <1>2 DEF RtyType
  <2> QED BY <2>1, <2>2, <2>3 DEF RtyType
<1>11. /\ src' \in SrcType /\ src'.n <= setup.chunks /\ (src'.started <=> src.started)
       /\ src'.open = (S \cup Opens(c)) \ (D \cup Closes(c))
       /\ src'.closed = D \cup Closes(c)
  <2>1. /\ src' \in SrcType /\ src'.n <= setup.chunks /\ (src'.started <=> src.started)
        /\ src'.closed = src.closed \cup Closes(c)
        /\ src'.open = CASE c.type = "tool-start" -> src.open \cup {c.id}
                         [] c.type = "tool-end" -> src.open \ {c.id}
                         [] OTHER -> src.open
    BY <1>0, <1>3, PullParts
  <2>2. src'.open = (src.open \cup Opens(c)) \ Closes(c)
    BY <2>1 DEF Opens, Closes
  <2>3. c.type = "tool-start" => c.id \notin D /\ Closes(c) = {}
    BY <1>2, <1>5 DEF InTurn, Closes
  <2> QED BY <1>2, <2>1, <2>2, <2>3 DEF Opens, Closes
<1> HIDE DEF t, S, D, r, cs
<1>12. PICK g : end = g[Len(t)] /\ Joins(g, Start, S, D, rty.pre, t, reveal)
  <2>1. end = ForwardAll(Start, rty.pre \o t, reveal)
    OBVIOUS
  <2> HIDE DEF end
  <2> QED BY <1>7, <1>8, <2>1, JoinedForwarded
<1>13. PassTo(cs, end)
  BY <1>8, <1>9
<1> HIDE DEF end
<1>14. /\ Ready(g[0], S, D) /\ end = Forward(g[0], c, reveal)
       /\ (rty.pre = <<>> => g[0] = Start) /\ (rty.pre # <<>> => g[0].fo.pre # <<>>)
  BY <1>12 DEF t, Joins
<1>15. recovering \/ g[0].fo.committed \/ g[0].fo.pre # <<>>
  BY <1>4, <1>7, <1>14
<1>16. Ready(end, S \cup Opens(c), D \cup Closes(c)) /\ (recovering \/ end.fo.committed)
  <2>1. CASE Preamble(c) /\ ~g[0].fo.committed
    <3>1. rty.committed /\ rty.pre = <<>>
      BY <1>0, <2>1, SourceParts DEF Waiting
    <3>2. recovering
      BY <1>7, <1>14, <2>1, <3>1
    <3>3. Ready(Forward(g[0], c, reveal), S, D)
      BY <1>7, <1>14, <2>1, <3>2, ForwardPreamble
    <3>4. S \cup Opens(c) = S /\ D \cup Closes(c) = D
      BY <2>1 DEF Preamble, Opens, Closes
    <3> QED BY <1>14, <3>2, <3>3, <3>4
  <2>2. CASE ~(Preamble(c) /\ ~g[0].fo.committed)
    <3>1. Preamble(c) => g[0].fo.committed
      BY <2>2
    <3>2. /\ Ready(Forward(g[0], c, reveal), S \cup Opens(c), D \cup Closes(c))
          /\ recovering \/ Forward(g[0], c, reveal).fo.committed
      BY <1>0, <1>3, <1>5, <1>7, <1>14, <1>15, <3>1, ForwardMid
    <3> QED BY <1>14, <3>2
  <2> QED BY <2>1, <2>2
<1>17. UNCHANGED <<cand, attempt, recovering, out, aborted>> /\ phase' = "attempt"
  BY <1>13, <1>16 DEF PassTo, Ready, IsIn
<1>18. SourceInv'
  <2>1. PreambleRight(rty.pre)'
    BY <1>0, <1>10 DEF PreambleRight
  <2>2. \A i \in S \cup Opens(c) : i[1] = cand
    BY <1>1, <1>2 DEF Opens, CallTypes
  <2>3. D \cup Closes(c) \subseteq S \cup Opens(c)
    BY <1>2, <1>5 DEF InTurn, Closes
  <2>4. src'.started
    BY <1>2, <1>4, <1>11
  <2> QED BY <1>0, <1>10, <1>11, <1>17, <2>1, <2>2, <2>3, <2>4 DEF SourceInv
<1>19. /\ Ready(end, rty'.started, rty'.ended) /\ rty'.committed /\ ~Terminal(Last(cs))
       /\ phase # "backoff" /\ (recovering \/ end.fo.committed)
  BY <1>0, <1>8, <1>10, <1>16
<1>20. /\ IInv' /\ phase' = "attempt" /\ fo' \in FoType /\ seen' \in SeenType
       /\ queue' \in Seq(Stamped) /\ handed' = handed
       /\ lease' \in {"none", "held"}
       /\ UNCHANGED <<cand, attempt, recovering, out, aborted>>
  BY <1>6, <1>13, <1>18, <1>19, ContinuedStep
<1>21. TypeOK'
  <2>1. /\ cand \in 1 .. Candidate /\ attempt \in 1 .. setup.attempts /\ out \in Seq(Stamped)
        /\ recovering \in BOOLEAN /\ aborted \in BOOLEAN
        /\ handed \in [error : Stamped, plan : BOOLEAN]
    BY DEF TypeOK
  <2> QED BY <1>0, <1>10, <1>11, <1>20, <2>1, TypedStep
<1> QED BY <1>20, <1>21

-----------------------------------------------------------------------------
\* A clean end.  What only the final message holds goes before it.
MidOf(st, S, D) == Ready(st, S, D) /\ (recovering \/ st.fo.committed \/ st.fo.pre # <<>>)

LEMMA MidChunk ==
    ASSUME Typed, NEW st, NEW S, NEW D, MidOf(st, S, D), NEW c, NEW reveal,
           OfAttempt(c), c.type \in {"text", "tool-start", "tool-end"}, InTurn(c, S, D)
    PROVE  MidOf(Forward(st, c, reveal), S \cup Opens(c), D \cup Closes(c))
<1>1. Ready(st, S, D) /\ (recovering \/ st.fo.committed \/ st.fo.pre # <<>>)
  BY DEF MidOf
<1>2. ~Terminal(c) /\ ~Preamble(c) /\ c.type # "run-start"
  BY DEF Terminal, Preamble
<1>3. /\ Ready(Forward(st, c, reveal), S \cup Opens(c), D \cup Closes(c))
      /\ recovering \/ Forward(st, c, reveal).fo.committed
  BY <1>1, <1>2, ForwardMid
<1> QED BY <1>3 DEF MidOf

LEMMA MidEnd ==
    ASSUME Typed, NEW st, NEW S, NEW D, MidOf(st, S, D), NEW c, NEW reveal,
           OfAttempt(c), c.type = "run-end"
    PROVE  Finished(Forward(st, c, reveal))
<1>1. Ready(st, S, D) /\ (recovering \/ st.fo.committed \/ st.fo.pre # <<>>)
  BY DEF MidOf
<1>2. Terminal(c)
  BY DEF Terminal
<1> QED BY <1>1, <1>2, ForwardTerminal

LEMMA RecoveredForwarded ==
    ASSUME Typed, NEW c, OfAttempt(c), c.type = "run-end", rty.ended \subseteq rty.started,
           NEW t, t = Recovered(c) \o <<c>>
    PROVE  /\ t \in Seq(Stamped)
           /\ \A g, reveal :
                 /\ MidOf(g[0], rty.started, rty.ended)
                 /\ \A n \in 1 .. Len(t) : g[n] = Forward(g[n - 1], t[n], reveal)
                 => Finished(g[Len(t)])
<1> DEFINE S == rty.started
           D == rty.ended
           start == Chunk("tool-start", c.id, "none")
           end   == Chunk("tool-end", c.id, "none")
           Goal == /\ t \in Seq(Stamped)
                   /\ \A g, reveal :
                        /\ MidOf(g[0], S, D)
                        /\ \A n \in 1 .. Len(t) : g[n] = Forward(g[n - 1], t[n], reveal)
                        => Finished(g[Len(t)])
<1> SUFFICES Goal
  OBVIOUS
<1>1. Here /\ c \in Stamped /\ (c.id # NoId => c.id \in ToolIds /\ c.id[1] = cand)
  BY DEF Typed, OfAttempt
<1>2. OfAttempt(Plain("text")) /\ Plain("text").type = "text"
  BY <1>1, PlainParts
<1>3. c.id # NoId => /\ OfAttempt(start) /\ start.type = "tool-start" /\ start.id = c.id
                     /\ OfAttempt(end) /\ end.type = "tool-end" /\ end.id = c.id
  <2> SUFFICES ASSUME c.id # NoId
               PROVE  /\ OfAttempt(start) /\ start.type = "tool-start" /\ start.id = c.id
                      /\ OfAttempt(end) /\ end.type = "tool-end" /\ end.id = c.id
    OBVIOUS
  <2>1. /\ "tool-start" \in Types /\ "tool-end" \in Types /\ "none" \in Classes
        /\ "tool-start" \in CallTypes /\ "tool-end" \in CallTypes
    BY DEF Types, Classes, CallTypes
  <2>2. c.id \in ToolIds \cup {NoId} /\ c.id # NoId /\ c.id[1] = cand
    BY <1>1
  <2>3. OfAttempt(start) /\ start.type = "tool-start" /\ start.id = c.id
    BY <1>1, <2>1, <2>2, OfAttemptChunk
  <2>4. OfAttempt(end) /\ end.type = "tool-end" /\ end.id = c.id
    BY <1>1, <2>1, <2>2, OfAttemptChunk
  <2> QED BY <2>3, <2>4
<1> HIDE DEF S, D
<1>4. CASE c.id = NoId /\ ~rty.answered
  <2> DEFINE x == Plain("text")
  <2>1. Recovered(c) = <<x>> /\ x \in Stamped
    BY <1>2, <1>4 DEF Recovered, OfAttempt
  <2>2. t \in Seq(Stamped) /\ Len(t) = 2 /\ t[1] = x /\ t[2] = c
    <3> HIDE DEF x
    <3> QED BY <1>1, <2>1
  <2> SUFFICES ASSUME NEW g, NEW reveal, MidOf(g[0], S, D),
                      \A n \in 1 .. Len(t) : g[n] = Forward(g[n - 1], t[n], reveal)
               PROVE  Finished(g[Len(t)])
    BY <2>2
  <2>3. g[1] = Forward(g[0], x, reveal) /\ g[2] = Forward(g[1], c, reveal)
    <3> HIDE DEF x
    <3> QED BY <2>2
  <2>4. InTurn(x, S, D) /\ x.type \in {"text", "tool-start", "tool-end"} /\ OfAttempt(x)
    BY <1>2 DEF InTurn
  <2> HIDE DEF x
  <2>5. MidOf(g[1], S \cup Opens(x), D \cup Closes(x))
    BY <2>3, <2>4, MidChunk
  <2> QED BY <2>2, <2>3, <2>5, MidEnd
<1>5. CASE c.id # NoId /\ c.id \notin rty.started
  <2>1. Recovered(c) = <<start, end>> /\ start \in Stamped /\ end \in Stamped
    BY <1>3, <1>5 DEF Recovered, OfAttempt
  <2>0. InTurn(start, S, D) /\ InTurn(end, S \cup Opens(start), D \cup Closes(start))
    <3> HIDE DEF start, end
    <3> QED BY <1>3, <1>5 DEF InTurn, Opens, Closes, S, D
  <2> HIDE DEF start, end
  <2>2. t \in Seq(Stamped) /\ Len(t) = 3 /\ t[1] = start /\ t[2] = end /\ t[3] = c
    BY <1>1, <2>1
  <2> SUFFICES ASSUME NEW g, NEW reveal, MidOf(g[0], S, D),
                      \A n \in 1 .. Len(t) : g[n] = Forward(g[n - 1], t[n], reveal)
               PROVE  Finished(g[Len(t)])
    BY <2>2
  <2>3. /\ g[1] = Forward(g[0], start, reveal) /\ g[2] = Forward(g[1], end, reveal)
        /\ g[3] = Forward(g[2], c, reveal)
    BY <2>2
  <2>4. MidOf(g[1], S \cup Opens(start), D \cup Closes(start))
    BY <1>3, <1>5, <2>0, <2>3, MidChunk
  <2>5. MidOf(g[2], (S \cup Opens(start)) \cup Opens(end), (D \cup Closes(start)) \cup Closes(end))
    BY <1>3, <1>5, <2>0, <2>3, <2>4, MidChunk
  <2> QED BY <2>2, <2>3, <2>5, MidEnd
<1>6. CASE c.id # NoId /\ c.id \in rty.started \ rty.ended
  <2>1. Recovered(c) = <<end>> /\ end \in Stamped
    BY <1>3, <1>6 DEF Recovered, OfAttempt
  <2>0. InTurn(end, S, D)
    <3> HIDE DEF start, end
    <3> QED BY <1>3, <1>6 DEF InTurn, S, D
  <2> HIDE DEF start, end
  <2>2. t \in Seq(Stamped) /\ Len(t) = 2 /\ t[1] = end /\ t[2] = c
    BY <1>1, <2>1
  <2> SUFFICES ASSUME NEW g, NEW reveal, MidOf(g[0], S, D),
                      \A n \in 1 .. Len(t) : g[n] = Forward(g[n - 1], t[n], reveal)
               PROVE  Finished(g[Len(t)])
    BY <2>2
  <2>3. g[1] = Forward(g[0], end, reveal) /\ g[2] = Forward(g[1], c, reveal)
    BY <2>2
  <2>4. MidOf(g[1], S \cup Opens(end), D \cup Closes(end))
    BY <1>3, <1>6, <2>0, <2>3, MidChunk
  <2> QED BY <2>2, <2>3, <2>4, MidEnd
<1>7. CASE /\ ~(c.id = NoId /\ ~rty.answered)
           /\ ~(c.id # NoId /\ c.id \notin rty.started)
           /\ ~(c.id # NoId /\ c.id \in rty.started \ rty.ended)
  <2>1. Recovered(c) = <<>>
    BY <1>7 DEF Recovered
  <2>2. t \in Seq(Stamped) /\ Len(t) = 1 /\ t[1] = c
    BY <1>1, <2>1
  <2> SUFFICES ASSUME NEW g, NEW reveal, MidOf(g[0], S, D),
                      \A n \in 1 .. Len(t) : g[n] = Forward(g[n - 1], t[n], reveal)
               PROVE  Finished(g[Len(t)])
    BY <2>2
  <2>3. g[1] = Forward(g[0], c, reveal)
    BY <2>2
  <2> QED BY <2>2, <2>3, MidEnd
<1> HIDE DEF Goal
<1> QED BY <1>4, <1>5, <1>6, <1>7

LEMMA BehindBoth ==
    ASSUME NEW p \in Seq(Stamped), NEW r \in Seq(Stamped), NEW c \in Stamped
    PROVE  p \o r \o <<c>> = p \o (r \o <<c>>)
<1>1. <<c>> \in Seq(Stamped)
  OBVIOUS
<1> QED BY <1>1, ConcatAssociative

LEMMA FinishAttemptStep ==
    ASSUME TypeOK, IInv, NEW c, OfAttempt(c), FinishAttempt(c), setup' = setup
    PROVE  TypeOK' /\ IInv'
<1> DEFINE S == rty.started
           D == rty.ended
           r == Recovered(c)
           t == r \o <<c>>
           cs == rty.pre \o r \o <<c>>
<1>0. /\ phase = "attempt" /\ queue = <<>> /\ Pull(c) /\ ~Violates(c) /\ c.type = "run-end"
      /\ rty' = rty /\ Pass(cs)
  BY DEF FinishAttempt, Pull, Pulling
<1>1. c \in Stamped /\ Terminal(c) /\ c.type # "run-start" /\ c.type # "error"
  BY <1>0 DEF OfAttempt, Terminal
<1>2. D \subseteq S
  BY <1>0, SourceParts DEF Waiting
<1>3. rty.committed \/ rty.pre # <<>>
  BY <1>0, <1>1, LegalPull
<1>4. Attending
  BY <1>0, AttendingFrom
<1>5. /\ Typed /\ Ready(Start, S, D) /\ rty.pre \in Seq(Stamped) /\ PreambleRight(rty.pre)
      /\ rty.pre = <<>> \/ (Start.fo.pre = <<>> /\ ~Start.fo.committed)
      /\ Start.fo = fo /\ (rty.committed => recovering \/ fo.committed)
  BY <1>4, StartReady
<1>6. /\ t \in Seq(Stamped)
      /\ \A g, reveal :
            /\ MidOf(g[0], S, D)
            /\ \A n \in 1 .. Len(t) : g[n] = Forward(g[n - 1], t[n], reveal)
            => Finished(g[Len(t)])
  BY <1>0, <1>2, <1>5, RecoveredForwarded
<1>7. r \in Seq(Stamped)
  <2>1. OfAttempt(Plain("text")) /\ Here
    BY <1>5, PlainParts DEF Typed
  <2>2. c.id # NoId => /\ Chunk("tool-start", c.id, "none") \in Stamped
                       /\ Chunk("tool-end", c.id, "none") \in Stamped
    <3>1. "tool-start" \in Types /\ "tool-end" \in Types /\ "none" \in Classes
      BY DEF Types, Classes
    <3> QED BY <2>1, <3>1, ChunkParts DEF OfAttempt
  <2> QED BY <2>1, <2>2 DEF Recovered, OfAttempt
<1> HIDE DEF r
<1>8. cs = rty.pre \o t /\ Last(cs) = c
  <2>1. rty.pre \o r \in Seq(Stamped)
    BY <1>5, <1>7, ConcatProperties
  <2>2. Last((rty.pre \o r) \o <<c>>) = c
    BY <1>1, <2>1, LastOf
  <2>3. (rty.pre \o r) \o <<c>> = rty.pre \o (r \o <<c>>)
    BY <1>1, <1>5, <1>7, BehindBoth
  <2> QED BY <2>2, <2>3
<1>9. PICK reveal : PassTo(cs, ForwardAll(Start, cs, reveal))
  BY <1>0, PassIs
<1> DEFINE end == ForwardAll(Start, rty.pre \o t, reveal)
<1> HIDE DEF t, S, D, cs
<1>10. PICK g : end = g[Len(t)] /\ Joins(g, Start, S, D, rty.pre, t, reveal)
  <2>1. end = ForwardAll(Start, rty.pre \o t, reveal)
    OBVIOUS
  <2> HIDE DEF end
  <2> QED BY <1>5, <1>6, <2>1, JoinedForwarded
<1>11. PassTo(cs, end)
  BY <1>8, <1>9
<1> HIDE DEF end
<1>12. /\ Ready(g[0], S, D)
       /\ (rty.pre = <<>> => g[0] = Start) /\ (rty.pre # <<>> => g[0].fo.pre # <<>>)
       /\ \A n \in 1 .. Len(t) : g[n] = Forward(g[n - 1], t[n], reveal)
  BY <1>10 DEF Joins
<1>13. MidOf(g[0], S, D)
  BY <1>3, <1>5, <1>12 DEF MidOf
<1>14. Finished(end)
  BY <1>6, <1>10, <1>12, <1>13
<1>15. /\ IInv' /\ phase' \in {"handover", "done"} /\ fo' \in FoType /\ seen' \in SeenType
       /\ queue' \in Seq(Stamped) /\ handed' \in [error : Stamped, plan : BOOLEAN]
       /\ lease' \in {"none", "settled"}
       /\ UNCHANGED <<cand, attempt, recovering, out, aborted>>
  BY <1>1, <1>4, <1>8, <1>11, <1>14, FinishedStep
<1>16. src' \in SrcType /\ rty' \in RtyType
  BY <1>0, PullParts DEF TypeOK, RtyType
<1>17. TypeOK'
  <2>1. /\ cand \in 1 .. Candidate /\ attempt \in 1 .. setup.attempts /\ out \in Seq(Stamped)
        /\ recovering \in BOOLEAN /\ aborted \in BOOLEAN
    BY DEF TypeOK
  <2> QED BY <1>15, <1>16, <2>1, TypedStep
<1> QED BY <1>15, <1>17

-----------------------------------------------------------------------------
\* The stages that leave the stream as it is.
LEMMA AdmitStep ==
    ASSUME TypeOK, IInv, NEW l \in {"none", "held"}, Admit(l), setup' = setup
    PROVE  TypeOK' /\ IInv'
<1>0. /\ phase = "admit" /\ phase' = "attempt" /\ lease' = l
      /\ UNCHANGED <<cand, fo, seen, recovering, handed, attempt, src, rty, queue, out, aborted>>
  BY DEF Admit, failover
<1>1. TypeOK'
  <2>1. /\ rty' \in RtyType /\ fo' \in FoType /\ seen' \in SeenType /\ src' \in SrcType
        /\ handed' \in [error : Stamped, plan : BOOLEAN] /\ lease' \in {"none", "held", "settled"}
        /\ cand' \in 1 .. Candidate /\ attempt' \in 1 .. setup.attempts
        /\ queue' \in Seq(Stamped) /\ out' \in Seq(Stamped)
        /\ recovering' \in BOOLEAN /\ aborted' \in BOOLEAN
    BY <1>0 DEF TypeOK, RtyType, FoType, SeenType, SrcType
  <2> QED BY <1>0, <2>1, TypedStep
<1>2. All' = All
  BY <1>0 DEF All
<1>3. OutputInv'
  <2>1. StreamInv(All)'
    BY <1>0, <1>2, StreamKept DEF IInv, OutputInv
  <2> QED BY <1>0, <2>1 DEF IInv, OutputInv
<1>4. LeaseSettledInTime' /\ HandoverInv'
  BY <1>0 DEF LeaseSettledInTime, HandoverInv
<1>5. SourceInv'
  BY <1>0 DEF IInv, SourceInv, Waiting, PreambleRight, Preamble
<1>6. WaitingInv'
  <2>0. /\ NoTerminal(All) /\ Tracked(All, seen) /\ FoRight(All, fo, seen)
        /\ CallsKnown(All, rty.started, rty.ended)
        /\ (~rty.committed => /\ fo.pre = <<>> /\ ~fo.committed
                              /\ \A n \in 1 .. Len(All) : All[n].cand # cand)
        /\ Buffered(fo.pre) /\ (~recovering /\ rty.committed => fo.committed)
    BY <1>0 DEF IInv, WaitingInv, Waiting
  <2>1. NoTerminal(All)'
    BY <1>2, <2>0 DEF NoTerminal, Terminal
  <2>2. Tracked(All, seen)'
    BY <1>0, <1>2, <2>0 DEF Tracked
  <2>3. FoRight(All, fo, seen)'
    BY <1>0, <1>2, <2>0 DEF FoRight, SafeToContinue
  <2>4. CallsKnown(All, rty.started, rty.ended)'
    BY <1>0, <1>2, <2>0 DEF CallsKnown
  <2>5. Buffered(fo.pre)'
    BY <1>0, <2>0 DEF Buffered, Preamble
  <2>6. (~rty.committed => \A n \in 1 .. Len(All) : All[n].cand # cand)'
    BY <1>0, <1>2, <2>0
  <2> QED BY <1>0, <2>0, <2>1, <2>2, <2>3, <2>4, <2>5, <2>6 DEF WaitingInv
<1> QED BY <1>1, <1>3, <1>4, <1>5, <1>6 DEF IInv

\* What all the other steps may keep.
LEMMA FreshTyped ==
    ASSUME TypeOK
    PROVE  /\ NewSource \in SrcType /\ NewRetry \in RtyType /\ NothingSeen \in SeenType
           /\ \A b \in BOOLEAN : NewFailover(b) \in FoType
           /\ 1 \in 1 .. setup.attempts
<1>1. setup.chunks \in Nat /\ setup.attempts \in Nat \ {0}
  BY PipelineAssumption DEF TypeOK
<1>2. NewSource \in SrcType
  BY <1>1 DEF NewSource, SrcType
<1>3. <<>> \in Seq(Stamped)
  OBVIOUS
<1>4. NewRetry \in RtyType
  BY <1>3 DEF NewRetry, RtyType
<1>5. \A b \in BOOLEAN : NewFailover(b) \in FoType
  BY <1>3 DEF NewFailover, FoType
<1>6. NothingSeen \in SeenType
  BY DEF NothingSeen, SeenType, Status
<1> QED BY <1>1, <1>2, <1>4, <1>5, <1>6

LEMMA SameStream ==
    ASSUME IInv, setup' = setup, phase' = phase, All' = All,
           UNCHANGED <<cand, fo, seen, recovering, handed, attempt, src, rty, lease>>,
           phase = "backoff" => queue' = <<>>,
           \A n \in 1 .. Len(queue') : queue'[n].cand = cand
    PROVE  IInv'
<1>1. OutputInv'
  <2>1. StreamInv(All)'
    BY StreamKept DEF IInv, OutputInv
  <2>2. phase' \in {"left", "threw"} => NoTerminal(All)'
    BY DEF IInv, OutputInv, NoTerminal, Terminal
  <2> QED BY <2>1, <2>2 DEF OutputInv
<1>2. LeaseSettledInTime'
  BY DEF IInv, LeaseSettledInTime
<1>3. SourceInv'
  <2> SUFFICES ASSUME phase \in Waiting PROVE SourceInv'
    BY DEF SourceInv
  <2>1. PreambleRight(rty.pre)'
    BY DEF IInv, SourceInv, PreambleRight, Preamble
  <2> QED BY <2>1 DEF IInv, SourceInv
<1>4. HandoverInv'
  <2> SUFFICES ASSUME phase = "handover" PROVE HandoverInv'
    BY DEF HandoverInv
  <2>0. /\ NoTerminal(All) /\ Tracked(All, seen) /\ cand < Candidate
        /\ handed.error.type = "error" /\ handed.error.id = NoId
        /\ handed.error.cand = cand /\ handed.error.att = attempt
        /\ handed.plan => SafeToContinue(seen)
        /\ ~handed.plan => All = <<>>
    BY DEF IInv, HandoverInv
  <2>1. NoTerminal(All)'
    BY <2>0 DEF NoTerminal, Terminal
  <2>2. Tracked(All, seen)'
    BY <2>0 DEF Tracked
  <2>3. (handed.plan => SafeToContinue(seen))'
    BY <2>0 DEF SafeToContinue
  <2> QED BY <2>0, <2>1, <2>2, <2>3 DEF HandoverInv
<1>5. WaitingInv'
  <2> SUFFICES ASSUME phase \in Waiting PROVE WaitingInv'
    BY DEF WaitingInv
  <2>0. /\ NoTerminal(All) /\ Tracked(All, seen) /\ FoRight(All, fo, seen)
        /\ CallsKnown(All, rty.started, rty.ended)
        /\ (~rty.committed => /\ fo.pre = <<>> /\ ~fo.committed
                              /\ \A n \in 1 .. Len(All) : All[n].cand # cand)
        /\ Buffered(fo.pre) /\ (~recovering /\ rty.committed => fo.committed)
    BY DEF IInv, WaitingInv
  <2>1. NoTerminal(All)'
    BY <2>0 DEF NoTerminal, Terminal
  <2>2. Tracked(All, seen)'
    BY <2>0 DEF Tracked
  <2>3. FoRight(All, fo, seen)'
    BY <2>0 DEF FoRight, SafeToContinue
  <2>4. CallsKnown(All, rty.started, rty.ended)'
    BY <2>0 DEF CallsKnown
  <2>5. Buffered(fo.pre)'
    BY <2>0 DEF Buffered, Preamble
  <2>6. (~rty.committed => \A n \in 1 .. Len(All) : All[n].cand # cand)'
    BY <2>0
  <2> QED BY <2>0, <2>1, <2>2, <2>3, <2>4, <2>5, <2>6 DEF WaitingInv
<1> QED BY <1>1, <1>2, <1>3, <1>4, <1>5 DEF IInv

LEMMA HeadFirst ==
    ASSUME NEW q \in Seq(Stamped), NEW h \in Seq(Stamped), NEW r \in Seq(Stamped),
           Len(h) = 1, h[1] = q[1], Len(q) \in Nat \ {0}, Len(r) = Len(q) - 1,
           \A n \in 1 .. Len(q) - 1 : r[n] = q[n + 1]
    PROVE  h \o r = q
<1>1. /\ h \o r \in Seq(Stamped) /\ Len(h \o r) = Len(h) + Len(r)
      /\ \A i \in 1 .. Len(h) + Len(r) : (h \o r)[i] = IF i <= Len(h) THEN h[i] ELSE r[i - Len(h)]
  BY ConcatProperties
<1>2. ASSUME NEW i \in 1 .. Len(q) PROVE (h \o r)[i] = q[i]
  <2>1. CASE i = 1
    BY <1>1, <2>1
  <2>2. CASE i # 1
    <3>1. i - 1 \in 1 .. Len(q) - 1 /\ (i - 1) + 1 = i
      BY <2>2
    <3>2. r[i - 1] = q[(i - 1) + 1]
      BY <3>1
    <3> QED BY <1>1, <2>2, <3>1, <3>2
  <2> QED BY <2>1, <2>2
<1>3. Len(h \o r) = Len(q)
  BY <1>1
<1> QED BY <1>1, <1>2, <1>3, SeqEqual

LEMMA TailParts ==
    ASSUME NEW o \in Seq(Stamped), NEW q \in Seq(Stamped), q # <<>>
    PROVE  /\ Append(o, Head(q)) \in Seq(Stamped) /\ Tail(q) \in Seq(Stamped)
           /\ Append(o, Head(q)) \o Tail(q) = o \o q
           /\ Len(q) \in Nat /\ Len(Tail(q)) = Len(q) - 1
           /\ \A n \in 1 .. Len(q) - 1 : Tail(q)[n] = q[n + 1] /\ n + 1 \in 1 .. Len(q)
<1>1. /\ Head(q) \in Stamped /\ Tail(q) \in Seq(Stamped) /\ Len(q) \in Nat
      /\ Len(Tail(q)) = Len(q) - 1
      /\ \A n \in 1 .. Len(q) - 1 : Tail(q)[n] = q[n + 1] /\ n + 1 \in 1 .. Len(q)
  BY HeadTailProperties, LenProperties
<1>2. Append(o, Head(q)) \in Seq(Stamped) /\ Append(o, Head(q)) = o \o <<Head(q)>>
  BY <1>1, AppendProperties, AppendIsConcat
<1>3. <<Head(q)>> \o Tail(q) = q
  <2>1. <<Head(q)>> \in Seq(Stamped) /\ Len(<<Head(q)>>) = 1 /\ <<Head(q)>>[1] = Head(q)
    BY <1>1
  <2>2. q[1] = Head(q) /\ Len(q) \in Nat \ {0}
    BY <1>1, EmptyIffNone
  <2> QED BY <1>1, <2>1, <2>2, HeadFirst
<1>4. (o \o <<Head(q)>>) \o Tail(q) = o \o (<<Head(q)>> \o Tail(q))
  <2>1. <<Head(q)>> \in Seq(Stamped)
    BY <1>1
  <2> QED BY <1>1, <2>1, ConcatAssociative
<1> QED BY <1>1, <1>2, <1>3, <1>4

LEMMA DeliverStep ==
    ASSUME TypeOK, IInv, Deliver, setup' = setup
    PROVE  TypeOK' /\ IInv'
<1>0. /\ queue # <<>> /\ out' = Append(out, Head(queue)) /\ queue' = Tail(queue)
      /\ UNCHANGED <<cand, fo, seen, recovering, handed, phase, attempt, src, rty, lease, aborted>>
  BY DEF Deliver, failover
<1>1. out \in Seq(Stamped) /\ queue \in Seq(Stamped)
  BY DEF TypeOK
<1>2. /\ out' \in Seq(Stamped) /\ queue' \in Seq(Stamped) /\ out' \o queue' = out \o queue
      /\ Len(queue) \in Nat /\ Len(queue') = Len(queue) - 1
      /\ \A n \in 1 .. Len(queue) - 1 : queue'[n] = queue[n + 1] /\ n + 1 \in 1 .. Len(queue)
  BY <1>0, <1>1, TailParts
<1>3. TypeOK'
  <2>1. /\ rty' \in RtyType /\ fo' \in FoType /\ seen' \in SeenType /\ src' \in SrcType
        /\ handed' \in [error : Stamped, plan : BOOLEAN] /\ lease' \in {"none", "held", "settled"}
        /\ cand' \in 1 .. Candidate /\ attempt' \in 1 .. setup.attempts
        /\ recovering' \in BOOLEAN /\ aborted' \in BOOLEAN
        /\ phase' \in {"admit", "attempt", "backoff", "handover", "done", "left", "threw"}
    BY <1>0 DEF TypeOK, RtyType, FoType, SeenType, SrcType
  <2> QED BY <1>2, <2>1, TypedStep
<1>4. phase # "backoff"
  BY <1>0 DEF IInv, SourceInv, Waiting
<1>5. \A n \in 1 .. Len(queue') : queue'[n].cand = cand
  BY <1>2 DEF IInv, OutputInv
<1>6. All' = All
  BY <1>2 DEF All
<1> QED BY <1>0, <1>3, <1>4, <1>5, <1>6, SameStream

LEMMA AbortStep ==
    ASSUME TypeOK, IInv, Abort, setup' = setup
    PROVE  TypeOK' /\ IInv'
<1>0. /\ aborted'
      /\ UNCHANGED <<cand, fo, seen, recovering, handed, phase, attempt, src, rty, lease, queue, out>>
  BY DEF Abort, failover
<1>1. TypeOK'
  <2>1. /\ rty' \in RtyType /\ fo' \in FoType /\ seen' \in SeenType /\ src' \in SrcType
        /\ handed' \in [error : Stamped, plan : BOOLEAN] /\ lease' \in {"none", "held", "settled"}
        /\ cand' \in 1 .. Candidate /\ attempt' \in 1 .. setup.attempts
        /\ queue' \in Seq(Stamped) /\ out' \in Seq(Stamped) /\ recovering' \in BOOLEAN
        /\ phase' \in {"admit", "attempt", "backoff", "handover", "done", "left", "threw"}
    BY <1>0 DEF TypeOK, RtyType, FoType, SeenType, SrcType
  <2>2. aborted' \in BOOLEAN
    BY DEF Abort
  <2> QED BY <2>1, <2>2, TypedStep
<1>2. All' = All
  BY <1>0 DEF All
<1>3. /\ phase = "backoff" => queue' = <<>>
      /\ \A n \in 1 .. Len(queue') : queue'[n].cand = cand
  BY <1>0 DEF IInv, SourceInv, OutputInv, Waiting
<1> QED BY <1>0, <1>1, <1>2, <1>3, SameStream

LEMMA StutterStep ==
    ASSUME TypeOK, IInv, UNCHANGED vars
    PROVE  TypeOK' /\ IInv'
<1>0. UNCHANGED <<cand, fo, seen, recovering, handed, phase, attempt, src, rty, lease, queue,
                  out, setup, aborted>>
  BY DEF vars
<1>1. TypeOK'
  <2>1. /\ rty' \in RtyType /\ fo' \in FoType /\ seen' \in SeenType /\ src' \in SrcType
        /\ handed' \in [error : Stamped, plan : BOOLEAN] /\ lease' \in {"none", "held", "settled"}
        /\ cand' \in 1 .. Candidate /\ attempt' \in 1 .. setup.attempts
        /\ queue' \in Seq(Stamped) /\ out' \in Seq(Stamped)
        /\ recovering' \in BOOLEAN /\ aborted' \in BOOLEAN
        /\ phase' \in {"admit", "attempt", "backoff", "handover", "done", "left", "threw"}
    BY <1>0 DEF TypeOK, RtyType, FoType, SeenType, SrcType
  <2> QED BY <1>0, <2>1, TypedStep
<1>2. All' = All
  BY <1>0 DEF All
<1>3. /\ phase = "backoff" => queue' = <<>>
      /\ \A n \in 1 .. Len(queue') : queue'[n].cand = cand
  BY <1>0 DEF IInv, SourceInv, OutputInv, Waiting
<1> QED BY <1>0, <1>1, <1>2, <1>3, SameStream

\* The chain ends with an error of its own.
LEMMA ClosedStep ==
    ASSUME TypeOK, IInv, setup' = setup, phase \in {"admit", "handover"}, queue = <<>>,
           phase' = "done", NEW e, OfAttempt(e), e.type = "error", queue' = <<e>>,
           UNCHANGED <<failover, attempt, src, rty, lease, out, aborted>>
    PROVE  TypeOK' /\ IInv'
<1>0. UNCHANGED <<cand, fo, seen, recovering, handed, attempt, src, rty, lease, out, aborted>>
  BY DEF failover
<1>1. Here /\ out \in Seq(Stamped) /\ e \in Stamped /\ e.cand = cand /\ Terminal(e)
  BY TypedParts DEF OfAttempt, Terminal
<1>2. TypeOK'
  <2>1. /\ rty' \in RtyType /\ fo' \in FoType /\ seen' \in SeenType /\ src' \in SrcType
        /\ handed' \in [error : Stamped, plan : BOOLEAN] /\ lease' \in {"none", "held", "settled"}
        /\ cand' \in 1 .. Candidate /\ attempt' \in 1 .. setup.attempts
        /\ out' \in Seq(Stamped) /\ recovering' \in BOOLEAN /\ aborted' \in BOOLEAN
    BY <1>0 DEF TypeOK, RtyType, FoType, SeenType, SrcType
  <2>2. queue' \in Seq(Stamped)
    BY <1>1
  <2> QED BY <2>1, <2>2, TypedStep
<1>3. All = out /\ NoTerminal(All) /\ StreamInv(All)
  <2>1. out \o <<>> = out
    BY <1>1, ConcatEmptySeq
  <2>2. NoTerminal(All)
    BY DEF IInv, WaitingInv, HandoverInv, Waiting
  <2> QED BY <2>1, <2>2 DEF All, IInv, OutputInv
<1>4. All' = Append(out, e)
  BY <1>0, <1>1, AppendIsConcat DEF All
<1>5. StreamInv(Append(out, e))
  BY <1>1, <1>3, TerminalFollows
<1>6. OutputInv'
  <2>1. StreamInv(All)'
    BY <1>0, <1>4, <1>5, StreamKept
  <2>2. \A n \in 1 .. Len(queue') : queue'[n].cand = cand'
    BY <1>0, <1>1
  <2> QED BY <2>1, <2>2 DEF OutputInv
<1>7. LeaseSettledInTime'
  BY <1>0 DEF IInv, LeaseSettledInTime, TypeOK
<1>8. SourceInv' /\ WaitingInv' /\ HandoverInv'
  BY DEF SourceInv, WaitingInv, HandoverInv, Waiting
<1> QED BY <1>2, <1>6, <1>7, <1>8 DEF IInv

LEMMA RefuseAbortedStep ==
    ASSUME TypeOK, IInv, RefuseAborted, setup' = setup
    PROVE  TypeOK' /\ IInv'
<1>1. OfAttempt(Err("fatal")) /\ Err("fatal").type = "error"
  BY ErrClass
<1> DEFINE e == Err("fatal")
<1>2. /\ phase = "admit" /\ queue = <<>> /\ phase' = "done" /\ queue' = <<e>>
      /\ UNCHANGED <<failover, attempt, src, rty, lease, out, aborted>>
  BY DEF RefuseAborted
<1> HIDE DEF e
<1>3. OfAttempt(e) /\ e.type = "error"
  BY <1>1 DEF e
<1> QED BY <1>2, <1>3, ClosedStep

LEMMA DeclineSwitchStep ==
    ASSUME TypeOK, IInv, DeclineSwitch, setup' = setup
    PROVE  TypeOK' /\ IInv'
<1>1. /\ phase = "handover" /\ queue = <<>> /\ phase' = "done" /\ queue' = <<handed.error>>
      /\ UNCHANGED <<failover, attempt, src, rty, lease, out, aborted>>
  BY DEF DeclineSwitch
<1>2. /\ handed.error.type = "error" /\ handed.error.id = NoId
      /\ handed.error.cand = cand /\ handed.error.att = attempt /\ handed.error \in Stamped
  BY <1>1 DEF IInv, HandoverInv, TypeOK
<1>3. OfAttempt(handed.error)
  BY <1>2 DEF OfAttempt, CallTypes
<1> DEFINE e == handed.error
<1> HIDE DEF e
<1>4. OfAttempt(e) /\ e.type = "error" /\ queue' = <<e>>
  BY <1>1, <1>2, <1>3 DEF e
<1> QED BY <1>1, <1>4, ClosedStep

LEMMA HostThrowsStep ==
    ASSUME TypeOK, IInv, HostThrows, setup' = setup
    PROVE  TypeOK' /\ IInv'
<1>0. /\ phase = "handover" /\ phase' = "threw"
      /\ UNCHANGED <<cand, fo, seen, recovering, handed, attempt, src, rty, lease, queue, out,
                     aborted>>
  BY DEF HostThrows, failover
<1>1. TypeOK'
  <2>1. /\ rty' \in RtyType /\ fo' \in FoType /\ seen' \in SeenType /\ src' \in SrcType
        /\ handed' \in [error : Stamped, plan : BOOLEAN] /\ lease' \in {"none", "held", "settled"}
        /\ cand' \in 1 .. Candidate /\ attempt' \in 1 .. setup.attempts
        /\ queue' \in Seq(Stamped) /\ out' \in Seq(Stamped)
        /\ recovering' \in BOOLEAN /\ aborted' \in BOOLEAN
    BY <1>0 DEF TypeOK, RtyType, FoType, SeenType, SrcType
  <2> QED BY <1>0, <2>1, TypedStep
<1>2. All' = All
  BY <1>0 DEF All
<1>3. OutputInv'
  <2>1. StreamInv(All)'
    BY <1>0, <1>2, StreamKept DEF IInv, OutputInv
  <2>2. NoTerminal(All)'
    BY <1>0, <1>2 DEF IInv, HandoverInv, NoTerminal, Terminal
  <2> QED BY <1>0, <2>1, <2>2 DEF IInv, OutputInv
<1>4. LeaseSettledInTime'
  BY <1>0 DEF IInv, LeaseSettledInTime
<1>5. SourceInv' /\ WaitingInv' /\ HandoverInv'
  BY <1>0 DEF SourceInv, WaitingInv, HandoverInv, Waiting
<1> QED BY <1>1, <1>3, <1>4, <1>5 DEF IInv

\* What the consumer has of a stream is a stream.
LEMMA TakenPart ==
    ASSUME TypeOK, IInv
    PROVE  /\ StreamInv(out) /\ (NoTerminal(All) => NoTerminal(out))
           /\ Len(out) \in Nat /\ Len(All) = Len(out) + Len(queue) /\ Len(queue) \in Nat
           /\ \A n \in 1 .. Len(out) : n \in 1 .. Len(All) /\ All[n] = out[n]
<1>0. out \in Seq(Stamped) /\ queue \in Seq(Stamped)
  BY DEF TypeOK
<1>1. /\ Len(out) \in Nat /\ Len(queue) \in Nat /\ Len(All) = Len(out) + Len(queue)
      /\ \A i \in 1 .. Len(out) : All[i] = out[i]
      /\ \A i \in 1 .. Len(out) + Len(queue) :
            i \in 1 .. Len(out) \/ (i - Len(out) \in 1 .. Len(queue) /\ All[i] = queue[i - Len(out)])
  <2>1. /\ Len(out) \in Nat /\ Len(queue) \in Nat
        /\ Len(out \o queue) = Len(out) + Len(queue)
    BY <1>0, Joined
  <2>2. \A i \in 1 .. Len(out) : (out \o queue)[i] = out[i]
    BY <1>0, Joined
  <2>3. \A i \in 1 .. Len(out) + Len(queue) :
            i \in 1 .. Len(out)
            \/ (i - Len(out) \in 1 .. Len(queue) /\ (out \o queue)[i] = queue[i - Len(out)])
    BY <1>0, Joined
  <2> QED BY <2>1, <2>2, <2>3 DEF All
<1>2. \A n \in 1 .. Len(out) : n \in 1 .. Len(All) /\ All[n] = out[n]
  BY <1>1
<1>3. LegalStream(All) /\ StampsRight(All) /\ AllLeftSafely(All)
  BY DEF IInv, OutputInv, StreamInv
<1>4. LegalStream(out)
  <2> SUFFICES ASSUME NEW n \in 1 .. Len(out) PROVE LegalAt(out, n)
    BY DEF LegalStream
  <2>1. LegalAt(All, n) /\ All[n] = out[n]
    BY <1>2, <1>3 DEF LegalStream
  <2>2. \A m \in 1 .. n - 1 : All[m] = out[m]
    BY <1>1
  <2> QED BY <2>1, <2>2 DEF LegalAt
<1>5. StampsRight(out)
  BY <1>2, <1>3 DEF StampsRight
<1>6. AllLeftSafely(out)
  <2> SUFFICES ASSUME NEW k \in 1 .. cand - 1 PROVE LeftSafely(out, k)
    BY DEF AllLeftSafely
  <2>1. LeftSafely(All, k) /\ k # cand
    BY <1>3 DEF AllLeftSafely, TypeOK
  <2>2. \A m \in 1 .. Len(All) : All[m].cand = k => m \in 1 .. Len(out) /\ All[m] = out[m]
    BY <1>1, <2>1 DEF IInv, OutputInv
  <2>3. (\E n \in 1 .. Len(out) : out[n].cand = k /\ ~Terminal(out[n]))
          => \E n \in 1 .. Len(All) : All[n].cand = k /\ ~Terminal(All[n])
    BY <1>2
  <2> QED BY <1>2, <2>1, <2>2, <2>3 DEF LeftSafely
<1>7. NoTerminal(All) => NoTerminal(out)
  BY <1>2 DEF NoTerminal
<1> QED BY <1>1, <1>2, <1>4, <1>5, <1>6, <1>7 DEF StreamInv

LEMMA LeaveStep ==
    ASSUME TypeOK, IInv, Leave, setup' = setup
    PROVE  TypeOK' /\ IInv'
<1>0. /\ phase \notin {"done", "left", "threw"} /\ phase' = "left" /\ queue' = <<>>
      /\ src' = NewSource /\ rty' = NewRetry /\ fo' = NewFailover(FALSE) /\ seen' = NothingSeen
      /\ UNCHANGED <<cand, attempt, recovering, handed, lease, out, aborted>>
  BY DEF Leave
<1>1. TypeOK'
  <2>1. src' \in SrcType /\ rty' \in RtyType /\ seen' \in SeenType /\ fo' \in FoType
    BY <1>0, FreshTyped
  <2>2. /\ handed' \in [error : Stamped, plan : BOOLEAN] /\ lease' \in {"none", "held", "settled"}
        /\ cand' \in 1 .. Candidate /\ attempt' \in 1 .. setup.attempts
        /\ queue' \in Seq(Stamped) /\ out' \in Seq(Stamped)
        /\ recovering' \in BOOLEAN /\ aborted' \in BOOLEAN
    BY <1>0 DEF TypeOK
  <2> QED BY <1>0, <2>1, <2>2, TypedStep
<1>2. All' = out
  <2>1. out \o <<>> = out
    BY ConcatEmptySeq DEF TypeOK
  <2> QED BY <1>0, <2>1 DEF All
<1>3. NoTerminal(out) /\ StreamInv(out)
  <2>1. NoTerminal(All)
    BY <1>0 DEF IInv, WaitingInv, HandoverInv, Waiting, TypeOK
  <2> QED BY <2>1, TakenPart
<1>4. OutputInv'
  <2>1. StreamInv(All)'
    BY <1>0, <1>2, <1>3, StreamKept
  <2>2. NoTerminal(All)'
    BY <1>2, <1>3 DEF NoTerminal, Terminal
  <2> QED BY <1>0, <2>1, <2>2 DEF OutputInv
<1>5. LeaseSettledInTime'
  BY <1>0 DEF LeaseSettledInTime
<1>6. SourceInv' /\ WaitingInv' /\ HandoverInv'
  BY <1>0 DEF SourceInv, WaitingInv, HandoverInv, Waiting
<1> QED BY <1>1, <1>4, <1>5, <1>6 DEF IInv

\* A new attempt, or a new candidate, starts with empty buffers.
LEMMA FreshSource ==
    ASSUME src' = NewSource, rty' = NewRetry, phase' \in {"admit", "attempt"},
           setup' \in Setups
    PROVE  SourceInv'
<1>1. setup'.chunks \in Nat
  BY PipelineAssumption
<1>2. PreambleRight(rty.pre)'
  BY DEF PreambleRight, NewRetry
<1> QED BY <1>1, <1>2 DEF SourceInv, NewSource, NewRetry

LEMMA BackOffStep ==
    ASSUME TypeOK, IInv, BackOff, setup' = setup
    PROVE  TypeOK' /\ IInv'
<1>0. /\ phase = "backoff" /\ phase' = "attempt" /\ attempt' = attempt + 1
      /\ src' = NewSource /\ rty' = NewRetry
      /\ UNCHANGED <<cand, fo, seen, recovering, handed, lease, queue, out, aborted>>
  BY DEF BackOff, failover
<1>1. ~rty.committed /\ attempt < setup.attempts
  BY <1>0 DEF IInv, SourceInv, Waiting
<1>2. /\ NoTerminal(All) /\ Tracked(All, seen) /\ FoRight(All, fo, seen)
      /\ fo.pre = <<>> /\ ~fo.committed
      /\ \A n \in 1 .. Len(All) : All[n].cand # cand
  BY <1>0, <1>1 DEF IInv, WaitingInv, Waiting
<1>3. All' = All
  BY <1>0 DEF All
<1>4. TypeOK'
  <2>1. src' \in SrcType /\ rty' \in RtyType
    BY <1>0, FreshTyped
  <2>2. /\ handed' \in [error : Stamped, plan : BOOLEAN] /\ lease' \in {"none", "held", "settled"}
        /\ cand' \in 1 .. Candidate /\ seen' \in SeenType /\ fo' \in FoType
        /\ queue' \in Seq(Stamped) /\ out' \in Seq(Stamped)
        /\ recovering' \in BOOLEAN /\ aborted' \in BOOLEAN
    BY <1>0 DEF TypeOK, SeenType, FoType
  <2>3. attempt' \in 1 .. setup.attempts
    BY <1>0, <1>1, PipelineAssumption DEF TypeOK
  <2> QED BY <1>0, <2>1, <2>2, <2>3, TypedStep
<1>5. OutputInv'
  <2>1. LegalStream(All)'
    BY <1>3 DEF IInv, OutputInv, StreamInv, LegalStream, LegalAt, Terminal
  <2>2. StampsRight(All)'
    BY <1>0, <1>2, <1>3 DEF IInv, OutputInv, StreamInv, StampsRight, Names
  <2>3. AllLeftSafely(All)'
    <3>1. \A k : LeftSafely(All, k) => LeftSafely(All, k)'
      BY <1>3 DEF LeftSafely, Terminal
    <3> QED BY <1>0, <3>1 DEF IInv, OutputInv, StreamInv, AllLeftSafely
  <2> QED BY <1>0, <2>1, <2>2, <2>3 DEF IInv, OutputInv, StreamInv
<1>6. LeaseSettledInTime' /\ HandoverInv'
  BY <1>0 DEF IInv, LeaseSettledInTime, HandoverInv
<1>7. SourceInv'
  BY <1>0, FreshSource DEF TypeOK
<1>8. WaitingInv'
  <2>1. NoTerminal(All)'
    BY <1>2, <1>3 DEF NoTerminal, Terminal
  <2>2. Tracked(All, seen)'
    BY <1>0, <1>2, <1>3 DEF Tracked
  <2>3. FoRight(All, fo, seen)'
    BY <1>0, <1>2, <1>3 DEF FoRight, SafeToContinue
  <2>4. CallsKnown(All, rty.started, rty.ended)'
    BY <1>0, <1>2, <1>3 DEF CallsKnown, NewRetry
  <2>5. Buffered(fo.pre)'
    BY <1>0, <1>2 DEF Buffered
  <2>6. (\A n \in 1 .. Len(All) : All[n].cand # cand)'
    BY <1>0, <1>2, <1>3
  <2>7. ~rty'.committed
    BY <1>0 DEF NewRetry
  <2> QED BY <1>0, <1>2, <2>1, <2>2, <2>3, <2>4, <2>5, <2>6, <2>7 DEF WaitingInv
<1> QED BY <1>4, <1>5, <1>6, <1>7, <1>8 DEF IInv

LEMMA SwitchProviderStep ==
    ASSUME TypeOK, IInv, SwitchProvider, setup' = setup
    PROVE  TypeOK' /\ IInv'
<1>0. /\ phase = "handover" /\ queue = <<>> /\ phase' = "admit" /\ cand' = cand + 1
      /\ attempt' = 1 /\ src' = NewSource /\ rty' = NewRetry
      /\ fo' = NewFailover(handed.plan) /\ recovering' = handed.plan
      /\ seen' = IF handed.plan THEN seen ELSE NothingSeen
      /\ lease' = "none" /\ UNCHANGED <<handed, queue, out, aborted>>
  BY DEF SwitchProvider
<1>1. /\ NoTerminal(All) /\ Tracked(All, seen) /\ cand < Candidate
      /\ handed.plan => SafeToContinue(seen)
      /\ ~handed.plan => All = <<>>
  BY <1>0 DEF IInv, HandoverInv
<1>2. /\ Here /\ cand \in Nat /\ Candidate \in Nat /\ All \in Seq(Stamped) /\ handed.plan \in BOOLEAN
      /\ Len(All) \in Nat
  <2>1. Here /\ All \in Seq(Stamped)
    BY TypedParts
  <2>2. Candidate \in Nat /\ handed.plan \in BOOLEAN
    BY PipelineAssumption DEF TypeOK
  <2> QED BY <2>1, <2>2, LenProperties DEF Here
<1>3. All' = All
  BY <1>0 DEF All
<1>4. TypeOK'
  <2>1. src' \in SrcType /\ rty' \in RtyType /\ fo' \in FoType
    BY <1>0, <1>2, FreshTyped
  <2>2. seen' \in SeenType
    <3>1. seen \in SeenType /\ NothingSeen \in SeenType
      BY TypedParts, FreshTyped
    <3> QED BY <1>0, <3>1
  <2>3. /\ handed' \in [error : Stamped, plan : BOOLEAN] /\ lease' \in {"none", "held", "settled"}
        /\ queue' \in Seq(Stamped) /\ out' \in Seq(Stamped)
        /\ recovering' \in BOOLEAN /\ aborted' \in BOOLEAN
    BY <1>0, <1>2 DEF TypeOK
  <2>4. cand' \in 1 .. Candidate /\ attempt' \in 1 .. setup.attempts
    BY <1>0, <1>1, <1>2, FreshTyped
  <2> QED BY <1>0, <2>1, <2>2, <2>3, <2>4, TypedStep
<1>5. LegalStream(All) /\ StampsRight(All) /\ AllLeftSafely(All)
  BY DEF IInv, OutputInv, StreamInv
<1>6. \A n \in 1 .. Len(All) : All[n].cand # cand'
  <2> SUFFICES ASSUME NEW n \in 1 .. Len(All) PROVE All[n].cand # cand + 1
    BY <1>0
  <2>1. All[n] \in Stamped /\ All[n].cand <= cand
    BY <1>2, <1>5, ElementOfSeq DEF StampsRight
  <2>2. All[n].cand \in Nat
    BY <1>2, <2>1 DEF Stamped
  <2> QED BY <1>2, <2>1, <2>2
<1>7. LeftSafely(All, cand)
  <2>1. CASE handed.plan
    <3>1. StreamInv(All)
      BY DEF IInv, OutputInv
    <3> QED BY <1>1, <1>2, <2>1, <3>1, SafeLeft
  <2>2. CASE ~handed.plan
    BY <1>1, <2>2, NothingLeft
  <2> QED BY <2>1, <2>2
<1>8. OutputInv'
  <2>1. LegalStream(All)'
    BY <1>3, <1>5 DEF LegalStream, LegalAt, Terminal
  <2>2. StampsRight(All)'
    <3>1. \A n \in 1 .. Len(All) : All[n].cand <= cand + 1
      <4> SUFFICES ASSUME NEW n \in 1 .. Len(All) PROVE All[n].cand <= cand + 1
        OBVIOUS
      <4>1. All[n] \in Stamped /\ All[n].cand <= cand
        BY <1>2, <1>5, ElementOfSeq DEF StampsRight
      <4>2. All[n].cand \in Nat
        BY <1>2, <4>1 DEF Stamped
      <4> QED BY <1>2, <4>1, <4>2
    <3> QED BY <1>0, <1>3, <1>5, <1>6, <3>1 DEF StampsRight, Names
  <2>3. AllLeftSafely(All)'
    <3>1. \A k : LeftSafely(All, k) => LeftSafely(All, k)'
      BY <1>3 DEF LeftSafely, Terminal
    <3>2. \A k \in 1 .. cand' - 1 : k \in 1 .. cand - 1 \/ k = cand
      BY <1>0, <1>2
    <3> QED BY <1>5, <1>7, <3>1, <3>2 DEF AllLeftSafely
  <2>4. queue' = <<>> /\ phase' = "admit"
    BY <1>0
  <2> QED BY <2>1, <2>2, <2>3, <2>4 DEF OutputInv, StreamInv
<1>9. LeaseSettledInTime' /\ HandoverInv'
  BY <1>0 DEF LeaseSettledInTime, HandoverInv
<1>10. SourceInv'
  BY <1>0, FreshSource DEF TypeOK
<1>11. WaitingInv'
  <2>0. /\ fo'.pre = <<>> /\ ~fo'.committed /\ (handed.plan => fo'.overlap = "pending")
        /\ (~handed.plan => fo'.overlap = "none")
        /\ ~rty'.committed /\ rty'.started = {} /\ rty'.ended = {}
    BY <1>0, <1>2 DEF NewFailover, NewRetry
  <2>1. NoTerminal(All)'
    BY <1>1, <1>3 DEF NoTerminal, Terminal
  <2>2. Tracked(All, seen)'
    <3>1. \A i \in ToolIds : i[1] \in Nat
      BY IdParts
    <3>2. CASE handed.plan
      <4>1. seen' = seen
        BY <1>0, <3>2
      <4>2. \A i \in ToolIds : /\ i[1] = cand + 1 => seen.acts[i] = "none"
                               /\ i[1] > cand + 1 => seen.acts[i] = "none"
        BY <1>1, <1>2, <3>1 DEF Tracked
      <4>3. seen.content => All # <<>>
        BY <1>1 DEF Tracked
      <4> QED BY <1>0, <1>3, <1>6, <4>1, <4>2, <4>3 DEF Tracked
    <3>3. CASE ~handed.plan
      <4>1. ~seen'.content /\ \A i \in ToolIds : seen'.acts[i] = "none"
        BY <1>0, <3>3 DEF NothingSeen
      <4> QED BY <1>3, <1>6, <4>1 DEF Tracked
    <3> QED BY <3>2, <3>3
  <2>3. FoRight(All, fo, seen)'
    <3>1. CASE handed.plan
      <4>1. seen' = seen /\ SafeToContinue(seen)
        BY <1>0, <1>1, <3>1
      <4>2. All # <<>>
        BY <1>1, <4>1 DEF Tracked, SafeToContinue
      <4>3. SafeToContinue(seen)'
        BY <4>1 DEF SafeToContinue
      <4> QED BY <1>0, <1>3, <2>0, <3>1, <4>2, <4>3 DEF FoRight
    <3>2. CASE ~handed.plan
      BY <1>0, <1>1, <1>3, <2>0, <3>2 DEF FoRight
    <3> QED BY <3>1, <3>2
  <2>4. CallsKnown(All, rty.started, rty.ended)'
    BY <1>3, <1>6, <2>0 DEF CallsKnown
  <2>5. Buffered(fo.pre)'
    BY <2>0 DEF Buffered
  <2>6. (\A n \in 1 .. Len(All) : All[n].cand # cand)'
    BY <1>3, <1>6
  <2> QED BY <1>0, <2>0, <2>1, <2>2, <2>3, <2>4, <2>5, <2>6 DEF WaitingInv
<1> QED BY <1>4, <1>8, <1>9, <1>10, <1>11 DEF IInv

-----------------------------------------------------------------------------
\* The invariant is inductive.
LEMMA InitRight == Init => TypeOK /\ IInv
<1> SUFFICES ASSUME Init PROVE TypeOK /\ IInv
  OBVIOUS
<1>0. /\ setup \in Setups /\ phase = "admit" /\ cand = 1 /\ attempt = 1 /\ src = NewSource
      /\ rty = NewRetry /\ fo = NewFailover(FALSE) /\ seen = NothingSeen /\ ~recovering
      /\ recovering = FALSE
      /\ handed = [error |-> Err("fatal"), plan |-> FALSE]
      /\ lease = "none" /\ queue = <<>> /\ out = <<>> /\ aborted = FALSE
  BY DEF Init, NewRetry
<1>1. setup.chunks \in Nat /\ setup.attempts \in Nat \ {0} /\ Candidate \in Nat \ {0}
  BY <1>0, PipelineAssumption
<1>2. Here
  BY <1>0, <1>1 DEF Here
<1>3. Err("fatal") \in Stamped
  <2>1. "fatal" \in Classes
    BY DEF Classes
  <2> QED BY <1>2, <2>1, ErrParts DEF OfAttempt
<1>4. <<>> \in Seq(Stamped)
  OBVIOUS
<1>5. TypeOK
  <2>1. /\ src \in [n : 0..setup.chunks + 1, started : BOOLEAN, init : BOOLEAN,
                    open : SUBSET ToolIds, closed : SUBSET ToolIds]
        /\ cand \in 1..Candidate /\ attempt \in 1..setup.attempts
    BY <1>0, <1>1 DEF NewSource
  <2>2. /\ rty \in [pre : Seq(Stamped), committed : BOOLEAN, answered : BOOLEAN,
                    started : SUBSET ToolIds, ended : SUBSET ToolIds]
        /\ fo \in [pre : Seq(Stamped), committed : BOOLEAN,
                   overlap : {"none", "pending", "withheld", "resolved"}]
    BY <1>0, <1>4 DEF NewRetry, NewFailover
  <2>3. seen \in [content : BOOLEAN, acts : [ToolIds -> Status]]
    BY <1>0 DEF NothingSeen, Status
  <2>4. handed \in [error : Stamped, plan : BOOLEAN]
    BY <1>0, <1>3
  <2> QED BY <1>0, <1>4, <2>1, <2>2, <2>3, <2>4 DEF TypeOK
<1>6. All = <<>> /\ Len(All) = 0
  BY <1>0 DEF All
<1>7. OutputInv
  <2>1. LegalStream(All) /\ StampsRight(All)
    BY <1>6 DEF LegalStream, StampsRight
  <2>2. AllLeftSafely(All)
    BY <1>0 DEF AllLeftSafely
  <2> QED BY <1>0, <2>1, <2>2 DEF OutputInv, StreamInv
<1>8. SourceInv
  <2>1. PreambleRight(rty.pre)
    BY <1>0 DEF PreambleRight, NewRetry
  <2> QED BY <1>0, <1>1, <2>1 DEF SourceInv, NewSource, NewRetry
<1>9. WaitingInv
  <2>1. NoTerminal(All)
    BY <1>6 DEF NoTerminal
  <2>2. Tracked(All, seen)
    BY <1>0, <1>6 DEF Tracked, NothingSeen
  <2>3. FoRight(All, fo, seen)
    BY <1>0, <1>6 DEF FoRight, NewFailover
  <2>4. CallsKnown(All, rty.started, rty.ended)
    BY <1>0, <1>6 DEF CallsKnown, NewRetry
  <2>5. Buffered(fo.pre) /\ fo.pre = <<>> /\ ~fo.committed
    BY <1>0 DEF Buffered, NewFailover
  <2>6. \A n \in 1 .. Len(All) : All[n].cand # cand
    BY <1>6
  <2>7. ~rty.committed
    BY <1>0 DEF NewRetry
  <2> QED BY <2>1, <2>2, <2>3, <2>4, <2>5, <2>6, <2>7 DEF WaitingInv
<1>10. HandoverInv /\ LeaseSettledInTime
  BY <1>0 DEF HandoverInv, LeaseSettledInTime
<1> QED BY <1>5, <1>7, <1>8, <1>9, <1>10 DEF IInv

LEMMA NextRight == TypeOK /\ IInv /\ [Next]_vars => TypeOK' /\ IInv'
<1> SUFFICES ASSUME TypeOK, IInv, [Next]_vars PROVE TypeOK' /\ IInv'
  OBVIOUS
<1>1. CASE UNCHANGED vars
  BY <1>1, StutterStep
<1>2. CASE Next
  <2>0. setup' = setup
    BY <1>2 DEF Next, Go
  <2>1. CASE RefuseAborted
    BY <2>0, <2>1, RefuseAbortedStep
  <2>2. CASE \E l \in {"none", "held"} : Admit(l)
    BY <2>0, <2>2, AdmitStep
  <2>3. CASE \E k \in {"eligible", "fatal"} : Blocked(k)
    BY <2>0, <2>3, BlockedStep
  <2>4. CASE \E c \in Raw : \/ BufferPreamble(c) \/ ForwardContent(c) \/ RetryLater(c)
                            \/ FailAttempt(c) \/ FinishAttempt(c)
    <3>1. PICK c \in Raw : \/ BufferPreamble(c) \/ ForwardContent(c) \/ RetryLater(c)
                           \/ FailAttempt(c) \/ FinishAttempt(c)
      BY <2>4
    <3>2. OfAttempt(c)
      <4>1. Here /\ setup \in Setups
        BY TypedParts DEF TypeOK
      <4> QED BY <4>1, RawParts
    <3>3. CASE BufferPreamble(c)
      BY <2>0, <3>2, <3>3, BufferPreambleStep
    <3>4. CASE ForwardContent(c)
      BY <2>0, <3>2, <3>4, ForwardContentStep
    <3>5. CASE RetryLater(c)
      BY <2>0, <3>2, <3>5, RetryLaterStep
    <3>6. CASE FailAttempt(c)
      BY <2>0, <3>2, <3>6, FailAttemptStep
    <3>7. CASE FinishAttempt(c)
      BY <2>0, <3>2, <3>7, FinishAttemptStep
    <3> QED BY <3>1, <3>3, <3>4, <3>5, <3>6, <3>7
  <2>5. CASE EndOfStream
    BY <2>0, <2>5, EndOfStreamStep
  <2>6. CASE \E k \in {"retryable", "eligible", "fatal"} : Throw(k)
    BY <2>0, <2>6, ThrowStep
  <2>7. CASE BackOff
    BY <2>0, <2>7, BackOffStep
  <2>8. CASE BackOffAborted
    BY <2>0, <2>8, BackOffAbortedStep
  <2>9. CASE SwitchProvider
    BY <2>0, <2>9, SwitchProviderStep
  <2>10. CASE DeclineSwitch
    BY <2>0, <2>10, DeclineSwitchStep
  <2>11. CASE HostThrows
    BY <2>0, <2>11, HostThrowsStep
  <2>12. CASE Deliver
    BY <2>0, <2>12, DeliverStep
  <2>13. CASE Abort
    BY <2>0, <2>13, AbortStep
  <2>14. CASE Leave
    BY <2>0, <2>14, LeaveStep
  <2> QED BY <1>2, <2>1, <2>2, <2>3, <2>4, <2>5, <2>6, <2>7, <2>8, <2>9, <2>10, <2>11,
             <2>12, <2>13, <2>14 DEF Next, Go, Process
<1> QED BY <1>1, <1>2

LEMMA Inductive == Spec => [](TypeOK /\ IInv)
  BY InitRight, NextRight, PTL DEF Spec

-----------------------------------------------------------------------------
\* Every variable of the pipeline keeps to its type: in particular retry never
\* goes beyond RetryPolicy.maxAttempts and fail-over never beyond its chain.
THEOREM TypeCorrect == Spec => []TypeOK
  BY Inductive, PTL

\* A probe lease is held only while its candidate's stream runs (or after the
\* consumer has walked away), and is settled only once that stream has ended:
\* recordFailure and recordSuccess of withProviderCircuit come neither early
\* nor never, for every chain, every retry policy and every adapter.
THEOREM LeaseSettled == Spec => []LeaseSettledInTime
<1>1. TypeOK /\ IInv => LeaseSettledInTime
  BY DEF IInv
<1> QED BY <1>1, Inductive, PTL

LEMMA LeftNow == TypeOK /\ IInv => LeftOnlyWhenSafe
<1> SUFFICES ASSUME TypeOK, IInv PROVE LeftOnlyWhenSafe
  OBVIOUS
<1>1. StampsRight(out) /\ AllLeftSafely(out)
  BY TakenPart DEF StreamInv
<1>2. out \in Seq(Stamped) /\ DOMAIN out = 1 .. Len(out)
  BY LenProperties DEF TypeOK
<1>3. \A i, j \in DOMAIN out : out[i].cand = out[j].cand => out[i].att = out[j].att
  BY <1>1, <1>2 DEF StampsRight
<1>4. ASSUME NEW c \in 1 .. cand - 1, Shown(c) # {}
      PROVE  /\ setup.recovery
             /\ \A n \in Shown(c) :
                   out[n].type = "tool-start" /\ ToolOf(out[n].id) \in WriteTool =>
                      /\ ToolOf(out[n].id) \in Approved
                      /\ \E m \in Shown(c) :
                            out[m].type = "tool-result" /\ out[m].id = out[n].id
  <2>1. \A n \in Shown(c) : n \in 1 .. Len(out) /\ out[n].cand = c /\ ~Terminal(out[n])
    BY <1>2 DEF Shown
  <2>2. LeftSafely(out, c)
    BY <1>1 DEF AllLeftSafely
  <2>3. \E n \in 1 .. Len(out) : out[n].cand = c /\ ~Terminal(out[n])
    BY <1>4, <2>1
  <2>4. /\ setup.recovery
        /\ \A n \in 1 .. Len(out) :
              out[n].cand = c /\ out[n].type = "tool-start" /\ ToolOf(out[n].id) \in WriteTool =>
                 /\ ToolOf(out[n].id) \in Approved
                 /\ \E m \in 1 .. Len(out) :
                       out[m].cand = c /\ out[m].type = "tool-result" /\ out[m].id = out[n].id
    BY <2>2, <2>3 DEF LeftSafely
  <2>5. \A m \in 1 .. Len(out) : out[m].cand = c /\ out[m].type = "tool-result" => m \in Shown(c)
    BY <1>2 DEF Shown, Terminal
  <2> QED BY <2>1, <2>4, <2>5
<1> QED BY <1>3, <1>4 DEF LeftOnlyWhenSafe

\* What the consumer has seen of a candidate comes from one attempt of it
\* (withRetry drops the preamble of a failed one), and a candidate that has
\* shown anything is left for the next only by an enabled recovery, with none
\* of its mutating calls unapproved or unfinished (runWithFailover,
\* decisionFor), however long the chain and whatever was sent.
THEOREM LeftSafe == Spec => []LeftOnlyWhenSafe
  BY LeftNow, Inductive, PTL

-----------------------------------------------------------------------------
\* The stream as RunStream sees it.
Bare(c) == [type |-> c.type, id |-> c.id]
View    == [n \in DOMAIN out |-> [type |-> out[n].type, id |-> out[n].id]]
Shape   == [type : {"run-start", "session-init", "usage", "text", "error"}, id : {NoId}]
           \cup [type : {"tool-start", "tool-end", "tool-result", "run-end"},
                 id : ToolIds \cup {NoId}]

LEMMA BareIsShape ==
    ASSUME NEW c \in Stamped, Names(c)
    PROVE  Bare(c) \in Shape
<1>1. c.id \in ToolIds \cup {NoId} /\ c.type \in Types
  BY DEF Stamped, Types
<1> QED BY <1>1 DEF Bare, Shape, Names, Types

LEMMA ViewParts ==
    ASSUME out \in Seq(Stamped)
    PROVE  /\ Len(out) \in Nat /\ DOMAIN out = 1 .. Len(out) /\ DOMAIN View = 1 .. Len(out)
           /\ View \in Seq([type : Types, id : ToolIds \cup {NoId}]) /\ Len(View) = Len(out)
           /\ \A n \in 1 .. Len(out) : View[n].type = out[n].type /\ View[n].id = out[n].id
<1>1. Len(out) \in Nat /\ DOMAIN out = 1 .. Len(out)
  BY LenProperties
<1>2. \A n \in 1 .. Len(out) : out[n] \in Stamped
  BY ElementOfSeq
<1>3. \A n \in 1 .. Len(out) : out[n].type \in Types /\ out[n].id \in ToolIds \cup {NoId}
  BY <1>2 DEF Stamped, Types
<1>4. View \in [1 .. Len(out) -> [type : Types, id : ToolIds \cup {NoId}]]
  BY <1>1, <1>3 DEF View
<1>5. \A n \in 1 .. Len(out) : View[n].type = out[n].type /\ View[n].id = out[n].id
  BY <1>1 DEF View
<1> DEFINE T == [type : Types, id : ToolIds \cup {NoId}]
<1>6. View \in Seq(T)
  <2>1. \A n \in 1 .. Len(out) : Bare(out[n]) \in T
    BY <1>3 DEF Bare
  <2>2. View = [n \in 1 .. Len(out) |-> Bare(out[n])]
    BY <1>1 DEF View, Bare
  <2> HIDE DEF T
  <2> QED BY <1>1, <2>1, <2>2
<1>7. DOMAIN View = 1 .. Len(View) /\ DOMAIN View = 1 .. Len(out) /\ Len(View) \in Nat
  BY <1>4, <1>6, LenProperties
<1>8. Len(View) = Len(out)
  <2>1. Len(View) <= Len(out)
    <3>1. Len(View) # 0 => Len(View) \in 1 .. Len(View)
      BY <1>7
    <3> QED BY <1>1, <1>7, <3>1
  <2>2. Len(out) <= Len(View)
    <3>1. Len(out) # 0 => Len(out) \in 1 .. Len(out)
      BY <1>1
    <3> QED BY <1>1, <1>7, <3>1
  <2>3. Len(View) \in Int /\ Len(out) \in Int
    BY <1>1, <1>7
  <2>4. \A i, j \in Int : i <= j /\ j <= i => i = j
    OBVIOUS
  <2> QED BY <2>1, <2>2, <2>3, <2>4, Zenon
<1> QED BY <1>1, <1>5, <1>6, <1>7, <1>8

\* The next chunk is a legal one.
LEMMA NextIsLegal ==
    ASSUME out \in Seq(Stamped), NEW c, LegalStream(Append(out, c)), c \in Stamped
    PROVE  Public!Legal(Bare(c))
<1> DEFINE t == Append(out, c)
           N == Len(out)
<1>1. /\ N \in Nat /\ Len(t) = N + 1 /\ t[N + 1] = c
      /\ \A i \in 1 .. N : t[i] = out[i]
  BY Appended
<1>2. LegalAt(t, N + 1)
  BY <1>1 DEF LegalStream
<1> HIDE DEF t
<1>3. \A m \in 1 .. N : t[m] = out[m] /\ m \in 1 .. (N + 1) - 1
  BY <1>1
<1>4. /\ \A m \in 1 .. N : ~Terminal(out[m])
      /\ N = 0 => c.type \in {"run-start", "error"}
      /\ c.type = "run-start" => N = 0
      /\ c.type = "tool-start" =>
            \A m \in 1 .. N : ~(out[m].type = "tool-start" /\ out[m].id = c.id)
      /\ c.type = "tool-end" =>
            /\ \E m \in 1 .. N : out[m].type = "tool-start" /\ out[m].id = c.id
            /\ \A m \in 1 .. N : ~(out[m].type = "tool-end" /\ out[m].id = c.id)
  <2>1. \A m \in 1 .. N : ~Terminal(out[m])
    BY <1>2, <1>3 DEF LegalAt
  <2>2. (N = 0 => c.type \in {"run-start", "error"}) /\ (c.type = "run-start" => N = 0)
    BY <1>1, <1>2 DEF LegalAt
  <2>3. c.type = "tool-start" =>
            \A m \in 1 .. N : ~(out[m].type = "tool-start" /\ out[m].id = c.id)
    BY <1>1, <1>2, <1>3 DEF LegalAt
  <2>4. c.type = "tool-end" =>
            /\ \E m \in 1 .. N : out[m].type = "tool-start" /\ out[m].id = c.id
            /\ \A m \in 1 .. N : ~(out[m].type = "tool-end" /\ out[m].id = c.id)
    <3>1. \A m \in 1 .. (N + 1) - 1 : m \in 1 .. N
      BY <1>1
    <3> QED BY <1>1, <1>2, <1>3, <3>1 DEF LegalAt
  <2> QED BY <2>1, <2>2, <2>3, <2>4
<1>5. /\ DOMAIN View = 1 .. N /\ (View = <<>> <=> N = 0)
      /\ \A n \in 1 .. N : View[n].type = out[n].type /\ View[n].id = out[n].id
  <2>1. View \in Seq([type : Types, id : ToolIds \cup {NoId}]) /\ Len(View) = N
    BY ViewParts
  <2> QED BY <2>1, ViewParts, EmptyIffNone
<1>6. Bare(c).type = c.type /\ Bare(c).id = c.id
  BY DEF Bare
<1> DEFINE b == Bare(c)
<1> HIDE DEF b, N
<1>7. ~Public!Ended
  BY <1>4, <1>5 DEF Public!Ended, Public!Terminal, Terminal, View
<1>8. (View = <<>> => b.type \in {"run-start", "error"}) /\ (b.type = "run-start" => View = <<>>)
  BY <1>4, <1>5, <1>6 DEF b
<1>9. b.type = "tool-start" => ~Public!Emitted("tool-start", b.id)
  BY <1>4, <1>5, <1>6 DEF Public!Emitted, View, b
<1>10. b.type = "tool-end" => Public!Emitted("tool-start", b.id)
  <2> SUFFICES ASSUME b.type = "tool-end" PROVE Public!Emitted("tool-start", b.id)
    OBVIOUS
  <2>1. PICK m \in 1 .. N : out[m].type = "tool-start" /\ out[m].id = b.id
    BY <1>4, <1>6 DEF b
  <2>2. m \in DOMAIN View /\ View[m].type = "tool-start" /\ View[m].id = b.id
    BY <1>5, <2>1
  <2> QED BY <2>2 DEF Public!Emitted, View
<1>11. b.type = "tool-end" => ~Public!Emitted("tool-end", b.id)
  <2> SUFFICES ASSUME b.type = "tool-end", NEW m \in DOMAIN View,
                      View[m].type = "tool-end", View[m].id = b.id
               PROVE  FALSE
    BY DEF Public!Emitted, View
  <2>1. m \in 1 .. N /\ out[m].type = "tool-end" /\ out[m].id = c.id /\ c.type = "tool-end"
    BY <1>5, <1>6 DEF b
  <2> QED BY <1>4, <2>1
<1> QED BY <1>7, <1>8, <1>9, <1>10, <1>11 DEF Public!Legal, View, b

\* Taking a chunk extends the view; the other steps leave it alone.
LEMMA ViewAppended ==
    ASSUME out \in Seq(Stamped), NEW c \in Stamped, out' = Append(out, c)
    PROVE  View' = Append(View, Bare(c))
<1> DEFINE T == [type : Types, id : ToolIds \cup {NoId}]
           N == Len(out)
           w == Append(View, Bare(c))
<1>1. /\ N \in Nat /\ View \in Seq(T) /\ Len(View) = N
      /\ \A n \in 1 .. N : View[n] = Bare(out[n])
  <2>1. N \in Nat /\ View \in Seq(T) /\ Len(View) = N /\ DOMAIN out = 1 .. N
    BY ViewParts
  <2> QED BY <2>1 DEF View, Bare
<1>2. Bare(c) \in T
  BY DEF Bare, Stamped, Types
<1>3. /\ w \in Seq(T) /\ Len(w) = N + 1 /\ w[N + 1] = Bare(c)
      /\ \A n \in 1 .. N : w[n] = View[n]
  <2> HIDE DEF T
  <2> QED BY <1>1, <1>2, AppendProperties
<1>4. /\ DOMAIN (out') = 1 .. N + 1 /\ out'[N + 1] = c
      /\ \A n \in 1 .. N : out'[n] = out[n]
      /\ \A n \in 1 .. N + 1 : n \in 1 .. N \/ n = N + 1
  <2>1. /\ Append(out, c) \in Seq(Stamped) /\ Len(Append(out, c)) = N + 1
        /\ Append(out, c)[N + 1] = c
        /\ \A n \in 1 .. N : Append(out, c)[n] = out[n]
        /\ \A n \in 1 .. N + 1 : n \in 1 .. N \/ n = N + 1
    BY Appended
  <2>2. DOMAIN Append(out, c) = 1 .. N + 1
    BY <2>1, LenProperties
  <2> QED BY <2>1, <2>2
<1>5. View' = [n \in 1 .. N + 1 |-> Bare(out'[n])]
  BY <1>4 DEF View, Bare
<1> HIDE DEF T, w, N
<1>6. \A n \in 1 .. N + 1 : Bare(out'[n]) = w[n]
  BY <1>1, <1>3, <1>4
<1>7. w \in [1 .. N + 1 -> T]
  BY <1>3, LenProperties
<1>8. w = [n \in 1 .. N + 1 |-> Bare(out'[n])]
  BY <1>6, <1>7
<1> QED BY <1>5, <1>8 DEF w

LEMMA DeliverEmits ==
    ASSUME TypeOK, Deliver, setup' = setup, StreamInv(out)'
    PROVE  \E b \in Shape : Public!Legal(b) /\ View' = Append(View, b)
<1> DEFINE c == Head(queue)
<1>1. out \in Seq(Stamped) /\ queue \in Seq(Stamped) /\ queue # <<>> /\ out' = Append(out, c)
  BY DEF Deliver, TypeOK
<1>2. c \in Stamped
  BY <1>1, HeadTailProperties
<1>3. LegalStream(out') /\ Names(c)
  <2>1. LegalStream(out') /\ \A n \in 1 .. Len(out') : Names(out'[n])
    BY DEF StreamInv, StampsRight, LegalStream, LegalAt, Terminal, Names
  <2>2. Len(out') = Len(out) + 1 /\ out'[Len(out) + 1] = c /\ Len(out) \in Nat
    BY <1>1, <1>2, Appended
  <2> QED BY <2>1, <2>2
<1> HIDE DEF c
<1>4. Public!Legal(Bare(c))
  BY <1>1, <1>2, <1>3, NextIsLegal
<1>5. Bare(c) \in Shape
  BY <1>2, <1>3, BareIsShape
<1>6. View' = Append(View, Bare(c))
  BY <1>1, <1>2, ViewAppended
<1> QED BY <1>4, <1>5, <1>6

Taken == TypeOK /\ IInv /\ StreamInv(out)

LEMMA EmitStep == Taken /\ Taken' /\ [Next]_vars => [Public!Emit]_View
<1> SUFFICES ASSUME Taken, Taken', [Next]_vars, View' # View PROVE Public!Emit
  BY DEF View
<1>1. CASE Deliver /\ setup' = setup
  <2>1. PICK b \in Shape : Public!Legal(b) /\ View' = Append(View, b)
    BY <1>1, DeliverEmits DEF Taken
  <2> QED BY <2>1 DEF Public!Emit, View, Shape
<1>2. CASE out' = out
  BY <1>2 DEF View
<1>3. \A cs : Pass(cs) => out' = out
  BY DEF Pass
<1>4. CASE UNCHANGED vars
  BY <1>2, <1>4 DEF vars
<1>5. CASE Next
  <2>0. setup' = setup
    BY <1>5 DEF Next, Go
  <2>1. CASE Abort \/ Leave \/ RefuseAborted \/ BackOff \/ SwitchProvider \/ DeclineSwitch \/ HostThrows
    BY <1>2, <2>1 DEF Abort, Leave, RefuseAborted, BackOff, SwitchProvider, DeclineSwitch, HostThrows
  <2>2. CASE \E l \in {"none", "held"} : Admit(l)
    BY <1>2, <2>2 DEF Admit
  <2>3. CASE EndOfStream \/ BackOffAborted \/ \E k \in {"eligible", "fatal"} : Blocked(k)
    BY <1>2, <1>3, <2>3 DEF EndOfStream, BackOffAborted, Blocked
  <2>4. CASE \E k \in {"retryable", "eligible", "fatal"} : Throw(k)
    BY <1>2, <1>3, <2>4 DEF Throw
  <2>5. CASE \E c \in Raw : \/ BufferPreamble(c) \/ ForwardContent(c) \/ RetryLater(c)
                            \/ FailAttempt(c) \/ FinishAttempt(c)
    BY <1>2, <1>3, <2>5 DEF BufferPreamble, ForwardContent, RetryLater, FailAttempt, FinishAttempt
  <2>6. CASE Deliver
    BY <1>1, <2>0, <2>6
  <2> QED BY <1>5, <2>1, <2>2, <2>3, <2>4, <2>5, <2>6 DEF Next, Go, Process
<1> QED BY <1>4, <1>5

\* The pipeline implements RunStream: whatever the adapters send, wherever they
\* fail, and however often the run is retried, handed over, continued, refused
\* or cancelled, the consumer sees a run-start first (or an error alone), each
\* tool call started once and ended once after its start, and at most one
\* terminal, with nothing after it (enforceStreamContract, withRetry,
\* withProviderCircuit and runWithFailover, one behind the other).
THEOREM OneRun == Spec => OneWellFormedRun
<1>1. Init => Public!Init
  BY DEF Init, Public!Init
<1>2. TypeOK /\ IInv => Taken
  BY TakenPart DEF Taken
<1> QED BY <1>1, <1>2, EmitStep, Inductive, PTL DEF Spec, OneWellFormedRun, Public!Spec, View
=============================================================================
