---------------------------- MODULE StreamPipeline ----------------------------
(***************************************************************************)
(* One run of a provider: the stages every chunk passes on its way from an *)
(* adapter to the consumer (packages/core/src).                            *)
(*                                                                         *)
(*   adapter --> enforceStreamContract (stream-contract.ts)                *)
(*           --> withRetry (resilience.ts): same provider, next attempt    *)
(*           --> withProviderCircuit (router.ts): one lease per provider   *)
(*           --> runWithFailover (router.ts): next provider, with the      *)
(*               opt-in recovery of a partial answer (partial-recovery.ts) *)
(*           --> the consumer                                              *)
(*                                                                         *)
(* The stages are generators: the pipeline pulls the next raw chunk only   *)
(* when the consumer has taken everything the last one produced (queue).   *)
(* The adapter is external: it may send any chunk, stop, or throw.         *)
(***************************************************************************)
EXTENDS Integers, Sequences, FiniteSets, SequencesExt

CONSTANTS
    Candidate,      \* the chain is 1..Candidate
    ReadTool, WriteTool,    \* tools of risk read_only and mutating
    NoTool,
    Approved,       \* mutating tools whose repetition guard is approved
    Setups          \* the options a run may be made with, each a record:
                    \*   recovery    partialRecovery.enabled
                    \*   mayAsk      is there a beforeFailover (the "ask" policy)?
                    \*   attempts    RetryPolicy.maxAttempts
                    \*   sends       the non-terminal chunk types the adapters send
                    \*   tools       the tools they call
                    \*   mayViolate  may they break the stream contract?
                    \*   mayCancel   may the user cancel it?
                    \*   chunks      bound: non-terminal chunks an attempt sends

Tool == ReadTool \cup WriteTool
ASSUME PipelineAssumption ==
    /\ Candidate \in Nat \ {0}
    /\ ReadTool \cap WriteTool = {} /\ NoTool \notin Tool /\ Approved \subseteq WriteTool
    /\ \A o \in Setups :
          /\ o.attempts \in Nat \ {0} /\ o.chunks \in Nat /\ o.tools \subseteq Tool
          /\ o.sends \subseteq {"run-start", "session-init", "usage", "text",
                                "tool-start", "tool-end", "tool-result"}
          /\ {o.recovery, o.mayAsk, o.mayViolate, o.mayCancel} \subseteq BOOLEAN

VARIABLES
    setup,      \* the options of this run
    phase,      \* of the chain: "admit", "attempt", "backoff", "handover", "done";
                \* or "left" (by the consumer), "threw" (a callback of the host)
    cand,       \* the candidate being tried
    attempt,    \* withRetry's attempt for it
    src,        \* enforceStreamContract: what this attempt has sent
    rty,        \* withRetry: its preamble and whether it has committed
    fo,         \* runWithFailover: the same, one level up, and the overlap
    seen,       \* PartialRecoveryTracker: partial content and action statuses
    recovering, \* is this candidate continuing a partial answer?
    handed,     \* the error the candidate is given up for
    lease,      \* "none", "held" (a half-open probe) or "settled"
    queue,      \* produced, not yet taken by the consumer
    out,        \* taken by the consumer
    aborted     \* scope.signal.aborted

vars == <<setup, phase, cand, attempt, src, rty, fo, seen, recovering, handed, lease,
          queue, out, aborted>>
failover == <<cand, fo, seen, recovering, handed>>

\* Two providers never use the same tool-call id.
ToolId(t) == <<cand, t>>
ToolOf(id) == id[2]
ToolIds == (1..Candidate) \X Tool
NoId == <<0, NoTool>>

\* A chunk, stamped with the attempt it comes from.  The class of an error is
\* "retryable", "eligible" (for failover only) or "fatal".
Chunk(type, id, class) ==
    [type |-> type, id |-> id, class |-> class, cand |-> cand, att |-> attempt]
Plain(type)  == Chunk(type, NoId, "none")
Err(class)   == Chunk("error", NoId, class)
Preamble(c)  == c.type \in {"run-start", "session-init", "usage"}
Terminal(c)  == c.type \in {"run-end", "error"}
Eligible(c)  == c.class \in {"retryable", "eligible"}

\* What an adapter may send.  A run-end is "ok", "empty" (no renderable content)
\* or "filtered"; the message it carries may hold a tool call.
Raw == {Plain(t) : t \in setup.sends \cap {"run-start", "session-init", "usage", "text"}}
       \cup {Chunk(t, ToolId(k), "none") :
               t \in setup.sends \cap {"tool-start", "tool-end", "tool-result"},
               k \in setup.tools}
       \cup {Chunk("run-end", NoId, k) : k \in {"ok", "empty", "filtered"}}
       \cup {Chunk("run-end", ToolId(k), "ok") : k \in setup.tools}
       \cup {Err(k) : k \in {"retryable", "eligible", "fatal"}}

-----------------------------------------------------------------------------
\* enforceStreamContract
NewSource == [n |-> 0, started |-> FALSE, init |-> FALSE, open |-> {}, closed |-> {}]

ViolatesLax(c) == ~src.started /\ ~(c.type \in {"run-start", "error"})
Violates(c) ==
    IF ~src.started THEN ~(c.type \in {"run-start", "error"})
    ELSE \/ c.type = "run-start"
         \/ c.type = "session-init" /\ src.init
         \/ c.type = "tool-start" /\ c.id \in src.open \cup src.closed
         \/ c.type = "tool-end" /\ c.id \notin src.open

Checked(c) == IF Violates(c) THEN Err("fatal") ELSE c

Consumed(c) ==
    [n       |-> src.n + 1,
     started |-> src.started \/ c.type = "run-start",
     init    |-> src.init \/ c.type = "session-init",
     open    |-> CASE c.type = "tool-start" -> src.open \cup {c.id}
                   [] c.type = "tool-end" -> src.open \ {c.id}
                   [] OTHER -> src.open,
     closed  |-> IF c.type = "tool-end" THEN src.closed \cup {c.id} ELSE src.closed]

-----------------------------------------------------------------------------
\* PartialRecoveryTracker.  A tool call is "in_flight", "ended" (its input is
\* complete), "completed" (its result was seen), "aborted" or "ambiguous".
NothingSeen == [content |-> FALSE, acts |-> [i \in ToolIds |-> "none"]]

NextStatus(status, type) ==
    CASE type = "tool-start"  -> IF status \in {"none", "in_flight"} THEN "in_flight"
                                 ELSE "ambiguous"
      [] type = "tool-end"    -> IF status = "in_flight" THEN "ended" ELSE "ambiguous"
      [] type = "tool-result" -> IF status \in {"ended", "completed"} THEN "completed"
                                 ELSE "ambiguous"

Observe(s, c) ==
    CASE c.type = "text" -> [s EXCEPT !.content = TRUE]
      [] c.type \in {"tool-start", "tool-end", "tool-result"} ->
            [s EXCEPT !.acts[c.id] = NextStatus(@, c.type)]
      [] c.type = "error" ->
            [s EXCEPT !.acts = [i \in ToolIds |->
                IF s.acts[i] \in {"in_flight", "ended"} THEN "aborted" ELSE s.acts[i]]]
      [] OTHER -> s

\* decisionFor(...) = "safe"
SafeToContinueAnyAction(s) == setup.recovery /\ s.content
SafeToContinue(s) ==
    /\ setup.recovery /\ s.content
    /\ \A i \in ToolIds :
         /\ s.acts[i] # "ambiguous"
         /\ ToolOf(i) \in WriteTool =>
              \/ s.acts[i] = "none"
              \/ s.acts[i] = "completed" /\ ToolOf(i) \in Approved

-----------------------------------------------------------------------------
\* runWithFailover, for one chunk of the candidate's guarded stream.  st is its
\* state while it works through the chunks of one pull; done stays FALSE until
\* it returns or breaks out of the loop.  reveal tells whether withheld text
\* turns out to go beyond the text that was already shown: when a delta
\* arrives ("delta"), or when the stream ends ("finish").
NewFailover(rec) == [pre |-> <<>>, committed |-> FALSE,
                     overlap |-> IF rec THEN "pending" ELSE "none"]
HasNext == cand < Candidate

\* A continuing candidate shows of its preamble only the usage.
UsageOf(pre) ==
    LET of[n \in 0 .. Len(pre)] == IF n = 0 THEN <<>>
                                   ELSE IF pre[n].type = "usage" THEN Append(of[n - 1], pre[n])
                                   ELSE of[n - 1]
    IN  of[Len(pre)]
FlushAll(pre) == pre
Flush(pre) == IF recovering THEN UsageOf(pre) ELSE pre

GiveUpSilently(st, c) == [st EXCEPT !.done = TRUE, !.gaveUp = TRUE, !.error = c]
GiveUp(st, c) == [st EXCEPT !.done = TRUE, !.gaveUp = TRUE, !.error = c,
                            !.plan = SafeToContinue(st.seen)]
Emit(st, cs)  == [st EXCEPT !.queue = @ \o cs]
Return(st)    == [st EXCEPT !.done = TRUE]
Commit(st)    == [Emit(st, Flush(st.fo.pre)) EXCEPT !.fo.committed = TRUE, !.fo.pre = <<>>]

Failed(st, c) ==
    LET over == HasNext /\ Eligible(c)
    IN  CASE ~st.fo.committed /\ over  -> IF recovering THEN GiveUp(st, c)
                                          ELSE GiveUpSilently(st, c)
          [] ~st.fo.committed /\ ~over -> Return(Emit(st, Append(Flush(st.fo.pre), c)))
          [] st.fo.committed -> IF over /\ SafeToContinue(st.seen) THEN GiveUp(st, c)
                                ELSE Return(Emit(st, <<c>>))

Withheld(st, c, reveal) ==
    c.type = "text" /\ st.fo.overlap \in {"pending", "withheld"} /\ "delta" \notin reveal

Unwithhold(st, c, reveal) ==
    CASE c.type = "text" /\ st.fo.overlap # "none" -> [st EXCEPT !.fo.overlap = "resolved"]
      [] Terminal(c) /\ st.fo.overlap = "withheld" /\ "finish" \in reveal ->
            [Emit(st, <<Plain("text")>>) EXCEPT !.seen = Observe(@, Plain("text")),
                                                !.fo.overlap = "resolved"]
      [] OTHER -> st

Forward(st, c, reveal) ==
    IF st.done THEN st
    ELSE IF Withheld(st, c, reveal) THEN [st EXCEPT !.fo.overlap = "withheld"]
    ELSE LET s1 == Unwithhold(st, c, reveal)
             s2 == [s1 EXCEPT !.seen = Observe(@, c)]
         IN  CASE c.type = "error" -> Failed(s2, c)
               [] Preamble(c) /\ ~s2.fo.committed -> [s2 EXCEPT !.fo.pre = Append(@, c)]
               [] c.type = "run-end" -> Return(Emit(Commit(s2), <<c>>))
               [] OTHER -> Emit(Commit(s2), <<c>>)

\* All chunks of one pull, one after another.
ForwardAll(st, cs, reveal) ==
    LET after[n \in 0 .. Len(cs)] == IF n = 0 THEN st
                                     ELSE Forward(after[n - 1], cs[n], reveal)
    IN  after[Len(cs)]

\* withProviderCircuit: recordFailure and recordSuccess settle the lease.
LeaseAfterSuccessOnly(c) == IF lease = "held" /\ c.type = "run-end" THEN "settled" ELSE lease
LeaseAfter(c) == IF lease = "held" /\ Terminal(c) THEN "settled" ELSE lease

\* The chunks cs reach withProviderCircuit, which settles the lease on a
\* terminal, and then runWithFailover.
Pass(cs) ==
    \E reveal \in IF fo.overlap = "none" THEN {{}} ELSE SUBSET {"delta", "finish"} :
      LET start == [fo |-> fo, seen |-> seen, queue |-> <<>>, done |-> FALSE,
                    gaveUp |-> FALSE, error |-> Err("fatal"), plan |-> FALSE]
          end   == ForwardAll(start, cs, reveal)
      IN  /\ fo' = end.fo /\ seen' = end.seen /\ queue' = end.queue
          /\ phase' = IF end.gaveUp THEN "handover" ELSE IF end.done THEN "done" ELSE "attempt"
          /\ handed' = IF end.gaveUp THEN [error |-> end.error, plan |-> end.plan] ELSE handed
          /\ lease' = LeaseAfter(Last(cs))
    /\ UNCHANGED <<cand, attempt, recovering, out, aborted>>

-----------------------------------------------------------------------------
Init ==
    /\ setup \in Setups
    /\ phase = "admit" /\ cand = 1 /\ attempt = 1
    /\ src = NewSource
    /\ rty = [pre |-> <<>>, committed |-> FALSE, answered |-> FALSE,
              started |-> {}, ended |-> {}]
    /\ fo = NewFailover(FALSE) /\ seen = NothingSeen /\ recovering = FALSE
    /\ handed = [error |-> Err("fatal"), plan |-> FALSE]
    /\ lease = "none" /\ queue = <<>> /\ out = <<>> /\ aborted = FALSE

NewRetry == [pre |-> <<>>, committed |-> FALSE, answered |-> FALSE,
             started |-> {}, ended |-> {}]

\* The top of runWithFailover's loop: a cancelled run tries nobody.
RefuseAborted ==
    /\ phase = "admit" /\ queue = <<>> /\ aborted
    /\ phase' = "done" /\ queue' = <<Err("fatal")>>
    /\ UNCHANGED <<failover, attempt, src, rty, lease, out, aborted>>

\* withProviderCircuit: tryAcquire admits the candidate, with or without a
\* probe lease, or answers for it with the error that blocked it.
Admit(l) ==
    /\ phase = "admit" /\ queue = <<>> /\ ~aborted
    /\ phase' = "attempt" /\ lease' = l
    /\ UNCHANGED <<failover, attempt, src, rty, queue, out, aborted>>
Blocked(class) ==
    /\ phase = "admit" /\ queue = <<>> /\ ~aborted
    /\ Pass(<<Err(class)>>)
    /\ UNCHANGED <<src, rty>>

Pulling == phase = "attempt" /\ queue = <<>>
Pull(c) ==
    /\ Pulling
    /\ Terminal(c) \/ src.n < setup.chunks
    /\ Violates(c) => setup.mayViolate
    /\ src' = Consumed(c)

\* The preamble of an attempt is held back until the attempt commits.
BufferPreamble(c) ==
    /\ Pull(c) /\ ~Violates(c)
    /\ Preamble(c) /\ ~rty.committed
    /\ rty' = [rty EXCEPT !.pre = Append(@, c)]
    /\ UNCHANGED <<failover, phase, attempt, lease, queue, out, aborted>>

\* The first content, or anything after it.
ForwardContent(c) ==
    /\ Pull(c) /\ ~Violates(c)
    /\ ~Terminal(c) /\ (Preamble(c) => rty.committed)
    /\ rty' = [pre       |-> <<>>, committed |-> TRUE,
               answered  |-> rty.answered \/ c.type = "text",
               started   |-> IF c.type = "tool-start" THEN rty.started \cup {c.id}
                             ELSE rty.started,
               ended     |-> IF c.type = "tool-end" THEN rty.ended \cup {c.id}
                             ELSE rty.ended]
    /\ Pass(Append(rty.pre, c))

\* errorForRunEnd: a run-end that cannot be shown as an answer is an error.
AsError(c) ==
    CASE c.type = "run-end" /\ c.class = "empty"    -> Err("eligible")
      [] c.type = "run-end" /\ c.class = "filtered" -> Err("fatal")
      [] OTHER -> c

\* Retry: only before the attempt has committed, and only so many times.
RetryableAlways(c) == c.type = "error" /\ c.class = "retryable" /\ attempt < setup.attempts
Retryable(c) ==
    /\ c.type = "error" /\ c.class = "retryable"
    /\ ~rty.committed /\ attempt < setup.attempts

RetryLater(c) ==
    /\ Pull(c) /\ ~Violates(c) /\ Retryable(c)
    /\ phase' = "backoff"
    /\ UNCHANGED <<failover, attempt, rty, lease, queue, out, aborted>>

FailAttempt(c) ==
    /\ Pull(c)
    /\ LET e == AsError(Checked(c))
       IN  e.type = "error" /\ ~Retryable(e) /\ Pass(Append(rty.pre, e))
    /\ UNCHANGED rty

\* A clean end: what only the final message holds is shown first.
Recovered(c) ==
    LET start == Chunk("tool-start", c.id, "none")
        end   == Chunk("tool-end", c.id, "none")
    IN  CASE c.id = NoId /\ ~rty.answered -> <<Plain("text")>>
          [] c.id # NoId /\ c.id \notin rty.started -> <<start, end>>
          [] c.id # NoId /\ c.id \in rty.started \ rty.ended -> <<end>>
          [] OTHER -> <<>>
FinishAttempt(c) ==
    /\ Pull(c) /\ ~Violates(c)
    /\ c.type = "run-end" /\ AsError(c) = c
    /\ Pass(rty.pre \o Recovered(c) \o <<c>>)
    /\ UNCHANGED rty

\* The source ends without a terminal (empty_output), or throws.
EndOfStream ==
    /\ phase = "attempt" /\ queue = <<>>
    /\ Pass(Append(rty.pre, Err("eligible")))
    /\ UNCHANGED <<src, rty>>
Throw(class) ==
    /\ phase = "attempt" /\ queue = <<>>
    /\ IF aborted THEN Pass(<<Err("fatal")>>) /\ UNCHANGED <<src, rty>>
       ELSE IF Retryable(Err(class))
       THEN /\ phase' = "backoff"
            /\ UNCHANGED <<failover, attempt, src, rty, lease, queue, out, aborted>>
       ELSE Pass(Append(rty.pre, Err(class))) /\ UNCHANGED <<src, rty>>

\* The back-off ends, at once if the run is cancelled meanwhile.
BackOff ==
    /\ phase = "backoff" /\ ~aborted
    /\ phase' = "attempt" /\ attempt' = attempt + 1
    /\ src' = NewSource /\ rty' = NewRetry
    /\ UNCHANGED <<failover, lease, queue, out, aborted>>

BackOffAborted ==
    /\ phase = "backoff" /\ aborted
    /\ Pass(<<Err("fatal")>>)
    /\ UNCHANGED <<src, rty>>

\* The next candidate takes over; with a plan it continues the partial answer.
SwitchProvider ==
    /\ phase = "handover" /\ queue = <<>>
    /\ phase' = "admit" /\ cand' = cand + 1 /\ attempt' = 1
    /\ src' = NewSource /\ rty' = NewRetry
    /\ fo' = NewFailover(handed.plan) /\ recovering' = handed.plan
    /\ seen' = IF handed.plan THEN seen ELSE NothingSeen
    /\ lease' = "none"
    /\ UNCHANGED <<handed, queue, out, aborted>>
DeclineSwitchSilently ==
    /\ phase = "handover" /\ queue = <<>> /\ setup.mayAsk
    /\ phase' = "done"
    /\ UNCHANGED <<failover, attempt, src, rty, lease, queue, out, aborted>>
DeclineSwitch ==
    /\ phase = "handover" /\ queue = <<>> /\ setup.mayAsk
    /\ phase' = "done" /\ queue' = <<handed.error>>
    /\ UNCHANGED <<failover, attempt, src, rty, lease, out, aborted>>

\* A callback of the host throws (beforeFailover, onFailover): the generator
\* rejects, with no terminal of its own.
HostThrows ==
    /\ phase = "handover" /\ queue = <<>>
    /\ phase' = "threw"
    /\ UNCHANGED <<failover, attempt, src, rty, lease, queue, out, aborted>>

\* The consumer stops reading: the generators are closed where they are, and
\* what they hold is dropped.  None of them has a finally that settles the lease.
Leave ==
    /\ phase \notin {"done", "left", "threw"} /\ out # <<>>
    /\ phase' = "left" /\ queue' = <<>>
    /\ src' = NewSource /\ rty' = NewRetry /\ fo' = NewFailover(FALSE) /\ seen' = NothingSeen
    /\ UNCHANGED <<cand, attempt, recovering, handed, lease, out, aborted>>

\* The consumer takes the next chunk; the user cancels.
Deliver ==
    /\ queue # <<>>
    /\ out' = Append(out, Head(queue)) /\ queue' = Tail(queue)
    /\ UNCHANGED <<failover, phase, attempt, src, rty, lease, aborted>>
Abort ==
    /\ setup.mayCancel
    /\ phase \notin {"done", "left", "threw"} /\ ~aborted /\ aborted' = TRUE
    /\ UNCHANGED <<failover, phase, attempt, src, rty, lease, queue, out>>

Process ==
    \/ RefuseAborted
    \/ \E l \in {"none", "held"} : Admit(l)
    \/ \E k \in {"eligible", "fatal"} : Blocked(k)
    \/ /\ Pulling
       /\ \E c \in Raw : \/ BufferPreamble(c) \/ ForwardContent(c) \/ RetryLater(c)
                         \/ FailAttempt(c) \/ FinishAttempt(c)
    \/ EndOfStream
    \/ \E k \in {"retryable", "eligible", "fatal"} : Throw(k)
    \/ BackOff \/ BackOffAborted \/ SwitchProvider \/ DeclineSwitch \/ HostThrows
    \/ Deliver

Go   == Process /\ UNCHANGED setup
Next == Go \/ ((Abort \/ Leave) /\ UNCHANGED setup)

Spec == Init /\ [][Next]_vars
FairSpec == Spec /\ WF_vars(Go)

-----------------------------------------------------------------------------
Status == {"none", "in_flight", "ended", "completed", "aborted", "ambiguous"}
Stamped == [type : {"run-start", "session-init", "usage", "text", "tool-start",
                    "tool-end", "tool-result", "run-end", "error"},
            id : ToolIds \cup {NoId},
            class : {"none", "ok", "empty", "filtered", "retryable", "eligible", "fatal"},
            cand : 1..Candidate, att : 1..setup.attempts]

TypeOK ==
    /\ setup \in Setups
    /\ phase \in {"admit", "attempt", "backoff", "handover", "done", "left", "threw"}
    /\ cand \in 1..Candidate /\ attempt \in 1..setup.attempts
    /\ src \in [n : 0..setup.chunks + 1, started : BOOLEAN, init : BOOLEAN,
                open : SUBSET ToolIds, closed : SUBSET ToolIds]
    /\ rty \in [pre : Seq(Stamped), committed : BOOLEAN, answered : BOOLEAN,
                started : SUBSET ToolIds, ended : SUBSET ToolIds]
    /\ fo \in [pre : Seq(Stamped), committed : BOOLEAN,
               overlap : {"none", "pending", "withheld", "resolved"}]
    /\ seen \in [content : BOOLEAN, acts : [ToolIds -> Status]]
    /\ handed \in [error : Stamped, plan : BOOLEAN]
    /\ lease \in {"none", "held", "settled"}
    /\ queue \in Seq(Stamped) /\ out \in Seq(Stamped)
    /\ recovering \in BOOLEAN /\ aborted \in BOOLEAN

\* Whatever adapters send, and however often the run is retried, handed over,
\* continued or cancelled, the consumer sees one well-formed run: the pipeline
\* implements RunStream (enforceStreamContract, recoverTerminalContent, the
\* two preamble buffers, the suppressed run-start of a recovered switch).
Public == INSTANCE RunStream WITH
    Chunks <- [type : {"run-start", "session-init", "usage", "text", "error"}, id : {NoId}]
              \cup [type : {"tool-start", "tool-end", "tool-result", "run-end"},
                    id : ToolIds \cup {NoId}],
    stream <- [n \in DOMAIN out |-> [type |-> out[n].type, id |-> out[n].id]]
OneWellFormedRun == Public!Spec

\* A retried attempt leaves no trace: what the consumer has seen of a candidate
\* comes from one attempt (withRetry).  A candidate that fails before it commits
\* leaves none either, and one that has shown output is left only under an
\* approved recovery: no mutating call of it is unfinished or unapproved
\* (runWithFailover, decisionFor).
Shown(c) == {n \in DOMAIN out : out[n].cand = c /\ ~Terminal(out[n])}
LeftOnlyWhenSafe ==
    /\ \A i, j \in DOMAIN out : out[i].cand = out[j].cand => out[i].att = out[j].att
    /\ \A c \in 1 .. cand - 1 : Shown(c) # {} =>
          /\ setup.recovery
          /\ \A n \in Shown(c) :
                out[n].type = "tool-start" /\ ToolOf(out[n].id) \in WriteTool =>
                   /\ ToolOf(out[n].id) \in Approved
                   /\ \E m \in Shown(c) : out[m].type = "tool-result" /\ out[m].id = out[n].id

\* Every probe lease is settled before the pipeline goes on to another
\* candidate or ends, and not before the candidate's stream has; only a
\* consumer that walks away leaves one to expire (withProviderCircuit).
LeaseSettledInTime ==
    /\ lease = "held" => phase \in {"attempt", "backoff", "left"}
    /\ lease = "settled" => phase \in {"handover", "done", "threw", "left"}

\* Every run reaches its terminal, and the consumer gets it last, unless it has
\* walked away or a callback has thrown (the bounds on attempts and candidates;
\* an adapter whose stream neither sends nor ends is excluded by WF on Go).
Ended == phase = "done" /\ out # <<>> /\ Terminal(Last(out))
EveryRunEnds == <>[](queue = <<>> /\ (Ended \/ phase \in {"left", "threw"}))
==============================================================================
