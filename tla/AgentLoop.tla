------------------------------ MODULE AgentLoop ------------------------------
(***************************************************************************)
(* The native tool loop of an agentic run (agentStream and executeToolCall,*)
(* packages/core/src/orchestrate/orchestrator.ts): ask the provider; run   *)
(* the tools it calls, one after the other, each past the host's hook, the *)
(* hand-off guard and the permission gate; feed the results back; and so   *)
(* on until the model calls no tool or the turns are used up.              *)
(*                                                                         *)
(* Every await is a step of its own, so a cancellation falls between any   *)
(* two of them.  The provider turn is runWithFailover's stream: a run-start*)
(* first, a terminal last (RunStream, which StreamPipeline implements).    *)
(* Hook, guard, tools, approver and provider are external: any answer.     *)
(* So is the transfer log: marking a turn boundary may fail, and the loop  *)
(* goes on without it (emitTransferError).                                 *)
(***************************************************************************)
EXTENDS Integers, Sequences, FiniteSets, SequencesExt

CONSTANTS
    MaxTurns,       \* AgentOptions.maxTurns
    Mode,           \* the PermissionGate's mode
    HasApprover,    \* is an approve callback wired (ApprovalBroker)?
    Lists,          \* verdicts of the tool-name lists: "deny", "allow", "none"
    MayCallUnoffered,   \* may a provider call a tool it was not offered?
    MaxCalls,       \* bound: tool calls in one provider turn
    MaxLost         \* bound: marks of turn boundaries that fail to be written

ASSUME AgentAssumption ==
    /\ MaxTurns \in Nat \ {0} /\ {MaxCalls, MaxLost} \subseteq Nat
    /\ Mode \in {"plan", "read-only", "ask", "workspace-write", "full-access"}
    /\ Lists \subseteq {"deny", "allow", "none"}
    /\ {HasApprover, MayCallUnoffered} \subseteq BOOLEAN

VARIABLES
    phase,      \* where the loop is suspended
    turn,       \* the provider turn, from 0
    reply,      \* what this provider turn has sent
    calls,      \* the tool calls of this turn, and how many are answered
    answered,
    input,      \* the input of the call at hand: as "asked" or "rewritten"
    cleared,    \* what guard and gate were shown for it, and who allowed it
    stream,     \* the chunks the consumer of the run was given, usage aside
    usage,      \* turns counted in the usage the consumer was given
    turnUsages, \* turns whose usage the loop has accumulated
    exchange,   \* toolExchange: messages of the finished turns
    boundaries, \* the turn boundaries it tried to mark in the transfer log,
                \* and whether each was written
    ran,        \* the tools that were started
    aborted     \* scope.signal.aborted

vars == <<phase, turn, reply, calls, answered, input, cleared, stream, usage,
          turnUsages, exchange, boundaries, ran, aborted>>
toolState == <<calls, answered, input, cleared, ran>>
log == <<usage, turnUsages, exchange, boundaries>>

NoId == <<0, 0>>
Chunk(type, id) == [type |-> type, id |-> id]
Plain(type) == Chunk(type, NoId)
CallIds == (0 .. MaxTurns - 1) \X (1..MaxCalls)

NoReply == [started |-> FALSE, calls |-> <<>>, open |-> FALSE, usage |-> FALSE]
NotCleared == [guard |-> "none", gate |-> "none", by |-> "none"]

Assistant(ids) == [role |-> "assistant", ids |-> ids]
ToolMessage(id) == [role |-> "tool", ids |-> <<id>>]

-----------------------------------------------------------------------------
\* The permission gate.  A call reads as asked, and writes once a hook has
\* rewritten it: permissionFor(input) looks at the input.
ClassOf(in) == IF in = "asked" THEN "read" ELSE "write"

Policy(class) ==
    CASE Mode \in {"plan", "read-only"}         -> IF class = "read" THEN "allow" ELSE "deny"
      [] Mode = "ask"                           -> IF class = "read" THEN "allow" ELSE "ask"
      [] Mode \in {"workspace-write", "full-access"} -> "allow"

\* (Mutant: the gate judges the input the model asked for.)
VerdictAsAsked(in, list) ==
    IF list # "none" THEN list ELSE Policy(ClassOf("asked"))
Verdict(in, list) ==
    IF list # "none" THEN list ELSE Policy(ClassOf(in))

-----------------------------------------------------------------------------
\* transfer.turnBoundary, caught when it throws.
Writes == IF Cardinality({i \in DOMAIN boundaries : ~boundaries[i][3]}) < MaxLost
          THEN BOOLEAN ELSE {TRUE}
Marked(kind, t, written) == Append(boundaries, <<kind, t, written>>)

Init ==
    /\ phase = "turn" /\ turn = 0 /\ reply = NoReply
    /\ calls = <<>> /\ answered = 0 /\ input = "asked" /\ cleared = NotCleared
    /\ stream = <<>> /\ usage = 0 /\ turnUsages = 0
    /\ exchange = <<>> /\ boundaries = <<>> /\ ran = <<>>
    /\ aborted = FALSE

\* The run ends with an error chunk; an error carries no tool exchange.
Fail ==
    /\ stream' = Append(stream, Plain("error"))
    /\ phase' = "failed"

CancelledChunk ==
    /\ aborted /\ phase \in {"turn", "tools"}
    /\ phase = "turn" => turn < MaxTurns
    /\ phase = "tools" => answered < Len(calls)
    /\ Fail
    /\ UNCHANGED <<turn, reply, toolState, log, aborted>>

BeginTurn ==
    /\ phase = "turn" /\ turn < MaxTurns /\ ~aborted
    /\ \E written \in Writes : boundaries' = Marked("start", turn, written)
    /\ reply' = NoReply
    /\ phase' = "provider"
    /\ UNCHANGED <<turn, toolState, stream, usage, turnUsages, exchange, aborted>>

-----------------------------------------------------------------------------
\* The provider turn.  Only the first run-start reaches the consumer; a later
\* one that follows a fail-over is shown as a session-init.
Offered == turn < MaxTurns - 1
\* (Mutant: every provider invocation's run-start is passed on.)
StartChunksOfEachTurn == {<<Plain("run-start")>>}
StartChunks == IF stream = <<>> THEN {<<Plain("run-start")>>}
                                ELSE {<<>>, <<Plain("session-init")>>}

ProviderStarts ==
    /\ phase = "provider" /\ ~reply.started
    /\ \E c \in StartChunks : stream' = stream \o c
    /\ reply' = [reply EXCEPT !.started = TRUE]
    /\ UNCHANGED <<phase, turn, toolState, log, aborted>>

ProviderCalls ==
    /\ phase = "provider" /\ reply.started /\ Len(reply.calls) < MaxCalls
    /\ Offered \/ MayCallUnoffered
    /\ ~reply.open
    /\ LET id == <<turn, Len(reply.calls) + 1>>
       IN  /\ stream' = Append(stream, Chunk("tool-start", id))
           /\ reply' = [reply EXCEPT !.calls = Append(@, id), !.open = TRUE]
    /\ UNCHANGED <<phase, turn, toolState, log, aborted>>

ProviderCallEnds ==
    /\ phase = "provider" /\ reply.open
    /\ stream' = Append(stream, Chunk("tool-end", Last(reply.calls)))
    /\ reply' = [reply EXCEPT !.open = FALSE]
    /\ UNCHANGED <<phase, turn, toolState, log, aborted>>

\* The usage of a turn is held back; the run reports one total.
ProviderUsage ==
    /\ phase = "provider" /\ reply.started /\ ~reply.usage
    /\ reply' = [reply EXCEPT !.usage = TRUE]
    /\ UNCHANGED <<phase, turn, toolState, stream, log, aborted>>

\* (Mutant: an error does not flush the usage of the earlier turns.)
UsageLostOnError == usage
UsageOnError == IF turnUsages > 0 THEN turnUsages ELSE usage

ProviderFails ==
    /\ phase = "provider"
    /\ Fail
    /\ usage' = UsageOnError
    /\ UNCHANGED <<turn, reply, toolState, turnUsages, exchange, boundaries, aborted>>

\* The calls of a turn: those streamed, or else the tool_use blocks of the
\* message in its run-end.
CallsOf(blocks) == IF reply.calls # <<>> THEN reply.calls ELSE blocks

\* No tools requested: the held run-end ends the run, for its consumer.
FinalReply(total) ==
    /\ stream' = Append(stream, Plain("run-end"))
    /\ usage' = total
    /\ exchange' = IF exchange = <<>> THEN exchange
                   ELSE Append(exchange, Assistant(<<>>))
    /\ phase' = "closing"
    /\ UNCHANGED <<toolState, boundaries>>

ProviderEnds ==
    /\ phase = "provider" /\ reply.started /\ ~reply.open
    /\ \E blocks \in {<<>>, <<<<turn, 1>>>>}, reported \in BOOLEAN :
          LET requested == CallsOf(blocks)
              total == turnUsages + (IF reported \/ reply.usage THEN 1 ELSE 0)
          IN  /\ blocks # <<>> => MaxCalls > 0 /\ (Offered \/ MayCallUnoffered)
              /\ turnUsages' = total
              /\ IF requested = <<>>
                 THEN FinalReply(total)
                 ELSE /\ calls' = requested /\ answered' = 0
                      /\ phase' = "tools"
                      /\ UNCHANGED <<input, cleared, ran, stream, usage, exchange, boundaries>>
    /\ UNCHANGED <<turn, reply, aborted>>

\* Only when the consumer asks for more is the last turn closed in the log.
\* (Mutant: it is left open.)
LeaveTurnOpen ==
    /\ phase = "closing"
    /\ phase' = "ended"
    /\ UNCHANGED <<turn, reply, toolState, stream, log, aborted>>
CloseTurn ==
    /\ phase = "closing"
    /\ \E written \in Writes : boundaries' = Marked("end", turn, written)
    /\ phase' = "ended"
    /\ UNCHANGED <<turn, reply, toolState, stream, usage, turnUsages, exchange, aborted>>

-----------------------------------------------------------------------------
\* One tool call.  Whatever stops it, the model is told: an answer is emitted
\* and kept, and the next call follows.
Answer ==
    /\ stream' = Append(stream, Chunk("tool-result", calls[answered + 1]))
    /\ answered' = answered + 1
    /\ input' = "asked" /\ cleared' = NotCleared
    /\ phase' = "tools"

\* executeToolCall: an unknown tool is answered at once.  The signal is looked
\* at here, and not again before the tool runs.
\* (Mutant: the signal is looked at between turns only.)
BeginCallWhileAborted ==
    /\ phase = "tools" /\ answered < Len(calls)
    /\ phase' = "hook"
    /\ UNCHANGED <<turn, reply, toolState, stream, log, aborted>>
BeginCall ==
    /\ phase = "tools" /\ answered < Len(calls) /\ ~aborted
    /\ phase' = "hook"
    /\ UNCHANGED <<turn, reply, toolState, stream, log, aborted>>

\* The preTool hook may veto the call or replace its input; a hook that
\* throws does neither.
HookDecides ==
    /\ phase = "hook"
    /\ \/ /\ phase' = "guard"
          /\ input' \in {"asked", "rewritten"}
          /\ UNCHANGED <<answered, cleared, stream>>
       \/ Answer
    /\ UNCHANGED <<turn, reply, calls, ran, log, aborted>>

\* The hand-off guard: pass, block or throw; a guard that throws stops
\* everything but a read.
GuardDecides ==
    /\ phase = "guard"
    /\ \E verdict \in {"pass", "block", "throw"} :
          IF verdict = "pass" \/ (verdict = "throw" /\ ClassOf(input) = "read")
          THEN /\ cleared' = [cleared EXCEPT !.guard = input]
               /\ phase' = "gate"
               /\ UNCHANGED <<answered, input, stream>>
          ELSE Answer
    /\ UNCHANGED <<turn, reply, calls, ran, log, aborted>>

\* runTool: from here the tool has started.
Run(by) ==
    /\ ran' = Append(ran, [id |-> calls[answered + 1], input |-> input,
                           by |-> by, late |-> aborted])
    /\ cleared' = [cleared EXCEPT !.gate = input, !.by = by]
    /\ phase' = "running"

GateDecides ==
    /\ phase = "gate"
    /\ \E list \in Lists :
          LET verdict == Verdict(input, list)
          IN  IF verdict = "allow"
              THEN /\ Run(IF list = "allow" THEN "list" ELSE "mode")
                   /\ UNCHANGED <<answered, input, stream>>
              ELSE IF verdict = "ask" /\ HasApprover
              THEN /\ phase' = "preview"
                   /\ UNCHANGED <<answered, input, cleared, ran, stream>>
              ELSE Answer /\ UNCHANGED ran
    /\ UNCHANGED <<turn, reply, calls, log, aborted>>

\* ApprovalBroker.request builds the diff to show, and then looks at the scope.
\* (Mutant: a scope cancelled meanwhile is not noticed, nor is its abort.)
PreviewOnlyLive ==
    /\ phase = "preview" /\ ~aborted
    /\ phase' = "approval"
    /\ UNCHANGED <<turn, reply, toolState, stream, log, aborted>>
Preview ==
    /\ phase = "preview"
    /\ IF aborted THEN Answer
       ELSE phase' = "approval" /\ UNCHANGED <<answered, input, cleared, stream>>
    /\ UNCHANGED <<turn, reply, calls, ran, log, aborted>>

\* A decision line, the end of the control channel, or the timeout.
Approve ==
    /\ phase = "approval"
    /\ Run("user")
    /\ UNCHANGED <<turn, reply, calls, answered, input, stream, log, aborted>>
Deny ==
    /\ phase = "approval"
    /\ Answer
    /\ UNCHANGED <<turn, reply, calls, ran, log, aborted>>

\* The tool returns or throws; either is an answer.
ToolEnds ==
    /\ phase = "running"
    /\ Answer
    /\ UNCHANGED <<turn, reply, calls, ran, log, aborted>>

\* Every call is answered: the exchange grows, the turn closes, the next opens.
\* (Mutant: the messages of the last permitted turn are not kept.)
GrownButLast ==
    IF turn = MaxTurns - 1 THEN exchange
    ELSE exchange \o <<Assistant(calls)>>
                  \o [i \in DOMAIN calls |-> ToolMessage(calls[i])]
Grown == exchange \o <<Assistant(calls)>>
                  \o [i \in DOMAIN calls |-> ToolMessage(calls[i])]
\* (Mutant: a turn that used tools is not closed.)
ClosedNever(written) == boundaries
Closed(written) == IF turn < MaxTurns - 1 THEN Marked("end", turn, written) ELSE boundaries

EndTurn ==
    /\ phase = "tools" /\ answered = Len(calls)
    /\ exchange' = Grown
    /\ \E written \in Writes : boundaries' = Closed(written)
    /\ turn' = turn + 1
    /\ phase' = "turn"
    /\ UNCHANGED <<reply, toolState, stream, usage, turnUsages, aborted>>

\* maxTurns exhausted: a synthesized terminal.
MaxTurnsReached ==
    /\ phase = "turn" /\ turn = MaxTurns
    /\ stream' = Append(stream, Plain("run-end"))
    /\ usage' = turnUsages
    /\ exchange' = Append(exchange, Assistant(<<>>))
    /\ \E written \in Writes : boundaries' = Marked("end", MaxTurns - 1, written)
    /\ phase' = "ended"
    /\ UNCHANGED <<turn, reply, toolState, turnUsages, aborted>>

-----------------------------------------------------------------------------
Settled  == phase \in {"ended", "failed"}
Finished == phase \in {"closing", "ended"}     \* the consumer has the run-end

\* The scope is cancelled at any moment; a pending approval is denied on the
\* spot by its abort listener.
Cancel ==
    /\ ~aborted /\ ~Settled
    /\ aborted' = TRUE
    /\ IF phase = "approval" THEN Answer
       ELSE UNCHANGED <<phase, answered, input, cleared, stream>>
    /\ UNCHANGED <<turn, reply, calls, ran, log>>

Provider == ProviderStarts \/ ProviderCalls \/ ProviderCallEnds \/ ProviderUsage
              \/ ProviderFails \/ ProviderEnds
ToolCall == BeginCall \/ HookDecides \/ GuardDecides \/ GateDecides \/ Preview
              \/ Approve \/ Deny \/ ToolEnds
Loop == BeginTurn \/ CancelledChunk \/ EndTurn \/ MaxTurnsReached \/ CloseTurn

Next == Loop \/ Provider \/ ToolCall \/ Cancel

\* The loop and the tools go on by themselves; a provider turn ends (its own
\* watchdogs and retries: StreamPipeline); an approval times out.
Fairness == WF_vars(Loop \/ Provider \/ ToolCall)

Spec == Init /\ [][Next]_vars
FairSpec == Spec /\ Fairness

-----------------------------------------------------------------------------
\* The merged stream of the whole loop is again one well-formed run: one
\* run-start, first; one terminal, last; tool calls that start and end once
\* (the frozen contract, agentStream).
RunChunks == {Plain(t) : t \in {"run-start", "session-init", "run-end", "error"}}
               \cup {Chunk(t, id) : t \in {"tool-start", "tool-end", "tool-result"}, id \in CallIds}
Contract == INSTANCE RunStream WITH Chunks <- RunChunks
OneWellFormedRun == Contract!Spec

\* A tool runs with exactly the input the guard and the gate were shown, and
\* writes only when a list, the mode or the user allows writing: a hook that
\* rewrites the input cannot get it past the checks (executeToolCall).
RunsWhatWasCleared ==
    phase = "running" =>
        /\ cleared.guard = input /\ cleared.gate = input
        /\ \/ cleared.by = "mode" /\ Policy(ClassOf(input)) = "allow"
           \/ cleared.by = "list" /\ "allow" \in Lists
           \/ cleared.by = "user" /\ Policy(ClassOf(input)) = "ask"

\* After a cancellation at most the one tool already past the signal check
\* starts, and none that needs the user's approval (executeToolCall,
\* ApprovalBroker).
CancelStopsTools ==
    LET late == {i \in DOMAIN ran : ran[i].late}
    IN  Cardinality(late) <= 1 /\ \A i \in late : ran[i].by # "user"

\* A run that ends well hands on with its run-end a history in which every tool call is
\* answered once, right after its message and in the order the consumer saw,
\* and which closes with a reply (toolExchange).
Said  == {i \in DOMAIN exchange : exchange[i].role = "tool"}
Shown == {n \in DOMAIN stream : stream[n].type = "tool-result"}
Answers(i, n) == exchange[i].ids[1] = stream[n].id
HistoryIsWhatRan ==
    Finished =>
       /\ \A i \in Said : \E n \in Shown : Answers(i, n)
       /\ \A n \in Shown : \E i \in Said : Answers(i, n)
       /\ \A i1, i2 \in Said, n1, n2 \in Shown :
             Answers(i1, n1) /\ Answers(i2, n2) => (i1 < i2 <=> n1 < n2)
       /\ Said # {} => Last(exchange) = Assistant(<<>>)
       /\ \A i \in DOMAIN exchange : exchange[i].role = "assistant" =>
             \A k \in DOMAIN exchange[i].ids :
                i + k \in DOMAIN exchange /\ exchange[i + k] = ToolMessage(exchange[i].ids[k])

\* Unless it was cancelled, a run reports the usage of every turn that ended,
\* however the run itself ends (turnUsages).
UsageAddsUp == Finished \/ (Settled /\ ~aborted) => usage = turnUsages

\* "Close it before opening the next boundary so recovery sees properly paired
\* turns": every turn is marked as closed before the next is opened, and the
\* last one before the run is over if it ends well, also when an earlier mark
\* could not be written.  The transfer log holds these marks in this order, but
\* for those that failed; after a failure, or for a consumer that has the
\* run-end and no more, the last turn is still open there (turnBoundary).
BoundariesPaired ==
    /\ \A i \in DOMAIN boundaries :
          /\ boundaries[i][1] = IF i % 2 = 1 THEN "start" ELSE "end"
          /\ boundaries[i][2] = (i - 1) \div 2
    /\ phase = "ended" => Len(boundaries) % 2 = 0
    /\ phase = "closing" => Len(boundaries) = 2 * turn + 1

\* What a run leaves behind agrees with what it did: the history handed to the
\* next run, the usage it is billed for and the turns of the transfer log
\* (toolExchange, turnUsages, turnBoundary).
AccountsAgree == HistoryIsWhatRan /\ UsageAddsUp /\ BoundariesPaired

\* Every run comes to an end: the turns are bounded and no call of a turn is
\* waited for twice.
AgentEnds == <>Settled
==============================================================================
