---------------------------- MODULE AgentLoopProofs ----------------------------
(***************************************************************************)
(* Proofs about AgentLoop: what the steps of one tool call, its hook, its  *)
(* guard, its gate, its approver and a cancellation between any two of     *)
(* them may do (ToolStep), and from it, part by part, the invariant that   *)
(* ties the place the loop is at to the stream, the history, the usage and *)
(* the turn boundaries it has left so far.                                 *)
(***************************************************************************)
EXTENDS AgentLoop, SequenceTheorems, FiniteSetTheorems, TLAPS

\* A call is on its way through the checks or running; the loop is among the calls.
Working == {"hook", "guard", "gate", "preview", "approval", "running"}
InTools == Working \cup {"tools"}
Phases  == InTools \cup {"turn", "provider", "closing", "ended", "failed"}

\* The consumer of the run has its terminal.
Over == Finished \/ phase = "failed"

Inputs   == {"asked", "rewritten"}
Replies  == [started : BOOLEAN, calls : Seq(CallIds), open : BOOLEAN, usage : BOOLEAN]
Clearing == [guard : Inputs \cup {"none"}, gate : Inputs \cup {"none"},
             by : {"none", "mode", "list", "user"}]
Message  == [role : {"assistant"}, ids : Seq(CallIds)] \cup {ToolMessage(id) : id \in CallIds}
ToolRun  == [id : CallIds, input : Inputs, by : {"mode", "list", "user"}, late : BOOLEAN]
Boundary == {"start", "end"} \X Nat \X BOOLEAN

TypeOK ==
    /\ phase \in Phases /\ turn \in 0 .. MaxTurns
    /\ reply \in Replies
    /\ calls \in Seq(CallIds) /\ answered \in Nat
    /\ input \in Inputs /\ cleared \in Clearing
    /\ stream \in Seq(RunChunks)
    /\ usage \in Nat /\ turnUsages \in Nat
    /\ exchange \in Seq(Message) /\ boundaries \in Seq(Boundary)
    /\ ran \in Seq(ToolRun) /\ aborted \in BOOLEAN

\* Calls are numbered in their turn; one that is worked on is not answered.
Position ==
    /\ phase \in InTools \cup {"provider"} => turn < MaxTurns
    /\ answered <= Len(calls) /\ (phase \in Working => answered < Len(calls))
    /\ phase \in InTools => \A k \in 1 .. Len(calls) : calls[k] = <<turn, k>>
    /\ phase = "provider" =>
          /\ \A k \in 1 .. Len(reply.calls) : reply.calls[k] = <<turn, k>>
          /\ reply.open => reply.calls # <<>>

-----------------------------------------------------------------------------
\* The steps of tool calls: on to the next check, or back with an answer, or
\* nothing but the signal.
Judged ==
    /\ phase \in InTools /\ phase' \in Working /\ answered < Len(calls)
    /\ UNCHANGED <<turn, reply, calls, answered, stream, log>>
Told ==
    /\ phase \in Working /\ Answer
    /\ UNCHANGED <<turn, reply, calls, log>>
Idle ==
    UNCHANGED <<phase, turn, reply, calls, answered, stream, log>>

LEMMA ToolStep ==
    ASSUME Position, ToolCall \/ Cancel \/ UNCHANGED vars
    PROVE  Judged \/ Told \/ Idle
<1> USE DEF Position, Working, InTools, Judged, Told, Idle, log, toolState
<1>1. CASE BeginCall
  BY <1>1 DEF BeginCall
<1>2. CASE HookDecides
  BY <1>2 DEF HookDecides
<1>3. CASE GuardDecides
  BY <1>3 DEF GuardDecides
<1>4. CASE GateDecides
  BY <1>4 DEF GateDecides, Run
<1>5. CASE Preview
  BY <1>5 DEF Preview
<1>6. CASE Approve
  BY <1>6 DEF Approve, Run
<1>7. CASE Deny
  BY <1>7 DEF Deny
<1>8. CASE ToolEnds
  BY <1>8 DEF ToolEnds
<1>9. CASE Cancel
  BY <1>9 DEF Cancel
<1>10. CASE UNCHANGED vars
  BY <1>10 DEF vars
<1> QED BY <1>1, <1>2, <1>3, <1>4, <1>5, <1>6, <1>7, <1>8, <1>9, <1>10 DEF ToolCall

-----------------------------------------------------------------------------
LEMMA ChunksOfTheRun ==
    /\ \A t \in {"run-start", "session-init", "run-end", "error"} : Plain(t) \in RunChunks
    /\ \A t \in {"tool-start", "tool-end", "tool-result"}, id \in CallIds : Chunk(t, id) \in RunChunks
    /\ \A c \in RunChunks :
          \/ c.type \in {"run-start", "session-init", "run-end", "error"}
          \/ c.type \in {"tool-start", "tool-end", "tool-result"} /\ c.id \in CallIds
<1>1. \A t, id : Chunk(t, id).type = t /\ Chunk(t, id).id = id
  BY DEF Chunk
<1>2. ASSUME NEW c \in RunChunks
      PROVE  \/ c.type \in {"run-start", "session-init", "run-end", "error"}
             \/ c.type \in {"tool-start", "tool-end", "tool-result"} /\ c.id \in CallIds
  <2>1. CASE c \in {Plain(t) : t \in {"run-start", "session-init", "run-end", "error"}}
    BY <2>1, <1>1 DEF Plain
  <2>2. CASE c \in {Chunk(t, id) : t \in {"tool-start", "tool-end", "tool-result"}, id \in CallIds}
    BY <2>2, <1>1
  <2> QED BY <2>1, <2>2 DEF RunChunks
<1>3. \A t \in {"run-start", "session-init", "run-end", "error"} : Plain(t) \in RunChunks
  BY DEF RunChunks
<1>4. \A t \in {"tool-start", "tool-end", "tool-result"}, id \in CallIds : Chunk(t, id) \in RunChunks
  BY DEF RunChunks
<1> QED BY <1>2, <1>3, <1>4

LEMMA CallIdParts ==
    /\ \A id \in CallIds : id[1] \in 0 .. MaxTurns - 1 /\ id[2] \in 1 .. MaxCalls
                           /\ id = <<id[1], id[2]>>
    /\ \A t \in 0 .. MaxTurns - 1, k \in 1 .. MaxCalls :
          <<t, k>> \in CallIds /\ <<t, k>>[1] = t /\ <<t, k>>[2] = k
  BY DEF CallIds

\* Emitting one chunk, or keeping one message.
LEMMA Appended ==
    ASSUME NEW S, NEW s \in Seq(S), NEW e \in S
    PROVE  /\ Append(s, e) \in Seq(S) /\ Append(s, e) # <<>>
           /\ DOMAIN Append(s, e) = DOMAIN s \cup {Len(s) + 1} /\ Len(Append(s, e)) = Len(s) + 1
           /\ \A i \in DOMAIN s : i \in 1 .. Len(s) /\ Append(s, e)[i] = s[i]
           /\ Append(s, e)[Len(s) + 1] = e /\ Len(s) \in Nat /\ DOMAIN s = 1 .. Len(s)
  BY AppendProperties, LenProperties

\* Trying to mark a turn boundary.
LEMMA MarkTypes ==
    ASSUME TypeOK, NEW kind \in {"start", "end"}, NEW t \in Nat, NEW written \in Writes
    PROVE  /\ <<kind, t, written>> \in Boundary
           /\ Marked(kind, t, written) = Append(boundaries, <<kind, t, written>>)
           /\ Marked(kind, t, written) \in Seq(Boundary)
<1>1. written \in BOOLEAN
  BY DEF Writes
<1>2. <<kind, t, written>> \in Boundary
  BY <1>1 DEF Boundary
<1> QED BY <1>2, AppendProperties DEF Marked, TypeOK

LEMMA TurnMarks ==
    ASSUME TypeOK, NEW written \in Writes
    PROVE  Marked("start", turn, written) \in Seq(Boundary) /\ Marked("end", turn, written) \in Seq(Boundary)
<1>1. turn \in Nat
  BY DEF TypeOK
<1> QED BY <1>1, MarkTypes

LEMMA AnswerTypes ==
    ASSUME TypeOK, Position, phase \in Working, Answer
    PROVE  /\ phase' = "tools" /\ answered' \in Nat /\ input' \in Inputs /\ cleared' \in Clearing
           /\ calls[answered + 1] \in CallIds
           /\ stream' = Append(stream, Chunk("tool-result", calls[answered + 1]))
           /\ stream' \in Seq(RunChunks)
<1>1. answered + 1 \in 1 .. Len(calls)
  BY DEF TypeOK, Position
<1>2. calls[answered + 1] \in CallIds
  BY <1>1, ElementOfSeq DEF TypeOK
<1>3. stream' \in Seq(RunChunks)
  BY <1>2, ChunksOfTheRun, AppendProperties DEF Answer, TypeOK
<1> QED BY <1>2, <1>3 DEF Answer, TypeOK, Inputs, Clearing, NotCleared

LEMMA TypeInit == Init => TypeOK /\ Position
<1> SUFFICES ASSUME Init PROVE TypeOK /\ Position
  OBVIOUS
<1>1. \A S : <<>> \in Seq(S)
  BY EmptySeq
<1>2. NoReply \in Replies /\ NotCleared \in Clearing
  BY <1>1 DEF NoReply, Replies, NotCleared, Clearing
<1>3. TypeOK
  <2>1. /\ <<>> \in Seq(CallIds) /\ <<>> \in Seq(RunChunks) /\ <<>> \in Seq(Message)
        /\ <<>> \in Seq(Boundary) /\ <<>> \in Seq(ToolRun)
    BY <1>1
  <2>2. phase \in Phases /\ turn \in 0 .. MaxTurns /\ input \in Inputs
    BY AgentAssumption DEF Init, Phases, Inputs
  <2> QED BY <1>2, <2>1, <2>2 DEF Init, TypeOK
<1>4. Position
  BY AgentAssumption DEF Init, Position, InTools, Working
<1> QED BY <1>3, <1>4

LEMMA ToolTypes ==
    ASSUME TypeOK, Position, ToolCall \/ Cancel
    PROVE  TypeOK'
<1> USE DEF log, toolState
<1>1. CASE BeginCall
  BY <1>1 DEF BeginCall, TypeOK, Phases, InTools, Working
<1>2. CASE HookDecides
  BY <1>2, AnswerTypes DEF HookDecides, TypeOK, Phases, InTools, Working, Inputs
<1>3. CASE GuardDecides
  BY <1>3, AnswerTypes DEF GuardDecides, TypeOK, Phases, InTools, Working, Inputs, Clearing
<1>4. ASSUME phase \in Working, NEW by \in {"mode", "list", "user"}, Run(by)
      PROVE  phase' = "running" /\ ran' \in Seq(ToolRun) /\ cleared' \in Clearing
  <2>1. answered + 1 \in 1 .. Len(calls)
    BY <1>4 DEF TypeOK, Position
  <2>2. calls[answered + 1] \in CallIds
    BY <2>1, ElementOfSeq DEF TypeOK
  <2>3. [id |-> calls[answered + 1], input |-> input, by |-> by, late |-> aborted] \in ToolRun
    BY <2>2 DEF ToolRun, TypeOK
  <2> QED BY <1>4, <2>3, AppendProperties DEF Run, TypeOK, Clearing, Inputs
<1>5. CASE GateDecides
  BY <1>4, <1>5, AnswerTypes DEF GateDecides, TypeOK, Phases, InTools, Working
<1>6. CASE Preview
  BY <1>6, AnswerTypes DEF Preview, TypeOK, Phases, InTools, Working
<1>7. CASE Approve
  BY <1>4, <1>7 DEF Approve, TypeOK, Phases, InTools, Working
<1>8. CASE Deny \/ ToolEnds
  BY <1>8, AnswerTypes DEF Deny, ToolEnds, TypeOK, Phases, InTools, Working
<1>9. CASE Cancel
  BY <1>9, AnswerTypes DEF Cancel, TypeOK, Phases, InTools, Working
<1> QED BY <1>1, <1>2, <1>3, <1>5, <1>6, <1>7, <1>8, <1>9 DEF ToolCall


LEMMA LoopTypes ==
    ASSUME TypeOK, Position, Loop
    PROVE  TypeOK'
<1> USE DEF log, toolState, Phases, InTools, Working
<1>1. CASE BeginTurn
  <2>1. \A written \in Writes : Marked("start", turn, written) \in Seq(Boundary)
    BY TurnMarks
  <2>2. NoReply \in Replies
    BY EmptySeq DEF NoReply, Replies
  <2>3. boundaries' \in Seq(Boundary)
    BY <1>1, <2>1 DEF BeginTurn
  <2> QED BY <1>1, <2>2, <2>3 DEF BeginTurn, TypeOK
<1>2. CASE CancelledChunk
  BY <1>2, AppendProperties, ChunksOfTheRun DEF CancelledChunk, Fail, TypeOK
<1>3. CASE EndTurn
  <2>1. Assistant(calls) \in Message
    BY DEF Message, Assistant, TypeOK
  <2>2. [i \in DOMAIN calls |-> ToolMessage(calls[i])] \in Seq(Message)
    <3>1. \A i \in 1 .. Len(calls) : ToolMessage(calls[i]) \in Message
      BY ElementOfSeq DEF Message, TypeOK
    <3>2. [i \in 1 .. Len(calls) |-> ToolMessage(calls[i])] \in [1 .. Len(calls) -> Message]
      BY <3>1
    <3>3. DOMAIN calls = 1 .. Len(calls) /\ Len(calls) \in Nat
      BY LenProperties DEF TypeOK
    <3> QED BY <3>2, <3>3, SeqDef
  <2>3. Grown \in Seq(Message)
    BY <2>1, <2>2, ConcatProperties DEF Grown, TypeOK
  <2>4. boundaries' \in Seq(Boundary)
    <3>1. \A written \in Writes : Marked("end", turn, written) \in Seq(Boundary)
      BY TurnMarks
    <3> QED BY <1>3, <3>1 DEF EndTurn, Closed, TypeOK
  <2>5. turn + 1 \in 0 .. MaxTurns
    BY <1>3, AgentAssumption DEF EndTurn, Position, TypeOK
  <2> QED BY <1>3, <2>3, <2>4, <2>5 DEF EndTurn, TypeOK
<1>4. CASE MaxTurnsReached
  <2>1. Assistant(<<>>) \in Message
    BY EmptySeq DEF Message, Assistant
  <2>2. boundaries' \in Seq(Boundary)
    <3>1. MaxTurns - 1 \in Nat
      BY AgentAssumption
    <3>2. \A written \in Writes : Marked("end", MaxTurns - 1, written) \in Seq(Boundary)
      BY <3>1, MarkTypes
    <3> QED BY <1>4, <3>2 DEF MaxTurnsReached
  <2>3. Append(exchange, Assistant(<<>>)) \in Seq(Message)
    BY <2>1, AppendProperties DEF TypeOK
  <2>4. Append(stream, Plain("run-end")) \in Seq(RunChunks)
    BY AppendProperties, ChunksOfTheRun DEF TypeOK
  <2> QED BY <1>4, <2>2, <2>3, <2>4 DEF MaxTurnsReached, TypeOK
<1>5. CASE CloseTurn
  <2>1. \A written \in Writes : Marked("end", turn, written) \in Seq(Boundary)
    BY TurnMarks
  <2> QED BY <1>5, <2>1 DEF CloseTurn, TypeOK
<1> QED BY <1>1, <1>2, <1>3, <1>4, <1>5 DEF Loop

\* The reply of a provider turn and what the consumer sees of it.
LEMMA ReplySteps ==
    ASSUME TypeOK, Position
    PROVE  /\ ProviderStarts =>
                 /\ reply' \in Replies /\ stream' \in Seq(RunChunks)
                 /\ reply'.started /\ reply'.calls = reply.calls /\ reply'.open = reply.open
                 /\ \/ stream # <<>> /\ stream' = stream
                    \/ stream = <<>> /\ stream' = Append(stream, Plain("run-start"))
                    \/ stream # <<>> /\ stream' = Append(stream, Plain("session-init"))
           /\ ProviderCalls => LET id == <<turn, Len(reply.calls) + 1>> IN
                 /\ reply' \in Replies /\ stream' \in Seq(RunChunks) /\ id \in CallIds
                 /\ reply'.started /\ reply'.calls = Append(reply.calls, id) /\ reply'.open
                 /\ stream' = Append(stream, Chunk("tool-start", id))
           /\ ProviderCallEnds =>
                 /\ reply' \in Replies /\ stream' \in Seq(RunChunks)
                 /\ reply'.started = reply.started /\ reply'.calls = reply.calls /\ ~reply'.open
                 /\ Len(reply.calls) \in 1 .. Len(reply.calls)
                 /\ reply.calls[Len(reply.calls)] \in CallIds
                 /\ stream' = Append(stream, Chunk("tool-end", reply.calls[Len(reply.calls)]))
           /\ ProviderUsage =>
                 /\ reply' \in Replies /\ stream' = stream
                 /\ reply'.started = reply.started /\ reply'.calls = reply.calls
                 /\ reply'.open = reply.open
<1>1. ASSUME ProviderStarts
      PROVE  /\ reply' \in Replies /\ stream' \in Seq(RunChunks)
             /\ reply'.started /\ reply'.calls = reply.calls /\ reply'.open = reply.open
             /\ \/ stream # <<>> /\ stream' = stream
                \/ stream = <<>> /\ stream' = Append(stream, Plain("run-start"))
                \/ stream # <<>> /\ stream' = Append(stream, Plain("session-init"))
  <2>1. \/ stream # <<>> /\ stream' = stream
        \/ stream = <<>> /\ stream' = Append(stream, Plain("run-start"))
        \/ stream # <<>> /\ stream' = Append(stream, Plain("session-init"))
    <3>1. PICK c \in StartChunks : stream' = stream \o c
      BY <1>1 DEF ProviderStarts
    <3>2. stream \o <<>> = stream
      BY ConcatEmptySeq DEF TypeOK
    <3>3. \A t \in {"run-start", "session-init"} : stream \o <<Plain(t)>> = Append(stream, Plain(t))
      BY AppendIsConcat, ChunksOfTheRun DEF TypeOK
    <3> QED BY <3>1, <3>2, <3>3 DEF StartChunks
  <2>2. Plain("run-start") \in RunChunks /\ Plain("session-init") \in RunChunks
    BY ChunksOfTheRun
  <2>3. stream' \in Seq(RunChunks)
    <3>1. stream \in Seq(RunChunks) /\ \A c \in RunChunks : Append(stream, c) \in Seq(RunChunks)
      BY AppendProperties DEF TypeOK
    <3> QED BY <2>1, <2>2, <3>1
  <2>4. reply' \in Replies /\ reply'.started /\ reply'.calls = reply.calls /\ reply'.open = reply.open
    BY <1>1 DEF ProviderStarts, TypeOK, Replies
  <2> QED BY <2>1, <2>3, <2>4
<1>2. ASSUME ProviderCalls
      PROVE  LET id == <<turn, Len(reply.calls) + 1>> IN
             /\ reply' \in Replies /\ stream' \in Seq(RunChunks) /\ id \in CallIds
             /\ reply'.started /\ reply'.calls = Append(reply.calls, id) /\ reply'.open
             /\ stream' = Append(stream, Chunk("tool-start", id))
  <2> DEFINE id == <<turn, Len(reply.calls) + 1>>
  <2>1. id \in CallIds
    <3>1. turn \in 0 .. MaxTurns - 1 /\ Len(reply.calls) < MaxCalls /\ reply.calls \in Seq(CallIds)
      BY <1>2, AgentAssumption DEF ProviderCalls, Position, TypeOK, Replies
    <3>2. Len(reply.calls) + 1 \in 1 .. MaxCalls
      BY <3>1, AgentAssumption, LenProperties, SMTT(30)
    <3> QED BY <3>1, <3>2 DEF CallIds
  <2>2. /\ reply' = [reply EXCEPT !.calls = Append(@, id), !.open = TRUE]
        /\ stream' = Append(stream, Chunk("tool-start", id)) /\ reply.started
    BY <1>2 DEF ProviderCalls
  <2> HIDE DEF id
  <2>3. Append(reply.calls, id) \in Seq(CallIds)
    BY <2>1, AppendProperties DEF TypeOK, Replies
  <2>4. reply' \in Replies /\ reply'.started /\ reply'.calls = Append(reply.calls, id) /\ reply'.open
    BY <2>2, <2>3 DEF TypeOK, Replies
  <2>5. stream' \in Seq(RunChunks)
    <3>1. Chunk("tool-start", id) \in RunChunks
      BY <2>1, ChunksOfTheRun
    <3> QED BY <2>2, <3>1, AppendProperties DEF TypeOK
  <2> QED BY <2>1, <2>2, <2>4, <2>5 DEF id
<1>3. ASSUME ProviderCallEnds
      PROVE  /\ reply' \in Replies /\ stream' \in Seq(RunChunks)
             /\ reply'.started = reply.started /\ reply'.calls = reply.calls /\ ~reply'.open
             /\ Len(reply.calls) \in 1 .. Len(reply.calls)
             /\ reply.calls[Len(reply.calls)] \in CallIds
             /\ stream' = Append(stream, Chunk("tool-end", reply.calls[Len(reply.calls)]))
  <2>1. reply.calls \in Seq(CallIds) /\ reply.calls # <<>>
    BY <1>3 DEF ProviderCallEnds, Position, TypeOK, Replies
  <2>2. Len(reply.calls) \in 1 .. Len(reply.calls)
    BY <2>1, EmptySeq
  <2>3. reply.calls[Len(reply.calls)] \in CallIds
    BY <2>1, <2>2, ElementOfSeq
  <2>4. stream' = Append(stream, Chunk("tool-end", reply.calls[Len(reply.calls)]))
    BY <1>3 DEF ProviderCallEnds, Last
  <2>5. stream' \in Seq(RunChunks)
    <3>1. Chunk("tool-end", reply.calls[Len(reply.calls)]) \in RunChunks
      BY <2>3, ChunksOfTheRun
    <3> QED BY <2>4, <3>1, AppendProperties DEF TypeOK
  <2>6. reply' \in Replies /\ reply'.started = reply.started /\ reply'.calls = reply.calls /\ ~reply'.open
    BY <1>3 DEF ProviderCallEnds, TypeOK, Replies
  <2> QED BY <2>2, <2>3, <2>4, <2>5, <2>6
<1>4. ASSUME ProviderUsage
      PROVE  /\ reply' \in Replies /\ stream' = stream
             /\ reply'.started = reply.started /\ reply'.calls = reply.calls /\ reply'.open = reply.open
  BY <1>4 DEF ProviderUsage, TypeOK, Replies
<1> QED BY <1>1, <1>2, <1>3, <1>4

\* The end of a provider turn is the end of the run, or leads to the tools.
ToTools ==
    /\ calls' \in Seq(CallIds) /\ calls' # <<>> /\ answered' = 0 /\ phase' = "tools"
    /\ \A k \in 1 .. Len(calls') : calls'[k] = <<turn, k>>
    /\ UNCHANGED <<input, cleared, ran, stream, usage, exchange, boundaries>>

LEMMA EndSteps ==
    ASSUME TypeOK, Position, ProviderEnds
    PROVE  turnUsages' \in Nat /\ (FinalReply(turnUsages') \/ ToTools)
<1>1. PICK blocks \in {<<>>, <<<<turn, 1>>>>}, reported \in BOOLEAN :
         LET requested == CallsOf(blocks)
             total == turnUsages + (IF reported \/ reply.usage THEN 1 ELSE 0)
         IN  /\ blocks # <<>> => MaxCalls > 0 /\ (Offered \/ MayCallUnoffered)
             /\ turnUsages' = total
             /\ IF requested = <<>>
                THEN FinalReply(total)
                ELSE /\ calls' = requested /\ answered' = 0
                     /\ phase' = "tools"
                     /\ UNCHANGED <<input, cleared, ran, stream, usage, exchange, boundaries>>
  BY DEF ProviderEnds
<1>2. turnUsages' \in Nat
  BY <1>1 DEF TypeOK
<1>3. blocks = <<>> \/ (MaxCalls > 0 /\ blocks = <<<<turn, 1>>>>)
  BY <1>1
<1>4. MaxCalls > 0 => <<turn, 1>> \in CallIds
  BY AgentAssumption DEF ProviderEnds, Position, TypeOK, CallIds
<1>5. blocks \in Seq(CallIds)
  <2>1. \A id \in CallIds : <<id>> \in Seq(CallIds)
    OBVIOUS
  <2> QED BY <1>3, <1>4, <2>1, EmptySeq
<1>6. CallsOf(blocks) \in Seq(CallIds)
  BY <1>5 DEF CallsOf, TypeOK, Replies
<1>7. \A k \in 1 .. Len(CallsOf(blocks)) : CallsOf(blocks)[k] = <<turn, k>>
  <2>1. \A k \in 1 .. Len(blocks) : blocks[k] = <<turn, k>>
    BY <1>3
  <2> QED BY <2>1 DEF CallsOf, Position, ProviderEnds
<1>8. CASE CallsOf(blocks) = <<>>
  BY <1>1, <1>2, <1>8
<1>9. CASE CallsOf(blocks) # <<>>
  BY <1>1, <1>2, <1>6, <1>7, <1>9 DEF ToTools
<1> QED BY <1>8, <1>9

LEMMA ProviderTypes ==
    ASSUME TypeOK, Position, Provider
    PROVE  TypeOK'
<1> USE DEF log, toolState, Phases, InTools, Working
<1>1. CASE ProviderStarts
  BY <1>1, ReplySteps DEF ProviderStarts, TypeOK
<1>2. CASE ProviderCalls
  BY <1>2, ReplySteps DEF ProviderCalls, TypeOK
<1>3. CASE ProviderCallEnds
  BY <1>3, ReplySteps DEF ProviderCallEnds, TypeOK
<1>4. CASE ProviderUsage
  BY <1>4, ReplySteps DEF ProviderUsage, TypeOK
<1>5. CASE ProviderFails
  BY <1>5, AppendProperties, ChunksOfTheRun DEF ProviderFails, Fail, UsageOnError, TypeOK
<1>6. CASE ProviderEnds
  <2>1. Assistant(<<>>) \in Message
    BY EmptySeq DEF Message, Assistant
  <2>2. turnUsages' \in Nat
    BY <1>6, EndSteps
  <2>3. CASE FinalReply(turnUsages')
    BY <1>6, <2>1, <2>2, <2>3, AppendProperties, ChunksOfTheRun DEF ProviderEnds, FinalReply, TypeOK
  <2>4. CASE ToTools
    BY <1>6, <2>2, <2>4 DEF ProviderEnds, ToTools, TypeOK
  <2> QED BY <1>6, <2>3, <2>4, EndSteps
<1> QED BY <1>1, <1>2, <1>3, <1>4, <1>5, <1>6 DEF Provider

LEMMA TypeStep == TypeOK /\ Position /\ [Next]_vars => TypeOK'
  BY ToolTypes, LoopTypes, ProviderTypes DEF Next, vars, TypeOK

LEMMA PositionStep == TypeOK /\ Position /\ [Next]_vars => Position'
<1> SUFFICES ASSUME TypeOK, Position, [Next]_vars PROVE Position'
  OBVIOUS
<1> USE DEF InTools, Working, log, toolState
<1>1. CASE ToolCall \/ Cancel \/ UNCHANGED vars
  <2>1. CASE Judged
    BY <2>1 DEF Judged, Position, TypeOK
  <2>2. CASE Told
    <3>1. /\ phase \in Working /\ phase' = "tools" /\ answered' = answered + 1
          /\ turn' = turn /\ calls' = calls
      BY <2>2 DEF Told, Answer
    <3>2. answered < Len(calls) /\ answered \in Nat /\ Len(calls) \in Nat
      BY <3>1 DEF Position, TypeOK
    <3>3. turn < MaxTurns /\ \A k \in 1 .. Len(calls) : calls[k] = <<turn, k>>
      BY <3>1 DEF Position
    <3> QED BY <3>1, <3>2, <3>3 DEF Position
  <2>3. CASE Idle
    BY <2>3 DEF Idle, Position
  <2> QED BY <1>1, <2>1, <2>2, <2>3, ToolStep
<1>2. CASE BeginTurn
  BY <1>2 DEF BeginTurn, Position, NoReply
<1>3. CASE CancelledChunk \/ MaxTurnsReached \/ CloseTurn \/ ProviderFails
  BY <1>3 DEF CancelledChunk, Fail, MaxTurnsReached, CloseTurn, ProviderFails, Position, TypeOK
<1>4. CASE EndTurn
  BY <1>4 DEF EndTurn, Position, TypeOK
<1>5. CASE ProviderStarts
  BY <1>5, ReplySteps DEF ProviderStarts, Position
<1>6. CASE ProviderCalls
  <2>1. /\ reply.calls \in Seq(CallIds) /\ <<turn, Len(reply.calls) + 1>> \in CallIds
        /\ reply'.calls = Append(reply.calls, <<turn, Len(reply.calls) + 1>>)
    BY <1>6, ReplySteps DEF TypeOK, Replies
  <2>2. reply'.calls # <<>> /\ \A k \in 1 .. Len(reply'.calls) : reply'.calls[k] = <<turn, k>>
    BY <1>6, <2>1, AppendProperties, LenProperties DEF Position, ProviderCalls
  <2> QED BY <1>6, <2>2 DEF ProviderCalls, Position, TypeOK
<1>7. CASE ProviderCallEnds \/ ProviderUsage
  BY <1>7, ReplySteps DEF ProviderCallEnds, ProviderUsage, Position
<1>8. CASE ProviderEnds
  <2>1. CASE FinalReply(turnUsages')
    BY <1>8, <2>1 DEF ProviderEnds, FinalReply, Position, TypeOK
  <2>2. CASE ToTools
    <3>1. Len(calls') \in Nat
      BY <2>2, LenProperties DEF ToTools
    <3> QED BY <1>8, <2>2, <3>1 DEF ProviderEnds, ToTools, Position, TypeOK
  <2> QED BY <1>8, <2>1, <2>2, EndSteps
<1> QED BY <1>1, <1>2, <1>3, <1>4, <1>5, <1>6, <1>7, <1>8 DEF Next, Loop, Provider

-----------------------------------------------------------------------------
\* What was cleared, by whom; once a tool has started after a cancellation, no
\* other one is on its way.
Judging ==
    /\ phase \in {"gate", "preview", "approval", "running"} => cleared.guard = input
    /\ phase \in {"preview", "approval"} => Policy(ClassOf(input)) = "ask"
    /\ RunsWhatWasCleared

Late == {i \in DOMAIN ran : ran[i].late}
Cancelling ==
    /\ phase = "approval" => ~aborted
    /\ Late # {} => aborted /\ phase \notin Working \ {"running"}
    /\ \A i, j \in Late : i = j
    /\ \A i \in Late : ran[i].by # "user"

LEMMA JudgingStep == TypeOK /\ Position /\ Judging /\ [Next]_vars => Judging'
<1> SUFFICES ASSUME TypeOK, Position, Judging, [Next]_vars PROVE Judging'
  OBVIOUS
<1> USE DEF Judging, RunsWhatWasCleared, log, toolState
<1>1. ASSUME phase' \notin {"gate", "preview", "approval", "running"} PROVE Judging'
  BY <1>1
<1>2. ASSUME Answer PROVE Judging'
  BY <1>1, <1>2 DEF Answer
<1>3. CASE Loop \/ Provider
  <2>1. phase' \notin {"gate", "preview", "approval", "running"}
    BY <1>3, EndSteps DEF Loop, BeginTurn, CancelledChunk, Fail, EndTurn, MaxTurnsReached, CloseTurn, Provider,
       ProviderStarts, ProviderCalls, ProviderCallEnds, ProviderUsage, ProviderFails, FinalReply, ToTools
  <2> QED BY <1>1, <2>1
<1>4. CASE BeginCall
  BY <1>1, <1>4 DEF BeginCall
<1>5. CASE HookDecides
  BY <1>1, <1>2, <1>5 DEF HookDecides
<1>6. CASE GuardDecides
  <2>1. CASE phase' = "gate" /\ cleared' = [cleared EXCEPT !.guard = input] /\ input' = input
    BY <2>1 DEF TypeOK, Clearing
  <2> QED BY <1>2, <1>6, <2>1 DEF GuardDecides
<1>7. CASE GateDecides
  <2>1. PICK list \in Lists :
          LET verdict == Verdict(input, list)
          IN  IF verdict = "allow"
              THEN /\ Run(IF list = "allow" THEN "list" ELSE "mode")
                   /\ UNCHANGED <<answered, input, stream>>
              ELSE IF verdict = "ask" /\ HasApprover
              THEN /\ phase' = "preview"
                   /\ UNCHANGED <<answered, input, cleared, ran, stream>>
              ELSE Answer /\ UNCHANGED ran
    BY <1>7 DEF GateDecides
  <2>2. cleared.guard = input  BY <1>7 DEF GateDecides
  <2>3. CASE Verdict(input, list) = "allow"
    <3>1. cleared' = [cleared EXCEPT !.gate = input, !.by = IF list = "allow" THEN "list" ELSE "mode"]
             /\ phase' = "running" /\ input' = input
      BY <2>1, <2>3 DEF Run
    <3>2. cleared'.guard = input /\ cleared'.gate = input
             /\ cleared'.by = IF list = "allow" THEN "list" ELSE "mode"
      BY <2>2, <3>1 DEF TypeOK, Clearing
    <3>3. list # "allow" => Policy(ClassOf(input)) = "allow"
      BY <2>3 DEF Verdict
    <3> QED BY <3>1, <3>2, <3>3
  <2>4. CASE Verdict(input, list) = "ask" /\ HasApprover
    <3>1. Policy(ClassOf(input)) = "ask"
      BY <2>4, AgentAssumption DEF Verdict
    <3> QED BY <2>1, <2>2, <2>4, <3>1
  <2> QED BY <1>2, <2>1, <2>3, <2>4
<1>8. CASE Preview
  BY <1>2, <1>8 DEF Preview
<1>9. CASE Approve
  <2>1. cleared' = [cleared EXCEPT !.gate = input, !.by = "user"] /\ input' = input /\ phase' = "running"
    BY <1>9 DEF Approve, Run
  <2>2. cleared'.guard = input /\ cleared'.gate = input /\ cleared'.by = "user"
    BY <1>9, <2>1 DEF Approve, TypeOK, Clearing
  <2> QED BY <1>9, <2>1, <2>2 DEF Approve
<1>10. CASE Deny \/ ToolEnds
  BY <1>2, <1>10 DEF Deny, ToolEnds
<1>11. CASE Cancel
  BY <1>2, <1>11 DEF Cancel
<1>12. CASE UNCHANGED vars
  BY <1>12 DEF vars
<1> QED BY <1>3, <1>4, <1>5, <1>6, <1>7, <1>8, <1>9, <1>10, <1>11, <1>12 DEF Next, ToolCall


\* A tool that is started: one more in ran, late if the signal was already set.
LEMMA RunGrows ==
    ASSUME TypeOK, Position, phase \in Working, NEW by \in {"mode", "list", "user"}, Run(by)
    PROVE  /\ phase' = "running"
           /\ Late' = IF aborted THEN Late \cup {Len(ran) + 1} ELSE Late
           /\ \A i \in Late : ran'[i] = ran[i] /\ i # Len(ran) + 1
           /\ ran'[Len(ran) + 1].by = by
<1> DEFINE e == [id |-> calls[answered + 1], input |-> input, by |-> by, late |-> aborted]
<1>1. answered + 1 \in 1 .. Len(calls)
  BY DEF TypeOK, Position
<1>2. calls[answered + 1] \in CallIds
  BY <1>1, ElementOfSeq DEF TypeOK
<1>3. e \in ToolRun
  BY <1>2 DEF ToolRun, TypeOK
<1>4. ran' = Append(ran, e) /\ phase' = "running"
  BY DEF Run
<1>5. e.by = by /\ e.late = aborted
  OBVIOUS
<1> HIDE DEF e
<1>6. /\ DOMAIN ran' = DOMAIN ran \cup {Len(ran) + 1} /\ ran'[Len(ran) + 1] = e
      /\ \A i \in DOMAIN ran : i \in 1 .. Len(ran) /\ ran'[i] = ran[i]
      /\ Len(ran) \in Nat
  BY <1>3, <1>4, Appended DEF TypeOK
<1>7. \A i \in DOMAIN ran : i # Len(ran) + 1
  BY <1>6
<1> QED BY <1>4, <1>5, <1>6, <1>7 DEF Late, TypeOK

LEMMA CancellingStep == TypeOK /\ Position /\ Cancelling /\ [Next]_vars => Cancelling'
<1> SUFFICES ASSUME TypeOK, Position, Cancelling, [Next]_vars PROVE Cancelling'
  OBVIOUS
<1> USE DEF log, toolState
<1>1. ASSUME ran' = ran, aborted => aborted', phase' = "approval" => ~aborted',
             phase' \in Working \ {"running"} => Late = {}
      PROVE  Cancelling'
  BY <1>1 DEF Cancelling, Late
<1>2. ASSUME Answer, ran' = ran, aborted => aborted' PROVE Cancelling'
  BY <1>1, <1>2 DEF Answer, Working
<1>3. CASE Loop \/ Provider
  <2>1. phase' \notin Working /\ ran' = ran /\ aborted' = aborted
    BY <1>3, EndSteps DEF Working, Loop, BeginTurn, CancelledChunk, Fail, EndTurn, MaxTurnsReached, CloseTurn, Provider,
       ProviderStarts, ProviderCalls, ProviderCallEnds, ProviderUsage, ProviderFails, ProviderEnds,
       FinalReply, ToTools
  <2> QED BY <1>1, <2>1 DEF Working
<1>4. CASE BeginCall
  BY <1>1, <1>4 DEF BeginCall, Cancelling
<1>5. CASE HookDecides
  BY <1>1, <1>2, <1>5 DEF HookDecides, Cancelling, Working
<1>6. CASE GuardDecides
  BY <1>1, <1>2, <1>6 DEF GuardDecides, Cancelling, Working
<1>7. ASSUME phase \in Working \ {"running"}, NEW by \in {"mode", "list", "user"}, Run(by),
             aborted' = aborted, aborted => by # "user"
      PROVE  Cancelling'
  BY <1>7, RunGrows DEF Cancelling, Working
<1>8. CASE GateDecides
  BY <1>1, <1>2, <1>7, <1>8 DEF GateDecides, Cancelling, Working
<1>9. CASE Preview
  BY <1>1, <1>2, <1>9 DEF Preview, Cancelling, Working
<1>10. CASE Approve
  BY <1>7, <1>10 DEF Approve, Cancelling, Working
<1>11. CASE Deny \/ ToolEnds
  BY <1>2, <1>11 DEF Deny, ToolEnds
<1>12. CASE Cancel
  BY <1>1, <1>2, <1>12 DEF Cancel, Cancelling
<1>13. CASE UNCHANGED vars
  BY <1>13 DEF vars, Cancelling, Late
<1> QED BY <1>3, <1>4, <1>5, <1>6, <1>8, <1>9, <1>10, <1>11, <1>12, <1>13 DEF Next, ToolCall

-----------------------------------------------------------------------------
\* Usage is reported at the end only, and turn boundaries alternate.
Counted == UsageAddsUp /\ (~Over => usage = 0)

Mark(i, b) == b[1] = (IF i % 2 = 1 THEN "start" ELSE "end") /\ b[2] = (i - 1) \div 2
InOrder == \A i \in 1 .. Len(boundaries) : Mark(i, boundaries[i])
Bounded ==
    /\ InOrder
    /\ phase = "turn" => Len(boundaries) = IF turn < MaxTurns THEN 2 * turn ELSE 2 * turn - 1
    /\ phase \in InTools \cup {"provider", "closing"} => Len(boundaries) = 2 * turn + 1
    /\ phase = "ended" => Len(boundaries) % 2 = 0

LEMMA CountedStep == TypeOK /\ Position /\ Counted /\ [Next]_vars => Counted'
<1> SUFFICES ASSUME TypeOK, Position, Counted, [Next]_vars PROVE Counted'
  OBVIOUS
<1> USE DEF Counted, UsageAddsUp, Settled, Finished, Over, log, toolState
<1>1. CASE ToolCall \/ Cancel \/ UNCHANGED vars
  <2>1. CASE Judged
    BY <2>1 DEF Judged, Working, InTools
  <2>2. CASE Told
    BY <2>2 DEF Told, Answer, Working
  <2>3. CASE Idle
    BY <1>1, <2>3 DEF Idle, Cancel, ToolCall, vars, BeginCall, HookDecides, GuardDecides, GateDecides,
       Preview, Approve, Deny, ToolEnds
  <2> QED BY <1>1, <2>1, <2>2, <2>3, ToolStep
<1>2. CASE BeginTurn \/ CancelledChunk \/ EndTurn \/ MaxTurnsReached \/ CloseTurn
  BY <1>2 DEF BeginTurn, CancelledChunk, Fail, EndTurn, MaxTurnsReached, CloseTurn
<1>3. CASE ProviderStarts \/ ProviderCalls \/ ProviderCallEnds \/ ProviderUsage
  BY <1>3 DEF ProviderStarts, ProviderCalls, ProviderCallEnds, ProviderUsage
<1>4. CASE ProviderFails
  BY <1>4 DEF ProviderFails, Fail, UsageOnError, TypeOK
<1>5. CASE ProviderEnds
  BY <1>5, EndSteps DEF ProviderEnds, FinalReply, ToTools
<1> QED BY <1>1, <1>2, <1>3, <1>4, <1>5 DEF Next, Loop, Provider

LEMMA Marks ==
    ASSUME NEW t \in Nat, NEW w
    PROVE  /\ Mark(2 * t + 1, <<"start", t, w>>) /\ Mark(2 * t + 2, <<"end", t, w>>)
           /\ (2 * t + 2) % 2 = 0
<1>1. (2 * t + 1) % 2 = 1 /\ (2 * t) \div 2 = t
  OBVIOUS
<1>2. (2 * t + 2) % 2 = 0 /\ (2 * t + 1) \div 2 = t
  OBVIOUS
<1>3. 2 * t + 1 - 1 = 2 * t /\ 2 * t + 2 - 1 = 2 * t + 1
  OBVIOUS
<1> QED BY <1>1, <1>2, <1>3 DEF Mark

\* The next boundary is marked.
LEMMA MarksGrow ==
    ASSUME TypeOK, InOrder, NEW kind \in {"start", "end"}, NEW t \in Nat, NEW written \in Writes,
           boundaries' = Marked(kind, t, written),
           Len(boundaries) = IF kind = "start" THEN 2 * t ELSE 2 * t + 1
    PROVE  Len(boundaries') = Len(boundaries) + 1 /\ InOrder'
<1>1. PICK b \in Boundary : b = <<kind, t, written>> /\ boundaries' = Append(boundaries, b)
  BY MarkTypes
<1>2. Mark(Len(boundaries) + 1, b)
  <2>1. CASE kind = "start"
    BY <1>1, <2>1, Marks
  <2>2. CASE kind = "end"
    <3>1. Len(boundaries) + 1 = 2 * t + 2
      BY <2>2
    <3> QED BY <1>1, <2>2, <3>1, Marks
  <2> QED BY <2>1, <2>2
<1>3. /\ DOMAIN boundaries = 1 .. Len(boundaries) /\ Len(boundaries) \in Nat
      /\ boundaries'[Len(boundaries) + 1] = b
      /\ \A i \in DOMAIN boundaries : boundaries'[i] = boundaries[i]
      /\ Len(boundaries') = Len(boundaries) + 1
  <2>1. boundaries \in Seq(Boundary)
    BY DEF TypeOK
  <2>2. /\ Len(Append(boundaries, b)) = Len(boundaries) + 1 /\ Len(boundaries) \in Nat
        /\ Append(boundaries, b)[Len(boundaries) + 1] = b
        /\ \A i \in DOMAIN boundaries : Append(boundaries, b)[i] = boundaries[i]
    BY <2>1, Appended
  <2>3. DOMAIN boundaries = 1 .. Len(boundaries)
    BY <2>1, LenProperties
  <2> QED BY <1>1, <2>2, <2>3
<1>4. \A i \in 1 .. Len(boundaries') : i \in 1 .. Len(boundaries) \/ i = Len(boundaries) + 1
  BY <1>3
<1>5. ASSUME NEW i \in 1 .. Len(boundaries') PROVE Mark(i, boundaries'[i])
  BY <1>2, <1>3, <1>4, <1>5 DEF InOrder
<1> QED BY <1>3, <1>5 DEF InOrder

LEMMA BoundedStep == TypeOK /\ Position /\ Bounded /\ [Next]_vars => Bounded'
<1> SUFFICES ASSUME TypeOK, Position, Bounded, [Next]_vars PROVE Bounded'
  OBVIOUS
<1> USE DEF log, toolState, InTools, Working
<1>1. /\ turn \in Nat /\ Len(boundaries) \in Nat /\ MaxTurns \in Nat \ {0}
      /\ InOrder /\ MaxTurns - 1 \in Nat
  BY AgentAssumption, LenProperties DEF TypeOK, Bounded
<1>2. boundaries' = boundaries => InOrder'
  BY <1>1 DEF InOrder
<1>3. CASE ToolCall \/ Cancel \/ UNCHANGED vars
  <2>1. CASE Judged
    BY <1>2, <2>1 DEF Judged, Bounded
  <2>2. CASE Told
    BY <1>2, <2>2 DEF Told, Answer, Bounded
  <2>3. CASE Idle
    BY <1>2, <2>3 DEF Idle, Bounded
  <2> QED BY <1>3, <2>1, <2>2, <2>3, ToolStep
<1>4. CASE BeginTurn
  <2>1. Len(boundaries) = 2 * turn /\ phase' = "provider" /\ turn' = turn
    BY <1>4 DEF BeginTurn, Bounded
  <2>2. Len(boundaries') = Len(boundaries) + 1 /\ InOrder'
    <3>1. PICK written \in Writes : boundaries' = Marked("start", turn, written)
      BY <1>4 DEF BeginTurn
    <3> QED BY <1>1, <2>1, <3>1, MarksGrow
  <2> QED BY <1>1, <2>1, <2>2 DEF Bounded
<1>5. CASE CancelledChunk \/ ProviderFails
  BY <1>2, <1>5 DEF CancelledChunk, ProviderFails, Fail, Bounded
<1>6. CASE EndTurn
  <2>1. Len(boundaries) = 2 * turn + 1 /\ turn < MaxTurns /\ turn' = turn + 1 /\ phase' = "turn"
    BY <1>6 DEF EndTurn, Bounded, Position
  <2>2. CASE turn < MaxTurns - 1
    <3>1. PICK written \in Writes : boundaries' = Marked("end", turn, written)
      BY <1>6, <2>2 DEF EndTurn, Closed
    <3>2. Len(boundaries') = Len(boundaries) + 1 /\ InOrder'
      BY <1>1, <2>1, <3>1, MarksGrow
    <3> QED BY <1>1, <2>1, <2>2, <3>2 DEF Bounded
  <2>3. CASE ~(turn < MaxTurns - 1)
    <3>1. boundaries' = boundaries /\ turn + 1 = MaxTurns
      BY <1>1, <1>6, <2>1, <2>3 DEF EndTurn, Closed
    <3> QED BY <1>1, <1>2, <2>1, <3>1, SMTT(60) DEF Bounded
  <2> QED BY <2>2, <2>3
<1>7. CASE MaxTurnsReached
  <2>1. Len(boundaries) = 2 * (MaxTurns - 1) + 1 /\ phase' = "ended"
    BY <1>1, <1>7 DEF MaxTurnsReached, Bounded
  <2>2. Len(boundaries') = Len(boundaries) + 1 /\ InOrder'
    <3>1. PICK written \in Writes : boundaries' = Marked("end", MaxTurns - 1, written)
      BY <1>7 DEF MaxTurnsReached
    <3> QED BY <1>1, <2>1, <3>1, MarksGrow
  <2>3. Len(boundaries') = 2 * (MaxTurns - 1) + 2
    BY <1>1, <2>1, <2>2
  <2> QED BY <1>1, <2>1, <2>2, <2>3, Marks DEF Bounded
<1>8. CASE CloseTurn
  <2>1. Len(boundaries) = 2 * turn + 1 /\ phase' = "ended"
    BY <1>8 DEF CloseTurn, Bounded
  <2>2. Len(boundaries') = Len(boundaries) + 1 /\ InOrder'
    <3>1. PICK written \in Writes : boundaries' = Marked("end", turn, written)
      BY <1>8 DEF CloseTurn
    <3> QED BY <1>1, <2>1, <3>1, MarksGrow
  <2>3. Len(boundaries') = 2 * turn + 2
    BY <1>1, <2>1, <2>2
  <2> QED BY <1>1, <2>1, <2>2, <2>3, Marks DEF Bounded
<1>9. CASE ProviderStarts \/ ProviderCalls \/ ProviderCallEnds \/ ProviderUsage
  BY <1>2, <1>9 DEF ProviderStarts, ProviderCalls, ProviderCallEnds, ProviderUsage, Bounded
<1>10. CASE ProviderEnds
  <2>1. CASE FinalReply(turnUsages')
    BY <1>2, <1>10, <2>1 DEF ProviderEnds, FinalReply, Bounded
  <2>2. CASE ToTools
    BY <1>2, <1>10, <2>2 DEF ToTools, ProviderEnds, Bounded
  <2> QED BY <1>10, <2>1, <2>2, EndSteps
<1> QED BY <1>3, <1>4, <1>5, <1>6, <1>7, <1>8, <1>9, <1>10 DEF Next, Loop, Provider


-----------------------------------------------------------------------------
\* Where the loop is, and what it has emitted: a call of this provider turn is
\* in the stream if the provider has made it, and is closed unless it is open.
OfCall(n) == stream[n].type \in {"tool-start", "tool-end"}
Streamed ==
    /\ ~Over => ~Contract!Ended
    /\ stream = <<>> => turn = 0 /\ (phase = "turn" \/ (phase = "provider" /\ ~reply.started))
    /\ \A n \in DOMAIN stream : OfCall(n) =>
          /\ stream[n].id[1] <= turn
          /\ phase = "turn" => stream[n].id[1] < turn
          /\ phase = "provider" /\ stream[n].id[1] = turn =>
                /\ stream[n].id[2] <= Len(reply.calls)
                /\ stream[n].type = "tool-end" /\ reply.open => stream[n].id[2] < Len(reply.calls)
    /\ phase = "provider" /\ reply.open =>
          Contract!Emitted("tool-start", <<turn, Len(reply.calls)>>)

LEMMA EmitOne ==
    ASSUME TypeOK, NEW c \in RunChunks, stream' = Append(stream, c)
    PROVE  /\ stream' # <<>> /\ DOMAIN stream' = DOMAIN stream \cup {Len(stream) + 1}
           /\ stream'[Len(stream) + 1] = c /\ Len(stream) \in Nat
           /\ \A n \in DOMAIN stream : n \in 1 .. Len(stream) /\ stream'[n] = stream[n]
           /\ Contract!Ended' <=> Contract!Ended \/ Contract!Terminal(c)
           /\ \A t, i : Contract!Emitted(t, i) => Contract!Emitted(t, i)'
           /\ Contract!Emitted(c.type, c.id)'
<1>1. /\ stream' # <<>> /\ DOMAIN stream' = DOMAIN stream \cup {Len(stream) + 1}
      /\ stream'[Len(stream) + 1] = c /\ Len(stream) \in Nat
      /\ \A n \in DOMAIN stream : n \in 1 .. Len(stream) /\ stream'[n] = stream[n]
  BY Appended DEF TypeOK
<1>2. Contract!Ended' <=> Contract!Ended \/ Contract!Terminal(c)
  BY <1>1 DEF Contract!Ended, Contract!Terminal
<1>3. \A t, i : Contract!Emitted(t, i) => Contract!Emitted(t, i)'
  BY <1>1 DEF Contract!Emitted
<1>4. Contract!Emitted(c.type, c.id)'
  BY <1>1 DEF Contract!Emitted
<1> QED BY <1>1, <1>2, <1>3, <1>4

LEMMA ChunkFields == \A t, id : Chunk(t, id).type = t /\ Chunk(t, id).id = id /\ Plain(t).type = t
  BY DEF Chunk, Plain

\* What each step emits is legal.
LEMMA EmitStep ==
    ASSUME TypeOK, Position, Streamed, [Next]_vars
    PROVE  Contract!Emit \/ stream' = stream
<1> USE DEF log, toolState
<1>1. ASSUME NEW c \in RunChunks, stream' = Append(stream, c), ~Over,
             c.type \notin {"run-start", "tool-start", "tool-end"}, stream # <<>> \/ c.type = "error"
      PROVE  Contract!Emit
  BY <1>1 DEF Contract!Emit, Contract!Legal, Streamed
<1>2. ASSUME Fail, ~Over PROVE Contract!Emit
  BY <1>1, <1>2, ChunksOfTheRun, ChunkFields DEF Fail
<1>3. CASE ToolCall \/ Cancel \/ UNCHANGED vars
  <2>1. CASE Told
    <3>1. stream' = Append(stream, Chunk("tool-result", calls[answered + 1]))
             /\ calls[answered + 1] \in CallIds
      BY <2>1, AnswerTypes DEF Told
    <3>2. stream # <<>> /\ ~Over
      BY <2>1 DEF Told, Streamed, Working, Over, Finished
    <3> QED BY <1>1, <3>1, <3>2, ChunksOfTheRun, ChunkFields
  <2> QED BY <1>3, <2>1, ToolStep DEF Judged, Idle
<1>4. CASE BeginTurn \/ EndTurn \/ CloseTurn
  BY <1>4 DEF BeginTurn, EndTurn, CloseTurn
<1>5. CASE CancelledChunk \/ ProviderFails
  BY <1>2, <1>5 DEF CancelledChunk, ProviderFails, Over, Finished
<1>6. CASE MaxTurnsReached
  <2>1. stream # <<>> /\ ~Over
    BY <1>6, AgentAssumption DEF MaxTurnsReached, Streamed, Over, Finished
  <2> QED BY <1>1, <1>6, <2>1, ChunksOfTheRun, ChunkFields DEF MaxTurnsReached
<1>7. CASE ProviderStarts
  <2>1. ~Over
    BY <1>7 DEF ProviderStarts, Over, Finished
  <2>2. CASE stream = <<>> /\ stream' = Append(stream, Plain("run-start"))
    BY <2>1, <2>2, ChunksOfTheRun, ChunkFields DEF Contract!Emit, Contract!Legal, Streamed
  <2>3. CASE stream # <<>> /\ stream' = Append(stream, Plain("session-init"))
    BY <1>1, <2>1, <2>3, ChunksOfTheRun, ChunkFields
  <2> QED BY <1>7, <2>2, <2>3, ReplySteps
<1>8. CASE ProviderCalls
  <2> DEFINE id == <<turn, Len(reply.calls) + 1>>
  <2>1. /\ id \in CallIds /\ stream' = Append(stream, Chunk("tool-start", id))
        /\ phase = "provider" /\ stream # <<>> /\ ~Contract!Ended
    BY <1>8, ReplySteps DEF ProviderCalls, Streamed, Over, Finished
  <2>2. id[1] = turn /\ id[2] = Len(reply.calls) + 1 /\ Len(reply.calls) \in Nat
    BY LenProperties DEF TypeOK, Replies
  <2> HIDE DEF id
  <2>3. ~Contract!Emitted("tool-start", id)
    BY <2>1, <2>2 DEF Contract!Emitted, Streamed, OfCall
  <2> QED BY <2>1, <2>3, ChunksOfTheRun, ChunkFields DEF Contract!Emit, Contract!Legal
<1>9. CASE ProviderCallEnds
  <2>1. PICK id \in CallIds :
           /\ id = reply.calls[Len(reply.calls)] /\ stream' = Append(stream, Chunk("tool-end", id))
    BY <1>9, ReplySteps
  <2>2. phase = "provider" /\ reply.open /\ Len(reply.calls) \in 1 .. Len(reply.calls)
    BY <1>9, ReplySteps DEF ProviderCallEnds
  <2>3. id = <<turn, Len(reply.calls)>> /\ id[1] = turn /\ id[2] = Len(reply.calls)
    BY <2>1, <2>2 DEF Position
  <2>4. Contract!Emitted("tool-start", id) /\ ~Contract!Ended /\ stream # <<>>
    BY <2>2, <2>3, <1>9 DEF Streamed, Over, Finished, Contract!Emitted
  <2>5. ~Contract!Emitted("tool-end", id)
    BY <2>2, <2>3 DEF Contract!Emitted, Streamed, OfCall
  <2> QED BY <2>1, <2>4, <2>5, ChunksOfTheRun, ChunkFields DEF Contract!Emit, Contract!Legal
<1>10. CASE ProviderUsage
  BY <1>10 DEF ProviderUsage
<1>11. CASE ProviderEnds
  <2>1. CASE FinalReply(turnUsages')
    <3>1. stream # <<>> /\ ~Over
      BY <1>11 DEF ProviderEnds, Streamed, Over, Finished
    <3> QED BY <1>1, <2>1, <3>1, ChunksOfTheRun, ChunkFields DEF FinalReply
  <2>2. CASE ToTools
    BY <2>2 DEF ToTools
  <2> QED BY <1>11, <2>1, <2>2, EndSteps
<1> QED BY <1>3, <1>4, <1>5, <1>6, <1>7, <1>8, <1>9, <1>10, <1>11 DEF Next, Loop, Provider


LEMMA StreamedStep == TypeOK /\ Position /\ Streamed /\ [Next]_vars => Streamed'
<1> SUFFICES ASSUME TypeOK, Position, Streamed, [Next]_vars PROVE Streamed'
  OBVIOUS
<1> USE DEF log, toolState
<1>1. turn \in 0 .. MaxTurns /\ MaxTurns \in Nat
  BY AgentAssumption DEF TypeOK
<1>2. \A n \in DOMAIN stream : OfCall(n) => stream[n].id \in CallIds
  BY ChunksOfTheRun, LenProperties, ElementOfSeq DEF OfCall, TypeOK
<1>3. ASSUME stream' = stream, turn' \in Nat, turn <= turn', ~Over, stream # <<>>,
             phase' # "provider", phase' = "turn" => turn < turn'
      PROVE  Streamed'
  <2>1. Contract!Ended' = Contract!Ended
    BY <1>3 DEF Contract!Ended, Contract!Terminal
  <2>2. \A n \in DOMAIN stream : OfCall(n) => stream[n].id[1] \in Nat
    BY <1>1, <1>2, CallIdParts
  <2> QED BY <1>1, <1>3, <2>1, <2>2 DEF Streamed, Over, Finished, OfCall
\* A chunk that is no call, while the turn stays.
<1>4. ASSUME NEW c \in RunChunks, stream' = Append(stream, c), turn' = turn, ~Over,
             c.type \notin {"tool-start", "tool-end"}, Contract!Terminal(c) => Over',
             phase' = "turn" => phase = "turn",
             phase' = "provider" => phase = "provider" /\ reply'.calls = reply.calls
                                       /\ reply'.open = reply.open
      PROVE  Streamed'
  <2>1. ~Over' => ~Contract!Ended'
    BY <1>4, EmitOne DEF Streamed
  <2>2. stream' # <<>>
    BY <1>4, EmitOne
  <2>3. \A n \in DOMAIN stream' : OfCall(n)' => n \in DOMAIN stream /\ stream'[n] = stream[n] /\ OfCall(n)
    BY <1>4, EmitOne DEF OfCall
  <2>4. \A n \in DOMAIN stream' : OfCall(n)' =>
          /\ stream'[n].id[1] <= turn'
          /\ phase' = "turn" => stream'[n].id[1] < turn'
          /\ phase' = "provider" /\ stream'[n].id[1] = turn' =>
                /\ stream'[n].id[2] <= Len(reply'.calls)
                /\ stream'[n].type = "tool-end" /\ reply'.open => stream'[n].id[2] < Len(reply'.calls)
    BY <1>4, <2>3 DEF Streamed
  <2>5. (phase = "provider" /\ reply.open =>
            Contract!Emitted("tool-start", <<turn, Len(reply.calls)>>))'
    <3>1. PICK id : id = <<turn, Len(reply.calls)>>
      OBVIOUS
    <3>2. phase' = "provider" => id = <<turn', Len(reply'.calls)>>
      BY <1>4, <3>1
    <3>3. phase' = "provider" /\ reply'.open => Contract!Emitted("tool-start", id)'
      BY <1>4, <3>1, EmitOne DEF Streamed
    <3> QED BY <3>2, <3>3
  <2> QED BY <2>1, <2>2, <2>4, <2>5 DEF Streamed
<1>5. ASSUME Fail, ~Over, turn' = turn PROVE Streamed'
  BY <1>4, <1>5, ChunksOfTheRun, ChunkFields DEF Fail, Over, Finished
<1>6. CASE ToolCall \/ Cancel \/ UNCHANGED vars
  <2>1. CASE Judged
    BY <1>1, <1>3, <2>1 DEF Judged, Streamed, Working, InTools, Over, Finished
  <2>2. CASE Told
    <3>1. stream' = Append(stream, Chunk("tool-result", calls[answered + 1]))
             /\ calls[answered + 1] \in CallIds /\ phase' = "tools" /\ turn' = turn /\ ~Over
      BY <2>2, AnswerTypes DEF Told, Working, Over, Finished
    <3> QED BY <1>4, <3>1, ChunksOfTheRun, ChunkFields DEF Contract!Terminal
  <2>3. CASE Idle
    BY <2>3 DEF Idle, Streamed, OfCall, Over, Finished, Contract!Emitted, Contract!Ended, Contract!Terminal
  <2> QED BY <1>6, <2>1, <2>2, <2>3, ToolStep
<1>7. CASE BeginTurn
  <2>1. /\ stream' = stream /\ phase = "turn" /\ phase' = "provider" /\ turn' = turn
        /\ reply'.started = FALSE /\ reply'.open = FALSE
    BY <1>7 DEF BeginTurn, NoReply
  <2>2. Contract!Ended' = Contract!Ended
    BY <2>1 DEF Contract!Ended, Contract!Terminal
  <2>3. \A n \in DOMAIN stream : OfCall(n) => stream[n].id[1] < turn
    BY <2>1 DEF Streamed
  <2>4. \A n \in DOMAIN stream : OfCall(n) => stream[n].id[1] \in Nat
    BY <1>1, <1>2, CallIdParts
  <2> QED BY <1>1, <2>1, <2>2, <2>3, <2>4 DEF Streamed, Over, Finished, OfCall
<1>8. CASE CancelledChunk \/ ProviderFails
  BY <1>5, <1>8 DEF CancelledChunk, ProviderFails, Over, Finished
<1>9. CASE EndTurn
  <2>1. stream # <<>> /\ ~Over
    BY <1>9 DEF EndTurn, Streamed, Over, Finished
  <2> QED BY <1>1, <1>3, <1>9, <2>1 DEF EndTurn
<1>10. CASE MaxTurnsReached
  BY <1>4, <1>10, ChunksOfTheRun, ChunkFields DEF MaxTurnsReached, Over, Finished
<1>11. CASE ProviderStarts
  <2>1. /\ phase = "provider" /\ phase' = phase /\ turn' = turn
        /\ reply'.calls = reply.calls /\ reply'.open = reply.open
    BY <1>11, ReplySteps DEF ProviderStarts
  <2>2. CASE stream' = stream /\ stream # <<>>
    BY <2>1, <2>2 DEF Streamed, OfCall, Over, Finished, Contract!Emitted, Contract!Ended, Contract!Terminal
  <2>3. CASE \/ stream' = Append(stream, Plain("run-start"))
             \/ stream' = Append(stream, Plain("session-init"))
    BY <1>4, <2>1, <2>3, ChunksOfTheRun, ChunkFields DEF Over, Finished, Contract!Terminal
  <2> QED BY <1>11, <2>2, <2>3, ReplySteps
<1>12. CASE ProviderCalls
  <2> DEFINE n == Len(reply.calls)
  <2>1. PICK id \in CallIds :
           /\ id = <<turn, n + 1>> /\ stream' = Append(stream, Chunk("tool-start", id))
           /\ reply'.calls = Append(reply.calls, id) /\ reply'.open
    BY <1>12, ReplySteps
  <2>2. phase = "provider" /\ phase' = "provider" /\ turn' = turn /\ ~reply.open
    BY <1>12 DEF ProviderCalls
  <2>3. id[1] = turn /\ id[2] = n + 1 /\ n \in Nat /\ Len(reply'.calls) = n + 1
    BY <2>1, AppendProperties, LenProperties DEF TypeOK, Replies
  <2> HIDE DEF n
  <2>4. PICK c \in RunChunks : c = Chunk("tool-start", id) /\ c.type = "tool-start" /\ c.id = id
    BY ChunksOfTheRun, ChunkFields
  <2>5. stream' # <<>> /\ ~Contract!Ended' /\ Contract!Emitted("tool-start", id)'
    BY <2>1, <2>2, <2>4, EmitOne DEF Streamed, Over, Finished, Contract!Terminal
  <2>6. ASSUME NEW m \in DOMAIN stream', OfCall(m)'
        PROVE  /\ stream'[m].id[1] <= turn
               /\ stream'[m].id[1] = turn =>
                     /\ stream'[m].id[2] <= n + 1
                     /\ stream'[m].type = "tool-end" => stream'[m].id[2] < n + 1
    <3>1. CASE m = Len(stream) + 1
      <4>1. stream'[m].id = id /\ stream'[m].type = "tool-start"
        BY <2>1, <2>4, <3>1, EmitOne
      <4> QED BY <1>1, <2>3, <4>1
    <3>2. CASE m \in DOMAIN stream
      <4>1. stream'[m] = stream[m] /\ OfCall(m)
        BY <2>1, <2>4, <2>6, <3>2, EmitOne DEF OfCall
      <4>2. stream[m].id[2] \in Nat
        BY <1>2, <3>2, <4>1, CallIdParts, AgentAssumption
      <4> QED BY <2>2, <2>3, <3>2, <4>1, <4>2 DEF Streamed, n
    <3> QED BY <2>1, <2>4, <3>1, <3>2, EmitOne
  <2>7. id = <<turn', Len(reply'.calls)>>
    BY <2>1, <2>2, <2>3
  <2> QED BY <2>1, <2>2, <2>3, <2>5, <2>6, <2>7 DEF Streamed
<1>13. CASE ProviderCallEnds
  <2> DEFINE n == Len(reply.calls)
  <2>1. PICK id \in CallIds :
           /\ id = reply.calls[n] /\ stream' = Append(stream, Chunk("tool-end", id))
           /\ reply'.calls = reply.calls /\ ~reply'.open /\ n \in 1 .. n
    BY <1>13, ReplySteps
  <2>2. phase = "provider" /\ phase' = "provider" /\ turn' = turn
    BY <1>13 DEF ProviderCallEnds
  <2>3. id[1] = turn /\ id[2] = n /\ Len(reply'.calls) = n
    BY <2>1, <2>2 DEF Position
  <2> HIDE DEF n
  <2>4. PICK c \in RunChunks : c = Chunk("tool-end", id) /\ c.type = "tool-end" /\ c.id = id
    BY ChunksOfTheRun, ChunkFields
  <2>5. stream' # <<>> /\ ~Contract!Ended'
    BY <2>1, <2>2, <2>4, EmitOne DEF Streamed, Over, Finished, Contract!Terminal
  <2>6. ASSUME NEW m \in DOMAIN stream', OfCall(m)'
        PROVE  stream'[m].id[1] <= turn /\ (stream'[m].id[1] = turn => stream'[m].id[2] <= n)
    <3>1. CASE m = Len(stream) + 1
      BY <1>1, <2>1, <2>3, <2>4, <3>1, EmitOne
    <3>2. CASE m \in DOMAIN stream
      <4>1. stream'[m] = stream[m] /\ OfCall(m)
        BY <2>1, <2>4, <2>6, <3>2, EmitOne DEF OfCall
      <4> QED BY <2>2, <3>2, <4>1 DEF Streamed, n
    <3> QED BY <2>1, <2>4, <3>1, <3>2, EmitOne
  <2> QED BY <2>1, <2>2, <2>3, <2>5, <2>6 DEF Streamed
<1>14. CASE ProviderUsage
  <2>1. /\ phase = "provider" /\ phase' = phase /\ turn' = turn /\ stream' = stream /\ reply.started
        /\ reply'.calls = reply.calls /\ reply'.open = reply.open /\ reply'.started
    BY <1>14, ReplySteps DEF ProviderUsage
  <2> QED BY <2>1 DEF Streamed, OfCall, Over, Finished, Contract!Emitted, Contract!Ended, Contract!Terminal
<1>15. CASE ProviderEnds
  <2>1. CASE FinalReply(turnUsages')
    <3>1. turn' = turn /\ ~Over
      BY <1>15 DEF ProviderEnds, Over, Finished
    <3> QED BY <1>4, <2>1, <3>1, ChunksOfTheRun, ChunkFields DEF FinalReply, Over, Finished
  <2>2. CASE ToTools
    <3>1. stream # <<>> /\ ~Over /\ turn' = turn
      BY <1>15 DEF ProviderEnds, Streamed, Over, Finished
    <3> QED BY <1>1, <1>3, <2>2, <3>1 DEF ToTools
  <2> QED BY <1>15, <2>1, <2>2, EndSteps
<1>16. CASE CloseTurn
  <2>1. stream' = stream /\ turn' = turn /\ stream # <<>> /\ phase = "closing" /\ phase' = "ended"
    BY <1>16 DEF CloseTurn, Streamed
  <2>2. \A n \in DOMAIN stream : OfCall(n)' => OfCall(n) /\ stream'[n] = stream[n]
    BY <2>1 DEF OfCall
  <2> QED BY <2>1, <2>2 DEF Streamed, Over, Finished
<1> QED
  BY <1>6, <1>7, <1>8, <1>9, <1>10, <1>11, <1>12, <1>13, <1>14, <1>15, <1>16 DEF Next, Loop, Provider


-----------------------------------------------------------------------------
\* The history: answers in the stream and in the exchange, both in the order of
\* the calls; those of the turn at hand are in the stream only.
Before(a, b) == a[1] < b[1] \/ (a[1] = b[1] /\ a[2] < b[2])

Followed == \A i \in DOMAIN exchange : exchange[i].role = "assistant" =>
              \A k \in DOMAIN exchange[i].ids :
                 i + k \in DOMAIN exchange /\ exchange[i + k] = ToolMessage(exchange[i].ids[k])

Remembered ==
    /\ \A i, j \in Said : i < j => Before(exchange[i].ids[1], exchange[j].ids[1])
    /\ \A m, n \in Shown : m < n => Before(stream[m].id, stream[n].id)
    /\ \A i \in Said : exchange[i].ids[1][1] < turn /\ \E n \in Shown : Answers(i, n)
    /\ phase # "failed" => \A n \in Shown :
          \/ stream[n].id[1] < turn /\ \E i \in Said : Answers(i, n)
          \/ phase \in InTools /\ \E k \in 1 .. answered : stream[n].id = calls[k]
    /\ phase \in InTools => \A k \in 1 .. answered : \E n \in Shown : stream[n].id = calls[k]
    /\ Followed
    /\ Finished /\ Said # {} => Last(exchange) = Assistant(<<>>)

\* Two answers in one order are the same answers.
LEMMA BeforeIsStrict ==
    ASSUME NEW a \in CallIds, NEW b \in CallIds
    PROVE  /\ ~Before(a, a) /\ ~(Before(a, b) /\ Before(b, a))
  BY CallIdParts, AgentAssumption DEF Before

LEMMA ShownSame ==
    ASSUME TypeOK,
           \/ stream' = stream
           \/ \E c \in RunChunks : c.type # "tool-result" /\ stream' = Append(stream, c)
    PROVE  Shown' = Shown /\ \A n \in Shown : stream'[n] = stream[n]
<1>1. CASE stream' = stream
  BY <1>1 DEF Shown
<1>2. ASSUME NEW c \in RunChunks, c.type # "tool-result", stream' = Append(stream, c)
      PROVE  Shown' = Shown /\ \A n \in Shown : stream'[n] = stream[n]
  BY <1>2, EmitOne DEF Shown
<1> QED BY <1>1, <1>2

LEMMA MessageFields ==
    /\ \A id : ToolMessage(id).role = "tool" /\ ToolMessage(id).ids[1] = id
    /\ \A ids : Assistant(ids).role = "assistant" /\ Assistant(ids).ids = ids
    /\ \A i \in Said : exchange[i].role = "tool"
  BY DEF ToolMessage, Assistant, Said

\* What was said stays said when messages are added.
LEMMA SaidStays ==
    ASSUME TypeOK, Remembered, turn' >= turn, turn' \in Nat,
           \A i \in DOMAIN exchange : i \in DOMAIN exchange' /\ exchange'[i] = exchange[i],
           \A n \in Shown : n \in Shown' /\ stream'[n] = stream[n]
    PROVE  /\ \A i \in Said : i \in Said' /\ exchange'[i] = exchange[i]
           /\ \A i \in Said, n \in Shown : Answers(i, n) => Answers(i, n)'
  BY DEF Said, Answers, Shown

LEMMA Silent ==
    ASSUME TypeOK, Remembered, exchange' = exchange, turn' = turn,
           \/ stream' = stream
           \/ \E c \in RunChunks : c.type # "tool-result" /\ stream' = Append(stream, c),
           Finished' => Finished, phase = "failed" => phase' = "failed",
           phase' \in InTools => \/ phase \notin InTools /\ answered' = 0
                                 \/ phase \in InTools /\ calls' = calls /\ answered' = answered,
           phase \in InTools => phase' \in InTools \cup {"failed"}
    PROVE  Remembered'
<1>1. Shown' = Shown /\ \A n \in Shown : stream'[n] = stream[n]
  BY ShownSame
<1>2. Said' = Said /\ \A i \in Said : exchange'[i] = exchange[i]
  BY DEF Said
<1>3. \A i \in Said, n \in Shown : Answers(i, n) <=> Answers(i, n)'
  BY <1>1, <1>2 DEF Answers
<1>4. (\A i, j \in Said : i < j => Before(exchange[i].ids[1], exchange[j].ids[1]))'
  BY <1>2 DEF Remembered
<1>5. (\A m, n \in Shown : m < n => Before(stream[m].id, stream[n].id))'
  BY <1>1 DEF Remembered
<1>6. (\A i \in Said : exchange[i].ids[1][1] < turn /\ \E n \in Shown : Answers(i, n))'
  BY <1>1, <1>2, <1>3 DEF Remembered
<1>7. (phase # "failed" => \A n \in Shown :
          \/ stream[n].id[1] < turn /\ \E i \in Said : Answers(i, n)
          \/ phase \in InTools /\ \E k \in 1 .. answered : stream[n].id = calls[k])'
  BY <1>1, <1>2, <1>3 DEF Remembered
<1>8. (phase \in InTools => \A k \in 1 .. answered : \E n \in Shown : stream[n].id = calls[k])'
  BY <1>1 DEF Remembered
<1>9. Followed'
  BY DEF Remembered, Followed, ToolMessage
<1>10. (Finished /\ Said # {} => Last(exchange) = Assistant(<<>>))'
  BY <1>2 DEF Remembered, Last
<1> QED BY <1>4, <1>5, <1>6, <1>7, <1>8, <1>9, <1>10 DEF Remembered


\* A call is answered in the stream.
LEMMA ToldRemembered ==
    ASSUME TypeOK, Position, Remembered, Told
    PROVE  Remembered'
<1>1. PICK id \in CallIds : id = calls[answered + 1]
  BY AnswerTypes DEF Told
<1>2. id = <<turn, answered + 1>> /\ id[1] = turn /\ id[2] = answered + 1
  BY <1>1 DEF Told, Position, InTools, TypeOK
<1>3. PICK c \in RunChunks : c = Chunk("tool-result", id) /\ c.type = "tool-result" /\ c.id = id
  BY ChunksOfTheRun, ChunkFields
<1>4. /\ stream' = Append(stream, c) /\ answered' = answered + 1 /\ phase' = "tools"
      /\ turn' = turn /\ calls' = calls /\ exchange' = exchange /\ phase \in InTools
  BY <1>1, <1>3 DEF Told, Answer, InTools, log
<1> DEFINE new == Len(stream) + 1
<1>5. /\ Shown' = Shown \cup {new} /\ stream'[new] = c /\ new \notin Shown
      /\ \A n \in Shown : stream'[n] = stream[n] /\ n < new
  BY <1>3, <1>4, EmitOne DEF Shown
<1>6. Said' = Said /\ \A i \in Said : exchange'[i] = exchange[i]
  BY <1>4 DEF Said
<1>7. \A i \in Said, n \in Shown : Answers(i, n) <=> Answers(i, n)'
  BY <1>5, <1>6 DEF Answers
<1> HIDE DEF new
<1>8. \A n \in Shown : Before(stream[n].id, id)
  <2>1. SUFFICES ASSUME NEW n \in Shown PROVE Before(stream[n].id, id)
    OBVIOUS
  <2>2. CASE stream[n].id[1] < turn
    BY <1>2, <2>2 DEF Before
  <2>3. CASE \E k \in 1 .. answered : stream[n].id = calls[k]
    <3>1. PICK k \in 1 .. answered : stream[n].id = calls[k]
      BY <2>3
    <3>2. calls[k] = <<turn, k>> /\ k < answered + 1
      BY <1>4 DEF Position, TypeOK
    <3> QED BY <1>2, <3>1, <3>2 DEF Before
  <2> QED BY <1>4, <2>2, <2>3 DEF Remembered, Told, Working
<1>9. (\A i, j \in Said : i < j => Before(exchange[i].ids[1], exchange[j].ids[1]))'
  BY <1>6 DEF Remembered
<1>10. (\A m, n \in Shown : m < n => Before(stream[m].id, stream[n].id))'
  <2>1. ASSUME NEW m \in Shown', NEW n \in Shown', m < n
        PROVE  Before(stream'[m].id, stream'[n].id)
    <3>1. CASE n = new
      <4>1. m \in Shown /\ stream'[m] = stream[m]
        <5>1. m # new
          <6>1. new \in Nat
            BY DEF new, TypeOK
          <6> QED BY <2>1, <3>1, <6>1
        <5> QED BY <1>5, <2>1, <5>1
      <4>2. stream'[n].id = id
        BY <1>3, <1>5, <3>1
      <4> QED BY <1>8, <4>1, <4>2
    <3>2. CASE n # new
      <4>1. m # new
        BY <1>5, <2>1, <3>2 DEF new, Shown, TypeOK
      <4> QED BY <1>5, <2>1, <3>2, <4>1 DEF Remembered
    <3> QED BY <3>1, <3>2
  <2> QED BY <2>1
<1>11. (\A i \in Said : exchange[i].ids[1][1] < turn /\ \E n \in Shown : Answers(i, n))'
  BY <1>4, <1>5, <1>6, <1>7 DEF Remembered
<1>12. \A k \in 1 .. answered' : k \in 1 .. answered \/ k = answered + 1
  BY <1>4 DEF TypeOK
<1>13. \A k \in 1 .. answered : k \in 1 .. answered'
  BY <1>4 DEF TypeOK
<1>14. answered + 1 \in 1 .. answered'
  BY <1>4 DEF TypeOK
<1>15. (phase # "failed" => \A n \in Shown :
          \/ stream[n].id[1] < turn /\ \E i \in Said : Answers(i, n)
          \/ phase \in InTools /\ \E k \in 1 .. answered : stream[n].id = calls[k])'
  <2>1. ASSUME NEW n \in Shown
        PROVE  \/ stream'[n].id[1] < turn' /\ \E i \in Said' : Answers(i, n)'
               \/ \E k \in 1 .. answered' : stream'[n].id = calls'[k]
    <3>1. \/ stream[n].id[1] < turn /\ \E i \in Said : Answers(i, n)
          \/ \E k \in 1 .. answered : stream[n].id = calls[k]
      BY <1>4 DEF Remembered, Told, Working
    <3>2. CASE stream[n].id[1] < turn /\ \E i \in Said : Answers(i, n)
      BY <1>4, <1>5, <1>6, <1>7, <3>2
    <3>3. CASE \E k \in 1 .. answered : stream[n].id = calls[k]
      BY <1>4, <1>5, <1>13, <3>3
    <3> QED BY <3>1, <3>2, <3>3
  <2>2. stream'[new].id = calls'[answered + 1]
    BY <1>1, <1>3, <1>4, <1>5
  <2>3. phase' \in InTools
    BY <1>4 DEF InTools
  <2> QED BY <1>5, <1>14, <2>1, <2>2, <2>3
<1>16. (phase \in InTools => \A k \in 1 .. answered : \E n \in Shown : stream[n].id = calls[k])'
  <2>1. ASSUME NEW k \in 1 .. answered PROVE \E n \in Shown' : stream'[n].id = calls'[k]
    <3>1. PICK n \in Shown : stream[n].id = calls[k]
      BY <1>4 DEF Remembered
    <3> QED BY <1>4, <1>5, <3>1
  <2>2. stream'[new].id = calls'[answered + 1] /\ new \in Shown'
    BY <1>1, <1>3, <1>4, <1>5
  <2> QED BY <1>12, <2>1, <2>2
<1>17. Followed' /\ ~Finished'
  BY <1>4 DEF Remembered, Followed, ToolMessage, Finished
<1> QED BY <1>9, <1>10, <1>11, <1>15, <1>16, <1>17 DEF Remembered

\* Every call is answered: the turn joins the exchange.
LEMMA GrownIs ==
    ASSUME TypeOK
    PROVE  /\ DOMAIN Grown = 1 .. Len(exchange) + 1 + Len(calls)
           /\ DOMAIN exchange = 1 .. Len(exchange) /\ Len(exchange) \in Nat
           /\ Len(calls) \in Nat /\ DOMAIN calls = 1 .. Len(calls)
           /\ \A i \in DOMAIN exchange : Grown[i] = exchange[i]
           /\ Grown[Len(exchange) + 1] = Assistant(calls)
           /\ \A k \in 1 .. Len(calls) : Grown[Len(exchange) + 1 + k] = ToolMessage(calls[k])
<1> DEFINE talk == [i \in DOMAIN calls |-> ToolMessage(calls[i])]
           base == exchange \o <<Assistant(calls)>>
<1>1. DOMAIN calls = 1 .. Len(calls) /\ Len(calls) \in Nat /\ Len(exchange) \in Nat
         /\ DOMAIN exchange = 1 .. Len(exchange)
  BY LenProperties DEF TypeOK
<1>2. talk \in Seq(Message) /\ Len(talk) = Len(calls) /\ \A k \in 1 .. Len(calls) : talk[k] = ToolMessage(calls[k])
  <2>1. \A i \in 1 .. Len(calls) : ToolMessage(calls[i]) \in Message
    BY ElementOfSeq DEF Message, TypeOK
  <2>2. talk \in [1 .. Len(calls) -> Message]
    BY <1>1, <2>1
  <2>3. talk \in Seq(Message)
    BY <1>1, <2>2, SeqDef
  <2>4. Len(talk) = Len(calls)
    BY <1>1, <2>2, <2>3, LenProperties
  <2> QED BY <1>1, <2>3, <2>4
<1>3. <<Assistant(calls)>> \in Seq(Message) /\ Len(<<Assistant(calls)>>) = 1
         /\ <<Assistant(calls)>>[1] = Assistant(calls)
  <2>1. Assistant(calls) \in Message
    BY DEF Message, Assistant, TypeOK
  <2> QED BY <2>1
<1>4. base \in Seq(Message) /\ Len(base) = Len(exchange) + 1
         /\ \A i \in 1 .. Len(exchange) + 1 :
               base[i] = IF i <= Len(exchange) THEN exchange[i] ELSE <<Assistant(calls)>>[i - Len(exchange)]
  BY <1>3, ConcatProperties DEF TypeOK
<1> HIDE DEF base, talk
<1>5. base \o talk \in Seq(Message) /\ Len(base \o talk) = Len(exchange) + 1 + Len(calls)
         /\ \A i \in 1 .. Len(exchange) + 1 + Len(calls) : (base \o talk)[i] =
               IF i <= Len(exchange) + 1 THEN base[i] ELSE talk[i - (Len(exchange) + 1)]
  <2>1. base \o talk \in Seq(Message) /\ Len(base \o talk) = Len(base) + Len(talk)
           /\ \A i \in 1 .. Len(base) + Len(talk) : (base \o talk)[i] =
                 IF i <= Len(base) THEN base[i] ELSE talk[i - Len(base)]
    <3>1. base \in Seq(Message) /\ talk \in Seq(Message)
      BY <1>2, <1>4
    <3> QED BY <3>1, ConcatProperties
  <2> QED BY <1>2, <1>4, <2>1
<1>6. Grown = base \o talk
  BY DEF Grown, base, talk
<1>7. DOMAIN Grown = 1 .. Len(exchange) + 1 + Len(calls)
  BY <1>5, <1>6, LenProperties
<1>8. \A i \in 1 .. Len(exchange) : Grown[i] = exchange[i]
  BY <1>1, <1>4, <1>5, <1>6
<1>9. Grown[Len(exchange) + 1] = Assistant(calls)
  BY <1>1, <1>3, <1>4, <1>5, <1>6
<1>10. ASSUME NEW k \in 1 .. Len(calls) PROVE Grown[Len(exchange) + 1 + k] = ToolMessage(calls[k])
  <2>1. Len(exchange) + 1 + k \in 1 .. Len(exchange) + 1 + Len(calls)
           /\ ~(Len(exchange) + 1 + k <= Len(exchange) + 1)
           /\ Len(exchange) + 1 + k - (Len(exchange) + 1) = k
    BY <1>1
  <2> QED BY <1>2, <1>5, <1>6, <2>1
<1> QED BY <1>1, <1>7, <1>8, <1>9, <1>10

LEMMA EndTurnRemembered ==
    ASSUME TypeOK, Position, Remembered, EndTurn
    PROVE  Remembered'
<1> DEFINE base == Len(exchange) + 1
           count == Len(calls)
<1>1. /\ phase = "tools" /\ answered = count /\ phase' = "turn" /\ turn' = turn + 1
      /\ stream' = stream /\ calls' = calls /\ answered' = answered /\ exchange' = Grown
      /\ phase \in InTools /\ turn \in Nat /\ count \in Nat /\ base \in Nat
  BY LenProperties, AgentAssumption DEF EndTurn, toolState, InTools, Working, TypeOK
<1>2. /\ DOMAIN exchange' = 1 .. base + count /\ DOMAIN exchange = 1 .. base - 1
      /\ DOMAIN calls = 1 .. count
      /\ \A i \in DOMAIN exchange : exchange'[i] = exchange[i]
      /\ exchange'[base] = Assistant(calls)
      /\ \A k \in 1 .. count : exchange'[base + k] = ToolMessage(calls[k])
  <2>1. Len(exchange) \in Nat /\ base - 1 = Len(exchange)
    BY LenProperties DEF TypeOK
  <2> QED BY <1>1, <2>1, GrownIs
<1> HIDE DEF base, count
<1>3. \A k \in 1 .. count : calls[k] = <<turn, k>> /\ calls[k][1] = turn /\ calls[k][2] = k
  BY <1>1 DEF Position, count
<1>4. \A k \in 1 .. count : /\ base + k \in DOMAIN exchange' /\ base + k > base
                            /\ exchange'[base + k].role = "tool"
                            /\ exchange'[base + k].ids[1] = calls[k]
  BY <1>1, <1>2, MessageFields
<1>5. exchange'[base].role = "assistant"
  BY <1>2, MessageFields
<1>6. ASSUME NEW i \in Said'
      PROVE  \/ i \in Said /\ i < base /\ exchange'[i] = exchange[i]
             \/ \E k \in 1 .. count : i = base + k
  <2>1. i \in 1 .. base + count /\ exchange'[i].role = "tool"
    BY <1>2 DEF Said
  <2>2. CASE i < base
    <3>1. i \in DOMAIN exchange
      BY <1>1, <1>2, <2>1, <2>2
    <3> QED BY <1>2, <2>1, <2>2, <3>1 DEF Said
  <2>3. CASE i > base
    <3>1. i - base \in 1 .. count /\ i = base + (i - base)
      BY <1>1, <2>1, <2>3
    <3> QED BY <3>1
  <2>4. i # base
    BY <1>5, <2>1
  <2> QED BY <1>1, <2>1, <2>2, <2>3, <2>4
<1>7. /\ \A i \in Said : i \in Said' /\ exchange'[i] = exchange[i]
      /\ \A k \in 1 .. count : base + k \in Said'
  <2>1. \A i \in DOMAIN exchange : i \in DOMAIN exchange'
    BY <1>1, <1>2
  <2> QED BY <1>2, <1>4, <2>1 DEF Said
<1>8. Shown' = Shown /\ \A n \in Shown : stream'[n] = stream[n]
  BY <1>1 DEF Shown
<1>9. \A i \in Said : exchange[i].ids[1][1] < turn /\ \E n \in Shown : Answers(i, n)
  BY DEF Remembered
<1>10. (\A i, j \in Said : i < j => Before(exchange[i].ids[1], exchange[j].ids[1]))'
  <2>1. ASSUME NEW i \in Said', NEW j \in Said', i < j
        PROVE  Before(exchange'[i].ids[1], exchange'[j].ids[1])
    <3>1. CASE j \in Said /\ j < base /\ exchange'[j] = exchange[j]
      <4>1. i \in Said /\ exchange'[i] = exchange[i]
        <5>1. ~(\E k \in 1 .. count : i = base + k)
          BY <1>1, <2>1, <3>1 DEF Said, TypeOK
        <5> QED BY <1>6, <2>1, <5>1
      <4> QED BY <2>1, <3>1, <4>1 DEF Remembered
    <3>2. ASSUME NEW k \in 1 .. count, j = base + k
          PROVE  Before(exchange'[i].ids[1], exchange'[j].ids[1])
      <4>1. exchange'[j].ids[1] = calls[k] /\ calls[k][1] = turn /\ calls[k][2] = k
        BY <1>3, <1>4, <3>2
      <4>2. CASE i \in Said /\ exchange'[i] = exchange[i]
        BY <1>9, <4>1, <4>2 DEF Before
      <4>3. ASSUME NEW l \in 1 .. count, i = base + l
            PROVE  Before(exchange'[i].ids[1], exchange'[j].ids[1])
        <5>1. exchange'[i].ids[1] = calls[l] /\ calls[l][1] = turn /\ calls[l][2] = l
          BY <1>3, <1>4, <4>3
        <5>2. l < k
          BY <1>1, <2>1, <3>2, <4>3
        <5> QED BY <4>1, <5>1, <5>2 DEF Before
      <4> QED BY <1>6, <2>1, <4>2, <4>3
    <3> QED BY <1>6, <2>1, <3>1, <3>2
  <2> QED BY <2>1
<1>11. (\A m, n \in Shown : m < n => Before(stream[m].id, stream[n].id))'
  BY <1>8 DEF Remembered
<1>12. (\A i \in Said : exchange[i].ids[1][1] < turn /\ \E n \in Shown : Answers(i, n))'
  <2>1. ASSUME NEW i \in Said'
        PROVE  exchange'[i].ids[1][1] < turn' /\ \E n \in Shown : exchange'[i].ids[1] = stream'[n].id
    <3>1. CASE i \in Said /\ exchange'[i] = exchange[i]
      <4>1. exchange[i].ids[1][1] < turn /\ \E n \in Shown : exchange[i].ids[1] = stream[n].id
        BY <1>9, <3>1 DEF Answers
      <4>2. exchange[i].ids[1][1] \in Nat
        <5>1. exchange[i] \in Message /\ exchange[i].role = "tool"
          BY <3>1, ElementOfSeq, LenProperties DEF Said, TypeOK
        <5>2. PICK id \in CallIds : exchange[i] = ToolMessage(id)
          BY <5>1 DEF Message
        <5>3. exchange[i].ids[1] = id
          BY <5>2, MessageFields
        <5> QED BY <5>3, CallIdParts, AgentAssumption
      <4> QED BY <1>1, <1>8, <3>1, <4>1, <4>2
    <3>2. ASSUME NEW k \in 1 .. count, i = base + k
          PROVE  exchange'[i].ids[1][1] < turn' /\ \E n \in Shown : exchange'[i].ids[1] = stream'[n].id
      <4>1. exchange'[i].ids[1] = calls[k] /\ calls[k][1] = turn
        BY <1>3, <1>4, <3>2
      <4>2. PICK n \in Shown : stream[n].id = calls[k]
        BY <1>1 DEF Remembered
      <4> QED BY <1>1, <1>8, <4>1, <4>2
    <3> QED BY <1>6, <3>1, <3>2
  <2> QED BY <1>8, <2>1 DEF Answers
<1>13. (phase # "failed" => \A n \in Shown :
          \/ stream[n].id[1] < turn /\ \E i \in Said : Answers(i, n)
          \/ phase \in InTools /\ \E k \in 1 .. answered : stream[n].id = calls[k])'
  <2>1. ASSUME NEW n \in Shown
        PROVE  stream[n].id[1] < turn' /\ \E i \in Said' : exchange'[i].ids[1] = stream'[n].id
    <3>1. CASE stream[n].id[1] < turn /\ \E i \in Said : Answers(i, n)
      <4>1. PICK i \in Said : exchange[i].ids[1] = stream[n].id
        BY <3>1 DEF Answers
      <4>2. stream[n].id[1] \in Nat
        <5>1. stream[n] \in RunChunks /\ stream[n].type = "tool-result"
          BY ElementOfSeq, LenProperties DEF Shown, TypeOK
        <5>2. stream[n].id \in CallIds
          BY <5>1, ChunksOfTheRun
        <5> QED BY <5>2, CallIdParts, AgentAssumption
      <4>3. stream[n].id[1] < turn'
        BY <1>1, <3>1, <4>2
      <4>4. i \in Said' /\ exchange'[i].ids[1] = stream'[n].id
        BY <1>7, <1>8, <4>1
      <4> QED BY <4>3, <4>4
    <3>2. CASE \E k \in 1 .. answered : stream[n].id = calls[k]
      <4>1. PICK k \in 1 .. count : stream[n].id = calls[k]
        BY <1>1, <3>2
      <4>2. stream[n].id[1] < turn'
        BY <1>1, <1>3, <4>1
      <4>3. base + k \in Said' /\ exchange'[base + k].ids[1] = stream'[n].id
        BY <1>4, <1>7, <1>8, <4>1
      <4> QED BY <4>2, <4>3
    <3> QED BY <1>1, <3>1, <3>2 DEF Remembered
  <2> QED BY <1>8, <2>1 DEF Answers
<1>14. Followed'
  <2>1. ASSUME NEW i \in DOMAIN exchange', exchange'[i].role = "assistant", NEW k \in DOMAIN exchange'[i].ids
        PROVE  i + k \in DOMAIN exchange' /\ exchange'[i + k] = ToolMessage(exchange'[i].ids[k])
    <3>1. CASE i \in DOMAIN exchange
      <4>1. exchange'[i] = exchange[i]
        BY <1>2, <3>1
      <4>2. i + k \in DOMAIN exchange /\ exchange[i + k] = ToolMessage(exchange[i].ids[k])
        BY <2>1, <3>1, <4>1 DEF Remembered, Followed
      <4> QED BY <1>1, <1>2, <4>1, <4>2
    <3>2. CASE i = base
      <4>1. exchange'[i].ids = calls
        BY <1>2, <3>2, MessageFields
      <4> QED BY <1>2, <1>4, <2>1, <3>2, <4>1
    <3>3. CASE i \notin DOMAIN exchange /\ i # base
      <4>1. i - base \in 1 .. count /\ i = base + (i - base)
        BY <1>1, <1>2, <3>3
      <4> QED BY <1>4, <2>1, <4>1
    <3> QED BY <3>1, <3>2, <3>3
  <2> QED BY <2>1 DEF Followed
<1> QED BY <1>1, <1>10, <1>11, <1>12, <1>13, <1>14 DEF Remembered, Finished, InTools, Working

\* The run ends well: a closing reply, if there is a history to close.
LEMMA ClosingRemembered ==
    ASSUME TypeOK, Remembered, phase \in {"provider", "turn"}, phase' \in {"closing", "ended"}, turn' = turn,
           NEW c \in RunChunks, c.type # "tool-result", stream' = Append(stream, c),
           \/ exchange = <<>> /\ exchange' = exchange
           \/ exchange' = Append(exchange, Assistant(<<>>))
    PROVE  Remembered'
<1>1. Shown' = Shown /\ \A n \in Shown : stream'[n] = stream[n]
  BY ShownSame
<1>2. Assistant(<<>>) \in Message /\ Assistant(<<>>).role = "assistant" /\ Assistant(<<>>).ids = <<>>
  BY EmptySeq, MessageFields DEF Message, Assistant
<1>3. Said' = Said /\ (\A i \in Said : exchange'[i] = exchange[i]) /\ Followed'
         /\ (Said' # {} => Last(exchange') = Assistant(<<>>))
  <2>1. CASE exchange = <<>> /\ exchange' = exchange
    BY <2>1 DEF Said, Followed, Remembered, ToolMessage
  <2>2. CASE exchange' = Append(exchange, Assistant(<<>>))
    <3>1. PICK e \in Message : e = Assistant(<<>>) /\ e.role = "assistant" /\ e.ids = <<>>
      BY <1>2
    <3>2. /\ DOMAIN exchange' = DOMAIN exchange \cup {Len(exchange) + 1}
          /\ exchange'[Len(exchange) + 1] = e /\ Len(exchange') = Len(exchange) + 1
          /\ \A i \in DOMAIN exchange : exchange'[i] = exchange[i]
      BY <2>2, <3>1, Appended DEF TypeOK
    <3>3. Said' = Said /\ \A i \in Said : exchange'[i] = exchange[i]
      BY <3>1, <3>2 DEF Said
    <3>4. Followed'
      BY <3>1, <3>2 DEF Remembered, Followed, ToolMessage
    <3>5. Last(exchange') = Assistant(<<>>)
      BY <3>1, <3>2 DEF Last
    <3> QED BY <3>3, <3>4, <3>5
  <2> QED BY <2>1, <2>2
<1>4. \A i \in Said, n \in Shown : Answers(i, n) <=> Answers(i, n)'
  BY <1>1, <1>3 DEF Answers
<1>5. phase # "failed" /\ phase \notin InTools
  BY DEF InTools, Working
<1>6. (\A i, j \in Said : i < j => Before(exchange[i].ids[1], exchange[j].ids[1]))'
  BY <1>3 DEF Remembered
<1>7. (\A m, n \in Shown : m < n => Before(stream[m].id, stream[n].id))'
  BY <1>1 DEF Remembered
<1>8. (\A i \in Said : exchange[i].ids[1][1] < turn /\ \E n \in Shown : Answers(i, n))'
  BY <1>1, <1>3, <1>4 DEF Remembered
<1>9. (phase # "failed" => \A n \in Shown :
          \/ stream[n].id[1] < turn /\ \E i \in Said : Answers(i, n)
          \/ phase \in InTools /\ \E k \in 1 .. answered : stream[n].id = calls[k])'
  BY <1>1, <1>3, <1>4, <1>5 DEF Remembered
<1>10. phase' \notin InTools
  BY DEF InTools, Working
<1> QED BY <1>3, <1>6, <1>7, <1>8, <1>9, <1>10 DEF Remembered

LEMMA RememberedStep == TypeOK /\ Position /\ Remembered /\ [Next]_vars => Remembered'
<1> SUFFICES ASSUME TypeOK, Position, Remembered, [Next]_vars PROVE Remembered'
  OBVIOUS
<1> USE DEF log, toolState
<1>1. CASE ToolCall \/ Cancel \/ UNCHANGED vars
  <2>1. CASE Judged
    BY <2>1, Silent DEF Judged, Finished, Working, InTools
  <2>2. CASE Told
    BY <2>2, ToldRemembered
  <2>3. CASE Idle
    BY <2>3 DEF Idle, Remembered, Finished, Said, Shown, Answers, Followed, ToolMessage
  <2> QED BY <1>1, <2>1, <2>2, <2>3, ToolStep
<1>2. CASE BeginTurn
  BY <1>2, Silent DEF BeginTurn, InTools, Working, Finished
<1>3. CASE CancelledChunk \/ ProviderFails
  <2>1. /\ Plain("error") \in RunChunks /\ Plain("error").type # "tool-result"
        /\ stream' = Append(stream, Plain("error")) /\ phase' = "failed"
        /\ exchange' = exchange /\ turn' = turn
    BY <1>3, ChunksOfTheRun, ChunkFields DEF CancelledChunk, ProviderFails, Fail
  <2> QED BY <2>1, Silent DEF InTools, Working, Finished
<1>4. CASE EndTurn
  BY <1>4, EndTurnRemembered
<1>5. CASE MaxTurnsReached
  <2>1. Plain("run-end") \in RunChunks /\ Plain("run-end").type # "tool-result"
    BY ChunksOfTheRun, ChunkFields
  <2> QED BY <1>5, <2>1, ClosingRemembered DEF MaxTurnsReached
<1>6. CASE ProviderStarts
  <2>1. \A t \in {"run-start", "session-init"} : Plain(t) \in RunChunks /\ Plain(t).type # "tool-result"
    BY ChunksOfTheRun, ChunkFields
  <2>2. \/ stream' = stream
        \/ \E c \in RunChunks : c.type # "tool-result" /\ stream' = Append(stream, c)
    BY <1>6, <2>1, ReplySteps
  <2> QED BY <1>6, <2>2, Silent DEF ProviderStarts, InTools, Working, Finished
<1>7. CASE ProviderCalls
  <2>1. PICK id \in CallIds : stream' = Append(stream, Chunk("tool-start", id))
    BY <1>7, ReplySteps
  <2>2. Chunk("tool-start", id) \in RunChunks /\ Chunk("tool-start", id).type # "tool-result"
    BY ChunksOfTheRun, ChunkFields
  <2> QED BY <1>7, <2>1, <2>2, Silent DEF ProviderCalls, InTools, Working, Finished
<1>8. CASE ProviderCallEnds
  <2>1. PICK id \in CallIds : stream' = Append(stream, Chunk("tool-end", id))
    BY <1>8, ReplySteps
  <2>2. Chunk("tool-end", id) \in RunChunks /\ Chunk("tool-end", id).type # "tool-result"
    BY ChunksOfTheRun, ChunkFields
  <2> QED BY <1>8, <2>1, <2>2, Silent DEF ProviderCallEnds, InTools, Working, Finished
<1>9. CASE ProviderUsage
  BY <1>9, Silent DEF ProviderUsage, InTools, Working, Finished
<1>10. CASE ProviderEnds
  <2>1. phase = "provider" /\ turn' = turn
    BY <1>10 DEF ProviderEnds
  <2>2. CASE FinalReply(turnUsages')
    <3>1. Plain("run-end") \in RunChunks /\ Plain("run-end").type # "tool-result"
      BY ChunksOfTheRun, ChunkFields
    <3> QED BY <2>1, <2>2, <3>1, ClosingRemembered DEF FinalReply
  <2>3. CASE ToTools
    BY <2>1, <2>3, Silent DEF ToTools, InTools, Working, Finished
  <2> QED BY <1>10, <2>2, <2>3, EndSteps
<1>11. CASE CloseTurn
  BY <1>11, Silent DEF CloseTurn, Finished, InTools, Working
<1> QED BY <1>1, <1>2, <1>3, <1>4, <1>5, <1>6, <1>7, <1>8, <1>9, <1>10, <1>11 DEF Next, Loop, Provider

-----------------------------------------------------------------------------
\* The inductive invariant.
IInv ==
    /\ TypeOK /\ Position
    /\ Judging /\ Cancelling
    /\ Counted /\ Bounded
    /\ Streamed /\ Remembered

LEMMA IInvInit == Init => IInv
<1> SUFFICES ASSUME Init PROVE IInv
  OBVIOUS
<1>1. TypeOK /\ Position
  BY TypeInit
<1>2. Judging /\ Counted
  BY DEF Init, Judging, RunsWhatWasCleared, Counted, UsageAddsUp, Settled, Finished, Over
<1>3. Cancelling
  <2>1. Late = {}
    BY DEF Init, Late
  <2> QED BY <2>1 DEF Init, Cancelling
<1>4. Bounded
  BY AgentAssumption DEF Init, Bounded, InOrder, InTools, Working
<1>5. Streamed
  <2>1. DOMAIN stream = {} /\ ~Contract!Ended
    BY DEF Init, Contract!Ended
  <2> QED BY <2>1 DEF Init, Streamed, Over, Finished
<1>6. Remembered
  <2>1. Said = {} /\ Shown = {} /\ Followed
    BY DEF Init, Said, Shown, Followed
  <2> QED BY <2>1 DEF Init, Remembered, Finished, InTools, Working
<1> QED BY <1>1, <1>2, <1>3, <1>4, <1>5, <1>6 DEF IInv

LEMMA IInvStep == IInv /\ [Next]_vars => IInv'
<1> SUFFICES ASSUME IInv, [Next]_vars PROVE IInv'
  OBVIOUS
<1>1. TypeOK' /\ Position' /\ Judging'
  BY TypeStep, PositionStep, JudgingStep DEF IInv
<1>2. Cancelling' /\ Counted' /\ Bounded'
  BY CancellingStep, CountedStep, BoundedStep DEF IInv
<1>3. Streamed' /\ Remembered'
  BY StreamedStep, RememberedStep DEF IInv
<1> QED BY <1>1, <1>2, <1>3 DEF IInv

LEMMA Inductive == Spec => []IInv
  BY IInvInit, IInvStep, PTL DEF Spec

\* Every variable of the loop has its type, and every reachable state its place
\* among the turns, calls and checks of agentStream.
THEOREM TypeCorrect == Spec => []TypeOK
  BY Inductive, PTL DEF IInv

\* A tool runs with exactly the input the hand-off guard and the permission gate
\* were shown, and writes only when a list, the mode or the user allows it
\* (executeToolCall), whatever the mode, the lists and the wiring of approval.
THEOREM OnlyWhatWasCleared == Spec => []RunsWhatWasCleared
  BY Inductive, PTL DEF IInv, Judging

\* After a cancellation at most the one tool past the signal check starts, and
\* none that needs the user's approval, however many turns and calls there are
\* (executeToolCall, ApprovalBroker.request).
THEOREM CancelHolds == Spec => []CancelStopsTools
<1>1. ASSUME IInv PROVE Cardinality(Late) <= 1 /\ \A i \in Late : ran[i].by # "user"
  <2>1. CASE Late = {}
    <3>1. Cardinality(Late) = 0
      BY <2>1, FS_EmptySet
    <3> QED BY <2>1, <3>1
  <2>2. CASE Late # {}
    <3>1. PICK i \in Late : TRUE
      BY <2>2
    <3>2. Late = {i}
      BY <1>1, <3>1 DEF IInv, Cancelling
    <3>3. Cardinality(Late) = 1
      BY <3>2, FS_Singleton
    <3> QED BY <1>1, <3>3 DEF IInv, Cancelling
  <2> QED BY <2>1, <2>2
<1>2. IInv => CancelStopsTools
  BY <1>1 DEF CancelStopsTools, Late
<1> QED BY <1>2, Inductive, PTL

\* The history and the stream tell of the same calls in the same order.
LEMMA SameOrder ==
    ASSUME TypeOK, Remembered,
           NEW i1 \in Said, NEW i2 \in Said, NEW n1 \in Shown, NEW n2 \in Shown,
           Answers(i1, n1), Answers(i2, n2)
    PROVE  i1 < i2 <=> n1 < n2
<1>1. stream[n1].id \in CallIds /\ stream[n2].id \in CallIds
  <2>1. \A n \in Shown : stream[n] \in RunChunks /\ stream[n].type = "tool-result"
    BY ElementOfSeq, LenProperties DEF Shown, TypeOK
  <2> QED BY <2>1, ChunksOfTheRun
<1>2. PICK a \in CallIds : a = stream[n1].id /\ a = exchange[i1].ids[1]
  BY <1>1 DEF Answers
<1>3. PICK b \in CallIds : b = stream[n2].id /\ b = exchange[i2].ids[1]
  BY <1>1 DEF Answers
<1>4. i1 \in Nat /\ i2 \in Nat /\ n1 \in Nat /\ n2 \in Nat
  BY LenProperties DEF Said, Shown, TypeOK
<1>5. (i1 < i2 => Before(a, b)) /\ (i2 < i1 => Before(b, a))
  BY <1>2, <1>3 DEF Remembered
<1>6. (n1 < n2 => Before(a, b)) /\ (n2 < n1 => Before(b, a))
  BY <1>2, <1>3 DEF Remembered
<1>7. (i1 = i2 => a = b) /\ (n1 = n2 => a = b)
  BY <1>2, <1>3
<1>8. ~Before(a, a) /\ ~(Before(a, b) /\ Before(b, a))
  BY BeforeIsStrict
<1> QED BY <1>4, <1>5, <1>6, <1>7, <1>8

\* What a run leaves behind agrees with what it did, for any number of turns and
\* calls: the history handed on has every answer the consumer saw, in that order
\* and after the message that asked for it; the usage is that of the turns that
\* ended; the turns of the transfer log pair up (toolExchange, turnUsages,
\* turnBoundary).
THEOREM AccountsKept == Spec => []AccountsAgree
<1>1. IInv => HistoryIsWhatRan
  <2> SUFFICES ASSUME IInv, Finished
               PROVE  /\ \A i \in Said : \E n \in Shown : Answers(i, n)
                      /\ \A n \in Shown : \E i \in Said : Answers(i, n)
                      /\ \A i1, i2 \in Said, n1, n2 \in Shown :
                            Answers(i1, n1) /\ Answers(i2, n2) => (i1 < i2 <=> n1 < n2)
                      /\ Said # {} => Last(exchange) = Assistant(<<>>)
                      /\ Followed
    BY DEF HistoryIsWhatRan, Followed
  <2>1. TypeOK /\ Remembered
    BY DEF IInv
  <2>2. \A n \in Shown : \E i \in Said : Answers(i, n)
    BY <2>1 DEF Remembered, Finished, InTools, Working
  <2>3. \A i1, i2 \in Said, n1, n2 \in Shown :
           Answers(i1, n1) /\ Answers(i2, n2) => (i1 < i2 <=> n1 < n2)
    BY <2>1, SameOrder
  <2> QED BY <2>1, <2>2, <2>3 DEF Remembered
<1>2. IInv => UsageAddsUp
  BY DEF IInv, Counted, Over, Settled, Finished, UsageAddsUp
<1>3. IInv => BoundariesPaired
  <2> SUFFICES ASSUME IInv PROVE BoundariesPaired
    OBVIOUS
  <2>1. DOMAIN boundaries = 1 .. Len(boundaries)
    BY LenProperties DEF IInv, TypeOK
  <2> QED BY <2>1 DEF IInv, Bounded, InOrder, BoundariesPaired, Mark
<1> QED BY <1>1, <1>2, <1>3, Inductive, PTL DEF AccountsAgree

\* The merged stream of the whole loop is one well-formed run: it implements the
\* contract a consumer is promised (RunStream; agentStream, the frozen contract).
THEOREM MergedStreamIsOneRun == Spec => OneWellFormedRun
<1>1. Init => Contract!Init
  BY DEF Init, Contract!Init
<1>2. IInv /\ [Next]_vars => [Contract!Emit]_stream
  BY EmitStep DEF IInv
<1> QED BY <1>1, <1>2, Inductive, PTL DEF Spec, OneWellFormedRun, Contract!Spec
==============================================================================
