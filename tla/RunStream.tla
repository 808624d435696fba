------------------------------ MODULE RunStream ------------------------------
(***************************************************************************)
(* What the consumer of one run is promised (packages/shared/src/events.ts,*)
(* enforceStreamContract): a run-start first, unless the run fails before  *)
(* a provider answers; tool calls that start once and end once; one        *)
(* terminal, last.                                                         *)
(***************************************************************************)
EXTENDS Sequences

CONSTANTS Chunks     \* records with at least the fields type and id
VARIABLE stream     \* the chunks delivered so far

Terminal(c)   == c.type \in {"run-end", "error"}
Emitted(t, i) == \E n \in DOMAIN stream : stream[n].type = t /\ stream[n].id = i
Ended         == \E n \in DOMAIN stream : Terminal(stream[n])

Legal(c) ==
    /\ ~Ended
    /\ stream = <<>> => c.type \in {"run-start", "error"}
    /\ c.type = "run-start" => stream = <<>>
    /\ c.type = "tool-start" => ~Emitted("tool-start", c.id)
    /\ c.type = "tool-end" => Emitted("tool-start", c.id) /\ ~Emitted("tool-end", c.id)

Init == stream = <<>>
Emit == \E c \in Chunks : Legal(c) /\ stream' = Append(stream, c)
Spec == Init /\ [][Emit]_stream
==============================================================================
