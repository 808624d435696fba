--------------------------- MODULE MCStreamPipeline ---------------------------
(* Two kinds of run: everything a provider may send with retries and          *)
(* fail-over, and longer answers with a mutating tool whose partial content   *)
(* is continued by the next provider.  The deduplicator of such a             *)
(* continuation is checked on its own, over all short texts.                  *)
EXTENDS StreamPipeline, ContinuationOverlap
CONSTANTS r, w

Options(recovery, attempts, sends, tools, wild, chunks) ==
    [recovery |-> recovery, mayAsk |-> wild, attempts |-> attempts, sends |-> sends,
     tools |-> tools, mayViolate |-> wild, mayCancel |-> wild, chunks |-> chunks]
Actions == {"tool-start", "tool-end", "tool-result"}
BothSetups ==
    {Options(FALSE, 2, {"run-start", "session-init", "usage", "text"} \cup Actions, {r}, TRUE, 3),
     Options(TRUE, 1, {"run-start", "text"} \cup Actions, {w}, FALSE, 5)}

\* The text of a candidate that continues a partial answer passes a
\* deduplicator that shows exactly the missing part, however the text is cut
\* into deltas (ContinuationOverlapDeduplicator).
ShowsMissingPart == recovering => OverlapIsExact
===============================================================================
