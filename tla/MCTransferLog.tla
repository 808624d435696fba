---------------------------- MODULE MCTransferLog ----------------------------
(* Two writes of one item, the newer stamped before the older, that may also be *)
(* superseded, an event and a marker; the item and the run are two sessions.    *)
EXTENDS TransferLog
D(op, id, version, session, stamp) ==
    [op |-> op, id |-> id, version |-> version, session |-> session, stamp |-> stamp]
SomeDeltas == {D("put", "i", 1, "ref", 2), D("put", "i", 2, "ref", 1),
               D("supersede", "i", 0, "run", 0), D("event", "e", 1, "run", 0),
               D("walOnly", "raw", 0, "run", 0)}
==============================================================================
