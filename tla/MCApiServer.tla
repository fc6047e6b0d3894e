---------------------------- MODULE MCApiServer -----------------------------
(***************************************************************************)
(* Two pool threads and the event loop.                                    *)
(***************************************************************************)
EXTENDS ApiServer

CONSTANTS w1, w2, event_loop

Threads == {w1, w2, event_loop}
Pool == {w1, w2}
SamePrice == [t \in Txn |-> 2]
=============================================================================
