--------------------------- MODULE MCLiveRazorpay ---------------------------
(***************************************************************************)
(* Two runs of the script, with fewer attempts than the code's twelve.     *)
(***************************************************************************)
EXTENDS LiveRazorpay

CONSTANT script_thread

Threads == {script_thread}
SamePrice == [t \in Txn |-> 2]
=============================================================================
