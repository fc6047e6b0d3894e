---------------------------- MODULE MCSettlement ----------------------------
(***************************************************************************)
(* Transactions of equal price, so that an amount alone tells nothing of   *)
(* whose payment it is.                                                    *)
(***************************************************************************)
EXTENDS Settlement

SamePrice == [t \in Txn |-> 2]
=============================================================================
