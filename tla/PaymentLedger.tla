---------------------------- MODULE PaymentLedger ----------------------------
(***************************************************************************)
(* What settlement promises: each transaction is bound to at most one      *)
(* order, for good, and becomes paid at most once, by a payment that the   *)
(* payment provider captured for that order and the authorized amount.     *)
(***************************************************************************)
CONSTANTS None, Txn, Order, Payment, Amount, Price

VARIABLES
  order,        \* the order of each transaction, or None
  paid,         \* the payment that settled it, or None
  captured      \* what the provider has captured: [payment, order, amount]

vars == <<order, paid, captured>>

Init ==
  /\ order = [t \in Txn |-> None]
  /\ paid = [t \in Txn |-> None]
  /\ captured = {}

Capture(c) ==
  /\ \E t \in Txn : order[t] = c.order
  /\ \A d \in captured : d.payment # c.payment /\ d.order # c.order
  /\ captured' = captured \cup {c}
  /\ UNCHANGED <<order, paid>>

Bind(t, o) ==
  /\ order[t] = None
  /\ \A u \in Txn : order[u] # o
  /\ order' = [order EXCEPT ![t] = o]
  /\ UNCHANGED <<paid, captured>>

Settle(t, p) ==
  /\ paid[t] = None
  /\ [payment |-> p, order |-> order[t], amount |-> Price[t]] \in captured
  /\ paid' = [paid EXCEPT ![t] = p]
  /\ UNCHANGED <<order, captured>>

Next ==
  \/ \E c \in [payment : Payment, order : Order, amount : Amount] : Capture(c)
  \/ \E t \in Txn : (\E o \in Order : Bind(t, o)) \/ (\E p \in Payment : Settle(t, p))

Spec == Init /\ [][Next]_vars
=============================================================================
