----------------------------- MODULE LiveRazorpay -----------------------------
(***************************************************************************)
(* The live payment script (scripts/live_razorpay.py): one purchase, its   *)
(* order, a checkout page, and a few calls of reconcile(), after which the *)
(* user is told to run the script again.  A run that has settled calls     *)
(* settle() and reconcile() once more, to show that nothing is charged     *)
(* twice.  Nothing else calls them on the script's database, and no        *)
(* webhook reaches it.                                                     *)
(***************************************************************************)
EXTENDS Settlement

CONSTANTS
  Script,             \* the script's one thread, the only member of Session
  Attempts            \* calls of reconcile() before it gives up: 12 in the code

VARIABLES
  txn,                \* the transaction of the present run
  act,                \* where main() is
  attempts            \* calls of reconcile() that have ended

script    == <<txn, act, attempts>>
live_vars == <<vars, script>>

Called == call[Script].pc # "idle"

LiveInit == Init /\ txn = None /\ act = "init_db" /\ attempts = 0

\* A run starts with a new database.
init_db ==
  /\ act = "init_db"
  /\ rows' = [t \in Txn |-> None] /\ audit' = {}
  /\ txn' \in Txn \ used
  /\ act' = "authorize" /\ attempts' = 0
  /\ UNCHANGED <<used, api_lock, call, razorpay, offered, bounds>>

\* _authorize_purchase(): a run whose purchase is not allowed ends; on hold it
\* goes on.
authorize_purchase ==
  /\ act = "authorize"
  /\ Authorize(txn)
  /\ act' = IF rows'[txn].decision = "ALLOW" THEN "settle" ELSE "end"
  /\ UNCHANGED <<txn, attempts>>

\* Where main() goes on after a settle() that returned.
AfterSettle == [settle |-> "checkout", settle_again |-> "reconcile_again"]

\* Act 2, and again in Act 5.  On hold there is no order, and where there is one it
\* is returned; main() goes on all the same.
call_settle ==
  /\ act \in DOMAIN AfterSettle /\ ~Called
  /\ \/ settle(Script, txn) /\ UNCHANGED act
     \/ ReturnExisting(txn) /\ act' = AfterSettle[act]
     \/ ~MaySettle(txn) /\ act' = AfterSettle[act] /\ UNCHANGED vars
  /\ UNCHANGED <<txn, attempts>>

\* If it raises the script ends.
settling ==
  /\ act \in DOMAIN AfterSettle /\ Called
  /\ \/ Progress(Script) /\ act' = IF Called' THEN act
                                  ELSE IF call[Script].pc = "append" THEN AfterSettle[act] ELSE "end"
     \/ DatabaseError(Script) /\ act' = "end"
  /\ UNCHANGED <<txn, attempts>>

\* Act 3.  The page is open; the user presses Enter, having paid or not.
checkout ==
  /\ act = "checkout"
  /\ act' = "reconcile"
  /\ UNCHANGED <<vars, txn, attempts>>

\* A reconcile() has returned: Act 4 calls it until the transaction is settled, Act 5
\* once more.  Act 6 only reads.
Reconciled ==
  IF act = "reconcile_again" THEN act' = "end" /\ UNCHANGED attempts
  ELSE /\ act' = IF IsSettled(txn)' THEN "settle_again" ELSE "reconcile"
       /\ attempts' = attempts + 1

\* A transaction without an order is asked about all the same.
call_reconcile ==
  /\ act \in {"reconcile", "reconcile_again"} /\ ~Called
  /\ act = "reconcile" => attempts < Attempts
  /\ UNCHANGED txn
  /\ \/ reconcile(Script, txn) /\ UNCHANGED <<act, attempts>>
     \/ /\ rows[txn].order = None \/ IsSettled(txn)
        /\ UNCHANGED vars /\ Reconciled

\* It settles the transaction, finds nothing yet, or raises.
reconciling ==
  /\ act \in {"reconcile", "reconcile_again"} /\ Called
  /\ UNCHANGED txn
  /\ \/ Progress(Script) /\ Called' /\ UNCHANGED <<act, attempts>>
     \/ Progress(Script) /\ ~Called' /\ Reconciled
     \/ /\ (order_payments(Script) /\ ~Called') \/ DatabaseError(Script)
        /\ act' = "end" /\ UNCHANGED attempts

\* "No captured payment found yet": the script closes its database and ends.
give_up ==
  /\ act = "reconcile" /\ ~Called /\ attempts = Attempts
  /\ act' = "end"
  /\ UNCHANGED <<vars, txn, attempts>>

main ==
  \/ init_db \/ authorize_purchase \/ call_settle \/ settling
  \/ checkout \/ call_reconcile \/ reconciling \/ give_up

\* The user runs the script again.
RunAgain ==
  /\ act = "end" /\ used # Txn
  /\ act' = "init_db"
  /\ UNCHANGED <<vars, txn, attempts>>

Customer ==
  /\ \/ \E o \in Order, p \in Payment, a \in Amount : Pay(o, p, a)
     \/ \E p \in Payment : Capture(p) \/ Fail(p)
  /\ UNCHANGED script

LiveNext == main \/ RunAgain \/ Customer

\* The script runs on, and the user runs it again.
LiveSpec == LiveInit /\ [][LiveNext]_live_vars /\ WF_live_vars(main) /\ WF_live_vars(RunAgain)
-----------------------------------------------------------------------------
\* A payment that was captured, perhaps after the script gave up, is recorded by
\* running the script again: "If you completed the payment, run this again"
\* (live_razorpay.py:385-386).
RunAgainReconciles ==
  \A p \in Payment, t \in Txn :
    (/\ payments[p] # None /\ payments[p].status = "captured"
     /\ orders[payments[p].order] = [txn |-> t, amount |-> payments[p].amount]
     /\ act = "end" /\ used # Txn)
    ~> IsSettled(t)
=============================================================================
