-------------------------- MODULE LiveRazorpayProofs --------------------------
(***************************************************************************)
(* The live payment script keeps the promises of Settlement, for any       *)
(* number of runs, attempts and payments, although every run throws the    *)
(* database of the last one away; and it keeps two that the API does not:  *)
(* it asks Razorpay for one order per transaction, and what it repeats     *)
(* after a settlement changes nothing.                                     *)
(***************************************************************************)
EXTENDS LiveRazorpay, SettlementProofs

Unordered(t) == \A o \in Order : orders[o] # None => orders[o].txn # t

\* The acts that repeat what was done, to show that nothing comes of it.
Retry == {"settle_again", "reconcile_again"}

\* Until the first settle() asks for one, the transaction of the run has no order;
\* the second settle() and the last reconcile() come when it is settled.
ScriptInv ==
  /\ act \in {"init_db", "authorize", "settle", "checkout", "reconcile", "end"} \cup Retry
  /\ act # "init_db" => txn \in Txn
  /\ Called => act \in {"settle", "reconcile"}
  /\ act \in Retry => IsSettled(txn)
  /\ act = "authorize" => txn \notin used
  /\ call[Script].pc = "create" => call[Script].txn = txn
  /\ \/ act = "authorize"
     \/ act = "settle" /\ ~Called
     \/ call[Script].pc = "create"
     => Unordered(txn)
  /\ OneOrderPerTransaction

LiveInv == Inv /\ ScriptInv

\* The script has one thread.
OneThread == Session = {Script}
-----------------------------------------------------------------------------
\* A step of the script is a step of Settlement, except that it makes a new
\* database without starting again.
LEMMA LiveSteps ==
  ASSUME OneThread, ScriptInv, [LiveNext]_live_vars
  PROVE  [Next]_vars \/ init_db
<1>1. Script \in Session
  BY DEF OneThread
<1>2. CASE authorize_purchase
  BY <1>2 DEF authorize_purchase, ScriptInv, Next
<1>3. CASE call_settle
  BY <1>1, <1>3 DEF call_settle, AfterSettle, ScriptInv, Next
<1>4. CASE settling \/ reconciling
  BY <1>1, <1>4 DEF settling, reconciling, Progress, Next
<1>5. CASE checkout \/ give_up \/ RunAgain
  BY <1>5 DEF checkout, give_up, RunAgain
<1>6. CASE call_reconcile
  BY <1>1, <1>6 DEF call_reconcile, ScriptInv, Next
<1>7. CASE Customer
  BY <1>7 DEF Customer, Next
<1>8. CASE UNCHANGED live_vars
  BY <1>8 DEF live_vars
<1>9. QED
  BY <1>2, <1>3, <1>4, <1>5, <1>6, <1>7, <1>8 DEF LiveNext, main

\* A new database: no call is under way, and what was offered and paid for an
\* earlier run's transaction is of no row any more.
LEMMA init_dbInv ==
  ASSUME OneThread, Inv, ScriptInv, init_db
  PROVE  Inv'
<1> USE DEF Inv
<1>1. /\ rows' = [t \in Txn |-> None] /\ audit' = {}
      /\ UNCHANGED <<used, api_lock, call, orders, payments, events, offered, faults, restarts>>
  BY DEF init_db, razorpay, bounds
<1>2. \A s \in Session : call[s].pc = "idle"
  BY DEF OneThread, init_db, ScriptInv, Called
<1>3. TypeOK'
  BY <1>1 DEF TypeOK
<1>4. LockInv' /\ CallInv'
  BY <1>1, <1>2 DEF LockInv, CallInv, Working
<1>5. RowInv' /\ AuditInv'
  BY <1>1 DEF RowInv, AuditInv, Recorded
<1>6. OrderInv' /\ OfferInv'
  BY <1>1 DEF OrderInv, OfferInv, Recorded, TypeOK
<1>7. PayInv' /\ EventInv'
  BY <1>1 DEF PayInv, EventInv
<1>8. QED
  BY <1>3, <1>4, <1>5, <1>6, <1>7

\* A step of a call makes an order only if it is the request for one, and ends or
\* goes on past it.
LEMMA CallSteps ==
  ASSUME TypeOK, NEW s \in Session, Progress(s) \/ DatabaseError(s)
  PROVE  /\ call'[s].pc # "create"
         /\ \/ UNCHANGED orders
            \/ /\ call[s].pc = "create"
               /\ \E o \in Order :
                    orders' = [orders EXCEPT ![o] = [txn |-> call[s].txn,
                                                     amount |-> Price[call[s].txn]]]
<1>1. Leave(s) => call'[s].pc # "create"
  BY IdleIsACall DEF Leave, TypeOK
<1>2. CASE create_order(s)
  <2>1. ASSUME NEW o, call' = [call EXCEPT ![s].pc = "update", ![s].order = o]
        PROVE  call'[s].pc = "update"
    <3>1. call'[s] = [call[s] EXCEPT !.pc = "update", !.order = o]
      BY <2>1 DEF TypeOK
    <3>2. QED
      BY <3>1 DEF TypeOK
  <2>2. QED
    BY <1>1, <1>2, <2>1 DEF create_order
<1>3. CASE order_payments(s)
  BY <1>1, <1>3 DEF order_payments, razorpay, TypeOK
<1>4. CASE set_transaction_settlement(s)
  BY <1>4 DEF set_transaction_settlement, razorpay, TypeOK
<1>5. CASE append_event(s)
  BY <1>1, <1>5 DEF append_event, razorpay
<1>6. CASE DatabaseError(s)
  BY <1>1, <1>6 DEF DatabaseError, razorpay
<1>7. QED
  BY <1>2, <1>3, <1>4, <1>5, <1>6 DEF Progress

\* An error ends a call.
LEMMA ErrorEnds ==
  ASSUME TypeOK, NEW s \in Session, DatabaseError(s)
  PROVE  call'[s].pc = "idle"
  BY IdleIsACall DEF DatabaseError, Leave, TypeOK

\* The first order of a transaction.
LEMMA FirstOrder ==
  ASSUME TypeOK, OneOrderPerTransaction, NEW t \in Txn, Unordered(t), NEW x \in Order,
         orders' = [orders EXCEPT ![x] = [txn |-> t, amount |-> Price[t]]]
  PROVE  OneOrderPerTransaction'
<1>1. /\ orders'[x].txn = t
      /\ \A o \in Order : o # x => orders'[o] = orders[o]
  BY DEF TypeOK
<1>2. QED
  BY <1>1 DEF OneOrderPerTransaction, Unordered

\* Settled, a transaction has its order, and neither call has anything to do.
LEMMA NothingLeft ==
  ASSUME LiveInv, act \in Retry
  PROVE  /\ txn \in Txn /\ rows[txn] # None /\ rows[txn].order # None
         /\ \A s \in Session : ~settle(s, txn) /\ ~reconcile(s, txn)
         /\ MaySettle(txn)
<1>1. txn \in Txn /\ IsSettled(txn) /\ RowInv
  BY DEF LiveInv, Inv, ScriptInv, Retry
<1>2. rows[txn] # None /\ rows[txn].status = "settled" /\ rows[txn].order # None
  BY <1>1 DEF IsSettled, RowInv, Recorded, Outcome
<1>3. rows[txn].decision = "ALLOW"
  BY <1>1, <1>2 DEF RowInv, Recorded
<1>4. QED
  BY <1>1, <1>2, <1>3 DEF settle, reconcile, MaySettle

\* The steps of a call that the script waits for.
LEMMA WaitingInv ==
  ASSUME OneThread, LiveInv, settling \/ reconciling
  PROVE  ScriptInv'
<1> USE DEF LiveInv, Inv
<1>1. Script \in Session /\ call[Script].pc # "idle" /\ act \in {"settle", "reconcile"}
  BY DEF OneThread, settling, reconciling, Called, ScriptInv
<1>2. txn' = txn /\ txn \in Txn
  BY <1>1 DEF settling, reconciling, ScriptInv
<1>3. Progress(Script) \/ DatabaseError(Script)
  BY DEF settling, reconciling, Progress
<1>4. /\ act' \in {"settle", "checkout", "reconcile", "settle_again", "end"}
      /\ Called' => act' \in {"settle", "reconcile"}
      /\ act' = "settle" => Called'
      /\ act' \in Retry => IsSettled(txn)'
  <2>1. DatabaseError(Script) => ~Called'
    BY <1>1, ErrorEnds DEF Called
  <2>2. CASE settling
    BY <1>1, <2>1, <2>2 DEF settling, AfterSettle, Retry
  <2>3. CASE reconciling
    BY <1>1, <2>1, <2>3 DEF reconciling, Reconciled, Retry
  <2>4. QED
    BY <2>2, <2>3
<1>5. call'[Script].pc # "create"
  BY <1>1, <1>3, CallSteps
<1>6. OneOrderPerTransaction'
  <2>1. CASE UNCHANGED orders
    BY <2>1 DEF ScriptInv, OneOrderPerTransaction
  <2>2. CASE orders' # orders
    <3>1. /\ call[Script].pc = "create"
          /\ \E o \in Order :
               orders' = [orders EXCEPT ![o] = [txn |-> call[Script].txn,
                                                amount |-> Price[call[Script].txn]]]
      BY <1>1, <1>3, <2>2, CallSteps
    <3>2. call[Script].txn = txn /\ Unordered(txn) /\ OneOrderPerTransaction
      BY <3>1 DEF ScriptInv
    <3>3. QED
      BY <1>2, <3>1, <3>2, FirstOrder
  <2>3. QED
    BY <2>1, <2>2
<1>7. QED
  BY <1>2, <1>4, <1>5, <1>6 DEF ScriptInv, Retry

\* Every other step of the script leaves Razorpay's orders alone.
LEMMA ScriptStep ==
  ASSUME OneThread, LiveInv, [LiveNext]_live_vars
  PROVE  ScriptInv'
<1> USE DEF LiveInv, Inv
<1>1. Script \in Session /\ \A s \in Session : s = Script
  BY DEF OneThread
<1>2. CASE init_db
  <2>1. orders' = orders /\ call' = call /\ used' = used /\ txn' \in Txn \ used
        /\ act = "init_db" /\ act' = "authorize"
    BY <1>2 DEF init_db, razorpay
  <2>2. Unordered(txn')
    BY <2>1 DEF Unordered, OrderInv
  <2>3. QED
    BY <2>1, <2>2 DEF ScriptInv, Retry, Called, Unordered, OneOrderPerTransaction
<1>3. CASE authorize_purchase
  <2>1. /\ orders' = orders /\ call' = call /\ txn' = txn
        /\ act = "authorize" /\ act' \in {"settle", "end"}
    BY <1>3 DEF authorize_purchase, Authorize, razorpay
  <2>2. QED
    BY <2>1 DEF ScriptInv, Retry, Called, Unordered, OneOrderPerTransaction
<1>4. CASE call_settle /\ act = "settle"
  <2>1. txn' = txn /\ act' \in {"settle", "checkout"} /\ orders' = orders /\ call[Script].pc = "idle"
    BY <1>4 DEF call_settle, AfterSettle, Called, settle, ReturnExisting, vars, razorpay
  <2>2. Unordered(txn) /\ txn \in Txn
    BY <1>4, <2>1 DEF ScriptInv, Called
  <2>3. \/ act' = "settle" /\ call'[Script].txn = txn /\ call'[Script].pc = "create"
        \/ act' = "checkout" /\ call' = call
    <3>1. CASE settle(Script, txn) /\ act' = act
      BY <1>1, <1>4, <3>1 DEF settle, Enter, Idle, TypeOK
    <3>2. CASE ReturnExisting(txn) /\ act' = AfterSettle[act]
      BY <1>4, <3>2 DEF ReturnExisting, AfterSettle
    <3>3. CASE act' = AfterSettle[act] /\ UNCHANGED vars
      BY <1>4, <3>3 DEF vars, AfterSettle
    <3>4. QED
      BY <1>4, <3>1, <3>2, <3>3 DEF call_settle
  <2>4. QED
    BY <1>4, <2>1, <2>2, <2>3 DEF ScriptInv, Retry, Called, Unordered, OneOrderPerTransaction
<1>5. CASE call_settle /\ act = "settle_again"
  <2>1. ReturnExisting(txn) /\ act' = "reconcile_again" /\ txn' = txn
    BY <1>1, <1>5, NothingLeft DEF call_settle, AfterSettle, Retry
  <2>2. UNCHANGED <<rows, call, orders>>
    BY <2>1 DEF ReturnExisting, razorpay
  <2>3. QED
    BY <1>5, <2>1, <2>2 DEF ScriptInv, Retry, Called, IsSettled, OneOrderPerTransaction
<1>6. CASE settling \/ reconciling
  BY <1>6, WaitingInv
<1>7. CASE checkout \/ give_up \/ RunAgain
  <2>1. /\ txn' = txn /\ orders' = orders /\ call' = call
        /\ act \in {"checkout", "reconcile", "end"} /\ act' \in {"reconcile", "end", "init_db"}
    BY <1>7 DEF checkout, give_up, RunAgain, vars, razorpay
  <2>2. CASE Called
    BY <1>7, <2>1, <2>2 DEF checkout, give_up, RunAgain, ScriptInv
  <2>3. CASE ~Called
    BY <2>1, <2>3 DEF ScriptInv, Retry, Called, Unordered, OneOrderPerTransaction
  <2>4. QED
    BY <2>2, <2>3
<1>8. CASE call_reconcile
  <2>1. /\ txn' = txn /\ orders' = orders /\ call[Script].pc = "idle" /\ txn \in Txn
        /\ act \in {"reconcile", "reconcile_again"}
    BY <1>8 DEF call_reconcile, Called, reconcile, vars, razorpay, ScriptInv
  <2>2. CASE reconcile(Script, txn) /\ act' = act
    <3>1. act = "reconcile" /\ act' = act
      BY <1>1, <2>1, <2>2, NothingLeft DEF Retry
    <3>2. call'[Script].pc = "fetch"
      BY <1>1, <2>2 DEF reconcile, Enter, Idle, TypeOK
    <3>3. QED
      BY <2>1, <3>1, <3>2 DEF ScriptInv, Retry, Called, OneOrderPerTransaction
  <2>3. CASE UNCHANGED vars /\ Reconciled
    <3>1. /\ call' = call /\ act' \in {"end", "settle_again", "reconcile"}
          /\ act' = "settle_again" => IsSettled(txn)'
      BY <2>3 DEF vars, Reconciled
    <3>2. QED
      BY <2>1, <3>1 DEF ScriptInv, Retry, Called, OneOrderPerTransaction
  <2>4. QED
    BY <1>8, <2>2, <2>3 DEF call_reconcile
<1>9. CASE Customer \/ UNCHANGED live_vars
  <2>1. UNCHANGED <<rows, orders, call, used, txn, act>>
    BY <1>9 DEF Customer, Pay, Capture, Fail, script, live_vars, vars, razorpay
  <2>2. QED
    BY <2>1 DEF ScriptInv, Called, Unordered, OneOrderPerTransaction, IsSettled
<1>10. QED
  BY <1>2, <1>3, <1>4, <1>5, <1>6, <1>7, <1>8, <1>9 DEF LiveNext, main, call_settle, AfterSettle

\* The invariant of the settlement, with what the script adds to it.
THEOREM LiveInductiveInvariant ==
  ASSUME OneThread
  PROVE  LiveSpec => []LiveInv
<1>1. LiveInit => LiveInv
  <2> SUFFICES ASSUME LiveInit PROVE LiveInv
    OBVIOUS
  <2>1. Inv
    BY InitInv DEF LiveInit
  <2>2. call[Script].pc = "idle" /\ \A o \in Order : orders[o] = None
    BY DEF OneThread, LiveInit, Init, Idle
  <2>3. QED
    BY <2>1, <2>2 DEF LiveInv, ScriptInv, Retry, LiveInit, Called, OneOrderPerTransaction
<1>2. LiveInv /\ [LiveNext]_live_vars => LiveInv'
  BY LiveSteps, init_dbInv, StepInv, ScriptStep DEF LiveInv
<1>3. QED
  BY <1>1, <1>2, PTL DEF LiveSpec
-----------------------------------------------------------------------------
\* scripts/live_razorpay.py: what a run calls settled has its own captured payment
\* of the authorized amount, no transaction is paid twice, only what was allowed is
\* ordered, and the audit log tells the state of the run's transaction - however
\* often the script is run again on a new database (live_razorpay.py:385-386).
THEOREM LiveKeepsMoneySafe ==
  ASSUME OneThread
  PROVE  LiveSpec =>
           [](SettledIsCaptured /\ NoDoubleCharge /\ OnlyAuthorizedOrdered /\ SettlementAudited)
<1>1. Inv => NoDoubleCharge
  BY DEF Inv, NoDoubleCharge, OfferInv, PayInv
<1>2. Inv => OnlyAuthorizedOrdered
  BY DEF Inv, OnlyAuthorizedOrdered, OrderInv, Recorded
<1>3. QED
  BY <1>1, <1>2, SettledFromInv, AuditedFromInv, LiveInductiveInvariant, PTL DEF LiveInv

\* scripts/live_razorpay.py: the first settle() finds an id that no earlier run had
\* and is not repeated when it raises, and the second finds the order of a settled
\* row: the script asks for one order per transaction (settlement.py:6-7).  The API,
\* which may be asked to settle again after a lost answer, does not.
THEOREM LiveOneOrder ==
  ASSUME OneThread
  PROVE  LiveSpec => []OneOrderPerTransaction
<1>1. ScriptInv => OneOrderPerTransaction
  BY DEF ScriptInv
<1>2. QED
  BY <1>1, LiveInductiveInvariant, PTL DEF LiveInv

\* scripts/live_razorpay.py, Act 5: "a retry can never charge twice" (lines 396-399).
\* The second settle() returns the order of the first and the last reconcile() asks
\* nobody: while they are made no row, audit entry or order changes, and neither
\* starts a call of Razorpay's.
THEOREM LiveRetryRefused ==
  ASSUME OneThread
  PROVE  LiveSpec => [][(act \in Retry => UNCHANGED <<rows, audit, orders, call>>)]_live_vars
<1>1. ASSUME LiveInv, LiveNext, act \in Retry
      PROVE  UNCHANGED <<rows, audit, orders, call>>
  <2>1. Script \in Session /\ call[Script].pc = "idle" /\ act \in {"settle_again", "reconcile_again"}
    BY <1>1 DEF OneThread, LiveInv, ScriptInv, Called, Retry
  <2>2. CASE call_settle
    BY <1>1, <2>1, <2>2, NothingLeft DEF call_settle, ReturnExisting, razorpay
  <2>3. CASE call_reconcile
    BY <1>1, <2>1, <2>3, NothingLeft DEF call_reconcile, vars, razorpay
  <2>4. CASE Customer
    BY <2>4 DEF Customer, Pay, Capture, Fail
  <2>5. ~(\/ init_db \/ authorize_purchase \/ settling \/ checkout \/ reconciling \/ give_up \/ RunAgain)
    BY <2>1 DEF init_db, authorize_purchase, settling, checkout, reconciling, give_up, RunAgain, Called
  <2>6. QED
    BY <1>1, <2>2, <2>3, <2>4, <2>5 DEF LiveNext, main
<1>2. LiveInv /\ [LiveNext]_live_vars
        => [(act \in Retry => UNCHANGED <<rows, audit, orders, call>>)]_live_vars
  BY <1>1
<1>3. QED
  BY <1>2, LiveInductiveInvariant, PTL DEF LiveSpec
=============================================================================
