----------------------------- MODULE Settlement -----------------------------
(***************************************************************************)
(* Settlement of recorded transactions (razorpay/settlement.py,            *)
(* razorpay/webhooks.py and their API handlers) against Razorpay.          *)
(*                                                                         *)
(* Every call of settle(), reconcile() and handle_event() runs under _LOCK *)
(* in the API, and the lock is held across the network call.  Razorpay and *)
(* the customer take steps at any time: a response may be lost after the   *)
(* order was created, a payment may fail or be captured for any amount,    *)
(* and a webhook may arrive late, twice, never, or after a later one.  A   *)
(* start of the program deletes its database; Razorpay forgets nothing.    *)
(***************************************************************************)
EXTENDS Naturals, FiniteSets

CONSTANTS
  None,               \* SQL NULL
  Session,            \* threads that serve calls
  Txn,                \* transaction ids
  Order, Payment,     \* ids Razorpay draws from: bounds the orders and payments
  Amount,             \* amounts a payment may be made for
  Price,              \* the authorized amount of each transaction
  MaxFaults,          \* bound: lost responses and database errors
  MaxRestarts         \* bound: starts after the first

ASSUME SettlementAssumption ==
  /\ None \notin Session \cup Txn \cup Order \cup Payment \cup Amount
  /\ Price \in [Txn -> Amount]
  /\ MaxFaults \in Nat /\ MaxRestarts \in Nat

\* A row of table transactions.
Rows == [amount : Amount, decision : {"ALLOW", "BLOCK"},
         status : {"authorized", "review_hold", "blocked", "pending_settlement", "settled", "failed"},
         order : Order \cup {None}, payment : Payment \cup {None}]

\* NULL is no row, and no order and no payment of Razorpay's.
ASSUME NullAssumption ==
  /\ None \notin Rows
  /\ None \notin [txn : Txn, amount : Amount]
  /\ None \notin [order : Order, amount : Amount, status : {"created", "captured", "failed"}]

VARIABLES
  rows,               \* table transactions: the row of each id, or None
  used,               \* ids that have been recorded (they are random: never reused)
  audit,              \* the settlement entries of table audit_logs
  api_lock,           \* the session holding _LOCK, or None
  call,               \* what each session is executing
  orders, payments,   \* Razorpay's orders and payments
  events,             \* the webhook events it has sent: delivered any number of times
  offered,            \* the orders whose id settle() returned to the customer
  faults, restarts    \* bookkeeping of the bounds

razorpay == <<orders, payments, events>>
bounds   == <<faults, restarts>>
vars     == <<rows, used, audit, api_lock, call, razorpay, offered, bounds>>

\* What authorize() has recorded (verifier/service.py).
Authorized == {[decision |-> "ALLOW", status |-> "authorized"],
               [decision |-> "ALLOW", status |-> "review_hold"],
               [decision |-> "BLOCK", status |-> "blocked"]}

Idle == [pc |-> "idle", txn |-> None, order |-> None, payment |-> None, status |-> None]

Init ==
  /\ rows = [t \in Txn |-> None]
  /\ used = {} /\ audit = {} /\ api_lock = None
  /\ call = [s \in Session |-> Idle]
  /\ orders = [o \in Order |-> None]
  /\ payments = [p \in Payment |-> None]
  /\ events = {} /\ offered = {} /\ faults = 0 /\ restarts = 0

\* authorize() commits the row of a purchase.
RecordRow(t) ==
  \E a \in Authorized :
    rows' = [rows EXCEPT ![t] = [amount |-> Price[t], decision |-> a.decision,
                                 status |-> a.status, order |-> None, payment |-> None]]

Authorize(t) ==
  /\ api_lock = None
  /\ t \notin used
  /\ used' = used \cup {t}
  /\ RecordRow(t)
  /\ UNCHANGED <<audit, api_lock, call, razorpay, offered, bounds>>
-----------------------------------------------------------------------------
\* Calls.

\* Mutant: the handler does not take the lock.
EnterUnlocked(s, c) ==
  /\ call[s].pc = "idle"
  /\ UNCHANGED api_lock
  /\ call' = [call EXCEPT ![s] = c]

\* `with _LOCK`: s starts a call.
Enter(s, c) ==
  /\ call[s].pc = "idle"
  /\ api_lock = None
  /\ api_lock' = s
  /\ call' = [call EXCEPT ![s] = c]

\* s returns, or an exception leaves the call.
Leave(s) ==
  /\ api_lock' = None
  /\ call' = [call EXCEPT ![s] = Idle]

\* Mutant: a held purchase may be settled.
MaySettleAllows(t) == rows[t] # None /\ rows[t].decision = "ALLOW"

\* settle() refuses what is unknown, not allowed, or on hold.
MaySettle(t) ==
  /\ rows[t] # None
  /\ rows[t].decision = "ALLOW"
  /\ rows[t].status # "review_hold"

\* settle() of a transaction that has an order, settled or not, returns it.
ReturnExisting(t) ==
  /\ api_lock = None
  /\ MaySettle(t)
  /\ rows[t].order # None
  /\ offered' = offered \cup {rows[t].order}
  /\ UNCHANGED <<rows, used, audit, api_lock, call, razorpay, bounds>>

\* Otherwise it asks Razorpay for one.
settle(s, t) ==
  /\ MaySettle(t)
  /\ rows[t].order = None
  /\ Enter(s, [Idle EXCEPT !.pc = "create", !.txn = t, !.status = "pending_settlement"])
  /\ UNCHANGED <<rows, used, audit, razorpay, offered, bounds>>

\* The POST to Razorpay.  Without keys, or refused, it raises and there is no
\* order; if the answer is lost, it raises and there is one.
create_order(s) ==
  /\ call[s].pc = "create"
  /\ \/ \E o \in {x \in Order : orders[x] = None} :
          /\ orders' = [orders EXCEPT ![o] = [txn |-> call[s].txn, amount |-> Price[call[s].txn]]]
          /\ \/ /\ call' = [call EXCEPT ![s].pc = "update", ![s].order = o]
                /\ UNCHANGED <<api_lock, faults>>
             \/ /\ faults < MaxFaults
                /\ faults' = faults + 1
                /\ Leave(s)
     \/ /\ Leave(s)
        /\ UNCHANGED <<orders, faults>>
  /\ UNCHANGED <<rows, used, audit, payments, events, offered, restarts>>

\* A call of reconcile(): not without an order, and not when settled.
reconcile(s, t) ==
  /\ rows[t] # None
  /\ rows[t].order # None
  /\ rows[t].status # "settled"
  /\ Enter(s, [Idle EXCEPT !.pc = "fetch", !.txn = t, !.order = rows[t].order,
                           !.status = "settled"])
  /\ UNCHANGED <<rows, used, audit, razorpay, offered, bounds>>

\* A payment that reconcile() settles on.
Settles(p, o, amount) ==
  /\ payments[p] # None
  /\ payments[p].order = o
  /\ payments[p].status = "captured"
  /\ payments[p].amount = amount

\* The GET of the order's payments: the first that fits settles the row; with
\* none, or no answer, the call ends and the transaction stays not paid.
order_payments(s) ==
  /\ call[s].pc = "fetch"
  /\ \/ \E p \in Payment :
          /\ Settles(p, call[s].order, rows[call[s].txn].amount)
          /\ call' = [call EXCEPT ![s].pc = "update", ![s].payment = p]
          /\ UNCHANGED api_lock
     \/ Leave(s)
  /\ UNCHANGED <<rows, used, audit, razorpay, offered, bounds>>
-----------------------------------------------------------------------------
\* Webhooks.

EventType == {"payment.captured", "order.paid", "payment.failed", "payment.authorized"}

\* HMAC over the raw body: ideal.
verify_webhook_signature(e) == e.signed

\* Events with Razorpay's body shape that Razorpay did not sign.
Unsigned == [type : {"payment.captured"}, order : Order, payment : Payment, amount : Amount,
             signed : {FALSE}]

\* Mutant: a failure is recorded over anything.
FailsAlways(row, e) == e.type = "payment.failed"

\* A failure is recorded unless the row is settled.
Fails(row, e) == e.type = "payment.failed" /\ row.status # "settled"

\* Mutant: a capture counts only while the row is pending.
CapturesPending(row, e) ==
  /\ e.type \in {"payment.captured", "order.paid"}
  /\ e.amount # None
  /\ row.status = "pending_settlement"

\* A capture settles the row once, and not without an amount.
Captures(row, e) ==
  /\ e.type \in {"payment.captured", "order.paid"}
  /\ e.amount # None
  /\ row.status # "settled"

\* Mutant: the amount is not compared.
NoAmountGuard(row, e) == TRUE

AmountMatches(row, e) == e.amount # None => e.amount = row.amount

\* An event for an unknown order, with another amount, of another type, or for a
\* row already settled changes nothing.
Concerns(e, t) ==
  /\ rows[t] # None
  /\ rows[t].order = e.order
  /\ AmountMatches(rows[t], e)
  /\ Captures(rows[t], e) \/ Fails(rows[t], e)

\* razorpay_webhook() and handle_event(), up to the UPDATE.
razorpay_webhook(s, e) ==
  /\ verify_webhook_signature(e)
  /\ \E t \in Txn :
       /\ Concerns(e, t)
       /\ Enter(s, [pc |-> "update", txn |-> t, order |-> e.order, payment |-> e.payment,
                    status |-> IF Captures(rows[t], e) THEN "settled" ELSE "failed"])
  /\ UNCHANGED <<rows, used, audit, razorpay, offered, bounds>>
-----------------------------------------------------------------------------
\* The two writes that end a call that has something to record.

COALESCE(new, old) == IF new = None THEN old ELSE new

\* Mutant: the order id is not stored.
ForgetOrder(s) ==
  LET c == call[s]
  IN rows' = [rows EXCEPT ![c.txn].status = c.status, ![c.txn].payment = COALESCE(c.payment, @)]

\* The UPDATE of set_transaction_settlement().
Updated(row, c) ==
  [row EXCEPT !.status = c.status,
              !.order = COALESCE(c.order, row.order),
              !.payment = COALESCE(c.payment, row.payment)]

UpdateRow(s) == rows' = [rows EXCEPT ![call[s].txn] = Updated(@, call[s])]

\* The entry of a failure does not name the payment.
Entry(c) == [txn |-> c.txn, order |-> c.order, status |-> c.status,
             payment |-> IF c.status = "failed" THEN None ELSE c.payment]

set_transaction_settlement(s) ==
  /\ call[s].pc = "update"
  /\ UpdateRow(s)
  /\ call' = [call EXCEPT ![s].pc = "append"]
  /\ UNCHANGED <<used, audit, api_lock, razorpay, offered, bounds>>

\* Mutant: only a settlement is audited.
AppendSettled(s) ==
  /\ call[s].pc = "append"
  /\ audit' = audit \cup (IF call[s].status = "settled" THEN {Entry(call[s])} ELSE {})
  /\ offered' = IF call[s].status = "pending_settlement" THEN offered \cup {call[s].order}
                ELSE offered
  /\ Leave(s)
  /\ UNCHANGED <<rows, used, razorpay, bounds>>

\* The audit entry; then the call returns, settle() with the order's id.
append_event(s) ==
  /\ call[s].pc = "append"
  /\ audit' = audit \cup {Entry(call[s])}
  /\ offered' = IF call[s].status = "pending_settlement" THEN offered \cup {call[s].order}
                ELSE offered
  /\ Leave(s)
  /\ UNCHANGED <<rows, used, razorpay, bounds>>

\* One of them raises.  If it was the commit, the change stands in the open
\* transaction of the connection that all calls share.
DatabaseError(s) ==
  /\ faults < MaxFaults
  /\ faults' = faults + 1
  /\ \/ /\ call[s].pc \in {"update", "append"}
        /\ UNCHANGED <<rows, audit>>
     \/ /\ call[s].pc = "update"
        /\ UpdateRow(s)
        /\ UNCHANGED audit
     \/ /\ call[s].pc = "append"
        /\ audit' = audit \cup {Entry(call[s])}
        /\ UNCHANGED rows
  /\ Leave(s)
  /\ UNCHANGED <<used, razorpay, offered, restarts>>

\* The program stops and is started again, with a new database.
Restart ==
  /\ restarts < MaxRestarts
  /\ restarts' = restarts + 1
  /\ rows' = [t \in Txn |-> None]
  /\ audit' = {} /\ api_lock' = None
  /\ call' = [s \in Session |-> Idle]
  /\ UNCHANGED <<used, razorpay, offered, faults>>
-----------------------------------------------------------------------------
\* Razorpay and the customer.

PaymentsOf(o) == {p \in Payment : payments[p] # None /\ payments[p].order = o}
Paid(o) == \E p \in PaymentsOf(o) : payments[p].status = "captured"

\* The customer pays an order whose id reached them, until it is paid.
Pay(o, p, a) ==
  /\ o \in offered
  /\ ~Paid(o)
  /\ payments[p] = None
  /\ payments' = [payments EXCEPT ![p] = [order |-> o, amount |-> a, status |-> "created"]]
  /\ UNCHANGED <<rows, used, audit, api_lock, call, orders, events, offered, bounds>>

Events(types, p, amounts) ==
  [type : types, order : {payments[p].order}, payment : {p}, amount : amounts, signed : {TRUE}]

\* A payment ends; the events about it are sent, one of them without an amount.
Capture(p) ==
  /\ payments[p] # None
  /\ payments[p].status = "created"
  /\ ~Paid(payments[p].order)
  /\ payments' = [payments EXCEPT ![p].status = "captured"]
  /\ events' = events \cup Events({"payment.authorized", "payment.captured", "order.paid"}, p,
                                  {payments[p].amount, None})
  /\ UNCHANGED <<rows, used, audit, api_lock, call, orders, offered, bounds>>

Fail(p) ==
  /\ payments[p] # None
  /\ payments[p].status = "created"
  /\ payments' = [payments EXCEPT ![p].status = "failed"]
  /\ events' = events \cup Events({"payment.failed"}, p, {payments[p].amount, None})
  /\ UNCHANGED <<rows, used, audit, api_lock, call, orders, offered, bounds>>
-----------------------------------------------------------------------------
Progress(s) ==
  create_order(s) \/ order_payments(s) \/ set_transaction_settlement(s) \/ append_event(s)

Deliver(e) == \E s \in Session : razorpay_webhook(s, e)

Next ==
  \/ \E t \in Txn : Authorize(t) \/ ReturnExisting(t)
  \/ \E s \in Session :
       \/ \E t \in Txn : settle(s, t) \/ reconcile(s, t)
       \/ \E e \in events \cup Unsigned : razorpay_webhook(s, e)
       \/ Progress(s)
       \/ DatabaseError(s)
  \/ Restart
  \/ \E o \in Order, p \in Payment, a \in Amount : Pay(o, p, a)
  \/ \E p \in Payment : Capture(p) \/ Fail(p)

Spec == Init /\ [][Next]_vars

CaptureEvents == [type : {"payment.captured"}, order : Order, payment : Payment,
                  amount : Amount, signed : {TRUE}]

\* A call that can go on does, and Razorpay delivers an event again until the
\* handler has taken it.
Fairness ==
  /\ \A s \in Session : WF_vars(Progress(s))
  /\ \A e \in CaptureEvents : SF_vars(e \in events /\ Deliver(e))
FairSpec == Spec /\ Fairness
-----------------------------------------------------------------------------
\* Properties.

TypeOK ==
  /\ rows \in [Txn -> Rows \cup {None}]
  /\ used \subseteq Txn /\ offered \subseteq Order /\ faults \in Nat /\ restarts \in Nat
  /\ audit \subseteq [txn : Txn, order : Order, payment : Payment \cup {None},
                      status : {"pending_settlement", "settled", "failed"}]
  /\ api_lock \in Session \cup {None}
  /\ call \in [Session -> [pc : {"idle", "create", "fetch", "update", "append"},
                           txn : Txn \cup {None}, order : Order \cup {None},
                           payment : Payment \cup {None},
                           status : {None, "pending_settlement", "settled", "failed"}]]
  /\ orders \in [Order -> [txn : Txn, amount : Amount] \cup {None}]
  /\ payments \in [Payment -> [order : Order, amount : Amount,
                               status : {"created", "captured", "failed"}] \cup {None}]
  /\ events \subseteq [type : EventType, order : Order, payment : Payment,
                       amount : Amount \cup {None}, signed : {TRUE}]

IsSettled(t) == rows[t] # None /\ rows[t].status = "settled"

\* A settled transaction has a captured payment, for its own order and for the
\* amount that was authorized (webhooks.py:7-10), whatever was lost, late or
\* repeated.
SettledIsCaptured ==
  \A t \in Txn : IsSettled(t) =>
    /\ orders[rows[t].order] = [txn |-> t, amount |-> rows[t].amount]
    /\ payments[rows[t].payment] =
         [order |-> rows[t].order, amount |-> rows[t].amount, status |-> "captured"]

\* The customer is charged at most once for a transaction, also when settle()
\* is retried after a lost answer and Razorpay holds two orders for it
\* (settlement.py:6-7, "a retry can never produce a double charge").
NoDoubleCharge ==
  \A p, q \in Payment :
    /\ payments[p] # None /\ payments[p].status = "captured"
    /\ payments[q] # None /\ payments[q].status = "captured"
    /\ orders[payments[p].order].txn = orders[payments[q].order].txn
    => p = q

\* Only what was allowed and is not on hold is ever ordered or paid
\* (settlement.py:43-48).
OnlyAuthorizedOrdered ==
  \A o \in Order : orders[o] # None =>
    LET row == rows[orders[o].txn]
    IN row # None => row.decision = "ALLOW" /\ row.status # "review_hold"

\* What is settled stays settled, with the same order and payment, until the
\* database itself is deleted (webhooks.py:10).
SettledStays ==
  [][\A t \in Txn : IsSettled(t) => rows'[t] = rows[t] \/ restarts' # restarts]_vars

\* When no call is under way and nothing failed, the audit log has the entry of
\* each row's present settlement state (settlement.py:61-64,83-87;
\* webhooks.py:90-102).
SettlementAudited ==
  api_lock = None /\ faults = 0 =>
    \A t \in Txn :
      rows[t] # None /\ rows[t].status \in {"pending_settlement", "settled", "failed"} =>
        \E e \in audit : /\ e.txn = t /\ e.order = rows[t].order /\ e.status = rows[t].status
                         /\ e.status = "settled" => e.payment = rows[t].payment

\* Razorpay is asked for one order per transaction (settlement.py:6-7, "we
\* return it instead of creating a second one").
OneOrderPerTransaction ==
  \A o, x \in Order :
    orders[o] # None /\ orders[x] # None /\ orders[o].txn = orders[x].txn => o = x

\* A payment that Razorpay captured for the right amount is in the end recorded
\* as the settlement of its transaction (webhooks.py:7-9).
CapturedSettles ==
  \A p \in Payment, t \in Txn :
    (/\ payments[p] # None
     /\ payments[p].status = "captured"
     /\ orders[payments[p].order] = [txn |-> t, amount |-> payments[p].amount])
    ~> IsSettled(t)

\* Refinement: while the database lives, the rows are a PaymentLedger.
Pays == INSTANCE PaymentLedger WITH
          order    <- [t \in Txn |-> IF rows[t] = None THEN None ELSE rows[t].order],
          paid     <- [t \in Txn |-> IF IsSettled(t) THEN rows[t].payment ELSE None],
          captured <- {[payment |-> p, order |-> payments[p].order, amount |-> payments[p].amount] :
                         p \in {q \in Payment : payments[q] # None /\ payments[q].status = "captured"}}

ImplementsPaymentLedger == Pays!Spec
=============================================================================
