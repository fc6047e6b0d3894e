--------------------------- MODULE SettlementProofs ---------------------------
(***************************************************************************)
(* What the runs of Settlement show on two transactions, for any number of *)
(* threads, transactions, orders, payments, failures and restarts.         *)
(***************************************************************************)
EXTENDS Settlement, TLAPS

Outcome == {"pending_settlement", "settled", "failed"}
Recorded(t) == rows[t] # None
Working(s) == call[s].pc # "idle"

\* The captured payment of order o for amount a.
PaidBy(p, o, a) ==
  /\ p \in Payment /\ payments[p] # None
  /\ payments[p].status = "captured" /\ payments[p].order = o /\ payments[p].amount = a

\* The lock is held by the thread that has a call, and by no other.
LockInv == \A s \in Session : Working(s) <=> api_lock = s

\* A call knows the row as it still is, because nobody else writes.
CallFits(c) ==
  /\ c.txn \in Txn /\ c.txn \in used /\ rows[c.txn] # None
  /\ c.pc = "create" =>
       /\ rows[c.txn].decision = "ALLOW" /\ rows[c.txn].status # "review_hold"
       /\ rows[c.txn].order = None /\ c.status = "pending_settlement"
       /\ c.order = None /\ c.payment = None
  /\ c.pc # "create" => c.order \in Order
  /\ c.pc \in {"fetch", "update"} =>
       /\ rows[c.txn].decision = "ALLOW" /\ rows[c.txn].status \notin {"settled", "review_hold"}
       /\ c.status # "pending_settlement" => rows[c.txn].order = c.order
       /\ c.status = "pending_settlement" => rows[c.txn].order = None /\ c.payment = None
  /\ c.pc = "fetch" => c.status = "settled" /\ c.payment = None
  /\ c.pc = "update" =>
       /\ c.status \in Outcome
       /\ orders[c.order] # None
       /\ orders[c.order].txn = c.txn /\ orders[c.order].amount = rows[c.txn].amount
       /\ c.status = "settled" => PaidBy(c.payment, c.order, rows[c.txn].amount)
  /\ c.pc = "append" =>
       /\ c.status \in Outcome
       /\ rows[c.txn].status = c.status /\ rows[c.txn].order = c.order
       /\ c.status = "settled" => rows[c.txn].payment = c.payment

CallInv == \A s \in Session : Working(s) => CallFits(call[s])

\* What a row tells is so at Razorpay.
RowInv ==
  \A t \in Txn : Recorded(t) =>
    /\ t \in used
    /\ rows[t].amount = Price[t]
    /\ rows[t].status \in Outcome => rows[t].order # None
    /\ rows[t].order # None =>
         /\ rows[t].order \in Order /\ orders[rows[t].order] # None
         /\ orders[rows[t].order].txn = t /\ orders[rows[t].order].amount = rows[t].amount
         /\ rows[t].decision = "ALLOW" /\ rows[t].status # "review_hold"
    /\ rows[t].status = "settled" => PaidBy(rows[t].payment, rows[t].order, rows[t].amount)

\* An order is of a transaction that was recorded once; if it still is, it was
\* allowed and not on hold.
OrderInv ==
  \A o \in Order : orders[o] # None =>
    /\ orders[o].txn \in used
    /\ Recorded(orders[o].txn) =>
         rows[orders[o].txn].decision = "ALLOW" /\ rows[orders[o].txn].status # "review_hold"

\* One order of a transaction at most reached the customer: the one in the row.
OfferInv ==
  /\ \A o \in offered :
       /\ orders[o] # None
       /\ Recorded(orders[o].txn) => rows[orders[o].txn].order = o
  /\ \A o, x \in offered : orders[o].txn = orders[x].txn => o = x

\* Payments are for offered orders, one capture for each.
PayInv ==
  /\ \A p \in Payment : payments[p] # None => payments[p].order \in offered
  /\ \A p, q \in Payment :
       /\ payments[p] # None /\ payments[p].status = "captured"
       /\ payments[q] # None /\ payments[q].status = "captured"
       /\ payments[p].order = payments[q].order
       => p = q

\* An event that announces a capture follows it.
EventInv ==
  \A e \in events :
    /\ payments[e.payment] # None /\ payments[e.payment].order = e.order
    /\ e.type \in {"payment.captured", "order.paid"} =>
         /\ payments[e.payment].status = "captured"
         /\ e.amount # None => e.amount = payments[e.payment].amount

\* Until something fails, what is not in the audit log yet is about to be.
AuditInv ==
  faults = 0 =>
    \A t \in Txn : Recorded(t) /\ rows[t].status \in Outcome =>
      \/ \E s \in Session : call[s].pc = "append" /\ call[s].txn = t
      \/ \E e \in audit : /\ e.txn = t /\ e.order = rows[t].order /\ e.status = rows[t].status
                          /\ e.status = "settled" => e.payment = rows[t].payment

Inv == TypeOK /\ LockInv /\ CallInv /\ RowInv /\ OrderInv /\ OfferInv /\ PayInv /\ EventInv /\ AuditInv
-----------------------------------------------------------------------------
\* Helpers.

CallOf == [pc : {"idle", "create", "fetch", "update", "append"},
           txn : Txn \cup {None}, order : Order \cup {None}, payment : Payment \cup {None},
           status : {None, "pending_settlement", "settled", "failed"}]

\* None is nothing that the settlement names, and prices are amounts.
LEMMA Nulls ==
  /\ None \notin Session /\ None \notin Txn /\ None \notin Order /\ None \notin Payment
  /\ None \notin Amount
  /\ \A t \in Txn : Price[t] \in Amount
  BY SettlementAssumption

\* None is no row.
LEMMA NullRow == None \notin Rows
  BY NullAssumption

\* A session that does nothing.
LEMMA IdleIsACall == Idle \in CallOf /\ Idle.pc = "idle"
  BY DEF Idle, CallOf

\* At most one call is under way.
LEMMA OneCall ==
  ASSUME LockInv, NEW s \in Session, NEW r \in Session, Working(s), Working(r)
  PROVE  s = r
  BY DEF LockInv

\* Starting and ending a call.
LEMMA Entering ==
  ASSUME TypeOK, LockInv, NEW s \in Session, NEW c \in CallOf, c.pc # "idle", Enter(s, c)
  PROVE  /\ LockInv' /\ call' \in [Session -> CallOf] /\ api_lock' = s
         /\ call'[s] = c /\ \A r \in Session : r # s => call'[r].pc = "idle"
         /\ \A r \in Session : call[r].pc = "idle"
  BY Nulls DEF Enter, LockInv, Working, TypeOK, CallOf

\* A call that ends gives the lock back and leaves nobody in a call.
LEMMA Leaving ==
  ASSUME TypeOK, LockInv, NEW s \in Session, Working(s), Leave(s)
  PROVE  /\ LockInv' /\ call' \in [Session -> CallOf] /\ api_lock' = None
         /\ \A r \in Session : call'[r].pc = "idle"
  BY Nulls, IdleIsACall DEF Leave, LockInv, Working, TypeOK, CallOf

\* The row that an UPDATE leaves.
LEMMA UpdatedRow ==
  ASSUME TypeOK, NEW s \in Session, call[s].txn \in Txn, rows[call[s].txn] # None,
         call[s].status \in Outcome, UpdateRow(s)
  PROVE  LET c == call[s]
             old == rows[c.txn]
             new == rows'[c.txn]
         IN /\ rows' \in [Txn -> Rows \cup {None}]
            /\ \A t \in Txn : t # c.txn => rows'[t] = rows[t]
            /\ new \in Rows /\ old \in Rows
            /\ new.amount = old.amount /\ new.decision = old.decision /\ new.status = c.status
            /\ new.order = IF c.order = None THEN old.order ELSE c.order
            /\ new.payment = IF c.payment = None THEN old.payment ELSE c.payment
<1> DEFINE c == call[s]
           old == rows[c.txn]
<1>1. old \in Rows /\ c \in CallOf
  BY DEF TypeOK, CallOf
<1>2. Updated(old, c) \in Rows
  BY <1>1 DEF Updated, COALESCE, Rows, CallOf, Outcome
<1>3. rows' = [rows EXCEPT ![c.txn] = Updated(old, c)]
  BY DEF UpdateRow
<1>4. rows \in [Txn -> Rows \cup {None}]
  BY DEF TypeOK
<1>5. /\ Updated(old, c).amount = old.amount /\ Updated(old, c).decision = old.decision
      /\ Updated(old, c).status = c.status
      /\ Updated(old, c).order = IF c.order = None THEN old.order ELSE c.order
      /\ Updated(old, c).payment = IF c.payment = None THEN old.payment ELSE c.payment
  BY <1>1 DEF Updated, COALESCE, Rows
<1>6. QED
  BY <1>1, <1>2, <1>3, <1>4, <1>5
-----------------------------------------------------------------------------
\* The empty database satisfies the invariant.
LEMMA InitInv == Init => Inv
<1> SUFFICES ASSUME Init PROVE Inv
  OBVIOUS
<1>1. TypeOK
  BY SettlementAssumption DEF Init, TypeOK, Idle
<1>2. LockInv /\ CallInv
  BY Nulls DEF Init, LockInv, CallInv, CallFits, Working, Idle
<1>3. RowInv /\ OrderInv /\ OfferInv /\ PayInv /\ EventInv /\ AuditInv
  BY DEF Init, RowInv, OrderInv, OfferInv, PayInv, EventInv, AuditInv, Recorded
<1>4. QED
  BY <1>1, <1>2, <1>3 DEF Inv
-----------------------------------------------------------------------------
\* Every action keeps the invariant.

\* A new row has its price and no order.
LEMMA AuthorizeInv ==
  ASSUME Inv, NEW t \in Txn, Authorize(t)
  PROVE  Inv'
<1> USE DEF Inv
<1>1. PICK a \in Authorized :
        rows' = [rows EXCEPT ![t] = [amount |-> Price[t], decision |-> a.decision,
                                     status |-> a.status, order |-> None, payment |-> None]]
  BY DEF Authorize, RecordRow
<1> DEFINE new == [amount |-> Price[t], decision |-> a.decision, status |-> a.status,
                   order |-> None, payment |-> None]
<1>2. /\ new \in Rows /\ new.amount = Price[t] /\ new.order = None
      /\ new.status \notin Outcome
  BY Nulls DEF Authorized, Rows, Outcome
<1>3. rows \in [Txn -> Rows \cup {None}]
  BY DEF TypeOK
<1>4. rows'[t] = new /\ \A u \in Txn : u # t => rows'[u] = rows[u]
  BY <1>1, <1>3
<1> HIDE DEF new
<1>5. /\ api_lock = None /\ t \notin used /\ used' = used \cup {t}
      /\ UNCHANGED <<audit, api_lock, call, orders, payments, events, offered, faults, restarts>>
  BY DEF Authorize, razorpay, bounds
<1>6. \A s \in Session : ~Working(s) /\ ~Working(s)'
  BY <1>5, Nulls DEF LockInv, Working
<1>7. TypeOK'
  BY <1>1, <1>2, <1>3, <1>5 DEF TypeOK, new
<1>8. LockInv' /\ CallInv'
  BY <1>5, <1>6 DEF LockInv, CallInv, CallFits, Working
<1>9. RowInv'
  BY <1>2, <1>4, <1>5 DEF RowInv, Recorded, PaidBy, Outcome
<1>10. OrderInv' /\ OfferInv'
  BY <1>4, <1>5 DEF OrderInv, OfferInv, Recorded, TypeOK
<1>11. PayInv' /\ EventInv'
  BY <1>5 DEF PayInv, EventInv
<1>12. AuditInv'
  BY <1>2, <1>4, <1>5 DEF AuditInv, Recorded
<1>13. QED
  BY <1>7, <1>8, <1>9, <1>10, <1>11, <1>12

\* An order offered again is the one on record.
LEMMA ReturnExistingInv ==
  ASSUME Inv, NEW t \in Txn, ReturnExisting(t)
  PROVE  Inv'
<1> USE DEF Inv
<1>1. /\ rows[t] # None /\ rows[t].order # None /\ offered' = offered \cup {rows[t].order}
      /\ UNCHANGED <<rows, used, audit, api_lock, call, orders, payments, events, faults, restarts>>
  BY DEF ReturnExisting, MaySettle, razorpay, bounds
<1>2. rows[t].order \in Order /\ orders[rows[t].order] # None /\ orders[rows[t].order].txn = t
  BY <1>1 DEF RowInv, Recorded
<1>3. TypeOK'
  BY <1>1, <1>2 DEF TypeOK
<1>4. LockInv' /\ CallInv'
  BY <1>1 DEF LockInv, CallInv, CallFits, Working, PaidBy
<1>5. RowInv' /\ OrderInv' /\ PayInv' /\ EventInv' /\ AuditInv'
  BY <1>1 DEF RowInv, OrderInv, PayInv, EventInv, AuditInv, Recorded, PaidBy
<1>6. OfferInv'
  BY <1>1, <1>2 DEF OfferInv, Recorded
<1>7. QED
  BY <1>3, <1>4, <1>5, <1>6

\* A call that begins changes nothing but the lock and the call.
LEMMA EnterInv ==
  ASSUME Inv, NEW s \in Session, NEW c \in CallOf, c.pc \notin {"idle", "append"}, Enter(s, c),
         CallInv',
         UNCHANGED <<rows, used, audit, razorpay, offered, bounds>>
  PROVE  Inv'
<1> USE DEF Inv
<1>1. /\ LockInv' /\ call' \in [Session -> CallOf] /\ api_lock' = s
      /\ \A r \in Session : call[r].pc = "idle"
  BY Entering
<1>2. UNCHANGED <<rows, used, audit, orders, payments, events, offered, faults, restarts>>
  BY DEF razorpay, bounds
<1>3. TypeOK'
  BY <1>1, <1>2 DEF TypeOK, CallOf
<1>4. RowInv' /\ OrderInv' /\ OfferInv' /\ PayInv' /\ EventInv'
  BY <1>2 DEF RowInv, OrderInv, OfferInv, PayInv, EventInv, Recorded, PaidBy
<1>5. AuditInv'
  BY <1>1, <1>2 DEF AuditInv, Recorded
<1>6. QED
  BY <1>1, <1>3, <1>4, <1>5

\* settle() begins at a row without an order.
LEMMA settleInv ==
  ASSUME Inv, NEW s \in Session, NEW t \in Txn, settle(s, t)
  PROVE  Inv'
<1> USE DEF Inv
<1> DEFINE c == [Idle EXCEPT !.pc = "create", !.txn = t, !.status = "pending_settlement"]
<1>2. /\ c \in CallOf /\ c.pc = "create" /\ c.txn = t /\ c.order = None /\ c.payment = None
      /\ c.status = "pending_settlement"
  BY DEF CallOf, Idle
<1>3. /\ Enter(s, c) /\ rows[t] # None /\ rows[t].decision = "ALLOW"
      /\ rows[t].status # "review_hold" /\ rows[t].order = None
      /\ UNCHANGED <<rows, used, audit, razorpay, offered, bounds>>
  BY DEF settle, MaySettle
<1> HIDE DEF c
<1>5. call'[s] = c /\ \A r \in Session : r # s => call'[r].pc = "idle"
  BY <1>2, <1>3, Entering
<1>6. t \in used
  BY <1>3 DEF RowInv, Recorded
<1>7. CallInv'
  BY <1>2, <1>3, <1>5, <1>6 DEF CallInv, CallFits, Working
<1>8. QED
  BY <1>2, <1>3, <1>7, EnterInv

\* reconcile() begins with the row's own order.
LEMMA reconcileInv ==
  ASSUME Inv, NEW s \in Session, NEW t \in Txn, reconcile(s, t)
  PROVE  Inv'
<1> USE DEF Inv
<1> DEFINE c == [Idle EXCEPT !.pc = "fetch", !.txn = t, !.order = rows[t].order,
                              !.status = "settled"]
<1>2. /\ rows[t] # None /\ rows[t].order # None /\ rows[t].status # "settled"
      /\ Enter(s, c) /\ UNCHANGED <<rows, used, audit, razorpay, offered, bounds>>
  BY DEF reconcile
<1>3. /\ t \in used /\ rows[t].order \in Order /\ rows[t].decision = "ALLOW"
      /\ rows[t].status # "review_hold"
  BY <1>2 DEF RowInv, Recorded
<1>4. c \in CallOf /\ c.pc = "fetch" /\ c.txn = t /\ c.order = rows[t].order /\ c.payment = None
      /\ c.status = "settled"
  BY <1>3 DEF CallOf, Idle
<1> HIDE DEF c
<1>5. call'[s] = c /\ \A r \in Session : r # s => call'[r].pc = "idle"
  BY <1>2, <1>4, Entering
<1>6. CallInv'
  BY <1>2, <1>3, <1>4, <1>5 DEF CallInv, CallFits, Working
<1>7. QED
  BY <1>2, <1>4, <1>6, EnterInv

\* A webhook begins with an order that it found on record, or says nothing.
LEMMA razorpay_webhookInv ==
  ASSUME Inv, NEW s \in Session, NEW e \in events \cup Unsigned, razorpay_webhook(s, e)
  PROVE  Inv'
<1> USE DEF Inv
<1>1. PICK t \in Txn :
        /\ Concerns(e, t)
        /\ Enter(s, [pc |-> "update", txn |-> t, order |-> e.order, payment |-> e.payment,
                     status |-> IF Captures(rows[t], e) THEN "settled" ELSE "failed"])
  BY DEF razorpay_webhook
<1> DEFINE c == [pc |-> "update", txn |-> t, order |-> e.order, payment |-> e.payment,
                 status |-> IF Captures(rows[t], e) THEN "settled" ELSE "failed"]
<1>2. e \in events
  BY DEF razorpay_webhook, verify_webhook_signature, Unsigned
<1>3. e.order \in Order /\ e.payment \in Payment
  BY <1>2 DEF TypeOK
<1>4. /\ rows[t] # None /\ rows[t].order = e.order /\ AmountMatches(rows[t], e)
      /\ Captures(rows[t], e) \/ Fails(rows[t], e)
  BY <1>1 DEF Concerns
<1>5. rows[t].status # "settled"
  BY <1>4 DEF Captures, Fails
<1>6. /\ t \in used /\ rows[t].decision = "ALLOW" /\ rows[t].status # "review_hold"
      /\ orders[e.order] # None /\ orders[e.order].txn = t /\ orders[e.order].amount = rows[t].amount
  BY <1>3, <1>4, Nulls DEF RowInv, Recorded
<1>7. Captures(rows[t], e) => PaidBy(e.payment, e.order, rows[t].amount)
  BY <1>2, <1>3, <1>4 DEF Captures, AmountMatches, EventInv, PaidBy
<1>8. /\ c \in CallOf /\ c.pc = "update" /\ c.txn = t /\ c.order = e.order
      /\ c.payment = e.payment /\ c.status \in {"settled", "failed"}
      /\ c.status = "settled" => Captures(rows[t], e)
  BY <1>3 DEF CallOf
<1>9. UNCHANGED <<rows, used, audit, razorpay, offered, bounds>>
  BY DEF razorpay_webhook
<1> HIDE DEF c
<1>10. Enter(s, c)
  BY <1>1 DEF c
<1>11. call'[s] = c /\ \A r \in Session : r # s => call'[r].pc = "idle"
  BY <1>8, <1>10, Entering
<1>12. CallInv'
  BY <1>3, <1>4, <1>5, <1>6, <1>7, <1>8, <1>9, <1>11
     DEF CallInv, CallFits, Working, PaidBy, Outcome, razorpay
<1>13. QED
  BY <1>8, <1>9, <1>10, <1>12, EnterInv

\* A call that ends without a write, or after one of its writes.
LEMMA create_orderInv ==
  ASSUME Inv, NEW s \in Session, create_order(s)
  PROVE  Inv'
<1> USE DEF Inv
<1>1. /\ call[s].pc = "create" /\ Working(s)
      /\ UNCHANGED <<rows, used, audit, payments, events, offered, restarts>>
  BY DEF create_order, Working
<1> DEFINE c == call[s]
<1>2. /\ c.txn \in Txn /\ c.txn \in used /\ rows[c.txn] # None
      /\ rows[c.txn].decision = "ALLOW" /\ rows[c.txn].status # "review_hold"
      /\ rows[c.txn].order = None /\ c.status = "pending_settlement" /\ c.payment = None
      /\ rows[c.txn].amount = Price[c.txn] /\ rows[c.txn].status \notin Outcome
      /\ \A r \in Session : r # s => call[r].pc = "idle"
  BY <1>1, OneCall DEF CallInv, CallFits, RowInv, Recorded, Working
<1>3. faults' = faults \/ faults' = faults + 1
  BY DEF create_order
<1>4. \/ UNCHANGED orders
      \/ \E o \in Order :
           /\ orders[o] = None
           /\ orders' = [orders EXCEPT ![o] = [txn |-> c.txn, amount |-> Price[c.txn]]]
  BY DEF create_order
<1>5. /\ orders' \in [Order -> [txn : Txn, amount : Amount] \cup {None}]
      /\ \A o \in Order : orders[o] # None => orders'[o] = orders[o]
      /\ \A o \in Order : orders'[o] # orders[o] => orders'[o].txn = c.txn
  BY <1>2, <1>4, Nulls DEF TypeOK
<1>6. RowInv'
  BY <1>1, <1>5 DEF RowInv, Recorded, PaidBy
<1>7. OrderInv'
  BY <1>1, <1>2, <1>5 DEF OrderInv, Recorded, TypeOK
<1>8. OfferInv' /\ PayInv' /\ EventInv'
  BY <1>1, <1>5 DEF OfferInv, PayInv, EventInv, Recorded, TypeOK
<1>9. CASE Leave(s)
  <2>1. LockInv' /\ call' \in [Session -> CallOf] /\ api_lock' = None
        /\ \A r \in Session : call'[r].pc = "idle"
    BY <1>1, <1>9, Leaving
  <2>2. TypeOK'
    <3>1. faults' \in Nat
      BY <1>3 DEF TypeOK
    <3>2. QED
      BY <1>1, <1>5, <2>1, <3>1 DEF TypeOK, CallOf
  <2>3. CallInv'
    BY <2>1 DEF CallInv, CallFits, Working
  <2>4. AuditInv'
    <3> SUFFICES ASSUME faults' = 0 PROVE AuditInv'
      BY DEF AuditInv
    <3>1. faults = 0
      BY <1>3 DEF TypeOK
    <3>2. \A r \in Session : call[r].pc # "append"
      BY <1>1, <1>2
    <3>3. QED
      BY <1>1, <2>1, <3>1, <3>2 DEF AuditInv, Recorded
  <2>5. QED
    BY <1>6, <1>7, <1>8, <2>1, <2>2, <2>3, <2>4
<1>10. CASE ~Leave(s)
  <2>1. PICK o \in Order :
          /\ orders[o] = None
          /\ orders' = [orders EXCEPT ![o] = [txn |-> c.txn, amount |-> Price[c.txn]]]
          /\ call' = [call EXCEPT ![s].pc = "update", ![s].order = o]
          /\ UNCHANGED <<api_lock, faults>>
    BY <1>10 DEF create_order
  <2>2. /\ orders'[o] = [txn |-> c.txn, amount |-> Price[c.txn]]
        /\ orders'[o] # None
    BY <1>2, <2>1, Nulls, NullAssumption DEF TypeOK
  <2>3. /\ call'[s].pc = "update" /\ call'[s].order = o /\ call'[s].txn = c.txn
        /\ call'[s].status = "pending_settlement" /\ call'[s].payment = None
        /\ \A r \in Session : r # s => call'[r] = call[r]
        /\ call' \in [Session -> CallOf]
    <3> DEFINE new == [c EXCEPT !.pc = "update", !.order = o]
    <3>1. call \in [Session -> CallOf] /\ c \in CallOf
      BY DEF TypeOK, CallOf
    <3>2. /\ new \in CallOf /\ new.pc = "update" /\ new.order = o /\ new.txn = c.txn
          /\ new.status = c.status /\ new.payment = c.payment
      BY <3>1 DEF CallOf
    <3>3. call' = [call EXCEPT ![s] = new]
      BY <2>1, <3>1
    <3> HIDE DEF new
    <3>4. QED
      BY <1>2, <3>1, <3>2, <3>3
  <2>4. TypeOK'
    BY <1>1, <1>5, <2>1, <2>3 DEF TypeOK, CallOf
  <2>5. LockInv'
    BY <1>1, <1>2, <2>1, <2>3 DEF LockInv, Working
  <2>6. CallInv'
    <3>1. /\ rows' = rows /\ used' = used /\ orders'[o].txn = c.txn
          /\ orders'[o].amount = rows[c.txn].amount
      BY <1>1, <1>2, <2>2
    <3>2. \A r \in Session : Working(r)' => r = s
      BY <1>2, <2>3 DEF Working
    <3>3. CallFits(call[s])'
      BY <1>2, <2>2, <2>3, <3>1 DEF CallFits, Outcome
    <3>4. QED
      BY <3>2, <3>3 DEF CallInv
  <2>7. AuditInv'
    BY <1>1, <1>2, <2>1, <2>3 DEF AuditInv, Recorded
  <2>8. QED
    BY <1>6, <1>7, <1>8, <2>4, <2>5, <2>6, <2>7
<1>11. QED
  BY <1>9, <1>10

\* What is fetched is a captured payment of the order, or nothing.
LEMMA order_paymentsInv ==
  ASSUME Inv, NEW s \in Session, order_payments(s)
  PROVE  Inv'
<1> USE DEF Inv
<1>1. /\ call[s].pc = "fetch" /\ Working(s)
      /\ UNCHANGED <<rows, used, audit, orders, payments, events, offered, faults, restarts>>
  BY DEF order_payments, Working, razorpay, bounds
<1> DEFINE c == call[s]
<1>2. /\ c.txn \in Txn /\ c.txn \in used /\ rows[c.txn] # None
      /\ rows[c.txn].decision = "ALLOW" /\ rows[c.txn].status \notin {"settled", "review_hold"}
      /\ rows[c.txn].order = c.order /\ c.order \in Order /\ c.status = "settled"
      /\ \A r \in Session : r # s => call[r].pc = "idle"
  BY <1>1, OneCall DEF CallInv, CallFits, Working
<1>3. /\ orders[c.order] # None /\ orders[c.order].txn = c.txn
      /\ orders[c.order].amount = rows[c.txn].amount
  BY <1>2, Nulls DEF RowInv, Recorded
<1>4. RowInv' /\ OrderInv' /\ OfferInv' /\ PayInv' /\ EventInv'
  BY <1>1 DEF RowInv, OrderInv, OfferInv, PayInv, EventInv, Recorded, PaidBy
<1>5. CASE Leave(s)
  <2>1. LockInv' /\ call' \in [Session -> CallOf] /\ api_lock' = None
        /\ \A r \in Session : call'[r].pc = "idle"
    BY <1>1, <1>5, Leaving
  <2>2. TypeOK'
    BY <1>1, <2>1 DEF TypeOK, CallOf
  <2>3. CallInv'
    BY <2>1 DEF CallInv, CallFits, Working
  <2>4. AuditInv'
    BY <1>1, <1>2, <2>1 DEF AuditInv, Recorded
  <2>5. QED
    BY <1>4, <2>1, <2>2, <2>3, <2>4
<1>6. CASE ~Leave(s)
  <2>1. PICK p \in Payment :
          /\ Settles(p, c.order, rows[c.txn].amount)
          /\ call' = [call EXCEPT ![s].pc = "update", ![s].payment = p]
          /\ UNCHANGED api_lock
    BY <1>6 DEF order_payments
  <2>2. /\ call'[s].pc = "update" /\ call'[s].order = c.order /\ call'[s].txn = c.txn
        /\ call'[s].status = "settled" /\ call'[s].payment = p
        /\ \A r \in Session : r # s => call'[r] = call[r]
        /\ call' \in [Session -> CallOf]
    <3> DEFINE new == [c EXCEPT !.pc = "update", !.payment = p]
    <3>1. call \in [Session -> CallOf] /\ c \in CallOf
      BY DEF TypeOK, CallOf
    <3>2. /\ new \in CallOf /\ new.pc = "update" /\ new.order = c.order /\ new.txn = c.txn
          /\ new.status = c.status /\ new.payment = p
      BY <3>1 DEF CallOf
    <3>3. call' = [call EXCEPT ![s] = new]
      BY <2>1, <3>1
    <3> HIDE DEF new
    <3>4. QED
      BY <1>2, <3>1, <3>2, <3>3
  <2>3. TypeOK'
    BY <1>1, <2>1, <2>2 DEF TypeOK, CallOf
  <2>4. LockInv'
    BY <1>1, <1>2, <2>1, <2>2 DEF LockInv, Working
  <2>5. PaidBy(p, c.order, rows[c.txn].amount)
    BY <2>1 DEF Settles, PaidBy
  <2>6. CallInv'
    <3> SUFFICES ASSUME NEW r \in Session, Working(r)'
                 PROVE  r = s
      BY <1>1, <1>2, <1>3, <2>2, <2>5 DEF CallInv, CallFits, Outcome, PaidBy
    <3>1. QED
      BY <1>2, <2>2 DEF Working
  <2>7. AuditInv'
    BY <1>1, <1>2, <2>2 DEF AuditInv, Recorded
  <2>8. QED
    BY <1>4, <2>3, <2>4, <2>6, <2>7
<1>7. QED
  BY <1>5, <1>6

\* The UPDATE, wherever it ends up: in its own commit or in an open transaction.
LEMMA RowWritten ==
  ASSUME Inv, NEW s \in Session, call[s].pc = "update", UpdateRow(s),
         UNCHANGED <<used, orders, payments, offered>>
  PROVE  /\ rows' \in [Txn -> Rows \cup {None}]
         /\ RowInv' /\ OrderInv' /\ OfferInv'
         /\ LET c == call[s] IN
            /\ rows'[c.txn].status = c.status /\ rows'[c.txn].order = c.order
            /\ rows'[c.txn] # None
            /\ c.status = "settled" => rows'[c.txn].payment = c.payment
            /\ \A t \in Txn : t # c.txn => rows'[t] = rows[t]
<1> USE DEF Inv
<1> DEFINE c == call[s]
           old == rows[c.txn]
           new == rows'[c.txn]
<1>1. /\ c.txn \in Txn /\ c.txn \in used /\ old # None /\ c.order \in Order
      /\ old.decision = "ALLOW" /\ c.status \in Outcome
      /\ c.status # "pending_settlement" => old.order = c.order
      /\ c.status = "pending_settlement" => old.order = None
      /\ orders[c.order] # None /\ orders[c.order].txn = c.txn
      /\ orders[c.order].amount = old.amount
      /\ c.status = "settled" => PaidBy(c.payment, c.order, old.amount)
  BY DEF CallInv, CallFits, Working
<1>2. /\ rows' \in [Txn -> Rows \cup {None}]
      /\ \A t \in Txn : t # c.txn => rows'[t] = rows[t]
      /\ new \in Rows /\ new.amount = old.amount /\ new.decision = old.decision
      /\ new.status = c.status
      /\ new.order = IF c.order = None THEN old.order ELSE c.order
      /\ new.payment = IF c.payment = None THEN old.payment ELSE c.payment
  BY <1>1, UpdatedRow
<1>3. new.order = c.order /\ (c.status = "settled" => new.payment = c.payment)
  BY <1>1, <1>2, Nulls DEF PaidBy
<1>4. rows'[c.txn] # None
  BY <1>2, NullRow
<1>5. RowInv'
  <2> SUFFICES ASSUME NEW t \in Txn, rows'[t] # None
               PROVE  /\ t \in used /\ rows'[t].amount = Price[t]
                      /\ rows'[t].status \in Outcome => rows'[t].order # None
                      /\ rows'[t].order # None =>
                           /\ rows'[t].order \in Order /\ orders[rows'[t].order] # None
                           /\ orders[rows'[t].order].txn = t
                           /\ orders[rows'[t].order].amount = rows'[t].amount
                           /\ rows'[t].decision = "ALLOW" /\ rows'[t].status # "review_hold"
                      /\ rows'[t].status = "settled" =>
                           PaidBy(rows'[t].payment, rows'[t].order, rows'[t].amount)
    BY DEF RowInv, Recorded, PaidBy
  <2>1. CASE t = c.txn
    BY <1>1, <1>2, <1>3, <2>1, Nulls DEF RowInv, Recorded, Outcome
  <2>2. CASE t # c.txn
    BY <1>2, <2>2 DEF RowInv, Recorded
  <2>3. QED
    BY <2>1, <2>2
<1>6. OrderInv'
  BY <1>1, <1>2 DEF OrderInv, Recorded, Outcome, TypeOK
<1>7. OfferInv'
  BY <1>1, <1>2, <1>3, Nulls DEF OfferInv, Recorded, TypeOK
<1>8. QED
  BY <1>2, <1>3, <1>4, <1>5, <1>6, <1>7

\* The row takes the state that the call has established.
LEMMA set_transaction_settlementInv ==
  ASSUME Inv, NEW s \in Session, set_transaction_settlement(s)
  PROVE  Inv'
<1> USE DEF Inv
<1> DEFINE c == call[s]
<1>1. /\ c.pc = "update" /\ Working(s) /\ UpdateRow(s)
      /\ call' = [call EXCEPT ![s].pc = "append"]
      /\ UNCHANGED <<used, audit, api_lock, orders, payments, events, offered, faults, restarts>>
  BY DEF set_transaction_settlement, Working, razorpay, bounds
<1>2. /\ rows' \in [Txn -> Rows \cup {None}]
      /\ RowInv' /\ OrderInv' /\ OfferInv'
      /\ rows'[c.txn].status = c.status /\ rows'[c.txn].order = c.order /\ rows'[c.txn] # None
      /\ c.status = "settled" => rows'[c.txn].payment = c.payment
      /\ \A t \in Txn : t # c.txn => rows'[t] = rows[t]
  BY <1>1, RowWritten
<1>3. /\ c.txn \in Txn /\ c.txn \in used /\ c.order \in Order /\ c.status \in Outcome
      /\ \A r \in Session : r # s => call[r].pc = "idle"
  BY <1>1, OneCall DEF CallInv, CallFits, Working
<1>4. /\ call'[s].pc = "append" /\ call'[s].txn = c.txn /\ call'[s].order = c.order
      /\ call'[s].status = c.status /\ call'[s].payment = c.payment
      /\ \A r \in Session : r # s => call'[r] = call[r]
      /\ call' \in [Session -> CallOf]
  <2> DEFINE new == [c EXCEPT !.pc = "append"]
  <2>1. call \in [Session -> CallOf] /\ c \in CallOf
    BY DEF TypeOK, CallOf
  <2>2. /\ new \in CallOf /\ new.pc = "append" /\ new.order = c.order /\ new.txn = c.txn
        /\ new.status = c.status /\ new.payment = c.payment
    BY <2>1 DEF CallOf
  <2>3. call' = [call EXCEPT ![s] = new]
    BY <1>1, <2>1
  <2> HIDE DEF new
  <2>4. QED
    BY <2>1, <2>2, <2>3
<1>5. TypeOK'
  BY <1>1, <1>2, <1>4 DEF TypeOK, CallOf
<1>6. LockInv'
  BY <1>1, <1>3, <1>4 DEF LockInv, Working
<1>7. CallInv'
  <2> SUFFICES ASSUME NEW r \in Session, Working(r)'
               PROVE  r = s
    BY <1>1, <1>2, <1>3, <1>4 DEF CallInv, CallFits
  <2>1. QED
    BY <1>3, <1>4 DEF Working
<1>8. PayInv' /\ EventInv'
  BY <1>1 DEF PayInv, EventInv
<1>9. AuditInv'
  BY <1>1, <1>2, <1>3, <1>4 DEF AuditInv, Recorded
<1>10. QED
  BY <1>2, <1>5, <1>6, <1>7, <1>8, <1>9

\* The entry tells of the row just written.
LEMMA append_eventInv ==
  ASSUME Inv, NEW s \in Session, append_event(s)
  PROVE  Inv'
<1> USE DEF Inv
<1> DEFINE c == call[s]
<1>1. /\ c.pc = "append" /\ Working(s) /\ Leave(s)
      /\ audit' = audit \cup {Entry(c)}
      /\ offered' = IF c.status = "pending_settlement" THEN offered \cup {c.order} ELSE offered
      /\ UNCHANGED <<rows, used, orders, payments, events, faults, restarts>>
  BY DEF append_event, Working, razorpay, bounds
<1>2. /\ c.txn \in Txn /\ rows[c.txn] # None /\ c.order \in Order /\ c.status \in Outcome
      /\ rows[c.txn].status = c.status /\ rows[c.txn].order = c.order
      /\ c.status = "settled" => rows[c.txn].payment = c.payment
      /\ \A r \in Session : r # s => call[r].pc = "idle"
  BY <1>1, OneCall DEF CallInv, CallFits, Working
<1>3. c \in CallOf
  BY DEF TypeOK, CallOf
<1>4. /\ LockInv' /\ call' \in [Session -> CallOf] /\ api_lock' = None
      /\ \A r \in Session : call'[r].pc = "idle"
  BY <1>1, Leaving
<1>5. /\ Entry(c) \in [txn : Txn, order : Order, payment : Payment \cup {None},
                      status : {"pending_settlement", "settled", "failed"}]
      /\ Entry(c).txn = c.txn /\ Entry(c).order = c.order /\ Entry(c).status = c.status
      /\ c.status = "settled" => Entry(c).payment = c.payment
  BY <1>2, <1>3 DEF Entry, CallOf, Outcome
<1>6. TypeOK'
  BY <1>1, <1>2, <1>4, <1>5 DEF TypeOK, CallOf
<1>7. CallInv'
  BY <1>4 DEF CallInv, Working
<1>8. RowInv' /\ OrderInv' /\ EventInv'
  BY <1>1 DEF RowInv, OrderInv, EventInv, Recorded, PaidBy
<1>9. OfferInv' /\ PayInv'
  <2>1. orders[c.order] # None /\ orders[c.order].txn = c.txn
    BY <1>2, Nulls DEF RowInv, Recorded
  <2>2. OfferInv'
    BY <1>1, <1>2, <2>1 DEF OfferInv, Recorded
  <2>3. PayInv'
    BY <1>1 DEF PayInv
  <2>4. QED
    BY <2>2, <2>3
<1>10. AuditInv'
  <2> SUFFICES ASSUME faults = 0, NEW t \in Txn, rows[t] # None, rows[t].status \in Outcome
               PROVE  \E e \in audit' :
                        /\ e.txn = t /\ e.order = rows[t].order /\ e.status = rows[t].status
                        /\ e.status = "settled" => e.payment = rows[t].payment
    BY <1>1 DEF AuditInv, Recorded
  <2>1. CASE t = c.txn
    BY <1>1, <1>2, <1>5, <2>1
  <2>2. CASE t # c.txn
    <3>1. ~ \E r \in Session : call[r].pc = "append" /\ call[r].txn = t
      BY <1>2, <2>2
    <3>2. QED
      BY <1>1, <3>1 DEF AuditInv, Recorded
  <2>3. QED
    BY <2>1, <2>2
<1>11. QED
  BY <1>4, <1>6, <1>7, <1>8, <1>9, <1>10

\* A failed write ends the call and changes no row.
LEMMA DatabaseErrorInv ==
  ASSUME Inv, NEW s \in Session, DatabaseError(s)
  PROVE  Inv'
<1> USE DEF Inv
<1> DEFINE c == call[s]
<1>1. /\ c.pc \in {"update", "append"} /\ Working(s) /\ Leave(s) /\ faults' = faults + 1
      /\ UNCHANGED <<used, orders, payments, events, offered, restarts>>
  BY DEF DatabaseError, Working, razorpay
<1>2. /\ LockInv' /\ call' \in [Session -> CallOf] /\ api_lock' = None
      /\ \A r \in Session : call'[r].pc = "idle"
  BY <1>1, Leaving
<1>3. faults' \in Nat /\ faults' # 0
  BY <1>1 DEF TypeOK
<1>4. /\ rows' \in [Txn -> Rows \cup {None}] /\ RowInv' /\ OrderInv' /\ OfferInv'
  <2>1. CASE c.pc = "update" /\ UpdateRow(s)
    BY <1>1, <2>1, RowWritten
  <2>2. CASE UNCHANGED rows
    BY <1>1, <2>2 DEF RowInv, OrderInv, OfferInv, Recorded, PaidBy, TypeOK
  <2>3. QED
    BY <2>1, <2>2 DEF DatabaseError
<1>5. audit' \subseteq [txn : Txn, order : Order, payment : Payment \cup {None},
                       status : {"pending_settlement", "settled", "failed"}]
  <2>1. audit' = audit \/ (c.pc = "append" /\ audit' = audit \cup {Entry(c)})
    BY DEF DatabaseError
  <2>2. /\ c.txn \in Txn /\ c.order \in Order /\ c.status \in Outcome \cup {"settled"}
        /\ c \in CallOf
    BY <1>1 DEF CallInv, CallFits, TypeOK, CallOf
  <2>3. Entry(c) \in [txn : Txn, order : Order, payment : Payment \cup {None},
                       status : {"pending_settlement", "settled", "failed"}]
    BY <2>2 DEF Entry, CallOf, Outcome
  <2>4. QED
    BY <2>1, <2>3 DEF TypeOK
<1>6. TypeOK'
  BY <1>1, <1>2, <1>3, <1>4, <1>5 DEF TypeOK, CallOf
<1>7. CallInv'
  BY <1>2 DEF CallInv, Working
<1>8. PayInv' /\ EventInv' /\ AuditInv'
  BY <1>1, <1>3 DEF PayInv, EventInv, AuditInv
<1>9. QED
  BY <1>2, <1>4, <1>6, <1>7, <1>8

\* A start of the program empties the database; Razorpay forgets nothing.
LEMMA RestartInv ==
  ASSUME Inv, Restart
  PROVE  Inv'
<1> USE DEF Inv
<1>1. /\ rows' = [t \in Txn |-> None] /\ audit' = {} /\ api_lock' = None
      /\ call' = [r \in Session |-> Idle]
      /\ UNCHANGED <<used, orders, payments, events, offered, faults>> /\ restarts' = restarts + 1
  BY DEF Restart, razorpay
<1>2. TypeOK'
  <2>1. restarts' \in Nat
    BY <1>1 DEF TypeOK
  <2>2. QED
    BY <1>1, <2>1, IdleIsACall DEF TypeOK, CallOf
<1>3. LockInv' /\ CallInv'
  BY <1>1, IdleIsACall, Nulls DEF LockInv, CallInv, Working
<1>4. RowInv' /\ AuditInv'
  BY <1>1 DEF RowInv, AuditInv, Recorded
<1>5. OrderInv' /\ OfferInv'
  BY <1>1 DEF OrderInv, OfferInv, Recorded, TypeOK
<1>6. PayInv' /\ EventInv'
  BY <1>1 DEF PayInv, EventInv
<1>7. QED
  BY <1>2, <1>3, <1>4, <1>5, <1>6
-----------------------------------------------------------------------------
\* Razorpay and the customer.  A step about one payment: what it does not
\* change, and what it must show of the payments.
LEMMA PaymentInv ==
  ASSUME Inv,
         UNCHANGED <<rows, used, audit, api_lock, call, orders, offered, faults, restarts>>,
         payments' \in [Payment -> [order : Order, amount : Amount,
                                    status : {"created", "captured", "failed"}] \cup {None}],
         events' \subseteq [type : EventType, order : Order, payment : Payment,
                            amount : Amount \cup {None}, signed : {TRUE}],
         \A p \in Payment : payments[p] # None /\ payments[p].status = "captured"
                            => payments'[p] = payments[p],
         PayInv', EventInv'
  PROVE  Inv'
<1> USE DEF Inv
<1>1. TypeOK' /\ LockInv' /\ OrderInv' /\ OfferInv' /\ AuditInv'
  <2>1. TypeOK'
    BY DEF TypeOK
  <2>2. LockInv' /\ OrderInv'
    BY DEF LockInv, OrderInv, Recorded, Working
  <2>3. OfferInv' /\ AuditInv'
    BY DEF OfferInv, AuditInv, Recorded
  <2>4. QED
    BY <2>1, <2>2, <2>3
<1>2. ASSUME NEW p, NEW o, NEW a, PaidBy(p, o, a)
      PROVE  PaidBy(p, o, a)'
  <2>1. /\ p \in Payment /\ payments[p] # None /\ payments[p].status = "captured"
        /\ payments[p].order = o /\ payments[p].amount = a
    BY <1>2 DEF PaidBy
  <2>2. payments'[p] = payments[p]
    BY <2>1
  <2>3. QED
    BY <2>1, <2>2 DEF PaidBy
<1>3. RowInv'
  BY <1>2 DEF RowInv, Recorded
<1>4. CallInv'
  BY <1>2 DEF CallInv, CallFits, Working
<1>5. QED
  BY <1>1, <1>3, <1>4

\* A new payment is for an order that was offered.
LEMMA PayingInv ==
  ASSUME Inv, NEW o \in Order, NEW p \in Payment, NEW a \in Amount, Pay(o, p, a)
  PROVE  Inv'
<1> USE DEF Inv
<1> DEFINE new == [order |-> o, amount |-> a, status |-> "created"]
<1>1. /\ o \in offered /\ payments[p] = None /\ payments' = [payments EXCEPT ![p] = new]
      /\ UNCHANGED <<rows, used, audit, api_lock, call, orders, events, offered, faults, restarts>>
  BY DEF Pay, bounds
<1>2. /\ new \in [order : Order, amount : Amount, status : {"created", "captured", "failed"}]
      /\ new.order = o /\ new.status = "created"
  OBVIOUS
<1>3. payments \in [Payment -> [order : Order, amount : Amount,
                                status : {"created", "captured", "failed"}] \cup {None}]
  BY DEF TypeOK
<1> HIDE DEF new
<1>4. /\ payments'[p] = new /\ \A q \in Payment : q # p => payments'[q] = payments[q]
      /\ payments' \in [Payment -> [order : Order, amount : Amount,
                                    status : {"created", "captured", "failed"}] \cup {None}]
  BY <1>1, <1>2, <1>3
<1>5. PayInv'
  BY <1>1, <1>2, <1>4 DEF PayInv
<1>6. EventInv'
  BY <1>1, <1>4 DEF EventInv, TypeOK
<1>7. events' \subseteq [type : EventType, order : Order, payment : Payment,
                        amount : Amount \cup {None}, signed : {TRUE}]
  BY <1>1 DEF TypeOK
<1>8. QED
  BY <1>1, <1>4, <1>5, <1>6, <1>7, PaymentInv

\* A payment is captured once, and an order by one payment.
LEMMA CaptureInv ==
  ASSUME Inv, NEW p \in Payment, Capture(p)
  PROVE  Inv'
<1> USE DEF Inv
<1> DEFINE old == payments[p]
           new == [old EXCEPT !.status = "captured"]
           about == Events({"payment.authorized", "payment.captured", "order.paid"}, p,
                           {old.amount, None})
<1>1. /\ old # None /\ old.status = "created" /\ ~Paid(old.order)
      /\ payments' = [payments EXCEPT ![p].status = "captured"]
      /\ events' = events \cup about
      /\ UNCHANGED <<rows, used, audit, api_lock, call, orders, offered, faults, restarts>>
  BY DEF Capture, bounds
<1>2. /\ payments \in [Payment -> [order : Order, amount : Amount,
                                   status : {"created", "captured", "failed"}] \cup {None}]
      /\ events \subseteq [type : EventType, order : Order, payment : Payment,
                           amount : Amount \cup {None}, signed : {TRUE}]
  BY DEF TypeOK
<1>3. old \in [order : Order, amount : Amount, status : {"created", "captured", "failed"}]
  BY <1>1, <1>2
<1>4. /\ new \in [order : Order, amount : Amount, status : {"created", "captured", "failed"}]
      /\ new.order = old.order /\ new.amount = old.amount /\ new.status = "captured"
  BY <1>3
<1>5. /\ about \subseteq [type : EventType, order : Order, payment : Payment,
                          amount : Amount \cup {None}, signed : {TRUE}]
      /\ \A e \in about : e.order = old.order /\ e.payment = p /\ e.amount \in {old.amount, None}
  BY <1>3 DEF Events, EventType
<1>6. payments' = [payments EXCEPT ![p] = new]
  BY <1>1, <1>2
<1> HIDE DEF new, about
<1>7. /\ payments'[p] = new /\ \A q \in Payment : q # p => payments'[q] = payments[q]
      /\ payments' \in [Payment -> [order : Order, amount : Amount,
                                    status : {"created", "captured", "failed"}] \cup {None}]
  BY <1>2, <1>4, <1>6
<1>8. new # None
  BY <1>4, NullAssumption
<1>9. \A q \in Payment : payments[q] # None /\ payments[q].status = "captured"
                        => payments[q].order # old.order
  BY <1>1 DEF Paid, PaymentsOf
<1>10. PayInv'
  <2>1. \A q \in Payment : payments'[q] # None => payments'[q].order \in offered
    BY <1>1, <1>4, <1>7 DEF PayInv
  <2>2. ASSUME NEW q \in Payment, NEW r \in Payment,
               payments'[q] # None, payments'[q].status = "captured",
               payments'[r] # None, payments'[r].status = "captured",
               payments'[q].order = payments'[r].order
        PROVE  q = r
    BY <1>4, <1>7, <1>9, <2>2 DEF PayInv
  <2>3. QED
    BY <1>1, <2>1, <2>2 DEF PayInv
<1>11. EventInv'
  <2>1. ASSUME NEW e \in about
        PROVE  /\ payments'[e.payment] # None /\ payments'[e.payment].order = e.order
               /\ payments'[e.payment].status = "captured"
               /\ e.amount # None => e.amount = payments'[e.payment].amount
    BY <1>4, <1>5, <1>7, <1>8
  <2>2. ASSUME NEW e \in events
        PROVE  /\ payments'[e.payment] # None /\ payments'[e.payment].order = e.order
               /\ e.type \in {"payment.captured", "order.paid"} =>
                    /\ payments'[e.payment].status = "captured"
                    /\ e.amount # None => e.amount = payments'[e.payment].amount
    <3>1. e.payment \in Payment /\ payments[e.payment] # None
          /\ payments[e.payment].order = e.order
      BY <1>2 DEF EventInv
    <3>2. CASE e.payment = p
      BY <1>1, <1>4, <1>7, <1>8, <3>1, <3>2 DEF EventInv
    <3>3. CASE e.payment # p
      BY <1>7, <3>1, <3>3 DEF EventInv
    <3>4. QED
      BY <3>2, <3>3
  <2>3. QED
    BY <1>1, <2>1, <2>2 DEF EventInv
<1>12. events' \subseteq [type : EventType, order : Order, payment : Payment,
                         amount : Amount \cup {None}, signed : {TRUE}]
  BY <1>1, <1>2, <1>5
<1>13. \A q \in Payment : payments[q] # None /\ payments[q].status = "captured"
                         => payments'[q] = payments[q]
  BY <1>1, <1>7
<1>14. QED
  BY <1>1, <1>7, <1>10, <1>11, <1>12, <1>13, PaymentInv

\* A failed payment is no captured one.
LEMMA FailInv ==
  ASSUME Inv, NEW p \in Payment, Fail(p)
  PROVE  Inv'
<1> USE DEF Inv
<1> DEFINE old == payments[p]
           new == [old EXCEPT !.status = "failed"]
           about == Events({"payment.failed"}, p, {old.amount, None})
<1>1. /\ old # None /\ old.status = "created"
      /\ payments' = [payments EXCEPT ![p].status = "failed"]
      /\ events' = events \cup about
      /\ UNCHANGED <<rows, used, audit, api_lock, call, orders, offered, faults, restarts>>
  BY DEF Fail, bounds
<1>2. /\ payments \in [Payment -> [order : Order, amount : Amount,
                                   status : {"created", "captured", "failed"}] \cup {None}]
      /\ events \subseteq [type : EventType, order : Order, payment : Payment,
                           amount : Amount \cup {None}, signed : {TRUE}]
  BY DEF TypeOK
<1>3. old \in [order : Order, amount : Amount, status : {"created", "captured", "failed"}]
  BY <1>1, <1>2
<1>4. /\ new \in [order : Order, amount : Amount, status : {"created", "captured", "failed"}]
      /\ new.order = old.order /\ new.status = "failed"
  BY <1>3
<1>5. /\ about \subseteq [type : EventType, order : Order, payment : Payment,
                          amount : Amount \cup {None}, signed : {TRUE}]
      /\ \A e \in about : e.order = old.order /\ e.payment = p /\ e.type = "payment.failed"
  BY <1>3 DEF Events, EventType
<1>6. payments' = [payments EXCEPT ![p] = new]
  BY <1>1, <1>2
<1> HIDE DEF new, about
<1>7. /\ payments'[p] = new /\ \A q \in Payment : q # p => payments'[q] = payments[q]
      /\ payments' \in [Payment -> [order : Order, amount : Amount,
                                    status : {"created", "captured", "failed"}] \cup {None}]
  BY <1>2, <1>4, <1>6
<1>8. new # None
  BY <1>4, NullAssumption
<1>9. PayInv'
  BY <1>1, <1>4, <1>7 DEF PayInv
<1>10. EventInv'
  <2>1. ASSUME NEW e \in about
        PROVE  /\ payments'[e.payment] # None /\ payments'[e.payment].order = e.order
               /\ e.type \notin {"payment.captured", "order.paid"}
    BY <1>4, <1>5, <1>7, <1>8
  <2>2. ASSUME NEW e \in events
        PROVE  /\ payments'[e.payment] # None /\ payments'[e.payment].order = e.order
               /\ e.type \in {"payment.captured", "order.paid"} =>
                    /\ payments'[e.payment].status = "captured"
                    /\ e.amount # None => e.amount = payments'[e.payment].amount
    <3>1. e.payment \in Payment /\ payments[e.payment] # None
          /\ payments[e.payment].order = e.order
      BY <1>2 DEF EventInv
    <3>2. CASE e.payment = p
      BY <1>1, <1>4, <1>7, <1>8, <3>1, <3>2 DEF EventInv
    <3>3. CASE e.payment # p
      BY <1>7, <3>1, <3>3 DEF EventInv
    <3>4. QED
      BY <3>2, <3>3
  <2>3. QED
    BY <1>1, <2>1, <2>2 DEF EventInv
<1>11. events' \subseteq [type : EventType, order : Order, payment : Payment,
                         amount : Amount \cup {None}, signed : {TRUE}]
  BY <1>1, <1>2, <1>5
<1>12. \A q \in Payment : payments[q] # None /\ payments[q].status = "captured"
                         => payments'[q] = payments[q]
  BY <1>1, <1>7
<1>13. QED
  BY <1>1, <1>7, <1>9, <1>10, <1>11, <1>12, PaymentInv
-----------------------------------------------------------------------------
\* Every step keeps the invariant.
LEMMA StepInv == Inv /\ [Next]_vars => Inv'
<1> SUFFICES ASSUME Inv, [Next]_vars PROVE Inv'
  OBVIOUS
<1>1. CASE \E t \in Txn : Authorize(t) \/ ReturnExisting(t)
  BY <1>1, AuthorizeInv, ReturnExistingInv
<1>2. CASE \E s \in Session, t \in Txn : settle(s, t) \/ reconcile(s, t)
  BY <1>2, settleInv, reconcileInv
<1>3. CASE \E s \in Session : \E e \in events \cup Unsigned : razorpay_webhook(s, e)
  BY <1>3, razorpay_webhookInv
<1>4. CASE \E s \in Session : Progress(s) \/ DatabaseError(s)
  BY <1>4, create_orderInv, order_paymentsInv, set_transaction_settlementInv, append_eventInv,
     DatabaseErrorInv DEF Progress
<1>5. CASE Restart
  BY <1>5, RestartInv
<1>6. CASE \E o \in Order, p \in Payment, a \in Amount : Pay(o, p, a)
  BY <1>6, PayingInv
<1>7. CASE \E p \in Payment : Capture(p) \/ Fail(p)
  BY <1>7, CaptureInv, FailInv
<1>8. CASE UNCHANGED vars
  <2>1. /\ UNCHANGED <<rows, used, audit, api_lock, call, orders, payments, events, offered>>
        /\ UNCHANGED <<faults, restarts>>
    BY <1>8 DEF vars, razorpay, bounds
  <2>2. TypeOK' /\ LockInv' /\ CallInv'
    <3>1. TypeOK' /\ LockInv'
      BY <2>1 DEF Inv, TypeOK, LockInv, Working
    <3>2. CallInv'
      BY <2>1 DEF Inv, CallInv, CallFits, Working, PaidBy
    <3>3. QED
      BY <3>1, <3>2
  <2>3. RowInv' /\ OrderInv' /\ OfferInv'
    BY <2>1 DEF Inv, RowInv, OrderInv, OfferInv, Recorded, PaidBy
  <2>4. PayInv' /\ EventInv' /\ AuditInv'
    BY <2>1 DEF Inv, PayInv, EventInv, AuditInv, Recorded
  <2>5. QED
    BY <2>2, <2>3, <2>4 DEF Inv
<1>9. QED
  BY <1>1, <1>2, <1>3, <1>4, <1>5, <1>6, <1>7, <1>8 DEF Next

\* The invariant that everything below follows from: what each call in progress
\* may rely on, what a row says of Razorpay, and which orders were offered.
THEOREM InductiveInvariant == Spec => []Inv
  BY InitInv, StepInv, PTL DEF Spec
-----------------------------------------------------------------------------
\* What the runs check, of the invariant.

\* The types of the rows, calls, orders, payments, events and entries.
THEOREM TypeOKHolds == Spec => []TypeOK
<1>1. Inv => TypeOK
  BY DEF Inv
<1>2. QED
  BY <1>1, InductiveInvariant, PTL

\* The invariant, for a settled row.
LEMMA SettledFromInv == Inv => SettledIsCaptured
<1> SUFFICES ASSUME Inv, NEW t \in Txn, IsSettled(t)
             PROVE  /\ orders[rows[t].order] = [txn |-> t, amount |-> rows[t].amount]
                    /\ payments[rows[t].payment] =
                         [order |-> rows[t].order, amount |-> rows[t].amount,
                          status |-> "captured"]
  BY DEF SettledIsCaptured
<1>1. /\ rows[t].order \in Order /\ orders[rows[t].order] # None
      /\ orders[rows[t].order].txn = t /\ orders[rows[t].order].amount = rows[t].amount
      /\ PaidBy(rows[t].payment, rows[t].order, rows[t].amount)
  BY DEF Inv, RowInv, Recorded, IsSettled, Outcome
<1>2. orders[rows[t].order] \in [txn : Txn, amount : Amount]
  BY <1>1 DEF Inv, TypeOK
<1>3. payments[rows[t].payment] \in [order : Order, amount : Amount,
                                     status : {"created", "captured", "failed"}]
  BY <1>1 DEF Inv, TypeOK, PaidBy
<1>4. QED
  BY <1>1, <1>2, <1>3 DEF PaidBy

\* A settled transaction has a captured payment of its own order for the
\* authorized amount (webhooks.py:7-10), in whatever order the calls, the
\* deliveries, the failures and the restarts come.
THEOREM SettledIsCapturedHolds == Spec => []SettledIsCaptured
  BY SettledFromInv, InductiveInvariant, PTL

\* The customer is charged once for a transaction at most (settlement.py:6-7),
\* although Razorpay may hold several orders for it: only one was ever offered.
THEOREM NoDoubleChargeHolds == Spec => []NoDoubleCharge
<1>1. Inv => NoDoubleCharge
  BY DEF Inv, NoDoubleCharge, OfferInv, PayInv
<1>2. QED
  BY <1>1, InductiveInvariant, PTL

\* What was blocked, is on hold or is unknown is never ordered
\* (settlement.py:43-48), nor is it paid.
THEOREM OnlyAuthorizedOrderedHolds == Spec => []OnlyAuthorizedOrdered
<1>1. Inv => OnlyAuthorizedOrdered
  BY DEF Inv, OnlyAuthorizedOrdered, OrderInv, Recorded
<1>2. QED
  BY <1>1, InductiveInvariant, PTL

\* The invariant, when nobody is between the two writes.
LEMMA AuditedFromInv == Inv => SettlementAudited
<1> SUFFICES ASSUME Inv, api_lock = None, faults = 0, NEW t \in Txn, rows[t] # None,
                    rows[t].status \in Outcome
             PROVE  \E e \in audit :
                      /\ e.txn = t /\ e.order = rows[t].order /\ e.status = rows[t].status
                      /\ e.status = "settled" => e.payment = rows[t].payment
  BY DEF SettlementAudited, Outcome
<1>1. \A s \in Session : call[s].pc = "idle"
  BY Nulls DEF Inv, LockInv, Working
<1>2. QED
  BY <1>1 DEF Inv, AuditInv, Recorded

\* With no call under way and no failure yet, each row's settlement state is in
\* the audit log (settlement.py:61-64,83-87; webhooks.py:90-102).
THEOREM SettlementAuditedHolds == Spec => []SettlementAudited
  BY AuditedFromInv, InductiveInvariant, PTL

\* A settled row keeps its order, its payment and its status until the database
\* itself is deleted (webhooks.py:10): no later event, retry or failure rewrites
\* it.
THEOREM SettledStaysHolds == Spec => SettledStays
<1>1. Inv /\ [Next]_vars => [\A t \in Txn : IsSettled(t) => rows'[t] = rows[t] \/ restarts' # restarts]_vars
  <2> SUFFICES ASSUME Inv, Next, NEW t \in Txn, IsSettled(t), rows'[t] # rows[t],
                      restarts' = restarts
               PROVE  FALSE
    OBVIOUS
  <2>1. CASE \E u \in Txn : Authorize(u) \/ ReturnExisting(u)
    <3>1. ASSUME NEW u \in Txn, Authorize(u) PROVE t # u
      BY <3>1 DEF Authorize, IsSettled, Inv, RowInv, Recorded
    <3>2. QED
      BY <2>1, <3>1 DEF Authorize, RecordRow, ReturnExisting, Inv, TypeOK
  <2>2. CASE \E s \in Session, u \in Txn : settle(s, u) \/ reconcile(s, u)
    BY <2>2 DEF settle, reconcile
  <2>3. CASE \E s \in Session : \E e \in events \cup Unsigned : razorpay_webhook(s, e)
    BY <2>3 DEF razorpay_webhook
  <2>4. CASE \E s \in Session : Progress(s) \/ DatabaseError(s)
    <3>1. PICK s \in Session : call[s].pc = "update" /\ UpdateRow(s)
      BY <2>4 DEF Progress, DatabaseError, create_order, order_payments,
                  set_transaction_settlement, append_event
    <3>2. /\ call[s].txn \in Txn /\ rows[call[s].txn] # None
          /\ rows[call[s].txn].status # "settled"
      BY <3>1 DEF Inv, CallInv, CallFits, Working
    <3>3. QED
      BY <3>1, <3>2 DEF IsSettled, UpdateRow, Inv, TypeOK
  <2>5. CASE Restart
    BY <2>5 DEF Restart, Inv, TypeOK
  <2>6. CASE \E o \in Order, p \in Payment, a \in Amount : Pay(o, p, a)
    BY <2>6 DEF Pay
  <2>7. CASE \E p \in Payment : Capture(p) \/ Fail(p)
    BY <2>7 DEF Capture, Fail
  <2>8. QED
    BY <2>1, <2>2, <2>3, <2>4, <2>5, <2>6, <2>7 DEF Next
<1>2. QED
  BY <1>1, InductiveInvariant, PTL DEF Spec, SettledStays
-----------------------------------------------------------------------------
\* Refinement of the payment ledger, for a program that is not started again.

BoundTo  == [t \in Txn |-> IF rows[t] = None THEN None ELSE rows[t].order]
PaidWith == [t \in Txn |-> IF IsSettled(t) THEN rows[t].payment ELSE None]
Charges  == {q \in Payment : payments[q] # None /\ payments[q].status = "captured"}
Charge(p) == [payment |-> p, order |-> payments[p].order, amount |-> payments[p].amount]
Captured == {Charge(p) : p \in Charges}

\* Until the first restart every recorded transaction has its row.
Kept == restarts = 0 /\ \A t \in used : rows[t] # None

\* Without restarts no row is ever taken away.
LEMMA KeptStep ==
  ASSUME MaxRestarts = 0, Inv, Kept, [Next]_vars
  PROVE  Kept' /\ ~Restart
<1>1. ~Restart
  BY DEF Kept, Restart
<1>2. CASE \E t \in Txn : Authorize(t)
  <2>1. PICK t \in Txn : Authorize(t)
    BY <1>2
  <2>2. PICK a \in Authorized :
          rows' = [rows EXCEPT ![t] = [amount |-> Price[t], decision |-> a.decision,
                                       status |-> a.status, order |-> None, payment |-> None]]
    BY <2>1 DEF Authorize, RecordRow
  <2> DEFINE new == [amount |-> Price[t], decision |-> a.decision, status |-> a.status,
                     order |-> None, payment |-> None]
  <2>3. new \in Rows
    BY Nulls DEF Authorized, Rows
  <2>4. rows' = [rows EXCEPT ![t] = new] /\ rows \in [Txn -> Rows \cup {None}] /\ used \subseteq Txn
    BY <2>2 DEF Inv, TypeOK
  <2> HIDE DEF new
  <2>5. used' = used \cup {t} /\ restarts' = restarts
    BY <2>1 DEF Authorize, bounds
  <2>6. QED
    BY <1>1, <2>3, <2>4, <2>5, NullRow DEF Kept
<1>3. CASE \E s \in Session : call[s].pc = "update" /\ UpdateRow(s) /\ UNCHANGED <<used, restarts>>
  <2>1. PICK s \in Session : call[s].pc = "update" /\ UpdateRow(s) /\ UNCHANGED <<used, restarts>>
    BY <1>3
  <2>2. call[s].txn \in Txn /\ rows[call[s].txn] # None /\ call[s].status \in Outcome
    BY <2>1 DEF Inv, CallInv, CallFits, Working
  <2>3. /\ rows'[call[s].txn] \in Rows
        /\ \A t \in Txn : t # call[s].txn => rows'[t] = rows[t]
    BY <2>1, <2>2, UpdatedRow DEF Inv
  <2>4. used \subseteq Txn
    BY DEF Inv, TypeOK
  <2>5. QED
    BY <1>1, <2>1, <2>3, <2>4, NullRow DEF Kept
<1>4. CASE UNCHANGED <<rows, used, restarts>>
  BY <1>1, <1>4 DEF Kept
<1>5. QED
  BY <1>1, <1>2, <1>3, <1>4
     DEF Next, Progress, vars, bounds, ReturnExisting, settle, reconcile, razorpay_webhook,
         create_order, order_payments, set_transaction_settlement, append_event, DatabaseError,
         Pay, Capture, Fail

\* How the ledger sees the writes and the captures.
LEMMA LedgerSame ==
  ASSUME BoundTo' = BoundTo, PaidWith' = PaidWith, Captured' = Captured
  PROVE  UNCHANGED Pays!vars
  BY DEF Pays!vars, BoundTo, PaidWith, Captured, Charges, Charge

\* An order put on a row is a Bind of the payment ledger.
LEMMA LedgerBinds ==
  ASSUME NEW t \in Txn, NEW o \in Order,
         BoundTo[t] = None, \A u \in Txn : BoundTo[u] # o,
         BoundTo' = [BoundTo EXCEPT ![t] = o], PaidWith' = PaidWith, Captured' = Captured
  PROVE  Pays!Next
<1>1. Pays!Bind(t, o)
  BY DEF Pays!Bind, BoundTo, PaidWith, Captured, Charges, Charge
<1>2. QED
  BY <1>1 DEF Pays!Next

\* A row settled with a captured payment is a step of the payment ledger.
LEMMA LedgerSettles ==
  ASSUME NEW t \in Txn, NEW p \in Payment,
         PaidWith[t] = None,
         [payment |-> p, order |-> BoundTo[t], amount |-> Price[t]] \in Captured,
         PaidWith' = [PaidWith EXCEPT ![t] = p], BoundTo' = BoundTo, Captured' = Captured
  PROVE  Pays!Next
<1>1. Pays!Settle(t, p)
  BY DEF Pays!Settle, BoundTo, PaidWith, Captured, Charges, Charge
<1>2. QED
  BY <1>1 DEF Pays!Next

\* So is the first capture for an order.
LEMMA LedgerCaptures ==
  ASSUME NEW c \in [payment : Payment, order : Order, amount : Amount],
         \E t \in Txn : BoundTo[t] = c.order,
         \A d \in Captured : d.payment # c.payment /\ d.order # c.order,
         Captured' = Captured \cup {c}, BoundTo' = BoundTo, PaidWith' = PaidWith
  PROVE  Pays!Next
<1>1. Pays!Capture(c)
  BY DEF Pays!Capture, BoundTo, PaidWith, Captured, Charges, Charge
<1>2. QED
  BY <1>1 DEF Pays!Next

\* An UPDATE binds the order, settles, or marks a failure, which is no step.
LEMMA UpdateRefines ==
  ASSUME Inv, NEW s \in Session, call[s].pc = "update", UpdateRow(s), UNCHANGED payments
  PROVE  Pays!Next \/ UNCHANGED Pays!vars
<1> DEFINE c == call[s]
           old == rows[c.txn]
           new == rows'[c.txn]
<1>1. /\ c.txn \in Txn /\ old # None /\ c.order \in Order /\ c.status \in Outcome
      /\ old.status # "settled" /\ orders[c.order].txn = c.txn
      /\ c.status # "pending_settlement" => old.order = c.order
      /\ c.status = "pending_settlement" => old.order = None
      /\ c.status = "settled" => PaidBy(c.payment, c.order, old.amount)
      /\ old.amount = Price[c.txn]
  BY DEF Inv, CallInv, CallFits, Working, RowInv, Recorded
<1>2. /\ \A t \in Txn : t # c.txn => rows'[t] = rows[t]
      /\ new \in Rows /\ new.status = c.status
      /\ new.order = IF c.order = None THEN old.order ELSE c.order
      /\ new.payment = IF c.payment = None THEN old.payment ELSE c.payment
  BY <1>1, UpdatedRow DEF Inv
<1>3. /\ new # None /\ new.order = c.order
      /\ c.status = "settled" => new.payment = c.payment /\ c.payment \in Payment
  BY <1>1, <1>2, Nulls, NullRow DEF PaidBy
<1>4. Captured' = Captured
  BY DEF Captured, Charges, Charge
<1>5. BoundTo[c.txn] = old.order /\ BoundTo'[c.txn] = c.order
  BY <1>1, <1>3 DEF BoundTo
<1>6. /\ DOMAIN BoundTo = Txn /\ DOMAIN BoundTo' = Txn
      /\ \A t \in Txn : t # c.txn => BoundTo'[t] = BoundTo[t]
      /\ BoundTo = [t \in Txn |-> BoundTo[t]] /\ BoundTo' = [t \in Txn |-> BoundTo'[t]]
  BY <1>2 DEF BoundTo
<1>7. /\ PaidWith[c.txn] = None
      /\ PaidWith'[c.txn] = IF c.status = "settled" THEN c.payment ELSE None
      /\ \A t \in Txn : t # c.txn => PaidWith'[t] = PaidWith[t]
      /\ PaidWith = [t \in Txn |-> PaidWith[t]] /\ PaidWith' = [t \in Txn |-> PaidWith'[t]]
  BY <1>1, <1>2, <1>3 DEF PaidWith, IsSettled
<1> HIDE DEF c, old, new
<1>8. CASE c.status = "pending_settlement"
  <2>1. PaidWith' = PaidWith
    BY <1>1, <1>7, <1>8
  <2>2. BoundTo' = [BoundTo EXCEPT ![c.txn] = c.order]
    BY <1>1, <1>5, <1>6
  <2>3. \A u \in Txn : BoundTo[u] # c.order
    <3> SUFFICES ASSUME NEW u \in Txn, BoundTo[u] = c.order
                 PROVE  FALSE
      OBVIOUS
    <3>1. rows[u] # None /\ rows[u].order = c.order
      BY <1>1, Nulls DEF BoundTo
    <3>2. orders[c.order].txn = u
      BY <1>1, <3>1, Nulls DEF Inv, RowInv, Recorded
    <3>3. QED
      BY <1>1, <1>5, <1>8, <3>2, Nulls
  <2>4. QED
    BY <1>1, <1>4, <1>5, <1>8, <2>1, <2>2, <2>3, LedgerBinds
<1>9. CASE c.status = "settled"
  <2>1. BoundTo' = BoundTo
    BY <1>1, <1>5, <1>6, <1>9
  <2>2. PaidWith' = [PaidWith EXCEPT ![c.txn] = c.payment]
    BY <1>1, <1>7, <1>9
  <2>3. [payment |-> c.payment, order |-> BoundTo[c.txn], amount |-> Price[c.txn]] \in Captured
    <3>1. c.payment \in Charges
      BY <1>1, <1>9 DEF PaidBy, Charges
    <3>2. Charge(c.payment) = [payment |-> c.payment, order |-> c.order, amount |-> Price[c.txn]]
      BY <1>1, <1>9 DEF PaidBy, Charge
    <3>3. QED
      BY <1>1, <1>5, <1>9, <3>1, <3>2 DEF Captured
  <2>4. QED
    BY <1>1, <1>3, <1>4, <1>7, <1>9, <2>1, <2>2, <2>3, LedgerSettles
<1>10. CASE c.status = "failed"
  <2>1. BoundTo' = BoundTo /\ PaidWith' = PaidWith
    BY <1>1, <1>5, <1>6, <1>7, <1>10
  <2>2. QED
    BY <1>4, <2>1, LedgerSame
<1>11. QED
  BY <1>1, <1>8, <1>9, <1>10 DEF Outcome

\* Capture is a step of the payment ledger.
LEMMA CaptureRefines ==
  ASSUME Inv, Kept, NEW p \in Payment, Capture(p)
  PROVE  Pays!Next
<1> DEFINE old == payments[p]
           c == [payment |-> p, order |-> old.order, amount |-> old.amount]
<1>1. /\ old # None /\ old.status = "created" /\ ~Paid(old.order)
      /\ payments' = [payments EXCEPT ![p].status = "captured"]
      /\ UNCHANGED rows
  BY DEF Capture
<1>2. payments \in [Payment -> [order : Order, amount : Amount,
                               status : {"created", "captured", "failed"}] \cup {None}]
  BY DEF Inv, TypeOK
<1>3. old \in [order : Order, amount : Amount, status : {"created", "captured", "failed"}]
  BY <1>1, <1>2
<1>4. /\ payments'[p] # None /\ payments'[p].status = "captured"
      /\ payments'[p].order = old.order /\ payments'[p].amount = old.amount
      /\ \A q \in Payment : q # p => payments'[q] = payments[q]
  <2> DEFINE new == [old EXCEPT !.status = "captured"]
  <2>1. /\ new \in [order : Order, amount : Amount, status : {"created", "captured", "failed"}]
        /\ new.order = old.order /\ new.amount = old.amount /\ new.status = "captured"
    BY <1>3
  <2>2. payments' = [payments EXCEPT ![p] = new]
    BY <1>1, <1>2
  <2> HIDE DEF new, old
  <2>3. QED
    BY <1>2, <2>1, <2>2, NullAssumption
<1>5. Charges' = Charges \cup {p}
  BY <1>1, <1>4 DEF Charges
<1>6. Charge(p)' = c /\ \A q \in Charges : Charge(q)' = Charge(q)
  BY <1>1, <1>4 DEF Charge, Charges
<1>7. Captured' = Captured \cup {c}
  BY <1>5, <1>6 DEF Captured
<1>8. BoundTo' = BoundTo /\ PaidWith' = PaidWith
  BY <1>1 DEF BoundTo, PaidWith, IsSettled
<1>9. c \in [payment : Payment, order : Order, amount : Amount]
  BY <1>3
<1>10. \E t \in Txn : BoundTo[t] = c.order
  <2>1. /\ old.order \in offered /\ old.order \in Order /\ orders[old.order] # None
        /\ Recorded(orders[old.order].txn) => rows[orders[old.order].txn].order = old.order
    BY <1>1, <1>3 DEF Inv, PayInv, OfferInv
  <2>2. orders[old.order].txn \in used /\ orders[old.order].txn \in Txn
    BY <2>1 DEF Inv, OrderInv, TypeOK
  <2>3. QED
    BY <2>1, <2>2 DEF Kept, Recorded, BoundTo
<1>11. \A d \in Captured : d.payment # p /\ d.order # old.order
  BY <1>1 DEF Captured, Charges, Charge, Paid, PaymentsOf
<1> HIDE DEF old
<1>12. QED
  BY <1>7, <1>8, <1>9, <1>10, <1>11, LedgerCaptures

\* A new row has no order and is not settled; other steps leave the rows alone.
LEMMA AuthorizeRefines ==
  ASSUME Inv, NEW t \in Txn, Authorize(t)
  PROVE  UNCHANGED Pays!vars
<1>1. PICK a \in Authorized :
        rows' = [rows EXCEPT ![t] = [amount |-> Price[t], decision |-> a.decision,
                                     status |-> a.status, order |-> None, payment |-> None]]
  BY DEF Authorize, RecordRow
<1> DEFINE new == [amount |-> Price[t], decision |-> a.decision, status |-> a.status,
                   order |-> None, payment |-> None]
<1>2. new.order = None /\ new.status # "settled"
  BY DEF Authorized
<1>3. rows' = [rows EXCEPT ![t] = new] /\ rows \in [Txn -> Rows \cup {None}]
  BY <1>1 DEF Inv, TypeOK
<1>4. rows[t] = None
  BY DEF Authorize, Inv, RowInv, Recorded
<1> HIDE DEF new
<1>5. rows'[t] = new /\ \A u \in Txn : u # t => rows'[u] = rows[u]
  BY <1>3
<1>6. BoundTo' = BoundTo /\ PaidWith' = PaidWith
  BY <1>2, <1>4, <1>5 DEF BoundTo, PaidWith, IsSettled
<1>7. UNCHANGED payments
  BY DEF Authorize, razorpay
<1>8. Captured' = Captured
  BY <1>7 DEF Captured, Charges, Charge
<1>9. QED
  BY <1>6, <1>8, LedgerSame

\* What touches neither rows nor charges is a stutter of the payment ledger.
LEMMA OthersRefine ==
  ASSUME UNCHANGED rows, Charges' = Charges, \A q \in Charges : Charge(q)' = Charge(q)
  PROVE  UNCHANGED Pays!vars
<1>1. BoundTo' = BoundTo /\ PaidWith' = PaidWith
  BY DEF BoundTo, PaidWith, IsSettled
<1>2. Captured' = Captured
  BY DEF Captured
<1>3. QED
  BY <1>1, <1>2, LedgerSame

\* A payment that is made or that fails is no charge.
LEMMA PayRefines ==
  ASSUME Inv, NEW o \in Order, NEW p \in Payment, NEW a \in Amount, Pay(o, p, a)
  PROVE  UNCHANGED Pays!vars
<1> DEFINE new == [order |-> o, amount |-> a, status |-> "created"]
<1>1. /\ payments[p] = None /\ payments' = [payments EXCEPT ![p] = new] /\ UNCHANGED rows
      /\ new.status = "created"
  BY DEF Pay
<1> HIDE DEF new
<1>2. payments'[p] = new /\ \A q \in Payment : q # p => payments'[q] = payments[q]
  BY <1>1 DEF Inv, TypeOK
<1>3. Charges' = Charges /\ \A q \in Charges : Charge(q)' = Charge(q)
  BY <1>1, <1>2 DEF Charges, Charge
<1>4. QED
  BY <1>1, <1>3, OthersRefine

\* So is the failure of a payment.
LEMMA FailRefines ==
  ASSUME Inv, NEW p \in Payment, Fail(p)
  PROVE  UNCHANGED Pays!vars
<1>1. /\ payments[p] # None /\ payments[p].status = "created"
      /\ payments' = [payments EXCEPT ![p].status = "failed"] /\ UNCHANGED rows
  BY DEF Fail
<1>2. payments \in [Payment -> [order : Order, amount : Amount,
                               status : {"created", "captured", "failed"}] \cup {None}]
  BY DEF Inv, TypeOK
<1>3. /\ payments'[p].status = "failed"
      /\ \A q \in Payment : q # p => payments'[q] = payments[q]
  BY <1>1, <1>2
<1>4. Charges' = Charges /\ \A q \in Charges : Charge(q)' = Charge(q)
  BY <1>1, <1>3 DEF Charges, Charge
<1>5. QED
  BY <1>1, <1>4, OthersRefine

\* Settlement implements the payment ledger as long as the program is not started
\* again: a transaction is bound to one order for good and becomes paid once, by
\* a payment that was captured for that order and the authorized amount.
THEOREM Refinement ==
  ASSUME MaxRestarts = 0
  PROVE  Spec => ImplementsPaymentLedger
<1>1. Init => Pays!Init /\ Kept
  BY DEF Init, Pays!Init, IsSettled, Kept
<1>2. Inv /\ Kept /\ [Next]_vars => Kept'
  BY KeptStep
<1>3. Inv /\ Kept /\ [Next]_vars => [Pays!Next]_(Pays!vars)
  <2> SUFFICES ASSUME Inv, Kept, [Next]_vars
               PROVE  Pays!Next \/ UNCHANGED Pays!vars
    OBVIOUS
  <2>1. CASE \E t \in Txn : Authorize(t)
    BY <2>1, AuthorizeRefines
  <2>2. CASE \E p \in Payment : Capture(p)
    BY <2>2, CaptureRefines
  <2>3. CASE \E p \in Payment : Fail(p)
    BY <2>3, FailRefines
  <2>4. CASE \E o \in Order, p \in Payment, a \in Amount : Pay(o, p, a)
    BY <2>4, PayRefines
  <2>5. CASE \E s \in Session : call[s].pc = "update" /\ UpdateRow(s) /\ UNCHANGED payments
    BY <2>5, UpdateRefines
  <2>6. CASE UNCHANGED <<rows, payments>>
    <3>1. Charges' = Charges /\ \A q \in Charges : Charge(q)' = Charge(q)
      BY <2>6 DEF Charges, Charge
    <3>2. QED
      BY <2>6, <3>1, OthersRefine
  <2>7. ~Restart
    BY KeptStep
  <2>8. QED
    BY <2>1, <2>2, <2>3, <2>4, <2>5, <2>6, <2>7
       DEF Next, Progress, vars, razorpay, ReturnExisting, settle, reconcile, razorpay_webhook,
           create_order, order_payments, set_transaction_settlement, append_event, DatabaseError
<1>4. QED
  BY <1>1, <1>2, <1>3, InductiveInvariant, PTL DEF Spec, ImplementsPaymentLedger, Pays!Spec
=============================================================================
