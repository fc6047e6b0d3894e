--------------------------- MODULE ApiServerProofs ---------------------------
(***************************************************************************)
(* What the API's process adds to Settlement - its threads, the lazy       *)
(* database and the lazy risk model - for any number of threads, requests, *)
(* transactions and payments, with and without the model's file.           *)
(***************************************************************************)
EXTENDS ApiServer, TLAPS

Label == PurchaseLabel \cup {"idle", "create", "fetch", "update", "append"}
ApiCallOf == [pc : Label, txn : Txn \cup {None}, order : Order \cup {None},
              payment : Payment \cup {None},
              status : {None, "pending_settlement", "settled", "failed"}]

PaymentOf == [order : Order, amount : Amount, status : {"created", "captured", "failed"}]
EventOf == [type : EventType, order : Order, payment : Payment, amount : Amount \cup {None},
            signed : {TRUE}]

Types ==
  /\ rows \in [Txn -> Rows \cup {None}] /\ used \subseteq Txn
  /\ payments \in [Payment -> PaymentOf \cup {None}] /\ events \subseteq EventOf
  /\ call \in [Session -> ApiCallOf] /\ api_lock \in Session \cup {None}
  /\ waiting \subseteq Request /\ job \in [Worker -> Request \cup {None}]
  /\ loop \in events \cup Unsigned \cup {None}
  /\ built \in BOOLEAN /\ last_txn_id \in Txn \cup {None}

\* A call has _LOCK and, in a pool thread, a request.
Locks ==
  /\ \A s \in Session : api_lock = s <=> Working(s)
  /\ \A w \in Worker : job[w] # None <=> Working(w)
  /\ Working(EventLoop) => loop # None

Outcome == {"pending_settlement", "settled", "failed"}
Settling(s) == Working(s) /\ ~Purchasing(s)

\* A purchase records a transaction that nobody else records, and a database is
\* made by the first call that needs one.
Buying ==
  \A s \in Session : Purchasing(s) =>
    /\ s \in Worker
    /\ call[s].txn \in Txn /\ call[s].txn \notin used
    /\ job[s] = [kind |-> "purchase", txn |-> call[s].txn]
    /\ call[s].pc = "build" => ~built
    /\ call[s].pc \notin {"state", "build"} => built

Queue ==
  \A r \in waiting : r.kind = "purchase" => r.txn \notin used /\ \A w \in Worker : job[w] # r

\* Rows are of recorded transactions, in a database that was made; a settlement
\* call is about one of them.
Stored ==
  /\ \A t \in Txn : rows[t] # None => t \in used
  /\ ~built => audit = {} /\ \A t \in Txn : rows[t] = None
  /\ \A s \in Session : Settling(s) =>
       /\ built /\ call[s].txn \in Txn /\ rows[call[s].txn] # None
       /\ call[s].status \in Outcome

\* The risk model: who is loading it, and what others find.
Loading == {"recheck", "artifact", "thresholds"}
Ready ==
  /\ _MODEL = IF Artifact THEN "trained" ELSE None
  /\ Artifact => _THRESHOLDS = "trained"

Risk ==
  /\ _LOADED \in BOOLEAN /\ _MODEL \in {"trained", None} /\ _THRESHOLDS \in {"trained", "default"}
  /\ found \in [Worker -> {"trained", None}] /\ risk_lock \in Worker \cup {None}
  /\ \A w \in Worker : risk_lock = w <=> call[w].pc \in Loading
  /\ _LOADED /\ (\A w \in Worker : call[w].pc \notin {"artifact", "thresholds"}) => Ready
  /\ \A w \in Worker :
       /\ call[w].pc \in {"artifact", "thresholds", "score"} => _LOADED
       /\ call[w].pc = "thresholds" => Artifact /\ _MODEL = "trained"
       /\ call[w].pc = "score" => found[w] = IF Artifact THEN "trained" ELSE None
  /\ ScoredByTheModel

ApiInv == Types /\ Locks /\ Buying /\ Queue /\ Stored /\ Risk
-----------------------------------------------------------------------------
\* Helpers.

\* None is nothing that the API names; the event loop is no pool thread.
LEMMA ApiNulls ==
  /\ None \notin Session /\ None \notin Worker /\ None \notin Txn /\ None \notin Order
  /\ None \notin Payment /\ None \notin Amount /\ None \notin Rows /\ None \notin PaymentOf
  /\ None \notin Request /\ None # "trained"
  /\ \A t \in Txn : Price[t] \in Amount
  /\ Session = Worker \cup {EventLoop} /\ EventLoop \notin Worker
  BY SettlementAssumption, NullAssumption, ApiServerAssumption, NoneAssumption DEF PaymentOf

\* A thread that does nothing.
LEMMA IdleCall ==
  /\ Idle \in ApiCallOf /\ Idle.pc = "idle"
  /\ "idle" \notin PurchaseLabel
  BY DEF Idle, ApiCallOf, Label, PurchaseLabel

\* Whoever works holds the lock, alone.
LEMMA OneCaller ==
  ASSUME Locks, NEW s \in Session, Working(s)
  PROVE  /\ api_lock = s
         /\ \A r \in Session : r # s => call[r].pc = "idle"
         /\ \A w \in Worker : w # s => job[w] = None
  BY ApiNulls DEF Locks, Working

\* record_transaction() adds one row.
LEMMA RecordedRow ==
  ASSUME rows \in [Txn -> Rows \cup {None}], NEW t \in Txn, RecordRow(t)
  PROVE  /\ rows' \in [Txn -> Rows \cup {None}] /\ rows'[t] # None
         /\ \A u \in Txn : u # t => rows'[u] = rows[u]
<1>1. PICK a \in Authorized :
        rows' = [rows EXCEPT ![t] = [amount |-> Price[t], decision |-> a.decision,
                                     status |-> a.status, order |-> None, payment |-> None]]
  BY DEF RecordRow
<1> DEFINE new == [amount |-> Price[t], decision |-> a.decision, status |-> a.status,
                   order |-> None, payment |-> None]
<1>2. new \in Rows
  BY ApiNulls DEF Authorized, Rows
<1>3. rows' = [rows EXCEPT ![t] = new]
  BY <1>1
<1> HIDE DEF new
<1>4. QED
  BY <1>2, <1>3, ApiNulls

\* A purchase that goes on to another of its steps.
LEMMA Moving ==
  ASSUME ApiInv, NEW w \in Worker, Purchasing(w), NEW l \in PurchaseLabel, Goto(w, l)
  PROVE  /\ call' \in [Session -> ApiCallOf]
         /\ call'[w].pc = l /\ call'[w].txn = call[w].txn
         /\ \A s \in Session : s # w => call'[s] = call[s] /\ call[s].pc = "idle"
<1> DEFINE new == [call[w] EXCEPT !.pc = l]
<1>1. call \in [Session -> ApiCallOf] /\ w \in Session /\ call[w] \in ApiCallOf
  BY ApiNulls DEF ApiInv, Types
<1>2. new \in ApiCallOf /\ new.pc = l /\ new.txn = call[w].txn
  BY <1>1 DEF ApiCallOf, Label
<1>3. call' = [call EXCEPT ![w] = new]
  BY <1>1 DEF Goto
<1>4. \A s \in Session : s # w => call[s].pc = "idle"
  BY <1>1, OneCaller, IdleCall DEF ApiInv, Purchasing, Working
<1> HIDE DEF new
<1>5. QED
  BY <1>1, <1>2, <1>3, <1>4

\* What such a step keeps, the risk model apart.
LEMMA MoveInv ==
  ASSUME ApiInv, NEW w \in Worker, Purchasing(w), NEW l \in PurchaseLabel, l # "state", Goto(w, l),
         UNCHANGED <<rows, used, audit, api_lock, payments, events, waiting, job, loop>>,
         built' \in BOOLEAN, built => built', l = "build" => ~built', l # "build" => built',
         last_txn_id' \in Txn \cup {None}
  PROVE  Types' /\ Locks' /\ Buying' /\ Queue' /\ Stored'
<1> USE DEF ApiInv
<1>1. /\ call' \in [Session -> ApiCallOf]
      /\ call'[w].pc = l /\ call'[w].txn = call[w].txn
      /\ \A s \in Session : s # w => call'[s] = call[s] /\ call[s].pc = "idle"
  BY Moving
<1>2. call[w].pc # "idle" /\ l # "idle" /\ w \in Session /\ w # EventLoop
  BY IdleCall, ApiNulls DEF Purchasing
<1>3. Types'
  BY <1>1 DEF Types
<1>4. Locks'
  <2>1. \A s \in Session : call'[s].pc # "idle" <=> call[s].pc # "idle"
    BY <1>1, <1>2
  <2>2. \A v \in Worker : v \in Session
    BY ApiNulls
  <2>3. EventLoop \in Session
    BY ApiNulls
  <2>4. QED
    BY <2>1, <2>2, <2>3 DEF Locks, Working
<1>5. Buying'
  BY <1>1, <1>2, IdleCall DEF Buying, Purchasing
<1>6. Queue'
  BY DEF Queue
<1>7. Stored'
  <2>1. \A s \in Session : ~Settling(s)'
    BY <1>1, <1>2 DEF Settling, Working, Purchasing
  <2>2. QED
    BY <2>1 DEF Stored
<1>8. QED
  BY <1>3, <1>4, <1>5, <1>6, <1>7

\* Steps that neither touch the model nor begin or end a step that does.
LEMMA RiskKept ==
  ASSUME Risk, UNCHANGED <<risk_model, scored>>,
         \A w \in Worker :
           \/ call'[w].pc = call[w].pc
           \/ /\ call[w].pc \notin Loading \cup {"score"}
              /\ call'[w].pc \notin Loading \cup {"score"}
  PROVE  Risk'
<1>1. UNCHANGED <<risk_lock, _LOADED, _MODEL, _THRESHOLDS, found, scored>>
  BY DEF risk_model
<1>2. /\ Ready' <=> Ready
      /\ ScoredByTheModel' <=> ScoredByTheModel
  BY <1>1 DEF Ready, ScoredByTheModel
<1>3. \A w \in Worker : \A l \in Loading \cup {"score"} : call'[w].pc = l <=> call[w].pc = l
  OBVIOUS
<1>4. QED
  BY <1>1, <1>2, <1>3 DEF Risk, Loading

\* A call that ends.
LEMMA Ending ==
  ASSUME ApiInv, NEW s \in Session, Working(s), Leave(s)
  PROVE  /\ call' \in [Session -> ApiCallOf] /\ api_lock' = None
         /\ \A r \in Session : call'[r].pc = "idle"
         /\ \A r \in Session : ~Working(r)' /\ ~Purchasing(r)' /\ ~Settling(r)'
<1>1. call \in [Session -> ApiCallOf] /\ \A r \in Session : r # s => call[r].pc = "idle"
  BY OneCaller DEF ApiInv, Types
<1>2. \A r \in Session : call'[r].pc = "idle"
  BY <1>1, IdleCall DEF Leave
<1>3. QED
  BY <1>1, <1>2, IdleCall DEF Leave, Working, Purchasing, Settling

\* What a step keeps that ends a thread's call and answers its request.
LEMMA ReturnInv ==
  ASSUME ApiInv, NEW w \in Worker, Working(w), Return(w),
         UNCHANGED <<payments, events, built>>,
         rows' \in [Txn -> Rows \cup {None}],
         \A t \in Txn : rows'[t] # None => t \in used',
         ~built => UNCHANGED <<rows, audit>>,
         \/ UNCHANGED used
         \/ used' = used \cup {call[w].txn} /\ Purchasing(w),
         last_txn_id' \in Txn \cup {None}
  PROVE  Types' /\ Locks' /\ Buying' /\ Queue' /\ Stored'
<1> USE DEF ApiInv
<1>1. /\ w \in Session /\ Leave(w) /\ job' = [job EXCEPT ![w] = None]
      /\ UNCHANGED <<waiting, loop>>
  BY ApiNulls DEF Return
<1>2. /\ call' \in [Session -> ApiCallOf] /\ api_lock' = None
      /\ \A r \in Session : call'[r].pc = "idle"
      /\ \A r \in Session : ~Working(r)' /\ ~Purchasing(r)' /\ ~Settling(r)'
  BY <1>1, Ending
<1>3. /\ \A v \in Worker : job'[v] = None
      /\ job' \in [Worker -> Request \cup {None}]
  BY <1>1, OneCaller DEF Types
<1>4. used' \subseteq Txn
  <2>1. Purchasing(w) => call[w].txn \in Txn
    BY <1>1 DEF Buying
  <2>2. used \subseteq Txn
    BY DEF Types
  <2>3. CASE used' = used
    BY <2>2, <2>3
  <2>4. CASE used' = used \cup {call[w].txn} /\ Purchasing(w)
    BY <2>1, <2>2, <2>4
  <2>5. QED
    BY <2>3, <2>4
<1>5. Types'
  BY <1>1, <1>2, <1>3, <1>4 DEF Types
<1>6. Locks'
  <2>1. \A v \in Worker : v \in Session
    BY ApiNulls
  <2>2. EventLoop \in Session
    BY ApiNulls
  <2>3. \A r \in Session : api_lock' # r
    BY <1>2, ApiNulls
  <2>4. QED
    BY <1>2, <1>3, <2>1, <2>2, <2>3 DEF Locks
<1>7. Buying' /\ Stored'
  BY <1>2 DEF Buying, Stored
<1>8. Queue'
  <2> SUFFICES ASSUME NEW r \in waiting, r.kind = "purchase"
               PROVE  r.txn \notin used' /\ \A v \in Worker : job'[v] # r
    BY <1>1 DEF Queue
  <2>1. r \in Request /\ r.txn \notin used /\ r # job[w]
    BY DEF Queue, Types
  <2>2. Purchasing(w) => r.txn # call[w].txn
    <3>1. r = [kind |-> "purchase", txn |-> r.txn]
      BY <2>1 DEF Request
    <3>2. QED
      BY <1>1, <2>1, <3>1 DEF Buying
  <2>3. QED
    BY <1>3, <2>1, <2>2, ApiNulls
<1>9. QED
  BY <1>5, <1>6, <1>7, <1>8
-----------------------------------------------------------------------------
\* The process as it starts satisfies the invariant.
LEMMA ApiInitInv == ApiInit => ApiInv
<1> SUFFICES ASSUME ApiInit PROVE ApiInv
  OBVIOUS
<1>1. \A s \in Session : call[s].pc = "idle"
  BY IdleCall DEF ApiInit, Init
<1>2. Types
  BY IdleCall DEF ApiInit, Init, Types
<1>3. Locks
  BY <1>1, ApiNulls DEF ApiInit, Init, Locks, Working
<1>4. Buying /\ Queue /\ Stored
  BY <1>1, IdleCall DEF ApiInit, Init, Buying, Queue, Stored, Settling, Working, Purchasing
<1>5. Risk
  BY <1>1, ApiNulls DEF ApiInit, Init, Risk, Ready, Loading, ScoredByTheModel
<1>6. QED
  BY <1>2, <1>3, <1>4, <1>5 DEF ApiInv

\* Requests that only arrive or are answered at once.
LEMMA DispatchInv ==
  ASSUME ApiInv, NEW r \in Request, Dispatch(r)
  PROVE  ApiInv'
<1> USE DEF ApiInv
<1>1. /\ r \notin Pending /\ (r.kind = "purchase" => r.txn \notin used)
      /\ waiting' = waiting \cup {r}
      /\ UNCHANGED <<vars, job, loop, built, last_txn_id, risk_model, scored>>
  BY DEF Dispatch
<1>2. UNCHANGED <<rows, used, audit, api_lock, call, payments, events>>
  BY <1>1 DEF vars, razorpay
<1>3. Types' /\ Locks'
  BY <1>1, <1>2 DEF Types, Locks, Working
<1>4. Buying' /\ Stored'
  BY <1>1, <1>2 DEF Buying, Stored, Purchasing, Settling, Working
<1>5. \A w \in Worker : job[w] # r
  BY <1>1, ApiNulls DEF Pending
<1>6. Queue'
  BY <1>1, <1>2, <1>5 DEF Queue
<1>7. Risk'
  BY <1>1, <1>2, RiskKept
<1>8. QED
  BY <1>3, <1>4, <1>6, <1>7

\* A request answered at once disturbs nobody.
LEMMA AnsweredInv ==
  ASSUME ApiInv, NEW r, Answered(r), built' \in BOOLEAN, built => built',
         UNCHANGED <<rows, used, audit, api_lock, call, payments, events, last_txn_id, risk_model,
                     scored>>,
         \A s \in Session : ~Purchasing(s) \/ UNCHANGED built
  PROVE  ApiInv'
<1> USE DEF ApiInv
<1>1. waiting' = waiting \ {r} /\ UNCHANGED <<job, loop>>
  BY DEF Answered
<1>2. Types' /\ Locks'
  BY <1>1 DEF Types, Locks, Working
<1>3. Buying'
  BY <1>1 DEF Buying, Purchasing
<1>4. Stored'
  BY DEF Stored, Purchasing, Settling, Working
<1>5. Queue'
  BY <1>1 DEF Queue
<1>6. Risk'
  BY RiskKept
<1>7. QED
  BY <1>2, <1>3, <1>4, <1>5, <1>6

\* health() only answers.
LEMMA healthInv ==
  ASSUME ApiInv, NEW r \in Request, health(r)
  PROVE  ApiInv'
<1>1. /\ Answered(r) /\ UNCHANGED <<vars, built, last_txn_id, risk_model, scored>>
  BY DEF health
<1>2. UNCHANGED <<rows, used, audit, api_lock, call, payments, events>>
  BY <1>1 DEF vars, razorpay
<1>3. built' \in BOOLEAN
  BY <1>1 DEF ApiInv, Types
<1>4. QED
  BY <1>1, <1>2, <1>3, AnsweredInv
-----------------------------------------------------------------------------
\* Calls that begin.

\* A call that takes the lock is alone.
LEMMA Beginning ==
  ASSUME ApiInv, NEW s \in Session, NEW c \in ApiCallOf, c.pc # "idle", Enter(s, c)
  PROVE  /\ call' \in [Session -> ApiCallOf] /\ api_lock' = s /\ call'[s] = c
         /\ \A r \in Session : r # s => call'[r].pc = "idle"
         /\ \A r \in Session : call[r].pc = "idle"
         /\ \A w \in Worker : job[w] = None
<1>1. call \in [Session -> ApiCallOf]
  BY DEF ApiInv, Types
<1>2. \A r \in Session : call[r].pc = "idle"
  BY ApiNulls DEF ApiInv, Locks, Working, Enter
<1>3. \A w \in Worker : job[w] = None
  BY <1>2, ApiNulls DEF ApiInv, Locks, Working
<1>4. QED
  BY <1>1, <1>2, <1>3 DEF Enter

\* The lock, the request and the event of a call that begins.
LEMMA BeginLocks ==
  ASSUME ApiInv, NEW s \in Session, NEW c \in ApiCallOf, c.pc # "idle", Enter(s, c),
         \/ s \in Worker /\ \E r \in waiting : Served(s, r)
         \/ s = EventLoop /\ loop # None /\ UNCHANGED requests
  PROVE  /\ Locks'
         /\ waiting' \subseteq waiting /\ job' \in [Worker -> Request \cup {None}] /\ loop' = loop
<1> USE DEF ApiInv
<1>1. /\ api_lock' = s /\ call'[s] = c
      /\ \A r \in Session : r # s => call'[r].pc = "idle"
      /\ \A w \in Worker : job[w] = None
      /\ call[EventLoop].pc = "idle"
  BY Beginning, ApiNulls
<1>2. \A r \in Session : api_lock' = r <=> Working(r)'
  BY <1>1 DEF Working
<1>3. CASE s \in Worker
  <2>1. PICK r \in waiting : Served(s, r)
    BY <1>3, ApiNulls
  <2>2. r \in Request /\ r # None
    BY ApiNulls DEF Types
  <2>3. /\ waiting' = waiting \ {r} /\ job' = [job EXCEPT ![s] = r] /\ loop' = loop
        /\ job \in [Worker -> Request \cup {None}]
    BY <2>1 DEF Served, Types
  <2>4. \A w \in Worker : job'[w] # None <=> w = s
    BY <1>1, <1>3, <2>2, <2>3
  <2>5. \A w \in Worker : Working(w)' <=> w = s
    BY <1>1, ApiNulls DEF Working
  <2>6. ~Working(EventLoop)'
    BY <1>1, <1>3, ApiNulls DEF Working
  <2>7. QED
    BY <1>2, <2>2, <2>3, <2>4, <2>5, <2>6 DEF Locks
<1>4. CASE s = EventLoop
  <2>1. loop # None /\ UNCHANGED <<waiting, job, loop>>
    BY <1>4, ApiNulls DEF requests
  <2>2. \A w \in Worker : ~Working(w)' /\ job'[w] = None
    BY <1>1, <1>4, <2>1, ApiNulls DEF Working
  <2>3. QED
    BY <1>2, <2>1, <2>2 DEF Locks, Types
<1>5. QED
  BY <1>3, <1>4, ApiNulls

\* A settlement begins at a recorded row.
LEMMA BeginSettlement ==
  ASSUME ApiInv, NEW s \in Session, NEW c \in ApiCallOf, Enter(s, c),
         c.pc \in {"create", "fetch", "update", "append"},
         c.txn \in Txn, rows[c.txn] # None, c.status \in Outcome, built',
         UNCHANGED <<rows, used, audit, payments, events, last_txn_id, risk_model, scored>>,
         \/ s \in Worker /\ \E r \in waiting : Served(s, r) /\ r.kind = "settle"
         \/ s = EventLoop /\ loop # None /\ UNCHANGED requests
  PROVE  ApiInv'
<1> USE DEF ApiInv
<1>1. /\ call' \in [Session -> ApiCallOf] /\ api_lock' = s /\ call'[s] = c
      /\ \A r \in Session : r # s => call'[r].pc = "idle"
      /\ \A r \in Session : call[r].pc = "idle"
      /\ \A w \in Worker : job[w] = None
  BY Beginning
<1>2. /\ Locks'
      /\ waiting' \subseteq waiting /\ job' \in [Worker -> Request \cup {None}] /\ loop' = loop
  BY BeginLocks
<1>3. \A r \in Session : ~Purchasing(r)'
  BY <1>1 DEF Purchasing, PurchaseLabel
<1>4. built = TRUE /\ built' = TRUE
  BY DEF Stored, Types
<1>5. Types'
  BY <1>1, <1>2, <1>4 DEF Types
<1>6. Buying'
  BY <1>3 DEF Buying
<1>7. Stored'
  BY <1>1, <1>4 DEF Stored, Settling, Working
<1>8. Queue'
  <2> SUFFICES ASSUME NEW r \in waiting', r.kind = "purchase"
               PROVE  r.txn \notin used /\ \A w \in Worker : job'[w] # r
    BY DEF Queue
  <2>1. r \in Request /\ r.txn \notin used
    BY <1>2 DEF Queue, Types
  <2>2. CASE s \in Worker
    <3>1. PICK x \in waiting : Served(s, x) /\ x.kind = "settle"
      BY <2>2, ApiNulls
    <3>2. job' = [job EXCEPT ![s] = x] /\ job \in [Worker -> Request \cup {None}]
      BY <3>1 DEF Served, Types
    <3>3. QED
      BY <1>1, <2>1, <3>1, <3>2, ApiNulls
  <2>3. CASE s = EventLoop
    BY <1>1, <2>1, <2>3, ApiNulls DEF requests
  <2>4. QED
    BY <2>2, <2>3, ApiNulls
<1>9. Risk'
  <2>1. \A w \in Worker : /\ call[w].pc \notin Loading \cup {"score"}
                          /\ call'[w].pc \notin Loading \cup {"score"}
    BY <1>1, ApiNulls DEF Loading
  <2>2. QED
    BY <2>1, RiskKept
<1>10. QED
  BY <1>2, <1>5, <1>6, <1>7, <1>8, <1>9

\* While the lock is free nobody is inside a purchase.
LEMMA NobodyPurchases ==
  ASSUME ApiInv, api_lock = None
  PROVE  \A s \in Session : ~Working(s) /\ ~Purchasing(s)
  BY ApiNulls, IdleCall DEF ApiInv, Locks, Working, Purchasing

\* settle_txn() begins at the row named, or at the last purchase.
LEMMA settle_txnInv ==
  ASSUME ApiInv, NEW r \in Request, settle_txn(r)
  PROVE  ApiInv'
<1> DEFINE t == IF r.txn # None THEN r.txn ELSE last_txn_id
           c == [Idle EXCEPT !.pc = "create", !.txn = t, !.status = "pending_settlement"]
<1>1. /\ r \in waiting /\ r.kind = "settle" /\ api_lock = None /\ built' = TRUE
      /\ UNCHANGED <<last_txn_id, risk_model, scored>>
      /\ \/ t # None /\ ReturnExisting(t) /\ Answered(r)
         \/ t # None /\ Idlers # {} /\ settle(NextWorker, t) /\ Served(NextWorker, r)
         \/ Answered(r) /\ UNCHANGED vars
  BY DEF settle_txn
<1>2. t \in Txn \cup {None}
  BY <1>1, ApiServerAssumption DEF ApiInv, Types, Request
<1>3. \A s \in Session : ~Purchasing(s)
  BY <1>1, NobodyPurchases
<1> HIDE DEF t
<1>4. CASE ReturnExisting(t) /\ Answered(r)
  <2>1. UNCHANGED <<rows, used, audit, api_lock, call, payments, events>>
    BY <1>4 DEF ReturnExisting, razorpay
  <2>2. QED
    BY <1>1, <1>3, <1>4, <2>1, AnsweredInv
<1>5. CASE Answered(r) /\ UNCHANGED vars
  <2>1. UNCHANGED <<rows, used, audit, api_lock, call, payments, events>>
    BY <1>5 DEF vars, razorpay
  <2>2. QED
    BY <1>1, <1>3, <1>5, <2>1, AnsweredInv
<1>6. CASE t # None /\ Idlers # {} /\ settle(NextWorker, t) /\ Served(NextWorker, r)
  <2>1. NextWorker \in Worker /\ NextWorker \in Session
    BY <1>6, ApiNulls DEF NextWorker, Idlers
  <2>2. /\ Enter(NextWorker, c) /\ rows[t] # None
        /\ UNCHANGED <<rows, used, audit, payments, events>>
    BY <1>6 DEF settle, MaySettle, razorpay
  <2>3. /\ c \in ApiCallOf /\ c.pc = "create" /\ c.txn = t /\ c.status = "pending_settlement"
        /\ t \in Txn
    BY <1>2, <1>6 DEF Idle, ApiCallOf, Label
  <2> HIDE DEF c
  <2>4. c.status \in Outcome /\ c.pc \in {"create", "fetch", "update", "append"}
    BY <2>3 DEF Outcome
  <2>5. QED
    BY <1>1, <1>6, <2>1, <2>2, <2>3, <2>4, BeginSettlement
<1>7. QED
  BY <1>1, <1>4, <1>5, <1>6

\* purchase(): the call begins with state().
LEMMA purchaseInv ==
  ASSUME ApiInv, NEW r \in Request, purchase(r)
  PROVE  ApiInv'
<1> USE DEF ApiInv
<1> DEFINE w == NextWorker
           c == [Idle EXCEPT !.pc = "state", !.txn = r.txn]
<1>1. /\ r \in waiting /\ r.kind = "purchase" /\ Enter(w, c) /\ Served(w, r)
      /\ UNCHANGED <<rows, used, audit, payments, events, built, last_txn_id, risk_model, scored>>
  BY DEF purchase, razorpay
<1>2. w \in Worker /\ w \in Session
  BY ApiNulls DEF purchase, NextWorker, Idlers
<1>3. r.txn \in Txn /\ r.txn \notin used /\ r = [kind |-> "purchase", txn |-> r.txn]
  BY <1>1 DEF Queue, Request
<1>4. c \in ApiCallOf /\ c.pc = "state" /\ c.txn = r.txn
  BY <1>3 DEF Idle, ApiCallOf, Label, PurchaseLabel
<1> HIDE DEF w, c
<1>5. /\ call' \in [Session -> ApiCallOf] /\ api_lock' = w /\ call'[w] = c
      /\ \A s \in Session : s # w => call'[s].pc = "idle"
      /\ \A s \in Session : call[s].pc = "idle"
      /\ \A v \in Worker : job[v] = None
  BY <1>1, <1>2, <1>4, Beginning
<1>6. /\ Locks'
      /\ waiting' \subseteq waiting /\ job' \in [Worker -> Request \cup {None}] /\ loop' = loop
  BY <1>1, <1>2, <1>4, BeginLocks
<1>7. job' = [job EXCEPT ![w] = r] /\ waiting' = waiting \ {r}
  BY <1>1 DEF Served
<1>8. job'[w] = r /\ \A v \in Worker : v # w => job'[v] = None
  BY <1>2, <1>5, <1>7 DEF Types
<1>9. Types'
  BY <1>1, <1>2, <1>5, <1>6 DEF Types
<1>10. Buying'
  <2>1. \A s \in Session : Purchasing(s)' => s = w
    BY <1>5, IdleCall DEF Purchasing
  <2>2. QED
    BY <1>1, <1>2, <1>3, <1>4, <1>5, <1>8, <2>1 DEF Buying
<1>11. Queue'
  <2> SUFFICES ASSUME NEW x \in waiting', x.kind = "purchase"
               PROVE  x.txn \notin used /\ \A v \in Worker : job'[v] # x
    BY <1>1 DEF Queue
  <2>1. x \in Request /\ x.txn \notin used /\ x # r
    BY <1>7 DEF Queue, Types
  <2>2. QED
    BY <1>8, <2>1, ApiNulls
<1>12. Stored'
  <2>1. \A s \in Session : ~Settling(s)'
    BY <1>4, <1>5 DEF Settling, Working, Purchasing, PurchaseLabel
  <2>2. QED
    BY <1>1, <2>1 DEF Stored
<1>13. Risk'
  <2>1. \A v \in Worker : /\ call[v].pc \notin Loading \cup {"score"}
                          /\ call'[v].pc \notin Loading \cup {"score"}
    <3>1. \A v \in Worker : call[v].pc = "idle" /\ call'[v].pc \in {"idle", "state"}
      BY <1>4, <1>5, ApiNulls
    <3>2. QED
      BY <3>1 DEF Loading
  <2>2. QED
    BY <1>1, <2>1, RiskKept
<1>14. QED
  BY <1>6, <1>9, <1>10, <1>11, <1>12, <1>13
-----------------------------------------------------------------------------
\* The steps of a purchase that neither load nor score.

\* While a thread purchases the others wait.
LEMMA Others ==
  ASSUME ApiInv, NEW w \in Worker, Purchasing(w)
  PROVE  /\ w \in Session /\ Working(w)
         /\ \A v \in Worker : v # w => call[v].pc = "idle"
  BY OneCaller, IdleCall, ApiNulls DEF ApiInv, Purchasing, Working

\* state() is built if it is not there.
LEMMA check_stateInv ==
  ASSUME ApiInv, NEW w \in Worker, check_state(w)
  PROVE  ApiInv'
<1> DEFINE l == IF built THEN "negotiate" ELSE "build"
<1>1. /\ call[w].pc = "state" /\ Goto(w, l)
      /\ UNCHANGED <<rows, used, audit, api_lock, payments, events, waiting, job, loop, built,
                     last_txn_id, risk_model, scored>>
  BY DEF check_state, Only, At, razorpay, requests
<1>2. Purchasing(w) /\ l \in PurchaseLabel /\ l \notin Loading \cup {"score"} /\ l # "state"
  BY <1>1 DEF Purchasing, PurchaseLabel, Loading
<1>3. l = "build" <=> ~built
  OBVIOUS
<1> HIDE DEF l
<1>4. Types' /\ Locks' /\ Buying' /\ Queue' /\ Stored'
  BY <1>1, <1>2, <1>3, MoveInv DEF ApiInv, Types
<1>5. call'[w].pc = l /\ \A s \in Session : s # w => call'[s] = call[s]
  BY <1>1, <1>2, Moving
<1>6. Risk'
  BY <1>1, <1>2, <1>5, ApiNulls, RiskKept DEF ApiInv, Loading
<1>7. QED
  BY <1>4, <1>6 DEF ApiInv

\* A database is only built where there was none.
LEMMA build_stateInv ==
  ASSUME ApiInv, NEW w \in Worker, build_state(w)
  PROVE  ApiInv' /\ UNCHANGED <<rows, audit>>
<1>1. /\ call[w].pc = "build" /\ Goto(w, "negotiate")
      /\ rows' = [t \in Txn |-> None] /\ audit' = {} /\ built' = TRUE /\ last_txn_id' = None
      /\ UNCHANGED <<used, api_lock, payments, events, waiting, job, loop, risk_model, scored>>
  BY DEF build_state, At, razorpay, requests
<1>2. Purchasing(w) /\ "negotiate" \in PurchaseLabel
  BY <1>1 DEF Purchasing, PurchaseLabel
<1>3. ~built
  BY <1>1, <1>2, Others DEF ApiInv, Buying
<1>4. rows' = rows /\ audit' = audit
  BY <1>1, <1>3 DEF ApiInv, Stored, Types
<1>5. Types' /\ Locks' /\ Buying' /\ Queue' /\ Stored'
  BY <1>1, <1>2, <1>4, MoveInv
<1>6. call'[w].pc = "negotiate" /\ \A s \in Session : s # w => call'[s] = call[s]
  BY <1>1, <1>2, Moving
<1>7. Risk'
  BY <1>1, <1>6, ApiNulls, RiskKept DEF ApiInv, Loading
<1>8. QED
  BY <1>4, <1>5, <1>7 DEF ApiInv

\* A negotiation ends without a row, or goes on to be scored.
LEMMA negotiateInv ==
  ASSUME ApiInv, NEW w \in Worker, negotiate(w)
  PROVE  ApiInv' /\ UNCHANGED <<rows, audit>>
<1>1. /\ call[w].pc = "negotiate"
      /\ UNCHANGED <<rows, audit, payments, events, built, risk_model, scored>>
      /\ \/ Return(w) /\ used' = used \cup {call[w].txn} /\ UNCHANGED last_txn_id
         \/ /\ Goto(w, "load") /\ last_txn_id' = call[w].txn
            /\ UNCHANGED <<api_lock, waiting, job, loop, used>>
  BY DEF negotiate, At, razorpay, requests
<1>2. Purchasing(w) /\ "load" \in PurchaseLabel /\ w \in Session
  BY <1>1, ApiNulls DEF Purchasing, PurchaseLabel
<1>3. built /\ call[w].txn \in Txn /\ built \in BOOLEAN
  BY <1>1, <1>2 DEF ApiInv, Buying, Types
<1>4. CASE Return(w) /\ used' = used \cup {call[w].txn} /\ UNCHANGED last_txn_id
  <2>1. /\ Types' /\ Locks' /\ Buying' /\ Queue' /\ Stored'
    BY <1>1, <1>2, <1>4, Others, ReturnInv DEF ApiInv, Types, Stored
  <2>2. \A v \in Worker : call'[v].pc = "idle"
    BY <1>2, <1>4, Others, Ending, ApiNulls DEF Return
  <2>3. \A v \in Worker : call[v].pc \in {"idle", "negotiate"}
    BY <1>1, <1>2, Others
  <2>4. Risk'
    BY <1>1, <2>2, <2>3, RiskKept DEF ApiInv, Loading
  <2>5. QED
    BY <1>1, <2>1, <2>4 DEF ApiInv
<1>5. CASE /\ Goto(w, "load") /\ last_txn_id' = call[w].txn
           /\ UNCHANGED <<api_lock, waiting, job, loop, used>>
  <2>1. Types' /\ Locks' /\ Buying' /\ Queue' /\ Stored'
    BY <1>1, <1>2, <1>3, <1>5, MoveInv
  <2>2. call'[w].pc = "load" /\ \A s \in Session : s # w => call'[s] = call[s]
    BY <1>2, <1>5, Moving
  <2>3. Risk'
    BY <1>1, <2>2, ApiNulls, RiskKept DEF ApiInv, Loading
  <2>4. QED
    BY <1>1, <2>1, <2>3 DEF ApiInv
<1>6. QED
  BY <1>1, <1>4, <1>5

\* A purchase that is recorded adds its row, and one that raises none.
LEMMA recordInv ==
  ASSUME ApiInv, NEW w \in Worker, record(w)
  PROVE  /\ ApiInv' /\ UNCHANGED audit
         /\ \/ UNCHANGED rows
            \/ RecordRow(call[w].txn) /\ rows[call[w].txn] = None /\ rows'[call[w].txn] # None
               /\ \A t \in Txn : t # call[w].txn => rows'[t] = rows[t]
<1> DEFINE t == call[w].txn
<1>1. /\ call[w].pc = "record" /\ used' = used \cup {t} /\ Return(w)
      /\ RecordRow(t) \/ UNCHANGED rows
      /\ UNCHANGED <<audit, payments, events, built, last_txn_id, risk_model, scored>>
  BY DEF record, At, razorpay
<1>2. Purchasing(w) /\ w \in Session
  BY <1>1, ApiNulls DEF Purchasing, PurchaseLabel
<1>3. built /\ t \in Txn /\ t \notin used /\ rows[t] = None
  BY <1>1, <1>2 DEF ApiInv, Buying, Stored
<1>4. /\ rows' \in [Txn -> Rows \cup {None}]
      /\ \A u \in Txn : u # t => rows'[u] = rows[u]
      /\ RecordRow(t) => rows'[t] # None
  <2>1. rows \in [Txn -> Rows \cup {None}]
    BY DEF ApiInv, Types
  <2>2. CASE RecordRow(t)
    BY <1>3, <2>1, <2>2, RecordedRow
  <2>3. CASE ~RecordRow(t)
    BY <1>1, <2>1, <2>3
  <2>4. QED
    BY <2>2, <2>3
<1>5. /\ Types' /\ Locks' /\ Buying' /\ Queue' /\ Stored'
  <2>1. \A u \in Txn : rows'[u] # None => u \in used'
    BY <1>1, <1>4 DEF ApiInv, Stored
  <2>2. last_txn_id' \in Txn \cup {None}
    BY <1>1 DEF ApiInv, Types
  <2>3. QED
    BY <1>1, <1>2, <1>3, <1>4, <2>1, <2>2, Others, ReturnInv
<1>6. \A v \in Worker : call'[v].pc = "idle"
  BY <1>1, <1>2, Others, Ending, ApiNulls DEF Return
<1>7. \A v \in Worker : call[v].pc \in {"idle", "record"}
  BY <1>1, <1>2, Others
<1>8. Risk'
  BY <1>1, <1>6, <1>7, RiskKept DEF ApiInv, Loading
<1>9. QED
  BY <1>1, <1>3, <1>4, <1>5, <1>8 DEF ApiInv
-----------------------------------------------------------------------------
\* The loader and the score.

\* One purchase at a time loads: what the others do not do.
LEMMA LoaderStep ==
  ASSUME ApiInv, NEW w \in Worker, Purchasing(w), NEW l \in PurchaseLabel \ {"state", "build"},
         call[w].pc \notin {"state", "build"}, Goto(w, l),
         UNCHANGED <<rows, used, audit, api_lock, payments, events, waiting, job, loop, built,
                     last_txn_id>>
  PROVE  /\ Types' /\ Locks' /\ Buying' /\ Queue' /\ Stored'
         /\ call'[w].pc = l
         /\ \A v \in Worker : v # w => call[v].pc = "idle" /\ call'[v].pc = "idle"
<1>1. built /\ built \in BOOLEAN /\ last_txn_id \in Txn \cup {None}
  BY Others DEF ApiInv, Buying, Types
<1>2. /\ call'[w].pc = l
      /\ \A s \in Session : s # w => call'[s] = call[s] /\ call[s].pc = "idle"
  BY Moving
<1>3. Types' /\ Locks' /\ Buying' /\ Queue' /\ Stored'
  BY <1>1, MoveInv
<1>4. QED
  BY <1>2, <1>3, ApiNulls

\* model.py _load_model(): the test before the lock.
LEMMA check_loadedInv ==
  ASSUME ApiInv, NEW w \in Worker, check_loaded(w)
  PROVE  ApiInv'
<1> DEFINE l == IF _LOADED THEN "score" ELSE "lock"
<1>1. /\ call[w].pc = "load" /\ Goto(w, l)
      /\ UNCHANGED <<rows, used, audit, api_lock, payments, events, waiting, job, loop, built,
                     last_txn_id, scored, risk_lock, _LOADED, _MODEL, _THRESHOLDS>>
      /\ found' = IF _LOADED THEN [found EXCEPT ![w] = _MODEL] ELSE found
  BY DEF check_loaded, Only, At, razorpay, requests
<1>2. /\ Purchasing(w) /\ l \in PurchaseLabel \ {"state", "build"}
      /\ call[w].pc \notin {"state", "build"}
  BY <1>1 DEF Purchasing, PurchaseLabel
<1> HIDE DEF l
<1>3. /\ Types' /\ Locks' /\ Buying' /\ Queue' /\ Stored'
      /\ call'[w].pc = l
      /\ \A v \in Worker : v # w => call[v].pc = "idle" /\ call'[v].pc = "idle"
  BY <1>1, <1>2, LoaderStep
<1>4. Risk
  BY DEF ApiInv
<1>5. _LOADED => Ready
  BY <1>1, <1>3, <1>4 DEF Risk
<1>6. Ready' <=> Ready
  BY <1>1 DEF Ready
<1>7. Risk'
  BY <1>1, <1>3, <1>4, <1>5, <1>6 DEF Risk, Loading, Ready, ScoredByTheModel, l
<1>8. QED
  BY <1>3, <1>7 DEF ApiInv

\* The model lock is taken by one thread.
LEMMA lock_modelInv ==
  ASSUME ApiInv, NEW w \in Worker, lock_model(w)
  PROVE  ApiInv'
<1>1. /\ call[w].pc = "lock" /\ Goto(w, "recheck") /\ risk_lock' = w
      /\ UNCHANGED <<rows, used, audit, api_lock, payments, events, waiting, job, loop, built,
                     last_txn_id, scored, _LOADED, _MODEL, _THRESHOLDS, found>>
  BY DEF lock_model, Only, At, razorpay, requests
<1>2. /\ Purchasing(w) /\ "recheck" \in PurchaseLabel \ {"state", "build"}
      /\ call[w].pc \notin {"state", "build"}
  BY <1>1 DEF Purchasing, PurchaseLabel
<1>3. /\ Types' /\ Locks' /\ Buying' /\ Queue' /\ Stored'
      /\ call'[w].pc = "recheck"
      /\ \A v \in Worker : v # w => call[v].pc = "idle" /\ call'[v].pc = "idle"
  BY <1>1, <1>2, LoaderStep
<1>4. Risk
  BY DEF ApiInv
<1>5. Ready' <=> Ready
  BY <1>1 DEF Ready
<1>6. Risk'
  BY <1>1, <1>3, <1>4, <1>5 DEF Risk, Loading, ScoredByTheModel
<1>7. QED
  BY <1>3, <1>6 DEF ApiInv

\* The test is repeated under the lock.
LEMMA recheck_loadedInv ==
  ASSUME ApiInv, NEW w \in Worker, recheck_loaded(w)
  PROVE  ApiInv'
<1> DEFINE l == IF _LOADED THEN "score" ELSE "artifact"
<1>1. /\ call[w].pc = "recheck" /\ Goto(w, l)
      /\ UNCHANGED <<rows, used, audit, api_lock, payments, events, waiting, job, loop, built,
                     last_txn_id, scored, _MODEL, _THRESHOLDS>>
      /\ _LOADED => /\ found' = [found EXCEPT ![w] = _MODEL]
                    /\ risk_lock' = None /\ UNCHANGED _LOADED
      /\ ~_LOADED => _LOADED' = TRUE /\ UNCHANGED <<found, risk_lock>>
  BY DEF recheck_loaded, Only, At, razorpay, requests
<1>2. /\ Purchasing(w) /\ l \in PurchaseLabel \ {"state", "build"}
      /\ call[w].pc \notin {"state", "build"}
  BY <1>1 DEF Purchasing, PurchaseLabel
<1> HIDE DEF l
<1>3. /\ Types' /\ Locks' /\ Buying' /\ Queue' /\ Stored'
      /\ call'[w].pc = l
      /\ \A v \in Worker : v # w => call[v].pc = "idle" /\ call'[v].pc = "idle"
  BY <1>1, <1>2, LoaderStep
<1>4. Risk
  BY DEF ApiInv
<1>5. _LOADED => Ready
  BY <1>1, <1>3, <1>4 DEF Risk
<1>6. Ready' <=> Ready
  BY <1>1 DEF Ready
<1>7. ASSUME _LOADED PROVE Risk'
  <2>1. /\ _LOADED' \in BOOLEAN /\ _MODEL' \in {"trained", None}
        /\ _THRESHOLDS' \in {"trained", "default"}
        /\ found' \in [Worker -> {"trained", None}] /\ risk_lock' \in Worker \cup {None}
    BY <1>1, <1>4, <1>7 DEF Risk
  <2>2. \A v \in Worker : risk_lock' = v <=> call'[v].pc \in Loading
    BY <1>1, <1>3, <1>4, <1>7, ApiNulls DEF Risk, Loading, l
  <2>3. _LOADED' /\ (\A v \in Worker : call'[v].pc \notin {"artifact", "thresholds"}) => Ready'
    BY <1>1, <1>3, <1>4, <1>5, <1>6, <1>7 DEF Ready, l
  <2>4. \A v \in Worker :
          /\ call'[v].pc \in {"artifact", "thresholds", "score"} => _LOADED'
          /\ call'[v].pc = "thresholds" => Artifact /\ _MODEL' = "trained"
          /\ call'[v].pc = "score" => found'[v] = IF Artifact THEN "trained" ELSE None
    BY <1>1, <1>3, <1>4, <1>5, <1>6, <1>7 DEF Risk, Ready, l
  <2>5. ScoredByTheModel'
    BY <1>1, <1>4 DEF Risk, ScoredByTheModel
  <2>6. QED
    BY <2>1, <2>2, <2>3, <2>4, <2>5 DEF Risk
<1>8. ASSUME ~_LOADED PROVE Risk'
  <2>1. /\ _LOADED' \in BOOLEAN /\ _MODEL' \in {"trained", None}
        /\ _THRESHOLDS' \in {"trained", "default"}
        /\ found' \in [Worker -> {"trained", None}] /\ risk_lock' \in Worker \cup {None}
    BY <1>1, <1>4, <1>8 DEF Risk
  <2>2. \A v \in Worker : risk_lock' = v <=> call'[v].pc \in Loading
    BY <1>1, <1>3, <1>4, <1>8, ApiNulls DEF Risk, Loading, l
  <2>3. _LOADED' /\ (\A v \in Worker : call'[v].pc \notin {"artifact", "thresholds"}) => Ready'
    BY <1>1, <1>3, <1>4, <1>6, <1>8 DEF Ready, l
  <2>4. \A v \in Worker :
          /\ call'[v].pc \in {"artifact", "thresholds", "score"} => _LOADED'
          /\ call'[v].pc = "thresholds" => Artifact /\ _MODEL' = "trained"
          /\ call'[v].pc = "score" => found'[v] = IF Artifact THEN "trained" ELSE None
    BY <1>1, <1>3, <1>4, <1>6, <1>8 DEF Risk, Ready, l
  <2>5. ScoredByTheModel'
    BY <1>1, <1>4 DEF Risk, ScoredByTheModel
  <2>6. QED
    BY <2>1, <2>2, <2>3, <2>4, <2>5 DEF Risk
<1>9. QED
  BY <1>3, <1>7, <1>8 DEF ApiInv

\* The model is read under the lock.
LEMMA load_artifactInv ==
  ASSUME ApiInv, NEW w \in Worker, load_artifact(w)
  PROVE  ApiInv'
<1> DEFINE l == IF Artifact THEN "thresholds" ELSE "score"
<1>1. /\ call[w].pc = "artifact" /\ Goto(w, l)
      /\ UNCHANGED <<rows, used, audit, api_lock, payments, events, waiting, job, loop, built,
                     last_txn_id, scored, _LOADED, _THRESHOLDS>>
      /\ Artifact => _MODEL' = "trained" /\ UNCHANGED <<risk_lock, found>>
      /\ ~Artifact => /\ _MODEL' = None /\ found' = [found EXCEPT ![w] = None] /\ risk_lock' = None
  BY DEF load_artifact, Only, At, razorpay, requests
<1>2. /\ Purchasing(w) /\ l \in PurchaseLabel \ {"state", "build"}
      /\ call[w].pc \notin {"state", "build"}
  BY <1>1 DEF Purchasing, PurchaseLabel
<1> HIDE DEF l
<1>3. /\ Types' /\ Locks' /\ Buying' /\ Queue' /\ Stored'
      /\ call'[w].pc = l
      /\ \A v \in Worker : v # w => call[v].pc = "idle" /\ call'[v].pc = "idle"
  BY <1>1, <1>2, LoaderStep
<1>4. Risk
  BY DEF ApiInv
<1>5. _LOADED
  BY <1>1, <1>4 DEF Risk
<1>6. ASSUME Artifact PROVE Risk'
  <2>1. /\ _LOADED' \in BOOLEAN /\ _MODEL' \in {"trained", None}
        /\ _THRESHOLDS' \in {"trained", "default"}
        /\ found' \in [Worker -> {"trained", None}] /\ risk_lock' \in Worker \cup {None}
    BY <1>1, <1>4, <1>6 DEF Risk
  <2>2. \A v \in Worker : risk_lock' = v <=> call'[v].pc \in Loading
    BY <1>1, <1>3, <1>4, <1>6, ApiNulls DEF Risk, Loading, l
  <2>3. _LOADED' /\ (\A v \in Worker : call'[v].pc \notin {"artifact", "thresholds"}) => Ready'
    BY <1>1, <1>3, <1>4, <1>5, <1>6 DEF Ready, l
  <2>4. \A v \in Worker :
          /\ call'[v].pc \in {"artifact", "thresholds", "score"} => _LOADED'
          /\ call'[v].pc = "thresholds" => Artifact /\ _MODEL' = "trained"
          /\ call'[v].pc = "score" => found'[v] = IF Artifact THEN "trained" ELSE None
    BY <1>1, <1>3, <1>4, <1>5, <1>6 DEF Risk, Ready, l
  <2>5. ScoredByTheModel'
    BY <1>1, <1>4 DEF Risk, ScoredByTheModel
  <2>6. QED
    BY <2>1, <2>2, <2>3, <2>4, <2>5 DEF Risk
<1>7. ASSUME ~Artifact PROVE Risk'
  <2>1. /\ _LOADED' \in BOOLEAN /\ _MODEL' \in {"trained", None}
        /\ _THRESHOLDS' \in {"trained", "default"}
        /\ found' \in [Worker -> {"trained", None}] /\ risk_lock' \in Worker \cup {None}
    BY <1>1, <1>4, <1>7 DEF Risk
  <2>2. \A v \in Worker : risk_lock' = v <=> call'[v].pc \in Loading
    BY <1>1, <1>3, <1>4, <1>7, ApiNulls DEF Risk, Loading, l
  <2>3. _LOADED' /\ (\A v \in Worker : call'[v].pc \notin {"artifact", "thresholds"}) => Ready'
    BY <1>1, <1>3, <1>4, <1>5, <1>7 DEF Ready, l
  <2>4. \A v \in Worker :
          /\ call'[v].pc \in {"artifact", "thresholds", "score"} => _LOADED'
          /\ call'[v].pc = "thresholds" => Artifact /\ _MODEL' = "trained"
          /\ call'[v].pc = "score" => found'[v] = IF Artifact THEN "trained" ELSE None
    BY <1>1, <1>3, <1>4, <1>5, <1>7 DEF Risk, Ready, l
  <2>5. ScoredByTheModel'
    BY <1>1, <1>4 DEF Risk, ScoredByTheModel
  <2>6. QED
    BY <2>1, <2>2, <2>3, <2>4, <2>5 DEF Risk
<1>8. QED
  BY <1>3, <1>6, <1>7 DEF ApiInv

\* Then its thresholds, before the lock is given back.
LEMMA load_thresholdsInv ==
  ASSUME ApiInv, NEW w \in Worker, load_thresholds(w)
  PROVE  ApiInv'
<1>1. /\ call[w].pc = "thresholds" /\ Goto(w, "score") /\ _THRESHOLDS' = "trained"
      /\ found' = [found EXCEPT ![w] = _MODEL] /\ risk_lock' = None
      /\ UNCHANGED <<rows, used, audit, api_lock, payments, events, waiting, job, loop, built,
                     last_txn_id, scored, _LOADED, _MODEL>>
  BY DEF load_thresholds, Only, At, razorpay, requests
<1>2. /\ Purchasing(w) /\ "score" \in PurchaseLabel \ {"state", "build"}
      /\ call[w].pc \notin {"state", "build"}
  BY <1>1 DEF Purchasing, PurchaseLabel
<1>3. /\ Types' /\ Locks' /\ Buying' /\ Queue' /\ Stored'
      /\ call'[w].pc = "score"
      /\ \A v \in Worker : v # w => call[v].pc = "idle" /\ call'[v].pc = "idle"
  BY <1>1, <1>2, LoaderStep
<1>4. Risk
  BY DEF ApiInv
<1>5. _LOADED /\ Artifact /\ _MODEL = "trained"
  BY <1>1, <1>4 DEF Risk
<1>6. Risk'
  BY <1>1, <1>3, <1>4, <1>5, ApiNulls DEF Risk, Loading, Ready, ScoredByTheModel
<1>7. QED
  BY <1>3, <1>6 DEF ApiInv

\* A score uses the model if there is one, and then with its thresholds.
LEMMA assessInv ==
  ASSUME ApiInv, NEW w \in Worker, assess(w)
  PROVE  ApiInv'
<1> DEFINE entry == [txn |-> call[w].txn,
                     model |-> found[w],
                     thresholds |-> IF found[w] = None THEN None ELSE _THRESHOLDS]
<1>1. /\ call[w].pc = "score" /\ Goto(w, "record") /\ scored' = scored \cup {entry}
      /\ found' = [found EXCEPT ![w] = None]
      /\ UNCHANGED <<rows, used, audit, api_lock, payments, events, waiting, job, loop, built,
                     last_txn_id, risk_lock, _LOADED, _MODEL, _THRESHOLDS>>
  BY DEF assess, At, razorpay, requests
<1>2. /\ Purchasing(w) /\ "record" \in PurchaseLabel \ {"state", "build"}
      /\ call[w].pc \notin {"state", "build"}
  BY <1>1 DEF Purchasing, PurchaseLabel
<1>3. /\ Types' /\ Locks' /\ Buying' /\ Queue' /\ Stored'
      /\ call'[w].pc = "record"
      /\ \A v \in Worker : v # w => call[v].pc = "idle" /\ call'[v].pc = "idle"
  BY <1>1, <1>2, LoaderStep
<1>4. Risk
  BY DEF ApiInv
<1>5. /\ _LOADED /\ found[w] = IF Artifact THEN "trained" ELSE None
      /\ \A v \in Worker : call[v].pc \notin {"artifact", "thresholds"}
  BY <1>1, <1>3, <1>4 DEF Risk
<1>6. Ready
  BY <1>4, <1>5 DEF Risk
<1>7. IF Artifact THEN entry.model = "trained" /\ entry.thresholds = "trained"
      ELSE entry.model = None
  BY <1>5, <1>6, ApiNulls DEF Ready
<1> HIDE DEF entry
<1>8. ScoredByTheModel'
  BY <1>1, <1>4, <1>7 DEF Risk, ScoredByTheModel
<1>9. Ready' <=> Ready
  BY <1>1 DEF Ready
<1>10. Risk'
  BY <1>1, <1>3, <1>4, <1>6, <1>8, <1>9 DEF Risk, Loading
<1>11. QED
  BY <1>3, <1>10 DEF ApiInv
-----------------------------------------------------------------------------
\* Settlement's calls.

\* An UPDATE leaves a row.
LEMMA UpdateKeepsRows ==
  ASSUME ApiInv, NEW s \in Session, Settling(s), UpdateRow(s)
  PROVE  /\ rows' \in [Txn -> Rows \cup {None}]
         /\ \A t \in Txn : rows'[t] = None <=> rows[t] = None
<1> DEFINE c == call[s]
           old == rows[c.txn]
<1>1. /\ c \in ApiCallOf /\ c.txn \in Txn /\ old # None /\ c.status \in Outcome
      /\ rows \in [Txn -> Rows \cup {None}] /\ old \in Rows
  BY DEF ApiInv, Types, Stored
<1>2. Updated(old, c) \in Rows
  BY <1>1 DEF Updated, COALESCE, Rows, ApiCallOf, Outcome
<1>3. rows' = [rows EXCEPT ![c.txn] = Updated(old, c)]
  BY DEF UpdateRow
<1>4. QED
  BY <1>1, <1>2, <1>3, ApiNulls

SettleLabel == {"create", "fetch", "update", "append"}

\* A step of a settlement call ends it or goes on with it.
LEMMA SettleMoves ==
  ASSUME ApiInv, NEW s \in Session, Progress(s) \/ DatabaseError(s)
  PROVE  /\ Settling(s)
         /\ rows' \in [Txn -> Rows \cup {None}]
         /\ \A t \in Txn : rows'[t] = None <=> rows[t] = None
         /\ UNCHANGED <<used, payments, events>>
         /\ \/ Leave(s)
            \/ /\ api_lock' = api_lock /\ call' \in [Session -> ApiCallOf]
               /\ call'[s].pc \in SettleLabel /\ call'[s].txn = call[s].txn
               /\ call'[s].status = call[s].status
               /\ \A r \in Session : r # s => call'[r] = call[r]
<1> DEFINE c == call[s]
<1>1. c.pc \in SettleLabel
  BY DEF Progress, DatabaseError, create_order, order_payments, set_transaction_settlement,
         append_event, SettleLabel
<1>2. Settling(s) /\ c \in ApiCallOf /\ call \in [Session -> ApiCallOf]
  BY <1>1 DEF SettleLabel, Settling, Working, Purchasing, PurchaseLabel, ApiInv, Types
<1>3. UNCHANGED <<used, payments, events>>
  BY DEF Progress, DatabaseError, create_order, order_payments, set_transaction_settlement,
         append_event, razorpay
<1>4. UNCHANGED rows \/ UpdateRow(s)
  BY DEF Progress, DatabaseError, create_order, order_payments, set_transaction_settlement,
         append_event
<1>5. /\ rows' \in [Txn -> Rows \cup {None}]
      /\ \A t \in Txn : rows'[t] = None <=> rows[t] = None
  BY <1>2, <1>4, UpdateKeepsRows DEF ApiInv, Types
<1>6. \/ Leave(s)
      \/ /\ api_lock' = api_lock
         /\ \/ \E o \in Order : call' = [call EXCEPT ![s].pc = "update", ![s].order = o]
            \/ \E p \in Payment : call' = [call EXCEPT ![s].pc = "update", ![s].payment = p]
            \/ call' = [call EXCEPT ![s].pc = "append"]
  BY DEF Progress, DatabaseError, create_order, order_payments, set_transaction_settlement,
         append_event
<1>7. CASE \E o \in Order : call' = [call EXCEPT ![s].pc = "update", ![s].order = o]
  <2>1. PICK o \in Order : call' = [call EXCEPT ![s].pc = "update", ![s].order = o]
    BY <1>7
  <2> DEFINE new == [c EXCEPT !.pc = "update", !.order = o]
  <2>2. /\ new \in ApiCallOf /\ new.pc = "update" /\ new.txn = c.txn /\ new.status = c.status
    BY <1>2 DEF ApiCallOf, Label
  <2>3. call' = [call EXCEPT ![s] = new]
    BY <1>2, <2>1
  <2> HIDE DEF new
  <2>4. QED
    BY <1>2, <1>3, <1>5, <1>6, <2>2, <2>3 DEF SettleLabel
<1>8. CASE \E p \in Payment : call' = [call EXCEPT ![s].pc = "update", ![s].payment = p]
  <2>1. PICK p \in Payment : call' = [call EXCEPT ![s].pc = "update", ![s].payment = p]
    BY <1>8
  <2> DEFINE new == [c EXCEPT !.pc = "update", !.payment = p]
  <2>2. /\ new \in ApiCallOf /\ new.pc = "update" /\ new.txn = c.txn /\ new.status = c.status
    BY <1>2 DEF ApiCallOf, Label
  <2>3. call' = [call EXCEPT ![s] = new]
    BY <1>2, <2>1
  <2> HIDE DEF new
  <2>4. QED
    BY <1>2, <1>3, <1>5, <1>6, <2>2, <2>3 DEF SettleLabel
<1>9. CASE call' = [call EXCEPT ![s].pc = "append"]
  <2> DEFINE new == [c EXCEPT !.pc = "append"]
  <2>1. /\ new \in ApiCallOf /\ new.pc = "append" /\ new.txn = c.txn /\ new.status = c.status
    BY <1>2 DEF ApiCallOf, Label
  <2>2. call' = [call EXCEPT ![s] = new]
    BY <1>2, <1>9
  <2> HIDE DEF new
  <2>3. QED
    BY <1>2, <1>3, <1>5, <1>6, <2>1, <2>2 DEF SettleLabel
<1>10. QED
  BY <1>2, <1>3, <1>5, <1>6, <1>7, <1>8, <1>9

\* Neither a purchase nor the model is touched while a settlement call works.
LEMMA SettleKeeps ==
  ASSUME ApiInv, NEW s \in Session, Progress(s) \/ DatabaseError(s),
         UNCHANGED <<waiting, built, last_txn_id, risk_model, scored>>,
         job' \in [Worker -> Request \cup {None}],
         \A w \in Worker : job'[w] \in {None, job[w]},
         loop' \in events \cup Unsigned \cup {None}
  PROVE  Types' /\ Buying' /\ Queue' /\ Stored' /\ Risk'
<1>1. /\ Settling(s) /\ Working(s)
      /\ rows' \in [Txn -> Rows \cup {None}]
      /\ \A t \in Txn : rows'[t] = None <=> rows[t] = None
      /\ UNCHANGED <<used, payments, events>>
      /\ \/ Leave(s)
         \/ /\ api_lock' = api_lock /\ call' \in [Session -> ApiCallOf]
            /\ call'[s].pc \in SettleLabel /\ call'[s].txn = call[s].txn
            /\ call'[s].status = call[s].status
            /\ \A r \in Session : r # s => call'[r] = call[r]
  BY SettleMoves DEF Settling
<1>2. \A r \in Session : r # s => call[r].pc = "idle"
  BY <1>1, OneCaller DEF ApiInv
<1>3. /\ call' \in [Session -> ApiCallOf] /\ api_lock' \in Session \cup {None}
      /\ \A r \in Session : r # s => call'[r].pc = "idle"
      /\ call'[s].pc \in SettleLabel \cup {"idle"}
      /\ call'[s].pc # "idle" => call'[s].txn = call[s].txn /\ call'[s].status = call[s].status
  <2>1. CASE Leave(s)
    BY <1>1, <2>1, Ending
  <2>2. CASE ~Leave(s)
    BY <1>1, <1>2, <2>2 DEF ApiInv, Types
  <2>3. QED
    BY <2>1, <2>2
<1>4. \A r \in Session : ~Purchasing(r)'
  BY <1>3, IdleCall DEF Purchasing, SettleLabel, PurchaseLabel
<1>5. Types'
  BY <1>1, <1>3 DEF ApiInv, Types
<1>6. Buying'
  BY <1>4 DEF Buying
<1>7. Queue'
  <2> SUFFICES ASSUME NEW r \in waiting, r.kind = "purchase"
               PROVE  r.txn \notin used' /\ \A v \in Worker : job'[v] # r
    BY DEF Queue
  <2>1. r \in Request /\ r.txn \notin used /\ \A v \in Worker : job[v] # r
    BY DEF ApiInv, Queue, Types
  <2>2. QED
    BY <1>1, <2>1, ApiNulls
<1>8. Stored'
  <2>1. built /\ call[s].txn \in Txn /\ rows[call[s].txn] # None /\ call[s].status \in Outcome
    BY <1>1 DEF ApiInv, Stored
  <2>2. \A r \in Session : Settling(r)' => r = s /\ call'[s].pc # "idle"
    BY <1>3 DEF Settling, Working
  <2>3. \A t \in Txn : rows'[t] # None => t \in used'
    BY <1>1 DEF ApiInv, Stored
  <2>4. QED
    BY <1>1, <1>3, <2>1, <2>2, <2>3 DEF Stored
<1>9. Risk'
  <2>1. \A w \in Worker : /\ call[w].pc \in SettleLabel \cup {"idle"}
                          /\ call'[w].pc \in SettleLabel \cup {"idle"}
    <3>1. call[s].pc \in SettleLabel
      BY DEF Progress, DatabaseError, create_order, order_payments, set_transaction_settlement,
             append_event, SettleLabel
    <3>2. QED
      BY <1>2, <1>3, <3>1, ApiNulls
  <2>2. \A w \in Worker : /\ call[w].pc \notin Loading \cup {"score"}
                          /\ call'[w].pc \notin Loading \cup {"score"}
    BY <2>1 DEF Loading, SettleLabel
  <2>3. QED
    BY <2>2, RiskKept DEF ApiInv
<1>10. QED
  BY <1>5, <1>6, <1>7, <1>8, <1>9

\* A step of a settlement keeps the invariant of the process.
LEMMA SettleStepInv ==
  ASSUME ApiInv, NEW w \in Worker, SettleStep(w)
  PROVE  ApiInv'
<1>1. /\ Progress(w) \/ DatabaseError(w)
      /\ job' = IF call'[w].pc = "idle" THEN [job EXCEPT ![w] = None] ELSE job
      /\ UNCHANGED <<waiting, loop, built, last_txn_id, risk_model, scored>>
  BY DEF SettleStep
<1>2. /\ w \in Session /\ w # EventLoop /\ EventLoop \in Session
      /\ \A v \in Worker : v \in Session
  BY ApiNulls
<1>3. /\ job' \in [Worker -> Request \cup {None}]
      /\ \A v \in Worker : v # w => job'[v] = job[v]
      /\ job'[w] = IF call'[w].pc = "idle" THEN None ELSE job[w]
  BY <1>1 DEF ApiInv, Types
<1>4. loop' \in events \cup Unsigned \cup {None}
  BY <1>1 DEF ApiInv, Types
<1>5. Types' /\ Buying' /\ Queue' /\ Stored' /\ Risk'
  BY <1>1, <1>2, <1>3, <1>4, SettleKeeps
<1>6. Locks'
  <2>1. Settling(w) /\ Working(w)
    BY <1>1, <1>2, SettleMoves DEF Settling
  <2>2. /\ api_lock = w /\ job[w] # None
        /\ \A r \in Session : r # w => call[r].pc = "idle"
        /\ \A v \in Worker : v # w => job[v] = None
    BY <1>2, <2>1, OneCaller DEF ApiInv, Locks
  <2>3. CASE Leave(w)
    <3>1. api_lock' = None /\ \A r \in Session : call'[r].pc = "idle"
      BY <1>2, <2>1, <2>3, Ending
    <3>2. \A v \in Worker : job'[v] = None
      BY <1>2, <1>3, <2>2, <3>1
    <3>3. \A r \in Session : api_lock' # r
      BY <3>1, ApiNulls
    <3>4. QED
      BY <1>2, <3>1, <3>2, <3>3 DEF Locks, Working
  <2>4. CASE ~Leave(w)
    <3>1. /\ api_lock' = api_lock /\ call'[w].pc \in SettleLabel
          /\ \A r \in Session : r # w => call'[r] = call[r]
      BY <1>1, <1>2, <2>4, SettleMoves
    <3>2. call'[w].pc # "idle"
      BY <3>1 DEF SettleLabel
    <3>3. QED
      BY <1>1, <1>2, <1>3, <2>1, <2>2, <3>1, <3>2 DEF Locks, Working, ApiInv
  <2>5. QED
    BY <2>3, <2>4
<1>7. QED
  BY <1>5, <1>6 DEF ApiInv

\* So does a step of a webhook.
LEMMA WebhookStepInv ==
  ASSUME ApiInv, WebhookStep
  PROVE  ApiInv'
<1> DEFINE s == EventLoop
<1>1. /\ Progress(s) \/ DatabaseError(s)
      /\ loop' = IF call'[s].pc = "idle" THEN None ELSE loop
      /\ UNCHANGED <<waiting, job, built, last_txn_id, risk_model, scored>>
  BY DEF WebhookStep
<1>2. s \in Session /\ s \notin Worker /\ \A v \in Worker : v \in Session
  BY ApiNulls
<1>3. /\ job' \in [Worker -> Request \cup {None}] /\ loop' \in events \cup Unsigned \cup {None}
  BY <1>1 DEF ApiInv, Types
<1>4. Types' /\ Buying' /\ Queue' /\ Stored' /\ Risk'
  BY <1>1, <1>2, <1>3, SettleKeeps
<1>5. Locks'
  <2>1. Settling(s) /\ Working(s)
    BY <1>1, <1>2, SettleMoves DEF Settling
  <2>2. /\ api_lock = s /\ loop # None
        /\ \A r \in Session : r # s => call[r].pc = "idle"
        /\ \A v \in Worker : job[v] = None
    BY <1>2, <2>1, OneCaller DEF ApiInv, Locks
  <2>3. CASE Leave(s)
    <3>1. api_lock' = None /\ \A r \in Session : call'[r].pc = "idle"
      BY <1>2, <2>1, <2>3, Ending
    <3>2. \A r \in Session : api_lock' # r
      BY <3>1, ApiNulls
    <3>3. QED
      BY <1>1, <1>2, <2>2, <3>1, <3>2 DEF Locks, Working
  <2>4. CASE ~Leave(s)
    <3>1. /\ api_lock' = api_lock /\ call'[s].pc \in SettleLabel
          /\ \A r \in Session : r # s => call'[r] = call[r]
      BY <1>1, <1>2, <2>4, SettleMoves
    <3>2. call'[s].pc # "idle"
      BY <3>1 DEF SettleLabel
    <3>3. QED
      BY <1>1, <1>2, <2>1, <2>2, <3>1, <3>2 DEF Locks, Working, ApiInv
  <2>5. QED
    BY <2>3, <2>4
<1>6. QED
  BY <1>4, <1>5 DEF ApiInv

\* The event loop takes an event, waits for _LOCK with it and drops or handles it.
LEMMA ReceiveInv ==
  ASSUME ApiInv, NEW e \in events \cup Unsigned, Receive(e)
  PROVE  ApiInv'
<1> USE DEF ApiInv
<1>1. /\ loop = None /\ loop' = e
      /\ UNCHANGED <<vars, waiting, job, built, last_txn_id, risk_model, scored>>
  BY DEF Receive
<1>2. UNCHANGED <<rows, used, audit, api_lock, call, payments, events>>
  BY <1>1 DEF vars, razorpay
<1>3. Types'
  BY <1>1, <1>2 DEF Types
<1>4. Locks'
  BY <1>1, <1>2 DEF Locks, Working
<1>5. Buying' /\ Queue' /\ Stored'
  BY <1>1, <1>2 DEF Buying, Queue, Stored, Purchasing, Settling, Working
<1>6. Risk'
  BY <1>1, <1>2, RiskKept
<1>7. QED
  BY <1>3, <1>4, <1>5, <1>6

\* The event loop takes the lock and begins with the event it was given.
LEMMA handle_eventInv ==
  ASSUME ApiInv, handle_event
  PROVE  ApiInv'
<1> USE DEF ApiInv
<1>1. /\ loop # None /\ api_lock = None /\ built' = TRUE
      /\ UNCHANGED <<waiting, job, last_txn_id, risk_model, scored>>
      /\ \/ razorpay_webhook(EventLoop, loop) /\ UNCHANGED loop
         \/ loop' = None /\ UNCHANGED vars
  BY DEF handle_event
<1>2. CASE razorpay_webhook(EventLoop, loop) /\ UNCHANGED loop
  <2>1. loop \in events
    BY <1>1, <1>2 DEF Types, razorpay_webhook, verify_webhook_signature, Unsigned
  <2>2. loop.order \in Order /\ loop.payment \in Payment
    BY <2>1 DEF Types, EventOf
  <2>3. PICK t \in Txn :
          /\ Concerns(loop, t)
          /\ Enter(EventLoop, [pc |-> "update", txn |-> t, order |-> loop.order,
                               payment |-> loop.payment,
                               status |-> IF Captures(rows[t], loop) THEN "settled" ELSE "failed"])
    BY <1>2 DEF razorpay_webhook
  <2> DEFINE c == [pc |-> "update", txn |-> t, order |-> loop.order, payment |-> loop.payment,
                   status |-> IF Captures(rows[t], loop) THEN "settled" ELSE "failed"]
  <2>4. /\ c \in ApiCallOf /\ c.pc \in {"create", "fetch", "update", "append"} /\ c.txn = t
        /\ c.status \in Outcome
    BY <2>2 DEF ApiCallOf, Label, Outcome
  <2>5. rows[t] # None
    BY <2>3 DEF Concerns
  <2>6. UNCHANGED <<rows, used, audit, payments, events>>
    BY <1>2 DEF razorpay_webhook, razorpay
  <2>7. Enter(EventLoop, c)
    BY <2>3
  <2> HIDE DEF c
  <2>8. EventLoop \in Session /\ UNCHANGED requests
    BY <1>1, <1>2, ApiNulls DEF requests
  <2>9. QED
    BY <1>1, <2>4, <2>5, <2>6, <2>7, <2>8, BeginSettlement
<1>3. CASE loop' = None /\ UNCHANGED vars
  <2>1. UNCHANGED <<rows, used, audit, api_lock, call, payments, events>>
    BY <1>3 DEF vars, razorpay
  <2>2. \A s \in Session : ~Working(s) /\ ~Purchasing(s) /\ ~Settling(s)
    BY <1>1, NobodyPurchases DEF Settling
  <2>3. Types'
    BY <1>1, <1>3, <2>1 DEF Types
  <2>4. Locks'
    BY <1>1, <2>1, <2>2, ApiNulls DEF Locks, Working
  <2>5. Buying' /\ Queue' /\ Stored'
    BY <1>1, <2>1, <2>2 DEF Buying, Queue, Stored, Purchasing, Settling, Working
  <2>6. Risk'
    BY <1>1, <2>1, RiskKept
  <2>7. QED
    BY <2>3, <2>4, <2>5, <2>6
<1>4. QED
  BY <1>1, <1>2, <1>3

\* Payments and their events change at any time.
LEMMA CustomerInv ==
  ASSUME ApiInv, Customer
  PROVE  ApiInv' /\ UNCHANGED <<rows, audit, api_lock, call>>
<1> USE DEF ApiInv
<1>1. /\ UNCHANGED <<rows, used, audit, api_lock, call>>
      /\ UNCHANGED <<waiting, job, loop, built, last_txn_id, risk_model, scored>>
  BY DEF Customer, Pay, Capture, Fail, requests
<1>2. payments \in [Payment -> PaymentOf \cup {None}] /\ events \subseteq EventOf
  BY DEF Types
<1>3. payments' \in [Payment -> PaymentOf \cup {None}] /\ events' \subseteq EventOf
  <2>1. ASSUME NEW o \in Order, NEW p \in Payment, NEW a \in Amount, Pay(o, p, a)
        PROVE  payments' \in [Payment -> PaymentOf \cup {None}] /\ events' \subseteq EventOf
    <3>1. [order |-> o, amount |-> a, status |-> "created"] \in PaymentOf
      BY DEF PaymentOf
    <3>2. QED
      BY <1>2, <2>1, <3>1 DEF Pay
  <2>2. ASSUME NEW p \in Payment, Capture(p)
        PROVE  payments' \in [Payment -> PaymentOf \cup {None}] /\ events' \subseteq EventOf
    <3>1. payments[p] \in PaymentOf
      BY <1>2, <2>2 DEF Capture
    <3>2. [payments[p] EXCEPT !.status = "captured"] \in PaymentOf
      BY <3>1 DEF PaymentOf
    <3>3. Events({"payment.authorized", "payment.captured", "order.paid"}, p,
                 {payments[p].amount, None}) \subseteq EventOf
      BY <3>1 DEF Events, EventOf, EventType, PaymentOf
    <3>4. payments' = [payments EXCEPT ![p] = [payments[p] EXCEPT !.status = "captured"]]
      BY <1>2, <2>2 DEF Capture
    <3>5. QED
      BY <1>2, <2>2, <3>2, <3>3, <3>4 DEF Capture
  <2>3. ASSUME NEW p \in Payment, Fail(p)
        PROVE  payments' \in [Payment -> PaymentOf \cup {None}] /\ events' \subseteq EventOf
    <3>1. payments[p] \in PaymentOf
      BY <1>2, <2>3 DEF Fail
    <3>2. [payments[p] EXCEPT !.status = "failed"] \in PaymentOf
      BY <3>1 DEF PaymentOf
    <3>3. Events({"payment.failed"}, p, {payments[p].amount, None}) \subseteq EventOf
      BY <3>1 DEF Events, EventOf, EventType, PaymentOf
    <3>4. payments' = [payments EXCEPT ![p] = [payments[p] EXCEPT !.status = "failed"]]
      BY <1>2, <2>3 DEF Fail
    <3>5. QED
      BY <1>2, <2>3, <3>2, <3>3, <3>4 DEF Fail
  <2>4. QED
    BY <2>1, <2>2, <2>3 DEF Customer
<1>4. events \subseteq events'
  BY DEF Customer, Pay, Capture, Fail
<1>5. Types'
  BY <1>1, <1>3, <1>4 DEF Types
<1>6. Locks' /\ Queue'
  BY <1>1 DEF Locks, Queue, Working
<1>7. Buying' /\ Stored'
  BY <1>1 DEF Buying, Stored, Purchasing, Settling, Working
<1>8. Risk'
  BY <1>1, RiskKept
<1>9. QED
  BY <1>1, <1>5, <1>6, <1>7, <1>8

\* Every step of the process keeps the invariant.
LEMMA ApiStepInv == ApiInv /\ [ApiNext]_api_vars => ApiInv'
<1> SUFFICES ASSUME ApiInv, [ApiNext]_api_vars PROVE ApiInv'
  OBVIOUS
<1>1. CASE \E r \in Request : Dispatch(r) \/ Serve(r)
  BY <1>1, DispatchInv, healthInv, settle_txnInv, purchaseInv DEF Serve
<1>2. CASE \E w \in Worker : PurchaseStep(w)
  BY <1>2, check_stateInv, build_stateInv, negotiateInv, check_loadedInv, lock_modelInv,
     recheck_loadedInv, load_artifactInv, load_thresholdsInv, assessInv, recordInv
     DEF PurchaseStep
<1>3. CASE \E w \in Worker : SettleStep(w)
  BY <1>3, SettleStepInv
<1>4. CASE \E e \in events \cup Unsigned : Receive(e)
  BY <1>4, ReceiveInv
<1>5. CASE handle_event \/ WebhookStep
  BY <1>5, handle_eventInv, WebhookStepInv
<1>6. CASE Customer
  BY <1>6, CustomerInv
<1>7. CASE UNCHANGED api_vars
  <2>1. /\ UNCHANGED <<rows, used, audit, api_lock, call, payments, events>>
        /\ UNCHANGED <<waiting, job, loop, built, last_txn_id, risk_model, scored>>
    BY <1>7 DEF api_vars, vars, razorpay, requests
  <2>2. Types' /\ Locks' /\ Queue'
    BY <2>1 DEF ApiInv, Types, Locks, Queue, Working
  <2>3. Buying' /\ Stored'
    BY <2>1 DEF ApiInv, Buying, Stored, Purchasing, Settling, Working
  <2>4. Risk'
    BY <2>1, RiskKept DEF ApiInv
  <2>5. QED
    BY <2>2, <2>3, <2>4 DEF ApiInv
<1>8. QED
  BY <1>1, <1>2, <1>3, <1>4, <1>5, <1>6, <1>7 DEF ApiNext

\* The invariant of the process: one call at a time has _LOCK, its request and its
\* transaction; the database is there before anything is stored in it; the model
\* and its thresholds are there before anybody scores with them.
THEOREM ApiInductiveInvariant == ApiSpec => []ApiInv
  BY ApiInitInv, ApiStepInv, PTL DEF ApiSpec
-----------------------------------------------------------------------------
\* What the run checks, of the invariant.

\* Types, and who holds which lock while doing what.
THEOREM ApiTypeOKHolds == ApiSpec => []ApiTypeOK
<1>1. ApiInv => ApiTypeOK
  BY DEF ApiInv, Types, Locks, Risk, ApiTypeOK, Loading
<1>2. QED
  BY <1>1, ApiInductiveInvariant, PTL

\* Every purchase is put to the trained model and its thresholds if the
\* artifact is there (model.py:133-134): no thread sees the loader's flag before
\* the model it announces, because _LOCK lets one purchase at a time reach it.
THEOREM ScoredByTheModelHolds == ApiSpec => []ScoredByTheModel
<1>1. ApiInv => ScoredByTheModel
  BY DEF ApiInv, Risk
<1>2. QED
  BY <1>1, ApiInductiveInvariant, PTL

\* No call empties a database that has rows (app.py:94-98).
THEOREM RecordedStaysHolds == ApiSpec => RecordedStays
<1>1. ApiInv /\ [ApiNext]_api_vars =>
        [\A t \in Txn : rows[t] # None => rows'[t] # None]_api_vars
  <2> SUFFICES ASSUME ApiInv, ApiNext, NEW t \in Txn, rows[t] # None
               PROVE  rows'[t] # None
    OBVIOUS
  <2>1. CASE UNCHANGED rows
    BY <2>1
  <2>2. ASSUME NEW w \in Worker, record(w) PROVE rows'[t] # None
    BY <2>2, recordInv
  <2>3. ASSUME NEW w \in Worker, build_state(w) PROVE rows'[t] # None
    BY <2>3, build_stateInv
  <2>4. ASSUME NEW s \in Session, Progress(s) \/ DatabaseError(s) PROVE rows'[t] # None
    BY <2>4, SettleMoves
  <2>5. QED
    BY <2>1, <2>2, <2>3, <2>4, ApiNulls
       DEF ApiNext, Dispatch, Serve, health, settle_txn, purchase, ReturnExisting, settle,
           PurchaseStep, check_state, negotiate, check_loaded, lock_model, recheck_loaded,
           load_artifact, load_thresholds, assess, Only, SettleStep, Receive, handle_event,
           razorpay_webhook, WebhookStep, Customer, Pay, Capture, Fail, vars
<1>2. QED
  BY <1>1, ApiInductiveInvariant, PTL DEF ApiSpec, RecordedStays
-----------------------------------------------------------------------------
\* Refinement of Settlement: what it sees of the process.

SeenCall == [s \in Session |-> IF Purchasing(s) THEN Idle ELSE call[s]]
SeenLock == IF \E s \in Session : Purchasing(s) THEN None ELSE api_lock
SeenUsed == {t \in Txn : rows[t] # None}

\* A thread without a call has nothing left of its last one.
Resting == \A s \in Session : call[s].pc = "idle" => call[s] = Idle

\* A thread that has finished keeps nothing of its call.
LEMMA RestingStep == ApiInv /\ Resting /\ [ApiNext]_api_vars => Resting'
<1> SUFFICES ASSUME ApiInv, Resting, [ApiNext]_api_vars PROVE Resting'
  OBVIOUS
<1>1. call \in [Session -> ApiCallOf] /\ \A w \in Worker : w \in Session
  BY ApiNulls DEF ApiInv, Types
<1>2. CASE UNCHANGED call
  BY <1>2 DEF Resting
<1>3. ASSUME NEW s \in Session, Leave(s) PROVE Resting'
  BY <1>1, <1>3 DEF Resting, Leave
<1>4. ASSUME NEW s \in Session, NEW c, c.pc # "idle", Enter(s, c) PROVE Resting'
  BY <1>1, <1>4 DEF Resting, Enter
<1>5. ASSUME NEW w \in Worker, NEW l \in PurchaseLabel, Goto(w, l) PROVE Resting'
  <2>1. call'[w].pc = l /\ \A s \in Session : s # w => call'[s] = call[s]
    BY <1>1, <1>5 DEF Goto, ApiCallOf
  <2>2. QED
    BY <1>1, <2>1, IdleCall DEF Resting
<1>6. ASSUME NEW s \in Session, Progress(s) \/ DatabaseError(s) PROVE Resting'
  <2>1. CASE Leave(s)
    BY <1>3, <2>1
  <2>2. CASE ~Leave(s)
    BY <1>6, <2>2, SettleMoves DEF Resting, SettleLabel
  <2>3. QED
    BY <2>1, <2>2
<1>7. ASSUME NEW w \in Worker, PurchaseStep(w) PROVE Resting'
  <2>1. \/ Leave(w)
        \/ \E l \in PurchaseLabel : Goto(w, l)
    BY <1>7 DEF PurchaseStep, check_state, build_state, negotiate, check_loaded, lock_model,
                recheck_loaded, load_artifact, load_thresholds, assess, record, Only, Return,
                PurchaseLabel
  <2>2. QED
    BY <1>1, <1>3, <1>5, <2>1
<1>8. ASSUME NEW r \in Request, purchase(r) PROVE Resting'
  <2>1. NextWorker \in Session
    BY <1>1, <1>8 DEF purchase, NextWorker, Idlers
  <2> DEFINE c == [Idle EXCEPT !.pc = "state", !.txn = r.txn]
  <2>2. c.pc # "idle" /\ Enter(NextWorker, c)
    BY <1>8 DEF purchase, Idle
  <2> HIDE DEF c
  <2>3. QED
    BY <1>4, <2>1, <2>2
<1>9. ASSUME NEW s \in Session, NEW t, settle(s, t) PROVE Resting'
  <2> DEFINE c == [Idle EXCEPT !.pc = "create", !.txn = t, !.status = "pending_settlement"]
  <2>1. c.pc # "idle" /\ Enter(s, c)
    BY <1>9 DEF settle, Idle
  <2> HIDE DEF c
  <2>2. QED
    BY <1>4, <2>1
<1>10. ASSUME NEW r \in Request, settle_txn(r) PROVE Resting'
  <2>1. CASE UNCHANGED call
    BY <1>2, <2>1
  <2>2. CASE \E t : Idlers # {} /\ settle(NextWorker, t)
    BY <1>1, <1>9, <2>2 DEF NextWorker, Idlers
  <2>3. QED
    BY <1>10, <2>1, <2>2 DEF settle_txn, ReturnExisting, vars
<1>11. ASSUME NEW s \in Session, NEW e, razorpay_webhook(s, e) PROVE Resting'
  <2>1. PICK t \in Txn :
          Enter(s, [pc |-> "update", txn |-> t, order |-> e.order, payment |-> e.payment,
                    status |-> IF Captures(rows[t], e) THEN "settled" ELSE "failed"])
    BY <1>11 DEF razorpay_webhook
  <2> DEFINE c == [pc |-> "update", txn |-> t, order |-> e.order, payment |-> e.payment,
                   status |-> IF Captures(rows[t], e) THEN "settled" ELSE "failed"]
  <2>2. c.pc # "idle" /\ Enter(s, c)
    BY <2>1
  <2> HIDE DEF c
  <2>3. QED
    BY <1>4, <2>2
<1>12. CASE handle_event
  BY <1>2, <1>11, <1>12, ApiNulls DEF handle_event, vars
<1>13. CASE \E r \in Request : Dispatch(r) \/ health(r)
  BY <1>2, <1>13 DEF Dispatch, health, vars
<1>14. CASE \E e \in events \cup Unsigned : Receive(e)
  BY <1>2, <1>14 DEF Receive, vars
<1>15. CASE Customer
  BY <1>2, <1>15, CustomerInv
<1>16. CASE UNCHANGED api_vars
  BY <1>2, <1>16 DEF api_vars, vars
<1>17. QED
  BY <1>1, <1>6, <1>7, <1>8, <1>10, <1>12, <1>13, <1>14, <1>15, <1>16, ApiNulls
     DEF ApiNext, Serve, SettleStep, WebhookStep

\* While nobody purchases it sees the calls and the lock as they are.
LEMMA SeenAsIs ==
  ASSUME call \in [Session -> ApiCallOf], \A s \in Session : ~Purchasing(s)
  PROVE  SeenCall = call /\ SeenLock = api_lock
  BY DEF SeenCall, SeenLock

\* When nobody purchases Settlement sees the calls and the lock as they are.
LEMMA SeenAsIsNext ==
  ASSUME call' \in [Session -> ApiCallOf], \A s \in Session : ~Purchasing(s)'
  PROVE  SeenCall' = call' /\ SeenLock' = api_lock'
  BY DEF SeenCall, SeenLock

\* A step that it does not see.
LEMMA Unseen ==
  ASSUME SeenCall' = SeenCall, SeenLock' = SeenLock,
         UNCHANGED <<rows, audit, orders, payments, events, offered, faults, restarts>>
  PROVE  UNCHANGED Core!vars
  BY DEF Core!vars, Core!razorpay, Core!bounds, SeenCall, SeenLock

\* A step of one of its calls.
LEMMA SeenStep ==
  ASSUME SeenCall = call, SeenLock = api_lock, SeenCall' = call', SeenLock' = api_lock',
         SeenUsed' = SeenUsed, NEW s \in Session, Progress(s) \/ DatabaseError(s)
  PROVE  Core!Next
<1>1. CASE create_order(s)
  <2>1. Core!create_order(s)
    BY <1>1 DEF create_order, Core!create_order, Leave, Core!Leave, Idle, Core!Idle,
                SeenCall, SeenLock, SeenUsed
  <2>2. QED
    BY <2>1 DEF Core!Progress, Core!Next
<1>2. CASE order_payments(s)
  <2>1. Core!order_payments(s)
    BY <1>2 DEF order_payments, Core!order_payments, Leave, Core!Leave, Idle, Core!Idle,
                Settles, Core!Settles, razorpay, Core!razorpay, bounds, Core!bounds,
                SeenCall, SeenLock, SeenUsed
  <2>2. QED
    BY <2>1 DEF Core!Progress, Core!Next
<1>3. CASE set_transaction_settlement(s)
  <2>1. Core!set_transaction_settlement(s)
    BY <1>3 DEF set_transaction_settlement, Core!set_transaction_settlement, UpdateRow,
       Core!UpdateRow, Updated, Core!Updated, COALESCE,
                Core!COALESCE, razorpay, Core!razorpay, bounds, Core!bounds,
                SeenCall, SeenLock, SeenUsed
  <2>2. QED
    BY <2>1 DEF Core!Progress, Core!Next
<1>4. CASE append_event(s)
  <2>1. Core!append_event(s)
    BY <1>4 DEF append_event, Core!append_event, Leave, Core!Leave, Idle, Core!Idle,
                Entry, Core!Entry, razorpay, Core!razorpay, bounds, Core!bounds,
                SeenCall, SeenLock, SeenUsed
  <2>2. QED
    BY <2>1 DEF Core!Progress, Core!Next
<1>5. CASE DatabaseError(s)
  <2>1. Core!DatabaseError(s)
    BY <1>5 DEF DatabaseError, Core!DatabaseError, Leave, Core!Leave, Idle, Core!Idle,
                Entry, Core!Entry, UpdateRow, Core!UpdateRow, Updated, Core!Updated,
                COALESCE, Core!COALESCE, razorpay, Core!razorpay,
                SeenCall, SeenLock, SeenUsed
  <2>2. QED
    BY <2>1 DEF Core!Progress, Core!Next
<1>6. QED
  BY <1>1, <1>2, <1>3, <1>4, <1>5 DEF Progress

\* The beginnings of its calls.
LEMMA SeenSettle ==
  ASSUME SeenCall = call, SeenLock = api_lock, SeenCall' = call', SeenLock' = api_lock',
         SeenUsed' = SeenUsed, NEW s \in Session, NEW t \in Txn, settle(s, t)
  PROVE  Core!Next
<1>1. Core!settle(s, t)
  BY DEF settle, Core!settle, MaySettle, Core!MaySettle, Enter, Core!Enter, Idle, Core!Idle,
         razorpay, Core!razorpay, bounds, Core!bounds, SeenCall, SeenLock, SeenUsed
<1>2. QED
  BY <1>1 DEF Core!Next

\* An order offered again is a ReturnExisting of Settlement.
LEMMA SeenReturn ==
  ASSUME SeenCall = call, SeenLock = api_lock, SeenCall' = call', SeenLock' = api_lock',
         SeenUsed' = SeenUsed, NEW t \in Txn, ReturnExisting(t)
  PROVE  Core!Next
<1>1. Core!ReturnExisting(t)
  BY DEF ReturnExisting, Core!ReturnExisting, MaySettle, Core!MaySettle,
         razorpay, Core!razorpay, bounds, Core!bounds, SeenCall, SeenLock, SeenUsed
<1>2. QED
  BY <1>1 DEF Core!Next

\* A webhook that begins is one of Settlement.
LEMMA SeenWebhook ==
  ASSUME SeenCall = call, SeenLock = api_lock, SeenCall' = call', SeenLock' = api_lock',
         SeenUsed' = SeenUsed, NEW s \in Session, NEW e \in events \cup Unsigned,
         razorpay_webhook(s, e)
  PROVE  Core!Next
<1>1. Core!razorpay_webhook(s, e)
  BY DEF razorpay_webhook, Core!razorpay_webhook, verify_webhook_signature,
         Core!verify_webhook_signature, Concerns, Core!Concerns, AmountMatches,
         Core!AmountMatches, Captures, Core!Captures, Fails, Core!Fails, Enter, Core!Enter,
         razorpay, Core!razorpay, bounds, Core!bounds, SeenCall, SeenLock, SeenUsed
<1>2. e \in events \cup Core!Unsigned
  BY DEF Unsigned, Core!Unsigned
<1>3. QED
  BY <1>1, <1>2 DEF Core!Next

\* The customer's steps.
LEMMA SeenCustomer ==
  ASSUME Customer, UNCHANGED <<rows, audit, api_lock, call>>
  PROVE  Core!Next
<1>1. SeenCall' = SeenCall /\ SeenLock' = SeenLock /\ SeenUsed' = SeenUsed
  BY DEF SeenCall, SeenLock, SeenUsed, Purchasing
<1>2. ASSUME NEW o \in Order, NEW p \in Payment, NEW a \in Amount, Pay(o, p, a)
      PROVE  Core!Next
  <2>1. Core!Pay(o, p, a)
    BY <1>1, <1>2 DEF Pay, Core!Pay, Paid, Core!Paid, PaymentsOf, Core!PaymentsOf, bounds,
                      Core!bounds, SeenCall, SeenLock, SeenUsed
  <2>2. QED
    BY <2>1 DEF Core!Next
<1>3. ASSUME NEW p \in Payment, Capture(p)
      PROVE  Core!Next
  <2>1. Core!Capture(p)
    BY <1>1, <1>3 DEF Capture, Core!Capture, Paid, Core!Paid, PaymentsOf, Core!PaymentsOf,
                      Events, Core!Events, bounds, Core!bounds, SeenCall, SeenLock, SeenUsed
  <2>2. QED
    BY <2>1 DEF Core!Next
<1>4. ASSUME NEW p \in Payment, Fail(p)
      PROVE  Core!Next
  <2>1. Core!Fail(p)
    BY <1>1, <1>4 DEF Fail, Core!Fail, Events, Core!Events, bounds, Core!bounds,
                      SeenCall, SeenLock, SeenUsed
  <2>2. QED
    BY <2>1 DEF Core!Next
<1>5. QED
  BY <1>2, <1>3, <1>4 DEF Customer

\* The last step of a purchase is what it sees of it.
LEMMA SeenRecord ==
  ASSUME ApiInv, NEW w \in Worker, record(w)
  PROVE  Core!Next \/ UNCHANGED Core!vars
<1>1. /\ call[w].pc = "record" /\ Return(w)
      /\ UNCHANGED <<audit, orders, payments, events, offered, faults, restarts>>
  BY DEF record, At, razorpay, bounds
<1>2. /\ Purchasing(w) /\ w \in Session /\ Working(w) /\ Leave(w)
      /\ \A s \in Session : s # w => call[s].pc = "idle"
  BY <1>1, OneCaller, ApiNulls, IdleCall
     DEF Purchasing, PurchaseLabel, Working, Return, ApiInv
<1>3. PICK t \in Txn : t = call[w].txn
  BY <1>2 DEF ApiInv, Buying
<1>4. /\ api_lock' = None /\ \A s \in Session : call'[s].pc = "idle"
      /\ call' = [call EXCEPT ![w] = Idle] /\ call \in [Session -> ApiCallOf]
  BY <1>2, Ending DEF Leave, ApiInv, Types
<1>5. SeenLock = None /\ SeenLock' = None
  BY <1>2, <1>4 DEF SeenLock
<1>6. SeenCall' = SeenCall
  <2>1. \A s \in Session : ~Purchasing(s)'
    BY <1>4, IdleCall DEF Purchasing
  <2>2. \A s \in Session : s # w => ~Purchasing(s)
    BY <1>2, IdleCall DEF Purchasing
  <2>3. QED
    BY <1>2, <1>4, <2>1, <2>2 DEF SeenCall
<1>7. CASE UNCHANGED rows
  BY <1>1, <1>5, <1>6, <1>7, Unseen
<1>8. CASE RecordRow(t) /\ rows[t] = None /\ rows'[t] # None
           /\ \A u \in Txn : u # t => rows'[u] = rows[u]
  <2>1. SeenUsed' = SeenUsed \cup {t} /\ t \notin SeenUsed
    BY <1>3, <1>8 DEF SeenUsed
  <2>2. Core!RecordRow(t)
    BY <1>8 DEF RecordRow, Core!RecordRow, Authorized, Core!Authorized
  <2>3. /\ SeenLock = None /\ SeenLock' = SeenLock /\ SeenCall' = SeenCall
        /\ t \notin SeenUsed /\ SeenUsed' = SeenUsed \cup {t}
        /\ UNCHANGED <<audit, orders, payments, events, offered, faults, restarts>>
    BY <1>1, <1>5, <1>6, <2>1
  <2>4. Core!Authorize(t)
    BY <2>2, <2>3
       DEF Core!Authorize, Core!razorpay, Core!bounds, SeenCall, SeenLock, SeenUsed
  <2>5. QED
    BY <1>3, <2>4 DEF Core!Next
<1>9. QED
  BY <1>3, <1>7, <1>8, recordInv

\* Its other steps it does not see.
LEMMA UnseenMove ==
  ASSUME ApiInv, NEW w \in Worker, Purchasing(w), NEW l \in PurchaseLabel, Goto(w, l),
         UNCHANGED <<rows, audit, api_lock, orders, payments, events, offered, faults, restarts>>
  PROVE  UNCHANGED Core!vars
<1>1. /\ call'[w].pc = l /\ w \in Session
      /\ \A s \in Session : s # w => call'[s] = call[s]
  BY Moving, ApiNulls
<1>2. Purchasing(w)' /\ \A s \in Session : Purchasing(s)' <=> Purchasing(s)
  BY <1>1 DEF Purchasing
<1>3. SeenCall' = SeenCall /\ SeenLock' = SeenLock
  BY <1>1, <1>2 DEF SeenCall, SeenLock
<1>4. QED
  BY <1>3, Unseen

\* Of a purchase Settlement sees the row and the end.
LEMMA UnseenPurchase ==
  ASSUME ApiInv, NEW w \in Worker, PurchaseStep(w)
  PROVE  Core!Next \/ UNCHANGED Core!vars
<1>1. CASE record(w)
  BY <1>1, SeenRecord
<1>2. CASE negotiate(w) /\ Return(w)
  <2>1. /\ call[w].pc = "negotiate"
        /\ UNCHANGED <<rows, audit, orders, payments, events, offered, faults, restarts>>
    BY <1>2 DEF negotiate, At, razorpay, bounds
  <2>2. /\ Purchasing(w) /\ w \in Session /\ Working(w) /\ Leave(w)
        /\ \A s \in Session : s # w => call[s].pc = "idle"
    BY <1>2, <2>1, OneCaller, ApiNulls, IdleCall
       DEF Purchasing, PurchaseLabel, Working, Return, ApiInv
  <2>3. /\ api_lock' = None /\ \A s \in Session : call'[s].pc = "idle"
        /\ call' = [call EXCEPT ![w] = Idle] /\ call \in [Session -> ApiCallOf]
    BY <2>2, Ending DEF Leave, ApiInv, Types
  <2>4. \A s \in Session : ~Purchasing(s)' /\ (s # w => ~Purchasing(s))
    BY <2>2, <2>3, IdleCall DEF Purchasing
  <2>5. SeenLock' = SeenLock /\ SeenCall' = SeenCall
    BY <2>2, <2>3, <2>4 DEF SeenLock, SeenCall
  <2>6. QED
    BY <2>1, <2>5, Unseen
<1>3. CASE negotiate(w) /\ ~Return(w)
  <2>1. /\ call[w].pc = "negotiate" /\ Goto(w, "load")
        /\ UNCHANGED <<rows, audit, api_lock, orders, payments, events, offered, faults, restarts>>
    BY <1>3 DEF negotiate, At, razorpay, bounds
  <2>2. Purchasing(w) /\ "load" \in PurchaseLabel
    BY <2>1 DEF Purchasing, PurchaseLabel
  <2>3. QED
    BY <2>1, <2>2, UnseenMove
<1>4. CASE build_state(w)
  <2>1. /\ call[w].pc = "build" /\ Goto(w, "negotiate") /\ UNCHANGED <<rows, audit>>
        /\ UNCHANGED <<api_lock, orders, payments, events, offered, faults, restarts>>
    BY <1>4, build_stateInv DEF build_state, At, razorpay, bounds
  <2>2. Purchasing(w) /\ "negotiate" \in PurchaseLabel
    BY <2>1 DEF Purchasing, PurchaseLabel
  <2>3. QED
    BY <2>1, <2>2, UnseenMove
<1>5. CASE \/ check_state(w) \/ check_loaded(w) \/ lock_model(w) \/ recheck_loaded(w)
           \/ load_artifact(w) \/ load_thresholds(w) \/ assess(w)
  <2>1. /\ call[w].pc \in PurchaseLabel
        /\ UNCHANGED <<rows, audit, api_lock, orders, payments, events, offered, faults, restarts>>
    BY <1>5 DEF check_state, check_loaded, lock_model, recheck_loaded, load_artifact,
                load_thresholds, assess, Only, At, razorpay, bounds, PurchaseLabel
  <2>2. \E l \in PurchaseLabel : Goto(w, l)
    BY <1>5 DEF check_state, check_loaded, lock_model, recheck_loaded, load_artifact,
                load_thresholds, assess, Only, PurchaseLabel
  <2>3. QED
    BY <2>1, <2>2, UnseenMove DEF Purchasing
<1>6. QED
  BY <1>1, <1>2, <1>3, <1>4, <1>5 DEF PurchaseStep

\* A settlement that begins is seen.
LEMMA SeenRequest ==
  ASSUME ApiInv, ApiInv', NEW r \in Request, settle_txn(r)
  PROVE  Core!Next \/ UNCHANGED Core!vars
<1> DEFINE t == IF r.txn # None THEN r.txn ELSE last_txn_id
<1>1. /\ api_lock = None
      /\ \/ t # None /\ ReturnExisting(t)
         \/ t # None /\ Idlers # {} /\ settle(NextWorker, t)
         \/ UNCHANGED vars
  BY DEF settle_txn
<1>2. t \in Txn \cup {None}
  BY ApiServerAssumption DEF ApiInv, Types, Request, settle_txn
<1>3. \A s \in Session : ~Purchasing(s)
  BY <1>1, NobodyPurchases
<1>4. call \in [Session -> ApiCallOf] /\ call' \in [Session -> ApiCallOf]
  BY DEF ApiInv, Types
<1> HIDE DEF t
<1>5. CASE UNCHANGED vars
  <2>1. /\ SeenCall' = SeenCall /\ SeenLock' = SeenLock
        /\ UNCHANGED <<rows, audit, orders, payments, events, offered, faults, restarts>>
    BY <1>5 DEF SeenCall, SeenLock, Purchasing, vars, razorpay, bounds
  <2>2. QED
    BY <2>1, Unseen
<1>6. CASE t # None /\ ReturnExisting(t)
  <2>1. call' = call /\ SeenUsed' = SeenUsed
    BY <1>6 DEF ReturnExisting, SeenUsed
  <2>2. \A s \in Session : ~Purchasing(s)'
    BY <1>3, <2>1 DEF Purchasing
  <2>3. QED
    BY <1>2, <1>3, <1>4, <1>6, <2>1, <2>2, SeenAsIs, SeenAsIsNext, SeenReturn
<1>7. CASE t # None /\ Idlers # {} /\ settle(NextWorker, t)
  <2>1. NextWorker \in Session
    BY <1>7, ApiNulls DEF NextWorker, Idlers
  <2>2. SeenUsed' = SeenUsed
    BY <1>7 DEF settle, SeenUsed
  <2>3. \A s \in Session : ~Purchasing(s)'
    <3> DEFINE c == [Idle EXCEPT !.pc = "create", !.txn = t, !.status = "pending_settlement"]
    <3>1. c.pc = "create"
      BY DEF Idle
    <3>2. call' = [call EXCEPT ![NextWorker] = c]
      BY <1>7 DEF settle, Enter
    <3> HIDE DEF c
    <3>3. QED
      BY <1>3, <1>4, <2>1, <3>1, <3>2 DEF Purchasing, PurchaseLabel
  <2>4. QED
    BY <1>2, <1>3, <1>4, <1>7, <2>1, <2>2, <2>3, SeenAsIs, SeenAsIsNext, SeenSettle
<1>8. QED
  BY <1>1, <1>5, <1>6, <1>7

\* A purchase that begins is not.
LEMMA UnseenBegin ==
  ASSUME ApiInv, Resting, NEW r \in Request, purchase(r)
  PROVE  UNCHANGED Core!vars
<1> DEFINE c == [Idle EXCEPT !.pc = "state", !.txn = r.txn]
<1>0. PICK w \in Session : w = NextWorker
  BY ApiNulls DEF purchase, NextWorker, Idlers
<1>1. /\ r \in waiting /\ r.kind = "purchase" /\ Enter(w, c)
      /\ UNCHANGED <<rows, audit, orders, payments, events, offered, faults, restarts>>
  BY <1>0 DEF purchase, razorpay, bounds
<1>2. r.txn \in Txn
  BY <1>1, ApiNulls DEF Request
<1>3. c \in ApiCallOf /\ c.pc = "state"
  BY <1>2 DEF Idle, ApiCallOf, Label, PurchaseLabel
<1>4. call[w].pc = "idle" /\ api_lock = None
  BY <1>1 DEF Enter
<1> HIDE DEF c
<1>5. /\ call'[w] = c /\ api_lock' = w
      /\ \A s \in Session : s # w => call'[s] = call[s]
      /\ \A s \in Session : ~Purchasing(s)
  BY <1>1, <1>2, <1>4, NobodyPurchases DEF Enter, ApiInv, Types
<1>6. Purchasing(w)' /\ \A s \in Session : s # w => ~Purchasing(s)'
  BY <1>3, <1>5 DEF Purchasing, PurchaseLabel
<1>7. SeenLock = None /\ SeenLock' = None
  BY <1>2, <1>4, <1>5, <1>6 DEF SeenLock
<1>8. SeenCall' = SeenCall
  <2>1. call[w] = Idle
    BY <1>2, <1>4 DEF Resting
  <2>2. QED
    BY <1>2, <1>5, <1>6, <2>1 DEF SeenCall
<1>9. QED
  BY <1>1, <1>7, <1>8, Unseen

\* A settlement call that goes on is seen as it is.
LEMMA SeenSettleStep ==
  ASSUME ApiInv, ApiInv', NEW s \in Session, Progress(s) \/ DatabaseError(s)
  PROVE  Core!Next
<1>1. /\ call[s].pc \in SettleLabel
      /\ \A t \in Txn : rows'[t] = None <=> rows[t] = None
      /\ \/ Leave(s)
         \/ /\ call'[s].pc \in SettleLabel
            /\ \A r \in Session : r # s => call'[r] = call[r]
  <2>1. call[s].pc \in SettleLabel
    BY DEF Progress, DatabaseError, create_order, order_payments, set_transaction_settlement,
           append_event, SettleLabel
  <2>2. QED
    BY <2>1, SettleMoves
<1>2. Working(s) /\ \A r \in Session : r # s => call[r].pc = "idle"
  BY <1>1, OneCaller DEF Working, SettleLabel, ApiInv
<1>3. \A r \in Session : ~Purchasing(r)
  BY <1>1, <1>2, IdleCall DEF Purchasing, PurchaseLabel, SettleLabel
<1>4. \A r \in Session : ~Purchasing(r)'
  <2>1. CASE Leave(s)
    BY <1>2, <2>1, Ending
  <2>2. CASE ~Leave(s)
    BY <1>1, <1>2, <2>2, IdleCall DEF Purchasing, PurchaseLabel, SettleLabel
  <2>3. QED
    BY <2>1, <2>2
<1>5. SeenUsed' = SeenUsed
  BY <1>1 DEF SeenUsed
<1>6. call \in [Session -> ApiCallOf] /\ call' \in [Session -> ApiCallOf]
  BY DEF ApiInv, Types
<1>7. QED
  BY <1>3, <1>4, <1>5, <1>6, SeenAsIs, SeenAsIsNext, SeenStep

\* An event that begins a call is seen, one that is dropped is not.
LEMMA SeenEvent ==
  ASSUME ApiInv, ApiInv', handle_event
  PROVE  Core!Next \/ UNCHANGED Core!vars
<1>1. /\ loop # None /\ api_lock = None
      /\ razorpay_webhook(EventLoop, loop) \/ UNCHANGED vars
  BY DEF handle_event
<1>2. \A s \in Session : ~Purchasing(s)
  BY <1>1, NobodyPurchases
<1>3. /\ call \in [Session -> ApiCallOf] /\ call' \in [Session -> ApiCallOf]
      /\ loop \in events \cup Unsigned /\ EventLoop \in Session
  BY <1>1, ApiNulls DEF ApiInv, Types
<1>4. CASE UNCHANGED vars
  <2>1. /\ SeenCall' = SeenCall /\ SeenLock' = SeenLock
        /\ UNCHANGED <<rows, audit, orders, payments, events, offered, faults, restarts>>
    BY <1>4 DEF SeenCall, SeenLock, Purchasing, vars, razorpay, bounds
  <2>2. QED
    BY <2>1, Unseen
<1>5. CASE razorpay_webhook(EventLoop, loop)
  <2>1. SeenUsed' = SeenUsed
    BY <1>5 DEF razorpay_webhook, SeenUsed
  <2>2. PICK t \in Txn :
          Enter(EventLoop, [pc |-> "update", txn |-> t, order |-> loop.order,
                            payment |-> loop.payment,
                            status |-> IF Captures(rows[t], loop) THEN "settled" ELSE "failed"])
    BY <1>5 DEF razorpay_webhook
  <2>3. \A s \in Session : ~Purchasing(s)'
    <3> DEFINE c == [pc |-> "update", txn |-> t, order |-> loop.order, payment |-> loop.payment,
                     status |-> IF Captures(rows[t], loop) THEN "settled" ELSE "failed"]
    <3>1. c.pc = "update" /\ call' = [call EXCEPT ![EventLoop] = c]
      BY <2>2 DEF Enter
    <3> HIDE DEF c
    <3>2. QED
      BY <1>2, <1>3, <3>1 DEF Purchasing, PurchaseLabel
  <2>4. QED
    BY <1>2, <1>3, <1>5, <2>1, <2>3, SeenAsIs, SeenAsIsNext, SeenWebhook
<1>6. QED
  BY <1>1, <1>4, <1>5

\* Beginning and steps of the two.
LEMMA SeenInit == ApiInit => Core!Init
<1> SUFFICES ASSUME ApiInit PROVE Core!Init
  OBVIOUS
<1>1. /\ Init /\ call = [s \in Session |-> Idle]
  BY DEF ApiInit, Init
<1>2. \A s \in Session : ~Purchasing(s)
  BY <1>1, IdleCall DEF Purchasing
<1>3. SeenCall = [s \in Session |-> Idle] /\ SeenLock = None /\ SeenUsed = {}
  BY <1>1, <1>2 DEF SeenCall, SeenLock, SeenUsed, Init
<1>4. QED
  BY <1>1, <1>3 DEF Init, Core!Init, Idle, Core!Idle, SeenCall, SeenLock, SeenUsed

\* Every step of the process is one of Settlement, or a stutter.
LEMMA SeenNext ==
  ApiInv /\ ApiInv' /\ Resting /\ [ApiNext]_api_vars => [Core!Next]_(Core!vars)
<1> SUFFICES ASSUME ApiInv, ApiInv', Resting, [ApiNext]_api_vars
             PROVE  Core!Next \/ UNCHANGED Core!vars
  OBVIOUS
<1>1. CASE UNCHANGED vars
  <2>1. /\ SeenCall' = SeenCall /\ SeenLock' = SeenLock
        /\ UNCHANGED <<rows, audit, orders, payments, events, offered, faults, restarts>>
    BY <1>1 DEF SeenCall, SeenLock, Purchasing, vars, razorpay, bounds
  <2>2. QED
    BY <2>1, Unseen
<1>2. CASE \E r \in Request : Dispatch(r) \/ health(r)
  BY <1>1, <1>2 DEF Dispatch, health
<1>3. CASE \E r \in Request : settle_txn(r)
  BY <1>3, SeenRequest
<1>4. CASE \E r \in Request : purchase(r)
  BY <1>4, UnseenBegin
<1>5. CASE \E w \in Worker : PurchaseStep(w)
  BY <1>5, UnseenPurchase
<1>6. CASE (\E w \in Worker : SettleStep(w)) \/ WebhookStep
  BY <1>6, SeenSettleStep, ApiNulls DEF SettleStep, WebhookStep
<1>7. CASE \E e \in events \cup Unsigned : Receive(e)
  BY <1>1, <1>7 DEF Receive
<1>8. CASE handle_event
  BY <1>8, SeenEvent
<1>9. CASE Customer
  BY <1>9, CustomerInv, SeenCustomer
<1>10. CASE UNCHANGED api_vars
  BY <1>1, <1>10 DEF api_vars
<1>11. QED
  BY <1>2, <1>3, <1>4, <1>5, <1>6, <1>7, <1>8, <1>9, <1>10 DEF ApiNext, Serve

\* The process implements Settlement, for any number of threads and requests: its
\* lock, its lazy database and its lazy model add nothing to what settle() and
\* the webhook do, and a purchase is one atomic row (api/app.py:240-356).
THEOREM ApiRefinement == ApiSpec => ImplementsSettlement
<1>1. ApiInit => Resting
  BY DEF ApiInit, Init, Resting
<1>2. ApiSpec => []Resting
  BY <1>1, RestingStep, ApiInductiveInvariant, PTL DEF ApiSpec
<1>3. QED
  BY <1>2, SeenInit, SeenNext, ApiInductiveInvariant, PTL
     DEF ApiSpec, ImplementsSettlement, Core!Spec

-----------------------------------------------------------------------------
\* The process never starts again, so it keeps its database: what is proved of
\* Settlement without restarts is proved of the process.
Running == INSTANCE SettlementProofs WITH
  call     <- [s \in Session |-> IF Purchasing(s) THEN Idle ELSE call[s]],
  api_lock <- IF \E s \in Session : Purchasing(s) THEN None ELSE api_lock,
  used     <- {t \in Txn : rows[t] # None},
  MaxRestarts <- 0

\* No step of the process is a start.
LEMMA NoStart == ASSUME [ApiNext]_api_vars PROVE restarts' = restarts
<1>1. CASE UNCHANGED vars
  BY <1>1 DEF vars, bounds
<1>2. ASSUME NEW r \in Request, Serve(r) PROVE restarts' = restarts
  BY <1>2 DEF Serve, health, settle_txn, purchase, ReturnExisting, settle, vars, bounds
<1>3. ASSUME NEW w \in Worker, PurchaseStep(w) PROVE restarts' = restarts
  BY <1>3 DEF PurchaseStep, check_state, build_state, negotiate, check_loaded, lock_model,
       recheck_loaded, load_artifact, load_thresholds, assess, record, Only, bounds
<1>4. ASSUME NEW s, Progress(s) \/ DatabaseError(s) PROVE restarts' = restarts
  BY <1>4 DEF Progress, DatabaseError, create_order, order_payments, set_transaction_settlement,
       append_event, bounds
<1>5. CASE handle_event
  BY <1>5 DEF handle_event, razorpay_webhook, vars, bounds
<1>6. CASE Customer
  BY <1>6 DEF Customer, Pay, Capture, Fail, bounds
<1>7. QED
  BY <1>1, <1>2, <1>3, <1>4, <1>5, <1>6
     DEF ApiNext, api_vars, Dispatch, Receive, SettleStep, WebhookStep

\* Settlement without restarts, step by step: only Restart reads the bound.
LEMMA RunningNext == ASSUME Core!Next, restarts \in Nat, restarts' = restarts PROVE Running!Next
<1>1. ~Core!Restart
  BY DEF Core!Restart
<1>2. QED
  BY <1>1
     DEF
       Core!Rows, Running!Rows, Core!razorpay, Running!razorpay, Core!bounds, Running!bounds,
       Core!vars, Running!vars, Core!Authorized, Running!Authorized, Core!Idle, Running!Idle,
       Core!Init, Running!Init, Core!RecordRow, Running!RecordRow, Core!Authorize,
       Running!Authorize, Core!Enter, Running!Enter, Core!Leave, Running!Leave, Core!MaySettle,
       Running!MaySettle, Core!ReturnExisting, Running!ReturnExisting, Core!settle, Running!settle,
       Core!create_order, Running!create_order, Core!reconcile, Running!reconcile, Core!Settles,
       Running!Settles, Core!order_payments, Running!order_payments, Core!verify_webhook_signature,
       Running!verify_webhook_signature, Core!Unsigned, Running!Unsigned, Core!Fails, Running!Fails,
       Core!Captures, Running!Captures, Core!AmountMatches, Running!AmountMatches, Core!Concerns,
       Running!Concerns, Core!razorpay_webhook, Running!razorpay_webhook, Core!COALESCE,
       Running!COALESCE, Core!Updated, Running!Updated, Core!UpdateRow, Running!UpdateRow,
       Core!Entry, Running!Entry, Core!set_transaction_settlement,
       Running!set_transaction_settlement, Core!append_event, Running!append_event,
       Core!DatabaseError, Running!DatabaseError, Core!PaymentsOf, Running!PaymentsOf, Core!Paid,
       Running!Paid, Core!Pay, Running!Pay, Core!Events, Running!Events, Core!Capture,
       Running!Capture, Core!Fail, Running!Fail, Core!Progress, Running!Progress, Core!Next,
       Running!Next

\* The process implements Settlement without restarts.
LEMMA RunningSpec == ApiSpec => Running!Spec
<1>1. ApiInit => restarts = 0
  BY DEF ApiInit, Init
<1>2. ApiSpec => [](restarts = 0)
  <2>1. restarts = 0 /\ [ApiNext]_api_vars => (restarts = 0)'
    BY NoStart
  <2>2. QED
    BY <1>1, <2>1, PTL DEF ApiSpec
<1>3. Core!Init => Running!Init
  BY DEF Core!Init, Running!Init, Core!Idle, Running!Idle
<1>4. UNCHANGED Core!vars => UNCHANGED Running!vars
  BY DEF Core!vars, Running!vars, Core!razorpay, Running!razorpay, Core!bounds, Running!bounds
<1>5. restarts = 0 /\ (restarts = 0)' /\ [Core!Next]_(Core!vars) => [Running!Next]_(Running!vars)
  <2> SUFFICES ASSUME restarts = 0, restarts' = 0, Core!Next \/ UNCHANGED Core!vars
               PROVE  Running!Next \/ UNCHANGED Running!vars
    OBVIOUS
  <2>1. QED
    BY <1>4, RunningNext
<1>6. QED
  BY <1>2, <1>3, <1>5, ApiRefinement, PTL DEF ImplementsSettlement, Core!Spec, Running!Spec

\* The assumptions of Settlement, for the process.
LEMMA RunningAssumptions ==
  /\ None \notin Session \cup Txn \cup Order \cup Payment \cup Amount
  /\ Price \in [Txn -> Amount]
  /\ MaxFaults \in Nat /\ 0 \in Nat
  /\ None \notin Rows
  /\ None \notin [txn : Txn, amount : Amount]
  /\ None \notin [order : Order, amount : Amount, status : {"created", "captured", "failed"}]
  BY SettlementAssumption, NullAssumption

\* api/app.py, settlement.py, webhooks.py: with purchases, settlements and webhooks in
\* any number of threads, a transaction is bound to one order and paid once, by a
\* captured payment of the authorized amount.
THEOREM ApiImplementsPaymentLedger == ApiSpec => ImplementsPaymentLedger
<1>1. Running!Spec => Running!ImplementsPaymentLedger
  <2>1. 0 = 0
    OBVIOUS
  <2>2. QED
    BY <2>1, RunningAssumptions, Running!Refinement, PTL DEF Rows, Running!Rows
<1>2. Running!Pays!Init => Pays!Init
  BY DEF Running!Pays!Init, Pays!Init, Running!IsSettled, IsSettled
<1>3. [Running!Pays!Next]_(Running!Pays!vars) => [Pays!Next]_(Pays!vars)
  BY DEF Running!Pays!Next, Pays!Next, Running!Pays!vars, Pays!vars, Running!Pays!Capture,
         Pays!Capture, Running!Pays!Bind, Pays!Bind, Running!Pays!Settle, Pays!Settle,
         Running!IsSettled, IsSettled
<1>4. QED
  BY <1>1, <1>2, <1>3, RunningSpec, PTL
     DEF ImplementsPaymentLedger, Running!ImplementsPaymentLedger, Pays!Spec, Running!Pays!Spec

\* What the running process calls settled has its own captured payment of the
\* authorized amount; no transaction has two; and only what was allowed and is not
\* on hold has an order, whatever the threads, Razorpay and the customer do.
THEOREM ApiKeepsMoneySafe ==
  ApiSpec => [](SettledIsCaptured /\ NoDoubleCharge /\ OnlyAuthorizedOrdered)
<1>1. Running!Spec =>
        [](Running!SettledIsCaptured /\ Running!NoDoubleCharge /\ Running!OnlyAuthorizedOrdered)
  BY RunningAssumptions, Running!SettledIsCapturedHolds, Running!NoDoubleChargeHolds,
     Running!OnlyAuthorizedOrderedHolds, PTL DEF Rows, Running!Rows
<1>2. Running!SettledIsCaptured => SettledIsCaptured
  BY DEF Running!SettledIsCaptured, SettledIsCaptured, Running!IsSettled, IsSettled
<1>3. Running!NoDoubleCharge => NoDoubleCharge
  BY DEF Running!NoDoubleCharge, NoDoubleCharge
<1>4. Running!OnlyAuthorizedOrdered => OnlyAuthorizedOrdered
  BY DEF Running!OnlyAuthorizedOrdered, OnlyAuthorizedOrdered
<1>5. QED
  BY <1>1, <1>2, <1>3, <1>4, RunningSpec, PTL

\* Whenever _LOCK is free and nothing has failed, the audit log tells the settlement
\* state of each row of the process.
THEOREM ApiSettlementAudited == ApiSpec => []SettlementAudited
<1>1. Running!Spec => []Running!SettlementAudited
  BY RunningAssumptions, Running!SettlementAuditedHolds, PTL DEF Rows, Running!Rows
<1>2. Running!SettlementAudited => SettlementAudited
  BY DEF Running!SettlementAudited, SettlementAudited
<1>3. QED
  BY <1>1, <1>2, RunningSpec, PTL

\* No purchase, retry, late or repeated event changes a row that is settled.
THEOREM ApiSettledStays == ApiSpec => SettledStays
<1>1. Running!Spec => Running!SettledStays
  BY RunningAssumptions, Running!SettledStaysHolds, PTL DEF Rows, Running!Rows
<1> DEFINE Stays == \A t \in Txn : IsSettled(t) => rows'[t] = rows[t] \/ restarts' # restarts
           CoreStays == \A t \in Txn : Running!IsSettled(t) =>
                          rows'[t] = rows[t] \/ restarts' # restarts
<1>2. [CoreStays]_(Running!vars) => [Stays]_vars
  BY DEF Running!vars, Running!IsSettled, IsSettled
<1>3. QED
  BY <1>1, <1>2, RunningSpec, PTL DEF Running!SettledStays, SettledStays
=============================================================================
