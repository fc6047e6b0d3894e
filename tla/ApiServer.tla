------------------------------ MODULE ApiServer ------------------------------
(***************************************************************************)
(* One process of the API (api/app.py): the pool threads that serve the    *)
(* endpoints, the event loop that dispatches requests to them and runs the *)
(* webhook handler itself, and what they share besides the database: the   *)
(* lazily built state() and the lazily loaded risk model (risk/model.py).  *)
(* What happens under _LOCK in settle() and handle_event() is Settlement's.*)
(***************************************************************************)
EXTENDS Settlement

CONSTANTS
  Worker,             \* threads of the pool
  EventLoop,          \* the thread that dispatches requests and runs webhooks
  Artifact,           \* whether the trained model's file is there and usable
  Delivered,          \* bound: the types of event that are delivered
  Settleable,         \* bound: what settle requests name, None for the last purchase
  MaxRequests         \* bound: pool requests under way at a time

ASSUME ApiServerAssumption ==
  /\ Session = Worker \cup {EventLoop} /\ EventLoop \notin Worker
  /\ Artifact \in BOOLEAN /\ Delivered \subseteq EventType
  /\ Settleable \subseteq Txn \cup {None} /\ MaxRequests \in Nat

VARIABLES
  waiting,            \* requests in a pool thread, before `with _LOCK`
  job,                \* the request each pool thread serves, or None
  loop,               \* the webhook event the event loop waits or works with, or None
  built,              \* _state is not None
  last_txn_id,        \* the transaction settled by default
  risk_lock,          \* the thread holding the loader's lock, or None
  _LOADED, _MODEL, _THRESHOLDS,
  found,              \* what _load_model() returned to each thread
  scored              \* history: what each purchase was put to

requests   == <<waiting, job, loop>>
risk_model == <<risk_lock, _LOADED, _MODEL, _THRESHOLDS, found>>
api_vars   == <<vars, requests, built, last_txn_id, risk_model, scored>>

Request ==
  [kind : {"purchase"}, txn : Txn] \cup [kind : {"settle"}, txn : Settleable]
    \cup [kind : {"health"}, txn : {None}]

\* None is neither a request nor a model.
ASSUME NoneAssumption == None \notin Request /\ None # "trained"

\* The pool requests that have not been answered.
Pending == waiting \cup {job[w] : w \in {v \in Worker : job[v] # None}}

ApiInit ==
  /\ Init
  /\ waiting = {} /\ job = [w \in Worker |-> None] /\ loop = None
  /\ built = FALSE /\ last_txn_id = None
  /\ risk_lock = None /\ _LOADED = FALSE /\ _MODEL = None /\ _THRESHOLDS = "default"
  /\ found = [w \in Worker |-> None] /\ scored = {}
-----------------------------------------------------------------------------
\* Requests.

\* The event loop hands a request to a pool thread, unless it is in a webhook.
Dispatch(r) ==
  /\ loop = None
  /\ r \notin Pending /\ Cardinality(Pending) < MaxRequests
  /\ r.kind = "purchase" => r.txn \notin used
  /\ waiting' = waiting \cup {r}
  /\ UNCHANGED <<vars, job, loop, built, last_txn_id, risk_model, scored>>

Answered(r) == waiting' = waiting \ {r} /\ UNCHANGED <<job, loop>>

\* health() takes no lock.
health(r) ==
  /\ r \in waiting /\ r.kind = "health"
  /\ Answered(r)
  /\ UNCHANGED <<vars, built, last_txn_id, risk_model, scored>>

\* The pool's threads are alike: the first idle one takes the request.
Idlers == {w \in Worker : call[w].pc = "idle"}
NextWorker == CHOOSE w \in Idlers : TRUE

Served(w, r) ==
  /\ waiting' = waiting \ {r}
  /\ job' = [job EXCEPT ![w] = r]
  /\ UNCHANGED loop

\* settle_txn(): of the transaction named, or of the last purchase.  There is an
\* order, there may be one, or settle() raises.
settle_txn(r) ==
  LET t == IF r.txn # None THEN r.txn ELSE last_txn_id
  IN /\ r \in waiting /\ r.kind = "settle"
     /\ api_lock = None
     /\ \/ t # None /\ ReturnExisting(t) /\ Answered(r)
        \/ t # None /\ Idlers # {} /\ settle(NextWorker, t) /\ Served(NextWorker, r)
        \/ ~(t # None /\ MaySettle(t)) /\ Answered(r) /\ UNCHANGED vars
     /\ built' = TRUE
     /\ UNCHANGED <<last_txn_id, risk_model, scored>>

\* Mutant: the handler does not take the lock.
PurchaseUnlocked(r) ==
  /\ r \in waiting /\ r.kind = "purchase"
  /\ Idlers # {}
  /\ EnterUnlocked(NextWorker, [Idle EXCEPT !.pc = "state", !.txn = r.txn])
  /\ Served(NextWorker, r)
  /\ UNCHANGED <<rows, used, audit, razorpay, offered, bounds, built, last_txn_id, risk_model,
                 scored>>

\* purchase(), up to state().
purchase(r) ==
  /\ r \in waiting /\ r.kind = "purchase"
  /\ Idlers # {}
  /\ Enter(NextWorker, [Idle EXCEPT !.pc = "state", !.txn = r.txn])
  /\ Served(NextWorker, r)
  /\ UNCHANGED <<rows, used, audit, razorpay, offered, bounds, built, last_txn_id, risk_model,
                 scored>>
-----------------------------------------------------------------------------
\* The steps of purchase().

PurchaseLabel == {"state", "build", "negotiate", "load", "lock", "recheck", "artifact",
                  "thresholds", "score", "record"}

At(w, label) == call[w].pc = label
Goto(w, label) == call' = [call EXCEPT ![w].pc = label]

\* A step that moves only its own thread and what it names.
Only(w, label) ==
  Goto(w, label) /\ UNCHANGED <<rows, used, audit, api_lock, razorpay, offered, bounds, requests,
                                scored>>

\* state(): is there one?
check_state(w) ==
  /\ At(w, "state")
  /\ Only(w, IF built THEN "negotiate" ELSE "build")
  /\ UNCHANGED <<built, last_txn_id, risk_model>>

\* _State(): the database is dropped and made anew.
build_state(w) ==
  /\ At(w, "build")
  /\ Goto(w, "negotiate")
  /\ rows' = [t \in Txn |-> None] /\ audit' = {}
  /\ built' = TRUE /\ last_txn_id' = None
  /\ UNCHANGED <<used, api_lock, razorpay, offered, bounds, requests, risk_model, scored>>

\* The answer leaves with the call.
Return(w) == Leave(w) /\ job' = [job EXCEPT ![w] = None] /\ UNCHANGED <<waiting, loop>>

\* A mandate that is not confirmable, or no offer, ends the call; otherwise the
\* purchase is the last, whatever becomes of it.
negotiate(w) ==
  /\ At(w, "negotiate")
  /\ \/ Return(w) /\ used' = used \cup {call[w].txn} /\ UNCHANGED last_txn_id
     \/ /\ Goto(w, "load")
        /\ last_txn_id' = call[w].txn
        /\ UNCHANGED <<api_lock, requests, used>>
  /\ UNCHANGED <<rows, audit, razorpay, offered, bounds, built, risk_model, scored>>

\* _load_model(): a model that was loaded is returned without the lock.
check_loaded(w) ==
  /\ At(w, "load")
  /\ Only(w, IF _LOADED THEN "score" ELSE "lock")
  /\ found' = IF _LOADED THEN [found EXCEPT ![w] = _MODEL] ELSE found
  /\ UNCHANGED <<built, last_txn_id, risk_lock, _LOADED, _MODEL, _THRESHOLDS>>

lock_model(w) ==
  /\ At(w, "lock")
  /\ risk_lock = None
  /\ risk_lock' = w
  /\ Only(w, "recheck")
  /\ UNCHANGED <<built, last_txn_id, _LOADED, _MODEL, _THRESHOLDS, found>>

\* The flag is set before there is anything to return.
recheck_loaded(w) ==
  /\ At(w, "recheck")
  /\ IF _LOADED
     THEN /\ Only(w, "score")
          /\ found' = [found EXCEPT ![w] = _MODEL]
          /\ risk_lock' = None
          /\ UNCHANGED _LOADED
     ELSE /\ Only(w, "artifact")
          /\ _LOADED' = TRUE
          /\ UNCHANGED <<found, risk_lock>>
  /\ UNCHANGED <<built, last_txn_id, _MODEL, _THRESHOLDS>>

\* A file that is not there, is damaged or has other features leaves no model.
load_artifact(w) ==
  /\ At(w, "artifact")
  /\ IF Artifact
     THEN /\ _MODEL' = "trained"
          /\ Only(w, "thresholds")
          /\ UNCHANGED <<risk_lock, found>>
     ELSE /\ _MODEL' = None
          /\ Only(w, "score")
          /\ found' = [found EXCEPT ![w] = None]
          /\ risk_lock' = None
  /\ UNCHANGED <<built, last_txn_id, _LOADED, _THRESHOLDS>>

load_thresholds(w) ==
  /\ At(w, "thresholds")
  /\ _THRESHOLDS' = "trained"
  /\ found' = [found EXCEPT ![w] = _MODEL]
  /\ risk_lock' = None
  /\ Only(w, "score")
  /\ UNCHANGED <<built, last_txn_id, _LOADED, _MODEL>>

\* assess(): what the purchase is put to, with the thresholds of the moment.  The
\* rules score it if there is no model or the model raises; what they advise shows
\* in record().
assess(w) ==
  /\ At(w, "score")
  /\ Goto(w, "record")
  /\ scored' = scored \cup {[txn |-> call[w].txn,
                             model |-> found[w],
                             thresholds |-> IF found[w] = None THEN None ELSE _THRESHOLDS]}
  /\ found' = [found EXCEPT ![w] = None]
  /\ UNCHANGED <<rows, used, audit, api_lock, razorpay, offered, bounds, requests, built,
                 last_txn_id, risk_lock, _LOADED, _MODEL, _THRESHOLDS>>

\* authorize() commits the row, or raises; the call returns.
record(w) ==
  /\ At(w, "record")
  /\ used' = used \cup {call[w].txn}
  /\ RecordRow(call[w].txn) \/ UNCHANGED rows
  /\ Return(w)
  /\ UNCHANGED <<audit, razorpay, offered, bounds, built, last_txn_id, risk_model, scored>>

PurchaseStep(w) ==
  \/ check_state(w) \/ build_state(w) \/ negotiate(w)
  \/ check_loaded(w) \/ lock_model(w) \/ recheck_loaded(w) \/ load_artifact(w)
  \/ load_thresholds(w) \/ assess(w) \/ record(w)

\* The steps of settle(), in Settlement; a call that leaves is answered.
SettleStep(w) ==
  /\ Progress(w) \/ DatabaseError(w)
  /\ job' = IF call'[w].pc = "idle" THEN [job EXCEPT ![w] = None] ELSE job
  /\ UNCHANGED <<waiting, loop, built, last_txn_id, risk_model, scored>>
-----------------------------------------------------------------------------
\* The webhook handler runs on the event loop, and so does its wait for _LOCK.

Receive(e) ==
  /\ loop = None
  /\ e.type \in Delivered
  /\ verify_webhook_signature(e)
  /\ loop' = e
  /\ UNCHANGED <<vars, waiting, job, built, last_txn_id, risk_model, scored>>

\* Mutant: an event that concerns no row yet is tried again.
handle_event_retrying ==
  /\ loop # None
  /\ call[EventLoop].pc = "idle"
  /\ api_lock = None
  /\ \/ razorpay_webhook(EventLoop, loop)
     \/ (\A t \in Txn : ~Concerns(loop, t)) /\ UNCHANGED vars
  /\ built' = TRUE
  /\ UNCHANGED <<requests, last_txn_id, risk_model, scored>>

\* handle_event() under the lock, in the thread that serves everybody.
handle_event ==
  /\ loop # None
  /\ call[EventLoop].pc = "idle"
  /\ api_lock = None
  /\ \/ razorpay_webhook(EventLoop, loop) /\ UNCHANGED loop
     \/ (\A t \in Txn : ~Concerns(loop, t)) /\ loop' = None /\ UNCHANGED vars
  /\ built' = TRUE
  /\ UNCHANGED <<waiting, job, last_txn_id, risk_model, scored>>

WebhookStep ==
  /\ Progress(EventLoop) \/ DatabaseError(EventLoop)
  /\ loop' = IF call'[EventLoop].pc = "idle" THEN None ELSE loop
  /\ UNCHANGED <<waiting, job, built, last_txn_id, risk_model, scored>>
-----------------------------------------------------------------------------
Customer ==
  /\ \/ \E o \in Order, p \in Payment, a \in Amount : Pay(o, p, a)
     \/ \E p \in Payment : Capture(p) \/ Fail(p)
  /\ UNCHANGED <<requests, built, last_txn_id, risk_model, scored>>

Serve(r) == health(r) \/ settle_txn(r) \/ purchase(r)

ApiNext ==
  \/ \E r \in Request : Dispatch(r) \/ Serve(r)
  \/ \E w \in Worker : PurchaseStep(w) \/ SettleStep(w)
  \/ \E e \in events \cup Unsigned : Receive(e)
  \/ handle_event \/ WebhookStep
  \/ Customer

ApiSpec == ApiInit /\ [][ApiNext]_api_vars

\* A thread that holds _LOCK, or can have it for good, goes on; who gets it of
\* several is left open, for ever if it comes to that.  Razorpay delivers an
\* event again until the handler has taken it.
ApiFairness ==
  /\ \A w \in Worker : WF_api_vars(PurchaseStep(w) \/ SettleStep(w))
  /\ WF_api_vars(handle_event \/ WebhookStep)
  /\ \A e \in CaptureEvents : SF_api_vars(e \in events /\ Receive(e))

ApiFairSpec == ApiSpec /\ ApiFairness
-----------------------------------------------------------------------------
\* Properties.

Working(s) == call[s].pc # "idle"

\* Types, and who holds which lock while doing what.
ApiTypeOK ==
  /\ waiting \subseteq Request /\ job \in [Worker -> Request \cup {None}]
  /\ built \in BOOLEAN /\ _LOADED \in BOOLEAN
  /\ last_txn_id \in Txn \cup {None}
  /\ _MODEL \in {"trained", None} /\ _THRESHOLDS \in {"trained", "default"}
  /\ \A s \in Session : api_lock = s <=> Working(s)
  /\ \A w \in Worker : job[w] # None <=> Working(w)
  /\ \A w \in Worker :
       risk_lock = w <=> call[w].pc \in {"recheck", "artifact", "thresholds"}
  /\ Working(EventLoop) => loop # None

\* Every call that has _LOCK ends, and the event loop, which serves nobody while
\* it waits for _LOCK, comes back (app.py:474): neither lock is left behind or
\* taken in a circle, and the pool threads that compete with the loop run out,
\* because nobody hands them new requests meanwhile.
NobodyIsStuck ==
  /\ \A w \in Worker : Working(w) ~> ~Working(w)
  /\ loop # None ~> loop = None

\* With the artifact in place every purchase is put to the trained model and
\* its thresholds (model.py:133-134), although the loader says it has loaded
\* before it has: _LOCK keeps other callers out of the gap.
ScoredByTheModel ==
  \A x \in scored :
    IF Artifact THEN x.model = "trained" /\ x.thresholds = "trained" ELSE x.model = None

\* The database is made once in the life of a process: what was recorded is
\* never dropped by a second state() (app.py:94-98).
RecordedStays == [][\A t \in Txn : rows[t] # None => rows'[t] # None]_api_vars

\* Refinement: apart from how it is served, and with the purchases seen only as
\* the rows they record, the API is Settlement: its lock and its lazy
\* initialisation add no behaviour of rows, calls and payments.
Purchasing(s) == call[s].pc \in PurchaseLabel

Core == INSTANCE Settlement WITH
  call     <- [s \in Session |-> IF Purchasing(s) THEN Idle ELSE call[s]],
  api_lock <- IF \E s \in Session : Purchasing(s) THEN None ELSE api_lock,
  used     <- {t \in Txn : rows[t] # None}

ImplementsSettlement == Core!Spec
=============================================================================
