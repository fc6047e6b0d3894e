------------------------ MODULE AuthorizationService ------------------------
(***************************************************************************)
(* The database-backed authorization service (verifier/service.py) over    *)
(* the repository (db/repository.py) and the schema (db/schema.sql).       *)
(*                                                                         *)
(* A session is a thread or a process executing authorize() on behalf of   *)
(* one caller.  Each SQL statement and each commit is a step of its own.   *)
(* Under the API every session uses the one connection of _State and holds *)
(* _LOCK for the whole call (Serialized); without it each session has a    *)
(* connection of its own and SQLite's write lock is all there is.          *)
(***************************************************************************)
EXTENDS Gate

CONSTANTS
  Session,              \* threads or processes that call authorize()
  Request,              \* the calls that may be made: [txn, offer]
  Connection,           \* SQLite connections
  ConnOf,               \* the connection a session uses
  AdminConn,            \* the connection set_agent_frozen() is called on
  Serialized,           \* callers hold the API's _LOCK for the whole call
  TrustedIssuers,       \* the pinned issuer keys, or None
  Clock,                \* readings of the clock
  Advice,               \* the actions assess() may advise
  Resubmit,             \* whether a caller may send a TransactionRequest twice
  MaxFaults,            \* bound: database errors per run
  MaxCrashes            \* bound: process restarts per run

Txns == {r.txn : r \in Request}
TxnId == {t.txn_id : t \in Txns}
Nonce == {t.nonce : t \in Txns}
Key == {t.idempotency_key : t \in Txns}
Agent == {t.agent_id : t \in Txns}
Amount == {t.amount : t \in Txns}
MandateId == {t.mandate.mandate_id : t \in Txns}

\* Two users of the database share a connection only where a lock keeps them
\* apart (db/database.py connect: check_same_thread).
ASSUME SessionAssumption ==
  /\ ConnOf \in [Session -> Connection]
  /\ AdminConn \in Connection
  /\ Serialized \in BOOLEAN
  /\ Serialized \/ \A s, t \in Session : ConnOf[s] = ConnOf[t] => s = t
  /\ Serialized \/ \A s \in Session : ConnOf[s] # AdminConn
  /\ None \notin Session \cup Connection
  /\ Advice \subseteq RiskAction
  /\ MaxFaults \in Nat /\ MaxCrashes \in Nat

\* A request names its transaction; the amounts are integers, as in the schema.
ASSUME RequestAssumption ==
  /\ None \notin Request
  /\ \A q, r \in Request : q.txn.txn_id = r.txn.txn_id => q = r

VARIABLES
  api_lock,       \* the session holding _LOCK, or None
  mandates,       \* table mandates: what was saved under each id, or None
  frozen,         \* agents whose frozen flag is set
  nonces,         \* table nonces, committed
  transactions,   \* table transactions, committed
  receipts,       \* table receipts
  audit,          \* table audit_logs, in order of seq
  writer,         \* the connection with an open write transaction, or None
  open_nonces,    \* its uncommitted rows of table nonces
  open_rows,      \* its uncommitted rows of table transactions
  pc, req, live, result, risk,   \* control state and locals of each session
  submitted, faults, crashes     \* bookkeeping of the bounds

tables   == <<mandates, frozen, nonces, transactions, receipts, audit>>
txn_vars == <<writer, open_nonces, open_rows>>
locals   == <<req, live, result, risk>>
bounds   == <<submitted, faults, crashes>>
vars     == <<api_lock, tables, txn_vars, pc, locals, bounds>>
-----------------------------------------------------------------------------
\* Rows and evidence.

Row(txn, res, status) ==
  [txn_id |-> txn.txn_id, mandate_id |-> txn.mandate.mandate_id, agent_id |-> txn.agent_id,
   amount |-> txn.amount, nonce |-> txn.nonce, idempotency_key |-> txn.idempotency_key,
   decision |-> res.decision, reason_code |-> res.reason, status |-> status]

Status == {"authorized", "review_hold", "blocked"}
Rows == [txn_id : TxnId, mandate_id : MandateId, agent_id : Agent, amount : Amount,
         nonce : Nonce, idempotency_key : Key, decision : Decision, reason_code : Reason,
         status : Status]
Receipts == [txn_id : TxnId, decision : Decision, reason : Reason]
Entries == [txn_id : TxnId, decision : Decision, reason : Reason, effective_decision : Decision]

\* authorize() computes an ALLOW or a BLOCK; a hold is left to apply_risk().
Verdict == [decision : {"ALLOW", "BLOCK"}, reason : Reason]

Allowed(rows) == {row \in rows : row.decision = "ALLOW"}

\* Mutant: only REVIEW holds.
HoldOnReview(res, action) ==
  IF apply_risk(res, action).decision = "REVIEW" THEN "review_hold" ELSE "authorized"

\* Any escalation away from a clean ALLOW is a hold.
HoldStatus(res, action) ==
  IF apply_risk(res, action).decision # "ALLOW" THEN "review_hold" ELSE "authorized"
-----------------------------------------------------------------------------
\* SQLite: one connection at a time holds the write lock, from its first
\* INSERT to its commit or rollback; it alone sees what it has not committed.

CanWrite(c) == writer \in {None, c}
NoncesSeenBy(c) == nonces \cup (IF writer = c THEN open_nonces ELSE {})

RowsSeenBy(c) == transactions \cup (IF writer = c THEN open_rows ELSE {})

Discard == writer' = None /\ open_nonces' = {} /\ open_rows' = {}

commit ==
  /\ nonces' = nonces \cup open_nonces
  /\ transactions' = transactions \cup open_rows
  /\ Discard

rollback == Discard /\ UNCHANGED <<nonces, transactions>>

\* Mutant: no unique index on the key of allowed rows.
ClashesOnId(c, row) == \E other \in RowsSeenBy(c) : other.txn_id = row.txn_id

\* INSERT INTO transactions fails on a txn_id already there, and on a key
\* already allowed when the row is an ALLOW.
Clashes(c, row) ==
  \/ \E other \in RowsSeenBy(c) : other.txn_id = row.txn_id
  \/ /\ row.decision = "ALLOW"
     /\ \E other \in Allowed(RowsSeenBy(c)) : other.idempotency_key = row.idempotency_key

\* Mutant: the column nonce is no primary key.
NoncesNotUnique(c, nonce) == FALSE

\* INSERT INTO nonces fails on a nonce already there: the primary key.
NonceClash(c, nonce) == nonce \in NoncesSeenBy(c)

\* An INSERT into transactions that succeeds, in the connection's transaction.
InsertRow(c, row) ==
  /\ writer' = c
  /\ open_rows' = open_rows \cup {row}
  /\ UNCHANGED <<nonces, transactions, open_nonces>>
-----------------------------------------------------------------------------
Blank == [nonce_seen |-> FALSE, idempotency_seen |-> FALSE, agent_frozen |-> FALSE]

Init ==
  /\ api_lock = None
  /\ mandates = [m \in MandateId |-> None]
  /\ frozen = {} /\ nonces = {} /\ transactions = {} /\ receipts = {} /\ audit = <<>>
  /\ writer = None /\ open_nonces = {} /\ open_rows = {}
  /\ pc = [s \in Session |-> "idle"]
  /\ req = [s \in Session |-> None]
  /\ live = [s \in Session |-> Blank]
  /\ result = [s \in Session |-> None]
  /\ risk = [s \in Session |-> None]
  /\ submitted = {} /\ faults = 0 /\ crashes = 0

Goto(s, label) == pc' = [pc EXCEPT ![s] = label]

\* The call is over, by return or by exception: `with _LOCK` lets the lock go.
Leave(s) ==
  /\ Goto(s, "idle")
  /\ api_lock' = None
  /\ req' = [req EXCEPT ![s] = None]
  /\ live' = [live EXCEPT ![s] = Blank]
  /\ result' = [result EXCEPT ![s] = None]
  /\ risk' = [risk EXCEPT ![s] = None]

\* A caller arrives with a transaction for authorize().
Submit(s, r) ==
  /\ pc[s] = "idle"
  /\ Resubmit \/ r \notin submitted
  /\ submitted' = submitted \cup {r}
  /\ req' = [req EXCEPT ![s] = r]
  /\ Goto(s, "waiting")
  /\ UNCHANGED <<api_lock, tables, txn_vars, live, result, risk, faults, crashes>>

\* `with _LOCK`, where the caller is the API.
Enter(s) ==
  /\ pc[s] = "waiting"
  /\ Serialized => api_lock = None
  /\ api_lock' = IF Serialized THEN s ELSE None
  /\ Goto(s, "called")
  /\ UNCHANGED <<tables, txn_vars, locals, bounds>>

\* The caller saves the mandate before it calls authorize().
save_mandate(s) ==
  /\ pc[s] = "called"
  /\ CanWrite(ConnOf[s])
  /\ mandates' = [mandates EXCEPT ![req[s].txn.mandate.mandate_id] = req[s].txn.mandate]
  /\ commit
  /\ Goto(s, "read_frozen")
  /\ UNCHANGED <<api_lock, frozen, receipts, audit, locals, bounds>>

\* Or reuses one that an earlier call saved (the attack console).
ReuseMandate(s) ==
  /\ pc[s] = "called"
  /\ mandates[req[s].txn.mandate.mandate_id] = req[s].txn.mandate
  /\ Goto(s, "read_frozen")
  /\ UNCHANGED <<api_lock, tables, txn_vars, locals, bounds>>
-----------------------------------------------------------------------------
\* authorize(), statement by statement.

is_agent_frozen(s) ==
  /\ pc[s] = "read_frozen"
  /\ live' = [live EXCEPT ![s].agent_frozen = req[s].txn.agent_id \in frozen]
  /\ Goto(s, "read_nonce")
  /\ UNCHANGED <<api_lock, tables, txn_vars, req, result, risk, bounds>>

nonce_seen(s) ==
  /\ pc[s] = "read_nonce"
  /\ live' = [live EXCEPT ![s].nonce_seen = req[s].txn.nonce \in NoncesSeenBy(ConnOf[s])]
  /\ Goto(s, "read_key")
  /\ UNCHANGED <<api_lock, tables, txn_vars, req, result, risk, bounds>>

idempotency_seen(s) ==
  /\ pc[s] = "read_key"
  /\ live' = [live EXCEPT ![s].idempotency_seen =
                \E row \in Allowed(RowsSeenBy(ConnOf[s])) :
                  row.idempotency_key = req[s].txn.idempotency_key]
  /\ Goto(s, "decide")
  /\ UNCHANGED <<api_lock, tables, txn_vars, req, result, risk, bounds>>

\* The pure gate, then the advisory signal, which may be any action.
Decide(s) ==
  \E at \in Clock, action \in Advice :
    LET verdict == authorize(req[s].txn, req[s].offer, live[s], TrustedIssuers, at)
    IN /\ pc[s] = "decide"
       /\ result' = [result EXCEPT ![s] = verdict]
       /\ risk' = [risk EXCEPT ![s] = action]
       /\ Goto(s, IF verdict.decision = "ALLOW" THEN "reserve" ELSE "block")
       /\ UNCHANGED <<api_lock, tables, txn_vars, req, live, bounds>>

\* Mutant: no rollback before the block is recorded.
DowngradeKeepsInserts(s, reason) ==
  /\ UNCHANGED <<nonces, transactions, txn_vars>>
  /\ result' = [result EXCEPT ![s] = Block(reason)]
  /\ Goto(s, "block")

\* Mutant: the overturned attempt is not recorded.
DowngradeUnrecorded(s, reason) ==
  /\ rollback
  /\ result' = [result EXCEPT ![s] = Block(reason)]
  /\ Goto(s, "receipt")

\* The database's last word: back out, and block with the code it stands for.
Downgrade(s, reason) ==
  /\ rollback
  /\ result' = [result EXCEPT ![s] = Block(reason)]
  /\ Goto(s, "block")

\* Mutant: reserve_nonce() commits, as save_mandate() and save_receipt() do.
ReserveAndCommit(s) ==
  LET n == req[s].txn.nonce
  IN /\ pc[s] = "reserve"
     /\ CanWrite(ConnOf[s])
     /\ \/ /\ ~NonceClash(ConnOf[s], n)
           /\ nonces' = nonces \cup open_nonces \cup {n}
           /\ transactions' = transactions \cup open_rows
           /\ Discard
           /\ Goto(s, "record")
           /\ UNCHANGED result
        \/ /\ NonceClash(ConnOf[s], n)
           /\ Downgrade(s, "NONCE_REPLAY")
     /\ UNCHANGED <<api_lock, mandates, frozen, receipts, audit, req, live, risk, bounds>>

reserve_nonce(s) ==
  LET c == ConnOf[s]
      n == req[s].txn.nonce
  IN /\ pc[s] = "reserve"
     /\ CanWrite(c)
     /\ \/ /\ ~NonceClash(c, n)
           /\ writer' = c
           /\ open_nonces' = open_nonces \cup {n}
           /\ Goto(s, "record")
           /\ UNCHANGED <<nonces, transactions, open_rows, result>>
        \/ /\ NonceClash(c, n)
           /\ Downgrade(s, "NONCE_REPLAY")
     /\ UNCHANGED <<api_lock, mandates, frozen, receipts, audit, req, live, risk, bounds>>

RecordAllow(s) ==
  LET c == ConnOf[s]
      row == Row(req[s].txn, result[s], HoldStatus(result[s], risk[s]))
  IN /\ pc[s] = "record"
     /\ CanWrite(c)
     /\ \/ /\ ~Clashes(c, row)
           /\ InsertRow(c, row)
           /\ Goto(s, "commit")
           /\ UNCHANGED result
        \/ /\ Clashes(c, row)
           /\ Downgrade(s, "DUPLICATE_TRANSACTION")
     /\ UNCHANGED <<api_lock, mandates, frozen, receipts, audit, req, live, risk, bounds>>

\* Blocked attempts are recorded too.  A txn_id already in the table raises
\* DuplicateTransaction here, outside any handler: the exception leaves
\* authorize() with the transaction of the failed INSERT still open.
RecordBlocked(s) ==
  LET c == ConnOf[s]
      row == Row(req[s].txn, result[s], "blocked")
  IN /\ pc[s] = "block"
     /\ CanWrite(c)
     /\ \/ /\ ~Clashes(c, row)
           /\ InsertRow(c, row)
           /\ Goto(s, "commit")
           /\ UNCHANGED <<api_lock, locals>>
        \/ /\ Clashes(c, row)
           /\ writer' = c
           /\ Leave(s)
           /\ UNCHANGED <<nonces, transactions, open_nonces, open_rows>>
     /\ UNCHANGED <<mandates, frozen, receipts, audit, bounds>>

\* Mutant: the call returns once the row is committed.
CommitAndReturn(s) ==
  /\ pc[s] = "commit"
  /\ commit
  /\ Leave(s)
  /\ UNCHANGED <<mandates, frozen, receipts, audit, bounds>>

CommitRow(s) ==
  /\ pc[s] = "commit"
  /\ CanWrite(ConnOf[s])
  /\ commit
  /\ Goto(s, "receipt")
  /\ UNCHANGED <<api_lock, mandates, frozen, receipts, audit, locals, bounds>>

\* Mutant: only an allowed purchase gets a receipt.
ReceiptOfAllows(s) ==
  /\ pc[s] = "receipt"
  /\ CanWrite(ConnOf[s])
  /\ receipts' = receipts \cup (IF result[s].decision # "ALLOW" THEN {} ELSE
                   {[txn_id |-> req[s].txn.txn_id, decision |-> result[s].decision,
                     reason |-> result[s].reason]})
  /\ commit
  /\ Goto(s, "audit")
  /\ UNCHANGED <<api_lock, mandates, frozen, audit, locals, bounds>>

save_receipt(s) ==
  /\ pc[s] = "receipt"
  /\ CanWrite(ConnOf[s])
  /\ receipts' = receipts \cup {[txn_id |-> req[s].txn.txn_id, decision |-> result[s].decision,
                                 reason |-> result[s].reason]}
  /\ commit
  /\ Goto(s, "audit")
  /\ UNCHANGED <<api_lock, mandates, frozen, audit, locals, bounds>>

\* The audit entry is the last write; the call returns after it.
append_event(s) ==
  /\ pc[s] = "audit"
  /\ CanWrite(ConnOf[s])
  /\ audit' = Append(audit, [txn_id |-> req[s].txn.txn_id, decision |-> result[s].decision,
                             reason |-> result[s].reason,
                             effective_decision |-> apply_risk(result[s], risk[s]).decision])
  /\ commit
  /\ Leave(s)
  /\ UNCHANGED <<mandates, frozen, receipts, bounds>>
-----------------------------------------------------------------------------
\* What goes wrong around it.

WriteLabels == {"called", "reserve", "record", "block", "commit", "receipt", "audit"}

\* A statement or a commit raises sqlite3.OperationalError.  It is not one of
\* the exceptions authorize() handles: the call ends, and what the connection
\* had not committed stays in its open transaction.  A receipt or an audit
\* entry whose own commit fails is taken as not inserted.
DatabaseError(s) ==
  /\ pc[s] \in WriteLabels
  /\ faults < MaxFaults
  /\ faults' = faults + 1
  /\ Leave(s)
  /\ UNCHANGED <<tables, txn_vars, submitted, crashes>>

\* Mutant: the call does not give up but tries the statement again.
RetryOnLock(s) ==
  /\ pc[s] \in WriteLabels
  /\ ~CanWrite(ConnOf[s])
  /\ UNCHANGED vars

\* "database is locked": another connection kept the write lock too long.
LockTimeout(s) ==
  /\ pc[s] \in WriteLabels
  /\ ~CanWrite(ConnOf[s])
  /\ Leave(s)
  /\ UNCHANGED <<tables, txn_vars, bounds>>

\* Mutant: the restart drops the database, as the API's startup does.
CrashDropsDatabase ==
  /\ crashes < MaxCrashes
  /\ crashes' = crashes + 1
  /\ api_lock' = None
  /\ Discard
  /\ nonces' = {} /\ transactions' = {} /\ receipts' = {} /\ audit' = <<>>
  /\ pc' = [s \in Session |-> "idle"]
  /\ UNCHANGED <<mandates, frozen, locals, submitted, faults>>

\* The process dies and restarts on the same database file.
Crash ==
  /\ crashes < MaxCrashes
  /\ crashes' = crashes + 1
  /\ api_lock' = None
  /\ rollback
  /\ pc' = [s \in Session |-> "idle"]
  /\ req' = [s \in Session |-> None]
  /\ live' = [s \in Session |-> Blank]
  /\ result' = [s \in Session |-> None]
  /\ risk' = [s \in Session |-> None]
  /\ UNCHANGED <<mandates, frozen, receipts, audit, submitted, faults>>

\* Mutant: the flag is written without the lock.
FreezeUnlocked(a) ==
  /\ CanWrite(AdminConn)
  /\ frozen' = frozen \cup {a}
  /\ UNCHANGED <<api_lock, mandates, nonces, transactions, receipts, audit, txn_vars, pc,
                 locals, bounds>>

\* An operator freezes or unfreezes an agent, under _LOCK in the API.
set_agent_frozen(a) ==
  /\ Serialized => api_lock = None
  /\ CanWrite(AdminConn)
  /\ frozen' = IF a \in frozen THEN frozen \ {a} ELSE frozen \cup {a}
  /\ commit
  /\ UNCHANGED <<api_lock, mandates, receipts, audit, pc, locals, bounds>>

\* A step of the call that is under way in s, up to its return or exception.
Step(s) ==
  \/ save_mandate(s) \/ ReuseMandate(s)
  \/ is_agent_frozen(s) \/ nonce_seen(s) \/ idempotency_seen(s) \/ Decide(s)
  \/ reserve_nonce(s) \/ RecordAllow(s) \/ RecordBlocked(s) \/ CommitRow(s)
  \/ save_receipt(s) \/ append_event(s)
  \/ LockTimeout(s)

Next ==
  \/ \E s \in Session :
       \/ \E r \in Request : Submit(s, r)
       \/ Enter(s)
       \/ Step(s)
       \/ DatabaseError(s)
  \/ Crash
  \/ \E a \in Agent : set_agent_frozen(a)

Spec == Init /\ [][Next]_vars

\* A thread at work goes on.  Nothing is said of one that waits for _LOCK, which
\* Python gives to whichever thread it likes.
Fairness == \A s \in Session : WF_vars(Step(s))
FairSpec == Spec /\ Fairness
-----------------------------------------------------------------------------
\* Properties.

Recorded == transactions \cup open_rows

\* The money a row or a request is about.
GrantOf(row) == [txn_id |-> row.txn_id, nonce |-> row.nonce,
                 idempotency_key |-> row.idempotency_key, amount |-> row.amount]

TypeOK ==
  /\ api_lock \in Session \cup {None}
  /\ mandates \in [MandateId -> {t.mandate : t \in Txns} \cup {None}]
  /\ frozen \subseteq Agent
  /\ nonces \subseteq Nonce /\ open_nonces \subseteq Nonce
  /\ transactions \subseteq Rows /\ open_rows \subseteq Rows
  /\ receipts \subseteq Receipts
  /\ audit \in Seq(Entries)
  /\ writer \in Connection \cup {None}
  /\ pc \in [Session -> {"idle", "waiting", "read_frozen", "read_nonce", "read_key",
                         "decide"} \cup WriteLabels]
  /\ req \in [Session -> Request \cup {None}]
  /\ live \in [Session -> [nonce_seen : BOOLEAN, idempotency_seen : BOOLEAN,
                           agent_frozen : BOOLEAN]]
  /\ result \in [Session -> Verdict \cup {None}]
  /\ risk \in [Session -> RiskAction \cup {None}]

\* What a call has established by the time it is at a label.
CallOK ==
  \A s \in Session :
    /\ pc[s] # "idle" => req[s] \in Request
    /\ pc[s] \in {"reserve", "record"} =>
         result[s] = Allow /\ WithinMandate(req[s].txn, req[s].offer, TrustedIssuers)
    /\ pc[s] = "block" => result[s] \in Verdict /\ result[s].decision = "BLOCK"
    /\ pc[s] \in {"commit", "receipt", "audit"} => result[s] \in Verdict

\* A session between its INSERT and its commit has the write lock, and the
\* lock's owner alone has uncommitted rows.
Exclusion ==
  /\ \A s \in Session :
       /\ Serialized /\ pc[s] \notin {"idle", "waiting"} => api_lock = s
       /\ pc[s] \in {"record", "commit"} => writer = ConnOf[s]
  /\ writer = None => open_nonces = {} /\ open_rows = {}

\* The ledger together with what is about to be committed to it.
LedgerCoherent ==
  /\ \A q, r \in Recorded :
       q # r => /\ q.txn_id # r.txn_id
                /\ q.decision = "ALLOW" /\ r.decision = "ALLOW" =>
                     q.nonce # r.nonce /\ q.idempotency_key # r.idempotency_key
  /\ \A row \in Allowed(transactions) : row.nonce \in nonces
  /\ \A row \in Allowed(open_rows) : row.nonce \in nonces \cup open_nonces
  /\ \A s \in Session : pc[s] = "record" =>
       /\ req[s].txn.nonce \in open_nonces
       /\ \A row \in Allowed(Recorded) : row.nonce # req[s].txn.nonce
  /\ \A row \in Allowed(Recorded) :
       \E r \in Request : /\ GrantOf(row) = GrantOf(r.txn)
                          /\ WithinMandate(r.txn, r.offer, TrustedIssuers)

\* The row, the receipt and the entry of the call in s.
RowOf(s) == Row(req[s].txn, result[s],
                IF result[s].decision = "BLOCK" THEN "blocked" ELSE HoldStatus(result[s], risk[s]))

ReceiptOf(s) == [txn_id |-> req[s].txn.txn_id, decision |-> result[s].decision,
                 reason |-> result[s].reason]

\* The evidence trails the ledger: row, then receipt, then audit entry.
EvidenceTrails ==
  /\ \A s \in Session :
       /\ pc[s] = "commit" => RowOf(s) \in open_rows
       /\ pc[s] \in {"receipt", "audit"} => RowOf(s) \in transactions
       /\ pc[s] = "audit" => ReceiptOf(s) \in receipts
  /\ \A e \in receipts : \E row \in transactions :
       row.txn_id = e.txn_id /\ row.decision = e.decision /\ row.reason_code = e.reason
  /\ \A i \in DOMAIN audit :
       /\ [txn_id |-> audit[i].txn_id, decision |-> audit[i].decision,
           reason |-> audit[i].reason] \in receipts
       /\ \E row \in transactions :
            /\ row.txn_id = audit[i].txn_id
            /\ row.status = "authorized" <=> audit[i].effective_decision = "ALLOW"

\* All of it together is inductive.
IInv == TypeOK /\ CallOK /\ Exclusion /\ LedgerCoherent /\ EvidenceTrails

\* An attempt is on the ledger at most once, and no two purchases were allowed
\* on one nonce or on one idempotency key, whatever was read before the INSERT
\* (schema.sql: nonces PRIMARY KEY, idx_txn_idem_allow; service.py:7-9).
AllowedOnce ==
  \A q, r \in transactions :
    q # r => /\ q.txn_id # r.txn_id
             /\ q.decision = "ALLOW" /\ r.decision = "ALLOW" =>
                  q.nonce # r.nonce /\ q.idempotency_key # r.idempotency_key

\* What is allowed is one of the requests that were made, for the amount the
\* merchant of record asks and within the mandate a trusted issuer signed.
AllowedWithinMandate ==
  \A row \in Allowed(transactions) :
    \E r \in Request : /\ GrantOf(row) = GrantOf(r.txn)
                       /\ WithinMandate(r.txn, r.offer, TrustedIssuers)

\* The evidence tells what the ledger tells: a receipt or an audit entry exists
\* only for a committed attempt, and with the decision and code recorded for it,
\* also when a race made the database overturn the gate (service.py:101-136).
EvidenceAgrees ==
  /\ \A e \in receipts : \E row \in transactions :
       row.txn_id = e.txn_id /\ row.decision = e.decision /\ row.reason_code = e.reason
  /\ \A i \in DOMAIN audit :
       [txn_id |-> audit[i].txn_id, decision |-> audit[i].decision,
        reason |-> audit[i].reason] \in receipts

\* The state that settle() enforces is never looser than the effective decision
\* that was reported (service.py:88-93): a purchase is free to settle exactly
\* when its audit entry says ALLOW.
EnforcedNotLooser ==
  \A i \in DOMAIN audit, row \in transactions :
    row.txn_id = audit[i].txn_id =>
      (row.status = "authorized" <=> audit[i].effective_decision = "ALLOW")

\* A nonce is spent by a purchase that was allowed, never by one that was not
\* (service.py:101-108: the rollback).
NoncesSpentByAllows == nonces = {row.nonce : row \in Allowed(transactions)}

\* No purchase of a frozen agent is recorded as allowed: the flag that was read
\* at the start of the call still stands when the row is inserted.
FrozenAgentsGetNothing ==
  [][\A row \in Allowed(Recorded' \ Recorded) : row.agent_id \notin frozen]_vars

\* The ledger only grows: no attempt, receipt or audit entry is changed or lost,
\* by later calls, errors or restarts.
LedgerOnlyGrows ==
  [][/\ transactions \subseteq transactions' /\ nonces \subseteq nonces'
     /\ receipts \subseteq receipts'
     /\ Len(audit) <= Len(audit')
     /\ \A i \in DOMAIN audit : audit'[i] = audit[i]]_vars

\* Every call leaves its receipt and one audit entry behind (service.py:10,
\* "sign a Trust Receipt and append a hash-chained audit entry - always").
EvidenceAlways ==
  [][\A s \in Session : pc[s] # "idle" /\ pc'[s] = "idle" =>
       /\ Len(audit') = Len(audit) + 1
       /\ \E e \in receipts : e.txn_id = req[s].txn.txn_id]_vars

\* When no call is under way every authorization can be read off the audit log
\* (ledger/audit_log.py:9-11).
AuthorizationsAudited ==
  (\A s \in Session : pc[s] = "idle") =>
    \A row \in Allowed(transactions) : \E i \in DOMAIN audit : audit[i].txn_id = row.txn_id

\* Every call that has begun ends, and with it the hold of _LOCK, also when another
\* connection's call ended in an exception and left the write lock taken for good
\* (service.py:114; db/database.py connect: the default timeout).
EveryCallReturns ==
  \A s \in Session : pc[s] \notin {"idle", "waiting"} ~> pc[s] = "idle"

\* Refinement: the allowed rows are a SpendLedger.
GrantWithin(g) ==
  \E r \in Request : g = GrantOf(r.txn) /\ WithinMandate(r.txn, r.offer, TrustedIssuers)

Ledger == INSTANCE SpendLedger WITH
            Grant   <- {GrantOf(r.txn) : r \in Request},
            Within  <- GrantWithin,
            granted <- {GrantOf(row) : row \in Allowed(transactions)}

ImplementsSpendLedger == Ledger!Spec
=============================================================================
