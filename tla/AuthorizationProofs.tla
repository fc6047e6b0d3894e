------------------------ MODULE AuthorizationProofs ------------------------
(***************************************************************************)
(* The authorization service for every set of sessions and requests, with  *)
(* and without the API's lock, under any number of errors and restarts:    *)
(* IInv is inductive, and the properties of the runs follow from it.       *)
(***************************************************************************)
EXTENDS AuthorizationService, GateProofs

\* A failing checklist has a first failing check.
LEMMA FirstFailing ==
  ASSUME NEW outcome, Failing(outcome) # {}
  PROVE  Min(Failing(outcome)) \in DOMAIN Checklist
<1>1. DOMAIN Checklist = 1..11
  BY DEF Checklist
<1>2. Failing(outcome) \subseteq 1..11
  BY <1>1 DEF Failing
<1>3. PICK n \in Failing(outcome) : \A m \in Failing(outcome) : n <= m
  BY <1>2
<1>4. Min(Failing(outcome)) \in Failing(outcome)
  BY <1>3 DEF Min
<1>5. QED
  BY <1>4 DEF Failing

\* The gate returns a verdict.
LEMMA VerdictType ==
  ASSUME NEW txn, NEW record, NEW live_state, NEW trusted, NEW at
  PROVE  authorize(txn, record, live_state, trusted, at) \in Verdict
<1> DEFINE failing == Failing(Outcome(txn, record, live_state, trusted, at))
<1>1. CASE failing = {}
  BY <1>1 DEF authorize, Allow, Verdict, Reason
<1>2. CASE failing # {}
  BY <1>2, FirstFailing DEF authorize, Block, Verdict, Reason
<1>3. QED
  BY <1>1, <1>2

\* The two verdicts that the database can force are verdicts of the gate.
LEMMA BlockIsVerdict ==
  /\ Block("NONCE_REPLAY") \in Verdict
  /\ Block("DUPLICATE_TRANSACTION") \in Verdict
<1>1. 10 \in DOMAIN Checklist /\ Checklist[10].reason = "NONCE_REPLAY"
  BY DEF Checklist
<1>2. 11 \in DOMAIN Checklist /\ Checklist[11].reason = "DUPLICATE_TRANSACTION"
  BY DEF Checklist
<1>3. QED
  BY <1>1, <1>2 DEF Block, Verdict, Reason

\* A row of the schema comes from a request and a verdict.
LEMMA RowType ==
  ASSUME NEW r \in Request, NEW res \in Verdict, NEW status \in Status
  PROVE  Row(r.txn, res, status) \in Rows
  BY DEF Row, Rows, Txns, TxnId, Nonce, Key, Agent, Amount, MandateId, Verdict, Decision

\* An allowed purchase is authorized or on hold.
LEMMA HoldStatusType ==
  ASSUME NEW res, NEW action
  PROVE  HoldStatus(res, action) \in {"authorized", "review_hold"}
  BY DEF HoldStatus

\* The risk step leaves a decision.
LEMMA EffectiveDecision ==
  ASSUME NEW res \in Verdict, NEW action \in RiskAction \cup {None}
  PROVE  apply_risk(res, action).decision \in Decision
  BY DEF apply_risk, Verdict, RiskAction, Decision
-----------------------------------------------------------------------------
\* Types, and what each label of a call has established.

\* The parts of a request are in the sets its rows draw from.
LEMMA RequestParts ==
  ASSUME NEW r \in Request
  PROVE  /\ r.txn.txn_id \in TxnId /\ r.txn.nonce \in Nonce
         /\ r.txn.mandate \in {t.mandate : t \in Txns}
         /\ r.txn.mandate.mandate_id \in MandateId
  BY DEF Txns, TxnId, Nonce, MandateId

\* Leaving a call types its locals.
LEMMA LeaveType ==
  ASSUME TypeOK, NEW s \in Session, Leave(s)
  PROVE  /\ pc' \in [Session -> {"idle", "waiting", "read_frozen", "read_nonce", "read_key",
                                  "decide"} \cup WriteLabels]
         /\ req' \in [Session -> Request \cup {None}]
         /\ live' \in [Session -> [nonce_seen : BOOLEAN, idempotency_seen : BOOLEAN,
                                    agent_frozen : BOOLEAN]]
         /\ result' \in [Session -> Verdict \cup {None}]
         /\ risk' \in [Session -> RiskAction \cup {None}]
         /\ api_lock' \in Session \cup {None}
  BY DEF TypeOK, Leave, Goto, Blank

\* What a read puts into the live state is a truth value.
LEMMA ReadType ==
  ASSUME live \in [Session -> [nonce_seen : BOOLEAN, idempotency_seen : BOOLEAN,
                               agent_frozen : BOOLEAN]],
         NEW s \in Session, NEW b \in BOOLEAN
  PROVE  \A next :
           \/ next = [live EXCEPT ![s].nonce_seen = b]
           \/ next = [live EXCEPT ![s].idempotency_seen = b]
           \/ next = [live EXCEPT ![s].agent_frozen = b]
           => next \in [Session -> [nonce_seen : BOOLEAN, idempotency_seen : BOOLEAN,
                                    agent_frozen : BOOLEAN]]
  OBVIOUS

\* Every step of a call, of the console, an error or a crash keeps the types.
LEMMA TypeStep == TypeOK /\ CallOK /\ [Next]_vars => TypeOK'
<1> SUFFICES ASSUME TypeOK, CallOK, [Next]_vars
             PROVE  TypeOK'
  OBVIOUS
<1> USE DEF tables, txn_vars, locals, bounds, Goto
<1>1. ASSUME NEW s \in Session, NEW r \in Request, Submit(s, r)
      PROVE  TypeOK'
  BY <1>1 DEF TypeOK, Submit
<1>2. ASSUME NEW s \in Session, Enter(s)
      PROVE  TypeOK'
  BY <1>2 DEF TypeOK, Enter, WriteLabels
<1>3. ASSUME NEW s \in Session, save_mandate(s)
      PROVE  TypeOK'
  <2>1. req[s] \in Request
    BY <1>3 DEF CallOK, save_mandate
  <2>2. QED
    BY <1>3, <2>1, RequestParts DEF TypeOK, save_mandate, commit, Discard
<1>4. ASSUME NEW s \in Session, ReuseMandate(s)
      PROVE  TypeOK'
  BY <1>4 DEF TypeOK, ReuseMandate
<1>5. ASSUME NEW s \in Session, is_agent_frozen(s) \/ nonce_seen(s) \/ idempotency_seen(s)
      PROVE  TypeOK'
  <2>1. live' \in [Session -> [nonce_seen : BOOLEAN, idempotency_seen : BOOLEAN,
                               agent_frozen : BOOLEAN]]
    <3>1. CASE is_agent_frozen(s)
      <4> DEFINE b == req[s].txn.agent_id \in frozen
      <4>1. b \in BOOLEAN /\ live' = [live EXCEPT ![s].agent_frozen = b]
        BY <3>1 DEF is_agent_frozen
      <4> HIDE DEF b
      <4>2. QED
        BY <4>1, ReadType DEF TypeOK
    <3>2. CASE nonce_seen(s)
      <4> DEFINE b == req[s].txn.nonce \in NoncesSeenBy(ConnOf[s])
      <4>1. b \in BOOLEAN /\ live' = [live EXCEPT ![s].nonce_seen = b]
        BY <3>2 DEF nonce_seen
      <4> HIDE DEF b
      <4>2. QED
        BY <4>1, ReadType DEF TypeOK
    <3>3. CASE idempotency_seen(s)
      <4> DEFINE b == \E row \in Allowed(RowsSeenBy(ConnOf[s])) :
                        row.idempotency_key = req[s].txn.idempotency_key
      <4>1. b \in BOOLEAN /\ live' = [live EXCEPT ![s].idempotency_seen = b]
        BY <3>3 DEF idempotency_seen
      <4> HIDE DEF b
      <4>2. QED
        BY <4>1, ReadType DEF TypeOK
    <3>4. QED
      BY <1>5, <3>1, <3>2, <3>3
  <2>2. QED
    BY <1>5, <2>1 DEF TypeOK, is_agent_frozen, nonce_seen, idempotency_seen
<1>6. ASSUME NEW s \in Session, Decide(s)
      PROVE  TypeOK'
  <2>1. PICK at \in Clock, action \in Advice :
          LET verdict == authorize(req[s].txn, req[s].offer, live[s], TrustedIssuers, at)
          IN /\ result' = [result EXCEPT ![s] = verdict]
             /\ risk' = [risk EXCEPT ![s] = action]
             /\ Goto(s, IF verdict.decision = "ALLOW" THEN "reserve" ELSE "block")
             /\ UNCHANGED <<api_lock, tables, txn_vars, req, live, bounds>>
    BY <1>6 DEF Decide
  <2>2. action \in RiskAction
    BY SessionAssumption
  <2>3. QED
    BY <2>1, <2>2, VerdictType DEF TypeOK, WriteLabels
<1>7. ASSUME NEW s \in Session, reserve_nonce(s)
      PROVE  TypeOK'
  <2>1. req[s] \in Request /\ ConnOf[s] \in Connection
    BY <1>7, SessionAssumption DEF CallOK, reserve_nonce
  <2>2. QED
    BY <1>7, <2>1, RequestParts, BlockIsVerdict
       DEF TypeOK, reserve_nonce, Downgrade, rollback, Discard, WriteLabels
<1>8. ASSUME NEW s \in Session, RecordAllow(s)
      PROVE  TypeOK'
  <2>1. req[s] \in Request /\ ConnOf[s] \in Connection /\ result[s] \in Verdict
    BY <1>8, SessionAssumption DEF CallOK, RecordAllow, Allow, Verdict, Reason
  <2>2. Row(req[s].txn, result[s], HoldStatus(result[s], risk[s])) \in Rows
    BY <2>1, HoldStatusType, RowType DEF Status
  <2>3. QED
    BY <1>8, <2>1, <2>2, BlockIsVerdict
       DEF TypeOK, RecordAllow, InsertRow, Downgrade, rollback, Discard, WriteLabels
<1>9. ASSUME NEW s \in Session, RecordBlocked(s)
      PROVE  TypeOK'
  <2>1. req[s] \in Request /\ ConnOf[s] \in Connection /\ result[s] \in Verdict
    BY <1>9, SessionAssumption DEF CallOK, RecordBlocked
  <2>2. Row(req[s].txn, result[s], "blocked") \in Rows
    BY <2>1, RowType DEF Status
  <2>3. CASE UNCHANGED <<api_lock, locals>>
    BY <1>9, <2>1, <2>2, <2>3 DEF TypeOK, RecordBlocked, InsertRow, WriteLabels, Leave
  <2>4. CASE Leave(s)
    BY <1>9, <2>1, <2>2, <2>4, LeaveType DEF TypeOK, RecordBlocked, InsertRow, WriteLabels
  <2>5. QED
    BY <1>9, <2>3, <2>4 DEF RecordBlocked
<1>10. ASSUME NEW s \in Session, CommitRow(s)
       PROVE  TypeOK'
  BY <1>10 DEF TypeOK, CommitRow, commit, Discard, WriteLabels
<1>11. ASSUME NEW s \in Session, save_receipt(s)
       PROVE  TypeOK'
  <2>1. req[s] \in Request /\ result[s] \in Verdict
    BY <1>11 DEF CallOK, save_receipt
  <2>2. [txn_id |-> req[s].txn.txn_id, decision |-> result[s].decision,
         reason |-> result[s].reason] \in Receipts
    BY <2>1, RequestParts DEF Receipts, Verdict, Decision
  <2>3. QED
    BY <1>11, <2>2 DEF TypeOK, save_receipt, commit, Discard, WriteLabels
<1>12. ASSUME NEW s \in Session, append_event(s)
       PROVE  TypeOK'
  <2>1. req[s] \in Request /\ result[s] \in Verdict /\ risk[s] \in RiskAction \cup {None}
    BY <1>12 DEF CallOK, append_event, TypeOK
  <2>2. [txn_id |-> req[s].txn.txn_id, decision |-> result[s].decision,
         reason |-> result[s].reason,
         effective_decision |-> apply_risk(result[s], risk[s]).decision] \in Entries
    BY <2>1, RequestParts, EffectiveDecision DEF Entries, Verdict, Decision
  <2>3. audit' \in Seq(Entries)
    BY <1>12, <2>2 DEF TypeOK, append_event
  <2>4. QED
    BY <1>12, <2>3, LeaveType DEF TypeOK, append_event, commit, Discard
<1>13. ASSUME NEW s \in Session, LockTimeout(s) \/ DatabaseError(s)
       PROVE  TypeOK'
  BY <1>13, LeaveType DEF TypeOK, LockTimeout, DatabaseError
<1>14. CASE Crash
  BY <1>14 DEF TypeOK, Crash, rollback, Discard, Blank
<1>15. ASSUME NEW a \in Agent, set_agent_frozen(a)
       PROVE  TypeOK'
  BY <1>15 DEF TypeOK, set_agent_frozen, commit, Discard
<1>16. CASE UNCHANGED vars
  BY <1>16 DEF TypeOK, vars
<1>17. QED
  BY <1>1, <1>2, <1>3, <1>4, <1>5, <1>6, <1>7, <1>8, <1>9, <1>10, <1>11, <1>12, <1>13,
     <1>14, <1>15, <1>16 DEF Next, Step

\* After a return or an exception nothing is claimed of the session's call.
LEMMA LeaveCall ==
  ASSUME TypeOK, CallOK, NEW s \in Session, Leave(s)
  PROVE  CallOK'
  BY DEF TypeOK, CallOK, Leave, Goto

\* Every label of authorize() is reached with what it relies on.
LEMMA CallStep == TypeOK /\ CallOK /\ [Next]_vars => CallOK'
<1> SUFFICES ASSUME TypeOK, CallOK, [Next]_vars
             PROVE  CallOK'
  OBVIOUS
<1> USE DEF tables, txn_vars, locals, bounds, Goto
<1>1. ASSUME NEW s \in Session, NEW r \in Request, Submit(s, r)
      PROVE  CallOK'
  BY <1>1 DEF TypeOK, CallOK, Submit
<1>2. ASSUME NEW s \in Session, Enter(s)
      PROVE  CallOK'
  BY <1>2 DEF TypeOK, CallOK, Enter
<1>3. ASSUME NEW s \in Session, save_mandate(s) \/ ReuseMandate(s)
      PROVE  CallOK'
  BY <1>3 DEF TypeOK, CallOK, save_mandate, ReuseMandate
<1>4. ASSUME NEW s \in Session, is_agent_frozen(s) \/ nonce_seen(s) \/ idempotency_seen(s)
      PROVE  CallOK'
  BY <1>4 DEF TypeOK, CallOK, is_agent_frozen, nonce_seen, idempotency_seen
<1>5. ASSUME NEW s \in Session, Decide(s)
      PROVE  CallOK'
  <2>1. PICK at \in Clock, action \in Advice :
          LET verdict == authorize(req[s].txn, req[s].offer, live[s], TrustedIssuers, at)
          IN /\ pc[s] = "decide"
             /\ result' = [result EXCEPT ![s] = verdict]
             /\ Goto(s, IF verdict.decision = "ALLOW" THEN "reserve" ELSE "block")
             /\ UNCHANGED req
    BY <1>5 DEF Decide
  <2> DEFINE verdict == authorize(req[s].txn, req[s].offer, live[s], TrustedIssuers, at)
  <2>2. verdict \in Verdict /\ verdict.decision \in {"ALLOW", "BLOCK"}
    BY VerdictType, GateDecides
  <2>3. verdict.decision = "ALLOW" =>
          verdict = Allow /\ WithinMandate(req[s].txn, req[s].offer, TrustedIssuers)
    BY AllowIsWithinMandate DEF authorize, Block
  <2> HIDE DEF verdict
  <2>4. /\ pc' = [pc EXCEPT ![s] = IF verdict.decision = "ALLOW" THEN "reserve" ELSE "block"]
        /\ result' = [result EXCEPT ![s] = verdict]
        /\ req' = req /\ pc[s] = "decide"
    BY <2>1 DEF verdict
  <2>5. QED
    BY <2>2, <2>3, <2>4 DEF TypeOK, CallOK
<1>6. ASSUME NEW s \in Session, reserve_nonce(s)
      PROVE  CallOK'
  BY <1>6, BlockIsVerdict DEF TypeOK, CallOK, reserve_nonce, Downgrade, Block
<1>7. ASSUME NEW s \in Session, RecordAllow(s)
      PROVE  CallOK'
  <2>1. Allow \in Verdict
    BY DEF Allow, Verdict, Reason
  <2>2. QED
    BY <1>7, <2>1, BlockIsVerdict DEF TypeOK, CallOK, RecordAllow, Downgrade, Block
<1>8. ASSUME NEW s \in Session, RecordBlocked(s)
      PROVE  CallOK'
  <2>1. CASE Leave(s)
    BY <2>1, LeaveCall
  <2>2. CASE Goto(s, "commit") /\ UNCHANGED locals
    BY <1>8, <2>2 DEF TypeOK, CallOK, RecordBlocked
  <2>3. QED
    BY <1>8, <2>1, <2>2 DEF RecordBlocked
<1>9. ASSUME NEW s \in Session, CommitRow(s) \/ save_receipt(s)
      PROVE  CallOK'
  BY <1>9 DEF TypeOK, CallOK, CommitRow, save_receipt
<1>10. ASSUME NEW s \in Session, append_event(s) \/ LockTimeout(s) \/ DatabaseError(s)
       PROVE  CallOK'
  BY <1>10, LeaveCall DEF append_event, LockTimeout, DatabaseError
<1>11. CASE Crash
  BY <1>11 DEF CallOK, Crash
<1>12. ASSUME NEW a \in Agent, set_agent_frozen(a)
       PROVE  CallOK'
  BY <1>12 DEF CallOK, set_agent_frozen
<1>13. CASE UNCHANGED vars
  BY <1>13 DEF CallOK, vars
<1>14. QED
  BY <1>1, <1>2, <1>3, <1>4, <1>5, <1>6, <1>7, <1>8, <1>9, <1>10, <1>11, <1>12, <1>13
     DEF Next, Step
-----------------------------------------------------------------------------
\* Who has the locks.

\* A step of s that needs the write lock finds no other session between its
\* INSERT and its commit.
LEMMA WriterAlone ==
  ASSUME TypeOK, Exclusion, NEW s \in Session, pc[s] \notin {"idle", "waiting"},
         CanWrite(ConnOf[s]), NEW t \in Session, pc[t] \in {"record", "commit"}
  PROVE  t = s
<1>1. writer = ConnOf[t] /\ ConnOf[t] # None
  BY SessionAssumption DEF Exclusion
<1>2. ConnOf[s] = ConnOf[t]
  BY <1>1 DEF CanWrite
<1>3. CASE Serialized
  BY <1>3 DEF Exclusion
<1>4. CASE ~Serialized
  BY <1>2, <1>4, SessionAssumption
<1>5. QED
  BY <1>3, <1>4

\* Nor does an operator who changes a frozen flag.
LEMMA AdminAlone ==
  ASSUME TypeOK, Exclusion, Serialized => api_lock = None, CanWrite(AdminConn),
         NEW t \in Session
  PROVE  pc[t] \notin {"record", "commit"}
<1> SUFFICES ASSUME pc[t] \in {"record", "commit"}
             PROVE  FALSE
  OBVIOUS
<1>1. writer = ConnOf[t] /\ ConnOf[t] # None
  BY SessionAssumption DEF Exclusion
<1>2. AdminConn = ConnOf[t]
  BY <1>1 DEF CanWrite
<1>3. CASE Serialized
  BY <1>3, SessionAssumption DEF Exclusion
<1>4. CASE ~Serialized
  BY <1>2, <1>4, SessionAssumption
<1>5. QED
  BY <1>3, <1>4

\* The connection that has or takes the write lock sees every row there is.
LEMMA WriterSeesAll ==
  ASSUME Exclusion, NEW c, CanWrite(c)
  PROVE  RowsSeenBy(c) = Recorded /\ NoncesSeenBy(c) = nonces \cup open_nonces
  BY DEF Exclusion, CanWrite, RowsSeenBy, NoncesSeenBy, Recorded

\* Leaving a call keeps the locks right when the write transaction is as it was
\* or the session had the write lock to itself.
LEMMA LeaveExclusion ==
  ASSUME TypeOK, Exclusion, NEW s \in Session, Leave(s), pc[s] \notin {"idle", "waiting"},
         \/ UNCHANGED <<writer, open_nonces, open_rows>>
         \/ CanWrite(ConnOf[s]) /\ Discard
         \/ CanWrite(ConnOf[s]) /\ writer' = ConnOf[s] /\ UNCHANGED <<open_nonces, open_rows>>
  PROVE  Exclusion'
<1>1. \A t \in Session : t # s => pc'[t] = pc[t]
  BY DEF TypeOK, Leave, Goto
<1>2. pc'[s] = "idle"
  BY DEF TypeOK, Leave, Goto
<1>3. \A t \in Session : Serialized /\ pc'[t] \notin {"idle", "waiting"} => api_lock' = t
  BY <1>1, <1>2 DEF Exclusion
<1>4. \A t \in Session : pc'[t] \in {"record", "commit"} => writer' = ConnOf[t]
  BY <1>1, <1>2, WriterAlone DEF Exclusion, Discard
<1>5. writer' = None => open_nonces' = {} /\ open_rows' = {}
  BY SessionAssumption DEF Exclusion, Discard
<1>6. QED
  BY <1>3, <1>4, <1>5 DEF Exclusion

\* Only the connection that has the write lock has uncommitted rows.
LEMMA ExclusionStep == TypeOK /\ Exclusion /\ [Next]_vars => Exclusion'
<1> SUFFICES ASSUME TypeOK, Exclusion, [Next]_vars
             PROVE  Exclusion'
  OBVIOUS
<1> USE DEF tables, txn_vars, locals, bounds, Goto
<1>1. ASSUME NEW s \in Session, NEW r \in Request, Submit(s, r)
      PROVE  Exclusion'
  BY <1>1 DEF TypeOK, Exclusion, Submit
<1>2. ASSUME NEW s \in Session, Enter(s)
      PROVE  Exclusion'
  BY <1>2, SessionAssumption DEF TypeOK, Exclusion, Enter
<1>3. ASSUME NEW s \in Session,
             save_mandate(s) \/ CommitRow(s) \/ save_receipt(s)
      PROVE  Exclusion'
  <2>1. /\ pc[s] \notin {"idle", "waiting"} /\ CanWrite(ConnOf[s]) /\ Discard
        /\ \E label \in {"read_frozen", "receipt", "audit"} : Goto(s, label)
        /\ api_lock' = api_lock
    BY <1>3 DEF save_mandate, CommitRow, save_receipt, commit
  <2>2. QED
    BY <2>1, WriterAlone DEF TypeOK, Exclusion, Discard
<1>4. ASSUME NEW s \in Session,
             \/ ReuseMandate(s) \/ is_agent_frozen(s) \/ nonce_seen(s) \/ idempotency_seen(s)
             \/ Decide(s)
      PROVE  Exclusion'
  <2>1. /\ pc[s] \notin {"idle", "waiting"}
        /\ \E label \in {"read_frozen", "read_nonce", "read_key", "decide", "reserve", "block"} :
             Goto(s, label)
        /\ UNCHANGED <<api_lock, txn_vars>>
    BY <1>4 DEF ReuseMandate, is_agent_frozen, nonce_seen, idempotency_seen, Decide
  <2>2. QED
    BY <2>1 DEF TypeOK, Exclusion
<1>5. ASSUME NEW s \in Session, reserve_nonce(s) \/ RecordAllow(s)
      PROVE  Exclusion'
  <2>1. /\ pc[s] \notin {"idle", "waiting"} /\ CanWrite(ConnOf[s])
        /\ api_lock' = api_lock
        /\ \/ writer' = ConnOf[s] /\ \E label \in {"record", "commit"} : Goto(s, label)
           \/ Discard /\ Goto(s, "block")
    BY <1>5 DEF reserve_nonce, RecordAllow, InsertRow, Downgrade, rollback
  <2>2. ConnOf[s] # None
    BY SessionAssumption
  <2>3. QED
    BY <2>1, <2>2, WriterAlone DEF TypeOK, Exclusion, Discard
<1>6. ASSUME NEW s \in Session, RecordBlocked(s)
      PROVE  Exclusion'
  <2>1. CASE Leave(s) /\ writer' = ConnOf[s] /\ UNCHANGED <<open_nonces, open_rows>>
    BY <1>6, <2>1, LeaveExclusion DEF RecordBlocked
  <2>2. CASE Goto(s, "commit") /\ InsertRow(ConnOf[s], Row(req[s].txn, result[s], "blocked"))
             /\ UNCHANGED api_lock
    <3>1. ConnOf[s] # None
      BY SessionAssumption
    <3>2. pc[s] = "block" /\ CanWrite(ConnOf[s])
      BY <1>6 DEF RecordBlocked
    <3>3. QED
      BY <2>2, <3>1, <3>2, WriterAlone DEF TypeOK, Exclusion, InsertRow
  <2>3. QED
    BY <1>6, <2>1, <2>2 DEF RecordBlocked
<1>7. ASSUME NEW s \in Session, append_event(s) \/ LockTimeout(s) \/ DatabaseError(s)
      PROVE  Exclusion'
  BY <1>7, LeaveExclusion
     DEF append_event, LockTimeout, DatabaseError, commit, WriteLabels
<1>8. CASE Crash
  BY <1>8 DEF Exclusion, Crash, rollback, Discard
<1>9. ASSUME NEW a \in Agent, set_agent_frozen(a)
      PROVE  Exclusion'
  BY <1>9, AdminAlone DEF Exclusion, set_agent_frozen, commit, Discard
<1>10. CASE UNCHANGED vars
  BY <1>10 DEF Exclusion, vars
<1>11. QED
  BY <1>1, <1>2, <1>3, <1>4, <1>5, <1>6, <1>7, <1>8, <1>9, <1>10 DEF Next, Step
-----------------------------------------------------------------------------
\* The ledger.

\* Nothing happens to the tables, and nobody has newly reserved a nonce.
LEMMA LedgerKept ==
  ASSUME LedgerCoherent, UNCHANGED <<nonces, transactions, open_nonces, open_rows>>,
         \A t \in Session : pc'[t] = "record" => pc[t] = "record" /\ req'[t] = req[t]
  PROVE  LedgerCoherent'
  BY DEF LedgerCoherent, Recorded, Allowed

\* A commit or a rollback, when no session is between its two INSERTs.
LEMMA LedgerClosed ==
  ASSUME LedgerCoherent, commit \/ rollback,
         \A t \in Session : pc'[t] # "record"
  PROVE  LedgerCoherent'
<1>1. Recorded' \subseteq Recorded
  BY DEF commit, rollback, Discard, Recorded
<1>2. \A row \in Allowed(transactions') : row.nonce \in nonces'
  BY DEF LedgerCoherent, commit, rollback, Discard, Allowed
<1>3. Allowed(open_rows') = {}
  BY DEF commit, rollback, Discard, Allowed
<1>4. QED
  BY <1>1, <1>2, <1>3 DEF LedgerCoherent, Allowed

\* A row that clashes with none is inserted.
LEMMA LedgerInsert ==
  ASSUME LedgerCoherent, Exclusion, NEW s \in Session, CanWrite(ConnOf[s]),
         NEW row, InsertRow(ConnOf[s], row), ~Clashes(ConnOf[s], row),
         row.decision = "ALLOW" =>
           /\ row.nonce \in open_nonces
           /\ \A other \in Allowed(Recorded) : other.nonce # row.nonce
           /\ \E r \in Request : /\ GrantOf(row) = GrantOf(r.txn)
                               /\ WithinMandate(r.txn, r.offer, TrustedIssuers),
         \A t \in Session : pc'[t] # "record"
  PROVE  LedgerCoherent'
<1>1. Recorded' = Recorded \cup {row}
  BY DEF InsertRow, Recorded
<1>2. \A other \in Recorded :
        /\ other.txn_id # row.txn_id
        /\ row.decision = "ALLOW" /\ other.decision = "ALLOW" =>
             other.nonce # row.nonce /\ other.idempotency_key # row.idempotency_key
  BY WriterSeesAll DEF Clashes, Allowed
<1>3. \A q, r \in Recorded' :
        q # r => /\ q.txn_id # r.txn_id
                 /\ q.decision = "ALLOW" /\ r.decision = "ALLOW" =>
                      q.nonce # r.nonce /\ q.idempotency_key # r.idempotency_key
  BY <1>1, <1>2 DEF LedgerCoherent
<1>4. \A q \in Allowed(transactions') : q.nonce \in nonces'
  BY DEF LedgerCoherent, InsertRow
<1>5. \A q \in Allowed(open_rows') : q.nonce \in nonces' \cup open_nonces'
  BY DEF LedgerCoherent, InsertRow, Allowed
<1>6. \A q \in Allowed(Recorded') :
        \E r \in Request : /\ GrantOf(q) = GrantOf(r.txn)
                           /\ WithinMandate(r.txn, r.offer, TrustedIssuers)
  BY <1>1 DEF LedgerCoherent, Allowed
<1>7. QED
  BY <1>3, <1>4, <1>5, <1>6 DEF LedgerCoherent

\* No step puts a second allowed row under a nonce or a key.
LEMMA LedgerStep ==
  TypeOK /\ CallOK /\ Exclusion /\ LedgerCoherent /\ [Next]_vars => LedgerCoherent'
<1> SUFFICES ASSUME TypeOK, CallOK, Exclusion, LedgerCoherent, [Next]_vars
             PROVE  LedgerCoherent'
  OBVIOUS
<1> USE DEF tables, txn_vars, locals, bounds, Goto
<1>1. ASSUME NEW s \in Session,
             \/ \E r \in Request : Submit(s, r)
             \/ Enter(s) \/ ReuseMandate(s) \/ Decide(s)
             \/ is_agent_frozen(s) \/ nonce_seen(s) \/ idempotency_seen(s)
             \/ LockTimeout(s) \/ DatabaseError(s)
      PROVE  LedgerCoherent'
  <2>1. UNCHANGED <<nonces, transactions, open_nonces, open_rows>>
    BY <1>1 DEF Submit, Enter, ReuseMandate, Decide, is_agent_frozen, nonce_seen,
                idempotency_seen, LockTimeout, DatabaseError
  <2>2. \E label \in {"waiting", "called", "read_frozen", "read_nonce", "read_key", "decide",
                      "reserve", "block", "idle"} : Goto(s, label)
    BY <1>1 DEF Submit, Enter, ReuseMandate, Decide, is_agent_frozen, nonce_seen,
                idempotency_seen, LockTimeout, DatabaseError, Leave
  <2>3. \A t \in Session : t # s => req'[t] = req[t]
    BY <1>1 DEF TypeOK, Submit, Enter, ReuseMandate, Decide, is_agent_frozen, nonce_seen,
                idempotency_seen, LockTimeout, DatabaseError, Leave
  <2>4. \A t \in Session : pc'[t] = "record" => pc[t] = "record" /\ req'[t] = req[t]
    BY <2>2, <2>3 DEF TypeOK
  <2>5. QED
    BY <2>1, <2>4, LedgerKept
<1>2. ASSUME NEW s \in Session,
             save_mandate(s) \/ CommitRow(s) \/ save_receipt(s) \/ append_event(s)
      PROVE  LedgerCoherent'
  <2>1. /\ pc[s] \in {"called", "commit", "receipt", "audit"} /\ CanWrite(ConnOf[s]) /\ commit
        /\ \E label \in {"read_frozen", "receipt", "audit", "idle"} : Goto(s, label)
    BY <1>2 DEF save_mandate, CommitRow, save_receipt, append_event, Leave
  <2>2. \A t \in Session : pc'[t] # "record"
    BY <2>1, WriterAlone DEF TypeOK
  <2>3. QED
    BY <2>1, <2>2, LedgerClosed
<1>3. ASSUME NEW s \in Session, reserve_nonce(s)
      PROVE  LedgerCoherent'
  <2> DEFINE n == req[s].txn.nonce
  <2>1. /\ pc[s] = "reserve" /\ CanWrite(ConnOf[s]) /\ req' = req
        /\ \A t \in Session \ {s} : pc[t] # "record"
    BY <1>3, WriterAlone DEF reserve_nonce
  <2>2. CASE rollback /\ Goto(s, "block")
    <3>1. \A t \in Session : pc'[t] # "record"
      BY <2>1, <2>2 DEF TypeOK
    <3>2. QED
      BY <2>2, <3>1, LedgerClosed
  <2>3. CASE /\ ~NonceClash(ConnOf[s], n) /\ open_nonces' = open_nonces \cup {n}
             /\ Goto(s, "record") /\ UNCHANGED <<nonces, transactions, open_rows>>
    <3>1. n \notin nonces \cup open_nonces
      BY <2>1, <2>3, WriterSeesAll DEF NonceClash
    <3>2. \A row \in Allowed(Recorded) : row.nonce # n
      BY <3>1 DEF LedgerCoherent, Recorded, Allowed
    <3>3. \A t \in Session : pc'[t] = "record" => t = s
      BY <2>1, <2>3 DEF TypeOK
    <3>4. \A t \in Session : pc'[t] = "record" =>
            /\ req'[t].txn.nonce \in open_nonces'
            /\ \A row \in Allowed(Recorded') : row.nonce # req'[t].txn.nonce
      BY <2>1, <2>3, <3>2, <3>3 DEF Recorded, Allowed
    <3>5. QED
      BY <2>3, <3>4 DEF LedgerCoherent, Recorded, Allowed
  <2>4. QED
    BY <1>3, <2>2, <2>3 DEF reserve_nonce, Downgrade
<1>4. ASSUME NEW s \in Session, RecordAllow(s)
      PROVE  LedgerCoherent'
  <2> DEFINE row == Row(req[s].txn, result[s], HoldStatus(result[s], risk[s]))
  <2>1. /\ pc[s] = "record" /\ CanWrite(ConnOf[s])
        /\ \A t \in Session \ {s} : pc[t] # "record"
    BY <1>4, WriterAlone DEF RecordAllow
  <2>2. \/ Goto(s, "commit") /\ ~Clashes(ConnOf[s], row) /\ InsertRow(ConnOf[s], row)
        \/ Goto(s, "block") /\ rollback
    BY <1>4 DEF RecordAllow, Downgrade
  <2>3. \A t \in Session : pc'[t] # "record"
    BY <2>1, <2>2 DEF TypeOK
  <2>4. /\ req[s].txn.nonce \in open_nonces
        /\ \A other \in Allowed(Recorded) : other.nonce # req[s].txn.nonce
        /\ req[s] \in Request /\ WithinMandate(req[s].txn, req[s].offer, TrustedIssuers)
    BY <2>1 DEF CallOK, LedgerCoherent
  <2>5. row.nonce = req[s].txn.nonce /\ GrantOf(row) = GrantOf(req[s].txn)
    BY DEF Row, GrantOf
  <2>6. /\ row.nonce \in open_nonces
        /\ \A other \in Allowed(Recorded) : other.nonce # row.nonce
        /\ \E r \in Request : /\ GrantOf(row) = GrantOf(r.txn)
                            /\ WithinMandate(r.txn, r.offer, TrustedIssuers)
    BY <2>4, <2>5
  <2> HIDE DEF row
  <2>7. QED
    BY <2>1, <2>2, <2>3, <2>6, LedgerClosed, LedgerInsert
<1>5. ASSUME NEW s \in Session, RecordBlocked(s)
      PROVE  LedgerCoherent'
  <2> DEFINE row == Row(req[s].txn, result[s], "blocked")
  <2>1. /\ pc[s] = "block" /\ CanWrite(ConnOf[s])
        /\ \A t \in Session : pc[t] # "record"
    BY <1>5, WriterAlone DEF RecordBlocked
  <2>2. \/ Goto(s, "commit") /\ ~Clashes(ConnOf[s], row) /\ InsertRow(ConnOf[s], row)
        \/ Goto(s, "idle") /\ UNCHANGED <<nonces, transactions, open_nonces, open_rows>>
    BY <1>5 DEF RecordBlocked, Leave
  <2>3. \A t \in Session : pc'[t] # "record"
    BY <2>1, <2>2 DEF TypeOK
  <2>4. row.decision = "BLOCK"
    BY <2>1 DEF CallOK, Row
  <2> HIDE DEF row
  <2>5. QED
    BY <2>1, <2>2, <2>3, <2>4, LedgerKept, LedgerInsert
<1>6. CASE Crash
  BY <1>6, LedgerClosed DEF Crash
<1>7. ASSUME NEW a \in Agent, set_agent_frozen(a)
      PROVE  LedgerCoherent'
  BY <1>7, AdminAlone, LedgerClosed DEF set_agent_frozen
<1>8. CASE UNCHANGED vars
  BY <1>8, LedgerKept DEF vars
<1>9. QED
  BY <1>1, <1>2, <1>3, <1>4, <1>5, <1>6, <1>7, <1>8 DEF Next, Step
-----------------------------------------------------------------------------
\* The evidence.

\* Receipts and audit entries keep their rows when nothing leaves the ledger,
\* and so do the calls whose locals and place in authorize() stay the same.
LEMMA EvidenceKept ==
  ASSUME EvidenceTrails, receipts' = receipts, audit' = audit,
         transactions \subseteq transactions',
         \A t \in Session :
           pc'[t] \in {"commit", "receipt", "audit"} =>
             /\ pc'[t] = pc[t] /\ req'[t] = req[t]
             /\ result'[t] = result[t] /\ risk'[t] = risk[t]
             /\ pc[t] = "commit" => open_rows \subseteq open_rows'
  PROVE  EvidenceTrails'
<1>1. ASSUME NEW t \in Session, pc'[t] \in {"commit", "receipt", "audit"}
      PROVE  RowOf(t)' = RowOf(t) /\ ReceiptOf(t)' = ReceiptOf(t)
  BY <1>1 DEF RowOf, ReceiptOf
<1>2. QED
  BY <1>1 DEF EvidenceTrails

\* The row of a call that is past the gate.
LEMMA RowOfAllow ==
  ASSUME NEW s \in Session, result[s] = Allow
  PROVE  RowOf(s) = Row(req[s].txn, result[s], HoldStatus(result[s], risk[s]))
  BY DEF RowOf, Allow

\* The row of a refused attempt.
LEMMA RowOfBlock ==
  ASSUME NEW s \in Session, result[s].decision = "BLOCK"
  PROVE  RowOf(s) = Row(req[s].txn, result[s], "blocked")
  BY DEF RowOf

\* The status of a row says ALLOW exactly when the effective decision does.
LEMMA StatusIsEffective ==
  ASSUME NEW s \in Session, result[s] \in Verdict
  PROVE  RowOf(s).status = "authorized" <=> apply_risk(result[s], risk[s]).decision = "ALLOW"
  BY DEF RowOf, Row, HoldStatus, apply_risk, Verdict

\* A row of its own is inserted for the call in s.
LEMMA EvidenceInsert ==
  ASSUME TypeOK, EvidenceTrails, NEW s \in Session, Goto(s, "commit"),
         InsertRow(ConnOf[s], RowOf(s)),
         UNCHANGED <<receipts, audit, locals>>
  PROVE  EvidenceTrails'
<1>1. \A t \in Session : RowOf(t)' = RowOf(t) /\ ReceiptOf(t)' = ReceiptOf(t)
  BY DEF RowOf, ReceiptOf, locals
<1>2. \A t \in Session :
        /\ pc'[t] = "commit" => RowOf(t)' \in open_rows'
        /\ pc'[t] \in {"receipt", "audit"} => RowOf(t)' \in transactions'
        /\ pc'[t] = "audit" => ReceiptOf(t)' \in receipts'
  BY <1>1 DEF TypeOK, EvidenceTrails, InsertRow, Goto
<1>3. QED
  BY <1>2 DEF EvidenceTrails, InsertRow

\* Receipts and audit entries are written after the row that they tell of.
LEMMA EvidenceStep ==
  TypeOK /\ CallOK /\ Exclusion /\ EvidenceTrails /\ [Next]_vars => EvidenceTrails'
<1> SUFFICES ASSUME TypeOK, CallOK, Exclusion, EvidenceTrails, [Next]_vars
             PROVE  EvidenceTrails'
  OBVIOUS
<1> USE DEF tables, txn_vars, locals, bounds
<1>1. ASSUME NEW s \in Session,
             \/ \E r \in Request : Submit(s, r)
             \/ Enter(s) \/ ReuseMandate(s) \/ Decide(s)
             \/ is_agent_frozen(s) \/ nonce_seen(s) \/ idempotency_seen(s)
             \/ LockTimeout(s) \/ DatabaseError(s)
      PROVE  EvidenceTrails'
  <2>1. UNCHANGED <<transactions, receipts, audit, open_rows>>
    BY <1>1 DEF Submit, Enter, ReuseMandate, Decide, is_agent_frozen, nonce_seen,
                idempotency_seen, LockTimeout, DatabaseError
  <2>2. \E label \in {"waiting", "called", "read_frozen", "read_nonce", "read_key", "decide",
                      "reserve", "block", "idle"} : Goto(s, label)
    BY <1>1 DEF Submit, Enter, ReuseMandate, Decide, is_agent_frozen, nonce_seen,
                idempotency_seen, LockTimeout, DatabaseError, Leave
  <2>3. \A t \in Session : t # s => /\ req'[t] = req[t] /\ result'[t] = result[t]
                                   /\ risk'[t] = risk[t]
    BY <1>1 DEF TypeOK, Submit, Enter, ReuseMandate, Decide, is_agent_frozen, nonce_seen,
                idempotency_seen, LockTimeout, DatabaseError, Leave
  <2>4. QED
    BY <2>1, <2>2, <2>3, EvidenceKept DEF TypeOK, Goto
<1>2. ASSUME NEW s \in Session, save_mandate(s)
      PROVE  EvidenceTrails'
  <2>1. \A t \in Session : pc[t] # "commit"
    BY <1>2, WriterAlone DEF save_mandate
  <2>2. QED
    BY <1>2, <2>1, EvidenceKept DEF TypeOK, save_mandate, commit, Goto
<1>3. ASSUME NEW s \in Session, reserve_nonce(s)
      PROVE  EvidenceTrails'
  <2>1. \A t \in Session : pc[t] # "commit"
    BY <1>3, WriterAlone DEF reserve_nonce
  <2>2. QED
    BY <1>3, <2>1, EvidenceKept DEF TypeOK, reserve_nonce, Downgrade, rollback, Goto
<1>4. ASSUME NEW s \in Session, RecordAllow(s)
      PROVE  EvidenceTrails'
  <2>1. \A t \in Session : pc[t] # "commit"
    BY <1>4, WriterAlone DEF RecordAllow
  <2>2. CASE Downgrade(s, "DUPLICATE_TRANSACTION")
    BY <1>4, <2>1, <2>2, EvidenceKept DEF TypeOK, RecordAllow, Downgrade, rollback, Goto
  <2>3. CASE /\ Goto(s, "commit") /\ UNCHANGED result
             /\ InsertRow(ConnOf[s], Row(req[s].txn, result[s], HoldStatus(result[s], risk[s])))
    BY <1>4, <2>3, RowOfAllow, EvidenceInsert DEF CallOK, RecordAllow
  <2>4. QED
    BY <1>4, <2>2, <2>3 DEF RecordAllow
<1>5. ASSUME NEW s \in Session, RecordBlocked(s)
      PROVE  EvidenceTrails'
  <2>1. \A t \in Session : pc[t] # "commit"
    BY <1>5, WriterAlone DEF RecordBlocked
  <2>2. CASE Leave(s) /\ UNCHANGED <<transactions, open_rows>>
    BY <1>5, <2>1, <2>2, EvidenceKept DEF TypeOK, RecordBlocked, Leave, Goto
  <2>3. CASE /\ Goto(s, "commit") /\ UNCHANGED locals
             /\ InsertRow(ConnOf[s], Row(req[s].txn, result[s], "blocked"))
    BY <1>5, <2>3, RowOfBlock, EvidenceInsert DEF CallOK, RecordBlocked
  <2>4. QED
    BY <1>5, <2>2, <2>3 DEF RecordBlocked
<1>6. ASSUME NEW s \in Session, CommitRow(s)
      PROVE  EvidenceTrails'
  <2>1. \A t \in Session \ {s} : pc[t] # "commit"
    BY <1>6, WriterAlone DEF CommitRow
  <2>2. \A t \in Session : RowOf(t)' = RowOf(t) /\ ReceiptOf(t)' = ReceiptOf(t)
    BY <1>6 DEF CommitRow, RowOf, ReceiptOf
  <2>3. /\ pc[s] = "commit" /\ pc' = [pc EXCEPT ![s] = "receipt"]
        /\ transactions' = transactions \cup open_rows
        /\ receipts' = receipts /\ audit' = audit
    BY <1>6 DEF CommitRow, commit, Goto
  <2>4. \A t \in Session :
          /\ pc'[t] = "commit" => RowOf(t)' \in open_rows'
          /\ pc'[t] \in {"receipt", "audit"} => RowOf(t)' \in transactions'
          /\ pc'[t] = "audit" => ReceiptOf(t)' \in receipts'
    BY <2>1, <2>2, <2>3 DEF TypeOK, EvidenceTrails
  <2>5. QED
    BY <2>3, <2>4 DEF EvidenceTrails
<1>7. ASSUME NEW s \in Session, save_receipt(s)
      PROVE  EvidenceTrails'
  <2>1. \A t \in Session : pc[t] # "commit"
    BY <1>7, WriterAlone DEF save_receipt
  <2>2. \A t \in Session : RowOf(t)' = RowOf(t) /\ ReceiptOf(t)' = ReceiptOf(t)
    BY <1>7 DEF save_receipt, RowOf, ReceiptOf
  <2>3. /\ pc[s] = "receipt" /\ pc' = [pc EXCEPT ![s] = "audit"]
        /\ transactions \subseteq transactions'
        /\ receipts' = receipts \cup {ReceiptOf(s)} /\ audit' = audit
    BY <1>7 DEF save_receipt, commit, Goto, ReceiptOf
  <2>4. \A t \in Session :
          /\ pc'[t] = "commit" => RowOf(t)' \in open_rows'
          /\ pc'[t] \in {"receipt", "audit"} => RowOf(t)' \in transactions'
          /\ pc'[t] = "audit" => ReceiptOf(t)' \in receipts'
    BY <2>1, <2>2, <2>3 DEF TypeOK, EvidenceTrails
  <2>5. RowOf(s) \in transactions'
    BY <2>3 DEF EvidenceTrails
  <2>6. \A e \in receipts' : \E row \in transactions' :
          row.txn_id = e.txn_id /\ row.decision = e.decision /\ row.reason_code = e.reason
    <3>1. /\ RowOf(s).txn_id = ReceiptOf(s).txn_id
          /\ RowOf(s).decision = ReceiptOf(s).decision
          /\ RowOf(s).reason_code = ReceiptOf(s).reason
      BY DEF RowOf, Row, ReceiptOf
    <3>2. QED
      BY <2>3, <2>5, <3>1 DEF EvidenceTrails
  <2>7. QED
    BY <2>3, <2>4, <2>6 DEF EvidenceTrails
<1>8. ASSUME NEW s \in Session, append_event(s)
      PROVE  EvidenceTrails'
  <2> DEFINE entry == [txn_id |-> req[s].txn.txn_id, decision |-> result[s].decision,
                       reason |-> result[s].reason,
                       effective_decision |-> apply_risk(result[s], risk[s]).decision]
  <2>1. \A t \in Session : pc[t] # "commit"
    BY <1>8, WriterAlone DEF append_event
  <2>2. \A t \in Session \ {s} : RowOf(t)' = RowOf(t) /\ ReceiptOf(t)' = ReceiptOf(t)
    BY <1>8 DEF TypeOK, append_event, Leave, RowOf, ReceiptOf
  <2>3. /\ pc[s] = "audit" /\ pc' = [pc EXCEPT ![s] = "idle"]
        /\ transactions \subseteq transactions'
        /\ receipts' = receipts /\ audit' = Append(audit, entry)
    BY <1>8 DEF append_event, commit, Leave, Goto
  <2>4. \A t \in Session :
          /\ pc'[t] = "commit" => RowOf(t)' \in open_rows'
          /\ pc'[t] \in {"receipt", "audit"} => RowOf(t)' \in transactions'
          /\ pc'[t] = "audit" => ReceiptOf(t)' \in receipts'
    BY <2>1, <2>2, <2>3 DEF TypeOK, EvidenceTrails
  <2>5. [txn_id |-> entry.txn_id, decision |-> entry.decision, reason |-> entry.reason]
          \in receipts
    BY <2>3 DEF EvidenceTrails, ReceiptOf
  <2>6. /\ RowOf(s) \in transactions'
        /\ RowOf(s).txn_id = entry.txn_id
        /\ RowOf(s).status = "authorized" <=> entry.effective_decision = "ALLOW"
    BY <2>3, StatusIsEffective DEF EvidenceTrails, CallOK, RowOf, Row
  <2> HIDE DEF entry
  <2>7. \A i \in DOMAIN audit' :
          audit'[i] = entry \/ (i \in DOMAIN audit /\ audit'[i] = audit[i])
    BY <2>3 DEF TypeOK
  <2>8. \A i \in DOMAIN audit' :
          /\ [txn_id |-> audit'[i].txn_id, decision |-> audit'[i].decision,
              reason |-> audit'[i].reason] \in receipts'
          /\ \E row \in transactions' :
               /\ row.txn_id = audit'[i].txn_id
               /\ row.status = "authorized" <=> audit'[i].effective_decision = "ALLOW"
    BY <2>3, <2>5, <2>6, <2>7 DEF EvidenceTrails
  <2>9. QED
    BY <2>3, <2>4, <2>8 DEF EvidenceTrails
<1>9. CASE Crash
  BY <1>9 DEF EvidenceTrails, Crash, rollback
<1>10. ASSUME NEW a \in Agent, set_agent_frozen(a)
       PROVE  EvidenceTrails'
  BY <1>10, AdminAlone, EvidenceKept DEF set_agent_frozen, commit
<1>11. CASE UNCHANGED vars
  BY <1>11, EvidenceKept DEF vars
<1>12. QED
  BY <1>1, <1>2, <1>3, <1>4, <1>5, <1>6, <1>7, <1>8, <1>9, <1>10, <1>11 DEF Next, Step
-----------------------------------------------------------------------------
\* The theorems of the specification.

\* The empty database satisfies the invariant.
LEMMA InitIInv == Init => IInv
<1> SUFFICES ASSUME Init
             PROVE  IInv
  OBVIOUS
<1>1. TypeOK
  BY DEF Init, TypeOK, Blank
<1>2. CallOK /\ Exclusion /\ EvidenceTrails
  BY DEF Init, CallOK, Exclusion, EvidenceTrails
<1>3. LedgerCoherent
  BY DEF Init, LedgerCoherent, Recorded, Allowed
<1>4. QED
  BY <1>1, <1>2, <1>3 DEF IInv

\* service.py, every statement of authorize() in every interleaving: IInv holds
\* of every reachable state.
THEOREM InductiveInvariant == Spec => []IInv
<1>1. IInv /\ [Next]_vars => IInv'
  BY TypeStep, CallStep, ExclusionStep, LedgerStep, EvidenceStep DEF IInv
<1>2. QED
  BY InitIInv, <1>1, PTL DEF Spec

\* Every variable keeps its type (schema.sql and the locals of authorize()).
THEOREM TypeCorrect == Spec => []TypeOK
<1>1. IInv => TypeOK
  BY DEF IInv
<1>2. QED
  BY InductiveInvariant, <1>1, PTL

\* No attempt is recorded twice, and no nonce and no idempotency key is allowed
\* twice, with any number of callers, locked or not, and whatever fails.
THEOREM AllowedOnceHolds == Spec => []AllowedOnce
<1>1. IInv => AllowedOnce
  BY DEF IInv, LedgerCoherent, Recorded, AllowedOnce
<1>2. QED
  BY InductiveInvariant, <1>1, PTL

\* What is allowed was requested and is within its signed mandate.
THEOREM AllowedWithinMandateHolds == Spec => []AllowedWithinMandate
<1>1. IInv => AllowedWithinMandate
  BY DEF IInv, LedgerCoherent, Recorded, Allowed, AllowedWithinMandate
<1>2. QED
  BY InductiveInvariant, <1>1, PTL

\* Receipts and audit entries tell what the ledger tells.
THEOREM EvidenceAgreesHolds == Spec => []EvidenceAgrees
<1>1. IInv => EvidenceAgrees
  BY DEF IInv, EvidenceTrails, EvidenceAgrees
<1>2. QED
  BY InductiveInvariant, <1>1, PTL

\* A row is free to settle exactly when its audit entry says ALLOW.
THEOREM EnforcedNotLooserHolds == Spec => []EnforcedNotLooser
<1>1. IInv => EnforcedNotLooser
  <2>1. ASSUME IInv, NEW i \in DOMAIN audit, NEW row \in transactions,
               row.txn_id = audit[i].txn_id
        PROVE  row.status = "authorized" <=> audit[i].effective_decision = "ALLOW"
    <3>1. PICK own \in transactions :
            /\ own.txn_id = audit[i].txn_id
            /\ own.status = "authorized" <=> audit[i].effective_decision = "ALLOW"
      BY <2>1 DEF IInv, EvidenceTrails
    <3>2. own = row
      BY <2>1, <3>1 DEF IInv, LedgerCoherent, Recorded
    <3>3. QED
      BY <3>1, <3>2
  <2>2. QED
    BY <2>1 DEF EnforcedNotLooser
<1>2. QED
  BY InductiveInvariant, <1>1, PTL
-----------------------------------------------------------------------------
\* The ledger only grows, and refines SpendLedger.

\* What a step does to the committed tables.
LEMMA TablesStep ==
  ASSUME [Next]_vars
  PROVE  commit \/ UNCHANGED <<nonces, transactions>>
<1> USE DEF tables, txn_vars, locals, bounds
<1>1. ASSUME NEW s \in Session, Step(s)
      PROVE  commit \/ UNCHANGED <<nonces, transactions>>
  BY <1>1 DEF Step, save_mandate, ReuseMandate, is_agent_frozen, nonce_seen, idempotency_seen,
              Decide, reserve_nonce, RecordAllow, RecordBlocked, CommitRow, save_receipt,
              append_event, LockTimeout, InsertRow, Downgrade, rollback
<1>2. ASSUME NEW s \in Session,
             (\E r \in Request : Submit(s, r)) \/ Enter(s) \/ DatabaseError(s)
      PROVE  UNCHANGED <<nonces, transactions>>
  BY <1>2 DEF Submit, Enter, DatabaseError
<1>3. CASE Crash \/ \E a \in Agent : set_agent_frozen(a)
  BY <1>3 DEF Crash, set_agent_frozen, rollback
<1>4. CASE UNCHANGED vars
  BY <1>4 DEF vars
<1>5. QED
  BY <1>1, <1>2, <1>3, <1>4 DEF Next

\* What a step does to the evidence.
LEMMA EvidenceGrows ==
  ASSUME TypeOK, [Next]_vars
  PROVE  /\ receipts \subseteq receipts'
         /\ audit' = audit \/ \E e : audit' = Append(audit, e)
<1> USE DEF tables, txn_vars, locals, bounds
<1>1. ASSUME NEW s \in Session, save_receipt(s) \/ append_event(s)
      PROVE  /\ receipts \subseteq receipts'
             /\ audit' = audit \/ \E e : audit' = Append(audit, e)
  BY <1>1 DEF save_receipt, append_event
<1>2. ASSUME NEW s \in Session,
             \/ \E r \in Request : Submit(s, r)
             \/ Enter(s) \/ save_mandate(s) \/ ReuseMandate(s) \/ is_agent_frozen(s)
             \/ nonce_seen(s) \/ idempotency_seen(s) \/ Decide(s) \/ reserve_nonce(s)
             \/ RecordAllow(s) \/ RecordBlocked(s) \/ CommitRow(s)
             \/ LockTimeout(s) \/ DatabaseError(s)
      PROVE  UNCHANGED <<receipts, audit>>
  BY <1>2 DEF Submit, Enter, save_mandate, ReuseMandate, is_agent_frozen, nonce_seen,
              idempotency_seen, Decide, reserve_nonce, RecordAllow, RecordBlocked, CommitRow,
              LockTimeout, DatabaseError
<1>3. CASE Crash \/ (\E a \in Agent : set_agent_frozen(a)) \/ UNCHANGED vars
  BY <1>3 DEF Crash, set_agent_frozen, vars
<1>4. QED
  BY <1>1, <1>2, <1>3 DEF Next, Step

\* No attempt, receipt or audit entry is changed or lost, by any step.
THEOREM LedgerOnlyGrowsHolds == Spec => LedgerOnlyGrows
<1> DEFINE Grows == /\ transactions \subseteq transactions' /\ nonces \subseteq nonces'
                    /\ receipts \subseteq receipts'
                    /\ Len(audit) <= Len(audit')
                    /\ \A i \in DOMAIN audit : audit'[i] = audit[i]
<1>1. IInv /\ [Next]_vars => Grows
  <2> SUFFICES ASSUME IInv, [Next]_vars
               PROVE  Grows
    OBVIOUS
  <2>1. transactions \subseteq transactions' /\ nonces \subseteq nonces'
    BY TablesStep DEF commit
  <2>2. audit \in Seq(Entries)
    BY DEF IInv, TypeOK
  <2>3. receipts \subseteq receipts' /\ (audit' = audit \/ \E e : audit' = Append(audit, e))
    BY EvidenceGrows DEF IInv
  <2>4. Len(audit) <= Len(audit') /\ \A i \in DOMAIN audit : audit'[i] = audit[i]
    BY <2>2, <2>3
  <2>5. QED
    BY <2>1, <2>3, <2>4
<1>2. QED
  BY InductiveInvariant, <1>1, PTL DEF Spec, LedgerOnlyGrows

\* The service implements the abstract spend ledger: the allowed rows change
\* only by commits of purchases within their mandates, no two of which share a
\* transaction id, a nonce or an idempotency key.
THEOREM Refinement == Spec => ImplementsSpendLedger
<1> DEFINE Grants(rows) == {GrantOf(row) : row \in Allowed(rows)}
<1>1. Init => Ledger!Init
  BY DEF Init, Ledger!Init, Allowed
<1>2. IInv /\ [Next]_vars => [Ledger!Next]_(Grants(transactions))
  <2> SUFFICES ASSUME IInv, [Next]_vars
               PROVE  [Ledger!Next]_(Grants(transactions))
    OBVIOUS
  <2>1. CASE UNCHANGED transactions
    BY <2>1 DEF Allowed
  <2>2. CASE commit
    <3> DEFINE G == Grants(open_rows) \ Grants(transactions)
    <3>1. Grants(transactions') = Grants(transactions) \cup G
      BY <2>2 DEF commit, Allowed
    <3>2. \A g \in G : g \in {GrantOf(r.txn) : r \in Request} /\ GrantWithin(g)
      BY DEF IInv, LedgerCoherent, Recorded, Allowed, GrantWithin
    <3>3. Ledger!Coherent(Grants(transactions) \cup G)
      <4>1. \A g \in Grants(transactions) \cup G :
              \E row \in Recorded : row.decision = "ALLOW" /\ g = GrantOf(row)
        BY DEF Recorded, Allowed
      <4>2. ASSUME NEW g \in Grants(transactions) \cup G,
                   NEW h \in Grants(transactions) \cup G, g # h
            PROVE  /\ g.txn_id # h.txn_id
                   /\ g.nonce # h.nonce
                   /\ g.idempotency_key # h.idempotency_key
        <5>1. PICK q \in Recorded : q.decision = "ALLOW" /\ g = GrantOf(q)
          BY <4>1
        <5>2. PICK r \in Recorded : r.decision = "ALLOW" /\ h = GrantOf(r)
          BY <4>1
        <5>3. /\ q.txn_id # r.txn_id /\ q.nonce # r.nonce
              /\ q.idempotency_key # r.idempotency_key
          BY <4>2, <5>1, <5>2 DEF IInv, LedgerCoherent
        <5>4. QED
          BY <5>1, <5>2, <5>3 DEF GrantOf
      <4>3. QED
        BY <4>2 DEF Ledger!Coherent
    <3>4. Ledger!Commit(G)
      BY <3>1, <3>2, <3>3 DEF Ledger!Commit
    <3>5. G \in SUBSET ({GrantOf(r.txn) : r \in Request} \ Grants(transactions))
      BY <3>2
    <3>6. QED
      BY <3>4, <3>5 DEF Ledger!Next
  <2>3. QED
    BY <2>1, <2>2, TablesStep
<1>3. QED
  BY InductiveInvariant, <1>1, <1>2, PTL DEF Spec, ImplementsSpendLedger, Ledger!Spec
-----------------------------------------------------------------------------
\* The nonces until the first error.

\* What is open belongs to a call that is between its INSERT and its commit, and
\* what was committed to the nonces belongs to an allowed row.
OpenIsOwned ==
  /\ \A row \in open_rows : \E s \in Session : pc[s] = "commit" /\ RowOf(s) = row
  /\ \A n \in open_nonces :
       \/ \E row \in Allowed(open_rows) : row.nonce = n
       \/ \E s \in Session : pc[s] = "record" /\ req[s].txn.nonce = n
  /\ \A n \in nonces : \E row \in Allowed(transactions) : row.nonce = n

\* It is so until the first database error, which may leave a reserved nonce in
\* an open transaction for a later call to commit.
OwnedInv == faults \in Nat /\ (faults = 0 => OpenIsOwned)

\* Calls that are not between an INSERT and a commit change nothing of it.
LEMMA OwnedKept ==
  ASSUME OpenIsOwned, UNCHANGED <<nonces, transactions, open_nonces, open_rows>>,
         \A t \in Session : pc[t] \in {"record", "commit"} =>
           /\ pc'[t] = pc[t] /\ req'[t] = req[t]
           /\ result'[t] = result[t] /\ risk'[t] = risk[t]
  PROVE  OpenIsOwned'
<1>1. ASSUME NEW t \in Session, pc[t] = "commit"
      PROVE  pc'[t] = "commit" /\ RowOf(t)' = RowOf(t)
  BY <1>1 DEF RowOf
<1>2. \A row \in open_rows' : \E s \in Session : pc'[s] = "commit" /\ RowOf(s)' = row
  BY <1>1 DEF OpenIsOwned
<1>3. \A n \in open_nonces' :
        \/ \E row \in Allowed(open_rows') : row.nonce = n
        \/ \E s \in Session : pc'[s] = "record" /\ req'[s].txn.nonce = n
  BY DEF OpenIsOwned
<1>4. QED
  BY <1>2, <1>3 DEF OpenIsOwned

\* A commit while nobody is between two INSERTs closes with nothing left over.
LEMMA OwnedClosed ==
  ASSUME OpenIsOwned,
         rollback \/ (commit /\ \A t \in Session : pc[t] # "record")
  PROVE  OpenIsOwned'
<1>1. open_rows' = {} /\ open_nonces' = {}
  BY DEF commit, rollback, Discard
<1>2. \A n \in nonces' : \E row \in Allowed(transactions') : row.nonce = n
  BY DEF OpenIsOwned, commit, rollback, Allowed
<1>3. QED
  BY <1>1, <1>2 DEF OpenIsOwned

\* Nothing is open where no call is between its INSERT and its commit.
LEMMA NothingOpen ==
  ASSUME OpenIsOwned, \A t \in Session : pc[t] \notin {"record", "commit"}
  PROVE  open_rows = {} /\ open_nonces = {}
<1>1. open_rows = {}
  BY DEF OpenIsOwned
<1>2. QED
  BY <1>1 DEF OpenIsOwned, Allowed

\* What is uncommitted belongs to the call at work, until an error leaves it there.
LEMMA OwnedStep == IInv /\ OwnedInv /\ [Next]_vars => OwnedInv'
<1> SUFFICES ASSUME IInv, OwnedInv, [Next]_vars
             PROVE  OwnedInv'
  OBVIOUS
<1> USE DEF tables, txn_vars, locals, bounds
<1>0. TypeOK /\ CallOK /\ Exclusion
  BY DEF IInv
<1>1. ASSUME NEW s \in Session,
             \/ \E r \in Request : Submit(s, r)
             \/ Enter(s) \/ ReuseMandate(s) \/ Decide(s)
             \/ is_agent_frozen(s) \/ nonce_seen(s) \/ idempotency_seen(s)
             \/ LockTimeout(s)
      PROVE  OwnedInv'
  <2>1. UNCHANGED <<nonces, transactions, open_nonces, open_rows, faults>>
    BY <1>1 DEF Submit, Enter, ReuseMandate, Decide, is_agent_frozen, nonce_seen,
                idempotency_seen, LockTimeout
  <2>2. pc[s] \notin {"record", "commit"}
    BY <1>0, <1>1 DEF Submit, Enter, ReuseMandate, Decide, is_agent_frozen, nonce_seen,
                idempotency_seen, LockTimeout, Exclusion, CanWrite
  <2>3. \A t \in Session : t # s => /\ pc'[t] = pc[t] /\ req'[t] = req[t]
                                   /\ result'[t] = result[t] /\ risk'[t] = risk[t]
    BY <1>0, <1>1 DEF TypeOK, Submit, Enter, ReuseMandate, Decide, is_agent_frozen, nonce_seen,
                idempotency_seen, LockTimeout, Leave, Goto
  <2>4. QED
    BY <2>1, <2>2, <2>3, OwnedKept DEF OwnedInv
<1>2. ASSUME NEW s \in Session,
             save_mandate(s) \/ CommitRow(s) \/ save_receipt(s) \/ append_event(s)
      PROVE  OwnedInv'
  <2>1. /\ pc[s] \in {"called", "commit", "receipt", "audit"} /\ CanWrite(ConnOf[s]) /\ commit
        /\ faults' = faults
    BY <1>2 DEF save_mandate, CommitRow, save_receipt, append_event
  <2>2. \A t \in Session : pc[t] # "record"
    BY <1>0, <2>1, WriterAlone
  <2>3. QED
    BY <2>1, <2>2, OwnedClosed DEF OwnedInv
<1>3. ASSUME NEW s \in Session, reserve_nonce(s)
      PROVE  OwnedInv'
  <2>1. /\ pc[s] = "reserve" /\ CanWrite(ConnOf[s]) /\ req' = req /\ faults' = faults
        /\ \A t \in Session : pc[t] \notin {"record", "commit"}
    BY <1>0, <1>3, WriterAlone DEF reserve_nonce
  <2>2. CASE rollback
    BY <2>1, <2>2, OwnedClosed DEF OwnedInv
  <2>3. CASE /\ open_nonces' = open_nonces \cup {req[s].txn.nonce}
             /\ Goto(s, "record") /\ UNCHANGED <<nonces, transactions, open_rows>>
    <3>1. ASSUME faults = 0
          PROVE  OpenIsOwned'
      <4>1. open_rows' = {} /\ open_nonces' = {req[s].txn.nonce}
        BY <2>1, <2>3, <3>1, NothingOpen DEF OwnedInv
      <4>2. pc'[s] = "record"
        BY <1>0, <2>3 DEF TypeOK, Goto
      <4>3. \A n \in nonces' : \E row \in Allowed(transactions') : row.nonce = n
        BY <2>3, <3>1 DEF OwnedInv, OpenIsOwned
      <4>4. QED
        BY <2>1, <4>1, <4>2, <4>3 DEF OpenIsOwned
    <3>2. QED
      BY <2>1, <3>1 DEF OwnedInv
  <2>4. QED
    BY <1>3, <2>2, <2>3 DEF reserve_nonce, Downgrade
<1>4. ASSUME NEW s \in Session, RecordAllow(s)
      PROVE  OwnedInv'
  <2> DEFINE row == Row(req[s].txn, result[s], HoldStatus(result[s], risk[s]))
  <2>1. /\ pc[s] = "record" /\ CanWrite(ConnOf[s]) /\ faults' = faults
        /\ \A t \in Session \ {s} : pc[t] \notin {"record", "commit"}
    BY <1>0, <1>4, WriterAlone DEF RecordAllow
  <2>2. CASE rollback
    BY <2>1, <2>2, OwnedClosed DEF OwnedInv
  <2>3. CASE Goto(s, "commit") /\ InsertRow(ConnOf[s], row) /\ UNCHANGED locals
    <3>1. result[s] = Allow
      BY <1>0, <2>1 DEF CallOK
    <3>2. pc'[s] = "commit" /\ RowOf(s)' = row
      <4>1. RowOf(s)' = RowOf(s)
        BY <2>3 DEF RowOf
      <4>2. QED
        BY <1>0, <2>3, <3>1, <4>1, RowOfAllow DEF TypeOK, Goto
    <3>3. row.decision = "ALLOW" /\ row.nonce = req[s].txn.nonce
      BY <3>1 DEF Row, Allow
    <3> HIDE DEF row
    <3>4. ASSUME faults = 0
          PROVE  OpenIsOwned'
      <4>1. open_rows = {} /\ \A n \in open_nonces : n = row.nonce
        <5>1. OpenIsOwned
          BY <3>4 DEF OwnedInv
        <5>2. open_rows = {}
          BY <2>1, <5>1 DEF OpenIsOwned
        <5>3. QED
          BY <2>1, <3>3, <5>1, <5>2 DEF OpenIsOwned, Allowed
      <4>2. open_rows' = {row} /\ open_nonces' = open_nonces
        BY <2>3, <4>1 DEF InsertRow
      <4>3. \A n \in nonces' : \E other \in Allowed(transactions') : other.nonce = n
        BY <2>3, <3>4 DEF OwnedInv, OpenIsOwned, InsertRow
      <4>4. QED
        BY <3>2, <3>3, <4>1, <4>2, <4>3 DEF OpenIsOwned, Allowed
    <3>5. QED
      BY <2>1, <3>4 DEF OwnedInv
  <2>4. QED
    BY <1>4, <2>2, <2>3 DEF RecordAllow, Downgrade
<1>5. ASSUME NEW s \in Session, RecordBlocked(s)
      PROVE  OwnedInv'
  <2> DEFINE row == Row(req[s].txn, result[s], "blocked")
  <2>1. /\ pc[s] = "block" /\ CanWrite(ConnOf[s]) /\ faults' = faults
        /\ \A t \in Session : pc[t] \notin {"record", "commit"}
    BY <1>0, <1>5, WriterAlone DEF RecordBlocked
  <2>2. CASE UNCHANGED <<nonces, transactions, open_nonces, open_rows>>
    BY <2>1, <2>2, OwnedKept DEF OwnedInv
  <2>3. CASE Goto(s, "commit") /\ InsertRow(ConnOf[s], row) /\ UNCHANGED locals
    <3>1. result[s].decision = "BLOCK"
      BY <1>0, <2>1 DEF CallOK
    <3>2. pc'[s] = "commit" /\ RowOf(s)' = row
      <4>1. RowOf(s)' = RowOf(s)
        BY <2>3 DEF RowOf
      <4>2. QED
        BY <1>0, <2>3, <3>1, <4>1, RowOfBlock DEF TypeOK, Goto
    <3> HIDE DEF row
    <3>3. ASSUME faults = 0
          PROVE  OpenIsOwned'
      <4>1. open_rows' = {row} /\ open_nonces' = {}
        BY <2>1, <2>3, <3>3, NothingOpen DEF OwnedInv, InsertRow
      <4>2. \A n \in nonces' : \E other \in Allowed(transactions') : other.nonce = n
        BY <2>3, <3>3 DEF OwnedInv, OpenIsOwned, InsertRow
      <4>3. QED
        BY <3>2, <4>1, <4>2 DEF OpenIsOwned
    <3>4. QED
      BY <2>1, <3>3 DEF OwnedInv
  <2>4. QED
    BY <1>5, <2>2, <2>3 DEF RecordBlocked
<1>6. ASSUME NEW s \in Session, DatabaseError(s)
      PROVE  OwnedInv'
  BY <1>6 DEF OwnedInv, DatabaseError
<1>7. CASE Crash
  BY <1>7, OwnedClosed DEF OwnedInv, Crash
<1>8. ASSUME NEW a \in Agent, set_agent_frozen(a)
      PROVE  OwnedInv'
  BY <1>0, <1>8, AdminAlone, OwnedClosed DEF OwnedInv, set_agent_frozen
<1>9. CASE UNCHANGED vars
  BY <1>9, OwnedKept DEF OwnedInv, vars
<1>10. QED
  BY <1>1, <1>2, <1>3, <1>4, <1>5, <1>6, <1>7, <1>8, <1>9 DEF Next, Step

\* Until the first database error every nonce in the table has its allowed row.
LEMMA OwnedHolds == Spec => []OwnedInv
<1>1. Init => OwnedInv
  BY DEF Init, OwnedInv, OpenIsOwned
<1>2. QED
  BY InductiveInvariant, <1>1, OwnedStep, PTL DEF Spec

\* Until the first database error every nonce in the table belongs to a purchase
\* that was allowed: an attempt that the database overturns takes its own back.
THEOREM NoncesSpentByAllowsHolds == Spec => [](faults = 0 => NoncesSpentByAllows)
<1>1. IInv /\ OwnedInv => (faults = 0 => NoncesSpentByAllows)
  <2> SUFFICES ASSUME IInv, OwnedInv, faults = 0
               PROVE  NoncesSpentByAllows
    OBVIOUS
  <2>1. \A n \in nonces : \E row \in Allowed(transactions) : row.nonce = n
    BY DEF OwnedInv, OpenIsOwned
  <2>2. \A row \in Allowed(transactions) : row.nonce \in nonces
    BY DEF IInv, LedgerCoherent
  <2>3. QED
    BY <2>1, <2>2 DEF NoncesSpentByAllows
<1>2. QED
  BY InductiveInvariant, OwnedHolds, <1>1, PTL
-----------------------------------------------------------------------------
\* The audit log under the API's lock.

\* Under the API's lock there is one call past it.
LEMMA OneCall ==
  ASSUME Serialized, Exclusion, NEW s \in Session, NEW t \in Session,
         pc[s] \notin {"idle", "waiting"}, pc[t] \notin {"idle", "waiting"}
  PROVE  s = t
  BY DEF Exclusion

\* Between its commit and its return no other connection has the write lock, and
\* until an error or a crash an allowed row whose entry is missing is the row of
\* a call that is about to append it.
EntryFollows ==
  /\ crashes \in Nat
  /\ \A s \in Session : pc[s] \in {"receipt", "audit"} => writer = None
  /\ faults = 0 /\ crashes = 0 =>
       \A row \in Allowed(transactions) :
         \/ \E i \in DOMAIN audit : audit[i].txn_id = row.txn_id
         \/ \E s \in Session : pc[s] \in {"receipt", "audit"} /\ req[s].txn.txn_id = row.txn_id

\* The second part where no row is added and nobody turns back.
LEMMA EntryKept ==
  ASSUME EntryFollows, UNCHANGED <<transactions, audit, faults, crashes>>,
         \A t \in Session : pc'[t] \in {"receipt", "audit"} => writer' = None,
         \A t \in Session : pc[t] \in {"receipt", "audit"} =>
           pc'[t] \in {"receipt", "audit"} /\ req'[t] = req[t]
  PROVE  EntryFollows'
  BY DEF EntryFollows, Allowed

\* With the lock, a call that has committed its row goes on to its audit entry.
LEMMA EntryStep ==
  Serialized /\ IInv /\ OwnedInv /\ EntryFollows /\ [Next]_vars => EntryFollows'
<1> SUFFICES ASSUME Serialized, IInv, OwnedInv, EntryFollows, [Next]_vars
             PROVE  EntryFollows'
  OBVIOUS
<1> USE DEF tables, txn_vars, locals, bounds
<1>0. TypeOK /\ CallOK /\ Exclusion
  BY DEF IInv
<1>1. ASSUME NEW s \in Session,
             \/ \E r \in Request : Submit(s, r)
             \/ Enter(s) \/ ReuseMandate(s) \/ Decide(s)
             \/ is_agent_frozen(s) \/ nonce_seen(s) \/ idempotency_seen(s)
             \/ LockTimeout(s)
      PROVE  EntryFollows'
  <2>1. UNCHANGED <<transactions, audit, writer, faults, crashes>>
    BY <1>1 DEF Submit, Enter, ReuseMandate, Decide, is_agent_frozen, nonce_seen,
                idempotency_seen, LockTimeout
  <2>2. pc[s] \notin {"receipt", "audit"}
    BY <1>1 DEF Submit, Enter, ReuseMandate, Decide, is_agent_frozen, nonce_seen,
                idempotency_seen, LockTimeout, EntryFollows, CanWrite
  <2>3. \E label \in {"waiting", "called", "read_frozen", "read_nonce", "read_key", "decide",
                      "reserve", "block", "idle"} : Goto(s, label)
    BY <1>1 DEF Submit, Enter, ReuseMandate, Decide, is_agent_frozen, nonce_seen,
                idempotency_seen, LockTimeout, Leave
  <2>4. \A t \in Session : t # s => pc'[t] = pc[t] /\ req'[t] = req[t]
    BY <1>0, <1>1 DEF TypeOK, Submit, Enter, ReuseMandate, Decide, is_agent_frozen, nonce_seen,
                idempotency_seen, LockTimeout, Leave, Goto
  <2>5. pc'[s] \notin {"receipt", "audit"}
    BY <1>0, <2>3 DEF TypeOK, Goto
  <2>6. QED
    BY <2>1, <2>2, <2>4, <2>5, EntryKept DEF EntryFollows
<1>2. ASSUME NEW s \in Session, save_mandate(s) \/ save_receipt(s)
      PROVE  EntryFollows'
  <2>1. /\ pc[s] \in {"called", "receipt"} /\ CanWrite(ConnOf[s]) /\ commit
        /\ UNCHANGED <<audit, req, faults, crashes>>
        /\ \E label \in {"read_frozen", "audit"} : pc' = [pc EXCEPT ![s] = label]
        /\ pc[s] = "receipt" => pc' = [pc EXCEPT ![s] = "audit"]
    BY <1>2 DEF save_mandate, save_receipt, Goto
  <2>2. \A t \in Session : pc[t] # "commit"
    BY <1>0, <2>1, WriterAlone
  <2>3. ASSUME faults = 0
        PROVE  transactions' = transactions
    <3>1. open_rows = {}
      BY <2>2, <2>3 DEF OwnedInv, OpenIsOwned
    <3>2. QED
      BY <2>1, <3>1 DEF commit
  <2>4. writer' = None
    BY <2>1 DEF commit, Discard
  <2>5. CASE faults = 0
    BY <1>0, <2>1, <2>3, <2>4, <2>5, EntryKept DEF TypeOK
  <2>6. CASE faults # 0
    BY <2>1, <2>4, <2>6 DEF EntryFollows
  <2>7. QED
    BY <2>5, <2>6
<1>3. ASSUME NEW s \in Session, CommitRow(s)
      PROVE  EntryFollows'
  <2>1. /\ pc[s] = "commit" /\ commit /\ UNCHANGED <<audit, req, faults, crashes>>
        /\ pc' = [pc EXCEPT ![s] = "receipt"]
        /\ \A t \in Session \ {s} : pc[t] # "commit"
    BY <1>0, <1>3, WriterAlone DEF CommitRow, Goto
  <2>2. ASSUME faults = 0, crashes = 0, NEW row \in Allowed(transactions')
        PROVE  \/ \E i \in DOMAIN audit' : audit'[i].txn_id = row.txn_id
               \/ \E t \in Session : /\ pc'[t] \in {"receipt", "audit"}
                                     /\ req'[t].txn.txn_id = row.txn_id
    <3>1. CASE row \in transactions
      <4>1. row \in Allowed(transactions)
        BY <2>2, <3>1 DEF Allowed
      <4>2. CASE \E i \in DOMAIN audit : audit[i].txn_id = row.txn_id
        BY <2>1, <4>2
      <4>3. CASE \E t \in Session : /\ pc[t] \in {"receipt", "audit"}
                                    /\ req[t].txn.txn_id = row.txn_id
        BY <1>0, <2>1, <4>3 DEF TypeOK
      <4>4. QED
        BY <2>2, <4>1, <4>2, <4>3 DEF EntryFollows
    <3>2. CASE row \in open_rows
      <4>1. RowOf(s) = row
        BY <2>1, <2>2, <3>2 DEF OwnedInv, OpenIsOwned
      <4>2. row.txn_id = req[s].txn.txn_id
        BY <4>1 DEF RowOf, Row
      <4>3. QED
        BY <1>0, <2>1, <4>2 DEF TypeOK
    <3>3. QED
      BY <2>1, <2>2, <3>1, <3>2 DEF commit, Allowed
  <2>3. writer' = None
    BY <2>1 DEF commit, Discard
  <2>4. QED
    BY <2>1, <2>2, <2>3 DEF EntryFollows
<1>4. ASSUME NEW s \in Session, append_event(s)
      PROVE  EntryFollows'
  <2> DEFINE entry == [txn_id |-> req[s].txn.txn_id, decision |-> result[s].decision,
                       reason |-> result[s].reason,
                       effective_decision |-> apply_risk(result[s], risk[s]).decision]
  <2>1. /\ pc[s] = "audit" /\ CanWrite(ConnOf[s]) /\ commit /\ UNCHANGED <<faults, crashes>>
        /\ \A t \in Session \ {s} : pc'[t] = pc[t] /\ req'[t] = req[t]
        /\ audit' = Append(audit, entry)
    BY <1>0, <1>4 DEF TypeOK, append_event, Leave, Goto
  <2>2. entry.txn_id = req[s].txn.txn_id
    OBVIOUS
  <2> HIDE DEF entry
  <2>3. \A t \in Session : pc[t] # "commit"
    BY <1>0, <2>1, WriterAlone
  <2>4. /\ \A i \in DOMAIN audit : i \in DOMAIN audit' /\ audit'[i] = audit[i]
        /\ \E i \in DOMAIN audit' : audit'[i] = entry
    <3>1. audit \in Seq(Entries)
      BY <1>0 DEF TypeOK
    <3>2. audit'[Len(audit) + 1] = entry /\ Len(audit) + 1 \in DOMAIN audit'
      BY <2>1, <3>1
    <3>3. QED
      BY <2>1, <3>1, <3>2
  <2>5. ASSUME faults = 0, crashes = 0, NEW row \in Allowed(transactions')
        PROVE  \/ \E i \in DOMAIN audit' : audit'[i].txn_id = row.txn_id
               \/ \E t \in Session : /\ pc'[t] \in {"receipt", "audit"}
                                     /\ req'[t].txn.txn_id = row.txn_id
    <3>1. open_rows = {}
      BY <2>3, <2>5 DEF OwnedInv, OpenIsOwned
    <3>2. row \in Allowed(transactions)
      BY <2>1, <2>5, <3>1 DEF commit, Allowed
    <3>3. CASE \E i \in DOMAIN audit : audit[i].txn_id = row.txn_id
      BY <2>4, <3>3
    <3>4. CASE \E t \in Session : /\ pc[t] \in {"receipt", "audit"}
                                  /\ req[t].txn.txn_id = row.txn_id
      <4>1. PICK t \in Session : pc[t] \in {"receipt", "audit"} /\ req[t].txn.txn_id = row.txn_id
        BY <3>4
      <4>2. t = s
        BY <1>0, <2>1, <4>1, OneCall
      <4>3. QED
        BY <2>2, <2>4, <4>1, <4>2
    <3>5. QED
      BY <2>5, <3>2, <3>3, <3>4 DEF EntryFollows
  <2>6. writer' = None
    BY <2>1 DEF commit, Discard
  <2>7. QED
    BY <2>1, <2>5, <2>6 DEF EntryFollows
<1>5. ASSUME NEW s \in Session, reserve_nonce(s) \/ RecordAllow(s) \/ RecordBlocked(s)
      PROVE  EntryFollows'
  <2>1. /\ pc[s] \in {"reserve", "record", "block"}
        /\ UNCHANGED <<transactions, audit, faults, crashes>>
        /\ \E label \in {"record", "commit", "block", "idle"} : Goto(s, label)
        /\ \A t \in Session \ {s} : req'[t] = req[t]
    BY <1>0, <1>5 DEF TypeOK, reserve_nonce, RecordAllow, RecordBlocked, InsertRow, Downgrade,
                      rollback, Leave
  <2>2. \A t \in Session : pc[t] \notin {"receipt", "audit"} /\ pc'[t] \notin {"receipt", "audit"}
    BY <1>0, <2>1, OneCall DEF TypeOK, Goto
  <2>3. QED
    BY <2>1, <2>2, EntryKept
<1>6. ASSUME NEW s \in Session, DatabaseError(s)
      PROVE  EntryFollows'
  <2>1. faults' = faults + 1 /\ UNCHANGED <<crashes, writer>>
    BY <1>6 DEF DatabaseError
  <2>2. \A t \in Session : pc'[t] \in {"receipt", "audit"} => pc[t] = pc'[t]
    BY <1>0, <1>6 DEF TypeOK, DatabaseError, Leave, Goto
  <2>3. QED
    BY <2>1, <2>2 DEF EntryFollows, OwnedInv
<1>7. CASE Crash
  BY <1>7 DEF EntryFollows, Crash
<1>8. ASSUME NEW a \in Agent, set_agent_frozen(a)
      PROVE  EntryFollows'
  <2>1. commit /\ UNCHANGED <<audit, pc, req, faults, crashes>>
    BY <1>8 DEF set_agent_frozen
  <2>2. \A t \in Session : pc[t] # "commit"
    BY <1>0, <1>8, AdminAlone DEF set_agent_frozen
  <2>3. writer' = None
    BY <2>1 DEF commit, Discard
  <2>4. CASE faults = 0
    <3>1. transactions' = transactions
      BY <2>1, <2>2, <2>4 DEF OwnedInv, OpenIsOwned, commit
    <3>2. QED
      BY <2>1, <2>3, <3>1, EntryKept
  <2>5. CASE faults # 0
    BY <2>1, <2>3, <2>5 DEF EntryFollows
  <2>6. QED
    BY <2>4, <2>5
<1>9. CASE UNCHANGED vars
  BY <1>9, EntryKept DEF EntryFollows, vars
<1>10. QED
  BY <1>1, <1>2, <1>3, <1>4, <1>5, <1>6, <1>7, <1>8, <1>9 DEF Next, Step

\* Under the API's lock and until the first error or crash, every authorization
\* can be read off the audit log whenever no call is under way.
THEOREM AuthorizationsAuditedHolds ==
  ASSUME Serialized
  PROVE  Spec => [](faults = 0 /\ crashes = 0 => AuthorizationsAudited)
<1>1. Init => EntryFollows
  BY DEF Init, EntryFollows, Allowed
<1>2. IInv /\ OwnedInv /\ EntryFollows /\ [Next]_vars => EntryFollows'
  BY Serialized, EntryStep
<1>3. EntryFollows => (faults = 0 /\ crashes = 0 => AuthorizationsAudited)
  BY DEF EntryFollows, AuthorizationsAudited
<1>4. QED
  BY InductiveInvariant, OwnedHolds, <1>1, <1>2, <1>3, PTL DEF Spec
-----------------------------------------------------------------------------
\* Frozen agents under the API's lock.

\* Under the lock the flag that a call has read still stands, and a call that the
\* gate has let through is an agent's that is not frozen.
FlagStands ==
  \A s \in Session :
    /\ pc[s] \in {"read_nonce", "read_key", "decide"} =>
         (live[s].agent_frozen <=> req[s].txn.agent_id \in frozen)
    /\ pc[s] \in {"reserve", "record"} => req[s].txn.agent_id \notin frozen

\* With the lock, nobody freezes an agent while its purchase is decided.
LEMMA FlagStep ==
  Serialized /\ IInv /\ FlagStands /\ [Next]_vars => FlagStands'
<1> SUFFICES ASSUME Serialized, IInv, FlagStands, [Next]_vars
             PROVE  FlagStands'
  OBVIOUS
<1> USE DEF tables, txn_vars, locals, bounds
<1>0. TypeOK /\ Exclusion
  BY DEF IInv
<1>1. ASSUME NEW s \in Session, is_agent_frozen(s)
      PROVE  FlagStands'
  <2>1. /\ UNCHANGED <<frozen, req>>
        /\ \A t \in Session \ {s} : pc'[t] = pc[t] /\ live'[t] = live[t]
        /\ pc'[s] = "read_nonce"
        /\ live'[s].agent_frozen <=> req[s].txn.agent_id \in frozen
    BY <1>0, <1>1 DEF TypeOK, is_agent_frozen, Goto
  <2>2. QED
    BY <2>1 DEF FlagStands
<1>2. ASSUME NEW s \in Session, nonce_seen(s) \/ idempotency_seen(s)
      PROVE  FlagStands'
  <2>1. /\ UNCHANGED <<frozen, req>>
        /\ pc[s] \in {"read_nonce", "read_key"} /\ pc'[s] \in {"read_key", "decide"}
        /\ \A t \in Session \ {s} : pc'[t] = pc[t] /\ live'[t] = live[t]
        /\ live'[s].agent_frozen = live[s].agent_frozen
    BY <1>0, <1>2 DEF TypeOK, nonce_seen, idempotency_seen, Goto
  <2>2. QED
    BY <2>1 DEF FlagStands
<1>3. ASSUME NEW s \in Session, Decide(s)
      PROVE  FlagStands'
  <2>1. PICK at \in Clock, action \in Advice :
          LET verdict == authorize(req[s].txn, req[s].offer, live[s], TrustedIssuers, at)
          IN /\ pc[s] = "decide"
             /\ Goto(s, IF verdict.decision = "ALLOW" THEN "reserve" ELSE "block")
             /\ UNCHANGED <<frozen, req, live>>
    BY <1>3 DEF Decide
  <2> DEFINE verdict == authorize(req[s].txn, req[s].offer, live[s], TrustedIssuers, at)
  <2>2. ASSUME verdict.decision = "ALLOW"
        PROVE  req[s].txn.agent_id \notin frozen
    <3>1. 4 \in DOMAIN Checklist /\ Checklist[4].check = "agent_not_frozen"
      BY DEF Checklist
    <3>2. Outcome(req[s].txn, req[s].offer, live[s], TrustedIssuers, at).agent_not_frozen
      BY <2>2, <3>1, AllowMeansNoFailure DEF Failing
    <3>3. ~live[s].agent_frozen
      BY <3>2 DEF Outcome
    <3>4. QED
      BY <2>1, <3>3 DEF FlagStands
  <2>3. /\ pc[s] = "decide" /\ UNCHANGED <<frozen, req, live>>
        /\ pc' = [pc EXCEPT ![s] = IF verdict.decision = "ALLOW" THEN "reserve" ELSE "block"]
    BY <2>1 DEF Goto
  <2> HIDE DEF verdict
  <2>4. QED
    BY <1>0, <2>2, <2>3 DEF TypeOK, FlagStands
<1>4. ASSUME NEW s \in Session,
             \/ \E r \in Request : Submit(s, r)
             \/ Enter(s) \/ save_mandate(s) \/ ReuseMandate(s) \/ reserve_nonce(s)
             \/ RecordAllow(s) \/ RecordBlocked(s) \/ CommitRow(s) \/ save_receipt(s)
             \/ append_event(s) \/ LockTimeout(s) \/ DatabaseError(s)
      PROVE  FlagStands'
  <2>1. /\ frozen' = frozen
        /\ \/ pc[s] = "reserve" /\ req' = req /\ Goto(s, "record")
           \/ \E label \in {"waiting", "called", "read_frozen", "block", "commit", "receipt",
                            "audit", "idle"} : Goto(s, label)
    BY <1>4 DEF Submit, Enter, save_mandate, ReuseMandate, reserve_nonce, RecordAllow,
                RecordBlocked, CommitRow, save_receipt, append_event, LockTimeout,
                DatabaseError, Leave, Downgrade
  <2>2. \A t \in Session \ {s} : pc'[t] = pc[t] /\ live'[t] = live[t] /\ req'[t] = req[t]
    BY <1>0, <1>4 DEF TypeOK, Submit, Enter, save_mandate, ReuseMandate, reserve_nonce,
                RecordAllow, RecordBlocked, CommitRow, save_receipt, append_event, LockTimeout,
                DatabaseError, Leave, Downgrade, Goto
  <2>3. CASE pc[s] = "reserve" /\ req' = req /\ Goto(s, "record")
    BY <1>0, <2>1, <2>2, <2>3 DEF TypeOK, FlagStands, Goto
  <2>4. CASE \E label \in {"waiting", "called", "read_frozen", "block", "commit", "receipt",
                           "audit", "idle"} : Goto(s, label)
    BY <1>0, <2>1, <2>2, <2>4 DEF TypeOK, FlagStands, Goto
  <2>5. QED
    BY <2>1, <2>3, <2>4
<1>5. CASE Crash
  BY <1>5 DEF FlagStands, Crash
<1>6. ASSUME NEW a \in Agent, set_agent_frozen(a)
      PROVE  FlagStands'
  <2>1. \A t \in Session : pc[t] \in {"idle", "waiting"}
    BY <1>0, <1>6, SessionAssumption DEF Exclusion, set_agent_frozen
  <2>2. QED
    BY <1>6, <2>1 DEF FlagStands, set_agent_frozen
<1>7. CASE UNCHANGED vars
  BY <1>7 DEF FlagStands, vars
<1>8. QED
  BY <1>1, <1>2, <1>3, <1>4, <1>5, <1>6, <1>7 DEF Next, Step

\* What a step adds to the rows is the row of a call the gate let through, or a
\* blocked one.
LEMMA RowsAdded ==
  ASSUME IInv, [Next]_vars, NEW row \in Recorded' \ Recorded
  PROVE  \/ row.decision = "BLOCK"
         \/ \E s \in Session : pc[s] = "record" /\ row.agent_id = req[s].txn.agent_id
<1> USE DEF tables, txn_vars, locals, bounds
<1>1. ASSUME NEW s \in Session, RecordAllow(s)
      PROVE  pc[s] = "record" /\ row.agent_id = req[s].txn.agent_id
  <2> DEFINE new == Row(req[s].txn, result[s], HoldStatus(result[s], risk[s]))
  <2>1. InsertRow(ConnOf[s], new)
    BY <1>1 DEF RecordAllow, Downgrade, rollback, Discard, Recorded
  <2>2. row = new
    BY <2>1 DEF InsertRow, Recorded
  <2>3. QED
    BY <1>1, <2>2 DEF RecordAllow, Row
<1>2. ASSUME NEW s \in Session, RecordBlocked(s)
      PROVE  row.decision = "BLOCK"
  <2> DEFINE new == Row(req[s].txn, result[s], "blocked")
  <2>1. InsertRow(ConnOf[s], new)
    BY <1>2 DEF RecordBlocked, Recorded
  <2>2. row = new
    BY <2>1 DEF InsertRow, Recorded
  <2>3. result[s].decision = "BLOCK"
    BY <1>2 DEF IInv, CallOK, RecordBlocked
  <2>4. QED
    BY <2>2, <2>3 DEF Row
<1>3. ASSUME NEW s \in Session,
             \/ \E r \in Request : Submit(s, r)
             \/ Enter(s) \/ save_mandate(s) \/ ReuseMandate(s) \/ Decide(s)
             \/ is_agent_frozen(s) \/ nonce_seen(s) \/ idempotency_seen(s)
             \/ reserve_nonce(s) \/ CommitRow(s) \/ save_receipt(s)
             \/ append_event(s) \/ LockTimeout(s) \/ DatabaseError(s)
      PROVE  FALSE
  <2>1. commit \/ rollback \/ UNCHANGED <<transactions, open_rows>>
    BY <1>3 DEF Submit, Enter, save_mandate, ReuseMandate, Decide, is_agent_frozen, nonce_seen,
                idempotency_seen, reserve_nonce, CommitRow, save_receipt, append_event,
                LockTimeout, DatabaseError, Downgrade
  <2>2. QED
    BY <2>1 DEF commit, rollback, Discard, Recorded
<1>4. CASE Crash \/ (\E a \in Agent : set_agent_frozen(a)) \/ UNCHANGED vars
  BY <1>4 DEF Crash, set_agent_frozen, vars, commit, rollback, Discard, Recorded
<1>5. QED
  BY <1>1, <1>2, <1>3, <1>4 DEF Next, Step

\* Under the API's lock a purchase of a frozen agent is never recorded as allowed,
\* whatever fails: the freeze and the whole of authorize() exclude each other.
THEOREM FrozenAgentsGetNothingHolds ==
  ASSUME Serialized
  PROVE  Spec => FrozenAgentsGetNothing
<1>1. Init => FlagStands
  BY DEF Init, FlagStands
<1>2. IInv /\ FlagStands /\ [Next]_vars => FlagStands'
  BY Serialized, FlagStep
<1>3. IInv /\ FlagStands /\ [Next]_vars
        => \A row \in Allowed(Recorded' \ Recorded) : row.agent_id \notin frozen
  BY RowsAdded DEF FlagStands, Allowed
<1>4. QED
  BY InductiveInvariant, <1>1, <1>2, <1>3, PTL DEF Spec, FrozenAgentsGetNothing
-----------------------------------------------------------------------------
\* Where each caller makes a transaction of its own, no attempt finds itself on
\* the ledger, and only a call between its INSERT and its commit has the write
\* lock.
OwnTransactions ==
  /\ submitted \subseteq Request
  /\ \A s \in Session : pc[s] # "idle" => req[s] \in submitted
  /\ \A s, t \in Session : s # t /\ pc[s] # "idle" /\ pc[t] # "idle" => req[s] # req[t]
  /\ \A row \in Recorded : \E r \in submitted : row.txn_id = r.txn.txn_id
  /\ \A s \in Session : pc[s] \notin {"idle", "commit", "receipt", "audit"} =>
       \A row \in Recorded : row.txn_id # req[s].txn.txn_id
  /\ writer # None => \E s \in Session : pc[s] \in {"record", "commit"}

TransactionsInv == faults \in Nat /\ (faults = 0 => OwnTransactions)

\* Steps that add no row and no request, after which a call has its own request
\* or none and, before its INSERT, has not been past it.
LEMMA TransactionsKept ==
  ASSUME OwnTransactions, submitted' = submitted, Recorded' \subseteq Recorded,
         \A s \in Session : pc'[s] # "idle" => pc[s] # "idle" /\ req'[s] = req[s],
         \A s \in Session : pc'[s] \notin {"idle", "commit", "receipt", "audit"} =>
           pc[s] \notin {"idle", "commit", "receipt", "audit"},
         writer' # None => \E s \in Session : pc'[s] \in {"record", "commit"}
  PROVE  OwnTransactions'
<1>1. \A s, t \in Session : s # t /\ pc'[s] # "idle" /\ pc'[t] # "idle" => req'[s] # req'[t]
  BY DEF OwnTransactions
<1>2. \A row \in Recorded' : \E r \in submitted' : row.txn_id = r.txn.txn_id
  BY DEF OwnTransactions
<1>3. \A s \in Session : pc'[s] \notin {"idle", "commit", "receipt", "audit"} =>
        \A row \in Recorded' : row.txn_id # req'[s].txn.txn_id
  BY DEF OwnTransactions
<1>4. QED
  BY <1>1, <1>2, <1>3 DEF OwnTransactions

\* The row of a call is inserted.
LEMMA TransactionsInsert ==
  ASSUME TypeOK, OwnTransactions, NEW s \in Session, Goto(s, "commit"),
         pc[s] \notin {"idle", "commit", "receipt", "audit"},
         NEW row, row.txn_id = req[s].txn.txn_id, InsertRow(ConnOf[s], row),
         UNCHANGED <<req, submitted>>
  PROVE  OwnTransactions'
<1>1. Recorded' = Recorded \cup {row}
  BY DEF InsertRow, Recorded
<1>2. \A t \in Session \ {s} : pc'[t] = pc[t]
  BY DEF TypeOK, Goto
<1>3. pc'[s] = "commit"
  BY DEF TypeOK, Goto
<1>4. req[s] \in submitted
  BY DEF OwnTransactions
<1>5. \A t \in Session \ {s} : pc[t] # "idle" => req[t].txn.txn_id # req[s].txn.txn_id
  BY <1>4, RequestAssumption DEF OwnTransactions
<1>6. \A other \in Recorded' : \E r \in submitted' : other.txn_id = r.txn.txn_id
  BY <1>1, <1>4 DEF OwnTransactions
<1>7. \A t \in Session : pc'[t] \notin {"idle", "commit", "receipt", "audit"} =>
        \A other \in Recorded' : other.txn_id # req'[t].txn.txn_id
  BY <1>1, <1>2, <1>3, <1>5 DEF OwnTransactions
<1>8. QED
  BY <1>2, <1>3, <1>4, <1>6, <1>7 DEF OwnTransactions

\* Nobody keeps a call under the lock from writing, and its row is not there yet.
LEMMA CanWriteUnderLock ==
  ASSUME Serialized, TypeOK, Exclusion, OwnTransactions,
         NEW s \in Session, pc[s] \notin {"idle", "waiting"}
  PROVE  CanWrite(ConnOf[s])
<1>1. CASE writer = None
  BY <1>1 DEF CanWrite
<1>2. CASE writer # None
  <2>1. PICK t \in Session : pc[t] \in {"record", "commit"}
    BY <1>2 DEF OwnTransactions
  <2>2. t = s
    BY <2>1, OneCall
  <2>3. QED
    BY <2>1, <2>2 DEF Exclusion, CanWrite
<1>3. QED
  BY <1>1, <1>2

\* A refused attempt that nobody repeats finds no row in its way.
LEMMA NoClashInBlock ==
  ASSUME OwnTransactions, NEW s \in Session, pc[s] = "block", NEW res, res.decision = "BLOCK"
  PROVE  ~Clashes(ConnOf[s], Row(req[s].txn, res, "blocked"))
<1> DEFINE row == Row(req[s].txn, res, "blocked")
<1>1. row.txn_id = req[s].txn.txn_id /\ row.decision = "BLOCK"
  BY DEF Row
<1> HIDE DEF row
<1>2. RowsSeenBy(ConnOf[s]) \subseteq Recorded
  BY DEF RowsSeenBy, Recorded
<1>3. ~Clashes(ConnOf[s], row)
  BY <1>1, <1>2 DEF Clashes, OwnTransactions
<1>4. QED
  BY <1>3 DEF row

\* With the lock and no repeated attempt, no call meets the rows of another one.
LEMMA TransactionsStep ==
  ~Resubmit /\ Serialized /\ IInv /\ TransactionsInv /\ [Next]_vars => TransactionsInv'
<1> SUFFICES ASSUME ~Resubmit, Serialized, IInv, TransactionsInv, [Next]_vars
             PROVE  TransactionsInv'
  OBVIOUS
<1> USE DEF tables, txn_vars, locals, bounds
<1>0. TypeOK /\ CallOK /\ Exclusion
  BY DEF IInv
<1>1. ASSUME NEW s \in Session, DatabaseError(s)
      PROVE  TransactionsInv'
  BY <1>1 DEF TransactionsInv, DatabaseError
<1> SUFFICES ASSUME faults' = faults, OwnTransactions
             PROVE  OwnTransactions'
  <2>1. CASE faults' = faults
    BY <2>1 DEF TransactionsInv
  <2>2. CASE \E s \in Session : DatabaseError(s)
    BY <1>1, <2>2
  <2>3. QED
    BY <2>1, <2>2
       DEF Next, Step, vars, Submit, Enter, save_mandate, ReuseMandate, is_agent_frozen,
           nonce_seen, idempotency_seen, Decide, reserve_nonce, RecordAllow, RecordBlocked,
           CommitRow, save_receipt, append_event, LockTimeout, Crash, set_agent_frozen
<1>3. ASSUME NEW s \in Session, NEW r \in Request, Submit(s, r)
      PROVE  OwnTransactions'
  <2>1. /\ pc[s] = "idle" /\ r \notin submitted /\ submitted' = submitted \cup {r}
        /\ pc'[s] = "waiting" /\ req'[s] = r
        /\ \A t \in Session \ {s} : pc'[t] = pc[t] /\ req'[t] = req[t]
        /\ UNCHANGED <<transactions, open_rows, writer>>
    BY <1>0, <1>3 DEF TypeOK, Submit, Goto
  <2>2. Recorded' = Recorded
    BY <2>1 DEF Recorded
  <2>3. \A row \in Recorded : row.txn_id # r.txn.txn_id
    BY <2>1, RequestAssumption DEF OwnTransactions
  <2>4. \A t, u \in Session : t # u /\ pc'[t] # "idle" /\ pc'[u] # "idle" => req'[t] # req'[u]
    BY <2>1 DEF OwnTransactions
  <2>5. writer' # None => \E t \in Session : pc'[t] \in {"record", "commit"}
    BY <2>1 DEF OwnTransactions
  <2>6. QED
    BY <2>1, <2>2, <2>3, <2>4, <2>5 DEF OwnTransactions
<1>4. ASSUME NEW s \in Session,
             \/ Enter(s) \/ ReuseMandate(s) \/ Decide(s)
             \/ is_agent_frozen(s) \/ nonce_seen(s) \/ idempotency_seen(s)
      PROVE  OwnTransactions'
  <2>1. /\ pc[s] \in {"waiting", "called", "read_frozen", "read_nonce", "read_key", "decide"}
        /\ UNCHANGED <<transactions, open_rows, writer, req, submitted>>
        /\ \E label \in {"called", "read_frozen", "read_nonce", "read_key", "decide", "reserve",
                         "block"} : Goto(s, label)
    BY <1>4 DEF Enter, ReuseMandate, Decide, is_agent_frozen, nonce_seen, idempotency_seen
  <2>2. \A t \in Session : /\ pc'[t] # "idle" => pc[t] # "idle"
                           /\ pc'[t] \notin {"idle", "commit", "receipt", "audit"} =>
                                pc[t] \notin {"idle", "commit", "receipt", "audit"}
                           /\ pc[t] \in {"record", "commit"} => pc'[t] = pc[t]
    BY <1>0, <2>1 DEF TypeOK, Goto
  <2>3. Recorded' = Recorded
    BY <2>1 DEF Recorded
  <2>4. writer' # None => \E t \in Session : pc'[t] \in {"record", "commit"}
    BY <2>1, <2>2 DEF OwnTransactions
  <2>5. QED
    BY <2>1, <2>2, <2>3, <2>4, TransactionsKept
<1>5. ASSUME NEW s \in Session,
             save_mandate(s) \/ CommitRow(s) \/ save_receipt(s) \/ append_event(s)
      PROVE  OwnTransactions'
  <2>1. /\ commit /\ submitted' = submitted
        /\ \/ pc[s] = "called" /\ Goto(s, "read_frozen") /\ req' = req
           \/ /\ pc[s] \in {"commit", "receipt", "audit"}
              /\ \E label \in {"receipt", "audit"} : Goto(s, label)
              /\ req' = req
           \/ Goto(s, "idle") /\ \A t \in Session \ {s} : req'[t] = req[t]
    BY <1>0, <1>5 DEF TypeOK, save_mandate, CommitRow, save_receipt, append_event, Leave
  <2>2. \A t \in Session : /\ pc'[t] # "idle" => pc[t] # "idle" /\ req'[t] = req[t]
                           /\ pc'[t] \notin {"idle", "commit", "receipt", "audit"} =>
                                pc[t] \notin {"idle", "commit", "receipt", "audit"}
    BY <1>0, <2>1 DEF TypeOK, Goto
  <2>3. Recorded' = Recorded /\ writer' = None
    BY <2>1 DEF commit, Discard, Recorded
  <2>4. QED
    BY <2>1, <2>2, <2>3, TransactionsKept
<1>6. ASSUME NEW s \in Session, reserve_nonce(s)
      PROVE  OwnTransactions'
  <2>1. /\ pc[s] = "reserve" /\ UNCHANGED <<req, submitted>>
        /\ \/ Goto(s, "record") /\ UNCHANGED <<transactions, open_rows>>
           \/ Goto(s, "block") /\ rollback
    BY <1>6 DEF reserve_nonce, Downgrade
  <2>2. \A t \in Session : /\ pc'[t] # "idle" => pc[t] # "idle"
                           /\ pc'[t] \notin {"idle", "commit", "receipt", "audit"} =>
                                pc[t] \notin {"idle", "commit", "receipt", "audit"}
    BY <1>0, <2>1 DEF TypeOK, Goto
  <2>3. Recorded' \subseteq Recorded
    BY <2>1 DEF Recorded, rollback, Discard
  <2>4. writer' # None => pc'[s] = "record"
    BY <1>0, <2>1 DEF TypeOK, Goto, rollback, Discard
  <2>5. QED
    BY <2>1, <2>2, <2>3, <2>4, TransactionsKept
<1>7. ASSUME NEW s \in Session, RecordAllow(s)
      PROVE  OwnTransactions'
  <2> DEFINE row == Row(req[s].txn, result[s], HoldStatus(result[s], risk[s]))
  <2>1. /\ pc[s] = "record" /\ UNCHANGED <<req, submitted>>
        /\ \/ Goto(s, "commit") /\ InsertRow(ConnOf[s], row)
           \/ Goto(s, "block") /\ rollback
    BY <1>7 DEF RecordAllow, Downgrade
  <2>2. row.txn_id = req[s].txn.txn_id
    BY DEF Row
  <2> HIDE DEF row
  <2>3. CASE Goto(s, "commit") /\ InsertRow(ConnOf[s], row)
    BY <1>0, <2>1, <2>2, <2>3, TransactionsInsert
  <2>4. CASE Goto(s, "block") /\ rollback
    <3>1. \A t \in Session : /\ pc'[t] # "idle" => pc[t] # "idle"
                             /\ pc'[t] \notin {"idle", "commit", "receipt", "audit"} =>
                                  pc[t] \notin {"idle", "commit", "receipt", "audit"}
      BY <1>0, <2>1, <2>4 DEF TypeOK, Goto
    <3>2. Recorded' \subseteq Recorded /\ writer' = None
      BY <2>4 DEF Recorded, rollback, Discard
    <3>3. QED
      BY <2>1, <3>1, <3>2, TransactionsKept
  <2>5. QED
    BY <2>1, <2>3, <2>4
<1>8. ASSUME NEW s \in Session, RecordBlocked(s)
      PROVE  OwnTransactions'
  <2> DEFINE row == Row(req[s].txn, result[s], "blocked")
  <2>1. pc[s] = "block" /\ result[s].decision = "BLOCK"
    BY <1>0, <1>8 DEF CallOK, RecordBlocked
  <2>2. Goto(s, "commit") /\ InsertRow(ConnOf[s], row) /\ UNCHANGED <<req, submitted>>
    BY <1>8, <2>1, NoClashInBlock DEF RecordBlocked
  <2>3. row.txn_id = req[s].txn.txn_id
    BY DEF Row
  <2> HIDE DEF row
  <2>4. QED
    BY <1>0, <2>1, <2>2, <2>3, TransactionsInsert
<1>9. ASSUME NEW s \in Session, LockTimeout(s)
      PROVE  OwnTransactions'
  BY <1>0, <1>9, CanWriteUnderLock DEF LockTimeout, WriteLabels
<1>10. CASE Crash
  BY <1>10, TransactionsKept DEF Crash, rollback, Discard, Recorded
<1>11. ASSUME NEW a \in Agent, set_agent_frozen(a)
       PROVE  OwnTransactions'
  BY <1>11, TransactionsKept DEF set_agent_frozen, commit, Discard, Recorded
<1>12. CASE UNCHANGED vars
  BY <1>12, TransactionsKept DEF vars, Recorded, OwnTransactions
<1>13. ASSUME NEW s \in Session, DatabaseError(s)
       PROVE  FALSE
  BY <1>13 DEF TransactionsInv, DatabaseError
<1>14. QED
  BY <1>13, <1>3, <1>4, <1>5, <1>6, <1>7, <1>8, <1>9, <1>10, <1>11, <1>12 DEF Next, Step

\* The counters of what goes wrong move with it only.
LEMMA CountersMove ==
  ASSUME [Next]_vars, faults \in Nat, crashes \in Nat
  PROVE  /\ faults' \in Nat /\ crashes' \in Nat
         /\ faults' # faults => faults < MaxFaults
         /\ crashes' # crashes => crashes < MaxCrashes
<1> USE DEF tables, txn_vars, locals, bounds
<1>1. ASSUME NEW s \in Session,
             \/ \E r \in Request : Submit(s, r)
             \/ Enter(s) \/ save_mandate(s) \/ ReuseMandate(s) \/ Decide(s)
             \/ is_agent_frozen(s) \/ nonce_seen(s) \/ idempotency_seen(s)
             \/ reserve_nonce(s) \/ RecordAllow(s) \/ RecordBlocked(s) \/ CommitRow(s)
             \/ save_receipt(s) \/ append_event(s) \/ LockTimeout(s)
      PROVE  UNCHANGED <<faults, crashes>>
  BY <1>1 DEF Submit, Enter, save_mandate, ReuseMandate, Decide, is_agent_frozen, nonce_seen,
              idempotency_seen, reserve_nonce, RecordAllow, RecordBlocked, CommitRow,
              save_receipt, append_event, LockTimeout
<1>2. ASSUME NEW s \in Session, DatabaseError(s)
      PROVE  faults < MaxFaults /\ faults' = faults + 1 /\ crashes' = crashes
  BY <1>2 DEF DatabaseError
<1>3. CASE Crash
  BY <1>3 DEF Crash
<1>4. CASE (\E a \in Agent : set_agent_frozen(a)) \/ UNCHANGED vars
  BY <1>4 DEF set_agent_frozen, vars
<1>5. QED
  BY <1>1, <1>2, <1>3, <1>4 DEF Next, Step

\* Under the API's lock, and without errors and crashes, a call ends in one way:
\* with its receipt saved and one audit entry appended.
LEMMA CallLeavesEvidence ==
  ASSUME Serialized, IInv, OwnTransactions, [Next]_vars, faults' = faults, crashes' = crashes,
         faults \in Nat, crashes \in Nat,
         NEW s \in Session, pc[s] # "idle", pc'[s] = "idle"
  PROVE  /\ Len(audit') = Len(audit) + 1
         /\ \E e \in receipts : e.txn_id = req[s].txn.txn_id
<1> USE DEF tables, txn_vars, locals, bounds
<1>0. TypeOK /\ CallOK /\ Exclusion /\ EvidenceTrails
  BY DEF IInv
<1>1. ASSUME NEW t \in Session,
             \/ \E r \in Request : Submit(t, r)
             \/ Enter(t) \/ save_mandate(t) \/ ReuseMandate(t) \/ Decide(t)
             \/ is_agent_frozen(t) \/ nonce_seen(t) \/ idempotency_seen(t)
             \/ reserve_nonce(t) \/ RecordAllow(t) \/ CommitRow(t) \/ save_receipt(t)
      PROVE  FALSE
  <2>1. \E label \in {"waiting", "called", "read_frozen", "read_nonce", "read_key", "decide",
                      "reserve", "record", "block", "commit", "receipt", "audit"} : Goto(t, label)
    BY <1>1 DEF Submit, Enter, save_mandate, ReuseMandate, Decide, is_agent_frozen, nonce_seen,
                idempotency_seen, reserve_nonce, RecordAllow, CommitRow, save_receipt, Downgrade
  <2>2. QED
    BY <1>0, <2>1 DEF TypeOK, Goto
<1>2. ASSUME NEW t \in Session, RecordBlocked(t)
      PROVE  FALSE
  <2>1. pc[t] = "block" /\ result[t].decision = "BLOCK"
    BY <1>0, <1>2 DEF CallOK, RecordBlocked
  <2>2. Goto(t, "commit")
    BY <1>2, <2>1, NoClashInBlock DEF RecordBlocked
  <2>3. QED
    BY <1>0, <2>2 DEF TypeOK, Goto
<1>3. ASSUME NEW t \in Session, LockTimeout(t)
      PROVE  FALSE
  BY <1>0, <1>3, CanWriteUnderLock DEF LockTimeout, WriteLabels
<1>4. ASSUME NEW t \in Session, append_event(t)
      PROVE  /\ Len(audit') = Len(audit) + 1
             /\ \E e \in receipts : e.txn_id = req[s].txn.txn_id
  <2>1. t = s /\ pc[s] = "audit" /\ \E e : audit' = Append(audit, e)
    BY <1>0, <1>4 DEF TypeOK, append_event, Leave, Goto
  <2>2. audit \in Seq(Entries)
    BY <1>0 DEF TypeOK
  <2>3. ReceiptOf(s) \in receipts /\ ReceiptOf(s).txn_id = req[s].txn.txn_id
    BY <1>0, <2>1 DEF EvidenceTrails, ReceiptOf
  <2>4. QED
    BY <2>1, <2>2, <2>3
<1>5. ASSUME \/ \E t \in Session : DatabaseError(t)
             \/ Crash \/ (\E a \in Agent : set_agent_frozen(a)) \/ UNCHANGED vars
      PROVE  FALSE
  BY <1>5 DEF DatabaseError, Crash, set_agent_frozen, vars
<1>6. QED
  BY <1>1, <1>2, <1>3, <1>4, <1>5 DEF Next, Step

\* service.py:10, under the API's lock, with each transaction made by one call and
\* nothing going wrong around it.
THEOREM EvidenceAlwaysHolds ==
  ASSUME Serialized, ~Resubmit, MaxFaults = 0, MaxCrashes = 0
  PROVE  Spec => EvidenceAlways
<1> DEFINE Undisturbed == faults = 0 /\ crashes = 0 /\ TransactionsInv
<1>1. Init => Undisturbed
  BY DEF Init, TransactionsInv, OwnTransactions, Recorded
<1>2. IInv /\ Undisturbed /\ [Next]_vars => Undisturbed'
  <2>1. ASSUME Undisturbed, [Next]_vars
        PROVE  faults' = 0 /\ crashes' = 0
    BY <2>1, MaxFaults = 0, MaxCrashes = 0, CountersMove
  <2>2. QED
    BY <2>1, Serialized, ~Resubmit, TransactionsStep
<1>3. IInv /\ Undisturbed /\ Undisturbed' /\ [Next]_vars
        => \A s \in Session : pc[s] # "idle" /\ pc'[s] = "idle" =>
             /\ Len(audit') = Len(audit) + 1
             /\ \E e \in receipts : e.txn_id = req[s].txn.txn_id
  BY Serialized, CallLeavesEvidence DEF TransactionsInv
<1> HIDE DEF Undisturbed
<1>4. QED
  BY InductiveInvariant, <1>1, <1>2, <1>3, PTL DEF Spec, EvidenceAlways
=============================================================================
