------------------------------ MODULE AuditLog ------------------------------
(***************************************************************************)
(* The hash-chained audit log (ledger/audit_log.py): calls of              *)
(* append_event(), each of which reads the tip and then inserts, and       *)
(* verify_chain() over a log that may have been edited behind its back.    *)
(* SHA-256 is ideal: a hash is the record of what went into it.            *)
(***************************************************************************)
EXTENDS Naturals, Sequences, FiniteSetsExt

CONSTANTS
  Session,            \* threads that append
  EventType,          \* "authorization", "settlement"
  None,
  MaxLog              \* bound: entries

ASSUME LogAssumption == None \notin Session \cup EventType \cup Nat /\ MaxLog \in Nat

VARIABLES
  log,                \* table audit_logs by seq
  api_lock,           \* the session inside a call, or None
  pc, tip, event,     \* of each session: control, the hash it read, its event
  events,             \* events so far: the source of the _event_id of each
  touched             \* the lowest seq that was edited from outside, or None

vars == <<log, api_lock, pc, tip, event, events, touched>>

\* Mutant: the event type is left out of the hash.
HashPayload(prev_hash, event_type, payload) == [prev |-> prev_hash, payload |-> payload]

\* The separator keeps type and payload apart, so the hash determines all three.
Hash(prev_hash, event_type, payload) ==
  [prev |-> prev_hash, event_type |-> event_type, payload |-> payload]

\* Values that no entry hashes to: the 64 zeros, and another.
GENESIS_HASH == [prev |-> None, event_type |-> None, payload |-> 0]
OtherHash    == [prev |-> None, event_type |-> None, payload |-> 1]

\* What verify_chain() expects before entry i of the rows it has read.
Prev(rows, i) == IF i = 1 THEN GENESIS_HASH ELSE rows[i - 1].entry_hash

LinkHolds(rows, i) ==
  /\ rows[i].prev_hash = Prev(rows, i)
  /\ rows[i].entry_hash = Hash(Prev(rows, i), rows[i].event_type, rows[i].payload)

\* The walk stops at the first entry whose link does not hold.
verify_chain(rows) ==
  LET broken == {i \in DOMAIN rows : ~LinkHolds(rows, i)}
  IN [ok |-> broken = {}, broken_at_seq |-> IF broken = {} THEN None ELSE Min(broken)]
-----------------------------------------------------------------------------
Init ==
  /\ log = <<>> /\ api_lock = None /\ events = 0 /\ touched = None
  /\ pc = [s \in Session |-> "idle"]
  /\ tip = [s \in Session |-> None]
  /\ event = [s \in Session |-> None]

\* Mutant: the caller does not hold the lock.
BeginUnlocked(s, type) ==
  /\ pc[s] = "idle"
  /\ events < MaxLog
  /\ events' = events + 1
  /\ pc' = [pc EXCEPT ![s] = "read"]
  /\ event' = [event EXCEPT ![s] = [event_type |-> type, payload |-> events]]
  /\ UNCHANGED <<log, api_lock, tip, touched>>

\* A caller that holds _LOCK logs an event; its payload gets an id of its own.
Begin(s, type) ==
  /\ pc[s] = "idle"
  /\ api_lock = None
  /\ events < MaxLog
  /\ events' = events + 1
  /\ api_lock' = s
  /\ pc' = [pc EXCEPT ![s] = "read"]
  /\ event' = [event EXCEPT ![s] = [event_type |-> type, payload |-> events]]
  /\ UNCHANGED <<log, tip, touched>>

\* SELECT the tip.
ReadTip(s) ==
  /\ pc[s] = "read"
  /\ tip' = [tip EXCEPT ![s] = Prev(log, Len(log) + 1)]
  /\ pc' = [pc EXCEPT ![s] = "insert"]
  /\ UNCHANGED <<log, api_lock, event, events, touched>>

Leave(s) ==
  /\ api_lock' = None
  /\ pc' = [pc EXCEPT ![s] = "idle"]
  /\ tip' = [tip EXCEPT ![s] = None]
  /\ event' = [event EXCEPT ![s] = None]

NewEntry(s) ==
  [event_type |-> event[s].event_type, payload |-> event[s].payload, prev_hash |-> tip[s],
   entry_hash |-> Hash(tip[s], event[s].event_type, event[s].payload)]

\* INSERT and commit.
Insert(s) ==
  /\ pc[s] = "insert"
  /\ log' = Append(log, NewEntry(s))
  /\ Leave(s)
  /\ UNCHANGED <<events, touched>>

\* A statement raises: the event is lost.  If it was the commit, the row stands in
\* the open transaction of the connection that all calls share, where the next call
\* reads it as the tip and commits it with its own.
DatabaseError(s) ==
  /\ pc[s] \in {"read", "insert"}
  /\ \/ UNCHANGED log
     \/ pc[s] = "insert" /\ log' = Append(log, NewEntry(s))
  /\ Leave(s)
  /\ UNCHANGED <<events, touched>>

\* Somebody updates a row of the table, or exchanges two, past append_event().
Edits(row) ==
  {[row EXCEPT !.event_type = t] : t \in EventType} \cup
  {[row EXCEPT !.payload = MaxLog], [row EXCEPT !.prev_hash = OtherHash],
   [row EXCEPT !.entry_hash = OtherHash]}

EditRow(i) ==
  /\ touched = None
  /\ api_lock = None
  /\ \E row \in Edits(log[i]) \ {log[i]} : log' = [log EXCEPT ![i] = row]
  /\ touched' = i
  /\ UNCHANGED <<api_lock, pc, tip, event, events>>

SwapRows(i, j) ==
  /\ touched = None
  /\ api_lock = None
  /\ i < j
  /\ log' = [log EXCEPT ![i] = log[j], ![j] = log[i]]
  /\ touched' = i
  /\ UNCHANGED <<api_lock, pc, tip, event, events>>

Next ==
  \/ \E s \in Session :
       \/ \E type \in EventType : Begin(s, type)
       \/ ReadTip(s) \/ Insert(s) \/ DatabaseError(s)
  \/ \E i \in DOMAIN log : EditRow(i) \/ \E j \in DOMAIN log : SwapRows(i, j)

Spec == Init /\ [][Next]_vars
-----------------------------------------------------------------------------
\* Properties.

\* A log that only append_event() has written verifies, also while calls are
\* under way and after some have failed (audit_log.py:47-70).
IntactChainVerifies == touched = None => verify_chain(log).ok

\* A row that was edited, or moved, is reported by its seq, however many
\* entries have been appended since (audit_log.py:8-14).
EditIsFound == touched # None => verify_chain(log) = [ok |-> FALSE, broken_at_seq |-> touched]

\* The types of the variables, and the columns of a row.
IsRow(r) == r = [event_type |-> r.event_type, payload |-> r.payload,
                 prev_hash |-> r.prev_hash, entry_hash |-> r.entry_hash]

TypeOK ==
  /\ log \in Seq({log[i] : i \in DOMAIN log})
  /\ \A i \in DOMAIN log : IsRow(log[i])
  /\ events \in Nat
  /\ pc \in [Session -> {"idle", "read", "insert"}]
  /\ tip = [s \in Session |-> tip[s]]
  /\ event \in [Session -> [event_type : EventType, payload : Nat] \cup {None}]

\* What makes the chain hold: the session about to insert has the lock, the
\* tip that it read is still the tip, and its event is like no other.
TipIsFresh ==
  \A s \in Session :
    /\ pc[s] # "idle" =>
         /\ api_lock = s
         /\ event[s] \in [event_type : EventType, payload : 0 .. events - 1]
         /\ touched = None => \A i \in DOMAIN log : log[i].payload < event[s].payload
    /\ pc[s] = "insert" => tip[s] = Prev(log, Len(log) + 1)

\* Until somebody edits it, the log has the events in the order they were made.
EventsAreOrdered ==
  touched = None =>
    /\ \A i \in DOMAIN log : log[i].event_type \in EventType /\ log[i].payload \in 0 .. events - 1
    /\ \A i, j \in DOMAIN log : i < j => log[i].payload < log[j].payload

\* After an edit the links hold up to the edited row, and not there.
BrokenWhereTouched ==
  touched # None =>
    /\ touched \in DOMAIN log
    /\ ~LinkHolds(log, touched)
    /\ \A i \in DOMAIN log : i < touched => LinkHolds(log, i)

\* All of it together is inductive.
LogInv ==
  /\ TypeOK /\ TipIsFresh /\ EventsAreOrdered /\ BrokenWhereTouched
  /\ touched = None => \A i \in DOMAIN log : LinkHolds(log, i)
=============================================================================
