--------------------------- MODULE AuditLogProofs ---------------------------
(***************************************************************************)
(* The hash chain for every set of sessions and every length of the log.   *)
(***************************************************************************)
EXTENDS AuditLog, TLAPS

\* The least of a set of positions whose least element is known.
LEMMA LeastIs ==
  ASSUME NEW S \in SUBSET Nat, NEW k \in S, \A i \in S : k <= i
  PROVE  Min(S) = k
<1>1. Min(S) \in S /\ \A i \in S : Min(S) <= i
  BY DEF Min
<1>2. Min(S) \in Nat /\ k \in Nat /\ k <= Min(S) /\ Min(S) <= k
  BY <1>1
<1>3. QED
  BY <1>2

\* What appending an entry does to the positions of the log.
LEMMA AppendLog ==
  ASSUME NEW e, log \in Seq({log[i] : i \in DOMAIN log}), log' = Append(log, e)
  PROVE  /\ Len(log') = Len(log) + 1 /\ DOMAIN log' = 1 .. Len(log) + 1
         /\ DOMAIN log = 1 .. Len(log) /\ Len(log) \in Nat
         /\ \A i \in DOMAIN log : log'[i] = log[i]
         /\ log'[Len(log) + 1] = e
         /\ log' \in Seq({log'[i] : i \in DOMAIN log'})
<1> DEFINE S == {log[i] : i \in DOMAIN log} \cup {e}
<1>1. log \in Seq(S)
  OBVIOUS
<1>2. /\ Len(log') = Len(log) + 1 /\ DOMAIN log' = 1 .. Len(log) + 1
      /\ DOMAIN log = 1 .. Len(log) /\ Len(log) \in Nat
      /\ \A i \in DOMAIN log : log'[i] = log[i]
      /\ log'[Len(log) + 1] = e
  BY <1>1
<1>3. S \subseteq {log'[i] : i \in DOMAIN log'}
  BY <1>2
<1>4. log' \in Seq(S)
  BY <1>1
<1>5. QED
  BY <1>2, <1>3, <1>4

\* Leaving a call makes room for the next.
LEMMA LeaveFresh ==
  ASSUME TypeOK, TipIsFresh, NEW s \in Session, Leave(s), pc[s] # "idle"
  PROVE  /\ \A t \in Session : pc'[t] = "idle"
         /\ pc' \in [Session -> {"idle", "read", "insert"}]
         /\ tip' = [t \in Session |-> tip'[t]]
         /\ event' \in [Session -> [event_type : EventType, payload : Nat] \cup {None}]
  BY DEF TypeOK, TipIsFresh, Leave

\* The links before a position that is not touched stay as they are.
LEMMA LinkKept ==
  ASSUME NEW i \in Nat, i > 0, log'[i] = log[i], i > 1 => log'[i - 1] = log[i - 1]
  PROVE  LinkHolds(log', i) <=> LinkHolds(log, i)
  BY DEF LinkHolds, Prev, Hash, GENESIS_HASH

\* The empty log satisfies the invariant.
LEMMA InitLog == Init => LogInv
  BY LogAssumption
     DEF Init, LogInv, TypeOK, TipIsFresh, EventsAreOrdered, BrokenWhereTouched

\* append_event() under the lock extends the chain.
LEMMA InsertLog ==
  ASSUME LogInv, NEW s \in Session, Insert(s)
  PROVE  LogInv'
<1> DEFINE n == Len(log) + 1
<1>1. pc[s] = "insert" /\ log' = Append(log, NewEntry(s)) /\ UNCHANGED <<events, touched>>
  BY DEF Insert
<1>2. /\ Len(log') = n /\ DOMAIN log' = 1 .. n /\ DOMAIN log = 1 .. Len(log) /\ Len(log) \in Nat
      /\ \A i \in DOMAIN log : log'[i] = log[i]
      /\ log'[n] = NewEntry(s)
      /\ log' \in Seq({log'[i] : i \in DOMAIN log'})
  BY <1>1, AppendLog DEF LogInv, TypeOK
<1>3. /\ \A t \in Session : pc'[t] = "idle"
      /\ TypeOK'
  <2>1. \A i \in DOMAIN log' : IsRow(log'[i])
    <3>1. IsRow(NewEntry(s))
      BY DEF IsRow, NewEntry
    <3>2. \A i \in DOMAIN log : IsRow(log[i])
      BY DEF LogInv, TypeOK
    <3>3. \A i \in DOMAIN log' : i \in DOMAIN log \/ i = n
      BY <1>2
    <3>4. QED
      BY <1>2, <3>1, <3>2, <3>3
  <2>2. QED
    BY <1>1, <1>2, <2>1, LeaveFresh DEF LogInv, TypeOK, Insert
<1>4. TipIsFresh'
  BY <1>3 DEF TipIsFresh
<1>5. ASSUME NEW i \in DOMAIN log
      PROVE  LinkHolds(log', i) <=> LinkHolds(log, i)
  <2>1. i \in Nat /\ i > 0 /\ (i > 1 => i - 1 \in DOMAIN log)
    BY <1>2
  <2>2. log'[i] = log[i] /\ (i > 1 => log'[i - 1] = log[i - 1])
    BY <1>2, <2>1
  <2>3. QED
    BY <2>1, <2>2, LinkKept
<1>6. LinkHolds(log', n)
  <2>1. tip[s] = Prev(log, n)
    BY <1>1 DEF LogInv, TipIsFresh
  <2>2. Prev(log', n) = Prev(log, n)
    BY <1>2 DEF Prev, GENESIS_HASH
  <2>3. log'[n].prev_hash = tip[s]
        /\ log'[n].entry_hash = Hash(tip[s], log'[n].event_type, log'[n].payload)
    BY <1>2 DEF NewEntry
  <2>4. QED
    BY <2>1, <2>2, <2>3 DEF LinkHolds, Hash
<1>7. EventsAreOrdered'
  <2>1. event[s] \in [event_type : EventType, payload : 0 .. events - 1]
        /\ (touched = None => \A i \in DOMAIN log : log[i].payload < event[s].payload)
    BY <1>1 DEF LogInv, TipIsFresh
  <2>2. log'[n].event_type = event[s].event_type /\ log'[n].payload = event[s].payload
    BY <1>2 DEF NewEntry
  <2>3. QED
    BY <1>1, <1>2, <2>1, <2>2 DEF LogInv, EventsAreOrdered
<1>8. BrokenWhereTouched'
  BY <1>1, <1>2, <1>5 DEF LogInv, BrokenWhereTouched
<1>9. touched' = None => \A i \in DOMAIN log' : LinkHolds(log', i)
  BY <1>1, <1>2, <1>5, <1>6 DEF LogInv
<1>10. QED
  BY <1>3, <1>4, <1>7, <1>8, <1>9 DEF LogInv

\* A single row that differs breaks its own link and none before it.
LEMMA EditLog ==
  ASSUME LogInv, NEW i \in DOMAIN log, EditRow(i)
  PROVE  LogInv'
<1>1. touched = None /\ \A t \in Session : pc[t] = "idle"
  BY LogAssumption DEF LogInv, TipIsFresh, EditRow
<1>2. PICK row \in Edits(log[i]) \ {log[i]} : log' = [log EXCEPT ![i] = row]
  BY DEF EditRow
<1>3. DOMAIN log = 1 .. Len(log) /\ Len(log) \in Nat
  BY DEF LogInv, TypeOK
<1>4. DOMAIN log' = DOMAIN log /\ log'[i] = row /\ \A j \in DOMAIN log \ {i} : log'[j] = log[j]
  BY <1>2, <1>3
<1>5. log' \in Seq({log'[j] : j \in DOMAIN log'})
  <2> DEFINE S == {log[j] : j \in DOMAIN log} \cup {row}
  <2>1. log \in Seq(S)
    BY DEF LogInv, TypeOK
  <2>2. log' \in Seq(S)
    BY <1>2, <2>1
  <2>3. DOMAIN log' = 1 .. Len(log') /\ Len(log') \in Nat
    BY <2>2
  <2>4. QED
    BY <2>2, <2>3
<1>6. LinkHolds(log, i) /\ IsRow(log[i])
  BY <1>1 DEF LogInv, TypeOK
<1>7. ~LinkHolds(log', i)
  <2>1. Prev(log', i) = Prev(log, i)
    BY <1>3, <1>4 DEF Prev, GENESIS_HASH
  <2>2. CASE \E t \in EventType : row = [log[i] EXCEPT !.event_type = t]
    BY <1>2, <1>4, <1>6, <2>1, <2>2 DEF LinkHolds, Hash, IsRow
  <2>3. CASE row = [log[i] EXCEPT !.payload = MaxLog]
    BY <1>2, <1>4, <1>6, <2>1, <2>3 DEF LinkHolds, Hash, IsRow
  <2>4. CASE row = [log[i] EXCEPT !.prev_hash = OtherHash]
    BY <1>2, <1>4, <1>6, <2>1, <2>4 DEF LinkHolds, IsRow
  <2>5. CASE row = [log[i] EXCEPT !.entry_hash = OtherHash]
    BY <1>2, <1>4, <1>6, <2>1, <2>5 DEF LinkHolds, IsRow
  <2>6. QED
    BY <1>2, <2>2, <2>3, <2>4, <2>5 DEF Edits
<1>8. touched' = i /\ i # None /\ UNCHANGED <<api_lock, pc, tip, event, events>>
  BY <1>3, LogAssumption DEF EditRow
<1>9. \A j \in DOMAIN log : j < i => LinkHolds(log', j)
  BY <1>1, <1>3, <1>4, LinkKept DEF LogInv
<1>10. \A j \in DOMAIN log' : IsRow(log'[j])
  BY <1>2, <1>4, <1>6 DEF LogInv, TypeOK, Edits, IsRow
<1>11. QED
  BY <1>1, <1>4, <1>5, <1>7, <1>8, <1>9, <1>10
     DEF LogInv, TypeOK, TipIsFresh, EventsAreOrdered, BrokenWhereTouched

\* The hash before a position differs from the hash before any other.
LEMMA PrevDiffer ==
  ASSUME LogInv, touched = None, NEW i \in DOMAIN log, NEW j \in DOMAIN log, i < j
  PROVE  Prev(log, i) # Prev(log, j)
<1>1. DOMAIN log = 1 .. Len(log) /\ Len(log) \in Nat
  BY DEF LogInv, TypeOK
<1>2. j - 1 \in DOMAIN log /\ j # 1
  BY <1>1
<1>3. LinkHolds(log, j - 1) /\ log[j - 1].event_type \in EventType
  BY <1>2 DEF LogInv, EventsAreOrdered
<1>4. Prev(log, j) = Hash(Prev(log, j - 1), log[j - 1].event_type, log[j - 1].payload)
  BY <1>2, <1>3 DEF Prev, LinkHolds
<1>5. CASE i = 1
  <2>1. Prev(log, i).event_type = None
    BY <1>5 DEF Prev, GENESIS_HASH
  <2>2. Prev(log, j).event_type # None
    BY <1>3, <1>4, LogAssumption DEF Hash
  <2>3. QED
    BY <2>1, <2>2
<1>6. CASE i # 1
  <2>1. i - 1 \in DOMAIN log /\ i - 1 < j - 1
    BY <1>1, <1>6
  <2>2. Prev(log, i) = Hash(Prev(log, i - 1), log[i - 1].event_type, log[i - 1].payload)
    BY <1>6, <2>1 DEF LogInv, Prev, LinkHolds
  <2>3. log[i - 1].payload < log[j - 1].payload
    BY <1>2, <2>1 DEF LogInv, EventsAreOrdered
  <2>4. log[i - 1].payload \in 0 .. events - 1 /\ log[j - 1].payload \in 0 .. events - 1
    BY <1>2, <2>1 DEF LogInv, EventsAreOrdered
  <2>5. log[i - 1].payload # log[j - 1].payload
    BY <2>3, <2>4 DEF LogInv, TypeOK
  <2>6. QED
    BY <1>4, <2>2, <2>5 DEF Hash
<1>7. QED
  BY <1>5, <1>6

\* Two rows that change places break the link of the first.
LEMMA SwapLog ==
  ASSUME LogInv, NEW i \in DOMAIN log, NEW j \in DOMAIN log, SwapRows(i, j)
  PROVE  LogInv'
<1>1. touched = None /\ (\A t \in Session : pc[t] = "idle") /\ i < j
  BY LogAssumption DEF LogInv, TipIsFresh, SwapRows
<1>2. log' = [log EXCEPT ![i] = log[j], ![j] = log[i]]
  BY DEF SwapRows
<1>3. DOMAIN log = 1 .. Len(log) /\ Len(log) \in Nat
  BY DEF LogInv, TypeOK
<1>4. /\ DOMAIN log' = DOMAIN log /\ log'[i] = log[j] /\ log'[j] = log[i]
      /\ \A k \in DOMAIN log \ {i, j} : log'[k] = log[k]
  BY <1>1, <1>2, <1>3
<1>5. log' \in Seq({log'[k] : k \in DOMAIN log'})
  <2>1. log' \in Seq({log[k] : k \in DOMAIN log})
    BY <1>2 DEF LogInv, TypeOK
  <2>2. DOMAIN log' = 1 .. Len(log') /\ Len(log') \in Nat
    BY <2>1
  <2>3. QED
    BY <2>1, <2>2
<1>6. ~LinkHolds(log', i)
  <2>1. Prev(log', i) = Prev(log, i)
    BY <1>1, <1>3, <1>4 DEF Prev
  <2>2. log[j].prev_hash = Prev(log, j)
    BY <1>1 DEF LogInv, LinkHolds
  <2>3. QED
    BY <1>1, <1>4, <2>1, <2>2, PrevDiffer DEF LinkHolds
<1>7. \A k \in DOMAIN log : k < i => LinkHolds(log', k)
  BY <1>1, <1>3, <1>4, LinkKept DEF LogInv
<1>8. touched' = i /\ i # None /\ UNCHANGED <<api_lock, pc, tip, event, events>>
  BY <1>3, LogAssumption DEF SwapRows
<1>9. \A k \in DOMAIN log' : IsRow(log'[k])
  BY <1>4 DEF LogInv, TypeOK
<1>10. QED
  BY <1>1, <1>4, <1>5, <1>6, <1>7, <1>8, <1>9
     DEF LogInv, TypeOK, TipIsFresh, EventsAreOrdered, BrokenWhereTouched

\* Every event and every edit keeps the invariant.
LEMMA LogStep == LogInv /\ [Next]_vars => LogInv'
<1> SUFFICES ASSUME LogInv, [Next]_vars
             PROVE  LogInv'
  OBVIOUS
<1>1. ASSUME NEW s \in Session, NEW type \in EventType, Begin(s, type)
      PROVE  LogInv'
  <2>1. /\ \A t \in Session : pc[t] = "idle"
        /\ UNCHANGED <<log, tip, touched>> /\ events' = events + 1 /\ events \in Nat
        /\ pc' = [pc EXCEPT ![s] = "read"] /\ api_lock' = s
        /\ event' = [event EXCEPT ![s] = [event_type |-> type, payload |-> events]]
    BY <1>1, LogAssumption DEF LogInv, TipIsFresh, TypeOK, Begin
  <2>2. TypeOK'
    BY <2>1 DEF LogInv, TypeOK
  <2>3. TipIsFresh'
    BY <2>1 DEF LogInv, TypeOK, TipIsFresh, EventsAreOrdered
  <2>4. EventsAreOrdered'
    BY <2>1 DEF LogInv, EventsAreOrdered
  <2>5. QED
    BY <2>1, <2>2, <2>3, <2>4 DEF LogInv, BrokenWhereTouched
<1>2. ASSUME NEW s \in Session, ReadTip(s)
      PROVE  LogInv'
  <2>1. TypeOK'
    BY <1>2 DEF LogInv, TypeOK, ReadTip
  <2>2. TipIsFresh'
    BY <1>2 DEF LogInv, TypeOK, TipIsFresh, ReadTip
  <2>3. QED
    BY <1>2, <2>1, <2>2 DEF LogInv, EventsAreOrdered, BrokenWhereTouched, ReadTip
<1>3. ASSUME NEW s \in Session, DatabaseError(s)
      PROVE  LogInv'
  <2>1. CASE UNCHANGED log
    BY <1>3, <2>1, LeaveFresh
       DEF LogInv, TypeOK, TipIsFresh, EventsAreOrdered, BrokenWhereTouched, DatabaseError
  <2>2. CASE pc[s] = "insert" /\ log' = Append(log, NewEntry(s))
    BY <1>3, <2>2, InsertLog DEF DatabaseError, Insert
  <2>3. QED
    BY <1>3, <2>1, <2>2 DEF DatabaseError
<1>4. CASE UNCHANGED vars
  BY <1>4 DEF vars, LogInv, TypeOK, TipIsFresh, EventsAreOrdered, BrokenWhereTouched
<1>5. QED
  BY <1>1, <1>2, <1>3, <1>4, InsertLog, EditLog, SwapLog DEF Next

\* audit_log.py: the invariant of the log, under every interleaving of callers,
\* failures and edits.
THEOREM LogInvariant == Spec => []LogInv
  BY InitLog, LogStep, PTL DEF Spec

\* A log that only append_event() has written verifies, at every length.
THEOREM IntactChainVerifiesHolds == Spec => []IntactChainVerifies
<1>1. LogInv => IntactChainVerifies
  BY DEF LogInv, IntactChainVerifies, verify_chain
<1>2. QED
  BY LogInvariant, <1>1, PTL

\* An edited or moved row is reported by its own seq, at every length.
THEOREM EditIsFoundHolds == Spec => []EditIsFound
<1>1. LogInv => EditIsFound
  <2> SUFFICES ASSUME LogInv, touched # None
               PROVE  verify_chain(log) = [ok |-> FALSE, broken_at_seq |-> touched]
    BY DEF EditIsFound
  <2> DEFINE broken == {i \in DOMAIN log : ~LinkHolds(log, i)}
  <2>1. DOMAIN log = 1 .. Len(log) /\ Len(log) \in Nat
    BY DEF LogInv, TypeOK
  <2>2. touched \in broken
    BY DEF LogInv, BrokenWhereTouched
  <2>3. \A i \in broken : touched <= i
    BY <2>1 DEF LogInv, BrokenWhereTouched
  <2>4. broken \subseteq Nat
    BY <2>1
  <2> HIDE DEF broken
  <2>5. Min(broken) = touched
    BY <2>2, <2>3, <2>4, LeastIs
  <2>6. verify_chain(log) = [ok |-> broken = {},
                             broken_at_seq |-> IF broken = {} THEN None ELSE Min(broken)]
    BY DEF verify_chain, broken
  <2>7. (broken = {}) = FALSE
    BY <2>2
  <2>8. QED
    BY <2>2, <2>5, <2>6, <2>7
<1>2. QED
  BY LogInvariant, <1>1, PTL
=============================================================================
