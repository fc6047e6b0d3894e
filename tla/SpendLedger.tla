----------------------------- MODULE SpendLedger -----------------------------
(***************************************************************************)
(* What the authorization service promises: a ledger of grants to which    *)
(* only purchases within their signed mandate are added, in which a nonce  *)
(* and an idempotency key each occur once, and from which nothing is ever  *)
(* removed.                                                                *)
(***************************************************************************)
CONSTANTS
  Grant,             \* possible grants: [txn_id, nonce, idempotency_key, ...]
  Within(_)          \* the grant is within the mandate the human signed

VARIABLE granted

Coherent(G) ==
  \A g, h \in G : g # h => /\ g.txn_id # h.txn_id
                           /\ g.nonce # h.nonce
                           /\ g.idempotency_key # h.idempotency_key

Init == granted = {}

\* One commit makes one or more purchases final.
Commit(G) ==
  /\ \A g \in G : Within(g)
  /\ Coherent(granted \cup G)
  /\ granted' = granted \cup G

Next == \E G \in SUBSET (Grant \ granted) : Commit(G)

Spec == Init /\ [][Next]_granted
=============================================================================
