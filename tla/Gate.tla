-------------------------------- MODULE Gate --------------------------------
(***************************************************************************)
(* The deterministic verifier (backend/bazaar/verifier/gate.py): a pure    *)
(* function from a transaction request, a merchant-of-record row and the   *)
(* live state to ALLOW, or to BLOCK with one reason code.  Ed25519         *)
(* signatures are ideal: a signature is the pair of the key that made it   *)
(* and the body it was made over, and nobody can produce another key's.    *)
(***************************************************************************)
EXTENDS Integers, Sequences, FiniteSetsExt

CONSTANT None                   \* Python's None, and the empty string

-----------------------------------------------------------------------------
\* Mandates (models.py).

\* The subset of the fields that is signed.
signed_body(m) ==
  [mandate_id         |-> m.mandate_id,
   agent_id           |-> m.agent_id,
   max_amount         |-> m.max_amount,
   allowed_categories |-> m.allowed_categories,
   expires_at         |-> m.expires_at]

sign_mandate(key, draft) ==
  [draft EXCEPT !.public_key = key,
                !.signature  = [key |-> key, body |-> signed_body(draft)]]

\* The body is recomputed from the live fields, so it must equal what was signed.
verify_signature(m) ==
  /\ m.public_key # None
  /\ m.signature # None
  /\ m.signature = [key |-> m.public_key, body |-> signed_body(m)]

is_expired(m, at) == at > m.expires_at

-----------------------------------------------------------------------------
\* The checklist, in the order gate.py runs it, with the code each check names.

Checklist ==
  << [check |-> "mandate_signed_by_trusted_issuer", reason |-> "MANDATE_IMMUTABLE"],
     [check |-> "mandate_agent_matches",            reason |-> "MANDATE_IMMUTABLE"],
     [check |-> "mandate_not_expired",              reason |-> "MANDATE_EXPIRED"],
     [check |-> "agent_not_frozen",                 reason |-> "AGENT_FROZEN"],
     [check |-> "money_field_from_merchant_record", reason |-> "UNTRUSTED_INSTRUCTION"],
     [check |-> "merchant_record_exists",  reason |-> "PRICE_MISMATCH_MERCHANT_RECORD"],
     [check |-> "price_equals_merchant_record",
                                           reason |-> "PRICE_MISMATCH_MERCHANT_RECORD"],
     [check |-> "category_in_allowlist",   reason |-> "CATEGORY_OUTSIDE_MANDATE"],
     [check |-> "amount_within_cap",       reason |-> "MANDATE_LIMIT_EXCEEDED"],
     [check |-> "nonce_unused",            reason |-> "NONCE_REPLAY"],
     [check |-> "idempotency_key_unused",  reason |-> "DUPLICATE_TRANSACTION"] >>

\* The checks.  Those that read the record hold of no record: without one,
\* merchant_record_exists has already named the reason.

\* Mutant: the signature is verified but the key is not pinned.
mandate_signed_by_anyone(m, trusted_issuer_keys) == verify_signature(m)

mandate_signed_by_trusted_issuer(m, trusted_issuer_keys) ==
  /\ verify_signature(m)
  /\ trusted_issuer_keys = None \/ m.public_key \in trusted_issuer_keys

merchant_record_exists(txn, record) ==
  record # None /\ record.active /\ record.sku = txn.sku

price_equals_merchant_record(txn, record) == record # None /\ txn.amount = record.price

\* The record's category, never the one the agent claims.
category_in_allowlist(txn, record) ==
  record # None /\ record.category \in txn.mandate.allowed_categories

\* Mutant: the cap itself is refused.
cap_exclusive(txn) == txn.amount < txn.mandate.max_amount

amount_within_cap(txn) == txn.amount <= txn.mandate.max_amount

Outcome(txn, record, live, trusted_issuer_keys, at) ==
  [mandate_signed_by_trusted_issuer |->
     mandate_signed_by_trusted_issuer(txn.mandate, trusted_issuer_keys),
   mandate_agent_matches            |-> txn.mandate.agent_id = txn.agent_id,
   mandate_not_expired              |-> ~is_expired(txn.mandate, at),
   agent_not_frozen                 |-> ~live.agent_frozen,
   money_field_from_merchant_record |-> txn.price_source = "merchant_record",
   merchant_record_exists           |-> merchant_record_exists(txn, record),
   price_equals_merchant_record     |-> price_equals_merchant_record(txn, record),
   category_in_allowlist            |-> category_in_allowlist(txn, record),
   amount_within_cap                |-> amount_within_cap(txn),
   nonce_unused                     |-> ~live.nonce_seen,
   idempotency_key_unused           |-> ~live.idempotency_seen]

Failing(outcome) == {i \in DOMAIN Checklist : ~outcome[Checklist[i].check]}

Allow == [decision |-> "ALLOW", reason |-> "OK"]
Block(reason) == [decision |-> "BLOCK", reason |-> reason]

\* The first failing check names the reason.
authorize(txn, record, live, trusted_issuer_keys, at) ==
  LET failing == Failing(Outcome(txn, record, live, trusted_issuer_keys, at))
  IN IF failing = {} THEN Allow ELSE Block(Checklist[Min(failing)].reason)

-----------------------------------------------------------------------------
\* The advisory risk signal, of which only the action is read.

RiskAction == {"NORMAL", "REVIEW", "BLOCK"}

apply_risk(base, action) ==
  IF base.decision = "BLOCK" \/ action \in {None, "NORMAL"}
  THEN base
  ELSE [decision |-> action, reason |-> "RISK_REVIEW_HOLD"]

Decision == {"ALLOW", "REVIEW", "BLOCK"}
Reason == {Checklist[i].reason : i \in DOMAIN Checklist} \cup {"OK"}
GateResult == [decision : Decision, reason : Reason \cup {"RISK_REVIEW_HOLD"}]

\* What an ALLOW commits the human to: the limits of the signed mandate.
WithinMandate(txn, record, trusted_issuer_keys) ==
  /\ verify_signature(txn.mandate)
  /\ trusted_issuer_keys # None => txn.mandate.public_key \in trusted_issuer_keys
  /\ txn.mandate.agent_id = txn.agent_id
  /\ record # None
  /\ txn.amount = record.price
  /\ record.category \in txn.mandate.allowed_categories
  /\ txn.amount <= txn.mandate.max_amount
=============================================================================
