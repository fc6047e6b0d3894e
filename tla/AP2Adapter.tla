----------------------------- MODULE AP2Adapter -----------------------------
(***************************************************************************)
(* The AP2 rail (backend/bazaar/adapters/ap2.py, agents/ap2_buyer.py) and   *)
(* the merchant's signed prices (catalog/attestation.py): how a signed     *)
(* cart becomes a mandate and a transaction request.  A token is the       *)
(* record of its header, its claims and the key that signed it (None: the  *)
(* signature was tampered with).  Ids of 32 hex digits are triples; their  *)
(* first eight digits are the first two components.                        *)
(***************************************************************************)
EXTENDS Gate

-----------------------------------------------------------------------------
\* The shopping agent.

sign_cart(kid, key, claims) ==
  [kid |-> kid, alg |-> "ES256", key |-> key, vct |-> "mandate.cart.1", lines |-> 1,
   sku |-> claims.sku, unit_amount |-> claims.unit_amount, quantity |-> claims.quantity,
   total_amount |-> claims.total_amount, payee |-> claims.payee,
   allowed_payees |-> claims.allowed_payees, max_amount |-> claims.max_amount,
   exp |-> claims.exp, transaction_id |-> claims.transaction_id]

tamper_signature(token) == [token EXCEPT !.key = None]

-----------------------------------------------------------------------------
\* Verification of a cart, in the order of its checks.  A token that is no JWT is
\* refused where one of an unknown provider is, before anything else.

CartChecklist == <<"untrusted_issuer", "bad_alg", "invalid_signature", "expired", "wrong_type",
                   "unsupported_cart", "malformed", "cart_total_mismatch", "payee_not_allowed">>

\* Mutant: the kid is looked up, the signature is not verified.
decoded_unverified(token, trusted_keys) == token.kid \in DOMAIN trusted_keys

signature_verifies(token, trusted_keys) ==
  token.kid \in DOMAIN trusted_keys /\ token.key = trusted_keys[token.kid]

CartOutcome(token, trusted_keys, at) ==
  [untrusted_issuer    |-> token.kid \in DOMAIN trusted_keys,
   bad_alg             |-> token.alg = "ES256",
   invalid_signature   |-> signature_verifies(token, trusted_keys),
   expired             |-> at < token.exp,
   wrong_type          |-> token.vct = "mandate.cart.1",
   unsupported_cart    |-> token.lines = 1,
   malformed           |-> None \notin {token.unit_amount, token.total_amount},
   cart_total_mismatch |-> token.total_amount = token.unit_amount * token.quantity,
   payee_not_allowed   |-> token.allowed_payees = {} \/ token.payee \in token.allowed_payees]

\* None, or the code of the AP2VerificationError.
verify_cart_mandate(token, trusted_keys, at) ==
  LET outcome == CartOutcome(token, trusted_keys, at)
      failing == {i \in DOMAIN CartChecklist : ~outcome[CartChecklist[i]]}
  IN IF failing = {} THEN None ELSE CartChecklist[Min(failing)]

\* A claim that may be missing, and what stands in for it.
default(claim, other) == IF claim = None THEN other ELSE claim

AP2CartMandate(token, uuid) ==
  [token EXCEPT !.transaction_id = default(@, uuid), !.max_amount = default(@, token.total_amount)]

-----------------------------------------------------------------------------
\* Price attestations.

attested_body(att) == [sku |-> att.sku, merchant_id |-> att.merchant_id, price |-> att.price,
                       category |-> att.category, expires_at |-> att.expires_at]

attest(merchant_id, key, record, expires_at) ==
  LET draft == [sku |-> record.sku, merchant_id |-> merchant_id, price |-> record.price,
                category |-> record.category, expires_at |-> expires_at,
                public_key |-> None, signature |-> None]
  IN [draft EXCEPT !.public_key = key, !.signature = [key |-> key, body |-> attested_body(draft)]]

verify_price_attestation(att, trusted_merchant_keys, at) ==
  /\ att.signature # None /\ att.public_key # None
  /\ att.public_key \in trusted_merchant_keys
  /\ att.signature = [key |-> att.public_key, body |-> attested_body(att)]
  /\ at <= att.expires_at

signed_offer(record, att) == [record EXCEPT !.price = att.price, !.category = att.category]

-----------------------------------------------------------------------------
\* The bridge.

first_eight(id) == <<id[1], id[2]>>

draft_of_cart(cart, record) ==
  [mandate_id |-> <<"ap2", first_eight(cart.transaction_id)>>,
   agent_id |-> "ap2", max_amount |-> cart.max_amount,
   allowed_categories |-> {record.category}, expires_at |-> cart.exp,
   public_key |-> None, signature |-> None]

\* confirm_and_sign raises ValueError on a draft that is not confirmable.
is_confirmable(draft) == draft.max_amount > 0 /\ draft.allowed_categories # {}

to_bazaar(cart, mandate, uuid) ==
  [mandate |-> mandate, agent_id |-> mandate.agent_id, sku |-> cart.sku,
   amount |-> cart.total_amount, price_source |-> "merchant_record",
   nonce |-> uuid, idempotency_key |-> cart.transaction_id]
=============================================================================
