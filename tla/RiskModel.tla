------------------------------ MODULE RiskModel ------------------------------
(***************************************************************************)
(* The advisory risk signal (risk/features.py, risk/model.py): the hard    *)
(* features that the trained classifier is given, the rules that score a   *)
(* purchase when there is no classifier, and the reasons that go with an   *)
(* escalation.  Scores are in tenths; the float sums of the code fall on   *)
(* the same side of both thresholds for every combination of rules.  What  *)
(* the classifier makes of the features is any probability.                *)
(***************************************************************************)
EXTENDS Gate

\* Mutant: assess() is called without a context, and sees the benign defaults.
NoContext(txn, live, trusted_issuer_keys) ==
  [nonce_seen |-> FALSE, idem_seen |-> FALSE, agent_frozen |-> FALSE, issuer_trusted |-> TRUE]

\* What assess() is told of the live state.  Velocity and prior blocks are
\* never filled in.
RiskContext(txn, live, trusted_issuer_keys) ==
  [nonce_seen     |-> live.nonce_seen,
   idem_seen      |-> live.idempotency_seen,
   agent_frozen   |-> live.agent_frozen,
   issuer_trusted |-> trusted_issuer_keys = None \/ txn.mandate.public_key \in trusted_issuer_keys]

\* An item's description is untrusted text, with or without injection markers.
scan_injection(record) == record.description = "markers"

\* Two per cent from the cap.
near_cap(txn) == 100 * txn.amount >= 98 * txn.mandate.max_amount

\* Mutant: a record that is withdrawn, or of another item, is not missing.
record_absent(txn, record) == record = None

record_missing(txn, record) == record = None \/ ~record.active \/ record.sku # txn.sku

\* The features that are 0 or 1 and say that something is wrong, at a reading of the
\* clock of its own.  Whose mandate it is is not among them.
extract(txn, record, ctx, at) ==
  [over_cap             |-> txn.amount > txn.mandate.max_amount,
   issuer_untrusted     |-> ~ctx.issuer_trusted,
   price_mismatch       |-> record # None /\ txn.amount # record.price,
   provenance_untrusted |-> txn.price_source # "merchant_record",
   category_out         |-> record # None /\ record.category \notin txn.mandate.allowed_categories,
   expired              |-> is_expired(txn.mandate, at),
   nonce_seen           |-> ctx.nonce_seen,
   idem_seen            |-> ctx.idem_seen,
   agent_frozen         |-> ctx.agent_frozen,
   sig_invalid          |-> ~verify_signature(txn.mandate),
   record_missing       |-> record_missing(txn, record)]

Suspicious(features) == \E f \in DOMAIN features : features[f]
-----------------------------------------------------------------------------
\* The rules without a classifier.

Rule(holds, tenths) == IF holds THEN tenths ELSE 0

\* Mutant: an amount near the cap counts like a wrong price.
near_cap_strict(txn) ==
  IF 100 * txn.amount >= 98 * txn.mandate.max_amount THEN 4 ELSE 0

\* int(cap * 0.98): rounded down, so that the amount may be a little further away.
near_cap_score(txn) ==
  Rule(txn.mandate.max_amount > 0 /\ txn.amount >= (98 * txn.mandate.max_amount) \div 100, 2)

Score(txn, record, ctx) ==
    Rule(txn.price_source # "merchant_record", 6)
  + Rule(record # None /\ scan_injection(record), 4)
  + near_cap_score(txn)
  + Rule(record # None /\ txn.amount # record.price, 4)
  + Rule(~ctx.issuer_trusted, 6)
  + Rule(ctx.nonce_seen \/ ctx.idem_seen, 5)
  + Rule(ctx.agent_frozen, 5)

_heuristic_assess(txn, record, ctx) ==
  LET score == Score(txn, record, ctx)
  IN IF score >= 8 THEN "BLOCK" ELSE IF score >= 4 THEN "REVIEW" ELSE "NORMAL"
-----------------------------------------------------------------------------
\* The reasons of an escalation: the strongest three signals, by their rank.

Ranking == <<"over_cap", "issuer_untrusted", "price_mismatch", "provenance_untrusted",
             "category_out", "expired", "nonce_seen", "idem_seen", "agent_frozen",
             "injection_markers", "near_cap">>

top_reasons(txn, record, ctx, at) ==
  LET features == extract(txn, record, ctx, at)
      told(f) == CASE f = "injection_markers" -> record # None /\ scan_injection(record)
                   [] f = "near_cap" -> near_cap(txn) /\ ~features.over_cap
                   [] OTHER -> features[f]
      holding == {i \in DOMAIN Ranking : told(Ranking[i])}
  IN {Ranking[i] : i \in {i \in holding : Cardinality({j \in holding : j < i}) < 3}}
=============================================================================
