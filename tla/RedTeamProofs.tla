---------------------------- MODULE RedTeamProofs ----------------------------
(***************************************************************************)
(* How the risk model and the gate agree, for every request and record;    *)
(* and what the suite shows on a sample holds of every case it can draw,   *)
(* for any caps and categories.                                            *)
(***************************************************************************)
EXTENDS RedTeam, GateProofs, FiniteSetTheorems

\* What any caller passes: whole amounts and times, and flags.
WellFormed(txn, live) ==
  /\ txn.amount \in Int /\ txn.mandate.max_amount \in Int /\ txn.mandate.expires_at \in Int
  /\ live \in [nonce_seen : BOOLEAN, idempotency_seen : BOOLEAN, agent_frozen : BOOLEAN]

\* The gate allows exactly what passes its eleven checks.
LEMMA GateAllows ==
  ASSUME NEW txn, NEW record, NEW live, NEW keys, NEW at, WellFormed(txn, live)
  PROVE  authorize(txn, record, live, keys, at).decision = "ALLOW" <=>
           /\ mandate_signed_by_trusted_issuer(txn.mandate, keys)
           /\ txn.mandate.agent_id = txn.agent_id
           /\ ~is_expired(txn.mandate, at)
           /\ ~live.agent_frozen
           /\ txn.price_source = "merchant_record"
           /\ merchant_record_exists(txn, record)
           /\ price_equals_merchant_record(txn, record)
           /\ category_in_allowlist(txn, record)
           /\ amount_within_cap(txn)
           /\ ~live.nonce_seen
           /\ ~live.idempotency_seen
<1> DEFINE out == Outcome(txn, record, live, keys, at)
<1>1. authorize(txn, record, live, keys, at).decision = "ALLOW" <=> Failing(out) = {}
  BY DEF authorize, Block, Allow
<1>2. Failing(out) = {} <=> \A i \in 1..11 : out[Checklist[i].check]
  BY DEF Failing, Checklist
<1>3. (\A i \in 1..11 : out[Checklist[i].check]) <=>
        /\ out[Checklist[1].check] /\ out[Checklist[2].check] /\ out[Checklist[3].check]
        /\ out[Checklist[4].check] /\ out[Checklist[5].check] /\ out[Checklist[6].check]
        /\ out[Checklist[7].check] /\ out[Checklist[8].check] /\ out[Checklist[9].check]
        /\ out[Checklist[10].check] /\ out[Checklist[11].check]
  OBVIOUS
<1>4. @ <=> /\ out.mandate_signed_by_trusted_issuer /\ out.mandate_agent_matches
            /\ out.mandate_not_expired /\ out.agent_not_frozen
            /\ out.money_field_from_merchant_record /\ out.merchant_record_exists
            /\ out.price_equals_merchant_record /\ out.category_in_allowlist
            /\ out.amount_within_cap /\ out.nonce_unused /\ out.idempotency_key_unused
  BY DEF Checklist
<1>5. QED
  BY <1>1, <1>2, <1>3, <1>4 DEF Outcome, WellFormed

\* features.py extract, for every request, record, live state and two readings of
\* the clock: what the gate blocks raises a hard feature unless only the agent is
\* wrong, and what it allows raises at most that the mandate has run out since.
THEOREM FeaturesMirrorGateHolds ==
  ASSUME NEW txn, NEW record, NEW live, NEW keys, NEW at \in Int, NEW later \in Int,
         WellFormed(txn, live), at <= later
  PROVE  LET verdict == authorize(txn, record, live, keys, at)
             features == extract(txn, record, RiskContext(txn, live, keys), later)
         IN /\ verdict.decision = "BLOCK" =>
                 Suspicious(features) \/ txn.agent_id # txn.mandate.agent_id
            /\ verdict.decision = "ALLOW" =>
                 \A f \in DOMAIN features : features[f] => f = "expired" /\ later > at
<1> DEFINE f == extract(txn, record, RiskContext(txn, live, keys), later)
<1>0. /\ is_expired(txn.mandate, at) => f.expired
      /\ f.expired /\ ~is_expired(txn.mandate, at) => later > at
  <2>1. f.expired = is_expired(txn.mandate, later)
    BY DEF extract
  <2>2. is_expired(txn.mandate, at) => is_expired(txn.mandate, later)
    BY DEF is_expired, WellFormed
  <2>3. is_expired(txn.mandate, later) /\ ~is_expired(txn.mandate, at) => later > at
    BY DEF is_expired, WellFormed
  <2>4. QED
    BY <2>1, <2>2, <2>3
<1>1. Suspicious(f) <=>
        \/ f.over_cap \/ f.issuer_untrusted \/ f.price_mismatch \/ f.provenance_untrusted
        \/ f.category_out \/ f.expired \/ f.nonce_seen \/ f.idem_seen \/ f.agent_frozen
        \/ f.sig_invalid \/ f.record_missing
  BY DEF Suspicious, extract
<1>2. ~(f.over_cap) <=> amount_within_cap(txn)
  <2>1. f.over_cap <=> txn.amount > txn.mandate.max_amount
    BY DEF extract
  <2>2. ~(txn.amount > txn.mandate.max_amount) <=> txn.amount <= txn.mandate.max_amount
    BY DEF WellFormed
  <2>3. QED
    BY <2>1, <2>2 DEF amount_within_cap
<1>3. ~(f.issuer_untrusted \/ f.sig_invalid) <=> mandate_signed_by_trusted_issuer(txn.mandate, keys)
  BY DEF extract, RiskContext, mandate_signed_by_trusted_issuer
<1>4. ~(f.record_missing \/ f.price_mismatch \/ f.category_out) <=>
        /\ merchant_record_exists(txn, record)
        /\ price_equals_merchant_record(txn, record)
        /\ category_in_allowlist(txn, record)
  BY DEF extract, record_missing, merchant_record_exists, price_equals_merchant_record,
         category_in_allowlist
<1>5. /\ f.provenance_untrusted <=> txn.price_source # "merchant_record"
      /\ f.nonce_seen <=> live.nonce_seen
      /\ f.idem_seen <=> live.idempotency_seen
      /\ f.agent_frozen <=> live.agent_frozen
  BY DEF extract, RiskContext
<1>6. authorize(txn, record, live, keys, at).decision = "BLOCK" <=>
        ~(authorize(txn, record, live, keys, at).decision = "ALLOW")
  BY GateDecides
<1>7. authorize(txn, record, live, keys, at).decision = "BLOCK" =>
        Suspicious(f) \/ txn.agent_id # txn.mandate.agent_id
  BY <1>0, <1>1, <1>2, <1>3, <1>4, <1>5, <1>6, GateAllows
<1>8. ASSUME authorize(txn, record, live, keys, at).decision = "ALLOW",
             NEW x \in DOMAIN f, f[x]
      PROVE  x = "expired" /\ later > at
  <2>1. /\ ~f.over_cap /\ ~f.issuer_untrusted /\ ~f.price_mismatch /\ ~f.provenance_untrusted
        /\ ~f.category_out /\ ~f.nonce_seen /\ ~f.idem_seen /\ ~f.agent_frozen
        /\ ~f.sig_invalid /\ ~f.record_missing
    BY <1>2, <1>3, <1>4, <1>5, <1>8, GateAllows
  <2>2. x \in {"over_cap", "issuer_untrusted", "price_mismatch", "provenance_untrusted",
               "category_out", "expired", "nonce_seen", "idem_seen", "agent_frozen",
               "sig_invalid", "record_missing"}
    BY <1>8 DEF extract
  <2>3. x = "expired"
    BY <1>8, <2>1, <2>2
  <2>4. ~is_expired(txn.mandate, at)
    BY <1>8, GateAllows
  <2>5. QED
    BY <1>0, <1>8, <2>3, <2>4
<1>9. QED
  BY <1>7, <1>8

\* model.py _heuristic_assess: without a classifier, what the gate allows is held
\* when the item's text has injection markers, and for no other reason, however
\* close to the cap the amount is.
THEOREM HeldForMarkersOnlyHolds ==
  ASSUME NEW txn, NEW record, NEW live, NEW keys, NEW at, WellFormed(txn, live),
         authorize(txn, record, live, keys, at).decision = "ALLOW"
  PROVE  _heuristic_assess(txn, record, RiskContext(txn, live, keys)) =
           IF scan_injection(record) THEN "REVIEW" ELSE "NORMAL"
<1> DEFINE ctx == RiskContext(txn, live, keys)
<1>1. /\ mandate_signed_by_trusted_issuer(txn.mandate, keys)
      /\ ~live.agent_frozen /\ ~live.nonce_seen /\ ~live.idempotency_seen
      /\ txn.price_source = "merchant_record"
      /\ merchant_record_exists(txn, record) /\ price_equals_merchant_record(txn, record)
  BY GateAllows
<1>2. /\ ctx.issuer_trusted /\ ~(ctx.nonce_seen \/ ctx.idem_seen) /\ ~ctx.agent_frozen
      /\ txn.price_source = "merchant_record"
      /\ record # None /\ txn.amount = record.price
  BY <1>1 DEF RiskContext, mandate_signed_by_trusted_issuer, merchant_record_exists,
              price_equals_merchant_record
<1>3. near_cap_score(txn) \in {0, 2}
  BY DEF near_cap_score, Rule
<1>4. Score(txn, record, ctx) = (IF scan_injection(record) THEN 4 ELSE 0) + near_cap_score(txn)
  BY <1>2, <1>3 DEF Score, Rule
<1>5. QED
  BY <1>3, <1>4 DEF _heuristic_assess

-----------------------------------------------------------------------------
CaseOK(c) == WellFormed(c.txn, c.live)

Flags == [nonce_seen : BOOLEAN, idempotency_seen : BOOLEAN, agent_frozen : BOOLEAN]

\* The builders make well-formed cases of whole amounts.
LEMMA BuiltWellFormed ==
  ASSUME NEW key, NEW cap \in Int, NEW cats, NEW expires_at \in Int, NEW offer,
         NEW amount \in Int, NEW source, NEW live \in Flags
  PROVE  CaseOK(Case(_mandate(key, cap, cats, expires_at), offer, amount, source, live))
<1> DEFINE m == _mandate(key, cap, cats, expires_at)
<1>1. m.max_amount = cap /\ m.expires_at = expires_at
  BY DEF _mandate, sign_mandate
<1> HIDE DEF m
<1> DEFINE c == Case(m, offer, amount, source, live)
<1>2. c.txn.amount = amount /\ c.txn.mandate = m /\ c.live = live
  BY DEF Case, _txn
<1>3. QED
  BY <1>1, <1>2 DEF CaseOK, WellFormed, Flags, m

\* The risk model reads the clock no earlier than the gate.
LEMMA NowAndLater ==
  /\ Now \in Int /\ Now - 1 \in Int /\ Now + 1 \in Int
  /\ \A later \in Later : later \in Int /\ Now <= later
  BY DEF Now, Later

\* The live states that the builders pass.
LEMMA CleanFlags ==
  /\ Clean \in Flags
  /\ NonceSeen \in Flags
  /\ KeySeen \in Flags
  /\ Frozen \in Flags
  BY DEF Clean, NonceSeen, KeySeen, Frozen, Flags

\* What both generators draw from.
LEMMA GeneratorInts ==
  ASSUME NEW g \in GeneratorA \cup GeneratorB
  PROVE  /\ g.cap \in Int
         /\ g.over \subseteq Int /\ g.forged \subseteq Int /\ g.delta \subseteq Int
         /\ 2..g.cap \subseteq Int
  BY RedTeamAssumption DEF GeneratorA, GeneratorB

\* Every attack is well formed, whatever its class.
LEMMA AttackWellFormed ==
  ASSUME NEW cls \in DOMAIN AttackReason, NEW g \in GeneratorA \cup GeneratorB,
         NEW c \in _make_attack(cls, g)
  PROVE  CaseOK(c)
<1> USE GeneratorInts, CleanFlags, NowAndLater, BuiltWellFormed
<1>0. cls \in {"budget", "policy", "price", "replay", "category", "double_charge", "injection",
               "state", "expiry"}
  BY DEF AttackReason
<1>1. CASE cls = "budget"
  BY <1>1 DEF _make_attack
<1>2. CASE cls = "policy"
  BY <1>2 DEF _make_attack
<1>3. CASE cls = "price"
  BY <1>3 DEF _make_attack
<1>4. CASE cls = "replay"
  BY <1>4 DEF _make_attack
<1>5. CASE cls = "category"
  BY <1>5 DEF _make_attack
<1>6. CASE cls = "double_charge"
  BY <1>6 DEF _make_attack
<1>7. CASE cls = "injection"
  BY <1>7 DEF _make_attack
<1>8. CASE cls = "state"
  BY <1>8 DEF _make_attack
<1>9. CASE cls = "expiry"
  BY <1>9 DEF _make_attack
<1>10. QED
  BY <1>0, <1>1, <1>2, <1>3, <1>4, <1>5, <1>6, <1>7, <1>8, <1>9

\* Legitimate cases are well-formed.
LEMMA LegitWellFormed ==
  ASSUME NEW cap \in LegitCaps, NEW cats, NEW c \in _make_legit(cap, cats)
  PROVE  CaseOK(c)
  BY RedTeamAssumption, CleanFlags, NowAndLater, BuiltWellFormed DEF _make_legit

\* Fuzzed cases are well-formed.
LEMMA FuzzWellFormed ==
  ASSUME NEW d \in FuzzDraw
  PROVE  CaseOK(FuzzCase(d))
  BY BuiltWellFormed, NowAndLater, RedTeamAssumption DEF FuzzDraw, FuzzCase, Flags

\* So are purchases of an item with an injected description, and by another agent.
LEMMA PresentedWellFormed ==
  ASSUME NEW agent, NEW cap \in LegitCaps, NEW text, NEW source, NEW price \in 1..(cap + 1)
  PROVE  CaseOK(Presented(agent, cap, text, price, source))
<1> DEFINE r == [_record(Footwear, price) EXCEPT !.description = text]
           c == Case(_mandate(IssuerKey, cap, {Footwear}, Now + 1), r, price, source, Clean)
<1>1. CaseOK(c)
  BY RedTeamAssumption, CleanFlags, NowAndLater, BuiltWellFormed
<1>2. /\ Presented(agent, cap, text, price, source).txn.amount = c.txn.amount
      /\ Presented(agent, cap, text, price, source).txn.mandate = c.txn.mandate
      /\ Presented(agent, cap, text, price, source).live = c.live
  BY DEF Presented, Case, _txn
<1>3. QED
  BY <1>1, <1>2 DEF CaseOK, WellFormed
-----------------------------------------------------------------------------
\* The result on record is the gate's, on a well-formed case, and the risk model
\* was given the live state that the gate was given.
Sampled ==
  last # None =>
    /\ CaseOK(last.case) /\ last.assessed_at \in Later
    /\ \E keys :
         /\ last.decision = authorize(last.case.txn, last.case.offer, last.case.live, keys, Now).decision
         /\ last.context = RiskContext(last.case.txn, last.case.live, keys)

\* The result on record is that of the case evaluated.
LEMMA EvaluatedIsSampled ==
  ASSUME NEW kind, NEW cls, NEW c, NEW keys, CaseOK(c), Evaluate(kind, cls, c, keys)
  PROVE  Sampled'
<1>1. /\ last'.decision = authorize(c.txn, c.offer, c.live, keys, Now).decision
      /\ last'.case = c /\ last'.context = RiskContext(c.txn, c.live, keys)
      /\ last'.assessed_at \in Later
  BY DEF Evaluate, CaseResult
<1>2. QED
  BY <1>1 DEF Sampled

\* harness.py evaluate_cases: an invariant of the suite.
THEOREM SampledHolds == Spec => []Sampled
<1>1. Init => Sampled
  BY DEF Init, Sampled
<1>2. Sampled /\ [Next]_last => Sampled'
  <2> SUFFICES ASSUME Sampled, [Next]_last PROVE Sampled'
    OBVIOUS
  <2>1. CASE EvaluateAttack
    BY <2>1, AttackWellFormed, EvaluatedIsSampled DEF EvaluateAttack
  <2>2. CASE EvaluateLegit
    BY <2>2, LegitWellFormed, EvaluatedIsSampled DEF EvaluateLegit
  <2>3. CASE run_fuzz
    BY <2>3, FuzzWellFormed, EvaluatedIsSampled DEF run_fuzz
  <2>4. CASE EvaluateService
    BY <2>4, PresentedWellFormed, EvaluatedIsSampled DEF EvaluateService
  <2>5. CASE NextCase \/ UNCHANGED last
    BY <2>5 DEF NextCase, Sampled
  <2>6. QED
    BY <2>1, <2>2, <2>3, <2>4, <2>5 DEF Next
<1>3. QED
  BY <1>1, <1>2, PTL DEF Spec

\* fuzz_cli.py FuzzReport.clean: the report is clean after any number of
\* iterations over any range of money.
THEOREM FuzzCleanHolds == Spec => []FuzzClean
<1>1. Sampled => FuzzClean
  <2> SUFFICES ASSUME Sampled, last # None, last.decision = "ALLOW"
               PROVE  /\ last.case.txn.amount <= last.case.txn.mandate.max_amount
                      /\ last.case.txn.amount = last.case.offer.price
    BY DEF FuzzClean
  <2>1. PICK keys : WithinMandate(last.case.txn, last.case.offer, keys)
    BY AllowIsWithinMandate DEF Sampled
  <2>2. QED
    BY <2>1 DEF WithinMandate
<1>2. QED
  BY <1>1, SampledHolds, PTL

\* features.py extract: on every case the suite can draw and at either reading, the
\* features differ from the gate in the agent and in a mandate just run out only.
THEOREM MirrorHolds == Spec => []FeaturesMirrorGate
<1>1. Sampled => FeaturesMirrorGate
  BY FeaturesMirrorGateHolds, NowAndLater DEF Sampled, CaseOK, FeaturesMirrorGate
<1>2. QED
  BY <1>1, SampledHolds, PTL

\* model.py _heuristic_assess: the fallback's only hold of a purchase the gate
\* allows is for marked text.
THEOREM HeldHolds == Spec => []HeldForMarkersOnly
<1>1. Sampled => HeldForMarkersOnly
  BY HeldForMarkersOnlyHolds DEF Sampled, CaseOK, HeldForMarkersOnly
<1>2. QED
  BY <1>1, SampledHolds, PTL
-----------------------------------------------------------------------------
\* How each check comes out on a case that the builders made.
LEMMA BuiltOutcome ==
  ASSUME NEW key \in {IssuerKey, AgentKey}, NEW cap \in Int, NEW cats \in SUBSET Category,
         NEW expires_at \in Int, NEW cat \in Category, NEW price \in Int,
         NEW amount, NEW source, NEW live, NEW d,
         d = Case(_mandate(key, cap, cats, expires_at), _record(cat, price), amount, source, live)
  PROVE  LET out == Outcome(d.txn, d.offer, d.live, Trusted, Now) IN
         /\ out.mandate_signed_by_trusted_issuer <=> key = IssuerKey
         /\ out.mandate_agent_matches
         /\ out.mandate_not_expired <=> ~(Now > expires_at)
         /\ out.agent_not_frozen <=> ~live.agent_frozen
         /\ out.money_field_from_merchant_record <=> source = "merchant_record"
         /\ out.merchant_record_exists
         /\ out.price_equals_merchant_record <=> amount = price
         /\ out.category_in_allowlist <=> cat \in cats
         /\ out.amount_within_cap <=> amount <= cap
         /\ out.nonce_unused <=> ~live.nonce_seen
         /\ out.idempotency_key_unused <=> ~live.idempotency_seen
<1> DEFINE m == _mandate(key, cap, cats, expires_at)
           r == _record(cat, price)
<1>1. /\ m.max_amount = cap /\ m.agent_id = "buyer-1" /\ m.allowed_categories = cats
      /\ m.expires_at = expires_at /\ m.public_key = key
      /\ m.signature = [key |-> key, body |-> signed_body(m)]
  BY DEF _mandate, sign_mandate, signed_body
<1>2. verify_signature(m)
  <2>1. signed_body(m) = [mandate_id |-> "m", agent_id |-> "buyer-1", max_amount |-> cap,
                          allowed_categories |-> cats, expires_at |-> expires_at]
    BY DEF _mandate, sign_mandate, signed_body
  <2>2. m.signature # None /\ m.public_key # None
    BY <1>1, <2>1, NoneAssumption
  <2>3. QED
    BY <1>1, <2>2 DEF verify_signature
<1>3. r.sku = "SKU-X" /\ r.category = cat /\ r.price = price /\ r.active = TRUE
  BY DEF _record
<1> HIDE DEF m
<1>4. /\ d.txn.mandate = m /\ d.txn.agent_id = "buyer-1" /\ d.txn.sku = r.sku
      /\ d.txn.amount = amount /\ d.txn.price_source = source /\ d.live = live /\ d.offer = r
  BY DEF Case, _txn, m
<1>5. r # None
  <2>1. r \in [sku : {"SKU-X"}, category : Category, price : Int, active : BOOLEAN,
                description : {"plain", "markers"}]
    BY DEF _record
  <2>2. QED
    BY <2>1, NoneAssumption
<1> HIDE DEF r
<1>6. mandate_signed_by_trusted_issuer(d.txn.mandate, Trusted) <=> key = IssuerKey
  BY <1>1, <1>2, <1>4, NoneAssumption DEF mandate_signed_by_trusted_issuer, Trusted
<1>7. /\ is_expired(d.txn.mandate, Now) <=> Now > expires_at
      /\ merchant_record_exists(d.txn, d.offer)
      /\ price_equals_merchant_record(d.txn, d.offer) <=> amount = price
      /\ category_in_allowlist(d.txn, d.offer) <=> cat \in cats
      /\ amount_within_cap(d.txn) <=> amount <= cap
  BY <1>1, <1>3, <1>4, <1>5
     DEF is_expired, merchant_record_exists, price_equals_merchant_record, category_in_allowlist,
         amount_within_cap
<1>8. QED
  BY <1>1, <1>4, <1>6, <1>7 DEF Outcome
-----------------------------------------------------------------------------
\* The verdict on a case that the builders made, check by check: the earlier
\* checks must pass for a later one to name the reason.
LEMMA Verdict ==
  ASSUME NEW key \in {IssuerKey, AgentKey}, NEW cap \in Int, NEW cats \in SUBSET Category,
         NEW expires_at \in Int, NEW cat \in Category, NEW price \in Int,
         NEW amount \in Int, NEW source, NEW live \in Flags
  PROVE  LET d == Case(_mandate(key, cap, cats, expires_at), _record(cat, price), amount, source,
                       live)
             verdict == authorize(d.txn, d.offer, d.live, Trusted, Now)
             live_issuer == key = IssuerKey /\ ~(Now > expires_at) /\ ~live.agent_frozen
             honest == live_issuer /\ source = "merchant_record"
             priced == honest /\ amount = price
             within == priced /\ cat \in cats /\ amount <= cap
         IN /\ key # IssuerKey => verdict = Block("MANDATE_IMMUTABLE")
            /\ key = IssuerKey /\ Now > expires_at => verdict = Block("MANDATE_EXPIRED")
            /\ key = IssuerKey /\ ~(Now > expires_at) /\ live.agent_frozen
                  => verdict = Block("AGENT_FROZEN")
            /\ live_issuer /\ source # "merchant_record" => verdict = Block("UNTRUSTED_INSTRUCTION")
            /\ honest /\ amount # price => verdict = Block("PRICE_MISMATCH_MERCHANT_RECORD")
            /\ priced /\ cat \notin cats => verdict = Block("CATEGORY_OUTSIDE_MANDATE")
            /\ priced /\ cat \in cats /\ ~(amount <= cap)
                  => verdict = Block("MANDATE_LIMIT_EXCEEDED")
            /\ within /\ live.nonce_seen => verdict = Block("NONCE_REPLAY")
            /\ within /\ ~live.nonce_seen /\ live.idempotency_seen
                  => verdict = Block("DUPLICATE_TRANSACTION")
            /\ within /\ ~live.nonce_seen /\ ~live.idempotency_seen => verdict = Allow
<1> DEFINE d == Case(_mandate(key, cap, cats, expires_at), _record(cat, price), amount, source, live)
           out == Outcome(d.txn, d.offer, d.live, Trusted, Now)
           verdict == authorize(d.txn, d.offer, d.live, Trusted, Now)
           upto(i) == \A j \in 1..i : out[Checklist[j].check]
<1>1. /\ out[Checklist[1].check] <=> key = IssuerKey
      /\ out[Checklist[2].check]
      /\ out[Checklist[3].check] <=> ~(Now > expires_at)
      /\ out[Checklist[4].check] <=> ~live.agent_frozen
      /\ out[Checklist[5].check] <=> source = "merchant_record"
      /\ out[Checklist[6].check]
      /\ out[Checklist[7].check] <=> amount = price
      /\ out[Checklist[8].check] <=> cat \in cats
      /\ out[Checklist[9].check] <=> amount <= cap
      /\ out[Checklist[10].check] <=> ~live.nonce_seen
      /\ out[Checklist[11].check] <=> ~live.idempotency_seen
  <2>1. /\ out.mandate_signed_by_trusted_issuer <=> key = IssuerKey
        /\ out.mandate_agent_matches
        /\ out.mandate_not_expired <=> ~(Now > expires_at)
        /\ out.agent_not_frozen <=> ~live.agent_frozen
        /\ out.money_field_from_merchant_record <=> source = "merchant_record"
        /\ out.merchant_record_exists
        /\ out.price_equals_merchant_record <=> amount = price
        /\ out.category_in_allowlist <=> cat \in cats
        /\ out.amount_within_cap <=> amount <= cap
        /\ out.nonce_unused <=> ~live.nonce_seen
        /\ out.idempotency_key_unused <=> ~live.idempotency_seen
    BY BuiltOutcome
  <2> HIDE DEF out
  <2>2. QED
    BY <2>1 DEF Checklist
<1>2. \A i \in 1..11 : upto(i - 1) /\ ~out[Checklist[i].check]
                        => verdict = Block(Checklist[i].reason)
  BY FirstFailureNames
<1>3. upto(11) => verdict = Allow
  BY NoFailureAllows
<1> HIDE DEF out, verdict, d
<1>4. /\ ~out[Checklist[1].check] => verdict = Block("MANDATE_IMMUTABLE")
      /\ upto(2) /\ ~out[Checklist[3].check] => verdict = Block("MANDATE_EXPIRED")
      /\ upto(3) /\ ~out[Checklist[4].check] => verdict = Block("AGENT_FROZEN")
      /\ upto(4) /\ ~out[Checklist[5].check] => verdict = Block("UNTRUSTED_INSTRUCTION")
      /\ upto(6) /\ ~out[Checklist[7].check] => verdict = Block("PRICE_MISMATCH_MERCHANT_RECORD")
      /\ upto(7) /\ ~out[Checklist[8].check] => verdict = Block("CATEGORY_OUTSIDE_MANDATE")
      /\ upto(8) /\ ~out[Checklist[9].check] => verdict = Block("MANDATE_LIMIT_EXCEEDED")
      /\ upto(9) /\ ~out[Checklist[10].check] => verdict = Block("NONCE_REPLAY")
      /\ upto(10) /\ ~out[Checklist[11].check] => verdict = Block("DUPLICATE_TRANSACTION")
  <2>1. /\ Checklist[1].reason = "MANDATE_IMMUTABLE" /\ Checklist[3].reason = "MANDATE_EXPIRED"
        /\ Checklist[4].reason = "AGENT_FROZEN" /\ Checklist[5].reason = "UNTRUSTED_INSTRUCTION"
        /\ Checklist[7].reason = "PRICE_MISMATCH_MERCHANT_RECORD"
        /\ Checklist[8].reason = "CATEGORY_OUTSIDE_MANDATE"
        /\ Checklist[9].reason = "MANDATE_LIMIT_EXCEEDED"
        /\ Checklist[10].reason = "NONCE_REPLAY" /\ Checklist[11].reason = "DUPLICATE_TRANSACTION"
    BY DEF Checklist
  <2>2. QED
    BY <1>2, <2>1
<1>5. QED
  BY <1>1, <1>3, <1>4 DEF verdict, d
-----------------------------------------------------------------------------
\* What an attack's one wrong thing needs, in every generator.
LEMMA GeneratorFacts ==
  ASSUME NEW g \in GeneratorA \cup GeneratorB
  PROVE  /\ g.cap \in Int
         /\ Footwear \in Category /\ Footwear \in g.cats /\ g.cats \in SUBSET Category
         /\ \A c \in g.off : c \in Category /\ c \notin g.cats
         /\ \A p \in g.over : p \in Int /\ ~(p <= g.cap)
         /\ g.forged \subseteq Int
         /\ \A e \in g.delta : e \in Int /\ e # 0
         /\ \A p \in 2..g.cap : p \in Int /\ p <= g.cap
<1>1. CASE g \in GeneratorA
  BY <1>1, RedTeamAssumption DEF GeneratorA
<1>2. CASE g \in GeneratorB
  <2>1. PICK cap \in OodCaps, cats \in kSubset(1, Category) \cup kSubset(2, Category) :
          g = [cap |-> cap, cats |-> cats \cup {Footwear}, over |-> (cap + 1)..(cap + 2),
               forged |-> (cap + 1)..(cap + 2), delta |-> {-2, -1, 1, 2},
               off |-> Category \ (cats \cup {Footwear})]
    BY <1>2 DEF GeneratorB
  <2>2. cats \subseteq Category
    BY DEF kSubset
  <2>3. QED
    BY <2>1, <2>2, RedTeamAssumption
<1>3. QED
  BY <1>1, <1>2

\* attacks.py: the gate blocks each attack with the code of its class.
LEMMA AttackNamed ==
  ASSUME NEW cls \in DOMAIN AttackReason, NEW g \in GeneratorA \cup GeneratorB,
         NEW c \in _make_attack(cls, g)
  PROVE  authorize(c.txn, c.offer, c.live, Trusted, Now) = Block(AttackReason[cls])
<1>0. cls \in {"budget", "policy", "price", "replay", "category", "double_charge", "injection",
               "state", "expiry"}
  BY DEF AttackReason
<1> DEFINE verdict == authorize(c.txn, c.offer, c.live, Trusted, Now)
<1>a. /\ Clean \in Flags /\ ~Clean.nonce_seen /\ ~Clean.idempotency_seen /\ ~Clean.agent_frozen
      /\ NonceSeen \in Flags /\ NonceSeen.nonce_seen /\ ~NonceSeen.agent_frozen
      /\ KeySeen \in Flags /\ KeySeen.idempotency_seen /\ ~KeySeen.nonce_seen
      /\ ~KeySeen.agent_frozen
      /\ Frozen \in Flags /\ Frozen.agent_frozen
  BY DEF Clean, NonceSeen, KeySeen, Frozen, Flags
<1>b. /\ Now \in Int /\ Now + 1 \in Int /\ Now - 1 \in Int
      /\ ~(Now > Now + 1) /\ Now > Now - 1
  BY DEF Now
<1> USE GeneratorFacts, RedTeamAssumption
<1>1. CASE cls = "budget"
  <2>1. PICK p \in g.over :
          c = Case(_mandate(IssuerKey, g.cap, g.cats, Now + 1), _record(Footwear, p), p,
                   "merchant_record", Clean)
    BY <1>1 DEF _make_attack
  <2>2. verdict = Block("MANDATE_LIMIT_EXCEEDED")
    BY <2>1, <1>a, <1>b, Verdict
  <2>3. QED
    BY <1>1, <2>2 DEF AttackReason
<1>2. CASE cls = "policy"
  <2>1. PICK cap \in g.forged, p \in 2..g.cap :
          c = Case(_mandate(AgentKey, cap, g.cats, Now + 1), _record(Footwear, p), p,
                   "merchant_record", Clean)
    BY <1>2 DEF _make_attack
  <2>2. verdict = Block("MANDATE_IMMUTABLE")
    BY <2>1, <1>a, <1>b, Verdict
  <2>3. QED
    BY <1>2, <2>2 DEF AttackReason
<1>3. CASE cls = "price"
  <2>1. PICK p \in 2..g.cap, e \in g.delta :
          c = Case(_mandate(IssuerKey, g.cap, g.cats, Now + 1), _record(Footwear, p), p + e,
                   "merchant_record", Clean)
    BY <1>3 DEF _make_attack
  <2>2. p \in Int /\ p + e \in Int /\ p + e # p
    OBVIOUS
  <2>3. verdict = Block("PRICE_MISMATCH_MERCHANT_RECORD")
    BY <2>1, <2>2, <1>a, <1>b, Verdict
  <2>4. QED
    BY <1>3, <2>3 DEF AttackReason
<1>4. CASE cls = "replay"
  <2>1. PICK p \in 2..g.cap :
          c = Case(_mandate(IssuerKey, g.cap, g.cats, Now + 1), _record(Footwear, p), p,
                   "merchant_record", NonceSeen)
    BY <1>4 DEF _make_attack
  <2>2. verdict = Block("NONCE_REPLAY")
    BY <2>1, <1>a, <1>b, Verdict
  <2>3. QED
    BY <1>4, <2>2 DEF AttackReason
<1>5. CASE cls = "category"
  <2>1. PICK cat \in g.off, p \in 2..g.cap :
          c = Case(_mandate(IssuerKey, g.cap, g.cats, Now + 1), _record(cat, p), p,
                   "merchant_record", Clean)
    BY <1>5 DEF _make_attack
  <2>2. verdict = Block("CATEGORY_OUTSIDE_MANDATE")
    BY <2>1, <1>a, <1>b, Verdict
  <2>3. QED
    BY <1>5, <2>2 DEF AttackReason
<1>6. CASE cls = "double_charge"
  <2>1. PICK p \in 2..g.cap :
          c = Case(_mandate(IssuerKey, g.cap, g.cats, Now + 1), _record(Footwear, p), p,
                   "merchant_record", KeySeen)
    BY <1>6 DEF _make_attack
  <2>2. verdict = Block("DUPLICATE_TRANSACTION")
    BY <2>1, <1>a, <1>b, Verdict
  <2>3. QED
    BY <1>6, <2>2 DEF AttackReason
<1>7. CASE cls = "injection"
  <2>1. PICK p \in 2..g.cap, source \in PriceSource \ {"merchant_record"} :
          c = Case(_mandate(IssuerKey, g.cap, g.cats, Now + 1), _record(Footwear, p), p,
                   source, Clean)
    BY <1>7 DEF _make_attack
  <2>2. verdict = Block("UNTRUSTED_INSTRUCTION")
    BY <2>1, <1>a, <1>b, Verdict
  <2>3. QED
    BY <1>7, <2>2 DEF AttackReason
<1>8. CASE cls = "state"
  <2>1. PICK p \in 2..g.cap :
          c = Case(_mandate(IssuerKey, g.cap, g.cats, Now + 1), _record(Footwear, p), p,
                   "merchant_record", Frozen)
    BY <1>8 DEF _make_attack
  <2>2. verdict = Block("AGENT_FROZEN")
    BY <2>1, <1>a, <1>b, Verdict
  <2>3. QED
    BY <1>8, <2>2 DEF AttackReason
<1>9. CASE cls = "expiry"
  <2>1. PICK p \in 2..g.cap :
          c = Case(_mandate(IssuerKey, g.cap, g.cats, Now - 1), _record(Footwear, p), p,
                   "merchant_record", Clean)
    BY <1>9 DEF _make_attack
  <2>2. verdict = Block("MANDATE_EXPIRED")
    BY <2>1, <1>a, <1>b, Verdict
  <2>3. QED
    BY <1>9, <2>2 DEF AttackReason
<1>10. QED
  BY <1>0, <1>1, <1>2, <1>3, <1>4, <1>5, <1>6, <1>7, <1>8, <1>9

\* attacks.py: the gate allows what is within the mandate at the right price.
LEMMA LegitAllowed ==
  ASSUME NEW cap \in LegitCaps, NEW cats \in SUBSET Category, NEW c \in _make_legit(cap, cats)
  PROVE  authorize(c.txn, c.offer, c.live, Trusted, Now) = Allow
<1>1. PICK cat \in cats, p \in 1..cap :
        c = Case(_mandate(IssuerKey, cap, cats, Now + 1), _record(cat, p), p, "merchant_record",
                 Clean)
  BY DEF _make_legit
<1>2. /\ cap \in Int /\ p \in Int /\ p <= cap /\ cat \in Category
      /\ Clean \in Flags /\ ~Clean.nonce_seen /\ ~Clean.idempotency_seen /\ ~Clean.agent_frozen
      /\ Now + 1 \in Int /\ ~(Now > Now + 1)
  BY RedTeamAssumption DEF Clean, Flags, Now
<1>3. QED
  BY <1>1, <1>2, Verdict

\* The result on record, by the kind of its case.
Outcomes ==
  last # None =>
    /\ last.kind = "attack" => last.decision = "BLOCK" /\ last.reason = AttackReason[last.attack_class]
    /\ last.kind = "legit" => last.decision = "ALLOW"

\* The result on record carries the gate's decision and reason.
LEMMA EvaluatedOutcome ==
  ASSUME NEW kind, NEW cls, NEW c, NEW keys, Evaluate(kind, cls, c, keys)
  PROVE  LET verdict == authorize(c.txn, c.offer, c.live, keys, Now)
         IN last'.kind = kind /\ last'.attack_class = cls
            /\ last'.decision = verdict.decision /\ last'.reason = verdict.reason
  BY DEF Evaluate, CaseResult

\* harness.py evaluate_cases: attacks and legitimate cases come out as they should.
THEOREM OutcomesHold == Spec => []Outcomes
<1>1. Init => Outcomes
  BY DEF Init, Outcomes
<1>2. Outcomes /\ [Next]_last => Outcomes'
  <2> SUFFICES ASSUME Outcomes, [Next]_last PROVE Outcomes'
    OBVIOUS
  <2>1. CASE EvaluateAttack
    <3>1. PICK cls \in DOMAIN AttackReason, g \in GeneratorA \cup GeneratorB :
            \E c \in _make_attack(cls, g) : Evaluate("attack", cls, c, Trusted)
      BY <2>1 DEF EvaluateAttack
    <3>2. PICK c \in _make_attack(cls, g) : Evaluate("attack", cls, c, Trusted)
      BY <3>1
    <3>3. authorize(c.txn, c.offer, c.live, Trusted, Now) = Block(AttackReason[cls])
      BY AttackNamed
    <3>4. QED
      BY <3>2, <3>3, EvaluatedOutcome DEF Outcomes, Block
  <2>2. CASE EvaluateLegit
    <3>1. PICK cap \in LegitCaps, cats \in SUBSET Category \ {{}} :
            \E c \in _make_legit(cap, cats) : Evaluate("legit", None, c, Trusted)
      BY <2>2 DEF EvaluateLegit
    <3>2. PICK c \in _make_legit(cap, cats) : Evaluate("legit", None, c, Trusted)
      BY <3>1
    <3>3. authorize(c.txn, c.offer, c.live, Trusted, Now) = Allow
      BY LegitAllowed
    <3>4. QED
      BY <3>2, <3>3, EvaluatedOutcome DEF Outcomes, Allow
  <2>3. CASE run_fuzz
    <3>1. PICK d \in FuzzDraw : Evaluate("fuzz", None, FuzzCase(d), None)
      BY <2>3 DEF run_fuzz
    <3>2. QED
      BY <3>1, EvaluatedOutcome DEF Outcomes
  <2>4. CASE EvaluateService
    <3>1. \E c : Evaluate("service", None, c, Trusted)
      BY <2>4 DEF EvaluateService
    <3>2. QED
      BY <3>1, EvaluatedOutcome DEF Outcomes
  <2>5. CASE NextCase \/ UNCHANGED last
    BY <2>5 DEF NextCase, Outcomes
  <2>6. QED
    BY <2>1, <2>2, <2>3, <2>4, <2>5 DEF Next
<1>3. QED
  BY <1>1, <1>2, PTL DEF Spec

\* harness.py evaluate_cases: an attack of any class, from either generator, at
\* any cap and price, is blocked with its own class's code.
THEOREM EveryAttackNamed == Spec => []EveryAttackNamesItsCode
<1>1. Outcomes => EveryAttackNamesItsCode
  BY DEF Outcomes, EveryAttackNamesItsCode
<1>2. QED
  BY <1>1, OutcomesHold, PTL

\* harness.py security_metrics: no legitimate purchase is refused, at any cap.
THEOREM NoFalseBlockHolds == Spec => []NoFalseBlock
<1>1. Outcomes => NoFalseBlock
  BY DEF Outcomes, NoFalseBlock
<1>2. QED
  BY <1>1, OutcomesHold, PTL
-----------------------------------------------------------------------------
\* Which of the ranked signals holds of a case that the builders made.
LEMMA BuiltFeatures ==
  ASSUME NEW key \in {IssuerKey, AgentKey}, NEW cap \in Int, NEW cats \in SUBSET Category,
         NEW expires_at \in Int, NEW cat \in Category, NEW price \in Int,
         NEW amount \in Int, NEW source, NEW live, NEW at \in Int, NEW d,
         d = Case(_mandate(key, cap, cats, expires_at), _record(cat, price), amount, source, live)
  PROVE  LET told == extract(d.txn, d.offer, RiskContext(d.txn, d.live, Trusted), at)
         IN /\ told["over_cap"] <=> amount > cap
            /\ told["issuer_untrusted"] <=> key # IssuerKey
            /\ told["price_mismatch"] <=> amount # price
            /\ told["provenance_untrusted"] <=> source # "merchant_record"
            /\ told["category_out"] <=> cat \notin cats
            /\ told["expired"] <=> at > expires_at
            /\ told["nonce_seen"] <=> live.nonce_seen
            /\ told["idem_seen"] <=> live.idempotency_seen
            /\ told["agent_frozen"] <=> live.agent_frozen
<1> DEFINE m == _mandate(key, cap, cats, expires_at)
           r == _record(cat, price)
           ctx == RiskContext(d.txn, d.live, Trusted)
<1>1. /\ m.max_amount = cap /\ m.allowed_categories = cats
      /\ m.expires_at = expires_at /\ m.public_key = key
  BY DEF _mandate, sign_mandate
<1>2. r.category = cat /\ r.price = price
  BY DEF _record
<1>3. r # None
  <2>1. r \in [sku : {"SKU-X"}, category : Category, price : Int, active : BOOLEAN,
                description : {"plain", "markers"}]
    BY DEF _record
  <2>2. QED
    BY <2>1, NoneAssumption
<1> HIDE DEF m, r
<1>4. /\ d.txn.mandate = m /\ d.txn.amount = amount /\ d.txn.price_source = source
      /\ d.live = live /\ d.offer = r
  BY DEF Case, _txn, m, r
<1>5. /\ ctx.issuer_trusted <=> key = IssuerKey
      /\ ctx.nonce_seen = live.nonce_seen /\ ctx.idem_seen = live.idempotency_seen
      /\ ctx.agent_frozen = live.agent_frozen
  BY <1>1, <1>4, NoneAssumption DEF RiskContext, Trusted
<1> HIDE DEF ctx
<1>6. QED
  BY <1>1, <1>2, <1>3, <1>4, <1>5 DEF extract, is_expired, ctx

\* A signal with at most two stronger ones is among the three reasons.
LEMMA AmongTheReasons ==
  ASSUME NEW txn, NEW record, NEW ctx, NEW at, NEW i \in 1..9, NEW a, NEW b,
         extract(txn, record, ctx, at)[Ranking[i]],
         \A j \in 1..(i - 1) : extract(txn, record, ctx, at)[Ranking[j]] => j \in {a, b}
  PROVE  Ranking[i] \in top_reasons(txn, record, ctx, at)
<1> DEFINE features == extract(txn, record, ctx, at)
           told(f) == CASE f = "injection_markers" -> record # None /\ scan_injection(record)
                        [] f = "near_cap" -> near_cap(txn) /\ ~features.over_cap
                        [] OTHER -> features[f]
           holding == {k \in DOMAIN Ranking : told(Ranking[k])}
           stronger == {j \in holding : j < i}
<1>1. /\ DOMAIN Ranking = 1..11
      /\ \A j \in 1..9 : Ranking[j] # "injection_markers" /\ Ranking[j] # "near_cap"
  BY DEF Ranking
<1>2. \A j \in 1..9 : told(Ranking[j]) <=> features[Ranking[j]]
  BY <1>1
<1> HIDE DEF features, told
<1>3. i \in holding
  BY <1>1, <1>2 DEF features
<1>4. stronger \subseteq {a, b}
  BY <1>1, <1>2 DEF features
<1>5. Cardinality(stronger) < 3
  <2>1. /\ IsFiniteSet({a, b}) /\ Cardinality({a, b}) \in Nat /\ Cardinality({a, b}) <= 2
    <3>1. {a, b} = {a} \cup {b}
      OBVIOUS
    <3>2. IsFiniteSet({a}) /\ Cardinality({a}) = 1
      BY FS_Singleton
    <3>3. IsFiniteSet({a} \cup {b}) /\ Cardinality({a} \cup {b}) \in {1, 2}
      BY <3>2, FS_AddElement
    <3>4. QED
      BY <3>1, <3>3
  <2>2. Cardinality(stronger) \in Nat /\ Cardinality(stronger) <= Cardinality({a, b})
    BY <1>4, <2>1, FS_Subset, FS_CardinalityType
  <2>3. QED
    BY <2>1, <2>2
<1>6. top_reasons(txn, record, ctx, at) =
        {Ranking[k] : k \in {k \in holding : Cardinality({j \in holding : j < k}) < 3}}
  BY DEF top_reasons, features, told
<1>7. QED
  BY <1>3, <1>5, <1>6
\* The class's own signal of an attack is never out-ranked by three others.
LEMMA AttackExplained ==
  ASSUME NEW cls \in DOMAIN AttackReason, NEW g \in GeneratorA \cup GeneratorB,
         NEW c \in _make_attack(cls, g), NEW later \in Later
  PROVE  ClassSignal[cls] \in
           top_reasons(c.txn, c.offer, RiskContext(c.txn, c.live, Trusted), later)
<1>0. cls \in {"budget", "policy", "price", "replay", "category", "double_charge", "injection",
               "state", "expiry"}
  BY DEF AttackReason
<1> DEFINE ctx == RiskContext(c.txn, c.live, Trusted)
           told == extract(c.txn, c.offer, ctx, later)
           Explained(i) == Ranking[i] \in top_reasons(c.txn, c.offer, ctx, later)
<1>a. /\ ~Clean.nonce_seen /\ ~Clean.idempotency_seen /\ ~Clean.agent_frozen
      /\ NonceSeen.nonce_seen
      /\ KeySeen.idempotency_seen /\ ~KeySeen.nonce_seen
      /\ Frozen.agent_frozen /\ ~Frozen.nonce_seen /\ ~Frozen.idempotency_seen
  BY DEF Clean, NonceSeen, KeySeen, Frozen
<1>b. /\ Now \in Int /\ Now + 1 \in Int /\ Now - 1 \in Int
      /\ later \in Int /\ later > Now - 1
  BY DEF Now, Later
<1>c. \A i \in 1..9, k \in {2, 6} :
        told[Ranking[i]] /\ (\A j \in 1..(i - 1) : told[Ranking[j]] => j \in {1, k})
          => Explained(i)
  BY AmongTheReasons
<1>d. /\ Ranking[1] = "over_cap" /\ Ranking[2] = "issuer_untrusted"
      /\ Ranking[3] = "price_mismatch" /\ Ranking[4] = "provenance_untrusted"
      /\ Ranking[5] = "category_out" /\ Ranking[6] = "expired" /\ Ranking[7] = "nonce_seen"
      /\ Ranking[8] = "idem_seen" /\ Ranking[9] = "agent_frozen"
  BY DEF Ranking
<1>e. \A p \in 2..g.cap : p \in Int /\ ~(p > g.cap)
  BY GeneratorFacts
<1> HIDE DEF told, ctx, Explained
<1> USE GeneratorFacts, RedTeamAssumption
<1>1. CASE cls = "budget"
  <2>1. PICK p \in g.over :
          c = Case(_mandate(IssuerKey, g.cap, g.cats, Now + 1), _record(Footwear, p), p,
                   "merchant_record", Clean)
    BY <1>1 DEF _make_attack
  <2>2. told["over_cap"]
    BY <2>1, <1>b, BuiltFeatures DEF told, ctx
  <2>3. QED
    BY <1>1, <1>c, <1>d, <2>2 DEF ClassSignal, Explained, ctx
<1>2. CASE cls = "policy"
  <2>1. PICK cap \in g.forged, p \in 2..g.cap :
          c = Case(_mandate(AgentKey, cap, g.cats, Now + 1), _record(Footwear, p), p,
                   "merchant_record", Clean)
    BY <1>2 DEF _make_attack
  <2>2. told["issuer_untrusted"]
    BY <2>1, <1>b, <1>e, BuiltFeatures DEF told, ctx
  <2>3. QED
    BY <1>2, <1>c, <1>d, <2>2 DEF ClassSignal, Explained, ctx
<1>3. CASE cls = "price"
  <2>1. PICK p \in 2..g.cap, e \in g.delta :
          c = Case(_mandate(IssuerKey, g.cap, g.cats, Now + 1), _record(Footwear, p), p + e,
                   "merchant_record", Clean)
    BY <1>3 DEF _make_attack
  <2>2. p \in Int /\ p + e \in Int /\ p + e # p
    OBVIOUS
  <2>3. told["price_mismatch"]
    BY <2>1, <2>2, <1>b, <1>e, BuiltFeatures DEF told, ctx
  <2>4. QED
    BY <1>3, <1>c, <1>d, <2>3 DEF ClassSignal, Explained, ctx
<1>4. CASE cls = "replay"
  <2>1. PICK p \in 2..g.cap :
          c = Case(_mandate(IssuerKey, g.cap, g.cats, Now + 1), _record(Footwear, p), p,
                   "merchant_record", NonceSeen)
    BY <1>4 DEF _make_attack
  <2>2. /\ told["nonce_seen"] /\ ~told["price_mismatch"] /\ ~told["provenance_untrusted"]
        /\ ~told["category_out"] /\ ~told["issuer_untrusted"]
    BY <2>1, <1>a, <1>b, <1>e, BuiltFeatures DEF told, ctx
  <2>3. QED
    BY <1>4, <1>c, <1>d, <2>2 DEF ClassSignal, Explained, ctx
<1>5. CASE cls = "category"
  <2>1. PICK cat \in g.off, p \in 2..g.cap :
          c = Case(_mandate(IssuerKey, g.cap, g.cats, Now + 1), _record(cat, p), p,
                   "merchant_record", Clean)
    BY <1>5 DEF _make_attack
  <2>2. told["category_out"] /\ ~told["price_mismatch"] /\ ~told["provenance_untrusted"]
    BY <2>1, <1>a, <1>b, <1>e, BuiltFeatures DEF told, ctx
  <2>3. QED
    BY <1>5, <1>c, <1>d, <2>2 DEF ClassSignal, Explained, ctx
<1>6. CASE cls = "double_charge"
  <2>1. PICK p \in 2..g.cap :
          c = Case(_mandate(IssuerKey, g.cap, g.cats, Now + 1), _record(Footwear, p), p,
                   "merchant_record", KeySeen)
    BY <1>6 DEF _make_attack
  <2>2. /\ told["idem_seen"] /\ ~told["price_mismatch"] /\ ~told["provenance_untrusted"]
        /\ ~told["category_out"] /\ ~told["issuer_untrusted"] /\ ~told["nonce_seen"]
    BY <2>1, <1>a, <1>b, <1>e, BuiltFeatures DEF told, ctx
  <2>3. QED
    BY <1>6, <1>c, <1>d, <2>2 DEF ClassSignal, Explained, ctx
<1>7. CASE cls = "injection"
  <2>1. PICK p \in 2..g.cap, source \in PriceSource \ {"merchant_record"} :
          c = Case(_mandate(IssuerKey, g.cap, g.cats, Now + 1), _record(Footwear, p), p,
                   source, Clean)
    BY <1>7 DEF _make_attack
  <2>2. told["provenance_untrusted"] /\ ~told["price_mismatch"]
    BY <2>1, <1>b, <1>e, BuiltFeatures DEF told, ctx
  <2>3. QED
    BY <1>7, <1>c, <1>d, <2>2 DEF ClassSignal, Explained, ctx
<1>8. CASE cls = "state"
  <2>1. PICK p \in 2..g.cap :
          c = Case(_mandate(IssuerKey, g.cap, g.cats, Now + 1), _record(Footwear, p), p,
                   "merchant_record", Frozen)
    BY <1>8 DEF _make_attack
  <2>2. /\ told["agent_frozen"] /\ ~told["price_mismatch"] /\ ~told["provenance_untrusted"]
        /\ ~told["category_out"] /\ ~told["issuer_untrusted"] /\ ~told["nonce_seen"]
        /\ ~told["idem_seen"]
    BY <2>1, <1>a, <1>b, <1>e, BuiltFeatures DEF told, ctx
  <2>3. QED
    BY <1>8, <1>c, <1>d, <2>2 DEF ClassSignal, Explained, ctx
<1>9. CASE cls = "expiry"
  <2>1. PICK p \in 2..g.cap :
          c = Case(_mandate(IssuerKey, g.cap, g.cats, Now - 1), _record(Footwear, p), p,
                   "merchant_record", Clean)
    BY <1>9 DEF _make_attack
  <2>2. /\ told["expired"] /\ ~told["price_mismatch"] /\ ~told["provenance_untrusted"]
        /\ ~told["category_out"]
    BY <2>1, <1>b, <1>e, BuiltFeatures DEF told, ctx
  <2>3. QED
    BY <1>9, <1>c, <1>d, <2>2 DEF ClassSignal, Explained, ctx
<1>10. QED
  BY <1>0, <1>1, <1>2, <1>3, <1>4, <1>5, <1>6, <1>7, <1>8, <1>9

\* features.py top_reasons: whatever cap, price and categories were drawn, the
\* three reasons given for an attack name what is wrong with it.
THEOREM AttackIsExplainedHolds == Spec => []AttackIsExplained
<1>1. Init => AttackIsExplained
  BY DEF Init, AttackIsExplained
<1>2. AttackIsExplained /\ [Next]_last => AttackIsExplained'
  <2> SUFFICES ASSUME AttackIsExplained, [Next]_last PROVE AttackIsExplained'
    OBVIOUS
  <2>1. CASE EvaluateAttack
    <3>1. PICK cls \in DOMAIN AttackReason, g \in GeneratorA \cup GeneratorB :
            \E c \in _make_attack(cls, g) : Evaluate("attack", cls, c, Trusted)
      BY <2>1 DEF EvaluateAttack
    <3>2. PICK c \in _make_attack(cls, g) : Evaluate("attack", cls, c, Trusted)
      BY <3>1
    <3>3. /\ last'.attack_class = cls /\ last'.case = c
          /\ last'.context = RiskContext(c.txn, c.live, Trusted)
          /\ last'.assessed_at \in Later
      BY <3>2 DEF Evaluate, CaseResult
    <3>4. QED
      BY <3>3, AttackExplained DEF AttackIsExplained
  <2>2. CASE EvaluateLegit
    BY <2>2, EvaluatedOutcome DEF EvaluateLegit, AttackIsExplained
  <2>3. CASE run_fuzz
    BY <2>3, EvaluatedOutcome DEF run_fuzz, AttackIsExplained
  <2>4. CASE EvaluateService
    <3>1. \E c : Evaluate("service", None, c, Trusted)
      BY <2>4 DEF EvaluateService
    <3>2. QED
      BY <3>1, EvaluatedOutcome DEF AttackIsExplained
  <2>5. CASE NextCase \/ UNCHANGED last
    BY <2>5 DEF NextCase, AttackIsExplained
  <2>6. QED
    BY <2>1, <2>2, <2>3, <2>4, <2>5 DEF Next
<1>3. QED
  BY <1>1, <1>2, PTL DEF Spec
=============================================================================
