----------------------------- MODULE GateProofs -----------------------------
(***************************************************************************)
(* What the gate guarantees for every request, record, state and clock.    *)
(***************************************************************************)
EXTENDS Gate, TLAPS

\* A decision is ALLOW only where no check fails: a blocking result never
\* carries the ALLOW decision.
LEMMA AllowMeansNoFailure ==
  ASSUME NEW txn, NEW record, NEW live, NEW trusted, NEW at,
         authorize(txn, record, live, trusted, at).decision = "ALLOW"
  PROVE  Failing(Outcome(txn, record, live, trusted, at)) = {}
  BY DEF authorize, Block

\* The result of the gate is ALLOW with code OK or a BLOCK.
LEMMA GateDecides ==
  ASSUME NEW txn, NEW record, NEW live, NEW trusted, NEW at
  PROVE  authorize(txn, record, live, trusted, at).decision \in {"ALLOW", "BLOCK"}
  BY DEF authorize, Block, Allow

\* The first check that fails names the reason, and without one there is none.
LEMMA FirstFailureNames ==
  ASSUME NEW txn, NEW record, NEW live, NEW trusted, NEW at, NEW i \in 1..11,
         ~Outcome(txn, record, live, trusted, at)[Checklist[i].check],
         \A j \in 1..(i - 1) : Outcome(txn, record, live, trusted, at)[Checklist[j].check]
  PROVE  authorize(txn, record, live, trusted, at) = Block(Checklist[i].reason)
<1> DEFINE failing == Failing(Outcome(txn, record, live, trusted, at))
<1>1. DOMAIN Checklist = 1..11
  BY DEF Checklist
<1>2. i \in failing /\ failing \subseteq 1..11
  BY <1>1 DEF Failing
<1>3. \A j \in failing : i <= j
  <2> SUFFICES ASSUME NEW j \in failing, j < i PROVE FALSE
    BY <1>2
  <2>1. j \in 1..(i - 1)
    BY <1>2
  <2>2. ~Outcome(txn, record, live, trusted, at)[Checklist[j].check]
    BY DEF Failing
  <2>3. QED
    BY <2>1, <2>2
<1>4. Min(failing) = i
  <2>1. Min(failing) \in failing /\ \A j \in failing : Min(failing) <= j
    BY <1>2, <1>3 DEF Min
  <2>2. Min(failing) <= i /\ i <= Min(failing)
    BY <1>2, <1>3, <2>1
  <2>3. QED
    BY <1>2, <2>1, <2>2
<1>5. QED
  BY <1>2, <1>4 DEF authorize

\* gate.py: what passes every check is allowed.
LEMMA NoFailureAllows ==
  ASSUME NEW txn, NEW record, NEW live, NEW trusted, NEW at,
         \A j \in 1..11 : Outcome(txn, record, live, trusted, at)[Checklist[j].check]
  PROVE  authorize(txn, record, live, trusted, at) = Allow
<1>1. DOMAIN Checklist = 1..11
  BY DEF Checklist
<1>2. QED
  BY <1>1 DEF authorize, Failing

\* gate.py, the whole checklist: whatever the request, the record and the live
\* state, an ALLOW is for the merchant-of-record price, in an allowed category,
\* within the cap of a mandate whose signature verifies under a pinned key.
THEOREM AllowIsWithinMandate ==
  ASSUME NEW txn, NEW record, NEW live, NEW trusted, NEW at,
         authorize(txn, record, live, trusted, at).decision = "ALLOW"
  PROVE  WithinMandate(txn, record, trusted)
<1> DEFINE out == Outcome(txn, record, live, trusted, at)
<1>1. \A i \in DOMAIN Checklist : out[Checklist[i].check]
  BY AllowMeansNoFailure DEF Failing
<1>2. DOMAIN Checklist = 1..11
  BY DEF Checklist
<1>3. out.mandate_signed_by_trusted_issuer /\ out.mandate_agent_matches
  <2>1. Checklist[1].check = "mandate_signed_by_trusted_issuer"
    BY DEF Checklist
  <2>2. Checklist[2].check = "mandate_agent_matches"
    BY DEF Checklist
  <2>3. QED
    BY <1>1, <1>2, <2>1, <2>2
<1>4. out.price_equals_merchant_record /\ out.category_in_allowlist /\ out.amount_within_cap
  <2>1. Checklist[7].check = "price_equals_merchant_record"
    BY DEF Checklist
  <2>2. Checklist[8].check = "category_in_allowlist"
    BY DEF Checklist
  <2>3. Checklist[9].check = "amount_within_cap"
    BY DEF Checklist
  <2>4. QED
    BY <1>1, <1>2, <2>1, <2>2, <2>3
<1>5. QED
  BY <1>3, <1>4
     DEF Outcome, WithinMandate, mandate_signed_by_trusted_issuer,
         price_equals_merchant_record, category_in_allowlist, amount_within_cap

\* models.py signed_body, verify_signature and the whole checklist: let the pinned
\* keys have signed the drafts of Draft and nothing else.  Whatever was edited in
\* the mandate afterwards, what the gate allows is within the limits of one of those
\* drafts, for its agent and in its time.  Each limit the gate compares with must
\* be among the fields that are signed.
THEOREM AllowedAsSigned ==
  ASSUME NEW txn, NEW record, NEW live, NEW trusted, NEW at, NEW Draft,
         trusted # None,
         \A d \in Draft : {"public_key", "signature"} \subseteq DOMAIN d,
         txn.mandate.public_key \in trusted =>
           \E d \in Draft :
             txn.mandate.signature = sign_mandate(txn.mandate.public_key, d).signature,
         authorize(txn, record, live, trusted, at).decision = "ALLOW"
  PROVE  \E d \in Draft : /\ txn.amount <= d.max_amount
                          /\ record.category \in d.allowed_categories
                          /\ txn.agent_id = d.agent_id
                          /\ ~is_expired(d, at)
<1> DEFINE m == txn.mandate
           out == Outcome(txn, record, live, trusted, at)
<1>1. /\ verify_signature(m) /\ m.public_key \in trusted /\ m.agent_id = txn.agent_id
      /\ record.category \in m.allowed_categories /\ txn.amount <= m.max_amount
  BY AllowIsWithinMandate DEF WithinMandate
<1>2. ~is_expired(m, at)
  <2>1. /\ DOMAIN Checklist = 1..11 /\ Checklist[3].check = "mandate_not_expired"
    BY DEF Checklist
  <2>2. out[Checklist[3].check]
    BY <2>1, AllowMeansNoFailure DEF Failing
  <2>3. out.mandate_not_expired = ~is_expired(m, at)
    BY DEF Outcome
  <2>4. out.mandate_not_expired
    <3> HIDE DEF out
    <3>1. QED
      BY <2>1, <2>2
  <2>5. QED
    BY <2>3, <2>4
<1>3. PICK d \in Draft : m.signature = sign_mandate(m.public_key, d).signature
  BY <1>1
<1>4. sign_mandate(m.public_key, d).signature = [key |-> m.public_key, body |-> signed_body(d)]
  BY DEF sign_mandate
<1>5. signed_body(m) = signed_body(d)
  BY <1>1, <1>3, <1>4 DEF verify_signature
<1>6. /\ m.agent_id = d.agent_id /\ m.max_amount = d.max_amount
      /\ m.allowed_categories = d.allowed_categories /\ m.expires_at = d.expires_at
  BY <1>5 DEF signed_body
<1>7. QED
  BY <1>1, <1>2, <1>6 DEF is_expired

\* gate.py apply_risk: the signal tightens.  It never turns a decision into
\* ALLOW, and a BLOCK keeps its deterministic code.
THEOREM RiskNeverWidens ==
  ASSUME NEW base \in GateResult, NEW action \in RiskAction \cup {None}
  PROVE  /\ apply_risk(base, action).decision = "ALLOW" => base.decision = "ALLOW"
         /\ base.decision = "BLOCK" => apply_risk(base, action) = base
  BY DEF apply_risk, RiskAction
=============================================================================
