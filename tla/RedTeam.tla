------------------------------- MODULE RedTeam -------------------------------
(***************************************************************************)
(* The red-team suite run through the pure gate: the two case generators   *)
(* (redteam/attacks.py), the evaluation loop (redteam/harness.py) and the  *)
(* spend-cap fuzzer (redteam/fuzz_cli.py).  A random draw is a choice      *)
(* from the range it is drawn from, on a scale of a few units of money.    *)
(* The suite asks the risk model about the same cases as the gate.         *)
(***************************************************************************)
EXTENDS RiskModel

CONSTANTS
  Category,          \* the catalog's categories
  Footwear,          \* the category every attack of either generator buys in
  Wearables,         \* the off-mandate category of the first generator
  IssuerKey,         \* the trusted issuer's key
  AgentKey,          \* a key an agent generated for itself
  Cap,               \* the cap of the first generator (attacks.py _CAP)
  OodCaps,           \* the caps of the second generator
  LegitCaps,         \* the caps of the legitimate cases
  FuzzMax            \* largest cap, price and amount the fuzzer draws

ASSUME RedTeamAssumption ==
  /\ {Footwear, Wearables} \subseteq Category /\ Footwear # Wearables
  /\ IssuerKey # AgentKey
  /\ FuzzMax \in Nat
  /\ Cap \in Nat \ {0} /\ OodCaps \subseteq Nat \ {0} /\ LegitCaps \subseteq Nat \ {0}

\* None is no key, signature, record or set of keys.
ASSUME NoneAssumption ==
  /\ None \notin {IssuerKey, AgentKey} /\ None # {IssuerKey}
  /\ None \notin [key : {IssuerKey, AgentKey},
                 body : [mandate_id : {"m"}, agent_id : {"buyer-1"}, max_amount : Int,
                         allowed_categories : SUBSET Category, expires_at : Int]]
  /\ None \notin [sku : {"SKU-X"}, category : Category, price : Int, active : BOOLEAN,
                 description : {"plain", "markers"}]

VARIABLE last        \* the CaseResult of the present iteration, with the case it is about

Now == 10            \* what the gate reads off the clock; expiries are relative to it
Later == {Now, Now + 2}   \* what the risk model may read off it afterwards
Trusted == {IssuerKey}

AttackReason ==
  [budget   |-> "MANDATE_LIMIT_EXCEEDED",   policy        |-> "MANDATE_IMMUTABLE",
   price    |-> "PRICE_MISMATCH_MERCHANT_RECORD", replay  |-> "NONCE_REPLAY",
   category |-> "CATEGORY_OUTSIDE_MANDATE", double_charge |-> "DUPLICATE_TRANSACTION",
   injection |-> "UNTRUSTED_INSTRUCTION",   state         |-> "AGENT_FROZEN",
   expiry   |-> "MANDATE_EXPIRED"]

PriceSource == {"merchant_record", "seller_claim", "description", "agent_invented"}

-----------------------------------------------------------------------------
\* The builders.

_mandate(key, cap, cats, expires_at) ==
  sign_mandate(key, [mandate_id |-> "m", agent_id |-> "buyer-1", max_amount |-> cap,
                     allowed_categories |-> cats, expires_at |-> expires_at,
                     public_key |-> None, signature |-> None])

_record(category, price) ==
  [sku |-> "SKU-X", category |-> category, price |-> price, active |-> TRUE,
   description |-> "plain"]

_txn(mandate, offer, amount, price_source) ==
  [mandate |-> mandate, agent_id |-> "buyer-1", sku |-> offer.sku,
   amount |-> amount, price_source |-> price_source]

\* The live state the gate is given: nothing against the purchase, or one thing.
Clean == [nonce_seen |-> FALSE, idempotency_seen |-> FALSE, agent_frozen |-> FALSE]
NonceSeen == [Clean EXCEPT !.nonce_seen = TRUE]
KeySeen == [Clean EXCEPT !.idempotency_seen = TRUE]
Frozen == [Clean EXCEPT !.agent_frozen = TRUE]

Case(m, offer, amount, source, live) ==
  [txn |-> _txn(m, offer, amount, source), offer |-> offer, live |-> live]

\* What distinguishes the two generators.
GeneratorA ==
  {[cap |-> Cap, cats |-> {Footwear}, over |-> (Cap + 1)..(2 * Cap),
    forged |-> {2 * Cap}, delta |-> {-2, 2}, off |-> {Wearables}]}
GeneratorB ==
  {[cap |-> cap, cats |-> cats \cup {Footwear}, over |-> (cap + 1)..(cap + 2),
    forged |-> (cap + 1)..(cap + 2), delta |-> {-2, -1, 1, 2},
    off |-> Category \ (cats \cup {Footwear})]
   : cap \in OodCaps, cats \in kSubset(1, Category) \cup kSubset(2, Category)}

\* The cases of one attack class: a clean purchase with one thing wrong.
_make_attack(cls, g) ==
  LET m == _mandate(IssuerKey, g.cap, g.cats, Now + 1)
      prices == 2..g.cap               \* no less than the largest delta
      buy(mandate, p, live) ==
        Case(mandate, _record(Footwear, p), p, "merchant_record", live)
  IN CASE cls = "budget"    -> {buy(m, p, Clean) : p \in g.over}
       [] cls = "policy"    -> {buy(_mandate(AgentKey, cap, g.cats, Now + 1), p, Clean) :
                                  cap \in g.forged, p \in prices}
       [] cls = "price"     -> {Case(m, _record(Footwear, p), p + d, "merchant_record", Clean) :
                                  p \in prices, d \in g.delta}
       [] cls = "replay"    -> {buy(m, p, NonceSeen) : p \in prices}
       [] cls = "double_charge" ->
                               {buy(m, p, KeySeen) : p \in prices}
       [] cls = "category"  -> {Case(m, _record(c, p), p, "merchant_record", Clean) :
                                  c \in g.off, p \in prices}
       [] cls = "injection" -> {Case(m, _record(Footwear, p), p, s, Clean) :
                                  p \in prices, s \in PriceSource \ {"merchant_record"}}
       [] cls = "state"     -> {buy(m, p, Frozen) : p \in prices}
       [] cls = "expiry"    -> {buy(_mandate(IssuerKey, g.cap, g.cats, Now - 1), p, Clean) :
                                  p \in prices}

\* Within-policy purchases in any allowed category, the cap itself included.
_make_legit(cap, cats) ==
  {Case(_mandate(IssuerKey, cap, cats, Now + 1), _record(c, p), p, "merchant_record", Clean) :
     c \in cats, p \in 1..cap}

\* What the fuzzer draws, all freely.
FuzzDraw ==
  [cap : 1..FuzzMax, price : 0..FuzzMax, amount : 0..FuzzMax, cats : {{Footwear}, {Wearables}},
   expires_at : {Now - 1, Now, Now + 1}, source : {"merchant_record", "description"},
   active : BOOLEAN,
   live : [nonce_seen : BOOLEAN, idempotency_seen : BOOLEAN, agent_frozen : BOOLEAN]]

FuzzCase(d) ==
  Case(_mandate(IssuerKey, d.cap, d.cats, d.expires_at),
       [_record(Footwear, d.price) EXCEPT !.active = d.active], d.amount, d.source, d.live)
-----------------------------------------------------------------------------
\* One iteration of evaluate_cases or of run_fuzz.

CaseResult(kind, cls, c, trusted, later) ==
  LET result == authorize(c.txn, c.offer, c.live, trusted, Now)
  IN [kind |-> kind, attack_class |-> cls, decision |-> result.decision, reason |-> result.reason,
      case |-> c, context |-> RiskContext(c.txn, c.live, trusted), assessed_at |-> later]

\* Every case is evaluated on its own; nothing is carried to the next.  The gate
\* reads the clock, and then the risk model reads it again.
Evaluate(kind, cls, c, trusted) ==
  /\ last = None
  /\ \E later \in Later : last' = CaseResult(kind, cls, c, trusted, later)

NextCase == last # None /\ last' = None

EvaluateAttack ==
  \E cls \in DOMAIN AttackReason, g \in GeneratorA \cup GeneratorB :
    \E c \in _make_attack(cls, g) : Evaluate("attack", cls, c, Trusted)

EvaluateLegit ==
  \E cap \in LegitCaps, cats \in SUBSET Category \ {{}} :
    \E c \in _make_legit(cap, cats) : Evaluate("legit", None, c, Trusted)

\* No issuer is pinned.
run_fuzz == \E d \in FuzzDraw : Evaluate("fuzz", None, FuzzCase(d), None)

\* A purchase made with the human's mandate, by the agent it names or by another.
Presented(agent, cap, text, price, source) ==
  [Case(_mandate(IssuerKey, cap, {Footwear}, Now + 1),
        [_record(Footwear, price) EXCEPT !.description = text], price, source, Clean)
     EXCEPT !.txn.agent_id = agent]

\* The service asks both about a purchase that neither generator draws: of an item
\* whose text carries an injection payload, by an agent that took the price from
\* the text, or by one that the mandate does not name.
EvaluateService ==
  \E agent \in {"buyer-1", "buyer-2"}, cap \in LegitCaps, text \in {"plain", "markers"},
     source \in {"merchant_record", "description"} :
    \E price \in 1..(cap + 1) :
      Evaluate("service", None, Presented(agent, cap, text, price, source), Trusted)

Init == last = None
Next == EvaluateAttack \/ EvaluateLegit \/ run_fuzz \/ EvaluateService \/ NextCase
Spec == Init /\ [][Next]_last
-----------------------------------------------------------------------------
\* Every attack of every class is blocked, and with the code of its own class
\* (harness.evaluate_cases: passed): no earlier check of the fixed order hides
\* the one the attack was built to trip, whatever price or cap was drawn.
EveryAttackNamesItsCode ==
  last # None /\ last.kind = "attack" =>
    last.decision = "BLOCK" /\ last.reason = AttackReason[last.attack_class]

\* No within-policy purchase is refused, at the cap itself included
\* (harness.security_metrics: false_block_rate is 0).
NoFalseBlock == last # None /\ last.kind = "legit" => last.decision = "ALLOW"

\* The fuzzer's report is clean: nothing is allowed above the signed cap or off
\* the merchant-of-record price (FuzzReport.clean).
FuzzClean ==
  last # None /\ last.decision = "ALLOW" =>
    /\ last.case.txn.amount <= last.case.txn.mandate.max_amount
    /\ last.case.txn.amount = last.case.offer.price

\* Two lists of conditions, written apart, agree but for two things: what the gate
\* blocks raises a hard feature of the classifier, unless all that is wrong is the
\* agent (gate.py:81-88 has no feature), and what it allows raises none, unless the
\* mandate ran out between the two readings of the clock (features.py:125).
FeaturesMirrorGate ==
  last # None =>
    LET txn == last.case.txn
        features == extract(txn, last.case.offer, last.context, last.assessed_at)
    IN /\ last.decision = "BLOCK" => Suspicious(features) \/ txn.agent_id # txn.mandate.agent_id
       /\ last.decision = "ALLOW" =>
            \A f \in DOMAIN features : features[f] => f = "expired" /\ last.assessed_at > Now

\* What the gate allows the rules hold only for text with injection markers:
\* at any amount up to the cap a plain item is not held
\* (harness.risk_classifier_metrics: no false positives).
HeldForMarkersOnly ==
  last # None /\ last.decision = "ALLOW" =>
    _heuristic_assess(last.case.txn, last.case.offer, last.context) =
      IF scan_injection(last.case.offer) THEN "REVIEW" ELSE "NORMAL"

ClassSignal ==
  [budget |-> "over_cap",       policy |-> "issuer_untrusted",  price |-> "price_mismatch",
   replay |-> "nonce_seen",     category |-> "category_out",    double_charge |-> "idem_seen",
   state |-> "agent_frozen",    expiry |-> "expired",     injection |-> "provenance_untrusted"]

\* An attack that is held can be explained: the three reasons shown name what
\* is wrong with it, never only something else (top_reasons()).
AttackIsExplained ==
  last # None /\ last.kind = "attack" =>
    ClassSignal[last.attack_class] \in
      top_reasons(last.case.txn, last.case.offer, last.context, last.assessed_at)
=============================================================================
