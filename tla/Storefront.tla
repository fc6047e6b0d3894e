----------------------------- MODULE Storefront -----------------------------
(***************************************************************************)
(* The HTTP API (backend/bazaar/api/app.py) as buyers and the demo console *)
(* see it: purchases, red-team attacks and AP2 carts, on one database.     *)
(* A handler holds _LOCK from its first to its last statement, so at most  *)
(* one call is under way; meanwhile the merchant may change prices, time   *)
(* passes and the process may be restarted.  Under the lock one            *)
(* authorize() is one step here, AuthorizationService has its inside.      *)
(***************************************************************************)
EXTENDS Negotiation, AP2Adapter

CONSTANTS
  Intent,            \* what buyers ask for: [max_amount, allowed_categories]
  BaseSku,           \* the items they name
  CartClaims,        \* the claims of carts signed outside the API
  DemoVariant,       \* the variants of the AP2 demo that are called
  AttackClass,       \* the classes of the attack console that are called
  Ttl,               \* lifetime of a mandate or cart, in ticks of the clock
  DemoCap,           \* the cap and the budget of the demo
  Discount,          \* what the demo's false prices are off by
  Clock,             \* the readings of the clock
  MaxCalls, MaxStarts, MaxFaults       \* bounds

DemoSku == {"SKU-SHOE-01", "SKU-SHOE-LUX", "SKU-SHOE-INJ", "SKU-WATCH-9"}

ASSUME StorefrontAssumption ==
  /\ \A intent \in Intent : intent.max_amount \in BuyerCap
  /\ BaseSku \subseteq Wanted
  /\ Clock \subseteq Int /\ \E t \in Clock : \A u \in Clock : t <= u
  /\ Ttl \in Nat \ {0} /\ DemoCap \in Nat \ {0} /\ Discount \in Nat \ {0}
  /\ MaxCalls \in Nat /\ MaxStarts \in Nat \ {0} /\ MaxFaults \in Nat
  /\ DemoSku \subseteq DOMAIN DEMO_CATALOG /\ \A sku \in DemoSku : DEMO_CATALOG[sku].active

\* Every start makes new keys.
IssuerKey(n)   == <<"issuer", n>>
BridgeKey(n)   == <<"ap2_issuer", n>>
MerchantKey(n) == <<"merchant", n>>

\* What is signed, and by whom.
Uuids == {"uuid"} \X Nat \X Nat
MandateId == Uuids \cup ({"ap2"} \X ({"uuid"} \X Nat))
Key == {"issuer", "ap2_issuer", "provider"} \X Nat
Categories == {"footwear"} \cup {DEMO_CATALOG[sku].category : sku \in DOMAIN DEMO_CATALOG}
                \cup UNION {intent.allowed_categories : intent \in Intent}
Body == [mandate_id : MandateId, agent_id : {"buyer-1", "ap2"}, max_amount : Int,
         allowed_categories : SUBSET Categories, expires_at : Int]

\* A cart that is signed elsewhere is not named by a uuid that the API made up.
ASSUME CartAssumption ==
  \A claims \in CartClaims : claims.exp \in Int /\ claims.transaction_id \notin Uuids

\* None is no text, amount, key, set of keys, signature or row of the catalog.
ASSUME NoneAssumption ==
  /\ None # "state" /\ None \notin {CartChecklist[i] : i \in DOMAIN CartChecklist}
  /\ None \notin Int /\ None \notin Key
  /\ \A n \in 1..MaxStarts : None # {IssuerKey(n), BridgeKey(n)}
  /\ None \notin [key : Key, body : Body] /\ None \notin MerchantRecord

VARIABLES
  call,              \* the API call under way, or NoCall
  mandates,          \* the table mandates, by id
  issued,            \* s.mandates: those the console may reuse
  transactions,      \* the ledger of attempts
  frozen,            \* buyer-1's row in agents
  answer,            \* the answer to the last call
  spent,             \* history: the carts that were ever allowed
  now, starts, calls, faults

shopVars == <<call, mandates, issued, transactions, frozen, answer, spent, starts, calls, faults>>
vars == <<merchant_catalog, deal, shopVars, now>>

\* Mutant: the provider's key survives a restart, the ledger does not.
ProviderKeyKept(n) == <<"provider", 0>>

ProviderKey(n) == <<"provider", n>>

trusted_issuer_keys == {IssuerKey(starts), BridgeKey(starts)}
ap2_trusted_keys    == [kid \in {"cp-athleto-1"} |-> ProviderKey(starts)]
Uuid(k) == <<"uuid", calls, k>>     \* fresh: each k is used once in a call

-----------------------------------------------------------------------------
\* Mandates and requests of buyer-1.

draft_mandate(id, intent) ==
  [mandate_id |-> id, agent_id |-> "buyer-1", max_amount |-> intent.max_amount,
   allowed_categories |-> intent.allowed_categories, expires_at |-> now + Ttl,
   public_key |-> None, signature |-> None]

DemoIntent == [max_amount |-> DemoCap, allowed_categories |-> {"footwear"}]

build_transaction(mandate, offer, nonce, idempotency_key) ==
  [mandate |-> mandate, agent_id |-> "buyer-1", sku |-> offer.sku, amount |-> offer.price,
   price_source |-> "merchant_record", nonce |-> nonce, idempotency_key |-> idempotency_key]

\* INSERT OR REPLACE: the last mandate with an id wins.
InsertOrReplace(rows) ==
  mandates' = [id \in DOMAIN mandates \cup DOMAIN rows |->
                 IF id \in DOMAIN rows THEN rows[id] ELSE mandates[id]]

save_mandate(m) == InsertOrReplace([id \in {m.mandate_id} |-> m])

\* The call goes on to authorize each of its requests in turn.
Call(endpoint, about, mandate, cart, todo) ==
  [endpoint |-> endpoint, about |-> about, mandate |-> mandate, cart |-> cart, todo |-> todo]
NoCall == Call("none", None, None, None, << >>)
Request(txn, offer) == [txn |-> txn, offer |-> offer]

\* What is answered, and the row of the ledger that it reports, if any.
Answer(decision, reason, about, rows) ==
  [decision |-> decision, reason |-> reason, about |-> about, rows |-> rows]
Refusal(reason, about) == Answer("BLOCK", reason, about, {})
HttpError == Answer("ERROR", None, None, {})

Begin == call = NoCall /\ calls < MaxCalls /\ calls' = calls + 1

-----------------------------------------------------------------------------
\* POST /api/purchase

\* A draft without a cap or a category is answered 400 and changes nothing.
purchase(intent, base_sku, upsell) ==
  LET mandate == sign_mandate(IssuerKey(starts), draft_mandate(Uuid(0), intent))
  IN /\ Begin
     /\ is_confirmable(mandate)
     /\ save_mandate(mandate)
     /\ issued' = issued \cup {mandate}
     /\ negotiate(base_sku, mandate.max_amount, upsell)
     /\ call' = Call("purchase", None, mandate, None, << >>)
     /\ answer' = None
     /\ UNCHANGED <<transactions, frozen, spent, starts, faults>>

Negotiating == Negotiate /\ UNCHANGED shopVars

NoOffer ==
  /\ deal.at = "no_offer" /\ Return
  /\ call' = NoCall /\ answer' = HttpError
  /\ UNCHANGED <<mandates, issued, transactions, frozen, spent, starts, calls, faults>>

OfferReceived ==
  /\ deal.at = "offered" /\ Return
  /\ LET offer == [merchant_catalog[deal.sku] EXCEPT !.price = deal.agreed_price]
         txn == build_transaction(call.mandate, offer, Uuid(6), Uuid(7))
     IN call' = [call EXCEPT !.todo = <<Request(txn, offer)>>]
  /\ UNCHANGED <<mandates, issued, transactions, frozen, answer, spent, starts, calls, faults>>

-----------------------------------------------------------------------------
\* POST /api/attack

\* The item of each class.
AttackSku(cls) == CASE cls = "budget"    -> "SKU-SHOE-LUX"
                    [] cls = "category"  -> "SKU-WATCH-9"
                    [] cls = "injection" -> "SKU-SHOE-INJ"
                    [] OTHER             -> "SKU-SHOE-01"

\* The mandate of each class: forged with a doubled cap and a key of the
\* agent's own, signed by the issuer but out of date, or the one it was given.
AttackMandate(cls, m) ==
  CASE cls = "policy" -> sign_mandate(<<"attacker", calls>>,
                                      [m EXCEPT !.mandate_id = Uuid(2), !.max_amount = 2 * @])
    [] cls = "expiry" -> sign_mandate(IssuerKey(starts),
                                      [m EXCEPT !.mandate_id = Uuid(2), !.expires_at = now - 1])
    [] OTHER          -> m

\* Mutant: the false price is left out.
AttackRequestHonest(cls, txn) ==
  IF cls = "injection" THEN [txn EXCEPT !.price_source = "description"] ELSE txn

AttackRequest(cls, txn) ==
  CASE cls = "injection" -> [txn EXCEPT !.price_source = "description"]
    [] cls = "price"     -> [txn EXCEPT !.amount = @ - Discount]
    [] OTHER             -> txn

\* The requests of one attack: a replay or a double charge is preceded by the
\* purchase whose nonce or key it uses again.
AttackRequests(cls, mandate) ==
  LET offer == list_offer(AttackSku(cls))
      buy(nonce, key) == Request(AttackRequest(cls, build_transaction(mandate, offer, nonce, key)),
                                 offer)
  IN CASE cls = "replay"        -> <<buy(Uuid(0), Uuid(1)), buy(Uuid(0), Uuid(2))>>
       [] cls = "double_charge" -> <<buy(Uuid(0), Uuid(1)), buy(Uuid(2), Uuid(1))>>
       [] OTHER                 -> <<buy(Uuid(0), Uuid(1))>>

\* Mutant: only a new mandate is saved.
SavedIfNew(m, mandate) == [id \in {x.mandate_id : x \in {m} \ issued} |-> m]

\* The rows that it saves: a new mandate, a forged or an expired one.
SavedByAttack(m, mandate) ==
  [id \in {x.mandate_id : x \in {m, mandate} \ issued} |->
     IF id = m.mandate_id THEN m ELSE mandate]

\* Any mandate issued so far, or a new one: if there is none, or none has the
\* id it was asked for.
attack(cls) ==
  /\ Begin
  /\ \E m \in issued \cup {sign_mandate(IssuerKey(starts), draft_mandate(Uuid(3), DemoIntent))} :
       LET mandate == AttackMandate(cls, m)
       IN /\ issued' = issued \cup {m}
          /\ InsertOrReplace(SavedByAttack(m, mandate))
          /\ call' = Call("attack", cls, m, None, AttackRequests(cls, mandate))
  /\ frozen' = (frozen \/ cls = "state")
  /\ answer' = None
  /\ UNCHANGED <<merchant_catalog, deal, transactions, spent, starts, faults>>
-----------------------------------------------------------------------------
\* POST /api/ap2/checkout and /api/ap2/demo

\* The carts that have been signed so far outside the API, by this start's
\* provider or an earlier one's.
SignedCarts ==
  {sign_cart("cp-athleto-1", ProviderKey(n), claims) : n \in 1..starts, claims \in CartClaims}

\* The demo's carts, from the row as it is.
mint_demo_cart(variant) ==
  LET record == list_offer("SKU-SHOE-01")
      price == IF variant = "price_tamper" THEN record.price - Discount ELSE record.price
      claims == [sku |-> record.sku, unit_amount |-> price, quantity |-> 1, total_amount |-> price,
                 payee |-> record.merchant_id, allowed_payees |-> {record.merchant_id},
                 max_amount |-> IF variant = "over_budget" THEN price - Discount ELSE DemoCap,
                 exp |-> IF variant = "expired" THEN now - 1 ELSE now + Ttl,
                 transaction_id |-> Uuid(4)]
      token == sign_cart("cp-athleto-1", ProviderKey(starts), claims)
  IN CASE variant = "signature_tamper" -> tamper_signature(token)
       [] variant = "untrusted_issuer" -> sign_cart("cp-rogue-9", <<"rogue", calls>>, claims)
       [] OTHER                        -> token

\* The price the gate will compare with is the one the merchant signs now.
OfferFor(record) ==
  LET att == attest("merch-athleto", MerchantKey(starts), record, now + Ttl)
  IN IF verify_price_attestation(att, {MerchantKey(starts)}, now)
     THEN signed_offer(record, att) ELSE record

\* _run_ap2() up to its call of authorize(): refused by the rail, refused for
\* want of a row, an exception out of confirm_and_sign(), or handed to the gate.
run_ap2(token, about) ==
  LET refusal == verify_cart_mandate(token, ap2_trusted_keys, now)
      cart == AP2CartMandate(token, Uuid(5))
      record == OfferFor(get(cart.sku))
      draft == draft_of_cart(cart, record)
      mandate == sign_mandate(BridgeKey(starts), draft)
  IN /\ Begin
     /\ \/ /\ refusal # None
           /\ answer' = Refusal(refusal, about)
           /\ UNCHANGED <<call, mandates>>
        \/ /\ refusal = None /\ ~Available(token.sku)
           /\ answer' = Refusal("sku_not_found", about)
           /\ UNCHANGED <<call, mandates>>
        \/ /\ refusal = None /\ Available(token.sku) /\ ~is_confirmable(draft)
           /\ answer' = HttpError
           /\ UNCHANGED <<call, mandates>>
        \/ /\ refusal = None /\ Available(token.sku) /\ is_confirmable(draft)
           /\ save_mandate(mandate)
           /\ call' = Call("ap2", about, mandate, token,
                            <<Request(to_bazaar(cart, mandate, Uuid(0)), record)>>)
           /\ answer' = None
     /\ UNCHANGED <<merchant_catalog, deal, issued, transactions, frozen, spent, starts, faults>>

ap2_checkout == \E token \in SignedCarts : run_ap2(token, None)
ap2_demo(variant) == run_ap2(mint_demo_cart(variant), variant)
-----------------------------------------------------------------------------
\* AuthorizationService.authorize() on the next request of the call.

Allowed == {row \in transactions : row.decision = "ALLOW"}

Live(txn) ==
  [nonce_seen       |-> \E row \in Allowed : row.txn.nonce = txn.nonce,
   idempotency_seen |-> \E row \in Allowed : row.txn.idempotency_key = txn.idempotency_key,
   agent_frozen     |-> frozen /\ txn.agent_id = "buyer-1"]

Row(request) ==
  LET live == Live(request.txn)
      result == authorize(request.txn, request.offer, live, trusted_issuer_keys, now)
  IN [endpoint |-> call.endpoint, txn |-> request.txn, offer |-> request.offer, live |-> live,
      at |-> now, mandate |-> call.mandate, cart |-> call.cart,
      decision |-> result.decision, reason |-> result.reason]

Record(row) ==
  /\ transactions' = transactions \cup {row}
  /\ spent' = IF row.endpoint = "ap2" /\ row.decision = "ALLOW" THEN spent \cup {row.cart} ELSE spent

\* Mutant: the state attack leaves the agent frozen.
StaysFrozen == frozen' = frozen

\* The state attack unfreezes the agent once it has its answer.
Unfreeze == frozen' = (frozen /\ call.about # "state")

Authorize ==
  /\ call.todo # << >>
  /\ LET row == Row(Head(call.todo))
     IN /\ Record(row)
        /\ IF Len(call.todo) > 1
           THEN call' = [call EXCEPT !.todo = Tail(@)] /\ UNCHANGED <<frozen, answer>>
           ELSE /\ call' = NoCall
                /\ Unfreeze
                /\ answer' = Answer(row.decision, row.reason, call.about, {row})
  /\ UNCHANGED <<merchant_catalog, deal, mandates, issued, starts, calls, faults>>

\* A database error inside authorize(), before or after its commit: the
\* handler ends there.
AuthorizeRaises ==
  /\ faults < MaxFaults /\ faults' = faults + 1
  /\ call.todo # << >>
  /\ Record(Row(Head(call.todo))) \/ UNCHANGED <<transactions, spent>>
  /\ call' = NoCall /\ answer' = HttpError
  /\ UNCHANGED <<merchant_catalog, deal, mandates, issued, frozen, starts, calls>>
-----------------------------------------------------------------------------
Init ==
  /\ NegotiationInit
  /\ call = NoCall /\ answer = None /\ frozen = FALSE
  /\ mandates = << >> /\ issued = {} /\ transactions = {}
  /\ spent = {} /\ now = Min(Clock) /\ starts = 1 /\ calls = 0 /\ faults = 0

\* Keys, mandates and database are made anew.
Restart ==
  /\ starts < MaxStarts /\ starts' = starts + 1
  /\ Reseed
  /\ call' = NoCall /\ answer' = None /\ frozen' = FALSE
  /\ mandates' = << >> /\ issued' = {} /\ transactions' = {}
  /\ UNCHANGED <<spent, now, calls, faults>>

Tick ==
  /\ \E t \in Clock : t > now /\ now' = t
  /\ UNCHANGED <<merchant_catalog, deal, shopVars>>

Handlers ==
  \/ \E intent \in Intent, base_sku \in BaseSku, upsell \in BOOLEAN :
       purchase(intent, base_sku, upsell)
  \/ Negotiating \/ NoOffer \/ OfferReceived
  \/ \E cls \in AttackClass : attack(cls)
  \/ ap2_checkout
  \/ \E variant \in DemoVariant : ap2_demo(variant)
  \/ Authorize \/ AuthorizeRaises

Next ==
  \/ Handlers /\ UNCHANGED now
  \/ Reprice /\ UNCHANGED <<deal, shopVars, now>>
  \/ Restart
  \/ Tick

Spec == Init /\ [][Next]_vars
-----------------------------------------------------------------------------
Row_OK(row) ==
  /\ row.endpoint \in {"purchase", "attack", "ap2"}
  /\ row.decision \in {"ALLOW", "BLOCK"} /\ row.reason \in Reason
  /\ row.txn.mandate.mandate_id \in DOMAIN mandates      \* the foreign key

\* Every attempt refers to a saved mandate, a negotiation runs for a purchase
\* only, and what is left to do is at most an attack's two requests.
TypeOK ==
  /\ DOMAIN merchant_catalog = DOMAIN DEMO_CATALOG
  /\ deal.at # "idle" => call.endpoint = "purchase" /\ call.todo = << >>
  /\ call # NoCall => /\ call.endpoint \in {"purchase", "attack", "ap2"}
                      /\ Len(call.todo) <= 2
                      /\ call.mandate.mandate_id \in DOMAIN mandates
  /\ \A id \in DOMAIN mandates : mandates[id].mandate_id = id
  /\ \A row \in transactions : Row_OK(row)
  /\ frozen \in BOOLEAN /\ now \in Clock
  /\ starts \in 1..MaxStarts /\ calls \in 0..MaxCalls /\ faults \in 0..MaxFaults

\* The walls of the negotiation and the checks of the gate agree: an offer that
\* negotiate() returned is never refused over its price, source, cap or record,
\* however prices moved, only for what the negotiation does not look at.
PurchaseRefusedForCause ==
  \A row \in transactions :
    row.endpoint = "purchase" /\ row.decision = "BLOCK" =>
      \/ row.reason = "MANDATE_EXPIRED"          /\ row.at > row.txn.mandate.expires_at
      \/ row.reason = "AGENT_FROZEN"             /\ faults > 0
      \/ row.reason = "CATEGORY_OUTSIDE_MANDATE"
           /\ row.offer.category \notin row.txn.mandate.allowed_categories

\* An allowed cart is one that the registered provider of the running process
\* signed, in time, for the merchant's price, within the budget and for a payee
\* that the user named (docs/AP2_RAIL.md, division of trust).
AllowedCartWasSigned ==
  \A row \in Allowed : row.endpoint = "ap2" =>
    LET cart == row.cart
    IN /\ cart.kid = "cp-athleto-1" /\ cart.key = ProviderKey(starts)
       /\ row.at <= cart.exp
       /\ cart.sku = row.offer.sku
       /\ cart.total_amount = cart.unit_amount * cart.quantity
       /\ cart.total_amount = row.offer.price
       /\ cart.max_amount # None => cart.total_amount <= cart.max_amount
       /\ cart.allowed_payees # {} => cart.payee \in cart.allowed_payees

\* A signed cart that names its transaction is allowed once: not again when it
\* is presented again, nor when the price has changed, nor after a restart
\* which forgets every key that was ever used (ap2.py: idempotency_key).
CartSpentOnce ==
  [][\A row \in transactions' \ transactions :
       row.decision = "ALLOW" /\ row.endpoint = "ap2" /\ row.cart.transaction_id # None
         => row.cart \notin spent]_vars

\* The demonstrations show what they say, whatever came before them, as long as
\* the mandate and the price they pick up suit them: an attack is blocked with
\* the code of its class (tests/integration/test_api.py: EXPECTED), an AP2
\* variant gets its row of the table in docs/AP2_RAIL.md.
ExpectedAttack ==
  [budget   |-> "MANDATE_LIMIT_EXCEEDED",   policy        |-> "MANDATE_IMMUTABLE",
   price    |-> "PRICE_MISMATCH_MERCHANT_RECORD", replay  |-> "NONCE_REPLAY",
   category |-> "CATEGORY_OUTSIDE_MANDATE", double_charge |-> "DUPLICATE_TRANSACTION",
   injection |-> "UNTRUSTED_INSTRUCTION",   state         |-> "AGENT_FROZEN",
   expiry   |-> "MANDATE_EXPIRED"]
ExpectedVariant ==
  [legit       |-> "OK",                     price_tamper     |-> "PRICE_MISMATCH_MERCHANT_RECORD",
   over_budget |-> "MANDATE_LIMIT_EXCEEDED", expired          |-> "expired",
   signature_tamper |-> "invalid_signature", untrusted_issuer |-> "untrusted_issuer"]

ASSUME DemoAssumption ==
  AttackClass \subseteq DOMAIN ExpectedAttack /\ DemoVariant \subseteq DOMAIN ExpectedVariant

AttackSuits(row, cls) ==
  LET m == row.mandate
      covers == row.offer.category \in m.allowed_categories
  IN \/ cls \in {"policy", "expiry"}
     \/ /\ row.at <= m.expires_at
        /\ row.live.agent_frozen <=> cls = "state"
        /\ CASE cls = "budget"   -> covers /\ row.offer.price > m.max_amount
             [] cls = "category" -> ~covers
             [] cls \in {"replay", "double_charge"} -> covers /\ row.offer.price <= m.max_amount
             [] OTHER            -> TRUE

VariantSuits(row, variant) ==
  /\ row.at <= row.txn.mandate.expires_at
  /\ variant = "legit" => row.offer.price <= DemoCap

DemonstrationNamesItsCode ==
  answer # None /\ answer.about # None =>
    IF answer.about \in DOMAIN ExpectedAttack
    THEN (\A row \in answer.rows : AttackSuits(row, answer.about))
           => answer.reason = ExpectedAttack[answer.about]
    ELSE (\A row \in answer.rows : VariantSuits(row, answer.about))
           => answer.reason = ExpectedVariant[answer.about]

\* The console's freeze of the buyer does not outlast its attack, unless
\* authorize() failed in the middle of it.
FreezeEndsWithAttack ==
  frozen => faults > 0 \/ call.about = "state"

\* What the schema says of mandates, "immutable once signed": the row that an
\* allowed purchase refers to is the mandate it was allowed under.
MandateRowKept ==
  \A row \in Allowed : mandates[row.txn.mandate.mandate_id] = row.txn.mandate
=============================================================================
