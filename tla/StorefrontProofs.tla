--------------------------- MODULE StorefrontProofs ---------------------------
(***************************************************************************)
(* The promises of the storefront, for every catalog, every cap, every     *)
(* repricing and every number of calls: an offer lies within the walls of  *)
(* the negotiation, a purchase is refused for a cause the buyer can be     *)
(* shown, a cart pays once, a demonstration names the check it is meant to *)
(* trip.                                                                   *)
(*                                                                         *)
(* The API negotiates as NegotiationSpec says, and NegotiationSpec keeps   *)
(* the walls.  A call's answer depends on what the call asked for, so its  *)
(* invariant grows with the call: the shape of the state, the mandates     *)
(* that are saved, the carts that were spent, the identifiers that were    *)
(* drawn, and then what each kind of call has still to ask and has been    *)
(* answered.                                                               *)
(***************************************************************************)
EXTENDS Storefront, GateProofs, WellFoundedInduction
-----------------------------------------------------------------------------
\* The negotiation.

Sku == DOMAIN DEMO_CATALOG

\* Repricing changes prices only.
CatalogKept ==
  /\ merchant_catalog \in [Sku -> MerchantRecord]
  /\ \A sku \in Sku : /\ merchant_catalog[sku].sku = sku
                      /\ merchant_catalog[sku].floor_price = DEMO_CATALOG[sku].floor_price
                      /\ merchant_catalog[sku].category = DEMO_CATALOG[sku].category
                      /\ merchant_catalog[sku].active = DEMO_CATALOG[sku].active

Deals == [at : {"idle", "upsell", "read", "finalize", "no_offer", "offered"}, sku : Wanted,
          buyer_cap : Nat, list_price : Nat, floor_price : Nat, agreed_price : Int]

\* From the agreement on, the price lies within the walls, and the lower wall
\* is the floor that the merchant of record will clamp to.
DealWithinWalls ==
  deal.at \in {"finalize", "offered"} =>
    /\ deal.sku \in Sku
    /\ deal.floor_price = DEMO_CATALOG[deal.sku].floor_price
    /\ deal.floor_price <= deal.agreed_price
    /\ deal.agreed_price <= Smaller(deal.list_price, deal.buyer_cap)

\* Only an item that is on sale is offered.
OfferIsActive == deal.at = "offered" => DEMO_CATALOG[deal.sku].active

NegotiationInv == CatalogKept /\ deal \in Deals /\ DealWithinWalls /\ OfferIsActive

-----------------------------------------------------------------------------
\* The clamp of negotiate(): whatever the midpoint of the concession, the
\* agreed price lies between the floor and the smaller of list price and cap.
LEMMA AgreedWithinWalls ==
  ASSUME NEW record \in MerchantRecord, NEW cap \in Nat, Viable(record, cap)
  PROVE  /\ agreed(record, cap) \in Int
         /\ record.floor_price <= agreed(record, cap)
         /\ agreed(record, cap) <= Smaller(record.price, cap)
<1> DEFINE midpoint == (record.floor_price + counter(record, record.floor_price)) \div 2
<1>1. record.price \in Nat /\ record.floor_price \in Nat
  BY DEF MerchantRecord
<1>2. counter(record, record.floor_price) \in Int
  BY <1>1 DEF counter, Larger, Smaller
<1>3. midpoint \in Int
  BY <1>1, <1>2
<1> HIDE DEF midpoint
<1>4. agreed(record, cap) = Larger(record.floor_price, Smaller(midpoint, Smaller(record.price, cap)))
  BY DEF agreed, midpoint
<1> QED BY <1>1, <1>3, <1>4 DEF Larger, Smaller, Viable

\* The clamp of make_offer(): a request at or above the floor is never raised,
\* whatever the list price has become.
LEMMA OfferNotAboveRequest ==
  ASSUME NEW sku \in Sku, NEW requested \in Int, CatalogKept,
         DEMO_CATALOG[sku].floor_price <= requested
  PROVE  /\ make_offer(sku, requested).price \in Int
         /\ DEMO_CATALOG[sku].floor_price <= make_offer(sku, requested).price
         /\ make_offer(sku, requested).price <= requested
<1> DEFINE item == merchant_catalog[sku]
<1>1. item \in MerchantRecord /\ item.floor_price = DEMO_CATALOG[sku].floor_price
  BY DEF CatalogKept
<1>2. item.price \in Nat /\ item.floor_price \in Nat
  BY <1>1 DEF MerchantRecord
<1>3. make_offer(sku, requested).price
        = Larger(item.floor_price, Smaller(requested, item.price))
  BY <1>1 DEF make_offer, MerchantRecord
<1> HIDE DEF item
<1> QED BY <1>1, <1>2, <1>3 DEF Larger, Smaller

\* An upsell proposes an item of the catalog, or the item it was asked for.
LEMMA ProposalIsWanted ==
  ASSUME CatalogKept, NEW base_sku \in Wanted, NEW cap \in Nat,
         NEW sku \in Proposals(base_sku, cap)
  PROVE  sku \in Wanted
<1>1. DOMAIN merchant_catalog = Sku
  BY DEF CatalogKept
<1>2. \A i \in list_active : i.sku \in Sku
  BY <1>1 DEF list_active, CatalogKept
<1> QED BY <1>1, <1>2 DEF Proposals, Candidates, Wanted, Sku

-----------------------------------------------------------------------------
\* A freshly seeded shop has no deal and its floors in place.
LEMMA NegotiationInitially == NegotiationInit => NegotiationInv
<1> USE CatalogAssumption, NegotiationAssumption
<1>1. ASSUME NegotiationInit PROVE CatalogKept
  BY <1>1 DEF NegotiationInit, seed_default_catalog, CatalogKept, Sku
<1>2. ASSUME NegotiationInit PROVE deal \in Deals /\ deal.at = "idle"
  BY <1>2 DEF NegotiationInit, NoDeal, Deals, Wanted, Sku
<1> QED BY <1>1, <1>2 DEF NegotiationInv, DealWithinWalls, OfferIsActive

\* Each step keeps the invariant: an update changes a price only, Bargain
\* enters the walls, FinalizeOffer stays within them.
LEMMA NegotiationStep ==
  ASSUME NegotiationInv, [NegotiationNext]_dealVars
  PROVE  NegotiationInv'
<1> USE CatalogAssumption, NegotiationAssumption
<1>1. DOMAIN merchant_catalog = Sku
  BY DEF NegotiationInv, CatalogKept
<1>2. ASSUME NEW base_sku \in Wanted, NEW cap \in BuyerCap, NEW upsell \in BOOLEAN,
             negotiate(base_sku, cap, upsell)
      PROVE  NegotiationInv'
  <2>1. CatalogKept'
    BY <1>2 DEF NegotiationInv, CatalogKept, negotiate
  <2>2. deal' \in Deals /\ deal'.at \in {"upsell", "read"}
    <3>1. cap \in Nat
      BY DEF NegotiationAssumption
    <3>2. deal' = [at |-> IF upsell THEN "upsell" ELSE "read", sku |-> base_sku, buyer_cap |-> cap,
                   list_price |-> 0, floor_price |-> 0, agreed_price |-> 0]
      BY <1>2 DEF negotiate, NoDeal
    <3> QED BY <3>1, <3>2 DEF Deals
  <2> QED BY <2>1, <2>2 DEF NegotiationInv, DealWithinWalls, OfferIsActive
<1>3. CASE propose_upsell
  <2>1. CatalogKept'
    BY <1>3 DEF NegotiationInv, CatalogKept, propose_upsell
  <2>2. PICK sku \in Proposals(deal.sku, deal.buyer_cap) :
          deal' = [deal EXCEPT !.at = "read", !.sku = sku]
    BY <1>3 DEF propose_upsell
  <2>3. deal.sku \in Wanted /\ deal.buyer_cap \in Nat
    BY DEF NegotiationInv, Deals
  <2>4. sku \in Wanted
    BY <2>2, <2>3, ProposalIsWanted DEF NegotiationInv
  <2>5. deal' \in Deals /\ deal'.at = "read"
    BY <2>2, <2>4 DEF NegotiationInv, Deals
  <2> QED BY <2>1, <2>5 DEF NegotiationInv, DealWithinWalls, OfferIsActive
<1>4. CASE NoViablePrice
  <2>1. CatalogKept'
    BY <1>4 DEF NegotiationInv, CatalogKept, NoViablePrice
  <2>2. deal' \in Deals /\ deal'.at = "no_offer"
    BY <1>4 DEF NegotiationInv, Deals, NoViablePrice
  <2> QED BY <2>1, <2>2 DEF NegotiationInv, DealWithinWalls, OfferIsActive
<1>5. CASE Bargain
  <2> DEFINE record == merchant_catalog[deal.sku]
  <2>1. CatalogKept'
    BY <1>5 DEF NegotiationInv, CatalogKept, Bargain
  <2>2. /\ deal.sku \in Sku /\ Viable(record, deal.buyer_cap)
        /\ deal' = [deal EXCEPT !.at           = "finalize",
                                !.list_price   = record.price,
                                !.floor_price  = record.floor_price,
                                !.agreed_price = agreed(record, deal.buyer_cap)]
    BY <1>1, <1>5 DEF Bargain
  <2>3. /\ record \in MerchantRecord /\ deal.buyer_cap \in Nat
        /\ record.floor_price = DEMO_CATALOG[deal.sku].floor_price
    BY <2>2 DEF NegotiationInv, CatalogKept, Deals
  <2>4. /\ agreed(record, deal.buyer_cap) \in Int
        /\ record.floor_price <= agreed(record, deal.buyer_cap)
        /\ agreed(record, deal.buyer_cap) <= Smaller(record.price, deal.buyer_cap)
    BY <2>2, <2>3, AgreedWithinWalls
  <2>5. record.price \in Nat /\ record.floor_price \in Nat
    BY <2>3 DEF MerchantRecord
  <2> HIDE DEF record
  <2>6. deal' \in Deals
    BY <2>2, <2>4, <2>5 DEF NegotiationInv, Deals
  <2>7. /\ deal'.sku = deal.sku /\ deal'.floor_price = record.floor_price
        /\ deal'.list_price = record.price /\ deal'.buyer_cap = deal.buyer_cap
        /\ deal'.agreed_price = agreed(record, deal.buyer_cap)
    BY <2>2 DEF NegotiationInv, Deals
  <2>8. DealWithinWalls'
    BY <2>2, <2>3, <2>4, <2>7 DEF DealWithinWalls, Sku
  <2>9. deal'.at = "finalize"
    BY <2>2 DEF NegotiationInv, Deals
  <2> QED BY <2>1, <2>6, <2>8, <2>9 DEF NegotiationInv, OfferIsActive
<1>6. CASE FinalizeOffer
  <2>1. CatalogKept'
    BY <1>6 DEF NegotiationInv, CatalogKept, FinalizeOffer
  <2>2. CASE ~Available(deal.sku)
    <3>1. deal' \in Deals /\ deal'.at = "no_offer"
      BY <1>6, <2>2 DEF NegotiationInv, Deals, FinalizeOffer
    <3> QED BY <2>1, <3>1 DEF NegotiationInv, DealWithinWalls, OfferIsActive
  <2>3. CASE Available(deal.sku)
    <3> DEFINE price == make_offer(deal.sku, deal.agreed_price).price
    <3>1. deal' = [deal EXCEPT !.at = "offered", !.agreed_price = price]
      BY <1>6, <2>3 DEF FinalizeOffer
    <3>2. /\ deal.sku \in Sku /\ deal.agreed_price \in Int
          /\ deal.floor_price = DEMO_CATALOG[deal.sku].floor_price
          /\ deal.floor_price <= deal.agreed_price
          /\ deal.agreed_price <= Smaller(deal.list_price, deal.buyer_cap)
      BY <1>6 DEF FinalizeOffer, NegotiationInv, DealWithinWalls, Deals
    <3>3. price \in Int /\ deal.floor_price <= price /\ price <= deal.agreed_price
      BY <3>2, OfferNotAboveRequest DEF NegotiationInv
    <3> HIDE DEF price
    <3>4. deal' \in Deals
      BY <3>1, <3>3 DEF NegotiationInv, Deals
    <3>5. /\ deal'.sku = deal.sku /\ deal'.floor_price = deal.floor_price
          /\ deal'.list_price = deal.list_price /\ deal'.buyer_cap = deal.buyer_cap
          /\ deal'.agreed_price = price
      BY <3>1 DEF NegotiationInv, Deals
    <3>6. deal.list_price \in Nat /\ deal.buyer_cap \in Nat
      BY DEF NegotiationInv, Deals
    <3>7. price <= Smaller(deal.list_price, deal.buyer_cap)
      BY <3>2, <3>3, <3>6 DEF Smaller
    <3>8. DealWithinWalls'
      BY <3>2, <3>3, <3>5, <3>7 DEF DealWithinWalls, Sku
    <3>9. OfferIsActive'
      BY <2>3, <3>2, <3>5 DEF Available, NegotiationInv, CatalogKept, OfferIsActive, Sku
    <3> QED BY <2>1, <3>4, <3>8, <3>9 DEF NegotiationInv
  <2> QED BY <2>2, <2>3
<1>7. CASE Return
  <2>1. CatalogKept'
    BY <1>7 DEF NegotiationInv, CatalogKept, Return
  <2>2. deal' \in Deals /\ deal'.at = "idle"
    BY <1>7 DEF Return, NoDeal, Deals, Wanted
  <2> QED BY <2>1, <2>2 DEF NegotiationInv, DealWithinWalls, OfferIsActive
<1>8. CASE Reprice /\ UNCHANGED deal
  <2>1. PICK sku \in Sku : \E price \in NewPrice[sku] : update_price(sku, price)
    BY <1>1, <1>8 DEF Reprice
  <2>2. PICK price \in Nat :
          merchant_catalog' = [merchant_catalog EXCEPT ![sku].price = price]
    BY <2>1 DEF update_price, Sku
  <2>3. CatalogKept'
    BY <2>2 DEF NegotiationInv, CatalogKept, MerchantRecord
  <2> QED BY <1>8, <2>3 DEF NegotiationInv, DealWithinWalls, OfferIsActive
<1>9. CASE Reseed
  <2>1. NegotiationInit'
    BY <1>9 DEF Reseed, NegotiationInit, seed_default_catalog
  <2>2. CatalogKept'
    BY <1>9 DEF Reseed, seed_default_catalog, CatalogKept, Sku
  <2>3. deal' \in Deals /\ deal'.at = "idle"
    BY <1>9 DEF Reseed, NoDeal, Deals, Wanted, Sku
  <2> QED BY <2>2, <2>3 DEF NegotiationInv, DealWithinWalls, OfferIsActive
<1>10. CASE UNCHANGED dealVars
  BY <1>10 DEF dealVars, NegotiationInv, CatalogKept, DealWithinWalls, OfferIsActive
<1> QED BY <1>2, <1>3, <1>4, <1>5, <1>6, <1>7, <1>8, <1>9, <1>10
         DEF NegotiationNext, Negotiate

-----------------------------------------------------------------------------
\* A negotiation under a catalog that moves keeps its walls.
THEOREM NegotiationKeepsWalls == NegotiationSpec => []OfferWithinWalls
<1>1. NegotiationInv => OfferWithinWalls
  BY DEF NegotiationInv, DealWithinWalls, OfferWithinWalls
<1> QED BY <1>1, NegotiationInitially, NegotiationStep, PTL DEF NegotiationSpec

\* Every step of the API, of the merchant, of the clock and of a restart is a
\* step of NegotiationSpec or changes nothing in it.
LEMMA ShopStep == ASSUME [Next]_vars PROVE [NegotiationNext]_dealVars
<1>1. ASSUME NEW intent \in Intent, NEW base_sku \in BaseSku, NEW upsell \in BOOLEAN,
             purchase(intent, base_sku, upsell)
      PROVE  NegotiationNext
  <2>1. base_sku \in Wanted /\ intent.max_amount \in BuyerCap
    BY StorefrontAssumption
  <2> DEFINE mandate == sign_mandate(IssuerKey(starts), draft_mandate(Uuid(0), intent))
  <2>2. mandate.max_amount = intent.max_amount
    BY DEF sign_mandate, draft_mandate
  <2>3. negotiate(base_sku, mandate.max_amount, upsell)
    BY <1>1 DEF purchase
  <2> HIDE DEF mandate
  <2>4. negotiate(base_sku, intent.max_amount, upsell)
    BY <2>2, <2>3
  <2> QED BY <2>1, <2>4 DEF NegotiationNext
<1>2. ASSUME Negotiating PROVE NegotiationNext
  BY <1>2 DEF Negotiating, NegotiationNext
<1>3. ASSUME NoOffer \/ OfferReceived PROVE NegotiationNext
  BY <1>3 DEF NoOffer, OfferReceived, NegotiationNext
<1>4. ASSUME NEW cls \in AttackClass, attack(cls) PROVE UNCHANGED dealVars
  BY <1>4 DEF attack, dealVars
<1>5. ASSUME NEW token, NEW about, run_ap2(token, about) PROVE UNCHANGED dealVars
  BY <1>5 DEF run_ap2, dealVars
<1>6. ASSUME ap2_checkout PROVE UNCHANGED dealVars
  BY <1>5, <1>6 DEF ap2_checkout
<1>7. ASSUME NEW variant \in DemoVariant, ap2_demo(variant) PROVE UNCHANGED dealVars
  BY <1>5, <1>7 DEF ap2_demo
<1>8. ASSUME Authorize \/ AuthorizeRaises PROVE UNCHANGED dealVars
  BY <1>8 DEF Authorize, AuthorizeRaises, dealVars
<1>9. ASSUME Reprice, UNCHANGED <<deal, shopVars, now>> PROVE NegotiationNext
  BY <1>9 DEF NegotiationNext
<1>10. ASSUME Restart PROVE NegotiationNext
  BY <1>10 DEF Restart, NegotiationNext
<1>11. ASSUME Tick PROVE UNCHANGED dealVars
  BY <1>11 DEF Tick, dealVars
<1>12. ASSUME UNCHANGED vars PROVE UNCHANGED dealVars
  BY <1>12 DEF vars, dealVars
<1> QED BY <1>1, <1>2, <1>3, <1>4, <1>6, <1>7, <1>8, <1>9, <1>10, <1>11, <1>12
         DEF Next, Handlers

\* So what is proved of the negotiation by itself holds of it inside the API.
LEMMA ShopNegotiates == Spec => NegotiationSpec
<1>1. Init => NegotiationInit
  BY DEF Init
<1> QED BY <1>1, ShopStep, PTL DEF Spec, NegotiationSpec

\* The invariant of the negotiation holds of the API.
LEMMA ShopNegotiationInv == Spec => []NegotiationInv
  BY ShopNegotiates, NegotiationInitially, NegotiationStep, PTL
     DEF NegotiationSpec

\* So no purchase through the API is offered a price outside its walls, for any
\* catalog, prices, carts, calls, restarts and failures.
THEOREM OfferWithinWallsHolds == Spec => []OfferWithinWalls
  BY ShopNegotiates, NegotiationKeepsWalls, PTL
-----------------------------------------------------------------------------
\* The calls.

\* What a step of the API does, handler by handler.
Quiet == /\ UNCHANGED shopVars
         /\ now' \in Clock /\ now <= now'
         /\ deal.at = "idle" => deal' = deal

\* A step of the API is a step of a handler or a restart, or Quiet: a step of the
\* negotiation, a repricing or a tick.
LEMMA ShopCases ==
  ASSUME [Next]_vars, now \in Clock
  PROVE  \/ \E intent \in Intent, base_sku \in BaseSku, upsell \in BOOLEAN :
              purchase(intent, base_sku, upsell) /\ now' = now
         \/ NoOffer /\ now' = now
         \/ OfferReceived /\ now' = now
         \/ \E cls \in AttackClass : attack(cls) /\ now' = now
         \/ \E token \in SignedCarts : run_ap2(token, None) /\ now' = now
         \/ \E variant \in DemoVariant : run_ap2(mint_demo_cart(variant), variant) /\ now' = now
         \/ Authorize /\ now' = now
         \/ AuthorizeRaises /\ now' = now
         \/ Restart
         \/ Quiet
<1>a. Clock \subseteq Int
  BY StorefrontAssumption
<1>1. Negotiating /\ UNCHANGED now => Quiet
  <2>1. Negotiate => deal.at # "idle"
    BY DEF Negotiate, propose_upsell, NoViablePrice, Bargain, FinalizeOffer
  <2>2. QED
    BY <1>a, <2>1 DEF Negotiating, Quiet
<1>2. Reprice /\ UNCHANGED <<deal, shopVars, now>> => Quiet
  BY <1>a DEF Quiet
<1>3. Tick => Quiet
  BY <1>a DEF Tick, Quiet
<1>4. UNCHANGED vars => Quiet
  BY <1>a DEF vars, Quiet
<1>5. QED
  BY <1>1, <1>2, <1>3, <1>4 DEF Next, Handlers, ap2_checkout, ap2_demo

\* A call is a record with at most two requests; the negotiation is a purchase's.
CallShape ==
  /\ call = Call(call.endpoint, call.about, call.mandate, call.cart, call.todo)
  /\ call.endpoint \in {"none", "purchase", "attack", "ap2"}
  /\ call.endpoint = "none" => call = NoCall
  /\ call.endpoint = "purchase" => /\ call.about = None
                                   /\ call.todo = << >> \/ call.todo = <<call.todo[1]>>
  /\ call.endpoint = "ap2" => call.todo = <<call.todo[1]>>
  /\ call.endpoint = "attack" => \/ call.todo = <<call.todo[1]>>
                                 \/ call.todo = <<call.todo[1], call.todo[2]>>
  /\ deal.at # "idle" => call.endpoint = "purchase" /\ call.todo = << >>

Counters ==
  /\ frozen \in BOOLEAN /\ now \in Clock
  /\ starts \in 1..MaxStarts /\ calls \in 0..MaxCalls /\ faults \in 0..MaxFaults

ShopShape == CallShape /\ Counters

\* The fields of a call, and the call with other requests left to make.
LEMMA CallFields ==
  ASSUME NEW endpoint, NEW about, NEW mandate, NEW cart, NEW todo
  PROVE  LET c == Call(endpoint, about, mandate, cart, todo)
         IN /\ c.endpoint = endpoint /\ c.about = about /\ c.mandate = mandate
            /\ c.cart = cart /\ c.todo = todo
            /\ \A t : [c EXCEPT !.todo = t] = Call(endpoint, about, mandate, cart, t)
  BY DEF Call

\* The idle API: a call of no endpoint that asks for nothing.
LEMMA NoCallFields ==
  /\ NoCall.endpoint = "none" /\ NoCall.about = None /\ NoCall.todo = << >>
  /\ NoCall = Call(NoCall.endpoint, NoCall.about, NoCall.mandate, NoCall.cart, NoCall.todo)
  BY DEF NoCall, Call

\* app.py attack(): one authorize() or two.
LEMMA AttackRequestsShape ==
  ASSUME NEW cls, NEW mandate
  PROVE  LET todo == AttackRequests(cls, mandate)
         IN todo = <<todo[1]>> \/ todo = <<todo[1], todo[2]>>
  BY DEF AttackRequests

\* What is left of two requests after the first.
LEMMA TailOfTwo == ASSUME NEW a, NEW b PROVE Tail(<<a, b>>) = <<b>>
  OBVIOUS

\* A single request is the last.
LEMMA OneIsNotMore == ASSUME NEW s, NEW a, s = <<a>> PROVE ~(Len(s) > 1)
  OBVIOUS

\* The shop as it starts has the shape.
LEMMA ShapeInitially == Init => ShopShape
<1> SUFFICES ASSUME Init PROVE ShopShape
  OBVIOUS
<1>1. CallShape
  BY NoCallFields DEF Init, CallShape, NegotiationInit, NoDeal
<1>2. now \in Clock
  <2>1. \E t \in Clock : \A u \in Clock : t <= u
    BY StorefrontAssumption
  <2>2. QED
    BY <2>1 DEF Init, Min
<1>3. /\ frozen = FALSE /\ starts \in 1..MaxStarts /\ calls \in 0..MaxCalls
      /\ faults \in 0..MaxFaults
  <2>1. MaxCalls \in Nat /\ MaxStarts \in Nat \ {0} /\ MaxFaults \in Nat
    BY StorefrontAssumption
  <2>2. frozen = FALSE /\ starts = 1 /\ calls = 0 /\ faults = 0
    BY DEF Init
  <2>3. QED
    BY <2>1, <2>2
<1>4. QED
  BY <1>1, <1>2, <1>3 DEF ShopShape, Counters

\* Every handler, failure, tick and restart keeps the shape.
LEMMA ShapeStep == ASSUME ShopShape, [Next]_vars PROVE ShopShape'
<1> USE DEF ShopShape
<1>0. now \in Clock
  BY DEF Counters
<1>b. MaxCalls \in Nat /\ MaxStarts \in Nat /\ MaxFaults \in Nat
  BY StorefrontAssumption
<1> USE <1>b
<1>1. ASSUME NEW intent \in Intent, NEW base_sku \in BaseSku, NEW upsell \in BOOLEAN,
             purchase(intent, base_sku, upsell), now' = now
      PROVE  ShopShape'
  <2>1. PICK mandate : call' = Call("purchase", None, mandate, None, << >>)
    BY <1>1 DEF purchase
  <2>2. CallShape'
    BY <2>1, CallFields DEF CallShape
  <2>3. Counters'
    BY <1>1 DEF purchase, Begin, Counters
  <2>4. QED
    BY <2>2, <2>3
<1>2. CASE NoOffer /\ now' = now
  <2>1. CallShape'
    BY <1>2, NoCallFields DEF NoOffer, Return, NoDeal, CallShape
  <2>2. QED
    BY <1>2, <2>1 DEF NoOffer, Counters
<1>3. CASE OfferReceived /\ now' = now
  <2>1. PICK r : call' = [call EXCEPT !.todo = <<r>>]
    BY <1>3 DEF OfferReceived
  <2>2. call.endpoint = "purchase" /\ deal'.at = "idle"
    BY <1>3 DEF OfferReceived, Return, NoDeal, CallShape
  <2>3. call' = Call(call.endpoint, call.about, call.mandate, call.cart, <<r>>)
    BY <2>1, CallFields DEF CallShape
  <2>4. CallShape'
    BY <2>2, <2>3, CallFields DEF CallShape
  <2>5. QED
    BY <1>3, <2>4 DEF OfferReceived, Counters
<1>4. ASSUME NEW cls \in AttackClass, attack(cls), now' = now
      PROVE  ShopShape'
  <2>1. PICK m, mandate : call' = Call("attack", cls, m, None, AttackRequests(cls, mandate))
    BY <1>4 DEF attack
  <2>2. call = NoCall /\ deal' = deal
    BY <1>4 DEF attack, Begin
  <2> DEFINE todo == AttackRequests(cls, mandate)
  <2>a. todo = <<todo[1]>> \/ todo = <<todo[1], todo[2]>>
    BY AttackRequestsShape
  <2> HIDE DEF todo
  <2>b. /\ call'.endpoint = "attack" /\ call'.todo = todo
        /\ call' = Call(call'.endpoint, call'.about, call'.mandate, call'.cart, call'.todo)
    BY <2>1, CallFields DEF todo
  <2>3. CallShape'
    BY <2>2, <2>a, <2>b, NoCallFields DEF CallShape
  <2>4. Counters'
    BY <1>4 DEF attack, Begin, Counters
  <2>5. QED
    BY <2>3, <2>4
<1>5. ASSUME NEW token, NEW about, run_ap2(token, about), now' = now
      PROVE  ShopShape'
  <2>1. call' = call \/ \E m, r : call' = Call("ap2", about, m, token, <<r>>)
    BY <1>5 DEF run_ap2
  <2>2. call = NoCall /\ deal' = deal
    BY <1>5 DEF run_ap2, Begin
  <2>a. ASSUME call' = call PROVE CallShape'
    BY <2>2, <2>a DEF CallShape
  <2>b. ASSUME NEW m, NEW r, call' = Call("ap2", about, m, token, <<r>>)
        PROVE  CallShape'
    <3>1. /\ call'.endpoint = "ap2" /\ call'.todo = <<r>>
          /\ call' = Call(call'.endpoint, call'.about, call'.mandate, call'.cart, call'.todo)
      BY <2>b, CallFields
    <3>2. deal'.at = "idle"
      BY <2>2, NoCallFields DEF CallShape
    <3>3. QED
      BY <3>1, <3>2 DEF CallShape
  <2>3. CallShape'
    BY <2>1, <2>a, <2>b
  <2>4. Counters'
    BY <1>5 DEF run_ap2, Begin, Counters
  <2>5. QED
    BY <2>3, <2>4
<1>6. CASE Authorize /\ now' = now
  <2>1. call.todo # << >> /\ deal' = deal
    BY <1>6 DEF Authorize
  <2>2. CASE Len(call.todo) > 1
    <3>1. call' = [call EXCEPT !.todo = Tail(@)] /\ UNCHANGED frozen
      BY <1>6, <2>2 DEF Authorize
    <3>2. call.endpoint = "attack" /\ call.todo = <<call.todo[1], call.todo[2]>>
      BY <2>1, <2>2, OneIsNotMore, NoCallFields DEF CallShape
    <3>3. Tail(call.todo) = <<call.todo[2]>>
      BY <3>2, TailOfTwo
    <3>4. call' = Call(call.endpoint, call.about, call.mandate, call.cart, <<call.todo[2]>>)
      <4>1. call = Call(call.endpoint, call.about, call.mandate, call.cart, call.todo)
        BY DEF CallShape
      <4>2. call' = [call EXCEPT !.todo = <<call.todo[2]>>]
        BY <3>1, <3>3
      <4>3. QED
        BY <4>1, <4>2, CallFields
    <3>5. CallShape'
      BY <2>1, <3>2, <3>4, CallFields DEF CallShape
    <3>6. QED
      BY <1>6, <3>1, <3>5 DEF Authorize, Counters
  <2>3. CASE ~(Len(call.todo) > 1)
    <3>1. call' = NoCall /\ frozen' \in BOOLEAN
      BY <1>6, <2>3 DEF Authorize, Unfreeze
    <3>2. CallShape'
      BY <2>1, <3>1, NoCallFields DEF CallShape
    <3>3. QED
      BY <1>6, <3>1, <3>2 DEF Authorize, Counters
  <2>4. QED
    BY <2>2, <2>3
<1>7. CASE AuthorizeRaises /\ now' = now
  <2>1. CallShape'
    BY <1>7, NoCallFields DEF AuthorizeRaises, CallShape
  <2>2. QED
    BY <1>7, <2>1 DEF AuthorizeRaises, Counters
<1>8. CASE Restart
  <2>1. CallShape'
    BY <1>8, NoCallFields DEF Restart, Reseed, NoDeal, CallShape
  <2>2. starts' \in 1..MaxStarts
    BY <1>8 DEF Restart, Counters
  <2>3. QED
    BY <1>8, <2>1, <2>2 DEF Restart, Counters
<1>9. CASE Quiet
  BY <1>9 DEF Quiet, shopVars, CallShape, Counters
<1>10. QED
  BY <1>0, <1>1, <1>2, <1>3, <1>4, <1>5, <1>6, <1>7, <1>8, <1>9, ShopCases

\* app.py: whatever was called and whatever failed, a handler that runs has one
\* request left to authorize, or two in an attack, and a purchase that negotiates
\* has none yet; the counters stay within their bounds.
THEOREM ShapeHolds == Spec => []ShopShape
  BY ShapeInitially, ShapeStep, PTL DEF Spec

-----------------------------------------------------------------------------
\* The requests that the call has still to authorize.
Asked == {call.todo[i] : i \in DOMAIN call.todo}

\* One authorize(): the first request is recorded; then the second is next, or
\* the call is answered.
Goes(r) ==
  /\ Record(Row(r))
  /\ UNCHANGED <<merchant_catalog, deal, mandates, issued, starts, calls, faults>>

\* A sequence of at most two requests, taken apart.
LEMMA TodoForms ==
  /\ \A s : s = << >> => {s[i] : i \in DOMAIN s} = {}
  /\ \A s, a : s = <<a>> => /\ {s[i] : i \in DOMAIN s} = {a} /\ s # << >> /\ Head(s) = a
                            /\ ~(Len(s) > 1)
  /\ \A s, a, b : s = <<a, b>> => /\ {s[i] : i \in DOMAIN s} = {a, b} /\ s # << >> /\ Head(s) = a
                                  /\ Len(s) > 1 /\ Tail(s) = <<b>>
<1>1. ASSUME NEW s, s = << >> PROVE {s[i] : i \in DOMAIN s} = {}
  BY <1>1
<1>2. ASSUME NEW s, NEW a, s = <<a>>
      PROVE  /\ {s[i] : i \in DOMAIN s} = {a} /\ s # << >> /\ Head(s) = a
             /\ ~(Len(s) > 1)
  <2>1. DOMAIN s = {1} /\ s[1] = a
    BY <1>2
  <2>2. QED
    BY <1>2, <2>1
<1>3. ASSUME NEW s, NEW a, NEW b, s = <<a, b>>
      PROVE  /\ {s[i] : i \in DOMAIN s} = {a, b} /\ s # << >> /\ Head(s) = a
             /\ Len(s) > 1 /\ Tail(s) = <<b>>
  <2>1. DOMAIN s = {1, 2} /\ s[1] = a /\ s[2] = b
    BY <1>3
  <2>2. QED
    BY <1>3, <2>1, TailOfTwo
<1>4. QED
  BY <1>1, <1>2, <1>3

\* The same for a sequence known by its two elements.
LEMMA TwoForms ==
  ASSUME NEW s, s = <<s[1], s[2]>>
  PROVE  Len(s) > 1 /\ Tail(s) = <<s[2]>>
<1> DEFINE a == s[1]
           b == s[2]
<1>1. s = <<a, b>>
  OBVIOUS
<1> HIDE DEF a, b
<1>2. Len(s) > 1 /\ Tail(s) = <<b>>
  BY <1>1, TodoForms
<1>3. QED
  BY <1>2 DEF b

\* Authorize: the first request is recorded; it is the last and the call is
\* answered, or an attack goes on to its second.
LEMMA AuthorizeCase ==
  ASSUME ShopShape, Authorize
  PROVE  /\ call.todo[1] \in Asked /\ Goes(call.todo[1]) /\ call.endpoint # "none"
         /\ \/ /\ call.todo = <<call.todo[1]>> /\ call' = NoCall /\ Unfreeze
               /\ LET row == Row(call.todo[1])
                  IN answer' = Answer(row.decision, row.reason, call.about, {row})
            \/ /\ call.endpoint = "attack" /\ call.todo = <<call.todo[1], call.todo[2]>>
               /\ call' = Call("attack", call.about, call.mandate, call.cart, <<call.todo[2]>>)
               /\ UNCHANGED <<frozen, answer>>
<1>1. /\ call = Call(call.endpoint, call.about, call.mandate, call.cart, call.todo)
      /\ call.todo # << >> /\ call.endpoint # "none"
      /\ \/ call.todo = <<call.todo[1]>>
         \/ call.endpoint = "attack" /\ call.todo = <<call.todo[1], call.todo[2]>>
  BY NoCallFields DEF ShopShape, CallShape, Authorize
<1>2. Head(call.todo) = call.todo[1] /\ call.todo[1] \in Asked
  BY <1>1, TodoForms DEF Asked
<1>3. Goes(call.todo[1])
  BY <1>2 DEF Authorize, Goes
<1>4. CASE call.todo = <<call.todo[1]>>
  <2>1. ~(Len(call.todo) > 1)
    BY <1>4, TodoForms
  <2>2. QED
    BY <1>1, <1>2, <1>3, <1>4, <2>1 DEF Authorize
<1>5. CASE call.endpoint = "attack" /\ call.todo = <<call.todo[1], call.todo[2]>>
  <2>1. Len(call.todo) > 1 /\ Tail(call.todo) = <<call.todo[2]>>
    BY <1>5, TwoForms
  <2>2. call' = [call EXCEPT !.todo = <<call.todo[2]>>] /\ UNCHANGED <<frozen, answer>>
    BY <2>1 DEF Authorize
  <2>3. call' = Call("attack", call.about, call.mandate, call.cart, <<call.todo[2]>>)
    BY <1>1, <1>5, <2>2, CallFields
  <2>4. QED
    BY <1>1, <1>2, <1>3, <1>5, <2>2, <2>3
<1>6. QED
  BY <1>1, <1>4, <1>5

\* AuthorizeRaises: the call is answered with an error, whether or not the row
\* was committed.
LEMMA RaisesCase ==
  ASSUME ShopShape, AuthorizeRaises
  PROVE  /\ call.todo[1] \in Asked /\ call.endpoint # "none"
         /\ Record(Row(call.todo[1])) \/ UNCHANGED <<transactions, spent>>
         /\ call' = NoCall /\ answer' = HttpError /\ faults' > 0
         /\ UNCHANGED <<merchant_catalog, deal, mandates, issued, frozen, starts, calls>>
<1>1. /\ call.todo # << >> /\ call.endpoint # "none"
      /\ \/ call.todo = <<call.todo[1]>>
         \/ call.endpoint = "attack" /\ call.todo = <<call.todo[1], call.todo[2]>>
  BY NoCallFields DEF ShopShape, CallShape, AuthorizeRaises
<1>2. Head(call.todo) = call.todo[1] /\ call.todo[1] \in Asked
  BY <1>1, TodoForms DEF Asked
<1>3. faults' > 0
  BY StorefrontAssumption DEF ShopShape, Counters, AuthorizeRaises
<1>4. QED
  BY <1>1, <1>2, <1>3 DEF AuthorizeRaises

\* What a call of one request asks, and that the idle API asks nothing.
LEMMA AskedForms ==
  /\ \A e, a, m, c, r : call = Call(e, a, m, c, <<r>>) => Asked = {r}
  /\ call = NoCall => Asked = {}
<1>1. ASSUME NEW e, NEW a, NEW m, NEW c, NEW r, call = Call(e, a, m, c, <<r>>) PROVE Asked = {r}
  BY <1>1, CallFields, TodoForms DEF Asked
<1>2. ASSUME call = NoCall PROVE Asked = {}
  BY <1>2, NoCallFields, TodoForms DEF Asked
<1>3. QED
  BY <1>1, <1>2

\* An authorize() only takes requests away.
LEMMA AskedShrinks ==
  ASSUME ShopShape, Authorize
  PROVE  Asked' \subseteq Asked /\ Asked # {}
<1>1. Asked # {}
  BY AuthorizeCase
<1>2. CASE call' = NoCall
  BY <1>1, <1>2, AskedForms, NoCallFields DEF Asked
<1>3. CASE call' = Call("attack", call.about, call.mandate, call.cart, <<call.todo[2]>>)
           /\ call.todo = <<call.todo[1], call.todo[2]>>
  <2>1. Asked = {call.todo[1], call.todo[2]}
    BY <1>3, TodoForms DEF Asked
  <2>2. call'.todo = <<call.todo[2]>>
    BY <1>3, CallFields
  <2>3. Asked' = {call.todo[2]}
    BY <2>2, TodoForms DEF Asked
  <2>4. QED
    BY <1>1, <2>1, <2>3
<1>4. QED
  BY <1>2, <1>3, AuthorizeCase
-----------------------------------------------------------------------------
\* app.py attack(): the freeze of the state attack is the only one, and is gone
\* once the attack is answered, unless authorize() raised an error in it.
LEMMA FreezeStep ==
  ASSUME ShopShape, FreezeEndsWithAttack, [Next]_vars
  PROVE  FreezeEndsWithAttack'
<1>0. now \in Clock /\ faults \in Nat
  BY StorefrontAssumption DEF ShopShape, Counters
<1>a. None # "state"
  BY NoneAssumption
<1>b. call = NoCall => call.about = None
  BY NoCallFields
<1> USE <1>a, <1>b DEF FreezeEndsWithAttack
<1>1. ASSUME NEW intent \in Intent, NEW base_sku \in BaseSku, NEW upsell \in BOOLEAN,
             purchase(intent, base_sku, upsell)
      PROVE  FreezeEndsWithAttack'
  BY <1>1 DEF purchase, Begin
<1>2. CASE NoOffer
  BY <1>2 DEF NoOffer, ShopShape, CallShape
<1>3. CASE OfferReceived
  BY <1>3 DEF OfferReceived, ShopShape, CallShape
<1>4. ASSUME NEW cls \in AttackClass, attack(cls) PROVE FreezeEndsWithAttack'
  <2>1. PICK m, mandate : call' = Call("attack", cls, m, None, AttackRequests(cls, mandate))
    BY <1>4 DEF attack
  <2>2. call'.about = cls
    BY <2>1, CallFields
  <2>3. call = NoCall /\ frozen' = (frozen \/ cls = "state") /\ faults' = faults
    BY <1>4 DEF attack, Begin
  <2>4. QED
    BY <2>2, <2>3
<1>5. ASSUME NEW token, NEW about, run_ap2(token, about) PROVE FreezeEndsWithAttack'
  BY <1>5 DEF run_ap2, Begin
<1>6. CASE Authorize
  <2>1. faults' = faults
    BY <1>6, AuthorizeCase DEF Goes
  <2>2. CASE Unfreeze
    BY <2>1, <2>2 DEF Unfreeze
  <2>3. CASE call' = Call("attack", call.about, call.mandate, call.cart, <<call.todo[2]>>)
             /\ UNCHANGED frozen
    <3>1. call'.about = call.about
      BY <2>3, CallFields
    <3>2. QED
      BY <2>1, <2>3, <3>1
  <2>4. QED
    BY <1>6, <2>2, <2>3, AuthorizeCase
<1>7. CASE AuthorizeRaises
  BY <1>7, RaisesCase
<1>8. CASE Restart
  BY <1>8 DEF Restart
<1>9. CASE Quiet
  BY <1>9 DEF Quiet, shopVars
<1>10. QED
  BY <1>0, <1>1, <1>2, <1>3, <1>4, <1>5, <1>6, <1>7, <1>8, <1>9, ShopCases

\* app.py attack(): until something fails, an agent is frozen only while the
\* attack that froze it runs.
THEOREM FreezeEndsWithAttackHolds == Spec => []FreezeEndsWithAttack
<1>1. Init => FreezeEndsWithAttack
  BY DEF Init, FreezeEndsWithAttack
<1>2. QED
  BY <1>1, FreezeStep, ShapeHolds, PTL DEF Spec

-----------------------------------------------------------------------------
\* Every mandate that is referred to, by a call, by a request that it has still
\* to make, by the console or by the ledger, has its row.
Saved(m) == m.mandate_id \in DOMAIN mandates

MandatesSaved ==
  /\ \A id \in DOMAIN mandates : mandates[id].mandate_id = id
  /\ \A m \in issued : Saved(m)
  /\ call # NoCall => Saved(call.mandate)
  /\ \A r \in Asked : Saved(r.txn.mandate)
  /\ \A row \in transactions : Row_OK(row)

\* repository.py save_mandate(): no row is taken away or renamed.
LEMMA SavedStays ==
  ASSUME NEW rows, \A id \in DOMAIN rows : rows[id].mandate_id = id,
         InsertOrReplace(rows), MandatesSaved
  PROVE  /\ \A id \in DOMAIN mandates' : mandates'[id].mandate_id = id
         /\ DOMAIN mandates' = DOMAIN mandates \cup DOMAIN rows
         /\ \A row \in transactions : Row_OK(row)'
<1>1. DOMAIN mandates' = DOMAIN mandates \cup DOMAIN rows
  BY DEF InsertOrReplace
<1>2. \A id \in DOMAIN mandates' : mandates'[id].mandate_id = id
  BY <1>1 DEF InsertOrReplace, MandatesSaved
<1>3. \A row \in transactions : Row_OK(row)'
  BY <1>1 DEF MandatesSaved, Row_OK
<1>4. QED
  BY <1>1, <1>2, <1>3

\* Two requests at most.
LEMMA AtMostTwo ==
  ASSUME NEW s, NEW a, NEW b, s = << >> \/ s = <<a>> \/ s = <<a, b>>
  PROVE  Len(s) <= 2
<1>1. CASE s = << >>
  BY <1>1
<1>2. CASE s = <<a>>
  BY <1>2
<1>3. CASE s = <<a, b>>
  BY <1>3
<1>4. QED
  BY <1>1, <1>2, <1>3

\* A nonempty set of ranks has a least one.
LEMMA LeastOf ==
  ASSUME NEW S, S \subseteq Nat, S # {}
  PROVE  Min(S) \in S /\ \A j \in S : Min(S) <= j
<1> DEFINE R == {ss \in Nat \X Nat : ss[1] < ss[2]}
<1>1. IsWellFoundedOn(R, Nat)
  BY NatLessThanWellFounded, Zenon DEF OpToRel
<1> HIDE DEF R
<1>2. PICK x \in S : \A y \in S : ~(<<y, x>> \in R)
  BY <1>1, WFMin
<1>3. ASSUME NEW y \in S PROVE x <= y
  <2>1. <<y, x>> \in Nat \X Nat /\ <<y, x>>[1] = y /\ <<y, x>>[2] = x
    OBVIOUS
  <2>2. ~(<<y, x>>[1] < <<y, x>>[2])
    BY <1>2, <2>1, Zenon DEF R
  <2>3. QED
    BY <2>1, <2>2
<1>4. QED
  BY <1>3 DEF Min

\* gate.py: every verdict carries one of the reason codes.
LEMMA ReasonIsCoded ==
  ASSUME NEW txn, NEW record, NEW live, NEW trusted, NEW at
  PROVE  authorize(txn, record, live, trusted, at).reason \in Reason
<1> DEFINE failing == Failing(Outcome(txn, record, live, trusted, at))
<1>1. CASE failing = {}
  BY <1>1 DEF authorize, Allow, Reason
<1>2. CASE failing # {}
  <2>1. DOMAIN Checklist = 1..11 /\ failing \subseteq 1..11
    BY DEF Checklist, Failing
  <2>2. Min(failing) \in failing
    BY <1>2, <2>1, LeastOf
  <2>3. authorize(txn, record, live, trusted, at).reason = Checklist[Min(failing)].reason
    BY <1>2 DEF authorize, Block
  <2>4. QED
    BY <2>1, <2>2, <2>3 DEF Reason
<1>3. QED
  BY <1>1, <1>2

\* Every row that authorize() adds is a row of the ledger as it should be.
LEMMA RowIsOK ==
  ASSUME NEW r, Saved(r.txn.mandate), call.endpoint \in {"purchase", "attack", "ap2"}
  PROVE  Row_OK(Row(r))
<1> DEFINE out == Outcome(r.txn, r.offer, Live(r.txn), trusted_issuer_keys, now)
           result == authorize(r.txn, r.offer, Live(r.txn), trusted_issuer_keys, now)
<1>1. /\ Row(r).endpoint = call.endpoint /\ Row(r).txn = r.txn
      /\ Row(r).decision = result.decision /\ Row(r).reason = result.reason
  BY DEF Row
<1>2. result.decision \in {"ALLOW", "BLOCK"}
  BY GateDecides
<1>3. result.reason \in Reason
  BY ReasonIsCoded
<1>4. QED
  BY <1>1, <1>2, <1>3 DEF Row_OK, Saved

\* Every handler saves a mandate before it refers to it.
LEMMA SavedStep ==
  ASSUME ShopShape, MandatesSaved, [Next]_vars
  PROVE  MandatesSaved'
<1>0. now \in Clock
  BY DEF ShopShape, Counters
<1>a. call = NoCall => Asked = {}
  BY AskedForms
<1>1. ASSUME NEW intent \in Intent, NEW base_sku \in BaseSku, NEW upsell \in BOOLEAN,
             purchase(intent, base_sku, upsell)
      PROVE  MandatesSaved'
  <2> DEFINE m == sign_mandate(IssuerKey(starts), draft_mandate(Uuid(0), intent))
             rows == [id \in {m.mandate_id} |-> m]
  <2>1. /\ InsertOrReplace(rows) /\ issued' = issued \cup {m} /\ UNCHANGED transactions
        /\ call' = Call("purchase", None, m, None, << >>)
    BY <1>1 DEF purchase, save_mandate
  <2> HIDE DEF m
  <2>2. \A id \in DOMAIN rows : rows[id].mandate_id = id
    OBVIOUS
  <2>3. DOMAIN rows = {m.mandate_id}
    OBVIOUS
  <2> HIDE DEF rows
  <2>4. /\ \A id \in DOMAIN mandates' : mandates'[id].mandate_id = id
        /\ DOMAIN mandates' = DOMAIN mandates \cup {m.mandate_id}
        /\ \A row \in transactions : Row_OK(row)'
    BY <2>1, <2>2, <2>3, SavedStays
  <2>5. call'.mandate = m /\ Asked' = {}
    BY <2>1, CallFields, TodoForms DEF Asked
  <2>6. QED
    BY <2>1, <2>4, <2>5 DEF MandatesSaved, Saved
<1>2. CASE NoOffer
  <2>1. call' = NoCall /\ UNCHANGED <<mandates, issued, transactions>>
    BY <1>2 DEF NoOffer
  <2>2. QED
    BY <2>1, AskedForms DEF MandatesSaved, Saved, Row_OK, Asked, NoCall, Call
<1>3. CASE OfferReceived
  <2>1. PICK r : call' = [call EXCEPT !.todo = <<r>>] /\ r.txn.mandate = call.mandate
    <3>1. \E offer : call' = [call EXCEPT !.todo =
            <<Request(build_transaction(call.mandate, offer, Uuid(6), Uuid(7)), offer)>>]
      BY <1>3 DEF OfferReceived
    <3>2. \A offer : Request(build_transaction(call.mandate, offer, Uuid(6), Uuid(7)), offer)
                       .txn.mandate = call.mandate
      BY DEF Request, build_transaction
    <3>3. QED
      BY <3>1, <3>2
  <2>2. call = Call(call.endpoint, call.about, call.mandate, call.cart, call.todo) /\ call # NoCall
    BY <1>3, NoCallFields DEF OfferReceived, ShopShape, CallShape
  <2>3. call' = Call(call.endpoint, call.about, call.mandate, call.cart, <<r>>)
    BY <2>1, <2>2, CallFields
  <2>4. call'.mandate = call.mandate /\ Asked' = {r}
    BY <2>3, CallFields, TodoForms DEF Asked
  <2>5. UNCHANGED <<mandates, issued, transactions>>
    BY <1>3 DEF OfferReceived
  <2>6. QED
    BY <2>1, <2>2, <2>4, <2>5 DEF MandatesSaved, Saved, Row_OK
<1>4. ASSUME NEW cls \in AttackClass, attack(cls) PROVE MandatesSaved'
  <2>1. PICK m \in issued \cup {sign_mandate(IssuerKey(starts), draft_mandate(Uuid(3), DemoIntent))} :
          /\ issued' = issued \cup {m}
          /\ InsertOrReplace(SavedByAttack(m, AttackMandate(cls, m)))
          /\ call' = Call("attack", cls, m, None, AttackRequests(cls, AttackMandate(cls, m)))
    BY <1>4 DEF attack
  <2> DEFINE mandate == AttackMandate(cls, m)
             rows == SavedByAttack(m, mandate)
             todo == AttackRequests(cls, mandate)
  <2>2. UNCHANGED transactions
    BY <1>4 DEF attack
  <2>3. \A i \in DOMAIN todo : todo[i].txn.mandate = mandate
    BY DEF AttackRequests, Request, AttackRequest, build_transaction
  <2> HIDE DEF mandate, todo
  <2>4. DOMAIN rows = {x.mandate_id : x \in {m, mandate} \ issued}
    BY DEF SavedByAttack
  <2>5. \A id \in DOMAIN rows : rows[id].mandate_id = id
    BY <2>4 DEF SavedByAttack
  <2> HIDE DEF rows
  <2>6. /\ \A id \in DOMAIN mandates' : mandates'[id].mandate_id = id
        /\ DOMAIN mandates' = DOMAIN mandates \cup DOMAIN rows
        /\ \A row \in transactions : Row_OK(row)'
    BY <2>1, <2>5, SavedStays DEF rows, mandate
  <2>7. /\ m.mandate_id \in DOMAIN mandates' /\ mandate.mandate_id \in DOMAIN mandates'
        /\ \A x \in issued' : x.mandate_id \in DOMAIN mandates'
    BY <2>1, <2>4, <2>6 DEF MandatesSaved, Saved
  <2>8. call'.mandate = m /\ call'.todo = todo
    BY <2>1, CallFields DEF todo, mandate
  <2>9. \A r \in Asked' : r.txn.mandate = mandate
    BY <2>3, <2>8 DEF Asked
  <2>10. QED
    BY <2>2, <2>6, <2>7, <2>8, <2>9 DEF MandatesSaved, Saved
<1>5. ASSUME NEW token, NEW about, run_ap2(token, about) PROVE MandatesSaved'
  <2>1. CASE UNCHANGED <<call, mandates>>
    BY <1>5, <2>1 DEF run_ap2, MandatesSaved, Saved, Asked, Row_OK
  <2>2. ASSUME NEW m, NEW r, save_mandate(m), call' = Call("ap2", about, m, token, <<r>>),
               r.txn.mandate = m
        PROVE  MandatesSaved'
    <3> DEFINE rows == [id \in {m.mandate_id} |-> m]
    <3>1. InsertOrReplace(rows) /\ UNCHANGED <<issued, transactions>>
      BY <1>5, <2>2 DEF run_ap2, save_mandate
    <3>2. \A id \in DOMAIN rows : rows[id].mandate_id = id
      OBVIOUS
    <3>3. DOMAIN rows = {m.mandate_id}
      OBVIOUS
    <3> HIDE DEF rows
    <3>4. /\ \A id \in DOMAIN mandates' : mandates'[id].mandate_id = id
          /\ DOMAIN mandates' = DOMAIN mandates \cup {m.mandate_id}
          /\ \A row \in transactions : Row_OK(row)'
      BY <3>1, <3>2, <3>3, SavedStays
    <3>5. call'.mandate = m /\ Asked' = {r}
      BY <2>2, CallFields, TodoForms DEF Asked
    <3>6. QED
      BY <2>2, <3>1, <3>4, <3>5 DEF MandatesSaved, Saved
  <2>3. UNCHANGED <<call, mandates>>
          \/ \E m, r : save_mandate(m) /\ call' = Call("ap2", about, m, token, <<r>>)
                         /\ r.txn.mandate = m
    BY <1>5 DEF run_ap2, Request, to_bazaar
  <2>4. QED
    BY <2>1, <2>2, <2>3
<1>6. CASE Authorize
  <2> DEFINE r == call.todo[1]
  <2>1. /\ r \in Asked /\ Goes(r) /\ call.endpoint \in {"purchase", "attack", "ap2"}
        /\ call # NoCall
    BY <1>6, AuthorizeCase, NoCallFields DEF ShopShape, CallShape
  <2> HIDE DEF r
  <2>2. /\ transactions' = transactions \cup {Row(r)} /\ UNCHANGED <<mandates, issued>>
    BY <2>1 DEF Goes, Record
  <2>3. Row_OK(Row(r))
    BY <2>1, RowIsOK DEF MandatesSaved
  <2>4. \A row \in transactions' : Row_OK(row)'
    BY <2>2, <2>3 DEF MandatesSaved, Row_OK
  <2>5. Asked' \subseteq Asked
    BY <1>6, AskedShrinks
  <2>6. call' # NoCall => call'.mandate = call.mandate
    BY <1>6, AuthorizeCase, CallFields
  <2>7. QED
    BY <2>1, <2>2, <2>4, <2>5, <2>6 DEF MandatesSaved, Saved
<1>7. CASE AuthorizeRaises
  <2> DEFINE r == call.todo[1]
  <2>1. /\ r \in Asked /\ call.endpoint \in {"purchase", "attack", "ap2"}
        /\ Record(Row(r)) \/ UNCHANGED <<transactions, spent>>
        /\ call' = NoCall /\ UNCHANGED <<mandates, issued>>
    BY <1>7, RaisesCase DEF ShopShape, CallShape
  <2> HIDE DEF r
  <2>2. transactions' = transactions \cup {Row(r)} \/ transactions' = transactions
    BY <2>1 DEF Record
  <2>3. Row_OK(Row(r))
    BY <2>1, RowIsOK DEF MandatesSaved
  <2>4. \A row \in transactions' : Row_OK(row)'
    BY <2>1, <2>2, <2>3 DEF MandatesSaved, Row_OK
  <2>5. Asked' = {}
    BY <2>1, NoCallFields, TodoForms DEF Asked
  <2>6. QED
    BY <2>1, <2>4, <2>5 DEF MandatesSaved, Saved
<1>8. CASE Restart
  <2>1. call' = NoCall /\ mandates' = << >> /\ issued' = {} /\ transactions' = {}
    BY <1>8 DEF Restart
  <2>2. Asked' = {}
    BY <2>1, NoCallFields, TodoForms DEF Asked
  <2>3. QED
    BY <2>1, <2>2 DEF MandatesSaved
<1>9. CASE Quiet
  BY <1>9 DEF Quiet, shopVars, MandatesSaved, Saved, Row_OK, Asked
<1>10. QED
  BY <1>0, <1>1, <1>2, <1>3, <1>4, <1>5, <1>6, <1>7, <1>8, <1>9, ShopCases

\* app.py, repository.py: every row of transactions refers to a saved mandate
\* through every handler, failure and restart, and negotiations run for
\* purchases only.
THEOREM ShopTypeOK == Spec => []TypeOK
<1>1. Init => MandatesSaved
  BY NoCallFields, TodoForms DEF Init, MandatesSaved, Asked
<1>2. Spec => []MandatesSaved
  BY <1>1, SavedStep, ShapeHolds, PTL DEF Spec
<1>3. Spec => []NegotiationInv
  BY ShopNegotiationInv
<1>4. ShopShape /\ MandatesSaved /\ NegotiationInv => TypeOK
  <2> SUFFICES ASSUME ShopShape, MandatesSaved, NegotiationInv PROVE TypeOK
    OBVIOUS
  <2>1. DOMAIN merchant_catalog = DOMAIN DEMO_CATALOG
    BY DEF NegotiationInv, CatalogKept, Sku
  <2>2. Len(call.todo) <= 2
    <3>1. \/ call.todo = << >> \/ call.todo = <<call.todo[1]>>
          \/ call.todo = <<call.todo[1], call.todo[2]>>
      BY NoCallFields DEF ShopShape, CallShape
    <3>2. QED
      BY <3>1, AtMostTwo
  <2>3. QED
    BY <2>1, <2>2 DEF ShopShape, CallShape, Counters, MandatesSaved, Saved, TypeOK
<1>5. QED
  BY <1>2, <1>3, <1>4, ShapeHolds, PTL

-----------------------------------------------------------------------------
\* ap2.py verify_cart_mandate: a cart that is not refused passed every check.
LEMMA CartVerified ==
  ASSUME NEW token, NEW keys, NEW at, verify_cart_mandate(token, keys, at) = None
  PROVE  /\ signature_verifies(token, keys) /\ at < token.exp
         /\ token.total_amount = token.unit_amount * token.quantity
         /\ token.allowed_payees = {} \/ token.payee \in token.allowed_payees
<1> DEFINE outcome == CartOutcome(token, keys, at)
           failing == {i \in DOMAIN CartChecklist : ~outcome[CartChecklist[i]]}
<1>1. DOMAIN CartChecklist = 1..9
  BY DEF CartChecklist
<1>2. failing = {}
  <2> SUFFICES ASSUME failing # {} PROVE FALSE
    OBVIOUS
  <2>1. Min(failing) \in DOMAIN CartChecklist
    BY <1>1, LeastOf
  <2>2. verify_cart_mandate(token, keys, at) = CartChecklist[Min(failing)]
    BY DEF verify_cart_mandate
  <2>3. QED
    BY <2>1, <2>2, NoneAssumption
<1>3. /\ outcome["invalid_signature"] /\ outcome["expired"] /\ outcome["cart_total_mismatch"]
      /\ outcome["payee_not_allowed"]
  <2>1. /\ CartChecklist[3] = "invalid_signature" /\ CartChecklist[4] = "expired"
        /\ CartChecklist[8] = "cart_total_mismatch" /\ CartChecklist[9] = "payee_not_allowed"
    BY DEF CartChecklist
  <2> HIDE DEF outcome
  <2>2. \A i \in 1..9 : outcome[CartChecklist[i]]
    BY <1>1, <1>2
  <2>3. QED
    BY <2>1, <2>2
<1>4. QED
  BY <1>3 DEF CartOutcome

\* The cart of the call under way passed the rail, and the request that came of
\* it asks for what the cart says: its item, total, expiry, budget and id.
CartAsked ==
  call.endpoint = "ap2" =>
    LET r == call.todo[1]
        cart == call.cart
    IN /\ cart.kid = "cp-athleto-1" /\ cart.key = ProviderKey(starts) /\ cart.exp \in Int
       /\ cart.total_amount = cart.unit_amount * cart.quantity
       /\ cart.allowed_payees # {} => cart.payee \in cart.allowed_payees
       /\ r.txn.sku = cart.sku /\ r.txn.amount = cart.total_amount
       /\ r.txn.mandate.expires_at = cart.exp
       /\ r.txn.mandate.max_amount = default(cart.max_amount, cart.total_amount)
       /\ cart.transaction_id # None => r.txn.idempotency_key = cart.transaction_id

\* A cart that was spent under the running process's key is on its ledger.
SpentOnRecord ==
  \A cart \in spent :
    /\ cart.key \in {ProviderKey(n) : n \in 1..starts}
    /\ cart.key = ProviderKey(starts) /\ cart.transaction_id # None
         => \E row \in Allowed : row.txn.idempotency_key = cart.transaction_id

CartInv == CartAsked /\ AllowedCartWasSigned /\ SpentOnRecord

\* A token has the fields that sign_cart gives it.
IsToken(token) == token = sign_cart(token.kid, token.key, token)

\* ap2.py: the claims of a signed cart are those it was signed with.
LEMMA SignedCart ==
  ASSUME NEW kid, NEW key, NEW claims
  PROVE  LET token == sign_cart(kid, key, claims)
         IN /\ IsToken(token) /\ token.kid = kid /\ token.key = key
            /\ token.sku = claims.sku /\ token.exp = claims.exp
            /\ token.unit_amount = claims.unit_amount /\ token.quantity = claims.quantity
            /\ token.total_amount = claims.total_amount
            /\ token.payee = claims.payee /\ token.allowed_payees = claims.allowed_payees
            /\ token.max_amount = claims.max_amount
            /\ token.transaction_id = claims.transaction_id
  BY DEF sign_cart, IsToken

\* ap2.py: what the parsed cart takes from the token, and its two defaults.
LEMMA CartFields ==
  ASSUME NEW token, IsToken(token), NEW uuid
  PROVE  LET cart == AP2CartMandate(token, uuid)
         IN /\ cart.sku = token.sku /\ cart.exp = token.exp
            /\ cart.total_amount = token.total_amount
            /\ cart.max_amount = default(token.max_amount, token.total_amount)
            /\ cart.transaction_id = default(token.transaction_id, uuid)
<1>1. ASSUME NEW t, NEW kid, NEW key, NEW claims, t = sign_cart(kid, key, claims)
      PROVE  LET cart == AP2CartMandate(t, uuid)
             IN /\ cart.sku = t.sku /\ cart.exp = t.exp
                /\ cart.total_amount = t.total_amount
                /\ cart.max_amount = default(t.max_amount, t.total_amount)
                /\ cart.transaction_id = default(t.transaction_id, uuid)
  BY <1>1 DEF sign_cart, AP2CartMandate
<1>2. QED
  BY <1>1 DEF IsToken

\* Every cart that is ever signed, outside the API or by its demo, is a token
\* with a whole expiry.
LEMMA PresentedCarts ==
  ASSUME now \in Int
  PROVE  /\ \A token \in SignedCarts :
              IsToken(token) /\ token.exp \in Int /\ token.transaction_id \notin Uuids
         /\ \A variant : IsToken(mint_demo_cart(variant)) /\ mint_demo_cart(variant).exp \in Int
                         /\ mint_demo_cart(variant).transaction_id = Uuid(4)
<1>1. ASSUME NEW token \in SignedCarts
      PROVE  IsToken(token) /\ token.exp \in Int /\ token.transaction_id \notin Uuids
  <2>1. PICK n \in 1..starts, claims \in CartClaims :
          token = sign_cart("cp-athleto-1", ProviderKey(n), claims)
    BY DEF SignedCarts
  <2>2. QED
    BY <2>1, SignedCart, CartAssumption
<1>2. ASSUME NEW variant
      PROVE  IsToken(mint_demo_cart(variant)) /\ mint_demo_cart(variant).exp \in Int
             /\ mint_demo_cart(variant).transaction_id = Uuid(4)
  <2>1. PICK kid, key, claims :
          /\ claims.exp \in {now - 1, now + Ttl} /\ claims.transaction_id = Uuid(4)
          /\ mint_demo_cart(variant) \in {sign_cart(kid, key, claims),
                                         tamper_signature(sign_cart(kid, key, claims))}
    BY DEF mint_demo_cart
  <2>2. claims.exp \in Int
    BY <2>1, StorefrontAssumption
  <2> DEFINE token == sign_cart(kid, key, claims)
  <2>3. IsToken(token) /\ token.exp = claims.exp /\ token.transaction_id = Uuid(4)
    BY <2>1, SignedCart
  <2>4. tamper_signature(token) = sign_cart(kid, None, claims)
    BY DEF tamper_signature, sign_cart
  <2>5. QED
    BY <2>1, <2>2, <2>3, <2>4, SignedCart
<1>3. QED
  BY <1>1, <1>2

\* What the rail makes of a cart.
LEMMA CartCall ==
  ASSUME NEW token, NEW about, run_ap2(token, about), IsToken(token), token.exp \in Int,
         ~UNCHANGED call
  PROVE  /\ CartAsked' /\ call'.endpoint = "ap2" /\ call'.about = about
<1> DEFINE cart == AP2CartMandate(token, Uuid(5))
           record == OfferFor(get(cart.sku))
           draft == draft_of_cart(cart, record)
           mandate == sign_mandate(BridgeKey(starts), draft)
           r == Request(to_bazaar(cart, mandate, Uuid(0)), record)
<1>1. /\ verify_cart_mandate(token, ap2_trusted_keys, now) = None
      /\ call' = Call("ap2", about, mandate, token, <<r>>) /\ starts' = starts
  BY DEF run_ap2
<1>2. /\ signature_verifies(token, ap2_trusted_keys)
      /\ token.total_amount = token.unit_amount * token.quantity
      /\ token.allowed_payees = {} \/ token.payee \in token.allowed_payees
  BY <1>1, CartVerified
<1>3. token.kid = "cp-athleto-1" /\ token.key = ProviderKey(starts)
  BY <1>2 DEF signature_verifies, ap2_trusted_keys
<1>4. /\ r.txn.sku = cart.sku /\ r.txn.amount = cart.total_amount
      /\ r.txn.mandate = mandate /\ r.txn.idempotency_key = cart.transaction_id
  BY DEF Request, to_bazaar
<1>5. mandate.expires_at = cart.exp /\ mandate.max_amount = cart.max_amount
  BY DEF sign_mandate, draft_of_cart
<1>6. /\ cart.sku = token.sku /\ cart.exp = token.exp /\ cart.total_amount = token.total_amount
      /\ cart.max_amount = default(token.max_amount, token.total_amount)
      /\ cart.transaction_id = default(token.transaction_id, Uuid(5))
  BY CartFields
<1> HIDE DEF cart, record, draft, mandate, r
<1>7. call'.endpoint = "ap2" /\ call'.about = about /\ call'.cart = token /\ call'.todo[1] = r
  BY <1>1, CallFields
<1>8. token.transaction_id # None => r.txn.idempotency_key = token.transaction_id
  BY <1>4, <1>6 DEF default
<1>9. QED
  BY <1>1, <1>2, <1>3, <1>4, <1>5, <1>6, <1>7, <1>8 DEF CartAsked, ProviderKey

-----------------------------------------------------------------------------
\* A row that authorize() adds is the gate's answer to the request of the call.
LEMMA RowFields ==
  ASSUME NEW r
  PROVE  LET row == Row(r)
             result == authorize(r.txn, r.offer, Live(r.txn), trusted_issuer_keys, now)
         IN /\ row.endpoint = call.endpoint /\ row.txn = r.txn /\ row.offer = r.offer
            /\ row.live = Live(r.txn) /\ row.at = now /\ row.mandate = call.mandate
            /\ row.cart = call.cart
            /\ row.decision = result.decision /\ row.reason = result.reason
  BY DEF Row

\* What the gate saw when it allowed.
LEMMA AllowedChecks ==
  ASSUME NEW r, Row(r).decision = "ALLOW"
  PROVE  /\ ~is_expired(r.txn.mandate, now)
         /\ r.offer.sku = r.txn.sku /\ r.txn.amount = r.offer.price
         /\ r.txn.amount <= r.txn.mandate.max_amount
         /\ ~Live(r.txn).nonce_seen /\ ~Live(r.txn).idempotency_seen
<1> DEFINE out == Outcome(r.txn, r.offer, Live(r.txn), trusted_issuer_keys, now)
<1>1. authorize(r.txn, r.offer, Live(r.txn), trusted_issuer_keys, now).decision = "ALLOW"
  BY RowFields
<1>2. Failing(out) = {}
  BY <1>1, AllowMeansNoFailure
<1>3. \A i \in 1..11 : out[Checklist[i].check]
  BY <1>2 DEF Failing, Checklist
<1>4. /\ Checklist[3].check = "mandate_not_expired" /\ Checklist[6].check = "merchant_record_exists"
      /\ Checklist[7].check = "price_equals_merchant_record"
      /\ Checklist[9].check = "amount_within_cap" /\ Checklist[10].check = "nonce_unused"
      /\ Checklist[11].check = "idempotency_key_unused"
  BY DEF Checklist
<1> HIDE DEF out
<1>5. /\ out["mandate_not_expired"] /\ out["merchant_record_exists"]
      /\ out["price_equals_merchant_record"] /\ out["amount_within_cap"]
      /\ out["nonce_unused"] /\ out["idempotency_key_unused"]
  BY <1>3, <1>4
<1>6. QED
  BY <1>5 DEF out, Outcome, merchant_record_exists, price_equals_merchant_record, amount_within_cap

\* The ledger and the spent carts change when authorize() records a row, and at
\* a restart.
LEMMA LedgerCases ==
  ASSUME ShopShape, [Next]_vars
  PROVE  \/ UNCHANGED <<transactions, spent, starts>>
         \/ \E r \in Asked : /\ r = call.todo[1] /\ Record(Row(r)) /\ starts' = starts
                             /\ call.endpoint # "none"
         \/ Restart
<1>0. now \in Clock
  BY DEF ShopShape, Counters
<1>1. Authorize => \E r \in Asked : /\ r = call.todo[1] /\ Record(Row(r)) /\ starts' = starts
                                    /\ call.endpoint # "none"
  BY AuthorizeCase DEF Goes
<1>2. AuthorizeRaises => \/ UNCHANGED <<transactions, spent, starts>>
                         \/ \E r \in Asked : /\ r = call.todo[1] /\ Record(Row(r))
                                             /\ starts' = starts /\ call.endpoint # "none"
  BY RaisesCase
<1>3. QED
  BY <1>0, <1>1, <1>2, ShopCases
     DEF purchase, NoOffer, OfferReceived, attack, run_ap2, Quiet, shopVars

\* A cart that is allowed was verified by the call that presents it, and the
\* keys do not change before a restart.
LEMMA AllowedCartStep ==
  ASSUME ShopShape, CartInv, [Next]_vars
  PROVE  AllowedCartWasSigned'
<1>1. CASE UNCHANGED <<transactions, spent, starts>>
  BY <1>1 DEF CartInv, AllowedCartWasSigned, Allowed, ProviderKey
<1>2. ASSUME NEW r \in Asked, r = call.todo[1], Record(Row(r)), starts' = starts
      PROVE  AllowedCartWasSigned'
  <2> SUFFICES ASSUME NEW row \in Allowed', row.endpoint = "ap2"
               PROVE  LET cart == row.cart
                      IN /\ cart.kid = "cp-athleto-1" /\ cart.key = ProviderKey(starts)
                         /\ row.at <= cart.exp
                         /\ cart.sku = row.offer.sku
                         /\ cart.total_amount = cart.unit_amount * cart.quantity
                         /\ cart.total_amount = row.offer.price
                         /\ cart.max_amount # None => cart.total_amount <= cart.max_amount
                         /\ cart.allowed_payees # {} => cart.payee \in cart.allowed_payees
    BY <1>2 DEF AllowedCartWasSigned, ProviderKey
  <2>1. row \in transactions \/ row = Row(r)
    BY <1>2 DEF Allowed, Record
  <2>2. CASE row \in transactions
    BY <2>2 DEF CartInv, AllowedCartWasSigned, Allowed
  <2>3. CASE row = Row(r)
    <3>1. /\ call.endpoint = "ap2" /\ row.cart = call.cart /\ row.at = now
          /\ row.offer = r.offer /\ Row(r).decision = "ALLOW"
      BY <2>3, RowFields DEF Allowed
    <3>2. /\ ~(now > r.txn.mandate.expires_at)
          /\ r.offer.sku = r.txn.sku /\ r.txn.amount = r.offer.price
          /\ r.txn.amount <= r.txn.mandate.max_amount
      BY <3>1, AllowedChecks DEF is_expired
    <3>3. now \in Int
      BY StorefrontAssumption DEF ShopShape, Counters
    <3>4. /\ call.cart.kid = "cp-athleto-1" /\ call.cart.key = ProviderKey(starts)
          /\ call.cart.exp \in Int
          /\ call.cart.total_amount = call.cart.unit_amount * call.cart.quantity
          /\ call.cart.allowed_payees # {} => call.cart.payee \in call.cart.allowed_payees
          /\ r.txn.sku = call.cart.sku /\ r.txn.amount = call.cart.total_amount
          /\ r.txn.mandate.expires_at = call.cart.exp
          /\ r.txn.mandate.max_amount = default(call.cart.max_amount, call.cart.total_amount)
      BY <1>2, <3>1 DEF CartInv, CartAsked
    <3>5. now <= call.cart.exp
      BY <3>2, <3>3, <3>4
    <3>6. call.cart.max_amount # None => call.cart.total_amount <= call.cart.max_amount
      BY <3>2, <3>4 DEF default
    <3>7. QED
      BY <3>1, <3>2, <3>4, <3>5, <3>6
  <2>4. QED
    BY <2>1, <2>2, <2>3
<1>3. CASE Restart
  BY <1>3 DEF Restart, AllowedCartWasSigned, Allowed
<1>4. QED
  BY <1>1, <1>2, <1>3, LedgerCases

\* A cart is spent by the row that allows it, and no row is ever taken away.
LEMMA SpentStep ==
  ASSUME ShopShape, CartInv, [Next]_vars
  PROVE  SpentOnRecord'
<1>0. starts \in Nat /\ starts >= 1
  BY StorefrontAssumption DEF ShopShape, Counters
<1>1. CASE UNCHANGED <<transactions, spent, starts>>
  BY <1>1 DEF CartInv, SpentOnRecord, Allowed, ProviderKey
<1>2. ASSUME NEW r \in Asked, r = call.todo[1], Record(Row(r)), starts' = starts
      PROVE  SpentOnRecord'
  <2> SUFFICES ASSUME NEW cart \in spent'
               PROVE  /\ cart.key \in {ProviderKey(n) : n \in 1..starts}
                      /\ cart.key = ProviderKey(starts) /\ cart.transaction_id # None
                           => \E row \in Allowed' : row.txn.idempotency_key = cart.transaction_id
    BY <1>2 DEF SpentOnRecord, ProviderKey
  <2>1. Allowed \subseteq Allowed'
    BY <1>2 DEF Allowed, Record
  <2>2. CASE cart \in spent
    BY <2>1, <2>2 DEF CartInv, SpentOnRecord
  <2>3. CASE cart \notin spent
    <3>1. /\ cart = call.cart /\ call.endpoint = "ap2" /\ Row(r).decision = "ALLOW"
          /\ Row(r) \in Allowed' /\ Row(r).txn = r.txn
      BY <1>2, <2>3, RowFields DEF Record, Allowed
    <3>2. /\ cart.key = ProviderKey(starts)
          /\ cart.transaction_id # None => r.txn.idempotency_key = cart.transaction_id
      BY <1>2, <3>1 DEF CartInv, CartAsked
    <3>3. starts \in 1..starts
      BY <1>0
    <3>4. QED
      BY <3>1, <3>2, <3>3
  <2>4. QED
    BY <2>2, <2>3
<1>3. CASE Restart
  <2> SUFFICES ASSUME NEW cart \in spent
               PROVE  /\ cart.key \in {ProviderKey(n) : n \in 1..(starts + 1)}
                      /\ cart.key # ProviderKey(starts + 1)
    BY <1>3 DEF Restart, SpentOnRecord, ProviderKey
  <2>1. PICK n \in 1..starts : cart.key = <<"provider", n>>
    BY DEF CartInv, SpentOnRecord, ProviderKey
  <2>2. n \in 1..(starts + 1) /\ n # starts + 1
    BY <1>0
  <2>3. QED
    BY <2>1, <2>2 DEF ProviderKey
<1>4. QED
  BY <1>1, <1>2, <1>3, LedgerCases

\* The cart that a call presents to the gate passed the checks of the rail.
LEMMA CartAskedStep ==
  ASSUME ShopShape, CartInv, [Next]_vars
  PROVE  CartAsked'
<1>0. now \in Clock /\ now \in Int
  BY StorefrontAssumption DEF ShopShape, Counters
<1>1. ASSUME UNCHANGED <<call, starts>> PROVE CartAsked'
  BY <1>1 DEF CartInv, CartAsked, ProviderKey
<1>2. ASSUME call'.endpoint # "ap2" PROVE CartAsked'
  BY <1>2 DEF CartAsked
<1>3. ASSUME NEW token, NEW about, run_ap2(token, about), IsToken(token), token.exp \in Int
      PROVE  CartAsked'
  BY <1>1, <1>3, CartCall DEF run_ap2
<1>4. CASE OfferReceived
  <2>1. call.endpoint = "purchase"
    BY <1>4 DEF OfferReceived, ShopShape, CallShape
  <2>2. call = Call(call.endpoint, call.about, call.mandate, call.cart, call.todo)
    BY DEF ShopShape, CallShape
  <2>3. \E t : call' = [call EXCEPT !.todo = t]
    BY <1>4 DEF OfferReceived
  <2>4. call'.endpoint = "purchase"
    BY <2>1, <2>2, <2>3, CallFields
  <2>5. QED
    BY <1>2, <2>4
<1>5. CASE Authorize
  <2>1. call'.endpoint \in {"none", "attack"}
    BY <1>5, AuthorizeCase, CallFields, NoCallFields
  <2>2. QED
    BY <1>2, <2>1
<1>6. CASE AuthorizeRaises \/ NoOffer \/ Restart
  BY <1>2, <1>6, NoCallFields DEF AuthorizeRaises, NoOffer, Restart
<1>7. ASSUME NEW intent \in Intent, NEW base_sku \in BaseSku, NEW upsell \in BOOLEAN,
             purchase(intent, base_sku, upsell)
      PROVE  CartAsked'
  <2>1. call'.endpoint = "purchase"
    BY <1>7, CallFields DEF purchase
  <2>2. QED
    BY <1>2, <2>1
<1>8. ASSUME NEW cls \in AttackClass, attack(cls) PROVE CartAsked'
  <2>1. call'.endpoint = "attack"
    BY <1>8, CallFields DEF attack
  <2>2. QED
    BY <1>2, <2>1
<1>9. CASE Quiet
  BY <1>1, <1>9 DEF Quiet, shopVars
<1>10. QED
  BY <1>0, <1>3, <1>4, <1>5, <1>6, <1>7, <1>8, <1>9, PresentedCarts, ShopCases

\* The carts asked, allowed and spent agree, always.
LEMMA CartInvHolds == Spec => []CartInv
<1>1. Init => CartInv
  BY NoCallFields DEF Init, CartInv, CartAsked, AllowedCartWasSigned, Allowed, SpentOnRecord
<1>2. ShopShape /\ CartInv /\ [Next]_vars => CartInv'
  BY AllowedCartStep, SpentStep, CartAskedStep DEF CartInv
<1>3. QED
  BY <1>1, <1>2, ShapeHolds, PTL DEF Spec

\* ap2.py, app.py _run_ap2: an allowed cart was signed under the running
\* process's provider key, in time, for the merchant's price and within its own
\* budget, whatever was presented, repriced or restarted before.
THEOREM AllowedCartWasSignedHolds == Spec => []AllowedCartWasSigned
  BY CartInvHolds, PTL DEF CartInv

\* ap2.py idempotency_key: no cart that names its transaction is allowed twice,
\* in any history of presentations, repricings and restarts.
THEOREM CartSpentOnceHolds == Spec => CartSpentOnce
<1> DEFINE Once == \A row \in transactions' \ transactions :
                     row.decision = "ALLOW" /\ row.endpoint = "ap2"
                       /\ row.cart.transaction_id # None => row.cart \notin spent
<1>1. ShopShape /\ CartInv /\ [Next]_vars => Once
  <2> SUFFICES ASSUME ShopShape, CartInv, [Next]_vars,
                      NEW row \in transactions' \ transactions,
                      row.decision = "ALLOW", row.endpoint = "ap2",
                      row.cart.transaction_id # None, row.cart \in spent
               PROVE  FALSE
    OBVIOUS
  <2>1. PICK r \in Asked : r = call.todo[1] /\ Record(Row(r))
    BY LedgerCases DEF Restart
  <2>2. row = Row(r)
    BY <2>1 DEF Record
  <2>3. call.endpoint = "ap2" /\ row.cart = call.cart /\ ~Live(r.txn).idempotency_seen
    BY <2>2, RowFields, AllowedChecks
  <2>4. /\ call.cart.key = ProviderKey(starts)
        /\ r.txn.idempotency_key = call.cart.transaction_id
    BY <2>1, <2>3 DEF CartInv, CartAsked
  <2>5. \E x \in Allowed : x.txn.idempotency_key = call.cart.transaction_id
    BY <2>3, <2>4 DEF CartInv, SpentOnRecord
  <2>6. QED
    BY <2>3, <2>4, <2>5 DEF Live
<1>2. QED
  BY <1>1, ShapeHolds, CartInvHolds, PTL DEF Spec, CartSpentOnce

-----------------------------------------------------------------------------
\* A mandate that was signed with a key and not touched since.
Genuine(m, key) == verify_signature(m) /\ m.public_key = key /\ signed_body(m) \in Body

\* A draft or a mandate has the fields of models.Mandate and no other.
IsMandate(m) ==
  m = [mandate_id |-> m.mandate_id, agent_id |-> m.agent_id, max_amount |-> m.max_amount,
       allowed_categories |-> m.allowed_categories, expires_at |-> m.expires_at,
       public_key |-> m.public_key, signature |-> m.signature]

\* gate.py sign_mandate: the signature is over the fields as they are, so that
\* it verifies under the key that made it.
LEMMA SignedVerifies ==
  ASSUME NEW key, NEW draft, IsMandate(draft)
  PROVE  LET m == sign_mandate(key, draft)
         IN /\ IsMandate(m) /\ signed_body(m) = signed_body(draft) /\ m.public_key = key
            /\ m.mandate_id = draft.mandate_id /\ m.agent_id = draft.agent_id
            /\ m.max_amount = draft.max_amount /\ m.expires_at = draft.expires_at
            /\ m.allowed_categories = draft.allowed_categories
            /\ key \in Key /\ signed_body(draft) \in Body => Genuine(m, key)
<1> DEFINE m == sign_mandate(key, draft)
           signature == [key |-> key, body |-> signed_body(draft)]
<1>1. m = [mandate_id |-> draft.mandate_id, agent_id |-> draft.agent_id,
           max_amount |-> draft.max_amount, allowed_categories |-> draft.allowed_categories,
           expires_at |-> draft.expires_at, public_key |-> key, signature |-> signature]
  <2> DEFINE s == signed_body(draft)
  <2>1. m = [draft EXCEPT !.public_key = key, !.signature = [key |-> key, body |-> s]]
    BY DEF sign_mandate
  <2> HIDE DEF s
  <2>2. QED
    BY <2>1 DEF IsMandate, s
<1> HIDE DEF m, signature
<1>2. /\ m.mandate_id = draft.mandate_id /\ m.agent_id = draft.agent_id
      /\ m.max_amount = draft.max_amount /\ m.allowed_categories = draft.allowed_categories
      /\ m.expires_at = draft.expires_at /\ m.public_key = key /\ m.signature = signature
  BY <1>1
<1>3. IsMandate(m) /\ signed_body(m) = signed_body(draft)
  BY <1>1, <1>2 DEF IsMandate, signed_body
<1>4. ASSUME key \in Key, signed_body(draft) \in Body PROVE Genuine(m, key)
  <2>1. signature \in [key : Key, body : Body]
    BY <1>4 DEF signature
  <2>2. None # key /\ None # signature
    BY <1>4, <2>1, NoneAssumption
  <2>3. QED
    BY <1>2, <1>3, <1>4, <2>2 DEF Genuine, verify_signature, signature
<1>5. QED
  BY <1>2, <1>3, <1>4 DEF m

\* The keys that the processes trust are those of their issuers and bridges.
LEMMA KeyFacts ==
  /\ starts \in Nat => IssuerKey(starts) \in Key /\ BridgeKey(starts) \in Key
  /\ IssuerKey(starts) \in trusted_issuer_keys /\ BridgeKey(starts) \in trusted_issuer_keys
  BY DEF IssuerKey, BridgeKey, Key, trusted_issuer_keys

\* app.py: what buyer-1 confirms is a mandate of the running process's issuer.
LEMMA DraftIsSigned ==
  ASSUME ShopShape, NEW k \in Nat, NEW intent, intent.max_amount \in Int,
         intent.allowed_categories \subseteq Categories
  PROVE  LET m == sign_mandate(IssuerKey(starts), draft_mandate(Uuid(k), intent))
         IN /\ IsMandate(m) /\ Genuine(m, IssuerKey(starts)) /\ m.agent_id = "buyer-1"
            /\ m.mandate_id = Uuid(k) /\ m.max_amount = intent.max_amount
<1> DEFINE draft == draft_mandate(Uuid(k), intent)
<1>1. /\ draft.mandate_id = Uuid(k) /\ draft.agent_id = "buyer-1"
      /\ draft.max_amount = intent.max_amount /\ draft.expires_at = now + Ttl
      /\ draft.allowed_categories = intent.allowed_categories
      /\ IsMandate(draft)
  BY DEF draft_mandate, IsMandate
<1> HIDE DEF draft
<1>2. now + Ttl \in Int /\ starts \in Nat /\ calls \in Nat
  BY StorefrontAssumption DEF ShopShape, Counters
<1>3. Uuid(k) \in MandateId
  BY <1>2 DEF Uuid, MandateId, Uuids
<1>4. signed_body(draft) \in Body
  BY <1>1, <1>2, <1>3 DEF signed_body, Body
<1>5. QED
  BY <1>1, <1>2, <1>4, SignedVerifies, KeyFacts DEF draft

\* The confirmed intents have whole caps and known categories.
LEMMA IntentFacts ==
  ASSUME NEW intent \in Intent
  PROVE  intent.max_amount \in Int /\ intent.allowed_categories \subseteq Categories
<1>1. intent.max_amount \in Int
  <2>1. intent.max_amount \in BuyerCap
    BY StorefrontAssumption
  <2>2. BuyerCap \subseteq Nat
    BY NegotiationAssumption
  <2>3. intent.max_amount \in Nat
    BY <2>1, <2>2
  <2>4. QED
    BY <2>3
<1>2. intent.allowed_categories \subseteq Categories
  BY DEF Categories
<1>3. QED
  BY <1>1, <1>2

-----------------------------------------------------------------------------
\* An id that the API has made up so far: in an earlier call, or for the offer
\* of the call under way.
Minted(id) == id \in Uuids => id[2] < calls \/ (id[2] = calls /\ id[3] \in {6, 7})
Older(id)  == id \in Uuids => id[2] < calls

IdsOf(txn) == {txn.nonce, txn.idempotency_key}

\* No id of the ledger or of a request is one that is still to be made.
IdsMinted ==
  /\ \A row \in transactions : \A id \in IdsOf(row.txn) : Minted(id)
  /\ \A r \in Asked : \A id \in IdsOf(r.txn) : Minted(id)
  /\ call.endpoint = "purchase" /\ call.todo = << >> =>
       \A row \in transactions : \A id \in IdsOf(row.txn) : Older(id)

\* An identifier drawn by one call is older than the next.
LEMMA MintedGrows ==
  ASSUME NEW id, Minted(id), calls \in Nat, calls' = calls + 1
  PROVE  Minted(id)' /\ Older(id)'
<1>1. CASE id \notin Uuids
  BY <1>1 DEF Minted, Older
<1>2. CASE id \in Uuids
  <2>1. id[2] \in Nat
    BY <1>2 DEF Uuids
  <2>2. QED
    BY <1>2, <2>1 DEF Minted, Older
<1>3. QED
  BY <1>1, <1>2

\* Each id of a call is new when the call begins.
LEMMA FreshIds ==
  ASSUME NEW k \in 0..5, calls \in Nat
  PROVE  /\ ~Minted(Uuid(k)) /\ Uuid(k) \in Uuids
         /\ calls' = calls + 1 => \A id : id = Uuid(k) => Minted(id)'
  BY DEF Uuid, Uuids, Minted

\* The two identifiers of a purchase are fresh.
LEMMA OfferIds ==
  ASSUME NEW k \in {6, 7}, calls \in Nat
  PROVE  Uuid(k) \in Uuids /\ ~Older(Uuid(k)) /\ Minted(Uuid(k))
  BY DEF Uuid, Uuids, Minted, Older

\* The ids of the requests that the handlers make.
LEMMA AttackIds ==
  ASSUME NEW cls, NEW mandate, NEW i \in DOMAIN AttackRequests(cls, mandate)
  PROVE  IdsOf(AttackRequests(cls, mandate)[i].txn) \subseteq {Uuid(0), Uuid(1), Uuid(2)}
<1>1. ASSUME NEW m, NEW offer, NEW n, NEW k
      PROVE  LET t == AttackRequest(cls, build_transaction(m, offer, n, k))
             IN t.nonce = n /\ t.idempotency_key = k
  BY DEF AttackRequest, build_transaction
<1>2. ASSUME NEW t, NEW o PROVE Request(t, o).txn = t
  BY DEF Request
<1>3. QED
  BY <1>1, <1>2 DEF AttackRequests, IdsOf

\* The identifiers of a cart's request: a fresh nonce, and the transaction_id of
\* the cart or a fresh key in its place.
LEMMA CartIds ==
  ASSUME NEW token, NEW about, run_ap2(token, about), IsToken(token), ~UNCHANGED call
  PROVE  \E r : /\ call'.endpoint = "ap2" /\ Asked' = {r}
                /\ r.txn.nonce = Uuid(0)
                /\ r.txn.idempotency_key = default(token.transaction_id, Uuid(5))
<1> DEFINE cart == AP2CartMandate(token, Uuid(5))
           record == OfferFor(get(cart.sku))
           mandate == sign_mandate(BridgeKey(starts), draft_of_cart(cart, record))
           r == Request(to_bazaar(cart, mandate, Uuid(0)), record)
<1>1. call' = Call("ap2", about, mandate, token, <<r>>)
  BY DEF run_ap2
<1>2. r.txn.nonce = Uuid(0) /\ r.txn.idempotency_key = cart.transaction_id
  BY DEF Request, to_bazaar
<1>3. cart.transaction_id = default(token.transaction_id, Uuid(5))
  BY CartFields
<1> HIDE DEF cart, mandate, record, r
<1>4. call'.endpoint = "ap2" /\ call'.todo = <<r>>
  BY <1>1, CallFields
<1>5. Asked' = {r}
  BY <1>4, TodoForms DEF Asked
<1>6. QED
  BY <1>2, <1>3, <1>4, <1>5

\* No handler reuses an identifier: a new one is drawn above all older ones.
LEMMA IdsStep ==
  ASSUME ShopShape, IdsMinted, [Next]_vars
  PROVE  IdsMinted'
<1>0. now \in Clock /\ calls \in Nat /\ now \in Int
  BY StorefrontAssumption DEF ShopShape, Counters
<1>a. ASSUME UNCHANGED transactions, calls' = calls + 1
      PROVE  \A row \in transactions' : \A id \in IdsOf(row.txn) : Minted(id)' /\ Older(id)'
  BY <1>0, <1>a, MintedGrows DEF IdsMinted
<1>b. call' = NoCall => Asked' = {} /\ call'.endpoint # "purchase"
  BY NoCallFields, TodoForms DEF Asked
<1>1. ASSUME NEW intent \in Intent, NEW base_sku \in BaseSku, NEW upsell \in BOOLEAN,
             purchase(intent, base_sku, upsell)
      PROVE  IdsMinted'
  <2>1. PICK m : call' = Call("purchase", None, m, None, << >>)
    BY <1>1 DEF purchase
  <2>2. Asked' = {}
    BY <2>1, CallFields, TodoForms DEF Asked
  <2>3. UNCHANGED transactions /\ calls' = calls + 1
    BY <1>1 DEF purchase, Begin
  <2>4. QED
    BY <1>a, <2>2, <2>3 DEF IdsMinted
<1>2. CASE NoOffer
  BY <1>2, <1>b DEF NoOffer, IdsMinted, Minted
<1>3. CASE OfferReceived
  <2>1. \E offer : call' = [call EXCEPT !.todo =
          <<Request(build_transaction(call.mandate, offer, Uuid(6), Uuid(7)), offer)>>]
    BY <1>3 DEF OfferReceived
  <2>2. PICK r : call' = [call EXCEPT !.todo = <<r>>] /\ IdsOf(r.txn) = {Uuid(6), Uuid(7)}
    <3>1. \A offer : IdsOf(Request(build_transaction(call.mandate, offer, Uuid(6), Uuid(7)), offer)
                             .txn) = {Uuid(6), Uuid(7)}
      BY DEF Request, build_transaction, IdsOf
    <3>2. QED
      BY <2>1, <3>1
  <2>3. call' = Call(call.endpoint, call.about, call.mandate, call.cart, <<r>>)
    BY <2>2, CallFields DEF ShopShape, CallShape
  <2>4. Asked' = {r} /\ call'.todo # << >>
    BY <2>3, CallFields, TodoForms DEF Asked
  <2>5. UNCHANGED <<transactions, calls>>
    BY <1>3 DEF OfferReceived
  <2>6. \A id \in IdsOf(r.txn) : Minted(id)'
    BY <1>0, <2>2, <2>5, OfferIds DEF Minted
  <2>7. QED
    BY <2>4, <2>5, <2>6 DEF IdsMinted, Minted
<1>4. ASSUME NEW cls \in AttackClass, attack(cls) PROVE IdsMinted'
  <2>1. PICK m, mandate : call' = Call("attack", cls, m, None, AttackRequests(cls, mandate))
    BY <1>4 DEF attack
  <2>2. call'.endpoint = "attack" /\ call'.todo = AttackRequests(cls, mandate)
    BY <2>1, CallFields
  <2>3. UNCHANGED transactions /\ calls' = calls + 1
    BY <1>4 DEF attack, Begin
  <2>4. \A id \in {Uuid(0), Uuid(1), Uuid(2)} : Minted(id)'
    BY <1>0, <2>3, FreshIds
  <2>5. \A r \in Asked' : IdsOf(r.txn) \subseteq {Uuid(0), Uuid(1), Uuid(2)}
    BY <2>2, AttackIds DEF Asked
  <2>6. QED
    BY <1>a, <2>2, <2>3, <2>4, <2>5 DEF IdsMinted
<1>5. ASSUME NEW token, NEW about, run_ap2(token, about), IsToken(token),
             token.transaction_id \notin Uuids \/ token.transaction_id = Uuid(4)
      PROVE  IdsMinted'
  <2>1. UNCHANGED transactions /\ calls' = calls + 1 /\ call = NoCall
    BY <1>5 DEF run_ap2, Begin
  <2>2. CASE UNCHANGED call
    BY <1>a, <1>b, <2>1, <2>2 DEF IdsMinted
  <2>3. CASE ~UNCHANGED call
    <3>1. PICK r : /\ call'.endpoint = "ap2" /\ Asked' = {r}
                   /\ r.txn.nonce = Uuid(0)
                   /\ r.txn.idempotency_key = default(token.transaction_id, Uuid(5))
      BY <1>5, <2>3, CartIds
    <3>2. r.txn.idempotency_key \notin Uuids \/ r.txn.idempotency_key \in {Uuid(4), Uuid(5)}
      BY <1>5, <3>1 DEF default
    <3>3. \A id \in IdsOf(r.txn) : Minted(id)'
      BY <1>0, <2>1, <3>1, <3>2, FreshIds DEF IdsOf, Minted
    <3>4. QED
      BY <1>a, <2>1, <3>1, <3>3 DEF IdsMinted
  <2>4. QED
    BY <2>2, <2>3
<1>6. CASE Authorize
  <2>1. PICK r \in Asked : Goes(r)
    BY <1>6, AuthorizeCase
  <2>2. /\ transactions' = transactions \cup {Row(r)} /\ Row(r).txn = r.txn
        /\ calls' = calls
    BY <2>1, RowFields DEF Goes, Record
  <2>3. Asked' \subseteq Asked
    BY <1>6, AskedShrinks
  <2>4. call'.endpoint # "purchase"
    BY <1>6, AuthorizeCase, <1>b, CallFields
  <2>5. QED
    BY <2>1, <2>2, <2>3, <2>4 DEF IdsMinted, Minted
<1>7. CASE AuthorizeRaises
  <2>1. PICK r \in Asked : Record(Row(r)) \/ UNCHANGED <<transactions, spent>>
    BY <1>7, RaisesCase
  <2>2. /\ transactions' \subseteq transactions \cup {Row(r)} /\ Row(r).txn = r.txn
        /\ calls' = calls /\ call' = NoCall
    BY <1>7, <2>1, RowFields, RaisesCase DEF Record
  <2>3. QED
    BY <1>b, <2>1, <2>2 DEF IdsMinted, Minted
<1>8. CASE Restart
  BY <1>8, <1>b DEF Restart, IdsMinted
<1>9. CASE Quiet
  BY <1>9 DEF Quiet, shopVars, IdsMinted, Minted, Older, Asked
<1>10. ASSUME NEW token \in SignedCarts, run_ap2(token, None) PROVE IdsMinted'
  BY <1>0, <1>5, <1>10, PresentedCarts
<1>11. ASSUME NEW variant, run_ap2(mint_demo_cart(variant), variant) PROVE IdsMinted'
  BY <1>0, <1>5, <1>11, PresentedCarts
<1>12. QED
  BY <1>0, <1>1, <1>2, <1>3, <1>4, <1>6, <1>7, <1>8, <1>9, <1>10, <1>11, ShopCases

\* Every identifier on the ledger was drawn by this call or by an earlier one.
LEMMA IdsHold == Spec => []IdsMinted
<1>1. Init => IdsMinted
  BY NoCallFields, TodoForms DEF Init, IdsMinted, Asked
<1>2. QED
  BY <1>1, IdsStep, ShapeHolds, PTL DEF Spec

-----------------------------------------------------------------------------
\* No allowed row has used the nonce or the key of a request.
Unused(txn) == ~Live(txn).nonce_seen /\ ~Live(txn).idempotency_seen

\* A request for the offered item at its price.
OnOffer(r) ==
  /\ r.offer # None /\ r.offer.active /\ r.offer.sku = r.txn.sku /\ r.txn.amount = r.offer.price
  /\ r.txn.price_source = "merchant_record"

\* A purchase asks under the mandate that was signed for it, for an offer that
\* its cap bounds, with ids that were never used.
PurchaseAsked ==
  call.endpoint = "purchase" =>
    /\ Genuine(call.mandate, IssuerKey(starts)) /\ call.mandate.agent_id = "buyer-1"
    /\ deal.at # "idle" => deal.buyer_cap = call.mandate.max_amount
    /\ \A r \in Asked : /\ r.txn.mandate = call.mandate /\ r.txn.agent_id = "buyer-1"
                        /\ OnOffer(r) /\ amount_within_cap(r.txn) /\ Unused(r.txn)

\* A negotiation keeps the cap that it was called with.
LEMMA CapIsKept ==
  ASSUME NegotiationInv, [NegotiationNext]_dealVars, deal.at # "idle", deal'.at # "idle"
  PROVE  deal'.buyer_cap = deal.buyer_cap
<1>1. deal \in Deals
  BY DEF NegotiationInv
<1>2. ~Return /\ ~Reseed
  BY DEF Return, Reseed, NoDeal
<1>3. \A s, c, u : ~negotiate(s, c, u)
  BY DEF negotiate
<1>4. CASE propose_upsell
  BY <1>1, <1>4 DEF propose_upsell, Deals
<1>5. CASE NoViablePrice
  BY <1>1, <1>5 DEF NoViablePrice, Deals
<1>6. CASE Bargain
  BY <1>1, <1>6 DEF Bargain, Deals
<1>7. CASE FinalizeOffer
  BY <1>1, <1>7 DEF FinalizeOffer, Deals
<1>8. CASE UNCHANGED deal
  BY <1>8
<1>9. QED
  BY <1>2, <1>3, <1>4, <1>5, <1>6, <1>7, <1>8 DEF NegotiationNext, Negotiate, dealVars

\* The offer that a purchase gets is the merchant's row at the agreed price.
LEMMA OfferIsRecord ==
  ASSUME NegotiationInv, deal.at = "offered"
  PROVE  LET offer == [merchant_catalog[deal.sku] EXCEPT !.price = deal.agreed_price]
         IN /\ offer \in MerchantRecord /\ offer # None /\ offer.active
            /\ offer.sku = deal.sku /\ offer.price = deal.agreed_price
            /\ offer.price <= deal.buyer_cap
<1> DEFINE item == merchant_catalog[deal.sku]
           offer == [item EXCEPT !.price = deal.agreed_price]
<1>1. /\ deal.sku \in Sku /\ deal.agreed_price \in Int /\ deal.floor_price \in Nat
      /\ deal.list_price \in Nat /\ deal.buyer_cap \in Nat
      /\ deal.floor_price <= deal.agreed_price
      /\ deal.agreed_price <= Smaller(deal.list_price, deal.buyer_cap)
  BY DEF NegotiationInv, DealWithinWalls, Deals
<1>2. item \in MerchantRecord /\ item.sku = deal.sku /\ item.active
  BY <1>1 DEF NegotiationInv, CatalogKept, OfferIsActive, Sku
<1>3. deal.agreed_price \in Nat /\ deal.agreed_price <= deal.buyer_cap
  BY <1>1 DEF Smaller
<1> HIDE DEF item
<1>4. /\ offer \in MerchantRecord /\ offer.sku = item.sku /\ offer.active = item.active
      /\ offer.price = deal.agreed_price
  BY <1>2, <1>3 DEF MerchantRecord
<1> HIDE DEF offer
<1>5. offer # None
  BY <1>4, NoneAssumption
<1>6. QED
  BY <1>2, <1>3, <1>4, <1>5 DEF offer, item

\* app.py purchase(): what the authorization is asked is what was negotiated,
\* and nothing changes it in between.
LEMMA PurchaseStep ==
  ASSUME ShopShape, NegotiationInv, IdsMinted, PurchaseAsked, [Next]_vars
  PROVE  PurchaseAsked'
<1>0. now \in Clock /\ calls \in Nat
  BY StorefrontAssumption DEF ShopShape, Counters
<1>a. call' = NoCall => PurchaseAsked'
  BY NoCallFields DEF PurchaseAsked
<1>1. ASSUME NEW intent \in Intent, NEW base_sku \in BaseSku, NEW upsell \in BOOLEAN,
             purchase(intent, base_sku, upsell)
      PROVE  PurchaseAsked'
  <2> DEFINE m == sign_mandate(IssuerKey(starts), draft_mandate(Uuid(0), intent))
  <2>1. /\ call' = Call("purchase", None, m, None, << >>) /\ starts' = starts
        /\ negotiate(base_sku, m.max_amount, upsell)
    BY <1>1 DEF purchase
  <2>2. Genuine(m, IssuerKey(starts)) /\ m.agent_id = "buyer-1"
    BY IntentFacts, DraftIsSigned
  <2> HIDE DEF m
  <2>3. call'.mandate = m /\ Asked' = {}
    BY <2>1, CallFields, TodoForms DEF Asked
  <2>4. deal'.buyer_cap = m.max_amount
    BY <2>1 DEF negotiate, NoDeal
  <2>5. QED
    BY <2>1, <2>2, <2>3, <2>4 DEF PurchaseAsked, IssuerKey
<1>2. CASE NoOffer
  BY <1>2, <1>a DEF NoOffer
<1>3. CASE OfferReceived
  <2>a. PICK offer : offer = [merchant_catalog[deal.sku] EXCEPT !.price = deal.agreed_price]
    OBVIOUS
  <2>b. PICK r : r = Request(build_transaction(call.mandate, offer, Uuid(6), Uuid(7)), offer)
    OBVIOUS
  <2>1. /\ deal.at = "offered" /\ deal' = NoDeal /\ call' = [call EXCEPT !.todo = <<r>>]
        /\ UNCHANGED <<transactions, starts>>
    BY <1>3, <2>a, <2>b DEF OfferReceived, Return
  <2>2. /\ offer # None /\ offer.active /\ offer.price <= deal.buyer_cap
    BY <2>1, <2>a, OfferIsRecord
  <2>3. call.endpoint = "purchase" /\ call.todo = << >>
    BY <2>1 DEF ShopShape, CallShape
  <2>4. /\ r.offer = offer /\ r.txn.mandate = call.mandate /\ r.txn.agent_id = "buyer-1"
        /\ r.txn.sku = offer.sku /\ r.txn.amount = offer.price
        /\ r.txn.price_source = "merchant_record"
        /\ r.txn.nonce = Uuid(6) /\ r.txn.idempotency_key = Uuid(7)
    BY <2>b DEF Request, build_transaction
  <2>5. call' = Call(call.endpoint, call.about, call.mandate, call.cart, <<r>>)
    BY <2>1, CallFields DEF ShopShape, CallShape
  <2>6. Asked' = {r} /\ call'.mandate = call.mandate
    BY <2>5, CallFields, TodoForms DEF Asked
  <2>7. Unused(r.txn)
    <3>1. \A row \in transactions : Older(row.txn.nonce) /\ Older(row.txn.idempotency_key)
      BY <2>3 DEF IdsMinted, IdsOf
    <3>2. ~Older(Uuid(6)) /\ ~Older(Uuid(7))
      BY <1>0, OfferIds
    <3>3. QED
      BY <2>4, <3>1, <3>2 DEF Unused, Live, Allowed
  <2>8. Unused(r.txn)'
    BY <2>1, <2>7 DEF Unused, Live, Allowed
  <2>9. deal.buyer_cap = call.mandate.max_amount /\ Genuine(call.mandate, IssuerKey(starts))
        /\ call.mandate.agent_id = "buyer-1"
    BY <2>1, <2>3 DEF PurchaseAsked
  <2>10. OnOffer(r) /\ amount_within_cap(r.txn)
    BY <2>2, <2>4, <2>9 DEF OnOffer, amount_within_cap
  <2>11. deal'.at = "idle"
    BY <2>1 DEF NoDeal
  <2>12. QED
    BY <2>1, <2>4, <2>6, <2>8, <2>9, <2>10, <2>11 DEF PurchaseAsked, IssuerKey
<1>4. ASSUME NEW cls \in AttackClass, attack(cls) PROVE PurchaseAsked'
  BY <1>4, CallFields DEF attack, PurchaseAsked
<1>5. ASSUME NEW token, NEW about, run_ap2(token, about) PROVE PurchaseAsked'
  <2>1. call' = NoCall \/ \E m, r : call' = Call("ap2", about, m, token, <<r>>)
    BY <1>5 DEF run_ap2, Begin
  <2>2. ASSUME NEW m, NEW r, call' = Call("ap2", about, m, token, <<r>>)
        PROVE  call'.endpoint = "ap2"
    BY <2>2, CallFields
  <2>3. QED
    BY <1>a, <2>1, <2>2 DEF PurchaseAsked
<1>6. CASE Authorize
  BY <1>6, <1>a, AuthorizeCase, CallFields DEF PurchaseAsked
<1>7. CASE AuthorizeRaises
  BY <1>7, <1>a, RaisesCase
<1>8. CASE Restart
  BY <1>8, <1>a DEF Restart
<1>9. CASE Quiet
  <2>1. deal.at # "idle" /\ deal'.at # "idle" => deal'.buyer_cap = deal.buyer_cap
    BY ShopStep, CapIsKept
  <2>2. deal.at = "idle" => deal' = deal
    BY <1>9 DEF Quiet
  <2>3. UNCHANGED <<call, transactions, starts>>
    BY <1>9 DEF Quiet, shopVars
  <2>4. Asked' = Asked /\ \A txn : Unused(txn) => Unused(txn)'
    BY <2>3 DEF Asked, Unused, Live, Allowed
  <2>5. QED
    BY <2>1, <2>2, <2>3, <2>4 DEF PurchaseAsked, IssuerKey
<1>10. QED
  BY <1>0, <1>1, <1>2, <1>3, <1>4, <1>5, <1>6, <1>7, <1>8, <1>9, ShopCases

-----------------------------------------------------------------------------
\* A refusal is the first check that fails, and an answer without one is ALLOW.
LEMMA RefusalIsAFailure ==
  ASSUME NEW txn, NEW record, NEW live, NEW trusted, NEW at,
         authorize(txn, record, live, trusted, at).decision = "BLOCK"
  PROVE  \E i \in 1..11 :
           /\ ~Outcome(txn, record, live, trusted, at)[Checklist[i].check]
           /\ authorize(txn, record, live, trusted, at).reason = Checklist[i].reason
<1> DEFINE out == Outcome(txn, record, live, trusted, at)
           failing == Failing(out)
<1>1. DOMAIN Checklist = 1..11 /\ failing \subseteq 1..11
  BY DEF Checklist, Failing
<1>2. failing # {}
  BY DEF authorize, Allow
<1>3. Min(failing) \in failing
  BY <1>1, <1>2, LeastOf
<1>4. authorize(txn, record, live, trusted, at).reason = Checklist[Min(failing)].reason
  BY <1>2 DEF authorize, Block
<1> HIDE DEF out
<1>5. \A i \in failing : ~out[Checklist[i].check]
  BY <1>1 DEF Failing
<1>6. QED
  BY <1>1, <1>3, <1>4, <1>5 DEF out

\* The checks of the gate by name.
LEMMA Checks ==
  ASSUME NEW txn, NEW record, NEW live, NEW trusted, NEW at
  PROVE  LET out == Outcome(txn, record, live, trusted, at)
         IN /\ out[Checklist[1].check] <=> mandate_signed_by_trusted_issuer(txn.mandate, trusted)
            /\ out[Checklist[2].check] <=> txn.mandate.agent_id = txn.agent_id
            /\ out[Checklist[3].check] <=> ~is_expired(txn.mandate, at)
            /\ out[Checklist[4].check] <=> ~live.agent_frozen
            /\ out[Checklist[5].check] <=> txn.price_source = "merchant_record"
            /\ out[Checklist[6].check] <=> merchant_record_exists(txn, record)
            /\ out[Checklist[7].check] <=> price_equals_merchant_record(txn, record)
            /\ out[Checklist[8].check] <=> category_in_allowlist(txn, record)
            /\ out[Checklist[9].check] <=> amount_within_cap(txn)
            /\ out[Checklist[10].check] <=> ~live.nonce_seen
            /\ out[Checklist[11].check] <=> ~live.idempotency_seen
<1>1. /\ Checklist[1].check = "mandate_signed_by_trusted_issuer"
      /\ Checklist[2].check = "mandate_agent_matches"
      /\ Checklist[3].check = "mandate_not_expired"
      /\ Checklist[4].check = "agent_not_frozen"
      /\ Checklist[5].check = "money_field_from_merchant_record"
      /\ Checklist[6].check = "merchant_record_exists"
      /\ Checklist[7].check = "price_equals_merchant_record"
      /\ Checklist[8].check = "category_in_allowlist"
      /\ Checklist[9].check = "amount_within_cap"
      /\ Checklist[10].check = "nonce_unused"
      /\ Checklist[11].check = "idempotency_key_unused"
  BY DEF Checklist
<1> DEFINE out == Outcome(txn, record, live, trusted, at)
<1>2. /\ out["mandate_signed_by_trusted_issuer"]
           <=> mandate_signed_by_trusted_issuer(txn.mandate, trusted)
      /\ out["mandate_agent_matches"] <=> txn.mandate.agent_id = txn.agent_id
      /\ out["mandate_not_expired"] <=> ~is_expired(txn.mandate, at)
      /\ out["agent_not_frozen"] <=> ~live.agent_frozen
      /\ out["money_field_from_merchant_record"] <=> txn.price_source = "merchant_record"
      /\ out["merchant_record_exists"] <=> merchant_record_exists(txn, record)
  BY DEF Outcome
<1>3. /\ out["price_equals_merchant_record"] <=> price_equals_merchant_record(txn, record)
      /\ out["category_in_allowlist"] <=> category_in_allowlist(txn, record)
      /\ out["amount_within_cap"] <=> amount_within_cap(txn)
      /\ out["nonce_unused"] <=> ~live.nonce_seen
      /\ out["idempotency_key_unused"] <=> ~live.idempotency_seen
  BY DEF Outcome
<1> HIDE DEF out
<1>4. QED
  BY <1>1, <1>2, <1>3 DEF out

\* The reasons of the checks, in their order.
LEMMA Reasons ==
  /\ Checklist[1].reason = "MANDATE_IMMUTABLE" /\ Checklist[3].reason = "MANDATE_EXPIRED"
  /\ Checklist[4].reason = "AGENT_FROZEN" /\ Checklist[5].reason = "UNTRUSTED_INSTRUCTION"
  /\ Checklist[7].reason = "PRICE_MISMATCH_MERCHANT_RECORD"
  /\ Checklist[8].reason = "CATEGORY_OUTSIDE_MANDATE"
  /\ Checklist[9].reason = "MANDATE_LIMIT_EXCEEDED"
  /\ Checklist[10].reason = "NONCE_REPLAY" /\ Checklist[11].reason = "DUPLICATE_TRANSACTION"
  BY DEF Checklist

\* Failures are counted and never forgotten.
LEMMA FaultsGrow == ASSUME ShopShape, [Next]_vars PROVE faults \in Nat /\ faults' >= faults
<1>1. now \in Clock /\ faults \in Nat
  BY StorefrontAssumption DEF ShopShape, Counters
<1>2. faults' = faults \/ faults' = faults + 1
  BY <1>1, ShopCases
     DEF purchase, NoOffer, OfferReceived, attack, run_ap2, Authorize, AuthorizeRaises, Restart,
         Quiet, shopVars
<1>3. QED
  BY <1>1, <1>2

\* The call's own request is refused for the time, the freeze or the category.
LEMMA PurchaseRow ==
  ASSUME ShopShape, PurchaseAsked, FreezeEndsWithAttack,
         NEW r \in Asked, call.endpoint = "purchase", Row(r).decision = "BLOCK"
  PROVE  \/ Row(r).reason = "MANDATE_EXPIRED"  /\ now > r.txn.mandate.expires_at
         \/ Row(r).reason = "AGENT_FROZEN"     /\ faults > 0
         \/ Row(r).reason = "CATEGORY_OUTSIDE_MANDATE"
              /\ r.offer.category \notin r.txn.mandate.allowed_categories
<1> DEFINE live == Live(r.txn)
           out == Outcome(r.txn, r.offer, live, trusted_issuer_keys, now)
<1>1. PICK i \in 1..11 : ~out[Checklist[i].check] /\ Row(r).reason = Checklist[i].reason
  BY RowFields, RefusalIsAFailure
<1>2. /\ Genuine(r.txn.mandate, IssuerKey(starts)) /\ r.txn.mandate.agent_id = r.txn.agent_id
      /\ OnOffer(r) /\ amount_within_cap(r.txn) /\ Unused(r.txn)
  BY DEF PurchaseAsked
<1>3. /\ out[Checklist[1].check] /\ out[Checklist[2].check] /\ out[Checklist[5].check]
      /\ out[Checklist[6].check] /\ out[Checklist[7].check] /\ out[Checklist[9].check]
      /\ out[Checklist[10].check] /\ out[Checklist[11].check]
  <2> HIDE DEF out, live
  <2>1. mandate_signed_by_trusted_issuer(r.txn.mandate, trusted_issuer_keys)
    BY <1>2, KeyFacts DEF Genuine, mandate_signed_by_trusted_issuer
  <2>2. /\ r.txn.price_source = "merchant_record" /\ merchant_record_exists(r.txn, r.offer)
        /\ price_equals_merchant_record(r.txn, r.offer)
    BY <1>2 DEF OnOffer, merchant_record_exists, price_equals_merchant_record
  <2>3. ~live.nonce_seen /\ ~live.idempotency_seen
    BY <1>2 DEF Unused, live
  <2>4. QED
    BY <1>2, <2>1, <2>2, <2>3, Checks DEF out
<1>4. i = 3 \/ i = 4 \/ i = 8
  <2> HIDE DEF out
  <2>1. QED
    BY <1>1, <1>3
<1>5. CASE i = 3
  BY <1>1, <1>5, Checks, Reasons DEF is_expired
<1>6. CASE i = 4
  <2>1. live.agent_frozen
    BY <1>1, <1>6, Checks
  <2>2. frozen
    BY <2>1 DEF Live
  <2>3. call.about = None
    BY DEF ShopShape, CallShape
  <2>4. faults > 0
    BY <2>2, <2>3, NoneAssumption DEF FreezeEndsWithAttack
  <2>5. QED
    BY <1>1, <1>6, <2>4, Reasons
<1>7. CASE i = 8
  <2>1. ~category_in_allowlist(r.txn, r.offer)
    BY <1>1, <1>7, Checks
  <2>2. r.offer.category \notin r.txn.mandate.allowed_categories
    BY <1>2, <2>1 DEF category_in_allowlist, OnOffer
  <2>3. QED
    BY <1>1, <1>7, <2>2, Reasons
<1>8. QED
  BY <1>4, <1>5, <1>6, <1>7

\* The row that a purchase is answered with is allowed, or refused for a cause
\* that the confirmed mandate explains.
LEMMA RefusedStep ==
  ASSUME ShopShape, PurchaseAsked, FreezeEndsWithAttack, PurchaseRefusedForCause, [Next]_vars
  PROVE  PurchaseRefusedForCause'
<1>1. faults \in Nat /\ faults' >= faults
  BY FaultsGrow
<1>a. faults' \in Int
  BY StorefrontAssumption, ShapeStep DEF ShopShape, Counters
<1>b. faults > 0 => faults' > 0
  BY <1>1, <1>a
<1>2. CASE UNCHANGED <<transactions, spent, starts>>
  BY <1>b, <1>2 DEF PurchaseRefusedForCause
<1>3. ASSUME NEW r \in Asked, r = call.todo[1], Record(Row(r))
      PROVE  PurchaseRefusedForCause'
  <2> SUFFICES ASSUME NEW row \in transactions', row.endpoint = "purchase", row.decision = "BLOCK"
               PROVE  \/ row.reason = "MANDATE_EXPIRED" /\ row.at > row.txn.mandate.expires_at
                      \/ row.reason = "AGENT_FROZEN"    /\ faults' > 0
                      \/ row.reason = "CATEGORY_OUTSIDE_MANDATE"
                           /\ row.offer.category \notin row.txn.mandate.allowed_categories
    BY DEF PurchaseRefusedForCause
  <2>1. CASE row \in transactions
    BY <1>b, <2>1 DEF PurchaseRefusedForCause
  <2>2. CASE row = Row(r)
    <3>1. call.endpoint = "purchase" /\ row.txn = r.txn /\ row.offer = r.offer /\ row.at = now
      BY <2>2, RowFields
    <3>2. QED
      BY <1>b, <2>2, <3>1, PurchaseRow
  <2>3. QED
    BY <1>3, <2>1, <2>2 DEF Record
<1>4. CASE Restart
  BY <1>4 DEF Restart, PurchaseRefusedForCause
<1>5. QED
  BY <1>2, <1>3, <1>4, LedgerCases

\* app.py purchase(): the walls of the negotiation and the checks of the gate
\* agree, for every catalog, cap, price history and failure.
THEOREM PurchaseRefusedForCauseHolds == Spec => []PurchaseRefusedForCause
<1>1. Init => PurchaseAsked /\ PurchaseRefusedForCause
  BY NoCallFields, TodoForms DEF Init, PurchaseAsked, PurchaseRefusedForCause, Asked
<1>2. Spec => []IdsMinted
  BY IdsHold
<1>3. Spec => []NegotiationInv
  BY ShopNegotiationInv
<1>4. Spec => []PurchaseAsked
  BY <1>1, <1>2, <1>3, PurchaseStep, ShapeHolds, PTL DEF Spec
<1>5. QED
  BY <1>1, <1>4, RefusedStep, ShapeHolds, FreezeEndsWithAttackHolds, PTL DEF Spec

-----------------------------------------------------------------------------
\* ap2.py verify_cart_mandate: the first check that a cart fails names the
\* refusal, and a cart that passes them all is not refused.
LEMMA CartRefusal ==
  ASSUME NEW token, NEW keys, NEW at, NEW i \in 1..9,
         ~CartOutcome(token, keys, at)[CartChecklist[i]],
         \A j \in 1..(i - 1) : CartOutcome(token, keys, at)[CartChecklist[j]]
  PROVE  verify_cart_mandate(token, keys, at) = CartChecklist[i] /\ CartChecklist[i] # None
<1> DEFINE outcome == CartOutcome(token, keys, at)
           failing == {j \in DOMAIN CartChecklist : ~outcome[CartChecklist[j]]}
<1>1. DOMAIN CartChecklist = 1..9
  BY DEF CartChecklist
<1> HIDE DEF outcome
<1>2. i \in failing /\ failing \subseteq 1..9
  BY <1>1 DEF outcome
<1>3. \A j \in failing : i <= j
  <2> SUFFICES ASSUME NEW j \in failing, j < i PROVE FALSE
    BY <1>2
  <2>1. j \in 1..(i - 1)
    BY <1>2
  <2>2. ~outcome[CartChecklist[j]]
    OBVIOUS
  <2>3. QED
    BY <2>1, <2>2 DEF outcome
<1>4. verify_cart_mandate(token, keys, at) = CartChecklist[Min(failing)]
  BY <1>2 DEF verify_cart_mandate, outcome
<1> HIDE DEF failing
<1>5. Min(failing) = i
  <2>1. Min(failing) \in failing /\ \A j \in failing : Min(failing) <= j
    <3>1. failing \subseteq Nat /\ failing # {}
      BY <1>2
    <3>2. QED
      BY <3>1, LeastOf
  <2>2. Min(failing) <= i /\ i <= Min(failing)
    BY <1>2, <1>3, <2>1
  <2>3. QED
    BY <1>2, <2>1, <2>2
<1>6. QED
  BY <1>1, <1>4, <1>5, NoneAssumption

\* The checks of a cart, one by one.
LEMMA CartChecks ==
  ASSUME NEW token, NEW keys, NEW at
  PROVE  LET out == CartOutcome(token, keys, at)
         IN /\ out[CartChecklist[1]] <=> token.kid \in DOMAIN keys
            /\ out[CartChecklist[2]] <=> token.alg = "ES256"
            /\ out[CartChecklist[3]] <=> signature_verifies(token, keys)
            /\ out[CartChecklist[4]] <=> at < token.exp
            /\ out[CartChecklist[5]] <=> token.vct = "mandate.cart.1"
            /\ out[CartChecklist[6]] <=> token.lines = 1
            /\ out[CartChecklist[7]] <=> None \notin {token.unit_amount, token.total_amount}
            /\ out[CartChecklist[8]] <=> token.total_amount = token.unit_amount * token.quantity
            /\ out[CartChecklist[9]] <=> \/ token.allowed_payees = {}
                                         \/ token.payee \in token.allowed_payees
<1>1. /\ CartChecklist[1] = "untrusted_issuer" /\ CartChecklist[2] = "bad_alg"
      /\ CartChecklist[3] = "invalid_signature" /\ CartChecklist[4] = "expired"
      /\ CartChecklist[5] = "wrong_type" /\ CartChecklist[6] = "unsupported_cart"
      /\ CartChecklist[7] = "malformed"
      /\ CartChecklist[8] = "cart_total_mismatch" /\ CartChecklist[9] = "payee_not_allowed"
  BY DEF CartChecklist
<1> DEFINE out == CartOutcome(token, keys, at)
<1>2. /\ out["untrusted_issuer"] <=> token.kid \in DOMAIN keys
      /\ out["bad_alg"] <=> token.alg = "ES256"
      /\ out["invalid_signature"] <=> signature_verifies(token, keys)
      /\ out["expired"] <=> at < token.exp
      /\ out["wrong_type"] <=> token.vct = "mandate.cart.1"
      /\ out["unsupported_cart"] <=> token.lines = 1
      /\ out["malformed"] <=> None \notin {token.unit_amount, token.total_amount}
      /\ out["cart_total_mismatch"] <=> token.total_amount = token.unit_amount * token.quantity
      /\ out["payee_not_allowed"] <=> \/ token.allowed_payees = {}
                                      \/ token.payee \in token.allowed_payees
  BY DEF CartOutcome
<1> HIDE DEF out
<1>3. QED
  BY <1>1, <1>2 DEF out

\* ap2.py verify_cart_mandate(): a cart that passes every check is accepted.
LEMMA CartAccepted ==
  ASSUME NEW token, NEW keys, NEW at,
         \A j \in 1..9 : CartOutcome(token, keys, at)[CartChecklist[j]]
  PROVE  verify_cart_mandate(token, keys, at) = None
<1>1. DOMAIN CartChecklist = 1..9
  BY DEF CartChecklist
<1>2. QED
  BY <1>1 DEF verify_cart_mandate

\* attestation.py, app.py: the price that the merchant signs at once and that
\* is verified at once is the price of the row.
LEMMA OfferForRecord ==
  ASSUME NEW record \in MerchantRecord
  PROVE  OfferFor(record) = record
<1> DEFINE att == attest("merch-athleto", MerchantKey(starts), record, now + Ttl)
<1>1. att.price = record.price /\ att.category = record.category
  BY DEF attest
<1> HIDE DEF att
<1>2. signed_offer(record, att) = record
  BY <1>1 DEF signed_offer, MerchantRecord
<1>3. QED
  BY <1>2 DEF OfferFor, att

\* The items of the demo are always on sale.
LEMMA DemoItem ==
  ASSUME NegotiationInv, NEW sku \in DemoSku
  PROVE  /\ Available(sku) /\ get(sku) = merchant_catalog[sku] /\ list_offer(sku) = merchant_catalog[sku]
         /\ merchant_catalog[sku] \in MerchantRecord /\ merchant_catalog[sku] # None
         /\ merchant_catalog[sku].sku = sku /\ merchant_catalog[sku].active
         /\ merchant_catalog[sku].price \in Nat
         /\ merchant_catalog[sku].category \in Categories
<1>1. sku \in Sku /\ DEMO_CATALOG[sku].active
  BY StorefrontAssumption DEF Sku
<1>2. /\ sku \in DOMAIN merchant_catalog /\ merchant_catalog[sku] \in MerchantRecord
      /\ merchant_catalog[sku].sku = sku /\ merchant_catalog[sku].active
      /\ merchant_catalog[sku].category = DEMO_CATALOG[sku].category
  BY <1>1 DEF NegotiationInv, CatalogKept
<1>3. merchant_catalog[sku].price \in Nat
  BY <1>2 DEF MerchantRecord
<1>4. DEMO_CATALOG[sku].category \in Categories
  BY <1>1 DEF Categories, Sku
<1>5. merchant_catalog[sku] # None
  BY <1>2, NoneAssumption
<1>6. QED
  BY <1>2, <1>3, <1>4, <1>5 DEF Available, get, list_offer

-----------------------------------------------------------------------------
DemoPrice(variant) ==
  IF variant = "price_tamper" THEN merchant_catalog["SKU-SHOE-01"].price - Discount
                              ELSE merchant_catalog["SKU-SHOE-01"].price

\* The claims of the demo's cart.
DemoClaims(variant, token) ==
  /\ token.alg = "ES256" /\ token.vct = "mandate.cart.1" /\ token.lines = 1
  /\ token.sku = "SKU-SHOE-01" /\ token.quantity = 1
  /\ token.unit_amount = DemoPrice(variant) /\ token.total_amount = DemoPrice(variant)
  /\ token.payee \in token.allowed_payees
  /\ token.max_amount = IF variant = "over_budget" THEN DemoPrice(variant) - Discount ELSE DemoCap
  /\ token.exp = IF variant = "expired" THEN now - 1 ELSE now + Ttl
  /\ token.transaction_id = Uuid(4)

\* app.py mint_demo_cart(): what the demonstration cart claims and who signs it.
LEMMA DemoCart ==
  ASSUME NegotiationInv, NEW variant
  PROVE  LET token == mint_demo_cart(variant)
         IN /\ DemoClaims(variant, token)
            /\ token.kid = IF variant = "untrusted_issuer" THEN "cp-rogue-9" ELSE "cp-athleto-1"
            /\ variant # "untrusted_issuer" =>
                 token.key = IF variant = "signature_tamper" THEN None ELSE ProviderKey(starts)
<1> DEFINE item == merchant_catalog["SKU-SHOE-01"]
<1>1. list_offer("SKU-SHOE-01") = item /\ item.sku = "SKU-SHOE-01"
  BY DemoItem DEF DemoSku
<1>2. PICK claims :
        /\ claims = [sku |-> item.sku, unit_amount |-> DemoPrice(variant), quantity |-> 1,
                     total_amount |-> DemoPrice(variant),
                     payee |-> item.merchant_id, allowed_payees |-> {item.merchant_id},
                     max_amount |-> IF variant = "over_budget" THEN DemoPrice(variant) - Discount
                                                               ELSE DemoCap,
                     exp |-> IF variant = "expired" THEN now - 1 ELSE now + Ttl,
                     transaction_id |-> Uuid(4)]
  OBVIOUS
<1>3. mint_demo_cart(variant)
        = LET token == sign_cart("cp-athleto-1", ProviderKey(starts), claims)
          IN CASE variant = "signature_tamper" -> tamper_signature(token)
               [] variant = "untrusted_issuer" -> sign_cart("cp-rogue-9", <<"rogue", calls>>, claims)
               [] OTHER                        -> token
  BY <1>1, <1>2 DEF mint_demo_cart, DemoPrice
<1>4. \A kid, key : LET token == sign_cart(kid, key, claims)
                    IN token.kid = kid /\ token.key = key /\ DemoClaims(variant, token)
  <2>1. /\ claims.sku = "SKU-SHOE-01" /\ claims.quantity = 1
        /\ claims.unit_amount = DemoPrice(variant) /\ claims.total_amount = DemoPrice(variant)
        /\ claims.payee \in claims.allowed_payees
        /\ claims.max_amount = IF variant = "over_budget" THEN DemoPrice(variant) - Discount
                                                          ELSE DemoCap
        /\ claims.exp = IF variant = "expired" THEN now - 1 ELSE now + Ttl
        /\ claims.transaction_id = Uuid(4)
    BY <1>1, <1>2
  <2>2. QED
    BY <2>1 DEF sign_cart, DemoClaims
<1>5. tamper_signature(sign_cart("cp-athleto-1", ProviderKey(starts), claims))
        = sign_cart("cp-athleto-1", None, claims)
  BY DEF tamper_signature, sign_cart
<1>6. CASE variant = "signature_tamper"
  BY <1>3, <1>4, <1>5, <1>6
<1>7. CASE variant = "untrusted_issuer"
  BY <1>3, <1>4, <1>7
<1>8. CASE variant \notin {"signature_tamper", "untrusted_issuer"}
  BY <1>3, <1>4, <1>8
<1>9. QED
  BY <1>6, <1>7, <1>8

\* What the rail says to each variant.
LEMMA VariantRefusal ==
  ASSUME NegotiationInv, ShopShape, NEW variant \in DOMAIN ExpectedVariant
  PROVE  LET refusal == verify_cart_mandate(mint_demo_cart(variant), ap2_trusted_keys, now)
         IN IF variant \in {"legit", "price_tamper", "over_budget"}
            THEN refusal = None
            ELSE refusal = ExpectedVariant[variant] /\ refusal # None
<1> DEFINE token == mint_demo_cart(variant)
           out == CartOutcome(token, ap2_trusted_keys, now)
<1>1. now \in Int /\ starts \in Nat /\ Ttl \in Nat \ {0} /\ Discount \in Nat
  BY StorefrontAssumption DEF ShopShape, Counters
<1>2. DemoPrice(variant) \in Int
  BY <1>1, DemoItem DEF DemoPrice, DemoSku
<1>3. /\ DemoClaims(variant, token)
      /\ token.kid = IF variant = "untrusted_issuer" THEN "cp-rogue-9" ELSE "cp-athleto-1"
      /\ variant # "untrusted_issuer" =>
           token.key = IF variant = "signature_tamper" THEN None ELSE ProviderKey(starts)
  BY DemoCart
<1> HIDE DEF token
<1>4. DOMAIN ap2_trusted_keys = {"cp-athleto-1"}
      /\ ap2_trusted_keys["cp-athleto-1"] = ProviderKey(starts)
  BY DEF ap2_trusted_keys
<1>5. out[CartChecklist[2]] /\ out[CartChecklist[5]] /\ out[CartChecklist[6]]
      /\ out[CartChecklist[7]] /\ out[CartChecklist[8]] /\ out[CartChecklist[9]]
  <2>1. token.total_amount = token.unit_amount * token.quantity
    BY <1>2, <1>3 DEF DemoClaims
  <2>2. None \notin {token.unit_amount, token.total_amount}
    BY <1>2, <1>3, NoneAssumption DEF DemoClaims
  <2>3. QED
    BY <1>3, <2>1, <2>2, CartChecks DEF DemoClaims
<1>6. CASE variant = "untrusted_issuer"
  <2>1. ~out[CartChecklist[1]]
    BY <1>3, <1>4, <1>6, CartChecks
  <2>2. verify_cart_mandate(token, ap2_trusted_keys, now) = CartChecklist[1]
        /\ CartChecklist[1] # None
    BY <2>1, CartRefusal
  <2>3. QED
    BY <1>6, <2>2 DEF token, CartChecklist, ExpectedVariant
<1>7. CASE variant = "signature_tamper"
  <2>1. ProviderKey(starts) # None
    BY <1>1, NoneAssumption DEF ProviderKey, Key
  <2>2. out[CartChecklist[1]] /\ ~out[CartChecklist[3]]
    BY <1>3, <1>4, <1>7, <2>1, CartChecks DEF signature_verifies
  <2> HIDE DEF out
  <2>3. \A j \in 1..(3 - 1) : out[CartChecklist[j]]
    BY <1>5, <2>2
  <2>4. verify_cart_mandate(token, ap2_trusted_keys, now) = CartChecklist[3]
        /\ CartChecklist[3] # None
    BY <2>2, <2>3, CartRefusal DEF out
  <2>5. QED
    BY <1>7, <2>4 DEF token, CartChecklist, ExpectedVariant
<1>8. CASE variant = "expired"
  <2>1. out[CartChecklist[1]] /\ out[CartChecklist[3]]
    BY <1>3, <1>4, <1>8, CartChecks DEF signature_verifies
  <2>2. ~out[CartChecklist[4]]
    BY <1>1, <1>3, <1>8, CartChecks DEF DemoClaims
  <2> HIDE DEF out
  <2>3. \A j \in 1..(4 - 1) : out[CartChecklist[j]]
    BY <1>5, <2>1
  <2>4. verify_cart_mandate(token, ap2_trusted_keys, now) = CartChecklist[4]
        /\ CartChecklist[4] # None
    BY <2>2, <2>3, CartRefusal DEF out
  <2>5. QED
    BY <1>8, <2>4 DEF token, CartChecklist, ExpectedVariant
<1>9. CASE variant \in {"legit", "price_tamper", "over_budget"}
  <2>1. out[CartChecklist[1]] /\ out[CartChecklist[3]]
    BY <1>3, <1>4, <1>9, CartChecks DEF signature_verifies
  <2>2. out[CartChecklist[4]]
    BY <1>1, <1>3, <1>9, CartChecks DEF DemoClaims
  <2> HIDE DEF out
  <2>3. \A j \in 1..9 : out[CartChecklist[j]]
    BY <1>5, <2>1, <2>2
  <2>4. verify_cart_mandate(token, ap2_trusted_keys, now) = None
    BY <2>3, CartAccepted DEF out
  <2>5. QED
    BY <1>9, <2>4 DEF token
<1>10. variant \in {"legit", "price_tamper", "over_budget", "expired", "signature_tamper",
                    "untrusted_issuer"}
  BY DEF ExpectedVariant
<1>11. QED
  BY <1>6, <1>7, <1>8, <1>9, <1>10

-----------------------------------------------------------------------------
\* A request under a genuine mandate, for an item that is on sale.
WellAsked(r, key, agent) ==
  /\ Genuine(r.txn.mandate, key) /\ r.txn.mandate.agent_id = agent /\ r.txn.agent_id = agent
  /\ r.offer # None /\ r.offer.active /\ r.offer.sku = r.txn.sku /\ r.offer.price \in Int

\* What the request of each variant has, that the gate is shown.
VariantForm(v, r) ==
  /\ v \in {"legit", "price_tamper", "over_budget"}
  /\ r.txn.price_source = "merchant_record"
  /\ r.offer.category \in r.txn.mandate.allowed_categories
  /\ r.txn.amount = r.offer.price <=> v # "price_tamper"
  /\ v = "legit" => r.txn.mandate.max_amount = DemoCap
  /\ v = "over_budget" => ~amount_within_cap(r.txn)

VariantAsked ==
  call.endpoint = "ap2" /\ call.about # None =>
    /\ WellAsked(call.todo[1], BridgeKey(starts), "ap2")
    /\ VariantForm(call.about, call.todo[1])
    /\ Unused(call.todo[1].txn)

\* app.py ap2_demo(): a call that gets past the cart's checks asks for what its
\* variant is to show.
LEMMA VariantCall ==
  ASSUME ShopShape, NegotiationInv, IdsMinted, NEW variant \in DemoVariant,
         run_ap2(mint_demo_cart(variant), variant), ~UNCHANGED call
  PROVE  VariantAsked'
<1>1. PICK token : token = mint_demo_cart(variant)
  OBVIOUS
<1>2. PICK item : item = merchant_catalog["SKU-SHOE-01"]
  OBVIOUS
<1>3. /\ now \in Int /\ starts \in Nat /\ calls \in Nat
      /\ Ttl \in Nat \ {0} /\ Discount \in Nat \ {0} /\ DemoCap \in Nat \ {0}
  BY StorefrontAssumption DEF ShopShape, Counters
<1>4. /\ get("SKU-SHOE-01") = item /\ item \in MerchantRecord /\ item # None
      /\ item.sku = "SKU-SHOE-01" /\ item.active /\ item.price \in Nat
      /\ item.category \in Categories
  BY <1>2, DemoItem DEF DemoSku
<1>5. /\ IsToken(token) /\ token.exp \in Int /\ token.transaction_id = Uuid(4)
      /\ token.sku = "SKU-SHOE-01" /\ token.total_amount = DemoPrice(variant)
      /\ token.max_amount = IF variant = "over_budget" THEN DemoPrice(variant) - Discount ELSE DemoCap
  BY <1>1, <1>3, PresentedCarts, DemoCart DEF DemoClaims
<1>6. DemoPrice(variant) = IF variant = "price_tamper" THEN item.price - Discount ELSE item.price
  BY <1>2 DEF DemoPrice
<1>7. token.max_amount # None /\ token.max_amount \in Int
  BY <1>3, <1>4, <1>5, <1>6, NoneAssumption
<1>8. PICK cart : cart = AP2CartMandate(token, Uuid(5))
  OBVIOUS
<1>9. /\ cart.sku = "SKU-SHOE-01" /\ cart.exp \in Int /\ cart.total_amount = DemoPrice(variant)
      /\ cart.max_amount = token.max_amount /\ cart.transaction_id \in {Uuid(4), Uuid(5)}
  BY <1>5, <1>7, <1>8, CartFields DEF default
<1>10. OfferFor(get(cart.sku)) = item
  BY <1>4, <1>9, OfferForRecord
<1>11. PICK draft : draft = draft_of_cart(cart, item)
  OBVIOUS
<1>12. PICK mandate : mandate = sign_mandate(BridgeKey(starts), draft)
  OBVIOUS
<1>13. PICK r : r = Request(to_bazaar(cart, mandate, Uuid(0)), item)
  OBVIOUS
<1>14. /\ verify_cart_mandate(token, ap2_trusted_keys, now) = None
       /\ call' = Call("ap2", variant, mandate, token, <<r>>)
       /\ UNCHANGED <<starts, transactions>>
  BY <1>1, <1>8, <1>10, <1>11, <1>12, <1>13 DEF run_ap2
<1>15. variant \in {"legit", "price_tamper", "over_budget"}
  BY <1>1, <1>14, VariantRefusal, DemoAssumption
<1>16. /\ IsMandate(draft) /\ draft.agent_id = "ap2" /\ draft.max_amount = cart.max_amount
       /\ draft.allowed_categories = {item.category} /\ draft.expires_at = cart.exp
       /\ draft.mandate_id = <<"ap2", first_eight(cart.transaction_id)>>
  BY <1>11 DEF draft_of_cart, IsMandate
<1>17. draft.mandate_id \in MandateId
  <2>1. first_eight(Uuid(4)) = <<"uuid", calls>> /\ first_eight(Uuid(5)) = <<"uuid", calls>>
    BY DEF first_eight, Uuid
  <2>2. draft.mandate_id = <<"ap2", <<"uuid", calls>>>>
    BY <1>9, <1>16, <2>1
  <2>3. QED
    BY <1>3, <2>2 DEF MandateId
<1>18. signed_body(draft) \in Body
  BY <1>4, <1>7, <1>9, <1>16, <1>17 DEF signed_body, Body
<1>19. /\ Genuine(mandate, BridgeKey(starts)) /\ mandate.agent_id = "ap2"
       /\ mandate.max_amount = cart.max_amount /\ mandate.allowed_categories = {item.category}
  BY <1>3, <1>12, <1>16, <1>18, SignedVerifies, KeyFacts
<1>20. /\ r.offer = item /\ r.txn.mandate = mandate /\ r.txn.agent_id = "ap2"
       /\ r.txn.sku = "SKU-SHOE-01" /\ r.txn.amount = DemoPrice(variant)
       /\ r.txn.price_source = "merchant_record"
       /\ r.txn.nonce = Uuid(0) /\ r.txn.idempotency_key = cart.transaction_id
  BY <1>9, <1>13, <1>19 DEF Request, to_bazaar
<1>21. WellAsked(r, BridgeKey(starts), "ap2")
  BY <1>4, <1>19, <1>20 DEF WellAsked
<1>22. VariantForm(variant, r)
  <2>1. r.txn.amount = r.offer.price <=> variant # "price_tamper"
    BY <1>3, <1>4, <1>6, <1>20
  <2>2. variant = "over_budget" => ~(r.txn.amount <= r.txn.mandate.max_amount)
    BY <1>3, <1>4, <1>5, <1>6, <1>9, <1>19, <1>20
  <2>3. QED
    BY <1>5, <1>9, <1>15, <1>19, <1>20, <2>1, <2>2 DEF VariantForm, amount_within_cap
<1>23. Unused(r.txn)
  <2>1. \A row \in transactions : Minted(row.txn.nonce) /\ Minted(row.txn.idempotency_key)
    BY DEF IdsMinted, IdsOf
  <2>2. ~Minted(Uuid(0)) /\ ~Minted(Uuid(4)) /\ ~Minted(Uuid(5))
    BY <1>3, FreshIds
  <2>3. QED
    BY <1>9, <1>20, <2>1, <2>2 DEF Unused, Live, Allowed
<1>24. Unused(r.txn)'
  BY <1>14, <1>23 DEF Unused, Live, Allowed
<1>25. call'.endpoint = "ap2" /\ call'.about = variant /\ call'.todo[1] = r
  BY <1>14, CallFields
<1>26. QED
  BY <1>14, <1>21, <1>22, <1>24, <1>25 DEF VariantAsked, BridgeKey

\* What a demonstration cart asks stays so until its authorize().
LEMMA VariantStep ==
  ASSUME ShopShape, NegotiationInv, IdsMinted, VariantAsked, [Next]_vars
  PROVE  VariantAsked'
<1>0. now \in Clock /\ now \in Int
  BY StorefrontAssumption DEF ShopShape, Counters
<1>a. call' = NoCall => VariantAsked'
  BY NoCallFields DEF VariantAsked
<1>1. ASSUME NEW intent \in Intent, NEW base_sku \in BaseSku, NEW upsell \in BOOLEAN,
             purchase(intent, base_sku, upsell)
      PROVE  VariantAsked'
  <2>1. PICK m : call' = Call("purchase", None, m, None, << >>)
    BY <1>1 DEF purchase
  <2>2. QED
    BY <2>1, CallFields DEF VariantAsked
<1>2. CASE NoOffer
  BY <1>2, <1>a DEF NoOffer
<1>3. CASE OfferReceived
  <2>1. PICK r : call' = [call EXCEPT !.todo = <<r>>]
    BY <1>3 DEF OfferReceived
  <2>2. call' = Call(call.endpoint, call.about, call.mandate, call.cart, <<r>>)
        /\ call.endpoint = "purchase"
    BY <1>3, <2>1, CallFields DEF OfferReceived, ShopShape, CallShape
  <2>3. QED
    BY <2>2, CallFields DEF VariantAsked
<1>4. ASSUME NEW cls \in AttackClass, attack(cls) PROVE VariantAsked'
  <2>1. PICK m, todo : call' = Call("attack", cls, m, None, todo)
    BY <1>4 DEF attack
  <2>2. QED
    BY <2>1, CallFields DEF VariantAsked
<1>5. ASSUME NEW token \in SignedCarts, run_ap2(token, None) PROVE VariantAsked'
  <2>1. UNCHANGED call \/ call'.about = None
    BY <1>0, <1>5, PresentedCarts, CartCall
  <2>2. call = NoCall
    BY <1>5 DEF run_ap2, Begin
  <2>3. QED
    BY <1>a, <2>1, <2>2 DEF VariantAsked
<1>6. ASSUME NEW variant \in DemoVariant, run_ap2(mint_demo_cart(variant), variant)
      PROVE  VariantAsked'
  <2>1. call = NoCall
    BY <1>6 DEF run_ap2, Begin
  <2>2. QED
    BY <1>6, <1>a, <2>1, VariantCall
<1>7. CASE Authorize
  BY <1>7, <1>a, AuthorizeCase, CallFields DEF VariantAsked
<1>8. CASE AuthorizeRaises
  BY <1>8, <1>a, RaisesCase
<1>9. CASE Restart
  BY <1>9, <1>a DEF Restart
<1>10. CASE Quiet
  BY <1>10 DEF Quiet, shopVars, VariantAsked, Unused, Live, Allowed, BridgeKey
<1>11. QED
  BY <1>0, <1>1, <1>2, <1>3, <1>4, <1>5, <1>6, <1>7, <1>8, <1>9, <1>10, ShopCases

-----------------------------------------------------------------------------
BuyersMandate(m) ==
  IsMandate(m) /\ Genuine(m, IssuerKey(starts)) /\ m.agent_id = "buyer-1"

\* The console's mandates are buyer-1's, of this start.
IssuedGenuine == \A m \in issued : BuyersMandate(m)

\* What the requests of each class have, that the gate is shown.
AttackForm(cls, m, r) ==
  /\ r.txn.agent_id = "buyer-1"
  /\ r.offer # None /\ r.offer.active /\ r.offer.sku = r.txn.sku /\ r.offer.price \in Int
  /\ r.txn.price_source = "merchant_record" <=> cls # "injection"
  /\ r.txn.amount = r.offer.price <=> cls # "price"
  /\ IF cls = "policy" THEN r.txn.mandate.public_key \notin trusted_issuer_keys
                       ELSE BuyersMandate(r.txn.mandate)
  /\ cls = "expiry" => is_expired(r.txn.mandate, now)
  /\ cls \notin {"policy", "expiry"} => r.txn.mandate = m

AttackAsked ==
  call.endpoint = "attack" =>
    call.about \in AttackClass /\ \A r \in Asked : AttackForm(call.about, call.mandate, r)

\* Every mandate of the console is signed by an issuer of the application.
LEMMA IssuedStep ==
  ASSUME ShopShape, IssuedGenuine, [Next]_vars
  PROVE  IssuedGenuine'
<1>0. now \in Clock
  BY DEF ShopShape, Counters
<1>1. \A intent \in Intent :
        BuyersMandate(sign_mandate(IssuerKey(starts), draft_mandate(Uuid(0), intent)))
  BY IntentFacts, DraftIsSigned DEF BuyersMandate
<1>2. BuyersMandate(sign_mandate(IssuerKey(starts), draft_mandate(Uuid(3), DemoIntent)))
  <2>1. DemoIntent.max_amount \in Int /\ DemoIntent.allowed_categories \subseteq Categories
    BY StorefrontAssumption DEF DemoIntent, Categories
  <2>2. QED
    BY <2>1, DraftIsSigned DEF BuyersMandate
<1>3. ASSUME starts' = starts, \A m \in issued' : m \in issued \/ BuyersMandate(m)
      PROVE  IssuedGenuine'
  BY <1>3 DEF IssuedGenuine, BuyersMandate, IssuerKey
<1>4. ASSUME NEW intent \in Intent, NEW base_sku \in BaseSku, NEW upsell \in BOOLEAN,
             purchase(intent, base_sku, upsell)
      PROVE  IssuedGenuine'
  BY <1>1, <1>3, <1>4 DEF purchase
<1>5. ASSUME NEW cls \in AttackClass, attack(cls) PROVE IssuedGenuine'
  <2>1. PICK m \in issued \cup {sign_mandate(IssuerKey(starts), draft_mandate(Uuid(3), DemoIntent))} :
          issued' = issued \cup {m}
    BY <1>5 DEF attack
  <2>2. BuyersMandate(m)
    BY <1>2, <2>1 DEF IssuedGenuine
  <2>3. starts' = starts
    BY <1>5 DEF attack
  <2>4. QED
    BY <1>3, <2>1, <2>2, <2>3
<1>6. CASE UNCHANGED <<issued, starts>>
  BY <1>3, <1>6
<1>7. CASE Restart
  BY <1>7 DEF Restart, IssuedGenuine
<1>8. QED
  BY <1>0, <1>4, <1>5, <1>6, <1>7, ShopCases
     DEF NoOffer, OfferReceived, run_ap2, Authorize, AuthorizeRaises, Quiet, shopVars

\* One request of an attack.
Buy(cls, mandate, nonce, key) ==
  LET offer == list_offer(AttackSku(cls))
  IN Request(AttackRequest(cls, build_transaction(mandate, offer, nonce, key)), offer)

\* app.py attack(): the requests of a class, with their nonces and keys.
LEMMA AttackRequestsAre ==
  ASSUME NEW cls, NEW mandate
  PROVE  /\ cls = "replay" =>
              AttackRequests(cls, mandate) = <<Buy(cls, mandate, Uuid(0), Uuid(1)),
                                               Buy(cls, mandate, Uuid(0), Uuid(2))>>
         /\ cls = "double_charge" =>
              AttackRequests(cls, mandate) = <<Buy(cls, mandate, Uuid(0), Uuid(1)),
                                               Buy(cls, mandate, Uuid(2), Uuid(1))>>
         /\ cls \notin {"replay", "double_charge"} =>
              AttackRequests(cls, mandate) = <<Buy(cls, mandate, Uuid(0), Uuid(1))>>
  BY DEF AttackRequests, Buy

\* The request of an attack: what it asks and what it claims.
LEMMA BuyFields ==
  ASSUME NEW cls, NEW mandate, NEW nonce, NEW key
  PROVE  LET r == Buy(cls, mandate, nonce, key)
             offer == list_offer(AttackSku(cls))
         IN /\ r.offer = offer /\ r.txn.mandate = mandate /\ r.txn.agent_id = "buyer-1"
            /\ r.txn.sku = offer.sku /\ r.txn.nonce = nonce /\ r.txn.idempotency_key = key
            /\ r.txn.price_source = IF cls = "injection" THEN "description" ELSE "merchant_record"
            /\ r.txn.amount = IF cls = "price" THEN offer.price - Discount ELSE offer.price
<1>1. PICK offer : offer = list_offer(AttackSku(cls))
  OBVIOUS
<1>2. PICK txn : txn = build_transaction(mandate, offer, nonce, key)
  OBVIOUS
<1>3. txn = [mandate |-> mandate, agent_id |-> "buyer-1", sku |-> offer.sku, amount |-> offer.price,
             price_source |-> "merchant_record", nonce |-> nonce, idempotency_key |-> key]
  BY <1>2 DEF build_transaction
<1>4. PICK t : t = AttackRequest(cls, txn)
  OBVIOUS
<1>5. /\ t.mandate = mandate /\ t.agent_id = "buyer-1" /\ t.sku = offer.sku /\ t.nonce = nonce
      /\ t.idempotency_key = key
      /\ t.price_source = IF cls = "injection" THEN "description" ELSE "merchant_record"
      /\ t.amount = IF cls = "price" THEN offer.price - Discount ELSE offer.price
  <2>1. CASE cls = "injection"
    BY <1>3, <1>4, <2>1 DEF AttackRequest
  <2>2. CASE cls = "price"
    BY <1>3, <1>4, <2>2 DEF AttackRequest
  <2>3. CASE cls \notin {"injection", "price"}
    BY <1>3, <1>4, <2>3 DEF AttackRequest
  <2>4. QED
    BY <2>1, <2>2, <2>3
<1>6. Buy(cls, mandate, nonce, key) = [txn |-> t, offer |-> offer]
  BY <1>1, <1>2, <1>4 DEF Buy, Request
<1>7. QED
  BY <1>1, <1>5, <1>6

\* The mandate of each class: forged, out of date, or the one that was given.
LEMMA AttackMandateForm ==
  ASSUME ShopShape, NEW m, BuyersMandate(m), NEW cls
  PROVE  LET mandate == AttackMandate(cls, m)
         IN /\ cls = "policy" => mandate.public_key \notin trusted_issuer_keys
            /\ cls # "policy" => BuyersMandate(mandate)
            /\ cls = "expiry" => is_expired(mandate, now)
            /\ cls \notin {"policy", "expiry"} => mandate = m
<1>1. now \in Int /\ starts \in Nat /\ calls \in Nat
  BY StorefrontAssumption DEF ShopShape, Counters
<1>2. IsMandate(m) /\ signed_body(m) \in Body /\ m.agent_id = "buyer-1"
  BY DEF BuyersMandate, Genuine
<1>3. CASE cls = "policy"
  <2>1. PICK cap : cap = 2 * m.max_amount
    OBVIOUS
  <2>2. PICK d : d = [m EXCEPT !.mandate_id = Uuid(2), !.max_amount = cap]
    OBVIOUS
  <2>3. IsMandate(d)
    BY <1>2, <2>2 DEF IsMandate
  <2>4. AttackMandate(cls, m) = sign_mandate(<<"attacker", calls>>, d)
    BY <1>3, <2>1, <2>2 DEF AttackMandate
  <2>5. AttackMandate(cls, m).public_key = <<"attacker", calls>>
    BY <2>3, <2>4, SignedVerifies
  <2>6. <<"attacker", calls>> \notin trusted_issuer_keys
    BY DEF trusted_issuer_keys, IssuerKey, BridgeKey
  <2>7. QED
    BY <1>3, <2>5, <2>6
<1>4. CASE cls = "expiry"
  <2>1. PICK d : d = [m EXCEPT !.mandate_id = Uuid(2), !.expires_at = now - 1]
    OBVIOUS
  <2>2. /\ IsMandate(d) /\ d.mandate_id = Uuid(2) /\ d.expires_at = now - 1
        /\ d.agent_id = m.agent_id /\ d.max_amount = m.max_amount
        /\ d.allowed_categories = m.allowed_categories
    BY <1>2, <2>1 DEF IsMandate
  <2>3. Uuid(2) \in MandateId
    BY <1>1 DEF Uuid, MandateId, Uuids
  <2>4. signed_body(d) \in Body
    BY <1>1, <1>2, <2>2, <2>3 DEF signed_body, Body
  <2>5. AttackMandate(cls, m) = sign_mandate(IssuerKey(starts), d)
    BY <1>4, <2>1 DEF AttackMandate
  <2>6. BuyersMandate(AttackMandate(cls, m)) /\ AttackMandate(cls, m).expires_at = now - 1
    BY <1>1, <1>2, <2>2, <2>4, <2>5, SignedVerifies, KeyFacts DEF BuyersMandate
  <2>7. QED
    BY <1>1, <1>4, <2>6 DEF is_expired
<1>5. CASE cls \notin {"policy", "expiry"}
  <2>1. AttackMandate(cls, m) = m
    BY <1>5 DEF AttackMandate
  <2>2. QED
    BY <1>5, <2>1
<1>6. QED
  BY <1>3, <1>4, <1>5

-----------------------------------------------------------------------------
\* Each class spoils its one field of an otherwise sound request.
LEMMA BuyForm ==
  ASSUME ShopShape, NegotiationInv, NEW m, BuyersMandate(m), NEW cls, NEW nonce, NEW key
  PROVE  AttackForm(cls, m, Buy(cls, AttackMandate(cls, m), nonce, key))
<1>1. PICK mandate : mandate = AttackMandate(cls, m)
  OBVIOUS
<1>2. PICK offer : offer = list_offer(AttackSku(cls))
  OBVIOUS
<1>3. PICK r : r = Buy(cls, mandate, nonce, key)
  OBVIOUS
<1>4. offer # None /\ offer.active /\ offer.price \in Nat
  <2>1. AttackSku(cls) \in DemoSku
    BY DEF AttackSku, DemoSku
  <2>2. QED
    BY <1>2, <2>1, DemoItem
<1>5. /\ r.offer = offer /\ r.txn.mandate = mandate /\ r.txn.agent_id = "buyer-1"
      /\ r.txn.sku = offer.sku
      /\ r.txn.price_source = IF cls = "injection" THEN "description" ELSE "merchant_record"
      /\ r.txn.amount = IF cls = "price" THEN offer.price - Discount ELSE offer.price
  BY <1>2, <1>3, BuyFields
<1>6. r.txn.amount = r.offer.price <=> cls # "price"
  BY <1>4, <1>5, StorefrontAssumption
<1>7. /\ cls = "policy" => mandate.public_key \notin trusted_issuer_keys
      /\ cls # "policy" => BuyersMandate(mandate)
      /\ cls = "expiry" => is_expired(mandate, now)
      /\ cls \notin {"policy", "expiry"} => mandate = m
  BY <1>1, AttackMandateForm
<1>8. QED
  BY <1>1, <1>3, <1>4, <1>5, <1>6, <1>7 DEF AttackForm

\* Time passes, and an expired mandate stays expired.
LEMMA FormStays ==
  ASSUME ShopShape, starts' = starts, now' \in Int, now <= now',
         NEW cls, NEW m, NEW r, AttackForm(cls, m, r)
  PROVE  AttackForm(cls, m, r)'
<1>1. now \in Int
  BY StorefrontAssumption DEF ShopShape, Counters
<1>2. trusted_issuer_keys' = trusted_issuer_keys /\ IssuerKey(starts)' = IssuerKey(starts)
  BY DEF trusted_issuer_keys, IssuerKey, BridgeKey
<1>3. \A x : BuyersMandate(x) => BuyersMandate(x)'
  BY <1>2 DEF BuyersMandate
<1>4. cls = "expiry" => is_expired(r.txn.mandate, now')
  <2> SUFFICES ASSUME cls = "expiry" PROVE now' > r.txn.mandate.expires_at
    BY DEF is_expired
  <2>1. BuyersMandate(r.txn.mandate) /\ now > r.txn.mandate.expires_at
    BY DEF AttackForm, is_expired
  <2>2. r.txn.mandate.expires_at \in Int
    BY <2>1 DEF BuyersMandate, Genuine, signed_body, Body
  <2>3. QED
    BY <1>1, <2>1, <2>2
<1>5. QED
  BY <1>2, <1>3, <1>4 DEF AttackForm

\* What a call of the attack console is to begin with.
LEMMA AttackCall ==
  ASSUME NEW cls \in AttackClass, attack(cls), IssuedGenuine, ShopShape
  PROVE  \E m : /\ BuyersMandate(m)
                /\ call' = Call("attack", cls, m, None, AttackRequests(cls, AttackMandate(cls, m)))
<1>1. PICK m \in issued \cup {sign_mandate(IssuerKey(starts), draft_mandate(Uuid(3), DemoIntent))} :
        call' = Call("attack", cls, m, None, AttackRequests(cls, AttackMandate(cls, m)))
  BY DEF attack
<1>2. DemoIntent.max_amount \in Int /\ DemoIntent.allowed_categories \subseteq Categories
  BY StorefrontAssumption DEF DemoIntent, Categories
<1>3. BuyersMandate(m)
  BY <1>1, <1>2, DraftIsSigned DEF BuyersMandate, IssuedGenuine
<1>4. QED
  BY <1>1, <1>3

\* Steps that leave the attack under way as it is, or end it.
LEMMA AttackCases ==
  ASSUME ShopShape, [Next]_vars
  PROVE  \/ call'.endpoint # "attack"
         \/ \E cls \in AttackClass : attack(cls) /\ now' = now
         \/ /\ Authorize /\ now' = now /\ call.endpoint = "attack"
            /\ call.todo = <<call.todo[1], call.todo[2]>>
            /\ call' = Call("attack", call.about, call.mandate, call.cart, <<call.todo[2]>>)
            /\ UNCHANGED frozen
         \/ Quiet
<1>0. now \in Clock
  BY DEF ShopShape, Counters
<1>a. call' = NoCall => call'.endpoint # "attack"
  BY NoCallFields
<1>1. ASSUME NEW intent, NEW base_sku, NEW upsell, purchase(intent, base_sku, upsell)
      PROVE  call'.endpoint # "attack"
  <2>1. PICK m : call' = Call("purchase", None, m, None, << >>)
    BY <1>1 DEF purchase
  <2>2. QED
    BY <2>1, CallFields
<1>2. ASSUME OfferReceived PROVE call'.endpoint # "attack"
  <2>1. PICK r : call' = [call EXCEPT !.todo = <<r>>]
    BY <1>2 DEF OfferReceived
  <2>2. call' = Call(call.endpoint, call.about, call.mandate, call.cart, <<r>>)
        /\ call.endpoint = "purchase"
    BY <1>2, <2>1, CallFields DEF OfferReceived, ShopShape, CallShape
  <2>3. QED
    BY <2>2, CallFields
<1>3. ASSUME NEW token, NEW about, run_ap2(token, about) PROVE call'.endpoint # "attack"
  <2>1. call' = NoCall \/ \E m, r : call' = Call("ap2", about, m, token, <<r>>)
    BY <1>3 DEF run_ap2, Begin
  <2>2. ASSUME NEW m, NEW r, call' = Call("ap2", about, m, token, <<r>>)
        PROVE  call'.endpoint # "attack"
    BY <2>2, CallFields
  <2>3. QED
    BY <1>a, <2>1, <2>2
<1>4. ASSUME NoOffer \/ AuthorizeRaises \/ Restart PROVE call'.endpoint # "attack"
  BY <1>4, <1>a DEF NoOffer, AuthorizeRaises, Restart
<1>5. Authorize => \/ call' = NoCall
                   \/ /\ call.endpoint = "attack" /\ call.todo = <<call.todo[1], call.todo[2]>>
                      /\ call' = Call("attack", call.about, call.mandate, call.cart, <<call.todo[2]>>)
                      /\ UNCHANGED frozen
  BY AuthorizeCase
<1>6. QED
  BY <1>0, <1>a, <1>1, <1>2, <1>3, <1>4, <1>5, ShopCases

\* What an attack asks stays so until its last authorize().
LEMMA AttackStep ==
  ASSUME ShopShape, NegotiationInv, IssuedGenuine, AttackAsked, [Next]_vars
  PROVE  AttackAsked'
<1>0. now \in Int
  BY StorefrontAssumption DEF ShopShape, Counters
<1>1. ASSUME NEW cls \in AttackClass, attack(cls), now' = now PROVE AttackAsked'
  <2>1. PICK m : /\ BuyersMandate(m)
                 /\ call' = Call("attack", cls, m, None, AttackRequests(cls, AttackMandate(cls, m)))
    BY <1>1, AttackCall
  <2>2. PICK todo : todo = AttackRequests(cls, AttackMandate(cls, m))
    OBVIOUS
  <2>3. \A r \in {todo[i] : i \in DOMAIN todo} :
          \E n, k : r = Buy(cls, AttackMandate(cls, m), n, k)
    <3>1. CASE cls = "replay"
      BY <2>2, <3>1, AttackRequestsAre, TodoForms
    <3>2. CASE cls = "double_charge"
      BY <2>2, <3>2, AttackRequestsAre, TodoForms
    <3>3. CASE cls \notin {"replay", "double_charge"}
      BY <2>2, <3>3, AttackRequestsAre, TodoForms
    <3>4. QED
      BY <3>1, <3>2, <3>3
  <2>4. call'.about = cls /\ call'.mandate = m /\ call'.todo = todo
    BY <2>1, <2>2, CallFields
  <2>5. \A r \in Asked' : AttackForm(cls, m, r)
    BY <2>1, <2>3, <2>4, BuyForm DEF Asked
  <2>6. starts' = starts
    BY <1>1 DEF attack
  <2>7. \A r \in Asked' : AttackForm(cls, m, r)'
    BY <1>0, <1>1, <2>5, <2>6, FormStays
  <2>8. QED
    BY <2>4, <2>7 DEF AttackAsked
<1>2. CASE /\ Authorize /\ now' = now /\ call.endpoint = "attack"
           /\ call' = Call("attack", call.about, call.mandate, call.cart, <<call.todo[2]>>)
  <2>1. call'.about = call.about /\ call'.mandate = call.mandate
    BY <1>2, CallFields
  <2>2. Asked' \subseteq Asked
    BY <1>2, AskedShrinks
  <2>3. starts' = starts
    BY <1>2, AuthorizeCase DEF Goes
  <2>4. \A r \in Asked : AttackForm(call.about, call.mandate, r)
    BY <1>2 DEF AttackAsked
  <2>5. \A c, m, r : AttackForm(c, m, r) => AttackForm(c, m, r)'
    BY <1>0, <1>2, <2>3, FormStays
  <2>6. QED
    BY <1>2, <2>1, <2>2, <2>4, <2>5 DEF AttackAsked
<1>3. CASE Quiet
  <2>1. UNCHANGED <<call, starts>> /\ now' \in Int /\ now <= now'
    BY <1>3, StorefrontAssumption DEF Quiet, shopVars
  <2>2. \A c, m, r : AttackForm(c, m, r) => AttackForm(c, m, r)'
    BY <2>1, FormStays
  <2>3. QED
    BY <2>1, <2>2 DEF AttackAsked, Asked
<1>4. CASE call'.endpoint # "attack"
  BY <1>4 DEF AttackAsked
<1>5. QED
  BY <1>1, <1>2, <1>3, <1>4, AttackCases

-----------------------------------------------------------------------------
\* The outcome of the request that is authorized next.
Shown(r) == Outcome(r.txn, r.offer, Live(r.txn), trusted_issuer_keys, now)

\* The row of a refused request carries the reason of its first failing check.
LEMMA RowNamed ==
  ASSUME NEW r, NEW i \in 1..11, ~Shown(r)[Checklist[i].check],
         \A j \in 1..(i - 1) : Shown(r)[Checklist[j].check]
  PROVE  Row(r).reason = Checklist[i].reason
<1>1. authorize(r.txn, r.offer, Live(r.txn), trusted_issuer_keys, now) = Block(Checklist[i].reason)
  BY FirstFailureNames DEF Shown
<1>2. QED
  BY <1>1, RowFields DEF Block

\* The row of a request that passes every check is allowed.
LEMMA RowAllowed ==
  ASSUME NEW r, \A j \in 1..11 : Shown(r)[Checklist[j].check]
  PROVE  Row(r).decision = "ALLOW" /\ Row(r).reason = "OK"
<1>1. authorize(r.txn, r.offer, Live(r.txn), trusted_issuer_keys, now) = Allow
  BY NoFailureAllows DEF Shown
<1>2. QED
  BY <1>1, RowFields DEF Allow

\* What the gate sees of a request of an attack.
LEMMA AttackShown ==
  ASSUME ShopShape, NEW cls, NEW m, NEW r, AttackForm(cls, m, r)
  PROVE  /\ Shown(r)[Checklist[1].check] <=> cls # "policy"
         /\ cls # "policy" => Shown(r)[Checklist[2].check]
         /\ Shown(r)[Checklist[3].check] <=> ~is_expired(r.txn.mandate, now)
         /\ Shown(r)[Checklist[4].check] <=> ~frozen
         /\ Shown(r)[Checklist[5].check] <=> cls # "injection"
         /\ Shown(r)[Checklist[6].check]
         /\ Shown(r)[Checklist[7].check] <=> cls # "price"
         /\ Shown(r)[Checklist[8].check] <=> r.offer.category \in r.txn.mandate.allowed_categories
         /\ Shown(r)[Checklist[9].check] <=> amount_within_cap(r.txn)
         /\ Shown(r)[Checklist[10].check] <=> ~Live(r.txn).nonce_seen
         /\ Shown(r)[Checklist[11].check] <=> ~Live(r.txn).idempotency_seen
<1>1. trusted_issuer_keys # None
  <2>1. starts \in 1..MaxStarts
    BY DEF ShopShape, Counters
  <2>2. QED
    BY <2>1, NoneAssumption DEF trusted_issuer_keys
<1>2. /\ r.txn.agent_id = "buyer-1" /\ r.offer # None /\ r.offer.active /\ r.offer.sku = r.txn.sku
      /\ r.txn.price_source = "merchant_record" <=> cls # "injection"
      /\ r.txn.amount = r.offer.price <=> cls # "price"
      /\ IF cls = "policy" THEN r.txn.mandate.public_key \notin trusted_issuer_keys
                           ELSE BuyersMandate(r.txn.mandate)
  BY DEF AttackForm
<1>3. mandate_signed_by_trusted_issuer(r.txn.mandate, trusted_issuer_keys) <=> cls # "policy"
  BY <1>1, <1>2, KeyFacts DEF mandate_signed_by_trusted_issuer, BuyersMandate, Genuine
<1>4. /\ merchant_record_exists(r.txn, r.offer)
      /\ price_equals_merchant_record(r.txn, r.offer) <=> cls # "price"
      /\ category_in_allowlist(r.txn, r.offer)
           <=> r.offer.category \in r.txn.mandate.allowed_categories
  BY <1>2 DEF merchant_record_exists, price_equals_merchant_record, category_in_allowlist
<1>5. cls # "policy" => r.txn.mandate.agent_id = r.txn.agent_id
  BY <1>2 DEF BuyersMandate
<1>6. Live(r.txn).agent_frozen <=> frozen
  BY <1>2 DEF Live
<1>7. QED
  BY <1>2, <1>3, <1>4, <1>5, <1>6, Checks DEF Shown

-----------------------------------------------------------------------------
\* Nothing but the nonce or the key that it uses again stands against the second
\* request of a replay or a double charge.
Fits(r) ==
  /\ ~is_expired(r.txn.mandate, now) /\ ~frozen
  /\ r.offer.category \in r.txn.mandate.allowed_categories /\ amount_within_cap(r.txn)

BeforeFirst(cls, first, next) ==
  /\ Unused(first.txn) /\ first.offer = next.offer
  /\ IF cls = "replay"
     THEN next.txn.nonce = first.txn.nonce
     ELSE /\ next.txn.idempotency_key = first.txn.idempotency_key
          /\ next.txn.nonce # first.txn.nonce /\ ~Live(next.txn).nonce_seen

BeforeSecond(cls, r) ==
  IF cls = "replay"
  THEN Fits(r) => Live(r.txn).nonce_seen
  ELSE ~Live(r.txn).nonce_seen /\ (Fits(r) => Live(r.txn).idempotency_seen)

\* The first request of a replay or a double charge is new; once it is
\* authorized, and if the second one fits, it was allowed.
TwiceAsked ==
  call.endpoint = "attack" /\ call.about \in {"replay", "double_charge"} =>
    IF Len(call.todo) > 1
    THEN BeforeFirst(call.about, call.todo[1], call.todo[2])
    ELSE BeforeSecond(call.about, call.todo[1])

\* The two requests are for one item at one price under one mandate, so the
\* first one is allowed if nothing stands against the second.
LEMMA FirstIsAllowed ==
  ASSUME ShopShape, NEW cls \in {"replay", "double_charge"}, NEW m, NEW first, NEW next,
         AttackForm(cls, m, first), AttackForm(cls, m, next),
         Unused(first.txn), first.offer = next.offer, Fits(next)
  PROVE  Row(first).decision = "ALLOW"
<1>1. /\ first.txn.mandate = next.txn.mandate
      /\ first.txn.amount = first.offer.price /\ next.txn.amount = next.offer.price
  BY DEF AttackForm
<1>2. /\ ~is_expired(first.txn.mandate, now) /\ ~frozen /\ amount_within_cap(first.txn)
      /\ first.offer.category \in first.txn.mandate.allowed_categories
  BY <1>1 DEF Fits, amount_within_cap
<1>3. ~Live(first.txn).nonce_seen /\ ~Live(first.txn).idempotency_seen
  BY DEF Unused
<1>4. \A j \in 1..11 : Shown(first)[Checklist[j].check]
  BY <1>2, <1>3, AttackShown
<1>5. QED
  BY <1>4, RowAllowed

\* An attack of two requests starts with identifiers that no row has.
LEMMA TwiceBegins ==
  ASSUME ShopShape, IdsMinted, IssuedGenuine, NEW cls \in AttackClass, attack(cls)
  PROVE  TwiceAsked'
<1>0. calls \in Nat /\ UNCHANGED transactions
  BY StorefrontAssumption DEF ShopShape, Counters, attack
<1>1. PICK m : /\ BuyersMandate(m)
               /\ call' = Call("attack", cls, m, None, AttackRequests(cls, AttackMandate(cls, m)))
  BY AttackCall
<1>2. PICK mandate : mandate = AttackMandate(cls, m)
  OBVIOUS
<1>3. call'.about = cls /\ call'.todo = AttackRequests(cls, mandate)
  BY <1>1, <1>2, CallFields
<1>4. \A k \in 0..2, row \in transactions :
        row.txn.nonce # Uuid(k) /\ row.txn.idempotency_key # Uuid(k)
  BY <1>0, FreshIds DEF IdsMinted, IdsOf
<1>5. Uuid(0) # Uuid(2)
  BY DEF Uuid
<1>6. ASSUME NEW first, NEW next, call'.todo = <<first, next>>,
             BeforeFirst(cls, first, next)
      PROVE  TwiceAsked'
  <2>1. Len(call'.todo) > 1 /\ call'.todo[1] = first /\ call'.todo[2] = next
    BY <1>6, TodoForms
  <2>2. BeforeFirst(cls, first, next)'
    BY <1>0, <1>6 DEF BeforeFirst, Unused, Live, Allowed
  <2>3. QED
    BY <1>3, <2>1, <2>2 DEF TwiceAsked
<1>7. CASE cls = "replay"
  <2>1. PICK first : first = Buy(cls, mandate, Uuid(0), Uuid(1))
    OBVIOUS
  <2>2. PICK next : next = Buy(cls, mandate, Uuid(0), Uuid(2))
    OBVIOUS
  <2>3. /\ first.offer = next.offer /\ next.txn.nonce = first.txn.nonce
        /\ first.txn.nonce = Uuid(0) /\ first.txn.idempotency_key = Uuid(1)
    BY <2>1, <2>2, BuyFields
  <2>4. Unused(first.txn)
    BY <1>4, <2>3 DEF Unused, Live, Allowed
  <2>5. call'.todo = <<first, next>>
    BY <1>3, <1>7, <2>1, <2>2, AttackRequestsAre
  <2>6. QED
    BY <1>6, <1>7, <2>3, <2>4, <2>5 DEF BeforeFirst
<1>8. CASE cls = "double_charge"
  <2>1. PICK first : first = Buy(cls, mandate, Uuid(0), Uuid(1))
    OBVIOUS
  <2>2. PICK next : next = Buy(cls, mandate, Uuid(2), Uuid(1))
    OBVIOUS
  <2>3. /\ first.offer = next.offer /\ next.txn.idempotency_key = first.txn.idempotency_key
        /\ first.txn.nonce = Uuid(0) /\ first.txn.idempotency_key = Uuid(1)
        /\ next.txn.nonce = Uuid(2)
    BY <2>1, <2>2, BuyFields
  <2>4. Unused(first.txn) /\ ~Live(next.txn).nonce_seen
    BY <1>4, <2>3 DEF Unused, Live, Allowed
  <2>5. call'.todo = <<first, next>>
    BY <1>3, <1>8, <2>1, <2>2, AttackRequestsAre
  <2>6. QED
    BY <1>5, <1>6, <1>8, <2>3, <2>4, <2>5 DEF BeforeFirst
<1>9. CASE cls \notin {"replay", "double_charge"}
  BY <1>3, <1>9 DEF TwiceAsked
<1>10. QED
  BY <1>7, <1>8, <1>9

\* Between the two requests of an attack the first one's row stays.
LEMMA TwiceStep ==
  ASSUME ShopShape, IdsMinted, IssuedGenuine, AttackAsked, TwiceAsked, [Next]_vars
  PROVE  TwiceAsked'
<1>1. CASE /\ Authorize /\ now' = now /\ call.endpoint = "attack"
           /\ call.todo = <<call.todo[1], call.todo[2]>>
           /\ call' = Call("attack", call.about, call.mandate, call.cart, <<call.todo[2]>>)
           /\ UNCHANGED frozen
  <2>1. PICK first, next : first = call.todo[1] /\ next = call.todo[2]
    OBVIOUS
  <2>2. PICK cls : cls = call.about
    OBVIOUS
  <2> SUFFICES ASSUME cls \in {"replay", "double_charge"} PROVE BeforeSecond(cls, next)'
    <3>1. call'.about = cls /\ call'.todo = <<next>>
      BY <1>1, <2>1, <2>2, CallFields
    <3>2. ~(Len(call'.todo) > 1) /\ call'.todo[1] = next
      BY <3>1, TodoForms
    <3>3. QED
      BY <3>1, <3>2 DEF TwiceAsked
  <2>3. Len(call.todo) > 1
    BY <1>1, TwoForms
  <2>4. BeforeFirst(cls, first, next)
    BY <1>1, <2>1, <2>2, <2>3 DEF TwiceAsked
  <2>5. AttackForm(cls, call.mandate, first) /\ AttackForm(cls, call.mandate, next)
    <3>1. Asked = {first, next}
      BY <1>1, <2>1, TodoForms DEF Asked
    <3>2. QED
      BY <1>1, <2>2, <3>1 DEF AttackAsked
  <2>6. transactions' = transactions \cup {Row(first)} /\ Row(first).txn = first.txn
    BY <1>1, <2>1, AuthorizeCase, RowFields DEF Goes, Record
  <2>7. Fits(next)' => Row(first).decision = "ALLOW"
    <3>1. Fits(next)' => Fits(next)
      BY <1>1 DEF Fits
    <3>2. QED
      BY <2>4, <2>5, <3>1, FirstIsAllowed DEF BeforeFirst
  <2>8. Fits(next)' => \E row \in Allowed' : row.txn = first.txn
    BY <2>6, <2>7 DEF Allowed
  <2>9. \A row \in Allowed' : row \in Allowed \/ row.txn = first.txn
    BY <2>6 DEF Allowed
  <2>10. CASE cls = "replay"
    BY <2>4, <2>8, <2>10 DEF BeforeFirst, BeforeSecond, Live
  <2>11. CASE cls = "double_charge"
    <3>1. ~Live(next.txn)'.nonce_seen
      BY <2>4, <2>9, <2>11 DEF BeforeFirst, Live
    <3>2. Fits(next)' => Live(next.txn)'.idempotency_seen
      BY <2>4, <2>8, <2>11 DEF BeforeFirst, Live
    <3>3. QED
      BY <2>11, <3>1, <3>2 DEF BeforeSecond
  <2>12. QED
    BY <2>10, <2>11
<1>2. CASE Quiet
  <2>1. UNCHANGED <<call, transactions, frozen>> /\ now' \in Int /\ now <= now' /\ now \in Int
    BY <1>2, StorefrontAssumption DEF Quiet, shopVars, ShopShape, Counters
  <2>2. \A txn : Live(txn)' = Live(txn)
    BY <2>1 DEF Live, Allowed
  <2>3. \A c, f, n : BeforeFirst(c, f, n) => BeforeFirst(c, f, n)'
    BY <2>2 DEF BeforeFirst, Unused
  <2>4. call.endpoint = "attack" /\ call.about \in {"replay", "double_charge"} =>
          \A r \in Asked : r.txn.mandate.expires_at \in Int
    BY DEF AttackAsked, AttackForm, BuyersMandate, Genuine, signed_body, Body
  <2>5. ASSUME NEW c, NEW r, r.txn.mandate.expires_at \in Int, BeforeSecond(c, r)
        PROVE  BeforeSecond(c, r)'
    <3>1. Fits(r)' => Fits(r)
      BY <2>1, <2>5 DEF Fits, is_expired
    <3>2. QED
      BY <2>2, <2>5, <3>1 DEF BeforeSecond
  <2>6. ASSUME call.endpoint = "attack" PROVE call.todo[1] \in Asked
    <3>1. call.todo = <<call.todo[1]>> \/ call.todo = <<call.todo[1], call.todo[2]>>
      BY <2>6 DEF ShopShape, CallShape
    <3>2. QED
      BY <3>1, TodoForms DEF Asked
  <2>7. QED
    BY <2>1, <2>3, <2>4, <2>5, <2>6 DEF TwiceAsked
<1>3. CASE call'.endpoint # "attack"
  BY <1>3 DEF TwiceAsked
<1>4. QED
  BY <1>1, <1>2, <1>3, TwiceBegins, AttackCases

-----------------------------------------------------------------------------
\* A buyer's mandate has a whole cap and a whole time.
LEMMA MandateNumbers ==
  ASSUME NEW m, BuyersMandate(m)
  PROVE  m.max_amount \in Int /\ m.expires_at \in Int
  BY DEF BuyersMandate, Genuine, signed_body, Body

\* The answer to an attack that its mandate and its price suit.
LEMMA AttackNamed ==
  ASSUME ShopShape, AttackAsked, TwiceAsked, call.endpoint = "attack",
         call.todo = <<call.todo[1]>>, AttackSuits(Row(call.todo[1]), call.about)
  PROVE  Row(call.todo[1]).reason = ExpectedAttack[call.about]
<1>1. PICK r : r = call.todo[1]
  OBVIOUS
<1>2. PICK cls : cls = call.about
  OBVIOUS
<1>3. PICK m : m = call.mandate
  OBVIOUS
<1>4. /\ cls \in {"budget", "policy", "price", "replay", "category", "double_charge", "injection",
                  "state", "expiry"}
      /\ AttackForm(cls, m, r)
  <2>1. Asked = {r}
    BY <1>1, TodoForms DEF Asked
  <2>2. cls \in AttackClass /\ AttackForm(cls, m, r)
    BY <1>2, <1>3, <2>1 DEF AttackAsked
  <2>3. QED
    BY <2>2, DemoAssumption DEF ExpectedAttack
<1> DEFINE out == Shown(r)
<1>5. /\ out[Checklist[1].check] <=> cls # "policy"
      /\ cls # "policy" => out[Checklist[2].check]
      /\ out[Checklist[3].check] <=> ~is_expired(r.txn.mandate, now)
      /\ out[Checklist[4].check] <=> ~frozen
      /\ out[Checklist[5].check] <=> cls # "injection"
      /\ out[Checklist[6].check]
      /\ out[Checklist[7].check] <=> cls # "price"
      /\ out[Checklist[8].check] <=> r.offer.category \in r.txn.mandate.allowed_categories
      /\ out[Checklist[9].check] <=> amount_within_cap(r.txn)
      /\ out[Checklist[10].check] <=> ~Live(r.txn).nonce_seen
      /\ out[Checklist[11].check] <=> ~Live(r.txn).idempotency_seen
  BY <1>4, AttackShown
<1> HIDE DEF out
<1>6. \A i \in 1..11 : ~out[Checklist[i].check] /\ (\A j \in 1..(i - 1) : out[Checklist[j].check])
                         => Row(r).reason = Checklist[i].reason
  BY RowNamed DEF out
<1>7. CASE cls = "policy"
  <2>1. Row(r).reason = Checklist[1].reason
    BY <1>5, <1>6, <1>7
  <2>2. QED
    BY <1>1, <1>2, <1>7, <2>1, Reasons DEF ExpectedAttack
<1>8. CASE cls = "expiry"
  <2>1. ~out[Checklist[3].check] /\ out[Checklist[1].check] /\ out[Checklist[2].check]
    BY <1>4, <1>5, <1>8 DEF AttackForm
  <2>2. \A j \in 1..(3 - 1) : out[Checklist[j].check]
    BY <2>1
  <2>3. Row(r).reason = Checklist[3].reason
    BY <1>6, <2>1, <2>2
  <2>4. QED
    BY <1>1, <1>2, <1>8, <2>3, Reasons DEF ExpectedAttack
<1>9. CASE cls \notin {"policy", "expiry"}
  <2>1. /\ r.txn.mandate = m /\ BuyersMandate(m) /\ r.offer.price \in Int
        /\ r.txn.amount = r.offer.price <=> cls # "price"
        /\ r.txn.agent_id = "buyer-1"
    BY <1>4, <1>9 DEF AttackForm
  <2>2. /\ Row(r).mandate = m /\ Row(r).offer = r.offer /\ Row(r).at = now
        /\ Row(r).live.agent_frozen <=> frozen
    <3>1. /\ Row(r).mandate = m /\ Row(r).offer = r.offer /\ Row(r).at = now
          /\ Row(r).live = Live(r.txn)
      BY <1>3, RowFields
    <3>2. Live(r.txn).agent_frozen <=> frozen
      BY <2>1 DEF Live
    <3>3. QED
      BY <3>1, <3>2
  <2>3. m.max_amount \in Int /\ m.expires_at \in Int /\ now \in Int
    BY <2>1, MandateNumbers, StorefrontAssumption DEF ShopShape, Counters
  <2>4. /\ now <= m.expires_at /\ (frozen <=> cls = "state")
        /\ cls = "budget" => /\ r.offer.category \in m.allowed_categories
                             /\ r.offer.price > m.max_amount
        /\ cls = "category" => r.offer.category \notin m.allowed_categories
        /\ cls \in {"replay", "double_charge"} => /\ r.offer.category \in m.allowed_categories
                                                  /\ r.offer.price <= m.max_amount
    <3>1. AttackSuits(Row(r), cls)
      BY <1>1, <1>2
    <3>2. QED
      BY <1>9, <2>2, <3>1 DEF AttackSuits
  <2>5. ~is_expired(r.txn.mandate, now)
    BY <2>1, <2>3, <2>4 DEF is_expired
  <2>6. out[Checklist[1].check] /\ out[Checklist[2].check] /\ out[Checklist[3].check]
    BY <1>5, <1>9, <2>5
  <2>7. CASE cls = "state"
    <3>1. ~out[Checklist[4].check] /\ \A j \in 1..(4 - 1) : out[Checklist[j].check]
      BY <1>5, <2>4, <2>6, <2>7
    <3>2. Row(r).reason = Checklist[4].reason
      BY <1>6, <3>1
    <3>3. QED
      BY <1>1, <1>2, <2>7, <3>2, Reasons DEF ExpectedAttack
  <2>8. CASE cls = "injection"
    <3>1. ~out[Checklist[5].check] /\ \A j \in 1..(5 - 1) : out[Checklist[j].check]
      BY <1>5, <2>4, <2>6, <2>8
    <3>2. Row(r).reason = Checklist[5].reason
      BY <1>6, <3>1
    <3>3. QED
      BY <1>1, <1>2, <2>8, <3>2, Reasons DEF ExpectedAttack
  <2>9. CASE cls = "price"
    <3>1. ~out[Checklist[7].check] /\ \A j \in 1..(7 - 1) : out[Checklist[j].check]
      BY <1>5, <2>4, <2>6, <2>9
    <3>2. Row(r).reason = Checklist[7].reason
      BY <1>6, <3>1
    <3>3. QED
      BY <1>1, <1>2, <2>9, <3>2, Reasons DEF ExpectedAttack
  <2>10. CASE cls = "category"
    <3>1. ~out[Checklist[8].check] /\ \A j \in 1..(8 - 1) : out[Checklist[j].check]
      BY <1>5, <2>1, <2>4, <2>6, <2>10
    <3>2. Row(r).reason = Checklist[8].reason
      BY <1>6, <3>1
    <3>3. QED
      BY <1>1, <1>2, <2>10, <3>2, Reasons DEF ExpectedAttack
  <2>11. CASE cls = "budget"
    <3>1. ~amount_within_cap(r.txn)
      BY <2>1, <2>3, <2>4, <2>11 DEF amount_within_cap
    <3>2. ~out[Checklist[9].check] /\ \A j \in 1..(9 - 1) : out[Checklist[j].check]
      BY <1>5, <2>1, <2>4, <2>6, <2>11, <3>1
    <3>3. Row(r).reason = Checklist[9].reason
      BY <1>6, <3>2
    <3>4. QED
      BY <1>1, <1>2, <2>11, <3>3, Reasons DEF ExpectedAttack
  <2>12. CASE cls \in {"replay", "double_charge"}
    <3>1. Fits(r)
      BY <2>1, <2>4, <2>5, <2>12 DEF Fits, amount_within_cap
    <3>2. BeforeSecond(cls, r)
      <4>1. ~(Len(call.todo) > 1)
        BY TodoForms
      <4>2. QED
        BY <1>1, <1>2, <2>12, <4>1 DEF TwiceAsked
    <3>3. \A j \in 1..(10 - 1) : out[Checklist[j].check]
      BY <1>5, <2>1, <2>4, <2>6, <2>12, <3>1 DEF Fits
    <3>4. CASE cls = "replay"
      <4>1. ~out[Checklist[10].check]
        BY <1>5, <3>1, <3>2, <3>4 DEF BeforeSecond
      <4>2. Row(r).reason = Checklist[10].reason
        BY <1>6, <3>3, <4>1
      <4>3. QED
        BY <1>1, <1>2, <3>4, <4>2, Reasons DEF ExpectedAttack
    <3>5. CASE cls = "double_charge"
      <4>1. ~out[Checklist[11].check] /\ out[Checklist[10].check]
        BY <1>5, <3>1, <3>2, <3>5 DEF BeforeSecond
      <4>2. \A j \in 1..(11 - 1) : out[Checklist[j].check]
        BY <3>3, <4>1
      <4>3. Row(r).reason = Checklist[11].reason
        BY <1>6, <4>1, <4>2
      <4>4. QED
        BY <1>1, <1>2, <3>5, <4>3, Reasons DEF ExpectedAttack
    <3>6. QED
      BY <2>12, <3>4, <3>5
  <2>13. QED
    BY <1>4, <1>9, <2>7, <2>8, <2>9, <2>10, <2>11, <2>12
<1>10. QED
  BY <1>7, <1>8, <1>9

\* The answer to a variant of the AP2 demo that reaches the gate.
LEMMA VariantNamed ==
  ASSUME ShopShape, VariantAsked, call.endpoint = "ap2", call.about # None,
         VariantSuits(Row(call.todo[1]), call.about)
  PROVE  Row(call.todo[1]).reason = ExpectedVariant[call.about]
<1>1. PICK r : r = call.todo[1]
  OBVIOUS
<1>2. PICK v : v = call.about
  OBVIOUS
<1>3. WellAsked(r, BridgeKey(starts), "ap2") /\ VariantForm(v, r) /\ Unused(r.txn)
  BY <1>1, <1>2 DEF VariantAsked
<1> DEFINE out == Shown(r)
<1>4. now \in Int /\ r.txn.mandate.max_amount \in Int /\ r.txn.mandate.expires_at \in Int
  BY <1>3, StorefrontAssumption DEF WellAsked, Genuine, signed_body, Body, ShopShape, Counters
<1>5. /\ Row(r).at = now /\ Row(r).txn = r.txn /\ Row(r).offer = r.offer
  BY RowFields
<1>6. now <= r.txn.mandate.expires_at /\ (v = "legit" => r.offer.price <= DemoCap)
  BY <1>1, <1>2, <1>5 DEF VariantSuits
<1>7. mandate_signed_by_trusted_issuer(r.txn.mandate, trusted_issuer_keys)
  BY <1>3, KeyFacts DEF WellAsked, Genuine, mandate_signed_by_trusted_issuer
<1>8. /\ ~is_expired(r.txn.mandate, now) /\ ~Live(r.txn).agent_frozen
      /\ r.txn.mandate.agent_id = r.txn.agent_id
      /\ r.txn.price_source = "merchant_record"
      /\ merchant_record_exists(r.txn, r.offer)
      /\ price_equals_merchant_record(r.txn, r.offer) <=> v # "price_tamper"
      /\ category_in_allowlist(r.txn, r.offer)
  <2>1. ~is_expired(r.txn.mandate, now)
    BY <1>4, <1>6 DEF is_expired
  <2>2. ~Live(r.txn).agent_frozen
    BY <1>3 DEF WellAsked, Live
  <2>3. QED
    BY <1>3, <2>1, <2>2 DEF WellAsked, VariantForm, merchant_record_exists,
       price_equals_merchant_record, category_in_allowlist
<1>9. /\ out[Checklist[1].check] /\ out[Checklist[2].check] /\ out[Checklist[3].check]
      /\ out[Checklist[4].check] /\ out[Checklist[5].check] /\ out[Checklist[6].check]
      /\ out[Checklist[7].check] <=> v # "price_tamper"
      /\ out[Checklist[8].check]
      /\ out[Checklist[9].check] <=> amount_within_cap(r.txn)
      /\ out[Checklist[10].check] /\ out[Checklist[11].check]
  BY <1>3, <1>7, <1>8, Checks DEF Shown, Unused
<1> HIDE DEF out
<1>10. \A i \in 1..11 : ~out[Checklist[i].check] /\ (\A j \in 1..(i - 1) : out[Checklist[j].check])
                          => Row(r).reason = Checklist[i].reason
  BY RowNamed DEF out
<1>11. CASE v = "price_tamper"
  <2>1. ~out[Checklist[7].check] /\ \A j \in 1..(7 - 1) : out[Checklist[j].check]
    BY <1>9, <1>11
  <2>2. Row(r).reason = Checklist[7].reason
    BY <1>10, <2>1
  <2>3. QED
    BY <1>1, <1>2, <1>11, <2>2, Reasons DEF ExpectedVariant
<1>12. CASE v = "over_budget"
  <2>1. ~out[Checklist[9].check]
    BY <1>3, <1>9, <1>12 DEF VariantForm
  <2>2. \A j \in 1..(9 - 1) : out[Checklist[j].check]
    BY <1>9, <1>12
  <2>3. Row(r).reason = Checklist[9].reason
    BY <1>10, <2>1, <2>2
  <2>4. QED
    BY <1>1, <1>2, <1>12, <2>3, Reasons DEF ExpectedVariant
<1>13. CASE v = "legit"
  <2>1. amount_within_cap(r.txn)
    BY <1>3, <1>6, <1>13 DEF VariantForm, amount_within_cap
  <2>2. \A j \in 1..11 : out[Checklist[j].check]
    BY <1>9, <1>13, <2>1
  <2>3. Row(r).reason = "OK"
    BY <2>2, RowAllowed DEF out
  <2>4. QED
    BY <1>1, <1>2, <1>13, <2>3 DEF ExpectedVariant
<1>14. QED
  BY <1>3, <1>11, <1>12, <1>13 DEF VariantForm

\* The fields of an answer.
LEMMA AnswerFields ==
  ASSUME NEW decision, NEW reason, NEW about, NEW rows
  PROVE  LET a == Answer(decision, reason, about, rows)
         IN a.reason = reason /\ a.about = about /\ a.rows = rows
  BY DEF Answer

\* Every handler keeps what the demonstrations are to show.
LEMMA DemonstrationStep ==
  ASSUME ShopShape, NegotiationInv, AttackAsked, TwiceAsked, VariantAsked,
         DemonstrationNamesItsCode, [Next]_vars
  PROVE  DemonstrationNamesItsCode'
<1>0. now \in Clock
  BY DEF ShopShape, Counters
<1>a. ASSUME answer' = None \/ answer' = HttpError \/ answer' = answer
      PROVE  DemonstrationNamesItsCode'
  <2>1. HttpError.about = None
    BY AnswerFields DEF HttpError
  <2>2. QED
    BY <1>a, <2>1 DEF DemonstrationNamesItsCode, AttackSuits, VariantSuits
<1>b. ASSUME NEW reason, NEW decision, NEW about, NEW rows,
             answer' = Answer(decision, reason, about, rows),
             about # None =>
               IF about \in DOMAIN ExpectedAttack
               THEN (\A row \in rows : AttackSuits(row, about)) => reason = ExpectedAttack[about]
               ELSE (\A row \in rows : VariantSuits(row, about)) => reason = ExpectedVariant[about]
      PROVE  DemonstrationNamesItsCode'
  <2>1. answer'.reason = reason /\ answer'.about = about /\ answer'.rows = rows
    BY <1>b, AnswerFields
  <2>2. QED
    BY <1>b, <2>1 DEF DemonstrationNamesItsCode, AttackSuits, VariantSuits
<1>1. ASSUME NEW token \in SignedCarts, run_ap2(token, None) PROVE DemonstrationNamesItsCode'
  <2>1. answer' \in {HttpError, None} \/ \E reason : answer' = Answer("BLOCK", reason, None, {})
    BY <1>1 DEF run_ap2, Refusal
  <2>2. ASSUME NEW reason, answer' = Answer("BLOCK", reason, None, {})
        PROVE  DemonstrationNamesItsCode'
    BY <2>2, <1>b
  <2>3. QED
    BY <1>a, <2>1, <2>2
<1>2. ASSUME NEW variant \in DemoVariant, run_ap2(mint_demo_cart(variant), variant)
      PROVE  DemonstrationNamesItsCode'
  <2>1. PICK refusal :
          refusal = verify_cart_mandate(mint_demo_cart(variant), ap2_trusted_keys, now)
    OBVIOUS
  <2>2. variant \in DOMAIN ExpectedVariant
    BY DemoAssumption
  <2>3. refusal # None => refusal = ExpectedVariant[variant]
    BY <2>1, <2>2, VariantRefusal
  <2>4. Available(mint_demo_cart(variant).sku)
    BY DemoCart, DemoItem DEF DemoClaims, DemoSku
  <2>5. \/ refusal # None /\ answer' = Answer("BLOCK", refusal, variant, {})
        \/ answer' \in {HttpError, None}
    BY <1>2, <2>1, <2>4 DEF run_ap2, Refusal
  <2>6. variant \notin DOMAIN ExpectedAttack
    BY <2>2 DEF ExpectedVariant, ExpectedAttack
  <2>7. QED
    BY <1>a, <1>b, <2>3, <2>5, <2>6
<1>3. CASE Authorize
  <2>1. CASE answer' = answer
    BY <1>a, <2>1
  <2>2. PICK row : row = Row(call.todo[1])
    OBVIOUS
  <2>3. PICK about : about = call.about
    OBVIOUS
  <2>4. CASE /\ call.todo = <<call.todo[1]>>
             /\ answer' = Answer(row.decision, row.reason, about, {row})
    <3>1. CASE call.endpoint = "attack"
      <4>1. about \in DOMAIN ExpectedAttack
        BY <2>3, <3>1, DemoAssumption DEF AttackAsked
      <4>2. AttackSuits(row, about) => row.reason = ExpectedAttack[about]
        BY <2>2, <2>3, <2>4, <3>1, AttackNamed
      <4>3. QED
        BY <1>b, <2>4, <4>1, <4>2
    <3>2. CASE call.endpoint = "ap2"
      <4>1. about # None => about \notin DOMAIN ExpectedAttack
        BY <2>3, <3>2 DEF VariantAsked, VariantForm, ExpectedAttack
      <4>2. about # None /\ VariantSuits(row, about) => row.reason = ExpectedVariant[about]
        BY <2>2, <2>3, <3>2, VariantNamed
      <4>3. QED
        BY <1>b, <2>4, <4>1, <4>2
    <3>3. CASE call.endpoint = "purchase"
      <4>1. about = None
        BY <2>3, <3>3 DEF ShopShape, CallShape
      <4>2. QED
        BY <1>b, <2>4, <4>1
    <3>4. QED
      BY <1>3, <3>1, <3>2, <3>3, AuthorizeCase DEF ShopShape, CallShape
  <2>5. QED
    BY <1>3, <2>1, <2>2, <2>3, <2>4, AuthorizeCase
<1>4. CASE answer' = None \/ answer' = HttpError \/ answer' = answer
  BY <1>4, <1>a
<1>5. QED
  BY <1>0, <1>1, <1>2, <1>3, <1>4, ShopCases
     DEF purchase, NoOffer, OfferReceived, attack, AuthorizeRaises, Restart, Quiet, shopVars

\* app.py attack(), ap2_demo(): for every catalog, cap, discount and history of
\* calls, a demonstration that its mandate and its price suit is answered with
\* the code that it is there to show.
THEOREM DemonstrationNamesItsCodeHolds == Spec => []DemonstrationNamesItsCode
<1>1. Init => /\ VariantAsked /\ IssuedGenuine /\ AttackAsked /\ TwiceAsked
              /\ DemonstrationNamesItsCode
  BY NoCallFields, TodoForms
     DEF Init, VariantAsked, IssuedGenuine, AttackAsked, TwiceAsked,
         DemonstrationNamesItsCode, Asked
<1>2. Spec => []IdsMinted
  BY IdsHold
<1>3. Spec => []NegotiationInv
  BY ShopNegotiationInv
<1>4. Spec => []VariantAsked
  BY <1>1, <1>2, <1>3, VariantStep, ShapeHolds, PTL DEF Spec
<1>5. Spec => []IssuedGenuine
  BY <1>1, IssuedStep, ShapeHolds, PTL DEF Spec
<1>6. Spec => []AttackAsked
  BY <1>1, <1>3, <1>5, AttackStep, ShapeHolds, PTL DEF Spec
<1>7. Spec => []TwiceAsked
  BY <1>1, <1>2, <1>5, <1>6, TwiceStep, ShapeHolds, PTL DEF Spec
<1>8. QED
  BY <1>1, <1>3, <1>4, <1>6, <1>7, DemonstrationStep, ShapeHolds, PTL DEF Spec
===============================================================================
