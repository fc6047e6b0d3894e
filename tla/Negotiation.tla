----------------------------- MODULE Negotiation -----------------------------
(***************************************************************************)
(* One bounded negotiation round (backend/bazaar/agents/negotiation.py,    *)
(* seller.py).  negotiate() reads the catalog up to three times, and the   *)
(* merchant may reprice the item in between.                               *)
(***************************************************************************)
EXTENDS Catalog

CONSTANTS
  UnknownSku,        \* a sku that is in no catalog
  BuyerCap           \* the caps that buyers ask for

ASSUME NegotiationAssumption ==
  UnknownSku \notin DOMAIN DEMO_CATALOG /\ BuyerCap \subseteq Nat

VARIABLE deal        \* the local variables of the negotiate() call under way

dealVars == <<merchant_catalog, deal>>

NoDeal == [at |-> "idle", sku |-> UnknownSku, buyer_cap |-> 0, list_price |-> 0,
           floor_price |-> 0, agreed_price |-> 0]

Wanted == DOMAIN DEMO_CATALOG \cup {UnknownSku}

-----------------------------------------------------------------------------
\* The items that fit: of the base item's category, no cheaper than it, and
\* with a list price within the cap.
Candidates(base, cap) ==
  {i \in list_active : i.category = base.category /\ i.price <= cap /\ i.price >= base.price}

\* The dearest of them; which one of two equals (the first by sku) is left open.
Proposals(base_sku, cap) ==
  IF base_sku \notin DOMAIN merchant_catalog THEN {base_sku}
  ELSE LET fit == Candidates(merchant_catalog[base_sku], cap)
       IN IF fit = {} THEN {base_sku}
          ELSE {i.sku : i \in {j \in fit : \A k \in fit : k.price <= j.price}}

\* One concession: half way from the buyer's opening to the list price.
counter(record, buyer_open) ==
  (Larger(record.floor_price, Smaller(record.price, buyer_open)) + record.price) \div 2

\* Mutant: clamped to the floor, not to the cap.
agreed_above_floor(record, cap) ==
  Larger(record.floor_price,
         Smaller((record.floor_price + counter(record, record.floor_price)) \div 2, record.price))

\* The buyer opens at the floor; the midpoint is clamped inside the walls.
agreed(record, cap) ==
  Larger(record.floor_price,
         Smaller((record.floor_price + counter(record, record.floor_price)) \div 2,
                 Smaller(record.price, cap)))

Viable(record, cap) == record.floor_price <= Smaller(record.price, cap)

-----------------------------------------------------------------------------
\* The call.
negotiate(base_sku, buyer_cap, upsell) ==
  /\ deal.at = "idle"
  /\ deal' = [NoDeal EXCEPT !.at = IF upsell THEN "upsell" ELSE "read",
                            !.sku = base_sku, !.buyer_cap = buyer_cap]
  /\ UNCHANGED merchant_catalog

propose_upsell ==
  /\ deal.at = "upsell"
  /\ \E sku \in Proposals(deal.sku, deal.buyer_cap) :
       deal' = [deal EXCEPT !.at = "read", !.sku = sku]
  /\ UNCHANGED merchant_catalog

\* No record, or a cap below the seller's floor: there is no offer.
NoViablePrice ==
  /\ deal.at = "read"
  /\ deal.sku \in DOMAIN merchant_catalog => ~Viable(merchant_catalog[deal.sku], deal.buyer_cap)
  /\ deal' = [deal EXCEPT !.at = "no_offer"]
  /\ UNCHANGED merchant_catalog

Bargain ==
  /\ deal.at = "read"
  /\ deal.sku \in DOMAIN merchant_catalog
  /\ LET record == merchant_catalog[deal.sku]
     IN /\ Viable(record, deal.buyer_cap)
        /\ deal' = [deal EXCEPT !.at           = "finalize",
                                !.list_price   = record.price,
                                !.floor_price  = record.floor_price,
                                !.agreed_price = agreed(record, deal.buyer_cap)]
  /\ UNCHANGED merchant_catalog

\* The merchant of record has the last word, on the row as it is by now.
FinalizeOffer ==
  /\ deal.at = "finalize"
  /\ deal' = IF Available(deal.sku)
             THEN [deal EXCEPT !.at = "offered",
                               !.agreed_price = make_offer(deal.sku, deal.agreed_price).price]
             ELSE [deal EXCEPT !.at = "no_offer"]
  /\ UNCHANGED merchant_catalog

Return ==
  /\ deal.at \in {"no_offer", "offered"}
  /\ deal' = NoDeal
  /\ UNCHANGED merchant_catalog

\* A start of the process seeds a fresh database.
Reseed == merchant_catalog' = seed_default_catalog /\ deal' = NoDeal

NegotiationInit == merchant_catalog = seed_default_catalog /\ deal = NoDeal

Negotiate == propose_upsell \/ NoViablePrice \/ Bargain \/ FinalizeOffer

NegotiationNext ==
  \/ \E base_sku \in Wanted, cap \in BuyerCap, upsell \in BOOLEAN : negotiate(base_sku, cap, upsell)
  \/ Negotiate
  \/ Return
  \/ Reprice /\ UNCHANGED deal
  \/ Reseed

NegotiationSpec == NegotiationInit /\ [][NegotiationNext]_dealVars

-----------------------------------------------------------------------------
\* Whatever the merchant does to the list price meanwhile, the offer that
\* negotiate() returns lies within the walls of its transcript: at or above the
\* seller's floor, at or below the list price it was bargained from, and at or
\* below the buyer's cap (NegotiationOutcome.within_walls).
OfferWithinWalls ==
  deal.at = "offered" =>
    /\ deal.floor_price <= deal.agreed_price
    /\ deal.agreed_price <= Smaller(deal.list_price, deal.buyer_cap)
=============================================================================
