------------------------------- MODULE Catalog -------------------------------
(***************************************************************************)
(* The merchant of record (backend/bazaar/catalog/store.py over the table  *)
(* merchant_catalog).  Its price of an item may change at any time, through *)
(* a connection of its own; items and floors do not change after seeding.  *)
(***************************************************************************)
EXTENDS Gate

CONSTANTS
  DEMO_CATALOG,      \* the seeded rows, by sku
  NewPrice           \* the prices the merchant may set later, by sku

MerchantRecord == [sku : STRING, merchant_id : STRING, category : STRING,
                   price : Nat, floor_price : Nat, active : BOOLEAN]

ASSUME CatalogAssumption ==
  /\ DEMO_CATALOG \in [DOMAIN DEMO_CATALOG -> MerchantRecord]
  /\ \A sku \in DOMAIN DEMO_CATALOG : DEMO_CATALOG[sku].sku = sku
  /\ NewPrice \in [DOMAIN DEMO_CATALOG -> SUBSET Nat]

VARIABLE merchant_catalog

Larger(a, b)  == IF a >= b THEN a ELSE b
Smaller(a, b) == IF a <= b THEN a ELSE b

-----------------------------------------------------------------------------
seed_default_catalog == DEMO_CATALOG

update_price(sku, new_price) ==
  /\ sku \in DOMAIN merchant_catalog
  /\ merchant_catalog' = [merchant_catalog EXCEPT ![sku].price = new_price]

\* The merchant of record at work: no floor is consulted.
Reprice ==
  \E sku \in DOMAIN merchant_catalog : \E price \in NewPrice[sku] : update_price(sku, price)

Available(sku) == sku \in DOMAIN merchant_catalog /\ merchant_catalog[sku].active

get(sku) == IF sku \in DOMAIN merchant_catalog THEN merchant_catalog[sku] ELSE None

list_active == {merchant_catalog[sku] : sku \in {s \in DOMAIN merchant_catalog : Available(s)}}

\* make_offer without a request: the list price.
list_offer(sku) == merchant_catalog[sku]

\* Mutant: the request is only held above the floor.
offer_at_list(sku, requested_price) ==
  [merchant_catalog[sku] EXCEPT !.price = Larger(merchant_catalog[sku].floor_price, @)]

\* A requested price is clamped into [floor_price, price].
make_offer(sku, requested_price) ==
  LET item == merchant_catalog[sku]
  IN [item EXCEPT !.price = Larger(item.floor_price, Smaller(requested_price, item.price))]
=============================================================================
