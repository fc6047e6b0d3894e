---------------------------- MODULE MCStorefront ----------------------------
(***************************************************************************)
(* The demo shop in units of 100 rupees: the catalog of catalog/seed.py,   *)
(* and carts around the price of its first item.                           *)
(***************************************************************************)
EXTENDS Storefront, TLC

Item(sku, category, price, floor) ==
  sku :> [sku |-> sku, merchant_id |-> "merch-athleto", category |-> category,
          price |-> price, floor_price |-> floor, active |-> TRUE]

MCCatalog ==
  Item("SKU-SHOE-01", "footwear", 45, 40) @@ Item("SKU-SHOE-PRO", "footwear", 49, 45) @@
  Item("SKU-WATCH-9", "wearables", 45, 42) @@ Item("SKU-SHOE-LUX", "footwear", 70, 65) @@
  Item("SKU-SHOE-INJ", "footwear", 35, 30)

\* One item moves: below its floor, and above the demo's cap.
MCNewPrice ==
  [sku \in DOMAIN MCCatalog |-> IF sku = "SKU-SHOE-01" THEN {38, 52} ELSE {}]

\* What the demo asks for, an intent for other goods with a cap at the floor of
\* the first item, and a draft that is not confirmable.
Wish(cap, categories) == [max_amount |-> cap, allowed_categories |-> categories]
MCIntent == {Wish(50, {"footwear"}), Wish(40, {"wearables"}), Wish(0, {"footwear"})}
MCBuyerCap == {0, 40, 50}

Cart(unit, quantity, total, cap, id) ==
  [sku |-> "SKU-SHOE-01", unit_amount |-> unit, quantity |-> quantity, total_amount |-> total,
   payee |-> "merch-athleto", allowed_payees |-> {"merch-athleto"}, max_amount |-> cap,
   exp |-> 2, transaction_id |-> id]

Good      == Cart(45, 1, 45, 50, <<"cart", 1, 1>>)
SameStart == Cart(45, 1, 45, 60, <<"cart", 1, 2>>)        \* eight digits in common with Good
MCCarts ==
  {Good, SameStart,
   Cart(45, 1, 45, None, None),                           \* no transaction id, no budget
   Cart(45, 2, 45, 50, <<"cart", 2, 1>>),                 \* does not add up
   Cart(45, 1, 45, 0, <<"cart", 3, 1>>),                  \* not confirmable
   [Good EXCEPT !.total_amount = None],
   [Good EXCEPT !.sku = UnknownSku],
   [Good EXCEPT !.payee = "another"]}
=============================================================================
