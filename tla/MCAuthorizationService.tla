----------------------- MODULE MCAuthorizationService -----------------------
(***************************************************************************)
(* The calls of the runs: two mandates of one issuer, requests that share  *)
(* a nonce or an idempotency key, one over its cap, one with a forged      *)
(* mandate.                                                                *)
(***************************************************************************)
EXTENDS AuthorizationService, TLC

CONSTANTS s1, s2, c1, c2, c3, issuer, forger

Draft(id, agent, cap) ==
  [mandate_id |-> id, agent_id |-> agent, max_amount |-> cap,
   allowed_categories |-> {"footwear"}, expires_at |-> 1,
   public_key |-> None, signature |-> None]

M1 == sign_mandate(issuer, Draft("m1", "buyer-1", 2))
M2 == sign_mandate(issuer, Draft("m2", "buyer-2", 2))
Forged == sign_mandate(forger, Draft("m3", "buyer-1", 4))

Buy(id, m, amount, nonce, key) ==
  [txn   |-> [txn_id |-> id, mandate |-> m, agent_id |-> m.agent_id, sku |-> "shoe",
              amount |-> amount, price_source |-> "merchant_record", nonce |-> nonce,
              idempotency_key |-> key],
   offer |-> [sku |-> "shoe", category |-> "footwear", price |-> amount, active |-> TRUE]]

First      == Buy("t1", M1, 2, "n1", "k1")
Replay     == Buy("t2", M1, 2, "n1", "k2")      \* the nonce of First
Double     == Buy("t3", M1, 1, "n2", "k1")      \* the key of First
OverBudget == Buy("t4", M2, 3, "n3", "k3")
Forgery    == Buy("t5", Forged, 4, "n4", "k4")

RaceRequests   == {First, Replay, Double}
MixedRequests  == {First, Double, OverBudget, Forgery}
OneRequest     == {First}            \* two callers send it, again and again
ReplayRequests == {First, Replay}

OwnConn    == (s1 :> c1) @@ (s2 :> c2)
SharedConn == (s1 :> c1) @@ (s2 :> c1)
AllAdvice == RiskAction
NoAdvice == {"NORMAL"}

Clock1 == {1}
Clock2 == {1, 2}
=============================================================================
