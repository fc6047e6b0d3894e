------------------------------ MODULE MCRedTeam ------------------------------
(* RedTeam on a scale where a cap is 3 or 4 units of money. *)
EXTENDS RedTeam

MCOodCaps == {3, 4}
MCLegitCaps == 1..4
=============================================================================
