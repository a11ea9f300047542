------------------------- MODULE CoalitionSignaturesMC -------------------------
(***************************************************************************)
(* Values for the run with two coalitions and two customers, and the       *)
(* ledger that it implements.                                              *)
(***************************************************************************)
EXTENDS CoalitionSignatures, CoalitionLedger

DayZero == {0}
OneCoalitionArgs == {[max_receipt_units |-> 2, tier_thresholds |-> <<1, 2>>]}
OneMerchantArgs == {[earn_bps |-> 1, daily_cap |-> 2]}
===============================================================================
