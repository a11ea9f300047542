---------------------------- MODULE CoalitionCoreMC ----------------------------
(***************************************************************************)
(* Values for the run that checks the program against loyalty-core.        *)
(***************************************************************************)
EXTENDS CoalitionCore

TwoDays == {-1, 0, 2}
CoreCoalitionArgs ==
  {[max_receipt_units |-> 1, tier_thresholds |-> <<1, 2>>],
   [max_receipt_units |-> 2, tier_thresholds |-> <<2, 1>>],
   [max_receipt_units |-> 3, tier_thresholds |-> <<2>>]}
CoreMerchantArgs ==
  {[earn_bps |-> 1, daily_cap |-> 2], [earn_bps |-> 3, daily_cap |-> 1]}
===============================================================================
