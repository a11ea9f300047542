--------------------------- MODULE CoalitionEventsMC ---------------------------
(***************************************************************************)
(* Values for the run with one customer and two merchants, seen by a       *)
(* follower of the events.                                                 *)
(***************************************************************************)
EXTENDS CoalitionEvents

\* Arguments that a check accepts and arguments that each check rejects.
SmallCoalitionArgs ==
  {[max_receipt_units |-> x[1], tier_thresholds |-> x[2]] :
     x \in {<<2, <<1, 3>>>>, <<2, <<3, 1>>>>, <<0, <<1>>>>, <<1, <<>>>>, <<1, <<0, 1>>>>,
            <<1, <<1, 2, 3>>>>}}

SmallMerchantArgs ==
  {[earn_bps |-> x[1], daily_cap |-> x[2]] :
     x \in {<<1, 1>>, <<2, 3>>, <<0, 1>>, <<3, 1>>, <<1, 0>>}}

\* Days -1, 0 and 1.
ThreeDays == {-1, 0, 2}
===============================================================================
