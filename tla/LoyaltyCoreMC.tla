----------------------------- MODULE LoyaltyCoreMC -----------------------------
(***************************************************************************)
(* Values for the runs of loyalty-core.                                    *)
(***************************************************************************)
EXTENDS LoyaltyCoreAudit

Epochs == {0, 1, 2}
TwoMerchants ==
  {[id |-> x[1], earn_bps |-> x[2], daily_cap |-> x[3]] :
     x \in {<<"cafe", 1, 2>>, <<"books", 2, 3>>, <<"zero", 0, 1>>,
            <<"excess", 3, 1>>, <<"nocap", 1, 0>>}}
Ids == {m.id : m \in TwoMerchants}
Rules ==
  {[max_receipt_units |-> x[1], thresholds |-> x[2]] :
     x \in {<<1, <<1, 2>>>>, <<2, <<2>>>>, <<0, <<1>>>>, <<1, <<>>>>, <<1, <<0>>>>, <<1, <<2, 2>>>>}}
===============================================================================
