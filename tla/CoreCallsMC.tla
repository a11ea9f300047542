------------------------------ MODULE CoreCallsMC ------------------------------
(***************************************************************************)
(* Values for the run of single statements: two merchants, whose counters  *)
(* can each be within u64 when the passport's sums over both are not.      *)
(***************************************************************************)
EXTENDS CoreCalls

Epochs == {0, 1}
TwoMerchants ==
  {[id |-> "cafe", earn_bps |-> 1, daily_cap |-> 1],
   [id |-> "books", earn_bps |-> 2, daily_cap |-> 3]}
Ids == {m.id : m \in TwoMerchants}
Rules == {[max_receipt_units |-> 2, thresholds |-> <<1>>]}
===============================================================================
