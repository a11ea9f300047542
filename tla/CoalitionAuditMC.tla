--------------------------- MODULE CoalitionAuditMC ---------------------------
(***************************************************************************)
(* Values for the run of CoalitionAudit.                                   *)
(***************************************************************************)
EXTENDS CoalitionAudit

\* Days -1, 0, 1 and 2.
FourDays == {-1, 0, 2, 4}
AuditCoalitionArgs == {[max_receipt_units |-> 1, tier_thresholds |-> <<1, 2>>]}
AuditMerchantArgs == {[earn_bps |-> 1, daily_cap |-> 2]}
===============================================================================
