--------------------------- MODULE PassportMintingMC ---------------------------
(***************************************************************************)
(* Values for the run of PassportMinting.                                  *)
(***************************************************************************)
EXTENDS PassportMinting, TLC

DayZero == {0}
OneCoalitionArgs == {[max_receipt_units |-> 1, tier_thresholds |-> <<1>>]}
OneMerchantArgs == {[earn_bps |-> 1, daily_cap |-> 1]}

\* No address of a mint is told from another.
MintSymmetry == Permutations(MintKey)
===============================================================================
