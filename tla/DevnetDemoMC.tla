------------------------------ MODULE DevnetDemoMC ------------------------------
(***************************************************************************)
(* Values for the runs of DevnetDemo: the numbers of the script and of the *)
(* program, in their own size.                                             *)
(***************************************************************************)
EXTENDS DevnetDemo

TwoDays == {1700000000, 1700086400}
ScriptCoalitionArgs == {DemoArgs}
ScriptMerchantArgs == {ShopArgs}
===============================================================================
