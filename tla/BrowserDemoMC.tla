----------------------------- MODULE BrowserDemoMC -----------------------------
(***************************************************************************)
(* Values for the run of BrowserDemo: rates and caps that differ, inputs of *)
(* every kind the handler tells apart.                                     *)
(***************************************************************************)
EXTENDS BrowserDemo

Merchants == {"orbit", "folio"}
Rates == [id \in Merchants |-> IF id = "orbit" THEN 2 ELSE 1]
Caps == [id \in Merchants |-> IF id = "orbit" THEN 3 ELSE 2]
Tiers == <<0, 1, 3, 4>>
Inputs == {NotAnInteger, -1, 0, 1, 2, 6, 7}
===============================================================================
