------------------------------ MODULE CliSessionMC ------------------------------
(***************************************************************************)
(* Values for the run of CliSession: the flow of the CLI's README up to    *)
(* the receipts, of which the second may overtake the first, and a pause.  *)
(***************************************************************************)
EXTENDS CliSession, TLC

CONSTANTS admin, cafe, visitor, commitment

SchemeArgs ==
  {[max_receipt_units |-> 2, tier_thresholds |-> tiers] : tiers \in {<<1, 2>>, <<2, 1>>}}
ShopArgs == {[earn_bps |-> 1, daily_cap |-> 3]}

Flow ==
  {[kind |-> "initialize-coalition", signer |-> admin, args |-> args] : args \in SchemeArgs}
  \cup
  {[kind |-> "register-merchant", signer |-> admin, merchant |-> cafe, args |-> args] :
     args \in ShopArgs}
  \cup
  {[kind |-> "create-passport", signer |-> visitor, authority |-> admin],
   [kind |-> "pause-coalition", signer |-> admin],
   [kind |-> "unpause-coalition", signer |-> admin]}
  \cup
  {[kind |-> "record-receipt", signer |-> cafe, authority |-> admin, customer |-> visitor,
    nonce |-> n, amount |-> n, receipt_hash |-> commitment] : n \in {1, 2}}

\* A mint is generated for each attempt and none is told from another.
MintSymmetry == Permutations(MintKey)

\* Twice where a repetition is refused only by the state of the chain.
Attempts ==
  [cmd \in Flow |->
     IF \/ cmd.kind \in {"register-merchant", "create-passport"}
        \/ cmd.kind = "record-receipt" /\ cmd.nonce = 1
     THEN 2 ELSE 1]

VisitorStatus == [authority |-> admin, customer |-> visitor, merchant |-> cafe]
Days == {0, 2}
===============================================================================
