---------------------------- MODULE CoalitionLedger ----------------------------
(***************************************************************************)
(* The program implements the ledger: an account that is not there owes    *)
(* nothing and has no reputation.                                          *)
(***************************************************************************)
EXTENDS CoalitionProgram

creditOf == [b \in BalanceAddr |-> available_units(b)]

reputationOf ==
  [p \in PassportAddr |->
     IF passport[p] = NoAccount THEN 0 ELSE passport[p].streak_points]

Ledger == INSTANCE LoyaltyLedger WITH
  Holder <- PassportAddr,
  Merchant <- MerchantAddr,
  Amount <- U64 \ {0},
  credit <- creditOf,
  reputation <- reputationOf

\* Every instruction is one issue, one spend or no change of the ledger: a
\* receipt credits one pair and moves one reputation by at most that credit,
\* a redemption lowers one pair and no reputation (lib.rs 242-297, 611-739).
ImplementsLedger == Ledger!Spec

===============================================================================
