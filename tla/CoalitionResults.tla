---------------------------- MODULE CoalitionResults ----------------------------
(***************************************************************************)
(* What the handlers return for a receipt or a redemption whose account    *)
(* constraints hold: the CoalitionError of the first check that fails, or  *)
(* "Ok" and then an outcome, which the events report.  Bumps are left out. *)
(***************************************************************************)
EXTENDS CoalitionProgram, Checks

\* The checks of apply_receipt, in order.
receipt_checks(c, m, p, b, nonce, amount_units, epoch) ==
  LET new == balance[b].version = 0 IN <<
    <<merchant[m].active, "MerchantInactive">>,
    <<amount_units > 0, "ZeroReceipt">>,
    <<passport[p].coalition = merchant[m].coalition, "AccountRelationshipMismatch">>,
    <<new \/ balance[b].version = STATE_VERSION, "UnsupportedStateVersion">>,
    <<new \/ (balance[b].passport = p /\ balance[b].merchant = m),
      "AccountRelationshipMismatch">>,
    <<new \/ epoch >= balance[b].cap_epoch, "ClockMovedBackwards">>,
    <<nonce > balance[b].last_receipt_nonce, "NonceNotMonotonic">>,
    <<balance[b].earned_units >= balance[b].redeemed_units, "CorruptBalance">>,
    <<amount_units * merchant[m].earn_bps \in U64, "ArithmeticOverflow">>,
    <<raw_credit(m, amount_units) > 0, "ZeroCredit">>,
    <<cap_remaining(m, b, epoch) >= 0, "CorruptBalance">>,
    <<cap_remaining(m, b, epoch) > 0, "DailyCapExhausted">>,
    <<ArithmeticFits(c, m, p, b, amount_units, epoch), "ArithmeticOverflow">> >>

apply_receipt_verdict(c, m, p, b, nonce, amount_units, epoch) ==
  Verdict(receipt_checks(c, m, p, b, nonce, amount_units, epoch))

record_receipt_verdict(c, m, p, b, nonce, amount_units, receipt_hash) ==
  IF receipt_hash = EmptyReceiptHash THEN "EmptyReceiptHash"
  ELSE IF current_day_epoch < 0 THEN "InvalidClock"
  ELSE apply_receipt_verdict(c, m, p, b, nonce, amount_units, current_day_epoch)

\* The checks of apply_redemption, in order.
redemption_checks(b, units) == <<
    <<units > 0, "ZeroRedemption">>,
    <<balance[b].version = STATE_VERSION, "UnsupportedStateVersion">>,
    <<available_units(b) >= 0, "CorruptBalance">>,
    <<SufficientCredit(b, units), "InsufficientMerchantCredit">>,
    <<balance[b].redeemed_units + units \in U64, "ArithmeticOverflow">>,
    <<balance[b].earned_units >= balance[b].redeemed_units + units, "CorruptBalance">> >>

apply_redemption_verdict(b, units) == Verdict(redemption_checks(b, units))

\* Fault: the tier level is the one before the receipt.
OutcomeBefore(c, m, p, b, amount_units, epoch) ==
  LET credit == credit_units(m, b, amount_units, epoch) IN
  [credit_units |-> credit,
   streak_delta |-> streak_delta(c, credit),
   tier_level |-> tier_level_for(c, passport[p].streak_points)]

ReceiptOutcome(c, m, p, b, amount_units, epoch) ==
  LET credit == credit_units(m, b, amount_units, epoch)
      delta == streak_delta(c, credit)
  IN [credit_units |-> credit,
      streak_delta |-> delta,
      tier_level |-> tier_level_for(c, passport[p].streak_points + delta)]

remaining_units(b, units) == balance[b].earned_units - (balance[b].redeemed_units + units)

-----------------------------------------------------------------------------

\* A receipt and a redemption that reach their handlers, and may be refused there.
ReceiptReaches(c, m, p) ==
  /\ CoalitionConstraint(c)
  /\ NotPaused(c)
  /\ MerchantConstraint(c, m[2], m)
  /\ PassportConstraint(c, p)

RedemptionReaches(c, m, p) ==
  /\ CoalitionConstraint(c)
  /\ OwnPassportConstraint(c, p[2], p)
  /\ RedeemMerchantConstraint(c, m)
  /\ RedeemBalanceConstraint(p, m, <<p, m>>)

\* The CoalitionErrors that report a broken account instead of a bad request.
AccountError ==
  {"AccountRelationshipMismatch", "MerchantInactive", "UnsupportedStateVersion",
   "CorruptBalance"}

\* No AccountError is ever returned: nothing that clients did before makes a
\* handler find an inactive merchant, foreign or corrupt accounts, or an
\* overflow while it pays out (lib.rs 626-657, 671-674, 716-737).
BrokenAccountsNeverReported ==
  \A c \in CoalitionAddr, m \in MerchantAddr, p \in PassportAddr :
    /\ ReceiptReaches(c, m, p) =>
         \A nonce, amount \in U64, hash \in ReceiptHash :
           record_receipt_verdict(c, m, p, <<p, m>>, nonce, amount, hash) \notin AccountError
    /\ RedemptionReaches(c, m, p) =>
         \A units \in U64 :
           apply_redemption_verdict(<<p, m>>, units) \in
             {"Ok", "ZeroRedemption", "InsufficientMerchantCredit"}

\* All the credit that a balance shows can be taken out, in parts or in one
\* redemption and in this very state: the accounts that it takes are there and
\* fit together, and no pause, clock, merchant or counter at its limit stands in
\* the way (lib.rs 282-297, 485-514, 715-736).
CreditRedeemable ==
  \A p \in PassportAddr, m \in MerchantAddr :
    \A units \in 1 .. available_units(<<p, m>>) :
      /\ RedemptionReaches(m[1], m, p)
      /\ apply_redemption_accepts(<<p, m>>, units)
      /\ apply_redemption_verdict(<<p, m>>, units) = "Ok"

===============================================================================
