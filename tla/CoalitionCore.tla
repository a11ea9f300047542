----------------------------- MODULE CoalitionCore -----------------------------
(***************************************************************************)
(* The Anchor program keeps the rules of loyalty-core: what the accounts   *)
(* hold of one passport behaves as one Passport of the crate, whose        *)
(* merchants are the coalition's merchant accounts, whose epochs are the   *)
(* days of the Clock sysvar and whose rules are a coalition's.             *)
(***************************************************************************)
EXTENDS CoalitionResults

CONSTANT MAX_TIER_COUNT     \* u8::MAX, the crate's limit

ASSUME TierCountAssumption == MAX_TIER_COUNT \in Nat /\ MAX_TIERS <= MAX_TIER_COUNT

Day == {t \div SECONDS_PER_DAY : t \in Timestamp} \cap Nat

coreBalance(b) ==
  IF balance[b].version = 0
  THEN NoAccount
  ELSE [earned_units |-> balance[b].earned_units,
        redeemed_units |-> balance[b].redeemed_units,
        earned_this_epoch |-> balance[b].earned_this_epoch,
        cap_epoch |-> balance[b].cap_epoch,
        last_receipt_nonce |-> balance[b].last_receipt_nonce]

Core(p) == INSTANCE LoyaltyCore WITH
  MerchantId <- MerchantAddr,
  Epoch <- Day,
  MerchantArgs <-
    {[id |-> m, earn_bps |-> a.earn_bps, daily_cap |-> a.daily_cap] :
       m \in MerchantAddr, a \in MerchantArgs},
  RulesArgs <-
    {[max_receipt_units |-> a.max_receipt_units, thresholds |-> a.tier_thresholds] :
       a \in CoalitionArgs},
  NoBalance <- NoAccount,
  total_visits <- IF passport[p] = NoAccount THEN 0 ELSE passport[p].total_visits,
  streak_points <- IF passport[p] = NoAccount THEN 0 ELSE passport[p].streak_points,
  balances <- [m \in MerchantAddr |-> coreBalance(<<p, m>>)]

\* NoAccount is no entry of the crate's map either.
ASSUME NoEntryAssumption ==
  \A p \in PassportAddr : NoAccount \notin Core(p)!MerchantBalance

\* For every passport at once, every instruction is a legal call of the crate
\* on that passport or leaves it alone (program lib.rs 611-739, core lib.rs
\* 224-358).
ImplementsCore ==
  /\ \A p \in PassportAddr : Core(p)!Init
  /\ [][\A p \in PassportAddr : Core(p)!Next \/ UNCHANGED Core(p)!core]_vars

CoreMerchant(m) ==
  [id |-> m, earn_bps |-> merchant[m].earn_bps, daily_cap |-> merchant[m].daily_cap]

CoreRules(c) ==
  [max_receipt_units |-> coalition[c].max_receipt_units,
   thresholds |-> coalition[c].tier_thresholds]

\* The two test the cap, the product and the credit in different order.
Reordered == {"DailyCapExhausted", "ArithmeticOverflow", "ZeroCredit"}

\* Asked the same, program and crate answer the same: a receipt or redemption
\* is refused by both, with the same error but for the order of three checks,
\* or accepted by both, with the same credit, streak, tier and remainder.  Only
\* the program knows that the day went back, and what it accepts is what its
\* handler carries out (program lib.rs 626-711, 715-738, core lib.rs 239-317,
\* 332-357).
SameResult ==
  \A c \in CoalitionAddr, m \in MerchantAddr, p \in PassportAddr :
    LET b == <<p, m>>
        day == current_day_epoch
    IN
    /\ (ReceiptReaches(c, m, p) /\ day >= 0) =>
         \A nonce, amount \in U64 :
           LET theirs ==
                 Core(p)!accrue_verdict(CoreMerchant(m), nonce, amount, day, CoreRules(c))
               ours == apply_receipt_verdict(c, m, p, b, nonce, amount, day)
           IN /\ \/ ours = theirs
                 \/ {ours, theirs} \subseteq Reordered
                 \/ ours = "ClockMovedBackwards"
              /\ ours = "Ok" <=> apply_receipt_accepts(c, m, p, b, nonce, amount, day)
              /\ ours = "Ok" =>
                   ReceiptOutcome(c, m, p, b, amount, day) =
                     Core(p)!Accrual(CoreMerchant(m), amount, day, CoreRules(c))
    /\ RedemptionReaches(c, m, p) =>
         \A units \in U64 :
           LET theirs == Core(p)!redeem_verdict(m, units) IN
           /\ theirs = apply_redemption_verdict(b, units)
           /\ theirs = "Ok" => remaining_units(b, units) = Core(p)!remaining_units(m, units)

===============================================================================
