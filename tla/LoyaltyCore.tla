------------------------------ MODULE LoyaltyCore ------------------------------
(***************************************************************************)
(* The business rules of crates/loyalty-core/src/lib.rs for one Passport.  *)
(* The crate has no clock and keeps no merchants: every accrue call brings *)
(* the merchant's parameters, the epoch and the coalition's rules with it, *)
(* so a step may use any that the constructors accept.  A call that        *)
(* returns an error leaves the passport unchanged and is no step.          *)
(***************************************************************************)
EXTENDS Integers, Sequences, FiniteSets, Sums, Checks

CONSTANTS
  MerchantId,               \* merchant namespaces
  MaxU64,
  MAX_TIER_COUNT,
  BASIS_POINTS_DENOMINATOR,
  Epoch,                    \* epochs a caller may pass
  MerchantArgs,             \* arguments of Merchant::new, valid or not
  RulesArgs,                \* arguments of CoalitionRules::new, valid or not
  NoBalance                 \* the map has no entry for the merchant

U64 == 0 .. MaxU64

ASSUME CoreAssumption ==
  /\ MaxU64 \in Nat \ {0}
  /\ MAX_TIER_COUNT \in Nat
  /\ BASIS_POINTS_DENOMINATOR \in Nat \ {0}
  /\ Epoch \subseteq Nat
  /\ MerchantArgs \subseteq [id : MerchantId, earn_bps : U64, daily_cap : U64]
  /\ RulesArgs \subseteq [max_receipt_units : U64, thresholds : Seq(U64)]

MerchantBalance ==
  [earned_units : U64, redeemed_units : U64, earned_this_epoch : U64,
   cap_epoch : Nat, last_receipt_nonce : U64]

ASSUME NoBalanceAssumption == NoBalance \notin MerchantBalance

VARIABLES
  total_visits,
  streak_points,
  balances                  \* [MerchantId -> entry or NoBalance]

core == <<total_visits, streak_points, balances>>

CoreTypeOK ==
  /\ total_visits \in U64
  /\ streak_points \in U64
  /\ balances \in [MerchantId -> MerchantBalance \cup {NoBalance}]

\* Passport::new
Init ==
  /\ total_visits = 0
  /\ streak_points = 0
  /\ balances = [id \in MerchantId |-> NoBalance]

-----------------------------------------------------------------------------

\* Merchant::new; active can only be false in deserialised data.
Merchant ==
  {x \in MerchantArgs :
     x.earn_bps \in 1 .. BASIS_POINTS_DENOMINATOR /\ x.daily_cap > 0}

TierSchedule(thresholds) ==
  /\ Len(thresholds) \in 1 .. MAX_TIER_COUNT
  /\ \A i \in DOMAIN thresholds : thresholds[i] # 0
  /\ \A i \in 1 .. Len(thresholds) - 1 : thresholds[i] < thresholds[i + 1]

CoalitionRules ==
  {x \in RulesArgs : x.max_receipt_units # 0 /\ TierSchedule(x.thresholds)}

level_for(thresholds, points) ==
  Cardinality({i \in 1 .. Len(thresholds) : \A j \in 1 .. i : points >= thresholds[j]})

-----------------------------------------------------------------------------

Default ==
  [earned_units |-> 0, redeemed_units |-> 0, earned_this_epoch |-> 0,
   cap_epoch |-> 0, last_receipt_nonce |-> 0]

balance_for(id) == IF balances[id] = NoBalance THEN Default ELSE balances[id]

Smaller(x, y) == IF x <= y THEN x ELSE y

saturating_sub(x, y) == IF x >= y THEN x - y ELSE 0

available_units(id) ==
  saturating_sub(balance_for(id).earned_units, balance_for(id).redeemed_units)

earned_this_epoch(id, epoch) ==
  IF balance_for(id).cap_epoch = epoch THEN balance_for(id).earned_this_epoch ELSE 0

\* Fault: the cap is compared with each receipt instead of the epoch's total.
CapPerReceipt(m, epoch) == m.daily_cap

remaining_cap(m, epoch) == saturating_sub(m.daily_cap, earned_this_epoch(m.id, epoch))

raw_credit(m, amount_units) == (amount_units * m.earn_bps) \div BASIS_POINTS_DENOMINATOR

credit_units(m, amount_units, epoch) ==
  Smaller(raw_credit(m, amount_units), remaining_cap(m, epoch))

\* Fault: every receipt adds the full limit.
FullDelta(credit, rules) == rules.max_receipt_units

streak_delta(credit, rules) == Smaller(credit, rules.max_receipt_units)

\* Fault: the nonce of the epoch, not of the balance, must increase.
NonceOfTheEpoch(m, nonce, epoch) ==
  balance_for(m.id).cap_epoch = epoch => nonce > balance_for(m.id).last_receipt_nonce

NonceFresh(m, nonce, epoch) == nonce > balance_for(m.id).last_receipt_nonce

\* Fault: wrapping addition where checked_add is written.
Wrapping(m, amount_units, epoch, rules) ==
  amount_units * m.earn_bps \in U64

Checked(m, amount_units, epoch, rules) ==
  LET credit == credit_units(m, amount_units, epoch) IN
  /\ amount_units * m.earn_bps \in U64
  /\ balance_for(m.id).earned_units + credit \in U64
  /\ earned_this_epoch(m.id, epoch) + credit \in U64
  /\ total_visits + 1 \in U64
  /\ streak_points + streak_delta(credit, rules) \in U64

Accrue(m, nonce, amount_units, epoch, rules) ==
  LET credit == credit_units(m, amount_units, epoch) IN
  /\ amount_units > 0
  /\ NonceFresh(m, nonce, epoch)
  /\ remaining_cap(m, epoch) > 0
  /\ credit > 0
  /\ Checked(m, amount_units, epoch, rules)
  /\ balances' = [balances EXCEPT ![m.id] =
       [earned_units |-> balance_for(m.id).earned_units + credit,
        redeemed_units |-> balance_for(m.id).redeemed_units,
        earned_this_epoch |-> earned_this_epoch(m.id, epoch) + credit,
        cap_epoch |-> epoch,
        last_receipt_nonce |-> nonce]]
  /\ total_visits' = total_visits + 1
  /\ streak_points' = streak_points + streak_delta(credit, rules)

\* The checks of accrue, in order.
accrue_checks(m, nonce, amount_units, epoch, rules) == <<
    <<amount_units > 0, "ZeroReceipt">>,
    <<NonceFresh(m, nonce, epoch), "NonceNotMonotonic">>,
    <<remaining_cap(m, epoch) > 0, "DailyCapExhausted">>,
    <<amount_units * m.earn_bps \in U64, "ArithmeticOverflow">>,
    <<credit_units(m, amount_units, epoch) > 0, "ZeroCredit">>,
    <<Checked(m, amount_units, epoch, rules), "ArithmeticOverflow">> >>

\* The LoyaltyError that accrue returns, or "Ok".
accrue_verdict(m, nonce, amount_units, epoch, rules) ==
  Verdict(accrue_checks(m, nonce, amount_units, epoch, rules))

\* What an accepted receipt returns; the tier is the one after the receipt.
Accrual(m, amount_units, epoch, rules) ==
  LET credit == credit_units(m, amount_units, epoch)
      delta == streak_delta(credit, rules)
  IN [credit_units |-> credit,
      streak_delta |-> delta,
      tier_level |-> level_for(rules.thresholds, streak_points + delta)]

\* Fault: redemption is checked against all earned credit.
AnyEarned(id, units) == units <= balance_for(id).earned_units

Available(id, units) == units <= available_units(id)

Redeem(id, units) ==
  /\ units > 0
  /\ balances[id] # NoBalance
  /\ Available(id, units)
  /\ balances[id].redeemed_units + units \in U64
  /\ balances' = [balances EXCEPT ![id].redeemed_units = @ + units]
  /\ UNCHANGED <<total_visits, streak_points>>

\* The checks of redeem, in order.
redeem_checks(id, units) == <<
    <<units > 0, "ZeroRedemption">>,
    <<balances[id] # NoBalance, "MerchantBalanceMissing">>,
    <<Available(id, units), "InsufficientMerchantCredit">>,
    <<balance_for(id).redeemed_units + units \in U64, "ArithmeticOverflow">> >>

redeem_verdict(id, units) == Verdict(redeem_checks(id, units))

remaining_units(id, units) ==
  saturating_sub(balance_for(id).earned_units, balance_for(id).redeemed_units + units)

AccrueAt(epoch) ==
  \E m \in Merchant, nonce \in U64, amount \in U64, rules \in CoalitionRules :
    Accrue(m, nonce, amount, epoch, rules)

RedeemAny == \E id \in MerchantId, units \in U64 : Redeem(id, units)

Next == (\E epoch \in Epoch : AccrueAt(epoch)) \/ RedeemAny

Spec == Init /\ [][Next]_core

-----------------------------------------------------------------------------

\* An entry is only made by a receipt that earned something, and it never owes
\* a negative amount: saturating_sub in available_units never saturates and a
\* failed first receipt leaves no entry (lib.rs 176-181, 249-251, 286-308).
EntriesSound ==
  \A id \in MerchantId : balances[id] # NoBalance =>
    /\ balances[id].redeemed_units <= balances[id].earned_units
    /\ balances[id].earned_this_epoch \in 1 .. balances[id].earned_units
    /\ balances[id].last_receipt_nonce > 0

\* The current epoch's credit is within the cap of the merchant, whose
\* parameters are immutable, so saturating_sub in accrue never hides an excess
\* (lib.rs 41-49, 261-266).
EpochCounterCapped ==
  \A m \in Merchant : balances[m.id] # NoBalance =>
    balances[m.id].earned_this_epoch <= m.daily_cap

Entries == {id \in MerchantId : balances[id] # NoBalance}
earned == [id \in MerchantId |-> balance_for(id).earned_units]
last_nonce == [id \in MerchantId |-> balance_for(id).last_receipt_nonce]

\* Streak and visits are backed by what the merchants recorded, whichever
\* rules the callers brought (lib.rs 282-308).
ReputationBacked ==
  /\ total_visits <= streak_points
  /\ streak_points <= SumOver(earned, Entries)
  /\ total_visits <= SumOver(last_nonce, Entries)

\* The three together are inductive.
CoreIInv ==
  /\ CoreTypeOK
  /\ EntriesSound
  /\ EpochCounterCapped

===============================================================================
