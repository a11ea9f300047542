------------------------------ MODULE BrowserDemo ------------------------------
(***************************************************************************)
(* The receipt lab of the browser demo: lib/passport-model.ts and the      *)
(* React state around it in app/passport-demo.tsx.  A handler that throws  *)
(* only shows a message and is no step; React runs click handlers one by   *)
(* one and renders in between, so a handler's passport is the current one. *)
(* The Devnet check of the page shares no state with the lab.              *)
(***************************************************************************)
EXTENDS Integers, Sequences, FiniteSets, Sums

CONSTANTS
  MerchantId,
  earnBps, dailyCap,        \* [MerchantId -> Nat], as in MERCHANTS
  TIERS,                    \* the thresholds of TIERS, the first one zero
  STREAK_LIMIT,             \* 50: the most that one receipt adds to the streak
  BASIS_POINTS_DENOMINATOR,
  MAX_SAFE_INTEGER,         \* Number.MAX_SAFE_INTEGER
  ReceiptInput,             \* what Number(event.target.value) may be
  NotAnInteger,             \* a fraction or NaN
  firstMerchant, firstUnits, \* what the inputs show at first
  MaxU64                    \* the crate's u64::MAX

\* MERCHANTS and TIERS as they are written, and room for them: the caps
\* together are a u64, and so is the greatest product (2^53 * 1000 in the code).
ASSUME LabAssumption ==
  /\ MaxU64 \in Nat
  /\ BASIS_POINTS_DENOMINATOR \in Nat \ {0}
  /\ MAX_SAFE_INTEGER \in Nat
  /\ STREAK_LIMIT \in 1 .. MaxU64
  /\ IsFiniteSet(MerchantId)
  /\ firstMerchant \in MerchantId
  /\ earnBps \in [MerchantId -> 1 .. BASIS_POINTS_DENOMINATOR]
  /\ dailyCap \in [MerchantId -> 1 .. MaxU64]
  /\ SumOver(dailyCap, MerchantId) <= MaxU64
  /\ \A id \in MerchantId : MAX_SAFE_INTEGER * earnBps[id] <= MaxU64
  /\ TIERS \in Seq(0 .. MaxU64)
  /\ Len(TIERS) > 1
  /\ TIERS[1] = 0
  /\ \A i, j \in DOMAIN TIERS : i < j => TIERS[i] < TIERS[j]

VARIABLES
  visits, streak, balances, earnedToday, nextNonce, \* passport: PassportState
  merchantId, receiptUnits                          \* the inputs selected

passport == <<visits, streak, balances, earnedToday, nextNonce>>

vars == <<visits, streak, balances, earnedToday, nextNonce, merchantId, receiptUnits>>

Init ==
  /\ visits = 0
  /\ streak = 0
  /\ balances = [id \in MerchantId |-> 0]
  /\ earnedToday = [id \in MerchantId |-> 0]
  /\ nextNonce = [id \in MerchantId |-> 1]
  /\ merchantId = firstMerchant
  /\ receiptUnits = firstUnits

-----------------------------------------------------------------------------

\* Fault: find without reverse.
FirstReached(points) == Min({i \in DOMAIN TIERS : points >= TIERS[i]} \cup {Len(TIERS)})

\* The last tier that is reached, or the first; a tier is its place in TIERS.
tierFor(points) == Max({i \in DOMAIN TIERS : points >= TIERS[i]} \cup {1})

\* The first tier above the streak; one past the last if there is none.
nextTier(points) == Min({i \in DOMAIN TIERS : TIERS[i] > points} \cup {Len(TIERS) + 1})

isSafeInteger(x) ==
  /\ x # NotAnInteger
  /\ x \in -MAX_SAFE_INTEGER .. MAX_SAFE_INTEGER

rawCredit(id, units) == (units * earnBps[id]) \div BASIS_POINTS_DENOMINATOR

remainingCap(id) == Max({0, dailyCap[id] - earnedToday[id]})

creditFor(id, units) == Min({rawCredit(id, units), remainingCap(id)})

\* Fault: the limit per receipt is forgotten.
UnlimitedDelta(credit) == credit

streakDelta(credit) == Min({credit, STREAK_LIMIT})

\* recordReceipt calls accrueReceipt and stores what it returns.
RecordReceipt ==
  /\ isSafeInteger(receiptUnits)
  /\ receiptUnits > 0
  /\ LET credit == creditFor(merchantId, receiptUnits) IN
       /\ credit > 0
       /\ visits' = visits + 1
       /\ streak' = streak + streakDelta(credit)
       /\ balances' = [balances EXCEPT ![merchantId] = @ + credit]
       /\ earnedToday' = [earnedToday EXCEPT ![merchantId] = @ + credit]
       /\ nextNonce' = [nextNonce EXCEPT ![merchantId] = @ + 1]
  /\ UNCHANGED <<merchantId, receiptUnits>>

\* "Redeem 1": the button is disabled at zero, redeemCredit checks again.
Redeem(id) ==
  /\ balances[id] >= 1
  /\ balances' = [balances EXCEPT ![id] = @ - 1]
  /\ UNCHANGED <<visits, streak, earnedToday, nextNonce, merchantId, receiptUnits>>

SelectMerchant(id) ==
  /\ merchantId' = id
  /\ UNCHANGED <<passport, receiptUnits>>

EditReceiptUnits(x) ==
  /\ receiptUnits' = x
  /\ UNCHANGED <<passport, merchantId>>

Next ==
  \/ RecordReceipt
  \/ \E id \in MerchantId : Redeem(id) \/ SelectMerchant(id)
  \/ \E x \in ReceiptInput : EditReceiptUnits(x)

Spec == Init /\ [][Next]_vars

-----------------------------------------------------------------------------

\* The crate's entry for a merchant.  The page keeps what is left and what was
\* earned, the crate what was earned and what was redeemed; earnedToday never
\* restarts, so to the crate the whole session is one epoch.
coreBalance(id) ==
  IF earnedToday[id] = 0 THEN NotAnInteger
  ELSE [earned_units |-> earnedToday[id],
        redeemed_units |-> earnedToday[id] - balances[id],
        earned_this_epoch |-> earnedToday[id],
        cap_epoch |-> 0,
        last_receipt_nonce |-> nextNonce[id] - 1]

Core == INSTANCE LoyaltyCore WITH
  MAX_TIER_COUNT <- Len(TIERS),
  Epoch <- {0},
  MerchantArgs <-
    {[id |-> id, earn_bps |-> earnBps[id], daily_cap |-> dailyCap[id]] : id \in MerchantId},
  RulesArgs <- {[max_receipt_units |-> STREAK_LIMIT, thresholds |-> Tail(TIERS)]},
  NoBalance <- NotAnInteger,
  total_visits <- visits,
  streak_points <- streak,
  balances <- [id \in MerchantId |-> coreBalance(id)]

ASSUME NoEntryAssumption == NotAnInteger \notin Core!MerchantBalance

\* "The same basis-point, cap, streak, tier, and issuer-local redemption rules
\* as the Rust core" (README.md 128-129): whatever is typed and clicked, each
\* click has the effect of a call that the crate accepts
\* (passport-model.ts 64-123).
DemoImplementsCore == Core!Spec

\* The tier is the crate's level, found by searching from the other end, and
\* the tier announced as next is the one after it (passport-model.ts 60-62,
\* passport-demo.tsx 53-57).
TierAgrees ==
  /\ tierFor(streak) - 1 = Core!level_for(Tail(TIERS), streak)
  /\ nextTier(streak) = tierFor(streak) + 1

\* What is left is part of what was earned, no cap is passed, each receipt
\* earned something, and so no counter can pass the caps together: why the page
\* never meets the crate's overflow errors.
LabIInv ==
  /\ visits \in Nat /\ streak \in Nat
  /\ merchantId \in MerchantId
  /\ balances \in [MerchantId -> Nat]
  /\ earnedToday \in [MerchantId -> Nat]
  /\ nextNonce \in [MerchantId -> Nat \ {0}]
  /\ \A id \in MerchantId :
       /\ balances[id] <= earnedToday[id]
       /\ earnedToday[id] <= dailyCap[id]
       /\ nextNonce[id] <= earnedToday[id] + 1
  /\ visits <= SumOver(earnedToday, MerchantId)
  /\ streak <= SumOver(earnedToday, MerchantId)

===============================================================================
