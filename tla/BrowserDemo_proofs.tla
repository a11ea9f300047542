--------------------------- MODULE BrowserDemo_proofs ---------------------------
(***************************************************************************)
(* The receipt lab implements the rules of loyalty-core, and its two tier  *)
(* functions are the crate's, for any merchants, tiers and inputs.         *)
(***************************************************************************)
EXTENDS BrowserDemo, Sums_proofs

(* Math.min and Math.max *)

LEMMA LeastElement ==
  ASSUME NEW S, NEW x \in S, \A y \in S : x <= y
  PROVE  Min(S) \in S /\ \A y \in S : Min(S) <= y
BY Zenon DEF Min

LEMMA GreatestElement ==
  ASSUME NEW S, NEW x \in S, \A y \in S : x >= y
  PROVE  Max(S) \in S /\ \A y \in S : Max(S) >= y
BY Zenon DEF Max

LEMMA MinIs ==
  ASSUME NEW S \in SUBSET Int, NEW x \in S, \A y \in S : x <= y
  PROVE  Min(S) = x
<1>1. Min(S) \in S /\ \A y \in S : Min(S) <= y
  BY LeastElement
<1>2. Min(S) <= x /\ x <= Min(S) /\ Min(S) \in Int /\ x \in Int
  BY <1>1
<1> QED
  BY <1>2

LEMMA MaxIs ==
  ASSUME NEW S \in SUBSET Int, NEW x \in S, \A y \in S : x >= y
  PROVE  Max(S) = x
<1>1. Max(S) \in S /\ \A y \in S : Max(S) >= y
  BY GreatestElement
<1>2. Max(S) <= x /\ x <= Max(S) /\ Max(S) \in Int /\ x \in Int
  BY <1>1
<1> QED
  BY <1>2

LEMMA MinOfTwo ==
  ASSUME NEW x \in Int, NEW y \in Int
  PROVE  Min({x, y}) = IF x <= y THEN x ELSE y
<1>1. CASE x <= y
  BY <1>1, MinIs
<1>2. CASE ~(x <= y)
  BY <1>2, MinIs
<1> QED
  BY <1>1, <1>2

LEMMA MaxOfTwo ==
  ASSUME NEW x \in Int, NEW y \in Int
  PROVE  Max({x, y}) = IF x >= y THEN x ELSE y
<1>1. CASE x >= y
  BY <1>1, MaxIs
<1>2. CASE ~(x >= y)
  BY <1>2, MaxIs
<1> QED
  BY <1>1, <1>2

\* A rate of at least one makes no amount smaller, and more of it is more.
LEMMA ProductGrows ==
  ASSUME NEW u \in Nat, NEW v \in Nat, NEW rate \in Nat \ {0}, u <= v
  PROVE  /\ u * rate \in Nat
         /\ u * rate <= v * rate
         /\ u <= u * rate
BY SMTT(30)

-----------------------------------------------------------------------------
(* Tiers *)

\* The tiers that a streak reaches are the first ones of the list.
LEMMA LastReached ==
  ASSUME NEW points \in Nat
  PROVE  \E k \in DOMAIN TIERS : \A i \in DOMAIN TIERS : points >= TIERS[i] <=> i <= k
<1> DEFINE n == Len(TIERS)
           T == {i \in 1 .. n : i = n \/ TIERS[i + 1] > points}
<1>1. n \in Nat /\ n > 1 /\ DOMAIN TIERS = 1 .. n
  BY LabAssumption
<1>2. \A i \in 1 .. n : TIERS[i] \in Nat
  BY <1>1, LabAssumption
<1>3. n \in T /\ T \subseteq Nat
  BY <1>1
<1>4. PICK k \in T : \A i \in T : k <= i
  <2> HIDE DEF T
  <2> QED
    BY <1>3, LeastNat
<1>5. k \in 1 .. n /\ (k = n \/ TIERS[k + 1] > points)
  OBVIOUS
<1>6. ASSUME NEW i \in 1 .. n, i < k PROVE i # n /\ ~(TIERS[i + 1] > points)
  <2>1. i \in Int /\ k \in Int
    BY <1>3
  <2>2. ~(k <= i)
    BY <1>6, <2>1
  <2>3. i \notin T
    BY <1>4, <2>2
  <2> QED
    BY <2>3
<1> HIDE DEF n, T
<1>7. ASSUME NEW i \in 1 .. n, i <= k PROVE points >= TIERS[i]
  <2>1. CASE i = 1
    BY <2>1, LabAssumption
  <2>2. CASE i > 1
    <3>1. i - 1 \in 1 .. n /\ i - 1 < k /\ (i - 1) + 1 = i /\ i - 1 # n
      BY <1>1, <1>5, <1>7, <2>2
    <3>2. ~(TIERS[i] > points)
      BY <1>6, <3>1
    <3> QED
      BY <1>2, <3>2
  <2> QED
    BY <2>1, <2>2
<1>8. ASSUME NEW i \in 1 .. n, ~(i <= k) PROVE ~(points >= TIERS[i])
  <2>1. k + 1 \in 1 .. n /\ TIERS[k + 1] > points
    BY <1>1, <1>5, <1>8
  <2>2. TIERS[i] >= TIERS[k + 1]
    <3>1. CASE i = k + 1
      BY <1>2, <3>1
    <3>2. CASE i # k + 1
      <4>1. k + 1 < i
        BY <1>5, <1>8, <3>2
      <4>2. TIERS[k + 1] < TIERS[i]
        BY <1>1, <2>1, <4>1, LabAssumption
      <4> QED
        BY <1>2, <2>1, <4>2
    <3> QED
      BY <3>1, <3>2
  <2> QED
    BY <1>2, <2>1, <2>2
<1> QED
  BY <1>1, <1>5, <1>7, <1>8

\* The crate counts all thresholds but the first, which is zero.
LEMMA LevelFor ==
  ASSUME NEW points \in Nat, NEW k \in DOMAIN TIERS,
         \A i \in DOMAIN TIERS : points >= TIERS[i] <=> i <= k
  PROVE  Core!level_for(Tail(TIERS), points) = k - 1
<1> DEFINE n == Len(TIERS)
           rest == Tail(TIERS)
           reached == {i \in 1 .. Len(rest) : \A j \in 1 .. i : points >= rest[j]}
<1>1. n \in Nat /\ n > 1 /\ DOMAIN TIERS = 1 .. n
  BY LabAssumption
<1>2. Len(rest) = n - 1 /\ \A j \in 1 .. n - 1 : rest[j] = TIERS[j + 1]
  BY <1>1, LabAssumption
<1> HIDE DEF rest
<1>3. \A j \in 1 .. n - 1 : points >= rest[j] <=> j <= k - 1
  BY <1>1, <1>2
<1>4. reached = 1 .. k - 1
  BY <1>1, <1>2, <1>3
<1>5. Cardinality(1 .. k - 1) = k - 1
  BY <1>1, FS_Interval
<1>6. Core!level_for(rest, points) = Cardinality(reached)
  BY Zenon DEF Core!level_for, Core!Cardinality, Cardinality
<1> QED
  BY <1>4, <1>5, <1>6 DEF rest

\* The search from the end and the search for the next tier meet.
LEMMA TiersMeet ==
  ASSUME NEW points \in Nat
  PROVE  /\ tierFor(points) - 1 = Core!level_for(Tail(TIERS), points)
         /\ nextTier(points) = tierFor(points) + 1
<1> DEFINE n == Len(TIERS)
           R == {i \in DOMAIN TIERS : points >= TIERS[i]} \cup {1}
           A == {i \in DOMAIN TIERS : TIERS[i] > points} \cup {n + 1}
<1>1. n \in Nat /\ n > 1 /\ DOMAIN TIERS = 1 .. n
  BY LabAssumption
<1>2. \A i \in 1 .. n : TIERS[i] \in Nat
  BY <1>1, LabAssumption
<1>3. PICK k \in DOMAIN TIERS : \A i \in DOMAIN TIERS : points >= TIERS[i] <=> i <= k
  BY LastReached
<1>4. k \in Int /\ R \in SUBSET Int /\ k \in R /\ \A i \in R : k >= i
  BY <1>1, <1>3
<1>5. k + 1 \in Int /\ A \in SUBSET Int /\ k + 1 \in A /\ \A i \in A : k + 1 <= i
  BY <1>1, <1>2, <1>3
<1> HIDE DEF R, A
<1>6. Max(R) = k
  BY <1>4, MaxIs
<1>7. Min(A) = k + 1
  BY <1>5, MinIs
<1>8. tierFor(points) = Max(R) /\ nextTier(points) = Min(A)
  BY DEF tierFor, nextTier, R, A
<1>9. Core!level_for(Tail(TIERS), points) = k - 1
  BY <1>3, LevelFor
<1> QED
  BY <1>1, <1>6, <1>7, <1>8, <1>9

-----------------------------------------------------------------------------
(* The invariant *)

LEMMA InitLab == Init => LabIInv
<1> SUFFICES ASSUME Init PROVE LabIInv
  OBVIOUS
<1>1. \A id \in MerchantId : dailyCap[id] \in Nat
  BY LabAssumption
<1>2. 0 <= SumOver(earnedToday, MerchantId)
  <2>1. \A id \in MerchantId : earnedToday[id] \in Nat
    BY DEF Init
  <2>2. IsFiniteSet(MerchantId)
    BY LabAssumption
  <2> QED
    BY <2>1, <2>2, SumNonNegative
<1> QED
  BY <1>1, <1>2, LabAssumption DEF Init, LabIInv

\* The numbers of a receipt that is let through: a product the crate can hold,
\* and credit between one and what the cap leaves.
LEMMA ReceiptNumbers ==
  ASSUME LabIInv, RecordReceipt
  PROVE  LET id == merchantId
             credit == creditFor(id, receiptUnits)
         IN /\ receiptUnits \in 1 .. MaxU64
            /\ receiptUnits * earnBps[id] \in 0 .. MaxU64
            /\ rawCredit(id, receiptUnits) \in Int
            /\ remainingCap(id) = dailyCap[id] - earnedToday[id]
            /\ credit = IF rawCredit(id, receiptUnits) <= remainingCap(id)
                        THEN rawCredit(id, receiptUnits) ELSE remainingCap(id)
            /\ credit \in Nat \ {0}
            /\ credit <= dailyCap[id] - earnedToday[id]
            /\ streakDelta(credit) = IF credit <= STREAK_LIMIT THEN credit ELSE STREAK_LIMIT
<1> DEFINE id == merchantId
           credit == creditFor(id, receiptUnits)
           x == receiptUnits * earnBps[id]
<1>1. /\ MaxU64 \in Nat /\ MAX_SAFE_INTEGER \in Nat
      /\ BASIS_POINTS_DENOMINATOR \in Nat \ {0}
      /\ STREAK_LIMIT \in Nat \ {0}
      /\ id \in MerchantId
      /\ earnBps[id] \in Nat \ {0}
      /\ dailyCap[id] \in Nat \ {0}
      /\ MAX_SAFE_INTEGER * earnBps[id] <= MaxU64
  <2>1. MaxU64 \in Nat /\ MAX_SAFE_INTEGER \in Nat /\ BASIS_POINTS_DENOMINATOR \in Nat \ {0}
    BY LabAssumption
  <2>2. STREAK_LIMIT \in Nat \ {0}
    BY <2>1, LabAssumption
  <2>3. id \in MerchantId
    BY DEF LabIInv
  <2> HIDE DEF id
  <2>4. earnBps[id] \in Nat \ {0}
    BY <2>1, <2>3, LabAssumption
  <2>5. dailyCap[id] \in Nat \ {0}
    BY <2>1, <2>3, LabAssumption
  <2>6. MAX_SAFE_INTEGER * earnBps[id] <= MaxU64
    BY <2>3, LabAssumption
  <2> QED
    BY <2>1, <2>2, <2>3, <2>4, <2>5, <2>6
<1>2. receiptUnits \in Nat \ {0} /\ receiptUnits <= MAX_SAFE_INTEGER
  BY <1>1 DEF RecordReceipt, isSafeInteger
<1>3. /\ x \in Nat
      /\ x <= MAX_SAFE_INTEGER * earnBps[id]
      /\ receiptUnits <= x
  BY <1>1, <1>2, ProductGrows
<1>4. earnedToday[id] \in Nat /\ earnedToday[id] <= dailyCap[id]
  BY <1>1 DEF LabIInv
<1> HIDE DEF id, x
<1>5. remainingCap(id) = dailyCap[id] - earnedToday[id] /\ remainingCap(id) \in Nat
  <2>1. remainingCap(id) =
          IF 0 >= dailyCap[id] - earnedToday[id] THEN 0 ELSE dailyCap[id] - earnedToday[id]
    BY <1>1, <1>4, MaxOfTwo DEF remainingCap
  <2> QED
    BY <1>1, <1>4, <2>1
<1>6. rawCredit(id, receiptUnits) \in Int
  <2>1. rawCredit(id, receiptUnits) = x \div BASIS_POINTS_DENOMINATOR
    BY DEF rawCredit, x
  <2> QED
    BY <1>1, <1>3, <2>1
<1>7. credit = IF rawCredit(id, receiptUnits) <= remainingCap(id)
               THEN rawCredit(id, receiptUnits) ELSE remainingCap(id)
  BY <1>5, <1>6, MinOfTwo DEF creditFor
<1>8. credit > 0
  BY DEF RecordReceipt, id
<1> HIDE DEF credit
<1>9. credit \in Nat \ {0} /\ credit <= dailyCap[id] - earnedToday[id]
  BY <1>5, <1>6, <1>7, <1>8
<1>10. streakDelta(credit) = IF credit <= STREAK_LIMIT THEN credit ELSE STREAK_LIMIT
  BY <1>1, <1>9, MinOfTwo DEF streakDelta
<1>11. receiptUnits \in 1 .. MaxU64 /\ x \in 0 .. MaxU64
  BY <1>1, <1>2, <1>3
<1> QED
  BY <1>5, <1>6, <1>7, <1>9, <1>10, <1>11 DEF credit, id, x

LEMMA RecordLab ==
  ASSUME LabIInv, RecordReceipt
  PROVE  LabIInv'
<1> DEFINE id == merchantId
           credit == creditFor(id, receiptUnits)
           delta == streakDelta(credit)
<1>1. /\ id \in MerchantId /\ merchantId' \in MerchantId
      /\ visits' = visits + 1 /\ streak' = streak + delta
      /\ balances' = [balances EXCEPT ![id] = @ + credit]
      /\ earnedToday' = [earnedToday EXCEPT ![id] = @ + credit]
      /\ nextNonce' = [nextNonce EXCEPT ![id] = @ + 1]
  BY DEF LabIInv, RecordReceipt
<1>2. /\ credit \in Nat \ {0} /\ credit <= dailyCap[id] - earnedToday[id]
      /\ delta = IF credit <= STREAK_LIMIT THEN credit ELSE STREAK_LIMIT
  BY ReceiptNumbers
<1>3. STREAK_LIMIT \in Nat /\ \A i \in MerchantId : dailyCap[i] \in Nat
  BY LabAssumption
<1> HIDE DEF id, credit, delta
<1>4. delta \in Nat /\ delta <= credit
  BY <1>2, <1>3
<1>5. /\ balances \in [MerchantId -> Nat]
      /\ earnedToday \in [MerchantId -> Nat]
      /\ nextNonce \in [MerchantId -> Nat \ {0}]
      /\ visits \in Nat /\ streak \in Nat
  BY DEF LabIInv
<1>6. /\ balances' \in [MerchantId -> Nat]
      /\ earnedToday' \in [MerchantId -> Nat]
      /\ nextNonce' \in [MerchantId -> Nat \ {0}]
      /\ visits' \in Nat /\ streak' \in Nat
  BY <1>1, <1>2, <1>4, <1>5
<1>7. \A i \in MerchantId :
        /\ balances'[i] <= earnedToday'[i]
        /\ earnedToday'[i] <= dailyCap[i]
        /\ nextNonce'[i] <= earnedToday'[i] + 1
  <2> SUFFICES ASSUME NEW i \in MerchantId
               PROVE  /\ balances'[i] <= earnedToday'[i]
                      /\ earnedToday'[i] <= dailyCap[i]
                      /\ nextNonce'[i] <= earnedToday'[i] + 1
    OBVIOUS
  <2>1. /\ balances[i] <= earnedToday[i]
        /\ earnedToday[i] <= dailyCap[i]
        /\ nextNonce[i] <= earnedToday[i] + 1
    BY DEF LabIInv
  <2>2. CASE i = id
    <3>1. /\ balances'[i] = balances[i] + credit
          /\ earnedToday'[i] = earnedToday[i] + credit
          /\ nextNonce'[i] = nextNonce[i] + 1
      BY <1>1, <1>5, <2>2
    <3>2. balances[i] \in Nat /\ earnedToday[i] \in Nat /\ nextNonce[i] \in Nat
      BY <1>5
    <3> QED
      BY <1>2, <1>3, <2>1, <2>2, <3>1, <3>2
  <2>3. CASE i # id
    BY <1>1, <1>5, <2>1, <2>3
  <2> QED
    BY <2>2, <2>3
<1>8. /\ SumOver(earnedToday, MerchantId) \in Int
      /\ SumOver(earnedToday', MerchantId) = SumOver(earnedToday, MerchantId) + credit
  <2>1. \A i \in MerchantId : earnedToday[i] \in Int /\ earnedToday'[i] \in Int
    BY <1>5, <1>6
  <2>2. \A i \in MerchantId : i # id => earnedToday[i] = earnedToday'[i]
    BY <1>1, <1>5
  <2>3. earnedToday'[id] - earnedToday[id] = credit
    BY <1>1, <1>2, <1>5
  <2>4. SumOver(earnedToday', MerchantId) =
          SumOver(earnedToday, MerchantId) + (earnedToday'[id] - earnedToday[id])
    <3>1. id \in MerchantId
      BY <1>1
    <3>2. IsFiniteSet(MerchantId)
      BY LabAssumption
    <3> QED
      BY <2>1, <2>2, <3>1, <3>2, SumUpdate
  <2>5. SumOver(earnedToday, MerchantId) \in Int
    BY <2>1, LabAssumption, SumInt
  <2> QED
    BY <2>3, <2>4, <2>5
<1>9. /\ visits <= SumOver(earnedToday, MerchantId)
      /\ streak <= SumOver(earnedToday, MerchantId)
  BY DEF LabIInv
<1>10. /\ visits' <= SumOver(earnedToday', MerchantId)
       /\ streak' <= SumOver(earnedToday', MerchantId)
  BY <1>1, <1>2, <1>4, <1>5, <1>8, <1>9
<1> QED
  BY <1>1, <1>6, <1>7, <1>10 DEF LabIInv

LEMMA RedeemLab ==
  ASSUME LabIInv, NEW id \in MerchantId, Redeem(id)
  PROVE  LabIInv'
<1>1. /\ balances[id] >= 1
      /\ balances' = [balances EXCEPT ![id] = @ - 1]
      /\ UNCHANGED <<visits, streak, earnedToday, nextNonce, merchantId, receiptUnits>>
  BY DEF Redeem
<1>2. balances \in [MerchantId -> Nat] /\ earnedToday \in [MerchantId -> Nat]
  BY DEF LabIInv
<1>3. balances'[id] = balances[id] - 1 /\ balances'[id] \in Nat
  BY <1>1, <1>2
<1>4. \A i \in MerchantId : i # id => balances'[i] = balances[i]
  BY <1>1, <1>2
<1>5. balances' \in [MerchantId -> Nat]
  BY <1>1, <1>2, <1>3
<1>6. \A i \in MerchantId : balances[i] <= earnedToday[i]
  BY DEF LabIInv
<1>7. \A i \in MerchantId : balances'[i] <= earnedToday[i]
  BY <1>2, <1>3, <1>4, <1>6
<1> QED
  BY <1>1, <1>5, <1>7 DEF LabIInv

LEMMA NextLab == LabIInv /\ [Next]_vars => LabIInv'
<1> SUFFICES ASSUME LabIInv, [Next]_vars PROVE LabIInv'
  OBVIOUS
<1>1. CASE RecordReceipt
  BY <1>1, RecordLab
<1>2. ASSUME NEW id \in MerchantId, Redeem(id) PROVE LabIInv'
  BY <1>2, RedeemLab
<1>3. ASSUME NEW id \in MerchantId, SelectMerchant(id) PROVE LabIInv'
  BY <1>3 DEF SelectMerchant, passport, LabIInv
<1>4. ASSUME NEW x \in ReceiptInput, EditReceiptUnits(x) PROVE LabIInv'
  BY <1>4 DEF EditReceiptUnits, passport, LabIInv
<1>5. CASE UNCHANGED vars
  BY <1>5 DEF vars, LabIInv
<1> QED
  BY <1>1, <1>2, <1>3, <1>4, <1>5 DEF Next

\* What is left is part of what was earned, and no counter of the page passes
\* the caps.
THEOREM LabInvariance == Spec => []LabIInv
BY InitLab, NextLab, PTL DEF Spec

\* The tier shown is the level the crate gives the streak, and the one
\* announced next is the one after it.
THEOREM TiersAlwaysAgree == Spec => []TierAgrees
<1>1. LabIInv => TierAgrees
  BY TiersMeet DEF LabIInv, TierAgrees
<1> QED
  BY <1>1, LabInvariance, PTL

-----------------------------------------------------------------------------
(* The rules of the crate *)

\* The entry of a merchant, of one that has earned nothing too.
EntryOf(id) ==
  [earned_units |-> earnedToday[id],
   redeemed_units |-> earnedToday[id] - balances[id],
   earned_this_epoch |-> earnedToday[id],
   cap_epoch |-> 0,
   last_receipt_nonce |-> nextNonce[id] - 1]

Entries == [id \in MerchantId |-> coreBalance(id)]

DemoMerchant(id) == [id |-> id, earn_bps |-> earnBps[id], daily_cap |-> dailyCap[id]]

DemoRules == [max_receipt_units |-> STREAK_LIMIT, thresholds |-> Tail(TIERS)]

LEMMA CoreEntry ==
  ASSUME LabIInv, NEW id \in MerchantId
  PROVE  /\ earnedToday[id] # 0 => coreBalance(id) = EntryOf(id) /\ EntryOf(id) # NotAnInteger
         /\ Entries[id] = NotAnInteger <=> earnedToday[id] = 0
         /\ Core!balance_for(id) = EntryOf(id)
<1>1. /\ MaxU64 \in Nat
      /\ balances[id] \in Nat /\ earnedToday[id] \in Nat /\ nextNonce[id] \in Nat \ {0}
      /\ balances[id] <= earnedToday[id] /\ earnedToday[id] <= dailyCap[id]
      /\ nextNonce[id] <= earnedToday[id] + 1
  BY LabAssumption DEF LabIInv
<1>2. dailyCap[id] \in 1 .. MaxU64
  BY LabAssumption
<1>3. EntryOf(id) \in Core!MerchantBalance
  <2>1. /\ earnedToday[id] \in 0 .. MaxU64
        /\ earnedToday[id] - balances[id] \in 0 .. MaxU64
        /\ nextNonce[id] - 1 \in 0 .. MaxU64
    BY <1>1, <1>2
  <2> QED
    BY <2>1 DEF EntryOf, Core!MerchantBalance, Core!U64
<1>4. EntryOf(id) # NotAnInteger
  BY <1>3, NoEntryAssumption
<1>5. coreBalance(id) = IF earnedToday[id] = 0 THEN NotAnInteger ELSE EntryOf(id)
  BY DEF coreBalance, EntryOf
<1>6. ASSUME earnedToday[id] = 0 PROVE EntryOf(id) = Core!Default
  <2>1. earnedToday[id] - balances[id] = 0 /\ nextNonce[id] - 1 = 0
    BY <1>1, <1>6
  <2> QED
    BY <1>6, <2>1 DEF EntryOf, Core!Default
<1>7. Entries[id] = coreBalance(id)
  BY DEF Entries
<1>8. Core!balance_for(id) = IF Entries[id] = NotAnInteger THEN Core!Default ELSE Entries[id]
  BY DEF Core!balance_for, Entries
<1> QED
  BY <1>4, <1>5, <1>6, <1>7, <1>8

\* The tables of the page are arguments that the crate's constructors accept.
LEMMA TablesAccepted ==
  /\ \A id \in MerchantId : DemoMerchant(id) \in Core!Merchant
  /\ DemoRules \in Core!CoalitionRules
<1>1. ASSUME NEW id \in MerchantId PROVE DemoMerchant(id) \in Core!Merchant
  <2>1. MaxU64 \in Nat
    BY LabAssumption
  <2>2. earnBps[id] \in 1 .. BASIS_POINTS_DENOMINATOR
    BY LabAssumption
  <2>3. dailyCap[id] > 0
    BY <2>1, LabAssumption
  <2> QED
    BY <2>2, <2>3 DEF DemoMerchant, Core!Merchant
<1>2. DemoRules \in Core!CoalitionRules
  <2> DEFINE n == Len(TIERS)
             rest == Tail(TIERS)
  <2>1. n \in Nat /\ n > 1 /\ DOMAIN TIERS = 1 .. n /\ MaxU64 \in Nat
    BY LabAssumption
  <2>2. \A i \in 1 .. n : TIERS[i] \in Nat
    BY <2>1, LabAssumption
  <2>3. rest \in Seq(0 .. MaxU64) /\ Len(rest) = n - 1
        /\ \A j \in 1 .. n - 1 : rest[j] = TIERS[j + 1]
    BY <2>1, LabAssumption
  <2>4. \A j \in 1 .. n - 1 : rest[j] # 0
    <3> SUFFICES ASSUME NEW j \in 1 .. n - 1 PROVE rest[j] # 0
      OBVIOUS
    <3>1. 1 \in 1 .. n /\ j + 1 \in 1 .. n /\ 1 < j + 1
      BY <2>1
    <3>2. TIERS[1] < TIERS[j + 1] /\ TIERS[1] = 0
      BY <2>1, <3>1, LabAssumption
    <3> QED
      BY <2>2, <2>3, <3>1, <3>2
  <2>5. \A i \in 1 .. (n - 1) - 1 : rest[i] < rest[i + 1]
    <3> SUFFICES ASSUME NEW i \in 1 .. (n - 1) - 1 PROVE rest[i] < rest[i + 1]
      OBVIOUS
    <3>1. /\ i \in 1 .. n - 1 /\ i + 1 \in 1 .. n - 1
          /\ i + 1 \in 1 .. n /\ (i + 1) + 1 \in 1 .. n /\ i + 1 < (i + 1) + 1
      BY <2>1
    <3>2. TIERS[i + 1] < TIERS[(i + 1) + 1]
      BY <2>1, <3>1, LabAssumption
    <3> QED
      BY <2>3, <3>1, <3>2
  <2> HIDE DEF rest
  <2>6. Core!TierSchedule(rest)
    BY <2>1, <2>3, <2>4, <2>5 DEF Core!TierSchedule
  <2>7. STREAK_LIMIT # 0
    BY <2>1, LabAssumption
  <2> QED
    BY <2>6, <2>7 DEF DemoRules, Core!CoalitionRules, rest
<1> QED
  BY <1>1, <1>2

\* No counter passes the caps together, so the crate's checked additions hold.
LEMMA CountersFit == LabIInv => visits \in Core!U64 /\ streak \in Core!U64
<1> SUFFICES ASSUME LabIInv PROVE visits \in Core!U64 /\ streak \in Core!U64
  OBVIOUS
<1>1. MaxU64 \in Nat /\ IsFiniteSet(MerchantId) /\ SumOver(dailyCap, MerchantId) <= MaxU64
  BY LabAssumption
<1>2. \A id \in MerchantId : dailyCap[id] \in Int
  BY <1>1, LabAssumption
<1>3. \A id \in MerchantId : earnedToday[id] \in Int /\ earnedToday[id] <= dailyCap[id]
  BY DEF LabIInv
<1>4. SumOver(earnedToday, MerchantId) <= SumOver(dailyCap, MerchantId)
  BY <1>1, <1>2, <1>3, SumMonotone
<1>5. SumOver(earnedToday, MerchantId) \in Int
  BY <1>1, <1>3, SumInt
<1>6. SumOver(dailyCap, MerchantId) \in Int
  BY <1>1, <1>2, SumInt
<1>7. /\ visits \in Nat /\ streak \in Nat
      /\ visits <= SumOver(earnedToday, MerchantId)
      /\ streak <= SumOver(earnedToday, MerchantId)
  BY DEF LabIInv
<1> QED
  BY <1>1, <1>4, <1>5, <1>6, <1>7 DEF Core!U64

LEMMA CountersStillFit == LabIInv' => (visits \in Core!U64 /\ streak \in Core!U64)'
BY CountersFit, PTL

LEMMA EntriesUpdated ==
  ASSUME NEW id \in MerchantId,
         \A i \in MerchantId : i # id => coreBalance(i)' = coreBalance(i)
  PROVE  Entries' = [Entries EXCEPT ![id] = coreBalance(id)']
BY DEF Entries

\* A click on "Issue receipt" is an accepted accrue call of the selected
\* merchant, with the nonce of the page.
LEMMA RecordMapsToAccrue ==
  ASSUME LabIInv, LabIInv', RecordReceipt
  PROVE  Core!Next
<1>0. PICK id \in MerchantId : id = merchantId
  BY DEF LabIInv
<1> DEFINE units == receiptUnits
           credit == creditFor(id, units)
           delta == streakDelta(credit)
           m == DemoMerchant(id)
           nonce == nextNonce[id]
<1>1. /\ visits' = visits + 1 /\ streak' = streak + delta
      /\ balances' = [balances EXCEPT ![id] = @ + credit]
      /\ earnedToday' = [earnedToday EXCEPT ![id] = @ + credit]
      /\ nextNonce' = [nextNonce EXCEPT ![id] = @ + 1]
  BY <1>0 DEF RecordReceipt
<1>2. /\ units \in 1 .. MaxU64
      /\ units * earnBps[id] \in 0 .. MaxU64
      /\ rawCredit(id, units) \in Int
      /\ remainingCap(id) = dailyCap[id] - earnedToday[id]
      /\ credit = IF rawCredit(id, units) <= remainingCap(id)
                  THEN rawCredit(id, units) ELSE remainingCap(id)
      /\ credit \in Nat \ {0}
      /\ credit <= dailyCap[id] - earnedToday[id]
      /\ delta = IF credit <= STREAK_LIMIT THEN credit ELSE STREAK_LIMIT
  BY <1>0, ReceiptNumbers
<1>3. m.id = id /\ m.earn_bps = earnBps[id] /\ m.daily_cap = dailyCap[id]
  BY DEF DemoMerchant
<1>4. MaxU64 \in Nat /\ STREAK_LIMIT \in Nat
  BY LabAssumption
<1>5. dailyCap[id] \in 1 .. MaxU64
  BY LabAssumption
<1>6. /\ earnedToday[id] \in Nat /\ balances[id] \in Nat /\ nonce \in Nat \ {0}
      /\ earnedToday[id] <= dailyCap[id] /\ nonce <= earnedToday[id] + 1
      /\ visits \in Nat /\ streak \in Nat
  BY DEF LabIInv
<1>7. /\ Core!balance_for(id) = EntryOf(id)
      /\ EntryOf(id).earned_units = earnedToday[id]
      /\ EntryOf(id).redeemed_units = earnedToday[id] - balances[id]
      /\ EntryOf(id).earned_this_epoch = earnedToday[id]
      /\ EntryOf(id).cap_epoch = 0
      /\ EntryOf(id).last_receipt_nonce = nonce - 1
  BY CoreEntry DEF EntryOf
<1>8. m \in Core!Merchant /\ DemoRules \in Core!CoalitionRules
  BY TablesAccepted
<1>9. visits' \in Core!U64 /\ streak' \in Core!U64
  BY CountersStillFit DEF Core!U64
<1> HIDE DEF units, credit, delta, m, nonce
<1>10. Core!earned_this_epoch(id, 0) = earnedToday[id]
  BY <1>7 DEF Core!earned_this_epoch
<1>11. Core!remaining_cap(m, 0) = remainingCap(id) /\ Core!remaining_cap(m, 0) > 0
  BY <1>2, <1>3, <1>5, <1>6, <1>10 DEF Core!remaining_cap, Core!saturating_sub
<1>12. Core!credit_units(m, units, 0) = credit
  BY <1>2, <1>3, <1>11 DEF Core!credit_units, Core!raw_credit, rawCredit, Core!Smaller
<1>13. Core!streak_delta(credit, DemoRules) = delta
  BY <1>2 DEF Core!streak_delta, DemoRules, Core!Smaller
<1>14. Core!NonceFresh(m, nonce, 0)
  BY <1>3, <1>6, <1>7 DEF Core!NonceFresh
<1>15. Core!Checked(m, units, 0, DemoRules)
  <2>1. earnedToday[id] + credit \in Core!U64
    BY <1>2, <1>4, <1>5, <1>6 DEF Core!U64
  <2>2. units * earnBps[id] \in Core!U64
    BY <1>2 DEF Core!U64
  <2> QED
    BY <1>1, <1>3, <1>7, <1>9, <1>10, <1>12, <1>13, <2>1, <2>2 DEF Core!Checked
<1>16. Entries' =
         [Entries EXCEPT ![id] =
            [earned_units |-> earnedToday[id] + credit,
             redeemed_units |-> earnedToday[id] - balances[id],
             earned_this_epoch |-> earnedToday[id] + credit,
             cap_epoch |-> 0,
             last_receipt_nonce |-> nonce]]
  <2>1. /\ balances \in [MerchantId -> Nat] /\ earnedToday \in [MerchantId -> Nat]
        /\ nextNonce \in [MerchantId -> Nat \ {0}]
    BY DEF LabIInv
  <2>2. /\ balances'[id] = balances[id] + credit
        /\ earnedToday'[id] = earnedToday[id] + credit
        /\ nextNonce'[id] = nonce + 1
    BY <1>1, <2>1 DEF nonce
  <2>3. \A i \in MerchantId : i # id =>
          /\ balances'[i] = balances[i]
          /\ earnedToday'[i] = earnedToday[i]
          /\ nextNonce'[i] = nextNonce[i]
    BY <1>1, <2>1
  <2>4. \A i \in MerchantId : i # id => coreBalance(i)' = coreBalance(i)
    BY <2>3 DEF coreBalance
  <2>5. /\ earnedToday'[id] # 0
        /\ earnedToday'[id] - balances'[id] = earnedToday[id] - balances[id]
        /\ nextNonce'[id] - 1 = nonce
    BY <1>2, <1>6, <2>2
  <2>6. coreBalance(id)' =
          [earned_units |-> earnedToday[id] + credit,
           redeemed_units |-> earnedToday[id] - balances[id],
           earned_this_epoch |-> earnedToday[id] + credit,
           cap_epoch |-> 0,
           last_receipt_nonce |-> nonce]
    BY <2>2, <2>5 DEF coreBalance
  <2>7. Entries' = [Entries EXCEPT ![id] = coreBalance(id)']
    BY <2>4, EntriesUpdated
  <2> QED
    BY <2>6, <2>7
<1>17. Core!Accrue(m, nonce, units, 0, DemoRules)
  <2>1. units > 0 /\ credit > 0
    BY <1>2, <1>4
  <2>2. Entries' =
          [Entries EXCEPT ![m.id] =
             [earned_units |-> Core!balance_for(m.id).earned_units + credit,
              redeemed_units |-> Core!balance_for(m.id).redeemed_units,
              earned_this_epoch |-> Core!earned_this_epoch(m.id, 0) + credit,
              cap_epoch |-> 0,
              last_receipt_nonce |-> nonce]]
    BY <1>3, <1>7, <1>10, <1>16
  <2>3. visits' = visits + 1 /\ streak' = streak + delta
    BY <1>1
  <2>4. Core!remaining_cap(m, 0) > 0
    BY <1>11
  <2> QED
    BY <1>12, <1>13, <1>14, <1>15, <2>1, <2>2, <2>3, <2>4 DEF Core!Accrue, Entries
<1>18. units \in Core!U64 /\ nonce \in Core!U64
  BY <1>2, <1>4, <1>5, <1>6 DEF Core!U64
<1>19. PICK epoch \in {0} : epoch = 0
  OBVIOUS
<1>20. Core!AccrueAt(epoch)
  BY <1>8, <1>17, <1>18, <1>19 DEF Core!AccrueAt
<1> QED
  BY <1>20 DEF Core!Next

\* A click on "Redeem 1" is an accepted redeem call of one unit.
LEMMA RedeemMapsToRedeem ==
  ASSUME LabIInv, NEW id \in MerchantId, Redeem(id)
  PROVE  Core!Next
<1>1. /\ balances[id] >= 1
      /\ balances' = [balances EXCEPT ![id] = @ - 1]
      /\ UNCHANGED <<visits, streak, earnedToday, nextNonce>>
  BY DEF Redeem
<1>2. MaxU64 \in Nat /\ dailyCap[id] \in 1 .. MaxU64
  BY LabAssumption
<1>3. /\ balances \in [MerchantId -> Nat]
      /\ balances[id] \in Nat /\ earnedToday[id] \in Nat
      /\ balances[id] <= earnedToday[id] /\ earnedToday[id] <= dailyCap[id]
  BY DEF LabIInv
<1>4. earnedToday[id] # 0
  BY <1>1, <1>3
<1>5. /\ coreBalance(id) = EntryOf(id)
      /\ Entries[id] = EntryOf(id)
      /\ Entries[id] # NotAnInteger
      /\ Core!balance_for(id) = EntryOf(id)
  BY <1>4, CoreEntry DEF Entries
<1>6. /\ EntryOf(id).earned_units = earnedToday[id]
      /\ EntryOf(id).redeemed_units = earnedToday[id] - balances[id]
  BY DEF EntryOf
<1>7. Core!Available(id, 1)
  <2>1. Core!available_units(id) = balances[id]
    BY <1>3, <1>5, <1>6 DEF Core!available_units, Core!saturating_sub
  <2> QED
    BY <1>1, <2>1 DEF Core!Available
<1>8. Entries[id].redeemed_units + 1 \in Core!U64
  BY <1>1, <1>2, <1>3, <1>5, <1>6 DEF Core!U64
<1>9. Entries' = [Entries EXCEPT ![id].redeemed_units = @ + 1]
  <2>1. balances'[id] = balances[id] - 1
    BY <1>1, <1>3
  <2>2. \A i \in MerchantId : i # id => balances'[i] = balances[i]
    BY <1>1, <1>3
  <2>3. \A i \in MerchantId : i # id => coreBalance(i)' = coreBalance(i)
    BY <1>1, <2>2 DEF coreBalance
  <2>4. earnedToday[id] - balances'[id] = (earnedToday[id] - balances[id]) + 1
    BY <1>3, <2>1
  <2>5. coreBalance(id)' = [EntryOf(id) EXCEPT !.redeemed_units = @ + 1]
    BY <1>1, <1>4, <2>4 DEF coreBalance, EntryOf
  <2>6. Entries' = [Entries EXCEPT ![id] = coreBalance(id)']
    BY <2>3, EntriesUpdated
  <2> QED
    BY <1>5, <2>5, <2>6
<1>10. Core!Redeem(id, 1)
  <2>1. 1 > 0
    OBVIOUS
  <2>2. UNCHANGED <<visits, streak>>
    BY <1>1
  <2> QED
    BY <1>5, <1>7, <1>8, <1>9, <2>1, <2>2 DEF Core!Redeem, Entries
<1>11. 1 \in Core!U64
  BY <1>2 DEF Core!U64
<1>12. Core!RedeemAny
  BY <1>10, <1>11 DEF Core!RedeemAny
<1> QED
  BY <1>12 DEF Core!Next

\* The page opens as Passport::new, and every click either is a call that the
\* crate accepts or leaves its state alone, for any merchants and tiers that
\* could be written into the page.
THEOREM LabImplementsCore == Spec => DemoImplementsCore
<1>1. Init => Core!Init
  <2> SUFFICES ASSUME Init PROVE Core!Init
    OBVIOUS
  <2>1. \A id \in MerchantId : coreBalance(id) = NotAnInteger
    BY DEF Init, coreBalance
  <2> QED
    BY <2>1 DEF Init, Core!Init
<1>2. LabIInv /\ LabIInv' /\ [Next]_vars => [Core!Next]_(Core!core)
  <2> SUFFICES ASSUME LabIInv, LabIInv', [Next]_vars PROVE [Core!Next]_(Core!core)
    OBVIOUS
  <2>1. CASE RecordReceipt
    BY <2>1, RecordMapsToAccrue
  <2>2. ASSUME NEW id \in MerchantId, Redeem(id) PROVE Core!Next
    BY <2>2, RedeemMapsToRedeem
  <2>3. ASSUME UNCHANGED passport PROVE UNCHANGED Core!core
    BY <2>3 DEF passport, Core!core, coreBalance
  <2>4. ASSUME NEW id \in MerchantId, SelectMerchant(id) PROVE UNCHANGED passport
    BY <2>4 DEF SelectMerchant
  <2>5. ASSUME NEW x \in ReceiptInput, EditReceiptUnits(x) PROVE UNCHANGED passport
    BY <2>5 DEF EditReceiptUnits
  <2>6. ASSUME UNCHANGED vars PROVE UNCHANGED passport
    BY <2>6 DEF vars, passport
  <2> QED
    BY <2>1, <2>2, <2>3, <2>4, <2>5, <2>6 DEF Next
<1> QED
  BY <1>1, <1>2, LabInvariance, PTL DEF Spec, DemoImplementsCore, Core!Spec

=================================================================================
