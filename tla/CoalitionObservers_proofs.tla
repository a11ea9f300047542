---------------------- MODULE CoalitionObservers_proofs ----------------------
(***************************************************************************)
(* What an auditor who remembers every day and every nonce sees, what a    *)
(* follower who reads nothing but the events knows, and what a notary who  *)
(* reads nothing but the signatures, for every clock and every set of      *)
(* wallets.                                                                *)
(***************************************************************************)
EXTENDS CoalitionAudit, CoalitionEvents, CoalitionSignatures, CoalitionProgram_proofs

-----------------------------------------------------------------------------
(* One step, seen from one balance *)

\* Nothing was credited to b.
Quiet(b) ==
  /\ balance'[b].earned_units = balance[b].earned_units
  /\ balance'[b].earned_this_epoch = balance[b].earned_this_epoch
  /\ balance'[b].cap_epoch = balance[b].cap_epoch
  /\ balance'[b].last_receipt_nonce = balance[b].last_receipt_nonce
  /\ balance'[b].version = balance[b].version

\* A receipt was recorded in b.
Credited(b) ==
  LET day == current_day_epoch IN
  /\ day \in Nat
  /\ credited(b) \in Nat /\ credited(b) >= 1
  /\ balance[b].version # 0 => day >= balance[b].cap_epoch
  /\ balance'[b].version # 0
  /\ balance'[b].cap_epoch = day
  /\ balance'[b].earned_this_epoch = earned_this_epoch(b, day) + credited(b)
  /\ balance'[b].last_receipt_nonce \in U64
  /\ balance'[b].last_receipt_nonce > balance[b].last_receipt_nonce
  /\ merchant[b[2]] # NoAccount
  /\ balance'[b].earned_this_epoch <= merchant[b[2]].daily_cap

LEMMA ReceiptStep ==
  ASSUME IInv, RecordAnyReceipt, NEW a \in BalanceAddr
  PROVE  /\ Quiet(a) \/ Credited(a)
         /\ UNCHANGED merchant
<1>1. PICK c \in CoalitionAddr, ma \in MerchantKey, m \in MerchantAddr, p \in PassportAddr,
           b \in BalanceAddr, nonce \in U64, amount \in U64, hash \in ReceiptHash :
        RecordReceipt(ma, c, m, p, b, nonce, amount, hash)
  BY DEF RecordAnyReceipt
<1>2. PICK credit \in Nat, delta \in Nat, day \in Nat, today \in Nat :
        /\ day = current_day_epoch
        /\ today = earned_this_epoch(b, day)
        /\ credit >= 1
        /\ today + credit <= merchant[m].daily_cap
        /\ balance[b].version # 0 => day >= balance[b].cap_epoch
        /\ nonce > balance[b].last_receipt_nonce
        /\ b = <<p, m>>
        /\ merchant[m] # NoAccount
        /\ balance' = [balance EXCEPT ![b] =
             [passport |-> p, merchant |-> m,
              earned_units |-> balance[b].earned_units + credit,
              redeemed_units |-> balance[b].redeemed_units,
              earned_this_epoch |-> today + credit,
              cap_epoch |-> day, last_receipt_nonce |-> nonce, version |-> STATE_VERSION]]
        /\ UNCHANGED merchant
  BY <1>1, ReceiptEffect
<1>3. CASE a # b
  BY <1>2, <1>3 DEF IInv, TypeOK, Quiet
<1>4. CASE a = b
  <2>1. balance[b] \in MerchantBalance
    BY DEF IInv, TypeOK
  <2>2. /\ balance'[b].earned_units = balance[b].earned_units + credit
        /\ balance'[b].version # 0
        /\ balance'[b].cap_epoch = day
        /\ balance'[b].earned_this_epoch = today + credit
        /\ balance'[b].last_receipt_nonce = nonce
    BY <1>2 DEF IInv, TypeOK, STATE_VERSION
  <2>3. credited(b) = credit
    BY <2>1, <2>2, NumbersAssumption DEF credited, MerchantBalance, U64
  <2> QED
    BY <1>2, <1>4, <2>2, <2>3 DEF Credited
<1> QED
  BY <1>2, <1>3, <1>4

\* In a step each balance is quiet or credited, and merchants stay as they are.
LEMMA StepEffect ==
  ASSUME IInv, Next
  PROVE  /\ \A b \in BalanceAddr : Quiet(b) \/ Credited(b)
         /\ \A m \in MerchantAddr : merchant[m] # NoAccount => merchant'[m] = merchant[m]
<1>1. CASE Configure
  <2>1. UNCHANGED balance
    BY <1>1 DEF Configure, InitializeCoalition, RegisterMerchant, PauseCoalition,
       UnpauseCoalition
  <2>2. ASSUME NEW au \in Authority, NEW c \in CoalitionAddr, NEW ma \in MerchantKey,
               NEW args \in MerchantArgs, RegisterMerchant(au, c, ma, args)
        PROVE  \A m \in MerchantAddr : merchant[m] # NoAccount => merchant'[m] = merchant[m]
    BY <2>2 DEF RegisterMerchant, IInv, TypeOK
  <2>3. CASE UNCHANGED merchant
    BY <2>1, <2>3 DEF Quiet
  <2> QED
    BY <1>1, <2>1, <2>2, <2>3
       DEF Configure, InitializeCoalition, PauseCoalition, UnpauseCoalition, Quiet
<1>2. CASE CreateAnyPassport
  BY <1>2 DEF CreateAnyPassport, CreatePassport, Quiet
<1>3. CASE RecordAnyReceipt
  BY <1>3, ReceiptStep DEF RecordAnyReceipt, RecordReceipt
<1>4. CASE RedeemAny
  <2>1. PICK h \in Customer, c \in CoalitionAddr, m \in MerchantAddr, p \in PassportAddr,
             b \in BalanceAddr, units \in U64 : Redeem(h, c, m, p, b, units)
    BY <1>4 DEF RedeemAny
  <2>2. /\ balance' = [balance EXCEPT ![b].redeemed_units = @ + units]
        /\ UNCHANGED merchant
    BY <2>1 DEF Redeem, apply_redemption, apply_redemption_accepts
  <2> QED
    BY <2>2 DEF Quiet, IInv, TypeOK, MerchantBalance
<1>5. CASE Environment
  BY <1>5 DEF Environment, BurnCredential, SetClock, Quiet
<1> QED
  BY <1>1, <1>2, <1>3, <1>4, <1>5 DEF Next

-----------------------------------------------------------------------------
(* The invariant of the audit *)

LEMMA InitAudit == AuditInit => AuditIInv
<1> SUFFICES ASSUME AuditInit PROVE AuditIInv
  OBVIOUS
<1>1. IInv
  BY InitIInv DEF AuditInit
<1>2. AuditTypeOK /\ DayCounterExact /\ DailyCapHolds /\ NoncesBehind
  BY DEF AuditInit, Init, AuditTypeOK, DayCounterExact, DailyCapHolds, NoncesBehind,
     EmptyBalance
<1> QED
  BY <1>1, <1>2 DEF AuditIInv

LEMMA StepAudit ==
  ASSUME AuditIInv, AuditNext
  PROVE  AuditIInv'
<1>1. IInv'
  BY NextIInv DEF AuditIInv, AuditNext
<1>2. /\ \A b \in BalanceAddr : Quiet(b) \/ Credited(b)
      /\ \A m \in MerchantAddr : merchant[m] # NoAccount => merchant'[m] = merchant[m]
  BY StepEffect DEF AuditIInv, AuditNext
<1>3. \A b \in BalanceAddr : balance[b] \in MerchantBalance /\ balance'[b] \in MerchantBalance
  BY <1>1 DEF AuditIInv, IInv, TypeOK
<1>4. current_day_epoch \in Int
  BY DayInt DEF AuditIInv, IInv, TypeOK
<1>5. ASSUME NEW b \in BalanceAddr, Quiet(b)
      PROVE  /\ issued'[b] = issued[b]
             /\ accepted'[b] = accepted[b]
  <2>1. credited(b) = 0
    BY <1>3, <1>5 DEF Quiet, credited, MerchantBalance, U64
  <2>2. \A d \in Day : issued'[b][d] = issued[b][d]
    BY <2>1 DEF AuditNext, Observe, AuditIInv, AuditTypeOK
  <2>3. issued'[b] \in [Day -> Int] /\ issued[b] \in [Day -> Nat]
    BY <2>1 DEF AuditNext, Observe, AuditIInv, AuditTypeOK
  <2>4. issued'[b] = issued[b]
    BY <2>2, <2>3
  <2>5. accepted'[b] = accepted[b]
    BY <2>1 DEF AuditNext, Observe
  <2> QED
    BY <2>4, <2>5
<1>6. ASSUME NEW b \in BalanceAddr, Credited(b)
      PROVE  /\ issued'[b] \in [Day -> Nat]
             /\ \A d \in Day : issued'[b][d] =
                  IF d = current_day_epoch THEN issued[b][d] + credited(b) ELSE issued[b][d]
             /\ accepted'[b] = accepted[b] \cup {balance'[b].last_receipt_nonce}
             /\ balance'[b].last_receipt_nonce \in U64
  <2>1. credited(b) \in Nat /\ credited(b) # 0
    BY <1>6 DEF Credited
  <2>2. /\ issued'[b] = [d \in Day |->
             issued[b][d] + IF d = current_day_epoch THEN credited(b) ELSE 0]
        /\ issued[b] \in [Day -> Nat]
    BY DEF AuditNext, Observe, AuditIInv, AuditTypeOK
  <2>3. accepted'[b] = accepted[b] \cup {balance'[b].last_receipt_nonce}
    BY <2>1 DEF AuditNext, Observe
  <2>4. balance'[b].last_receipt_nonce \in U64
    BY <1>6 DEF Credited
  <2> QED
    BY <2>1, <2>2, <2>3, <2>4
<1>7. AuditTypeOK'
  <2>1. /\ issued' = [b \in BalanceAddr |-> issued'[b]]
        /\ accepted' = [b \in BalanceAddr |-> accepted'[b]]
    BY DEF AuditNext, Observe
  <2>2. \A b \in BalanceAddr : issued'[b] \in [Day -> Nat] /\ accepted'[b] \in SUBSET U64
    BY <1>2, <1>5, <1>6 DEF AuditIInv, AuditTypeOK
  <2> QED
    BY <2>1, <2>2 DEF AuditTypeOK
<1>8. \A b \in BalanceAddr, d \in Day : issued[b][d] \in Nat /\ d \in Nat
  BY DEF AuditIInv, AuditTypeOK, Day
<1>9. DayCounterExact'
  <2> SUFFICES ASSUME NEW b \in BalanceAddr, NEW d \in Day
               PROVE  /\ balance'[b].version = 0 => issued'[b][d] = 0
                      /\ balance'[b].version # 0 =>
                           /\ d = balance'[b].cap_epoch =>
                                issued'[b][d] = balance'[b].earned_this_epoch
                           /\ d > balance'[b].cap_epoch => issued'[b][d] = 0
    BY DEF DayCounterExact
  <2>1. /\ balance[b].version = 0 => issued[b][d] = 0
        /\ balance[b].version # 0 =>
             /\ d = balance[b].cap_epoch => issued[b][d] = balance[b].earned_this_epoch
             /\ d > balance[b].cap_epoch => issued[b][d] = 0
    BY DEF AuditIInv, DayCounterExact
  <2>2. CASE Quiet(b)
    BY <1>5, <2>1, <2>2 DEF Quiet
  <2>3. CASE Credited(b)
    <3>1. balance[b].cap_epoch \in Nat
      BY <1>3 DEF MerchantBalance
    <3>2. d >= current_day_epoch =>
            issued[b][d] = IF d = current_day_epoch
                           THEN earned_this_epoch(b, current_day_epoch) ELSE 0
      BY <1>4, <1>8, <2>1, <2>3, <3>1 DEF Credited, earned_this_epoch
    <3>3. balance'[b].cap_epoch = current_day_epoch /\ balance'[b].version # 0
      BY <2>3 DEF Credited
    <3>4. d = current_day_epoch => issued'[b][d] = balance'[b].earned_this_epoch
      BY <1>4, <1>6, <2>3, <3>2 DEF Credited
    <3>5. d > current_day_epoch => issued'[b][d] = 0
      BY <1>4, <1>6, <1>8, <2>3, <3>2
    <3> QED
      BY <3>3, <3>4, <3>5
  <2> QED
    BY <1>2, <2>2, <2>3
<1>10. DailyCapHolds'
  <2> SUFFICES ASSUME NEW b \in BalanceAddr, NEW d \in Day, issued'[b][d] > 0
               PROVE  /\ merchant'[b[2]] # NoAccount
                      /\ issued'[b][d] <= merchant'[b[2]].daily_cap
    BY DEF DailyCapHolds
  <2>1. b[2] \in MerchantAddr
    BY DEF BalanceAddr
  <2>2. issued[b][d] > 0 =>
          merchant[b[2]] # NoAccount /\ issued[b][d] <= merchant[b[2]].daily_cap
    BY DEF AuditIInv, DailyCapHolds
  <2>3. CASE issued'[b][d] = issued[b][d]
    BY <1>2, <2>1, <2>2, <2>3
  <2>4. CASE issued'[b][d] # issued[b][d]
    <3>1. Credited(b) /\ d = current_day_epoch
      BY <1>2, <1>5, <1>6, <2>4
    <3>2. issued'[b][d] = balance'[b].earned_this_epoch
      BY <1>9, <3>1 DEF DayCounterExact, Credited
    <3> QED
      BY <1>2, <2>1, <3>1, <3>2 DEF Credited
  <2> QED
    BY <2>3, <2>4
<1>11. NoncesBehind'
  <2> SUFFICES ASSUME NEW b \in BalanceAddr, NEW n \in accepted'[b]
               PROVE  n <= balance'[b].last_receipt_nonce
    BY DEF NoncesBehind
  <2>1. \A k \in accepted[b] : k \in Nat /\ k <= balance[b].last_receipt_nonce
    BY NumbersAssumption DEF AuditIInv, NoncesBehind, AuditTypeOK, U64
  <2>2. /\ balance[b].last_receipt_nonce \in Nat
        /\ balance'[b].last_receipt_nonce \in Nat
    BY <1>3, NumbersAssumption DEF MerchantBalance, U64
  <2>3. CASE Quiet(b)
    BY <1>5, <2>1, <2>3 DEF Quiet
  <2>4. CASE Credited(b)
    <3>1. balance'[b].last_receipt_nonce > balance[b].last_receipt_nonce
      BY <2>4 DEF Credited
    <3>2. n \in accepted[b] \/ n = balance'[b].last_receipt_nonce
      BY <1>6, <2>4
    <3> QED
      BY <2>1, <2>2, <3>1, <3>2
  <2> QED
    BY <1>2, <2>3, <2>4
<1> QED
  BY <1>1, <1>7, <1>9, <1>10, <1>11 DEF AuditIInv

LEMMA NextAudit == AuditIInv /\ [AuditNext]_auditVars => AuditIInv'
<1> SUFFICES ASSUME AuditIInv, [AuditNext]_auditVars PROVE AuditIInv'
  OBVIOUS
<1>1. CASE AuditNext
  BY <1>1, StepAudit
<1>2. CASE UNCHANGED auditVars
  <2>1. IInv'
    BY <1>2, NextIInv DEF AuditIInv, auditVars, vars
  <2>2. AuditTypeOK' /\ DayCounterExact' /\ DailyCapHolds' /\ NoncesBehind'
    BY <1>2 DEF AuditIInv, auditVars, AuditTypeOK, DayCounterExact, DailyCapHolds, NoncesBehind
  <2> QED
    BY <2>1, <2>2 DEF AuditIInv
<1> QED
  BY <1>1, <1>2

THEOREM AuditInvariance == AuditSpec => []AuditIInv
BY InitAudit, NextAudit, PTL DEF AuditSpec

-----------------------------------------------------------------------------

\* All the credit of a balance in one day is within its merchant's cap, for
\* every number of days and a clock that goes either way.
THEOREM DailyCapIsDaily == AuditSpec => []DailyCapHolds
<1>1. AuditIInv => DailyCapHolds
  BY DEF AuditIInv
<1> QED
  BY <1>1, AuditInvariance, PTL

\* The day counter in the account is the day's true total, and later days are
\* untouched: the account forgets nothing the cap needs.
THEOREM DayCounterFaithful == AuditSpec => []DayCounterExact
<1>1. AuditIInv => DayCounterExact
  BY DEF AuditIInv
<1> QED
  BY <1>1, AuditInvariance, PTL

\* No receipt nonce earns credit twice in one balance.
THEOREM NoReceiptReplay == AuditSpec => NonceCreditedOnce
<1> DEFINE A == \A b \in BalanceAddr :
                  credited(b) # 0 => balance'[b].last_receipt_nonce \notin accepted[b]
<1>1. AuditIInv /\ [AuditNext]_auditVars => [A]_auditVars
  <2> SUFFICES ASSUME AuditIInv, AuditNext, NEW b \in BalanceAddr, credited(b) # 0
               PROVE  balance'[b].last_receipt_nonce \notin accepted[b]
    OBVIOUS
  <2>1. balance[b] \in MerchantBalance
    BY DEF AuditIInv, IInv, TypeOK
  <2>2. ~ Quiet(b)
    BY <2>1 DEF Quiet, credited, MerchantBalance, U64
  <2>3. Credited(b)
    BY <2>2, StepEffect DEF AuditIInv, AuditNext
  <2>4. \A n \in accepted[b] : n \in Nat /\ n <= balance[b].last_receipt_nonce
    BY NumbersAssumption DEF AuditIInv, NoncesBehind, AuditTypeOK, U64
  <2>5. /\ balance'[b].last_receipt_nonce \in U64
        /\ balance'[b].last_receipt_nonce > balance[b].last_receipt_nonce
    BY <2>3 DEF Credited
  <2> QED
    BY <2>1, <2>4, <2>5, NumbersAssumption DEF MerchantBalance, U64
<1>2. [][A]_auditVars => NonceCreditedOnce
  BY PTL DEF NonceCreditedOnce
<1> QED
  BY <1>1, <1>2, AuditInvariance, PTL DEF AuditSpec

-----------------------------------------------------------------------------
(* What the follower learns from each event *)

\* The parts of the picture, so that a step can name those it changes.
LEMMA FollowReceipt ==
  ASSUME FollowerTypeOK, NEW p \in PassportAddr, NEW m \in MerchantAddr,
         NEW nonce, NEW credit, NEW delta, NEW tier,
         emit([event |-> "ReceiptRecorded", passport |-> p, merchant |-> m, nonce |-> nonce,
               credit_units |-> credit, streak_delta |-> delta, tier_level |-> tier])
  PROVE  LET b == <<p, m>> IN
         /\ known'.coalitions = known.coalitions
         /\ known'.paused = known.paused
         /\ known'.merchants = known.merchants
         /\ known'.credential = known.credential
         /\ known'.visits = [known.visits EXCEPT ![p] = @ + 1]
         /\ known'.streak = [known.streak EXCEPT ![p] = @ + delta]
         /\ known'.tier = [known.tier EXCEPT ![p] = tier]
         /\ known'.available = [known.available EXCEPT ![b] = @ + credit]
         /\ known'.nonces = [known.nonces EXCEPT ![b] = @ \cup {nonce}]
         /\ known' = [coalitions |-> known'.coalitions, paused |-> known'.paused,
                      merchants |-> known'.merchants, credential |-> known'.credential,
                      visits |-> known'.visits, streak |-> known'.streak,
                      tier |-> known'.tier, available |-> known'.available,
                      nonces |-> known'.nonces]
<1> DEFINE e == [event |-> "ReceiptRecorded", passport |-> p, merchant |-> m, nonce |-> nonce,
                 credit_units |-> credit, streak_delta |-> delta, tier_level |-> tier]
<1>1. /\ e.event = "ReceiptRecorded" /\ e.passport = p /\ e.merchant = m /\ e.nonce = nonce
      /\ e.credit_units = credit /\ e.streak_delta = delta /\ e.tier_level = tier
  OBVIOUS
<1>2. known' = Follow(e)
  BY DEF emit
<1> HIDE DEF e
<1>3. known' =
         [known EXCEPT
            !.visits[p] = @ + 1,
            !.streak[p] = @ + delta,
            !.tier[p] = tier,
            !.available[<<p, m>>] = @ + credit,
            !.nonces[<<p, m>>] = @ \cup {nonce}]
  BY <1>1, <1>2 DEF Follow
<1> QED
  BY <1>3 DEF FollowerTypeOK
LEMMA FollowPassport ==
  ASSUME FollowerTypeOK, NEW p \in PassportAddr, NEW k,
         emit([event |-> "PassportCreated", passport |-> p, passport_mint |-> k])
  PROVE  known' = [known EXCEPT !.credential[p] = k]
BY DEF emit, Follow

LEMMA FollowRedemption ==
  ASSUME FollowerTypeOK, NEW p \in PassportAddr, NEW m \in MerchantAddr, NEW units, NEW left,
         emit([event |-> "Redeemed", passport |-> p, merchant |-> m,
               redeemed_units |-> units, remaining_units |-> left])
  PROVE  known' = [known EXCEPT !.available[<<p, m>>] = left]
BY DEF emit, Follow

LEMMA FollowCoalition ==
  ASSUME FollowerTypeOK, NEW c,
         emit([event |-> "CoalitionInitialized", coalition |-> c])
  PROVE  known' = [known EXCEPT !.coalitions = @ \cup {c}]
BY DEF emit, Follow

LEMMA FollowPause ==
  ASSUME FollowerTypeOK, NEW c, NEW paused \in BOOLEAN,
         emit([event |-> "CoalitionPauseChanged", coalition |-> c, paused |-> paused])
  PROVE  known' = [known EXCEPT !.paused = IF paused THEN @ \cup {c} ELSE @ \ {c}]
BY DEF emit, Follow

LEMMA FollowMerchant ==
  ASSUME FollowerTypeOK, NEW c, NEW m,
         emit([event |-> "MerchantRegistered", coalition |-> c, merchant |-> m])
  PROVE  known' = [known EXCEPT !.merchants = @ \cup {m}]
BY DEF emit, Follow

-----------------------------------------------------------------------------

LEMMA TierLevelNat ==
  ASSUME NEW c \in CoalitionAddr, coalition[c] \in CoalitionAccount, NEW points
  PROVE  tier_level_for(c, points) \in Nat
<1> DEFINE tiers == coalition[c].tier_thresholds
           reached == {i \in 1 .. Len(tiers) : \A j \in 1 .. i : points >= tiers[j]}
<1>1. Len(tiers) \in Nat
  BY DEF CoalitionAccount
<1>2. IsFiniteSet(1 .. Len(tiers))
  BY <1>1, FS_Interval
<1>3. IsFiniteSet(reached)
  BY <1>2, FS_Subset
<1> QED
  BY <1>3, FS_CardinalityType DEF tier_level_for

\* What a receipt does, in the amounts that its event reports.
LEMMA ReceiptAmounts ==
  ASSUME IInv, NEW c \in CoalitionAddr, NEW ma \in MerchantKey, NEW m \in MerchantAddr,
         NEW p \in PassportAddr, NEW b \in BalanceAddr, NEW nonce \in U64,
         NEW amount \in U64, NEW hash \in ReceiptHash,
         RecordReceipt(ma, c, m, p, b, nonce, amount, hash)
  PROVE  LET credit == credit_units(m, b, amount, current_day_epoch)
             delta == streak_delta(c, credit)
         IN
         /\ b = <<p, m>> /\ p[1] = c
         /\ credit \in Nat /\ delta \in Nat
         /\ nonce > balance[b].last_receipt_nonce
         /\ passport[p] # NoAccount /\ passport'[p] # NoAccount
         /\ balance' = [balance EXCEPT ![b] = balance'[b]]
         /\ balance'[b].earned_units = balance[b].earned_units + credit
         /\ balance'[b].redeemed_units = balance[b].redeemed_units
         /\ balance'[b].last_receipt_nonce = nonce
         /\ balance'[b].version # 0
         /\ passport' = [passport EXCEPT ![p] = passport'[p]]
         /\ passport'[p].passport_mint = passport[p].passport_mint
         /\ passport'[p].total_visits = passport[p].total_visits + 1
         /\ passport'[p].streak_points = passport[p].streak_points + delta
         /\ UNCHANGED <<coalition, merchant>>
<1> DEFINE credit == credit_units(m, b, amount, current_day_epoch)
           delta == streak_delta(c, credit)
           fresh == [passport |-> p, merchant |-> m,
                     earned_units |-> balance[b].earned_units + credit,
                     redeemed_units |-> balance[b].redeemed_units,
                     earned_this_epoch |-> earned_this_epoch(b, current_day_epoch) + credit,
                     cap_epoch |-> current_day_epoch, last_receipt_nonce |-> nonce,
                     version |-> STATE_VERSION]
<1>1. /\ balance' = [balance EXCEPT ![b] = fresh]
      /\ passport' = [passport EXCEPT ![p].total_visits = @ + 1, ![p].streak_points = @ + delta]
      /\ balance[b].earned_units + credit \in U64
      /\ passport[p].streak_points + delta \in U64
  BY DEF RecordReceipt, apply_receipt, apply_receipt_accepts, ArithmeticFits
<1> HIDE DEF credit, delta
<1>2. balance'[b] = fresh
  BY <1>1 DEF IInv, TypeOK
<1>3. PICK gain \in Nat, more \in Nat :
        /\ b = <<p, m>> /\ p[1] = c
        /\ nonce > balance[b].last_receipt_nonce
        /\ passport[p] # NoAccount /\ passport'[p] # NoAccount
        /\ passport' = [passport EXCEPT ![p] = passport'[p]]
        /\ passport'[p].passport_mint = passport[p].passport_mint
        /\ passport'[p].total_visits = passport[p].total_visits + 1
        /\ passport'[p].streak_points = passport[p].streak_points + more
        /\ UNCHANGED <<coalition, merchant>>
  BY ReceiptEffect
<1>4. merchant[m] # NoAccount /\ coalition[c] # NoAccount
  BY DEF RecordReceipt, MerchantConstraint, CoalitionConstraint
<1>5. passport[p] \in PassportAccount /\ merchant[m] \in MerchantAccount
  BY <1>3, <1>4 DEF IInv, TypeOK
<1>6. passport'[p].streak_points = passport[p].streak_points + delta
  BY <1>1, <1>5 DEF IInv, TypeOK, PassportAccount
<1>7. current_day_epoch \in Nat
  BY DayInt DEF RecordReceipt, IInv, TypeOK
<1>8. credit \in Nat
  <2>1. merchant[m].earn_bps \in Nat /\ amount \in Nat
    BY <1>5, NumbersAssumption DEF MerchantAccount, U64
  <2>2. amount * merchant[m].earn_bps \in Nat
    BY <2>1
  <2>3. raw_credit(m, amount) \in Nat
    BY <2>2, DivisionNat, NumbersAssumption DEF raw_credit
  <2>4. cap_remaining(m, b, current_day_epoch) \in U64
    BY <1>1 DEF RecordReceipt, apply_receipt, apply_receipt_accepts, ArithmeticFits
  <2>5. cap_remaining(m, b, current_day_epoch) \in Nat
    BY <2>4, NumbersAssumption DEF U64
  <2> QED
    BY <2>3, <2>5 DEF credit, credit_units, Smaller
<1>9. delta \in Nat
  <2>1. coalition[c].max_receipt_units \in Nat
    BY <1>4, NumbersAssumption DEF IInv, TypeOK, CoalitionAccount, U64
  <2> QED
    BY <1>8, <2>1 DEF delta, streak_delta, Smaller
<1>10. balance' = [balance EXCEPT ![b] = balance'[b]]
  BY <1>1, <1>2
<1>11. /\ balance'[b].earned_units = balance[b].earned_units + credit
       /\ balance'[b].redeemed_units = balance[b].redeemed_units
       /\ balance'[b].last_receipt_nonce = nonce
       /\ balance'[b].version # 0
  BY <1>2 DEF STATE_VERSION
<1> QED
  BY <1>3, <1>6, <1>8, <1>9, <1>10, <1>11 DEF credit, delta

-----------------------------------------------------------------------------
(* The picture after each instruction *)

\* What the follower knows besides the accounts.
Followed == FollowerTypeOK /\ UnknownIsZero /\ ReceiptsKnown /\ EventsTellAccounts

LEMMA ReceiptFollowed ==
  ASSUME EventsIInv, NEW c \in CoalitionAddr, NEW ma \in MerchantKey,
         NEW m \in MerchantAddr, NEW p \in PassportAddr, NEW b \in BalanceAddr,
         NEW nonce \in U64, NEW amount \in U64, NEW hash \in ReceiptHash,
         RecordReceipt(ma, c, m, p, b, nonce, amount, hash),
         LET outcome == ReceiptOutcome(c, m, p, b, amount, current_day_epoch) IN
         emit([event |-> "ReceiptRecorded", passport |-> p, merchant |-> m, nonce |-> nonce,
               credit_units |-> outcome.credit_units, streak_delta |-> outcome.streak_delta,
               tier_level |-> outcome.tier_level])
  PROVE  Followed' /\ VisitsAreReceipts'
<1> DEFINE credit == credit_units(m, b, amount, current_day_epoch)
           delta == streak_delta(c, credit)
           tier == tier_level_for(c, passport[p].streak_points + delta)
<1>1. /\ b = <<p, m>> /\ p[1] = c
      /\ credit \in Nat /\ delta \in Nat
      /\ nonce > balance[b].last_receipt_nonce
      /\ passport[p] # NoAccount /\ passport'[p] # NoAccount
      /\ balance' = [balance EXCEPT ![b] = balance'[b]]
      /\ balance'[b].earned_units = balance[b].earned_units + credit
      /\ balance'[b].redeemed_units = balance[b].redeemed_units
      /\ balance'[b].last_receipt_nonce = nonce
      /\ balance'[b].version # 0
      /\ passport' = [passport EXCEPT ![p] = passport'[p]]
      /\ passport'[p].passport_mint = passport[p].passport_mint
      /\ passport'[p].total_visits = passport[p].total_visits + 1
      /\ passport'[p].streak_points = passport[p].streak_points + delta
      /\ UNCHANGED <<coalition, merchant>>
  BY ReceiptAmounts DEF EventsIInv, CreditIInv
<1>2. emit([event |-> "ReceiptRecorded", passport |-> p, merchant |-> m, nonce |-> nonce,
            credit_units |-> credit, streak_delta |-> delta, tier_level |-> tier])
  BY DEF ReceiptOutcome
<1>3. tier \in Nat /\ tier = tier_level_for(p[1], passport'[p].streak_points)
  <2>1. coalition[c] \in CoalitionAccount
    BY DEF RecordReceipt, CoalitionConstraint, EventsIInv, CreditIInv, IInv, TypeOK
  <2> QED
    BY <1>1, <2>1, TierLevelNat
<1> HIDE DEF credit, delta, tier
<1>4. /\ known'.coalitions = known.coalitions
      /\ known'.paused = known.paused
      /\ known'.merchants = known.merchants
      /\ known'.credential = known.credential
      /\ known'.visits = [known.visits EXCEPT ![p] = @ + 1]
      /\ known'.streak = [known.streak EXCEPT ![p] = @ + delta]
      /\ known'.tier = [known.tier EXCEPT ![p] = tier]
      /\ known'.available = [known.available EXCEPT ![b] = @ + credit]
      /\ known'.nonces = [known.nonces EXCEPT ![b] = @ \cup {nonce}]
      /\ known' = [coalitions |-> known'.coalitions, paused |-> known'.paused,
                   merchants |-> known'.merchants, credential |-> known'.credential,
                   visits |-> known'.visits, streak |-> known'.streak,
                   tier |-> known'.tier, available |-> known'.available,
                   nonces |-> known'.nonces]
  <2>1. FollowerTypeOK
    BY DEF EventsIInv
  <2>2. /\ known'.coalitions = known.coalitions
        /\ known'.paused = known.paused
        /\ known'.merchants = known.merchants
        /\ known'.credential = known.credential
        /\ known'.visits = [known.visits EXCEPT ![p] = @ + 1]
        /\ known'.streak = [known.streak EXCEPT ![p] = @ + delta]
        /\ known'.tier = [known.tier EXCEPT ![p] = tier]
        /\ known'.available = [known.available EXCEPT ![<<p, m>>] = @ + credit]
        /\ known'.nonces = [known.nonces EXCEPT ![<<p, m>>] = @ \cup {nonce}]
        /\ known' = [coalitions |-> known'.coalitions, paused |-> known'.paused,
                     merchants |-> known'.merchants, credential |-> known'.credential,
                     visits |-> known'.visits, streak |-> known'.streak,
                     tier |-> known'.tier, available |-> known'.available,
                     nonces |-> known'.nonces]
    BY <1>2, <2>1, FollowReceipt
  <2> QED
    BY <1>1, <2>2
<1>5. /\ known.coalitions \in SUBSET CoalitionAddr /\ known.paused \in SUBSET CoalitionAddr
      /\ known.merchants \in SUBSET MerchantAddr
      /\ known.credential \in [PassportAddr -> MintKey \cup {NoAccount}]
      /\ known.visits \in [PassportAddr -> Nat]
      /\ known.streak \in [PassportAddr -> Nat]
      /\ known.tier \in [PassportAddr -> Nat]
      /\ known.available \in [BalanceAddr -> Int]
      /\ known.nonces \in [BalanceAddr -> SUBSET U64]
  BY DEF EventsIInv, FollowerTypeOK
<1>6. FollowerTypeOK'
  <2>1. /\ known'.visits \in [PassportAddr -> Nat]
        /\ known'.streak \in [PassportAddr -> Nat]
        /\ known'.tier \in [PassportAddr -> Nat]
        /\ known'.available \in [BalanceAddr -> Int]
        /\ known'.nonces \in [BalanceAddr -> SUBSET U64]
    <3>1. known'.visits \in [PassportAddr -> Nat] /\ known'.streak \in [PassportAddr -> Nat]
      BY <1>1, <1>4, <1>5
    <3>2. known'.tier \in [PassportAddr -> Nat]
      BY <1>3, <1>4, <1>5
    <3>3. known'.available \in [BalanceAddr -> Int]
      BY <1>1, <1>4, <1>5
    <3>4. known'.nonces \in [BalanceAddr -> SUBSET U64]
      BY <1>4, <1>5
    <3> QED
      BY <3>1, <3>2, <3>3, <3>4
  <2> QED
    BY <1>4, <1>5, <2>1 DEF FollowerTypeOK
<1>7. /\ \A q \in PassportAddr : q # p =>
           /\ passport'[q] = passport[q]
           /\ known'.visits[q] = known.visits[q]
           /\ known'.streak[q] = known.streak[q]
           /\ known'.tier[q] = known.tier[q]
      /\ known'.visits[p] = known.visits[p] + 1
      /\ known'.streak[p] = known.streak[p] + delta
      /\ known'.tier[p] = tier
  BY <1>1, <1>4, <1>5 DEF EventsIInv, CreditIInv, IInv, TypeOK
<1>8. /\ \A a \in BalanceAddr : a # b =>
           /\ balance'[a] = balance[a]
           /\ known'.available[a] = known.available[a]
           /\ known'.nonces[a] = known.nonces[a]
      /\ known'.available[b] = known.available[b] + credit
      /\ known'.nonces[b] = known.nonces[b] \cup {nonce}
  BY <1>1, <1>4, <1>5 DEF EventsIInv, CreditIInv, IInv, TypeOK
<1>9. UnknownIsZero'
  BY <1>1, <1>7 DEF EventsIInv, UnknownIsZero
<1>10. ReceiptsKnown'
  <2>1. IsFiniteSet(known'.nonces[b])
    BY <1>8, FS_AddElement DEF EventsIInv, ReceiptsKnown
  <2>2. \A n \in known'.nonces[b] : n <= balance'[b].last_receipt_nonce
    <3>1. \A n \in known.nonces[b] : n \in Nat /\ n <= balance[b].last_receipt_nonce
      BY <1>5, NumbersAssumption DEF EventsIInv, ReceiptsKnown, U64
    <3>2. nonce \in Nat /\ balance[b].last_receipt_nonce \in Nat
      BY NumbersAssumption DEF EventsIInv, CreditIInv, IInv, TypeOK, MerchantBalance, U64
    <3> QED
      BY <1>1, <1>8, <3>1, <3>2
  <2> QED
    BY <1>1, <1>8, <2>1, <2>2 DEF EventsIInv, ReceiptsKnown
<1>11. EventsTellAccounts'
  <2>1. /\ known'.coalitions = {d \in CoalitionAddr : coalition'[d] # NoAccount}
        /\ known'.paused = {d \in known'.coalitions : coalition'[d].paused}
        /\ known'.merchants = {n \in MerchantAddr : merchant'[n] # NoAccount}
    BY <1>1, <1>4 DEF EventsIInv, EventsTellAccounts
  <2>2. \A q \in PassportAddr : passport'[q] # NoAccount =>
          /\ known'.credential[q] = passport'[q].passport_mint
          /\ known'.visits[q] = passport'[q].total_visits
          /\ known'.streak[q] = passport'[q].streak_points
          /\ known'.tier[q] = tier_level_for(q[1], passport[q].streak_points)'
    <3>1. ASSUME NEW q \in PassportAddr, passport'[q] # NoAccount, q # p
          PROVE  /\ known'.credential[q] = passport'[q].passport_mint
                 /\ known'.visits[q] = passport'[q].total_visits
                 /\ known'.streak[q] = passport'[q].streak_points
                 /\ known'.tier[q] = tier_level_for(q[1], passport'[q].streak_points)
      BY <1>4, <1>7, <3>1 DEF EventsIInv, EventsTellAccounts
    <3>2. /\ known'.credential[p] = passport'[p].passport_mint
          /\ known'.visits[p] = passport'[p].total_visits
          /\ known'.streak[p] = passport'[p].streak_points
      BY <1>1, <1>4, <1>7 DEF EventsIInv, EventsTellAccounts
    <3>3. known'.tier[p] = tier_level_for(p[1], passport'[p].streak_points)
      BY <1>3, <1>7
    <3>4. \A q \in PassportAddr :
            tier_level_for(q[1], passport[q].streak_points)' =
              tier_level_for(q[1], passport'[q].streak_points)
      BY <1>1 DEF tier_level_for
    <3> QED
      BY <3>1, <3>2, <3>3, <3>4
  <2>3. \A a \in BalanceAddr : known'.available[a] = available_units(a)'
    <3>1. known.available[b] = balance[b].earned_units - balance[b].redeemed_units
      BY DEF EventsIInv, EventsTellAccounts, available_units
    <3>2. balance[b].earned_units \in Int /\ balance[b].redeemed_units \in Int
      BY NumbersAssumption DEF EventsIInv, CreditIInv, IInv, TypeOK, MerchantBalance, U64
    <3>3. available_units(b)' = balance'[b].earned_units - balance'[b].redeemed_units
      BY DEF available_units
    <3>4. known'.available[b] = available_units(b)'
      BY <1>1, <1>8, <3>1, <3>2, <3>3
    <3> QED
      BY <1>8, <3>4 DEF EventsIInv, EventsTellAccounts, available_units
  <2> QED
    BY <2>1, <2>2, <2>3 DEF EventsTellAccounts
<1>12. ASSUME NEW q \in PassportAddr, passport'[q] # NoAccount
       PROVE  passport'[q].total_visits = SumOver(receiptsOf(q)', MerchantsOf(q)')
  <2>1. CASE q # p
    <3>1. \A n \in MerchantAddr : <<q, n>> \in BalanceAddr /\ <<q, n>> # b
      BY <1>1, <2>1 DEF BalanceAddr
    <3>2. receiptsOf(q)' = receiptsOf(q) /\ MerchantsOf(q)' = MerchantsOf(q)
      BY <1>8, <3>1 DEF receiptsOf, MerchantsOf
    <3> QED
      BY <1>7, <1>12, <2>1, <3>2 DEF EventsIInv, VisitsAreReceipts
  <2>2. CASE q = p
    <3> DEFINE f == receiptsOf(p)
               g == receiptsOf(p)'
               S == MerchantsOf(p)
               seen == known.nonces
    <3>1. \A n \in MerchantAddr : <<p, n>> \in BalanceAddr
      BY DEF BalanceAddr
    <3>2. \A n \in MerchantAddr : n # m => balance'[<<p, n>>] = balance[<<p, n>>]
                                           /\ known'.nonces[<<p, n>>] = seen[<<p, n>>]
      BY <1>1, <1>8, <3>1
    <3>3. MerchantsOf(p)' = S \cup {m}
      BY <1>1, <3>2 DEF MerchantsOf
    <3>4. IsFiniteSet(S)
      BY DEF EventsIInv, CreditIInv, BalancesFinite
    <3>5. /\ \A n \in MerchantAddr : f[n] = Cardinality(seen[<<p, n>>])
          /\ \A n \in MerchantAddr : f[n] \in Nat
      <4>1. \A n \in MerchantAddr : IsFiniteSet(seen[<<p, n>>])
        BY <3>1 DEF EventsIInv, ReceiptsKnown
      <4>2. \A n \in MerchantAddr : Cardinality(seen[<<p, n>>]) \in Nat
        BY <4>1, FS_CardinalityType
      <4> QED
        BY <4>2 DEF receiptsOf
    <3>14. \A n \in MerchantAddr : f[n] \in Int
      <4> SUFFICES ASSUME NEW n \in MerchantAddr PROVE f[n] \in Int
        OBVIOUS
      <4>1. f[n] \in Nat
        BY <3>5
      <4> HIDE DEF f
      <4> QED
        BY <4>1
    <3>6. \A n \in MerchantAddr : n # m => g[n] = f[n]
      BY <3>2 DEF receiptsOf
    <3>7. g[m] = f[m] + 1
      <4>1. nonce \notin seen[b]
        <5>1. nonce \in Nat /\ balance[b].last_receipt_nonce \in Nat
          BY NumbersAssumption DEF EventsIInv, CreditIInv, IInv, TypeOK, MerchantBalance, U64
        <5> QED
          BY <1>1, <5>1 DEF EventsIInv, ReceiptsKnown
      <4>2. IsFiniteSet(seen[b])
        BY DEF EventsIInv, ReceiptsKnown
      <4>3. Cardinality(seen[b] \cup {nonce}) = Cardinality(seen[b]) + 1
        BY <4>1, <4>2, FS_AddElement
      <4>4. g[m] = Cardinality(known'.nonces[b])
        BY <1>1 DEF receiptsOf
      <4> QED
        BY <1>1, <1>8, <3>5, <4>3, <4>4
    <3>8. m \notin S => f[m] = 0
      <4>1. m \notin S => seen[b] = {}
        BY <1>1 DEF MerchantsOf, EventsIInv, ReceiptsKnown
      <4> QED
        BY <1>1, <3>5, <4>1, FS_EmptySet
    <3>9. S \subseteq MerchantAddr
      BY DEF MerchantsOf
    <3> HIDE DEF f, g, S, seen
    <3>10. /\ SumOver(f, S) \in Int
           /\ SumOver(g, S \cup {m}) = SumOver(f, S) + (g[m] - f[m])
      <4>2. g[m] \in Int
        BY <3>7, <3>14
      <4>3. \A n \in MerchantAddr : g[n] \in Int
        BY <3>6, <3>14, <4>2
      <4>4. S \cup {m} \subseteq MerchantAddr
        BY <3>9
      <4>5. /\ \A x \in S \cup {m} : f[x] \in Int /\ g[x] \in Int
            /\ \A x \in S : x # m => f[x] = g[x]
        BY <3>6, <3>14, <4>3, <4>4
      <4> QED
        BY <3>4, <3>8, <4>5, SumPut
    <3>11. f[m] \in Nat
      BY <3>5
    <3>12. passport[p].total_visits = SumOver(f, S)
      BY <1>1 DEF EventsIInv, VisitsAreReceipts, f, S
    <3>13. passport'[p].total_visits = SumOver(g, S \cup {m})
      BY <1>1, <3>7, <3>10, <3>11, <3>12
    <3> QED
      BY <2>2, <3>3, <3>13 DEF g
  <2> QED
    BY <2>1, <2>2
<1>13. VisitsAreReceipts'
  BY <1>12 DEF VisitsAreReceipts
<1> QED
  BY <1>6, <1>9, <1>10, <1>11, <1>13 DEF Followed
\* The sums only look at passports, nonces and the versions of balances.
LEMMA VisitsUntouched ==
  ASSUME NEW q \in PassportAddr, known'.nonces = known.nonces,
         \A b \in BalanceAddr : balance'[b].version = balance[b].version
  PROVE  SumOver(receiptsOf(q), MerchantsOf(q))' = SumOver(receiptsOf(q), MerchantsOf(q))
<1>1. receiptsOf(q)' = receiptsOf(q) /\ MerchantsOf(q)' = MerchantsOf(q)
  BY DEF receiptsOf, MerchantsOf, BalanceAddr
<1> QED
  BY <1>1

LEMMA RedemptionFollowed ==
  ASSUME EventsIInv, NEW h \in Customer, NEW c \in CoalitionAddr, NEW m \in MerchantAddr,
         NEW p \in PassportAddr, NEW b \in BalanceAddr, NEW units \in U64,
         Redeem(h, c, m, p, b, units),
         emit([event |-> "Redeemed", passport |-> p, merchant |-> m,
               redeemed_units |-> units, remaining_units |-> remaining_units(b, units)])
  PROVE  Followed' /\ VisitsAreReceipts'
<1> DEFINE left == remaining_units(b, units)
<1>1. /\ b = <<p, m>>
      /\ balance' = [balance EXCEPT ![b].redeemed_units = @ + units]
      /\ UNCHANGED <<coalition, merchant, passport>>
  BY DEF Redeem, RedeemBalanceConstraint, apply_redemption, apply_redemption_accepts
<1>2. FollowerTypeOK
  BY DEF EventsIInv
<1>3. known' = [known EXCEPT !.available[b] = left]
  BY <1>1, <1>2, FollowRedemption
<1>4. /\ balance[b] \in MerchantBalance
      /\ balance'[b] = [balance[b] EXCEPT !.redeemed_units = @ + units]
      /\ \A a \in BalanceAddr : a # b => balance'[a] = balance[a]
  BY <1>1 DEF EventsIInv, CreditIInv, IInv, TypeOK
<1>5. \A a \in BalanceAddr :
        /\ balance'[a].version = balance[a].version
        /\ balance'[a].last_receipt_nonce = balance[a].last_receipt_nonce
  BY <1>4 DEF MerchantBalance
<1>6. left \in Int /\ left = available_units(b)'
  <2>1. /\ balance[b].earned_units \in Nat /\ balance[b].redeemed_units \in Nat
        /\ units \in Nat
    BY <1>4, NumbersAssumption DEF MerchantBalance, U64
  <2>2. /\ balance'[b].earned_units = balance[b].earned_units
        /\ balance'[b].redeemed_units = balance[b].redeemed_units + units
    BY <1>4 DEF MerchantBalance
  <2> QED
    BY <2>1, <2>2 DEF remaining_units, available_units
<1> HIDE DEF left
<1>7. /\ known'.available = [known.available EXCEPT ![b] = left]
      /\ known'.coalitions = known.coalitions /\ known'.paused = known.paused
      /\ known'.merchants = known.merchants /\ known'.credential = known.credential
      /\ known'.visits = known.visits /\ known'.streak = known.streak
      /\ known'.tier = known.tier /\ known'.nonces = known.nonces
  BY <1>2, <1>3 DEF FollowerTypeOK
<1>8. FollowerTypeOK'
  <2>1. known'.available \in [BalanceAddr -> Int]
    BY <1>2, <1>6, <1>7 DEF FollowerTypeOK
  <2>2. known' = [known EXCEPT !.available = known'.available]
    BY <1>2, <1>3 DEF FollowerTypeOK
  <2> QED
    BY <1>2, <2>1, <2>2 DEF FollowerTypeOK
<1>9. UnknownIsZero'
  BY <1>1, <1>7 DEF EventsIInv, UnknownIsZero
<1>10. ReceiptsKnown'
  BY <1>5, <1>7 DEF EventsIInv, ReceiptsKnown
<1>11. EventsTellAccounts'
  <2>1. \A a \in BalanceAddr : known'.available[a] = available_units(a)'
    <3>1. known'.available[b] = available_units(b)'
      BY <1>2, <1>6, <1>7 DEF FollowerTypeOK
    <3>2. \A a \in BalanceAddr : a # b => known'.available[a] = known.available[a]
      BY <1>2, <1>7 DEF FollowerTypeOK
    <3> QED
      BY <1>4, <3>1, <3>2 DEF EventsIInv, EventsTellAccounts, available_units
  <2>2. UNCHANGED <<coalition, merchant, passport>>
    BY <1>1
  <2>3. \A q \in PassportAddr :
          tier_level_for(q[1], passport[q].streak_points)' =
            tier_level_for(q[1], passport[q].streak_points)
    BY <2>2 DEF tier_level_for
  <2>4. /\ (known.coalitions = {d \in CoalitionAddr : coalition[d] # NoAccount})'
        /\ (known.paused = {d \in known.coalitions : coalition[d].paused})'
        /\ (known.merchants = {n \in MerchantAddr : merchant[n] # NoAccount})'
    BY <1>7, <2>2 DEF EventsIInv, EventsTellAccounts
  <2>5. \A q \in PassportAddr : (passport[q] # NoAccount =>
          /\ known.credential[q] = passport[q].passport_mint
          /\ known.visits[q] = passport[q].total_visits
          /\ known.streak[q] = passport[q].streak_points
          /\ known.tier[q] = tier_level_for(q[1], passport[q].streak_points))'
    BY <1>7, <2>2, <2>3 DEF EventsIInv, EventsTellAccounts
  <2> QED
    BY <2>1, <2>4, <2>5 DEF EventsTellAccounts
<1>12. VisitsAreReceipts'
  BY <1>1, <1>5, <1>7, VisitsUntouched DEF EventsIInv, VisitsAreReceipts
<1> QED
  BY <1>8, <1>9, <1>10, <1>11, <1>12 DEF Followed

\* A passport with no points is on no tier: the first threshold is positive.
LEMMA NoPointsNoTier ==
  ASSUME TypeOK, ConfigAccepted, NEW c \in CoalitionAddr, coalition[c] # NoAccount
  PROVE  tier_level_for(c, 0) = 0
<1> DEFINE tiers == coalition[c].tier_thresholds
           reached == {i \in 1 .. Len(tiers) : \A j \in 1 .. i : 0 >= tiers[j]}
<1>1. /\ tiers \in Seq(Nat) /\ tiers[1] > 0 /\ Len(tiers) >= 1
  <2>1. PICK args \in CoalitionArgs :
          /\ validate_coalition_config(args.max_receipt_units, args.tier_thresholds)
          /\ coalition[c].tier_thresholds = args.tier_thresholds
    BY DEF ConfigAccepted
  <2>2. tiers \in Seq(Nat)
    BY <2>1, ArgsAssumption, NumbersAssumption DEF U64
  <2> QED
    BY <2>1, <2>2, NumbersAssumption DEF validate_coalition_config
<1>2. reached = {}
  <2> SUFFICES ASSUME NEW i \in reached PROVE FALSE
    OBVIOUS
  <2>1. 1 \in 1 .. i /\ i \in 1 .. Len(tiers)
    BY <1>1
  <2>2. 0 >= tiers[1]
    BY <2>1
  <2>3. tiers[1] \in Nat
    BY <1>1
  <2> QED
    BY <1>1, <2>2, <2>3
<1> QED
  BY <1>2, FS_EmptySet DEF tier_level_for

LEMMA PassportFollowed ==
  ASSUME EventsIInv, NEW h \in Customer, NEW c \in CoalitionAddr, NEW k \in MintKey,
         CreatePassport(h, c, k),
         emit([event |-> "PassportCreated", passport |-> <<c, h>>, passport_mint |-> k])
  PROVE  Followed' /\ VisitsAreReceipts'
<1> DEFINE p == <<c, h>>
<1>1. /\ p \in PassportAddr
      /\ coalition[c] # NoAccount
      /\ passport[p] = NoAccount
      /\ passport'[p].passport_mint = k
      /\ passport'[p].total_visits = 0 /\ passport'[p].streak_points = 0
      /\ \A q \in PassportAddr : q # p => passport'[q] = passport[q]
      /\ UNCHANGED <<coalition, merchant, balance>>
  BY DEF CreatePassport, CoalitionConstraint, PassportAddr, EventsIInv, CreditIInv, IInv, TypeOK
<1>2. FollowerTypeOK
  BY DEF EventsIInv
<1>3. known' = [known EXCEPT !.credential[p] = k]
  BY <1>1, <1>2, FollowPassport
<1>4. p[1] = c
  OBVIOUS
<1> HIDE DEF p
<1>5. /\ known'.credential = [known.credential EXCEPT ![p] = k]
      /\ known'.coalitions = known.coalitions /\ known'.paused = known.paused
      /\ known'.merchants = known.merchants /\ known'.available = known.available
      /\ known'.visits = known.visits /\ known'.streak = known.streak
      /\ known'.tier = known.tier /\ known'.nonces = known.nonces
  BY <1>2, <1>3 DEF FollowerTypeOK
<1>6. FollowerTypeOK'
  <2>1. known'.credential \in [PassportAddr -> MintKey \cup {NoAccount}]
    BY <1>2, <1>5 DEF FollowerTypeOK
  <2>2. known' = [known EXCEPT !.credential = known'.credential]
    BY <1>2, <1>3 DEF FollowerTypeOK
  <2> QED
    BY <1>2, <2>1, <2>2 DEF FollowerTypeOK
<1>7. UnknownIsZero'
  BY <1>1, <1>5 DEF EventsIInv, UnknownIsZero
<1>8. ReceiptsKnown'
  BY <1>1, <1>5 DEF EventsIInv, ReceiptsKnown
<1>9. known.visits[p] = 0 /\ known.streak[p] = 0 /\ known.tier[p] = 0
  BY <1>1 DEF EventsIInv, UnknownIsZero
<1>10. EventsTellAccounts'
  <2>1. ASSUME NEW q \in PassportAddr, passport'[q] # NoAccount
        PROVE  /\ known'.credential[q] = passport'[q].passport_mint
               /\ known'.visits[q] = passport'[q].total_visits
               /\ known'.streak[q] = passport'[q].streak_points
               /\ known'.tier[q] = tier_level_for(q[1], passport[q].streak_points)'
    <3>1. CASE q = p
      <4>1. known'.credential[p] = k
        BY <1>1, <1>2, <1>5 DEF FollowerTypeOK
      <4>2. tier_level_for(c, 0) = 0
        BY <1>1, NoPointsNoTier DEF EventsIInv, CreditIInv, IInv
      <4>3. tier_level_for(q[1], passport[q].streak_points)' = tier_level_for(c, 0)
        BY <1>1, <1>4, <3>1 DEF tier_level_for
      <4> QED
        BY <1>1, <1>5, <1>9, <3>1, <4>1, <4>2, <4>3
    <3>2. CASE q # p
      <4>1. known'.credential[q] = known.credential[q] /\ passport'[q] = passport[q]
        BY <1>1, <1>2, <1>5, <3>2 DEF FollowerTypeOK
      <4>2. tier_level_for(q[1], passport[q].streak_points)' =
              tier_level_for(q[1], passport[q].streak_points)
        BY <1>1, <4>1 DEF tier_level_for
      <4> QED
        BY <1>5, <2>1, <4>1, <4>2 DEF EventsIInv, EventsTellAccounts
    <3> QED
      BY <3>1, <3>2
  <2> QED
    BY <1>1, <1>5, <2>1 DEF EventsIInv, EventsTellAccounts, available_units
<1>11. ASSUME NEW q \in PassportAddr, passport'[q] # NoAccount
       PROVE  passport'[q].total_visits = SumOver(receiptsOf(q)', MerchantsOf(q)')
  <2>1. CASE q = p
    <3>1. MerchantsOf(p)' = {}
      BY <1>1 DEF MerchantsOf, BalanceAddr, EventsIInv, CreditIInv, IInv, RelationshipsBound
    <3> QED
      BY <1>1, <2>1, <3>1, SumEmpty
  <2>2. CASE q # p
    BY <1>1, <1>5, <1>11, <2>2, VisitsUntouched DEF EventsIInv, VisitsAreReceipts
  <2> QED
    BY <2>1, <2>2
<1>12. VisitsAreReceipts'
  BY <1>11 DEF VisitsAreReceipts
<1> QED
  BY <1>6, <1>7, <1>8, <1>10, <1>12 DEF Followed

\* What a step leaves alone stays known: the coalitions and merchants are the
\* caller's business.
LEMMA AccountsStayKnown ==
  ASSUME EventsIInv, UNCHANGED <<passport, balance>>,
         \A c \in CoalitionAddr : coalition[c] # NoAccount =>
           coalition'[c].tier_thresholds = coalition[c].tier_thresholds,
         known' = [known EXCEPT !.coalitions = known'.coalitions, !.paused = known'.paused,
                                !.merchants = known'.merchants],
         known'.coalitions = {c \in CoalitionAddr : coalition'[c] # NoAccount},
         known'.paused = {c \in known'.coalitions : coalition'[c].paused},
         known'.merchants = {m \in MerchantAddr : merchant'[m] # NoAccount}
  PROVE  Followed' /\ VisitsAreReceipts'
<1>1. FollowerTypeOK
  BY DEF EventsIInv
<1>2. /\ known'.credential = known.credential /\ known'.available = known.available
      /\ known'.visits = known.visits /\ known'.streak = known.streak
      /\ known'.tier = known.tier /\ known'.nonces = known.nonces
  BY <1>1 DEF FollowerTypeOK
<1>3. FollowerTypeOK'
  <2>1. known' = [coalitions |-> known'.coalitions, paused |-> known'.paused,
                  merchants |-> known'.merchants, credential |-> known.credential,
                  visits |-> known.visits, streak |-> known.streak, tier |-> known.tier,
                  available |-> known.available, nonces |-> known.nonces]
    BY <1>1 DEF FollowerTypeOK
  <2>2. /\ known'.coalitions \in SUBSET CoalitionAddr
        /\ known'.paused \in SUBSET CoalitionAddr
        /\ known'.merchants \in SUBSET MerchantAddr
    OBVIOUS
  <2>3. /\ known.credential \in [PassportAddr -> MintKey \cup {NoAccount}]
        /\ known.visits \in [PassportAddr -> Nat]
        /\ known.streak \in [PassportAddr -> Nat]
        /\ known.tier \in [PassportAddr -> Nat]
        /\ known.available \in [BalanceAddr -> Int]
        /\ known.nonces \in [BalanceAddr -> SUBSET U64]
    BY <1>1 DEF FollowerTypeOK
  <2>4. known' \in [coalitions : SUBSET CoalitionAddr, paused : SUBSET CoalitionAddr,
             merchants : SUBSET MerchantAddr,
             credential : [PassportAddr -> MintKey \cup {NoAccount}],
             visits : [PassportAddr -> Nat], streak : [PassportAddr -> Nat],
             tier : [PassportAddr -> Nat],
             available : [BalanceAddr -> Int],
             nonces : [BalanceAddr -> SUBSET U64]]
    BY <2>1, <2>2, <2>3
  <2> QED
    BY <2>4 DEF FollowerTypeOK
<1>4. UnknownIsZero' /\ ReceiptsKnown'
  <2>1. UnknownIsZero'
    BY <1>2 DEF EventsIInv, UnknownIsZero
  <2>2. ReceiptsKnown'
    BY <1>2 DEF EventsIInv, ReceiptsKnown
  <2> QED
    BY <2>1, <2>2
<1>5. \A q \in PassportAddr : passport[q] # NoAccount =>
        tier_level_for(q[1], passport[q].streak_points)' =
          tier_level_for(q[1], passport[q].streak_points)
  <2> SUFFICES ASSUME NEW q \in PassportAddr, passport[q] # NoAccount
               PROVE  tier_level_for(q[1], passport[q].streak_points)' =
                        tier_level_for(q[1], passport[q].streak_points)
    OBVIOUS
  <2>1. coalition[q[1]] # NoAccount /\ q[1] \in CoalitionAddr
    BY DEF EventsIInv, CreditIInv, IInv, RelationshipsBound, PassportAddr
  <2>2. coalition'[q[1]].tier_thresholds = coalition[q[1]].tier_thresholds
    BY <2>1
  <2> QED
    BY <2>2 DEF tier_level_for
<1>6. EventsTellAccounts'
  <2>1. /\ (known.coalitions = {d \in CoalitionAddr : coalition[d] # NoAccount})'
        /\ (known.paused = {d \in known.coalitions : coalition[d].paused})'
        /\ (known.merchants = {n \in MerchantAddr : merchant[n] # NoAccount})'
    OBVIOUS
  <2>2. \A q \in PassportAddr : (passport[q] # NoAccount =>
          /\ known.credential[q] = passport[q].passport_mint
          /\ known.visits[q] = passport[q].total_visits
          /\ known.streak[q] = passport[q].streak_points
          /\ known.tier[q] = tier_level_for(q[1], passport[q].streak_points))'
    <3>1. /\ UNCHANGED passport
          /\ known'.credential = known.credential /\ known'.visits = known.visits
          /\ known'.streak = known.streak /\ known'.tier = known.tier
      BY <1>2
    <3>2. \A q \in PassportAddr : passport[q] # NoAccount =>
            /\ known.credential[q] = passport[q].passport_mint
            /\ known.visits[q] = passport[q].total_visits
            /\ known.streak[q] = passport[q].streak_points
            /\ known.tier[q] = tier_level_for(q[1], passport[q].streak_points)
      BY DEF EventsIInv, EventsTellAccounts
    <3>3. ASSUME NEW q \in PassportAddr, passport'[q] # NoAccount
          PROVE  /\ known'.credential[q] = passport'[q].passport_mint
                 /\ known'.visits[q] = passport'[q].total_visits
                 /\ known'.streak[q] = passport'[q].streak_points
                 /\ known'.tier[q] = tier_level_for(q[1], passport[q].streak_points)'
      <4>1. passport[q] # NoAccount
        BY <3>1, <3>3
      <4>2. known.tier[q] = tier_level_for(q[1], passport[q].streak_points)'
        BY <1>5, <3>2, <4>1
      <4> QED
        BY <3>1, <3>2, <4>1, <4>2
    <3> QED
      BY <3>3
  <2>3. \A a \in BalanceAddr : (known.available[a] = available_units(a))'
    <3>1. UNCHANGED balance /\ known'.available = known.available
      BY <1>2
    <3>2. \A a \in BalanceAddr : known.available[a] = available_units(a)
      BY DEF EventsIInv, EventsTellAccounts
    <3> QED
      BY <3>1, <3>2 DEF available_units
  <2> QED
    BY <2>1, <2>2, <2>3 DEF EventsTellAccounts
<1>7. VisitsAreReceipts'
  BY <1>2, VisitsUntouched DEF EventsIInv, VisitsAreReceipts
<1> QED
  BY <1>3, <1>4, <1>6, <1>7 DEF Followed

\* The three sets that the follower keeps of coalitions and merchants.
LEMMA SetsKnown ==
  ASSUME EventsIInv
  PROVE  /\ known.coalitions = {c \in CoalitionAddr : coalition[c] # NoAccount}
         /\ known.paused = {c \in CoalitionAddr : coalition[c] # NoAccount /\ coalition[c].paused}
         /\ known.merchants = {m \in MerchantAddr : merchant[m] # NoAccount}
BY DEF EventsIInv, EventsTellAccounts

LEMMA InitializeFollowed ==
  ASSUME EventsIInv, TypeOK', NEW a \in Authority, NEW args \in CoalitionArgs,
         InitializeCoalition(a, args),
         emit([event |-> "CoalitionInitialized", coalition |-> a])
  PROVE  Followed' /\ VisitsAreReceipts'
<1>1. a \in CoalitionAddr
  BY DEF CoalitionAddr
<1>2. /\ coalition[a] = NoAccount
      /\ coalition'[a] = [authority |-> a, max_receipt_units |-> args.max_receipt_units,
                          tier_thresholds |-> args.tier_thresholds, paused |-> FALSE]
      /\ \A c \in CoalitionAddr : c # a => coalition'[c] = coalition[c]
      /\ UNCHANGED <<merchant, passport, balance>>
  BY <1>1 DEF InitializeCoalition, EventsIInv, CreditIInv, IInv, TypeOK
<1>3. coalition'[a] # NoAccount /\ ~coalition'[a].paused
  <2>1. coalition'[a] \in CoalitionAccount
    <3>1. args \in [max_receipt_units : U64, tier_thresholds : Seq(U64)]
      BY ArgsAssumption
    <3> QED
      BY <1>1, <1>2, <3>1 DEF CoalitionAccount
  <2>2. coalition'[a] # NoAccount
    BY <2>1, NoAccountAssumption
  <2>3. ~coalition'[a].paused
    BY <1>2
  <2> QED
    BY <2>2, <2>3
<1>4. /\ FollowerTypeOK
      /\ known' = [known EXCEPT !.coalitions = @ \cup {a}]
  BY FollowCoalition DEF EventsIInv
<1>5. /\ known'.coalitions = known.coalitions \cup {a}
      /\ known'.paused = known.paused
      /\ known'.merchants = known.merchants
      /\ known' = [known EXCEPT !.coalitions = known'.coalitions, !.paused = known'.paused,
                                !.merchants = known'.merchants]
  BY <1>4 DEF FollowerTypeOK
<1>6. /\ known'.coalitions = {c \in CoalitionAddr : coalition'[c] # NoAccount}
      /\ known'.paused = {c \in known'.coalitions : coalition'[c].paused}
      /\ known'.merchants = {m \in MerchantAddr : merchant'[m] # NoAccount}
  BY <1>1, <1>2, <1>3, <1>5, SetsKnown
<1>7. \A c \in CoalitionAddr : coalition[c] # NoAccount =>
        coalition'[c].tier_thresholds = coalition[c].tier_thresholds
  BY <1>2
<1> QED
  BY <1>2, <1>5, <1>6, <1>7, AccountsStayKnown

LEMMA RegisterFollowed ==
  ASSUME EventsIInv, NEW a \in Authority, NEW c \in CoalitionAddr, NEW ma \in MerchantKey,
         NEW args \in MerchantArgs, RegisterMerchant(a, c, ma, args),
         emit([event |-> "MerchantRegistered", coalition |-> c, merchant |-> <<c, ma>>])
  PROVE  Followed' /\ VisitsAreReceipts'
<1> DEFINE n == <<c, ma>>
<1>1. /\ n \in MerchantAddr
      /\ merchant'[n] = [coalition |-> c, authority |-> ma, earn_bps |-> args.earn_bps,
                         daily_cap |-> args.daily_cap, active |-> TRUE]
      /\ \A m \in MerchantAddr : m # n => merchant'[m] = merchant[m]
      /\ UNCHANGED <<coalition, passport, balance>>
  BY DEF RegisterMerchant, MerchantAddr, EventsIInv, CreditIInv, IInv, TypeOK
<1>2. merchant'[n] # NoAccount
  <2>1. args \in [earn_bps : U64, daily_cap : U64]
    BY ArgsAssumption
  <2>2. merchant'[n] \in MerchantAccount
    BY <1>1, <2>1 DEF MerchantAccount
  <2> QED
    BY <2>2, NoAccountAssumption
<1>3. /\ FollowerTypeOK
      /\ known' = [known EXCEPT !.merchants = @ \cup {n}]
  BY FollowMerchant DEF EventsIInv
<1> HIDE DEF n
<1>4. /\ known'.coalitions = known.coalitions
      /\ known'.paused = known.paused
      /\ known'.merchants = known.merchants \cup {n}
      /\ known' = [known EXCEPT !.coalitions = known'.coalitions, !.paused = known'.paused,
                                !.merchants = known'.merchants]
  BY <1>3 DEF FollowerTypeOK
<1>5. /\ known'.coalitions = {d \in CoalitionAddr : coalition'[d] # NoAccount}
      /\ known'.paused = {d \in known'.coalitions : coalition'[d].paused}
      /\ known'.merchants = {m \in MerchantAddr : merchant'[m] # NoAccount}
  BY <1>1, <1>2, <1>4, SetsKnown
<1> QED
  BY <1>1, <1>4, <1>5, AccountsStayKnown

LEMMA PauseFollowed ==
  ASSUME EventsIInv, TypeOK', NEW a \in Authority, NEW c \in CoalitionAddr,
         NEW paused \in BOOLEAN,
         GovernedBy(c, a), set_coalition_paused(c, paused),
         UNCHANGED <<merchant, passport, balance>>,
         emit([event |-> "CoalitionPauseChanged", coalition |-> c, paused |-> paused])
  PROVE  Followed' /\ VisitsAreReceipts'
<1>1. /\ coalition[c] # NoAccount
      /\ coalition' = [coalition EXCEPT ![c].paused = paused]
  BY DEF GovernedBy, set_coalition_paused
<1>2. coalition[c] \in CoalitionAccount
  BY <1>1 DEF EventsIInv, CreditIInv, IInv, TypeOK
<1>3. /\ coalition'[c] \in CoalitionAccount
      /\ coalition'[c].paused = paused
      /\ coalition'[c].tier_thresholds = coalition[c].tier_thresholds
      /\ \A d \in CoalitionAddr : d # c => coalition'[d] = coalition[d]
  BY <1>1, <1>2 DEF EventsIInv, CreditIInv, IInv, TypeOK, CoalitionAccount
<1>4. coalition'[c] # NoAccount
  BY <1>3, NoAccountAssumption
<1>5. /\ FollowerTypeOK
      /\ known' = [known EXCEPT !.paused = IF paused THEN @ \cup {c} ELSE @ \ {c}]
  BY FollowPause DEF EventsIInv
<1>6. /\ known'.coalitions = known.coalitions
      /\ known'.paused = IF paused THEN known.paused \cup {c} ELSE known.paused \ {c}
      /\ known'.merchants = known.merchants
      /\ known' = [known EXCEPT !.coalitions = known'.coalitions, !.paused = known'.paused,
                                !.merchants = known'.merchants]
  BY <1>5 DEF FollowerTypeOK
<1>7. known'.coalitions = {d \in CoalitionAddr : coalition'[d] # NoAccount}
  BY <1>1, <1>3, <1>4, <1>6, SetsKnown
<1>8. known'.paused = {d \in known'.coalitions : coalition'[d].paused}
  <2>1. CASE paused
    BY <1>1, <1>3, <1>4, <1>6, <1>7, <2>1, SetsKnown
  <2>2. CASE ~paused
    BY <1>1, <1>3, <1>4, <1>6, <1>7, <2>2, SetsKnown
  <2> QED
    BY <2>1, <2>2
<1>9. known'.merchants = {m \in MerchantAddr : merchant'[m] # NoAccount}
  BY <1>6, SetsKnown
<1>10. \A d \in CoalitionAddr : coalition[d] # NoAccount =>
         coalition'[d].tier_thresholds = coalition[d].tier_thresholds
  BY <1>3
<1> QED
  BY <1>6, <1>7, <1>8, <1>9, <1>10, AccountsStayKnown

LEMMA UntouchedFollowed ==
  ASSUME EventsIInv, UNCHANGED <<coalition, merchant, passport, balance, known>>
  PROVE  Followed' /\ VisitsAreReceipts'
<1>1. /\ known'.coalitions = {d \in CoalitionAddr : coalition'[d] # NoAccount}
      /\ known'.paused = {d \in known'.coalitions : coalition'[d].paused}
      /\ known'.merchants = {m \in MerchantAddr : merchant'[m] # NoAccount}
  BY SetsKnown
<1>2. known' = [known EXCEPT !.coalitions = known'.coalitions, !.paused = known'.paused,
                             !.merchants = known'.merchants]
  BY DEF EventsIInv, FollowerTypeOK
<1>3. \A d \in CoalitionAddr : coalition[d] # NoAccount =>
        coalition'[d].tier_thresholds = coalition[d].tier_thresholds
  OBVIOUS
<1> QED
  BY <1>1, <1>2, <1>3, AccountsStayKnown

-----------------------------------------------------------------------------

\* An event never comes without its instruction.
LEMMA EventsAreSteps == [EventsNext]_eventVars => [Next]_vars
<1>1. ConfigureEvents => Configure
  BY DEF ConfigureEvents, Configure
<1>2. CreatePassportEvent => CreateAnyPassport
  BY DEF CreatePassportEvent, CreateAnyPassport
<1>3. RecordReceiptEvent => RecordAnyReceipt
  BY DEF RecordReceiptEvent, RecordAnyReceipt
<1>4. RedeemEvent => RedeemAny
  BY DEF RedeemEvent, RedeemAny
<1>5. UNCHANGED eventVars => UNCHANGED vars
  BY DEF eventVars, vars
<1> QED
  BY <1>1, <1>2, <1>3, <1>4, <1>5 DEF EventsNext, Next

LEMMA InitEvents == EventsInit => EventsIInv
<1> SUFFICES ASSUME EventsInit PROVE EventsIInv
  OBVIOUS
<1>1. CreditIInv /\ ConfigAccepted
  BY InitCreditIInv, InitConfigAccepted DEF EventsInit
<1>2. FollowerTypeOK
  BY NoAccountAssumption DEF EventsInit, FollowerTypeOK
<1>3. UnknownIsZero
  BY DEF EventsInit, UnknownIsZero
<1>4. ReceiptsKnown
  BY FS_EmptySet DEF EventsInit, ReceiptsKnown
<1>5. EventsTellAccounts
  BY DEF EventsInit, Init, EventsTellAccounts, available_units, EmptyBalance
<1>6. VisitsAreReceipts
  BY DEF EventsInit, Init, VisitsAreReceipts
<1> QED
  BY <1>1, <1>2, <1>3, <1>4, <1>5, <1>6 DEF EventsIInv

LEMMA NextEvents == EventsIInv /\ [EventsNext]_eventVars => EventsIInv'
<1> SUFFICES ASSUME EventsIInv, [EventsNext]_eventVars PROVE EventsIInv'
  OBVIOUS
<1>1. CreditIInv' /\ ConfigAccepted'
  BY EventsAreSteps, NextCreditIInv, NextConfigAccepted DEF EventsIInv, CreditIInv, IInv
<1>2. TypeOK'
  BY <1>1 DEF CreditIInv, IInv
<1>3. ASSUME Followed' /\ VisitsAreReceipts' PROVE EventsIInv'
  BY <1>1, <1>3 DEF Followed, EventsIInv
<1>4. CASE ConfigureEvents
  <2>1. ASSUME NEW a \in Authority, NEW args \in CoalitionArgs,
               InitializeCoalition(a, args),
               emit([event |-> "CoalitionInitialized", coalition |-> a])
        PROVE  Followed' /\ VisitsAreReceipts'
    BY <1>2, <2>1, InitializeFollowed
  <2>2. ASSUME NEW a \in Authority, NEW c \in CoalitionAddr, NEW ma \in MerchantKey,
               NEW args \in MerchantArgs, RegisterMerchant(a, c, ma, args),
               emit([event |-> "MerchantRegistered", coalition |-> c, merchant |-> <<c, ma>>])
        PROVE  Followed' /\ VisitsAreReceipts'
    BY <2>2, RegisterFollowed
  <2>3. ASSUME NEW a \in Authority, NEW c \in CoalitionAddr, PauseCoalition(a, c),
               emit([event |-> "CoalitionPauseChanged", coalition |-> c, paused |-> TRUE])
        PROVE  Followed' /\ VisitsAreReceipts'
    <3>1. /\ GovernedBy(c, a) /\ set_coalition_paused(c, TRUE)
          /\ UNCHANGED <<merchant, passport, balance>>
      BY <2>3 DEF PauseCoalition
    <3> QED
      BY <1>2, <2>3, <3>1, PauseFollowed
  <2>4. ASSUME NEW a \in Authority, NEW c \in CoalitionAddr, UnpauseCoalition(a, c),
               emit([event |-> "CoalitionPauseChanged", coalition |-> c, paused |-> FALSE])
        PROVE  Followed' /\ VisitsAreReceipts'
    <3>1. /\ GovernedBy(c, a) /\ set_coalition_paused(c, FALSE)
          /\ UNCHANGED <<merchant, passport, balance>>
      BY <2>4 DEF UnpauseCoalition
    <3> QED
      BY <1>2, <2>4, <3>1, PauseFollowed
  <2> QED
    BY <1>3, <1>4, <2>1, <2>2, <2>3, <2>4 DEF ConfigureEvents
<1>5. CASE CreatePassportEvent
  BY <1>3, <1>5, PassportFollowed DEF CreatePassportEvent
<1>6. CASE RecordReceiptEvent
  BY <1>3, <1>6, ReceiptFollowed DEF RecordReceiptEvent
<1>7. CASE RedeemEvent
  BY <1>3, <1>7, RedemptionFollowed DEF RedeemEvent
<1>8. CASE (Environment /\ UNCHANGED known) \/ UNCHANGED eventVars
  <2>1. UNCHANGED <<coalition, merchant, passport, balance, known>>
    BY <1>8 DEF Environment, BurnCredential, SetClock, eventVars
  <2> QED
    BY <1>3, <2>1, UntouchedFollowed
<1> QED
  BY <1>4, <1>5, <1>6, <1>7, <1>8 DEF EventsNext

THEOREM EventsInvariance == EventsSpec => []EventsIInv
BY InitEvents, NextEvents, PTL DEF EventsSpec

\* Whoever reads every event in order, and no account, knows every coalition,
\* merchant, credential, balance, streak and tier level, for any number of
\* them.
THEOREM FollowerKnowsAccounts == EventsSpec => []EventsTellAccounts
<1>1. EventsIInv => EventsTellAccounts
  BY DEF EventsIInv
<1> QED
  BY <1>1, EventsInvariance, PTL

\* No receipt is counted twice and none is lost: the visits of a passport are
\* the different nonces that its merchants recorded.
THEOREM VisitsCountReceipts == EventsSpec => []VisitsAreReceipts
<1>1. EventsIInv => VisitsAreReceipts
  BY DEF EventsIInv
<1> QED
  BY <1>1, EventsInvariance, PTL

-----------------------------------------------------------------------------
(* The notary *)

LEMMA InitSignatures == SignaturesInit => SignaturesIInv
<1> SUFFICES ASSUME SignaturesInit PROVE SignaturesIInv
  OBVIOUS
<1>1. IInv
  BY InitIInv DEF SignaturesInit
<1>2. /\ granted \in [MerchantKey \X PassportAddr -> Nat]
      /\ asked \in [Customer \X MerchantAddr -> Nat]
  BY DEF SignaturesInit
<1>3. MovedByItsOwners
  <2> SUFFICES ASSUME NEW p \in PassportAddr, NEW m \in MerchantAddr
               PROVE  /\ balance[<<p, m>>].earned_units = granted[<<m[2], p>>]
                      /\ balance[<<p, m>>].redeemed_units = asked[<<p[2], m>>]
    BY DEF MovedByItsOwners
  <2>1. <<p, m>> \in BalanceAddr /\ m[2] \in MerchantKey /\ p[2] \in Customer
    BY DEF BalanceAddr, PassportAddr, MerchantAddr
  <2>2. balance[<<p, m>>] = EmptyBalance
    BY <2>1 DEF SignaturesInit, Init
  <2>3. granted[<<m[2], p>>] = 0 /\ asked[<<p[2], m>>] = 0
    BY <2>1 DEF SignaturesInit
  <2> QED
    BY <2>2, <2>3 DEF EmptyBalance
<1> QED
  BY <1>1, <1>2, <1>3 DEF SignaturesIInv

\* A receipt is signed by the wallet in the merchant's address.
LEMMA ReceiptSigned ==
  ASSUME SignaturesIInv, SignedReceipt
  PROVE  /\ granted' \in [MerchantKey \X PassportAddr -> Nat]
         /\ asked' \in [Customer \X MerchantAddr -> Nat]
         /\ MovedByItsOwners'
<1>1. PICK c \in CoalitionAddr, ma \in MerchantKey, m \in MerchantAddr, p \in PassportAddr,
           b \in BalanceAddr, nonce \in U64, amount \in U64, hash \in ReceiptHash :
        /\ RecordReceipt(ma, c, m, p, b, nonce, amount, hash)
        /\ granted' = [granted EXCEPT
             ![<<ma, p>>] = @ + credit_units(m, b, amount, current_day_epoch)]
        /\ UNCHANGED asked
  BY DEF SignedReceipt
<1> DEFINE credit == credit_units(m, b, amount, current_day_epoch)
<1>2. /\ b = <<p, m>> /\ p[1] = c
      /\ credit \in Nat
      /\ balance' = [balance EXCEPT ![b] = balance'[b]]
      /\ balance'[b].earned_units = balance[b].earned_units + credit
      /\ balance'[b].redeemed_units = balance[b].redeemed_units
  BY <1>1, ReceiptAmounts DEF SignaturesIInv
<1>3. granted' = [granted EXCEPT ![<<ma, p>>] = @ + credit]
  BY <1>1
<1>4. m = <<c, ma>>
  BY <1>1 DEF RecordReceipt, MerchantConstraint
<1> HIDE DEF credit
<1>5. /\ granted \in [MerchantKey \X PassportAddr -> Nat]
      /\ asked' = asked /\ asked \in [Customer \X MerchantAddr -> Nat]
  BY <1>1 DEF SignaturesIInv
<1>6. granted' \in [MerchantKey \X PassportAddr -> Nat]
  BY <1>2, <1>3, <1>5
<1>7. ASSUME NEW q \in PassportAddr, NEW n \in MerchantAddr, q[1] = n[1]
      PROVE  /\ balance'[<<q, n>>].earned_units = granted'[<<n[2], q>>]
             /\ balance'[<<q, n>>].redeemed_units = asked'[<<q[2], n>>]
  <2>1. /\ balance[<<q, n>>].earned_units = granted[<<n[2], q>>]
        /\ balance[<<q, n>>].redeemed_units = asked[<<q[2], n>>]
    BY <1>7 DEF SignaturesIInv, MovedByItsOwners
  <2>2. <<q, n>> \in BalanceAddr /\ <<n[2], q>> \in MerchantKey \X PassportAddr
    BY DEF BalanceAddr, MerchantAddr
  <2>3. CASE q = p /\ n = m
    <3>1. <<n[2], q>> = <<ma, p>>
      BY <1>4, <2>3
    <3>2. granted'[<<ma, p>>] = granted[<<ma, p>>] + credit
      BY <1>3, <1>5, <2>2, <3>1
    <3> QED
      BY <1>2, <1>5, <2>1, <2>3, <3>1, <3>2
  <2>4. CASE ~(q = p /\ n = m)
    <3>1. <<n[2], q>> # <<ma, p>>
      <4>1. CASE q # p
        BY <4>1
      <4>2. CASE q = p /\ n # m
        <5>1. n[1] = c
          BY <1>2, <1>7, <4>2
        <5>2. n = <<n[1], n[2]>>
          BY DEF MerchantAddr
        <5> QED
          BY <1>4, <4>2, <5>1, <5>2
      <4> QED
        BY <2>4, <4>1, <4>2
    <3>2. granted'[<<n[2], q>>] = granted[<<n[2], q>>]
      BY <1>3, <1>5, <2>2, <3>1
    <3>3. balance'[<<q, n>>] = balance[<<q, n>>]
      <4>1. <<q, n>> # b
        BY <1>2, <2>4
      <4>2. balance \in [BalanceAddr -> MerchantBalance]
        BY DEF SignaturesIInv, IInv, TypeOK
      <4> QED
        BY <1>2, <2>2, <4>1, <4>2
    <3> QED
      BY <1>5, <2>1, <3>2, <3>3
  <2> QED
    BY <2>3, <2>4
<1> QED
  BY <1>5, <1>6, <1>7 DEF MovedByItsOwners

\* A redemption is signed by the customer in the passport's address.
LEMMA RedemptionSigned ==
  ASSUME SignaturesIInv, SignedRedemption
  PROVE  /\ granted' \in [MerchantKey \X PassportAddr -> Nat]
         /\ asked' \in [Customer \X MerchantAddr -> Nat]
         /\ MovedByItsOwners'
<1>1. PICK h \in Customer, c \in CoalitionAddr, m \in MerchantAddr, p \in PassportAddr,
           b \in BalanceAddr, units \in U64 :
        /\ Redeem(h, c, m, p, b, units)
        /\ asked' = [asked EXCEPT ![<<h, m>>] = @ + units]
        /\ UNCHANGED granted
  BY DEF SignedRedemption
<1>2. /\ b = <<p, m>> /\ p = <<c, h>> /\ m[1] = c
      /\ balance' = [balance EXCEPT ![b].redeemed_units = @ + units]
  BY <1>1 DEF Redeem, RedeemBalanceConstraint, OwnPassportConstraint,
              RedeemMerchantConstraint, apply_redemption
<1>3. units \in Nat
  BY NumbersAssumption DEF U64
<1>4. /\ granted' = granted /\ granted \in [MerchantKey \X PassportAddr -> Nat]
      /\ asked \in [Customer \X MerchantAddr -> Nat]
  BY <1>1 DEF SignaturesIInv
<1>5. asked' \in [Customer \X MerchantAddr -> Nat]
  BY <1>1, <1>3, <1>4
<1>6. balance \in [BalanceAddr -> MerchantBalance]
  BY DEF SignaturesIInv, IInv, TypeOK
<1>7. ASSUME NEW q \in PassportAddr, NEW n \in MerchantAddr, q[1] = n[1]
      PROVE  /\ balance'[<<q, n>>].earned_units = granted'[<<n[2], q>>]
             /\ balance'[<<q, n>>].redeemed_units = asked'[<<q[2], n>>]
  <2>1. /\ balance[<<q, n>>].earned_units = granted[<<n[2], q>>]
        /\ balance[<<q, n>>].redeemed_units = asked[<<q[2], n>>]
    BY <1>7 DEF SignaturesIInv, MovedByItsOwners
  <2>2. /\ <<q, n>> \in BalanceAddr /\ <<q[2], n>> \in Customer \X MerchantAddr
        /\ q = <<q[1], q[2]>>
    BY DEF BalanceAddr, PassportAddr
  <2>3. CASE q = p /\ n = m
    <3>1. <<q[2], n>> = <<h, m>>
      BY <1>2, <2>3
    <3>2. asked'[<<h, m>>] = asked[<<h, m>>] + units
      BY <1>1, <1>4, <2>2, <3>1
    <3>3. /\ balance'[b].redeemed_units = balance[b].redeemed_units + units
          /\ balance'[b].earned_units = balance[b].earned_units
      BY <1>2, <1>6 DEF MerchantBalance
    <3> QED
      BY <1>2, <1>4, <2>1, <2>3, <3>1, <3>2, <3>3
  <2>4. CASE ~(q = p /\ n = m)
    <3>1. <<q[2], n>> # <<h, m>>
      BY <1>2, <1>7, <2>2, <2>4
    <3>2. asked'[<<q[2], n>>] = asked[<<q[2], n>>]
      BY <1>1, <1>4, <2>2, <3>1
    <3>3. balance'[<<q, n>>] = balance[<<q, n>>]
      BY <1>2, <1>6, <2>2, <2>4
    <3> QED
      BY <1>4, <2>1, <3>2, <3>3
  <2> QED
    BY <2>3, <2>4
<1> QED
  BY <1>4, <1>5, <1>7 DEF MovedByItsOwners

\* Neither a configuration, nor a new passport, nor the chain moves a balance.
LEMMA UnsignedSteps ==
  ASSUME Configure \/ CreateAnyPassport \/ Environment
  PROVE  UNCHANGED balance
<1>1. CASE Configure
  BY <1>1 DEF Configure, InitializeCoalition, RegisterMerchant, PauseCoalition,
              UnpauseCoalition
<1>2. CASE CreateAnyPassport
  BY <1>2 DEF CreateAnyPassport, CreatePassport
<1>3. CASE Environment
  BY <1>3 DEF Environment, BurnCredential, SetClock
<1> QED
  BY <1>1, <1>2, <1>3

LEMMA SignaturesAreSteps == [SignaturesNext]_signatureVars => [Next]_vars
<1>1. SignedReceipt => RecordAnyReceipt
  BY DEF SignedReceipt, RecordAnyReceipt
<1>2. SignedRedemption => RedeemAny
  BY DEF SignedRedemption, RedeemAny
<1> QED
  BY <1>1, <1>2 DEF SignaturesNext, Next, signatureVars, vars

LEMMA NextSignatures == SignaturesIInv /\ [SignaturesNext]_signatureVars => SignaturesIInv'
<1> SUFFICES ASSUME SignaturesIInv, [SignaturesNext]_signatureVars
             PROVE  SignaturesIInv'
  OBVIOUS
<1>1. IInv'
  BY SignaturesAreSteps, NextIInv DEF SignaturesIInv
<1>2. CASE SignedReceipt
  BY <1>1, <1>2, ReceiptSigned DEF SignaturesIInv
<1>3. CASE SignedRedemption
  BY <1>1, <1>3, RedemptionSigned DEF SignaturesIInv
<1>4. CASE \/ (Configure \/ CreateAnyPassport \/ Environment) /\ UNCHANGED <<granted, asked>>
           \/ UNCHANGED signatureVars
  <2>1. UNCHANGED <<balance, granted, asked>>
    BY <1>4, UnsignedSteps DEF signatureVars
  <2> QED
    BY <1>1, <2>1 DEF SignaturesIInv, MovedByItsOwners
<1> QED
  BY <1>2, <1>3, <1>4 DEF SignaturesNext

THEOREM SignaturesInvariance == SignaturesSpec => []SignaturesIInv
BY InitSignatures, NextSignatures, PTL DEF SignaturesSpec

\* Nobody spends another customer's credit or issues another merchant's: all
\* that a balance earned was signed for by its merchant's wallet, and all that
\* left it by its passport's customer, for any number of both.
THEOREM OnlyOwnersMove == SignaturesSpec => []MovedByItsOwners
<1>1. SignaturesIInv => MovedByItsOwners
  BY DEF SignaturesIInv
<1> QED
  BY <1>1, SignaturesInvariance, PTL

=============================================================================
