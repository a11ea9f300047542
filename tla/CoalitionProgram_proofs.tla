------------------------ MODULE CoalitionProgram_proofs ------------------------
(***************************************************************************)
(* Theorems of CoalitionProgram for every set of wallets, every clock and  *)
(* every width of the counters.                                            *)
(***************************************************************************)
EXTENDS CoalitionProgram, Sums_proofs, TLAPS

-----------------------------------------------------------------------------
(* Arithmetic and addresses *)

\* The rate never makes credit out of nothing: raw_credit is a natural number.
LEMMA DivisionNat ==
  ASSUME NEW x \in Nat, NEW d \in Nat \ {0}
  PROVE  x \div d \in Nat
BY SMT

\* The day of any timestamp is an integer.
LEMMA DayInt ==
  ASSUME unix_timestamp \in Timestamp
  PROVE  current_day_epoch \in Int
<1>1. unix_timestamp \in Int /\ SECONDS_PER_DAY \in Nat \ {0}
  BY NumbersAssumption
<1>2. \A x \in Int, d \in Nat \ {0} : x \div d \in Int
  BY SMT
<1> QED BY <1>1, <1>2 DEF current_day_epoch

\* The accounts of a receipt are well-typed records that exist.
LEMMA ReceiptAccounts ==
  ASSUME TypeOK,
         NEW c \in CoalitionAddr, NEW m \in MerchantAddr,
         NEW p \in PassportAddr, NEW b \in BalanceAddr,
         coalition[c] # NoAccount, merchant[m] # NoAccount, passport[p] # NoAccount
  PROVE  /\ coalition[c] \in CoalitionAccount
         /\ merchant[m] \in MerchantAccount
         /\ passport[p] \in PassportAccount
         /\ balance[b] \in MerchantBalance
BY DEF TypeOK

-----------------------------------------------------------------------------
(* Type correctness *)

LEMMA InitTypeOK == Init => TypeOK
<1> SUFFICES ASSUME Init PROVE TypeOK
  OBVIOUS
<1>1. EmptyBalance \in MerchantBalance
  BY NumbersAssumption DEF EmptyBalance, MerchantBalance, U64
<1> QED
  BY <1>1 DEF Init, TypeOK

LEMMA ConfigureTypeOK == TypeOK /\ Configure => TypeOK'
<1> SUFFICES ASSUME TypeOK, Configure PROVE TypeOK'
  OBVIOUS
<1>1. ASSUME NEW a \in Authority, NEW args \in CoalitionArgs, InitializeCoalition(a, args)
      PROVE  TypeOK'
  <2>1. args \in [max_receipt_units : U64, tier_thresholds : Seq(U64)]
    BY ArgsAssumption
  <2>2. [authority |-> a, max_receipt_units |-> args.max_receipt_units,
         tier_thresholds |-> args.tier_thresholds, paused |-> FALSE] \in CoalitionAccount
    BY <2>1 DEF CoalitionAccount
  <2>3. coalition' \in [CoalitionAddr -> CoalitionAccount \cup {NoAccount}]
    BY <1>1, <2>2 DEF InitializeCoalition, TypeOK, CoalitionAddr
  <2> QED
    BY <1>1, <2>3 DEF InitializeCoalition, TypeOK
<1>2. ASSUME NEW a \in Authority, NEW c \in CoalitionAddr, NEW ma \in MerchantKey,
             NEW args \in MerchantArgs, RegisterMerchant(a, c, ma, args)
      PROVE  TypeOK'
  <2>1. args \in [earn_bps : U64, daily_cap : U64]
    BY ArgsAssumption
  <2>2. [coalition |-> c, authority |-> ma, earn_bps |-> args.earn_bps,
         daily_cap |-> args.daily_cap, active |-> TRUE] \in MerchantAccount
    BY <2>1 DEF MerchantAccount
  <2>3. merchant' \in [MerchantAddr -> MerchantAccount \cup {NoAccount}]
    BY <1>2, <2>2 DEF RegisterMerchant, TypeOK, MerchantAddr
  <2> QED
    BY <1>2, <2>3 DEF RegisterMerchant, TypeOK
<1>3. ASSUME NEW a \in Authority, NEW c \in CoalitionAddr,
             PauseCoalition(a, c) \/ UnpauseCoalition(a, c)
      PROVE  TypeOK'
  <2>1. coalition[c] \in CoalitionAccount
    BY <1>3 DEF PauseCoalition, UnpauseCoalition, GovernedBy, TypeOK
  <2>2. PICK x \in BOOLEAN : coalition' = [coalition EXCEPT ![c].paused = x]
    BY <1>3 DEF PauseCoalition, UnpauseCoalition, set_coalition_paused
  <2>3. [coalition[c] EXCEPT !.paused = x] \in CoalitionAccount
    BY <2>1 DEF CoalitionAccount
  <2>4. coalition' \in [CoalitionAddr -> CoalitionAccount \cup {NoAccount}]
    BY <2>2, <2>3 DEF TypeOK
  <2> QED
    BY <1>3, <2>4 DEF PauseCoalition, UnpauseCoalition, TypeOK
<1> QED
  BY <1>1, <1>2, <1>3 DEF Configure

LEMMA CreatePassportTypeOK == TypeOK /\ CreateAnyPassport => TypeOK'
<1> SUFFICES ASSUME TypeOK,
                    NEW h \in Customer, NEW c \in CoalitionAddr, NEW k \in MintKey,
                    CreatePassport(h, c, k)
             PROVE  TypeOK'
  BY DEF CreateAnyPassport
<1>1. [coalition |-> c, customer |-> h, passport_mint |-> k,
       total_visits |-> 0, streak_points |-> 0] \in PassportAccount
  BY NumbersAssumption DEF PassportAccount, U64
<1>2. passport' \in [PassportAddr -> PassportAccount \cup {NoAccount}]
  BY <1>1 DEF CreatePassport, TypeOK, PassportAddr
<1>3. mint' \in [MintKey -> Mint \cup {NoAccount}]
  BY DEF CreatePassport, TypeOK, Mint
<1>4. token' \in [Customer \X MintKey -> Nat]
  BY DEF CreatePassport, TypeOK
<1> QED
  BY <1>2, <1>3, <1>4 DEF CreatePassport, TypeOK

LEMMA RecordReceiptTypeOK == TypeOK /\ RecordAnyReceipt => TypeOK'
<1> SUFFICES ASSUME TypeOK,
                    NEW c \in CoalitionAddr, NEW ma \in MerchantKey, NEW m \in MerchantAddr,
                    NEW p \in PassportAddr, NEW b \in BalanceAddr, NEW nonce \in U64,
                    NEW amount \in U64, NEW hash \in ReceiptHash,
                    RecordReceipt(ma, c, m, p, b, nonce, amount, hash)
             PROVE  TypeOK'
  BY DEF RecordAnyReceipt
<1> DEFINE epoch == current_day_epoch
           credit == credit_units(m, b, amount, epoch)
           delta == streak_delta(c, credit)
<1>1. /\ passport[p] \in PassportAccount
      /\ balance[b] \in MerchantBalance
  BY DEF TypeOK, RecordReceipt, PassportConstraint
<1>2. epoch \in Nat
  BY DayInt DEF RecordReceipt, TypeOK
<1>3. ArithmeticFits(c, m, p, b, amount, epoch)
  BY DEF RecordReceipt, apply_receipt, apply_receipt_accepts
<1>4. /\ balance[b].earned_units + credit \in U64
      /\ earned_this_epoch(b, epoch) + credit \in U64
      /\ passport[p].total_visits + 1 \in U64
      /\ passport[p].streak_points + delta \in U64
  BY <1>3 DEF ArithmeticFits
<1>5. balance' = [balance EXCEPT ![b] =
        [passport |-> p, merchant |-> m,
         earned_units |-> balance[b].earned_units + credit,
         redeemed_units |-> balance[b].redeemed_units,
         earned_this_epoch |-> earned_this_epoch(b, epoch) + credit,
         cap_epoch |-> epoch, last_receipt_nonce |-> nonce, version |-> STATE_VERSION]]
  BY DEF RecordReceipt, apply_receipt
<1>6. passport' = [passport EXCEPT ![p].total_visits = @ + 1, ![p].streak_points = @ + delta]
  BY DEF RecordReceipt, apply_receipt
<1> HIDE DEF epoch, credit, delta
<1>7. balance' \in [BalanceAddr -> MerchantBalance]
  BY <1>1, <1>2, <1>4, <1>5 DEF TypeOK, MerchantBalance
<1>8. passport' \in [PassportAddr -> PassportAccount \cup {NoAccount}]
  <2>1. passport'[p] \in PassportAccount
    BY <1>1, <1>4, <1>6 DEF TypeOK, PassportAccount
  <2>2. passport' = [passport EXCEPT ![p] = passport'[p]]
    BY <1>6 DEF TypeOK
  <2> QED
    BY <2>1, <2>2 DEF TypeOK
<1> QED
  BY <1>7, <1>8 DEF RecordReceipt, TypeOK

LEMMA RedeemTypeOK == TypeOK /\ RedeemAny => TypeOK'
<1> SUFFICES ASSUME TypeOK,
                    NEW h \in Customer, NEW c \in CoalitionAddr, NEW m \in MerchantAddr,
                    NEW p \in PassportAddr, NEW b \in BalanceAddr, NEW units \in U64,
                    Redeem(h, c, m, p, b, units)
             PROVE  TypeOK'
  BY DEF RedeemAny
<1>1. /\ balance[b] \in MerchantBalance
      /\ balance[b].redeemed_units + units \in U64
      /\ balance' = [balance EXCEPT ![b].redeemed_units = @ + units]
  BY DEF TypeOK, Redeem, apply_redemption, apply_redemption_accepts
<1>2. [balance[b] EXCEPT !.redeemed_units = @ + units] \in MerchantBalance
  BY <1>1 DEF MerchantBalance
<1>3. balance' \in [BalanceAddr -> MerchantBalance]
  BY <1>1, <1>2 DEF TypeOK
<1> QED
  BY <1>3 DEF Redeem, TypeOK

LEMMA BurnTypeOK ==
  ASSUME TypeOK, NEW h \in Customer, NEW k \in MintKey, BurnCredential(h, k)
  PROVE  TypeOK'
<1>1. /\ mint[k] \in Mint
      /\ mint[k].supply - 1 \in Nat
      /\ token[<<h, k>>] - 1 \in Nat
  BY DEF BurnCredential, TypeOK, Mint
<1>2. mint' \in [MintKey -> Mint \cup {NoAccount}]
  BY <1>1 DEF BurnCredential, TypeOK, Mint
<1>3. token' \in [Customer \X MintKey -> Nat]
  BY <1>1 DEF BurnCredential, TypeOK
<1> QED
  BY <1>2, <1>3 DEF BurnCredential, TypeOK

LEMMA NextTypeOK == TypeOK /\ [Next]_vars => TypeOK'
<1> SUFFICES ASSUME TypeOK, [Next]_vars PROVE TypeOK'
  OBVIOUS
<1>1. CASE Configure
  BY <1>1, ConfigureTypeOK
<1>2. CASE CreateAnyPassport
  BY <1>2, CreatePassportTypeOK
<1>3. CASE RecordAnyReceipt
  BY <1>3, RecordReceiptTypeOK
<1>4. CASE RedeemAny
  BY <1>4, RedeemTypeOK
<1>5. CASE \E t \in Timestamp : SetClock(t)
  BY <1>5 DEF SetClock, TypeOK
<1>6. CASE \E h \in Customer, k \in MintKey : BurnCredential(h, k)
  BY <1>6, BurnTypeOK
<1>7. CASE UNCHANGED vars
  BY <1>7 DEF vars, TypeOK
<1> QED
  BY <1>1, <1>2, <1>3, <1>4, <1>5, <1>6, <1>7 DEF Next, Environment

\* Every account keeps its layout and every counter its width, whatever
\* accounts and arguments the clients choose.
THEOREM TypeCorrect == Spec => []TypeOK
BY InitTypeOK, NextTypeOK, PTL DEF Spec

-----------------------------------------------------------------------------
(* The inductive invariant *)

LEMMA InitIInv == Init => IInv
<1> SUFFICES ASSUME Init PROVE IInv
  OBVIOUS
<1>1. TypeOK
  BY InitTypeOK
<1>2. ConfigSound /\ RelationshipsBound
  BY DEF Init, ConfigSound, RelationshipsBound, EmptyBalance
<1>3. Solvent
  BY NumbersAssumption DEF Init, Solvent, available_units, EmptyBalance, U64
<1>4. CapRespected /\ StreakTracksVisits
  BY DEF Init, CapRespected, StreakTracksVisits, EmptyBalance
<1>5. CredentialUnique /\ NoTokenWithoutMint
  BY DEF Init, CredentialUnique, NoTokenWithoutMint
<1> QED
  BY <1>1, <1>2, <1>3, <1>4, <1>5 DEF IInv

LEMMA InitializeCoalitionIInv ==
  ASSUME IInv, TypeOK', NEW a \in Authority, NEW args \in CoalitionArgs,
         InitializeCoalition(a, args)
  PROVE  IInv'
<1> USE DEF CoalitionAddr
<1>1. /\ coalition[a] = NoAccount
      /\ coalition' = [coalition EXCEPT ![a] = coalition'[a]]
      /\ coalition'[a] # NoAccount
      /\ coalition'[a].authority = a
      /\ coalition'[a].max_receipt_units > 0
      /\ UNCHANGED <<merchant, passport, balance, mint, token>>
  <2>1. coalition'[a] = [authority |-> a, max_receipt_units |-> args.max_receipt_units,
                         tier_thresholds |-> args.tier_thresholds, paused |-> FALSE]
    BY DEF IInv, TypeOK, InitializeCoalition
  <2>2. coalition'[a] \in CoalitionAccount
    <3>1. args \in [max_receipt_units : U64, tier_thresholds : Seq(U64)]
      BY ArgsAssumption
    <3> QED BY <2>1, <3>1 DEF CoalitionAccount
  <2>3. coalition'[a] # NoAccount
    BY <2>2, NoAccountAssumption
  <2> QED
    BY <2>1, <2>3 DEF IInv, TypeOK, InitializeCoalition, validate_coalition_config
<1>2. \A c \in CoalitionAddr : coalition[c] # NoAccount => coalition'[c] = coalition[c]
  BY <1>1 DEF IInv, TypeOK
<1>3. ConfigSound'
  BY <1>1, <1>2 DEF IInv, ConfigSound, TypeOK
<1>4. RelationshipsBound'
  BY <1>1, <1>2 DEF IInv, RelationshipsBound, TypeOK, MerchantAddr, PassportAddr
<1>5. Solvent' /\ CapRespected'
  BY <1>1 DEF IInv, Solvent, CapRespected, available_units
<1>6. StreakTracksVisits'
  BY <1>1, <1>2 DEF IInv, StreakTracksVisits, RelationshipsBound, PassportAddr
<1>7. CredentialUnique' /\ NoTokenWithoutMint'
  BY <1>1 DEF IInv, CredentialUnique, NoTokenWithoutMint
<1> QED
  BY <1>3, <1>4, <1>5, <1>6, <1>7 DEF IInv

LEMMA RegisterMerchantIInv ==
  ASSUME IInv, TypeOK', NEW a \in Authority, NEW c \in CoalitionAddr,
         NEW ma \in MerchantKey, NEW args \in MerchantArgs,
         RegisterMerchant(a, c, ma, args)
  PROVE  IInv'
<1> DEFINE n == <<c, ma>>
<1>1. /\ n \in MerchantAddr
      /\ merchant[n] = NoAccount
      /\ coalition[c] # NoAccount
      /\ merchant' = [merchant EXCEPT ![n] = merchant'[n]]
      /\ merchant'[n] = [coalition |-> c, authority |-> ma, earn_bps |-> args.earn_bps,
                         daily_cap |-> args.daily_cap, active |-> TRUE]
      /\ args.earn_bps \in 1 .. BASIS_POINTS_DENOMINATOR
      /\ args.daily_cap > 0
      /\ UNCHANGED <<coalition, passport, balance, mint, token>>
  BY DEF IInv, TypeOK, RegisterMerchant, GovernedBy, validate_merchant_config, MerchantAddr
<1>2. \A m \in MerchantAddr : merchant[m] # NoAccount => merchant'[m] = merchant[m]
  BY <1>1 DEF IInv, TypeOK
<1>3. ConfigSound'
  <2>1. /\ merchant'[n].active
        /\ merchant'[n].earn_bps \in 1 .. BASIS_POINTS_DENOMINATOR
        /\ merchant'[n].daily_cap > 0
    BY <1>1
  <2>2. \A m \in MerchantAddr : m # n => merchant'[m] = merchant[m]
    BY <1>1 DEF IInv, TypeOK
  <2> HIDE DEF n
  <2> QED
    BY <1>1, <2>1, <2>2 DEF IInv, ConfigSound
<1>4. RelationshipsBound'
  <2>1. merchant'[n] # NoAccount
    <3>1. args \in [earn_bps : U64, daily_cap : U64]
      BY ArgsAssumption
    <3>2. merchant'[n] \in MerchantAccount
      BY <1>1, <3>1 DEF MerchantAccount
    <3> QED BY <3>2, NoAccountAssumption
  <2>2. \A m \in MerchantAddr : merchant'[m] # NoAccount =>
          m = <<merchant'[m].coalition, merchant'[m].authority>> /\ coalition'[m[1]] # NoAccount
    BY <1>1, <1>2 DEF IInv, RelationshipsBound, TypeOK
  <2>3. \A b \in BalanceAddr : balance'[b].version # 0 =>
          /\ b = <<balance'[b].passport, balance'[b].merchant>>
          /\ b[1][1] = b[2][1]
          /\ passport'[b[1]] # NoAccount
          /\ merchant'[b[2]] # NoAccount
    BY <1>1, <1>2 DEF IInv, RelationshipsBound, BalanceAddr
  <2> QED
    BY <1>1, <2>2, <2>3 DEF IInv, RelationshipsBound
<1>5. Solvent'
  BY <1>1 DEF IInv, Solvent, available_units
<1>6. CapRespected'
  BY <1>1, <1>2 DEF IInv, CapRespected, RelationshipsBound, BalanceAddr
<1>7. StreakTracksVisits' /\ CredentialUnique' /\ NoTokenWithoutMint'
  BY <1>1 DEF IInv, StreakTracksVisits, CredentialUnique, NoTokenWithoutMint
<1> QED
  BY <1>3, <1>4, <1>5, <1>6, <1>7 DEF IInv

LEMMA PauseIInv ==
  ASSUME IInv, TypeOK', NEW a \in Authority, NEW c \in CoalitionAddr,
         PauseCoalition(a, c) \/ UnpauseCoalition(a, c)
  PROVE  IInv'
<1>1. /\ coalition[c] # NoAccount
      /\ \E x \in BOOLEAN : coalition' = [coalition EXCEPT ![c].paused = x]
      /\ UNCHANGED <<merchant, passport, balance, mint, token>>
  BY DEF PauseCoalition, UnpauseCoalition, GovernedBy, set_coalition_paused
<1>2. \A d \in CoalitionAddr :
        /\ coalition'[d] = NoAccount <=> coalition[d] = NoAccount
        /\ coalition[d] # NoAccount =>
             /\ coalition'[d].authority = coalition[d].authority
             /\ coalition'[d].max_receipt_units = coalition[d].max_receipt_units
  <2>1. coalition[c] \in CoalitionAccount
    BY <1>1 DEF IInv, TypeOK
  <2>2. PICK x \in BOOLEAN : coalition' = [coalition EXCEPT ![c].paused = x]
    BY <1>1
  <2>3. /\ coalition'[c] \in CoalitionAccount
        /\ coalition'[c].authority = coalition[c].authority
        /\ coalition'[c].max_receipt_units = coalition[c].max_receipt_units
    BY <2>1, <2>2 DEF IInv, TypeOK, CoalitionAccount
  <2>4. coalition'[c] # NoAccount
    BY <2>3, NoAccountAssumption
  <2> QED
    BY <1>1, <2>2, <2>3, <2>4 DEF IInv, TypeOK
<1>3. ConfigSound'
  BY <1>1, <1>2 DEF IInv, ConfigSound
<1>4. RelationshipsBound'
  BY <1>1, <1>2 DEF IInv, RelationshipsBound, MerchantAddr, PassportAddr
<1>5. Solvent' /\ CapRespected'
  BY <1>1 DEF IInv, Solvent, CapRespected, available_units
<1>6. StreakTracksVisits'
  BY <1>1, <1>2 DEF IInv, StreakTracksVisits, RelationshipsBound, PassportAddr
<1>7. CredentialUnique' /\ NoTokenWithoutMint'
  BY <1>1 DEF IInv, CredentialUnique, NoTokenWithoutMint
<1> QED
  BY <1>3, <1>4, <1>5, <1>6, <1>7 DEF IInv

LEMMA CreatePassportIInv ==
  ASSUME IInv, TypeOK', NEW h \in Customer, NEW c \in CoalitionAddr, NEW k \in MintKey,
         CreatePassport(h, c, k)
  PROVE  IInv'
<1> DEFINE q == <<c, h>>
<1>1. /\ q \in PassportAddr
      /\ coalition[c] # NoAccount
      /\ passport[q] = NoAccount
      /\ mint[k] = NoAccount
      /\ mint' = [mint EXCEPT ![k] = [supply |-> 1, mint_authority |-> NoAccount]]
      /\ token' = [token EXCEPT ![<<h, k>>] = @ + 1]
      /\ passport' = [passport EXCEPT ![q] = passport'[q]]
      /\ passport'[q] = [coalition |-> c, customer |-> h, passport_mint |-> k,
                         total_visits |-> 0, streak_points |-> 0]
      /\ UNCHANGED <<coalition, merchant, balance>>
  BY DEF IInv, TypeOK, CreatePassport, CoalitionConstraint, FreshMint, PassportAddr
<1>2. passport'[q] # NoAccount
  <2>1. passport'[q] \in PassportAccount
    BY <1>1, NumbersAssumption DEF PassportAccount, U64
  <2> QED BY <2>1, NoAccountAssumption
<1>3. \A p \in PassportAddr : passport[p] # NoAccount => p # q /\ passport'[p] = passport[p]
  BY <1>1 DEF IInv, TypeOK
<1>4. \A p \in PassportAddr : passport'[p] # NoAccount /\ p # q =>
        passport[p] # NoAccount /\ passport'[p] = passport[p]
  BY <1>1 DEF IInv, TypeOK
<1>5. ConfigSound'
  BY <1>1 DEF IInv, ConfigSound
<1>6. RelationshipsBound'
  <2>1. \A p \in PassportAddr : passport'[p] # NoAccount =>
          /\ p = <<passport'[p].coalition, passport'[p].customer>>
          /\ coalition'[p[1]] # NoAccount
    BY <1>1, <1>4 DEF IInv, RelationshipsBound
  <2>2. \A b \in BalanceAddr : balance'[b].version # 0 =>
          /\ b = <<balance'[b].passport, balance'[b].merchant>>
          /\ b[1][1] = b[2][1]
          /\ passport'[b[1]] # NoAccount
          /\ merchant'[b[2]] # NoAccount
    BY <1>1, <1>3 DEF IInv, RelationshipsBound, BalanceAddr
  <2> QED
    BY <1>1, <2>1, <2>2 DEF IInv, RelationshipsBound
<1>7. Solvent' /\ CapRespected'
  BY <1>1 DEF IInv, Solvent, CapRespected, available_units
<1>8. StreakTracksVisits'
  <2>1. coalition[c].max_receipt_units \in U64
    BY <1>1 DEF IInv, TypeOK, CoalitionAccount
  <2>2. 0 <= 0 * coalition[c].max_receipt_units
    BY <2>1, NumbersAssumption DEF U64
  <2>3. /\ passport'[q].total_visits <= passport'[q].streak_points
        /\ passport'[q].streak_points <=
             passport'[q].total_visits * coalition'[q[1]].max_receipt_units
    BY <1>1, <2>2
  <2> QED
    BY <1>1, <1>4, <2>3 DEF IInv, StreakTracksVisits
<1>9. CredentialUnique'
  <2>1. \A p \in PassportAddr : passport[p] # NoAccount =>
          /\ passport[p].passport_mint \in MintKey
          /\ passport[p].passport_mint # k
    <3> SUFFICES ASSUME NEW p \in PassportAddr, passport[p] # NoAccount
                 PROVE  passport[p].passport_mint \in MintKey /\ passport[p].passport_mint # k
      OBVIOUS
    <3>1. passport[p].passport_mint \in MintKey
      BY DEF IInv, TypeOK, PassportAccount
    <3>2. mint[passport[p].passport_mint] \in Mint
      BY DEF IInv, CredentialUnique, Mint
    <3>3. mint[passport[p].passport_mint] # NoAccount
      BY <3>2, NoAccountAssumption
    <3> QED BY <1>1, <3>1, <3>3
  <2>2. \A p, r \in PassportAddr :
          (passport'[p] # NoAccount /\ passport'[r] # NoAccount /\ p # r) =>
            passport'[p].passport_mint # passport'[r].passport_mint
    BY <1>1, <1>4, <2>1 DEF IInv, CredentialUnique
  <2>3. \A p \in PassportAddr : passport'[p] # NoAccount /\ p # q =>
          /\ mint'[passport'[p].passport_mint] \in
               [supply : {0, 1}, mint_authority : {NoAccount}]
          /\ \A g \in Customer :
               token'[<<g, passport'[p].passport_mint>>] =
                 IF g = passport'[p].customer
                 THEN mint'[passport'[p].passport_mint].supply ELSE 0
    BY <1>1, <1>4, <2>1 DEF IInv, CredentialUnique, TypeOK
  <2>4. /\ mint'[k] = [supply |-> 1, mint_authority |-> NoAccount]
        /\ \A g \in Customer : token'[<<g, k>>] = IF g = h THEN 1 ELSE 0
    BY <1>1 DEF IInv, NoTokenWithoutMint, TypeOK
  <2>5. /\ passport'[q].passport_mint = k
        /\ passport'[q].customer = h
    BY <1>1
  <2> QED
    BY <2>2, <2>3, <2>4, <2>5 DEF CredentialUnique
<1>10. NoTokenWithoutMint'
  <2>1. mint'[k] \in Mint
    BY <1>1 DEF IInv, TypeOK, Mint
  <2>2. mint'[k] # NoAccount
    BY <2>1, NoAccountAssumption
  <2> QED
    BY <1>1, <2>2 DEF IInv, NoTokenWithoutMint, TypeOK
<1> QED
  BY <1>5, <1>6, <1>7, <1>8, <1>9, <1>10 DEF IInv

\* What an accepted receipt does: it credits at least one unit and at most the
\* rest of the day's cap, to the balance of its own passport and merchant.
LEMMA ReceiptEffect ==
  ASSUME IInv, NEW c \in CoalitionAddr, NEW ma \in MerchantKey, NEW m \in MerchantAddr,
         NEW p \in PassportAddr, NEW b \in BalanceAddr, NEW nonce \in U64,
         NEW amount \in U64, NEW hash \in ReceiptHash,
         RecordReceipt(ma, c, m, p, b, nonce, amount, hash)
  PROVE  \E credit \in Nat, delta \in Nat, day \in Nat, today \in Nat :
           /\ day = current_day_epoch
           /\ today = earned_this_epoch(b, day)
           /\ credit >= 1 /\ delta >= 1 /\ delta <= credit
           /\ delta <= coalition[c].max_receipt_units
           /\ today + credit <= merchant[m].daily_cap
           /\ balance[b].earned_units + credit \in U64
           /\ balance[b].version # 0 => day >= balance[b].cap_epoch
           /\ nonce > balance[b].last_receipt_nonce
           /\ b = <<p, m>> /\ p[1] = c /\ m[1] = c
           /\ coalition[c] # NoAccount /\ passport[p] # NoAccount /\ merchant[m] # NoAccount
           /\ balance' = [balance EXCEPT ![b] =
                [passport |-> p, merchant |-> m,
                 earned_units |-> balance[b].earned_units + credit,
                 redeemed_units |-> balance[b].redeemed_units,
                 earned_this_epoch |-> today + credit,
                 cap_epoch |-> day, last_receipt_nonce |-> nonce,
                 version |-> STATE_VERSION]]
           /\ passport' = [passport EXCEPT ![p] = passport'[p]]
           /\ passport'[p] # NoAccount
           /\ passport'[p].coalition = passport[p].coalition
           /\ passport'[p].customer = passport[p].customer
           /\ passport'[p].passport_mint = passport[p].passport_mint
           /\ passport'[p].total_visits = passport[p].total_visits + 1
           /\ passport'[p].streak_points = passport[p].streak_points + delta
           /\ UNCHANGED <<coalition, merchant, mint, token, unix_timestamp>>
<1> DEFINE day == current_day_epoch
           today == earned_this_epoch(b, day)
           credit == credit_units(m, b, amount, day)
           delta == streak_delta(c, credit)
<1>1. /\ coalition[c] # NoAccount /\ merchant[m] # NoAccount /\ passport[p] # NoAccount
      /\ b = <<p, m>> /\ p[1] = c /\ m[1] = c
  BY DEF RecordReceipt, CoalitionConstraint, MerchantConstraint, PassportConstraint, BalanceSeeds
<1>2. /\ coalition[c] \in CoalitionAccount /\ merchant[m] \in MerchantAccount
      /\ passport[p] \in PassportAccount /\ balance[b] \in MerchantBalance
  BY <1>1, ReceiptAccounts DEF IInv
<1>3. day \in Nat
  BY DayInt DEF RecordReceipt, IInv, TypeOK
<1>4. today \in Nat
  BY <1>2, <1>3, NumbersAssumption DEF earned_this_epoch, MerchantBalance, U64
<1>5. apply_receipt_accepts(c, m, p, b, nonce, amount, day)
  BY DEF RecordReceipt, apply_receipt
<1>6. raw_credit(m, amount) \in Nat
  <2>1. merchant[m].earn_bps \in Nat /\ amount \in Nat
    BY <1>2, NumbersAssumption DEF MerchantAccount, U64
  <2>2. \A x, y \in Nat : x * y \in Nat
    BY SMT
  <2> QED
    BY <2>1, <2>2, DivisionNat, NumbersAssumption DEF raw_credit
<1>7. /\ raw_credit(m, amount) > 0
      /\ merchant[m].daily_cap - today > 0
  BY <1>5 DEF apply_receipt_accepts, cap_remaining
<1>8. credit \in Nat /\ credit >= 1 /\ today + credit <= merchant[m].daily_cap
  BY <1>2, <1>4, <1>6, <1>7, NumbersAssumption
     DEF credit_units, cap_remaining, Smaller, MerchantAccount, U64
<1>9. delta \in Nat /\ delta >= 1 /\ delta <= credit /\ delta <= coalition[c].max_receipt_units
  <2>1. coalition[c].max_receipt_units \in Nat /\ coalition[c].max_receipt_units > 0
    BY <1>1, <1>2, NumbersAssumption DEF IInv, ConfigSound, CoalitionAccount, U64
  <2> HIDE DEF credit
  <2> QED BY <2>1, <1>8 DEF streak_delta, Smaller
<1>10. /\ balance[b].earned_units + credit \in U64
       /\ balance[b].version # 0 => day >= balance[b].cap_epoch
       /\ nonce > balance[b].last_receipt_nonce
  BY <1>5 DEF apply_receipt_accepts, ArithmeticFits, ReceiptInOrder
<1>11. balance' = [balance EXCEPT ![b] =
         [passport |-> p, merchant |-> m,
          earned_units |-> balance[b].earned_units + credit,
          redeemed_units |-> balance[b].redeemed_units,
          earned_this_epoch |-> today + credit,
          cap_epoch |-> day, last_receipt_nonce |-> nonce, version |-> STATE_VERSION]]
  BY DEF RecordReceipt, apply_receipt
<1>12. /\ passport' = [passport EXCEPT ![p].total_visits = @ + 1, ![p].streak_points = @ + delta]
       /\ UNCHANGED <<coalition, merchant, mint, token, unix_timestamp>>
  BY DEF RecordReceipt, apply_receipt
<1> HIDE DEF day, today, credit, delta
<1>13. /\ passport' = [passport EXCEPT ![p] = passport'[p]]
       /\ passport'[p].coalition = passport[p].coalition
       /\ passport'[p].customer = passport[p].customer
       /\ passport'[p].passport_mint = passport[p].passport_mint
       /\ passport'[p].total_visits = passport[p].total_visits + 1
       /\ passport'[p].streak_points = passport[p].streak_points + delta
  BY <1>2, <1>12 DEF IInv, TypeOK, PassportAccount
<1>14. passport'[p] # NoAccount
  <2>1. TypeOK'
    BY RecordReceiptTypeOK DEF RecordAnyReceipt, IInv
  <2>2. passport'[p] = [coalition |-> passport[p].coalition, customer |-> passport[p].customer,
          passport_mint |-> passport[p].passport_mint,
          total_visits |-> passport[p].total_visits + 1,
          streak_points |-> passport[p].streak_points + delta]
    BY <1>2, <1>12 DEF IInv, TypeOK, PassportAccount
  <2>3. passport[p].total_visits + 1 \in U64 /\ passport[p].streak_points + delta \in U64
    BY <1>5 DEF apply_receipt_accepts, ArithmeticFits, day, delta, credit
  <2>4. passport'[p] \in PassportAccount
    BY <1>2, <2>2, <2>3 DEF PassportAccount
  <2> QED BY <2>4, NoAccountAssumption
<1>15. day = current_day_epoch /\ today = earned_this_epoch(b, day)
  BY DEF day, today
<1> QED
  BY <1>1, <1>3, <1>4, <1>8, <1>9, <1>10, <1>11, <1>12, <1>13, <1>14, <1>15

LEMMA RecordReceiptIInv ==
  ASSUME IInv, TypeOK',
         NEW c \in CoalitionAddr, NEW ma \in MerchantKey, NEW m \in MerchantAddr,
         NEW p \in PassportAddr, NEW b \in BalanceAddr, NEW nonce \in U64,
         NEW amount \in U64, NEW hash \in ReceiptHash,
         RecordReceipt(ma, c, m, p, b, nonce, amount, hash)
  PROVE  IInv'
<1>1. PICK credit \in Nat, delta \in Nat, day \in Nat, today \in Nat :
        /\ day = current_day_epoch
        /\ today = earned_this_epoch(b, day)
        /\ credit >= 1 /\ delta >= 1 /\ delta <= credit
        /\ delta <= coalition[c].max_receipt_units
        /\ today + credit <= merchant[m].daily_cap
        /\ balance[b].earned_units + credit \in U64
        /\ b = <<p, m>> /\ p[1] = c /\ m[1] = c
        /\ coalition[c] # NoAccount /\ passport[p] # NoAccount /\ merchant[m] # NoAccount
        /\ balance' = [balance EXCEPT ![b] =
             [passport |-> p, merchant |-> m,
              earned_units |-> balance[b].earned_units + credit,
              redeemed_units |-> balance[b].redeemed_units,
              earned_this_epoch |-> today + credit,
              cap_epoch |-> day, last_receipt_nonce |-> nonce, version |-> STATE_VERSION]]
        /\ passport' = [passport EXCEPT ![p] = passport'[p]]
        /\ passport'[p] # NoAccount
        /\ passport'[p].coalition = passport[p].coalition
        /\ passport'[p].customer = passport[p].customer
        /\ passport'[p].passport_mint = passport[p].passport_mint
        /\ passport'[p].total_visits = passport[p].total_visits + 1
        /\ passport'[p].streak_points = passport[p].streak_points + delta
        /\ UNCHANGED <<coalition, merchant, mint, token, unix_timestamp>>
  BY ReceiptEffect
<1>2. /\ balance[b] \in MerchantBalance
      /\ passport[p] \in PassportAccount
      /\ coalition[c] \in CoalitionAccount
      /\ merchant[m] \in MerchantAccount
  BY <1>1, ReceiptAccounts DEF IInv
<1>3. \A a \in BalanceAddr : a # b => balance'[a] = balance[a]
  BY <1>1 DEF IInv, TypeOK
<1>4. /\ balance'[b].passport = p /\ balance'[b].merchant = m
      /\ balance'[b].earned_units = balance[b].earned_units + credit
      /\ balance'[b].redeemed_units = balance[b].redeemed_units
      /\ balance'[b].earned_this_epoch = today + credit
      /\ balance'[b].version # 0
  BY <1>1 DEF IInv, TypeOK, STATE_VERSION
<1>5. \A q \in PassportAddr :
        /\ q # p => passport'[q] = passport[q]
        /\ passport'[q] = NoAccount <=> passport[q] = NoAccount
        /\ passport[q] # NoAccount =>
             /\ passport'[q].coalition = passport[q].coalition
             /\ passport'[q].customer = passport[q].customer
             /\ passport'[q].passport_mint = passport[q].passport_mint
  BY <1>1 DEF IInv, TypeOK
<1>6. ConfigSound'
  BY <1>1 DEF IInv, ConfigSound
<1>7. RelationshipsBound'
  <2>1. \A a \in BalanceAddr : balance'[a].version # 0 =>
          /\ a = <<balance'[a].passport, balance'[a].merchant>>
          /\ a[1][1] = a[2][1]
          /\ passport'[a[1]] # NoAccount
          /\ merchant'[a[2]] # NoAccount
    BY <1>1, <1>3, <1>4, <1>5 DEF IInv, RelationshipsBound, BalanceAddr
  <2>2. \A q \in PassportAddr : passport'[q] # NoAccount =>
          /\ q = <<passport'[q].coalition, passport'[q].customer>>
          /\ coalition'[q[1]] # NoAccount
    BY <1>1, <1>5 DEF IInv, RelationshipsBound
  <2> QED
    BY <1>1, <2>1, <2>2 DEF IInv, RelationshipsBound
<1>8. Solvent'
  <2>1. balance'[b].earned_units - balance'[b].redeemed_units \in U64
    <3>1. balance[b].earned_units - balance[b].redeemed_units \in U64
      BY DEF IInv, Solvent, available_units
    <3> QED
      BY <1>1, <1>2, <1>4, <3>1, NumbersAssumption DEF MerchantBalance, U64
  <2> QED
    BY <1>3, <1>4, <2>1 DEF IInv, Solvent, available_units
<1>9. CapRespected'
  <2>1. today <= balance[b].earned_units
    BY <1>1, <1>2, NumbersAssumption
       DEF IInv, CapRespected, earned_this_epoch, MerchantBalance, U64
  <2>2. /\ balance'[b].earned_this_epoch \in 1 .. merchant'[b[2]].daily_cap
        /\ balance'[b].earned_this_epoch <= balance'[b].earned_units
    BY <1>1, <1>2, <1>4, <2>1, NumbersAssumption DEF MerchantAccount, MerchantBalance, U64
  <2> QED
    BY <1>1, <1>3, <2>2 DEF IInv, CapRespected
<1>10. StreakTracksVisits'
  <2> DEFINE v == passport[p].total_visits
             s == passport[p].streak_points
             x == coalition[c].max_receipt_units
  <2>1. v \in Nat /\ s \in Nat /\ x \in Nat
    BY <1>2, NumbersAssumption DEF PassportAccount, CoalitionAccount, U64
  <2>2. v <= s /\ s <= v * x
    BY <1>1 DEF IInv, StreakTracksVisits
  <2>3. delta <= x /\ delta >= 1
    BY <1>1
  <2> HIDE DEF v, s, x
  <2>4. (v + 1) * x = v * x + x /\ v * x \in Nat
    BY <2>1
  <2>5. v + 1 <= s + delta /\ s + delta <= (v + 1) * x
    BY <2>1, <2>2, <2>3, <2>4
  <2>6. /\ passport'[p].total_visits <= passport'[p].streak_points
        /\ passport'[p].streak_points <=
             passport'[p].total_visits * coalition'[p[1]].max_receipt_units
    BY <1>1, <2>5 DEF v, s, x
  <2> QED
    BY <1>1, <1>5, <2>6 DEF IInv, StreakTracksVisits
<1>11. CredentialUnique' /\ NoTokenWithoutMint'
  BY <1>1, <1>5 DEF IInv, CredentialUnique, NoTokenWithoutMint
<1> QED
  BY <1>6, <1>7, <1>8, <1>9, <1>10, <1>11 DEF IInv

LEMMA RedeemIInv ==
  ASSUME IInv, TypeOK',
         NEW h \in Customer, NEW c \in CoalitionAddr, NEW m \in MerchantAddr,
         NEW p \in PassportAddr, NEW b \in BalanceAddr, NEW units \in U64,
         Redeem(h, c, m, p, b, units)
  PROVE  IInv'
<1>1. /\ balance[b].version # 0
      /\ units > 0
      /\ units <= balance[b].earned_units - balance[b].redeemed_units
      /\ balance' = [balance EXCEPT ![b].redeemed_units = @ + units]
      /\ UNCHANGED <<coalition, merchant, passport, mint, token>>
  BY DEF Redeem, RedeemBalanceConstraint, apply_redemption, apply_redemption_accepts,
     SufficientCredit, available_units
<1>2. balance[b] \in MerchantBalance
  BY DEF IInv, TypeOK
<1>3. /\ \A a \in BalanceAddr : a # b => balance'[a] = balance[a]
      /\ balance'[b].redeemed_units = balance[b].redeemed_units + units
      /\ balance'[b].passport = balance[b].passport
      /\ balance'[b].merchant = balance[b].merchant
      /\ balance'[b].earned_units = balance[b].earned_units
      /\ balance'[b].earned_this_epoch = balance[b].earned_this_epoch
      /\ balance'[b].version = balance[b].version
  BY <1>1, <1>2 DEF IInv, TypeOK, MerchantBalance
<1>4. ConfigSound'
  BY <1>1 DEF IInv, ConfigSound
<1>5. RelationshipsBound'
  <2>1. \A a \in BalanceAddr :
          /\ balance'[a].version = balance[a].version
          /\ balance'[a].passport = balance[a].passport
          /\ balance'[a].merchant = balance[a].merchant
    BY <1>3
  <2> QED
    BY <1>1, <2>1 DEF IInv, RelationshipsBound
<1>6. Solvent'
  <2>1. balance'[b].earned_units - balance'[b].redeemed_units \in U64
    BY <1>1, <1>2, <1>3, NumbersAssumption DEF MerchantBalance, U64
  <2> QED
    BY <1>1, <1>3, <2>1 DEF IInv, Solvent, available_units
<1>7. CapRespected'
  BY <1>1, <1>3 DEF IInv, CapRespected
<1>8. StreakTracksVisits' /\ CredentialUnique' /\ NoTokenWithoutMint'
  BY <1>1 DEF IInv, StreakTracksVisits, CredentialUnique, NoTokenWithoutMint
<1> QED
  BY <1>4, <1>5, <1>6, <1>7, <1>8 DEF IInv

\* Only the holder of the credential has a token of its mint to burn.
LEMMA BurnCredentialIInv ==
  ASSUME IInv, TypeOK', NEW h \in Customer, NEW k \in MintKey, BurnCredential(h, k)
  PROVE  IInv'
<1>1. /\ token[<<h, k>>] > 0
      /\ mint[k] # NoAccount
      /\ mint[k] \in Mint
      /\ mint[k].supply > 0
      /\ mint' = [mint EXCEPT ![k].supply = @ - 1]
      /\ token' = [token EXCEPT ![<<h, k>>] = @ - 1]
      /\ UNCHANGED <<coalition, merchant, passport, balance>>
  BY DEF IInv, TypeOK, BurnCredential
<1>2. ConfigSound' /\ RelationshipsBound' /\ Solvent' /\ CapRespected' /\ StreakTracksVisits'
  BY <1>1 DEF IInv, ConfigSound, RelationshipsBound, Solvent, available_units,
     CapRespected, StreakTracksVisits
<1>3. CredentialUnique'
  <2>1. ASSUME NEW p \in PassportAddr, passport[p] # NoAccount
        PROVE  LET j == passport[p].passport_mint IN
               /\ mint'[j] \in [supply : {0, 1}, mint_authority : {NoAccount}]
               /\ \A g \in Customer :
                    token'[<<g, j>>] =
                      IF g = passport[p].customer THEN mint'[j].supply ELSE 0
    <3> DEFINE j == passport[p].passport_mint
    <3>1. /\ j \in MintKey
          /\ mint[j] \in [supply : {0, 1}, mint_authority : {NoAccount}]
          /\ \A g \in Customer :
               token[<<g, j>>] = IF g = passport[p].customer THEN mint[j].supply ELSE 0
      BY <2>1 DEF IInv, TypeOK, PassportAccount, CredentialUnique
    <3>2. CASE j = k
      <4>1. h = passport[p].customer /\ mint[k].supply = 1 /\ mint[k].mint_authority = NoAccount
        BY <1>1, <3>1, <3>2
      <4>2. mint'[k] = [supply |-> 0, mint_authority |-> NoAccount]
        BY <1>1, <4>1 DEF IInv, TypeOK, Mint
      <4>3. \A g \in Customer : token'[<<g, k>>] = 0
        BY <1>1, <3>1, <3>2, <4>1 DEF IInv, TypeOK
      <4> QED
        BY <3>2, <4>2, <4>3
    <3>3. CASE j # k
      <4>1. /\ mint'[j] = mint[j]
            /\ \A g \in Customer : token'[<<g, j>>] = token[<<g, j>>]
        BY <1>1, <3>1, <3>3 DEF IInv, TypeOK
      <4> QED
        BY <3>1, <4>1
    <3> QED
      BY <3>2, <3>3
  <2> QED
    BY <1>1, <2>1 DEF IInv, CredentialUnique
<1>4. NoTokenWithoutMint'
  <2>1. mint'[k] \in Mint
    BY <1>1 DEF IInv, TypeOK, Mint
  <2>2. mint'[k] # NoAccount
    BY <2>1, NoAccountAssumption
  <2> QED
    BY <1>1, <2>2 DEF IInv, NoTokenWithoutMint, TypeOK
<1> QED
  BY <1>2, <1>3, <1>4 DEF IInv

LEMMA NextIInv == IInv /\ [Next]_vars => IInv'
<1> SUFFICES ASSUME IInv, [Next]_vars PROVE IInv'
  OBVIOUS
<1>1. TypeOK'
  BY NextTypeOK DEF IInv
<1>2. CASE Configure
  BY <1>1, <1>2, InitializeCoalitionIInv, RegisterMerchantIInv, PauseIInv DEF Configure
<1>3. CASE CreateAnyPassport
  BY <1>1, <1>3, CreatePassportIInv DEF CreateAnyPassport
<1>4. CASE RecordAnyReceipt
  BY <1>1, <1>4, RecordReceiptIInv DEF RecordAnyReceipt
<1>5. CASE RedeemAny
  BY <1>1, <1>5, RedeemIInv DEF RedeemAny
<1>6. ASSUME UNCHANGED <<coalition, merchant, passport, balance, mint, token>>
      PROVE  IInv'
  BY <1>1, <1>6 DEF IInv, ConfigSound, RelationshipsBound, Solvent, available_units,
     CapRespected, StreakTracksVisits, CredentialUnique, NoTokenWithoutMint
<1>7. CASE \E t \in Timestamp : SetClock(t)
  BY <1>6, <1>7 DEF SetClock
<1>8. CASE \E h \in Customer, k \in MintKey : BurnCredential(h, k)
  BY <1>1, <1>8, BurnCredentialIInv
<1>9. CASE UNCHANGED vars
  BY <1>6, <1>9 DEF vars
<1> QED
  BY <1>2, <1>3, <1>4, <1>5, <1>7, <1>8, <1>9 DEF Next, Environment

THEOREM Invariance == Spec => []IInv
BY InitIInv, NextIInv, PTL DEF Spec

-----------------------------------------------------------------------------
(* What the invariant gives *)

\* Whatever accounts a client passes, every account is at the address its own
\* fields derive and a balance joins two parties of one coalition.
THEOREM AccountsBound == Spec => []RelationshipsBound
<1>1. IInv => RelationshipsBound
  BY DEF IInv
<1> QED
  BY <1>1, Invariance, PTL

\* No sequence of receipts and redemptions overdraws a balance: the
\* CorruptBalance errors are dead code.
THEOREM NeverOverdrawn == Spec => []Solvent
<1>1. IInv => Solvent
  BY DEF IInv
<1> QED
  BY <1>1, Invariance, PTL

\* The day's counter never passes the merchant's cap, for any clock.
THEOREM CapNeverExceeded == Spec => []CapRespected
<1>1. IInv => CapRespected
  BY DEF IInv
<1> QED
  BY <1>1, Invariance, PTL

\* One receipt moves the streak by at least one unit and at most the limit, so
\* visits and streak bound each other for ever.
THEOREM ReputationBounded == Spec => []StreakTracksVisits
<1>1. IInv => StreakTracksVisits
  BY DEF IInv
<1> QED
  BY <1>1, Invariance, PTL

\* Each passport has exactly one token, of its own mint, in its customer's hands.
THEOREM OneCredentialEach == Spec => []CredentialUnique
<1>1. IInv => CredentialUnique
  BY DEF IInv
<1> QED
  BY <1>1, Invariance, PTL

\* A receipt of BASIS_POINTS_DENOMINATOR units earns exactly the rate.
LEMMA WholeUnitCredit ==
  ASSUME NEW d \in Nat \ {0}, NEW x \in Nat
  PROVE  (d * x) \div d = x
BY SMT

\* When the counters have room the next day always takes a receipt; that the
\* product of two rates fits the width is all it needs of the numbers
\* (10_000 * 10_000 < 2^64).
THEOREM NewDayAlwaysReopens ==
  ASSUME BASIS_POINTS_DENOMINATOR * BASIS_POINTS_DENOMINATOR <= MaxU64
  PROVE  Spec => []NewDayReopensAccrual
<1> DEFINE D == BASIS_POINTS_DENOMINATOR
<1>1. ASSUME IInv, NEW c \in CoalitionAddr, NEW ma \in MerchantKey, NEW h \in Customer,
             NEW m, m = <<c, ma>>, NEW p, p = <<c, h>>, NEW b, b = <<p, m>>,
             coalition[c] # NoAccount, merchant[m] # NoAccount, passport[p] # NoAccount,
             current_day_epoch >= 0,
             balance[b].version # 0 => current_day_epoch > balance[b].cap_epoch,
             balance[b].last_receipt_nonce < MaxU64,
             balance[b].earned_units + merchant[m].daily_cap <= MaxU64,
             passport[p].total_visits < MaxU64,
             passport[p].streak_points + merchant[m].daily_cap <= MaxU64
      PROVE  \E nonce, amount \in U64 :
               apply_receipt_accepts(c, m, p, b, nonce, amount, current_day_epoch)
  <2> DEFINE day == current_day_epoch
             bps == merchant[m].earn_bps
             cap == merchant[m].daily_cap
             nonce == balance[b].last_receipt_nonce + 1
             credit == credit_units(m, b, D, day)
             delta == streak_delta(c, credit)
  <2>1. /\ m \in MerchantAddr /\ p \in PassportAddr /\ b \in BalanceAddr
    BY <1>1 DEF MerchantAddr, PassportAddr, BalanceAddr
  <2>2. /\ coalition[c] \in CoalitionAccount /\ merchant[m] \in MerchantAccount
        /\ passport[p] \in PassportAccount /\ balance[b] \in MerchantBalance
    BY <1>1, <2>1, ReceiptAccounts DEF IInv
  <2>3. /\ MaxU64 \in Nat /\ D \in Nat \ {0} /\ bps \in 1 .. D /\ cap \in Nat /\ cap > 0
        /\ coalition[c].max_receipt_units \in Nat /\ merchant[m].active
    BY <1>1, <2>1, <2>2, NumbersAssumption
       DEF IInv, ConfigSound, MerchantAccount, CoalitionAccount, U64
  <2>4. D * bps \in U64 /\ D \in U64
    <3>1. D * bps <= D * D /\ D * bps \in Nat /\ D <= D * D
      BY <2>3, SMT
    <3> QED BY <2>3, <3>1 DEF U64
  <2>5. raw_credit(m, D) = bps
    BY <2>3, WholeUnitCredit DEF raw_credit
  <2>6. earned_this_epoch(b, day) = 0
    <3>1. day \in Int
      BY <1>1, DayInt DEF IInv, TypeOK
    <3> QED
      BY <1>1, <2>2, <3>1 DEF earned_this_epoch, MerchantBalance
  <2>7. cap_remaining(m, b, day) = cap
    BY <2>3, <2>6 DEF cap_remaining
  <2>8. credit \in Nat /\ credit <= cap
    BY <2>3, <2>5, <2>7 DEF credit_units, Smaller
  <2>9. delta \in Nat /\ delta <= cap
    <3> HIDE DEF credit
    <3> QED BY <2>3, <2>8 DEF streak_delta, Smaller
  <2>10. nonce \in U64 /\ nonce > balance[b].last_receipt_nonce
    BY <1>1, <2>2, <2>3 DEF MerchantBalance, U64
  <2> HIDE DEF credit, delta
  <2>11. ArithmeticFits(c, m, p, b, D, day)
    <3>1. /\ balance[b].earned_units + credit \in U64
          /\ passport[p].total_visits + 1 \in U64
          /\ passport[p].streak_points + delta \in U64
      BY <1>1, <2>2, <2>3, <2>8, <2>9 DEF MerchantBalance, PassportAccount, U64
    <3>2. cap \in U64 /\ credit \in U64
      BY <2>2, <2>3, <2>8 DEF MerchantAccount, U64
    <3>3. 0 + credit \in U64
      BY <2>8, <3>2
    <3> QED
      BY <2>4, <2>6, <2>7, <3>1, <3>2, <3>3 DEF ArithmeticFits, credit, delta
  <2>12. BalanceSound(p, m, b)
    <3>1. balance[b].earned_units >= balance[b].redeemed_units
      BY <1>1, <2>1, <2>2, <2>3 DEF IInv, Solvent, available_units, MerchantBalance, U64
    <3>2. balance[b].version # 0 =>
            balance[b].version = STATE_VERSION /\ balance[b].passport = p /\ balance[b].merchant = m
      BY <1>1, <2>1, <2>2 DEF IInv, RelationshipsBound, MerchantBalance
    <3> QED BY <3>1, <3>2 DEF BalanceSound
  <2>13. ReceiptInOrder(b, nonce, day)
    <3>1. day \in Int
      BY <1>1, DayInt DEF IInv, TypeOK
    <3> QED
      BY <1>1, <2>2, <2>10, <3>1 DEF ReceiptInOrder, MerchantBalance
  <2>14. passport[p].coalition = merchant[m].coalition
    BY <1>1, <2>1 DEF IInv, RelationshipsBound
  <2>15. apply_receipt_accepts(c, m, p, b, nonce, D, day)
    BY <2>3, <2>5, <2>7, <2>11, <2>12, <2>13, <2>14 DEF apply_receipt_accepts
  <2> QED
    BY <2>4, <2>10, <2>15
<1>2. IInv => NewDayReopensAccrual
  BY <1>1 DEF NewDayReopensAccrual
<1> QED
  BY <1>2, Invariance, PTL

\* While a coalition stays paused, nothing in it is registered or earned.
THEOREM PauseIsComplete == Spec => PauseFreezesAccrual
<1> DEFINE A == \A c \in CoalitionAddr :
       (/\ coalition[c] # NoAccount /\ coalition[c].paused
        /\ coalition'[c].paused) =>
         /\ \A m \in MerchantAddr : m[1] = c => merchant'[m] = merchant[m]
         /\ \A p \in PassportAddr : p[1] = c => passport'[p] = passport[p]
         /\ \A b \in BalanceAddr : c \in {b[1][1], b[2][1]} =>
              balance'[b].earned_units = balance[b].earned_units
<1>1. IInv /\ [Next]_vars => [A]_vars
  <2> SUFFICES ASSUME IInv, Next,
                      NEW c \in CoalitionAddr, coalition[c] # NoAccount, coalition[c].paused
               PROVE  /\ \A m \in MerchantAddr : m[1] = c => merchant'[m] = merchant[m]
                      /\ \A p \in PassportAddr : p[1] = c => passport'[p] = passport[p]
                      /\ \A b \in BalanceAddr : c \in {b[1][1], b[2][1]} =>
                           balance'[b].earned_units = balance[b].earned_units
    OBVIOUS
  <2>1. ASSUME NEW a \in Authority, NEW args \in CoalitionArgs, InitializeCoalition(a, args)
        PROVE  UNCHANGED <<merchant, passport, balance>>
    BY <2>1 DEF InitializeCoalition
  <2>2. ASSUME NEW a \in Authority, NEW d \in CoalitionAddr, NEW ma \in MerchantKey,
               NEW args \in MerchantArgs, RegisterMerchant(a, d, ma, args)
        PROVE  /\ UNCHANGED <<passport, balance>>
               /\ \A m \in MerchantAddr : m[1] = c => merchant'[m] = merchant[m]
    BY <2>2 DEF RegisterMerchant, NotPaused, IInv, TypeOK
  <2>3. ASSUME NEW a \in Authority, NEW d \in CoalitionAddr,
               PauseCoalition(a, d) \/ UnpauseCoalition(a, d)
        PROVE  UNCHANGED <<merchant, passport, balance>>
    BY <2>3 DEF PauseCoalition, UnpauseCoalition
  <2>4. ASSUME NEW h \in Customer, NEW d \in CoalitionAddr, NEW k \in MintKey,
               CreatePassport(h, d, k)
        PROVE  /\ UNCHANGED <<merchant, balance>>
               /\ \A p \in PassportAddr : p[1] = c => passport'[p] = passport[p]
    BY <2>4 DEF CreatePassport, NotPaused, IInv, TypeOK
  <2>5. ASSUME NEW d \in CoalitionAddr, NEW ma \in MerchantKey, NEW m \in MerchantAddr,
               NEW p \in PassportAddr, NEW b \in BalanceAddr, NEW nonce \in U64,
               NEW amount \in U64, NEW hash \in ReceiptHash,
               RecordReceipt(ma, d, m, p, b, nonce, amount, hash)
        PROVE  /\ UNCHANGED merchant
               /\ \A q \in PassportAddr : q[1] = c => passport'[q] = passport[q]
               /\ \A e \in BalanceAddr : c \in {e[1][1], e[2][1]} =>
                    balance'[e].earned_units = balance[e].earned_units
    <3>1. d # c
      BY <2>5 DEF RecordReceipt, NotPaused
    <3>2. /\ b = <<p, m>> /\ p[1] = d /\ m[1] = d
          /\ UNCHANGED merchant
          /\ passport' = [passport EXCEPT ![p] = passport'[p]]
          /\ balance' = [balance EXCEPT ![b] = balance'[b]]
      <4>1. balance' = [balance EXCEPT ![b] = balance'[b]]
        <5>1. PICK x : balance' = [balance EXCEPT ![b] = x]
          BY <2>5 DEF RecordReceipt, apply_receipt
        <5> QED
          BY <5>1 DEF IInv, TypeOK
      <4>2. /\ b = <<p, m>> /\ p[1] = d /\ m[1] = d
            /\ UNCHANGED merchant
            /\ passport' = [passport EXCEPT ![p] = passport'[p]]
        BY <2>5, ReceiptEffect
      <4> QED
        BY <4>1, <4>2
    <3> QED
      BY <3>1, <3>2 DEF IInv, TypeOK
  <2>6. ASSUME NEW h \in Customer, NEW d \in CoalitionAddr, NEW m \in MerchantAddr,
               NEW p \in PassportAddr, NEW b \in BalanceAddr, NEW units \in U64,
               Redeem(h, d, m, p, b, units)
        PROVE  /\ UNCHANGED <<merchant, passport>>
               /\ \A e \in BalanceAddr : balance'[e].earned_units = balance[e].earned_units
    BY <2>6 DEF Redeem, apply_redemption, apply_redemption_accepts, IInv, TypeOK, MerchantBalance
  <2>7. ASSUME Environment
        PROVE  UNCHANGED <<merchant, passport, balance>>
    BY <2>7 DEF Environment, BurnCredential, SetClock
  <2> QED
    BY <2>1, <2>2, <2>3, <2>4, <2>5, <2>6, <2>7
       DEF Next, Configure, CreateAnyPassport, RecordAnyReceipt, RedeemAny
<1>2. [][A]_vars => PauseFreezesAccrual
  BY PTL DEF PauseFreezesAccrual
<1> QED
  BY <1>1, <1>2, Invariance, PTL DEF Spec


-----------------------------------------------------------------------------
(* Configurations and tiers *)

LEMMA InitConfigAccepted == Init => ConfigAccepted
BY DEF Init, ConfigAccepted

LEMMA NextConfigAccepted == TypeOK /\ ConfigAccepted /\ [Next]_vars => ConfigAccepted'
<1> SUFFICES ASSUME TypeOK, ConfigAccepted, [Next]_vars PROVE ConfigAccepted'
  OBVIOUS
<1>1. ASSUME NEW a \in Authority, NEW args \in CoalitionArgs, InitializeCoalition(a, args)
      PROVE  ConfigAccepted'
  <2>1. /\ validate_coalition_config(args.max_receipt_units, args.tier_thresholds)
        /\ coalition'[a].max_receipt_units = args.max_receipt_units
        /\ coalition'[a].tier_thresholds = args.tier_thresholds
        /\ \A c \in CoalitionAddr : c # a => coalition'[c] = coalition[c]
        /\ UNCHANGED merchant
    BY <1>1 DEF InitializeCoalition, TypeOK, CoalitionAddr
  <2> QED
    BY <2>1 DEF ConfigAccepted, validate_coalition_config, validate_merchant_config
<1>2. ASSUME NEW a \in Authority, NEW c \in CoalitionAddr, NEW ma \in MerchantKey,
             NEW args \in MerchantArgs, RegisterMerchant(a, c, ma, args)
      PROVE  ConfigAccepted'
  <2>1. /\ validate_merchant_config(args.earn_bps, args.daily_cap)
        /\ <<c, ma>> \in MerchantAddr
        /\ merchant'[<<c, ma>>].earn_bps = args.earn_bps
        /\ merchant'[<<c, ma>>].daily_cap = args.daily_cap
        /\ \A m \in MerchantAddr : m # <<c, ma>> => merchant'[m] = merchant[m]
        /\ UNCHANGED coalition
    BY <1>2 DEF RegisterMerchant, TypeOK, MerchantAddr
  <2> QED
    BY <2>1 DEF ConfigAccepted
<1>3. ASSUME NEW a \in Authority, NEW c \in CoalitionAddr,
             PauseCoalition(a, c) \/ UnpauseCoalition(a, c)
      PROVE  ConfigAccepted'
  <2>1. PICK x \in BOOLEAN : coalition' = [coalition EXCEPT ![c].paused = x]
    BY <1>3 DEF PauseCoalition, UnpauseCoalition, set_coalition_paused
  <2>2. coalition[c] \in CoalitionAccount /\ coalition[c] # NoAccount
    BY <1>3 DEF PauseCoalition, UnpauseCoalition, GovernedBy, TypeOK
  <2>3. /\ coalition'[c].max_receipt_units = coalition[c].max_receipt_units
        /\ coalition'[c].tier_thresholds = coalition[c].tier_thresholds
        /\ \A d \in CoalitionAddr : d # c => coalition'[d] = coalition[d]
        /\ UNCHANGED merchant
    BY <1>3, <2>1, <2>2 DEF PauseCoalition, UnpauseCoalition, TypeOK, CoalitionAccount
  <2> QED
    BY <2>2, <2>3 DEF ConfigAccepted
<1>4. ASSUME UNCHANGED <<coalition, merchant>>
      PROVE  ConfigAccepted'
  BY <1>4 DEF ConfigAccepted
<1>5. ASSUME CreateAnyPassport \/ RecordAnyReceipt \/ RedeemAny \/ Environment
      PROVE  UNCHANGED <<coalition, merchant>>
  <2>1. CASE CreateAnyPassport
    BY <2>1 DEF CreateAnyPassport, CreatePassport
  <2>2. CASE RecordAnyReceipt
    BY <2>2 DEF RecordAnyReceipt, RecordReceipt
  <2>3. CASE RedeemAny
    BY <2>3 DEF RedeemAny, Redeem
  <2>4. CASE Environment
    BY <2>4 DEF Environment, BurnCredential, SetClock
  <2> QED
    BY <1>5, <2>1, <2>2, <2>3, <2>4
<1>6. CASE UNCHANGED vars
  BY <1>4, <1>6 DEF vars
<1> QED
  BY <1>1, <1>2, <1>3, <1>4, <1>5, <1>6 DEF Next, Configure

\* No instruction rewrites a configuration: what a coalition or a merchant was
\* created with is what every later receipt is judged by.
THEOREM ConfigurationsImmutable == Spec => []ConfigAccepted
<1>1. Init => TypeOK /\ ConfigAccepted
  BY InitTypeOK, InitConfigAccepted
<1>2. (TypeOK /\ ConfigAccepted) /\ [Next]_vars => (TypeOK /\ ConfigAccepted)'
  BY NextTypeOK, NextConfigAccepted
<1> QED
  BY <1>1, <1>2, PTL DEF Spec

\* In a sequence that increases from each element to the next, whoever reaches
\* an element has reached all before it.
LEMMA ReachedIsPrefix ==
  ASSUME NEW tiers \in Seq(Nat), StrictlyIncreasing(tiers),
         NEW points \in Nat, NEW i \in 1 .. Len(tiers), points >= tiers[i],
         NEW j \in 1 .. i
  PROVE  points >= tiers[j]
<1> SUFFICES ASSUME points < tiers[j] PROVE FALSE
  BY DEF StrictlyIncreasing
<1> DEFINE T == {k \in j .. i : points >= tiers[k]}
<1>1. Len(tiers) \in Nat /\ \A k \in 1 .. Len(tiers) : tiers[k] \in Nat
  OBVIOUS
<1>2. T \subseteq Nat /\ i \in T
  BY <1>1
<1>3. PICK k \in T : \A l \in T : k <= l
  <2> HIDE DEF T
  <2> QED BY <1>2, LeastNat
<1>4. k - 1 \in j .. i /\ k - 1 \in 1 .. Len(tiers) - 1
  BY <1>1, <1>3
<1>5. tiers[k - 1] < tiers[(k - 1) + 1]
  BY <1>4 DEF StrictlyIncreasing
<1>6. k - 1 \in T
  BY <1>1, <1>4, <1>5
<1> QED
  BY <1>3, <1>6

\* A tier level counts every threshold that the streak reaches, for every
\* schedule that a coalition can be created with.
THEOREM TierLevelCounts == Spec => []TierLevelExact
<1>1. ASSUME TypeOK, ConfigAccepted, NEW c \in CoalitionAddr, coalition[c] # NoAccount,
             NEW points \in U64
      PROVE  tier_level_for(c, points) =
               Cardinality({i \in DOMAIN coalition[c].tier_thresholds :
                              points >= coalition[c].tier_thresholds[i]})
  <2> DEFINE tiers == coalition[c].tier_thresholds
  <2>1. tiers \in Seq(Nat) /\ points \in Nat
    BY <1>1, NumbersAssumption DEF TypeOK, CoalitionAccount, U64
  <2>2. StrictlyIncreasing(tiers)
    BY <1>1 DEF ConfigAccepted, validate_coalition_config, TiersInOrder
  <2> HIDE DEF tiers
  <2>3. DOMAIN tiers = 1 .. Len(tiers) /\ Len(tiers) \in Nat
    BY <2>1
  <2>4. {i \in 1 .. Len(tiers) : \A j \in 1 .. i : points >= tiers[j]} =
          {i \in DOMAIN tiers : points >= tiers[i]}
    BY <2>1, <2>2, <2>3, ReachedIsPrefix
  <2> QED
    BY <2>4 DEF tier_level_for, tiers
<1>2. TypeOK /\ ConfigAccepted => TierLevelExact
  BY <1>1 DEF TierLevelExact
<1> QED
  BY <1>2, TypeCorrect, ConfigurationsImmutable, PTL

-----------------------------------------------------------------------------
(* Reputation and credit *)

\* A receipt adds its merchant to those of its passport and its credit to their
\* sum; no other passport is touched.
LEMMA ReceiptCredit ==
  ASSUME CreditIInv, NEW c \in CoalitionAddr, NEW ma \in MerchantKey,
         NEW m \in MerchantAddr, NEW p \in PassportAddr, NEW b \in BalanceAddr,
         NEW nonce \in U64, NEW amount \in U64, NEW hash \in ReceiptHash,
         RecordReceipt(ma, c, m, p, b, nonce, amount, hash)
  PROVE  BalancesFinite' /\ StreakBackedByCredit'
<1>1. PICK credit \in Nat, delta \in Nat :
        /\ delta <= credit /\ b = <<p, m>>
        /\ passport[p] # NoAccount
        /\ balance' = [balance EXCEPT ![b] = balance'[b]]
        /\ balance'[b].earned_units = balance[b].earned_units + credit
        /\ balance'[b].version = STATE_VERSION
        /\ passport' = [passport EXCEPT ![p] = passport'[p]]
        /\ passport'[p].streak_points = passport[p].streak_points + delta
  <2>1. PICK credit \in Nat, delta \in Nat, day \in Nat, today \in Nat :
          /\ delta <= credit /\ b = <<p, m>>
          /\ passport[p] # NoAccount
          /\ balance' = [balance EXCEPT ![b] =
               [passport |-> p, merchant |-> m,
                earned_units |-> balance[b].earned_units + credit,
                redeemed_units |-> balance[b].redeemed_units,
                earned_this_epoch |-> today + credit,
                cap_epoch |-> day, last_receipt_nonce |-> nonce,
                version |-> STATE_VERSION]]
          /\ passport' = [passport EXCEPT ![p] = passport'[p]]
          /\ passport'[p].streak_points = passport[p].streak_points + delta
    BY ReceiptEffect DEF CreditIInv
  <2>2. /\ balance' = [balance EXCEPT ![b] = balance'[b]]
        /\ balance'[b].earned_units = balance[b].earned_units + credit
        /\ balance'[b].version = STATE_VERSION
    BY <2>1 DEF CreditIInv, IInv, TypeOK
  <2> QED
    BY <2>1, <2>2
<1>2. /\ \A q \in PassportAddr, n \in MerchantAddr :
           <<q, n>> # b => balance'[<<q, n>>] = balance[<<q, n>>]
      /\ \A q \in PassportAddr : q # p => passport'[q] = passport[q]
  BY <1>1 DEF CreditIInv, IInv, TypeOK, BalanceAddr
<1>3. \A q \in PassportAddr : q # p =>
        MerchantsOf(q)' = MerchantsOf(q) /\ earnedBy(q)' = earnedBy(q)
  BY <1>1, <1>2 DEF MerchantsOf, earnedBy
<1>4. MerchantsOf(p)' = MerchantsOf(p) \cup {m}
  <2>1. balance'[<<p, m>>].version # 0
    BY <1>1 DEF STATE_VERSION
  <2>2. \A n \in MerchantAddr : n # m => balance'[<<p, n>>] = balance[<<p, n>>]
    BY <1>1, <1>2
  <2> QED
    BY <2>1, <2>2 DEF MerchantsOf
<1>5. /\ IsFiniteSet(MerchantsOf(p))
      /\ IsFiniteSet(MerchantsOf(p) \cup {m})
  BY FS_AddElement DEF CreditIInv, BalancesFinite
<1>6. \A n \in MerchantAddr : balance[<<p, n>>].earned_units \in Nat
  BY NumbersAssumption DEF CreditIInv, IInv, TypeOK, MerchantBalance, BalanceAddr, U64
<1> DEFINE f == earnedBy(p)
           g == earnedBy(p)'
           S == MerchantsOf(p)
<1>7. /\ S \subseteq MerchantAddr
      /\ \A n \in MerchantAddr : f[n] \in Int /\ g[n] \in Int
      /\ \A n \in MerchantAddr : n # m => g[n] = f[n]
      /\ g[m] = f[m] + credit
  <2>1. \A n \in MerchantAddr : n # m => g[n] = f[n]
    BY <1>1, <1>2 DEF earnedBy
  <2>2. g[m] = f[m] + credit /\ f[m] \in Int
    BY <1>1, <1>6 DEF earnedBy
  <2>3. \A n \in MerchantAddr : f[n] \in Int
    BY <1>6 DEF earnedBy
  <2> QED
    BY <2>1, <2>2, <2>3 DEF MerchantsOf
<1>8. m \notin S => f[m] = 0
  BY <1>1 DEF MerchantsOf, earnedBy, CreditIInv, IInv, Solvent, EmptyBalance, BalanceAddr
<1> HIDE DEF f, g, S
<1>9. SumOver(g, S \cup {m}) = SumOver(f, S) + credit /\ SumOver(f, S) \in Int
  <2>1. /\ SumOver(f, S) \in Int
        /\ SumOver(g, S \cup {m}) = SumOver(f, S) + (g[m] - f[m])
    <3>1. /\ IsFiniteSet(S)
          /\ \A n \in S \cup {m} : f[n] \in Int /\ g[n] \in Int
          /\ \A n \in S : n # m => f[n] = g[n]
      BY <1>5, <1>7 DEF S
    <3> QED BY <1>8, <3>1, SumPut
  <2>2. g[m] - f[m] = credit
    BY <1>7
  <2> QED
    BY <2>1, <2>2
<1>10. passport'[p].streak_points <= SumOver(g, S \cup {m})
  <2>1. passport[p].streak_points <= SumOver(f, S)
    BY <1>1 DEF CreditIInv, StreakBackedByCredit, f, S
  <2>2. passport[p].streak_points \in Nat
    BY <1>1, NumbersAssumption DEF CreditIInv, IInv, TypeOK, PassportAccount, U64
  <2> QED
    BY <1>1, <1>9, <2>1, <2>2
<1>11. BalancesFinite'
  BY <1>3, <1>4, <1>5 DEF CreditIInv, BalancesFinite
<1>12. ASSUME NEW q \in PassportAddr, passport'[q] # NoAccount
       PROVE  passport'[q].streak_points <= SumOver(earnedBy(q)', MerchantsOf(q)')
  <2>1. CASE q = p
    BY <1>4, <1>10, <2>1 DEF f, g, S
  <2>2. CASE q # p
    BY <1>2, <1>3, <1>12, <2>2 DEF CreditIInv, StreakBackedByCredit
  <2> QED
    BY <2>1, <2>2
<1> QED
  BY <1>11, <1>12 DEF StreakBackedByCredit

\* A new passport has no streak and no balance, so nothing to back.
LEMMA CreatePassportCredit ==
  ASSUME CreditIInv, NEW h \in Customer, NEW c \in CoalitionAddr, NEW k \in MintKey,
         CreatePassport(h, c, k)
  PROVE  StreakBackedByCredit'
<1> DEFINE p == <<c, h>>
<1>1. /\ p \in PassportAddr
      /\ passport[p] = NoAccount
      /\ passport'[p].streak_points = 0
      /\ \A q \in PassportAddr : q # p => passport'[q] = passport[q]
      /\ UNCHANGED balance
  BY DEF CreatePassport, PassportAddr, CreditIInv, IInv, TypeOK
<1>2. MerchantsOf(p)' = {}
  BY <1>1 DEF MerchantsOf, CreditIInv, IInv, RelationshipsBound, BalanceAddr
<1>3. SumOver(earnedBy(p)', MerchantsOf(p)') = 0
  BY <1>2, SumEmpty
<1>4. ASSUME NEW q \in PassportAddr, passport'[q] # NoAccount
      PROVE  passport'[q].streak_points <= SumOver(earnedBy(q)', MerchantsOf(q)')
  <2>1. CASE q = p
    BY <1>1, <1>3, <2>1
  <2>2. CASE q # p
    <3>1. MerchantsOf(q)' = MerchantsOf(q) /\ earnedBy(q)' = earnedBy(q)
      BY <1>1 DEF MerchantsOf, earnedBy
    <3> QED
      BY <1>1, <1>4, <2>2, <3>1 DEF CreditIInv, StreakBackedByCredit
  <2> QED
    BY <2>1, <2>2
<1> QED
  BY <1>4 DEF StreakBackedByCredit

\* What leaves passports, earned units and versions alone leaves the sums alone.
LEMMA CreditUntouched ==
  ASSUME BalancesFinite, StreakBackedByCredit, UNCHANGED passport,
         \A b \in BalanceAddr : /\ balance'[b].earned_units = balance[b].earned_units
                                /\ balance'[b].version = balance[b].version
  PROVE  BalancesFinite' /\ StreakBackedByCredit'
<1>1. \A p \in PassportAddr :
        MerchantsOf(p)' = MerchantsOf(p) /\ earnedBy(p)' = earnedBy(p)
  BY DEF MerchantsOf, earnedBy, BalanceAddr
<1> QED
  BY <1>1 DEF BalancesFinite, StreakBackedByCredit

LEMMA NextCreditIInv == CreditIInv /\ [Next]_vars => CreditIInv'
<1> SUFFICES ASSUME CreditIInv, [Next]_vars PROVE CreditIInv'
  OBVIOUS
<1>1. IInv'
  BY NextIInv DEF CreditIInv
<1>2. CASE RecordAnyReceipt
  BY <1>1, <1>2, ReceiptCredit DEF RecordAnyReceipt, CreditIInv
<1>3. CASE CreateAnyPassport
  <2>1. BalancesFinite'
    BY <1>3 DEF CreateAnyPassport, CreatePassport, CreditIInv, BalancesFinite, MerchantsOf
  <2> QED
    BY <1>1, <1>3, <2>1, CreatePassportCredit DEF CreateAnyPassport, CreditIInv
<1>4. ASSUME UNCHANGED <<passport, balance>>
      PROVE  CreditIInv'
  BY <1>1, <1>4, CreditUntouched DEF CreditIInv
<1>5. CASE Configure \/ Environment \/ UNCHANGED vars
  BY <1>4, <1>5 DEF Configure, InitializeCoalition, RegisterMerchant, PauseCoalition,
     UnpauseCoalition, Environment, BurnCredential, SetClock, vars
<1>6. CASE RedeemAny
  <2>1. PICK h \in Customer, c \in CoalitionAddr, m \in MerchantAddr, p \in PassportAddr,
             a \in BalanceAddr, units \in U64 : Redeem(h, c, m, p, a, units)
    BY <1>6 DEF RedeemAny
  <2>2. UNCHANGED passport /\ balance' = [balance EXCEPT ![a].redeemed_units = @ + units]
    BY <2>1 DEF Redeem, apply_redemption, apply_redemption_accepts
  <2>3. \A b \in BalanceAddr : /\ balance'[b].earned_units = balance[b].earned_units
                               /\ balance'[b].version = balance[b].version
    BY <2>2 DEF CreditIInv, IInv, TypeOK, MerchantBalance
  <2> QED
    BY <1>1, <2>2, <2>3, CreditUntouched DEF CreditIInv
<1> QED
  BY <1>2, <1>3, <1>5, <1>6 DEF Next

LEMMA InitCreditIInv == Init => CreditIInv
<1> SUFFICES ASSUME Init PROVE BalancesFinite /\ StreakBackedByCredit
  BY InitIInv DEF CreditIInv
<1>1. \A p \in PassportAddr : MerchantsOf(p) = {} /\ passport[p] = NoAccount
  BY DEF Init, MerchantsOf, EmptyBalance, BalanceAddr
<1> QED
  BY <1>1, FS_EmptySet DEF BalancesFinite, StreakBackedByCredit

\* No streak is more than the credit that the merchants of its passport gave,
\* for any number of merchants.
THEOREM ReputationIsBacked == Spec => []StreakBackedByCredit
<1>1. CreditIInv => StreakBackedByCredit
  BY DEF CreditIInv
<1> QED
  BY <1>1, InitCreditIInv, NextCreditIInv, PTL DEF Spec

-----------------------------------------------------------------------------
(* What no instruction takes back *)

\* No account is ever closed, no configuration rewritten, no merchant changed,
\* and streak and nonces only grow.
LEMMA AccountsRemain ==
  ASSUME IInv, [Next]_vars
  PROVE  /\ \A c \in CoalitionAddr : coalition[c] # NoAccount =>
              /\ coalition'[c] # NoAccount
              /\ coalition'[c].tier_thresholds = coalition[c].tier_thresholds
         /\ \A m \in MerchantAddr : merchant[m] # NoAccount => merchant'[m] = merchant[m]
         /\ \A p \in PassportAddr : passport[p] # NoAccount =>
              /\ passport'[p] # NoAccount
              /\ passport'[p].streak_points >= passport[p].streak_points
         /\ \A b \in BalanceAddr :
              balance'[b].last_receipt_nonce >= balance[b].last_receipt_nonce
<1> DEFINE Grows ==
      /\ \A c \in CoalitionAddr : coalition[c] # NoAccount =>
           /\ coalition'[c] # NoAccount
           /\ coalition'[c].tier_thresholds = coalition[c].tier_thresholds
      /\ \A m \in MerchantAddr : merchant[m] # NoAccount => merchant'[m] = merchant[m]
      /\ \A p \in PassportAddr : passport[p] # NoAccount =>
           /\ passport'[p] # NoAccount
           /\ passport'[p].streak_points >= passport[p].streak_points
      /\ \A b \in BalanceAddr :
           balance'[b].last_receipt_nonce >= balance[b].last_receipt_nonce
<1>1. /\ \A p \in PassportAddr : passport[p] # NoAccount => passport[p].streak_points \in Nat
      /\ \A b \in BalanceAddr : balance[b].last_receipt_nonce \in Nat
  BY NumbersAssumption DEF IInv, TypeOK, PassportAccount, MerchantBalance, U64
<1>2. ASSUME NEW a \in Authority, NEW args \in CoalitionArgs, InitializeCoalition(a, args)
      PROVE  Grows
  BY <1>1, <1>2 DEF InitializeCoalition, CoalitionAddr, IInv, TypeOK
<1>3. ASSUME NEW a \in Authority, NEW c \in CoalitionAddr, NEW ma \in MerchantKey,
             NEW args \in MerchantArgs, RegisterMerchant(a, c, ma, args)
      PROVE  Grows
  BY <1>1, <1>3 DEF RegisterMerchant, MerchantAddr, IInv, TypeOK
<1>4. ASSUME NEW a \in Authority, NEW c \in CoalitionAddr,
             PauseCoalition(a, c) \/ UnpauseCoalition(a, c)
      PROVE  Grows
  <2>1. PICK x \in BOOLEAN : coalition' = [coalition EXCEPT ![c].paused = x]
    BY <1>4 DEF PauseCoalition, UnpauseCoalition, set_coalition_paused
  <2>2. coalition[c] \in CoalitionAccount
    BY <1>4 DEF PauseCoalition, UnpauseCoalition, GovernedBy, IInv, TypeOK
  <2>3. /\ coalition'[c] \in CoalitionAccount
        /\ coalition'[c].tier_thresholds = coalition[c].tier_thresholds
        /\ \A d \in CoalitionAddr : d # c => coalition'[d] = coalition[d]
        /\ UNCHANGED <<merchant, passport, balance>>
    BY <1>4, <2>1, <2>2 DEF PauseCoalition, UnpauseCoalition, IInv, TypeOK, CoalitionAccount
  <2>4. coalition'[c] # NoAccount
    BY <2>3, NoAccountAssumption
  <2> QED
    BY <1>1, <2>3, <2>4
<1>5. ASSUME CreateAnyPassport PROVE Grows
  <2>1. PICK h \in Customer, c \in CoalitionAddr, k \in MintKey : CreatePassport(h, c, k)
    BY <1>5 DEF CreateAnyPassport
  <2>2. /\ passport[<<c, h>>] = NoAccount
        /\ \A q \in PassportAddr : q # <<c, h>> => passport'[q] = passport[q]
        /\ UNCHANGED <<coalition, merchant, balance>>
    BY <2>1 DEF CreatePassport, PassportAddr, IInv, TypeOK
  <2>3. \A q \in PassportAddr : passport[q] # NoAccount => passport'[q] = passport[q]
    BY <2>2
  <2> QED
    BY <1>1, <2>2, <2>3
<1>6. ASSUME RecordAnyReceipt PROVE Grows
  <2>1. PICK c \in CoalitionAddr, ma \in MerchantKey, m \in MerchantAddr, p \in PassportAddr,
             b \in BalanceAddr, nonce \in U64, amount \in U64, hash \in ReceiptHash :
          RecordReceipt(ma, c, m, p, b, nonce, amount, hash)
    BY <1>6 DEF RecordAnyReceipt
  <2>2. PICK credit \in Nat, delta \in Nat, day \in Nat, today \in Nat :
          /\ nonce > balance[b].last_receipt_nonce
          /\ balance' = [balance EXCEPT ![b] =
               [passport |-> p, merchant |-> m,
                earned_units |-> balance[b].earned_units + credit,
                redeemed_units |-> balance[b].redeemed_units,
                earned_this_epoch |-> today + credit,
                cap_epoch |-> day, last_receipt_nonce |-> nonce,
                version |-> STATE_VERSION]]
          /\ passport' = [passport EXCEPT ![p] = passport'[p]]
          /\ passport[p] # NoAccount /\ passport'[p] # NoAccount
          /\ passport'[p].streak_points = passport[p].streak_points + delta
          /\ UNCHANGED <<coalition, merchant>>
    BY <2>1, ReceiptEffect
  <2>3. balance'[b].last_receipt_nonce = nonce /\ nonce \in Nat
    BY <2>2, NumbersAssumption DEF IInv, TypeOK, U64
  <2>4. balance'[b].last_receipt_nonce >= balance[b].last_receipt_nonce
    BY <1>1, <2>2, <2>3
  <2>5. passport'[p].streak_points >= passport[p].streak_points
    BY <1>1, <2>2
  <2>6. /\ \A a \in BalanceAddr : a # b => balance'[a] = balance[a]
        /\ \A q \in PassportAddr : q # p => passport'[q] = passport[q]
    BY <2>2 DEF IInv, TypeOK
  <2>7. /\ \A a \in BalanceAddr :
             balance'[a].last_receipt_nonce >= balance[a].last_receipt_nonce
        /\ \A q \in PassportAddr : passport[q] # NoAccount =>
             /\ passport'[q] # NoAccount
             /\ passport'[q].streak_points >= passport[q].streak_points
    BY <1>1, <2>2, <2>4, <2>5, <2>6
  <2> QED
    BY <2>2, <2>7
<1>7. ASSUME RedeemAny PROVE Grows
  <2>1. PICK h \in Customer, c \in CoalitionAddr, m \in MerchantAddr, p \in PassportAddr,
             a \in BalanceAddr, units \in U64 : Redeem(h, c, m, p, a, units)
    BY <1>7 DEF RedeemAny
  <2>2. /\ UNCHANGED <<coalition, merchant, passport>>
        /\ balance' = [balance EXCEPT ![a].redeemed_units = @ + units]
    BY <2>1 DEF Redeem, apply_redemption, apply_redemption_accepts
  <2>3. \A b \in BalanceAddr : balance'[b].last_receipt_nonce = balance[b].last_receipt_nonce
    BY <2>2 DEF IInv, TypeOK, MerchantBalance
  <2> QED
    BY <1>1, <2>2, <2>3
<1>8. ASSUME Environment \/ UNCHANGED vars PROVE Grows
  <2>1. UNCHANGED <<coalition, merchant, passport, balance>>
    BY <1>8 DEF Environment, BurnCredential, SetClock, vars
  <2> QED
    BY <1>1, <2>1
<1>9. Grows
  <2> HIDE DEF Grows
  <2> QED
    BY <1>2, <1>3, <1>4, <1>5, <1>6, <1>7, <1>8 DEF Next, Configure
<1> QED
  BY <1>9

===============================================================================
