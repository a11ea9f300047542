--------------------- MODULE CoalitionRefinement_proofs ----------------------
(***************************************************************************)
(* The program implements the ledger, and for every passport at once the   *)
(* rules of loyalty-core, whose errors it reports as its own.  It is       *)
(* implemented itself by create_passport call by call, with transactions   *)
(* in parallel.                                                            *)
(***************************************************************************)
EXTENDS CoalitionLedger, CoalitionCore, PassportMinting, CoalitionProgram_proofs

-----------------------------------------------------------------------------
(* The ledger *)

LEMMA LedgerInit == Init => Ledger!Init
<1> SUFFICES ASSUME Init PROVE Ledger!Init
  OBVIOUS
<1>1. creditOf = [a \in PassportAddr \X MerchantAddr |-> 0]
  BY DEF Init, creditOf, available_units, EmptyBalance, BalanceAddr
<1>2. reputationOf = [h \in PassportAddr |-> 0]
  BY DEF Init, reputationOf
<1> QED
  BY <1>1, <1>2 DEF Ledger!Init

\* A receipt is an issue by its own merchant to its own passport.
LEMMA ReceiptMapsToIssue ==
  ASSUME IInv, RecordAnyReceipt
  PROVE  Ledger!Next
<1>1. PICK c \in CoalitionAddr, ma \in MerchantKey, m \in MerchantAddr, p \in PassportAddr,
           b \in BalanceAddr, nonce \in U64, amount \in U64, hash \in ReceiptHash :
        RecordReceipt(ma, c, m, p, b, nonce, amount, hash)
  BY DEF RecordAnyReceipt
<1>2. PICK credit \in Nat, delta \in Nat, day \in Nat, today \in Nat :
        /\ credit >= 1 /\ delta >= 1 /\ delta <= credit
        /\ balance[b].earned_units + credit \in U64
        /\ b = <<p, m>>
        /\ passport[p] # NoAccount
        /\ balance' = [balance EXCEPT ![b] =
             [passport |-> p, merchant |-> m,
              earned_units |-> balance[b].earned_units + credit,
              redeemed_units |-> balance[b].redeemed_units,
              earned_this_epoch |-> today + credit,
              cap_epoch |-> day, last_receipt_nonce |-> nonce, version |-> STATE_VERSION]]
        /\ passport' = [passport EXCEPT ![p] = passport'[p]]
        /\ passport'[p] # NoAccount
        /\ passport'[p].streak_points = passport[p].streak_points + delta
  BY <1>1, ReceiptEffect
<1>3. balance[b] \in MerchantBalance
  BY DEF IInv, TypeOK
<1>4. credit \in U64 \ {0} /\ delta \in U64 \ {0}
  BY <1>2, <1>3, NumbersAssumption DEF MerchantBalance, U64
<1>5. creditOf' = [creditOf EXCEPT ![<<p, m>>] = @ + credit]
  <2>1. /\ balance'[b].earned_units = balance[b].earned_units + credit
        /\ balance'[b].redeemed_units = balance[b].redeemed_units
        /\ \A a \in BalanceAddr : a # b => balance'[a] = balance[a]
    BY <1>2 DEF IInv, TypeOK
  <2>2. balance[b].earned_units \in Int /\ balance[b].redeemed_units \in Int
    BY <1>3, NumbersAssumption DEF MerchantBalance, U64
  <2>3. (balance[b].earned_units + credit) - balance[b].redeemed_units
          = (balance[b].earned_units - balance[b].redeemed_units) + credit
    BY <1>2, <2>2
  <2>4. creditOf'[b] = creditOf[b] + credit
    BY <2>1, <2>3 DEF creditOf, available_units
  <2>5. \A a \in BalanceAddr : a # b => creditOf'[a] = creditOf[a]
    BY <2>1 DEF creditOf, available_units
  <2>6. /\ creditOf = [a \in BalanceAddr |-> creditOf[a]]
        /\ creditOf' = [a \in BalanceAddr |-> creditOf'[a]]
    BY DEF creditOf
  <2>7. creditOf' = [creditOf EXCEPT ![b] = @ + credit]
    BY <2>4, <2>5, <2>6
  <2> QED
    BY <1>2, <2>7
<1>6. reputationOf' = [reputationOf EXCEPT ![p] = @ + delta]
  <2>1. \A q \in PassportAddr : q # p => passport'[q] = passport[q]
    BY <1>2 DEF IInv, TypeOK
  <2> QED
    BY <1>2, <2>1 DEF reputationOf
<1>7. Ledger!Issue(p, m, credit, delta)
  BY <1>2, <1>5, <1>6 DEF Ledger!Issue
<1> QED
  BY <1>4, <1>7 DEF Ledger!Next

\* A redemption is a spend of what is there, with the merchant that issued it.
LEMMA RedeemMapsToSpend ==
  ASSUME IInv, RedeemAny
  PROVE  Ledger!Next
<1>1. PICK h \in Customer, c \in CoalitionAddr, m \in MerchantAddr, p \in PassportAddr,
           b \in BalanceAddr, units \in U64 : Redeem(h, c, m, p, b, units)
  BY DEF RedeemAny
<1>2. /\ b = <<p, m>>
      /\ units > 0
      /\ units <= balance[b].earned_units - balance[b].redeemed_units
      /\ balance' = [balance EXCEPT ![b].redeemed_units = @ + units]
      /\ UNCHANGED passport
  BY <1>1 DEF Redeem, RedeemBalanceConstraint, apply_redemption, apply_redemption_accepts,
     SufficientCredit, available_units
<1>3. balance[b] \in MerchantBalance
  BY DEF IInv, TypeOK
<1>4. creditOf' = [creditOf EXCEPT ![<<p, m>>] = @ - units]
  <2>1. /\ balance'[b].earned_units = balance[b].earned_units
        /\ balance'[b].redeemed_units = balance[b].redeemed_units + units
        /\ \A a \in BalanceAddr : a # b => balance'[a] = balance[a]
    BY <1>2, <1>3 DEF IInv, TypeOK, MerchantBalance
  <2>2. /\ balance[b].earned_units \in Int /\ balance[b].redeemed_units \in Int
        /\ units \in Int
    BY <1>3, NumbersAssumption DEF MerchantBalance, U64
  <2>3. balance[b].earned_units - (balance[b].redeemed_units + units)
          = (balance[b].earned_units - balance[b].redeemed_units) - units
    BY <2>2
  <2>4. creditOf'[b] = creditOf[b] - units
    BY <2>1, <2>3 DEF creditOf, available_units
  <2>5. \A a \in BalanceAddr : a # b => creditOf'[a] = creditOf[a]
    BY <2>1 DEF creditOf, available_units
  <2>6. /\ creditOf = [a \in BalanceAddr |-> creditOf[a]]
        /\ creditOf' = [a \in BalanceAddr |-> creditOf'[a]]
    BY DEF creditOf
  <2>7. creditOf' = [creditOf EXCEPT ![b] = @ - units]
    BY <2>4, <2>5, <2>6
  <2> QED
    BY <1>2, <2>7
<1>5. units <= creditOf[<<p, m>>]
  BY <1>2 DEF creditOf, available_units
<1>6. UNCHANGED reputationOf
  BY <1>2 DEF reputationOf
<1>7. Ledger!Spend(p, m, units)
  BY <1>4, <1>5, <1>6 DEF Ledger!Spend
<1>8. units \in U64 \ {0}
  BY <1>2, NumbersAssumption DEF U64
<1> QED
  BY <1>7, <1>8 DEF Ledger!Next

\* Everything else leaves the ledger alone; a new passport starts at zero.
LEMMA OthersStutter ==
  ASSUME IInv, Configure \/ CreateAnyPassport \/ Environment
  PROVE  UNCHANGED <<creditOf, reputationOf>>
<1>1. UNCHANGED balance
  BY DEF Configure, InitializeCoalition, RegisterMerchant, PauseCoalition, UnpauseCoalition,
     CreateAnyPassport, CreatePassport, Environment, BurnCredential, SetClock
<1>2. UNCHANGED creditOf
  BY <1>1 DEF creditOf, available_units
<1>3. CASE UNCHANGED passport
  BY <1>2, <1>3 DEF reputationOf
<1>4. CASE CreateAnyPassport
  <2>1. PICK h \in Customer, c \in CoalitionAddr, k \in MintKey : CreatePassport(h, c, k)
    BY <1>4 DEF CreateAnyPassport
  <2> DEFINE q == <<c, h>>
  <2>2. /\ q \in PassportAddr
        /\ passport[q] = NoAccount
        /\ passport'[q].streak_points = 0
        /\ \A p \in PassportAddr : p # q => passport'[p] = passport[p]
    BY <2>1 DEF CreatePassport, PassportAddr, IInv, TypeOK
  <2> HIDE DEF q
  <2>3. reputationOf' = reputationOf
    BY <2>2 DEF reputationOf
  <2> QED
    BY <1>2, <2>3
<1> QED
  BY <1>3, <1>4 DEF Configure, InitializeCoalition, RegisterMerchant, PauseCoalition,
     UnpauseCoalition, Environment, BurnCredential, SetClock

\* The program implements the ledger of isolated credit and unspendable
\* reputation, for every set of wallets, merchants and clock values.
THEOREM ProgramImplementsLedger == Spec => ImplementsLedger
<1>1. IInv /\ [Next]_vars => [Ledger!Next]_(Ledger!ledger)
  <2> SUFFICES ASSUME IInv, [Next]_vars PROVE [Ledger!Next]_(Ledger!ledger)
    OBVIOUS
  <2>1. CASE RecordAnyReceipt
    BY <2>1, ReceiptMapsToIssue
  <2>2. CASE RedeemAny
    BY <2>2, RedeemMapsToSpend
  <2>3. CASE Configure \/ CreateAnyPassport \/ Environment
    BY <2>3, OthersStutter DEF Ledger!ledger
  <2>4. CASE UNCHANGED vars
    BY <2>4 DEF vars, Ledger!ledger, creditOf, reputationOf, available_units
  <2> QED
    BY <2>1, <2>2, <2>3, <2>4 DEF Next
<1> QED
  BY <1>1, LedgerInit, Invariance, PTL DEF Spec, ImplementsLedger, Ledger!Spec

-----------------------------------------------------------------------------
(* The same numbers *)

\* The fields of a balance that the crate keeps too.
EntryOf(b) ==
  [earned_units |-> balance[b].earned_units,
   redeemed_units |-> balance[b].redeemed_units,
   earned_this_epoch |-> balance[b].earned_this_epoch,
   cap_epoch |-> balance[b].cap_epoch,
   last_receipt_nonce |-> balance[b].last_receipt_nonce]

\* A balance account is an entry of the crate's map, and a balance account that
\* is not there is a missing entry.
LEMMA CoreEntry ==
  ASSUME IInv, NEW p \in PassportAddr, NEW m \in MerchantAddr
  PROVE  /\ EntryOf(<<p, m>>) \in Core(p)!MerchantBalance
         /\ coreBalance(<<p, m>>) = NoAccount <=> balance[<<p, m>>].version = 0
         /\ Core(p)!balance_for(m) = EntryOf(<<p, m>>)
<1> DEFINE b == <<p, m>>
<1>1. b \in BalanceAddr /\ balance[b] \in MerchantBalance
  BY DEF BalanceAddr, IInv, TypeOK
<1>2. EntryOf(b) \in Core(p)!MerchantBalance
  BY <1>1 DEF EntryOf, MerchantBalance, Core!MerchantBalance, U64, Core!U64
<1>3. coreBalance(b) = IF balance[b].version = 0 THEN NoAccount ELSE EntryOf(b)
  BY DEF coreBalance, EntryOf
<1>4. EntryOf(b) # NoAccount
  BY <1>2, NoEntryAssumption
<1>5. balance[b].version = 0 => EntryOf(b) = Core(p)!Default
  <2>1. balance[b].version = 0 => balance[b] = EmptyBalance
    BY <1>1 DEF IInv, Solvent
  <2> QED
    BY <2>1 DEF EntryOf, EmptyBalance, Core!Default
<1>6. Core(p)!balance_for(m) =
        IF coreBalance(b) = NoAccount THEN Core(p)!Default ELSE coreBalance(b)
  BY DEF Core!balance_for
<1> QED
  BY <1>2, <1>3, <1>4, <1>5, <1>6

\* The counter of the day is never past the cap, so the crate's saturating
\* subtraction is the program's subtraction; credit and streak agree.
LEMMA CoreNumbers ==
  ASSUME IInv, NEW p \in PassportAddr, NEW m \in MerchantAddr, merchant[m] # NoAccount,
         NEW day \in Nat
  PROVE  /\ Core(p)!earned_this_epoch(m, day) = earned_this_epoch(<<p, m>>, day)
         /\ earned_this_epoch(<<p, m>>, day) \in Nat
         /\ cap_remaining(m, <<p, m>>, day) \in Nat
         /\ Core(p)!remaining_cap(CoreMerchant(m), day) = cap_remaining(m, <<p, m>>, day)
         /\ \A amount : Core(p)!raw_credit(CoreMerchant(m), amount) = raw_credit(m, amount)
         /\ \A amount : Core(p)!credit_units(CoreMerchant(m), amount, day) =
                          credit_units(m, <<p, m>>, amount, day)
         /\ \A c, credit : Core(p)!streak_delta(credit, CoreRules(c)) = streak_delta(c, credit)
<1> DEFINE b == <<p, m>>
           today == earned_this_epoch(b, day)
<1>1. /\ b \in BalanceAddr /\ b[2] = m
      /\ balance[b] \in MerchantBalance
      /\ merchant[m] \in MerchantAccount
  BY DEF BalanceAddr, IInv, TypeOK
<1>2. Core(p)!balance_for(m) = EntryOf(b)
  BY CoreEntry
<1>3. Core(p)!earned_this_epoch(m, day) = today
  <2>1. balance[b].version = 0 => balance[b].earned_this_epoch = 0
    BY <1>1 DEF IInv, Solvent, EmptyBalance
  <2> QED
    BY <1>2, <2>1 DEF Core!earned_this_epoch, earned_this_epoch, EntryOf
<1>4. today \in Nat /\ merchant[m].daily_cap \in Nat /\ today <= merchant[m].daily_cap
  <2>1. /\ balance[b].earned_this_epoch \in Nat
        /\ merchant[m].daily_cap \in Nat
    BY <1>1, NumbersAssumption DEF MerchantBalance, MerchantAccount, U64
  <2>2. balance[b].version # 0 => balance[b].earned_this_epoch <= merchant[m].daily_cap
    BY <1>1, <2>1 DEF IInv, CapRespected
  <2> QED
    BY <2>1, <2>2 DEF earned_this_epoch
<1> HIDE DEF today
<1>5. cap_remaining(m, b, day) = merchant[m].daily_cap - today
  BY DEF cap_remaining, today
<1>6. /\ CoreMerchant(m).id = m
      /\ CoreMerchant(m).earn_bps = merchant[m].earn_bps
      /\ CoreMerchant(m).daily_cap = merchant[m].daily_cap
  BY DEF CoreMerchant
<1>7. Core(p)!remaining_cap(CoreMerchant(m), day) = cap_remaining(m, b, day)
  BY <1>3, <1>4, <1>5, <1>6 DEF Core!remaining_cap, Core!saturating_sub
<1>8. \A amount : Core(p)!raw_credit(CoreMerchant(m), amount) = raw_credit(m, amount)
  BY <1>6 DEF Core!raw_credit, raw_credit
<1>9. \A amount : Core(p)!credit_units(CoreMerchant(m), amount, day) =
                    credit_units(m, b, amount, day)
  BY <1>7, <1>8 DEF Core!credit_units, credit_units, Core!Smaller, Smaller
<1>10. \A c, credit : Core(p)!streak_delta(credit, CoreRules(c)) = streak_delta(c, credit)
  BY DEF Core!streak_delta, streak_delta, Core!Smaller, Smaller, CoreRules
<1>11. cap_remaining(m, b, day) \in Nat
  BY <1>4, <1>5
<1> QED
  BY <1>3, <1>4, <1>7, <1>8, <1>9, <1>10, <1>11 DEF today

LEMMA CoreCredit ==
  ASSUME IInv, NEW p \in PassportAddr, NEW m \in MerchantAddr, merchant[m] # NoAccount,
         NEW day \in Nat, NEW amount
  PROVE  Core(p)!credit_units(CoreMerchant(m), amount, day) = credit_units(m, <<p, m>>, amount, day)
<1>1. \A units : Core(p)!credit_units(CoreMerchant(m), units, day) =
                   credit_units(m, <<p, m>>, units, day)
  BY CoreNumbers
<1> QED
  BY <1>1

LEMMA CoreDelta ==
  ASSUME NEW p, NEW c, NEW credit
  PROVE  Core(p)!streak_delta(credit, CoreRules(c)) = streak_delta(c, credit)
BY DEF Core!streak_delta, streak_delta, Core!Smaller, Smaller, CoreRules

\* What an account was configured with, the crate's constructors accept.
LEMMA CoreConfig ==
  ASSUME TypeOK, ConfigAccepted, NEW p \in PassportAddr
  PROVE  /\ \A m \in MerchantAddr : merchant[m] # NoAccount => CoreMerchant(m) \in Core(p)!Merchant
         /\ \A c \in CoalitionAddr : coalition[c] # NoAccount => CoreRules(c) \in Core(p)!CoalitionRules
<1>1. ASSUME NEW m \in MerchantAddr, merchant[m] # NoAccount
      PROVE  CoreMerchant(m) \in Core(p)!Merchant
  <2>1. PICK args \in MerchantArgs :
          /\ validate_merchant_config(args.earn_bps, args.daily_cap)
          /\ merchant[m].earn_bps = args.earn_bps
          /\ merchant[m].daily_cap = args.daily_cap
    BY <1>1 DEF ConfigAccepted
  <2> QED
    BY <2>1 DEF CoreMerchant, Core!Merchant, validate_merchant_config
<1>2. ASSUME NEW c \in CoalitionAddr, coalition[c] # NoAccount
      PROVE  CoreRules(c) \in Core(p)!CoalitionRules
  <2>1. PICK args \in CoalitionArgs :
          /\ validate_coalition_config(args.max_receipt_units, args.tier_thresholds)
          /\ coalition[c].max_receipt_units = args.max_receipt_units
          /\ coalition[c].tier_thresholds = args.tier_thresholds
    BY <1>2 DEF ConfigAccepted
  <2> DEFINE tiers == args.tier_thresholds
  <2>2. tiers \in Seq(Nat) /\ args.max_receipt_units \in Nat
    BY ArgsAssumption, NumbersAssumption DEF U64
  <2>3. /\ Len(tiers) \in 1 .. MAX_TIERS
        /\ tiers[1] > 0
        /\ StrictlyIncreasing(tiers)
        /\ args.max_receipt_units > 0
    BY <2>1 DEF validate_coalition_config, TiersInOrder
  <2>4. CoreRules(c) = [max_receipt_units |-> args.max_receipt_units, thresholds |-> tiers]
    BY <2>1 DEF CoreRules
  <2> HIDE DEF tiers
  <2>5. \A i \in DOMAIN tiers : tiers[i] # 0
    <3> SUFFICES ASSUME NEW i \in 1 .. Len(tiers) PROVE tiers[i] # 0
      BY <2>2
    <3>1. tiers[i] \in Nat /\ tiers[1] \in Nat /\ 1 \in 1 .. i
      BY <2>2, <2>3
    <3>2. tiers[i] >= tiers[1]
      BY <2>2, <2>3, <3>1, ReachedIsPrefix
    <3> QED
      BY <2>3, <3>1, <3>2
  <2>6. Core(p)!TierSchedule(tiers)
    BY <2>2, <2>3, <2>5, NumbersAssumption, TierCountAssumption
       DEF Core!TierSchedule, StrictlyIncreasing
  <2> QED
    BY <2>2, <2>3, <2>4, <2>6 DEF Core!CoalitionRules, tiers
<1> QED
  BY <1>1, <1>2

-----------------------------------------------------------------------------
(* The same steps *)

\* What a passport shows the crate; an absent one shows zeros.
VisitsOf(p) == IF passport[p] = NoAccount THEN 0 ELSE passport[p].total_visits
StreakOf(p) == IF passport[p] = NoAccount THEN 0 ELSE passport[p].streak_points
EntriesOf(p) == [m \in MerchantAddr |-> coreBalance(<<p, m>>)]

\* Nothing of the crate's state of a passport changes when its account and its
\* balances do not.
LEMMA CoreUntouched ==
  ASSUME NEW p \in PassportAddr,
         VisitsOf(p)' = VisitsOf(p), StreakOf(p)' = StreakOf(p),
         \A m \in MerchantAddr : coreBalance(<<p, m>>)' = coreBalance(<<p, m>>)
  PROVE  UNCHANGED Core(p)!core
<1>1. EntriesOf(p)' = EntriesOf(p)
  BY DEF EntriesOf
<1> QED
  BY <1>1 DEF Core!core, VisitsOf, StreakOf, EntriesOf

\* A balance that changes is the entry that changes.
LEMMA EntriesUpdated ==
  ASSUME NEW p \in PassportAddr, NEW m \in MerchantAddr,
         \A n \in MerchantAddr : n # m => coreBalance(<<p, n>>)' = coreBalance(<<p, n>>)
  PROVE  EntriesOf(p)' = [EntriesOf(p) EXCEPT ![m] = coreBalance(<<p, m>>)']
BY DEF EntriesOf

\* A receipt is an accepted accrue call on its passport.
LEMMA ReceiptMapsToAccrue ==
  ASSUME IInv, IInv', ConfigAccepted, NEW c \in CoalitionAddr, NEW ma \in MerchantKey,
         NEW m \in MerchantAddr, NEW p \in PassportAddr, NEW b \in BalanceAddr,
         NEW nonce \in U64, NEW amount \in U64, NEW hash \in ReceiptHash,
         RecordReceipt(ma, c, m, p, b, nonce, amount, hash)
  PROVE  Core(p)!Next
<1> DEFINE day == current_day_epoch
           credit == credit_units(m, b, amount, day)
           delta == streak_delta(c, credit)
<1>1. /\ coalition[c] # NoAccount /\ merchant[m] # NoAccount /\ passport[p] # NoAccount
      /\ b = <<p, m>>
      /\ apply_receipt_accepts(c, m, p, b, nonce, amount, day)
      /\ balance' = [balance EXCEPT ![b] =
                [passport |-> p, merchant |-> m,
                 earned_units |-> balance[b].earned_units + credit,
                 redeemed_units |-> balance[b].redeemed_units,
                 earned_this_epoch |-> earned_this_epoch(b, day) + credit,
                 cap_epoch |-> day, last_receipt_nonce |-> nonce,
                 version |-> STATE_VERSION]]
      /\ passport' = [passport EXCEPT ![p].total_visits = @ + 1, ![p].streak_points = @ + delta]
  BY DEF RecordReceipt, CoalitionConstraint, MerchantConstraint, PassportConstraint,
     BalanceSeeds, apply_receipt
<1>2. day \in Nat /\ day \in Day
  <2>1. day \in Nat
    BY DayInt DEF RecordReceipt, IInv, TypeOK
  <2> QED
    BY <2>1 DEF Day, current_day_epoch, IInv, TypeOK
<1>3. /\ amount > 0
      /\ nonce > balance[b].last_receipt_nonce
      /\ raw_credit(m, amount) > 0
      /\ cap_remaining(m, b, day) > 0
      /\ amount * merchant[m].earn_bps \in U64
      /\ balance[b].earned_units + credit \in U64
      /\ earned_this_epoch(b, day) + credit \in U64
      /\ passport[p].total_visits + 1 \in U64
      /\ passport[p].streak_points + delta \in U64
  BY <1>1 DEF apply_receipt_accepts, ReceiptInOrder, ArithmeticFits
<1>4. /\ Core(p)!balance_for(m) = EntryOf(b)
      /\ Core(p)!earned_this_epoch(m, day) = earned_this_epoch(b, day)
      /\ Core(p)!remaining_cap(CoreMerchant(m), day) = cap_remaining(m, b, day)
      /\ Core(p)!credit_units(CoreMerchant(m), amount, day) = credit
      /\ Core(p)!streak_delta(credit, CoreRules(c)) = delta
  BY <1>1, <1>2, CoreEntry, CoreNumbers
<1>5. CoreMerchant(m) \in Core(p)!Merchant /\ CoreRules(c) \in Core(p)!CoalitionRules
  BY <1>1, CoreConfig DEF IInv
<1>6. /\ CoreMerchant(m).id = m
      /\ CoreMerchant(m).earn_bps = merchant[m].earn_bps
  BY DEF CoreMerchant
<1>7. credit > 0
  BY <1>3 DEF credit_units, Smaller
<1> HIDE DEF day, credit, delta
<1>8. /\ VisitsOf(p) = passport[p].total_visits
      /\ StreakOf(p) = passport[p].streak_points
  BY <1>1 DEF VisitsOf, StreakOf
<1>9. /\ VisitsOf(p)' = passport[p].total_visits + 1
      /\ StreakOf(p)' = passport[p].streak_points + delta
  <2>1. passport'[p] # NoAccount
    BY ReceiptEffect
  <2>2. passport[p] \in PassportAccount
    BY <1>1 DEF IInv, TypeOK
  <2>3. /\ passport'[p].total_visits = passport[p].total_visits + 1
        /\ passport'[p].streak_points = passport[p].streak_points + delta
    BY <1>1, <2>2 DEF IInv, TypeOK, PassportAccount
  <2> QED
    BY <2>1, <2>3 DEF VisitsOf, StreakOf
<1>10. EntriesOf(p)' =
         [EntriesOf(p) EXCEPT ![m] =
            [earned_units |-> EntryOf(b).earned_units + credit,
             redeemed_units |-> EntryOf(b).redeemed_units,
             earned_this_epoch |-> earned_this_epoch(b, day) + credit,
             cap_epoch |-> day,
             last_receipt_nonce |-> nonce]]
  <2>1. \A n \in MerchantAddr : n # m => balance'[<<p, n>>] = balance[<<p, n>>]
    BY <1>1 DEF IInv, TypeOK, BalanceAddr
  <2>2. \A n \in MerchantAddr : n # m => coreBalance(<<p, n>>)' = coreBalance(<<p, n>>)
    BY <2>1 DEF coreBalance
  <2>3. balance'[b] =
          [passport |-> p, merchant |-> m,
           earned_units |-> balance[b].earned_units + credit,
           redeemed_units |-> balance[b].redeemed_units,
           earned_this_epoch |-> earned_this_epoch(b, day) + credit,
           cap_epoch |-> day, last_receipt_nonce |-> nonce,
           version |-> STATE_VERSION]
    BY <1>1 DEF IInv, TypeOK
  <2>4. coreBalance(<<p, m>>)' =
          [earned_units |-> balance[b].earned_units + credit,
           redeemed_units |-> balance[b].redeemed_units,
           earned_this_epoch |-> earned_this_epoch(b, day) + credit,
           cap_epoch |-> day,
           last_receipt_nonce |-> nonce]
    BY <1>1, <2>3 DEF coreBalance, STATE_VERSION
  <2>5. /\ EntryOf(b).earned_units = balance[b].earned_units
        /\ EntryOf(b).redeemed_units = balance[b].redeemed_units
    BY DEF EntryOf
  <2> QED
    BY <2>2, <2>4, <2>5, EntriesUpdated
<1>11. Core(p)!Checked(CoreMerchant(m), amount, day, CoreRules(c))
  BY <1>1, <1>3, <1>4, <1>6, <1>8
     DEF Core!Checked, Core!U64, U64, VisitsOf, StreakOf, EntryOf
<1>12. Core(p)!NonceFresh(CoreMerchant(m), nonce, day)
  BY <1>3, <1>4, <1>6 DEF Core!NonceFresh, EntryOf
<1>13. Core(p)!Accrue(CoreMerchant(m), nonce, amount, day, CoreRules(c))
  BY <1>3, <1>4, <1>6, <1>7, <1>8, <1>9, <1>10, <1>11, <1>12
     DEF Core!Accrue, VisitsOf, StreakOf, EntriesOf
<1>14. PICK epoch \in Day : epoch = day
  BY <1>2
<1>15. Core(p)!Accrue(CoreMerchant(m), nonce, amount, epoch, CoreRules(c))
  BY <1>13, <1>14
<1>16. Core(p)!AccrueAt(epoch)
  BY <1>5, <1>15 DEF Core!AccrueAt, Core!U64, U64
<1> QED
  BY <1>16 DEF Core!Next

\* A receipt or a redemption leaves every other passport alone.
LEMMA OthersUntouched ==
  ASSUME TypeOK, NEW p \in PassportAddr, NEW m \in MerchantAddr,
         balance' = [balance EXCEPT ![<<p, m>>] = balance'[<<p, m>>]],
         passport' = [passport EXCEPT ![p] = passport'[p]],
         NEW q \in PassportAddr, q # p
  PROVE  UNCHANGED Core(q)!core
<1>1. passport'[q] = passport[q]
  BY DEF TypeOK
<1>2. \A n \in MerchantAddr : balance'[<<q, n>>] = balance[<<q, n>>]
  BY DEF TypeOK, BalanceAddr
<1>3. VisitsOf(q)' = VisitsOf(q) /\ StreakOf(q)' = StreakOf(q)
  BY <1>1 DEF VisitsOf, StreakOf
<1>4. \A n \in MerchantAddr : coreBalance(<<q, n>>)' = coreBalance(<<q, n>>)
  BY <1>2 DEF coreBalance
<1> QED
  BY <1>3, <1>4, CoreUntouched

\* A redemption is an accepted redeem call on its passport.
LEMMA RedemptionMapsToRedeem ==
  ASSUME IInv, NEW h \in Customer, NEW c \in CoalitionAddr, NEW m \in MerchantAddr,
         NEW p \in PassportAddr, NEW b \in BalanceAddr, NEW units \in U64,
         Redeem(h, c, m, p, b, units)
  PROVE  Core(p)!Next
<1>1. /\ b = <<p, m>>
      /\ balance[b] \in MerchantBalance
      /\ balance[b].version # 0
      /\ units > 0
      /\ units <= balance[b].earned_units - balance[b].redeemed_units
      /\ balance[b].redeemed_units + units \in U64
      /\ balance' = [balance EXCEPT ![b].redeemed_units = @ + units]
      /\ UNCHANGED passport
  BY DEF Redeem, RedeemBalanceConstraint, apply_redemption, apply_redemption_accepts,
     SufficientCredit, available_units, IInv, TypeOK
<1>2. /\ coreBalance(b) = EntryOf(b)
      /\ coreBalance(b) # NoAccount
      /\ Core(p)!balance_for(m) = EntryOf(b)
  BY <1>1, CoreEntry DEF coreBalance, EntryOf
<1>3. Core(p)!Available(m, units)
  <2>1. /\ EntryOf(b).earned_units = balance[b].earned_units
        /\ EntryOf(b).redeemed_units = balance[b].redeemed_units
    BY DEF EntryOf
  <2>2. balance[b].earned_units \in Nat /\ balance[b].redeemed_units \in Nat /\ units \in Nat
    BY <1>1, NumbersAssumption DEF MerchantBalance, U64
  <2> QED
    BY <1>1, <1>2, <2>1, <2>2
       DEF Core!Available, Core!available_units, Core!saturating_sub
<1>4. EntriesOf(p)[m] = EntryOf(b)
  BY <1>1, <1>2 DEF EntriesOf
<1>5. coreBalance(b)' = [EntryOf(b) EXCEPT !.redeemed_units = @ + units]
  <2>1. balance'[b] = [balance[b] EXCEPT !.redeemed_units = @ + units]
    BY <1>1 DEF IInv, TypeOK
  <2>2. /\ balance'[b].earned_units = balance[b].earned_units
        /\ balance'[b].redeemed_units = balance[b].redeemed_units + units
        /\ balance'[b].earned_this_epoch = balance[b].earned_this_epoch
        /\ balance'[b].cap_epoch = balance[b].cap_epoch
        /\ balance'[b].last_receipt_nonce = balance[b].last_receipt_nonce
        /\ balance'[b].version # 0
    BY <1>1, <2>1 DEF MerchantBalance
  <2> QED
    BY <2>2 DEF coreBalance, EntryOf
<1>6. \A n \in MerchantAddr : n # m => coreBalance(<<p, n>>)' = coreBalance(<<p, n>>)
  BY <1>1 DEF coreBalance, IInv, TypeOK, BalanceAddr
<1>7. EntriesOf(p)' = [EntriesOf(p) EXCEPT ![m] = coreBalance(b)']
  BY <1>1, <1>6, EntriesUpdated
<1>8. EntriesOf(p)' = [EntriesOf(p) EXCEPT ![m].redeemed_units = @ + units]
  BY <1>4, <1>5, <1>7
<1>9. VisitsOf(p)' = VisitsOf(p) /\ StreakOf(p)' = StreakOf(p)
  BY <1>1 DEF VisitsOf, StreakOf
<1>10. EntriesOf(p)[m] # NoAccount /\ EntriesOf(p)[m].redeemed_units + units \in U64
  BY <1>1, <1>2, <1>4 DEF EntryOf
<1>11. Core(p)!Redeem(m, units)
  BY <1>1, <1>3, <1>8, <1>9, <1>10 DEF Core!Redeem, Core!U64, U64, EntriesOf, VisitsOf, StreakOf
<1>12. Core(p)!RedeemAny
  BY <1>11 DEF Core!RedeemAny, Core!U64, U64
<1> QED
  BY <1>12 DEF Core!Next

\* Configuration, the clock and burning are not seen by the crate, and a new
\* passport is Passport::new, which an absent one was already.
LEMMA OtherStepsStutter ==
  ASSUME IInv, Configure \/ CreateAnyPassport \/ Environment \/ UNCHANGED vars,
         NEW p \in PassportAddr
  PROVE  UNCHANGED Core(p)!core
<1>1. CASE UNCHANGED <<passport, balance>>
  BY <1>1, CoreUntouched DEF VisitsOf, StreakOf, coreBalance
<1>2. CASE Configure \/ Environment \/ UNCHANGED vars
  BY <1>1, <1>2 DEF Configure, InitializeCoalition, RegisterMerchant, PauseCoalition,
     UnpauseCoalition, Environment, BurnCredential, SetClock, vars
<1>3. CASE CreateAnyPassport
  <2>1. PICK h \in Customer, c \in CoalitionAddr, k \in MintKey : CreatePassport(h, c, k)
    BY <1>3 DEF CreateAnyPassport
  <2> DEFINE q == <<c, h>>
             fresh == [coalition |-> c, customer |-> h, passport_mint |-> k,
                       total_visits |-> 0, streak_points |-> 0]
  <2>2. /\ passport[q] = NoAccount
        /\ passport' = [passport EXCEPT ![q] = fresh]
        /\ UNCHANGED balance
    BY <2>1 DEF CreatePassport
  <2>3. fresh # NoAccount
    <3>1. fresh \in PassportAccount
      BY NumbersAssumption DEF PassportAccount, U64
    <3> QED
      BY <3>1, NoAccountAssumption
  <2>4. passport'[p] = IF p = q THEN fresh ELSE passport[p]
    BY <2>2 DEF IInv, TypeOK
  <2>5. VisitsOf(p)' = VisitsOf(p) /\ StreakOf(p)' = StreakOf(p)
    BY <2>2, <2>3, <2>4 DEF VisitsOf, StreakOf
  <2>6. \A n \in MerchantAddr : coreBalance(<<p, n>>)' = coreBalance(<<p, n>>)
    BY <2>2 DEF coreBalance
  <2> QED
    BY <2>5, <2>6, CoreUntouched
<1> QED
  BY <1>2, <1>3

-----------------------------------------------------------------------------

\* Whatever the clients send, the accounts of every passport go through states
\* that the crate's Passport can go through, by accepted calls of the crate.
THEOREM ProgramImplementsCore == Spec => ImplementsCore
<1>1. Init => \A p \in PassportAddr : Core(p)!Init
  <2> SUFFICES ASSUME Init, NEW p \in PassportAddr PROVE Core(p)!Init
    OBVIOUS
  <2>1. passport[p] = NoAccount
    BY DEF Init
  <2>2. \A m \in MerchantAddr : coreBalance(<<p, m>>) = NoAccount
    BY DEF Init, coreBalance, EmptyBalance, BalanceAddr
  <2> QED
    BY <2>1, <2>2 DEF Core!Init
<1>2. IInv /\ IInv' /\ ConfigAccepted /\ [Next]_vars =>
        [\A p \in PassportAddr : Core(p)!Next \/ UNCHANGED Core(p)!core]_vars
  <2> SUFFICES ASSUME IInv, IInv', ConfigAccepted, Next, NEW q \in PassportAddr
               PROVE  Core(q)!Next \/ UNCHANGED Core(q)!core
    OBVIOUS
  <2>1. CASE Configure \/ CreateAnyPassport \/ Environment
    BY <2>1, OtherStepsStutter
  <2>2. ASSUME NEW c \in CoalitionAddr, NEW ma \in MerchantKey, NEW m \in MerchantAddr,
               NEW p \in PassportAddr, NEW b \in BalanceAddr, NEW nonce \in U64,
               NEW amount \in U64, NEW hash \in ReceiptHash,
               RecordReceipt(ma, c, m, p, b, nonce, amount, hash)
        PROVE  Core(q)!Next \/ UNCHANGED Core(q)!core
    <3>1. CASE q = p
      BY <2>2, <3>1, ReceiptMapsToAccrue
    <3>2. CASE q # p
      <4>1. b = <<p, m>>
        BY <2>2 DEF RecordReceipt, BalanceSeeds
      <4>2. balance' = [balance EXCEPT ![b] = balance'[b]]
        <5>1. PICK x : balance' = [balance EXCEPT ![b] = x]
          BY <2>2 DEF RecordReceipt, apply_receipt
        <5> QED
          BY <5>1 DEF IInv, TypeOK
      <4>3. passport' = [passport EXCEPT ![p] = passport'[p]]
        BY <2>2, ReceiptEffect
      <4> QED
        BY <3>2, <4>1, <4>2, <4>3, OthersUntouched DEF IInv
    <3> QED
      BY <3>1, <3>2
  <2>3. ASSUME NEW h \in Customer, NEW c \in CoalitionAddr, NEW m \in MerchantAddr,
               NEW p \in PassportAddr, NEW b \in BalanceAddr, NEW units \in U64,
               Redeem(h, c, m, p, b, units)
        PROVE  Core(q)!Next \/ UNCHANGED Core(q)!core
    <3>1. CASE q = p
      BY <2>3, <3>1, RedemptionMapsToRedeem
    <3>2. CASE q # p
      <4>1. /\ b = <<p, m>>
            /\ balance' = [balance EXCEPT ![b].redeemed_units = @ + units]
            /\ UNCHANGED passport
        BY <2>3 DEF Redeem, RedeemBalanceConstraint, apply_redemption, apply_redemption_accepts
      <4>2. balance' = [balance EXCEPT ![b] = balance'[b]]
        BY <4>1 DEF IInv, TypeOK
      <4>3. passport' = [passport EXCEPT ![p] = passport'[p]]
        BY <4>1 DEF IInv, TypeOK
      <4> QED
        BY <3>2, <4>1, <4>2, <4>3, OthersUntouched DEF IInv
    <3> QED
      BY <3>1, <3>2
  <2> QED
    BY <2>1, <2>2, <2>3 DEF Next, RecordAnyReceipt, RedeemAny
<1> QED
  BY <1>1, <1>2, Invariance, ConfigurationsImmutable, PTL DEF Spec, ImplementsCore

-----------------------------------------------------------------------------
(* The first check that fails *)

\* Either every check holds and the verdict is "Ok", or one fails, none before
\* it does, and the verdict is its error.
LEMMA VerdictIs ==
  ASSUME NEW n \in Nat, NEW checks, DOMAIN checks = 1 .. n
  PROVE  \/ Verdict(checks) = "Ok" /\ \A i \in 1 .. n : checks[i][1]
         \/ \E i \in 1 .. n :
              /\ ~checks[i][1]
              /\ \A j \in 1 .. i - 1 : checks[j][1]
              /\ Verdict(checks) = checks[i][2]
<1> DEFINE failed == {i \in 1 .. n : ~checks[i][1]}
           First(i) == i \in failed /\ \A j \in failed : i <= j
           first == CHOOSE i \in failed : \A j \in failed : i <= j
<1>1. CASE failed = {}
  <2>1. Verdict(checks) = "Ok"
    BY <1>1, Zenon DEF Verdict
  <2> QED
    BY <1>1, <2>1
<1>2. CASE failed # {}
  <2>1. Verdict(checks) = checks[first][2]
    BY <1>2, Zenon DEF Verdict
  <2>2. failed \subseteq Nat
    OBVIOUS
  <2>3. \E i : First(i)
    <3> HIDE DEF failed
    <3> QED
      BY <1>2, <2>2, LeastNat
  <2>4. First(first)
    BY <2>3, Zenon
  <2> HIDE DEF first
  <2>5. first \in 1 .. n /\ ~checks[first][1]
    BY <2>4
  <2>6. \A j \in 1 .. first - 1 : checks[j][1]
    BY <2>4, <2>5
  <2> QED
    BY <2>1, <2>5, <2>6
<1> QED
  BY <1>1, <1>2

\* A check that fails with an error outside G only fails behind another.
LEMMA VerdictWithin ==
  ASSUME NEW n \in Nat, NEW checks, DOMAIN checks = 1 .. n, NEW G, "Ok" \in G,
         \A i \in 1 .. n : (\A j \in 1 .. i - 1 : checks[j][1]) =>
                             checks[i][1] \/ checks[i][2] \in G
  PROVE  Verdict(checks) \in G
<1>1. CASE Verdict(checks) = "Ok"
  BY <1>1
<1>2. ASSUME NEW i \in 1 .. n, ~checks[i][1], \A j \in 1 .. i - 1 : checks[j][1],
             Verdict(checks) = checks[i][2]
      PROVE  Verdict(checks) \in G
  BY <1>2
<1> QED
  BY <1>1, <1>2, VerdictIs

\* The verdict is the error of a check that fails behind none.
LEMMA VerdictFirst ==
  ASSUME NEW n \in Nat, NEW checks, DOMAIN checks = 1 .. n, NEW k \in 1 .. n,
         ~checks[k][1], \A j \in 1 .. k - 1 : checks[j][1]
  PROVE  Verdict(checks) = checks[k][2]
<1>1. CASE \A i \in 1 .. n : checks[i][1]
  BY <1>1
<1>2. ASSUME NEW i \in 1 .. n, ~checks[i][1], \A j \in 1 .. i - 1 : checks[j][1],
             Verdict(checks) = checks[i][2]
      PROVE  Verdict(checks) = checks[k][2]
  <2>1. i = k
    <3>1. ~(i < k)
      BY <1>2
    <3>2. ~(k < i)
      BY <1>2
    <3> QED
      BY <3>1, <3>2
  <2> QED
    BY <1>2, <2>1
<1> QED
  BY <1>1, <1>2, VerdictIs

\* The verdict is "Ok" when every check holds, and only then.
LEMMA VerdictOk ==
  ASSUME NEW n \in Nat, NEW checks, DOMAIN checks = 1 .. n,
         \A i \in 1 .. n : checks[i][2] # "Ok"
  PROVE  Verdict(checks) = "Ok" <=> \A i \in 1 .. n : checks[i][1]
<1>1. CASE Verdict(checks) = "Ok" /\ \A i \in 1 .. n : checks[i][1]
  BY <1>1
<1>2. ASSUME NEW i \in 1 .. n, ~checks[i][1], Verdict(checks) = checks[i][2]
      PROVE  Verdict(checks) # "Ok" /\ ~(\A j \in 1 .. n : checks[j][1])
  BY <1>2
<1> QED
  BY <1>1, <1>2, VerdictIs

-----------------------------------------------------------------------------
(* What the handlers find *)

\* Whoever reaches the handler of a receipt finds the accounts in order.
LEMMA ReceiptFinds ==
  ASSUME IInv, NEW c \in CoalitionAddr, NEW m \in MerchantAddr, NEW p \in PassportAddr,
         ReceiptReaches(c, m, p), NEW day \in Nat
  PROVE  LET b == <<p, m>> IN
         /\ merchant[m] # NoAccount /\ passport[p] # NoAccount
         /\ merchant[m].active
         /\ BalanceSound(p, m, b)
         /\ passport[p].coalition = merchant[m].coalition
         /\ balance[b].version = 0 => balance[b] = EmptyBalance
         /\ balance[b].version \in {0, STATE_VERSION}
         /\ cap_remaining(m, b, day) \in U64
<1> DEFINE b == <<p, m>>
<1>1. /\ merchant[m] # NoAccount /\ passport[p] # NoAccount
      /\ merchant[m].active
      /\ passport[p].coalition = c /\ merchant[m].coalition = c
  BY DEF ReceiptReaches, MerchantConstraint, PassportConstraint
<1>2. b \in BalanceAddr /\ balance[b] \in MerchantBalance /\ merchant[m] \in MerchantAccount
  BY <1>1 DEF BalanceAddr, IInv, TypeOK
<1>3. balance[b].version \in {0, STATE_VERSION}
  BY <1>2 DEF MerchantBalance
<1>4. balance[b].version # 0 => balance[b].passport = p /\ balance[b].merchant = m
  BY <1>2 DEF IInv, RelationshipsBound
<1>5. balance[b].earned_units >= balance[b].redeemed_units
  <2>1. balance[b].earned_units \in Nat /\ balance[b].redeemed_units \in Nat
    BY <1>2, NumbersAssumption DEF MerchantBalance, U64
  <2> QED
    BY <1>2, <2>1, NumbersAssumption DEF IInv, Solvent, available_units, U64
<1>6. balance[b].version = 0 => balance[b] = EmptyBalance
  BY <1>2 DEF IInv, Solvent
<1>7. cap_remaining(m, b, day) \in U64
  <2>1. /\ cap_remaining(m, b, day) \in Nat
        /\ earned_this_epoch(b, day) \in Nat
    BY <1>1, CoreNumbers
  <2>2. cap_remaining(m, b, day) <= merchant[m].daily_cap
    BY <1>2, <2>1, NumbersAssumption DEF cap_remaining, MerchantAccount, U64
  <2> QED
    BY <1>2, <2>1, <2>2, NumbersAssumption DEF MerchantAccount, U64
<1> QED
  BY <1>1, <1>3, <1>4, <1>5, <1>6, <1>7 DEF BalanceSound

\* What each check of apply_receipt comes to, given that.
LEMMA ReceiptChecks ==
  ASSUME IInv, NEW c \in CoalitionAddr, NEW m \in MerchantAddr, NEW p \in PassportAddr,
         ReceiptReaches(c, m, p), NEW day \in Nat, NEW nonce, NEW amount
  PROVE  LET b == <<p, m>>
             checks == receipt_checks(c, m, p, b, nonce, amount, day)
         IN /\ DOMAIN checks = 1 .. 13
            /\ checks[1][1]
            /\ checks[2][1] <=> amount > 0
            /\ checks[3][1] /\ checks[4][1] /\ checks[5][1]
            /\ checks[6][1] <=> (balance[b].version = 0 \/ day >= balance[b].cap_epoch)
            /\ checks[7][1] <=> nonce > balance[b].last_receipt_nonce
            /\ checks[8][1]
            /\ checks[9][1] <=> amount * merchant[m].earn_bps \in U64
            /\ checks[10][1] <=> raw_credit(m, amount) > 0
            /\ checks[11][1]
            /\ checks[12][1] <=> cap_remaining(m, b, day) > 0
            /\ checks[13][1] <=> ArithmeticFits(c, m, p, b, amount, day)
<1> DEFINE b == <<p, m>>
           checks == receipt_checks(c, m, p, b, nonce, amount, day)
<1>1. /\ merchant[m].active
      /\ BalanceSound(p, m, b)
      /\ passport[p].coalition = merchant[m].coalition
      /\ balance[b].version \in {0, STATE_VERSION}
      /\ cap_remaining(m, b, day) \in U64
  BY ReceiptFinds
<1>2. DOMAIN checks = 1 .. 13
  BY DEF receipt_checks
<1>3. checks[1][1] /\ checks[3][1] /\ checks[4][1]
  BY <1>1 DEF receipt_checks
<1>4. checks[5][1]
  BY <1>1 DEF receipt_checks, BalanceSound
<1>5. checks[8][1]
  BY <1>1 DEF receipt_checks, BalanceSound
<1>6. checks[11][1]
  <2>1. cap_remaining(m, b, day) >= 0
    BY <1>1, NumbersAssumption DEF U64
  <2> QED
    BY <2>1 DEF receipt_checks
<1>7. /\ checks[2][1] <=> amount > 0
      /\ checks[7][1] <=> nonce > balance[b].last_receipt_nonce
      /\ checks[10][1] <=> raw_credit(m, amount) > 0
      /\ checks[12][1] <=> cap_remaining(m, b, day) > 0
  BY DEF receipt_checks
<1>8. checks[6][1] <=> (balance[b].version = 0 \/ day >= balance[b].cap_epoch)
  BY DEF receipt_checks
<1>9. checks[9][1] <=> amount * merchant[m].earn_bps \in U64
  BY DEF receipt_checks
<1>10. checks[13][1] <=> ArithmeticFits(c, m, p, b, amount, day)
  BY DEF receipt_checks
<1> QED
  BY <1>2, <1>3, <1>4, <1>5, <1>6, <1>7, <1>8, <1>9, <1>10

\* The errors of the checks, by position.
LEMMA ReceiptErrors ==
  ASSUME NEW c, NEW m, NEW p, NEW b, NEW nonce, NEW amount, NEW day
  PROVE  LET checks == receipt_checks(c, m, p, b, nonce, amount, day) IN
         /\ checks[1][2] = "MerchantInactive" /\ checks[2][2] = "ZeroReceipt"
         /\ checks[3][2] = "AccountRelationshipMismatch"
         /\ checks[4][2] = "UnsupportedStateVersion"
         /\ checks[5][2] = "AccountRelationshipMismatch"
         /\ checks[6][2] = "ClockMovedBackwards" /\ checks[7][2] = "NonceNotMonotonic"
         /\ checks[8][2] = "CorruptBalance" /\ checks[9][2] = "ArithmeticOverflow"
         /\ checks[10][2] = "ZeroCredit" /\ checks[11][2] = "CorruptBalance"
         /\ checks[12][2] = "DailyCapExhausted" /\ checks[13][2] = "ArithmeticOverflow"
BY DEF receipt_checks

\* What each check of apply_redemption comes to on a balance that is there.
LEMMA RedemptionChecks ==
  ASSUME IInv, NEW c \in CoalitionAddr, NEW m \in MerchantAddr, NEW p \in PassportAddr,
         RedemptionReaches(c, m, p), NEW units \in U64
  PROVE  LET b == <<p, m>>
             checks == redemption_checks(b, units)
         IN /\ DOMAIN checks = 1 .. 6
            /\ checks[1][1] <=> units > 0
            /\ checks[2][1] /\ checks[3][1]
            /\ checks[4][1] <=> units <= available_units(b)
            /\ checks[4][1] => checks[5][1] /\ checks[6][1]
            /\ checks[1][2] = "ZeroRedemption"
            /\ checks[4][2] = "InsufficientMerchantCredit"
<1> DEFINE b == <<p, m>>
           checks == redemption_checks(b, units)
<1>1. b \in BalanceAddr /\ balance[b] \in MerchantBalance /\ balance[b].version # 0
  BY DEF RedemptionReaches, RedeemBalanceConstraint, BalanceAddr, IInv, TypeOK
<1>2. balance[b].version = STATE_VERSION
  BY <1>1 DEF MerchantBalance
<1>3. /\ balance[b].earned_units \in U64 /\ balance[b].redeemed_units \in U64
      /\ available_units(b) \in U64
      /\ available_units(b) = balance[b].earned_units - balance[b].redeemed_units
  BY <1>1 DEF MerchantBalance, IInv, Solvent, available_units
<1>4. available_units(b) >= 0
  BY <1>3, NumbersAssumption DEF U64
<1>5. units <= available_units(b) =>
        /\ balance[b].redeemed_units + units \in U64
        /\ balance[b].earned_units >= balance[b].redeemed_units + units
  BY <1>3, NumbersAssumption DEF U64
<1>6. DOMAIN checks = 1 .. 6
  BY DEF redemption_checks
<1>7. checks[1][1] <=> units > 0
  BY DEF redemption_checks
<1>8. checks[2][1]
  BY <1>2 DEF redemption_checks
<1>9. checks[3][1]
  BY <1>4 DEF redemption_checks
<1>10. checks[4][1] <=> units <= available_units(b)
  BY DEF redemption_checks, SufficientCredit
<1>11. checks[5][1] <=> balance[b].redeemed_units + units \in U64
  BY DEF redemption_checks
<1>12. checks[6][1] <=> balance[b].earned_units >= balance[b].redeemed_units + units
  BY DEF redemption_checks
<1>13. checks[1][2] = "ZeroRedemption" /\ checks[4][2] = "InsufficientMerchantCredit"
  BY DEF redemption_checks
<1> HIDE DEF checks, b
<1> QED
  BY <1>5, <1>6, <1>7, <1>8, <1>9, <1>10, <1>11, <1>12, <1>13 DEF checks, b

\* A redemption that reaches its handler is paid, is for nothing, or is for
\* more than there is.
LEMMA RedemptionVerdict ==
  ASSUME IInv, NEW c \in CoalitionAddr, NEW m \in MerchantAddr, NEW p \in PassportAddr,
         RedemptionReaches(c, m, p), NEW units \in U64
  PROVE  apply_redemption_verdict(<<p, m>>, units) =
           IF units <= 0 THEN "ZeroRedemption"
           ELSE IF units <= available_units(<<p, m>>) THEN "Ok"
           ELSE "InsufficientMerchantCredit"
<1> DEFINE b == <<p, m>>
           checks == redemption_checks(b, units)
<1>1. /\ DOMAIN checks = 1 .. 6
      /\ checks[1][1] <=> units > 0
      /\ checks[2][1] /\ checks[3][1]
      /\ checks[4][1] <=> units <= available_units(b)
      /\ checks[4][1] => checks[5][1] /\ checks[6][1]
      /\ checks[1][2] = "ZeroRedemption"
      /\ checks[4][2] = "InsufficientMerchantCredit"
  BY RedemptionChecks
<1>2. units \in Nat
  BY NumbersAssumption DEF U64
<1> HIDE DEF checks
<1>3. CASE ~checks[1][1]
  <2>1. Verdict(checks) = checks[1][2]
    <3>1. 6 \in Nat /\ 1 \in 1 .. 6 /\ \A j \in 1 .. 1 - 1 : checks[j][1]
      OBVIOUS
    <3> QED
      BY <1>1, <1>3, <3>1, VerdictFirst
  <2> QED
    BY <1>1, <1>2, <1>3, <2>1 DEF apply_redemption_verdict, checks
<1>4. CASE checks[1][1] /\ ~checks[4][1]
  <2>1. 6 \in Nat /\ 4 \in 1 .. 6 /\ \A j \in 1 .. 4 - 1 : checks[j][1]
    BY <1>1, <1>4
  <2>2. Verdict(checks) = checks[4][2]
    BY <1>1, <1>4, <2>1, VerdictFirst
  <2> QED
    BY <1>1, <1>2, <1>4, <2>2 DEF apply_redemption_verdict, checks
<1>5. CASE checks[1][1] /\ checks[4][1]
  <2>1. \A i \in 1 .. 6 : checks[i][1]
    BY <1>1, <1>5
  <2>2. Verdict(checks) = "Ok"
    BY <1>1, <2>1, VerdictIs
  <2> QED
    BY <1>1, <1>2, <1>5, <2>2 DEF apply_redemption_verdict, checks
<1> QED
  BY <1>3, <1>4, <1>5

\* Nothing the clients did before makes a handler find a broken account.
THEOREM AccountsNeverBroken == Spec => []BrokenAccountsNeverReported
<1>1. ASSUME IInv, NEW c \in CoalitionAddr, NEW m \in MerchantAddr, NEW p \in PassportAddr,
             ReceiptReaches(c, m, p), NEW nonce \in U64, NEW amount \in U64,
             NEW hash \in ReceiptHash
      PROVE  record_receipt_verdict(c, m, p, <<p, m>>, nonce, amount, hash) \notin AccountError
  <2> DEFINE day == current_day_epoch
             checks == receipt_checks(c, m, p, <<p, m>>, nonce, amount, day)
             G == {"Ok", "ZeroReceipt", "ClockMovedBackwards", "NonceNotMonotonic",
                   "ArithmeticOverflow", "ZeroCredit", "DailyCapExhausted"}
  <2>1. CASE hash = EmptyReceiptHash \/ day < 0
    BY <2>1 DEF record_receipt_verdict, AccountError
  <2>2. CASE hash # EmptyReceiptHash /\ ~(day < 0)
    <3>1. day \in Nat
      BY <1>1, <2>2, DayInt DEF IInv, TypeOK
    <3>2. /\ DOMAIN checks = 1 .. 13
          /\ checks[1][1] /\ checks[3][1] /\ checks[4][1] /\ checks[5][1]
          /\ checks[8][1] /\ checks[11][1]
      BY <1>1, <3>1, ReceiptChecks
    <3>3. /\ checks[2][2] \in G /\ checks[6][2] \in G /\ checks[7][2] \in G
          /\ checks[9][2] \in G /\ checks[10][2] \in G /\ checks[12][2] \in G
          /\ checks[13][2] \in G
      BY ReceiptErrors
    <3>4. "Ok" \in G /\ \A e \in G : e \notin AccountError
      BY DEF AccountError
    <3>5. record_receipt_verdict(c, m, p, <<p, m>>, nonce, amount, hash) = Verdict(checks)
      BY <2>2 DEF record_receipt_verdict, apply_receipt_verdict
    <3> HIDE DEF checks, G
    <3>6. \A i \in 1 .. 13 : checks[i][1] \/ checks[i][2] \in G
      BY <3>2, <3>3
    <3>7. Verdict(checks) \in G
      BY <3>2, <3>4, <3>6, VerdictWithin
    <3> QED
      BY <3>4, <3>5, <3>7
  <2> QED
    BY <2>1, <2>2
<1>2. IInv => BrokenAccountsNeverReported
  <2> SUFFICES ASSUME IInv PROVE BrokenAccountsNeverReported
    OBVIOUS
  <2>1. ASSUME NEW c \in CoalitionAddr, NEW m \in MerchantAddr, NEW p \in PassportAddr,
               RedemptionReaches(c, m, p), NEW units \in U64
        PROVE  apply_redemption_verdict(<<p, m>>, units) \in
                 {"Ok", "ZeroRedemption", "InsufficientMerchantCredit"}
    BY <2>1, RedemptionVerdict
  <2> QED
    BY <1>1, <2>1 DEF BrokenAccountsNeverReported
<1> QED
  BY <1>2, Invariance, PTL

\* A balance with credit in it belongs to accounts that stay, and what it can
\* owe is within what it has earned, so redeemed units have room for it.
LEMMA CreditIsRedeemable ==
  ASSUME IInv, NEW p \in PassportAddr, NEW m \in MerchantAddr,
         NEW units \in 1 .. available_units(<<p, m>>)
  PROVE  /\ RedemptionReaches(m[1], m, p)
         /\ apply_redemption_accepts(<<p, m>>, units)
         /\ apply_redemption_verdict(<<p, m>>, units) = "Ok"
<1> DEFINE b == <<p, m>>
<1>1. b \in BalanceAddr /\ balance[b] \in MerchantBalance
  BY DEF BalanceAddr, IInv, TypeOK
<1>2. /\ balance[b].earned_units \in U64 /\ balance[b].redeemed_units \in U64
      /\ available_units(b) \in U64
      /\ available_units(b) = balance[b].earned_units - balance[b].redeemed_units
  BY <1>1 DEF MerchantBalance, IInv, Solvent, available_units
<1>3. units \in Nat \ {0} /\ units \in U64 /\ units <= available_units(b)
  BY <1>2, NumbersAssumption DEF U64
<1>4. balance[b].version # 0
  <2>1. balance[b].version = 0 => balance[b] = EmptyBalance
    BY <1>1 DEF IInv, Solvent
  <2>2. available_units(b) # 0
    BY <1>2, <1>3, NumbersAssumption DEF U64
  <2> QED
    BY <1>2, <2>1, <2>2 DEF EmptyBalance
<1>5. RedemptionReaches(m[1], m, p)
  <2>1. /\ b = <<balance[b].passport, balance[b].merchant>>
        /\ p[1] = m[1]
        /\ passport[p] # NoAccount /\ merchant[m] # NoAccount
    BY <1>1, <1>4 DEF IInv, RelationshipsBound
  <2>2. /\ p = <<passport[p].coalition, passport[p].customer>>
        /\ m = <<merchant[m].coalition, merchant[m].authority>>
        /\ coalition[m[1]] # NoAccount
    BY <2>1 DEF IInv, RelationshipsBound
  <2>3. m[1] \in CoalitionAddr
    BY DEF MerchantAddr
  <2>4. coalition[m[1]].authority = m[1]
    BY <2>2, <2>3 DEF IInv, RelationshipsBound
  <2> QED
    BY <1>4, <2>1, <2>2, <2>4
       DEF RedemptionReaches, CoalitionConstraint, OwnPassportConstraint,
           RedeemMerchantConstraint, RedeemBalanceConstraint
<1>6. balance[b].version = STATE_VERSION
  BY <1>1, <1>4 DEF MerchantBalance
<1>7. balance[b].redeemed_units + units \in U64
  BY <1>2, <1>3, NumbersAssumption DEF U64
<1>8. apply_redemption_accepts(b, units)
  BY <1>2, <1>3, <1>6, <1>7 DEF apply_redemption_accepts, SufficientCredit
<1>9. apply_redemption_verdict(b, units) = "Ok"
  <2>1. m[1] \in CoalitionAddr
    BY DEF MerchantAddr
  <2>2. ~(units <= 0)
    BY <1>3
  <2> QED
    BY <1>3, <1>5, <2>1, <2>2, RedemptionVerdict
<1> QED
  BY <1>5, <1>8, <1>9

\* No customer ever holds credit that a redemption would be refused for: the
\* part of "credit is never trapped" that needs no fairness.
THEOREM CreditAlwaysRedeemable == Spec => []CreditRedeemable
<1>1. IInv => CreditRedeemable
  BY CreditIsRedeemable DEF CreditRedeemable
<1> QED
  BY <1>1, Invariance, PTL

-----------------------------------------------------------------------------
(* Credit gets out *)

\* A redemption from b can be taken exactly while b has credit, and makes one
\* balance of it: what ENABLED RedeemFrom(b) stands for, and what CreditNotTrapped
\* assumes the customer to be fair about.
THEOREM RedeemFromIsTheGuard ==
  ASSUME IInv, NEW b \in BalanceAddr
  PROVE  RedeemFrom(b) <=>
           \E units \in 1 .. available_units(b) :
             vars' = <<coalition, merchant, passport,
                       [balance EXCEPT ![b].redeemed_units = @ + units],
                       mint, token, unix_timestamp>>
<1>1. PICK p \in PassportAddr, m \in MerchantAddr : b = <<p, m>>
  BY DEF BalanceAddr
<1>2. available_units(b) \in U64 /\ MaxU64 \in Nat
  BY NumbersAssumption DEF IInv, Solvent
<1>3. ASSUME RedeemFrom(b)
      PROVE  \E units \in 1 .. available_units(b) :
               vars' = <<coalition, merchant, passport,
                         [balance EXCEPT ![b].redeemed_units = @ + units],
                         mint, token, unix_timestamp>>
  <2>1. PICK h \in Customer, c \in CoalitionAddr, n \in MerchantAddr, q \in PassportAddr,
             units \in U64 : Redeem(h, c, n, q, b, units)
    BY <1>3 DEF RedeemFrom
  <2>2. /\ units > 0 /\ units <= available_units(b)
        /\ balance' = [balance EXCEPT ![b].redeemed_units = @ + units]
        /\ UNCHANGED <<coalition, merchant, passport, mint, token, unix_timestamp>>
    BY <2>1 DEF Redeem, apply_redemption, apply_redemption_accepts, SufficientCredit
  <2>3. units \in 1 .. available_units(b)
    BY <1>2, <2>2 DEF U64
  <2> QED
    BY <2>2, <2>3 DEF vars
<1>4. ASSUME NEW units \in 1 .. available_units(b),
             vars' = <<coalition, merchant, passport,
                       [balance EXCEPT ![b].redeemed_units = @ + units],
                       mint, token, unix_timestamp>>
      PROVE  RedeemFrom(b)
  <2>1. RedemptionReaches(m[1], m, p) /\ apply_redemption_accepts(b, units)
    BY <1>1, CreditIsRedeemable
  <2>2. Redeem(p[2], m[1], m, p, b, units)
    <3>1. /\ balance' = [balance EXCEPT ![b].redeemed_units = @ + units]
          /\ UNCHANGED <<coalition, merchant, passport, mint, token, unix_timestamp>>
      BY <1>4 DEF vars
    <3> QED
      BY <1>1, <2>1, <3>1 DEF RedemptionReaches, Redeem, apply_redemption
  <2>3. p[2] \in Customer /\ m[1] \in CoalitionAddr /\ units \in U64
    BY <1>2 DEF PassportAddr, MerchantAddr, U64
  <2> QED
    BY <2>2, <2>3 DEF RedeemFrom
<1> QED
  BY <1>3, <1>4

\* Nobody but its customer takes credit out of a balance: while r units are
\* redeemed the credit stays, and a step that takes some counts more than r.
LEMMA CreditStays ==
  ASSUME IInv, [Next]_vars, NEW b \in BalanceAddr, NEW r \in U64,
         available_units(b) > 0, balance[b].redeemed_units = r
  PROVE  \/ available_units(b)' > 0 /\ balance'[b].redeemed_units = r
         \/ balance'[b].redeemed_units > r
<1>1. /\ balance[b].earned_units \in Int /\ r \in Int
      /\ balance[b].redeemed_units = r /\ balance[b].earned_units - r > 0
      /\ balance[b] \in MerchantBalance
  BY NumbersAssumption DEF IInv, TypeOK, MerchantBalance, U64, available_units
<1>2. CASE RecordAnyReceipt
  <2>1. PICK c \in CoalitionAddr, ma \in MerchantKey, m \in MerchantAddr, p \in PassportAddr,
             a \in BalanceAddr, nonce \in U64, amount \in U64, hash \in ReceiptHash :
          RecordReceipt(ma, c, m, p, a, nonce, amount, hash)
    BY <1>2 DEF RecordAnyReceipt
  <2>2. PICK credit \in Nat, today \in Nat, day \in Nat :
          balance' = [balance EXCEPT ![a] =
             [passport |-> p, merchant |-> m,
              earned_units |-> balance[a].earned_units + credit,
              redeemed_units |-> balance[a].redeemed_units,
              earned_this_epoch |-> today + credit,
              cap_epoch |-> day, last_receipt_nonce |-> nonce, version |-> STATE_VERSION]]
    BY <2>1, ReceiptEffect
  <2>3. PICK more \in Nat :
          /\ balance'[b].earned_units = balance[b].earned_units + more
          /\ balance'[b].redeemed_units = r
    <3>1. CASE a = b
      BY <1>1, <2>2, <3>1 DEF IInv, TypeOK
    <3>2. CASE a # b
      <4>1. balance'[b] = balance[b]
        BY <2>2, <3>2 DEF IInv, TypeOK
      <4>2. balance[b].earned_units = balance[b].earned_units + 0
        BY <1>1
      <4> QED
        BY <1>1, <4>1, <4>2
    <3> QED
      BY <3>1, <3>2
  <2> QED
    BY <1>1, <2>3 DEF available_units
<1>3. CASE RedeemAny
  <2>1. PICK h \in Customer, c \in CoalitionAddr, m \in MerchantAddr, p \in PassportAddr,
             a \in BalanceAddr, units \in U64 : Redeem(h, c, m, p, a, units)
    BY <1>3 DEF RedeemAny
  <2>2. units > 0 /\ balance' = [balance EXCEPT ![a].redeemed_units = @ + units]
    BY <2>1 DEF Redeem, apply_redemption, apply_redemption_accepts
  <2>3. CASE a = b
    <3>1. balance'[b].redeemed_units = r + units
      BY <1>1, <2>2, <2>3 DEF IInv, TypeOK, MerchantBalance
    <3> QED
      BY <1>1, <2>2, <3>1, NumbersAssumption DEF U64
  <2>4. CASE a # b
    <3>1. balance'[b] = balance[b]
      BY <2>2, <2>4 DEF IInv, TypeOK
    <3> QED
      BY <1>1, <3>1 DEF available_units
  <2> QED
    BY <2>3, <2>4
<1>4. CASE Configure \/ CreateAnyPassport \/ Environment \/ UNCHANGED vars
  <2>1. UNCHANGED balance
    BY <1>4 DEF Configure, InitializeCoalition, RegisterMerchant, PauseCoalition,
       UnpauseCoalition, CreateAnyPassport, CreatePassport, Environment, BurnCredential,
       SetClock, vars
  <2> QED
    BY <1>1, <2>1 DEF available_units
<1> QED
  BY <1>2, <1>3, <1>4 DEF Next

LEMMA RedemptionCounts ==
  ASSUME IInv, NEW b \in BalanceAddr, RedeemFrom(b)
  PROVE  balance'[b].redeemed_units > balance[b].redeemed_units
<1>1. PICK h \in Customer, c \in CoalitionAddr, m \in MerchantAddr, p \in PassportAddr,
           units \in U64 : Redeem(h, c, m, p, b, units)
  BY DEF RedeemFrom
<1>2. units > 0 /\ balance' = [balance EXCEPT ![b].redeemed_units = @ + units]
  BY <1>1 DEF Redeem, apply_redemption, apply_redemption_accepts
<1>3. balance[b] \in MerchantBalance
  BY DEF IInv, TypeOK
<1>4. /\ balance'[b].redeemed_units = balance[b].redeemed_units + units
      /\ balance[b].redeemed_units \in U64
  BY <1>2, <1>3 DEF IInv, TypeOK, MerchantBalance
<1> QED
  BY <1>2, <1>4, NumbersAssumption DEF U64

\* The customer of b is weakly fair: if b has credit from some moment on, it
\* redeems from b again and again.
FairlyRedeemed(b) == <>[](available_units(b) > 0) => []<><<RedeemFrom(b)>>_vars

\* That is the weak fairness of FairSpec, if it obliges the customer wherever
\* there is credit, as RedeemFromIsTheGuard says that it does.
ObligedByCredit(b) == [](available_units(b) > 0 => ENABLED <<RedeemFrom(b)>>_vars)

LEMMA WeakFairnessIsFair ==
  ASSUME NEW b \in BalanceAddr
  PROVE  KeepsRedeeming(b) /\ ObligedByCredit(b) => FairlyRedeemed(b)
<1> DEFINE G == available_units(b) > 0
<1>1. FairlyRedeemed(b) <=> (<>[]G => []<><<RedeemFrom(b)>>_vars)
  BY PTL DEF FairlyRedeemed
<1>2. ObligedByCredit(b) <=> [](G => ENABLED <<RedeemFrom(b)>>_vars)
  BY PTL DEF ObligedByCredit
<1> HIDE DEF G
<1> QED
  BY <1>1, <1>2, PTL DEF KeepsRedeeming

LEMMA CreditGetsOut ==
  ASSUME NEW b \in BalanceAddr, NEW r \in U64
  PROVE  Spec /\ FairlyRedeemed(b) =>
           ((available_units(b) > 0 /\ balance[b].redeemed_units = r)
              ~> balance[b].redeemed_units > r)
<1> DEFINE G == available_units(b) > 0
           P == G /\ balance[b].redeemed_units = r
           Q == balance[b].redeemed_units > r
<1>1. IInv /\ P /\ [Next]_vars => P' \/ Q'
  BY CreditStays
<1>2. IInv /\ P /\ <<RedeemFrom(b)>>_vars => Q'
  BY RedemptionCounts
<1>3. P => G
  OBVIOUS
<1> HIDE DEF P, Q, G
<1>4. Spec /\ (<>[]G => []<><<RedeemFrom(b)>>_vars) => (P ~> Q)
  BY <1>1, <1>2, <1>3, Invariance, PTL DEF Spec
<1> QED
  BY <1>4 DEF P, Q, G, FairlyRedeemed

\* Credit is never trapped: a customer who does not give up gets more of it out,
\* whatever the coalition, its merchants, the clock and everyone else do.
THEOREM CreditNeverTrapped ==
  Spec /\ (\A b \in BalanceAddr : FairlyRedeemed(b)) => CreditNotTrapped
<1>1. \A b \in BalanceAddr, r \in U64 :
        Spec /\ FairlyRedeemed(b) =>
          ((available_units(b) > 0 /\ balance[b].redeemed_units = r)
             ~> balance[b].redeemed_units > r)
  BY CreditGetsOut
<1> QED
  BY <1>1 DEF CreditNotTrapped

\* So FairSpec, too, keeps no credit trapped, once its fairness obliges the
\* customer wherever there is credit: what CreditNotTrapped is checked under.
COROLLARY FairSpecNeverTraps ==
  FairSpec /\ (\A b \in BalanceAddr : ObligedByCredit(b)) => CreditNotTrapped
<1>1. \A b \in BalanceAddr :
        KeepsRedeeming(b) /\ ObligedByCredit(b) => FairlyRedeemed(b)
  BY WeakFairnessIsFair
<1> QED
  BY <1>1, CreditNeverTrapped DEF FairSpec

-----------------------------------------------------------------------------
(* The same answers *)

\* The checks of the crate's accrue, in the program's terms.
LEMMA AccrueChecks ==
  ASSUME IInv, NEW c \in CoalitionAddr, NEW m \in MerchantAddr, NEW p \in PassportAddr,
         ReceiptReaches(c, m, p), NEW day \in Nat, NEW nonce \in U64, NEW amount \in U64
  PROVE  LET b == <<p, m>>
             checks == Core(p)!accrue_checks(CoreMerchant(m), nonce, amount, day, CoreRules(c))
         IN /\ DOMAIN checks = 1 .. 6
            /\ checks[1][1] <=> amount > 0
            /\ checks[2][1] <=> nonce > balance[b].last_receipt_nonce
            /\ checks[3][1] <=> cap_remaining(m, b, day) > 0
            /\ checks[4][1] <=> amount * merchant[m].earn_bps \in U64
            /\ checks[5][1] <=> (raw_credit(m, amount) > 0 /\ cap_remaining(m, b, day) > 0)
            /\ checks[6][1] <=> ArithmeticFits(c, m, p, b, amount, day)
<1> DEFINE b == <<p, m>>
           checks == Core(p)!accrue_checks(CoreMerchant(m), nonce, amount, day, CoreRules(c))
           credit == credit_units(m, b, amount, day)
           delta == streak_delta(c, credit)
<1>1. /\ merchant[m] # NoAccount /\ passport[p] # NoAccount
      /\ cap_remaining(m, b, day) \in U64
  BY ReceiptFinds
<1>2. /\ Core(p)!balance_for(m) = EntryOf(b)
      /\ Core(p)!earned_this_epoch(m, day) = earned_this_epoch(b, day)
      /\ Core(p)!remaining_cap(CoreMerchant(m), day) = cap_remaining(m, b, day)
      /\ Core(p)!credit_units(CoreMerchant(m), amount, day) = credit
      /\ Core(p)!streak_delta(credit, CoreRules(c)) = delta
  BY <1>1, CoreEntry, CoreNumbers
<1>3. CoreMerchant(m).id = m /\ CoreMerchant(m).earn_bps = merchant[m].earn_bps
  BY DEF CoreMerchant
<1>4. /\ EntryOf(b).earned_units = balance[b].earned_units
      /\ EntryOf(b).last_receipt_nonce = balance[b].last_receipt_nonce
  BY DEF EntryOf
<1>5. Core(p)!NonceFresh(CoreMerchant(m), nonce, day) <=> nonce > balance[b].last_receipt_nonce
  BY <1>2, <1>3, <1>4 DEF Core!NonceFresh
<1>6. Core(p)!Checked(CoreMerchant(m), amount, day, CoreRules(c)) <=>
        ArithmeticFits(c, m, p, b, amount, day)
  <2> HIDE DEF credit, delta
  <2>1. Core(p)!Checked(CoreMerchant(m), amount, day, CoreRules(c)) <=>
          /\ amount * merchant[m].earn_bps \in U64
          /\ balance[b].earned_units + credit \in U64
          /\ earned_this_epoch(b, day) + credit \in U64
          /\ passport[p].total_visits + 1 \in U64
          /\ passport[p].streak_points + delta \in U64
    BY <1>1, <1>2, <1>3, <1>4 DEF Core!Checked, Core!U64, U64
  <2> QED
    BY <1>1, <2>1 DEF ArithmeticFits, credit, delta
<1>7. credit > 0 <=> (raw_credit(m, amount) > 0 /\ cap_remaining(m, b, day) > 0)
  <2>1. merchant[m].earn_bps \in Nat /\ amount \in Nat /\ cap_remaining(m, b, day) \in Nat
    BY <1>1, NumbersAssumption DEF IInv, TypeOK, MerchantAccount, U64
  <2>2. amount * merchant[m].earn_bps \in Nat
    BY <2>1
  <2>3. raw_credit(m, amount) \in Nat
    BY <2>2, DivisionNat, NumbersAssumption DEF raw_credit
  <2> QED
    BY <2>1, <2>3 DEF credit_units, Smaller
<1>8. checks[2][1] <=> Core(p)!NonceFresh(CoreMerchant(m), nonce, day)
  BY DEF Core!accrue_checks
<1>13. DOMAIN checks = 1 .. 6
  BY DEF Core!accrue_checks
<1>14. checks[1][1] <=> amount > 0
  BY DEF Core!accrue_checks
<1>9. checks[3][1] <=> cap_remaining(m, b, day) > 0
  BY <1>2 DEF Core!accrue_checks
<1>10. checks[4][1] <=> amount * merchant[m].earn_bps \in U64
  BY <1>3 DEF Core!accrue_checks, Core!U64, U64
<1>11. checks[5][1] <=> credit > 0
  BY <1>2 DEF Core!accrue_checks
<1>12. checks[6][1] <=> Core(p)!Checked(CoreMerchant(m), amount, day, CoreRules(c))
  BY DEF Core!accrue_checks
<1> HIDE DEF checks, credit
<1> QED
  BY <1>5, <1>6, <1>7, <1>8, <1>9, <1>10, <1>11, <1>12, <1>13, <1>14 DEF checks

LEMMA AccrueErrors ==
  ASSUME NEW p, NEW m, NEW nonce, NEW amount, NEW day, NEW rules
  PROVE  LET checks == Core(p)!accrue_checks(m, nonce, amount, day, rules) IN
         /\ checks[1][2] = "ZeroReceipt" /\ checks[2][2] = "NonceNotMonotonic"
         /\ checks[3][2] = "DailyCapExhausted" /\ checks[4][2] = "ArithmeticOverflow"
         /\ checks[5][2] = "ZeroCredit" /\ checks[6][2] = "ArithmeticOverflow"
BY DEF Core!accrue_checks

\* A verdict that is not "Ok" after the checks before k have held is the error
\* of a check from k on.
LEMMA VerdictFrom ==
  ASSUME NEW n \in Nat, NEW checks, DOMAIN checks = 1 .. n, NEW k \in 1 .. n,
         \A i \in 1 .. n : i < k => checks[i][1],
         NEW G, \A i \in k .. n : checks[i][1] \/ checks[i][2] \in G,
         Verdict(checks) # "Ok"
  PROVE  Verdict(checks) \in G
<1>1. ASSUME NEW i \in 1 .. n, ~checks[i][1], Verdict(checks) = checks[i][2]
      PROVE  Verdict(checks) \in G
  BY <1>1
<1> QED
  BY <1>1, VerdictIs

\* The crate's functions, too, leave at the first check that fails.
LEMMA CoreVerdict ==
  ASSUME NEW p, NEW checks
  PROVE  Core(p)!Verdict(checks) = Verdict(checks)
BY Zenon DEF Core!Verdict, Verdict

\* Asked for the same receipt, the two answer the same, but for the order of
\* three checks.
LEMMA SameReceiptVerdict ==
  ASSUME IInv, NEW c \in CoalitionAddr, NEW m \in MerchantAddr, NEW p \in PassportAddr,
         ReceiptReaches(c, m, p), NEW day \in Nat, NEW nonce \in U64, NEW amount \in U64
  PROVE  LET ours == apply_receipt_verdict(c, m, p, <<p, m>>, nonce, amount, day)
             theirs ==
               Core(p)!accrue_verdict(CoreMerchant(m), nonce, amount, day, CoreRules(c))
         IN /\ \/ ours = theirs
               \/ {ours, theirs} \subseteq Reordered
               \/ ours = "ClockMovedBackwards"
            /\ ours = "Ok" <=> apply_receipt_accepts(c, m, p, <<p, m>>, nonce, amount, day)
<1> DEFINE b == <<p, m>>
           o == receipt_checks(c, m, p, b, nonce, amount, day)
           t == Core(p)!accrue_checks(CoreMerchant(m), nonce, amount, day, CoreRules(c))
           ours == apply_receipt_verdict(c, m, p, b, nonce, amount, day)
           theirs == Core(p)!accrue_verdict(CoreMerchant(m), nonce, amount, day, CoreRules(c))
           Agree == \/ ours = theirs
                    \/ {ours, theirs} \subseteq Reordered
                    \/ ours = "ClockMovedBackwards"
<1>1. /\ DOMAIN o = 1 .. 13
      /\ o[1][1]
      /\ o[2][1] <=> amount > 0
      /\ o[3][1] /\ o[4][1] /\ o[5][1]
      /\ o[6][1] <=> (balance[b].version = 0 \/ day >= balance[b].cap_epoch)
      /\ o[7][1] <=> nonce > balance[b].last_receipt_nonce
      /\ o[8][1]
      /\ o[9][1] <=> amount * merchant[m].earn_bps \in U64
      /\ o[10][1] <=> raw_credit(m, amount) > 0
      /\ o[11][1]
      /\ o[12][1] <=> cap_remaining(m, b, day) > 0
      /\ o[13][1] <=> ArithmeticFits(c, m, p, b, amount, day)
  BY ReceiptChecks
<1>2. /\ DOMAIN t = 1 .. 6
      /\ t[1][1] <=> amount > 0
      /\ t[2][1] <=> nonce > balance[b].last_receipt_nonce
      /\ t[3][1] <=> cap_remaining(m, b, day) > 0
      /\ t[4][1] <=> amount * merchant[m].earn_bps \in U64
      /\ t[5][1] <=> (raw_credit(m, amount) > 0 /\ cap_remaining(m, b, day) > 0)
      /\ t[6][1] <=> ArithmeticFits(c, m, p, b, amount, day)
  BY AccrueChecks
<1>3. /\ o[1][2] = "MerchantInactive" /\ o[2][2] = "ZeroReceipt"
      /\ o[3][2] = "AccountRelationshipMismatch"
      /\ o[4][2] = "UnsupportedStateVersion"
      /\ o[5][2] = "AccountRelationshipMismatch"
      /\ o[6][2] = "ClockMovedBackwards" /\ o[7][2] = "NonceNotMonotonic"
      /\ o[8][2] = "CorruptBalance" /\ o[9][2] = "ArithmeticOverflow"
      /\ o[10][2] = "ZeroCredit" /\ o[11][2] = "CorruptBalance"
      /\ o[12][2] = "DailyCapExhausted" /\ o[13][2] = "ArithmeticOverflow"
  BY ReceiptErrors
<1>4. /\ t[1][2] = "ZeroReceipt" /\ t[2][2] = "NonceNotMonotonic"
      /\ t[3][2] = "DailyCapExhausted" /\ t[4][2] = "ArithmeticOverflow"
      /\ t[5][2] = "ZeroCredit" /\ t[6][2] = "ArithmeticOverflow"
  BY AccrueErrors
<1>5. /\ ours = Verdict(o)
      /\ theirs = Verdict(t)
  BY CoreVerdict DEF apply_receipt_verdict, Core!accrue_verdict
<1>6. apply_receipt_accepts(c, m, p, b, nonce, amount, day) <=> \A i \in 1 .. 13 : o[i][1]
  <2>1. /\ merchant[m].active
        /\ BalanceSound(p, m, b)
        /\ passport[p].coalition = merchant[m].coalition
    BY ReceiptFinds
  <2>2. ArithmeticFits(c, m, p, b, amount, day) => amount * merchant[m].earn_bps \in U64
    BY DEF ArithmeticFits
  <2>3. apply_receipt_accepts(c, m, p, b, nonce, amount, day) <=>
          /\ amount > 0
          /\ nonce > balance[b].last_receipt_nonce
          /\ balance[b].version = 0 \/ day >= balance[b].cap_epoch
          /\ ArithmeticFits(c, m, p, b, amount, day)
          /\ raw_credit(m, amount) > 0
          /\ cap_remaining(m, b, day) > 0
    BY <2>1 DEF apply_receipt_accepts, ReceiptInOrder
  <2> HIDE DEF o
  <2>4. (\A i \in 1 .. 13 : o[i][1]) <=>
          (o[2][1] /\ o[6][1] /\ o[7][1] /\ o[9][1] /\ o[10][1] /\ o[12][1] /\ o[13][1])
    BY <1>1
  <2> QED
    BY <1>1, <2>2, <2>3, <2>4
<1> HIDE DEF o, t, ours, theirs
<1>7. 13 \in Nat /\ 6 \in Nat
  OBVIOUS
<1>8. \A k \in 1 .. 13 :
         ~o[k][1] /\ (\A j \in 1 .. k - 1 : o[j][1]) => ours = o[k][2]
  <2>1. DOMAIN o = 1 .. 13
    BY <1>1
  <2> QED
    BY <1>5, <1>7, <2>1, VerdictFirst
<1>9. \A k \in 1 .. 6 :
         ~t[k][1] /\ (\A j \in 1 .. k - 1 : t[j][1]) => theirs = t[k][2]
  <2>1. DOMAIN t = 1 .. 6
    BY <1>2
  <2> QED
    BY <1>5, <1>7, <2>1, VerdictFirst
<1>10. ours = "Ok" <=> \A i \in 1 .. 13 : o[i][1]
  <2>1. \A i \in 1 .. 13 : o[i][2] # "Ok"
    BY <1>3
  <2> QED
    BY <1>1, <1>5, <1>7, <2>1, VerdictOk
<1>11. theirs = "Ok" <=> \A i \in 1 .. 6 : t[i][1]
  <2>1. \A i \in 1 .. 6 : t[i][2] # "Ok"
    BY <1>4
  <2> QED
    BY <1>2, <1>5, <1>7, <2>1, VerdictOk
<1>12. ASSUME ~(amount > 0) PROVE Agree
  <2>1. 2 \in 1 .. 13 /\ ~o[2][1] /\ \A j \in 1 .. 2 - 1 : o[j][1]
    BY <1>1, <1>12
  <2>2. ours = "ZeroReceipt"
    BY <1>3, <1>8, <2>1
  <2>3. 1 \in 1 .. 6 /\ ~t[1][1] /\ \A j \in 1 .. 1 - 1 : t[j][1]
    BY <1>2, <1>12
  <2>4. theirs = "ZeroReceipt"
    BY <1>4, <1>9, <2>3
  <2> QED
    BY <2>2, <2>4
<1>13. ASSUME amount > 0 /\ ~o[6][1] PROVE Agree
  <2>1. 6 \in 1 .. 13 /\ \A j \in 1 .. 6 - 1 : o[j][1]
    BY <1>1, <1>13
  <2>2. ours = o[6][2]
    BY <1>8, <1>13, <2>1
  <2> QED
    BY <1>3, <2>2
<1>14. ASSUME amount > 0 /\ o[6][1] /\ ~(nonce > balance[b].last_receipt_nonce) PROVE Agree
  <2>1. 7 \in 1 .. 13 /\ ~o[7][1] /\ \A j \in 1 .. 7 - 1 : o[j][1]
    BY <1>1, <1>14
  <2>2. ours = "NonceNotMonotonic"
    BY <1>3, <1>8, <2>1
  <2>3. 2 \in 1 .. 6 /\ ~t[2][1] /\ \A j \in 1 .. 2 - 1 : t[j][1]
    BY <1>2, <1>14
  <2>4. theirs = "NonceNotMonotonic"
    BY <1>4, <1>9, <2>3
  <2> QED
    BY <2>2, <2>4
<1>15. ASSUME amount > 0 /\ o[6][1] /\ nonce > balance[b].last_receipt_nonce PROVE Agree
  <2>1. ours = "Ok" <=> theirs = "Ok"
    <3>1. (\A i \in 1 .. 13 : o[i][1]) <=>
            (o[9][1] /\ o[10][1] /\ o[12][1] /\ o[13][1])
      BY <1>1, <1>15
    <3>2. (\A i \in 1 .. 6 : t[i][1]) <=> (t[3][1] /\ t[4][1] /\ t[5][1] /\ t[6][1])
      BY <1>2, <1>15
    <3> QED
      BY <1>1, <1>2, <1>10, <1>11, <3>1, <3>2
  <2>2. ASSUME ours # "Ok" PROVE ours \in Reordered
    <3>1. 9 \in 1 .. 13 /\ \A i \in 1 .. 13 : i < 9 => o[i][1]
      BY <1>1, <1>15
    <3>2. \A i \in 9 .. 13 : o[i][1] \/ o[i][2] \in Reordered
      BY <1>1, <1>3 DEF Reordered
    <3> QED
      BY <1>1, <1>5, <1>7, <2>2, <3>1, <3>2, VerdictFrom
  <2>3. ASSUME theirs # "Ok" PROVE theirs \in Reordered
    <3>1. 3 \in 1 .. 6 /\ \A i \in 1 .. 6 : i < 3 => t[i][1]
      BY <1>2, <1>15
    <3>2. \A i \in 3 .. 6 : t[i][1] \/ t[i][2] \in Reordered
      BY <1>4 DEF Reordered
    <3> QED
      BY <1>2, <1>5, <1>7, <2>3, <3>1, <3>2, VerdictFrom
  <2> QED
    BY <2>1, <2>2, <2>3
<1>16. Agree
  BY <1>12, <1>13, <1>14, <1>15
<1>17. ours = "Ok" <=> apply_receipt_accepts(c, m, p, b, nonce, amount, day)
  BY <1>6, <1>10
<1> QED
  BY <1>16, <1>17 DEF ours, theirs

\* Both count with the same Cardinality.
LEMMA CoreCardinality ==
  ASSUME NEW p, NEW S
  PROVE  Core(p)!Cardinality(S) = Cardinality(S)
BY Zenon DEF Core!Cardinality, Cardinality

\* What an accepted receipt returns is the same: credit, streak and tier.
LEMMA SameOutcome ==
  ASSUME IInv, NEW c \in CoalitionAddr, NEW m \in MerchantAddr, NEW p \in PassportAddr,
         ReceiptReaches(c, m, p), NEW day \in Nat, NEW amount \in U64
  PROVE  ReceiptOutcome(c, m, p, <<p, m>>, amount, day) =
           Core(p)!Accrual(CoreMerchant(m), amount, day, CoreRules(c))
<1> DEFINE credit == credit_units(m, <<p, m>>, amount, day)
           delta == streak_delta(c, credit)
           points == passport[p].streak_points + delta
<1>1. merchant[m] # NoAccount /\ passport[p] # NoAccount
  BY DEF ReceiptReaches, MerchantConstraint, PassportConstraint
<1>2. /\ Core(p)!credit_units(CoreMerchant(m), amount, day) = credit
      /\ Core(p)!streak_delta(credit, CoreRules(c)) = delta
  BY <1>1, CoreCredit, CoreDelta
<1>3. Core(p)!level_for(CoreRules(c).thresholds, points) = tier_level_for(c, points)
  <2> DEFINE tiers == coalition[c].tier_thresholds
             reached == {i \in 1 .. Len(tiers) : \A j \in 1 .. i : points >= tiers[j]}
  <2>1. tier_level_for(c, points) = Cardinality(reached)
    BY DEF tier_level_for
  <2>2. CoreRules(c).thresholds = tiers
    BY DEF CoreRules
  <2>3. Core(p)!level_for(tiers, points) = Core(p)!Cardinality(reached)
    BY DEF Core!level_for
  <2> QED
    BY <2>1, <2>2, <2>3, CoreCardinality
<1>4. Core(p)!Accrual(CoreMerchant(m), amount, day, CoreRules(c)) =
        [credit_units |-> credit, streak_delta |-> delta,
         tier_level |-> Core(p)!level_for(CoreRules(c).thresholds, points)]
  <2> HIDE DEF credit, delta
  <2> QED
    BY <1>1, <1>2 DEF Core!Accrual
<1>5. ReceiptOutcome(c, m, p, <<p, m>>, amount, day) =
        [credit_units |-> credit, streak_delta |-> delta,
         tier_level |-> tier_level_for(c, points)]
  BY DEF ReceiptOutcome
<1> QED
  BY <1>3, <1>4, <1>5

\* Asked for the same redemption, the two answer the same and leave the same.
LEMMA SameRedemption ==
  ASSUME IInv, NEW c \in CoalitionAddr, NEW m \in MerchantAddr, NEW p \in PassportAddr,
         RedemptionReaches(c, m, p), NEW units \in U64
  PROVE  LET theirs == Core(p)!redeem_verdict(m, units) IN
         /\ theirs = apply_redemption_verdict(<<p, m>>, units)
         /\ theirs = "Ok" =>
              remaining_units(<<p, m>>, units) = Core(p)!remaining_units(m, units)
<1> DEFINE b == <<p, m>>
           t == Core(p)!redeem_checks(m, units)
           theirs == Core(p)!redeem_verdict(m, units)
           left == available_units(b)
<1>1. /\ b \in BalanceAddr /\ balance[b].version # 0
      /\ balance[b].earned_units \in U64 /\ balance[b].redeemed_units \in U64
      /\ left \in U64
      /\ left = balance[b].earned_units - balance[b].redeemed_units
  BY DEF RedemptionReaches, RedeemBalanceConstraint, BalanceAddr, IInv, TypeOK,
     MerchantBalance, Solvent, available_units
<1>2. /\ Core(p)!balance_for(m) = EntryOf(b)
      /\ coreBalance(b) # NoAccount
  BY <1>1, CoreEntry
<1>3. /\ EntryOf(b).earned_units = balance[b].earned_units
      /\ EntryOf(b).redeemed_units = balance[b].redeemed_units
  BY DEF EntryOf
<1>4. apply_redemption_verdict(b, units) =
        IF units <= 0 THEN "ZeroRedemption"
        ELSE IF units <= left THEN "Ok"
        ELSE "InsufficientMerchantCredit"
  BY RedemptionVerdict
<1>5. units \in Nat /\ left \in Nat /\ balance[b].redeemed_units \in Nat
  BY <1>1, NumbersAssumption DEF U64
<1>6. Core(p)!Available(m, units) <=> units <= left
  <2>1. Core(p)!available_units(m) =
          Core(p)!saturating_sub(balance[b].earned_units, balance[b].redeemed_units)
    BY <1>2, <1>3 DEF Core!available_units
  <2>2. Core(p)!available_units(m) = left
    BY <1>1, <1>5, <2>1, NumbersAssumption DEF Core!saturating_sub, U64
  <2> QED
    BY <2>2 DEF Core!Available
<1>7. units <= left => balance[b].redeemed_units + units \in U64
  BY <1>1, NumbersAssumption DEF U64
<1>8. theirs = Verdict(t)
  BY CoreVerdict DEF Core!redeem_verdict
<1>9. DOMAIN t = 1 .. 4
  BY DEF Core!redeem_checks
<1>10. t[1][1] <=> units > 0
  BY DEF Core!redeem_checks
<1>11. t[2][1]
  BY <1>2 DEF Core!redeem_checks
<1>12. t[3][1] <=> units <= left
  BY <1>6 DEF Core!redeem_checks
<1>13. units <= left => t[4][1]
  BY <1>2, <1>3, <1>7 DEF Core!redeem_checks, Core!U64, U64
<1>14. t[1][2] = "ZeroRedemption" /\ t[3][2] = "InsufficientMerchantCredit"
  BY DEF Core!redeem_checks
<1> HIDE DEF t, theirs, left
<1>15. CASE units <= 0
  <2>1. 4 \in Nat /\ 1 \in 1 .. 4 /\ ~t[1][1] /\ \A j \in 1 .. 1 - 1 : t[j][1]
    BY <1>5, <1>10, <1>15
  <2>2. Verdict(t) = t[1][2]
    BY <1>9, <2>1, VerdictFirst
  <2>3. theirs = "ZeroRedemption"
    BY <1>8, <1>14, <2>2
  <2> QED
    BY <1>4, <1>15, <2>3 DEF theirs
<1>16. CASE ~(units <= 0) /\ ~(units <= left)
  <2>1. 4 \in Nat /\ 3 \in 1 .. 4 /\ \A j \in 1 .. 3 - 1 : t[j][1]
    BY <1>5, <1>10, <1>11, <1>16
  <2>2. Verdict(t) = t[3][2]
    BY <1>9, <1>12, <1>16, <2>1, VerdictFirst
  <2>3. theirs = "InsufficientMerchantCredit"
    BY <1>8, <1>14, <2>2
  <2> QED
    BY <1>4, <1>16, <2>3 DEF theirs
<1>17. CASE ~(units <= 0) /\ units <= left
  <2>1. 4 \in Nat /\ \A j \in 1 .. 4 : t[j][1]
    BY <1>5, <1>10, <1>11, <1>12, <1>13, <1>17
  <2>2. theirs = "Ok"
    BY <1>8, <1>9, <2>1, VerdictIs
  <2>3. remaining_units(b, units) = Core(p)!remaining_units(m, units)
    <3>1. left = balance[b].earned_units - balance[b].redeemed_units
      BY <1>1
    <3>2. balance[b].earned_units >= balance[b].redeemed_units + units
      BY <1>1, <1>5, <1>17, <3>1, NumbersAssumption DEF U64
    <3> QED
      BY <1>2, <1>3, <3>2
         DEF remaining_units, Core!remaining_units, Core!saturating_sub
  <2> QED
    BY <1>4, <1>17, <2>2, <2>3 DEF theirs
<1> QED
  BY <1>15, <1>16, <1>17

\* Program and crate give the same answers in every reachable state.
THEOREM ProgramAnswersAsCore == Spec => []SameResult
<1>1. ASSUME IInv, NEW c \in CoalitionAddr, NEW m \in MerchantAddr, NEW p \in PassportAddr,
             ReceiptReaches(c, m, p), current_day_epoch >= 0,
             NEW nonce \in U64, NEW amount \in U64
      PROVE  LET b == <<p, m>>
                 day == current_day_epoch
                 theirs ==
                   Core(p)!accrue_verdict(CoreMerchant(m), nonce, amount, day, CoreRules(c))
                 ours == apply_receipt_verdict(c, m, p, b, nonce, amount, day)
             IN /\ \/ ours = theirs
                   \/ {ours, theirs} \subseteq Reordered
                   \/ ours = "ClockMovedBackwards"
                /\ ours = "Ok" <=> apply_receipt_accepts(c, m, p, b, nonce, amount, day)
                /\ ours = "Ok" =>
                     ReceiptOutcome(c, m, p, b, amount, day) =
                       Core(p)!Accrual(CoreMerchant(m), amount, day, CoreRules(c))
  <2>1. current_day_epoch \in Nat
    BY <1>1, DayInt DEF IInv, TypeOK
  <2> QED
    BY <1>1, <2>1, SameReceiptVerdict, SameOutcome
<1>2. IInv => SameResult
  <2> SUFFICES ASSUME IInv PROVE SameResult
    OBVIOUS
  <2>1. ASSUME NEW c \in CoalitionAddr, NEW m \in MerchantAddr, NEW p \in PassportAddr,
               RedemptionReaches(c, m, p), NEW units \in U64
        PROVE  LET theirs == Core(p)!redeem_verdict(m, units) IN
               /\ theirs = apply_redemption_verdict(<<p, m>>, units)
               /\ theirs = "Ok" =>
                    remaining_units(<<p, m>>, units) = Core(p)!remaining_units(m, units)
    BY <2>1, SameRedemption
  <2> QED
    BY <1>1, <2>1 DEF SameResult
<1> QED
  BY <1>2, Invariance, PTL

-----------------------------------------------------------------------------
(* The credential: create_passport, call by call *)

LEMMA CallSequence ==
  /\ Len(Cpis) = 6
  /\ DOMAIN Cpis = 1 .. 6
  /\ Cpis[1] = "create_account"
  /\ Cpis[2] = "non_transferable_mint_initialize"
  /\ Cpis[3] = "initialize_mint2"
  /\ Cpis[4] = "create_associated_token_account"
  /\ Cpis[5] = "mint_to_checked"
  /\ Cpis[6] = "set_authority"
BY DEF Cpis, MintAndAta

\* On a fresh address each call finds what the one before it left.
LEMMA CallEffects ==
  ASSUME NEW p, NEW step \in 2 .. 6
  PROVE  /\ Accepts(Cpis[step], p, Built(p, step))
         /\ Effect(Cpis[step], p, Built(p, step)) = Built(p, step + 1)
<1>1. CASE step = 2
  BY <1>1, CallSequence DEF Accepts, Effect, Built, MintExtensions
<1>2. CASE step = 3
  <2> DEFINE w == Built(p, 3)
             v == [state |-> "initialized", space |-> MintExtensions,
                   extensions |-> MintExtensions, supply |-> 0,
                   mint_authority |-> NoAccount, ata |-> "absent", amount |-> 0]
  <2>1. [w EXCEPT !.state = "initialized"] = v
    BY DEF Built
  <2>2. [v EXCEPT !.mint_authority = p] = Built(p, 4)
    BY DEF Built
  <2>3. Cpis[step] = "initialize_mint2"
    BY <1>2, CallSequence
  <2>4. Effect(Cpis[step], p, w) = [w EXCEPT !.state = "initialized", !.mint_authority = p]
    BY <2>3 DEF Effect
  <2>5. [w EXCEPT !.state = "initialized", !.mint_authority = p]
          = [[w EXCEPT !.state = "initialized"] EXCEPT !.mint_authority = p]
    OBVIOUS
  <2>6. Effect(Cpis[step], p, w) = Built(p, 4)
    BY <2>1, <2>2, <2>4, <2>5
  <2>7. Accepts(Cpis[step], p, w)
    BY <2>3 DEF Accepts, Built
  <2> QED
    BY <1>2, <2>6, <2>7
<1>3. CASE step = 4
  BY <1>3, CallSequence DEF Accepts, Effect, Built, MintExtensions
<1>4. CASE step = 5
  <2> DEFINE w == Built(p, 5)
             v == [state |-> "initialized", space |-> MintExtensions,
                   extensions |-> MintExtensions, supply |-> 1,
                   mint_authority |-> p, ata |-> "open", amount |-> 0]
  <2>1. [w EXCEPT !.supply = 1] = v
    BY DEF Built
  <2>2. [v EXCEPT !.amount = 1] = Built(p, 6)
    BY DEF Built
  <2>3. Cpis[step] = "mint_to_checked"
    BY <1>4, CallSequence
  <2>4. Effect(Cpis[step], p, w) = [w EXCEPT !.supply = @ + 1, !.amount = @ + 1]
    BY <2>3 DEF Effect
  <2>5. w.supply + 1 = 1 /\ w.amount + 1 = 1
    BY DEF Built
  <2>6. [w EXCEPT !.supply = 1, !.amount = 1] = [[w EXCEPT !.supply = 1] EXCEPT !.amount = 1]
    OBVIOUS
  <2>7. Effect(Cpis[step], p, w) = Built(p, 6)
    BY <2>1, <2>2, <2>4, <2>5, <2>6
  <2>8. Accepts(Cpis[step], p, w)
    BY <2>3 DEF Accepts, Built
  <2> QED
    BY <1>4, <2>7, <2>8
<1>5. CASE step = 6
  BY <1>5, CallSequence DEF Accepts, Effect, Built, MintExtensions
<1> QED
  BY <1>1, <1>2, <1>3, <1>4, <1>5

LEMMA FirstCall ==
  ASSUME NEW p, NEW k \in MintKey, Accepts(Cpis[1], p, Loaded(k))
  PROVE  /\ mint[k] = NoAccount
         /\ Effect(Cpis[1], p, Loaded(k)) = Built(p, 2)
<1>1. Cpis[1] = "create_account"
  BY CallSequence
<1>2. mint[k] = NoAccount
  BY <1>1 DEF Accepts, Loaded
<1> DEFINE w == Loaded(k)
           v == [state |-> "allocated", space |-> {}, extensions |-> {}, supply |-> 0,
                 mint_authority |-> NoAccount, ata |-> "absent", amount |-> 0]
<1>3. [w EXCEPT !.state = "allocated"] = v
  BY <1>2 DEF Loaded
<1>4. [v EXCEPT !.space = MintExtensions] = Built(p, 2)
  BY DEF Built
<1>5. Effect(Cpis[1], p, w) = [w EXCEPT !.state = "allocated", !.space = MintExtensions]
  BY <1>1 DEF Effect
<1>6. [w EXCEPT !.state = "allocated", !.space = MintExtensions]
        = [[w EXCEPT !.state = "allocated"] EXCEPT !.space = MintExtensions]
  OBVIOUS
<1> QED
  BY <1>2, <1>3, <1>4, <1>5, <1>6

-----------------------------------------------------------------------------
(* The transactions *)

LEMMA TransactionFields ==
  ASSUME NEW t, NEW h, NEW c, NEW k, NEW step \in 1 .. 7, t = Transaction(h, c, k, step)
  PROVE  /\ t # NoTx
         /\ t.step = step
         /\ t.coalition = c
         /\ t.passport_mint = k
         /\ t.work = IF step = 1 THEN Loaded(k) ELSE Built(<<c, h>>, step)
<1>1. NoTx.step = 0
  BY DEF NoTx
<1>2. t.step = step
  BY DEF Transaction
<1> QED
  BY <1>1, <1>2 DEF Transaction

\* A step that changes one transaction and no account.
LEMMA UpdateSound ==
  ASSUME TransactionsSound, NEW h \in Customer, NEW T,
         tx' = [tx EXCEPT ![h] = T], UNCHANGED vars,
         T # NoTx =>
           /\ \E c \in CoalitionAddr, k \in MintKey, step \in 1 .. 7 :
                T = Transaction(h, c, k, step) /\ StillFree(h, c, k, step)
           /\ \A g \in Customer : (g # h /\ Running(g)) =>
                tx[g].passport_mint # T.passport_mint
  PROVE  TransactionsSound'
<1>1. tx' = [g \in Customer |-> tx'[g]]
  BY DEF TransactionsSound
<1>2. \A g \in Customer : tx'[g] = IF g = h THEN T ELSE tx[g]
  BY DEF TransactionsSound
<1>3. ASSUME NEW g \in Customer, Running(g)'
      PROVE  \E c \in CoalitionAddr, k \in MintKey, step \in 1 .. 7 :
               tx'[g] = Transaction(g, c, k, step)' /\ StillFree(g, c, k, step)'
  <2>1. \E c \in CoalitionAddr, k \in MintKey, step \in 1 .. 7 :
          tx'[g] = Transaction(g, c, k, step) /\ StillFree(g, c, k, step)
    BY <1>2, <1>3 DEF TransactionsSound, Running
  <2>2. ASSUME NEW c, NEW k, NEW step
        PROVE  /\ Transaction(g, c, k, step)' = Transaction(g, c, k, step)
               /\ StillFree(g, c, k, step)' = StillFree(g, c, k, step)
    BY DEF vars, Transaction, Loaded, Built, StillFree, CoalitionConstraint, NotPaused,
           PassportAbsent
  <2> QED
    BY <2>1, <2>2
<1>4. ASSUME NEW g \in Customer, NEW i \in Customer, Running(g)', Running(i)', g # i
      PROVE  tx'[g].passport_mint # tx'[i].passport_mint
  BY <1>2, <1>4 DEF TransactionsSound, Running
<1> QED
  BY <1>1, <1>3, <1>4 DEF TransactionsSound

LEMMA BeginSound ==
  ASSUME TransactionsSound, NEW h \in Customer, NEW c \in CoalitionAddr, NEW k \in MintKey,
         Begin(h, c, k)
  PROVE  TransactionsSound'
<1> DEFINE T == Transaction(h, c, k, 1)
<1>1. tx' = [tx EXCEPT ![h] = T]
  BY DEF Begin, Transaction
<1>2. StillFree(h, c, k, 1)
  BY DEF Begin, StillFree
<1>3. T.passport_mint = k
  BY DEF Transaction
<1>4. \A g \in Customer : (g # h /\ Running(g)) => tx[g].passport_mint # T.passport_mint
  BY <1>3 DEF Begin
<1>5. \E d \in CoalitionAddr, l \in MintKey, step \in 1 .. 7 :
        T = Transaction(h, d, l, step) /\ StillFree(h, d, l, step)
  BY <1>2
<1>6. UNCHANGED vars
  BY DEF Begin
<1> HIDE DEF T
<1> QED
  BY <1>1, <1>4, <1>5, <1>6, UpdateSound

LEMMA CallSound ==
  ASSUME TransactionsSound, NEW h \in Customer, Call(h)
  PROVE  TransactionsSound'
<1>1. tx[h].step \in 1 .. 6
  BY CallSequence DEF Call
<1>2. Running(h)
  BY <1>1 DEF Running, NoTx
<1>3. PICK c \in CoalitionAddr, k \in MintKey, step \in 1 .. 7 :
        tx[h] = Transaction(h, c, k, step) /\ StillFree(h, c, k, step)
  BY <1>2 DEF TransactionsSound
<1>4. /\ tx[h].step = step
      /\ tx[h].coalition = c
      /\ tx[h].passport_mint = k
      /\ tx[h].work = IF step = 1 THEN Loaded(k) ELSE Built(<<c, h>>, step)
  BY <1>3, TransactionFields
<1>5. PassportOf(h) = <<c, h>>
  BY <1>4 DEF PassportOf
<1>6. /\ Accepts(Cpis[step], <<c, h>>, tx[h].work)
      /\ step \in 1 .. 6
  BY <1>1, <1>4, <1>5 DEF Call
<1>7. Effect(Cpis[step], <<c, h>>, tx[h].work) = Built(<<c, h>>, step + 1)
  <2>1. CASE step = 1
    BY <2>1, <1>4, <1>6, FirstCall
  <2>2. CASE step # 1
    BY <2>2, <1>4, <1>6, CallEffects
  <2> QED
    BY <2>1, <2>2
<1>8. StillFree(h, c, k, step + 1)
  <2>1. CASE step = 1
    BY <2>1, <1>3, <1>4, <1>6, FirstCall DEF StillFree
  <2>2. CASE step # 1
    BY <2>2, <1>3 DEF StillFree
  <2> QED
    BY <2>1, <2>2
<1> DEFINE T == Transaction(h, c, k, step + 1)
<1>9. tx' = [tx EXCEPT ![h] = T]
  <2> DEFINE w == Built(<<c, h>>, step + 1)
             v == [step |-> step, coalition |-> c, passport_mint |-> k, work |-> w]
  <2>1. tx' = [tx EXCEPT ![h].work = w, ![h].step = step + 1]
    BY <1>4, <1>5, <1>7 DEF Call
  <2> HIDE DEF w
  <2>2. tx' = [tx EXCEPT ![h] = [[tx[h] EXCEPT !.work = w] EXCEPT !.step = step + 1]]
    BY <2>1 DEF TransactionsSound
  <2>3. tx[h] = [step |-> step, coalition |-> c, passport_mint |-> k, work |-> tx[h].work]
    BY <1>3 DEF Transaction
  <2>4. [tx[h] EXCEPT !.work = w] = v
    BY <2>3
  <2>5. [v EXCEPT !.step = step + 1]
          = [step |-> step + 1, coalition |-> c, passport_mint |-> k, work |-> w]
    OBVIOUS
  <2>6. T = [step |-> step + 1, coalition |-> c, passport_mint |-> k, work |-> w]
    BY <1>6 DEF Transaction, w
  <2> QED
    BY <2>2, <2>4, <2>5, <2>6
<1>10. \A g \in Customer : (g # h /\ Running(g)) => tx[g].passport_mint # T.passport_mint
  BY <1>2, <1>4, <1>6, TransactionFields DEF TransactionsSound
<1>11. \E d \in CoalitionAddr, l \in MintKey, n \in 1 .. 7 :
         T = Transaction(h, d, l, n) /\ StillFree(h, d, l, n)
  <2>1. step + 1 \in 1 .. 7
    BY <1>6
  <2> QED
    BY <2>1, <1>8
<1>12. UNCHANGED vars
  BY DEF Call
<1> HIDE DEF T
<1> QED
  BY <1>9, <1>10, <1>11, <1>12, UpdateSound

LEMMA AbortSound ==
  ASSUME TransactionsSound, NEW h \in Customer, Abort(h)
  PROVE  TransactionsSound'
BY UpdateSound DEF Abort

\* The write at the end, after the six calls: CreatePassport as a whole.
LEMMA CommitCreates ==
  ASSUME MintingIInv, NEW h \in Customer, Commit(h)
  PROVE  \E c \in CoalitionAddr, k \in MintKey :
           /\ CreatePassport(h, c, k)
           /\ tx[h].passport_mint = k
           /\ Running(h)
           /\ tx' = [tx EXCEPT ![h] = NoTx]
           /\ soulbound' = soulbound \cup {k}
<1>1. tx[h].step = 7
  BY CallSequence DEF Commit
<1>2. Running(h)
  BY <1>1 DEF Running, NoTx
<1>3. PICK c \in CoalitionAddr, k \in MintKey, step \in 1 .. 7 :
        tx[h] = Transaction(h, c, k, step) /\ StillFree(h, c, k, step)
  BY <1>2 DEF MintingIInv, TransactionsSound
<1>4. /\ tx[h].step = step
      /\ tx[h].coalition = c
      /\ tx[h].passport_mint = k
      /\ tx[h].work = IF step = 1 THEN Loaded(k) ELSE Built(<<c, h>>, step)
  BY <1>3, TransactionFields
<1>5. /\ tx[h].coalition = c
      /\ tx[h].passport_mint = k
      /\ tx[h].work = Built(<<c, h>>, 7)
  BY <1>1, <1>4
<1>6. /\ tx[h].work.supply = 1
      /\ tx[h].work.mint_authority = NoAccount
      /\ tx[h].work.amount = 1
      /\ tx[h].work.extensions = {"NonTransferable"}
  BY <1>5 DEF Built, MintExtensions
<1>7. PassportOf(h) = <<c, h>>
  BY <1>5 DEF PassportOf
<1>8. /\ CoalitionConstraint(c)
      /\ NotPaused(c)
      /\ passport[<<c, h>>] = NoAccount
      /\ mint[k] = NoAccount
  BY <1>1, <1>3, <1>4 DEF StillFree, PassportAbsent
<1>9. /\ token \in [Customer \X MintKey -> Nat]
      /\ token[<<h, k>>] = 0
  BY <1>8 DEF MintingIInv, IInv, TypeOK, NoTokenWithoutMint
<1>10. token' = [token EXCEPT ![<<h, k>>] = @ + 1]
  <2>1. token' = [token EXCEPT ![<<h, k>>] = 1]
    BY <1>5, <1>6 DEF Commit
  <2>2. token[<<h, k>>] + 1 = 1
    BY <1>9
  <2> QED
    BY <2>1, <2>2
<1>11. /\ mint' = [mint EXCEPT ![k] = [supply |-> 1, mint_authority |-> NoAccount]]
       /\ passport' = [passport EXCEPT ![<<c, h>>] =
            [coalition |-> c, customer |-> h, passport_mint |-> k,
             total_visits |-> 0, streak_points |-> 0]]
       /\ UNCHANGED <<coalition, merchant, balance, unix_timestamp>>
  BY <1>5, <1>6, <1>7 DEF Commit
<1>12. CreatePassport(h, c, k)
  BY <1>8, <1>10, <1>11 DEF CreatePassport, FreshMint
<1>13. soulbound' = soulbound \cup {k}
  BY <1>5, <1>6 DEF Commit
<1> QED
  BY <1>2, <1>5, <1>12, <1>13 DEF Commit

LEMMA CommitSound ==
  ASSUME MintingIInv, NEW h \in Customer, Commit(h)
  PROVE  TransactionsSound' /\ MintsOwned'
<1>1. PICK c \in CoalitionAddr, k \in MintKey :
        /\ CreatePassport(h, c, k)
        /\ tx[h].passport_mint = k
        /\ Running(h)
        /\ tx' = [tx EXCEPT ![h] = NoTx]
        /\ soulbound' = soulbound \cup {k}
  BY CommitCreates
<1>2. /\ passport \in [PassportAddr -> PassportAccount \cup {NoAccount}]
      /\ mint \in [MintKey -> Mint \cup {NoAccount}]
      /\ TransactionsSound
      /\ MintsOwned
  BY DEF MintingIInv, IInv, TypeOK
<1>3. /\ \A q \in PassportAddr : q # <<c, h>> => passport'[q] = passport[q]
      /\ \A l \in MintKey : l # k => mint'[l] = mint[l]
      /\ coalition' = coalition
      /\ passport[<<c, h>>] = NoAccount
      /\ passport'[<<c, h>>] =
           [coalition |-> c, customer |-> h, passport_mint |-> k,
            total_visits |-> 0, streak_points |-> 0]
      /\ <<c, h>> \in PassportAddr
  BY <1>1, <1>2 DEF CreatePassport, PassportAddr
<1>4. \A g \in Customer : tx'[g] = IF g = h THEN NoTx ELSE tx[g]
  BY <1>1, <1>2 DEF TransactionsSound
<1>5. tx' = [g \in Customer |-> tx'[g]]
  BY <1>1, <1>2 DEF TransactionsSound
<1>6. ASSUME NEW g \in Customer, Running(g)'
      PROVE  \E d \in CoalitionAddr, l \in MintKey, step \in 1 .. 7 :
               tx'[g] = Transaction(g, d, l, step)' /\ StillFree(g, d, l, step)'
  <2>1. g # h /\ tx'[g] = tx[g] /\ Running(g)
    BY <1>4, <1>6 DEF Running
  <2>2. PICK d \in CoalitionAddr, l \in MintKey, step \in 1 .. 7 :
          tx[g] = Transaction(g, d, l, step) /\ StillFree(g, d, l, step)
    BY <2>1, <1>2 DEF TransactionsSound
  <2>3. l # k
    <3>1. /\ tx[g].step = step
          /\ tx[g].coalition = d
          /\ tx[g].passport_mint = l
          /\ tx[g].work = IF step = 1 THEN Loaded(l) ELSE Built(<<d, g>>, step)
      BY <2>2, TransactionFields
    <3> QED
      BY <3>1, <2>1, <1>1, <1>2 DEF TransactionsSound
  <2>4. mint'[l] = mint[l]
    BY <2>3, <1>3
  <2>5. passport'[<<d, g>>] = passport[<<d, g>>]
    BY <2>1, <1>3 DEF PassportAddr
  <2>6. Transaction(g, d, l, step)' = Transaction(g, d, l, step)
    BY <2>4 DEF Transaction, Loaded, Built
  <2>7. StillFree(g, d, l, step)'
    BY <2>2, <2>4, <2>5, <1>3 DEF StillFree, CoalitionConstraint, NotPaused, PassportAbsent
  <2> QED
    BY <2>1, <2>2, <2>6, <2>7
<1>7. \A g, i \in Customer :
        (Running(g)' /\ Running(i)' /\ g # i) => tx'[g].passport_mint # tx'[i].passport_mint
  BY <1>2, <1>4 DEF TransactionsSound, Running
<1>8. TransactionsSound'
  BY <1>5, <1>6, <1>7 DEF TransactionsSound
<1>9. ASSUME NEW l \in MintKey, mint'[l] # NoAccount
      PROVE  /\ l \in soulbound'
             /\ \E q \in PassportAddr :
                  passport'[q] # NoAccount /\ passport'[q].passport_mint = l
  <2>1. CASE l = k
    <3>1. passport'[<<c, h>>] \in PassportAccount
      BY <1>3, NumbersAssumption DEF PassportAccount, U64
    <3>2. passport'[<<c, h>>] # NoAccount
      BY <3>1, NoAccountAssumption
    <3>3. passport'[<<c, h>>].passport_mint = k
      BY <1>3
    <3> QED
      BY <2>1, <1>1, <1>3, <3>2, <3>3
  <2>2. CASE l # k
    <3>1. /\ l \in soulbound
          /\ \E q \in PassportAddr : passport[q] # NoAccount /\ passport[q].passport_mint = l
      BY <2>2, <1>2, <1>3, <1>9 DEF MintsOwned
    <3> QED
      BY <3>1, <1>1, <1>3
  <2> QED
    BY <2>1, <2>2
<1>10. MintsOwned'
  BY <1>9 DEF MintsOwned
<1> QED
  BY <1>8, <1>10

-----------------------------------------------------------------------------
(* Everything else *)

\* No instruction but create_passport makes a passport or a mint.
LEMMA OtherEffect ==
  ASSUME IInv, Configure \/ RecordAnyReceipt \/ RedeemAny \/ Environment
  PROVE  /\ \A q \in PassportAddr : passport[q] = NoAccount => passport'[q] = NoAccount
         /\ \A q \in PassportAddr : passport[q] # NoAccount =>
              /\ passport'[q] # NoAccount
              /\ passport'[q].passport_mint = passport[q].passport_mint
         /\ \A k \in MintKey : mint'[k] # NoAccount => mint[k] # NoAccount
<1>1. CASE UNCHANGED <<passport, mint>>
  BY <1>1
<1>2. CASE RecordAnyReceipt
  <2>1. PICK c \in CoalitionAddr, ma \in MerchantKey, m \in MerchantAddr,
             p \in PassportAddr, b \in BalanceAddr, nonce \in U64, amount \in U64,
             hash \in ReceiptHash : RecordReceipt(ma, c, m, p, b, nonce, amount, hash)
    BY <1>2 DEF RecordAnyReceipt
  <2>2. /\ passport' = [passport EXCEPT ![p] = passport'[p]]
        /\ passport[p] # NoAccount
        /\ passport'[p] # NoAccount
        /\ passport'[p].passport_mint = passport[p].passport_mint
        /\ mint' = mint
    BY <2>1, ReceiptEffect
  <2>3. \A q \in PassportAddr : q # p => passport'[q] = passport[q]
    BY <2>2 DEF IInv, TypeOK
  <2> QED
    BY <2>2, <2>3
<1>3. CASE Environment /\ ~UNCHANGED <<passport, mint>>
  <2>1. PICK h \in Customer, l \in MintKey : BurnCredential(h, l)
    BY <1>3 DEF Environment, SetClock
  <2>2. \A k \in MintKey : k # l => mint'[k] = mint[k]
    BY <2>1 DEF BurnCredential, IInv, TypeOK
  <2>3. mint[l] # NoAccount /\ passport' = passport
    BY <2>1 DEF BurnCredential
  <2> QED
    BY <2>2, <2>3
<1>4. Configure => UNCHANGED <<passport, mint>>
  BY DEF Configure, InitializeCoalition, RegisterMerchant, PauseCoalition, UnpauseCoalition
<1>5. RedeemAny => UNCHANGED <<passport, mint>>
  BY DEF RedeemAny, Redeem
<1> QED
  BY <1>1, <1>2, <1>3, <1>4, <1>5

LEMMA OtherSound ==
  ASSUME MintingIInv, OtherInstruction
  PROVE  TransactionsSound' /\ MintsOwned'
<1>1. /\ IInv
      /\ TransactionsSound
      /\ MintsOwned
      /\ Configure \/ RecordAnyReceipt \/ RedeemAny \/ Environment
      /\ LocksHeld
      /\ tx' = tx /\ soulbound' = soulbound
  BY DEF MintingIInv, OtherInstruction
<1>2. /\ \A q \in PassportAddr : passport[q] = NoAccount => passport'[q] = NoAccount
      /\ \A q \in PassportAddr : passport[q] # NoAccount =>
           /\ passport'[q] # NoAccount
           /\ passport'[q].passport_mint = passport[q].passport_mint
      /\ \A k \in MintKey : mint'[k] # NoAccount => mint[k] # NoAccount
  BY <1>1, OtherEffect
<1>3. ASSUME NEW g \in Customer, Running(g)'
      PROVE  \E d \in CoalitionAddr, l \in MintKey, step \in 1 .. 7 :
               tx'[g] = Transaction(g, d, l, step)' /\ StillFree(g, d, l, step)'
  <2>1. tx'[g] = tx[g] /\ Running(g)
    BY <1>1, <1>3 DEF Running
  <2>2. PICK d \in CoalitionAddr, l \in MintKey, step \in 1 .. 7 :
          tx[g] = Transaction(g, d, l, step) /\ StillFree(g, d, l, step)
    BY <2>1, <1>1 DEF TransactionsSound
  <2>3. /\ tx[g].step = step
        /\ tx[g].coalition = d
        /\ tx[g].passport_mint = l
        /\ tx[g].work = IF step = 1 THEN Loaded(l) ELSE Built(<<d, g>>, step)
    BY <2>2, TransactionFields
  <2>4. coalition'[d] = coalition[d] /\ mint'[l] = mint[l]
    BY <2>1, <2>3, <1>1 DEF LocksHeld
  <2>5. passport[<<d, g>>] = NoAccount => passport'[<<d, g>>] = NoAccount
    BY <1>2 DEF PassportAddr
  <2>6. Transaction(g, d, l, step)' = Transaction(g, d, l, step)
    BY <2>4 DEF Transaction, Loaded, Built
  <2>7. StillFree(g, d, l, step)'
    BY <2>2, <2>4, <2>5 DEF StillFree, CoalitionConstraint, NotPaused, PassportAbsent
  <2> QED
    BY <2>1, <2>2, <2>6, <2>7
<1>4. TransactionsSound'
  BY <1>1, <1>3 DEF TransactionsSound, Running
<1>5. MintsOwned'
  BY <1>1, <1>2 DEF MintsOwned
<1> QED
  BY <1>4, <1>5

-----------------------------------------------------------------------------
(* The invariant and the refinement *)

LEMMA InitMinting == MintingInit => MintingIInv
<1> SUFFICES ASSUME MintingInit
             PROVE  MintingIInv
  OBVIOUS
<1>1. IInv
  BY InitIInv DEF MintingInit
<1>2. TransactionsSound
  BY DEF MintingInit, TransactionsSound, Running
<1>3. MintsOwned
  BY DEF MintingInit, Init, MintsOwned
<1> QED
  BY <1>1, <1>2, <1>3 DEF MintingIInv

\* A step on the accounts is a step of the program: only Commit creates.
LEMMA MintingStep ==
  MintingIInv /\ [MintingNext]_mintingVars => [Next]_vars /\ MintingIInv'
<1> SUFFICES ASSUME MintingIInv, [MintingNext]_mintingVars
             PROVE  [Next]_vars /\ TransactionsSound' /\ MintsOwned'
  BY NextIInv DEF MintingIInv
<1>1. IInv /\ TransactionsSound /\ MintsOwned
  BY DEF MintingIInv
<1>2. ASSUME UNCHANGED <<vars, soulbound>>
      PROVE  MintsOwned'
  BY <1>1, <1>2 DEF MintsOwned, vars
<1>3. ASSUME NEW h \in Customer, NEW c \in CoalitionAddr, NEW k \in MintKey, Begin(h, c, k)
      PROVE  [Next]_vars /\ TransactionsSound' /\ MintsOwned'
  BY <1>1, <1>2, <1>3, BeginSound DEF Begin
<1>4. ASSUME NEW h \in Customer, Call(h)
      PROVE  [Next]_vars /\ TransactionsSound' /\ MintsOwned'
  BY <1>1, <1>2, <1>4, CallSound DEF Call
<1>5. ASSUME NEW h \in Customer, Commit(h)
      PROVE  [Next]_vars /\ TransactionsSound' /\ MintsOwned'
  <2>1. PICK c \in CoalitionAddr, k \in MintKey : CreatePassport(h, c, k)
    BY <1>5, CommitCreates
  <2>2. Next
    BY <2>1 DEF Next, CreateAnyPassport
  <2> QED
    BY <2>2, <1>5, CommitSound
<1>6. ASSUME NEW h \in Customer, Abort(h)
      PROVE  [Next]_vars /\ TransactionsSound' /\ MintsOwned'
  BY <1>1, <1>2, <1>6, AbortSound DEF Abort
<1>7. CASE OtherInstruction
  <2>1. Next
    BY <1>7 DEF OtherInstruction, Next
  <2> QED
    BY <2>1, <1>7, OtherSound
<1>8. CASE UNCHANGED mintingVars
  <2>1. tx' = tx /\ UNCHANGED <<vars, soulbound>>
    BY <1>8 DEF mintingVars, vars
  <2>2. TransactionsSound'
    <3>1. ASSUME NEW g, NEW c, NEW k, NEW step
          PROVE  /\ Transaction(g, c, k, step)' = Transaction(g, c, k, step)
                 /\ StillFree(g, c, k, step)' = StillFree(g, c, k, step)
      BY <2>1 DEF vars, Transaction, Loaded, Built, StillFree, CoalitionConstraint,
             NotPaused, PassportAbsent
    <3> QED
      BY <3>1, <2>1, <1>1 DEF TransactionsSound, Running
  <2> QED
    BY <2>1, <2>2, <1>2
<1> QED
  BY <1>3, <1>4, <1>5, <1>6, <1>7, <1>8 DEF MintingNext

\* The inductive invariant of the minting transactions: whatever part of
\* create_passport has run, the next call finds what it needs, and what Begin
\* checked still holds under the locks (lib.rs 131-226).
THEOREM MintingInvariance == MintingSpec => []MintingIInv
<1>1. MintingIInv /\ [MintingNext]_mintingVars => MintingIInv'
  BY MintingStep
<1> QED
  BY InitMinting, <1>1, PTL DEF MintingSpec

\* Six calls and a write, any number of them in parallel and any of them
\* failing, are the one atomic CreatePassport of the program (lib.rs 131-226).
THEOREM MintingIsAtomic == MintingSpec => MintingImplementsProgram
<1>1. MintingInit => Init
  BY DEF MintingInit
<1>2. MintingIInv /\ [MintingNext]_mintingVars => [Next]_vars
  BY MintingStep
<1> QED
  BY <1>1, <1>2, MintingInvariance, PTL DEF MintingSpec, MintingImplementsProgram, Spec

\* After create_account no later call of create_passport is refused
\* (lib.rs 150-218).
THEOREM CallsAccepted == MintingSpec => []CallsNeverRefused
<1>1. ASSUME MintingIInv
      PROVE  CallsNeverRefused
  <2> SUFFICES ASSUME NEW h \in Customer, Running(h), tx[h].step \in 2 .. 6
               PROVE  Accepts(Cpis[tx[h].step], PassportOf(h), tx[h].work)
    BY CallSequence DEF CallsNeverRefused
  <2>1. PICK c \in CoalitionAddr, k \in MintKey, step \in 1 .. 7 :
          tx[h] = Transaction(h, c, k, step) /\ StillFree(h, c, k, step)
    BY <1>1 DEF MintingIInv, TransactionsSound
  <2>2. /\ tx[h].step = step
        /\ tx[h].coalition = c
        /\ tx[h].passport_mint = k
        /\ tx[h].work = IF step = 1 THEN Loaded(k) ELSE Built(<<c, h>>, step)
    BY <2>1, TransactionFields
  <2>3. /\ PassportOf(h) = <<c, h>>
        /\ step \in 2 .. 6
        /\ tx[h].work = Built(<<c, h>>, step)
    BY <2>2 DEF PassportOf
  <2> QED
    BY <2>2, <2>3, CallEffects
<1> QED
  BY <1>1, MintingInvariance, PTL

\* Every mint that was ever created is bound to its holder and is the
\* credential of exactly one passport (lib.rs 128-156, 420-433).
THEOREM NoStrayMint == MintingSpec => []MintsAreCredentials
<1>1. ASSUME MintingIInv
      PROVE  MintsAreCredentials
  <2> SUFFICES ASSUME NEW k \in MintKey, mint[k] # NoAccount
               PROVE  /\ k \in soulbound
                      /\ Cardinality({p \in PassportAddr :
                           passport[p] # NoAccount /\ passport[p].passport_mint = k}) = 1
    BY DEF MintsAreCredentials
  <2>1. k \in soulbound
    BY <1>1 DEF MintingIInv, MintsOwned
  <2>2. PICK p \in PassportAddr : passport[p] # NoAccount /\ passport[p].passport_mint = k
    BY <1>1 DEF MintingIInv, MintsOwned
  <2>3. \A q \in PassportAddr :
          (passport[q] # NoAccount /\ passport[q].passport_mint = k) => q = p
    BY <1>1, <2>2 DEF MintingIInv, IInv, CredentialUnique
  <2>4. {q \in PassportAddr : passport[q] # NoAccount /\ passport[q].passport_mint = k} = {p}
    BY <2>2, <2>3
  <2> QED
    BY <2>1, <2>4, FS_Singleton
<1> QED
  BY <1>1, MintingInvariance, PTL

=============================================================================
