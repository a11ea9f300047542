--------------------------- MODULE DevnetDemo_proofs ---------------------------
(***************************************************************************)
(* A complete.json is true of its own run: however many runs were started, *)
(* ended anywhere and left transactions behind, the chain takes one        *)
(* receipt and one redemption, and the files name those of the last run.   *)
(***************************************************************************)
EXTENDS DevnetDemo, CoalitionProgram_proofs

-----------------------------------------------------------------------------
(* The script *)

LEMMA FlowNames ==
  /\ DOMAIN Flow = 1 .. 10 /\ Len(Flow) = 10
  /\ \A i, j \in 1 .. 10 : Flow[i] = Flow[j] => i = j
  /\ Flow[8] = "before-redeem" /\ Flow[9] = "redeem" /\ Flow[10] = "final-status"
  /\ \A i \in 1 .. 10 : Flow[i] \in StatusName <=> i \in {8, 10}
  /\ Name = {Flow[i] : i \in 1 .. 10}
<1>1. DOMAIN Flow = 1 .. 10 /\ Len(Flow) = 10
  BY DEF Flow
<1>2. \A i, j \in 1 .. 10 : Flow[i] = Flow[j] => i = j
  BY DEF Flow
<1>3. Flow[8] = "before-redeem" /\ Flow[9] = "redeem" /\ Flow[10] = "final-status"
  BY DEF Flow
<1>4. \A i \in 1 .. 10 : Flow[i] \in StatusName <=> i \in {8, 10}
  BY <1>2, <1>3 DEF StatusName
<1>5. Name = {Flow[i] : i \in 1 .. 10}
  BY <1>1 DEF Name
<1> QED
  BY <1>1, <1>2, <1>3, <1>4, <1>5

LEMMA DemoAddresses ==
  /\ DEPLOYER \in CoalitionAddr
  /\ demoMerchant = <<DEPLOYER, MERCHANT>> /\ demoMerchant \in MerchantAddr
  /\ demoPassport = <<DEPLOYER, CUSTOMER>> /\ demoPassport \in PassportAddr
  /\ demoBalance = <<demoPassport, demoMerchant>> /\ demoBalance \in BalanceAddr
BY DemoAssumption DEF CoalitionAddr, MerchantAddr, PassportAddr, BalanceAddr,
   demoMerchant, demoPassport, demoBalance

LEMMA DemoUnits == {0, 1, 10, 12, 120, 500, 120000} \subseteq U64
<1>1. MaxU64 \in Nat /\ 120000 <= MaxU64
  BY DemoAssumption, NumbersAssumption DEF U64
<1> QED
  BY <1>1 DEF U64

\* The transactions of the script are instructions, or outside the program.
LEMMA IncludedIsStep ==
  ASSUME NEW name, Included(name)
  PROVE  [Next]_vars
<1>1. CASE name \in {"deploy", "fund-merchant", "fund-customer"}
  BY <1>1 DEF Included
<1>2. CASE InitializeCoalition(DEPLOYER, DemoArgs)
  BY <1>2, DemoAssumption DEF Next, Configure
<1>3. CASE RegisterMerchant(DEPLOYER, DEPLOYER, MERCHANT, ShopArgs)
  BY <1>3, DemoAssumption, DemoAddresses DEF Next, Configure
<1>4. CASE \E k \in MintKey : CreatePassport(CUSTOMER, DEPLOYER, k)
  BY <1>4, DemoAssumption, DemoAddresses DEF Next, CreateAnyPassport
<1>5. CASE RecordReceipt(MERCHANT, DEPLOYER, demoMerchant, demoPassport, demoBalance,
                         1, 120, commitment)
  <2>1. 1 \in U64 /\ 120 \in U64
    BY DemoUnits
  <2>2. RecordAnyReceipt
    BY <1>5, <2>1, DemoAssumption, DemoAddresses DEF RecordAnyReceipt
  <2> QED
    BY <2>2 DEF Next
<1>6. CASE Redeem(CUSTOMER, DEPLOYER, demoMerchant, demoPassport, demoBalance, 10)
  <2>1. 10 \in U64
    BY DemoUnits
  <2>2. RedeemAny
    BY <1>6, <2>1, DemoAssumption, DemoAddresses DEF RedeemAny
  <2> QED
    BY <2>2 DEF Next
<1> QED
  BY <1>1, <1>2, <1>3, <1>4, <1>5, <1>6 DEF Included

LEMMA DemoSteps == [DemoNext]_demoVars => [Next]_vars
<1> SUFFICES ASSUME [DemoNext]_demoVars PROVE [Next]_vars
  OBVIOUS
<1>1. ASSUME NEW name, NEW r, Land(name, r) PROVE [Next]_vars
  BY <1>1, IncludedIsStep DEF Land
<1>2. ASSUME NEW name, Submit(name) \/ Confirm(name) \/ PrintStatus(name)
      PROVE  UNCHANGED vars
  BY <1>2 DEF Submit, Confirm, PrintStatus
<1>3. CASE Start \/ OpenComplete \/ WriteComplete \/ Exit \/ Archive
  BY <1>3 DEF Start, OpenComplete, WriteComplete, Exit, Archive
<1>4. CASE UNCHANGED demoVars
  BY <1>4 DEF demoVars, vars
<1>5. CASE Tick
  BY <1>5 DEF Tick, Next, Environment
<1> QED
  BY <1>1, <1>2, <1>3, <1>4, <1>5 DEF DemoNext

\* Whatever the runs of the script do is a behaviour of the program.
THEOREM RunsAreBehaviours == DemoSpec => Spec
<1>1. DemoInit => Init
  BY DEF DemoInit
<1> QED
  BY <1>1, DemoSteps, PTL DEF DemoSpec, Spec

-----------------------------------------------------------------------------
(* The accounts *)

\* The receipt of the script is taken by an empty balance only, and gives twelve.
LEMMA ReceiptGivesTwelve ==
  ASSUME IInv, OneOfEach,
         RecordReceipt(MERCHANT, DEPLOYER, demoMerchant, demoPassport, demoBalance,
                       1, 120, commitment)
  PROVE  /\ OneOfEach'
         /\ balance[demoBalance].version = 0
<1> DEFINE c == DEPLOYER
           m == demoMerchant
           p == demoPassport
           b == demoBalance
           day == current_day_epoch
           credit == credit_units(m, b, 120, day)
           delta == streak_delta(c, credit)
<1> USE DemoAddresses
<1>1. /\ coalition[c] # NoAccount /\ merchant[m] # NoAccount /\ passport[p] # NoAccount
      /\ 1 > balance[b].last_receipt_nonce
      /\ balance' = [balance EXCEPT ![b] =
           [passport |-> p, merchant |-> m,
            earned_units |-> balance[b].earned_units + credit,
            redeemed_units |-> balance[b].redeemed_units,
            earned_this_epoch |-> earned_this_epoch(b, day) + credit,
            cap_epoch |-> day, last_receipt_nonce |-> 1, version |-> STATE_VERSION]]
      /\ passport' = [passport EXCEPT ![p].total_visits = @ + 1,
                                      ![p].streak_points = @ + delta]
      /\ UNCHANGED <<coalition, merchant>>
  BY DEF RecordReceipt, CoalitionConstraint, MerchantConstraint, PassportConstraint,
     apply_receipt, apply_receipt_accepts, ReceiptInOrder
<1>2. /\ merchant[m].earn_bps = 1000 /\ merchant[m].daily_cap = 500
      /\ coalition[c].max_receipt_units = 500
  BY <1>1 DEF OneOfEach
<1>3. balance[b].version = 0
  <2>1. balance[b].version # 0 => balance[b].last_receipt_nonce = 1
    BY DEF OneOfEach
  <2> QED
    BY <1>1, <2>1
<1>4. balance[b] = EmptyBalance
  BY <1>3 DEF IInv, Solvent
<1>5. credit = 12
  <2>1. raw_credit(m, 120) = 12
    BY <1>2, DemoAssumption DEF raw_credit
  <2>2. cap_remaining(m, b, day) = 500
    BY <1>2, <1>3 DEF cap_remaining, earned_this_epoch
  <2> QED
    BY <2>1, <2>2 DEF credit_units, Smaller
<1>6. delta = 12
  BY <1>2, <1>5 DEF streak_delta, Smaller
<1> HIDE DEF credit, delta
<1>7. passport[p].total_visits = 0 /\ passport[p].streak_points = 0
  BY <1>1, <1>3 DEF OneOfEach
<1>8. passport[p] \in PassportAccount
  BY <1>1 DEF IInv, TypeOK
<1>9. passport'[p].total_visits = 1 /\ passport'[p].streak_points = 12
  BY <1>1, <1>6, <1>7, <1>8 DEF IInv, TypeOK, PassportAccount
<1>10. /\ balance'[b].version # 0
       /\ balance'[b].earned_units = 12
       /\ balance'[b].redeemed_units = 0
       /\ balance'[b].last_receipt_nonce = 1
  BY <1>1, <1>4, <1>5 DEF IInv, TypeOK, EmptyBalance, STATE_VERSION
<1>11. OneOfEach'
  BY <1>1, <1>9, <1>10 DEF OneOfEach
<1> QED
  BY <1>3, <1>11

\* The redemption of the script is accepted once.
LEMMA RedemptionTakesTen ==
  ASSUME IInv, OneOfEach,
         Redeem(CUSTOMER, DEPLOYER, demoMerchant, demoPassport, demoBalance, 10)
  PROVE  /\ OneOfEach'
         /\ balance'[demoBalance].version # 0
         /\ balance'[demoBalance].redeemed_units = 10
<1> DEFINE b == demoBalance
<1> USE DemoAddresses
<1>1. /\ balance[b].version # 0
      /\ 10 <= balance[b].earned_units - balance[b].redeemed_units
      /\ balance' = [balance EXCEPT ![b].redeemed_units = @ + 10]
      /\ UNCHANGED <<coalition, merchant, passport>>
  BY DEF Redeem, RedeemBalanceConstraint, apply_redemption, apply_redemption_accepts,
     SufficientCredit, available_units
<1>2. balance[b].earned_units = 12 /\ balance[b].redeemed_units \in {0, 10}
  BY <1>1 DEF OneOfEach
<1>3. balance[b].redeemed_units = 0
  BY <1>1, <1>2
<1>4. balance[b] \in MerchantBalance
  BY DEF IInv, TypeOK
<1>5. /\ balance'[b].version = balance[b].version
      /\ balance'[b].earned_units = 12
      /\ balance'[b].redeemed_units = 10
      /\ balance'[b].last_receipt_nonce = balance[b].last_receipt_nonce
  BY <1>1, <1>2, <1>3, <1>4 DEF IInv, TypeOK, MerchantBalance
<1>6. OneOfEach'
  BY <1>1, <1>5 DEF OneOfEach
<1> QED
  BY <1>1, <1>5, <1>6

LEMMA IncludedOneOfEach ==
  ASSUME IInv, OneOfEach, NEW name, Included(name)
  PROVE  OneOfEach'
<1> USE DemoAddresses
<1>1. CASE UNCHANGED vars
  BY <1>1 DEF vars, OneOfEach
<1>2. CASE InitializeCoalition(DEPLOYER, DemoArgs)
  <2>1. /\ coalition'[DEPLOYER].max_receipt_units = 500
        /\ coalition'[DEPLOYER].tier_thresholds = <<10, 30, 70>>
        /\ UNCHANGED <<merchant, passport, balance>>
    BY <1>2 DEF InitializeCoalition, DemoArgs, IInv, TypeOK
  <2> QED
    BY <2>1 DEF OneOfEach
<1>3. CASE RegisterMerchant(DEPLOYER, DEPLOYER, MERCHANT, ShopArgs)
  <2>1. /\ merchant'[demoMerchant].earn_bps = 1000
        /\ merchant'[demoMerchant].daily_cap = 500
        /\ UNCHANGED <<coalition, passport, balance>>
    BY <1>3 DEF RegisterMerchant, ShopArgs, IInv, TypeOK
  <2> QED
    BY <2>1 DEF OneOfEach
<1>4. CASE \E k \in MintKey : CreatePassport(CUSTOMER, DEPLOYER, k)
  <2>1. /\ passport[demoPassport] = NoAccount
        /\ passport'[demoPassport].total_visits = 0
        /\ passport'[demoPassport].streak_points = 0
        /\ UNCHANGED <<coalition, merchant, balance>>
    BY <1>4 DEF CreatePassport, IInv, TypeOK
  <2>2. balance[demoBalance].version = 0
    BY <2>1 DEF IInv, RelationshipsBound
  <2> QED
    BY <2>1, <2>2 DEF OneOfEach
<1>5. CASE RecordReceipt(MERCHANT, DEPLOYER, demoMerchant, demoPassport, demoBalance,
                         1, 120, commitment)
  BY <1>5, ReceiptGivesTwelve
<1>6. CASE Redeem(CUSTOMER, DEPLOYER, demoMerchant, demoPassport, demoBalance, 10)
  BY <1>6, RedemptionTakesTen
<1> QED
  BY <1>1, <1>2, <1>3, <1>4, <1>5, <1>6 DEF Included

\* Once redeemed, nothing of the script changes the balance any more.
LEMMA IncludedKeepsRedemption ==
  ASSUME IInv, OneOfEach, NEW name, Included(name),
         balance[demoBalance].version # 0, balance[demoBalance].redeemed_units = 10
  PROVE  balance'[demoBalance] = balance[demoBalance]
<1>1. CASE UNCHANGED vars \/ InitializeCoalition(DEPLOYER, DemoArgs)
           \/ RegisterMerchant(DEPLOYER, DEPLOYER, MERCHANT, ShopArgs)
           \/ \E k \in MintKey : CreatePassport(CUSTOMER, DEPLOYER, k)
  BY <1>1 DEF vars, InitializeCoalition, RegisterMerchant, CreatePassport
<1>2. CASE RecordReceipt(MERCHANT, DEPLOYER, demoMerchant, demoPassport, demoBalance,
                         1, 120, commitment)
  BY <1>2, ReceiptGivesTwelve
<1>3. CASE Redeem(CUSTOMER, DEPLOYER, demoMerchant, demoPassport, demoBalance, 10)
  <2>1. /\ balance[demoBalance].earned_units = 12
        /\ 10 <= balance[demoBalance].earned_units - balance[demoBalance].redeemed_units
    BY <1>3 DEF OneOfEach, Redeem, apply_redemption, apply_redemption_accepts,
       SufficientCredit, available_units
  <2> QED
    BY <2>1
<1> QED
  BY <1>1, <1>2, <1>3 DEF Included

-----------------------------------------------------------------------------
(* The files *)

\* A step that lands nothing and changes no account.
LEMMA NothingLands ==
  ASSUME DemoIInv, UNCHANGED <<vars, landed>>
  PROVE  (IInv /\ OneOfEach /\ RedemptionShows)'
<1>1. IInv'
  BY NextIInv DEF DemoIInv
<1>2. /\ demoMerchant' = demoMerchant /\ demoPassport' = demoPassport
      /\ demoBalance' = demoBalance
  BY DEF demoMerchant, demoPassport, demoBalance
<1> QED
  BY <1>1, <1>2 DEF DemoIInv, OneOfEach, RedemptionShows, vars

\* Going on from a command whose own file is right.
LEMMA AdvanceFiles ==
  ASSUME FilesOfThisRun, complete = NoFile, pc \in DOMAIN Flow, NEW content,
         Advance([evidence EXCEPT ![Flow[pc]] = content]),
         UNCHANGED <<run, complete, landed>>,
         Flow[pc] \notin StatusName => content = <<Flow[pc], run>> /\ <<Flow[pc], run>> \in landed,
         Flow[pc] = "final-status" => content = WholeDemo
  PROVE  FilesOfThisRun'
<1> DEFINE files == [evidence EXCEPT ![Flow[pc]] = content]
<1>1. /\ pc' = pc + 1 /\ pc \in 1 .. 10 /\ pc' \in 0 .. 11
      /\ \A name \in Name :
           evidence'[name] = IF pc + 1 \in DOMAIN Flow /\ Flow[pc + 1] = name
                             THEN EmptyFile ELSE files[name]
  BY FlowNames DEF Advance
<1>2. ASSUME NEW i \in 1 .. 10, i < pc'
      PROVE  evidence'[Flow[i]] = files[Flow[i]]
  <2>1. Flow[i] \in Name
    BY FlowNames
  <2>2. ~(pc + 1 \in DOMAIN Flow /\ Flow[pc + 1] = Flow[i])
    BY <1>1, <1>2, FlowNames
  <2> HIDE DEF files
  <2> QED
    BY <1>1, <2>1, <2>2
<1>3. /\ files[Flow[pc]] = content
      /\ \A i \in 1 .. 10 : i # pc => files[Flow[i]] = evidence[Flow[i]]
  BY <1>1, FlowNames DEF FilesOfThisRun
<1> HIDE DEF files
<1>4. ASSUME NEW i \in 1 .. 10, i < pc'
      PROVE  /\ Flow[i] \notin StatusName =>
                  evidence'[Flow[i]] = <<Flow[i], run>> /\ <<Flow[i], run>> \in landed
             /\ Flow[i] = "final-status" => evidence'[Flow[i]] = WholeDemo
  <2>1. CASE i = pc
    BY <1>2, <1>3, <1>4, <2>1
  <2>2. CASE i # pc
    <3>1. i < pc
      BY <1>1, <1>4, <2>2
    <3>2. evidence'[Flow[i]] = evidence[Flow[i]]
      BY <1>2, <1>3, <1>4, <2>2
    <3> QED
      BY <3>1, <3>2, FlowNames DEF FilesOfThisRun
  <2> QED
    BY <2>1, <2>2
<1>5. /\ run \in 0 .. MaxRuns /\ run # 0
  BY <1>1 DEF FilesOfThisRun
<1>6. Len(Flow) = 10
  BY FlowNames
<1>7. \A i \in DOMAIN Flow : i < pc' =>
        /\ Flow[i] \notin StatusName =>
             evidence'[Flow[i]] = <<Flow[i], run>> /\ <<Flow[i], run>> \in landed
        /\ Flow[i] = "final-status" => evidence'[Flow[i]] = WholeDemo
  BY <1>4, FlowNames
<1>8. DOMAIN evidence' = Name
  BY DEF Advance
<1> QED
  BY <1>1, <1>5, <1>6, <1>7, <1>8 DEF FilesOfThisRun

\* The tier of a passport with the twelve points of the demo.
LEMMA TwelvePointsTier ==
  ASSUME coalition[DEPLOYER].tier_thresholds = <<10, 30, 70>>
  PROVE  tier_level_for(DEPLOYER, 12) = 1
<1> DEFINE tiers == <<10, 30, 70>>
<1>1. Len(tiers) = 3 /\ tiers[1] = 10 /\ tiers[2] = 30 /\ tiers[3] = 70
  OBVIOUS
<1> HIDE DEF tiers
<1>2. {i \in 1 .. Len(tiers) : \A j \in 1 .. i : 12 >= tiers[j]} = {1}
  <2>1. \A i \in 1 .. 3 : i = 1 \/ i = 2 \/ i = 3
    OBVIOUS
  <2>2. ASSUME NEW i \in 1 .. 3, \A j \in 1 .. i : 12 >= tiers[j] PROVE i = 1
    <3>1. i # 1 => 2 \in 1 .. i
      OBVIOUS
    <3> QED
      BY <1>1, <2>2, <3>1
  <2>3. \A j \in 1 .. 1 : 12 >= tiers[j]
    BY <1>1
  <2> QED
    BY <1>1, <2>2, <2>3
<1>3. Cardinality({1}) = 1
  BY FS_Singleton
<1> QED
  BY <1>2, <1>3 DEF tier_level_for, tiers

\* After the redemption of this run, status shows the whole demo.
LEMMA FinalStatus ==
  ASSUME DemoIInv, coalition[DEPLOYER] # NoAccount, balance[demoBalance].version # 0,
         balance[demoBalance].redeemed_units = 10
  PROVE  status = WholeDemo
<1>1. /\ passport[demoPassport].total_visits = 1
      /\ passport[demoPassport].streak_points = 12
      /\ balance[demoBalance].earned_units = 12
      /\ coalition[DEPLOYER].tier_thresholds = <<10, 30, 70>>
  BY DEF DemoIInv, OneOfEach
<1> QED
  BY <1>1, TwelvePointsTier DEF status, WholeDemo

LEMMA LandFollows ==
  ASSUME DemoIInv, NEW name \in Name, NEW r \in 1 .. MaxRuns, Land(name, r)
  PROVE  DemoIInv'
<1>1. /\ Included(name)
      /\ landed' = landed \cup {<<name, r>>}
      /\ UNCHANGED <<run, pc, evidence, complete>>
  BY DEF Land
<1>2. IInv /\ OneOfEach
  BY DEF DemoIInv
<1>3. IInv'
  BY <1>1, <1>2, IncludedIsStep, NextIInv
<1>4. OneOfEach'
  BY <1>1, <1>2, IncludedOneOfEach
<1>5. demoBalance' = demoBalance
  BY DEF demoBalance, demoPassport, demoMerchant
<1>6. RedemptionShows'
  <2> SUFFICES ASSUME NEW s \in 1 .. MaxRuns, <<"redeem", s>> \in landed'
               PROVE  balance'[demoBalance].version # 0 /\ balance'[demoBalance].redeemed_units = 10
    BY <1>5 DEF RedemptionShows
  <2>1. CASE <<"redeem", s>> \in landed
    BY <1>1, <1>2, <2>1, IncludedKeepsRedemption DEF DemoIInv, RedemptionShows
  <2>2. CASE <<"redeem", s>> = <<name, r>>
    <3>1. name = "redeem"
      BY <2>2
    <3>2. Redeem(CUSTOMER, DEPLOYER, demoMerchant, demoPassport, demoBalance, 10)
      BY <1>1, <3>1 DEF Included
    <3> QED
      BY <1>2, <3>2, RedemptionTakesTen
  <2> QED
    BY <1>1, <2>1, <2>2
<1>7. FilesOfThisRun'
  BY <1>1 DEF DemoIInv, FilesOfThisRun
<1>8. NoStatusLands'
  <2>1. name \notin StatusName
    BY <1>1 DEF Included, StatusName
  <2> QED
    BY <1>1, <2>1 DEF DemoIInv, NoStatusLands
<1>9. CompleteIsTrue'
  BY <1>1 DEF DemoIInv, CompleteIsTrue
<1> QED
  BY <1>3, <1>4, <1>6, <1>7, <1>8, <1>9 DEF DemoIInv

\* A command ends well: its file is of this run and true.
LEMMA CommandEnds ==
  ASSUME DemoIInv, NEW name \in Name, Confirm(name) \/ PrintStatus(name)
  PROVE  (FilesOfThisRun /\ CompleteIsTrue)'
<1>1. pc \in DOMAIN Flow /\ name = Flow[pc] /\ UNCHANGED <<run, complete, landed>>
  BY DEF Confirm, PrintStatus, At
<1>2. FilesOfThisRun /\ complete = NoFile
  <2>1. pc \in 1 .. Len(Flow) + 1
    BY <1>1, FlowNames
  <2> QED
    BY <2>1 DEF DemoIInv, FilesOfThisRun
<1>3. CompleteIsTrue'
  BY <1>1, <1>2 DEF CompleteIsTrue
<1>4. CASE Confirm(name)
  <2>1. /\ Advance([evidence EXCEPT ![Flow[pc]] = <<Flow[pc], run>>])
        /\ <<Flow[pc], run>> \in landed
    BY <1>1, <1>4 DEF Confirm
  <2>2. run \in 1 .. MaxRuns
    <3>1. run \in 0 .. MaxRuns /\ run # 0
      BY <1>1, <1>2, FlowNames DEF FilesOfThisRun
    <3> QED
      BY <3>1, DemoAssumption
  <2>3. Flow[pc] \notin StatusName
    BY <2>1, <2>2 DEF DemoIInv, NoStatusLands
  <2>4. Flow[pc] # "final-status"
    BY <2>3 DEF StatusName
  <2>5. FilesOfThisRun'
    BY <1>1, <1>2, <2>1, <2>4, AdvanceFiles
  <2> QED
    BY <1>3, <2>5
<1>5. CASE PrintStatus(name)
  <2>1. /\ Advance([evidence EXCEPT ![Flow[pc]] = status])
        /\ Flow[pc] \in StatusName
        /\ coalition[DEPLOYER] # NoAccount
    BY <1>1, <1>5 DEF PrintStatus
  <2>2. ASSUME Flow[pc] = "final-status" PROVE status = WholeDemo
    <3>1. pc = 10
      BY <1>1, <2>2, FlowNames
    <3>2. <<"redeem", run>> \in landed
      <4>1. 9 \in DOMAIN Flow /\ 9 < pc /\ Flow[9] = "redeem" /\ Flow[9] \notin StatusName
        BY <3>1, FlowNames
      <4> QED
        BY <1>2, <4>1 DEF FilesOfThisRun
    <3>3. run \in 1 .. MaxRuns
      <4>1. run \in 0 .. MaxRuns /\ run # 0
        BY <1>2, <3>1 DEF FilesOfThisRun
      <4> QED
        BY <4>1, DemoAssumption
    <3>4. balance[demoBalance].version # 0 /\ balance[demoBalance].redeemed_units = 10
      BY <3>2, <3>3 DEF DemoIInv, RedemptionShows
    <3> QED
      BY <2>1, <3>4, FinalStatus
  <2>3. FilesOfThisRun'
    BY <1>1, <1>2, <2>1, <2>2, AdvanceFiles
  <2> QED
    BY <1>3, <2>3
<1> QED
  BY <1>4, <1>5

\* What the last script lines put together.
LEMMA CompleteEnds ==
  ASSUME DemoIInv, WriteComplete
  PROVE  (FilesOfThisRun /\ CompleteIsTrue)'
<1>1. /\ pc = 12 /\ pc' = 0
      /\ complete' = [transactions |-> [name \in Name \ StatusName |-> evidence[name]],
                      finalStatus |-> evidence["final-status"]]
      /\ UNCHANGED <<run, evidence, landed>>
  BY FlowNames DEF WriteComplete
<1>2. \A i \in 1 .. 10 :
        /\ Flow[i] \notin StatusName =>
             evidence[Flow[i]] = <<Flow[i], run>> /\ <<Flow[i], run>> \in landed
        /\ Flow[i] = "final-status" => evidence[Flow[i]] = WholeDemo
  BY <1>1, FlowNames DEF DemoIInv, FilesOfThisRun
<1>3. evidence["final-status"] = WholeDemo
  BY <1>2, FlowNames
<1>4. ASSUME NEW name \in Name \ StatusName
      PROVE  complete'.transactions[name] = <<name, run>> /\ <<name, run>> \in landed
  <2>1. PICK i \in 1 .. 10 : name = Flow[i]
    BY FlowNames
  <2> QED
    BY <1>1, <1>2, <2>1
<1>5. CompleteIsTrue'
  BY <1>1, <1>3, <1>4 DEF CompleteIsTrue, WholeDemo
<1>6. FilesOfThisRun'
  BY <1>1, FlowNames DEF DemoIInv, FilesOfThisRun
<1> QED
  BY <1>5, <1>6

-----------------------------------------------------------------------------

LEMMA InitDemo == DemoInit => DemoIInv
<1> SUFFICES ASSUME DemoInit PROVE DemoIInv
  OBVIOUS
<1>1. IInv
  BY InitIInv DEF DemoInit
<1>2. OneOfEach
  BY DemoAddresses DEF DemoInit, Init, OneOfEach, EmptyBalance
<1>3. RedemptionShows /\ NoStatusLands /\ CompleteIsTrue
  BY DEF DemoInit, RedemptionShows, NoStatusLands, CompleteIsTrue
<1>4. FilesOfThisRun
  BY FlowNames, DemoAssumption DEF DemoInit, FilesOfThisRun
<1> QED
  BY <1>1, <1>2, <1>3, <1>4 DEF DemoIInv

LEMMA NextDemo == DemoIInv /\ [DemoNext]_demoVars => DemoIInv'
<1> SUFFICES ASSUME DemoIInv, [DemoNext]_demoVars PROVE DemoIInv'
  OBVIOUS
<1>1. ASSUME UNCHANGED <<vars, landed>>, (FilesOfThisRun /\ CompleteIsTrue)'
      PROVE  DemoIInv'
  <2>1. NoStatusLands'
    BY <1>1 DEF DemoIInv, NoStatusLands
  <2> QED
    BY <1>1, <2>1, NothingLands DEF DemoIInv
<1>2. ASSUME NEW name \in Name, NEW r \in 1 .. MaxRuns, Land(name, r)
      PROVE  DemoIInv'
  BY <1>2, LandFollows
<1>3. ASSUME NEW name \in Name, Confirm(name) \/ PrintStatus(name)
      PROVE  DemoIInv'
  <2>1. UNCHANGED <<vars, landed>>
    BY <1>3 DEF Confirm, PrintStatus
  <2> QED
    BY <1>1, <1>3, <2>1, CommandEnds
<1>4. CASE Start
  <2>1. /\ pc = 0 /\ pc' = 1 /\ run' = run + 1 /\ run < MaxRuns
        /\ complete = NoFile
        /\ DOMAIN evidence' = Name
        /\ UNCHANGED <<vars, complete, landed>>
    BY <1>4 DEF Start, Advance
  <2>2. run \in 0 .. MaxRuns
    BY DEF DemoIInv, FilesOfThisRun
  <2>3. run' \in 0 .. MaxRuns /\ run' # 0
    BY <2>1, <2>2, DemoAssumption
  <2>4. FilesOfThisRun'
    BY <2>1, <2>3, FlowNames DEF FilesOfThisRun
  <2>5. CompleteIsTrue'
    BY <2>1 DEF CompleteIsTrue
  <2> QED
    BY <1>1, <2>1, <2>4, <2>5
<1>5. CASE WriteComplete
  <2>1. UNCHANGED <<vars, landed>>
    BY <1>5 DEF WriteComplete
  <2> QED
    BY <1>1, <1>5, <2>1, CompleteEnds
<1>6. ASSUME NEW name \in Name, Submit(name)
      PROVE  DemoIInv'
  <2>1. UNCHANGED <<vars, run, pc, evidence, complete, landed>>
    BY <1>6 DEF Submit
  <2>2. (FilesOfThisRun /\ CompleteIsTrue)'
    BY <2>1 DEF DemoIInv, FilesOfThisRun, CompleteIsTrue
  <2> QED
    BY <1>1, <2>1, <2>2
<1>7. CASE UNCHANGED demoVars
  <2>1. UNCHANGED <<vars, run, pc, evidence, complete, landed>>
    BY <1>7 DEF demoVars, vars
  <2>2. (FilesOfThisRun /\ CompleteIsTrue)'
    BY <2>1 DEF DemoIInv, FilesOfThisRun, CompleteIsTrue
  <2> QED
    BY <1>1, <2>1, <2>2
<1>8. CASE Exit
  <2>1. pc' = 0 /\ UNCHANGED <<vars, run, evidence, complete, landed>>
    BY <1>8 DEF Exit
  <2>2. (FilesOfThisRun /\ CompleteIsTrue)'
    BY <2>1, FlowNames DEF DemoIInv, FilesOfThisRun, CompleteIsTrue
  <2> QED
    BY <1>1, <2>1, <2>2
<1>9. CASE Archive
  <2>1. /\ pc = 0 /\ pc' = 0 /\ complete' = NoFile /\ DOMAIN evidence' = Name
        /\ UNCHANGED <<vars, run, landed>>
    BY <1>9 DEF Archive
  <2>2. (FilesOfThisRun /\ CompleteIsTrue)'
    BY <2>1, FlowNames DEF DemoIInv, FilesOfThisRun, CompleteIsTrue
  <2> QED
    BY <1>1, <2>1, <2>2
<1>10. CASE OpenComplete
  <2>1. /\ pc = 11 /\ pc' = 12 /\ complete' = EmptyFile
        /\ UNCHANGED <<vars, run, evidence, landed>>
    BY <1>10, FlowNames DEF OpenComplete
  <2>2. (FilesOfThisRun /\ CompleteIsTrue)'
    BY <2>1, FlowNames DEF DemoIInv, FilesOfThisRun, CompleteIsTrue
  <2> QED
    BY <1>1, <2>1, <2>2
<1>11. CASE Tick
  <2>1. UNCHANGED <<coalition, merchant, passport, balance, mint, token,
                    run, pc, evidence, complete, landed>>
    BY <1>11 DEF Tick, SetClock
  <2>2. IInv'
    BY <1>11, DemoSteps, NextIInv DEF DemoIInv, DemoNext
  <2>3. OneOfEach'
    BY <2>1 DEF DemoIInv, OneOfEach, demoBalance, demoPassport, demoMerchant
  <2>4. (RedemptionShows /\ NoStatusLands)'
    BY <2>1 DEF DemoIInv, RedemptionShows, NoStatusLands, demoBalance, demoPassport,
       demoMerchant
  <2>5. FilesOfThisRun'
    BY <2>1 DEF DemoIInv, FilesOfThisRun
  <2>6. CompleteIsTrue'
    BY <2>1 DEF DemoIInv, CompleteIsTrue
  <2> QED
    BY <2>2, <2>3, <2>4, <2>5, <2>6 DEF DemoIInv
<1> QED
  BY <1>2, <1>3, <1>4, <1>5, <1>6, <1>7, <1>8, <1>9, <1>10, <1>11 DEF DemoNext

THEOREM DemoInvariance == DemoSpec => []DemoIInv
BY InitDemo, NextDemo, PTL DEF DemoSpec

\* A complete.json tells the truth about its own run, for any number of runs,
\* ended anywhere, with any of their transactions landing late.
THEOREM CompleteNeverLies == DemoSpec => []CompleteIsTrue
<1>1. DemoIInv => CompleteIsTrue
  BY DEF DemoIInv
<1> QED
  BY <1>1, DemoInvariance, PTL

-----------------------------------------------------------------------------
(* Accepts is the guard of Included *)

\* The accounts after the transaction of a command, with mint k for a passport.
Outcome(name, k) ==
  LET credit == credit_units(demoMerchant, demoBalance, 120, current_day_epoch) IN
  CASE name = "initialize-coalition" ->
         <<[coalition EXCEPT ![DEPLOYER] =
              [authority |-> DEPLOYER, max_receipt_units |-> DemoArgs.max_receipt_units,
               tier_thresholds |-> DemoArgs.tier_thresholds, paused |-> FALSE]],
           merchant, passport, balance, mint, token, unix_timestamp>>
    [] name = "register-merchant" ->
         <<coalition,
           [merchant EXCEPT ![demoMerchant] =
              [coalition |-> DEPLOYER, authority |-> MERCHANT, earn_bps |-> ShopArgs.earn_bps,
               daily_cap |-> ShopArgs.daily_cap, active |-> TRUE]],
           passport, balance, mint, token, unix_timestamp>>
    [] name = "create-passport" ->
         <<coalition, merchant,
           [passport EXCEPT ![demoPassport] =
              [coalition |-> DEPLOYER, customer |-> CUSTOMER, passport_mint |-> k,
               total_visits |-> 0, streak_points |-> 0]],
           balance,
           [mint EXCEPT ![k] = [supply |-> 1, mint_authority |-> NoAccount]],
           [token EXCEPT ![<<CUSTOMER, k>>] = @ + 1],
           unix_timestamp>>
    [] name = "record-receipt" ->
         <<coalition, merchant,
           [passport EXCEPT ![demoPassport].total_visits = @ + 1,
                            ![demoPassport].streak_points = @ + streak_delta(DEPLOYER, credit)],
           [balance EXCEPT ![demoBalance] =
              [passport |-> demoPassport, merchant |-> demoMerchant,
               earned_units |-> @.earned_units + credit,
               redeemed_units |-> @.redeemed_units,
               earned_this_epoch |-> earned_this_epoch(demoBalance, current_day_epoch) + credit,
               cap_epoch |-> current_day_epoch, last_receipt_nonce |-> 1,
               version |-> STATE_VERSION]],
           mint, token, unix_timestamp>>
    [] name = "redeem" ->
         <<coalition, merchant, passport,
           [balance EXCEPT ![demoBalance].redeemed_units = @ + 10],
           mint, token, unix_timestamp>>
    [] OTHER -> vars

LEMMA CommandNames ==
  /\ Name \ StatusName =
       {"deploy", "fund-merchant", "fund-customer", "initialize-coalition",
        "register-merchant", "create-passport", "record-receipt", "redeem"}
  /\ \A i \in 1 .. 3 : Flow[i] \in {"deploy", "fund-merchant", "fund-customer"}
  /\ Flow[4] = "initialize-coalition" /\ Flow[5] = "register-merchant"
  /\ Flow[6] = "create-passport" /\ Flow[7] = "record-receipt" /\ Flow[9] = "redeem"
<1>1. /\ Flow[1] = "deploy" /\ Flow[2] = "fund-merchant" /\ Flow[3] = "fund-customer"
      /\ Flow[4] = "initialize-coalition" /\ Flow[5] = "register-merchant"
      /\ Flow[6] = "create-passport" /\ Flow[7] = "record-receipt"
      /\ Flow[8] = "before-redeem" /\ Flow[9] = "redeem" /\ Flow[10] = "final-status"
  BY DEF Flow
<1>2. Name = {Flow[1], Flow[2], Flow[3], Flow[4], Flow[5],
              Flow[6], Flow[7], Flow[8], Flow[9], Flow[10]}
  <2>1. \A i \in 1 .. 10 : i = 1 \/ i = 2 \/ i = 3 \/ i = 4 \/ i = 5
                           \/ i = 6 \/ i = 7 \/ i = 8 \/ i = 9 \/ i = 10
    OBVIOUS
  <2> QED
    BY <2>1, FlowNames
<1>3. \A i \in 1 .. 3 : Flow[i] \in {"deploy", "fund-merchant", "fund-customer"}
  <2>1. \A i \in 1 .. 3 : i = 1 \/ i = 2 \/ i = 3
    OBVIOUS
  <2> QED
    BY <1>1, <2>1
<1>4. Name \ StatusName =
       {"deploy", "fund-merchant", "fund-customer", "initialize-coalition",
        "register-merchant", "create-passport", "record-receipt", "redeem"}
  BY <1>1, <1>2 DEF StatusName
<1> QED
  BY <1>1, <1>3, <1>4

\* A transaction of the script is included exactly if its guards hold, and what
\* it makes of the accounts is a function of them (and of the mint's key pair):
\* nothing else can keep it out, so Accepts(name) is when Included(name) can
\* happen.
THEOREM AcceptsIsTheGuard ==
  \A name \in Name \ StatusName :
    Included(name) <=>
      /\ Accepts(name)
      /\ \E k \in MintKey :
           /\ name = "create-passport" => FreshMint(k)
           /\ vars' = Outcome(name, k)
<1> TAKE name \in Name \ StatusName
<1> DEFINE Writes == \E k \in MintKey :
             /\ name = "create-passport" => FreshMint(k)
             /\ vars' = Outcome(name, k)
<1> SUFFICES Included(name) <=> Accepts(name) /\ Writes
  OBVIOUS
<1>0. MintKey # {}
  BY DemoAssumption
<1>1. CASE name \in {"deploy", "fund-merchant", "fund-customer"}
  <2>1. Writes <=> UNCHANGED vars
    BY <1>0, <1>1 DEF Outcome
  <2> HIDE DEF Writes
  <2> QED
    BY <1>1, <2>1 DEF Included, Accepts
<1>2. CASE name = "initialize-coalition"
  <2>1. Writes <=> /\ coalition' = [coalition EXCEPT ![DEPLOYER] =
                        [authority |-> DEPLOYER,
                         max_receipt_units |-> DemoArgs.max_receipt_units,
                         tier_thresholds |-> DemoArgs.tier_thresholds, paused |-> FALSE]]
                   /\ UNCHANGED <<merchant, passport, balance, mint, token, unix_timestamp>>
    BY <1>0, <1>2 DEF Outcome, vars
  <2> HIDE DEF Writes
  <2> QED
    BY <1>2, <2>1 DEF Included, Accepts, InitializeCoalition
<1>3. CASE name = "register-merchant"
  <2>1. Writes <=> /\ merchant' = [merchant EXCEPT ![demoMerchant] =
                        [coalition |-> DEPLOYER, authority |-> MERCHANT,
                         earn_bps |-> ShopArgs.earn_bps, daily_cap |-> ShopArgs.daily_cap,
                         active |-> TRUE]]
                   /\ UNCHANGED <<coalition, passport, balance, mint, token, unix_timestamp>>
    BY <1>0, <1>3 DEF Outcome, vars
  <2> HIDE DEF Writes
  <2> QED
    BY <1>3, <2>1 DEF Included, Accepts, RegisterMerchant, demoMerchant
<1>4. CASE name = "create-passport"
  <2>1. Writes <=> \E k \in MintKey :
                     /\ FreshMint(k)
                     /\ mint' = [mint EXCEPT ![k] = [supply |-> 1, mint_authority |-> NoAccount]]
                     /\ token' = [token EXCEPT ![<<CUSTOMER, k>>] = @ + 1]
                     /\ passport' = [passport EXCEPT ![demoPassport] =
                          [coalition |-> DEPLOYER, customer |-> CUSTOMER, passport_mint |-> k,
                           total_visits |-> 0, streak_points |-> 0]]
                     /\ UNCHANGED <<coalition, merchant, balance, unix_timestamp>>
    BY <1>4 DEF Outcome, vars
  <2> HIDE DEF Writes
  <2> QED
    BY <1>4, <2>1 DEF Included, Accepts, CreatePassport, demoPassport
<1>5. CASE name = "record-receipt"
  <2> DEFINE credit == credit_units(demoMerchant, demoBalance, 120, current_day_epoch)
  <2>1. Writes <=> /\ balance' = [balance EXCEPT ![demoBalance] =
                        [passport |-> demoPassport, merchant |-> demoMerchant,
                         earned_units |-> @.earned_units + credit,
                         redeemed_units |-> @.redeemed_units,
                         earned_this_epoch |->
                           earned_this_epoch(demoBalance, current_day_epoch) + credit,
                         cap_epoch |-> current_day_epoch, last_receipt_nonce |-> 1,
                         version |-> STATE_VERSION]]
                   /\ passport' = [passport EXCEPT
                        ![demoPassport].total_visits = @ + 1,
                        ![demoPassport].streak_points = @ + streak_delta(DEPLOYER, credit)]
                   /\ UNCHANGED <<coalition, merchant, mint, token, unix_timestamp>>
    BY <1>0, <1>5 DEF Outcome, vars
  <2> HIDE DEF Writes
  <2> QED
    BY <1>5, <2>1 DEF Included, Accepts, RecordReceipt, apply_receipt
<1>6. CASE name = "redeem"
  <2>1. Writes <=> /\ balance' = [balance EXCEPT ![demoBalance].redeemed_units = @ + 10]
                   /\ UNCHANGED <<coalition, merchant, passport, mint, token, unix_timestamp>>
    BY <1>0, <1>6 DEF Outcome, vars
  <2> HIDE DEF Writes
  <2> QED
    BY <1>6, <2>1 DEF Included, Accepts, Redeem, apply_redemption
<1> HIDE DEF Writes
<1> QED
  BY <1>1, <1>2, <1>3, <1>4, <1>5, <1>6, CommandNames

-----------------------------------------------------------------------------
(* What a run may rely on once its coalition is included *)

\* An included transaction adds its own command to the landed ones.
LEMMA LandedGrows ==
  ASSUME NEW name, NEW r \in 1 .. MaxRuns, landed' = landed \cup {<<name, r>>}
  PROVE  \A n : Landed(n)' <=> Landed(n) \/ n = name
BY DEF Landed

\* Every transaction of the script is accepted once at most, and leaves behind
\* what says so.
LEMMA LandAccounts ==
  ASSUME FlowIInv, NEW name \in Name, NEW r \in 1 .. MaxRuns, Land(name, r)
  PROVE  AccountsFollow'
<1> DEFINE c == DEPLOYER
           m == demoMerchant
           p == demoPassport
           b == demoBalance
<1> USE DemoAddresses
<1>1. Included(name) /\ landed' = landed \cup {<<name, r>>}
  BY DEF Land
<1>2. \A n : Landed(n)' <=> Landed(n) \/ n = name
  BY <1>1, LandedGrows
<1>3. DemoIInv /\ AccountsFollow
  BY DEF FlowIInv
<1>4. IInv /\ IInv' /\ OneOfEach
  BY <1>1, <1>3, IncludedIsStep, NextIInv DEF DemoIInv
<1> USE DEF AccountsFollow, NotPaused, FreshMint
<1>5. CASE name \in {"deploy", "fund-merchant", "fund-customer"} /\ UNCHANGED vars
  BY <1>2, <1>3, <1>5 DEF vars, demoBalance, demoPassport, demoMerchant
<1>6. CASE name = "initialize-coalition" /\ InitializeCoalition(DEPLOYER, DemoArgs)
  <2>1. /\ coalition'[c] = [authority |-> c, max_receipt_units |-> DemoArgs.max_receipt_units,
                            tier_thresholds |-> DemoArgs.tier_thresholds, paused |-> FALSE]
        /\ UNCHANGED <<merchant, passport, balance, mint>>
    BY <1>4, <1>6 DEF InitializeCoalition, IInv, TypeOK
  <2>2. coalition'[c] # NoAccount
    <3>1. coalition'[c] \in CoalitionAccount
      BY <2>1, DemoAssumption, ArgsAssumption DEF CoalitionAccount, CoalitionAddr
    <3> QED
      BY <3>1, NoAccountAssumption
  <2>3. ~coalition'[c].paused
    BY <2>1
  <2> QED
    BY <1>2, <1>3, <1>6, <2>1, <2>2, <2>3 DEF demoBalance, demoPassport, demoMerchant
<1>7. CASE name = "register-merchant" /\ RegisterMerchant(DEPLOYER, DEPLOYER, MERCHANT, ShopArgs)
  <2>1. /\ merchant'[m] = [coalition |-> c, authority |-> MERCHANT,
                           earn_bps |-> ShopArgs.earn_bps, daily_cap |-> ShopArgs.daily_cap,
                           active |-> TRUE]
        /\ UNCHANGED <<coalition, passport, balance, mint>>
    BY <1>4, <1>7 DEF RegisterMerchant, IInv, TypeOK
  <2>2. merchant'[m] # NoAccount
    <3>1. merchant'[m] \in MerchantAccount
      BY <2>1, DemoAssumption, ArgsAssumption DEF MerchantAccount
    <3> QED
      BY <3>1, NoAccountAssumption
  <2> QED
    BY <1>2, <1>3, <1>7, <2>1, <2>2 DEF demoBalance, demoPassport, demoMerchant
<1>8. CASE name = "create-passport" /\ \E k \in MintKey : CreatePassport(CUSTOMER, DEPLOYER, k)
  <2>1. PICK k \in MintKey : CreatePassport(CUSTOMER, DEPLOYER, k)
    BY <1>8
  <2>2. /\ passport'[p] = [coalition |-> c, customer |-> CUSTOMER, passport_mint |-> k,
                           total_visits |-> 0, streak_points |-> 0]
        /\ UNCHANGED <<coalition, merchant, balance>>
    BY <1>4, <2>1 DEF CreatePassport, IInv, TypeOK
  <2>3. passport'[p] # NoAccount
    <3>1. passport'[p] \in PassportAccount
      BY <2>2, DemoUnits, DemoAssumption DEF PassportAccount
    <3> QED
      BY <3>1, NoAccountAssumption
  <2> QED
    BY <1>2, <1>3, <1>8, <2>2, <2>3 DEF demoBalance, demoPassport, demoMerchant
<1>9. CASE /\ name = "record-receipt"
           /\ RecordReceipt(MERCHANT, DEPLOYER, demoMerchant, demoPassport, demoBalance,
                            1, 120, commitment)
  <2>1. /\ balance[b].version = 0
        /\ passport[p] # NoAccount
        /\ balance'[b].version # 0
        /\ balance'[b].redeemed_units = balance[b].redeemed_units
        /\ UNCHANGED <<coalition, merchant, mint>>
    <3>1. balance[b].version = 0
      BY <1>4, <1>9, ReceiptGivesTwelve
    <3> QED
      BY <1>4, <1>9, <3>1 DEF RecordReceipt, PassportConstraint, apply_receipt, IInv, TypeOK,
         STATE_VERSION
  <2>2. passport'[p] # NoAccount
    <3>1. b[1] = p
      OBVIOUS
    <3> QED
      BY <1>4, <2>1, <3>1 DEF IInv, RelationshipsBound
  <2> QED
    BY <1>2, <1>3, <1>9, <2>1, <2>2 DEF demoBalance, demoPassport, demoMerchant
<1>10. CASE /\ name = "redeem"
            /\ Redeem(CUSTOMER, DEPLOYER, demoMerchant, demoPassport, demoBalance, 10)
  <2>1. /\ balance'[b].redeemed_units = 10
        /\ balance'[b].version # 0
        /\ balance[b].version # 0
        /\ UNCHANGED <<coalition, merchant, passport, mint>>
    BY <1>4, <1>10, RedemptionTakesTen DEF Redeem, RedeemBalanceConstraint
  <2> QED
    BY <1>2, <1>3, <1>10, <2>1 DEF demoBalance, demoPassport, demoMerchant
<1> QED
  BY <1>1, <1>5, <1>6, <1>7, <1>8, <1>9, <1>10 DEF Included

\* The coalition is initialised once, so by one run.
LEMMA LandCoalition ==
  ASSUME FlowIInv, NEW name \in Name, NEW r \in 1 .. MaxRuns, Land(name, r)
  PROVE  CoalitionOfOneRun'
<1>1. Included(name) /\ landed' = landed \cup {<<name, r>>}
  BY DEF Land
<1>2. CASE name # "initialize-coalition"
  BY <1>1, <1>2 DEF FlowIInv, CoalitionOfOneRun
<1>3. CASE name = "initialize-coalition"
  <2>1. coalition[DEPLOYER] = NoAccount
    BY <1>1, <1>3 DEF Included, InitializeCoalition
  <2>2. \A s \in 1 .. MaxRuns : <<"initialize-coalition", s>> \notin landed
    BY <2>1 DEF FlowIInv, AccountsFollow, Landed
  <2> QED
    BY <1>1, <1>3, <2>2 DEF CoalitionOfOneRun
<1> QED
  BY <1>2, <1>3

LEMMA SubmitInOrder ==
  ASSUME FlowIInv, NEW name \in Name, Submit(name)
  PROVE  SubmittedInOrder'
<1>1. /\ pc \in DOMAIN Flow /\ Flow[pc] = name
      /\ in_flight' = in_flight \cup {<<name, run>>}
      /\ landed' = landed
  BY DEF Submit, At
<1> SUFFICES ASSUME NEW r \in 1 .. MaxRuns, NEW i \in 1 .. 10, NEW j \in 1 .. 10, i < j,
                    Flow[i] \notin StatusName, <<Flow[j], r>> \in (in_flight \cup landed)'
             PROVE  <<Flow[i], r>> \in landed'
  BY FlowNames DEF SubmittedInOrder
<1>2. CASE <<Flow[j], r>> \in in_flight \cup landed
  BY <1>1, <1>2, FlowNames DEF FlowIInv, SubmittedInOrder
<1>3. CASE Flow[j] = name /\ r = run
  <2>1. j = pc
    BY <1>1, <1>3, FlowNames
  <2>2. FilesOfThisRun
    BY DEF FlowIInv, DemoIInv
  <2> QED
    BY <1>1, <1>3, <2>1, <2>2, FlowNames DEF FilesOfThisRun
<1> QED
  BY <1>1, <1>2, <1>3

LEMMA InitFlow == DemoInit => FlowIInv
<1> SUFFICES ASSUME DemoInit PROVE FlowIInv
  OBVIOUS
<1>1. DemoIInv
  BY InitDemo
<1>2. \A n : ~Landed(n)
  BY DEF DemoInit, Landed
<1>3. AccountsFollow
  BY <1>2, DemoAddresses DEF DemoInit, Init, AccountsFollow, EmptyBalance, FreshMint
<1>4. CoalitionOfOneRun /\ SubmittedInOrder
  BY DEF DemoInit, CoalitionOfOneRun, SubmittedInOrder
<1> QED
  BY <1>1, <1>3, <1>4 DEF FlowIInv

LEMMA NextFlow == FlowIInv /\ [DemoNext]_demoVars => FlowIInv'
<1> SUFFICES ASSUME FlowIInv, [DemoNext]_demoVars PROVE FlowIInv'
  OBVIOUS
<1>1. DemoIInv'
  BY NextDemo DEF FlowIInv
<1>2. ASSUME UNCHANGED <<coalition, merchant, passport, balance, mint, landed>>
      PROVE  AccountsFollow' /\ CoalitionOfOneRun'
  BY <1>2 DEF FlowIInv, AccountsFollow, CoalitionOfOneRun, Landed, NotPaused, FreshMint,
     demoBalance, demoPassport, demoMerchant
<1>3. ASSUME UNCHANGED <<coalition, merchant, passport, balance, mint, in_flight, landed>>
      PROVE  AccountsFollow' /\ CoalitionOfOneRun' /\ SubmittedInOrder'
  BY <1>2, <1>3 DEF FlowIInv, SubmittedInOrder
<1>4. ASSUME NEW name \in Name, NEW r \in 1 .. MaxRuns, Land(name, r)
      PROVE  AccountsFollow' /\ CoalitionOfOneRun' /\ SubmittedInOrder'
  <2>1. /\ in_flight' \cup landed' = in_flight \cup landed
        /\ landed \subseteq landed'
    BY <1>4 DEF Land
  <2>2. SubmittedInOrder'
    BY <2>1 DEF FlowIInv, SubmittedInOrder
  <2> QED
    BY <1>4, <2>2, LandAccounts, LandCoalition
<1>5. ASSUME NEW name \in Name, Submit(name)
      PROVE  AccountsFollow' /\ CoalitionOfOneRun' /\ SubmittedInOrder'
  <2>1. UNCHANGED <<coalition, merchant, passport, balance, mint, landed>>
    BY <1>5 DEF Submit, vars
  <2> QED
    BY <1>2, <1>5, <2>1, SubmitInOrder
<1>6. ASSUME NEW name \in Name, Confirm(name) \/ PrintStatus(name)
      PROVE  UNCHANGED <<coalition, merchant, passport, balance, mint, in_flight, landed>>
  BY <1>6 DEF Confirm, PrintStatus, vars
<1>7. CASE Start \/ OpenComplete \/ WriteComplete \/ Exit \/ Archive \/ Tick \/ UNCHANGED demoVars
  <2>1. UNCHANGED <<coalition, merchant, passport, balance, mint, in_flight, landed>>
    BY <1>7 DEF Start, OpenComplete, WriteComplete, Exit, Archive, Tick, SetClock, demoVars, vars
  <2> QED
    BY <1>1, <1>3, <2>1 DEF FlowIInv
<1> QED
  BY <1>1, <1>3, <1>4, <1>5, <1>6, <1>7 DEF DemoNext, FlowIInv

\* What every run leaves behind is in the accounts, at most one run has a
\* coalition, and only that run has submitted anything later.
THEOREM FlowInvariance == DemoSpec => []FlowIInv
BY InitFlow, NextFlow, PTL DEF DemoSpec

\* The receipt of the script is accepted by accounts that nothing was done to yet.
LEMMA ReceiptAccepted ==
  ASSUME FlowIInv,
         coalition[DEPLOYER] # NoAccount, merchant[demoMerchant] # NoAccount,
         passport[demoPassport] # NoAccount, balance[demoBalance].version = 0
  PROVE  Accepts("record-receipt")
<1> DEFINE c == DEPLOYER
           m == demoMerchant
           p == demoPassport
           b == demoBalance
           day == current_day_epoch
<1> USE DemoAddresses
<1>1. IInv /\ OneOfEach /\ AccountsFollow
  BY DEF FlowIInv, DemoIInv
<1>2. /\ merchant[m].earn_bps = 1000 /\ merchant[m].daily_cap = 500
      /\ coalition[c].max_receipt_units = 500
      /\ passport[p].total_visits = 0 /\ passport[p].streak_points = 0
  BY <1>1 DEF OneOfEach
<1>3. balance[b] = EmptyBalance
  BY <1>1 DEF IInv, Solvent
<1>4. /\ coalition[c].authority = c
      /\ m = <<merchant[m].coalition, merchant[m].authority>>
      /\ p = <<passport[p].coalition, passport[p].customer>>
  BY <1>1 DEF IInv, RelationshipsBound
<1>5. /\ merchant[m].coalition = c /\ merchant[m].authority = MERCHANT
      /\ passport[p].coalition = c
  BY <1>4
<1>6. merchant[m].active /\ ~coalition[c].paused
  BY <1>1 DEF IInv, ConfigSound, AccountsFollow, NotPaused
<1>7. day \in Int /\ day >= 0
  <2>1. unix_timestamp \in Nat /\ SECONDS_PER_DAY \in Nat \ {0}
    <3>1. unix_timestamp \in Timestamp
      BY <1>1 DEF IInv, TypeOK
    <3>2. Timestamp \subseteq Nat
      BY DemoAssumption
    <3> QED
      BY <3>1, <3>2, NumbersAssumption
  <2> QED
    BY <2>1, DivisionNat DEF current_day_epoch
<1>8. /\ raw_credit(m, 120) = 12
      /\ earned_this_epoch(b, day) = 0
      /\ cap_remaining(m, b, day) = 500
  <2>1. raw_credit(m, 120) = 12
    BY <1>2, DemoAssumption DEF raw_credit
  <2>2. earned_this_epoch(b, day) = 0
    BY <1>3 DEF earned_this_epoch, EmptyBalance
  <2> QED
    BY <1>2, <2>1, <2>2 DEF cap_remaining
<1>9. credit_units(m, b, 120, day) = 12
  BY <1>8 DEF credit_units, Smaller
<1>10. streak_delta(c, 12) = 12
  BY <1>2 DEF streak_delta, Smaller
<1>11. ArithmeticFits(c, m, p, b, 120, day)
  <2>1. 120 * merchant[m].earn_bps = 120000
    BY <1>2
  <2>2. balance[b].earned_units = 0
    BY <1>3 DEF EmptyBalance
  <2> QED
    BY <1>2, <1>8, <1>9, <1>10, <2>1, <2>2, DemoUnits DEF ArithmeticFits
<1>12. ReceiptInOrder(b, 1, day) /\ BalanceSound(p, m, b)
  BY <1>3 DEF ReceiptInOrder, BalanceSound, EmptyBalance
<1>13. apply_receipt_accepts(c, m, p, b, 1, 120, day)
  BY <1>5, <1>6, <1>8, <1>11, <1>12 DEF apply_receipt_accepts
<1>14. /\ CoalitionConstraint(c) /\ NotPaused(c)
       /\ MerchantConstraint(c, MERCHANT, m)
       /\ PassportConstraint(c, p)
       /\ BalanceSeeds(p, m, b)
  BY <1>4, <1>5, <1>6 DEF CoalitionConstraint, NotPaused, MerchantConstraint,
     PassportConstraint, BalanceSeeds
<1>15. commitment # EmptyReceiptHash
  BY DemoAssumption
<1> HIDE DEF day
<1> QED
  BY <1>7, <1>13, <1>14, <1>15 DEF Accepts, day

\* So is its redemption, by a balance that has the receipt and no redemption.
LEMMA RedemptionAccepted ==
  ASSUME FlowIInv,
         coalition[DEPLOYER] # NoAccount, merchant[demoMerchant] # NoAccount,
         passport[demoPassport] # NoAccount,
         balance[demoBalance].version # 0, balance[demoBalance].redeemed_units = 0
  PROVE  Accepts("redeem")
<1> DEFINE c == DEPLOYER
           m == demoMerchant
           p == demoPassport
           b == demoBalance
<1> USE DemoAddresses
<1>1. IInv /\ OneOfEach
  BY DEF FlowIInv, DemoIInv
<1>2. /\ coalition[c].authority = c
      /\ m = <<merchant[m].coalition, merchant[m].authority>>
      /\ p = <<passport[p].coalition, passport[p].customer>>
      /\ b = <<balance[b].passport, balance[b].merchant>>
  BY <1>1 DEF IInv, RelationshipsBound
<1>3. /\ CoalitionConstraint(c)
      /\ OwnPassportConstraint(c, CUSTOMER, p)
      /\ RedeemMerchantConstraint(c, m)
      /\ RedeemBalanceConstraint(p, m, b)
  BY <1>2 DEF CoalitionConstraint, OwnPassportConstraint, RedeemMerchantConstraint,
     RedeemBalanceConstraint
<1>4. apply_redemption_accepts(b, 10)
  <2>1. balance[b].earned_units = 12
    BY <1>1 DEF OneOfEach
  <2>2. available_units(b) = 12
    BY <2>1 DEF available_units
  <2>3. balance[b].version = STATE_VERSION
    BY <1>1 DEF IInv, TypeOK, MerchantBalance
  <2> QED
    BY <2>2, <2>3, DemoUnits DEF apply_redemption_accepts, SufficientCredit
<1> QED
  BY <1>3, <1>4 DEF Accepts

\* What this run has not had included yet, no run has.
LEMMA NothingAhead ==
  ASSUME FlowIInv, pc \in 5 .. 10, Flow[pc] \notin StatusName, run \in 1 .. MaxRuns,
         <<"initialize-coalition", run>> \in landed, <<Flow[pc], run>> \notin landed
  PROVE  ~Landed(Flow[pc])
<1> SUFFICES ASSUME NEW r \in 1 .. MaxRuns, <<Flow[pc], r>> \in landed PROVE FALSE
  BY DEF Landed
<1>1. 4 \in DOMAIN Flow /\ pc \in DOMAIN Flow /\ 4 < pc /\ Flow[4] \notin StatusName
  BY FlowNames
<1>2. <<Flow[4], r>> \in landed
  BY <1>1 DEF FlowIInv, SubmittedInOrder
<1>3. r = run
  BY <1>2, CommandNames DEF FlowIInv, CoalitionOfOneRun
<1> QED
  BY <1>3

LEMMA FlowIsAccepted == FlowIInv => FlowNeverRefused
<1> SUFFICES ASSUME FlowIInv, <<"initialize-coalition", run>> \in landed,
                    NEW name \in Name \ StatusName, At(name), <<name, run>> \notin landed
             PROVE  Accepts(name)
  BY DEF FlowNeverRefused, CanLand
<1> DEFINE c == DEPLOYER
           m == demoMerchant
           p == demoPassport
           b == demoBalance
<1> USE DemoAddresses
<1>1. IInv /\ FilesOfThisRun /\ AccountsFollow
  BY DEF FlowIInv, DemoIInv
<1>2. pc \in 1 .. 10 /\ name = Flow[pc]
  BY FlowNames DEF At
<1>3. run \in 1 .. MaxRuns
  <2>1. run \in 0 .. MaxRuns /\ run # 0
    BY <1>1, <1>2 DEF FilesOfThisRun
  <2> QED
    BY <2>1, DemoAssumption
<1>4. pc \in 5 .. 10 => ~Landed(name)
  BY <1>2, <1>3, NothingAhead
<1>5. \A i \in 1 .. 10 : (i < pc /\ Flow[i] \notin StatusName) => Landed(Flow[i])
  BY <1>1, <1>3, FlowNames DEF FilesOfThisRun, Landed
<1>6. coalition[c] # NoAccount /\ NotPaused(c)
  BY <1>1, <1>3 DEF AccountsFollow, Landed
<1>7. coalition[c].authority = c
  BY <1>1, <1>6 DEF IInv, RelationshipsBound
<1>8. CASE pc \in 1 .. 3
  BY <1>2, <1>8, CommandNames DEF Accepts
<1>9. CASE pc = 4
  BY <1>2, <1>9, CommandNames
<1>10. CASE pc = 5
  <2>1. name = "register-merchant" /\ merchant[m] = NoAccount
    BY <1>1, <1>2, <1>4, <1>10, CommandNames DEF AccountsFollow
  <2>2. GovernedBy(c, c)
    BY <1>6, <1>7 DEF GovernedBy
  <2>3. validate_merchant_config(ShopArgs.earn_bps, ShopArgs.daily_cap)
    BY DemoAssumption DEF validate_merchant_config, ShopArgs
  <2> QED
    BY <1>6, <2>1, <2>2, <2>3 DEF Accepts
<1>11. CASE pc = 6
  <2>1. name = "create-passport" /\ passport[p] = NoAccount
    BY <1>1, <1>2, <1>4, <1>11, CommandNames DEF AccountsFollow
  <2>2. \E k \in MintKey : FreshMint(k)
    BY <1>1, <2>1, DemoAssumption DEF AccountsFollow
  <2>3. CoalitionConstraint(c)
    BY <1>6, <1>7 DEF CoalitionConstraint
  <2> QED
    BY <1>6, <2>1, <2>2, <2>3 DEF Accepts
<1>12. CASE pc = 7
  <2>1. Landed("register-merchant") /\ Landed("create-passport") /\ name = "record-receipt"
    BY <1>2, <1>5, <1>12, FlowNames, CommandNames
  <2>2. merchant[m] # NoAccount /\ passport[p] # NoAccount /\ balance[b].version = 0
    BY <1>1, <1>2, <1>4, <1>12, <2>1 DEF AccountsFollow
  <2> QED
    BY <1>6, <2>1, <2>2, ReceiptAccepted
<1>13. CASE pc = 9
  <2>1. /\ Landed("register-merchant") /\ Landed("create-passport")
        /\ Landed("record-receipt") /\ name = "redeem"
    BY <1>2, <1>5, <1>13, FlowNames, CommandNames
  <2>2. /\ merchant[m] # NoAccount /\ passport[p] # NoAccount /\ balance[b].version # 0
        /\ balance[b].redeemed_units = 0
    BY <1>1, <1>2, <1>4, <1>13, <2>1 DEF AccountsFollow
  <2> QED
    BY <1>6, <2>1, <2>2, RedemptionAccepted
<1>14. CASE pc \in {8, 10}
  BY <1>2, <1>14, FlowNames
<1> QED
  BY <1>2, <1>8, <1>9, <1>10, <1>11, <1>12, <1>13, <1>14

\* A run that created the coalition itself is refused nowhere, for any number of
\* earlier runs ended anywhere, their transactions landing at any time, and
\* with any number of nights in between.
THEOREM FlowAlwaysAccepted == DemoSpec => []FlowNeverRefused
BY FlowInvariance, FlowIsAccepted, PTL

===============================================================================
