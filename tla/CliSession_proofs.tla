--------------------------- MODULE CliSession_proofs ---------------------------
(***************************************************************************)
(* A session of the CLI is a behaviour of the program, so what is proved   *)
(* about the program holds in it; and whatever is repeated, delayed or     *)
(* reordered, a guarded command lands once and status shows no reputation  *)
(* that the program would not give.                                        *)
(***************************************************************************)
EXTENDS CliSession, CoalitionProgram_proofs

-----------------------------------------------------------------------------
(* Commands are instructions *)

\* The accounts that the CLI derives are addresses of the program.
LEMMA InstructionIsStep ==
  ASSUME NEW cmd \in Command, Instruction(cmd)
  PROVE  Next
<1> USE DEF deriveCoalition, deriveMerchant, derivePassport, deriveBalance
<1>1. CASE cmd.kind = "initialize-coalition"
  <2>1. cmd.signer \in Authority /\ cmd.args \in CoalitionArgs
    BY <1>1, CommandAssumption
  <2>2. InitializeCoalition(cmd.signer, cmd.args)
    BY <1>1 DEF Instruction
  <2> QED
    BY <2>1, <2>2 DEF Next, Configure
<1>2. CASE cmd.kind = "pause-coalition"
  <2>1. cmd.signer \in Authority /\ cmd.signer \in CoalitionAddr
    BY <1>2, CommandAssumption DEF CoalitionAddr
  <2>2. PauseCoalition(cmd.signer, cmd.signer)
    BY <1>2 DEF Instruction
  <2> QED
    BY <2>1, <2>2 DEF Next, Configure
<1>3. CASE cmd.kind = "unpause-coalition"
  <2>1. cmd.signer \in Authority /\ cmd.signer \in CoalitionAddr
    BY <1>3, CommandAssumption DEF CoalitionAddr
  <2>2. UnpauseCoalition(cmd.signer, cmd.signer)
    BY <1>3 DEF Instruction
  <2> QED
    BY <2>1, <2>2 DEF Next, Configure
<1>4. CASE cmd.kind = "register-merchant"
  <2>1. /\ cmd.signer \in Authority /\ cmd.signer \in CoalitionAddr
        /\ cmd.merchant \in MerchantKey /\ cmd.args \in MerchantArgs
    BY <1>4, CommandAssumption DEF CoalitionAddr
  <2>2. RegisterMerchant(cmd.signer, cmd.signer, cmd.merchant, cmd.args)
    BY <1>4 DEF Instruction
  <2> QED
    BY <2>1, <2>2 DEF Next, Configure
<1>5. CASE cmd.kind = "create-passport"
  <2>1. cmd.signer \in Customer /\ cmd.authority \in CoalitionAddr
    BY <1>5, CommandAssumption DEF CoalitionAddr
  <2>2. \E k \in MintKey : CreatePassport(cmd.signer, cmd.authority, k)
    BY <1>5 DEF Instruction
  <2> QED
    BY <2>1, <2>2 DEF Next, CreateAnyPassport
<1>6. CASE cmd.kind = "record-receipt"
  <2> DEFINE c == cmd.authority
             m == <<c, cmd.signer>>
             p == <<c, cmd.customer>>
  <2>1. /\ c \in CoalitionAddr /\ cmd.signer \in MerchantKey /\ cmd.customer \in Customer
        /\ cmd.nonce \in U64 /\ cmd.amount \in U64 /\ cmd.receipt_hash \in ReceiptHash
    BY <1>6, CommandAssumption DEF CoalitionAddr
  <2>2. m \in MerchantAddr /\ p \in PassportAddr /\ <<p, m>> \in BalanceAddr
    BY <2>1 DEF MerchantAddr, PassportAddr, BalanceAddr
  <2>3. RecordReceipt(cmd.signer, c, m, p, <<p, m>>, cmd.nonce, cmd.amount, cmd.receipt_hash)
    BY <1>6 DEF Instruction
  <2> HIDE DEF c, m, p
  <2>4. RecordAnyReceipt
    BY <2>1, <2>2, <2>3 DEF RecordAnyReceipt
  <2> QED
    BY <2>4 DEF Next
<1>7. CASE cmd.kind = "redeem"
  <2> DEFINE c == cmd.authority
             m == <<c, cmd.merchant>>
             p == <<c, cmd.signer>>
  <2>1. /\ c \in CoalitionAddr /\ cmd.signer \in Customer /\ cmd.merchant \in MerchantKey
        /\ cmd.units \in U64
    BY <1>7, CommandAssumption DEF CoalitionAddr
  <2>2. m \in MerchantAddr /\ p \in PassportAddr /\ <<p, m>> \in BalanceAddr
    BY <2>1 DEF MerchantAddr, PassportAddr, BalanceAddr
  <2>3. Redeem(cmd.signer, c, m, p, <<p, m>>, cmd.units)
    BY <1>7 DEF Instruction
  <2> HIDE DEF c, m, p
  <2>4. RedeemAny
    BY <2>1, <2>2, <2>3 DEF RedeemAny
  <2> QED
    BY <2>4 DEF Next
<1> QED
  BY <1>1, <1>2, <1>3, <1>4, <1>5, <1>6, <1>7 DEF Instruction

LEMMA SessionSteps == [CliNext]_cliVars => [Next]_vars
<1> SUFFICES ASSUME [CliNext]_cliVars PROVE [Next]_vars
  OBVIOUS
<1>1. ASSUME NEW cmd \in Command, NEW n, Land(cmd, n) PROVE Next
  BY <1>1, InstructionIsStep DEF Land
<1>2. ASSUME NEW cmd \in Command, Send(cmd) \/ Confirm(cmd) PROVE UNCHANGED vars
  BY <1>2 DEF Send, Confirm
<1>3. CASE FetchCoalition \/ FetchPassport \/ FetchBalance \/ StatusAgain
  BY <1>3 DEF FetchCoalition, FetchPassport, FetchBalance, StatusAgain
<1>4. CASE UNCHANGED cliVars
  BY <1>4 DEF cliVars, vars
<1>5. CASE Environment
  BY <1>5 DEF Next
<1> QED
  BY <1>1, <1>2, <1>3, <1>4, <1>5 DEF CliNext

\* Every session of the CLI, with its repetitions, is a behaviour of the
\* program.
THEOREM SessionsAreBehaviours == CliSpec => Spec
<1>1. CliInit => Init
  BY DEF CliInit
<1> QED
  BY <1>1, SessionSteps, PTL DEF CliSpec, Spec

-----------------------------------------------------------------------------
(* A guarded command lands once *)

\* What a command did is refused the second time.
LEMMA TookOnce ==
  ASSUME IInv, NEW cmd \in Command, cmd.kind \in OnceKinds, Instruction(cmd)
  PROVE  ~Took(cmd)
<1> USE DEF deriveCoalition, deriveMerchant, derivePassport, deriveBalance
<1>1. CASE cmd.kind = "initialize-coalition"
  BY <1>1 DEF Instruction, InitializeCoalition, Took
<1>2. CASE cmd.kind = "register-merchant"
  BY <1>2 DEF Instruction, RegisterMerchant, Took
<1>3. CASE cmd.kind = "create-passport"
  BY <1>3 DEF Instruction, CreatePassport, Took
<1>4. CASE cmd.kind = "record-receipt"
  <2> DEFINE p == <<cmd.authority, cmd.customer>>
             m == <<cmd.authority, cmd.signer>>
             b == <<p, m>>
  <2>1. /\ cmd.authority \in CoalitionAddr /\ cmd.signer \in MerchantKey
        /\ cmd.customer \in Customer /\ cmd.nonce \in U64
    BY <1>4, CommandAssumption DEF CoalitionAddr
  <2>2. b \in BalanceAddr
    BY <2>1 DEF MerchantAddr, PassportAddr, BalanceAddr
  <2>3. cmd.nonce > balance[b].last_receipt_nonce
    <3>1. RecordReceipt(cmd.signer, cmd.authority, m, p, b, cmd.nonce, cmd.amount,
                        cmd.receipt_hash)
      BY <1>4 DEF Instruction
    <3> HIDE DEF p, m, b
    <3> QED
      BY <3>1 DEF RecordReceipt, apply_receipt, apply_receipt_accepts, ReceiptInOrder
  <2>4. balance[b].last_receipt_nonce \in Nat /\ cmd.nonce \in Nat
    BY <2>1, <2>2, NumbersAssumption DEF IInv, TypeOK, MerchantBalance, U64
  <2> HIDE DEF b
  <2>5. ~(balance[b].last_receipt_nonce >= cmd.nonce)
    BY <2>3, <2>4
  <2> QED
    BY <1>4, <2>5 DEF Took, b, p, m
<1> QED
  BY <1>1, <1>2, <1>3, <1>4 DEF OnceKinds

\* And what it did shows.
LEMMA TookShows ==
  ASSUME IInv, TypeOK', NEW cmd \in Command, cmd.kind \in OnceKinds, Instruction(cmd)
  PROVE  Took(cmd)'
<1> USE DEF deriveCoalition, deriveMerchant, derivePassport, deriveBalance
<1>1. CASE cmd.kind = "initialize-coalition"
  <2>1. /\ cmd.signer \in CoalitionAddr
        /\ cmd.signer \in Authority
        /\ cmd.args \in [max_receipt_units : U64, tier_thresholds : Seq(U64)]
    BY <1>1, CommandAssumption, ArgsAssumption DEF CoalitionAddr
  <2>2. coalition'[cmd.signer] =
          [authority |-> cmd.signer, max_receipt_units |-> cmd.args.max_receipt_units,
           tier_thresholds |-> cmd.args.tier_thresholds, paused |-> FALSE]
    BY <1>1, <2>1 DEF Instruction, InitializeCoalition, IInv, TypeOK
  <2>3. coalition'[cmd.signer] \in CoalitionAccount
    BY <2>1, <2>2 DEF CoalitionAccount
  <2>4. coalition'[cmd.signer] # NoAccount
    BY <2>3, NoAccountAssumption
  <2> QED
    BY <1>1, <2>4 DEF Took
<1>2. CASE cmd.kind = "register-merchant"
  <2> DEFINE m == <<cmd.signer, cmd.merchant>>
  <2>1. /\ cmd.signer \in CoalitionAddr /\ cmd.merchant \in MerchantKey
        /\ cmd.args \in [earn_bps : U64, daily_cap : U64]
    BY <1>2, CommandAssumption, ArgsAssumption DEF CoalitionAddr
  <2>2. m \in MerchantAddr
    BY <2>1 DEF MerchantAddr
  <2>3. merchant'[m] = [coalition |-> cmd.signer, authority |-> cmd.merchant,
                        earn_bps |-> cmd.args.earn_bps, daily_cap |-> cmd.args.daily_cap,
                        active |-> TRUE]
    BY <1>2, <2>2 DEF Instruction, RegisterMerchant, IInv, TypeOK
  <2>4. merchant'[m] \in MerchantAccount
    BY <2>1, <2>3 DEF MerchantAccount
  <2>5. merchant'[m] # NoAccount
    BY <2>4, NoAccountAssumption
  <2> QED
    BY <1>2, <2>5 DEF Took
<1>3. CASE cmd.kind = "create-passport"
  <2> DEFINE p == <<cmd.authority, cmd.signer>>
  <2>1. cmd.authority \in CoalitionAddr /\ cmd.signer \in Customer
    BY <1>3, CommandAssumption DEF CoalitionAddr
  <2>2. p \in PassportAddr
    BY <2>1 DEF PassportAddr
  <2>3. PICK k \in MintKey : CreatePassport(cmd.signer, cmd.authority, k)
    BY <1>3 DEF Instruction
  <2>4. passport'[p] = [coalition |-> cmd.authority, customer |-> cmd.signer,
                        passport_mint |-> k, total_visits |-> 0, streak_points |-> 0]
    BY <2>2, <2>3 DEF CreatePassport, IInv, TypeOK
  <2>5. passport'[p] \in PassportAccount
    BY <2>1, <2>4, NumbersAssumption DEF PassportAccount, U64
  <2>6. passport'[p] # NoAccount
    BY <2>5, NoAccountAssumption
  <2> QED
    BY <1>3, <2>6 DEF Took
<1>4. CASE cmd.kind = "record-receipt"
  <2> DEFINE p == <<cmd.authority, cmd.customer>>
             m == <<cmd.authority, cmd.signer>>
             b == <<p, m>>
  <2>1. /\ cmd.authority \in CoalitionAddr /\ cmd.signer \in MerchantKey
        /\ cmd.customer \in Customer /\ cmd.nonce \in Nat
    BY <1>4, CommandAssumption, NumbersAssumption DEF CoalitionAddr, U64
  <2>2. b \in BalanceAddr
    BY <2>1 DEF MerchantAddr, PassportAddr, BalanceAddr
  <2>3. balance'[b].last_receipt_nonce = cmd.nonce
    <3>1. RecordReceipt(cmd.signer, cmd.authority, m, p, b, cmd.nonce, cmd.amount,
                        cmd.receipt_hash)
      BY <1>4 DEF Instruction
    <3> HIDE DEF p, m, b
    <3> QED
      BY <2>2, <3>1 DEF RecordReceipt, apply_receipt, IInv, TypeOK
  <2> HIDE DEF b
  <2>4. balance'[b].last_receipt_nonce >= cmd.nonce
    BY <2>1, <2>3
  <2> QED
    BY <1>4, <2>4 DEF Took, b, p, m
<1> QED
  BY <1>1, <1>2, <1>3, <1>4 DEF OnceKinds

\* Nothing undoes it.
LEMMA TookStays ==
  ASSUME IInv, TypeOK', [Next]_vars, NEW cmd \in Command, Took(cmd)
  PROVE  Took(cmd)'
<1>1. CASE cmd.kind = "initialize-coalition"
  <2>1. cmd.signer \in CoalitionAddr
    BY <1>1, CommandAssumption DEF CoalitionAddr
  <2> QED
    BY <1>1, <2>1, AccountsRemain DEF Took
<1>2. CASE cmd.kind = "register-merchant"
  <2>1. <<cmd.signer, cmd.merchant>> \in MerchantAddr
    BY <1>2, CommandAssumption DEF CoalitionAddr, MerchantAddr
  <2> QED
    BY <1>2, <2>1, AccountsRemain DEF Took
<1>3. CASE cmd.kind = "create-passport"
  <2>1. <<cmd.authority, cmd.signer>> \in PassportAddr
    BY <1>3, CommandAssumption DEF CoalitionAddr, PassportAddr
  <2> QED
    BY <1>3, <2>1, AccountsRemain DEF Took
<1>4. CASE cmd.kind = "record-receipt"
  <2> DEFINE b == <<<<cmd.authority, cmd.customer>>, <<cmd.authority, cmd.signer>>>>
  <2>1. /\ cmd.authority \in CoalitionAddr /\ cmd.signer \in MerchantKey
        /\ cmd.customer \in Customer /\ cmd.nonce \in Nat
    BY <1>4, CommandAssumption, NumbersAssumption DEF CoalitionAddr, U64
  <2>2. b \in BalanceAddr
    BY <2>1 DEF MerchantAddr, PassportAddr, BalanceAddr
  <2>3. balance[b].last_receipt_nonce >= cmd.nonce
    BY <1>4 DEF Took
  <2> HIDE DEF b
  <2>4. balance'[b].last_receipt_nonce >= balance[b].last_receipt_nonce
    BY <2>2, AccountsRemain
  <2>5. balance[b].last_receipt_nonce \in Nat /\ balance'[b].last_receipt_nonce \in Nat
    BY <2>2, NumbersAssumption DEF IInv, TypeOK, MerchantBalance, U64
  <2>6. balance'[b].last_receipt_nonce >= cmd.nonce
    BY <2>1, <2>3, <2>4, <2>5
  <2> QED
    BY <1>4, <2>6 DEF Took, b
<1> QED
  BY <1>1, <1>2, <1>3, <1>4 DEF Took

LEMMA NextLands ==
  ASSUME SessionIInv, TypeOK', [CliNext]_cliVars
  PROVE  (landed \in [Command -> SUBSET Nat] /\ LandsOnce /\ LandedTook)'
<1>1. IInv /\ [Next]_vars
  BY SessionSteps DEF SessionIInv, CreditIInv
<1>2. \A cmd \in Command : Took(cmd) => Took(cmd)'
  BY <1>1, TookStays
<1>3. ASSUME NEW cmd \in Command, NEW n \in 1 .. MaxAttempts[cmd], Land(cmd, n)
      PROVE  (landed \in [Command -> SUBSET Nat] /\ LandsOnce /\ LandedTook)'
  <2>1. n \in Nat
    BY CommandAssumption
  <2>2. landed' = [landed EXCEPT ![cmd] = @ \cup {n}] /\ Instruction(cmd)
    BY <1>3 DEF Land
  <2>3. landed' \in [Command -> SUBSET Nat]
    BY <2>1, <2>2 DEF SessionIInv
  <2>4. /\ landed'[cmd] = landed[cmd] \cup {n}
        /\ \A c \in Command : c # cmd => landed'[c] = landed[c]
    BY <2>2 DEF SessionIInv
  <2>5. ASSUME NEW c \in Command, c.kind \in OnceKinds
        PROVE  Cardinality(landed'[c]) <= 1
    <3>1. CASE c = cmd
      <4>1. landed[cmd] = {}
        BY <1>1, <2>2, <2>5, <3>1, TookOnce DEF SessionIInv, LandedTook
      <4>2. landed'[cmd] = {n}
        BY <2>4, <4>1
      <4>3. Cardinality({n}) = 1
        BY FS_Singleton
      <4> QED
        BY <3>1, <4>2, <4>3
    <3>2. CASE c # cmd
      BY <2>4, <2>5, <3>2 DEF SessionIInv, LandsOnce
    <3> QED
      BY <3>1, <3>2
  <2>6. ASSUME NEW c \in Command, c.kind \in OnceKinds, landed'[c] # {}
        PROVE  Took(c)'
    <3>1. CASE c = cmd
      BY <1>1, <2>2, <2>6, <3>1, TookShows
    <3>2. CASE c # cmd
      BY <1>2, <2>4, <2>6, <3>2 DEF SessionIInv, LandedTook
    <3> QED
      BY <3>1, <3>2
  <2> QED
    BY <2>3, <2>5, <2>6 DEF LandsOnce, LandedTook
<1>4. ASSUME UNCHANGED landed
      PROVE  (landed \in [Command -> SUBSET Nat] /\ LandsOnce /\ LandedTook)'
  BY <1>2, <1>4 DEF SessionIInv, LandsOnce, LandedTook
<1>5. ASSUME NEW cmd \in Command, Send(cmd) \/ Confirm(cmd)
      PROVE  UNCHANGED landed
  BY <1>5 DEF Send, Confirm
<1>6. CASE \/ FetchCoalition \/ FetchPassport \/ FetchBalance \/ StatusAgain
           \/ UNCHANGED cliVars
  BY <1>4, <1>6 DEF FetchCoalition, FetchPassport, FetchBalance, StatusAgain, session, cliVars
<1>7. CASE Environment /\ UNCHANGED <<session, fetched>>
  BY <1>4, <1>7 DEF session
<1> QED
  BY <1>3, <1>4, <1>5, <1>6, <1>7 DEF CliNext

-----------------------------------------------------------------------------
(* What status shows *)

LEMMA StatusAddresses ==
  /\ Status.authority \in CoalitionAddr
  /\ statusPassport = <<Status.authority, Status.customer>>
  /\ statusMerchant = <<Status.authority, Status.merchant>>
  /\ statusBalance = <<statusPassport, statusMerchant>>
  /\ statusPassport \in PassportAddr
  /\ statusMerchant \in MerchantAddr
  /\ statusBalance \in BalanceAddr
BY StatusAssumption DEF CoalitionAddr, PassportAddr, MerchantAddr, BalanceAddr,
   statusPassport, statusMerchant, statusBalance,
   deriveCoalition, derivePassport, deriveMerchant, deriveBalance

\* The credit behind a passport of a coalition with one merchant is in one
\* balance.
LEMMA OneMerchantBacks ==
  ASSUME CreditIInv, OnlyMerchant, passport[statusPassport] # NoAccount,
         balance[statusBalance].version # 0
  PROVE  passport[statusPassport].streak_points <= balance[statusBalance].earned_units
<1> DEFINE p == statusPassport
           m == statusMerchant
           f == earnedBy(p)
<1>1. /\ p \in PassportAddr /\ m \in MerchantAddr /\ <<p, m>> = statusBalance
      /\ p[1] = Status.authority /\ <<p, m>> \in BalanceAddr
  BY StatusAddresses
<1>2. passport[p].streak_points <= SumOver(f, MerchantsOf(p))
  BY <1>1 DEF CreditIInv, StreakBackedByCredit
<1>3. ASSUME NEW n \in MerchantsOf(p) PROVE n = m
  <2>1. n \in MerchantAddr /\ <<p, n>> \in BalanceAddr /\ balance[<<p, n>>].version # 0
    BY <1>1, <1>3 DEF MerchantsOf, BalanceAddr
  <2>2. merchant[n] # NoAccount /\ n[1] = p[1]
    BY <2>1 DEF CreditIInv, IInv, RelationshipsBound
  <2> QED
    BY <1>1, <2>1, <2>2 DEF OnlyMerchant, deriveCoalition
<1>4. MerchantsOf(p) = {m}
  BY <1>1, <1>3 DEF MerchantsOf
<1>5. f[m] = balance[statusBalance].earned_units
  BY <1>1 DEF earnedBy
<1>6. f[m] \in Int
  <2>1. balance[statusBalance] \in MerchantBalance
    BY <1>1 DEF CreditIInv, IInv, TypeOK
  <2>2. balance[statusBalance].earned_units \in Int
    BY <2>1, NumbersAssumption DEF MerchantBalance, U64
  <2> QED
    BY <1>5, <2>2
<1> HIDE DEF f, p, m
<1>7. SumOver(f, {m}) = f[m]
  <2>1. {} \cup {m} = {m} /\ SumOver(f, {}) = 0
    BY SumEmpty
  <2>2. SumOver(f, {} \cup {m}) = f[m] + SumOver(f, {})
    BY <1>6, SumAdd, FS_EmptySet
  <2> QED
    BY <1>6, <2>1, <2>2
<1> QED
  BY <1>2, <1>4, <1>5, <1>7 DEF p

\* What is in hand stays true of accounts that only grow.
LEMMA FetchedStays ==
  ASSUME SessionIInv, TypeOK', [Next]_vars, UNCHANGED fetched
  PROVE  (FetchedStands /\ StatusBacked)'
<1>1. IInv
  BY DEF SessionIInv, CreditIInv
<1>2. /\ \A c \in CoalitionAddr : coalition[c] # NoAccount =>
           /\ coalition'[c] # NoAccount
           /\ coalition'[c].tier_thresholds = coalition[c].tier_thresholds
      /\ \A m \in MerchantAddr : merchant[m] # NoAccount => merchant'[m] = merchant[m]
      /\ \A p \in PassportAddr : passport[p] # NoAccount =>
           /\ passport'[p] # NoAccount
           /\ passport'[p].streak_points >= passport[p].streak_points
  BY <1>1, AccountsRemain
<1>3. fetched.passport # NotFetched =>
        /\ passport'[statusPassport] # NoAccount
        /\ fetched.passport.streak_points <= passport'[statusPassport].streak_points
  <2> SUFFICES ASSUME fetched.passport # NotFetched
               PROVE  /\ passport'[statusPassport] # NoAccount
                      /\ fetched.passport.streak_points <= passport'[statusPassport].streak_points
    OBVIOUS
  <2>1. /\ passport[statusPassport] # NoAccount
        /\ fetched.passport.streak_points <= passport[statusPassport].streak_points
        /\ fetched.passport \in PassportAccount
    BY DEF SessionIInv, FetchedStands
  <2>2. /\ passport'[statusPassport] # NoAccount
        /\ passport'[statusPassport].streak_points >= passport[statusPassport].streak_points
    BY <1>2, <2>1, StatusAddresses
  <2>3. /\ passport[statusPassport] \in PassportAccount
        /\ passport'[statusPassport] \in PassportAccount
    BY <1>1, <2>1, <2>2, StatusAddresses DEF IInv, TypeOK
  <2>4. /\ fetched.passport.streak_points \in Nat
        /\ passport[statusPassport].streak_points \in Nat
        /\ passport'[statusPassport].streak_points \in Nat
    BY <2>1, <2>3, NumbersAssumption DEF PassportAccount, U64
  <2> QED
    BY <2>1, <2>2, <2>4
<1>4. /\ statusPassport' = statusPassport /\ statusMerchant' = statusMerchant
  BY DEF statusPassport, statusMerchant, deriveCoalition, derivePassport, deriveMerchant
<1>5. FetchedStands'
  BY <1>2, <1>3, <1>4, StatusAddresses DEF SessionIInv, FetchedStands
<1>6. OnlyMerchant' => OnlyMerchant
  BY <1>2, <1>4 DEF OnlyMerchant, deriveCoalition
<1>7. StatusBacked'
  BY <1>6 DEF SessionIInv, StatusBacked
<1> QED
  BY <1>5, <1>7

LEMMA NextFetched ==
  ASSUME SessionIInv, TypeOK', [CliNext]_cliVars
  PROVE  (FetchedStands /\ StatusBacked)'
<1>1. [Next]_vars
  BY SessionSteps
<1>2. ASSUME UNCHANGED fetched PROVE (FetchedStands /\ StatusBacked)'
  BY <1>1, <1>2, FetchedStays
<1>3. TypeOK /\ CreditIInv
  BY DEF SessionIInv, CreditIInv, IInv
<1> DEFINE Fetched == [coalition : CoalitionAccount \cup {NotFetched},
                       passport : PassportAccount \cup {NotFetched},
                       balance : MerchantBalance \cup {NotFetched}]
<1>4. fetched \in Fetched
  BY DEF SessionIInv, FetchedStands
<1>5. CASE FetchCoalition
  <2>1. /\ coalition[Status.authority] # NoAccount
        /\ fetched' = [fetched EXCEPT !.coalition = coalition[Status.authority]]
        /\ UNCHANGED <<coalition, merchant, passport, balance>>
    BY <1>5 DEF FetchCoalition, deriveCoalition, vars
  <2>2. coalition[Status.authority] \in CoalitionAccount
    BY <1>3, <2>1, StatusAddresses DEF TypeOK
  <2>3. /\ fetched' \in Fetched
        /\ fetched'.coalition = coalition[Status.authority]
        /\ fetched'.passport = fetched.passport
        /\ fetched'.balance = fetched.balance
    BY <1>4, <2>1, <2>2
  <2>4. FetchedStands'
    BY <2>1, <2>3, StatusAddresses DEF SessionIInv, FetchedStands
  <2>5. StatusBacked'
    BY <2>1, <2>3 DEF SessionIInv, StatusBacked, OnlyMerchant
  <2> QED
    BY <2>4, <2>5
<1>6. CASE FetchPassport
  <2>1. /\ passport[statusPassport] # NoAccount
        /\ fetched.passport = NotFetched
        /\ fetched' = [fetched EXCEPT !.passport = passport[statusPassport]]
        /\ UNCHANGED <<coalition, merchant, passport, balance>>
    BY <1>6 DEF FetchPassport, vars
  <2>2. passport[statusPassport] \in PassportAccount
    BY <1>3, <2>1, StatusAddresses DEF TypeOK
  <2>3. /\ fetched' \in Fetched
        /\ fetched'.coalition = fetched.coalition
        /\ fetched'.passport = passport[statusPassport]
        /\ fetched'.balance = fetched.balance
    BY <1>4, <2>1, <2>2
  <2>4. FetchedStands'
    <3>1. passport[statusPassport].streak_points \in Nat
      BY <2>2, NumbersAssumption DEF PassportAccount, U64
    <3> QED
      BY <2>1, <2>3, <3>1, StatusAddresses DEF SessionIInv, FetchedStands
  <2>5. fetched.balance = NotFetched
    BY <2>1 DEF SessionIInv, FetchedStands
  <2>6. StatusBacked'
    BY <2>3, <2>5 DEF StatusBacked
  <2> QED
    BY <2>4, <2>6
<1>7. CASE FetchBalance
  <2>1. /\ fetched.passport # NotFetched
        /\ balance[statusBalance].version # 0
        /\ fetched' = [fetched EXCEPT !.balance = balance[statusBalance]]
        /\ UNCHANGED <<coalition, merchant, passport, balance>>
    BY <1>7 DEF FetchBalance, PassportInHand, vars
  <2>2. balance[statusBalance] \in MerchantBalance
    BY <1>3, StatusAddresses DEF TypeOK
  <2>3. /\ fetched' \in Fetched
        /\ fetched'.coalition = fetched.coalition
        /\ fetched'.passport = fetched.passport
        /\ fetched'.balance = balance[statusBalance]
    BY <1>4, <2>1, <2>2
  <2>4. /\ passport[statusPassport] # NoAccount
        /\ fetched.passport.streak_points <= passport[statusPassport].streak_points
        /\ fetched.passport \in PassportAccount
    BY <2>1 DEF SessionIInv, FetchedStands
  <2>5. FetchedStands'
    BY <2>1, <2>3, StatusAddresses DEF SessionIInv, FetchedStands
  <2>6. OnlyMerchant => fetched.passport.streak_points <= balance[statusBalance].earned_units
    <3> SUFFICES ASSUME OnlyMerchant
                 PROVE  fetched.passport.streak_points <= balance[statusBalance].earned_units
      OBVIOUS
    <3>1. passport[statusPassport].streak_points <= balance[statusBalance].earned_units
      BY <1>3, <2>1, <2>4, OneMerchantBacks
    <3>2. /\ fetched.passport.streak_points \in Nat
          /\ passport[statusPassport].streak_points \in Nat
          /\ balance[statusBalance].earned_units \in Nat
      BY <1>3, <2>2, <2>4, StatusAddresses, NumbersAssumption
         DEF TypeOK, PassportAccount, MerchantBalance, U64
    <3> QED
      BY <2>4, <3>1, <3>2
  <2>7. OnlyMerchant' => OnlyMerchant
    BY <2>1 DEF OnlyMerchant
  <2>8. StatusBacked'
    BY <2>3, <2>6, <2>7 DEF StatusBacked
  <2> QED
    BY <2>5, <2>8
<1>8. CASE StatusAgain
  <2>1. fetched' = NothingFetched
    BY <1>8 DEF StatusAgain
  <2> QED
    BY <2>1 DEF NothingFetched, FetchedStands, StatusBacked
<1>9. ASSUME NEW cmd \in Command, NEW n, Send(cmd) \/ Land(cmd, n) \/ Confirm(cmd)
      PROVE  UNCHANGED fetched
  BY <1>9 DEF Send, Land, Confirm
<1>10. CASE UNCHANGED cliVars
  BY <1>2, <1>10 DEF cliVars
<1>11. CASE Environment /\ UNCHANGED <<session, fetched>>
  BY <1>2, <1>11
<1> QED
  BY <1>2, <1>5, <1>6, <1>7, <1>8, <1>9, <1>10, <1>11 DEF CliNext

-----------------------------------------------------------------------------

LEMMA InitSession == CliInit => SessionIInv
<1> SUFFICES ASSUME CliInit PROVE SessionIInv
  OBVIOUS
<1>1. CreditIInv
  BY InitCreditIInv DEF CliInit
<1>2. \A cmd \in Command : landed[cmd] = {}
  BY DEF CliInit
<1>3. landed \in [Command -> SUBSET Nat] /\ LandsOnce /\ LandedTook
  BY <1>2, FS_EmptySet DEF CliInit, LandsOnce, LandedTook
<1>4. FetchedStands /\ StatusBacked
  BY DEF CliInit, NothingFetched, FetchedStands, StatusBacked
<1> QED
  BY <1>1, <1>3, <1>4 DEF SessionIInv

LEMMA NextSession == SessionIInv /\ [CliNext]_cliVars => SessionIInv'
<1> SUFFICES ASSUME SessionIInv, [CliNext]_cliVars PROVE SessionIInv'
  OBVIOUS
<1>1. CreditIInv'
  BY SessionSteps, NextCreditIInv DEF SessionIInv
<1>2. TypeOK'
  BY <1>1 DEF CreditIInv, IInv
<1>3. (landed \in [Command -> SUBSET Nat] /\ LandsOnce /\ LandedTook)'
  BY <1>2, NextLands
<1>4. (FetchedStands /\ StatusBacked)'
  BY <1>2, NextFetched
<1> QED
  BY <1>1, <1>3, <1>4 DEF SessionIInv

THEOREM SessionInvariance == CliSpec => []SessionIInv
BY InitSession, NextSession, PTL DEF CliSpec

\* However often a guarded command is repeated, and in whatever order its
\* attempts are included, it takes effect once.
THEOREM RetriesLandOnce == CliSpec => []LandsOnce
<1>1. SessionIInv => LandsOnce
  BY DEF SessionIInv
<1> QED
  BY <1>1, SessionInvariance, PTL

\* Though its accounts are of different moments, status never shows a streak
\* without the credit behind it.
THEOREM StatusNeverOverstates == CliSpec => []StatusBacked
<1>1. SessionIInv => StatusBacked
  BY DEF SessionIInv
<1> QED
  BY <1>1, SessionInvariance, PTL

\* The tier that status computes is the one the program gives that streak.
THEOREM StatusTierIsTheProgramsTier == CliSpec => []StatusTier
<1>1. SessionIInv => StatusTier
  <2> SUFFICES ASSUME SessionIInv, fetched.coalition # NotFetched,
                      fetched.passport # NotFetched
               PROVE  tierLevelFor(fetched.passport.streak_points,
                                   fetched.coalition.tier_thresholds)
                        = tier_level_for(deriveCoalition(Status.authority),
                                         fetched.passport.streak_points)
    BY DEF StatusTier
  <2> DEFINE points == fetched.passport.streak_points
             tiers == fetched.coalition.tier_thresholds
  <2>1. fetched.passport \in PassportAccount /\ fetched.coalition \in CoalitionAccount
    BY DEF SessionIInv, FetchedStands
  <2>2. points \in Nat /\ tiers \in Seq(Nat)
    BY <2>1, NumbersAssumption DEF PassportAccount, CoalitionAccount, U64
  <2>3. coalition[Status.authority].tier_thresholds = tiers
    BY DEF SessionIInv, FetchedStands
  <2> HIDE DEF points, tiers
  <2>4. {i \in 1 .. Len(tiers) : \A j \in 1 .. i : ~(points < tiers[j])} =
          {i \in 1 .. Len(tiers) : \A j \in 1 .. i : points >= tiers[j]}
    <3>1. Len(tiers) \in Nat /\ \A j \in 1 .. Len(tiers) : tiers[j] \in Nat
      BY <2>2
    <3>2. \A i \in 1 .. Len(tiers) : \A j \in 1 .. i :
            j \in 1 .. Len(tiers) /\ (~(points < tiers[j]) <=> points >= tiers[j])
      BY <2>2, <3>1
    <3> QED
      BY <3>2
  <2>5. tierLevelFor(points, tiers) = tier_level_for(Status.authority, points)
    BY <2>3, <2>4 DEF tierLevelFor, tier_level_for
  <2> QED
    BY <2>5 DEF points, tiers, deriveCoalition
<1> QED
  BY <1>1, SessionInvariance, PTL

===============================================================================
