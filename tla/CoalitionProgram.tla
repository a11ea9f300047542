--------------------------- MODULE CoalitionProgram ---------------------------
(***************************************************************************)
(* The on-chain program programs/coalition_passport/src/lib.rs: a          *)
(* coalition of merchants, customer passports, and one credit ledger per   *)
(* (passport, merchant) pair.                                              *)
(*                                                                         *)
(* A Solana transaction is atomic, so every instruction is one action: its *)
(* account constraints, its require! checks and its checked arithmetic are *)
(* the guard; a transaction that fails leaves every account unchanged and  *)
(* is no step.  The accounts of an instruction are chosen by the client:   *)
(* they are parameters, and only the constraints tie them to each other.   *)
(*                                                                         *)
(* A program derived address is identified with the seeds it is derived    *)
(* from, so "the seeds constraint holds" is an equation between addresses. *)
(* Bumps and account sizes are left out; events are in CoalitionEvents.    *)
(***************************************************************************)
EXTENDS Integers, Sequences, FiniteSets, Sums

CONSTANTS
  Authority,                \* wallets that may govern a coalition
  MerchantKey,              \* wallets that may act for a merchant
  Customer,                 \* wallets that may hold a passport
  MintKey,                  \* fresh keypairs offered as passport mint
  ReceiptHash,              \* receipt commitments, with the all-zero one
  EmptyReceiptHash,
  NoAccount,                \* the address holds no account; no mint authority
  MaxU64,                   \* u64::MAX
  MAX_TIERS,
  BASIS_POINTS_DENOMINATOR,
  SECONDS_PER_DAY,
  Timestamp,                \* values of the Clock sysvar, of either sign
  CoalitionArgs,            \* arguments of initialize_coalition, valid or not
  MerchantArgs              \* arguments of register_merchant, valid or not

U64 == 0 .. MaxU64

ASSUME NumbersAssumption ==
  /\ MaxU64 \in Nat \ {0}
  /\ MAX_TIERS \in Nat
  /\ BASIS_POINTS_DENOMINATOR \in Nat \ {0}
  /\ SECONDS_PER_DAY \in Nat \ {0}
  /\ Timestamp \subseteq Int

ASSUME ArgsAssumption ==
  /\ CoalitionArgs \subseteq
       [max_receipt_units : U64, tier_thresholds : Seq(U64)]
  /\ MerchantArgs \subseteq [earn_bps : U64, daily_cap : U64]

\* The addresses of the four kinds of PDA, as their seeds.
CoalitionAddr == Authority
MerchantAddr == CoalitionAddr \X MerchantKey
PassportAddr == CoalitionAddr \X Customer
BalanceAddr == PassportAddr \X MerchantAddr

VARIABLES
  coalition,   \* [CoalitionAddr -> account or NoAccount]
  merchant,    \* [MerchantAddr -> account or NoAccount]
  passport,    \* [PassportAddr -> account or NoAccount]
  balance,     \* [BalanceAddr -> account]; version 0: not initialised
  mint,        \* [MintKey -> Token-2022 mint or NoAccount]
  token,       \* token[<<h, k>>]: tokens of mint k held in h's canonical ATA
  unix_timestamp \* Clock::get()?.unix_timestamp

vars == <<coalition, merchant, passport, balance, mint, token, unix_timestamp>>

-----------------------------------------------------------------------------
(* Accounts *)

STATE_VERSION == 1

CoalitionAccount ==
  [authority : Authority, max_receipt_units : U64,
   tier_thresholds : Seq(U64), paused : BOOLEAN]

MerchantAccount ==
  [coalition : CoalitionAddr, authority : MerchantKey,
   earn_bps : U64, daily_cap : U64, active : BOOLEAN]

PassportAccount ==
  [coalition : CoalitionAddr, customer : Customer, passport_mint : MintKey,
   total_visits : U64, streak_points : U64]

MerchantBalance ==
  [passport : PassportAddr \cup {NoAccount},
   merchant : MerchantAddr \cup {NoAccount},
   earned_units : U64, redeemed_units : U64, earned_this_epoch : U64,
   cap_epoch : Nat, last_receipt_nonce : U64, version : {0, STATE_VERSION}]

\* What init_if_needed allocates: zeroed bytes.  It only survives the
\* transaction when apply_receipt succeeds, so it also stands for "absent".
EmptyBalance ==
  [passport |-> NoAccount, merchant |-> NoAccount,
   earned_units |-> 0, redeemed_units |-> 0, earned_this_epoch |-> 0,
   cap_epoch |-> 0, last_receipt_nonce |-> 0, version |-> 0]

Mint == [supply : Nat, mint_authority : PassportAddr \cup {NoAccount}]

\* NoAccount is none of the things it is compared with.
ASSUME NoAccountAssumption ==
  /\ NoAccount \notin PassportAddr
  /\ NoAccount \notin MerchantAddr
  /\ NoAccount \notin CoalitionAccount
  /\ NoAccount \notin MerchantAccount
  /\ NoAccount \notin PassportAccount
  /\ NoAccount \notin Mint

TypeOK ==
  /\ coalition \in [CoalitionAddr -> CoalitionAccount \cup {NoAccount}]
  /\ merchant \in [MerchantAddr -> MerchantAccount \cup {NoAccount}]
  /\ passport \in [PassportAddr -> PassportAccount \cup {NoAccount}]
  /\ balance \in [BalanceAddr -> MerchantBalance]
  /\ mint \in [MintKey -> Mint \cup {NoAccount}]
  /\ token \in [Customer \X MintKey -> Nat]
  /\ unix_timestamp \in Timestamp

Init ==
  /\ coalition = [c \in CoalitionAddr |-> NoAccount]
  /\ merchant = [m \in MerchantAddr |-> NoAccount]
  /\ passport = [p \in PassportAddr |-> NoAccount]
  /\ balance = [b \in BalanceAddr |-> EmptyBalance]
  /\ mint = [k \in MintKey |-> NoAccount]
  /\ token = [h \in Customer \X MintKey |-> 0]
  /\ unix_timestamp \in Timestamp

-----------------------------------------------------------------------------
(* Configuration checks *)

StrictlyIncreasing(tiers) == \A i \in 1 .. Len(tiers) - 1 : tiers[i] < tiers[i + 1]

\* Fault: the loop over windows(2) is forgotten.
AnyOrder(tiers) == TRUE

\* The loop over tiers.windows(2) of validate_coalition_config.
TiersInOrder(tiers) == StrictlyIncreasing(tiers)

validate_coalition_config(max_receipt_units, tiers) ==
  /\ max_receipt_units > 0
  /\ Len(tiers) \in 1 .. MAX_TIERS
  /\ tiers[1] > 0
  /\ TiersInOrder(tiers)

validate_merchant_config(earn_bps, daily_cap) ==
  /\ earn_bps \in 1 .. BASIS_POINTS_DENOMINATOR
  /\ daily_cap > 0

-----------------------------------------------------------------------------
(* Receipt arithmetic: apply_receipt up to the first write *)

Smaller(x, y) == IF x <= y THEN x ELSE y

\* current_day_epoch: div_euclid by a positive divisor, which is \div.
current_day_epoch == unix_timestamp \div SECONDS_PER_DAY

raw_credit(m, amount_units) ==
  (amount_units * merchant[m].earn_bps) \div BASIS_POINTS_DENOMINATOR

\* Fault: the day's counter is never restarted.
NeverRestarted(b, epoch) == balance[b].earned_this_epoch

earned_this_epoch(b, epoch) ==
  IF balance[b].version # 0 /\ balance[b].cap_epoch = epoch
  THEN balance[b].earned_this_epoch
  ELSE 0

cap_remaining(m, b, epoch) == merchant[m].daily_cap - earned_this_epoch(b, epoch)

\* Fault: the cap is tested but the credit is not cut down to it.
Uncapped(m, b, amount_units, epoch) == raw_credit(m, amount_units)

credit_units(m, b, amount_units, epoch) ==
  Smaller(raw_credit(m, amount_units), cap_remaining(m, b, epoch))

\* Faults: one receipt may add any credit, or the full limit, to the streak.
UnlimitedDelta(c, credit) == credit
FullDelta(c, credit) == coalition[c].max_receipt_units

streak_delta(c, credit) == Smaller(credit, coalition[c].max_receipt_units)

\* Fault: unchecked addition.
Unchecked(c, m, p, b, amount_units, epoch) == TRUE

\* Every checked_mul, checked_sub and checked_add of apply_receipt succeeds.
ArithmeticFits(c, m, p, b, amount_units, epoch) ==
  LET credit == credit_units(m, b, amount_units, epoch) IN
  /\ amount_units * merchant[m].earn_bps \in U64
  /\ cap_remaining(m, b, epoch) \in U64
  /\ balance[b].earned_units + credit \in U64
  /\ earned_this_epoch(b, epoch) + credit \in U64
  /\ passport[p].total_visits + 1 \in U64
  /\ passport[p].streak_points + streak_delta(c, credit) \in U64

\* Fault: a receipt may be presented again.
AnyNonce(b, nonce, epoch) == TRUE
\* Fault: the day bucket may move backwards.
AnyDay(b, nonce, epoch) == nonce > balance[b].last_receipt_nonce

\* NonceNotMonotonic and ClockMovedBackwards.
ReceiptInOrder(b, nonce, epoch) ==
  /\ nonce > balance[b].last_receipt_nonce
  /\ balance[b].version # 0 => epoch >= balance[b].cap_epoch

\* The checks of apply_receipt on the balance account itself.
BalanceSound(p, m, b) ==
  /\ balance[b].version # 0 =>
       /\ balance[b].version = STATE_VERSION
       /\ balance[b].passport = p
       /\ balance[b].merchant = m
  /\ balance[b].earned_units >= balance[b].redeemed_units

apply_receipt_accepts(c, m, p, b, nonce, amount_units, epoch) ==
  /\ merchant[m].active
  /\ amount_units > 0
  /\ passport[p].coalition = merchant[m].coalition
  /\ BalanceSound(p, m, b)
  /\ ReceiptInOrder(b, nonce, epoch)
  /\ ArithmeticFits(c, m, p, b, amount_units, epoch)
  /\ raw_credit(m, amount_units) > 0
  /\ cap_remaining(m, b, epoch) > 0

\* The writes, all after the last check.
apply_receipt(c, m, p, b, nonce, amount_units, epoch) ==
  LET credit == credit_units(m, b, amount_units, epoch) IN
  /\ apply_receipt_accepts(c, m, p, b, nonce, amount_units, epoch)
  /\ balance' = [balance EXCEPT ![b] =
       [passport |-> p,
        merchant |-> m,
        earned_units |-> @.earned_units + credit,
        redeemed_units |-> @.redeemed_units,
        earned_this_epoch |-> earned_this_epoch(b, epoch) + credit,
        cap_epoch |-> epoch,
        last_receipt_nonce |-> nonce,
        version |-> STATE_VERSION]]
  /\ passport' = [passport EXCEPT
       ![p].total_visits = @ + 1,
       ![p].streak_points = @ + streak_delta(c, credit)]

-----------------------------------------------------------------------------
(* Redemption arithmetic: apply_redemption *)

available_units(b) == balance[b].earned_units - balance[b].redeemed_units

\* Fault: the request is compared with all that was ever earned.
WithinEarned(b, units) == units <= balance[b].earned_units

SufficientCredit(b, units) == units <= available_units(b)

apply_redemption_accepts(b, units) ==
  /\ units > 0
  /\ balance[b].version = STATE_VERSION
  /\ available_units(b) \in U64
  /\ SufficientCredit(b, units)
  /\ balance[b].redeemed_units + units \in U64

apply_redemption(b, units) ==
  /\ apply_redemption_accepts(b, units)
  /\ balance' = [balance EXCEPT ![b].redeemed_units = @ + units]

-----------------------------------------------------------------------------
(* Tiers *)

\* The length of the longest prefix of thresholds that are reached: take_while.
tier_level_for(c, streak_points) ==
  LET tiers == coalition[c].tier_thresholds IN
  Cardinality({i \in 1 .. Len(tiers) : \A j \in 1 .. i : streak_points >= tiers[j]})

-----------------------------------------------------------------------------
(* Account constraints *)

\* Fault: the pause constraint is also put on redemption.
UnpausedCoalition(c) ==
  /\ coalition[c] # NoAccount
  /\ ~coalition[c].paused

\* seeds = [b"coalition", coalition.authority] on an initialised account.
CoalitionConstraint(c) ==
  /\ coalition[c] # NoAccount
  /\ c = coalition[c].authority

\* seeds = [b"coalition", authority.key()] and has_one = authority.
GovernedBy(c, authority) ==
  /\ coalition[c] # NoAccount
  /\ c = authority
  /\ coalition[c].authority = authority

\* Fault: the constraint = !coalition.paused line is forgotten.
EvenIfPaused(c) == TRUE

NotPaused(c) == ~coalition[c].paused

\* RecordReceipt.merchant
MerchantConstraint(c, merchant_authority, m) ==
  /\ merchant[m] # NoAccount
  /\ m = <<c, merchant_authority>>
  /\ merchant[m].coalition = c
  /\ merchant[m].authority = merchant_authority
  /\ merchant[m].active

\* RecordReceipt.passport
PassportConstraint(c, p) ==
  /\ passport[p] # NoAccount
  /\ p = <<c, passport[p].customer>>
  /\ passport[p].coalition = c

\* Fault: the balance account is not tied to the passport and the merchant.
AnyBalance(p, m, b) == TRUE

\* RecordReceipt.balance, init_if_needed at its own seeds.
BalanceSeeds(p, m, b) == b = <<p, m>>

\* Fault: the seeds take the customer from the passport, as a receipt's do, and
\* nothing ties the passport to the signer.
AnyonesPassport(c, customer, p) == PassportConstraint(c, p)

\* Redeem.passport
OwnPassportConstraint(c, customer, p) ==
  /\ passport[p] # NoAccount
  /\ p = <<c, customer>>
  /\ passport[p].coalition = c
  /\ passport[p].customer = customer

\* Redeem.merchant: active is deliberately not asked for.
RedeemMerchantConstraint(c, m) ==
  /\ merchant[m] # NoAccount
  /\ m = <<c, merchant[m].authority>>
  /\ merchant[m].coalition = c

\* Redeem.balance
RedeemBalanceConstraint(p, m, b) ==
  /\ balance[b].version # 0
  /\ b = <<p, m>>
  /\ balance[b].passport = p
  /\ balance[b].merchant = m

\* Fault: a mint that exists already is taken for a fresh one.
AnyMint(k) == TRUE

\* create_account fails when the mint's address is in use.
FreshMint(k) == mint[k] = NoAccount

-----------------------------------------------------------------------------
(* Instructions *)

InitializeCoalition(authority, args) ==
  /\ validate_coalition_config(args.max_receipt_units, args.tier_thresholds)
  /\ coalition[authority] = NoAccount
  /\ coalition' = [coalition EXCEPT ![authority] =
       [authority |-> authority,
        max_receipt_units |-> args.max_receipt_units,
        tier_thresholds |-> args.tier_thresholds,
        paused |-> FALSE]]
  /\ UNCHANGED <<merchant, passport, balance, mint, token, unix_timestamp>>

RegisterMerchant(authority, c, merchant_authority, args) ==
  LET m == <<c, merchant_authority>> IN
  /\ GovernedBy(c, authority)
  /\ NotPaused(c)
  /\ validate_merchant_config(args.earn_bps, args.daily_cap)
  /\ merchant[m] = NoAccount
  /\ merchant' = [merchant EXCEPT ![m] =
       [coalition |-> c,
        authority |-> merchant_authority,
        earn_bps |-> args.earn_bps,
        daily_cap |-> args.daily_cap,
        active |-> TRUE]]
  /\ UNCHANGED <<coalition, passport, balance, mint, token, unix_timestamp>>

\* set_coalition_paused: neither transition is idempotent.
set_coalition_paused(c, paused) ==
  /\ coalition[c].paused # paused
  /\ coalition' = [coalition EXCEPT ![c].paused = paused]

PauseCoalition(authority, c) ==
  /\ GovernedBy(c, authority)
  /\ set_coalition_paused(c, TRUE)
  /\ UNCHANGED <<merchant, passport, balance, mint, token, unix_timestamp>>

UnpauseCoalition(authority, c) ==
  /\ GovernedBy(c, authority)
  /\ set_coalition_paused(c, FALSE)
  /\ UNCHANGED <<merchant, passport, balance, mint, token, unix_timestamp>>

\* The six CPIs commit or roll back with the passport account: the mint is
\* created, one token goes to the customer's ATA, the authority is removed.
CreatePassport(customer, c, k) ==
  LET p == <<c, customer>> IN
  /\ CoalitionConstraint(c)
  /\ NotPaused(c)
  /\ passport[p] = NoAccount
  /\ FreshMint(k)
  /\ mint' = [mint EXCEPT ![k] = [supply |-> 1, mint_authority |-> NoAccount]]
  /\ token' = [token EXCEPT ![<<customer, k>>] = @ + 1]
  /\ passport' = [passport EXCEPT ![p] =
       [coalition |-> c,
        customer |-> customer,
        passport_mint |-> k,
        total_visits |-> 0,
        streak_points |-> 0]]
  /\ UNCHANGED <<coalition, merchant, balance, unix_timestamp>>

RecordReceipt(merchant_authority, c, m, p, b, nonce, amount_units, receipt_hash) ==
  /\ CoalitionConstraint(c)
  /\ NotPaused(c)
  /\ MerchantConstraint(c, merchant_authority, m)
  /\ PassportConstraint(c, p)
  /\ BalanceSeeds(p, m, b)
  /\ receipt_hash # EmptyReceiptHash
  /\ current_day_epoch >= 0
  /\ apply_receipt(c, m, p, b, nonce, amount_units, current_day_epoch)
  /\ UNCHANGED <<coalition, merchant, mint, token, unix_timestamp>>

\* Neither paused nor active is asked for.
Redeem(customer, c, m, p, b, units) ==
  /\ CoalitionConstraint(c)
  /\ OwnPassportConstraint(c, customer, p)
  /\ RedeemMerchantConstraint(c, m)
  /\ RedeemBalanceConstraint(p, m, b)
  /\ apply_redemption(b, units)
  /\ UNCHANGED <<coalition, merchant, passport, mint, token, unix_timestamp>>

\* Token-2022 lets the holder of a non-transferable token burn it; the program
\* is not asked and never looks at the token again.
BurnCredential(h, k) ==
  /\ mint[k] # NoAccount
  /\ token[<<h, k>>] > 0
  /\ mint[k].supply > 0
  /\ token' = [token EXCEPT ![<<h, k>>] = @ - 1]
  /\ mint' = [mint EXCEPT ![k].supply = @ - 1]
  /\ UNCHANGED <<coalition, merchant, passport, balance, unix_timestamp>>

\* The validators' Clock sysvar between transactions; nothing in the program
\* may rely on it moving forwards.
SetClock(t) ==
  /\ t # unix_timestamp
  /\ unix_timestamp' = t
  /\ UNCHANGED <<coalition, merchant, passport, balance, mint, token>>

-----------------------------------------------------------------------------

Configure ==
  \/ \E a \in Authority, args \in CoalitionArgs : InitializeCoalition(a, args)
  \/ \E a \in Authority, c \in CoalitionAddr, ma \in MerchantKey, args \in MerchantArgs :
       RegisterMerchant(a, c, ma, args)
  \/ \E a \in Authority, c \in CoalitionAddr :
       PauseCoalition(a, c) \/ UnpauseCoalition(a, c)

CreateAnyPassport ==
  \E h \in Customer, c \in CoalitionAddr, k \in MintKey : CreatePassport(h, c, k)

RecordAnyReceipt ==
  \E c \in CoalitionAddr, ma \in MerchantKey, m \in MerchantAddr, p \in PassportAddr,
     b \in BalanceAddr, nonce \in U64, amount \in U64, hash \in ReceiptHash :
    RecordReceipt(ma, c, m, p, b, nonce, amount, hash)

RedeemAny ==
  \E h \in Customer, c \in CoalitionAddr, m \in MerchantAddr, p \in PassportAddr,
     b \in BalanceAddr, units \in U64 :
    Redeem(h, c, m, p, b, units)

\* What happens to the accounts without an instruction of the program.
Environment ==
  \/ \E h \in Customer, k \in MintKey : BurnCredential(h, k)
  \/ \E t \in Timestamp : SetClock(t)

Next ==
  \/ Configure
  \/ CreateAnyPassport
  \/ RecordAnyReceipt
  \/ RedeemAny
  \/ Environment

Spec == Init /\ [][Next]_vars

\* The customer of balance b submits some redemption from it.
RedeemFrom(b) ==
  \E h \in Customer, c \in CoalitionAddr, m \in MerchantAddr, p \in PassportAddr,
     units \in U64 :
    Redeem(h, c, m, p, b, units)

\* A validator includes a transaction that stays valid, and each customer
\* keeps submitting; merchants, authorities and the clock owe nothing.
KeepsRedeeming(b) == WF_vars(RedeemFrom(b))

FairSpec == Spec /\ \A b \in BalanceAddr : KeepsRedeeming(b)

-----------------------------------------------------------------------------
(* What must be true of every reachable state *)

\* Every account names the seeds of its own address and every account it
\* refers to exists; a balance joins a passport and a merchant of one
\* coalition, whichever accounts the client supplied (lib.rs 450-481, 611-637).
RelationshipsBound ==
  /\ \A c \in CoalitionAddr :
       coalition[c] # NoAccount => coalition[c].authority = c
  /\ \A m \in MerchantAddr : merchant[m] # NoAccount =>
       /\ m = <<merchant[m].coalition, merchant[m].authority>>
       /\ coalition[m[1]] # NoAccount
  /\ \A p \in PassportAddr : passport[p] # NoAccount =>
       /\ p = <<passport[p].coalition, passport[p].customer>>
       /\ coalition[p[1]] # NoAccount
  /\ \A b \in BalanceAddr : balance[b].version # 0 =>
       /\ b = <<balance[b].passport, balance[b].merchant>>
       /\ b[1][1] = b[2][1]
       /\ passport[b[1]] # NoAccount
       /\ merchant[b[2]] # NoAccount

\* A balance never owes a negative amount, and an absent one owes nothing:
\* the CorruptBalance errors of apply_receipt and apply_redemption are
\* unreachable and no redemption overdraws (lib.rs 654-657, 720-736).
Solvent ==
  \A b \in BalanceAddr :
    /\ available_units(b) \in U64
    /\ balance[b].version = 0 => balance[b] = EmptyBalance

\* The credit of the balance's current day is within the merchant's cap and
\* is part of what was earned in all, so the checked_sub of lib.rs 671-674
\* never reports a corrupt balance.
CapRespected ==
  \A b \in BalanceAddr : balance[b].version # 0 =>
    /\ balance[b].earned_this_epoch \in 1 .. merchant[b[2]].daily_cap
    /\ balance[b].earned_this_epoch <= balance[b].earned_units

\* Every visit moved the streak, and no visit by more than the coalition's
\* receipt limit, whatever mix of merchants recorded them (lib.rs 677, 686-693).
StreakTracksVisits ==
  \A p \in PassportAddr : passport[p] # NoAccount =>
    /\ passport[p].total_visits <= passport[p].streak_points
    /\ passport[p].streak_points <=
         passport[p].total_visits * coalition[p[1]].max_receipt_units

\* The balance accounts of a passport, and what was earned in each.
MerchantsOf(p) == {m \in MerchantAddr : balance[<<p, m>>].version # 0}
earnedBy(p) == [m \in MerchantAddr |-> balance[<<p, m>>].earned_units]

\* Reputation is backed by credit: the streak is never more than what all
\* merchants together credited, spent or not (lib.rs 676-693).
StreakBackedByCredit ==
  \A p \in PassportAddr : passport[p] # NoAccount =>
    passport[p].streak_points <= SumOver(earnedBy(p), MerchantsOf(p))

\* Each passport has a mint of its own of which no authority can mint more: its
\* one token is its customer's until the customer burns it, and then it is gone
\* for good (lib.rs 128-130, 189-218).
CredentialUnique ==
  /\ \A p, q \in PassportAddr :
       (passport[p] # NoAccount /\ passport[q] # NoAccount /\ p # q) =>
         passport[p].passport_mint # passport[q].passport_mint
  /\ \A p \in PassportAddr : passport[p] # NoAccount =>
       LET k == passport[p].passport_mint IN
       /\ mint[k] \in [supply : {0, 1}, mint_authority : {NoAccount}]
       /\ \A h \in Customer :
            token[<<h, k>>] = IF h = passport[p].customer THEN mint[k].supply ELSE 0

\* The prefix that tier_level_for counts leaves no reached threshold out: the
\* level is the number of all thresholds the streak reaches, which needs the
\* order that validate_coalition_config enforces (lib.rs 578-580, 742-749).
TierLevelExact ==
  \A c \in CoalitionAddr : coalition[c] # NoAccount =>
    \A points \in U64 :
      tier_level_for(c, points) =
        Cardinality({i \in DOMAIN coalition[c].tier_thresholds :
                       points >= coalition[c].tier_thresholds[i]})

\* A cap is a daily cap: as soon as the day of a balance is over (or it has
\* none yet), the merchant can record a receipt again, unless the coalition is
\* paused or a counter is within one receipt of its limit (lib.rs 666-675).
NewDayReopensAccrual ==
  \A c \in CoalitionAddr, ma \in MerchantKey, h \in Customer :
    LET m == <<c, ma>>
        p == <<c, h>>
        b == <<p, m>>
    IN (/\ coalition[c] # NoAccount /\ NotPaused(c)
        /\ merchant[m] # NoAccount
        /\ passport[p] # NoAccount
        /\ current_day_epoch >= 0
        /\ balance[b].version # 0 => current_day_epoch > balance[b].cap_epoch
        /\ balance[b].last_receipt_nonce < MaxU64
        /\ balance[b].earned_units + merchant[m].daily_cap <= MaxU64
        /\ passport[p].total_visits < MaxU64
        /\ passport[p].streak_points + merchant[m].daily_cap <= MaxU64)
       => \E nonce, amount \in U64 :
            apply_receipt_accepts(c, m, p, b, nonce, amount, current_day_epoch)

(* What makes these inductive *)

\* The configurations in the accounts are those the checks accept, and no
\* instruction ever deactivates a merchant.
ConfigSound ==
  /\ \A c \in CoalitionAddr : coalition[c] # NoAccount =>
       coalition[c].max_receipt_units > 0
  /\ \A m \in MerchantAddr : merchant[m] # NoAccount =>
       /\ merchant[m].earn_bps \in 1 .. BASIS_POINTS_DENOMINATOR
       /\ merchant[m].daily_cap > 0
       /\ merchant[m].active

\* The parameters in the accounts are those of an accepted call: nothing
\* rewrites a configuration.
ConfigAccepted ==
  /\ \A c \in CoalitionAddr : coalition[c] # NoAccount =>
       \E args \in CoalitionArgs :
         /\ validate_coalition_config(args.max_receipt_units, args.tier_thresholds)
         /\ coalition[c].max_receipt_units = args.max_receipt_units
         /\ coalition[c].tier_thresholds = args.tier_thresholds
  /\ \A m \in MerchantAddr : merchant[m] # NoAccount =>
       \E args \in MerchantArgs :
         /\ validate_merchant_config(args.earn_bps, args.daily_cap)
         /\ merchant[m].earn_bps = args.earn_bps
         /\ merchant[m].daily_cap = args.daily_cap

\* A passport has as many balances as transactions made for it.
BalancesFinite == \A p \in PassportAddr : IsFiniteSet(MerchantsOf(p))

\* Nobody holds a token of a mint that does not exist.
NoTokenWithoutMint ==
  \A k \in MintKey, h \in Customer : mint[k] = NoAccount => token[<<h, k>>] = 0

IInv ==
  /\ TypeOK
  /\ ConfigSound
  /\ RelationshipsBound
  /\ Solvent
  /\ CapRespected
  /\ StreakTracksVisits
  /\ CredentialUnique
  /\ NoTokenWithoutMint

CreditIInv == IInv /\ BalancesFinite /\ StreakBackedByCredit

(* What no step may do *)

\* While a coalition stays paused nothing in it grows: no merchant, no
\* passport, no visit, no credit; spending is all that happens
\* (lib.rs 379, 417, 455).
PauseFreezesAccrual ==
  [][\A c \in CoalitionAddr :
       (/\ coalition[c] # NoAccount /\ coalition[c].paused
        /\ coalition'[c].paused) =>
         /\ \A m \in MerchantAddr : m[1] = c => merchant'[m] = merchant[m]
         /\ \A p \in PassportAddr : p[1] = c => passport'[p] = passport[p]
         /\ \A b \in BalanceAddr : c \in {b[1][1], b[2][1]} =>
              balance'[b].earned_units = balance[b].earned_units]_vars

(* What must happen *)

\* Credit is never trapped: a customer who keeps asking gets more of it out,
\* in a paused coalition too and whatever the clock shows (lib.rs 282-284).
CreditNotTrapped ==
  \A b \in BalanceAddr, r \in U64 :
    (available_units(b) > 0 /\ balance[b].redeemed_units = r)
      ~> balance[b].redeemed_units > r

=============================================================================
