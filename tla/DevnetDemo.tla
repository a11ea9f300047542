------------------------------- MODULE DevnetDemo -------------------------------
(***************************************************************************)
(* scripts/devnet-demo.sh --execute: one command after the other, each     *)
(* with its output in a file of evidence/runtime, and complete.json at the *)
(* end.  set -euo pipefail ends the run at the first command that fails;   *)
(* the operator may start the script again.  What an ended run submitted   *)
(* can still be included.  All runs use the same three wallets, and no     *)
(* one else uses them.                                                     *)
(***************************************************************************)
EXTENDS CoalitionProgram

CONSTANTS
  DEPLOYER, MERCHANT, CUSTOMER,   \* the three keypair files
  commitment,                     \* the --receipt-commitment of the script
  NoFile, EmptyFile,
  MaxRuns                         \* bound on how often the script is started

VARIABLES
  run,         \* number of the last run
  pc,          \* position in Flow, 0: no run in progress
  evidence,    \* evidence[name]: contents of evidence/runtime/<name>.json
  complete,    \* contents of complete.json
  in_flight,   \* submitted transactions, as <<name, run>>
  landed,      \* included ones
  archived     \* how many completed runs the operator moved away

demoVars == <<coalition, merchant, passport, balance, mint, token, unix_timestamp,
              run, pc, evidence, complete, in_flight, landed, archived>>

-----------------------------------------------------------------------------
(* The script *)

\* Faults: the last status is taken too early; the receipt comes before its passport.
StatusTooEarly ==
  <<"deploy", "fund-merchant", "fund-customer", "initialize-coalition",
    "register-merchant", "create-passport", "record-receipt", "before-redeem",
    "final-status", "redeem">>
ReceiptTooEarly ==
  <<"deploy", "fund-merchant", "fund-customer", "initialize-coalition",
    "register-merchant", "record-receipt", "create-passport", "before-redeem",
    "redeem", "final-status">>

Flow ==
  <<"deploy", "fund-merchant", "fund-customer", "initialize-coalition",
    "register-merchant", "create-passport", "record-receipt", "before-redeem",
    "redeem", "final-status">>

Name == {Flow[i] : i \in DOMAIN Flow}
StatusName == {"before-redeem", "final-status"}

DemoArgs == [max_receipt_units |-> 500, tier_thresholds |-> <<10, 30, 70>>]
ShopArgs == [earn_bps |-> 1000, daily_cap |-> 500]
demoMerchant == <<DEPLOYER, MERCHANT>>
demoPassport == <<DEPLOYER, CUSTOMER>>
demoBalance == <<demoPassport, demoMerchant>>

\* What the chain does with the transaction of a command; deploying again is an
\* upgrade, and both are not part of the program's state.
Included(name) ==
  \/ name \in {"deploy", "fund-merchant", "fund-customer"} /\ UNCHANGED vars
  \/ name = "initialize-coalition" /\ InitializeCoalition(DEPLOYER, DemoArgs)
  \/ name = "register-merchant" /\ RegisterMerchant(DEPLOYER, DEPLOYER, MERCHANT, ShopArgs)
  \/ name = "create-passport" /\ \E k \in MintKey : CreatePassport(CUSTOMER, DEPLOYER, k)
  \/ /\ name = "record-receipt"
     /\ RecordReceipt(MERCHANT, DEPLOYER, demoMerchant, demoPassport, demoBalance,
                      1, 120, commitment)
  \/ /\ name = "redeem"
     /\ Redeem(CUSTOMER, DEPLOYER, demoMerchant, demoPassport, demoBalance, 10)

\* The constraints and checks of that transaction: what it asks of the accounts
\* before it writes.
Accepts(name) ==
  \/ name \in {"deploy", "fund-merchant", "fund-customer"}
  \/ /\ name = "initialize-coalition"
     /\ coalition[DEPLOYER] = NoAccount
     /\ validate_coalition_config(DemoArgs.max_receipt_units, DemoArgs.tier_thresholds)
  \/ /\ name = "register-merchant"
     /\ GovernedBy(DEPLOYER, DEPLOYER) /\ NotPaused(DEPLOYER)
     /\ merchant[demoMerchant] = NoAccount
     /\ validate_merchant_config(ShopArgs.earn_bps, ShopArgs.daily_cap)
  \/ /\ name = "create-passport"
     /\ CoalitionConstraint(DEPLOYER) /\ NotPaused(DEPLOYER)
     /\ passport[demoPassport] = NoAccount
     /\ \E k \in MintKey : FreshMint(k)
  \/ /\ name = "record-receipt"
     /\ CoalitionConstraint(DEPLOYER) /\ NotPaused(DEPLOYER)
     /\ MerchantConstraint(DEPLOYER, MERCHANT, demoMerchant)
     /\ PassportConstraint(DEPLOYER, demoPassport)
     /\ BalanceSeeds(demoPassport, demoMerchant, demoBalance)
     /\ commitment # EmptyReceiptHash
     /\ current_day_epoch >= 0
     /\ apply_receipt_accepts(DEPLOYER, demoMerchant, demoPassport, demoBalance,
                              1, 120, current_day_epoch)
  \/ /\ name = "redeem"
     /\ CoalitionConstraint(DEPLOYER)
     /\ OwnPassportConstraint(DEPLOYER, CUSTOMER, demoPassport)
     /\ RedeemMerchantConstraint(DEPLOYER, demoMerchant)
     /\ RedeemBalanceConstraint(demoPassport, demoMerchant, demoBalance)
     /\ apply_redemption_accepts(demoBalance, 10)

\* The keypairs of the script are wallets and its arguments are arguments, the
\* commitment is not the empty one; create-passport generates a key pair for the
\* mint; the cluster's clock is past 1970; the rates are per ten thousand and
\* the script's only product is a u64.
ASSUME DemoAssumption ==
  /\ DEPLOYER \in Authority /\ MERCHANT \in MerchantKey /\ CUSTOMER \in Customer
  /\ MintKey # {}
  /\ commitment \in ReceiptHash \ {EmptyReceiptHash}
  /\ DemoArgs \in CoalitionArgs /\ ShopArgs \in MerchantArgs
  /\ Timestamp \subseteq Nat
  /\ 120 * 1000 \in U64
  /\ BASIS_POINTS_DENOMINATOR = 10000
  /\ MaxRuns \in Nat

status ==
  [visits |-> passport[demoPassport].total_visits,
   streak |-> passport[demoPassport].streak_points,
   tier |-> tier_level_for(DEPLOYER, passport[demoPassport].streak_points),
   earned |-> balance[demoBalance].earned_units,
   redeemed |-> balance[demoBalance].redeemed_units]

-----------------------------------------------------------------------------
(* A run *)

DemoInit ==
  /\ Init
  /\ run = 0
  /\ pc = 0
  /\ evidence = [name \in Name |-> NoFile]
  /\ complete = NoFile
  /\ in_flight = {}
  /\ landed = {}
  /\ archived = 0

At(name) == pc \in DOMAIN Flow /\ Flow[pc] = name

\* The next pipeline starts: tee empties its file before anything is known.
Advance(files) ==
  /\ pc' = pc + 1
  /\ evidence' =
       [name \in Name |-> IF pc + 1 \in DOMAIN Flow /\ Flow[pc + 1] = name
                          THEN EmptyFile ELSE files[name]]

\* Refused when complete.json is there.
Start ==
  /\ pc = 0
  /\ run < MaxRuns
  /\ complete = NoFile
  /\ run' = run + 1
  /\ Advance(evidence)
  /\ UNCHANGED <<vars, complete, in_flight, landed, archived>>

\* The command signs and submits.
Submit(name) ==
  /\ At(name)
  /\ name \notin StatusName
  /\ <<name, run>> \notin in_flight \cup landed
  /\ in_flight' = in_flight \cup {<<name, run>>}
  /\ UNCHANGED <<vars, run, pc, evidence, complete, landed, archived>>

\* A transaction of this or of an ended run is included and succeeds.
Land(name, r) ==
  /\ <<name, r>> \in in_flight
  /\ Included(name)
  /\ in_flight' = in_flight \ {<<name, r>>}
  /\ landed' = landed \cup {<<name, r>>}
  /\ UNCHANGED <<run, pc, evidence, complete, archived>>

\* The command prints the signature of its confirmed transaction.
Confirm(name) ==
  /\ At(name)
  /\ <<name, run>> \in landed
  /\ Advance([evidence EXCEPT ![name] = <<name, run>>])
  /\ UNCHANGED <<vars, run, complete, in_flight, landed, archived>>

\* status prints the accounts when they are all there.
PrintStatus(name) ==
  /\ At(name)
  /\ name \in StatusName
  /\ coalition[DEPLOYER] # NoAccount
  /\ passport[demoPassport] # NoAccount
  /\ balance[demoBalance].version # 0
  /\ Advance([evidence EXCEPT ![name] = status])
  /\ UNCHANGED <<vars, run, complete, in_flight, landed, archived>>

\* The node script at the end has parsed every file it needs and opens
\* complete.json, which leaves it empty, and then
OpenComplete ==
  /\ pc = Len(Flow) + 1
  /\ \A name \in Name \ {"before-redeem"} : evidence[name] \notin {NoFile, EmptyFile}
  /\ complete' = EmptyFile
  /\ pc' = pc + 1
  /\ UNCHANGED <<vars, run, evidence, in_flight, landed, archived>>

\* writes what it read.
WriteComplete ==
  /\ pc = Len(Flow) + 2
  /\ complete' =
       [transactions |-> [name \in Name \ StatusName |-> evidence[name]],
        finalStatus |-> evidence["final-status"]]
  /\ pc' = 0
  /\ UNCHANGED <<vars, run, evidence, in_flight, landed, archived>>

\* A command fails, for whatever reason and whatever it submitted, or the
\* machine does.
Exit ==
  /\ pc # 0
  /\ pc' = 0
  /\ UNCHANGED <<vars, run, evidence, complete, in_flight, landed, archived>>

\* "archive evidence/runtime first"; only a run that wrote its complete.json was
\* a completed one.
Archive ==
  /\ pc = 0
  /\ complete # NoFile
  /\ evidence' = [name \in Name |-> NoFile]
  /\ complete' = NoFile
  /\ archived' = IF complete = EmptyFile THEN archived ELSE archived + 1
  /\ UNCHANGED <<vars, run, pc, in_flight, landed>>

\* The night between two commands, or between two runs.
Tick ==
  /\ \E t \in Timestamp : SetClock(t)
  /\ UNCHANGED <<run, pc, evidence, complete, in_flight, landed, archived>>

DemoNext ==
  \/ Start
  \/ \E name \in Name :
       \/ Submit(name)
       \/ \E r \in 1 .. MaxRuns : Land(name, r)
       \/ Confirm(name)
       \/ PrintStatus(name)
  \/ OpenComplete
  \/ WriteComplete
  \/ Exit
  \/ Archive
  \/ Tick

DemoSpec == DemoInit /\ [][DemoNext]_demoVars

-----------------------------------------------------------------------------

\* One receipt, of which ten units are redeemed.
WholeDemo == [visits |-> 1, streak |-> 12, tier |-> 1, earned |-> 12, redeemed |-> 10]

\* complete.json never mixes runs: its signatures are included transactions of
\* the last run, all of them, and its final status is one receipt and one
\* redemption of it, whatever earlier runs left behind (devnet-demo.sh 96-175).
CompleteIsTrue ==
  complete \notin {NoFile, EmptyFile} =>
    /\ \A name \in Name \ StatusName :
         /\ complete.transactions[name] = <<name, run>>
         /\ <<name, run>> \in landed
    /\ complete.finalStatus = WholeDemo

\* The transaction a run has to submit, or to wait for, can be included.
CanLand ==
  \A name \in Name \ StatusName :
    (At(name) /\ <<name, run>> \notin landed) => Accepts(name)

\* A run that created the coalition itself finds every later instruction
\* accepted: the order of the commands is right, and nothing that earlier runs
\* left in flight can get in the way (devnet-demo.sh 121-142).
FlowNeverRefused ==
  <<"initialize-coalition", run>> \in landed => CanLand

\* "refusing to rerun a completed demo; archive evidence/runtime first"
\* (devnet-demo.sh 97): after that the demo can be run again.  A run before
\* which every run was completed and archived is not refused.
ArchivedDemoRunsAgain ==
  archived = run - 1 => CanLand

(* What makes CompleteIsTrue inductive *)

\* The accounts are the script's: at most one receipt and one redemption of any
\* number of runs were accepted.
OneOfEach ==
  /\ coalition[DEPLOYER] # NoAccount =>
       /\ coalition[DEPLOYER].max_receipt_units = 500
       /\ coalition[DEPLOYER].tier_thresholds = <<10, 30, 70>>
  /\ merchant[demoMerchant] # NoAccount =>
       merchant[demoMerchant].earn_bps = 1000 /\ merchant[demoMerchant].daily_cap = 500
  /\ (balance[demoBalance].version = 0 /\ passport[demoPassport] # NoAccount) =>
       passport[demoPassport].total_visits = 0 /\ passport[demoPassport].streak_points = 0
  /\ balance[demoBalance].version # 0 =>
       /\ passport[demoPassport].total_visits = 1
       /\ passport[demoPassport].streak_points = 12
       /\ balance[demoBalance].earned_units = 12
       /\ balance[demoBalance].redeemed_units \in {0, 10}
       /\ balance[demoBalance].last_receipt_nonce = 1

\* A redemption that landed, in whichever run, is in the account.
RedemptionShows ==
  \A r \in 1 .. MaxRuns : <<"redeem", r>> \in landed =>
    balance[demoBalance].version # 0 /\ balance[demoBalance].redeemed_units = 10

\* What the commands before the current one left is of this run.
FilesOfThisRun ==
  /\ DOMAIN evidence = Name
  /\ run \in 0 .. MaxRuns
  /\ pc \in 0 .. Len(Flow) + 2
  /\ pc # 0 => run # 0
  /\ pc \in 1 .. Len(Flow) + 1 => complete = NoFile
  /\ pc = Len(Flow) + 2 => complete = EmptyFile
  /\ \A i \in DOMAIN Flow : i < pc =>
       /\ Flow[i] \notin StatusName =>
            evidence[Flow[i]] = <<Flow[i], run>> /\ <<Flow[i], run>> \in landed
       /\ Flow[i] = "final-status" => evidence[Flow[i]] = WholeDemo

\* A status command signs nothing.
NoStatusLands == \A name \in StatusName, r \in 1 .. MaxRuns : <<name, r>> \notin landed

DemoIInv ==
  /\ IInv
  /\ OneOfEach
  /\ RedemptionShows
  /\ FilesOfThisRun
  /\ NoStatusLands
  /\ CompleteIsTrue

(* What makes FlowNeverRefused inductive *)

Landed(name) == \E r \in 1 .. MaxRuns : <<name, r>> \in landed

\* What the accounts hold tells which commands had a transaction included, in
\* whichever run, and nothing else did anything to them.
AccountsFollow ==
  /\ coalition[DEPLOYER] # NoAccount <=> Landed("initialize-coalition")
  /\ coalition[DEPLOYER] # NoAccount => NotPaused(DEPLOYER)
  /\ merchant[demoMerchant] # NoAccount <=> Landed("register-merchant")
  /\ passport[demoPassport] # NoAccount <=> Landed("create-passport")
  /\ passport[demoPassport] = NoAccount => \A k \in MintKey : FreshMint(k)
  /\ balance[demoBalance].version # 0 <=> Landed("record-receipt")
  /\ balance[demoBalance].redeemed_units # 0 <=> Landed("redeem")

\* The coalition is of one run.
CoalitionOfOneRun ==
  \A r, s \in 1 .. MaxRuns :
    (<<"initialize-coalition", r>> \in landed /\ <<"initialize-coalition", s>> \in landed)
      => r = s

\* A run submits nothing before its earlier transactions were included.
SubmittedInOrder ==
  \A r \in 1 .. MaxRuns : \A i, j \in DOMAIN Flow :
    (i < j /\ Flow[i] \notin StatusName /\ <<Flow[j], r>> \in in_flight \cup landed)
      => <<Flow[i], r>> \in landed

FlowIInv ==
  /\ DemoIInv
  /\ AccountsFollow
  /\ CoalitionOfOneRun
  /\ SubmittedInOrder

===============================================================================
