------------------------------- MODULE CliSession -------------------------------
(***************************************************************************)
(* The program as the operators of clients/passport-cli use it.  A send    *)
(* command is one process: it builds one instruction, signs, submits, and  *)
(* prints the signature once the transaction is confirmed.  It exits with  *)
(* an error when the confirmation does not come, whatever became of the    *)
(* transaction; the operator, who was told nothing, runs the command again *)
(* and gets a new blockhash, so an earlier attempt may still land.  A      *)
(* transaction that expires is one that stays in flight.                   *)
(*                                                                         *)
(* status is a reader: it fetches coalition and passport in either order,  *)
(* then the balance, while transactions land in between.  The clock moves  *)
(* and customers burn their credentials meanwhile.                         *)
(***************************************************************************)
EXTENDS CoalitionProgram

CONSTANTS
  Command,                  \* the send commands that operators mean to run
  MaxAttempts,              \* [Command -> Nat]: bound on how often each is run
  Status,                   \* the flags of the status command
  NotFetched                \* not an account

\* The parsers and the IDL admit nothing but keys, u64 values and 32 bytes.
ASSUME CommandAssumption ==
  /\ MaxAttempts \in [Command -> Nat]
  /\ \A cmd \in Command :
       \/ /\ cmd.kind = "initialize-coalition"
          /\ cmd.signer \in Authority /\ cmd.args \in CoalitionArgs
       \/ /\ cmd.kind \in {"pause-coalition", "unpause-coalition"}
          /\ cmd.signer \in Authority
       \/ /\ cmd.kind = "register-merchant"
          /\ cmd.signer \in Authority /\ cmd.merchant \in MerchantKey
          /\ cmd.args \in MerchantArgs
       \/ /\ cmd.kind = "create-passport"
          /\ cmd.signer \in Customer /\ cmd.authority \in Authority
       \/ /\ cmd.kind = "record-receipt"
          /\ cmd.signer \in MerchantKey /\ cmd.authority \in Authority
          /\ cmd.customer \in Customer /\ cmd.nonce \in U64 /\ cmd.amount \in U64
          /\ cmd.receipt_hash \in ReceiptHash
       \/ /\ cmd.kind = "redeem"
          /\ cmd.signer \in Customer /\ cmd.authority \in Authority
          /\ cmd.merchant \in MerchantKey /\ cmd.units \in U64

ASSUME StatusAssumption ==
  /\ Status.authority \in Authority
  /\ Status.customer \in Customer
  /\ Status.merchant \in MerchantKey
  /\ NotFetched \notin CoalitionAccount
  /\ NotFetched \notin PassportAccount
  /\ NotFetched \notin MerchantBalance

VARIABLES
  sent,      \* sent[cmd]: how many attempts were submitted
  landed,    \* landed[cmd]: attempts included in the chain
  told,      \* told[cmd]: the operator saw {"mode": "sent", ...}
  fetched    \* what the running status command has in hand

session == <<sent, landed, told>>

cliVars == <<coalition, merchant, passport, balance, mint, token, unix_timestamp,
             sent, landed, told, fetched>>

NothingFetched == [coalition |-> NotFetched, passport |-> NotFetched, balance |-> NotFetched]

CliInit ==
  /\ Init
  /\ sent = [cmd \in Command |-> 0]
  /\ landed = [cmd \in Command |-> {}]
  /\ told = [cmd \in Command |-> FALSE]
  /\ fetched = NothingFetched

-----------------------------------------------------------------------------
(* Building an instruction *)

deriveCoalition(authority) == authority
deriveMerchant(c, merchantAuthority) == <<c, merchantAuthority>>
derivePassport(c, customer) == <<c, customer>>
deriveBalance(p, m) == <<p, m>>

\* parseTierThresholds repeats the program's check, and parseReceiptCommitment
\* the one on the commitment, before anything is signed.
parseTierThresholds(tiers) ==
  /\ Len(tiers) \in 1 .. MAX_TIERS
  /\ tiers[1] # 0
  /\ StrictlyIncreasing(tiers)

Parses(cmd) ==
  /\ cmd.kind = "initialize-coalition" => parseTierThresholds(cmd.args.tier_thresholds)
  /\ cmd.kind = "record-receipt" => cmd.receipt_hash # EmptyReceiptHash

\* What the chain does with the instruction that cmd builds.
Instruction(cmd) ==
  \/ /\ cmd.kind = "initialize-coalition"
     /\ InitializeCoalition(cmd.signer, cmd.args)
  \/ /\ cmd.kind = "pause-coalition"
     /\ PauseCoalition(cmd.signer, deriveCoalition(cmd.signer))
  \/ /\ cmd.kind = "unpause-coalition"
     /\ UnpauseCoalition(cmd.signer, deriveCoalition(cmd.signer))
  \/ /\ cmd.kind = "register-merchant"
     /\ RegisterMerchant(cmd.signer, deriveCoalition(cmd.signer), cmd.merchant, cmd.args)
  \/ /\ cmd.kind = "create-passport" \* with a mint generated for this attempt
     /\ \E k \in MintKey : CreatePassport(cmd.signer, deriveCoalition(cmd.authority), k)
  \/ /\ cmd.kind = "record-receipt"
     /\ LET c == deriveCoalition(cmd.authority)
            m == deriveMerchant(c, cmd.signer)
            p == derivePassport(c, cmd.customer)
        IN RecordReceipt(cmd.signer, c, m, p, deriveBalance(p, m),
                         cmd.nonce, cmd.amount, cmd.receipt_hash)
  \/ /\ cmd.kind = "redeem"
     /\ LET c == deriveCoalition(cmd.authority)
            m == deriveMerchant(c, cmd.merchant)
            p == derivePassport(c, cmd.signer)
        IN Redeem(cmd.signer, c, m, p, deriveBalance(p, m), cmd.units)

-----------------------------------------------------------------------------
(* send *)

\* The command is run, for the first time or again after an error.
Send(cmd) ==
  /\ Parses(cmd)
  /\ ~told[cmd]
  /\ sent[cmd] < MaxAttempts[cmd]
  /\ sent' = [sent EXCEPT ![cmd] = @ + 1]
  /\ UNCHANGED <<vars, landed, told, fetched>>

\* Attempt n, submitted at any time before, is included and succeeds; the same
\* signature is included once.
Land(cmd, n) ==
  /\ n \in 1 .. sent[cmd]
  /\ n \notin landed[cmd]
  /\ Instruction(cmd)
  /\ landed' = [landed EXCEPT ![cmd] = @ \cup {n}]
  /\ UNCHANGED <<sent, told, fetched>>

\* sendAndConfirmTransaction returns: the running attempt is confirmed.
Confirm(cmd) ==
  /\ ~told[cmd]
  /\ sent[cmd] \in landed[cmd]
  /\ told' = [told EXCEPT ![cmd] = TRUE]
  /\ UNCHANGED <<vars, sent, landed, fetched>>

-----------------------------------------------------------------------------
(* status *)

statusPassport == derivePassport(deriveCoalition(Status.authority), Status.customer)
statusMerchant == deriveMerchant(deriveCoalition(Status.authority), Status.merchant)
statusBalance == deriveBalance(statusPassport, statusMerchant)

FetchCoalition ==
  LET account == coalition[deriveCoalition(Status.authority)] IN
  /\ fetched.coalition = NotFetched
  /\ account # NoAccount
  /\ fetched' = [fetched EXCEPT !.coalition = account]
  /\ UNCHANGED <<vars, session>>

FetchPassport ==
  /\ fetched.passport = NotFetched
  /\ passport[statusPassport] # NoAccount
  /\ fetched' = [fetched EXCEPT !.passport = passport[statusPassport]]
  /\ UNCHANGED <<vars, session>>

\* Fault: the balance is fetched along with the others.
AtOnce == TRUE

\* The Promise.all that comes before the balance.
PassportInHand ==
  /\ fetched.coalition # NotFetched
  /\ fetched.passport # NotFetched

FetchBalance ==
  /\ PassportInHand
  /\ fetched.balance = NotFetched
  /\ balance[statusBalance].version # 0
  /\ fetched' = [fetched EXCEPT !.balance = balance[statusBalance]]
  /\ UNCHANGED <<vars, session>>

\* The command printed its result or failed; it is run again.
StatusAgain ==
  /\ fetched # NothingFetched
  /\ fetched' = NothingFetched
  /\ UNCHANGED <<vars, session>>

\* Fault: the loop leaves at a threshold that is just reached.
AboveOnly(points, thresholds) ==
  Cardinality({i \in 1 .. Len(thresholds) : \A j \in 1 .. i : points > thresholds[j]})

\* The loop leaves at the first threshold that is not reached.
tierLevelFor(points, thresholds) ==
  Cardinality({i \in 1 .. Len(thresholds) : \A j \in 1 .. i : ~(points < thresholds[j])})

-----------------------------------------------------------------------------

CliNext ==
  \/ \E cmd \in Command :
       \/ Send(cmd)
       \/ \E n \in 1 .. MaxAttempts[cmd] : Land(cmd, n)
       \/ Confirm(cmd)
  \/ FetchCoalition
  \/ FetchPassport
  \/ FetchBalance
  \/ StatusAgain
  \/ Environment /\ UNCHANGED <<session, fetched>>

CliSpec == CliInit /\ [][CliNext]_cliVars

-----------------------------------------------------------------------------

OnceKinds ==
  {"initialize-coalition", "register-merchant", "create-passport", "record-receipt"}

\* A command repeated after a lost confirmation takes effect once, though
\* several attempts of it are in flight and land in any order; redeem and the
\* pause commands have no such guard (core.ts 186-209, cli.ts 213-275,
\* program lib.rs 361, 385, 421, 650).
LandsOnce ==
  \A cmd \in Command : cmd.kind \in OnceKinds => Cardinality(landed[cmd]) <= 1

\* The coalition has no merchant but the one that status asks for.
OnlyMerchant ==
  \A m \in MerchantAddr :
    (merchant[m] # NoAccount /\ m[1] = deriveCoalition(Status.authority))
      => m = statusMerchant

\* Status shows accounts of different moments and still no reputation without
\* the credit behind it: in a coalition of one merchant the streak shown is at
\* most the credit shown as earned (cli.ts 116-157).
StatusBacked ==
  (/\ fetched.passport # NotFetched
   /\ fetched.balance # NotFetched
   /\ OnlyMerchant)
  => fetched.passport.streak_points <= fetched.balance.earned_units

\* The tier shown is the one the program gives the same streak, however old the
\* thresholds in hand are (cli.ts 120-129, core.ts 149-156).
StatusTier ==
  (fetched.coalition # NotFetched /\ fetched.passport # NotFetched)
  => tierLevelFor(fetched.passport.streak_points, fetched.coalition.tier_thresholds)
       = tier_level_for(deriveCoalition(Status.authority), fetched.passport.streak_points)

(* What makes these inductive *)

\* What the chain shows for good once a command took effect.
Took(cmd) ==
  \/ cmd.kind = "initialize-coalition" /\ coalition[cmd.signer] # NoAccount
  \/ cmd.kind = "register-merchant" /\ merchant[<<cmd.signer, cmd.merchant>>] # NoAccount
  \/ cmd.kind = "create-passport" /\ passport[<<cmd.authority, cmd.signer>>] # NoAccount
  \/ /\ cmd.kind = "record-receipt"
     /\ LET b == <<<<cmd.authority, cmd.customer>>, <<cmd.authority, cmd.signer>>>>
        IN balance[b].last_receipt_nonce >= cmd.nonce

LandedTook ==
  \A cmd \in Command :
    (cmd.kind \in OnceKinds /\ landed[cmd] # {}) => Took(cmd)

\* What was fetched is still there and can only have grown.
FetchedStands ==
  /\ fetched \in [coalition : CoalitionAccount \cup {NotFetched},
                  passport : PassportAccount \cup {NotFetched},
                  balance : MerchantBalance \cup {NotFetched}]
  /\ fetched.coalition # NotFetched =>
       /\ coalition[Status.authority] # NoAccount
       /\ coalition[Status.authority].tier_thresholds = fetched.coalition.tier_thresholds
  /\ fetched.passport # NotFetched =>
       /\ passport[statusPassport] # NoAccount
       /\ fetched.passport.streak_points <= passport[statusPassport].streak_points
  /\ fetched.balance # NotFetched => fetched.passport # NotFetched

SessionIInv ==
  /\ CreditIInv
  /\ landed \in [Command -> SUBSET Nat]
  /\ LandsOnce
  /\ LandedTook
  /\ FetchedStands
  /\ StatusBacked

===============================================================================
