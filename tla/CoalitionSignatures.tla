-------------------------- MODULE CoalitionSignatures --------------------------
(***************************************************************************)
(* The program with a notary who sees of every receipt and redemption who  *)
(* signed it and which account it named, and looks at no balance: credit   *)
(* granted by merchants' wallets, redemptions asked for by customers'.     *)
(***************************************************************************)
EXTENDS CoalitionProgram

VARIABLES
  granted,   \* granted[<<ma, p>>]: credit of receipts that ma signed for passport p
  asked      \* asked[<<h, m>>]: units of redemptions that h signed at merchant m

signatureVars == <<coalition, merchant, passport, balance, mint, token, unix_timestamp,
                   granted, asked>>

SignaturesInit ==
  /\ Init
  /\ granted = [s \in MerchantKey \X PassportAddr |-> 0]
  /\ asked = [s \in Customer \X MerchantAddr |-> 0]

SignedReceipt ==
  \E c \in CoalitionAddr, ma \in MerchantKey, m \in MerchantAddr, p \in PassportAddr,
     b \in BalanceAddr, nonce \in U64, amount \in U64, hash \in ReceiptHash :
    /\ RecordReceipt(ma, c, m, p, b, nonce, amount, hash)
    /\ granted' = [granted EXCEPT
         ![<<ma, p>>] = @ + credit_units(m, b, amount, current_day_epoch)]
    /\ UNCHANGED asked

SignedRedemption ==
  \E h \in Customer, c \in CoalitionAddr, m \in MerchantAddr, p \in PassportAddr,
     b \in BalanceAddr, units \in U64 :
    /\ Redeem(h, c, m, p, b, units)
    /\ asked' = [asked EXCEPT ![<<h, m>>] = @ + units]
    /\ UNCHANGED granted

SignaturesNext ==
  \/ SignedReceipt
  \/ SignedRedemption
  \/ (Configure \/ CreateAnyPassport \/ Environment) /\ UNCHANGED <<granted, asked>>

SignaturesSpec == SignaturesInit /\ [][SignaturesNext]_signatureVars

-----------------------------------------------------------------------------

\* A balance moves by its two owners' signatures only: all that it earned was
\* granted to its passport by the wallet of its merchant, and all that left it
\* was asked for by the customer of its passport, at its merchant, in whatever
\* coalition, with whatever accounts the clients of others supplied
\* (lib.rs 449-481, 486-513).
MovedByItsOwners ==
  \A p \in PassportAddr, m \in MerchantAddr : p[1] = m[1] =>
    /\ balance[<<p, m>>].earned_units = granted[<<m[2], p>>]
    /\ balance[<<p, m>>].redeemed_units = asked[<<p[2], m>>]

\* With it, what makes it inductive.
SignaturesIInv ==
  /\ IInv
  /\ granted \in [MerchantKey \X PassportAddr -> Nat]
  /\ asked \in [Customer \X MerchantAddr -> Nat]
  /\ MovedByItsOwners

===============================================================================
