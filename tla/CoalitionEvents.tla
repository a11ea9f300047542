---------------------------- MODULE CoalitionEvents ----------------------------
(***************************************************************************)
(* The events that the instructions emit, and a follower that reads no     *)
(* account: what it knows of coalitions, merchants, passports and balances *)
(* is what the events told it, in order.  The tier levels come from the    *)
(* ReceiptOutcome that apply_receipt returns: no event has the thresholds. *)
(***************************************************************************)
EXTENDS CoalitionResults

VARIABLE known        \* the follower's picture of the accounts

eventVars == <<coalition, merchant, passport, balance, mint, token, unix_timestamp, known>>

EventsInit ==
  /\ Init
  /\ known =
       [coalitions |-> {}, paused |-> {}, merchants |-> {},
        credential |-> [p \in PassportAddr |-> NoAccount],
        visits |-> [p \in PassportAddr |-> 0],
        streak |-> [p \in PassportAddr |-> 0],
        tier |-> [p \in PassportAddr |-> 0],
        available |-> [b \in BalanceAddr |-> 0],
        nonces |-> [b \in BalanceAddr |-> {}]]

-----------------------------------------------------------------------------
(* The follower *)

Follow(e) ==
  CASE e.event = "CoalitionInitialized" ->
         [known EXCEPT !.coalitions = @ \cup {e.coalition}]
    [] e.event = "CoalitionPauseChanged" ->
         [known EXCEPT !.paused = IF e.paused THEN @ \cup {e.coalition} ELSE @ \ {e.coalition}]
    [] e.event = "MerchantRegistered" ->
         [known EXCEPT !.merchants = @ \cup {e.merchant}]
    [] e.event = "PassportCreated" ->
         [known EXCEPT !.credential[e.passport] = e.passport_mint]
    [] e.event = "ReceiptRecorded" ->
         [known EXCEPT
            !.visits[e.passport] = @ + 1,
            !.streak[e.passport] = @ + e.streak_delta,
            !.tier[e.passport] = e.tier_level,
            !.available[<<e.passport, e.merchant>>] = @ + e.credit_units,
            !.nonces[<<e.passport, e.merchant>>] = @ \cup {e.nonce}]
    [] e.event = "Redeemed" ->
         [known EXCEPT !.available[<<e.passport, e.merchant>>] = e.remaining_units]

emit(e) == known' = Follow(e)

-----------------------------------------------------------------------------
(* What the instructions emit *)

ConfigureEvents ==
  \/ \E a \in Authority, args \in CoalitionArgs :
       /\ InitializeCoalition(a, args)
       /\ emit([event |-> "CoalitionInitialized", coalition |-> a])
  \/ \E a \in Authority, c \in CoalitionAddr, ma \in MerchantKey, args \in MerchantArgs :
       /\ RegisterMerchant(a, c, ma, args)
       /\ emit([event |-> "MerchantRegistered", coalition |-> c, merchant |-> <<c, ma>>])
  \/ \E a \in Authority, c \in CoalitionAddr :
       \/ /\ PauseCoalition(a, c)
          /\ emit([event |-> "CoalitionPauseChanged", coalition |-> c, paused |-> TRUE])
       \/ /\ UnpauseCoalition(a, c)
          /\ emit([event |-> "CoalitionPauseChanged", coalition |-> c, paused |-> FALSE])

CreatePassportEvent ==
  \E h \in Customer, c \in CoalitionAddr, k \in MintKey :
    /\ CreatePassport(h, c, k)
    /\ emit([event |-> "PassportCreated", passport |-> <<c, h>>, passport_mint |-> k])

RecordReceiptEvent ==
  \E c \in CoalitionAddr, ma \in MerchantKey, m \in MerchantAddr, p \in PassportAddr,
     b \in BalanceAddr, nonce \in U64, amount \in U64, hash \in ReceiptHash :
    LET outcome == ReceiptOutcome(c, m, p, b, amount, current_day_epoch) IN
    /\ RecordReceipt(ma, c, m, p, b, nonce, amount, hash)
    /\ emit([event |-> "ReceiptRecorded", passport |-> p, merchant |-> m, nonce |-> nonce,
             credit_units |-> outcome.credit_units, streak_delta |-> outcome.streak_delta,
             tier_level |-> outcome.tier_level])

RedeemEvent ==
  \E h \in Customer, c \in CoalitionAddr, m \in MerchantAddr, p \in PassportAddr,
     b \in BalanceAddr, units \in U64 :
    /\ Redeem(h, c, m, p, b, units)
    /\ emit([event |-> "Redeemed", passport |-> p, merchant |-> m,
             redeemed_units |-> units, remaining_units |-> remaining_units(b, units)])

EventsNext ==
  \/ ConfigureEvents
  \/ CreatePassportEvent
  \/ RecordReceiptEvent
  \/ RedeemEvent
  \/ Environment /\ UNCHANGED known

EventsSpec == EventsInit /\ [][EventsNext]_eventVars

-----------------------------------------------------------------------------

\* Who follows the events knows the accounts: every credit, streak and tier
\* level that an instruction reported is what it wrote, cut to the caps and
\* after the receipt, and nothing changes unreported (lib.rs 61-296, 694-711).
EventsTellAccounts ==
  /\ known.coalitions = {c \in CoalitionAddr : coalition[c] # NoAccount}
  /\ known.paused = {c \in known.coalitions : coalition[c].paused}
  /\ known.merchants = {m \in MerchantAddr : merchant[m] # NoAccount}
  /\ \A p \in PassportAddr : passport[p] # NoAccount =>
       /\ known.credential[p] = passport[p].passport_mint
       /\ known.visits[p] = passport[p].total_visits
       /\ known.streak[p] = passport[p].streak_points
       /\ known.tier[p] = tier_level_for(p[1], passport[p].streak_points)
  /\ \A b \in BalanceAddr : known.available[b] = available_units(b)

\* How many different receipts of each merchant the follower has seen.
receiptsOf(p) == [m \in MerchantAddr |-> Cardinality(known.nonces[<<p, m>>])]

\* The visits a passport shows are the different receipts that its merchants
\* recorded, each counted once (lib.rs 650-653, 686-689).
VisitsAreReceipts ==
  \A p \in PassportAddr : passport[p] # NoAccount =>
    passport[p].total_visits = SumOver(receiptsOf(p), MerchantsOf(p))

(* What makes these inductive *)

FollowerTypeOK ==
  known \in [coalitions : SUBSET CoalitionAddr, paused : SUBSET CoalitionAddr,
             merchants : SUBSET MerchantAddr,
             credential : [PassportAddr -> MintKey \cup {NoAccount}],
             visits : [PassportAddr -> Nat], streak : [PassportAddr -> Nat],
             tier : [PassportAddr -> Nat],
             available : [BalanceAddr -> Int],
             nonces : [BalanceAddr -> SUBSET U64]]

\* Nothing is known of a passport before it exists.
UnknownIsZero ==
  \A p \in PassportAddr : passport[p] = NoAccount =>
    known.visits[p] = 0 /\ known.streak[p] = 0 /\ known.tier[p] = 0

\* The follower saw finitely many receipts of each balance, the last one's
\* nonce being the greatest.
ReceiptsKnown ==
  \A b \in BalanceAddr :
    /\ IsFiniteSet(known.nonces[b])
    /\ \A nonce \in known.nonces[b] : nonce <= balance[b].last_receipt_nonce
    /\ balance[b].version = 0 => known.nonces[b] = {}

EventsIInv ==
  /\ CreditIInv
  /\ ConfigAccepted
  /\ FollowerTypeOK
  /\ UnknownIsZero
  /\ ReceiptsKnown
  /\ EventsTellAccounts
  /\ VisitsAreReceipts

===============================================================================
