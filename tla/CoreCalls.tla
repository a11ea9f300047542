------------------------------- MODULE CoreCalls -------------------------------
(***************************************************************************)
(* Passport::accrue and Passport::redeem of loyalty-core statement by      *)
(* statement.  They work on &mut self and return through ? at each failed  *)
(* check, so whatever was assigned before that stays in a passport that    *)
(* the caller keeps using: no runtime takes it back.  LoyaltyCore has each *)
(* accepted call as one step and no step for a failed one; this is why it  *)
(* may.                                                                    *)
(***************************************************************************)
EXTENDS LoyaltyCore

VARIABLE call   \* the call at work: arguments, next statement, local credit

callVars == <<total_visits, streak_points, balances, call>>

passport == [total_visits |-> total_visits, streak_points |-> streak_points,
             balances |-> balances]

\* Fault: the entry is updated in place, as redeem does it.
EntryInPlace ==
  <<"amount", "nonce", "cap", "product", "credit", "new_earned", "new_epoch_earned",
    "insert", "new_visits", "new_streak", "total_visits", "streak_points">>

\* Fault: the visits are assigned while the streak can still overflow.
VisitsFirst ==
  <<"amount", "nonce", "cap", "product", "credit", "new_earned", "new_epoch_earned",
    "new_visits", "total_visits", "new_streak", "insert", "streak_points">>

\* The statements of a call that can fail or that assign to self, in order.
accrue_body ==
  <<"amount", "nonce", "cap", "product", "credit", "new_earned", "new_epoch_earned",
    "new_visits", "new_streak", "insert", "total_visits", "streak_points">>

redeem_body == <<"units", "entry", "available", "redeemed_units">>

\* Between calls.
NoCall == [body |-> <<>>]

AccrueCall(m, nonce, amount_units, epoch, rules) ==
  [body |-> accrue_body, at |-> 1, credit |-> 0, before |-> passport, m |-> m,
   nonce |-> nonce, amount |-> amount_units, epoch |-> epoch, rules |-> rules]

RedeemCall(id, units) ==
  [body |-> redeem_body, at |-> 1, before |-> passport, id |-> id, units |-> units]

CallsInit == Init /\ call = NoCall

Begin ==
  /\ call = NoCall
  /\ \/ \E m \in Merchant, nonce \in U64, amount \in U64, epoch \in Epoch,
           rules \in CoalitionRules :
          call' = AccrueCall(m, nonce, amount, epoch, rules)
     \/ \E id \in MerchantId, units \in U64 : call' = RedeemCall(id, units)
  /\ UNCHANGED core

\* The call is at one of these statements.
At(statements) ==
  /\ call # NoCall
  /\ call.at \in DOMAIN call.body
  /\ call.body[call.at] \in statements

\* What the statement needs in order not to return an error.
Passes ==
  LET statement == call.body[call.at] IN
  CASE statement = "amount" -> call.amount > 0
    [] statement = "nonce" -> NonceFresh(call.m, call.nonce, call.epoch)
    [] statement = "cap" -> remaining_cap(call.m, call.epoch) > 0
    [] statement = "product" -> call.amount * call.m.earn_bps \in U64
    [] statement = "credit" -> credit_units(call.m, call.amount, call.epoch) > 0
    [] statement = "new_earned" ->
         balance_for(call.m.id).earned_units + call.credit \in U64
    [] statement = "new_epoch_earned" ->
         earned_this_epoch(call.m.id, call.epoch) + call.credit \in U64
    [] statement = "new_visits" -> total_visits + 1 \in U64
    [] statement = "new_streak" ->
         streak_points + streak_delta(call.credit, call.rules) \in U64
    [] statement = "units" -> call.units > 0
    [] statement = "entry" -> balances[call.id] # NoBalance
    [] statement = "available" -> Available(call.id, call.units)
    [] statement = "redeemed_units" -> balances[call.id].redeemed_units + call.units \in U64
    [] OTHER -> TRUE

Forward == call' = [call EXCEPT !.at = @ + 1]

\* A check, or a checked sum kept in a local variable, that goes well.
Check ==
  /\ At({"amount", "nonce", "cap", "product", "new_earned", "new_epoch_earned",
         "new_visits", "new_streak", "units", "entry", "available"})
  /\ Passes
  /\ Forward
  /\ UNCHANGED core

ComputeCredit ==
  /\ At({"credit"})
  /\ Passes
  /\ call' = [call EXCEPT !.at = @ + 1,
                          !.credit = credit_units(call.m, call.amount, call.epoch)]
  /\ UNCHANGED core

InsertEntry ==
  /\ At({"insert"})
  /\ balances' = [balances EXCEPT ![call.m.id] =
       [earned_units |-> balance_for(call.m.id).earned_units + call.credit,
        redeemed_units |-> balance_for(call.m.id).redeemed_units,
        earned_this_epoch |-> earned_this_epoch(call.m.id, call.epoch) + call.credit,
        cap_epoch |-> call.epoch,
        last_receipt_nonce |-> call.nonce]]
  /\ Forward
  /\ UNCHANGED <<total_visits, streak_points>>

AssignVisits ==
  /\ At({"total_visits"})
  /\ total_visits' = total_visits + 1
  /\ Forward
  /\ UNCHANGED <<streak_points, balances>>

AssignStreak ==
  /\ At({"streak_points"})
  /\ streak_points' = streak_points + streak_delta(call.credit, call.rules)
  /\ Forward
  /\ UNCHANGED <<total_visits, balances>>

AssignRedeemed ==
  /\ At({"redeemed_units"})
  /\ Passes
  /\ balances' = [balances EXCEPT ![call.id].redeemed_units = @ + call.units]
  /\ Forward
  /\ UNCHANGED <<total_visits, streak_points>>

\* return Err(..) or ?
Fail ==
  /\ call # NoCall
  /\ call.at \in DOMAIN call.body
  /\ ~Passes
  /\ call' = NoCall
  /\ UNCHANGED core

\* Ok(..)
Return ==
  /\ call # NoCall
  /\ call.at = Len(call.body) + 1
  /\ call' = NoCall
  /\ UNCHANGED core

CallsNext ==
  \/ Begin
  \/ Check
  \/ ComputeCredit
  \/ InsertEntry
  \/ AssignVisits
  \/ AssignStreak
  \/ AssignRedeemed
  \/ Fail
  \/ Return

CallsSpec == CallsInit /\ [][CallsNext]_callVars

-----------------------------------------------------------------------------

\* A failed call leaves the passport exactly as it found it, whichever of its
\* checks fails: no entry of a first receipt, no counter (lib.rs 249-250,
\* 284-285).
FailedCallsLeaveNoTrace ==
  [][Fail => /\ total_visits = call.before.total_visits
             /\ streak_points = call.before.streak_points
             /\ balances = call.before.balances]_callVars

\* What the owner of the passport sees: the borrow ends when the call does.
settled == IF call = NoCall THEN passport ELSE call.before

Atomic == INSTANCE LoyaltyCore WITH
  total_visits <- settled.total_visits,
  streak_points <- settled.streak_points,
  balances <- settled.balances

\* For its owner every call is one step of LoyaltyCore, with all its checks
\* true of one state and all its writes there at once, or none (lib.rs
\* 239-308, 332-352).
CallsAreAtomic == Atomic!Spec

(* What makes them inductive: which checks are behind a call, and which of its
   writes, all in terms of the passport that it found. *)

AnyAccrueCall ==
  [body : {accrue_body}, at : 1 .. 13, credit : {call.credit}, before : {call.before},
   m : Merchant, nonce : U64, amount : U64, epoch : Epoch, rules : CoalitionRules]

AnyRedeemCall ==
  [body : {redeem_body}, at : 1 .. 5, before : {call.before}, id : MerchantId, units : U64]

\* The checks before position k of accrue_body hold.
ChecksBehind(k, credit) ==
  LET entry == Atomic!balance_for(call.m.id)
      today == Atomic!earned_this_epoch(call.m.id, call.epoch)
  IN
  /\ k > 1 => call.amount > 0
  /\ k > 2 => Atomic!NonceFresh(call.m, call.nonce, call.epoch)
  /\ k > 3 => Atomic!remaining_cap(call.m, call.epoch) > 0
  /\ k > 4 => call.amount * call.m.earn_bps \in U64
  /\ k > 5 => /\ credit = Atomic!credit_units(call.m, call.amount, call.epoch)
              /\ credit > 0
  /\ k > 6 => entry.earned_units + credit \in U64
  /\ k > 7 => today + credit \in U64
  /\ k > 8 => settled.total_visits + 1 \in U64
  /\ k > 9 => settled.streak_points + streak_delta(credit, call.rules) \in U64

\* The passport once the writes before position k of accrue_body are done.
WrittenBefore(k, credit) ==
  LET entry == Atomic!balance_for(call.m.id)
      today == Atomic!earned_this_epoch(call.m.id, call.epoch)
  IN
  [total_visits |-> IF k > 11 THEN settled.total_visits + 1 ELSE settled.total_visits,
   streak_points |-> IF k > 12
                     THEN settled.streak_points + streak_delta(credit, call.rules)
                     ELSE settled.streak_points,
   balances |-> IF k > 10
                THEN [settled.balances EXCEPT ![call.m.id] =
                       [earned_units |-> entry.earned_units + credit,
                        redeemed_units |-> entry.redeemed_units,
                        earned_this_epoch |-> today + credit,
                        cap_epoch |-> call.epoch,
                        last_receipt_nonce |-> call.nonce]]
                ELSE settled.balances]

AccrueProgress ==
  /\ ChecksBehind(call.at, call.credit)
  /\ passport = WrittenBefore(call.at, call.credit)

RedeemProgress ==
  /\ call.at > 1 => call.units > 0
  /\ call.at > 2 => settled.balances[call.id] # NoBalance
  /\ call.at > 3 => Atomic!Available(call.id, call.units)
  /\ call.at > 4 => settled.balances[call.id].redeemed_units + call.units \in U64
  /\ balances = IF call.at > 4
                THEN [settled.balances EXCEPT ![call.id].redeemed_units = @ + call.units]
                ELSE settled.balances
  /\ total_visits = settled.total_visits
  /\ streak_points = settled.streak_points

CallsIInv ==
  \/ call = NoCall
  \/ call.body = accrue_body /\ call \in AnyAccrueCall /\ AccrueProgress
  \/ call.body = redeem_body /\ call \in AnyRedeemCall /\ RedeemProgress

===============================================================================
