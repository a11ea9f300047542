--------------------------- MODULE LoyaltyCore_proofs ---------------------------
(***************************************************************************)
(* Theorems of loyalty-core for every set of merchants, rules and epochs   *)
(* and every width of the counters.                                        *)
(***************************************************************************)
EXTENDS LoyaltyCoreAudit, CoreCalls, Sums_proofs, TLAPS

\* Division by the denominator keeps credit a natural number.
LEMMA CoreDivisionNat ==
  ASSUME NEW x \in Nat, NEW d \in Nat \ {0}
  PROVE  x \div d \in Nat
BY SMT

\* An entry, or the default that stands for a missing one, is well typed,
\* solvent and capped.
LEMMA EntryFacts ==
  ASSUME CoreIInv, NEW m \in Merchant
  PROVE  /\ m.id \in MerchantId
         /\ m.daily_cap \in Nat \ {0}
         /\ m.earn_bps \in Nat
         /\ balance_for(m.id) \in MerchantBalance
         /\ balance_for(m.id).redeemed_units <= balance_for(m.id).earned_units
         /\ balance_for(m.id).earned_this_epoch <= balance_for(m.id).earned_units
         /\ balance_for(m.id).earned_this_epoch <= m.daily_cap
<1>1. /\ m.id \in MerchantId
      /\ m.daily_cap \in Nat \ {0}
      /\ m.earn_bps \in Nat
  BY CoreAssumption DEF Merchant, U64
<1>2. CASE balances[m.id] = NoBalance
  <2>1. balance_for(m.id) = Default
    BY <1>2 DEF balance_for
  <2>2. Default \in MerchantBalance
    BY CoreAssumption DEF Default, MerchantBalance, U64
  <2> QED
    BY <1>1, <2>1, <2>2 DEF Default
<1>3. CASE balances[m.id] # NoBalance
  <2>1. balance_for(m.id) = balances[m.id]
    BY <1>3 DEF balance_for
  <2>2. balances[m.id] \in MerchantBalance
    BY <1>1, <1>3 DEF CoreIInv, CoreTypeOK
  <2>3. /\ balances[m.id].redeemed_units <= balances[m.id].earned_units
        /\ balances[m.id].earned_this_epoch \in 1 .. balances[m.id].earned_units
    BY <1>1, <1>3 DEF CoreIInv, EntriesSound
  <2>4. balances[m.id].earned_this_epoch <= m.daily_cap
    BY <1>3 DEF CoreIInv, EpochCounterCapped
  <2>5. balances[m.id].earned_this_epoch <= balances[m.id].earned_units
    BY <2>2, <2>3 DEF MerchantBalance, U64
  <2> QED
    BY <1>1, <2>1, <2>2, <2>3, <2>4, <2>5
<1> QED
  BY <1>2, <1>3

\* What an accepted receipt does, in numbers.
LEMMA AccrueEffect ==
  ASSUME CoreIInv, NEW m \in Merchant, NEW nonce \in U64, NEW amount \in U64,
         NEW epoch \in Epoch, NEW rules \in CoalitionRules,
         Accrue(m, nonce, amount, epoch, rules)
  PROVE  \E credit \in Nat \ {0} :
           /\ balance_for(m.id).earned_units + credit \in U64
           /\ earned_this_epoch(m.id, epoch) \in Nat
           /\ earned_this_epoch(m.id, epoch) <= balance_for(m.id).earned_units
           /\ earned_this_epoch(m.id, epoch) + credit \in U64
           /\ earned_this_epoch(m.id, epoch) + credit <= m.daily_cap
           /\ nonce > 0
           /\ balances' = [balances EXCEPT ![m.id] =
                [earned_units |-> balance_for(m.id).earned_units + credit,
                 redeemed_units |-> balance_for(m.id).redeemed_units,
                 earned_this_epoch |-> earned_this_epoch(m.id, epoch) + credit,
                 cap_epoch |-> epoch,
                 last_receipt_nonce |-> nonce]]
           /\ total_visits' \in U64
           /\ streak_points' \in U64
<1> DEFINE credit == credit_units(m, amount, epoch)
           today == earned_this_epoch(m.id, epoch)
           raw == raw_credit(m, amount)
           room == remaining_cap(m, epoch)
<1>1. /\ balance_for(m.id) \in MerchantBalance
      /\ m.daily_cap \in Nat \ {0}
      /\ balance_for(m.id).earned_this_epoch <= balance_for(m.id).earned_units
      /\ balance_for(m.id).earned_this_epoch <= m.daily_cap
  BY EntryFacts
<1>2. /\ today \in Nat
      /\ today <= balance_for(m.id).earned_units
      /\ today <= m.daily_cap
  BY <1>1 DEF earned_this_epoch, MerchantBalance, U64
<1>3. room \in Nat /\ room + today = m.daily_cap
  BY <1>1, <1>2 DEF remaining_cap, saturating_sub
<1>4. raw \in Nat
  <2>1. amount * m.earn_bps \in Nat
    BY DEF Accrue, Checked, U64
  <2> QED
    BY <2>1, CoreDivisionNat, CoreAssumption DEF raw_credit
<1>5. credit \in Nat \ {0} /\ credit <= room
  <2>1. credit = raw \/ credit = room
    BY DEF credit_units, Smaller
  <2>2. credit <= room
    BY <1>3, <1>4 DEF credit_units, Smaller
  <2>3. credit > 0
    BY DEF Accrue
  <2> QED
    BY <1>3, <1>4, <2>1, <2>2, <2>3
<1>6. today + credit <= m.daily_cap
  BY <1>1, <1>2, <1>3, <1>5
<1>7. /\ balance_for(m.id).earned_units + credit \in U64
      /\ today + credit \in U64
      /\ total_visits' \in U64
      /\ streak_points' \in U64
  BY DEF Accrue, Checked
<1>8. nonce > 0
  BY <1>1 DEF Accrue, NonceFresh, MerchantBalance, U64
<1>9. balances' = [balances EXCEPT ![m.id] =
                [earned_units |-> balance_for(m.id).earned_units + credit,
                 redeemed_units |-> balance_for(m.id).redeemed_units,
                 earned_this_epoch |-> today + credit,
                 cap_epoch |-> epoch,
                 last_receipt_nonce |-> nonce]]
  BY DEF Accrue
<1> HIDE DEF credit, today
<1> QED
  BY <1>2, <1>5, <1>6, <1>7, <1>8, <1>9 DEF today

-----------------------------------------------------------------------------

LEMMA InitCoreIInv == Init => CoreIInv
BY CoreAssumption DEF Init, CoreIInv, CoreTypeOK, EntriesSound, EpochCounterCapped, Merchant, U64

\* A receipt that was accepted keeps the invariant.
LEMMA AccrueCoreIInv ==
  ASSUME CoreIInv, NEW epoch \in Epoch, AccrueAt(epoch)
  PROVE  CoreIInv'
<1>1. PICK m \in Merchant, nonce \in U64, amount \in U64, rules \in CoalitionRules :
        Accrue(m, nonce, amount, epoch, rules)
  BY DEF AccrueAt
<1> DEFINE old == balance_for(m.id)
           today == earned_this_epoch(m.id, epoch)
<1>2. PICK credit \in Nat \ {0} :
        /\ old.earned_units + credit \in U64
        /\ today \in Nat
        /\ today <= old.earned_units
        /\ today + credit \in U64
        /\ today + credit <= m.daily_cap
        /\ nonce > 0
        /\ balances' = [balances EXCEPT ![m.id] =
             [earned_units |-> old.earned_units + credit,
              redeemed_units |-> old.redeemed_units,
              earned_this_epoch |-> today + credit,
              cap_epoch |-> epoch,
              last_receipt_nonce |-> nonce]]
        /\ total_visits' \in U64
        /\ streak_points' \in U64
  BY <1>1, AccrueEffect
<1>3. /\ m.id \in MerchantId
      /\ old \in MerchantBalance
      /\ old.redeemed_units <= old.earned_units
  BY EntryFacts
<1> HIDE DEF old, today
<1> DEFINE new == [earned_units |-> old.earned_units + credit,
                   redeemed_units |-> old.redeemed_units,
                   earned_this_epoch |-> today + credit,
                   cap_epoch |-> epoch,
                   last_receipt_nonce |-> nonce]
<1>4. new \in MerchantBalance
  <2>1. epoch \in Nat
    BY CoreAssumption
  <2> QED
    BY <1>2, <1>3, <2>1 DEF MerchantBalance
<1>5. /\ new.redeemed_units <= new.earned_units
      /\ new.earned_this_epoch \in 1 .. new.earned_units
      /\ new.last_receipt_nonce > 0
  <2>1. old.earned_units \in Nat /\ old.redeemed_units \in Nat
    BY <1>3 DEF MerchantBalance, U64
  <2> QED
    BY <1>2, <1>3, <2>1
<1>6. /\ balances'[m.id] = new
      /\ \A id \in MerchantId : id # m.id => balances'[id] = balances[id]
  BY <1>2, <1>3 DEF CoreIInv, CoreTypeOK
<1>7. new.earned_this_epoch <= m.daily_cap
  BY <1>2
<1> HIDE DEF new
<1>8. CoreTypeOK'
  <2>1. balances' = [balances EXCEPT ![m.id] = new]
    BY <1>2 DEF new
  <2> QED
    BY <1>2, <1>3, <1>4, <2>1 DEF CoreTypeOK, CoreIInv
<1>9. EntriesSound'
  BY <1>5, <1>6 DEF EntriesSound, CoreIInv
<1>10. EpochCounterCapped'
  <2> SUFFICES ASSUME NEW n \in Merchant, balances'[n.id] # NoBalance
               PROVE  balances'[n.id].earned_this_epoch <= n.daily_cap
    BY DEF EpochCounterCapped, Merchant
  <2>1. CASE n.id = m.id
    <3>1. n = m
      BY <2>1, ImmutableParameters DEF Merchant
    <3> QED
      BY <3>1, <1>6, <1>7
  <2>2. CASE n.id # m.id
    <3>1. n.id \in MerchantId
      BY CoreAssumption DEF Merchant
    <3>2. balances'[n.id] = balances[n.id]
      BY <2>2, <3>1, <1>6
    <3> QED
      BY <3>2 DEF EpochCounterCapped, CoreIInv
  <2> QED
    BY <2>1, <2>2
<1> QED
  BY <1>8, <1>9, <1>10 DEF CoreIInv

\* A redemption keeps the invariant.
LEMMA RedeemCoreIInv ==
  ASSUME CoreIInv, RedeemAny
  PROVE  CoreIInv'
<1>1. PICK id \in MerchantId, units \in U64 : Redeem(id, units)
  BY DEF RedeemAny
<1> DEFINE new == [balances[id] EXCEPT !.redeemed_units = @ + units]
<1>2. /\ balances[id] # NoBalance
      /\ balances[id] \in MerchantBalance
      /\ balances[id].redeemed_units <= balances[id].earned_units
  BY <1>1 DEF Redeem, CoreIInv, CoreTypeOK, EntriesSound
<1>3. balances[id].redeemed_units + units <= balances[id].earned_units
  <2>1. units <= saturating_sub(balances[id].earned_units, balances[id].redeemed_units)
    BY <1>1, <1>2 DEF Redeem, Available, available_units, balance_for
  <2> QED
    BY <1>2, <2>1 DEF saturating_sub, MerchantBalance, U64
<1>4. /\ new \in MerchantBalance
      /\ new.redeemed_units = balances[id].redeemed_units + units
      /\ new.earned_units = balances[id].earned_units
      /\ new.earned_this_epoch = balances[id].earned_this_epoch
      /\ new.last_receipt_nonce = balances[id].last_receipt_nonce
  BY <1>1, <1>2 DEF Redeem, MerchantBalance
<1>5. balances' = [balances EXCEPT ![id] = new]
  BY <1>1 DEF Redeem
<1>6. /\ balances'[id] = new
      /\ \A i \in MerchantId : i # id => balances'[i] = balances[i]
  BY <1>5 DEF CoreIInv, CoreTypeOK
<1> HIDE DEF new
<1>7. CoreTypeOK'
  BY <1>1, <1>4, <1>5 DEF Redeem, CoreIInv, CoreTypeOK
<1>8. EntriesSound'
  BY <1>2, <1>3, <1>4, <1>6 DEF EntriesSound, CoreIInv
<1>9. EpochCounterCapped'
  <2> SUFFICES ASSUME NEW n \in Merchant, balances'[n.id] # NoBalance
               PROVE  balances'[n.id].earned_this_epoch <= n.daily_cap
    BY DEF EpochCounterCapped, Merchant
  <2>1. n.id \in MerchantId
    BY CoreAssumption DEF Merchant
  <2>2. /\ balances[n.id] # NoBalance
        /\ balances'[n.id].earned_this_epoch = balances[n.id].earned_this_epoch
    BY <1>2, <1>4, <1>6, <2>1
  <2> QED
    BY <2>2 DEF EpochCounterCapped, CoreIInv
<1> QED
  BY <1>7, <1>8, <1>9 DEF CoreIInv

LEMMA NextCoreIInv == CoreIInv /\ [Next]_core => CoreIInv'
<1> SUFFICES ASSUME CoreIInv, [Next]_core PROVE CoreIInv'
  OBVIOUS
<1>1. CASE UNCHANGED core
  BY <1>1 DEF core, CoreIInv, CoreTypeOK, EntriesSound, EpochCounterCapped, Merchant
<1>2. CASE Next
  BY <1>2, AccrueCoreIInv, RedeemCoreIInv DEF Next
<1> QED
  BY <1>1, <1>2

\* The crate's invariant: types, sound entries and capped counters, for all
\* orders of epochs and rules (lib.rs 224-358).
THEOREM CoreInvariance == Spec => []CoreIInv
<1>1. Init => CoreIInv
  BY InitCoreIInv
<1>2. CoreIInv /\ [Next]_core => CoreIInv'
  BY NextCoreIInv
<1> QED
  BY <1>1, <1>2, PTL DEF Spec

\* No counter of the crate leaves u64 (lib.rs 274-300, 349-352).
THEOREM CoreTypeCorrect == Spec => []CoreTypeOK
<1>1. CoreIInv => CoreTypeOK
  BY DEF CoreIInv
<1> QED
  BY <1>1, CoreInvariance, PTL

\* Entries appear with credit only and are never overdrawn (lib.rs 176-181,
\* 249-251, 341-352).
THEOREM EntriesAlwaysSound == Spec => []EntriesSound
<1>1. CoreIInv => EntriesSound
  BY DEF CoreIInv
<1> QED
  BY <1>1, CoreInvariance, PTL

\* The counter of the last epoch is within the cap: saturating_sub hides
\* nothing (lib.rs 261-272).
THEOREM EpochCounterAlwaysCapped == Spec => []EpochCounterCapped
<1>1. CoreIInv => EpochCounterCapped
  BY DEF CoreIInv
<1> QED
  BY <1>1, CoreInvariance, PTL

-----------------------------------------------------------------------------
(* Reputation and credit *)

BackedIInv == CoreIInv /\ IsFiniteSet(Entries) /\ ReputationBacked

\* What an accepted receipt adds: one visit, no more streak than credit, and to
\* no entry but its merchant's.
LEMMA AccrueAdds ==
  ASSUME CoreIInv, NEW m \in Merchant, NEW nonce \in U64, NEW amount \in U64,
         NEW epoch \in Epoch, NEW rules \in CoalitionRules,
         Accrue(m, nonce, amount, epoch, rules)
  PROVE  \E credit \in Nat \ {0}, delta \in Nat \ {0} :
           /\ credit <= MaxU64 /\ delta <= credit
           /\ balances' = [balances EXCEPT ![m.id] = balances'[m.id]]
           /\ balances'[m.id] \in MerchantBalance
           /\ balances'[m.id].earned_units = balance_for(m.id).earned_units + credit
           /\ balances'[m.id].redeemed_units = balance_for(m.id).redeemed_units
           /\ balances'[m.id].last_receipt_nonce = nonce
           /\ nonce > balance_for(m.id).last_receipt_nonce
           /\ total_visits' = total_visits + 1
           /\ streak_points' = streak_points + delta
<1> DEFINE credit == credit_units(m, amount, epoch)
           delta == streak_delta(credit, rules)
           today == earned_this_epoch(m.id, epoch)
           old == balance_for(m.id)
           new == [earned_units |-> old.earned_units + credit,
                   redeemed_units |-> old.redeemed_units,
                   earned_this_epoch |-> today + credit,
                   cap_epoch |-> epoch,
                   last_receipt_nonce |-> nonce]
<1>1. m.id \in MerchantId /\ m.daily_cap \in Nat \ {0} /\ old \in MerchantBalance
  BY EntryFacts
<1>2. /\ old.earned_units + credit \in U64
      /\ today + credit \in U64
      /\ credit > 0
      /\ nonce > old.last_receipt_nonce
      /\ balances' = [balances EXCEPT ![m.id] = new]
      /\ total_visits' = total_visits + 1
      /\ streak_points' = streak_points + delta
  BY DEF Accrue, Checked, NonceFresh
<1>3. credit \in Int
  <2>1. amount * m.earn_bps \in Nat
    BY DEF Accrue, Checked, U64
  <2>2. raw_credit(m, amount) \in Nat
    BY <2>1, CoreDivisionNat, CoreAssumption DEF raw_credit
  <2>3. today \in Nat
    BY <1>1 DEF earned_this_epoch, MerchantBalance, U64
  <2>4. remaining_cap(m, epoch) \in Nat
    BY <1>1, <2>3 DEF remaining_cap, saturating_sub
  <2> QED
    BY <2>2, <2>4 DEF credit_units, Smaller
<1> HIDE DEF credit, today
<1>4. credit \in Nat \ {0} /\ credit <= MaxU64
  BY <1>1, <1>2, <1>3, CoreAssumption DEF MerchantBalance, U64
<1>5. delta \in Nat \ {0} /\ delta <= credit
  <2>1. rules.max_receipt_units \in Nat \ {0}
    BY CoreAssumption DEF CoalitionRules, U64
  <2> QED
    BY <1>4, <2>1 DEF streak_delta, Smaller
<1>6. new \in MerchantBalance
  BY <1>1, <1>2, CoreAssumption DEF MerchantBalance
<1>7. balances'[m.id] = new
  BY <1>1, <1>2 DEF CoreIInv, CoreTypeOK
<1>8. /\ new.earned_units = old.earned_units + credit
      /\ new.redeemed_units = old.redeemed_units
      /\ new.last_receipt_nonce = nonce
  OBVIOUS
<1> HIDE DEF new, old, delta
<1>9. balances' = [balances EXCEPT ![m.id] = balances'[m.id]]
  BY <1>2, <1>7
<1> QED
  BY <1>2, <1>4, <1>5, <1>6, <1>7, <1>8, <1>9 DEF old

LEMMA AccrueBacked ==
  ASSUME BackedIInv, NEW epoch \in Epoch, AccrueAt(epoch)
  PROVE  IsFiniteSet(Entries)' /\ ReputationBacked'
<1>1. PICK m \in Merchant, nonce \in U64, amount \in U64, rules \in CoalitionRules :
        Accrue(m, nonce, amount, epoch, rules)
  BY DEF AccrueAt
<1>2. PICK credit \in Nat \ {0}, delta \in Nat \ {0} :
           /\ credit <= MaxU64 /\ delta <= credit
           /\ balances' = [balances EXCEPT ![m.id] = balances'[m.id]]
           /\ balances'[m.id] \in MerchantBalance
           /\ balances'[m.id].earned_units = balance_for(m.id).earned_units + credit
           /\ balances'[m.id].redeemed_units = balance_for(m.id).redeemed_units
           /\ balances'[m.id].last_receipt_nonce = nonce
           /\ nonce > balance_for(m.id).last_receipt_nonce
           /\ total_visits' = total_visits + 1
           /\ streak_points' = streak_points + delta
  BY <1>1, AccrueAdds DEF BackedIInv
<1> DEFINE id == m.id
<1>3. /\ id \in MerchantId
      /\ balances'[id] # NoBalance
      /\ balance_for(id)' = balances'[id]
  BY <1>2, EntryFacts, NoBalanceAssumption DEF BackedIInv, balance_for
<1>4. \A i \in MerchantId : i # id => balances'[i] = balances[i]
  BY <1>2 DEF BackedIInv, CoreIInv, CoreTypeOK
<1>5. \A i \in MerchantId : i # id => balance_for(i)' = balance_for(i)
  BY <1>4 DEF balance_for
<1>6. Entries' = Entries \cup {id}
  BY <1>3, <1>4 DEF Entries
<1>7. \A i \in MerchantId : /\ balance_for(i) \in MerchantBalance
                            /\ balance_for(i)' \in MerchantBalance
  <2>1. CoreTypeOK'
    BY AccrueCoreIInv DEF BackedIInv, CoreIInv
  <2>2. Default \in MerchantBalance
    BY CoreAssumption DEF Default, MerchantBalance, U64
  <2> QED
    BY <2>1, <2>2 DEF BackedIInv, CoreIInv, CoreTypeOK, balance_for
<1>8. /\ IsFiniteSet(Entries)
      /\ Entries \subseteq MerchantId
      /\ id \notin Entries => balance_for(id) = Default
  BY <1>3 DEF BackedIInv, Entries, balance_for
<1> HIDE DEF id
<1>9. /\ SumOver(earned, Entries) \in Int
      /\ SumOver(earned', Entries \cup {id}) = SumOver(earned, Entries) + (earned'[id] - earned[id])
  <2>1. \A i \in MerchantId : /\ earned[i] = balance_for(i).earned_units
                              /\ earned'[i] = balance_for(i)'.earned_units
    BY DEF earned
  <2>2. \A i \in MerchantId : earned[i] \in Int /\ earned'[i] \in Int
    BY <1>7, <2>1, CoreAssumption DEF MerchantBalance, U64
  <2>3. id \notin Entries => earned[id] = 0
    BY <1>3, <1>8, <2>1 DEF Default
  <2>4. /\ \A i \in Entries \cup {id} : earned[i] \in Int /\ earned'[i] \in Int
        /\ \A i \in Entries : i # id => earned[i] = earned'[i]
    BY <1>3, <1>5, <1>8, <2>1, <2>2
  <2> QED
    BY <1>8, <2>3, <2>4, SumPut
<1>10. /\ SumOver(last_nonce, Entries) \in Int
       /\ SumOver(last_nonce', Entries \cup {id}) =
            SumOver(last_nonce, Entries) + (last_nonce'[id] - last_nonce[id])
  <2>1. \A i \in MerchantId : /\ last_nonce[i] = balance_for(i).last_receipt_nonce
                              /\ last_nonce'[i] = balance_for(i)'.last_receipt_nonce
    BY DEF last_nonce
  <2>2. \A i \in MerchantId : last_nonce[i] \in Int /\ last_nonce'[i] \in Int
    BY <1>7, <2>1, CoreAssumption DEF MerchantBalance, U64
  <2>3. id \notin Entries => last_nonce[id] = 0
    BY <1>3, <1>8, <2>1 DEF Default
  <2>4. /\ \A i \in Entries \cup {id} : last_nonce[i] \in Int /\ last_nonce'[i] \in Int
        /\ \A i \in Entries : i # id => last_nonce[i] = last_nonce'[i]
    BY <1>3, <1>5, <1>8, <2>1, <2>2
  <2> QED
    BY <1>8, <2>3, <2>4, SumPut
<1>11. /\ earned'[id] - earned[id] = credit
       /\ last_nonce'[id] - last_nonce[id] \in Nat \ {0}
  <2>1. /\ earned[id] = balance_for(id).earned_units
        /\ earned'[id] = balance_for(id)'.earned_units
        /\ last_nonce[id] = balance_for(id).last_receipt_nonce
        /\ last_nonce'[id] = balance_for(id)'.last_receipt_nonce
    BY <1>3 DEF earned, last_nonce
  <2>2. /\ balance_for(id).earned_units \in Nat
        /\ balance_for(id).last_receipt_nonce \in Nat
        /\ nonce \in Nat
    BY <1>3, <1>7, CoreAssumption DEF MerchantBalance, U64
  <2>3. /\ balance_for(id)'.earned_units = balance_for(id).earned_units + credit
        /\ balance_for(id)'.last_receipt_nonce = nonce
        /\ nonce > balance_for(id).last_receipt_nonce
        /\ credit \in Nat
    BY <1>2, <1>3 DEF id
  <2> QED
    BY <2>1, <2>2, <2>3
<1>12. total_visits \in Nat /\ streak_points \in Nat
  BY CoreAssumption DEF BackedIInv, CoreIInv, CoreTypeOK, U64
<1>13. /\ total_visits <= streak_points
       /\ streak_points <= SumOver(earned, Entries)
       /\ total_visits <= SumOver(last_nonce, Entries)
  BY DEF BackedIInv, ReputationBacked
<1>14. IsFiniteSet(Entries')
  BY <1>6, <1>8, FS_AddElement
<1>15. /\ total_visits' <= streak_points'
       /\ streak_points' <= SumOver(earned', Entries \cup {id})
       /\ total_visits' <= SumOver(last_nonce', Entries \cup {id})
  BY <1>2, <1>9, <1>10, <1>11, <1>12, <1>13
<1> QED
  BY <1>6, <1>14, <1>15 DEF ReputationBacked

\* A redemption changes no earned units, no nonce and no set of entries.
LEMMA RedeemBacked ==
  ASSUME BackedIInv, RedeemAny
  PROVE  IsFiniteSet(Entries)' /\ ReputationBacked'
<1>1. PICK id \in MerchantId, units \in U64 : Redeem(id, units)
  BY DEF RedeemAny
<1> DEFINE new == [balances[id] EXCEPT !.redeemed_units = @ + units]
<1>2. /\ balances[id] # NoBalance
      /\ balances[id] \in MerchantBalance
      /\ balances' = [balances EXCEPT ![id] = new]
      /\ UNCHANGED <<total_visits, streak_points>>
  BY <1>1 DEF Redeem, BackedIInv, CoreIInv, CoreTypeOK
<1>3. /\ new \in MerchantBalance
      /\ new.earned_units = balances[id].earned_units
      /\ new.last_receipt_nonce = balances[id].last_receipt_nonce
  BY <1>1, <1>2 DEF Redeem, MerchantBalance
<1> HIDE DEF new
<1>4. /\ balances'[id] = new /\ new # NoBalance
      /\ \A i \in MerchantId : i # id => balances'[i] = balances[i]
  BY <1>2, <1>3, NoBalanceAssumption DEF BackedIInv, CoreIInv, CoreTypeOK
<1>5. Entries' = Entries
  BY <1>2, <1>4 DEF Entries
<1>6. \A i \in MerchantId :
        /\ balance_for(i)'.earned_units = balance_for(i).earned_units
        /\ balance_for(i)'.last_receipt_nonce = balance_for(i).last_receipt_nonce
  BY <1>2, <1>3, <1>4 DEF balance_for
<1>7. earned' = earned /\ last_nonce' = last_nonce
  BY <1>6 DEF earned, last_nonce
<1> QED
  BY <1>2, <1>5, <1>7 DEF BackedIInv, ReputationBacked

\* Streak and visits never outrun the credit and the nonces of the entries, for
\* any number of merchants, rules and epochs.
THEOREM ReputationAlwaysBacked == Spec => []ReputationBacked
<1>1. Init => BackedIInv
  <2> SUFFICES ASSUME Init PROVE IsFiniteSet(Entries) /\ ReputationBacked
    BY InitCoreIInv DEF BackedIInv
  <2>1. Entries = {}
    BY DEF Init, Entries
  <2> QED
    BY <2>1, FS_EmptySet, SumEmpty DEF Init, ReputationBacked
<1>2. BackedIInv /\ [Next]_core => BackedIInv'
  <2> SUFFICES ASSUME BackedIInv, [Next]_core PROVE BackedIInv'
    OBVIOUS
  <2>1. CoreIInv'
    BY NextCoreIInv DEF BackedIInv
  <2>2. CASE Next
    BY <2>1, <2>2, AccrueBacked, RedeemBacked DEF Next, BackedIInv
  <2>3. CASE UNCHANGED core
    <3>1. Entries' = Entries /\ earned' = earned /\ last_nonce' = last_nonce
      BY <2>3 DEF core, Entries, earned, last_nonce, balance_for
    <3> QED
      BY <2>1, <2>3, <3>1 DEF core, BackedIInv, ReputationBacked
  <2> QED
    BY <2>2, <2>3
<1>3. BackedIInv => ReputationBacked
  BY DEF BackedIInv
<1> QED
  BY <1>1, <1>2, <1>3, PTL DEF Spec

-----------------------------------------------------------------------------
(* The auditor *)

LEMMA InitCoreAudit == AuditInit => CoreAuditIInv
<1> SUFFICES ASSUME AuditInit PROVE CoreAuditIInv
  OBVIOUS
<1>1. CoreIInv
  BY InitCoreIInv DEF AuditInit
<1>2. /\ issued \in [MerchantId -> [Epoch -> Int]]
      /\ in_order \subseteq MerchantId
  BY DEF AuditInit
<1>3. EpochCounterExact
  BY DEF AuditInit, Init, EpochCounterExact, balance_for, Default
<1>4. EpochCapInOrder
  BY CoreAssumption DEF AuditInit, EpochCapInOrder, Merchant, U64
<1> QED
  BY <1>1, <1>2, <1>3, <1>4 DEF CoreAuditIInv

\* A receipt adds its credit to the last epoch, or opens a later one.
LEMMA AccrueCoreAudit ==
  ASSUME CoreAuditIInv, NEW epoch \in Epoch, AuditAccrue(epoch)
  PROVE  CoreAuditIInv'
<1>1. AccrueAt(epoch) /\ CoreIInv
  BY DEF AuditAccrue, CoreAuditIInv
<1>2. CoreIInv'
  BY <1>1, AccrueCoreIInv
<1>3. PICK m \in Merchant, nonce \in U64, amount \in U64, rules \in CoalitionRules :
        Accrue(m, nonce, amount, epoch, rules)
  BY <1>1 DEF AccrueAt
<1> DEFINE old == balance_for(m.id)
           today == earned_this_epoch(m.id, epoch)
<1>4. PICK credit \in Nat \ {0} :
        /\ old.earned_units + credit \in U64
        /\ today \in Nat
        /\ today + credit \in U64
        /\ today + credit <= m.daily_cap
        /\ balances' = [balances EXCEPT ![m.id] =
             [earned_units |-> old.earned_units + credit,
              redeemed_units |-> old.redeemed_units,
              earned_this_epoch |-> today + credit,
              cap_epoch |-> epoch,
              last_receipt_nonce |-> nonce]]
  BY <1>1, <1>3, AccrueEffect
<1>5. /\ m.id \in MerchantId
      /\ old \in MerchantBalance
  BY <1>1, EntryFacts
<1> DEFINE new == [earned_units |-> old.earned_units + credit,
                   redeemed_units |-> old.redeemed_units,
                   earned_this_epoch |-> today + credit,
                   cap_epoch |-> epoch,
                   last_receipt_nonce |-> nonce]
<1>6. /\ balances'[m.id] = new
      /\ \A id \in MerchantId : id # m.id => balances'[id] = balances[id]
  BY <1>1, <1>4, <1>5 DEF CoreIInv, CoreTypeOK
<1>7. balance_for(m.id)' = new
  <2>1. new \in MerchantBalance
    BY <1>4, <1>5, CoreAssumption DEF MerchantBalance
  <2> QED
    BY <1>6, <2>1, NoBalanceAssumption DEF balance_for
<1>8. \A id \in MerchantId : id # m.id => balance_for(id)' = balance_for(id)
  BY <1>6 DEF balance_for
<1>9. today = IF old.cap_epoch = epoch THEN old.earned_this_epoch ELSE 0
  BY DEF earned_this_epoch
<1>10. /\ new.earned_units = old.earned_units + credit
       /\ new.earned_this_epoch = today + credit
       /\ new.cap_epoch = epoch
  OBVIOUS
<1>11. old.earned_units \in Nat /\ old.cap_epoch \in Nat
  BY <1>5 DEF MerchantBalance, U64
<1> HIDE DEF old, today, new
<1>12. issued' = [id \in MerchantId |->
         [issued[id] EXCEPT ![epoch] = @ + (balance_for(id)'.earned_units - balance_for(id).earned_units)]]
  BY DEF AuditAccrue, earned
<1>13. \A id \in MerchantId : balance_for(id).earned_units \in Int
  BY <1>1, CoreAssumption
  DEF CoreIInv, CoreTypeOK, balance_for, Default, MerchantBalance, U64
<1>14. \A id \in MerchantId : id # m.id => issued'[id] = issued[id]
  <2> SUFFICES ASSUME NEW id \in MerchantId, id # m.id PROVE issued'[id] = issued[id]
    OBVIOUS
  <2>1. issued[id] \in [Epoch -> Int]
    BY DEF CoreAuditIInv
  <2>2. issued'[id] =
          [issued[id] EXCEPT ![epoch] = @ + (balance_for(id).earned_units - balance_for(id).earned_units)]
    BY <1>8, <1>12
  <2>3. issued[id][epoch] + (balance_for(id).earned_units - balance_for(id).earned_units)
          = issued[id][epoch]
    BY <1>13, <2>1
  <2> QED
    BY <2>1, <2>2, <2>3
<1>15. issued'[m.id] = [issued[m.id] EXCEPT ![epoch] = @ + credit]
  <2>1. issued'[m.id] =
          [issued[m.id] EXCEPT ![epoch] = @ + (new.earned_units - old.earned_units)]
    BY <1>5, <1>7, <1>12 DEF old
  <2>2. new.earned_units - old.earned_units = credit
    BY <1>10, <1>11
  <2> QED
    BY <2>1, <2>2
<1>16. issued[m.id] \in [Epoch -> Int]
  BY <1>5 DEF CoreAuditIInv
<1>17. /\ issued'[m.id][epoch] = issued[m.id][epoch] + credit
       /\ \A e \in Epoch : e # epoch => issued'[m.id][e] = issued[m.id][e]
  BY <1>15, <1>16
<1>18. issued' \in [MerchantId -> [Epoch -> Int]]
  <2>1. issued'[m.id] \in [Epoch -> Int]
    BY <1>15, <1>16
  <2>2. \A id \in MerchantId : issued'[id] \in [Epoch -> Int]
    BY <1>14, <2>1 DEF CoreAuditIInv
  <2> QED
    BY <1>12, <2>2
<1>19. /\ in_order' \subseteq in_order
       /\ in_order' \subseteq MerchantId
       /\ m.id \in in_order' => epoch >= old.cap_epoch
  BY <1>7, <1>10 DEF AuditAccrue, CoreAuditIInv, old
<1>20. EpochCounterExact'
  <2> SUFFICES ASSUME NEW id \in in_order', NEW e \in Epoch
               PROVE  /\ e = balance_for(id)'.cap_epoch =>
                           issued'[id][e] = balance_for(id)'.earned_this_epoch
                      /\ e > balance_for(id)'.cap_epoch => issued'[id][e] = 0
    BY DEF EpochCounterExact
  <2>1. id \in in_order /\ id \in MerchantId
    BY <1>19
  <2>2. CASE id # m.id
    <3>1. balance_for(id)' = balance_for(id) /\ issued'[id] = issued[id]
      BY <1>8, <1>14, <2>1, <2>2
    <3> QED
      BY <2>1, <3>1 DEF CoreAuditIInv, EpochCounterExact
  <2>3. CASE id = m.id
    <3>1. epoch >= old.cap_epoch
      BY <1>19, <2>3
    <3>2. /\ \A d \in Epoch : d = old.cap_epoch => issued[m.id][d] = old.earned_this_epoch
          /\ \A d \in Epoch : d > old.cap_epoch => issued[m.id][d] = 0
      BY <2>1, <2>3 DEF CoreAuditIInv, EpochCounterExact, old
    <3>3. epoch \in Nat /\ e \in Nat
      BY CoreAssumption
    <3>4. issued[m.id][epoch] = today
      BY <1>9, <1>11, <3>1, <3>2, <3>3
    <3>5. issued'[m.id][epoch] = new.earned_this_epoch
      BY <1>10, <1>17, <3>4
    <3>6. e > epoch => issued'[m.id][e] = 0
      BY <1>11, <1>17, <3>1, <3>2, <3>3
    <3> QED
      BY <1>7, <1>10, <2>3, <3>5, <3>6
  <2> QED
    BY <2>2, <2>3
<1>21. EpochCapInOrder'
  <2> SUFFICES ASSUME NEW n \in Merchant, NEW e \in Epoch, n.id \in in_order'
               PROVE  issued'[n.id][e] <= n.daily_cap
    BY DEF EpochCapInOrder, Merchant
  <2>1. n.id \in in_order /\ n.id \in MerchantId
    BY <1>19
  <2>2. CASE n.id # m.id \/ e # epoch
    <3>1. issued'[n.id][e] = issued[n.id][e]
      BY <1>14, <1>17, <2>1, <2>2
    <3> QED
      BY <2>1, <3>1 DEF CoreAuditIInv, EpochCapInOrder
  <2>3. CASE n.id = m.id /\ e = epoch
    <3>1. n = m
      BY <2>3, ImmutableParameters DEF Merchant
    <3>2. issued'[m.id][epoch] = new.earned_this_epoch
      BY <1>7, <1>10, <1>20, <2>3 DEF EpochCounterExact
    <3> QED
      BY <1>4, <1>10, <2>3, <3>1, <3>2
  <2> QED
    BY <2>2, <2>3
<1> QED
  BY <1>2, <1>18, <1>19, <1>20, <1>21 DEF CoreAuditIInv

\* A redemption issues nothing and touches no counter.
LEMMA RedeemCoreAudit ==
  ASSUME CoreAuditIInv, RedeemAny, UNCHANGED <<issued, in_order>>
  PROVE  CoreAuditIInv'
<1>1. CoreIInv'
  BY RedeemCoreIInv DEF CoreAuditIInv
<1>2. \A id \in MerchantId :
        /\ balance_for(id)'.cap_epoch = balance_for(id).cap_epoch
        /\ balance_for(id)'.earned_this_epoch = balance_for(id).earned_this_epoch
  <2>1. PICK i \in MerchantId, units \in U64 : Redeem(i, units)
    BY DEF RedeemAny
  <2> DEFINE new == [balances[i] EXCEPT !.redeemed_units = @ + units]
  <2>2. /\ balances[i] # NoBalance
        /\ balances[i] \in MerchantBalance
        /\ balances \in [MerchantId -> MerchantBalance \cup {NoBalance}]
    BY <2>1 DEF Redeem, CoreAuditIInv, CoreIInv, CoreTypeOK
  <2>3. /\ new \in MerchantBalance
        /\ new.cap_epoch = balances[i].cap_epoch
        /\ new.earned_this_epoch = balances[i].earned_this_epoch
    BY <2>1, <2>2 DEF Redeem, MerchantBalance
  <2>4. balances' = [balances EXCEPT ![i] = new]
    BY <2>1 DEF Redeem
  <2> HIDE DEF new
  <2>5. /\ balances'[i] = new
        /\ new # NoBalance
        /\ \A id \in MerchantId : id # i => balances'[id] = balances[id]
    BY <2>2, <2>3, <2>4, NoBalanceAssumption
  <2> QED
    BY <2>2, <2>3, <2>5 DEF balance_for
<1>3. EpochCounterExact'
  BY <1>2 DEF CoreAuditIInv, EpochCounterExact
<1>4. EpochCapInOrder'
  BY DEF CoreAuditIInv, EpochCapInOrder, Merchant
<1> QED
  BY <1>1, <1>3, <1>4 DEF CoreAuditIInv

LEMMA NextCoreAudit == CoreAuditIInv /\ [AuditNext]_auditVars => CoreAuditIInv'
<1> SUFFICES ASSUME CoreAuditIInv, [AuditNext]_auditVars PROVE CoreAuditIInv'
  OBVIOUS
<1>1. CASE UNCHANGED auditVars
  BY <1>1
  DEF auditVars, CoreAuditIInv, CoreIInv, CoreTypeOK, EntriesSound, EpochCounterCapped,
      EpochCounterExact, EpochCapInOrder, Merchant, balance_for
<1>2. CASE AuditNext
  BY <1>2, AccrueCoreAudit, RedeemCoreAudit DEF AuditNext
<1> QED
  BY <1>1, <1>2

\* With its epochs in order a merchant never issues more than its cap in any
\* epoch, whatever rules and merchants come in between (lib.rs 259-308).
THEOREM EpochCapWhenInOrder == AuditSpec => []EpochCapInOrder
<1>1. AuditInit => CoreAuditIInv
  BY InitCoreAudit
<1>2. CoreAuditIInv /\ [AuditNext]_auditVars => CoreAuditIInv'
  BY NextCoreAudit
<1>3. CoreAuditIInv => EpochCapInOrder
  BY DEF CoreAuditIInv
<1> QED
  BY <1>1, <1>2, <1>3, PTL DEF AuditSpec

-----------------------------------------------------------------------------
(* The ledger *)

\* What is spendable of an entry that is not overdrawn, saturating_sub or not.
LEMMA AvailableIs ==
  ASSUME CoreIInv
  PROVE  \A id \in MerchantId :
           /\ balance_for(id) \in MerchantBalance
           /\ available_units(id) = balance_for(id).earned_units - balance_for(id).redeemed_units
           /\ available_units(id) \in Nat
<1> SUFFICES ASSUME NEW id \in MerchantId
             PROVE  /\ balance_for(id) \in MerchantBalance
                    /\ available_units(id) =
                         balance_for(id).earned_units - balance_for(id).redeemed_units
                    /\ available_units(id) \in Nat
  OBVIOUS
<1>1. CASE balances[id] = NoBalance
  <2>1. balance_for(id) = Default /\ Default \in MerchantBalance
    BY <1>1, CoreAssumption DEF balance_for, Default, MerchantBalance, U64
  <2> QED
    BY <2>1 DEF Default, available_units, saturating_sub
<1>2. CASE balances[id] # NoBalance
  <2>1. /\ balance_for(id) = balances[id]
        /\ balances[id] \in MerchantBalance
        /\ balances[id].redeemed_units <= balances[id].earned_units
    BY <1>2 DEF balance_for, CoreIInv, CoreTypeOK, EntriesSound
  <2> QED
    BY <2>1, CoreAssumption DEF available_units, saturating_sub, MerchantBalance, U64
<1> QED
  BY <1>1, <1>2

\* Only the entry of id changes, so only its credit does.
LEMMA CreditOfOne ==
  ASSUME NEW id \in MerchantId, NEW n \in Int,
         available_units(id)' = available_units(id) + n,
         \A i \in MerchantId : i # id => available_units(i)' = available_units(i)
  PROVE  creditOf' = [creditOf EXCEPT ![<<"customer", id>>] = creditOf[<<"customer", id>>] + n]
<1> DEFINE K == {"customer"} \X MerchantId
           k == <<"customer", id>>
<1>1. k \in K /\ creditOf'[k] = creditOf[k] + n
  BY DEF creditOf
<1>2. \A a \in K : a # k => creditOf'[a] = creditOf[a]
  BY DEF creditOf
<1>3. /\ creditOf = [a \in K |-> creditOf[a]]
      /\ creditOf' = [a \in K |-> creditOf'[a]]
  BY DEF creditOf
<1> HIDE DEF K, k
<1> QED
  BY <1>1, <1>2, <1>3 DEF k

\* accrue is an issue by its merchant.
LEMMA AccrueMapsToIssue ==
  ASSUME CoreIInv, NEW epoch \in Epoch, AccrueAt(epoch)
  PROVE  Ledger!Next
<1>1. PICK m \in Merchant, nonce \in U64, amount \in U64, rules \in CoalitionRules :
        Accrue(m, nonce, amount, epoch, rules)
  BY DEF AccrueAt
<1>2. PICK credit \in Nat \ {0}, delta \in Nat \ {0} :
           /\ credit <= MaxU64 /\ delta <= credit
           /\ balances' = [balances EXCEPT ![m.id] = balances'[m.id]]
           /\ balances'[m.id] \in MerchantBalance
           /\ balances'[m.id].earned_units = balance_for(m.id).earned_units + credit
           /\ balances'[m.id].redeemed_units = balance_for(m.id).redeemed_units
           /\ balances'[m.id].last_receipt_nonce = nonce
           /\ nonce > balance_for(m.id).last_receipt_nonce
           /\ total_visits' = total_visits + 1
           /\ streak_points' = streak_points + delta
  BY <1>1, AccrueAdds
<1> DEFINE id == m.id
<1>3. id \in MerchantId
  BY EntryFacts
<1>4. /\ balance_for(id)' = balances'[id]
      /\ \A i \in MerchantId : i # id => balance_for(i)' = balance_for(i)
  BY <1>2, <1>3, NoBalanceAssumption DEF CoreIInv, CoreTypeOK, balance_for
<1>5. available_units(id)' = available_units(id) + credit
  <2>1. /\ balance_for(id) \in MerchantBalance
        /\ available_units(id) = balance_for(id).earned_units - balance_for(id).redeemed_units
        /\ available_units(id) \in Nat
    BY <1>3, AvailableIs
  <2>2. /\ balance_for(id).earned_units \in Nat /\ balance_for(id).redeemed_units \in Nat
        /\ balance_for(id).earned_units >= balance_for(id).redeemed_units
    BY <2>1, CoreAssumption DEF MerchantBalance, U64
  <2>3. /\ balance_for(id)'.earned_units = balance_for(id).earned_units + credit
        /\ balance_for(id)'.redeemed_units = balance_for(id).redeemed_units
    BY <1>2, <1>4
  <2>4. available_units(id)' =
          saturating_sub(balance_for(id)'.earned_units, balance_for(id)'.redeemed_units)
    BY DEF available_units
  <2> HIDE DEF id
  <2> QED
    BY <2>1, <2>2, <2>3, <2>4 DEF saturating_sub
<1>6. \A i \in MerchantId : i # id => available_units(i)' = available_units(i)
  BY <1>4 DEF available_units
<1> HIDE DEF id
<1>7. creditOf' = [creditOf EXCEPT ![<<"customer", id>>] = creditOf[<<"customer", id>>] + credit]
  BY <1>3, <1>5, <1>6, CreditOfOne
<1>8. reputationOf' = [reputationOf EXCEPT !["customer"] = reputationOf["customer"] + delta]
  BY <1>2 DEF reputationOf
<1>9. Ledger!Issue("customer", id, credit, delta)
  BY <1>2, <1>7, <1>8 DEF Ledger!Issue
<1>10. credit \in U64 \ {0} /\ delta \in U64 \ {0}
  BY <1>2, CoreAssumption DEF U64
<1> QED
  BY <1>3, <1>9, <1>10 DEF Ledger!Next

\* redeem is a spend of what is there.
LEMMA RedeemMapsToSpend ==
  ASSUME CoreIInv, RedeemAny
  PROVE  Ledger!Next
<1>1. PICK id \in MerchantId, units \in U64 : Redeem(id, units)
  BY DEF RedeemAny
<1> DEFINE new == [balances[id] EXCEPT !.redeemed_units = @ + units]
<1>2. /\ units > 0 /\ units <= available_units(id)
      /\ balances[id] # NoBalance
      /\ balances[id] \in MerchantBalance
      /\ balances' = [balances EXCEPT ![id] = new]
      /\ UNCHANGED streak_points
  BY <1>1 DEF Redeem, Available, CoreIInv, CoreTypeOK
<1>3. /\ new \in MerchantBalance
      /\ new.earned_units = balances[id].earned_units
      /\ new.redeemed_units = balances[id].redeemed_units + units
  BY <1>1, <1>2 DEF Redeem, MerchantBalance
<1> HIDE DEF new
<1>4. /\ balance_for(id) = balances[id]
      /\ balance_for(id)' = new
      /\ \A i \in MerchantId : i # id => balance_for(i)' = balance_for(i)
  BY <1>2, <1>3, NoBalanceAssumption DEF CoreIInv, CoreTypeOK, balance_for
<1>5. /\ balance_for(id) \in MerchantBalance
      /\ available_units(id) = balance_for(id).earned_units - balance_for(id).redeemed_units
      /\ available_units(id) \in Nat
  BY AvailableIs
<1>6. available_units(id)' = available_units(id) + (-units)
  <2>1. available_units(id)' = saturating_sub(new.earned_units, new.redeemed_units)
    BY <1>4 DEF available_units
  <2>2. new.earned_units \in Nat /\ new.redeemed_units \in Nat /\ units \in Nat
    BY <1>1, <1>3, CoreAssumption DEF MerchantBalance, U64
  <2>3. new.earned_units - new.redeemed_units >= 0
    <3>1. balances[id].earned_units \in Nat /\ balances[id].redeemed_units \in Nat
      BY <1>2, CoreAssumption DEF MerchantBalance, U64
    <3>2. units <= balances[id].earned_units - balances[id].redeemed_units
      BY <1>2, <1>4, <1>5
    <3> QED
      BY <1>3, <2>2, <3>1, <3>2
  <2>4. available_units(id)' = new.earned_units - new.redeemed_units
    BY <2>1, <2>2, <2>3 DEF saturating_sub
  <2> QED
    BY <1>3, <1>4, <1>5, <2>2, <2>4, CoreAssumption DEF MerchantBalance, U64
<1>7. \A i \in MerchantId : i # id => available_units(i)' = available_units(i)
  BY <1>4 DEF available_units
<1>8. creditOf' = [creditOf EXCEPT ![<<"customer", id>>] = creditOf[<<"customer", id>>] + (-units)]
  <2>1. -units \in Int
    BY CoreAssumption DEF U64
  <2> QED
    BY <1>6, <1>7, <2>1, CreditOfOne
<1>9. creditOf[<<"customer", id>>] = available_units(id)
  BY DEF creditOf
<1>10. creditOf' = [creditOf EXCEPT ![<<"customer", id>>] = @ - units]
  <2>1. creditOf[<<"customer", id>>] + (-units) = creditOf[<<"customer", id>>] - units
    BY <1>5, <1>9, CoreAssumption DEF U64
  <2> QED
    BY <1>8, <2>1
<1>11. Ledger!Spend("customer", id, units)
  BY <1>2, <1>9, <1>10 DEF Ledger!Spend, reputationOf
<1>12. units \in U64 \ {0}
  BY <1>2, CoreAssumption DEF U64
<1> QED
  BY <1>11, <1>12 DEF Ledger!Next

\* The crate implements the ledger of isolated credit and unspendable
\* reputation, for every set of merchants, rules and epochs (lib.rs 224-358).
THEOREM CrateImplementsLedger == Spec => CoreImplementsLedger
<1>1. Init => Ledger!Init
  <2> SUFFICES ASSUME Init PROVE Ledger!Init
    OBVIOUS
  <2>1. \A id \in MerchantId : available_units(id) = 0
    BY DEF Init, available_units, saturating_sub, balance_for, Default
  <2>2. creditOf = [a \in {"customer"} \X MerchantId |-> 0]
    BY <2>1 DEF creditOf
  <2>3. reputationOf = [h \in {"customer"} |-> 0]
    BY DEF Init, reputationOf
  <2> QED
    BY <2>2, <2>3 DEF Ledger!Init
<1>2. CoreIInv /\ [Next]_core => [Ledger!Next]_(Ledger!ledger)
  <2> SUFFICES ASSUME CoreIInv, [Next]_core PROVE [Ledger!Next]_(Ledger!ledger)
    OBVIOUS
  <2>1. CASE Next
    BY <2>1, AccrueMapsToIssue, RedeemMapsToSpend DEF Next
  <2>2. CASE UNCHANGED core
    BY <2>2 DEF core, Ledger!ledger, creditOf, reputationOf, available_units, balance_for
  <2> QED
    BY <2>1, <2>2
<1> QED
  BY <1>1, <1>2, CoreInvariance, PTL DEF Spec, CoreImplementsLedger, Ledger!Spec

-----------------------------------------------------------------------------
(* Single statements *)

\* The statement at each position, and what it asks for.
LEMMA AccrueStatements ==
  ASSUME call.body = accrue_body, call.at \in 1 .. 13
  PROVE  /\ call.at \in DOMAIN call.body <=> call.at < 13
         /\ Len(call.body) = 12
         /\ call.at = 1 => call.body[call.at] = "amount" /\ (Passes <=> call.amount > 0)
         /\ call.at = 2 => call.body[call.at] = "nonce" /\ (Passes <=> NonceFresh(call.m, call.nonce, call.epoch))
         /\ call.at = 3 => call.body[call.at] = "cap" /\ (Passes <=> remaining_cap(call.m, call.epoch) > 0)
         /\ call.at = 4 => call.body[call.at] = "product" /\ (Passes <=> call.amount * call.m.earn_bps \in U64)
         /\ call.at = 5 => call.body[call.at] = "credit" /\ (Passes <=> credit_units(call.m, call.amount, call.epoch) > 0)
         /\ call.at = 6 => call.body[call.at] = "new_earned" /\ (Passes <=> balance_for(call.m.id).earned_units + call.credit \in U64)
         /\ call.at = 7 => call.body[call.at] = "new_epoch_earned" /\ (Passes <=> earned_this_epoch(call.m.id, call.epoch) + call.credit \in U64)
         /\ call.at = 8 => call.body[call.at] = "new_visits" /\ (Passes <=> total_visits + 1 \in U64)
         /\ call.at = 9 => call.body[call.at] = "new_streak" /\ (Passes <=> streak_points + streak_delta(call.credit, call.rules) \in U64)
         /\ call.at = 10 => call.body[call.at] = "insert" /\ Passes
         /\ call.at = 11 => call.body[call.at] = "total_visits" /\ Passes
         /\ call.at = 12 => call.body[call.at] = "streak_points" /\ Passes
<1>1. /\ Len(accrue_body) = 12 /\ DOMAIN accrue_body = 1 .. 12
      /\ accrue_body[1] = "amount" /\ accrue_body[2] = "nonce" /\ accrue_body[3] = "cap"
      /\ accrue_body[4] = "product" /\ accrue_body[5] = "credit"
      /\ accrue_body[6] = "new_earned" /\ accrue_body[7] = "new_epoch_earned"
      /\ accrue_body[8] = "new_visits" /\ accrue_body[9] = "new_streak"
      /\ accrue_body[10] = "insert" /\ accrue_body[11] = "total_visits"
      /\ accrue_body[12] = "streak_points"
  BY DEF accrue_body
<1>2. ASSUME call.at = 1 PROVE call.body[call.at] = "amount" /\ (Passes <=> call.amount > 0)
  BY <1>1, <1>2 DEF Passes
<1>3. ASSUME call.at = 2 PROVE call.body[call.at] = "nonce" /\ (Passes <=> NonceFresh(call.m, call.nonce, call.epoch))
  BY <1>1, <1>3 DEF Passes
<1>4. ASSUME call.at = 3 PROVE call.body[call.at] = "cap" /\ (Passes <=> remaining_cap(call.m, call.epoch) > 0)
  BY <1>1, <1>4 DEF Passes
<1>5. ASSUME call.at = 4 PROVE call.body[call.at] = "product" /\ (Passes <=> call.amount * call.m.earn_bps \in U64)
  BY <1>1, <1>5 DEF Passes
<1>6. ASSUME call.at = 5 PROVE call.body[call.at] = "credit" /\ (Passes <=> credit_units(call.m, call.amount, call.epoch) > 0)
  BY <1>1, <1>6 DEF Passes
<1>7. ASSUME call.at = 6 PROVE call.body[call.at] = "new_earned" /\ (Passes <=> balance_for(call.m.id).earned_units + call.credit \in U64)
  BY <1>1, <1>7 DEF Passes
<1>8. ASSUME call.at = 7 PROVE call.body[call.at] = "new_epoch_earned" /\ (Passes <=> earned_this_epoch(call.m.id, call.epoch) + call.credit \in U64)
  BY <1>1, <1>8 DEF Passes
<1>9. ASSUME call.at = 8 PROVE call.body[call.at] = "new_visits" /\ (Passes <=> total_visits + 1 \in U64)
  BY <1>1, <1>9 DEF Passes
<1>10. ASSUME call.at = 9 PROVE call.body[call.at] = "new_streak" /\ (Passes <=> streak_points + streak_delta(call.credit, call.rules) \in U64)
  BY <1>1, <1>10 DEF Passes
<1>11. ASSUME call.at = 10 PROVE call.body[call.at] = "insert" /\ Passes
  BY <1>1, <1>11 DEF Passes
<1>12. ASSUME call.at = 11 PROVE call.body[call.at] = "total_visits" /\ Passes
  BY <1>1, <1>12 DEF Passes
<1>13. ASSUME call.at = 12 PROVE call.body[call.at] = "streak_points" /\ Passes
  BY <1>1, <1>13 DEF Passes
<1> QED
  BY <1>1, <1>2, <1>3, <1>4, <1>5, <1>6, <1>7, <1>8, <1>9, <1>10, <1>11, <1>12, <1>13

LEMMA RedeemStatements ==
  ASSUME call.body = redeem_body, call.at \in 1 .. 5
  PROVE  /\ call.at \in DOMAIN call.body <=> call.at < 5
         /\ Len(call.body) = 4
         /\ call.at = 1 => call.body[call.at] = "units" /\ (Passes <=> call.units > 0)
         /\ call.at = 2 => /\ call.body[call.at] = "entry"
                           /\ Passes <=> balances[call.id] # NoBalance
         /\ call.at = 3 => /\ call.body[call.at] = "available"
                           /\ Passes <=> Available(call.id, call.units)
         /\ call.at = 4 => /\ call.body[call.at] = "redeemed_units"
                           /\ Passes <=> balances[call.id].redeemed_units + call.units \in U64
<1>1. /\ Len(redeem_body) = 4 /\ DOMAIN redeem_body = 1 .. 4
      /\ redeem_body[1] = "units" /\ redeem_body[2] = "entry"
      /\ redeem_body[3] = "available" /\ redeem_body[4] = "redeemed_units"
  BY DEF redeem_body
<1>2. ASSUME call.at = 1 PROVE call.body[call.at] = "units" /\ (Passes <=> call.units > 0)
  BY <1>1, <1>2 DEF Passes
<1>3. ASSUME call.at = 2
      PROVE  call.body[call.at] = "entry" /\ (Passes <=> balances[call.id] # NoBalance)
  BY <1>1, <1>3 DEF Passes
<1>4. ASSUME call.at = 3
      PROVE  call.body[call.at] = "available" /\ (Passes <=> Available(call.id, call.units))
  BY <1>1, <1>4 DEF Passes
<1>5. ASSUME call.at = 4
      PROVE  /\ call.body[call.at] = "redeemed_units"
             /\ Passes <=> balances[call.id].redeemed_units + call.units \in U64
  BY <1>1, <1>5 DEF Passes
<1> QED
  BY <1>1, <1>2, <1>3, <1>4, <1>5

\* Until the first write, what the statements read is what the owner last saw.
LEMMA NothingWritten ==
  ASSUME balances = settled.balances, total_visits = settled.total_visits,
         streak_points = settled.streak_points
  PROVE  /\ \A id : Atomic!balance_for(id) = balance_for(id)
         /\ \A id, epoch : Atomic!earned_this_epoch(id, epoch) = earned_this_epoch(id, epoch)
         /\ \A m, epoch : Atomic!remaining_cap(m, epoch) = remaining_cap(m, epoch)
         /\ \A m, amount, epoch :
              Atomic!credit_units(m, amount, epoch) = credit_units(m, amount, epoch)
         /\ \A m, nonce, epoch :
              Atomic!NonceFresh(m, nonce, epoch) <=> NonceFresh(m, nonce, epoch)
         /\ \A id, units : Atomic!Available(id, units) <=> Available(id, units)
<1>1. \A id : Atomic!balance_for(id) = balance_for(id)
  BY DEF Atomic!balance_for, balance_for, Atomic!Default, Default
<1>2. \A id, epoch : Atomic!earned_this_epoch(id, epoch) = earned_this_epoch(id, epoch)
  BY <1>1 DEF Atomic!earned_this_epoch, earned_this_epoch
<1>3. \A m, epoch : Atomic!remaining_cap(m, epoch) = remaining_cap(m, epoch)
  BY <1>2 DEF Atomic!remaining_cap, remaining_cap, Atomic!saturating_sub, saturating_sub
<1>4. \A m, amount, epoch :
        Atomic!credit_units(m, amount, epoch) = credit_units(m, amount, epoch)
  BY <1>3 DEF Atomic!credit_units, credit_units, Atomic!raw_credit, raw_credit,
              Atomic!Smaller, Smaller
<1>5. \A m, nonce, epoch :
        Atomic!NonceFresh(m, nonce, epoch) <=> NonceFresh(m, nonce, epoch)
  BY <1>1 DEF Atomic!NonceFresh, NonceFresh
<1>6. \A id, units : Atomic!Available(id, units) <=> Available(id, units)
  BY <1>1 DEF Atomic!Available, Available, Atomic!available_units, available_units,
              Atomic!saturating_sub, saturating_sub
<1> QED
  BY <1>1, <1>2, <1>3, <1>4, <1>5, <1>6

LEMMA CallAtWork ==
  \A c : c.body \in {accrue_body, redeem_body} => c # NoCall
<1>1. Len(accrue_body) = 12
  BY DEF accrue_body
<1>2. Len(redeem_body) = 4
  BY DEF redeem_body
<1>3. Len(NoCall.body) = 0
  BY DEF NoCall
<1> SUFFICES ASSUME NEW c, c.body \in {accrue_body, redeem_body}, c = NoCall
             PROVE  FALSE
  OBVIOUS
<1>4. Len(c.body) \in {12, 4}
  BY <1>1, <1>2
<1> QED
  BY <1>3, <1>4

\* What a statement inside a call of accrue does to the call, and to the memory.
LEMMA AccrueSteps ==
  ASSUME call.body = accrue_body, call \in AnyAccrueCall, CallsNext
  PROVE  \/ Fail \/ Return
         \/ /\ call.at < 10 /\ call.at # 5 /\ Passes /\ UNCHANGED core
            /\ call' = [call EXCEPT !.at = @ + 1]
         \/ call.at = 5 /\ ComputeCredit
         \/ call.at = 10 /\ InsertEntry
         \/ call.at = 11 /\ AssignVisits
         \/ call.at = 12 /\ AssignStreak
<1>1. call # NoCall
  BY CallAtWork
<1>2. call.at \in 1 .. 13
  BY DEF AnyAccrueCall
<1>3. /\ call.at \in DOMAIN call.body <=> call.at < 13
      /\ call.at = 1 => call.body[call.at] = "amount"
      /\ call.at = 2 => call.body[call.at] = "nonce"
      /\ call.at = 3 => call.body[call.at] = "cap"
      /\ call.at = 4 => call.body[call.at] = "product"
      /\ call.at = 5 => call.body[call.at] = "credit"
      /\ call.at = 6 => call.body[call.at] = "new_earned"
      /\ call.at = 7 => call.body[call.at] = "new_epoch_earned"
      /\ call.at = 8 => call.body[call.at] = "new_visits"
      /\ call.at = 9 => call.body[call.at] = "new_streak"
      /\ call.at = 10 => call.body[call.at] = "insert"
      /\ call.at = 11 => call.body[call.at] = "total_visits"
      /\ call.at = 12 => call.body[call.at] = "streak_points"
  BY <1>2, AccrueStatements
<1>4. CASE Begin
  BY <1>1, <1>4 DEF Begin
<1>5. CASE Check
  <2>1. /\ call.at < 13 /\ Passes /\ UNCHANGED core /\ call' = [call EXCEPT !.at = @ + 1]
        /\ call.body[call.at] \in {"amount", "nonce", "cap", "product", "new_earned",
             "new_epoch_earned", "new_visits", "new_streak", "units", "entry", "available"}
    BY <1>3, <1>5 DEF Check, At, Forward
  <2>2. call.at \notin {5, 10, 11, 12}
    BY <1>3, <2>1
  <2> QED
    BY <1>2, <2>1, <2>2
<1>6. CASE ComputeCredit
  <2>1. call.at < 13 /\ call.body[call.at] = "credit"
    BY <1>3, <1>6 DEF ComputeCredit, At
  <2>2. call.at = 5
    BY <1>2, <1>3, <2>1
  <2> QED
    BY <1>6, <2>2
<1>7. CASE InsertEntry
  <2>1. call.at < 13 /\ call.body[call.at] = "insert"
    BY <1>3, <1>7 DEF InsertEntry, At
  <2>2. call.at = 10
    BY <1>2, <1>3, <2>1
  <2> QED
    BY <1>7, <2>2
<1>8. CASE AssignVisits
  <2>1. call.at < 13 /\ call.body[call.at] = "total_visits"
    BY <1>3, <1>8 DEF AssignVisits, At
  <2>2. call.at = 11
    BY <1>2, <1>3, <2>1
  <2> QED
    BY <1>8, <2>2
<1>9. CASE AssignStreak
  <2>1. call.at < 13 /\ call.body[call.at] = "streak_points"
    BY <1>3, <1>9 DEF AssignStreak, At
  <2>2. call.at = 12
    BY <1>2, <1>3, <2>1
  <2> QED
    BY <1>9, <2>2
<1>10. CASE AssignRedeemed
  <2>1. call.at < 13 /\ call.body[call.at] = "redeemed_units"
    BY <1>3, <1>10 DEF AssignRedeemed, At
  <2> QED
    BY <1>2, <1>3, <2>1
<1> QED
  BY <1>4, <1>5, <1>6, <1>7, <1>8, <1>9, <1>10 DEF CallsNext

LEMMA RedeemSteps ==
  ASSUME call.body = redeem_body, call \in AnyRedeemCall, CallsNext
  PROVE  \/ Fail \/ Return
         \/ /\ call.at < 4 /\ Passes /\ UNCHANGED core
            /\ call' = [call EXCEPT !.at = @ + 1]
         \/ call.at = 4 /\ AssignRedeemed
<1>1. call # NoCall
  BY CallAtWork
<1>2. call.at \in 1 .. 5
  BY DEF AnyRedeemCall
<1>3. /\ call.at \in DOMAIN call.body <=> call.at < 5
      /\ call.at = 1 => call.body[call.at] = "units"
      /\ call.at = 2 => call.body[call.at] = "entry"
      /\ call.at = 3 => call.body[call.at] = "available"
      /\ call.at = 4 => call.body[call.at] = "redeemed_units"
  BY <1>2, RedeemStatements
<1>4. call.at < 5 =>
        call.body[call.at] \in {"units", "entry", "available", "redeemed_units"}
  BY <1>2, <1>3
<1>5. CASE Begin
  BY <1>1, <1>5 DEF Begin
<1>6. CASE Check
  <2>1. /\ call.at < 5 /\ Passes /\ UNCHANGED core /\ call' = [call EXCEPT !.at = @ + 1]
        /\ call.body[call.at] # "redeemed_units"
    BY <1>3, <1>6 DEF Check, At, Forward
  <2> QED
    BY <1>2, <1>3, <2>1
<1>7. CASE ComputeCredit \/ InsertEntry \/ AssignVisits \/ AssignStreak
  <2>1. call.at < 5 /\ call.body[call.at] \in {"credit", "insert", "total_visits", "streak_points"}
    BY <1>3, <1>7 DEF ComputeCredit, InsertEntry, AssignVisits, AssignStreak, At
  <2> QED
    BY <1>4, <2>1
<1>8. CASE AssignRedeemed
  <2>1. call.at < 5 /\ call.body[call.at] = "redeemed_units"
    BY <1>3, <1>8 DEF AssignRedeemed, At
  <2>2. call.at = 4
    BY <1>2, <1>3, <2>1
  <2> QED
    BY <1>8, <2>2
<1> QED
  BY <1>5, <1>6, <1>7, <1>8 DEF CallsNext

\* While a call goes on, its owner sees what it found.
LEMMA OwnerSeesNothing ==
  ASSUME call.body \in {accrue_body, redeem_body}, call'.body = call.body,
         call'.before = call.before
  PROVE  settled' = settled /\ settled = call.before
<1>1. call # NoCall /\ call' # NoCall
  BY CallAtWork
<1> QED
  BY <1>1 DEF settled

\* The arguments and what the call found stay the same, so what was true of
\* them does.
LEMMA AccrueViewKept ==
  ASSUME call'.m = call.m, call'.nonce = call.nonce, call'.amount = call.amount,
         call'.epoch = call.epoch, settled' = settled
  PROVE  /\ Atomic!NonceFresh(call.m, call.nonce, call.epoch)'
              <=> Atomic!NonceFresh(call.m, call.nonce, call.epoch)
         /\ Atomic!remaining_cap(call.m, call.epoch)' = Atomic!remaining_cap(call.m, call.epoch)
         /\ Atomic!credit_units(call.m, call.amount, call.epoch)'
              = Atomic!credit_units(call.m, call.amount, call.epoch)
         /\ Atomic!balance_for(call.m.id)' = Atomic!balance_for(call.m.id)
         /\ Atomic!earned_this_epoch(call.m.id, call.epoch)'
              = Atomic!earned_this_epoch(call.m.id, call.epoch)
<1>1. Atomic!balance_for(call.m.id)' = Atomic!balance_for(call.m.id)
  BY DEF Atomic!balance_for, Atomic!Default
<1>2. Atomic!earned_this_epoch(call.m.id, call.epoch)'
        = Atomic!earned_this_epoch(call.m.id, call.epoch)
  BY DEF Atomic!earned_this_epoch, Atomic!balance_for, Atomic!Default
<1>3. Atomic!remaining_cap(call.m, call.epoch)' = Atomic!remaining_cap(call.m, call.epoch)
  BY DEF Atomic!remaining_cap, Atomic!saturating_sub, Atomic!earned_this_epoch,
         Atomic!balance_for, Atomic!Default
<1>4. Atomic!credit_units(call.m, call.amount, call.epoch)'
        = Atomic!credit_units(call.m, call.amount, call.epoch)
  BY DEF Atomic!credit_units, Atomic!raw_credit, Atomic!Smaller, Atomic!remaining_cap,
         Atomic!saturating_sub, Atomic!earned_this_epoch, Atomic!balance_for, Atomic!Default
<1>5. Atomic!NonceFresh(call.m, call.nonce, call.epoch)'
        <=> Atomic!NonceFresh(call.m, call.nonce, call.epoch)
  BY DEF Atomic!NonceFresh, Atomic!balance_for, Atomic!Default
<1> QED
  BY <1>1, <1>2, <1>3, <1>4, <1>5

LEMMA AccrueForward ==
  ASSUME call.body = accrue_body, call \in AnyAccrueCall, call.at < 13, NEW x,
         call' = [call EXCEPT !.at = @ + 1, !.credit = x]
  PROVE  /\ call'.body = accrue_body /\ (call \in AnyAccrueCall)'
         /\ call'.at = call.at + 1 /\ call'.credit = x
         /\ call'.m = call.m /\ call'.nonce = call.nonce /\ call'.amount = call.amount
         /\ call'.epoch = call.epoch /\ call'.rules = call.rules
         /\ settled' = settled
<1>1. /\ call'.body = call.body /\ call'.before = call.before
      /\ call'.at = call.at + 1 /\ call'.credit = x
      /\ call'.m = call.m /\ call'.nonce = call.nonce /\ call'.amount = call.amount
      /\ call'.epoch = call.epoch /\ call'.rules = call.rules
  BY DEF AnyAccrueCall
<1>2. call.at + 1 \in 1 .. 13
  BY DEF AnyAccrueCall
<1>3. (call \in AnyAccrueCall)'
  <2>1. /\ call.m \in Merchant /\ call.nonce \in U64 /\ call.amount \in U64
        /\ call.epoch \in Epoch /\ call.rules \in CoalitionRules
    BY DEF AnyAccrueCall
  <2>2. call' = [body |-> call'.body, at |-> call'.at, credit |-> call'.credit,
                 before |-> call'.before, m |-> call'.m, nonce |-> call'.nonce,
                 amount |-> call'.amount, epoch |-> call'.epoch, rules |-> call'.rules]
    BY DEF AnyAccrueCall
  <2> QED
    BY <1>1, <1>2, <2>1, <2>2 DEF AnyAccrueCall, Merchant, CoalitionRules, U64
<1>4. settled' = settled
  BY <1>1, OwnerSeesNothing
<1> QED
  BY <1>1, <1>3, <1>4

LEMMA AccrueOnward ==
  ASSUME call.body = accrue_body, call \in AnyAccrueCall, call.at < 13, NEW x,
         call' = [call EXCEPT !.at = @ + 1, !.credit = x],
         ChecksBehind(call.at + 1, x),
         passport' = WrittenBefore(call.at + 1, x)
  PROVE  CallsIInv'
<1>1. /\ call'.body = accrue_body /\ (call \in AnyAccrueCall)'
      /\ call'.at = call.at + 1 /\ call'.credit = x
      /\ call'.m = call.m /\ call'.nonce = call.nonce /\ call'.amount = call.amount
      /\ call'.epoch = call.epoch /\ call'.rules = call.rules
      /\ settled' = settled
  BY AccrueForward
<1>2. /\ Atomic!NonceFresh(call.m, call.nonce, call.epoch)'
           <=> Atomic!NonceFresh(call.m, call.nonce, call.epoch)
      /\ Atomic!remaining_cap(call.m, call.epoch)' = Atomic!remaining_cap(call.m, call.epoch)
      /\ Atomic!credit_units(call.m, call.amount, call.epoch)'
           = Atomic!credit_units(call.m, call.amount, call.epoch)
      /\ Atomic!balance_for(call.m.id)' = Atomic!balance_for(call.m.id)
      /\ Atomic!earned_this_epoch(call.m.id, call.epoch)'
           = Atomic!earned_this_epoch(call.m.id, call.epoch)
  BY <1>1, AccrueViewKept
<1>3. streak_delta(call.credit, call.rules)' = streak_delta(x, call.rules)
  BY <1>1 DEF streak_delta, Smaller
<1>4. ChecksBehind(call.at, call.credit)'
  BY <1>1, <1>2, <1>3 DEF ChecksBehind, U64
<1>5. WrittenBefore(call.at, call.credit)' = WrittenBefore(call.at + 1, x)
  BY <1>1, <1>2, <1>3 DEF WrittenBefore
<1> QED
  BY <1>1, <1>4, <1>5 DEF CallsIInv, AccrueProgress

LEMMA AccrueCallIInv ==
  ASSUME call.body = accrue_body, call \in AnyAccrueCall, AccrueProgress, CallsNext
  PROVE  CallsIInv'
<1>1. call.at \in 1 .. 13
  BY DEF AnyAccrueCall
<1>2. /\ call.at = 1 => (Passes <=> call.amount > 0)
      /\ call.at = 2 => (Passes <=> NonceFresh(call.m, call.nonce, call.epoch))
      /\ call.at = 3 => (Passes <=> remaining_cap(call.m, call.epoch) > 0)
      /\ call.at = 4 => (Passes <=> call.amount * call.m.earn_bps \in U64)
      /\ call.at = 5 => (Passes <=> credit_units(call.m, call.amount, call.epoch) > 0)
      /\ call.at = 6 => (Passes <=> balance_for(call.m.id).earned_units + call.credit \in U64)
      /\ call.at = 7 =>
           (Passes <=> earned_this_epoch(call.m.id, call.epoch) + call.credit \in U64)
      /\ call.at = 8 => (Passes <=> total_visits + 1 \in U64)
      /\ call.at = 9 =>
           (Passes <=> streak_points + streak_delta(call.credit, call.rules) \in U64)
  BY <1>1, AccrueStatements
<1>3. /\ ChecksBehind(call.at, call.credit)
      /\ balances = WrittenBefore(call.at, call.credit).balances
      /\ total_visits = WrittenBefore(call.at, call.credit).total_visits
      /\ streak_points = WrittenBefore(call.at, call.credit).streak_points
  BY DEF AccrueProgress, passport
<1>4. call.at < 11 => balances = settled.balances
  BY <1>1, <1>3 DEF WrittenBefore
<1>5. call.at < 12 => total_visits = settled.total_visits
  BY <1>1, <1>3 DEF WrittenBefore
<1>6. call.at < 13 => streak_points = settled.streak_points
  BY <1>1, <1>3 DEF WrittenBefore
<1>7. call.at < 11 =>
        /\ Atomic!balance_for(call.m.id) = balance_for(call.m.id)
        /\ Atomic!earned_this_epoch(call.m.id, call.epoch)
             = earned_this_epoch(call.m.id, call.epoch)
        /\ Atomic!remaining_cap(call.m, call.epoch) = remaining_cap(call.m, call.epoch)
        /\ Atomic!credit_units(call.m, call.amount, call.epoch)
             = credit_units(call.m, call.amount, call.epoch)
        /\ Atomic!NonceFresh(call.m, call.nonce, call.epoch)
             <=> NonceFresh(call.m, call.nonce, call.epoch)
  BY <1>1, <1>4, <1>5, <1>6, NothingWritten
<1>8. CASE Fail \/ Return
  BY <1>8 DEF Fail, Return, CallsIInv
<1>9. CASE /\ call.at < 10 /\ call.at # 5 /\ Passes /\ UNCHANGED core
           /\ call' = [call EXCEPT !.at = @ + 1]
  <2>1. call' = [call EXCEPT !.at = @ + 1, !.credit = call.credit]
    BY <1>9 DEF AnyAccrueCall
  <2>2. ChecksBehind(call.at + 1, call.credit)
    BY <1>1, <1>2, <1>3, <1>5, <1>6, <1>7, <1>9 DEF ChecksBehind
  <2>3. passport' = WrittenBefore(call.at + 1, call.credit)
    <3>1. /\ balances' = settled.balances
          /\ total_visits' = settled.total_visits
          /\ streak_points' = settled.streak_points
      BY <1>1, <1>4, <1>5, <1>6, <1>9 DEF core
    <3> QED
      BY <1>1, <1>9, <3>1 DEF WrittenBefore, passport
  <2>4. PICK x : x = call.credit
    OBVIOUS
  <2>5. call' = [call EXCEPT !.at = @ + 1, !.credit = x]
    BY <2>1, <2>4
  <2>6. ChecksBehind(call.at + 1, x) /\ passport' = WrittenBefore(call.at + 1, x)
    BY <2>2, <2>3, <2>4
  <2>7. call.at < 13
    BY <1>1, <1>9
  <2> QED
    BY <2>5, <2>6, <2>7, AccrueOnward
<1>10. CASE call.at = 5 /\ ComputeCredit
  <2> DEFINE credit == credit_units(call.m, call.amount, call.epoch)
  <2>1. /\ call' = [call EXCEPT !.at = @ + 1, !.credit = credit]
        /\ Passes /\ UNCHANGED core
    BY <1>10 DEF ComputeCredit
  <2>2. credit > 0 /\ credit = Atomic!credit_units(call.m, call.amount, call.epoch)
    BY <1>2, <1>7, <1>10, <2>1
  <2> HIDE DEF credit
  <2>3. ChecksBehind(call.at + 1, credit)
    BY <1>3, <1>10, <2>2 DEF ChecksBehind
  <2>4. passport' = WrittenBefore(call.at + 1, credit)
    BY <1>4, <1>5, <1>6, <1>10, <2>1 DEF WrittenBefore, passport, core
  <2>5. PICK x : x = credit
    OBVIOUS
  <2>6. call' = [call EXCEPT !.at = @ + 1, !.credit = x]
    BY <2>1, <2>5
  <2>7. ChecksBehind(call.at + 1, x) /\ passport' = WrittenBefore(call.at + 1, x)
    BY <2>3, <2>4, <2>5
  <2>8. call.at < 13
    BY <1>1, <1>10
  <2> QED
    BY <2>6, <2>7, <2>8, AccrueOnward
<1>11. CASE call.at = 10 /\ InsertEntry
  <2>1. /\ call' = [call EXCEPT !.at = @ + 1]
        /\ balances' = [balances EXCEPT ![call.m.id] =
             [earned_units |-> balance_for(call.m.id).earned_units + call.credit,
              redeemed_units |-> balance_for(call.m.id).redeemed_units,
              earned_this_epoch |-> earned_this_epoch(call.m.id, call.epoch) + call.credit,
              cap_epoch |-> call.epoch,
              last_receipt_nonce |-> call.nonce]]
        /\ UNCHANGED <<total_visits, streak_points>>
    BY <1>11 DEF InsertEntry, Forward
  <2>2. call' = [call EXCEPT !.at = @ + 1, !.credit = call.credit]
    BY <2>1 DEF AnyAccrueCall
  <2>3. ChecksBehind(call.at + 1, call.credit)
    BY <1>3, <1>11 DEF ChecksBehind
  <2>4. passport' = WrittenBefore(call.at + 1, call.credit)
    BY <1>4, <1>5, <1>6, <1>7, <1>11, <2>1 DEF WrittenBefore, passport
  <2>5. PICK x : x = call.credit
    OBVIOUS
  <2>6. call' = [call EXCEPT !.at = @ + 1, !.credit = x]
    BY <2>2, <2>5
  <2>7. ChecksBehind(call.at + 1, x) /\ passport' = WrittenBefore(call.at + 1, x)
    BY <2>3, <2>4, <2>5
  <2>8. call.at < 13
    BY <1>1, <1>11
  <2> QED
    BY <2>6, <2>7, <2>8, AccrueOnward
<1>12. CASE call.at = 11 /\ AssignVisits
  <2>1. /\ call' = [call EXCEPT !.at = @ + 1]
        /\ total_visits' = total_visits + 1
        /\ UNCHANGED <<streak_points, balances>>
    BY <1>12 DEF AssignVisits, Forward
  <2>2. call' = [call EXCEPT !.at = @ + 1, !.credit = call.credit]
    BY <2>1 DEF AnyAccrueCall
  <2>3. ChecksBehind(call.at + 1, call.credit)
    BY <1>3, <1>12 DEF ChecksBehind
  <2>4. passport' = WrittenBefore(call.at + 1, call.credit)
    BY <1>3, <1>5, <1>12, <2>1 DEF WrittenBefore, passport
  <2>5. PICK x : x = call.credit
    OBVIOUS
  <2>6. call' = [call EXCEPT !.at = @ + 1, !.credit = x]
    BY <2>2, <2>5
  <2>7. ChecksBehind(call.at + 1, x) /\ passport' = WrittenBefore(call.at + 1, x)
    BY <2>3, <2>4, <2>5
  <2>8. call.at < 13
    BY <1>1, <1>12
  <2> QED
    BY <2>6, <2>7, <2>8, AccrueOnward
<1>13. CASE call.at = 12 /\ AssignStreak
  <2>1. /\ call' = [call EXCEPT !.at = @ + 1]
        /\ streak_points' = streak_points + streak_delta(call.credit, call.rules)
        /\ UNCHANGED <<total_visits, balances>>
    BY <1>13 DEF AssignStreak, Forward
  <2>2. call' = [call EXCEPT !.at = @ + 1, !.credit = call.credit]
    BY <2>1 DEF AnyAccrueCall
  <2>3. ChecksBehind(call.at + 1, call.credit)
    BY <1>3, <1>13 DEF ChecksBehind
  <2>4. passport' = WrittenBefore(call.at + 1, call.credit)
    BY <1>3, <1>6, <1>13, <2>1 DEF WrittenBefore, passport
  <2>5. PICK x : x = call.credit
    OBVIOUS
  <2>6. call' = [call EXCEPT !.at = @ + 1, !.credit = x]
    BY <2>2, <2>5
  <2>7. ChecksBehind(call.at + 1, x) /\ passport' = WrittenBefore(call.at + 1, x)
    BY <2>3, <2>4, <2>5
  <2>8. call.at < 13
    BY <1>13
  <2> QED
    BY <2>6, <2>7, <2>8, AccrueOnward
<1> QED
  BY <1>8, <1>9, <1>10, <1>11, <1>12, <1>13, AccrueSteps

LEMMA RedeemCallIInv ==
  ASSUME call.body = redeem_body, call \in AnyRedeemCall, RedeemProgress, CallsNext
  PROVE  CallsIInv'
<1>1. call.at \in 1 .. 5
  BY DEF AnyRedeemCall
<1>2. /\ call.at = 1 => (Passes <=> call.units > 0)
      /\ call.at = 2 => (Passes <=> balances[call.id] # NoBalance)
      /\ call.at = 3 => (Passes <=> Available(call.id, call.units))
      /\ call.at = 4 => (Passes <=> balances[call.id].redeemed_units + call.units \in U64)
  BY <1>1, RedeemStatements
<1>3. CASE Fail \/ Return
  BY <1>3 DEF Fail, Return, CallsIInv
<1>4. ASSUME call.at < 5, call' = [call EXCEPT !.at = @ + 1]
      PROVE  /\ call'.body = redeem_body /\ (call \in AnyRedeemCall)'
             /\ call'.at = call.at + 1
             /\ call'.id = call.id /\ call'.units = call.units
             /\ settled' = settled
             /\ Atomic!Available(call.id, call.units)' <=> Atomic!Available(call.id, call.units)
  <2>1. /\ call'.body = call.body /\ call'.before = call.before
        /\ call'.at = call.at + 1
        /\ call'.id = call.id /\ call'.units = call.units
    BY <1>4 DEF AnyRedeemCall
  <2>2. (call \in AnyRedeemCall)'
    <3>1. call.at + 1 \in 1 .. 5 /\ call.id \in MerchantId /\ call.units \in U64
      BY <1>1, <1>4 DEF AnyRedeemCall
    <3>2. call' = [body |-> call'.body, at |-> call'.at, before |-> call'.before,
                   id |-> call'.id, units |-> call'.units]
      BY <1>4 DEF AnyRedeemCall
    <3> QED
      BY <2>1, <3>1, <3>2 DEF AnyRedeemCall, U64
  <2>3. settled' = settled
    BY <2>1, OwnerSeesNothing
  <2>4. Atomic!Available(call.id, call.units)' <=> Atomic!Available(call.id, call.units)
    BY <2>1, <2>3 DEF Atomic!Available, Atomic!available_units, Atomic!saturating_sub,
                      Atomic!balance_for, Atomic!Default
  <2> QED
    BY <2>1, <2>2, <2>3, <2>4
<1>5. CASE call.at < 4 /\ Passes /\ UNCHANGED core /\ call' = [call EXCEPT !.at = @ + 1]
  <2>1. /\ balances = settled.balances
        /\ total_visits = settled.total_visits
        /\ streak_points = settled.streak_points
    BY <1>1, <1>5 DEF RedeemProgress
  <2>2. Atomic!Available(call.id, call.units) <=> Available(call.id, call.units)
    BY <2>1, NothingWritten
  <2>3. /\ call'.body = redeem_body /\ (call \in AnyRedeemCall)'
        /\ call'.at = call.at + 1
        /\ call'.id = call.id /\ call'.units = call.units
        /\ settled' = settled
        /\ Atomic!Available(call.id, call.units)' <=> Atomic!Available(call.id, call.units)
    BY <1>1, <1>4, <1>5
  <2>4. RedeemProgress'
    BY <1>1, <1>2, <1>5, <2>1, <2>2, <2>3 DEF RedeemProgress, core, U64
  <2> QED
    BY <2>3, <2>4 DEF CallsIInv
<1>6. CASE call.at = 4 /\ AssignRedeemed
  <2>1. /\ Passes /\ call' = [call EXCEPT !.at = @ + 1]
        /\ balances' = [balances EXCEPT ![call.id].redeemed_units = @ + call.units]
        /\ UNCHANGED <<total_visits, streak_points>>
    BY <1>6 DEF AssignRedeemed, Forward
  <2>2. /\ call'.body = redeem_body /\ (call \in AnyRedeemCall)'
        /\ call'.at = call.at + 1
        /\ call'.id = call.id /\ call'.units = call.units
        /\ settled' = settled
        /\ Atomic!Available(call.id, call.units)' <=> Atomic!Available(call.id, call.units)
    BY <1>4, <1>6, <2>1
  <2>3. RedeemProgress'
    BY <1>2, <1>6, <2>1, <2>2 DEF RedeemProgress, U64
  <2> QED
    BY <2>2, <2>3 DEF CallsIInv
<1> QED
  BY <1>3, <1>5, <1>6, RedeemSteps

LEMMA BeginIInv ==
  ASSUME Begin
  PROVE  CallsIInv' /\ settled' = passport /\ settled = passport
<1>1. call = NoCall /\ UNCHANGED core
  BY DEF Begin
<1>2. settled = passport
  BY <1>1 DEF settled
<1>3. ASSUME NEW m \in Merchant, NEW nonce \in U64, NEW amount \in U64, NEW epoch \in Epoch,
             NEW rules \in CoalitionRules, call' = AccrueCall(m, nonce, amount, epoch, rules)
      PROVE  CallsIInv' /\ settled' = passport
  <2>1. /\ call'.body = accrue_body /\ call'.at = 1 /\ call'.before = passport
        /\ (call \in AnyAccrueCall)'
    BY <1>3 DEF AccrueCall, AnyAccrueCall, Merchant, CoalitionRules, U64
  <2>2. settled' = passport
    BY <2>1, CallAtWork DEF settled
  <2>3. ChecksBehind(call.at, call.credit)'
    BY <2>1 DEF ChecksBehind
  <2>4. passport' = WrittenBefore(call.at, call.credit)'
    BY <1>1, <2>1, <2>2 DEF WrittenBefore, passport, core
  <2> QED
    BY <2>1, <2>2, <2>3, <2>4 DEF CallsIInv, AccrueProgress
<1>4. ASSUME NEW id \in MerchantId, NEW units \in U64, call' = RedeemCall(id, units)
      PROVE  CallsIInv' /\ settled' = passport
  <2>1. /\ call'.body = redeem_body /\ call'.at = 1 /\ call'.before = passport
        /\ (call \in AnyRedeemCall)'
    BY <1>4 DEF RedeemCall, AnyRedeemCall, U64
  <2>2. settled' = passport
    BY <2>1, CallAtWork DEF settled
  <2>3. RedeemProgress'
    BY <1>1, <2>1, <2>2 DEF RedeemProgress, passport, core
  <2> QED
    BY <2>1, <2>2, <2>3 DEF CallsIInv
<1> QED
  BY <1>2, <1>3, <1>4 DEF Begin

LEMMA CallsStep == CallsIInv /\ [CallsNext]_callVars => CallsIInv'
<1> SUFFICES ASSUME CallsIInv, [CallsNext]_callVars PROVE CallsIInv'
  OBVIOUS
<1>1. CASE UNCHANGED callVars
  <2>1. /\ UNCHANGED <<total_visits, streak_points, balances, call>>
        /\ settled' = settled /\ passport' = passport
    BY <1>1 DEF callVars, settled, passport
  <2>2. CASE call = NoCall
    BY <2>1, <2>2 DEF CallsIInv
  <2>3. CASE call.body = accrue_body /\ call \in AnyAccrueCall /\ AccrueProgress
    <3>1. /\ Atomic!NonceFresh(call.m, call.nonce, call.epoch)'
               <=> Atomic!NonceFresh(call.m, call.nonce, call.epoch)
          /\ Atomic!remaining_cap(call.m, call.epoch)' = Atomic!remaining_cap(call.m, call.epoch)
          /\ Atomic!credit_units(call.m, call.amount, call.epoch)'
               = Atomic!credit_units(call.m, call.amount, call.epoch)
          /\ Atomic!balance_for(call.m.id)' = Atomic!balance_for(call.m.id)
          /\ Atomic!earned_this_epoch(call.m.id, call.epoch)'
               = Atomic!earned_this_epoch(call.m.id, call.epoch)
      BY <2>1, AccrueViewKept
    <3>2. streak_delta(call.credit, call.rules)' = streak_delta(call.credit, call.rules)
      BY <2>1 DEF streak_delta, Smaller
    <3>3. ChecksBehind(call.at, call.credit)'
      BY <2>1, <2>3, <3>1, <3>2 DEF ChecksBehind, AccrueProgress, U64
    <3>4. WrittenBefore(call.at, call.credit)' = WrittenBefore(call.at, call.credit)
      BY <2>1, <3>1, <3>2 DEF WrittenBefore
    <3>5. (call \in AnyAccrueCall)'
      BY <2>1, <2>3 DEF AnyAccrueCall, Merchant, CoalitionRules, U64
    <3>6. call'.body = accrue_body
      BY <2>1, <2>3
    <3> QED
      BY <2>1, <2>3, <3>3, <3>4, <3>5, <3>6 DEF CallsIInv, AccrueProgress
  <2>4. CASE call.body = redeem_body /\ call \in AnyRedeemCall /\ RedeemProgress
    <3>1. Atomic!Available(call.id, call.units)' <=> Atomic!Available(call.id, call.units)
      BY <2>1 DEF Atomic!Available, Atomic!available_units, Atomic!saturating_sub,
                  Atomic!balance_for, Atomic!Default
    <3>2. RedeemProgress'
      BY <2>1, <2>4, <3>1 DEF RedeemProgress, U64
    <3>3. (call \in AnyRedeemCall)' /\ call'.body = redeem_body
      BY <2>1, <2>4 DEF AnyRedeemCall, U64
    <3> QED
      BY <3>2, <3>3 DEF CallsIInv
  <2> QED
    BY <2>2, <2>3, <2>4 DEF CallsIInv
<1>2. CASE CallsNext /\ call = NoCall
  <2>1. Begin
    BY <1>2 DEF CallsNext, Check, ComputeCredit, InsertEntry, AssignVisits, AssignStreak,
                AssignRedeemed, Fail, Return, At
  <2> QED
    BY <2>1, BeginIInv
<1>3. CASE CallsNext /\ call.body = accrue_body /\ call \in AnyAccrueCall /\ AccrueProgress
  BY <1>3, AccrueCallIInv
<1>4. CASE CallsNext /\ call.body = redeem_body /\ call \in AnyRedeemCall /\ RedeemProgress
  BY <1>4, RedeemCallIInv
<1> QED
  BY <1>1, <1>2, <1>3, <1>4 DEF CallsIInv

THEOREM CallsInvariance == CallsSpec => []CallsIInv
<1>1. CallsInit => CallsIInv
  BY DEF CallsInit, CallsIInv
<1> QED
  BY <1>1, CallsStep, PTL DEF CallsSpec

\* A check can only fail while nothing is written.
LEMMA FailEffect ==
  CallsIInv /\ Fail =>
    /\ settled = call.before
    /\ balances = settled.balances
    /\ total_visits = settled.total_visits
    /\ streak_points = settled.streak_points
<1> SUFFICES ASSUME CallsIInv, Fail
             PROVE  /\ settled = call.before
                    /\ balances = settled.balances
                    /\ total_visits = settled.total_visits
                    /\ streak_points = settled.streak_points
  OBVIOUS
<1>1. call # NoCall /\ call.at \in DOMAIN call.body /\ ~Passes
  BY DEF Fail
<1>2. settled = call.before
  BY <1>1 DEF settled
<1>3. CASE call.body = accrue_body /\ call \in AnyAccrueCall /\ AccrueProgress
  <2>1. call.at \in 1 .. 13
    BY <1>3 DEF AnyAccrueCall
  <2>2. call.at < 10
    BY <1>1, <1>3, <2>1, AccrueStatements
  <2> QED
    BY <1>2, <1>3, <2>1, <2>2 DEF AccrueProgress, WrittenBefore, passport
<1>4. CASE call.body = redeem_body /\ call \in AnyRedeemCall /\ RedeemProgress
  <2>1. call.at \in 1 .. 5
    BY <1>4 DEF AnyRedeemCall
  <2>2. call.at < 5
    BY <1>1, <1>4, <2>1, RedeemStatements
  <2> QED
    BY <1>2, <1>4, <2>1, <2>2 DEF RedeemProgress
<1> QED
  BY <1>1, <1>3, <1>4 DEF CallsIInv

\* A failed call of the crate leaves the passport as it was, for all merchants,
\* rules, counters and whichever check it was.
THEOREM FailuresLeaveNoTrace == CallsSpec => FailedCallsLeaveNoTrace
<1>1. CallsIInv /\ [CallsNext]_callVars =>
        [Fail => /\ total_visits = call.before.total_visits
                 /\ streak_points = call.before.streak_points
                 /\ balances = call.before.balances]_callVars
  BY FailEffect
<1> QED
  BY <1>1, CallsInvariance, PTL DEF CallsSpec, FailedCallsLeaveNoTrace

\* A call of accrue that gets to its Ok was a step of LoyaltyCore.
LEMMA AccrueReturns ==
  ASSUME call.body = accrue_body, call \in AnyAccrueCall, AccrueProgress, Return
  PROVE  Atomic!Next
<1>1. call # NoCall /\ call.at = Len(call.body) + 1 /\ call' = NoCall /\ UNCHANGED core
  BY DEF Return
<1>2. call.at = 13
  <2>1. Len(accrue_body) = 12
    BY DEF accrue_body
  <2> QED
    BY <1>1, <2>1
<1>3. /\ settled'.total_visits = total_visits
      /\ settled'.streak_points = streak_points
      /\ settled'.balances = balances
  BY <1>1 DEF settled, passport, core
<1>4. /\ call.m \in Merchant /\ call.nonce \in U64 /\ call.amount \in U64
      /\ call.epoch \in Epoch /\ call.rules \in CoalitionRules
  BY DEF AnyAccrueCall
<1> DEFINE credit == Atomic!credit_units(call.m, call.amount, call.epoch)
           entry == Atomic!balance_for(call.m.id)
           today == Atomic!earned_this_epoch(call.m.id, call.epoch)
<1>5. call.credit = credit
  BY <1>2 DEF AccrueProgress, ChecksBehind
<1>6. /\ call.amount > 0
      /\ Atomic!NonceFresh(call.m, call.nonce, call.epoch)
      /\ Atomic!remaining_cap(call.m, call.epoch) > 0
      /\ credit > 0
      /\ call.amount * call.m.earn_bps \in U64
      /\ entry.earned_units + credit \in U64
      /\ today + credit \in U64
      /\ settled.total_visits + 1 \in U64
      /\ settled.streak_points + streak_delta(credit, call.rules) \in U64
  BY <1>2, <1>5 DEF AccrueProgress, ChecksBehind
<1>7. /\ balances = [settled.balances EXCEPT ![call.m.id] =
           [earned_units |-> entry.earned_units + credit,
            redeemed_units |-> entry.redeemed_units,
            earned_this_epoch |-> today + credit,
            cap_epoch |-> call.epoch,
            last_receipt_nonce |-> call.nonce]]
      /\ total_visits = settled.total_visits + 1
      /\ streak_points = settled.streak_points + streak_delta(credit, call.rules)
  BY <1>2, <1>5 DEF AccrueProgress, WrittenBefore, passport
<1>8. streak_delta(credit, call.rules) = Atomic!streak_delta(credit, call.rules)
  BY DEF streak_delta, Smaller, Atomic!streak_delta, Atomic!Smaller
<1>9. Atomic!Accrue(call.m, call.nonce, call.amount, call.epoch, call.rules)
  <2>1. Atomic!Checked(call.m, call.amount, call.epoch, call.rules)
    BY <1>6, <1>8 DEF Atomic!Checked, Atomic!U64, U64
  <2> QED
    BY <1>3, <1>6, <1>7, <1>8, <2>1 DEF Atomic!Accrue
<1>10. /\ call.m \in Atomic!Merchant /\ call.nonce \in Atomic!U64
       /\ call.amount \in Atomic!U64 /\ call.rules \in Atomic!CoalitionRules
  BY <1>4 DEF Atomic!Merchant, Merchant, Atomic!U64, U64, Atomic!CoalitionRules,
              CoalitionRules, Atomic!TierSchedule, TierSchedule
<1> QED
  BY <1>4, <1>9, <1>10 DEF Atomic!Next, Atomic!AccrueAt

LEMMA RedeemReturns ==
  ASSUME call.body = redeem_body, call \in AnyRedeemCall, RedeemProgress, Return
  PROVE  Atomic!Next
<1>1. call # NoCall /\ call.at = Len(call.body) + 1 /\ call' = NoCall /\ UNCHANGED core
  BY DEF Return
<1>2. call.at = 5
  <2>1. Len(redeem_body) = 4
    BY DEF redeem_body
  <2> QED
    BY <1>1, <2>1
<1>3. /\ settled'.total_visits = total_visits
      /\ settled'.streak_points = streak_points
      /\ settled'.balances = balances
  BY <1>1 DEF settled, passport, core
<1>4. call.id \in MerchantId /\ call.units \in Atomic!U64
  BY DEF AnyRedeemCall, Atomic!U64, U64
<1>5. Atomic!Redeem(call.id, call.units)
  BY <1>2, <1>3 DEF RedeemProgress, Atomic!Redeem, Atomic!U64, U64
<1> QED
  BY <1>4, <1>5 DEF Atomic!Next, Atomic!RedeemAny

LEMMA CallsMap ==
  CallsIInv /\ [CallsNext]_callVars => [Atomic!Next]_(Atomic!core)
<1> SUFFICES ASSUME CallsIInv, [CallsNext]_callVars
             PROVE  Atomic!Next \/ UNCHANGED settled \/ UNCHANGED Atomic!core
  BY DEF Atomic!core
<1>1. CASE UNCHANGED callVars
  BY <1>1 DEF callVars, settled, passport
<1>2. CASE CallsNext /\ Begin
  BY <1>2, BeginIInv
<1>3. CASE CallsNext /\ Fail
  <2>1. /\ settled' = passport
        /\ balances = settled.balances
        /\ total_visits = settled.total_visits
        /\ streak_points = settled.streak_points
    BY <1>3, FailEffect DEF Fail, settled, passport, core
  <2> QED
    BY <2>1 DEF Atomic!core, passport
<1>4. CASE CallsNext /\ Return
  <2>1. call # NoCall
    BY <1>4 DEF Return
  <2> QED
    BY <1>4, <2>1, AccrueReturns, RedeemReturns DEF CallsIInv
<1>5. CASE CallsNext /\ ~Begin /\ ~Fail /\ ~Return
  <2>1. call # NoCall
    BY <1>5 DEF CallsNext, Check, ComputeCredit, InsertEntry, AssignVisits, AssignStreak,
                AssignRedeemed, At
  <2>2. \/ call' = [call EXCEPT !.at = @ + 1]
        \/ call' = [call EXCEPT !.at = @ + 1,
                               !.credit = credit_units(call.m, call.amount, call.epoch)]
    BY <1>5 DEF CallsNext, Check, ComputeCredit, InsertEntry, AssignVisits, AssignStreak,
                AssignRedeemed, Forward
  <2>3. CASE call.body = accrue_body /\ call \in AnyAccrueCall
    <3>1. call'.body = call.body /\ call'.before = call.before
      BY <2>2, <2>3 DEF AnyAccrueCall
    <3> QED
      BY <2>3, <3>1, OwnerSeesNothing
  <2>4. CASE call.body = redeem_body /\ call \in AnyRedeemCall
    <3>1. call'.body = call.body /\ call'.before = call.before
      BY <2>2, <2>4 DEF AnyRedeemCall
    <3> QED
      BY <2>4, <3>1, OwnerSeesNothing
  <2> QED
    BY <2>1, <2>3, <2>4 DEF CallsIInv
<1> QED
  BY <1>1, <1>2, <1>3, <1>4, <1>5

\* To the owner of the passport, accrue and redeem are atomic: each call is one
\* step of LoyaltyCore or changes nothing, statement by statement as written.
THEOREM CallsTakeEffectAtOnce == CallsSpec => CallsAreAtomic
<1>1. CallsInit => Atomic!Init
  BY DEF CallsInit, Init, settled, passport, Atomic!Init
<1> QED
  BY <1>1, CallsMap, CallsInvariance, PTL DEF CallsSpec, CallsAreAtomic, Atomic!Spec

=================================================================================
