---------------------------- MODULE LoyaltyCoreAudit ----------------------------
(***************************************************************************)
(* loyalty-core with an auditor of the credit each merchant gave in each   *)
(* epoch, and of the merchants that were never called with an epoch before *)
(* their last one: what the Anchor program promises its ledger and the     *)
(* crate does not check.  And the ledger the crate implements for its one  *)
(* holder.                                                                 *)
(***************************************************************************)
EXTENDS LoyaltyCore

ASSUME ImmutableParameters ==
  \A m, n \in MerchantArgs : m.id = n.id => m = n

VARIABLES
  issued,             \* issued[id][e]: credit of merchant id in epoch e
  in_order            \* merchants whose epochs never went back

auditVars == <<total_visits, streak_points, balances, issued, in_order>>

AuditInit ==
  /\ Init
  /\ issued = [id \in MerchantId |-> [e \in Epoch |-> 0]]
  /\ in_order = MerchantId

AuditAccrue(epoch) ==
  /\ AccrueAt(epoch)
  /\ issued' = [id \in MerchantId |->
       [issued[id] EXCEPT ![epoch] = @ + (earned'[id] - earned[id])]]
  /\ in_order' =
       {id \in in_order : balance_for(id)'.cap_epoch >= balance_for(id).cap_epoch}

AuditNext ==
  \/ \E epoch \in Epoch : AuditAccrue(epoch)
  \/ RedeemAny /\ UNCHANGED <<issued, in_order>>

AuditSpec == AuditInit /\ [][AuditNext]_auditVars

-----------------------------------------------------------------------------

\* "Maximum merchant-local credit that can be earned during one epoch"
\* (lib.rs 46): all the credit of an epoch together is within the cap.
EpochCapHolds ==
  \A m \in Merchant, e \in Epoch : issued[m.id][e] <= m.daily_cap

\* It holds for a merchant whose epochs never go back, whatever the others do
\* (lib.rs 259-272, 303-308).
EpochCapInOrder ==
  \A m \in Merchant, e \in Epoch :
    m.id \in in_order => issued[m.id][e] <= m.daily_cap

\* As long as the epochs of a merchant are in order its counter is the whole
\* credit of its last epoch and later epochs have none: what makes
\* EpochCapInOrder inductive.
EpochCounterExact ==
  \A id \in in_order, e \in Epoch :
    /\ e = balance_for(id).cap_epoch => issued[id][e] = balance_for(id).earned_this_epoch
    /\ e > balance_for(id).cap_epoch => issued[id][e] = 0

CoreAuditIInv ==
  /\ CoreIInv
  /\ issued \in [MerchantId -> [Epoch -> Int]]
  /\ in_order \subseteq MerchantId
  /\ EpochCounterExact
  /\ EpochCapInOrder

\* One customer and credit with each merchant.
creditOf == [a \in {"customer"} \X MerchantId |-> available_units(a[2])]
reputationOf == [h \in {"customer"} |-> streak_points]

Ledger == INSTANCE LoyaltyLedger WITH
  Holder <- {"customer"},
  Merchant <- MerchantId,
  Amount <- U64 \ {0},
  credit <- creditOf,
  reputation <- reputationOf

\* Each call of the crate is one issue or one spend of the ledger: accrue moves
\* only its merchant's entry, redeem never the streak (lib.rs 224-358).
CoreImplementsLedger == Ledger!Spec

===============================================================================
