---------------------------- MODULE CoalitionAudit ----------------------------
(***************************************************************************)
(* The program with an auditor who keeps what the accounts forget: how     *)
(* much each balance was credited on each day, and which nonces its        *)
(* receipts carried.  The auditor only watches; a balance account keeps    *)
(* the last day and the last nonce only.                                   *)
(***************************************************************************)
EXTENDS CoalitionProgram

Day == {t \div SECONDS_PER_DAY : t \in Timestamp} \cap Nat

VARIABLES
  issued,    \* issued[b][d]: credit added to balance b on day d
  accepted   \* accepted[b]: nonces of the receipts recorded in b

auditVars == <<coalition, merchant, passport, balance, mint, token, unix_timestamp,
               issued, accepted>>

AuditTypeOK ==
  /\ issued \in [BalanceAddr -> [Day -> Nat]]
  /\ accepted \in [BalanceAddr -> SUBSET U64]

AuditInit ==
  /\ Init
  /\ issued = [b \in BalanceAddr |-> [d \in Day |-> 0]]
  /\ accepted = [b \in BalanceAddr |-> {}]

credited(b) == balance'[b].earned_units - balance[b].earned_units

Observe ==
  /\ issued' = [b \in BalanceAddr |-> [d \in Day |->
       issued[b][d] + IF d = current_day_epoch THEN credited(b) ELSE 0]]
  /\ accepted' = [b \in BalanceAddr |->
       accepted[b] \cup
         IF credited(b) # 0 THEN {balance'[b].last_receipt_nonce} ELSE {}]

AuditNext == Next /\ Observe

AuditSpec == AuditInit /\ [][AuditNext]_auditVars

-----------------------------------------------------------------------------

\* The daily cap bounds all the credit of a day, although the account only
\* remembers one day and the clock may return to an earlier one
\* (lib.rs 239-241, 645-648, 666-676).
DailyCapHolds ==
  \A b \in BalanceAddr, d \in Day :
    issued[b][d] > 0 =>
      /\ merchant[b[2]] # NoAccount
      /\ issued[b][d] <= merchant[b[2]].daily_cap

\* A nonce that was credited once is never credited again, however the calls
\* are repeated or reordered (lib.rs 650-653, 700).
NonceCreditedOnce ==
  [][\A b \in BalanceAddr :
       credited(b) # 0 => balance'[b].last_receipt_nonce \notin accepted[b]]_auditVars

\* The last nonce of a balance is the greatest it accepted: what makes
\* NonceCreditedOnce inductive.
NoncesBehind ==
  \A b \in BalanceAddr : \A nonce \in accepted[b] :
    nonce <= balance[b].last_receipt_nonce

\* The account's own counter of the day is the auditor's, and no later day has
\* been charged: what makes DailyCapHolds inductive.
DayCounterExact ==
  \A b \in BalanceAddr, d \in Day :
    /\ balance[b].version = 0 => issued[b][d] = 0
    /\ balance[b].version # 0 =>
         /\ d = balance[b].cap_epoch => issued[b][d] = balance[b].earned_this_epoch
         /\ d > balance[b].cap_epoch => issued[b][d] = 0

AuditIInv ==
  /\ IInv
  /\ AuditTypeOK
  /\ DayCounterExact
  /\ DailyCapHolds
  /\ NoncesBehind

===============================================================================
