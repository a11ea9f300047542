----------------------------- MODULE LoyaltyLedger -----------------------------
(***************************************************************************)
(* What the coalition promises, without nonces, days, caps, accounts or    *)
(* signatures: every holder has a credit with each merchant that only that *)
(* merchant can raise and only spending lowers, and one reputation that    *)
(* only grows, and never faster than credit is issued.  Credit is isolated *)
(* (no transfer between merchants or holders) and reputation is not        *)
(* spendable.                                                              *)
(***************************************************************************)
EXTENDS Naturals

CONSTANTS Holder, Merchant,
          Amount            \* the positive amounts one step may move

VARIABLES credit,           \* credit[<<h, m>>]: what m owes h
          reputation        \* reputation[h]

ledger == <<credit, reputation>>

Init ==
  /\ credit = [a \in Holder \X Merchant |-> 0]
  /\ reputation = [h \in Holder |-> 0]

\* m issues n units to h, of which r count for the reputation.
Issue(h, m, n, r) ==
  /\ r <= n
  /\ credit' = [credit EXCEPT ![<<h, m>>] = @ + n]
  /\ reputation' = [reputation EXCEPT ![h] = @ + r]

\* h spends n units with m.
Spend(h, m, n) ==
  /\ n <= credit[<<h, m>>]
  /\ credit' = [credit EXCEPT ![<<h, m>>] = @ - n]
  /\ UNCHANGED reputation

Next ==
  \E h \in Holder, m \in Merchant, n \in Amount :
    \/ \E r \in Amount : Issue(h, m, n, r)
    \/ Spend(h, m, n)

Spec == Init /\ [][Next]_ledger

===============================================================================
