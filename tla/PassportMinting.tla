---------------------------- MODULE PassportMinting ----------------------------
(***************************************************************************)
(* create_passport one CPI at a time.  A transaction works on a copy of    *)
(* its accounts: six calls into the System, Token-2022 and associated      *)
(* token programs create the mint, bind it, mint one token and give the    *)
(* authority up; then the passport is written and everything commits, or   *)
(* any call fails and nothing does.  Transactions that share no account    *)
(* they write run at the same time; the locks keep the others apart.       *)
(*                                                                         *)
(* The called programs are external: a call is what it needs of the        *)
(* accounts and what it does to them.                                      *)
(***************************************************************************)
EXTENDS CoalitionProgram

VARIABLES
  tx,         \* tx[h]: the running create_passport that h pays for, or NoTx
  soulbound   \* mints in the chain that have the NonTransferable extension

mintingVars == <<coalition, merchant, passport, balance, mint, token, unix_timestamp,
                 tx, soulbound>>

\* A mint account under construction and the customer's ATA for it.
Work ==
  [state : {"empty", "allocated", "initialized"},
   space : SUBSET {"NonTransferable"}, extensions : SUBSET {"NonTransferable"},
   supply : Nat, mint_authority : PassportAddr \cup {NoAccount},
   ata : {"absent", "open"}, amount : Nat]

NoTx == [step |-> 0]

MintingInit ==
  /\ Init
  /\ tx = [h \in Customer |-> NoTx]
  /\ soulbound = {}

-----------------------------------------------------------------------------
(* The calls *)

\* The extensions that mint_size leaves room for.
MintExtensions == {"NonTransferable"}

MintAndAta ==
  <<"create_account", "non_transferable_mint_initialize", "initialize_mint2",
    "create_associated_token_account">>

\* Faults: the authority is given up before it is used, or never.
AuthorityFirst == MintAndAta \o <<"set_authority", "mint_to_checked">>
AuthorityKept == MintAndAta \o <<"mint_to_checked">>

\* The calls of create_passport, in order.
Cpis == MintAndAta \o <<"mint_to_checked", "set_authority">>

\* What a call needs: initialize_mint2 refuses an account with room for an
\* extension that was not initialised before the mint.
Accepts(call, p, w) ==
  CASE call = "create_account" -> w.state = "empty"
    [] call = "non_transferable_mint_initialize" ->
         w.state = "allocated" /\ "NonTransferable" \in w.space
    [] call = "initialize_mint2" ->
         w.state = "allocated" /\ w.extensions = w.space
    [] call = "create_associated_token_account" ->
         w.state = "initialized" /\ w.ata = "absent"
    [] call = "mint_to_checked" -> w.ata = "open" /\ w.mint_authority = p
    [] call = "set_authority" -> w.state = "initialized" /\ w.mint_authority = p

Effect(call, p, w) ==
  CASE call = "create_account" ->
         [w EXCEPT !.state = "allocated", !.space = MintExtensions]
    [] call = "non_transferable_mint_initialize" ->
         [w EXCEPT !.extensions = @ \cup {"NonTransferable"}]
    [] call = "initialize_mint2" ->
         [w EXCEPT !.state = "initialized", !.mint_authority = p]
    [] call = "create_associated_token_account" -> [w EXCEPT !.ata = "open"]
    [] call = "mint_to_checked" -> [w EXCEPT !.supply = @ + 1, !.amount = @ + 1]
    [] call = "set_authority" -> [w EXCEPT !.mint_authority = NoAccount]

\* The mint address as the transaction finds it.
Loaded(k) ==
  [state |-> IF mint[k] = NoAccount THEN "empty" ELSE "initialized",
   space |-> {}, extensions |-> {}, supply |-> 0, mint_authority |-> NoAccount,
   ata |-> "absent", amount |-> 0]

-----------------------------------------------------------------------------
(* The transaction *)

Running(h) == tx[h] # NoTx
PassportOf(h) == <<tx[h].coalition, h>>

\* Fault: init_if_needed, which takes a passport that exists already.
AnyPassportAccount(c, h) == TRUE

\* init: the passport's address holds nothing.
PassportAbsent(c, h) == passport[<<c, h>>] = NoAccount

\* Account constraints hold; payer and mint are locked by no one else.
Begin(h, c, k) ==
  /\ ~Running(h)
  /\ \A g \in Customer : Running(g) => tx[g].passport_mint # k
  /\ CoalitionConstraint(c)
  /\ NotPaused(c)
  /\ PassportAbsent(c, h)
  /\ tx' = [tx EXCEPT ![h] =
       [step |-> 1, coalition |-> c, passport_mint |-> k, work |-> Loaded(k)]]
  /\ UNCHANGED <<vars, soulbound>>

Call(h) ==
  /\ tx[h].step \in DOMAIN Cpis
  /\ Accepts(Cpis[tx[h].step], PassportOf(h), tx[h].work)
  /\ tx' = [tx EXCEPT
       ![h].work = Effect(Cpis[tx[h].step], PassportOf(h), @),
       ![h].step = @ + 1]
  /\ UNCHANGED <<vars, soulbound>>

\* The passport is written and the transaction succeeds.
Commit(h) ==
  LET t == tx[h] IN
  /\ t.step = Len(Cpis) + 1
  /\ mint' = [mint EXCEPT ![t.passport_mint] =
       [supply |-> t.work.supply, mint_authority |-> t.work.mint_authority]]
  /\ token' = [token EXCEPT ![<<h, t.passport_mint>>] = t.work.amount]
  /\ soulbound' =
       soulbound \cup {k \in {t.passport_mint} : "NonTransferable" \in t.work.extensions}
  /\ passport' = [passport EXCEPT ![PassportOf(h)] =
       [coalition |-> t.coalition,
        customer |-> h,
        passport_mint |-> t.passport_mint,
        total_visits |-> 0,
        streak_points |-> 0]]
  /\ tx' = [tx EXCEPT ![h] = NoTx]
  /\ UNCHANGED <<coalition, merchant, balance, unix_timestamp>>

\* A refused call, too little rent, an exhausted compute budget.
Abort(h) ==
  /\ Running(h)
  /\ tx' = [tx EXCEPT ![h] = NoTx]
  /\ UNCHANGED <<vars, soulbound>>

-----------------------------------------------------------------------------
(* Everything else *)

\* No one else writes what a running transaction reads or writes.
LocksHeld ==
  \A h \in Customer : Running(h) =>
    /\ coalition'[tx[h].coalition] = coalition[tx[h].coalition]
    /\ mint'[tx[h].passport_mint] = mint[tx[h].passport_mint]

OtherInstruction ==
  /\ Configure \/ RecordAnyReceipt \/ RedeemAny \/ Environment
  /\ LocksHeld
  /\ UNCHANGED <<tx, soulbound>>

MintingNext ==
  \/ \E h \in Customer :
       \/ \E c \in CoalitionAddr, k \in MintKey : Begin(h, c, k)
       \/ Call(h)
       \/ Commit(h)
       \/ Abort(h)
  \/ OtherInstruction

MintingSpec == MintingInit /\ [][MintingNext]_mintingVars

-----------------------------------------------------------------------------

\* The six calls and the write of the passport are the one atomic step of
\* CoalitionProgram: whatever runs in parallel and wherever a transaction
\* fails, a passport comes with one token in its customer's account, of a mint
\* without authority (lib.rs 131-226).
MintingImplementsProgram == Spec

\* Once create_account took a fresh address, no later call of create_passport
\* is refused: each leaves what the next one needs (lib.rs 132-218).
CallsNeverRefused ==
  \A h \in Customer :
    (Running(h) /\ tx[h].step \in 2 .. Len(Cpis)) =>
      Accepts(Cpis[tx[h].step], PassportOf(h), tx[h].work)

\* No transaction leaves a mint behind that is no passport's credential, no two
\* passports share one, and none can be transferred (lib.rs 128-156, 420-433).
MintsAreCredentials ==
  \A k \in MintKey : mint[k] # NoAccount =>
    /\ k \in soulbound
    /\ Cardinality({p \in PassportAddr :
                      passport[p] # NoAccount /\ passport[p].passport_mint = k}) = 1

(* What makes these inductive *)

\* The work of a transaction for passport p before call number step.
Built(p, step) ==
  [state |-> IF step >= 4 THEN "initialized" ELSE "allocated",
   space |-> MintExtensions,
   extensions |-> IF step >= 3 THEN MintExtensions ELSE {},
   supply |-> IF step >= 6 THEN 1 ELSE 0,
   mint_authority |-> IF step \in 4 .. 6 THEN p ELSE NoAccount,
   ata |-> IF step >= 5 THEN "open" ELSE "absent",
   amount |-> IF step >= 6 THEN 1 ELSE 0]

Transaction(h, c, k, step) ==
  [step |-> step, coalition |-> c, passport_mint |-> k,
   work |-> IF step = 1 THEN Loaded(k) ELSE Built(<<c, h>>, step)]

\* What Begin found is still so: the locks keep it.
StillFree(h, c, k, step) ==
  /\ CoalitionConstraint(c)
  /\ NotPaused(c)
  /\ PassportAbsent(c, h)
  /\ step >= 2 => mint[k] = NoAccount

TransactionsSound ==
  /\ tx = [h \in Customer |-> tx[h]]
  /\ \A h \in Customer : Running(h) =>
       \E c \in CoalitionAddr, k \in MintKey, step \in 1 .. 7 :
         tx[h] = Transaction(h, c, k, step) /\ StillFree(h, c, k, step)
  /\ \A g, h \in Customer :
       (Running(g) /\ Running(h) /\ g # h) => tx[g].passport_mint # tx[h].passport_mint

\* Every mint is bound and is the mint of a passport.
MintsOwned ==
  \A k \in MintKey : mint[k] # NoAccount =>
    /\ k \in soulbound
    /\ \E p \in PassportAddr : passport[p] # NoAccount /\ passport[p].passport_mint = k

MintingIInv ==
  /\ IInv
  /\ TransactionsSound
  /\ MintsOwned

===============================================================================
