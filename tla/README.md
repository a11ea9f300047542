# Coalition Passport: specification, model checking and proofs

TLA+ modules for the Anchor program `programs/coalition_passport`, the rules
crate `crates/loyalty-core`, the browser demo, and the CLI and the Devnet script
in front of the program; TLC configurations that check them on small instances;
and TLAPS proofs for every value of the constants. Paths below are relative to
the repository; `program` is `programs/coalition_passport/src/lib.rs` and `core`
is `crates/loyalty-core/src/lib.rs`.

## The system

A *coalition* of merchants shares a customer's reputation without sharing each
other's debts. A merchant signs receipts; each receipt becomes credit that only
that merchant owes, and streak points in the customer's passport that the whole
coalition sees.

| Part | State | Operations | Interacts with |
| --- | --- | --- | --- |
| Anchor program (`program`) | four kinds of PDA: `Coalition`, `Merchant`, `Passport`, `MerchantBalance` | `initialize_coalition`, `register_merchant`, `pause_coalition`, `unpause_coalition`, `create_passport`, `record_receipt`, `redeem` | signers and accounts chosen by the client; the Clock sysvar; CPIs to the system, Token-2022 and ATA programs |
| Passport credential (Token-2022, external) | mint with supply and mint authority, the customer's ATA | the six CPIs of `create_passport`; a burn by the holder | the program |
| `loyalty-core` (`core`) | one `Passport`: visits, streak, map merchant -> `MerchantBalance` | `accrue`, `redeem` | merchant parameters, epoch and rules are arguments of each call; the program shares its denominator and repeats its rules |
| passport-cli (`clients/passport-cli`) | none between commands | `derive`, `show`, `status`, `build`, `send` | RPC: fetches, `sendAndConfirmTransaction` |
| Browser demo (`lib/passport-model.ts`, `app/passport-demo.tsx`) | `PassportState` in a React component | record, redeem, check Devnet | reads RPC only |
| Devnet demo (`scripts/devnet-demo.sh`) | evidence files, the chain | deploy, fund, seven CLI commands in a row, `complete.json` | the CLI |
| IDL, CI workflows, build files, styles | none | | |

What is hard here, and what makes each part correct:

* **Program.** A Solana transaction is atomic, so there are no torn writes; what
  is hard is that *every* account is supplied by the client, that instructions
  of many signers come in any order and may be submitted again, that a pause
  lands between any two of them, and that the Clock may step back. The balance
  account remembers one day and one nonce, and the promises are about all days
  and all nonces. Correct means: accounts are never joined across customers,
  merchants or coalitions; no day is credited above the cap; no nonce is
  credited twice; no balance is overdrawn; reputation is backed by credit and
  bounded per visit; the credential is one of one; a pause stops all growth and
  no redemption; events tell what was written.
* **Credential.** Six calls into other programs, in an order that each of them
  insists on, while other transactions run on other accounts. Correct means: all
  or nothing, and no mint that is not exactly one passport's.
* **loyalty-core.** Sequential, but its caller chooses the epochs and even the
  rules of each call. Correct means: entries appear only with credit, the epoch
  counter is within the cap, reputation is backed, and the program's copy of
  the rules agrees with it.
* **CLI, browser, script.** Timeouts with an unknown outcome, separate reads
  that do not form a snapshot, a third copy of the rules, restarts half way.

`PROJECT.json` lists these as hazards, each at its line, with the property that
covers it or the reason why none does yet.

## Modules

| Module | What it is |
| --- | --- |
| `CoalitionProgram` | the program: one action per instruction, and `Environment` for the holder's burn and the Clock sysvar |
| `PassportMinting` | `create_passport` one CPI at a time, transactions in parallel, refining the one step of `CoalitionProgram` |
| `CoalitionResults` | what a receipt or a redemption returns: the error of the first failing check, or the outcome |
| `CoalitionEvents` | the program with its events and a follower that knows the accounts from them alone |
| `CoalitionSignatures` | the program with a passive notary: what each merchant's wallet granted and each customer's asked for |
| `CoalitionAudit` | the program with a passive auditor: `issued[b][day]` and `accepted[b]` |
| `LoyaltyLedger` | abstract: isolated credit per (holder, merchant), reputation that only grows and never faster than credit |
| `CoalitionLedger` | the refinement mapping from the program to `LoyaltyLedger` |
| `LoyaltyCore` | the crate: `Accrue`, `Redeem`, and what they return |
| `CoreCalls` | the crate's calls one statement at a time, on a passport that nothing rolls back, refining `LoyaltyCore` |
| `LoyaltyCoreAudit` | the crate with an auditor of each epoch's credit and of the merchants whose epochs never went back |
| `CoalitionCore` | the program implements one `LoyaltyCore` per passport, `Core(p)`, and answers as it does |
| `BrowserDemo` | the receipt lab of the page, refining `LoyaltyCore` |
| `CliSession` | the program with `send` and `status` of the CLI around it |
| `DevnetDemo` | the program with the Devnet script, its runs and its files around it |
| `Checks` | a list of checks, the first failure of which is the error |
| `Sums` | the sum of a function over a finite set |
| `*MC` | values for TLC |
| `Sums_proofs` | lemmas: sums over finite sets, and least elements |
| `CoalitionProgram_proofs` | the program's invariants and action properties |
| `CoalitionRefinement_proofs` | what the program implements (`LoyaltyLedger`, `LoyaltyCore`), what implements it (`PassportMinting`), and what its errors are |
| `CoalitionObservers_proofs` | what the auditor, the notary and the follower of the events may rely on |
| `LoyaltyCore_proofs` (with `CoreCalls`), `BrowserDemo_proofs`, `CliSession_proofs`, `DevnetDemo_proofs` | the theorems of these modules |

### How the model corresponds to the program

* **Accounts and addresses.** `coalition`, `merchant`, `passport` and `balance`
  are functions from addresses; a PDA address *is* its seeds
  (`<<coalition, merchant key>>`, `<<passport, merchant>>`, ...), so
  `seeds = [...]` is an equation. Every handler takes the accounts as
  parameters, `Next` quantifies over all of them, and only the constraints,
  written as `CoalitionConstraint`, `MerchantConstraint`, `PassportConstraint`,
  `BalanceSeeds`, ... tie them together.
* **Handlers.** One action: account constraints, then the checks, then the
  writes. Any error aborts the transaction and is no step. `init` is the
  conjunct that the account is absent; `init_if_needed` is `EmptyBalance`, the
  zeroed account, which also stands for an absent one because a failing
  `apply_receipt` takes the allocation back with it. `Redeem` needs an existing
  account and so asks for `version # 0`.
* **Arithmetic.** `U64` is `0 .. MaxU64`. `ArithmeticFits` is the conjunction of
  the checked operations; without it `TypeOK` fails. `div_euclid` by a positive
  number is `\div`; a negative day is `InvalidClock`.
* **Inputs.** Amounts, nonces and units range over all of `U64`; timestamps over
  a set with negative values and two timestamps in one day; configurations
  include, for each check, one that it rejects. `SetClock` moves the sysvar to
  any other timestamp: the program must not rely on a monotonic clock.
* **Results and events.** Receipt and redemption have a verdict in
  `CoalitionResults`: their checks in the order of the code, each with its
  `CoalitionError`. `CoalitionEvents` joins each instruction with the event it
  emits, built as in the code from the outcome and the arguments, and lets a
  follower apply it; fields that repeat configuration arguments are left out.
* **Outside the program.** `BurnCredential` is Token-2022's own: the holder of a
  non-transferable token may still burn it. `SetClock` moves the sysvar.
* **Left out.** Bumps and account sizes, rent and fees, the bytes of commitments
  (only "all zero" is told apart).

Reading the code for the model also showed: nothing ever clears
`merchant.active`, so `MerchantInactive` is unreachable although the
repository's README speaks of inactive merchants (`ConfigSound`, part of the
invariant proved, has it); and `apply_receipt` repeats with
`passport.coalition == merchant.coalition` what the account constraints of the
passport and the merchant already imply, so that either constraint alone could
be dropped without a receipt crossing coalitions.

`LoyaltyCore` takes the parameters of each call from the sets that the
constructors accept. `active` can only be false in deserialised data and is left
out, as are identifier strings.

### Minting

`CreatePassport` of `CoalitionProgram` is one step. `PassportMinting` takes it
apart: `Begin` loads the accounts and checks the constraints, `Call` is one CPI
on the transaction's own copy of the mint and the ATA, `Commit` writes the
passport and publishes everything, `Abort` is a failure anywhere. `Accepts` and
`Effect` say of each called program what it needs and does: extensions come
before `initialize_mint2`, minting needs the authority that `set_authority` gives
up, `create_account` needs an unused address. Any number of customers may be at
work, each with one transaction, and every other instruction runs in between;
`LocksHeld` and `Begin` are the account locks of the runtime: no two running
transactions write one account and none reads what another writes. The programs
called are external to the repository: this is what the order and the arguments
of the calls rely on.

### The browser demo

A step is a click or an edit that reaches `setPassport`, `setMerchantId` or
`setReceiptUnits`; a handler that throws shows a message and is none. The input
may hold anything that `Number(event.target.value)` returns: fractions and NaN
(`NotAnInteger`), negatives, integers that are not safe. `coreBalance` is the
refinement mapping: the page keeps the balance left and the crate what was
redeemed, and since `earnedToday` never restarts the whole session is one epoch.
Products above 2^53 are rounded in JavaScript, but only where the cap cuts the
credit anyway; the largest product the page can form (2^53 x 1000) is a u64.

### The CLI

A send command is a process with one attempt at a time: `Send` submits it,
`Land` is the cluster's inclusion of any attempt ever submitted, and `Confirm`
ends the command. When the confirmation does not come the command exits and the
operator runs it again, which is one more `Send`: a new blockhash, hence a new
signature, so both attempts may land. What each instruction carries is in
`Instruction`, with the addresses the CLI derives; what is refused before
signing is in `Parses`. `status` is three fetches with anything in between,
coalition and passport in either order as in the `Promise.all`. It is assumed
that one RPC node answers a status command, so that its reads never go back in
time. The clock moves and customers burn credentials while all this goes on.

### The Devnet script

`DevnetDemo` is `--execute` from the test for `complete.json` on. `Flow` is the
order of its commands; `pc` is the one at work. A command submits (`Submit`),
its transaction is included some time later or never (`Land`), its output goes
to its file (`Confirm`, `PrintStatus`), and `tee` has emptied that file before.
`Exit` ends a run anywhere, as `set -e` or a broken machine would; `Start` begins
another in the same directory with whatever files, accounts and transactions in
flight are left; `OpenComplete` and `WriteComplete` are the script's last block, which
parses every file it needs and whose `writeFileSync` makes an empty
`complete.json` before the full one; `Archive` moves `evidence/runtime` away, as the script tells its
operator to; `Tick` moves the cluster's clock, also back. `Accepts` are the
constraints and checks of the transaction that a command submits. The amounts
are those of the script and the limits those of the program. It is assumed that
nobody else uses its three wallets, and that one RPC node answers the script at
commitment `confirmed`: the final status is read where the redemption was
confirmed. With a node that lags behind, `complete.json` could show the state before
it, and the script would not notice.

## Runs

All bounds are constants of the configurations; the only ones in a guard are
`MaxAttempts`, how often a CLI command is run, and `MaxRuns`, how often the
script is started.
`MaxU64` is a small number *as the width of the integers*, so runs meet the
overflow errors, not only the ordinary arithmetic.

| Run | Instance | What it shows |
| --- | --- | --- |
| `one_customer` | 1 coalition, 2 merchants, 1 passport, three days from -1 to 1, `MaxU64` = 4, denominator 2, valid and invalid configurations | the arithmetic and the accounts stay sound: `TypeOK`, `Solvent`, `CapRespected`, `StreakBackedByCredit`, `TierLevelExact`, `NewDayReopensAccrual`; who follows the events knows the accounts (`EventsTellAccounts`); every visit is one receipt reported (`VisitsAreReceipts`) |
| `two_coalitions` | 2 authorities, 1 merchant key that may join both, 2 customers, 2 mints, one day, `MaxU64` = 2 | accounts of different coalitions and customers passed to each other's instructions: `RelationshipsBound`, `MovedByItsOwners`, `CredentialUnique`, `PauseFreezesAccrual`, and `ImplementsLedger` |
| `daily_cap` | 1 balance, 4 days, `MaxU64` = 6 with a cap of 2 | cap over several days, clock back and forth, replays, credit above the receipt limit: `DailyCapHolds`, `DayCounterExact`, `NonceCreditedOnce`; each visit moves the streak within the limits (`StreakTracksVisits`) |
| `program_core` | 2 merchants, 2 valid days and a negative one, 2 valid rule sets and one the program rejects, `MaxU64` = 3 | the program keeps the crate's rules (`ImplementsCore`) and answers every request as the crate does (`SameResult`); no error that reports broken accounts is reachable (`BrokenAccountsNeverReported`); all credit shown can be redeemed in the state that shows it (`CreditRedeemable`), and a customer who keeps asking gets it (`CreditNotTrapped`) |
| `passport_minting` | 2 coalitions, 2 customers, 2 mints, transactions in parallel, aborted after any call | `CallsNeverRefused`, `MintsAreCredentials`, and the six calls are one step (`MintingImplementsProgram`) |
| `core_rules` | 2 legal and 3 illegal merchants, 3 epochs in any order, 2 legal rule sets that may change between calls, `MaxU64` = 4 | `CoreTypeOK`, `EntriesSound`, `EpochCounterCapped`, `EpochCapInOrder`, `ReputationBacked`, and the crate implements `LoyaltyLedger` |
| `core_calls` | 2 merchants, 2 epochs, one rule set, `MaxU64` = 4 so that products, visits and streak overflow as well as the other checks fail | `FailedCallsLeaveNoTrace`, and the statements of a call are one step of `LoyaltyCore` (`CallsAreAtomic`) |
| `core_any_order` | as `core_rules` | `EpochCapHolds`, for epochs in any order, is violated: see below |
| `browser_demo` | 2 merchants with different rates and caps, one cap above the receipt limit; NaN, negative, zero and too large inputs | `DemoImplementsCore`, `TierAgrees` |
| `cli_session` | the flow of the CLI's README up to its receipts: eight commands on one coalition, among them one whose tiers are out of order, registration, passport and first receipt sent up to twice, the second receipt free to overtake the first, a pause and its end at any time, two days of the clock, burns (`redeem`, of which no property of the run speaks, is in the runs of the script) | `LandsOnce`, `StatusBacked`, `StatusTier` |
| `devnet_demo` | up to three runs of the script with its own numbers, ended anywhere (with an empty `complete.json` too), on two days of the clock | `CompleteIsTrue`, `FlowNeverRefused` |
| `devnet_rerun` | the same | `ArchivedDemoRunsAgain` is violated: see below |

Why the bounds are enough: every property relates at most two accounts of a
kind (two merchants on a passport, two customers or two coalitions) and at most
two days (the counter's and another), and the runs about them have that many; in
`one_customer` and `daily_cap` a counter can be below, at and cut down to the
cap, while in `program_core` a credit never reaches past the cap and the theorems
`ProgramImplementsCore` and `ProgramAnswersAsCore` speak for that case; the
crossing of days in both directions needs three days at most. Three runs of the
script are one that leaves something behind, one that meets it, and one that
meets what both left. What does not depend on the instance at all is proved.

Deadlock is checked in the runs of the program, the CLI and the script (the clock
can always move), of the page, which can always be typed into, and in
`core_calls`, where a call can always be made and ends with a result or an error.
In `core_rules` and `core_any_order` a call that returns an error is no step: once
the counters are full there is none, so they say `CHECK_DEADLOCK FALSE`. The mints
of `cli_session` and `passport_minting` are symmetric: no definition tells them
apart.

**Failing in the middle.** In the program the runtime takes back whatever a failed
transaction wrote; this is assumed, as `Abort` in `PassportMinting` and as "no step"
in every other instruction, and no property here would notice a runtime that did
otherwise. The crate has no such help: it works on `&mut self` and promises "On
every error, this method leaves passport state unchanged" (`core:230`). `CoreCalls`
therefore executes `accrue` and `redeem` statement by statement and writes where the
code writes. `FailedCallsLeaveNoTrace` and `CallsAreAtomic` depend on the order of
the statements: with the entry inserted at `balances.get` instead of `insert`, or the
visits assigned before the streak is computed, a failing call leaves something
behind.

**Fairness.** `FairSpec`, in `program_core`, is weak fairness of `RedeemFrom(b)` for each balance: a
customer who has credit keeps submitting a redemption, and a transaction that
stays valid is eventually included. The code justifies that it *stays valid*:
nothing that anyone else can do disables it, since `redeem` asks neither for an
unpaused coalition nor for an active merchant nor for a valid clock. No fairness
is assumed of merchants, of the authority or of the clock. A pause constraint
on `redeem` makes the property false.

**Whose signature.** `RelationshipsBound` says where accounts belong and
`ImplementsLedger` that each step is a legal issue or spend of some account; neither
says who asked for it. `MovedByItsOwners` does: what a balance earned is the sum of
the receipts signed by its merchant's wallet, what was redeemed the sum of what its
customer signed for, although every client may name anyone's accounts.

**What the CLI may be relied on for.** `LandsOnce` covers the commands that the
chain guards: the three that create an account and the receipt with its nonce.
It leaves out `redeem` and the pause commands, because for them it is not true
and nothing in the repository says it is: a redemption repeated after a lost
confirmation may be taken twice, and an old attempt to pause may land after a
newer, confirmed unpause. `StatusBacked` needs the order of the code: the
balance is read after the passport, so the credit shown can only be newer than
the streak shown. Read together, a receipt between the two would show a streak
without its credit. The other fields of status may be of different moments.

**What the crate and the program answer.** `SameResult` compares every request
that reaches the handlers with the same call of the crate. Both refuse or both
accept, with the same credit, streak, tier and remainder. They differ in two
ways, both in the property: the program tests the day's order and the crate does
not, and where a request fails several of the checks of cap, product and credit
they may name different ones, because the code has them in a different order.

**What the script may be relied on for.** `CompleteIsTrue`: a `complete.json` is
of one run, all of its transactions are on the chain, and its final status is
one receipt and one redemption, although earlier runs may have ended anywhere
and their transactions may land late. `FlowNeverRefused`: a run whose own
`initialize-coalition` was included is refused nowhere afterwards. Earlier runs
never got past theirs, or the coalition would have been there already, so nothing
of theirs that is still in flight can change an account. "Refused" is said with
`Accepts`; that the guards are all an instruction asks is a theorem
(`AcceptsIsTheGuard`).

**Two disagreements found.** `core:46` says of `daily_cap`: "Maximum
merchant-local credit that can be earned during one epoch." `Passport::accrue`
restarts the counter whenever the epoch differs from `cap_epoch` (`core:261`),
in either direction, and the crate does not check that epochs increase. With
epochs 0, 1, 0 a merchant issues more than its cap in epoch 0
(`core_any_order`). The Anchor program refuses the step back
(`ClockMovedBackwards`, `program:645`), and there the statement holds:
`daily_cap` checks it and `DailyCapIsDaily` proves it. In the crate it holds for
every merchant whose epochs never go back: `EpochCapInOrder`, proved as
`EpochCapWhenInOrder`.

`scripts/devnet-demo.sh:97` refuses to run a completed demo again and says
"archive evidence/runtime first". Archived or not, the next run fails at
`initialize-coalition` (line 121): the coalition's address is that of the
deployer's wallet and the account is there already (`devnet_rerun`). Only other
wallets would help.

**Mutants.** Each checked property has a mutant: operators commented `Fault:` in
the modules are a definition as a plausible mistake would have it (a constraint
forgotten, a cap tested but not applied, the counter never restarted, a check
against the wrong sum), and TLC finds the property violated when the definition
is replaced by it.

## Proofs

Assumed of the constants, each under the name it has in the module that declares
them, where TLC evaluates it too:

* `NumbersAssumption`, `CoreAssumption`: the widths and the denominator are
  positive, timestamps are integers, epochs natural numbers.
  `ArgsAssumption`: arguments are u64 values.
* `NoAccountAssumption`, `NoBalanceAssumption`, `NoEntryAssumption`: the null
  value is none of the things it is compared with.
* `ImmutableParameters`: an identifier of the crate stands for one merchant, so
  an entry has one cap. `TierCountAssumption`: the program's limit of tiers is
  within the crate's (16 and 255).
* `CommandAssumption`, `StatusAssumption`: what the CLI's parsers let through.
* `DemoAssumption`: the wallets and amounts of the script are among those of the
  program, whose rates are per ten thousand; the clock is past 1970, the
  script's commitment is not the empty one, and `create-passport` can generate a
  key pair for the mint.
* `LabAssumption`: the tables of the page are legal ones (rates up to the
  denominator, tiers increasing from 0), all caps together are a u64, and so is
  the largest product the page can form (2^53 x 1000).

The number of coalitions, merchants, customers, mints, days, commands, runs and
tiers is arbitrary, as is the width of the integers.

| Theorem | Property |
| --- | --- |
| `TypeCorrect` | `TypeOK` |
| `AccountsBound` | `RelationshipsBound` |
| `NeverOverdrawn` | `Solvent` |
| `CapNeverExceeded` | `CapRespected` |
| `ReputationBounded` | `StreakTracksVisits` |
| `ReputationIsBacked` | `StreakBackedByCredit` |
| `TierLevelCounts` | `TierLevelExact` |
| `OneCredentialEach` | `CredentialUnique` |
| `NewDayAlwaysReopens` | `NewDayReopensAccrual`, given that the denominator's square fits in u64 |
| `PauseIsComplete` | `PauseFreezesAccrual` |
| `ConfigurationsImmutable` | what a configuration was accepted with holds of it for good (`ConfigAccepted`) |
| `DailyCapIsDaily` | `DailyCapHolds` |
| `DayCounterFaithful` | `DayCounterExact` |
| `NoReceiptReplay` | `NonceCreditedOnce` |
| `OnlyOwnersMove` | `MovedByItsOwners` |
| `FollowerKnowsAccounts` | `EventsTellAccounts` |
| `VisitsCountReceipts` | `VisitsAreReceipts` |
| `ProgramImplementsLedger` | `ImplementsLedger` |
| `ProgramImplementsCore` | `ImplementsCore` |
| `ProgramAnswersAsCore` | `SameResult` |
| `AccountsNeverBroken` | `BrokenAccountsNeverReported` |
| `CreditAlwaysRedeemable` | `CreditRedeemable` |
| `MintingIsAtomic` | `MintingImplementsProgram` |
| `CallsAccepted` | `CallsNeverRefused` |
| `NoStrayMint` | `MintsAreCredentials` |
| `CoreTypeCorrect` | `CoreTypeOK` |
| `EntriesAlwaysSound` | `EntriesSound` |
| `EpochCounterAlwaysCapped` | `EpochCounterCapped` |
| `EpochCapWhenInOrder` | `EpochCapInOrder` |
| `FailuresLeaveNoTrace` | `FailedCallsLeaveNoTrace` |
| `CallsTakeEffectAtOnce` | `CallsAreAtomic` |
| `ReputationAlwaysBacked` | `ReputationBacked` |
| `CrateImplementsLedger` | `CoreImplementsLedger` |
| `LabImplementsCore` | `DemoImplementsCore` |
| `TiersAlwaysAgree` | `TierAgrees` |
| `SessionsAreBehaviours` | a session of the CLI is a behaviour of the program |
| `RetriesLandOnce` | `LandsOnce` |
| `StatusNeverOverstates` | `StatusBacked` |
| `StatusTierIsTheProgramsTier` | `StatusTier` |
| `RunsAreBehaviours` | so are the runs of the script |
| `CompleteNeverLies` | `CompleteIsTrue` |
| `FlowAlwaysAccepted` | `FlowNeverRefused` |
| `AcceptsIsTheGuard` | a transaction of the script is included exactly when `Accepts` holds |
| `CreditNeverTrapped` | `CreditNotTrapped`, given that customers are fair (`FairlyRedeemed`) |
| `FairSpecNeverTraps` | `CreditNotTrapped` from `FairSpec`, given where its fairness obliges (`ObligedByCredit`) |
| `RedeemFromIsTheGuard` | a redemption can be taken exactly while there is credit |

Each inductive invariant has a theorem too: `Invariance`, `AuditInvariance`,
`EventsInvariance`, `SignaturesInvariance`, `MintingInvariance`, `CoreInvariance`,
`CallsInvariance`, `LabInvariance`, `SessionInvariance`, `DemoInvariance`, `FlowInvariance`.

*The inductive invariant* `IInv` is needed because no part stands alone. That
the day's counter is within the cap (`CapRespected`) speaks of the merchant
account at `b[2]`, which must exist and never change (`RelationshipsBound`); that
streak points are at least the visits needs every credited receipt to move them,
so a positive receipt limit (`ConfigSound`); a credential is one of one because a
fresh mint has no holders (`NoTokenWithoutMint`); and the checked subtractions
are natural numbers only under `Solvent`. The proof has one lemma per
instruction.

*Configurations.* `ConfigAccepted` says of every coalition and merchant that some
arguments which the checks accept are the ones in the account. Tiers in order
are then a fact about all of them and not only about neighbours, which makes the
reached ones a prefix (`ReachedIsPrefix`, for `TierLevelExact`; `LastReached` of the
page, for `TierAgrees`). Neither is an induction over the sequence: the places where
it failed would have a least one (`LeastNat`).

*Credit that adds up.* `CreditIInv` joins `IInv` with `StreakBackedByCredit`, a
sum over the merchants that issued to a passport. The sum is over a finite set
though there may be infinitely many merchants: that the set stays finite
(`BalancesFinite`) is part of the invariant, because each instruction touches one
balance. `Sums_proofs` has the facts about sums. The library's induction over
finite sets takes an operator as a parameter, which no prover here can
instantiate, so each is proved from a smallest counterexample (`MinimalSet`). What is
chosen with CHOOSE is opened only in steps of Zenon, as SMT would take it for
unique.

*The audit's invariant* `AuditIInv` adds `DayCounterExact`, which is what turns a
bound on one remembered day into a bound on all days: the counter is the whole
credit of its day and no later day has any, so a receipt either continues the
day or opens one that is empty, and with `ClockMovedBackwards` it can do nothing
else. `NoncesBehind` does the same for nonces.

*The follower's invariant* `EventsIInv` says that the books of one who only reads
the events are the accounts (`EventsTellAccounts`), zero where nothing was
reported (`UnknownIsZero`), and that no nonce in them is ahead of its account
(`ReceiptsKnown`). The last is why a receipt's nonce is new to the follower, and so
one more visit is one more nonce in the sum of `VisitsAreReceipts`.

*The notary's invariant* `SignaturesIInv` is the property itself with `IInv`, which
keeps the sums natural numbers: a wallet and a passport, or a customer and a
merchant, name one balance, because the constraints tie each signer to the seeds of
the accounts it comes with.

*Program and crate.* `ProgramImplementsCore` maps a balance account to an entry of
the crate's map. Under `IInv` the crate's saturating subtractions are the
program's checked ones (`CoreNumbers`) and what an account was configured with the
crate's constructors accept (`CoreConfig`), so a receipt is an accepted `accrue` of
its passport and leaves all others alone. `ProgramAnswersAsCore` compares the two
lists of checks: a verdict is `Ok` when all of them hold (`VerdictOk`), and
otherwise the error of the first that fails (`VerdictFirst`, `VerdictFrom`). In
`AccountsNeverBroken` the checks whose errors blame the accounts follow from
`IInv`; in `CreditAlwaysRedeemable` so do all the checks and constraints of `redeem`,
for any part of the credit there is.

*The minting invariant* `MintingIInv` says of a running transaction what it has
built (`Transaction`, a function of its position in `Cpis`) and that what `Begin`
found is still so (`StillFree`), which is what the locks are for; that two
transactions never have one mint; and of the chain that every mint is bound and
owned (`MintsOwned`). At `Commit` the work is then exactly the account that
`CreatePassport` writes, and with `NoTokenWithoutMint` of `IInv` the ATA's one
token is the first of its mint: the step is a step of the program, so the
program's own invariant carries over. That no two passports share a mint is
`CredentialUnique`.

*The crate's invariants.* `CoreIInv` joins the three parts, which need each
other: a sum fits in u64 because it was checked, and the counter is part of the
credit because both move together. `CoreAuditIInv` adds `EpochCounterExact`, the
counterpart of `DayCounterExact`, for the merchants in `in_order` only;
`BackedIInv` adds the sums over the entries.

*A running call.* `CallsIInv` describes the passport in the middle of a call in terms
of the one that the call found: the checks before its position hold of that one
(`ChecksBehind`), and the passport is that one with the writes before its position
done (`WrittenBefore`). A write comes only where no check is left, so a failing
call has written nothing and a returning one everything.

*The page.* `LabIInv` bounds every counter by what was earned, and that by the
caps together, so the checked additions of the crate, which the page does not
have, never fail where the page goes on. Its nonce is at most one past the credit
of its merchant, since a receipt earns at least one.

*Sessions and runs.* A session of the CLI and the runs of the script take no step
on the chain that is not one of the program, so `IInv` and the rest hold in them.
`SessionIInv` adds what a command that landed leaves behind (`LandedTook`: the
account it created, or a nonce the balance has reached), which refuses every
other attempt of it; and that what status has in hand was true of the chain and
has only been passed since (`FetchedStands`). `DemoIInv` adds that the files of the commands
before the current one are of this run (`FilesOfThisRun`: `tee` has emptied them)
and that any number of runs got one receipt and one redemption accepted at most
(`OneOfEach`, `RedemptionShows`), since nonce 1 and ten of twelve units can be used
once.

*The order of the script.* `FlowIInv` adds to `DemoIInv` that the accounts exist
exactly when some run's transaction for them was included and that nothing else
moved them (`AccountsFollow`), that the coalition is of one run only
(`CoalitionOfOneRun`), and that no run submits a transaction before its earlier
ones were included (`SubmittedInOrder`). Hence nothing later than
`initialize-coalition` can be of any other run than the one whose coalition it is
(`NothingAhead`): the accounts are where that run left them, and each instruction
finds its constraints and checks met (`ReceiptAccepted`, `RedemptionAccepted`).

*Credit gets out.* While *r* units are redeemed from a balance, its credit stays,
or more than *r* are redeemed, whatever anyone does (`CreditStays`); a redemption
from it redeems more than *r* (`RedemptionCounts`). The rest is temporal logic. The
prover cannot look into ENABLED, so what is assumed of the customer is weak
fairness with the guard in its place (`FairlyRedeemed`): whoever has credit from
some moment on redeems again and again. `RedeemFromIsTheGuard` proves the guard to
be the right one: a redemption is a step exactly if it writes one of the states
that each part of the credit there is gives. `FairSpecNeverTraps` has the
weak fairness of `FairSpec` itself and names the one fact about ENABLED it needs
(`ObligedByCredit`).

*Why the denominator's square must fit* in `NewDayAlwaysReopens`: the receipt
that is shown to be acceptable is for `BASIS_POINTS_DENOMINATOR` units, at a rate
of at most `BASIS_POINTS_DENOMINATOR`, and its product must not overflow: 10^8 in
the code, far below 2^64.

Only model-checked: the last step from `RedeemFromIsTheGuard` and
`AcceptsIsTheGuard` to ENABLED, which is not in the prover's reach. So TLC alone
says that `FairSpec` implies `CreditNotTrapped` without `ObligedByCredit`. Every
invariant and every action property that a run finds to hold is a theorem.

## Not modelled

Of the script, what comes before the test for `complete.json` (tools, keys,
cluster, balance) and `--check`, which only prints. Of the CLI, `derive`, `show`
and `build`, which only print, the loading of keys and the checks of cluster and
IDL before a submission; of the page, its Devnet check, a reader that shares no
state with the receipt lab. Rent, fees and compute limits, except as a reason
for `Abort`. The IDL, styles, build files and CI workflows have no state of
their own. That the three implementations of PDA derivation agree is a matter of
test vectors, which the repository has.

Hazards without a property, because the repository promises nothing there: a
repeated `redeem`, an old pause that lands late, one commitment under two
nonces, a demo session over midnight, and a final status from a node that lags
behind. `PROJECT.json` has them with the
reasons.

## Plan

1. *Done:* program, audit, signatures, abstract ledger, crate and the relations between
   them; the crate's calls statement by statement; results and events; `PassportMinting`; the receipt lab, `send` and
   `status`, and the script; the proofs above.
2. *Done:* `FlowNeverRefused` without ENABLED, and liveness of redemption from
   fairness.
3. Of the tiers, the functions are compared pairwise where they meet
   (`TierAgrees`, `StatusTier`, `TierLevelExact`, `SameResult`); one common
   definition would allow a single statement.
