# maxim_protocol in TLA+

A model of the on-chain program in `programs/maxim_protocol`: agent wallets that
pay in USDC under a spend policy and keep an append-only ledger of what they
paid. TLC checks the model on small instances; TLAPS proves the main properties
for every value of the constants.

## 1. Inventory

| component | state | operations | source |
|---|---|---|---|
| protocol configuration | singleton account: admin, global payment cap | `init_protocol`, `rotate_protocol_admin`, `update_protocol_config`, and with the admin's signature `freeze_agent`, `unfreeze_agent` | `lib.rs` 169-208, 611-652; `protocol_config.rs` |
| agent wallet | one account per agent id: owner, token account, three spend sums and window starts, sequence, totals, two suspension flags | `register_agent`, `deactivate_agent`, `reactivate_agent`, `transfer_ownership`, `close_agent` | `lib.rs` 221-252, 561-602, 704-739; `agent_wallet.rs` |
| accounting windows | inside the wallet: day, 7 days, 30 days | lazy resets at the start of a settlement | `agent_wallet.rs` 121-146 |
| spend policy | one account per wallet: budgets, per-call limit, rate limit with its counter, threshold, domain lists | `set_spend_policy`; read and counted by `settle_payment` | `lib.rs` 266-307, 365-423; `spend_policy.rs` |
| settlement and ledger | one record account per (agent, sequence) | `settle_payment`, `record_policy_violation` | `lib.rs` 326-550; `payment_record.rs` |
| withdrawals | none of their own | `withdraw_funds`, `withdraw_all` | `lib.rs` 664-693, 746-795 |
| SPL Token and runtime (external) | token accounts, the clock | transfers, deposits, creation of associated token accounts; atomic instructions | used from `lib.rs` |
| events and indexer | what a reader of the events knows; the indexer is outside the repository | ten `emit!` sites | `lib.rs` 21-98 |
| error codes | none | returned by the first `require!` that fails | `errors.rs` |
| gateway, KMS, dashboard | outside the repository | sign and submit instructions | doc comments only |
| seed script | its place in the list, a local map of sequences | a fixed list of instructions on devnet, each confirmed before the next | `scripts/seed.ts` |

**Interaction.** Everything meets in accounts. `settle_payment` reads the
configuration (cap), reads and writes the wallet (flags, windows, counters),
reads and writes the policy (limits, rate counter), calls SPL Token, and creates
a record whose address contains the wallet's sequence. The sequence is the
program's only lock: two instructions signed for one sequence cannot both
succeed. The owner and the admin act independently of each other; anybody may
send tokens or create token accounts. The runtime executes transactions in
parallel unless their account lists conflict; the lists, with what is `mut`, are
the program's. Every instruction but registration, closing and those of the
configuration tells the outside what it did in one event. The seed script is a
client like the gateway: it counts sequences itself.

**What is hard.** A conflicting instruction waits and a failing one is undone
(`SettleExecution` shows what that rests on), so most of the difficulty is not
inside an instruction but in sequences of them, by several signers, in orders
nobody tried:

- windows that reset only when somebody pays, three of them, and a fourth, the
  rate window, that restarts by another rule;
- counters that saturate and then share an address with the last record;
- closing, funding and registering again, with a token account that outlives the
  wallet, and a mint the caller chooses;
- freezing, deactivating and moving ownership while payments and withdrawals are
  under way;
- payments below the threshold that nothing checks and that fill the same
  windows as those that are checked;
- settlements of different agents that run in parallel and meet in a payee's
  account or in the configuration;
- errors and events, which others store or add up, and which must be true of the
  accounts though some are read before and some after these change;
- a client that cannot tell a lost transaction from a late one.

`PROJECT.json` lists these hazards line by line with the properties that reach
them.

**What makes each component correct.** Ledger: nothing is overwritten, no gap,
counters agree with it, nothing is added once its wallet has closed. Wallet: an id
is used once; the owner can always get the money out. Money: it leaves by a recorded settlement or to the owner. Windows:
each sum is what the ledger dates inside the window; windows nest. Policy: an
enforced payment leaves the budgets respected; the rate counter agrees with the
ledger. Execution: a settlement is one step or none, and its error is true.
Events: who reads them all knows the ledger, the flags, the owner, the budgets
and the balance. Seed script: what it leaves on the ledger is a prefix of its
list, and it ends.

## 2. Modules

| module | models |
|---|---|
| `SpendControls` | pure functions: window resets, accounting, policy verdicts (`agent_wallet.rs`, `spend_policy.rs`, parts of `settle_payment`) |
| `MaximProtocol` | the accounts as variables and one action per instruction, plus token accounts created by anybody, deposits and the clock |
| `MaximSafety` | properties of `MaximProtocol`, and its fairness |
| `PaymentLedger` | the abstract specification: wallets that are vacant, open, suspended or gone, with funds and an append-only ledger |
| `MaximRefinesLedger` | the refinement mapping from `MaximProtocol` to `PaymentLedger` |
| `SettleExecution` | `settle_payment` statement by statement on several threads, on copies of the accounts, under the locks that the account lists imply; composed with every other instruction. Which error is returned, and what `errors.rs` says it means |
| `Dashboard` | every instruction joined by the event it emits or by none, and the view of a reader of the events |
| `SeedScript` | `scripts/seed.ts` composed with the program, a network that loses and delays transactions, and a stranger |
| `DocumentedClaims` | sentences of the source's comments that do not hold, one run each |
| `MCMaxim`, `MCExecution`, `MCDashboard`, `MCSeed` | instances for TLC |
| `MaximProofs` | theorems: types, the ledger, closing, money, recovery |
| `SumProofs`, `WindowProofs`, `PolicyProofs` | theorems: sums over finite sets; windows and books; rate limits and budgets |
| `ExecutionProofs`, `DashboardProofs`, `SeedProofs` | theorems about the three compositions |
| `RefinementProofs` | theorem: `MaximProtocol` implements `PaymentLedger` |

**Correspondence.** An account table is a function whose domain is the set of
addresses that hold an account: Anchor's `init` is "not in the domain", `close`
removes from it. `agent_wallet` is indexed by agent id, `payment_record` by
agent id and sequence, `token_account` by holder and mint (associated token
accounts only). Field names are the code's, except that the three spend sums,
window starts and budgets are functions over `Windows`. A failing instruction is
an action that is not enabled; of `settle_payment`, `AdmitsPayment` names the whole
requirement. Account constraints (`has_one`, `init`,
`constraint`, the seed length) are guards beside those of the body. The signer
is a parameter: an action with `owner` is enabled when `owner` is the registered
key, and `SignedByOwner` is that `has_one`.

`SettleExecution` keeps per thread the request, the statement it is at and the
copies of wallet, policy and token accounts. Each `require!` is a `Check`, in the
order of the code, and the first that fails decides the error. `Commit` stores
the copies, `Rollback` drops them. `Writes` and `Reads` are the `mut` and the
other accounts of `SettlePayment`. The configuration is read in place, as the code
does, which is sound only because of its read lock. All the other instructions
are single steps under locks of their own. The clock moves between blocks only.

`Dashboard` adds to `MaximProtocol`'s actions what each event changes in `view`.
The reader has seen no registration and starts from what `register_agent` sets.
`arrived` counts deposits, which are SPL transfers and not events of this program.

`SeedScript` has the script's position in its list, its status and its own
sequence map. Amounts are in half dollars, which keeps them whole. The network may
execute a transaction, reject it, or lose it; it may execute it after the script
has given up. `disturbed` notes whether the network failed or somebody interfered.
There are two specifications, because the script as committed does not get far:
three of its encoders leave out a field or an account, and the program cannot read
what they write. `SeedSpec` is the script's control flow. It leaves open what the
program can read, so the cluster may refuse any transaction and the script may stop
at any. `WireSpec` adds what the encoders write
(`ScriptSends`) and the program reads (`ProgramExpects`): it is the script as it
stands, and every behaviour of it is one of `SeedSpec` (`WireIsASeed`). Under
`WireSpec` no entry ever reaches the ledger, so what `SeedSpec` says of entries
speaks of the control flow should the program read them. Nothing is claimed of
"Done!", which the committed script cannot report. Of the library calls,
`getOrCreateAssociatedTokenAccount` swallows the error of the account's creation
and reads the account: if it is there the script goes on (`Confirm`), if not it
ends (`Throw`).

**Abstractions.** Hashes (endpoint, memo), bumps, rent and versions
are left out: no instruction reads them back. An id is a name with a length, and
is or is not made of plain characters. Time is in units that the constants
define; `SecondsPerDay`, `DaysPerWeek` and `DaysPerMonth` keep the code's
relation that weeks and months are whole days. u64 and u32 saturate at `MaxU64`
and `MaxU32`. Only associated token accounts exist; a payee with another kind of
account behaves like one more holder. Bounds on the environment: `MaxSupply`
(tokens of a mint) and `MaxTime` (the last second).

## 3. Runs

Most runs have a day of 2 s, a week of 2 days and a month of 3, which keeps the windows
different and a month that is not a multiple of the week, as 30 and 7 are not. In
`settle` the day is 1 s, so that one elapses; the runs of the seed script have the
code's lengths and do not need the time to pass.

| run | instance | properties | states |
|---|---|---|---|
| `lifecycle` | 1 agent, 2 keys, 1 mint, u64 up to 2, 2 seconds, a valid and an invalid protocol byte, 2 policies, events, fairness | `TypeOK`, `SequenceMatchesLedger`, `VolumeMatchesLedger`, `RetiredForever`, `OutflowAuthorised`, `ViewMatchesAccounts`, `ShownActiveExists`, `BooksBalance`, `FundsRecoverable` | 403 thousand |
| `ledger` | 1 agent, 2 keys, 2 mints, u64 up to 2 | `LedgerGapless`, `LedgerAppendOnly`, `SealedForever`, `OutflowAuthorised` | 909 thousand |
| `agents` | 2 agents (symmetric), 1 key, 1 mint | `ImplementsLedger` | 269 thousand |
| `windows` | 1 paying agent, 8 seconds: 4 days, 2 weeks, more than a month | `SpendMatchesLedger`, `NestedWindows`, `AnyPeriodWithinTwoBudgets`, `EnforcedWithinBudget` | 352 thousand |
| `rate` | 1 paying agent, 5 seconds, two policies that replace each other | `RateCounterMatchesLedger` | 269 thousand |
| `settle` | 2 threads (symmetric), 2 agents with 2 owners, 9 requests, 4 policies, cap 0 or 1, 2 other instructions at any point | `RefusalsJustified`, `SettlesAtomically`, `OutflowAuthorised` | 853 thousand |
| `seed` | the script's own agents, amounts and policy, a second key; the control flow and the script as it stands | `LedgerFollowsScript`, `CounterInStep`, `StopsAsItStands`, `ScriptEnds` | 673 |
| `long_ids` | ids of 32 and 33 bytes | `DocumentedIdsRegister`, violated | |
| `any_day` | as `windows` | `AnyDayWithinBudget`, violated | |
| `drained` | as `ledger` | `CloseLeavesNothing`, violated | |
| `chains` | one paying agent, links to its first two records | `ChainsReachRoot`, violated | |
| `seed_wire` | as `seed`, of the script as it stands only | `SeedsUndisturbed`, violated | |

What they show:

- `lifecycle` takes every instruction in every order from an empty chain. With
  u64 ending at 2, an agent fills the ledger to its last address, hits
  saturation and is stuck there without overwriting anything. Two keys are
  enough for a wallet to change hands and back, and for an admin that is also an
  owner. The events of every step are read by a dashboard that knows nothing
  else; it gets the ledger, the flags, the owner,
  the budgets and, with the deposits, the balance right, also across transfers of
  ownership, payments to oneself and closing. Whatever the admin and others do,
  the owner gets the money out.
- `ledger` has the second mint, which is what lets a closed id be registered
  again, also by another owner. The sequence then starts at 0, where records
  exist; the new wallet cannot pay or record anything, so the history of the closed
  one is final (`SealedForever`). What a closed wallet still holds moves only at the
  word of an owner that registers the id again.
- `agents` shows that two wallets are independent except through payments, and
  that an outsider sees the steps of `PaymentLedger` and nothing else.
- `windows` lets whole days and weeks pass unnoticed, mixes enforced and
  unenforced payments and violations, and compares the accumulators with sums
  over the ledger. Four tokens against budgets of 2, 3 and 3 let each budget
  bind; three policies with a budget of 1 on the day, the week or the month make
  two budgets less than the tokens there are, so that `AnyPeriodWithinTwoBudgets`
  says something of each window.
- `rate` has a window of 2 s with a limit of 2, and a window of 0 s, which never
  resets, with a limit of 1.
- `settle` runs two settlements at a time: of one agent, of two agents that pay
  one payee, of an agent that pays the other, each stopped after any statement,
  with freezes, caps, ownership and policy changes, withdrawals and deposits
  offered in between. The locks make of each exactly the atomic `SettlePayment`
  of `MaximProtocol`; were the wallet reloaded after the call of the token program,
  as Anchor code often does, the reset of its windows would be lost. The
  requests differ from a good one in one respect each, and the policies refuse
  for every reason a policy has, so that every error of `settle_payment` occurs;
  each is true of the accounts, and about budgets of the ledger.
- `seed` follows the script with every loss, delay and rejection at every
  transaction, and a stranger that initialises the protocol first and then freezes
  agents or caps payments. A script that caught the error and went on would leave
  gaps: that is the mutant. Each behaviour is one of `SeedSpec` or of `WireSpec`
  (`as_it_stands` in `MCSeed`): of the latter, `StopsAsItStands` shows that it ends at its
  first `set_spend_policy` at the latest, having registered one agent that has no
  policy and no tokens, under an id that no later run uses.
- The violated claims are described in section 6.

`windows`, `rate`, `any_day` and `chains` start from one registered, funded wallet with a policy, the
state four instructions reach in the first second; the first second is 1 because
`last_payment_at` uses 0 for never. Violations recorded there are of one amount,
which nothing reads back. `settle` starts from two such wallets. The other runs
start from nothing. `settle` bounds the other instructions to two (`MaxOthers`):
no statement depends on more than one change of another instruction, and the
second lets that change be prepared, as a token account is before a withdrawal
into it.

`CHECK_DEADLOCK FALSE` is set in five runs. In `windows`, `any_day` and `chains` the
clock stops at `MaxTime` and the tokens are spent or the sequence is used up,
which is the end of the instance. In `seed` and `seed_wire` the script has ended
and the stranger may have nothing to do. Everywhere else some instruction is
always possible.

**Fairness.** `seed` assumes that the script runs on (`WF` of its own steps,
among them that the library gives up waiting: `sendAndConfirmTransaction` ends
when the blockhash expires). Nothing is assumed of the network.

`lifecycle` assumes `OwnersKeepAsking`. The program
schedules nothing, so nothing is fair about it by itself. The promise "the owner
can always recover their USDC" is about an owner that asks: some owner keeps
submitting `withdraw_all` while it stays possible, and keypairs create token
accounts to receive into. Weak fairness is enough because once the token account
of every key exists, nobody can disable the withdrawal: not the admin, not a new
owner, not a payer (`FundsStayInReach` in section 4). No fairness is assumed of admins, payees or depositors, who
may do anything meanwhile. One mint is in use there: with a second one the
wallet can be closed over a balance, which is the `drained` run.

## 4. Proofs

Assumptions on constants are the named `ASSUME`s of `SpendControls` (positive
widths and periods), `MaximProtocol` (disjoint names, inputs of the right types),
`SettleExecution` (a request holds arguments of the right types) and `SeedScript`
(the script's names and arguments are among those a caller may use). TLC evaluates
each of them. The theorems hold for any number of agents, keys, mints, threads and
requests, any widths and any lengths of day, week and month, unless the table says
otherwise.

`SingleMint` says that callers name one mint. The program does not check the mint,
so this is a restriction on its use, the one for which it is written ("USDC"). It
is a hypothesis only where the statement is false without it: `register_agent` with
a second mint gives a closed id a new wallet, whose counters, books and policy know
nothing of the records that the id already has. The `ledger` run has two mints.

| theorem | states | restricted to |
|---|---|---|
| `TypeCorrect` | `TypeOK` | |
| `LedgerIsAppendOnly` | `LedgerAppendOnly` | |
| `LedgerHasNoGaps` | `LedgerGapless` | |
| `OutflowIsAuthorised` | `OutflowAuthorised` | |
| `ClosedHistoryIsSealed` | `SealedForever` | |
| `WithdrawalStaysPossible`, `FundsStayInReach` | the safety half of `FundsRecoverable`, up to the owner's closing with another mint | |
| `CountersMatchLedger` | `SequenceMatchesLedger` | one mint |
| `DaysNestInWindows` | `NestedWindows` | |
| `SpendIsOnLedger`, `VolumeIsOnLedger` | `SpendMatchesLedger`, `VolumeMatchesLedger` | one mint |
| `PayersBooksAreRight` | the same, of every wallet that can still pay | |
| `RateCounterBracketsLedger` | `RateCounterMatchesLedger` | |
| `BudgetsHold` | `EnforcedWithinBudget` | |
| `PeriodsWithinTwoBudgets` | `AnyPeriodWithinTwoBudgets` | one mint, policies that stand |
| `ExecutionImplementsInstructions` | `ExecutionSpec => Spec` | |
| `SettlementsAreAtomic` | `SettlesAtomically` | |
| `RefusalsAreJustified` | `RefusalsJustified` | |
| `ExecutionKeepsPromises` | `OutflowAuthorised` and others under `ExecutionSpec` | |
| `EventsChangeNothing` | `DashboardSpec => Spec` | |
| `DashboardIsRight` | `ViewMatchesAccounts` | one mint |
| `LedgerAndLimitsAreRight` | of `ViewMatchesAccounts`, the ledger and the policies | |
| `ActiveWalletsAreThere` | `ShownActiveExists` | |
| `BooksOfTheDashboard` | `BooksBalance` | one mint, finitely many ids |
| `ScriptIsAClient` | `SeedSpec => Spec` | |
| `CounterStaysInStep`, `ScriptLeavesPrefix` | `CounterInStep`, `LedgerFollowsScript` | |
| `WireIsASeed` | `WireSpec => SeedSpec` | |
| `ScriptStopsShort` | `StopsAtFirstPolicy` (in the `seed` run, `StopsAsItStands`) under `WireSpec` | |
| `ProgramKeepsPromise` | `ImplementsLedger` | one mint |

The arguments:

- **Types.** `TypeOK` is inductive, one lemma per instruction. That no balance goes
  below zero rests on the guards of settlement and withdrawal
  (`AdvancedStartContains` is the arithmetic of the resets).
- **Ledger.** Every step appends one record at the wallet's sequence or leaves the
  ledger alone (`StepOnLedger`). `LedgerGapless` is inductive because the sequence
  is the end of the ledger, or 0, or saturated, and in the last two cases a payment
  may find its address taken. Hence `ClosedHistoryIsSealed`, for any mints: a second
  wallet of an id with records counts from 0, the record of 0 exists because there
  are no gaps, so it never appends and its sequence never moves. With one mint,
  `LedgerInv` adds that a wallet, and an id with records, has its token account;
  nothing closes that account, and it makes the id unusable (`NoSecondStart`).
- **Money.** A step property from `TypeOK`. A transfer takes from the sender exactly
  what the receiver gets (`TransferMoves`), also between two agents and from an
  agent to itself.
- **Recovery.** A step keeps every wallet and its owner, unless the owner hands the
  wallet on or closes it (`StepKeepsWallets`), and `close_agent` with the mint of
  tokens that are there is refused. `CanWithdrawAll` is what `withdraw_all` requires
  (`WithdrawAllRequires`): only the owner ends it, by passing the wallet on or by
  closing it with another mint named, as in the `drained` run. Once every key has a
  token account (`InReach`), passing it on does not end it either. With one mint
  there is no other mint to name, which is what `FundsRecoverable` rests on.
- **Nesting.** That the day's sum is at most the week's is not inductive.
  `WindowInv` adds that the day's start is the week's start plus a whole number of
  days, less than a week (`GridAdvances`).
- **Books.** What the accumulators are compared with is a sum over a finite set of
  records, folded in the order of `CHOOSE`. `SumProofs` shows that the order does
  not matter and that the sum of a set with one more element grew by its value. The
  induction is over the subsets of a finite set and takes a set where the library's
  rule takes a predicate, which is what makes it usable here. `Booked` strengthens
  the two properties: no settlement is dated after the end of a window or after the
  clock, so that a window that restarts holds the new payment only. The ledger's
  total is the sum capped at u64 once, the accumulator caps at every payment; with
  no negative amounts the two agree.
- **Budgets.** `BudgetsHold` needs the books only of a wallet that settles. For any
  mints, the wallets whose books may be wrong are those registered again over
  records; their sequence starts at 0, whose address is taken, so they can never
  append. `OpenBooksInv` says that all the others are `Booked`, which
  `PayersBooksAreRight` makes a theorem of its own. TLC checked it with two mints
  before it was proved.
- **Rate limits.** `RateInv`: the counter is at least the number of enforced
  settlements after the window's first second and at most that since its start, the
  window begins no later than now, and nothing on the ledger is later than now.
- **Two budgets.** `GridInv` bounds every past window of the grid, not only the
  current one; any period of a window's length meets at most two of them. The
  hypothesis `PoliciesStand` says that once set, a policy keeps its budgets and its
  threshold. It is needed: an owner that raises and lowers a budget has been
  allowed what it was. In the `windows` run nobody replaces a policy.
- **Parallel execution.** `ExecutionInv`: the copies of an execution are at each
  statement what the earlier statements make of the *stored* accounts (`Picture`),
  the checks that were passed still hold of these (`Passed`), and no two executions
  hold conflicting locks (`Exclusive`). An instruction that runs beside an execution
  cannot change what `Picture` and `Passed` mention, because it would need a lock.
  The commit is then `SettlePayment`, everything before it is a stutter, and every
  theorem about `Spec` holds under `ExecutionSpec`.
- **Refusals.** Of a failed execution `ExecutionInv` says that its error is the first
  one to be found in the stored accounts *now* (`Refused`), which the locks keep
  true until the rollback. A chain of checks fails at its first false one
  (`FirstErrorDecides`), and each check, one by one, is the negation of what
  `errors.rs` says of its error. Budgets are the step that needs more: the
  accumulator after the reset is what the ledger says was spent in the window that
  contains now (`SpentNowIsSpend`), which rests on `OpenBooksInv`. So it holds with
  any mints: a wallet whose books are wrong is stopped at its sequence, or at the
  address of the record, before its budgets are read. What `AdmitsPayment` admits
  passes every check (`AdmittedPasses`), so nothing refused would have been admitted.
- **Dashboard.** `ViewInv` says what the view is when the wallet is not there, since
  `register_agent` and `close_agent` emit nothing: before registration the view is
  what registration will set; a closed wallet was deactivated before, so it shows as
  not active. With a second mint the dashboard may show the flags and the owner of
  the earlier wallet, but nobody as active who is not, and its ledger and limits
  stay right (`FlagsShown` separates the two parts). The balances are sums over all
  ids, hence the finiteness.
- **Seed script.** `SeedInv`: the program's accounts, the script's place and the
  network agree that the first *l* transactions, and no other, have been executed,
  where *l* is the position, or one more when a transaction has landed that the
  script has not seen. `Executed(l)` spells out sequences, records and balances for
  each *l*. The stranger can change none of these. For the script as it stands,
  `Stopped` adds to `StopsAtFirstPolicy` that nothing lands at the fourth
  transaction, and that the wallet is there once the third has landed.
- **Refinement.** Each action is a step of `PaymentLedger` or a stutter under the
  mapping of `MaximRefinesLedger`, which builds each agent's entries as a sequence
  as long as its records are many; that an entry is appended at the end needs
  `LedgerInv`.

Only model-checked: `RetiredForever`, which holds with one mint only and then by the
one guard of `register_agent` that its mutant drops (what holds for any mints is
`ClosedHistoryIsSealed`); and `FundsRecoverable` and `ScriptEnds`, which are
liveness, out of the prover's reach. What `FundsRecoverable` rests on is proved:
that the withdrawal, once possible, stays possible (`FundsStayInReach`). The five
`violation` runs are counterexamples and need no proof.

## 5. Not modelled

- The gateway, the KMS and the indexer: outside the repository. What they submit
  is covered by any instruction coming at any time; their retries are not known.
- Rent, fees, compute limits, transaction packing of several instructions, token
  delegates and accounts frozen by the mint's authority.
- The statements of instructions other than `settle_payment`: they are one step
  each. They lock the same accounts, and none but the withdrawals calls another
  program.
- Which error an instruction other than `settle_payment` returns.
- Endpoint and memo hashes in records and events, and the times in events of
  changes that no account dates: nothing on chain can be compared with them.
- A keypair that closes its own token account, which SPL Token allows once it is
  empty. A payment or withdrawal to it then fails until somebody creates it again,
  so `FundsRecoverable` and `FundsStayInReach` suppose that owners keep theirs; that
  no other property depends on it, since a missing account only disables
  instructions, is an argument and not a check.
- The script's `createMint` (the mint is there when the model begins), its
  formatting, its key file and the SOL balance it prints.

## 6. Where the code and its comments disagree

Checked, one run each:

1. `long_ids`: `errors.rs` 5 allows ids of up to 64 characters; the id is a seed
   of the wallet's address (`lib.rs` 853), and seeds end at 32 bytes. The trace is the
   initial state: an id of 33 bytes is free there and no caller can register it.
2. `any_day`: `spend_policy.rs` 27 bounds "any 24-hour window"; the windows are
   fixed, so 24 hours can hold two budgets, and never more
   (`AnyPeriodWithinTwoBudgets`).
3. `drained`: `lib.rs` 731 asks for a drained token account; `close_agent`
   checks the account of the mint the caller names (`lib.rs` 1104-1111). What is left
   has no authority until the id is registered again under another mint; the owner
   by then, who may be somebody else, can withdraw it.
4. `chains`: README 131 and `payment_record.rs` 40-42 reconstruct a workflow by
   following `parent_payment` from a root; nothing checks the link (`lib.rs` 476),
   so a record may be below no root: its own parent, or a missing record's child.
   `ParentAgentMismatch` is never used by an instruction.
5. `seed_wire`: `scripts/seed.ts` 1-12 says what the script does; its
   `set_spend_policy` (171-181) lacks `monthly_budget`, its payments and
   violations (215-222, 252-259) the memo, its payments (228-238) the
   configuration account. The first of these ends it (`StopsAtFirstPolicy`).

Read, not checked:

- `lib.rs` 477 and 538 assign `record.memo`, a field that `PaymentRecord`
  (`payment_record.rs` 43-87) does not have: the program does not compile at this
  commit. The model follows the evident intent, that a memo is stored.
- `spend_policy.rs` 17-18 lowers the threshold to zero to enforce every payment;
  lines 65-66 and `settle_payment` make zero enforce none.
- `lib.rs` 16 and the repository's README 119 promise an event for every
  state-changing instruction; `register_agent`, `close_agent` and the three
  configuration instructions emit none.
- `is_operational` is never used by an instruction.
- `scripts/seed.ts` announces 15 transactions where it sends 4, and records a
  violation with reason 5 for `PerCallLimitExceeded` (307), which is number 10 of
  `MaximError`; `lib.rs` 44 calls the reason a "Numeric MaximError discriminant".

## 7. Plan

Done: the modules of section 2, their runs, and a theorem for every property of a
passing run that is not liveness, but for `RetiredForever` (section 4). Nothing of the plan is left; when the program
changes, two of its parts will need new work:

1. A program that checks the mint (`close_agent` against the wallet's
   `usdc_token_account`, `register_agent` against a configured mint) would make
   `SingleMint` a consequence where it is now a hypothesis, and `drained` a
   passing run.
2. A script with the fields of section 6, item 5, would make `seed_wire` a passing
   run and `StopsAtFirstPolicy` false, and what "Done!" promises could be stated.
