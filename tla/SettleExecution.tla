---------------------------- MODULE SettleExecution ----------------------------
(***************************************************************************)
(* settle_payment as a validator executes it: several threads at a time,   *)
(* statement by statement, on copies of the accounts, which are stored     *)
(* when the last statement has succeeded and dropped at the first error.   *)
(* In MaximProtocol all of that is the one action SettlePayment.           *)
(*                                                                         *)
(* What makes it one action are the account lists of the instructions: a   *)
(* transaction starts only when no transaction under way holds one of its  *)
(* accounts, unless both only read it.  The lists, `mut` or not, are the   *)
(* program's, the threads and the locks are the runtime's.  The other      *)
(* instructions are taken in one step here, under the same locks.          *)
(***************************************************************************)
EXTENDS MaximSafety, Sequences

CONSTANTS
  Threads,    \* the validator's execution threads
  Requests    \* settle_payment transactions that clients submit

ASSUME RequestsAssumption ==
  Requests \subseteq [owner: Keys, a: AgentIds, mint: Mints, payee: Holders,
                      sequence: U64, params: PaymentParams]

VARIABLE executing   \* the execution of each thread that is at one

executionVars == <<vars, executing>>

-----------------------------------------------------------------------------
(* Account locks *)

ConfigKey           == <<"protocol_config">>
WalletKey(a)        == <<"agent_wallet", a>>
PolicyKey(a)        == <<"spend_policy", a>>
RecordKey(a, seq)   == <<"payment_record", a, seq>>
TokenKey(h, mint)   == <<"token_account", h, mint>>
SignerKey(k)        == <<"signer", k>>

\* The mut and init accounts of SettlePayment, and the others that something writes
Writes(q) ==
  {RecordKey(q.a, q.sequence), WalletKey(q.a), PolicyKey(q.a),
   TokenKey(q.a, q.mint), TokenKey(q.payee, q.mint), SignerKey(q.owner)}
Reads(q) == {ConfigKey}

\* No transaction under way stands in the way of one with these accounts.
Unlocked(writes, reads) ==
  \A x \in DOMAIN executing :
    LET q == executing[x].request IN
    /\ writes \cap (Writes(q) \cup Reads(q)) = {}
    /\ reads \cap Writes(q) = {}

-----------------------------------------------------------------------------
(* One execution *)

Failed(q, error) == [request |-> q, step |-> "failed", error |-> error]

Check(holds, error) == [holds |-> holds, error |-> error]

\* require!, require!, ...: the first that fails decides.
FirstError(checks) ==
  IF \A i \in DOMAIN checks : checks[i].holds THEN "none"
  ELSE checks[Min({i \in DOMAIN checks : ~checks[i].holds})].error

\* Requirements on the execution of thread x, which becomes next when they hold
Require(x, checks, next) ==
  LET error == FirstError(checks) IN
  /\ executing' = [executing EXCEPT ![x] =
       IF error = "none" THEN next ELSE Failed(executing[x].request, error)]
  /\ UNCHANGED vars

At(x, step) == x \in DOMAIN executing /\ executing[x].step = step

(***************************************************************************)
(* The account checks that precede the instruction's body.  "Account"      *)
(* stands for the errors of Anchor and the runtime: an account that is     *)
(* missing, or a record that exists.                                       *)
(***************************************************************************)
Start(x, q) ==
  LET from == <<q.a, q.mint>>
      to   == <<q.payee, q.mint>>
      accounts_exist == /\ {q.a} \subseteq DOMAIN agent_wallet \cap DOMAIN spend_policy
                        /\ {from, to} \subseteq DOMAIN token_account
                        /\ protocol_config.initialised
      error == IF ~accounts_exist \/ ~RecordFree(q.a, q.sequence) THEN "Account"
               ELSE IF ~SignedByOwner(q.owner, q.a) THEN "Unauthorized" ELSE "none"
  IN
  /\ x \notin DOMAIN executing
  /\ Unlocked(Writes(q), Reads(q))
  /\ executing' = Stored(executing, x,
       IF error # "none" THEN Failed(q, error)
       ELSE [request |-> q, step |-> "arguments",
             wallet  |-> agent_wallet[q.a],
             policy  |-> spend_policy[q.a],
             tokens  |-> Restrict(token_account, {from, to})])
  /\ UNCHANGED vars

CheckArguments(x) ==
  LET e == executing[x]
      q == e.request
  IN
  /\ At(x, "arguments")
  /\ Require(x,
       <<Check(q.params.amount_usdc > 0, "ZeroPaymentAmount"),
         Check(ValidProtocol(q.params.protocol), "InvalidProtocol"),
         Check(q.sequence = e.wallet.payment_sequence, "SequenceMismatch")>>,
       [e EXCEPT !.step = "cap"])

\* The configuration is not copied: it is read where it is, under a read lock.
CheckCap(x) ==
  LET e == executing[x] IN
  /\ At(x, "cap")
  /\ Require(x,
       <<Check(UnderGlobalCap(e.request.params.amount_usdc), "GlobalPaymentCapExceeded")>>,
       [e EXCEPT !.step = "wallet"])

\* Mutant: the owner's switch is looked at, the admin's freeze is not
GuardWalletActive(x) ==
  LET e == executing[x] IN
  /\ At(x, "wallet")
  /\ Require(x, <<Check(e.wallet.is_active, "AgentNotActive")>>,
       [e EXCEPT !.wallet = ResetWindowsIfElapsed(@, now), !.step = "policy"])

GuardWallet(x) ==
  LET e == executing[x] IN
  /\ At(x, "wallet")
  /\ Require(x,
       <<Check(e.wallet.is_active, "AgentNotActive"),
         Check(~e.wallet.is_frozen, "AgentFrozen")>>,
       [e EXCEPT !.wallet = ResetWindowsIfElapsed(@, now), !.step = "policy"])

\* Mutant: the rate limit is read before the window is reset
RateCheckUnreset(policy) == Check(WithinRateLimit(policy), "RateLimitExceeded")

RateCheck(policy) ==
  Check(WithinRateLimit(ResetRateWindowIfElapsed(policy, now)), "RateLimitExceeded")

\* The enforced branch: limits in the order of the code, blocklist before allowlist
PolicyChecks(policy, wallet, amount, domain) ==
  LET within(w) == WithinBudget(policy, w, wallet.spend[w], amount)
      allowed   == policy.allowed_domain_hashes
  IN
  <<Check(WithinPerCallLimit(policy, amount), "PerCallLimitExceeded"),
    Check(within("daily"), "DailyBudgetExceeded"),
    Check(within("weekly"), "WeeklyBudgetExceeded"),
    Check(within("monthly"), "MonthlyBudgetExceeded"),
    RateCheck(policy),
    Check(domain \notin policy.blocked_domain_hashes, "DomainBlocked"),
    Check(allowed # {} => domain \in allowed, "DomainNotAllowed")>>

EnforcePolicy(x) ==
  LET e == executing[x]
      params   == e.request.params
      enforced == EnforcedOnChain(e.policy, params.amount_usdc)
  IN
  /\ At(x, "policy")
  /\ Require(x,
       IF enforced
       THEN PolicyChecks(e.policy, e.wallet, params.amount_usdc, params.domain_hash)
       ELSE <<>>,
       [e EXCEPT !.policy = IF enforced THEN CountCall(@, now) ELSE @, !.step = "transfer"])

\* The call of the SPL Token program, whose own error is InsufficientFunds
TransferTokens(x) ==
  LET e == executing[x]
      q == e.request
      from == <<q.a, q.mint>>
  IN
  /\ At(x, "transfer")
  /\ Require(x,
       <<Check(q.params.amount_usdc <= e.tokens[from], "InsufficientFunds")>>,
       [e EXCEPT !.tokens = Transferred(@, from, <<q.payee, q.mint>>, q.params.amount_usdc),
                 !.step = "accounting"])

\* Mutant: the wallet is reloaded after the call, which undoes the reset of its windows
UpdateAccountingReloaded(x) ==
  LET e == executing[x]
      q == e.request
  IN
  /\ At(x, "accounting")
  /\ executing' = [executing EXCEPT ![x] =
       [e EXCEPT !.wallet = RecordSpend(agent_wallet[q.a], q.params.amount_usdc, now),
                 !.step = "commit"]]
  /\ UNCHANGED vars

UpdateAccounting(x) ==
  LET e == executing[x] IN
  /\ At(x, "accounting")
  /\ executing' = [executing EXCEPT ![x] =
       [e EXCEPT !.wallet = RecordSpend(@, e.request.params.amount_usdc, now),
                 !.step = "commit"]]
  /\ UNCHANGED vars

\* The record is written, the copies are stored and the locks released.
Commit(x) ==
  LET e == executing[x]
      q == e.request
      amount == q.params.amount_usdc
  IN
  /\ At(x, "commit")
  /\ agent_wallet' = [agent_wallet EXCEPT ![q.a] = e.wallet]
  /\ spend_policy' = [spend_policy EXCEPT ![q.a] = e.policy]
  /\ token_account' = [t \in DOMAIN token_account |->
                         IF t \in DOMAIN e.tokens THEN e.tokens[t] ELSE token_account[t]]
  /\ payment_record' = Stored(payment_record, <<q.a, q.sequence>>,
       [payee |-> q.payee, amount_usdc |-> amount, protocol |-> ProtocolOf(q.params.protocol),
        settled_at |-> now, policy_passed |-> TRUE, parent_payment |-> q.params.parent_payment])
  /\ executing' = Closed(executing, x)
  /\ UNCHANGED <<protocol_config, now>>

\* An error drops the copies: whatever had been written is undone.
Rollback(x) ==
  /\ At(x, "failed")
  /\ executing' = Closed(executing, x)
  /\ UNCHANGED vars

Execute(x) ==
  \/ CheckArguments(x) \/ CheckCap(x) \/ GuardWallet(x) \/ EnforcePolicy(x)
  \/ TransferTokens(x) \/ UpdateAccounting(x) \/ Commit(x) \/ Rollback(x)

-----------------------------------------------------------------------------
(* The other instructions, each with its account list *)

AdministerUnlocked ==
  \/ /\ Unlocked({ConfigKey}, {})
     /\ \/ \E admin \in Pubkeys : InitProtocol(admin)
        \/ \E admin \in Keys :
             \/ \E new_admin \in Pubkeys : RotateProtocolAdmin(admin, new_admin)
             \/ \E cap \in Caps : UpdateProtocolConfig(admin, cap)
  \/ \E a \in AgentIds :
       /\ Unlocked({WalletKey(a)}, {ConfigKey})
       /\ \E admin \in Keys : FreezeAgent(admin, a) \/ UnfreezeAgent(admin, a)

ManageUnlocked ==
  \E owner \in Keys, a \in AgentIds :
    \/ \E mint \in Mints :
         \/ /\ Unlocked({WalletKey(a), TokenKey(a, mint), SignerKey(owner)}, {})
            /\ RegisterAgent(owner, a, mint)
         \/ /\ Unlocked({WalletKey(a), PolicyKey(a), SignerKey(owner)}, {TokenKey(a, mint)})
            /\ CloseAgent(owner, a, mint)
    \/ /\ Unlocked({WalletKey(a)}, {SignerKey(owner)})
       /\ \/ DeactivateAgent(owner, a)
          \/ ReactivateAgent(owner, a)
          \/ \E new_owner \in Pubkeys : TransferOwnership(owner, a, new_owner)
    \/ /\ Unlocked({PolicyKey(a), SignerKey(owner)}, {WalletKey(a)})
       /\ \E params \in PolicyParams : SetSpendPolicy(owner, a, params)

PayUnlocked ==
  \E owner \in Keys, a \in AgentIds :
    \/ \E sequence \in U64, params \in PaymentParams :
         /\ Unlocked({RecordKey(a, sequence), WalletKey(a), SignerKey(owner)}, {})
         /\ RecordPolicyViolation(owner, a, sequence, params)
    \/ \E mint \in Mints :
         /\ Unlocked({TokenKey(a, mint), TokenKey(owner, mint)}, {WalletKey(a), SignerKey(owner)})
         /\ \/ \E amount \in Amounts : WithdrawFunds(owner, a, mint, amount)
            \/ WithdrawAll(owner, a, mint)

EnvironmentUnlocked ==
  \E holder \in Holders, mint \in Mints :
    /\ Unlocked({TokenKey(holder, mint)}, {})
    /\ \/ CreateTokenAccount(holder, mint)
       \/ \E amount \in Amounts : Fund(holder, mint, amount)

\* The clock is the block's: it stands still while transactions of the block execute.
NextBlock ==
  /\ executing = NoAccounts
  /\ Tick
  /\ UNCHANGED executing

SettleStep == \E x \in Threads : Execute(x) \/ \E q \in Requests : Start(x, q)

OtherInstruction ==
  /\ AdministerUnlocked \/ ManageUnlocked \/ PayUnlocked \/ EnvironmentUnlocked
  /\ UNCHANGED executing

ExecutionNext == SettleStep \/ OtherInstruction \/ NextBlock

ExecutionSpec == Init /\ executing = NoAccounts /\ [][ExecutionNext]_executionVars

-----------------------------------------------------------------------------
(***************************************************************************)
(* A settlement that ends has done, in the state it ends in, all that      *)
(* SettlePayment does, or nothing: whatever other transactions executed    *)
(* between its statements, and wherever its error came, also after the     *)
(* windows were reset, the call counted or the tokens moved.               *)
(***************************************************************************)
SettlesAtomically ==
  [][\A x \in DOMAIN executing \ DOMAIN executing' :
       LET q == executing[x].request IN
       \/ executing[x].step = "failed" /\ UNCHANGED vars
       \/ SettlePayment(q.owner, q.a, q.mint, q.payee, q.sequence, q.params)]_executionVars

\* What a has spent in the window w that contains now, by the ledger
SpentNow(a, w) ==
  Volume(PassedSince(a, AdvancedStart(agent_wallet[a].window_start[w], Period(w), now)))

OverBudget(a, w, amount) ==
  spend_policy[a].budget[w] \in 1..(SpentNow(a, w) + amount - 1)

\* What errors.rs says each code means, of a request and the accounts as stored
Means(error, q) ==
  LET amount  == q.params.amount_usdc
      domain  == q.params.domain_hash
      wallet  == agent_wallet[q.a]
      policy  == spend_policy[q.a]
      blocked == domain \in policy.blocked_domain_hashes
      allowed == policy.allowed_domain_hashes
  IN
  CASE error = "Account" ->
         \/ q.a \notin DOMAIN agent_wallet \/ q.a \notin DOMAIN spend_policy
         \/ ~HasTokenAccount(q.a, q.mint) \/ ~HasTokenAccount(q.payee, q.mint)
         \/ ~protocol_config.initialised \/ ~RecordFree(q.a, q.sequence)
    [] error = "Unauthorized"         -> wallet.owner # q.owner
    [] error = "ZeroPaymentAmount"    -> amount = 0
    [] error = "InvalidProtocol"      -> q.params.protocol \notin {0, 1}
    [] error = "SequenceMismatch"     -> q.sequence # wallet.payment_sequence
    [] error = "GlobalPaymentCapExceeded" ->
         protocol_config.max_single_payment_usdc \in 1..(amount - 1)
    [] error = "AgentNotActive"       -> ~wallet.is_active
    [] error = "AgentFrozen"          -> wallet.is_frozen
    [] error = "PerCallLimitExceeded" -> policy.per_call_limit \in 1..(amount - 1)
    [] error = "DailyBudgetExceeded"   -> OverBudget(q.a, "daily", amount)
    [] error = "WeeklyBudgetExceeded"  -> OverBudget(q.a, "weekly", amount)
    [] error = "MonthlyBudgetExceeded" -> OverBudget(q.a, "monthly", amount)
    [] error = "RateLimitExceeded"    ->
         policy.rate_limit_calls \in 1..policy.rate_limit_call_count
    [] error = "DomainBlocked"        -> blocked
    [] error = "DomainNotAllowed"     -> ~blocked /\ allowed # {} /\ domain \notin allowed
    [] error = "InsufficientFunds"    -> amount > token_account[<<q.a, q.mint>>]

(***************************************************************************)
(* The gateway writes the error of a refused payment into a permanent      *)
(* violation record (lib.rs: "Numeric MaximError discriminant identifying  *)
(* the violated constraint").  So the error of a refused settlement is the *)
(* truth about the accounts in the state it is refused in, measured        *)
(* against the ledger where it is about budgets, it says "blocked" of a    *)
(* domain in both lists (spend_policy.rs), and nothing is refused that     *)
(* SettlePayment would admit.                                              *)
(***************************************************************************)
RefusalsJustified ==
  \A x \in DOMAIN executing :
    LET e == executing[x]
        q == e.request
    IN  e.step = "failed" =>
          /\ Means(e.error, q)
          /\ ~AdmitsPayment(q.owner, q.a, q.mint, q.payee, q.sequence, q.params)
=============================================================================
