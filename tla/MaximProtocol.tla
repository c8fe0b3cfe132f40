---------------------------- MODULE MaximProtocol ----------------------------
(***************************************************************************)
(* The maxim_protocol program: its accounts and the instructions that      *)
(* change them.  The runtime executes an instruction atomically and undoes *)
(* every write of one that fails, so an instruction is one action, and a   *)
(* failed instruction is an action that is not enabled.                    *)
(*                                                                         *)
(* Accounts live at program-derived addresses, so an account table is a    *)
(* function whose DOMAIN is the set of addresses that hold an account:     *)
(*                                                                         *)
(*   protocol_config  the singleton, with a flag for "not created yet"     *)
(*   agent_wallet     at an agent id                                       *)
(*   spend_policy     at the agent id of its wallet                        *)
(*   payment_record   at <<agent id, sequence>>                            *)
(*   token_account    at <<holder, mint>>, the SPL associated token        *)
(*                    account of a wallet PDA or of a keypair              *)
(*                                                                         *)
(* token_account and now belong to the SPL Token program and the cluster   *)
(* clock, and are modelled from how the program uses them.                 *)
(*                                                                         *)
(* Left out: bumps, rent, the program version, endpoint and memo hashes    *)
(* and event bodies, which no instruction reads back.                      *)
(***************************************************************************)
EXTENDS SpendControls, FiniteSets, Functions

CONSTANTS
  AgentIds,        \* agent ids anyone registers; also stand for their wallet PDAs
  IdBytes,         \* IdBytes[a] is the length of a's id
  PlainIds,        \* the ids made of ASCII letters, digits, '-' and '_' only
  Keys,            \* keypairs that sign as owner or admin, or are paid
  DefaultKey,      \* Pubkey::default()
  Mints,           \* token mints a caller may pass as usdc_mint
  Domains,         \* domain hashes
  Protocols,       \* protocol discriminants a caller may pass
  Amounts,         \* amounts a caller may pass
  Caps,            \* global caps the admin may set
  PolicyParams,    \* SetSpendPolicyParams the owner may pass
  ParentRefs,      \* parent_payment arguments: {} is None, {r} is Some(r)
  MaxDomainEntries, \* 32 in the program
  MaxSupply,       \* bound: token units of one mint in existence
  MaxTime          \* bound: the last second the clock shows

ASSUME NamesAssumption ==
  /\ AgentIds \cap Keys = {}
  /\ DefaultKey \notin AgentIds \cup Keys
  /\ PlainIds \subseteq AgentIds
  /\ IdBytes \in [AgentIds -> Nat]

ASSUME InputsAssumption ==
  /\ Amounts \subseteq U64
  /\ Caps \subseteq U64
  /\ {} \in ParentRefs
  /\ PolicyParams \subseteq
       [budget: [Windows -> U64], per_call_limit: U64,
        rate_limit_calls: U32, rate_limit_window_secs: U32,
        high_value_threshold: U64,
        allowed_domain_hashes: SUBSET Domains, blocked_domain_hashes: SUBSET Domains]
  /\ MaxDomainEntries \in Nat
  /\ MaxSupply \in U64
  /\ MaxTime \in Nat

VARIABLES
  protocol_config, agent_wallet, spend_policy, payment_record, \* the program's accounts
  token_account,   \* SPL Token
  now              \* Clock::get()?.unix_timestamp

vars == <<protocol_config, agent_wallet, spend_policy, payment_record, token_account, now>>

MaxAgentIdLen == 64
MaxSeedLen == 32    \* longest seed of a program-derived address (Solana runtime)

Pubkeys   == Keys \cup {DefaultKey}
Holders   == AgentIds \cup Keys
Records   == AgentIds \X U64
TokenAccs == Holders \X Mints

PaymentParams ==
  [amount_usdc: Amounts, protocol: Protocols, domain_hash: Domains, parent_payment: ParentRefs]

-----------------------------------------------------------------------------
(* Account shapes *)

Config == [initialised: BOOLEAN, admin: Pubkeys, max_single_payment_usdc: U64]

AgentWallet ==
  [owner: Keys, usdc_token_account: TokenAccs,
   spend: [Windows -> U64], window_start: [Windows -> Nat],
   payment_sequence: U64, total_payments: U64, total_volume: U64,
   last_payment_at: Nat, is_active: BOOLEAN, is_frozen: BOOLEAN]

SpendPolicy ==
  [budget: [Windows -> U64], per_call_limit: U64,
   rate_limit_calls: U32, rate_limit_window_secs: U32,
   rate_limit_call_count: U32, rate_limit_window_start: Nat,
   high_value_threshold: U64,
   allowed_domain_hashes: SUBSET Domains, blocked_domain_hashes: SUBSET Domains]

PaymentRecord ==
  [payee: Holders \cup {DefaultKey}, amount_usdc: Amounts, protocol: {"X402", "Mpp"},
   settled_at: Nat, policy_passed: BOOLEAN, parent_payment: ParentRefs]

TypeOK ==
  /\ protocol_config \in Config
  /\ DOMAIN agent_wallet \subseteq AgentIds
  /\ agent_wallet \in [DOMAIN agent_wallet -> AgentWallet]
  /\ DOMAIN spend_policy \subseteq DOMAIN agent_wallet
  /\ spend_policy \in [DOMAIN spend_policy -> SpendPolicy]
  /\ DOMAIN payment_record \subseteq Records
  /\ payment_record \in [DOMAIN payment_record -> PaymentRecord]
  /\ DOMAIN token_account \subseteq TokenAccs
  /\ token_account \in [DOMAIN token_account -> Nat]
  /\ now \in Nat

-----------------------------------------------------------------------------
(* Account tables *)

\* The table with data at an address, whether or not the address held an account
Stored(table, address, data) ==
  [x \in DOMAIN table \cup {address} |-> IF x = address THEN data ELSE table[x]]

\* Anchor's close
Closed(table, address) == Restrict(table, DOMAIN table \ {address})

\* An SPL transfer: accounts may coincide, and then nothing moves
Transferred(accounts, from, to, amount) ==
  IF from = to THEN accounts
  ELSE [accounts EXCEPT ![from] = @ - amount, ![to] = @ + amount]

\* Mutant: has_one = owner is missing
SignedByAnybody(owner, a) == a \in DOMAIN agent_wallet

\* has_one = owner on an existing agent_wallet: owner is its registered owner
SignedByOwner(owner, a) == a \in DOMAIN agent_wallet /\ agent_wallet[a].owner = owner

\* has_one = admin on the protocol_config
SignedByAdmin(admin) == protocol_config.initialised /\ protocol_config.admin = admin

ProtocolOf(discriminant) == IF discriminant = 0 THEN "X402" ELSE "Mpp"
ValidProtocol(discriminant) == discriminant \in {0, 1}

-----------------------------------------------------------------------------
(* Protocol administration *)

InitProtocol(admin) ==
  /\ ~protocol_config.initialised
  /\ admin # DefaultKey
  /\ protocol_config' = [initialised |-> TRUE, admin |-> admin, max_single_payment_usdc |-> 0]
  /\ UNCHANGED <<agent_wallet, spend_policy, payment_record, token_account, now>>

RotateProtocolAdmin(admin, new_admin) ==
  /\ SignedByAdmin(admin)
  /\ new_admin # DefaultKey
  /\ protocol_config' = [protocol_config EXCEPT !.admin = new_admin]
  /\ UNCHANGED <<agent_wallet, spend_policy, payment_record, token_account, now>>

UpdateProtocolConfig(admin, max_single_payment_usdc) ==
  /\ SignedByAdmin(admin)
  /\ protocol_config' =
       [protocol_config EXCEPT !.max_single_payment_usdc = max_single_payment_usdc]
  /\ UNCHANGED <<agent_wallet, spend_policy, payment_record, token_account, now>>

\* freeze_agent and unfreeze_agent
SetFrozen(admin, a, is_frozen) ==
  /\ SignedByAdmin(admin)
  /\ a \in DOMAIN agent_wallet
  /\ agent_wallet' = [agent_wallet EXCEPT ![a].is_frozen = is_frozen]
  /\ UNCHANGED <<protocol_config, spend_policy, payment_record, token_account, now>>

FreezeAgent(admin, a)   == SetFrozen(admin, a, TRUE)
UnfreezeAgent(admin, a) == SetFrozen(admin, a, FALSE)

-----------------------------------------------------------------------------
(* Wallet lifecycle *)

\* The id is a PDA seed, so an id longer than a seed may be has no address to register at.
RegistrableId(a) ==
  /\ IdBytes[a] \in 1..MaxAgentIdLen
  /\ a \in PlainIds
  /\ IdBytes[a] <= MaxSeedLen

\* Mutant: init_if_needed on the token account
WalletFree(a, mint) == a \notin DOMAIN agent_wallet

\* init on agent_wallet and on usdc_token_account
AddressesFree(a, mint) ==
  a \notin DOMAIN agent_wallet /\ <<a, mint>> \notin DOMAIN token_account

RegisterAgent(owner, a, mint) ==
  /\ RegistrableId(a)
  /\ AddressesFree(a, mint)
  /\ agent_wallet' = Stored(agent_wallet, a,
       [owner |-> owner, usdc_token_account |-> <<a, mint>>,
        spend |-> [w \in Windows |-> 0], window_start |-> [w \in Windows |-> now],
        payment_sequence |-> 0, total_payments |-> 0, total_volume |-> 0,
        last_payment_at |-> 0, is_active |-> TRUE, is_frozen |-> FALSE])
  /\ token_account' = Stored(token_account, <<a, mint>>, 0)
  /\ UNCHANGED <<protocol_config, spend_policy, payment_record, now>>

\* deactivate_agent and reactivate_agent
SetActive(owner, a, is_active) ==
  /\ SignedByOwner(owner, a)
  /\ agent_wallet' = [agent_wallet EXCEPT ![a].is_active = is_active]
  /\ UNCHANGED <<protocol_config, spend_policy, payment_record, token_account, now>>

DeactivateAgent(owner, a) == SetActive(owner, a, FALSE)
ReactivateAgent(owner, a) == SetActive(owner, a, TRUE)

TransferOwnership(owner, a, new_owner) ==
  /\ SignedByOwner(owner, a)
  /\ new_owner # DefaultKey
  /\ new_owner # agent_wallet[a].owner
  /\ agent_wallet' = [agent_wallet EXCEPT ![a].owner = new_owner]
  /\ UNCHANGED <<protocol_config, spend_policy, payment_record, token_account, now>>

\* Mutant: the balance is not looked at
HasTokenAccount(a, mint) == <<a, mint>> \in DOMAIN token_account

Drained(a, mint) ==
  <<a, mint>> \in DOMAIN token_account /\ token_account[<<a, mint>>] = 0

\* The token account is checked, not closed: it stays behind with balance 0.
CloseAgent(owner, a, mint) ==
  /\ SignedByOwner(owner, a)
  /\ ~agent_wallet[a].is_active
  /\ a \in DOMAIN spend_policy
  /\ Drained(a, mint)
  /\ agent_wallet' = Closed(agent_wallet, a)
  /\ spend_policy' = Closed(spend_policy, a)
  /\ UNCHANGED <<protocol_config, payment_record, token_account, now>>

\* init_if_needed: creation and update write the same fields.
SetSpendPolicy(owner, a, params) ==
  /\ SignedByOwner(owner, a)
  /\ Cardinality(params.allowed_domain_hashes) <= MaxDomainEntries
  /\ Cardinality(params.blocked_domain_hashes) <= MaxDomainEntries
  /\ spend_policy' = Stored(spend_policy, a,
       [budget                  |-> params.budget,
        per_call_limit          |-> params.per_call_limit,
        rate_limit_calls        |-> params.rate_limit_calls,
        rate_limit_window_secs  |-> params.rate_limit_window_secs,
        rate_limit_call_count   |-> 0,
        rate_limit_window_start |-> now,
        high_value_threshold    |-> params.high_value_threshold,
        allowed_domain_hashes   |-> params.allowed_domain_hashes,
        blocked_domain_hashes   |-> params.blocked_domain_hashes])
  /\ UNCHANGED <<protocol_config, agent_wallet, payment_record, token_account, now>>

-----------------------------------------------------------------------------
(* Payments *)

UnderGlobalCap(amount) ==
  LET cap == protocol_config.max_single_payment_usdc IN cap > 0 => amount <= cap

\* Mutant: a frozen wallet pays
AcceptsPaymentsFrozen(wallet) == wallet.is_active

AcceptsPayments(wallet) == wallet.is_active /\ ~wallet.is_frozen

\* Mutants: init_if_needed on the record, and sequences that may run ahead
RecordOpen(a, sequence)    == TRUE
SequenceAhead(a, sequence) == sequence >= agent_wallet[a].payment_sequence

\* init on payment_record, whose address holds the sequence
RecordFree(a, sequence)   == <<a, sequence>> \notin DOMAIN payment_record
SequenceNext(a, sequence) == sequence = agent_wallet[a].payment_sequence

\* All that settle_payment requires of its accounts and arguments
AdmitsPayment(owner, a, mint, payee, sequence, params) ==
  LET amount == params.amount_usdc
      wallet == ResetWindowsIfElapsed(agent_wallet[a], now)
  IN
  /\ SignedByOwner(owner, a)
  /\ RecordFree(a, sequence)
  /\ a \in DOMAIN spend_policy
  /\ {<<a, mint>>, <<payee, mint>>} \subseteq DOMAIN token_account
  /\ protocol_config.initialised
  /\ amount > 0
  /\ ValidProtocol(params.protocol)
  /\ SequenceNext(a, sequence)
  /\ UnderGlobalCap(amount)
  /\ AcceptsPayments(wallet)
  /\ EnforcedOnChain(spend_policy[a], amount) =>
       PolicyAdmits(spend_policy[a], wallet, amount, params.domain_hash, now)
  /\ amount <= token_account[<<a, mint>>]

\* Nothing relates parent_payment to an existing record: it is stored as given.
SettlePayment(owner, a, mint, payee, sequence, params) ==
  LET amount == params.amount_usdc
      wallet == ResetWindowsIfElapsed(agent_wallet[a], now)
      policy == spend_policy[a]
  IN
  /\ AdmitsPayment(owner, a, mint, payee, sequence, params)
  /\ spend_policy' = IF EnforcedOnChain(policy, amount)
                     THEN [spend_policy EXCEPT ![a] = CountCall(policy, now)]
                     ELSE spend_policy
  /\ token_account' = Transferred(token_account, <<a, mint>>, <<payee, mint>>, amount)
  /\ agent_wallet' = [agent_wallet EXCEPT ![a] = RecordSpend(wallet, amount, now)]
  /\ payment_record' = Stored(payment_record, <<a, sequence>>,
       [payee |-> payee, amount_usdc |-> amount, protocol |-> ProtocolOf(params.protocol),
        settled_at |-> now, policy_passed |-> TRUE,
        parent_payment |-> params.parent_payment])
  /\ UNCHANGED <<protocol_config, now>>

\* No look at is_active, is_frozen, the cap or the amount; no policy account needed.
RecordPolicyViolation(owner, a, sequence, params) ==
  /\ SignedByOwner(owner, a)
  /\ RecordFree(a, sequence)
  /\ ValidProtocol(params.protocol)
  /\ SequenceNext(a, sequence)
  /\ agent_wallet' = [agent_wallet EXCEPT ![a] = CountEntry(@)]
  /\ payment_record' = Stored(payment_record, <<a, sequence>>,
       [payee |-> DefaultKey, amount_usdc |-> params.amount_usdc,
        protocol |-> ProtocolOf(params.protocol), settled_at |-> now,
        policy_passed |-> FALSE, parent_payment |-> {}])
  /\ UNCHANGED <<protocol_config, spend_policy, token_account, now>>

\* Neither is_active nor is_frozen is read on the way out.
WithdrawFunds(owner, a, mint, amount) ==
  /\ SignedByOwner(owner, a)
  /\ {<<a, mint>>, <<owner, mint>>} \subseteq DOMAIN token_account
  /\ amount > 0
  /\ amount <= token_account[<<a, mint>>]
  /\ token_account' = Transferred(token_account, <<a, mint>>, <<owner, mint>>, amount)
  /\ UNCHANGED <<protocol_config, agent_wallet, spend_policy, payment_record, now>>

WithdrawAll(owner, a, mint) ==
  /\ <<a, mint>> \in DOMAIN token_account
  /\ WithdrawFunds(owner, a, mint, token_account[<<a, mint>>])

-----------------------------------------------------------------------------
(* Outside the program *)

Supply(mint) ==
  SumFunctionOnSet(token_account, {t \in DOMAIN token_account : t[2] = mint})

\* The associated token account program creates an account for any holder.
CreateTokenAccount(holder, mint) ==
  /\ <<holder, mint>> \notin DOMAIN token_account
  /\ token_account' = Stored(token_account, <<holder, mint>>, 0)
  /\ UNCHANGED <<protocol_config, agent_wallet, spend_policy, payment_record, now>>

\* Tokens arrive from outside, whatever the state of the receiving wallet.
Fund(holder, mint, amount) ==
  /\ <<holder, mint>> \in DOMAIN token_account
  /\ amount > 0
  /\ Supply(mint) + amount <= MaxSupply
  /\ token_account' = [token_account EXCEPT ![<<holder, mint>>] = @ + amount]
  /\ UNCHANGED <<protocol_config, agent_wallet, spend_policy, payment_record, now>>

Tick ==
  /\ now < MaxTime
  /\ now' = now + 1
  /\ UNCHANGED <<protocol_config, agent_wallet, spend_policy, payment_record, token_account>>

-----------------------------------------------------------------------------

NoAccounts == [x \in {} |-> 0]

\* The clock never shows 0, the value of last_payment_at before the first payment.
Init ==
  /\ protocol_config =
       [initialised |-> FALSE, admin |-> DefaultKey, max_single_payment_usdc |-> 0]
  /\ agent_wallet = NoAccounts
  /\ spend_policy = NoAccounts
  /\ payment_record = NoAccounts
  /\ token_account = NoAccounts
  /\ now = 1

Administer ==
  \/ \E admin \in Pubkeys : InitProtocol(admin)
  \/ \E admin \in Keys :
       \/ \E new_admin \in Pubkeys : RotateProtocolAdmin(admin, new_admin)
       \/ \E cap \in Caps : UpdateProtocolConfig(admin, cap)
       \/ \E a \in AgentIds : FreezeAgent(admin, a) \/ UnfreezeAgent(admin, a)

Manage ==
  \E owner \in Keys, a \in AgentIds :
    \/ \E mint \in Mints : RegisterAgent(owner, a, mint) \/ CloseAgent(owner, a, mint)
    \/ DeactivateAgent(owner, a)
    \/ ReactivateAgent(owner, a)
    \/ \E new_owner \in Pubkeys : TransferOwnership(owner, a, new_owner)
    \/ \E params \in PolicyParams : SetSpendPolicy(owner, a, params)

Pay ==
  \E owner \in Keys, a \in AgentIds :
    \/ \E sequence \in U64, params \in PaymentParams :
         \/ \E mint \in Mints, payee \in Holders :
              SettlePayment(owner, a, mint, payee, sequence, params)
         \/ RecordPolicyViolation(owner, a, sequence, params)
    \/ \E mint \in Mints :
         \/ \E amount \in Amounts : WithdrawFunds(owner, a, mint, amount)
         \/ WithdrawAll(owner, a, mint)

Environment ==
  \/ \E holder \in Holders, mint \in Mints :
       \/ CreateTokenAccount(holder, mint)
       \/ \E amount \in Amounts : Fund(holder, mint, amount)
  \/ Tick

Next == Administer \/ Manage \/ Pay \/ Environment

Spec == Init /\ [][Next]_vars
=============================================================================
