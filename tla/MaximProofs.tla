------------------------------ MODULE MaximProofs ------------------------------
(***************************************************************************)
(* What TLAPS proves of maxim_protocol's accounts, ledger and money for    *)
(* every set of agents, keys, mints, amounts and policies, and for every   *)
(* width and period: every account holds data of its type, nothing in the  *)
(* ledger changes, an agent's entries are numbered without a gap and agree *)
(* with its wallet's counters, nothing is added to it once the wallet has  *)
(* been closed, and tokens leave an agent's account only as the program    *)
(* means them to, and are in the owner's reach until then.  Only that the  *)
(* counters agree with the ledger needs that one mint is in use.           *)
(*                                                                         *)
(* A step of the program is, for the ledger, one of two things: it appends *)
(* an entry at the wallet's sequence, or it leaves the ledger alone and at *)
(* most starts a wallet's counters.  Everything about the ledger follows   *)
(* from that lemma.                                                        *)
(***************************************************************************)
EXTENDS MaximSafety, SumProofs

-----------------------------------------------------------------------------
(* The helpers *)

(***************************************************************************)
(* Saturating addition never leaves the width of its type.                 *)
(***************************************************************************)
LEMMA SaturatingAddBounded ==
  ASSUME NEW max \in Nat, NEW x \in 0..max, NEW y \in 0..max
  PROVE  SaturatingAdd(x, y, max) \in 0..max
BY DEF SaturatingAdd

(***************************************************************************)
(* Every period is a positive number of seconds.                           *)
(***************************************************************************)
LEMMA PeriodPositive ==
  ASSUME NEW w \in Windows
  PROVE  DaysIn(w) \in Nat \ {0} /\ Period(w) \in Nat \ {0}
<1>1. DaysIn(w) \in Nat \ {0}
  BY PeriodAssumption DEF DaysIn, Windows
<1>2. \A m, n \in Nat \ {0} : m * n \in Nat \ {0}
  OBVIOUS
<1>3. QED
  BY <1>1, <1>2, PeriodAssumption DEF Period

(***************************************************************************)
(* A start moves by whole periods to the one that contains the time, and   *)
(* stays where it is when its period has not elapsed.                      *)
(***************************************************************************)
LEMMA AdvancedStartContains ==
  ASSUME NEW start \in Nat, NEW p \in Nat \ {0}, NEW time \in Nat, start <= time
  PROVE  /\ AdvancedStart(start, p, time) \in Nat
         /\ AdvancedStart(start, p, time) <= time
         /\ time < AdvancedStart(start, p, time) + p
         /\ \E k \in Nat : AdvancedStart(start, p, time) = start + k * p
         /\ time < start + p => AdvancedStart(start, p, time) = start
<1> DEFINE k == (time - start) \div p
<1>1. k \in Nat /\ k * p <= time - start /\ time - start < k * p + p
  OBVIOUS
<1>2. time < start + p => k = 0
  BY <1>1
<1>3. AdvancedStart(start, p, time) = start + k * p
  BY DEF AdvancedStart
<1>4. k * p \in Nat
  BY <1>1
<1> HIDE DEF k
<1>5. QED
  BY <1>1, <1>2, <1>3, <1>4

(***************************************************************************)
(* Closing an address leaves the other accounts as they were.              *)
(***************************************************************************)
LEMMA ClosedTable ==
  ASSUME NEW T, NEW table, table \in [DOMAIN table -> T], NEW address
  PROVE  /\ DOMAIN Closed(table, address) = DOMAIN table \ {address}
         /\ Closed(table, address) \in [DOMAIN table \ {address} -> T]
         /\ \A x \in DOMAIN table : x # address => Closed(table, address)[x] = table[x]
BY DEF Closed, Restrict

(***************************************************************************)
(* A transfer of at most the balance leaves no account below zero.         *)
(***************************************************************************)
LEMMA TransferredTable ==
  ASSUME NEW accounts, accounts \in [DOMAIN accounts -> Nat],
         NEW from \in DOMAIN accounts, NEW to \in DOMAIN accounts,
         NEW amount \in Nat, amount <= accounts[from]
  PROVE  Transferred(accounts, from, to, amount) \in [DOMAIN accounts -> Nat]
BY DEF Transferred

-----------------------------------------------------------------------------
(* The accounting keeps a wallet a wallet and a policy a policy. *)

LEMMA ResetWallet ==
  ASSUME NEW wallet \in AgentWallet, NEW time \in Nat
  PROVE  /\ ResetWindowsIfElapsed(wallet, time) \in AgentWallet
         /\ ResetWindowsIfElapsed(wallet, time).payment_sequence = wallet.payment_sequence
         /\ ResetWindowsIfElapsed(wallet, time).total_payments = wallet.total_payments
<1> DEFINE spend == [w \in Windows |->
                       IF WindowElapsed(wallet, w, time) THEN 0 ELSE wallet.spend[w]]
           start == [w \in Windows |->
                       IF WindowElapsed(wallet, w, time)
                       THEN AdvancedStart(wallet.window_start[w], Period(w), time)
                       ELSE wallet.window_start[w]]
<1>1. spend \in [Windows -> U64]
  BY WidthAssumption DEF AgentWallet, U64
<1>2. start \in [Windows -> Nat]
  <2> SUFFICES ASSUME NEW w \in Windows, WindowElapsed(wallet, w, time)
               PROVE  AdvancedStart(wallet.window_start[w], Period(w), time) \in Nat
    BY DEF AgentWallet
  <2>1. wallet.window_start[w] \in Nat /\ Period(w) \in Nat \ {0}
    BY PeriodPositive DEF AgentWallet
  <2>2. wallet.window_start[w] <= time
    BY <2>1 DEF WindowElapsed
  <2>3. QED
    BY <2>1, <2>2, AdvancedStartContains
<1>3. ResetWindowsIfElapsed(wallet, time) = [wallet EXCEPT !.spend = spend, !.window_start = start]
  BY DEF ResetWindowsIfElapsed
<1> HIDE DEF spend, start
<1>4. QED
  BY <1>1, <1>2, <1>3 DEF AgentWallet

LEMMA CountEntryWallet ==
  ASSUME NEW wallet \in AgentWallet
  PROVE  CountEntry(wallet) \in AgentWallet
<1>1. \A x \in U64 : SaturatingAdd(x, 1, MaxU64) \in U64
  BY WidthAssumption, SaturatingAddBounded DEF U64
<1>2. QED
  BY <1>1 DEF CountEntry, AgentWallet

LEMMA RecordSpendWallet ==
  ASSUME NEW wallet \in AgentWallet, NEW amount \in U64, NEW time \in Nat
  PROVE  RecordSpend(wallet, amount, time) \in AgentWallet
<1>1. \A x \in U64 : SaturatingAdd(x, amount, MaxU64) \in U64
  BY WidthAssumption, SaturatingAddBounded DEF U64
<1> DEFINE spend == [w \in Windows |-> SaturatingAdd(wallet.spend[w], amount, MaxU64)]
<1>2. spend \in [Windows -> U64]
  BY <1>1 DEF AgentWallet
<1>3. CountEntry(wallet) \in AgentWallet
  BY CountEntryWallet
<1>4. RecordSpend(wallet, amount, time) =
        [CountEntry(wallet) EXCEPT
           !.spend = spend, !.total_volume = SaturatingAdd(@, amount, MaxU64),
           !.last_payment_at = time]
  BY DEF RecordSpend
<1> HIDE DEF spend
<1>5. QED
  BY <1>1, <1>2, <1>3, <1>4 DEF AgentWallet

LEMMA CountCallPolicy ==
  ASSUME NEW policy \in SpendPolicy, NEW time \in Nat
  PROVE  CountCall(policy, time) \in SpendPolicy
<1>1. \A x \in U32 : SaturatingAdd(x, 1, MaxU32) \in U32
  BY WidthAssumption, SaturatingAddBounded DEF U32
<1>2. 0 \in U32
  BY WidthAssumption DEF U32
<1>3. ResetRateWindowIfElapsed(policy, time) \in SpendPolicy
  BY <1>2 DEF ResetRateWindowIfElapsed, SpendPolicy
<1>4. QED
  BY <1>1, <1>3 DEF CountCall, SpendPolicy

-----------------------------------------------------------------------------
(* Type correctness *)

(***************************************************************************)
(* TypeOK after a step, from the types of the tables it changed.           *)
(***************************************************************************)
LEMMA WalletChanged ==
  ASSUME TypeOK, NEW a \in DOMAIN agent_wallet, NEW wallet \in AgentWallet,
         agent_wallet' = [agent_wallet EXCEPT ![a] = wallet]
  PROVE  /\ DOMAIN agent_wallet' = DOMAIN agent_wallet
         /\ agent_wallet' \in [DOMAIN agent_wallet' -> AgentWallet]
BY DEF TypeOK

LEMMA RecordStored ==
  ASSUME TypeOK, NEW a \in AgentIds, NEW sequence \in U64, NEW record \in PaymentRecord,
         payment_record' = Stored(payment_record, <<a, sequence>>, record)
  PROVE  /\ DOMAIN payment_record' \subseteq Records
         /\ payment_record' \in [DOMAIN payment_record' -> PaymentRecord]
<1>1. payment_record \in [DOMAIN payment_record -> PaymentRecord]
  BY DEF TypeOK
<1>2. <<a, sequence>> \in Records
  BY DEF Records
<1>3. /\ DOMAIN payment_record' = DOMAIN payment_record \cup {<<a, sequence>>}
      /\ payment_record' \in [DOMAIN payment_record' -> PaymentRecord]
  BY <1>1 DEF Stored
<1>4. QED
  BY <1>2, <1>3 DEF TypeOK

LEMMA AdministerType ==
  ASSUME TypeOK, Administer
  PROVE  TypeOK'
<1>1. CASE \E admin \in Pubkeys : InitProtocol(admin)
  BY <1>1, WidthAssumption DEF InitProtocol, TypeOK, Config, U64
<1>2. CASE \E admin \in Keys, new_admin \in Pubkeys : RotateProtocolAdmin(admin, new_admin)
  BY <1>2 DEF RotateProtocolAdmin, TypeOK, Config
<1>3. CASE \E admin \in Keys, cap \in Caps : UpdateProtocolConfig(admin, cap)
  BY <1>3, InputsAssumption DEF UpdateProtocolConfig, TypeOK, Config
<1>4. ASSUME NEW admin \in Keys, NEW a \in AgentIds, NEW flag \in BOOLEAN,
             SetFrozen(admin, a, flag)
      PROVE  TypeOK'
  <2> DEFINE wallet == [agent_wallet[a] EXCEPT !.is_frozen = flag]
  <2>1. a \in DOMAIN agent_wallet /\ agent_wallet' = [agent_wallet EXCEPT ![a] = wallet]
    BY <1>4 DEF SetFrozen
  <2>2. wallet \in AgentWallet
    BY <2>1 DEF TypeOK, AgentWallet
  <2> HIDE DEF wallet
  <2>3. QED
    BY <1>4, <2>1, <2>2, WalletChanged DEF SetFrozen, TypeOK
<1>5. QED
  BY <1>1, <1>2, <1>3, <1>4 DEF Administer, FreezeAgent, UnfreezeAgent

LEMMA RegisterAgentType ==
  ASSUME TypeOK, NEW owner \in Keys, NEW a \in AgentIds, NEW mint \in Mints,
         RegisterAgent(owner, a, mint)
  PROVE  TypeOK'
<1> DEFINE wallet ==
      [owner |-> owner, usdc_token_account |-> <<a, mint>>,
       spend |-> [w \in Windows |-> 0], window_start |-> [w \in Windows |-> now],
       payment_sequence |-> 0, total_payments |-> 0, total_volume |-> 0,
       last_payment_at |-> 0, is_active |-> TRUE, is_frozen |-> FALSE]
<1>1. /\ agent_wallet' = Stored(agent_wallet, a, wallet)
      /\ token_account' = Stored(token_account, <<a, mint>>, 0)
      /\ UNCHANGED <<protocol_config, spend_policy, payment_record, now>>
  BY DEF RegisterAgent
<1>2. <<a, mint>> \in TokenAccs
  BY DEF TokenAccs, Holders
<1>3. wallet \in AgentWallet
  BY <1>2, WidthAssumption DEF TypeOK, AgentWallet, U64
<1> HIDE DEF wallet
<1>4. /\ agent_wallet \in [DOMAIN agent_wallet -> AgentWallet]
      /\ token_account \in [DOMAIN token_account -> Nat]
  BY DEF TypeOK
<1>5. /\ DOMAIN agent_wallet' = DOMAIN agent_wallet \cup {a}
      /\ agent_wallet' \in [DOMAIN agent_wallet' -> AgentWallet]
  BY <1>1, <1>3, <1>4 DEF Stored
<1>6. /\ DOMAIN token_account' = DOMAIN token_account \cup {<<a, mint>>}
      /\ token_account' \in [DOMAIN token_account' -> Nat]
  BY <1>1, <1>4 DEF Stored
<1>7. QED
  BY <1>1, <1>2, <1>5, <1>6 DEF TypeOK

LEMMA CloseAgentType ==
  ASSUME TypeOK, NEW owner \in Keys, NEW a \in AgentIds, NEW mint \in Mints,
         CloseAgent(owner, a, mint)
  PROVE  TypeOK'
<1>1. /\ agent_wallet' = Closed(agent_wallet, a)
      /\ spend_policy' = Closed(spend_policy, a)
      /\ UNCHANGED <<protocol_config, payment_record, token_account, now>>
  BY DEF CloseAgent
<1>2. /\ DOMAIN agent_wallet' = DOMAIN agent_wallet \ {a}
      /\ agent_wallet' \in [DOMAIN agent_wallet' -> AgentWallet]
  BY <1>1, ClosedTable DEF TypeOK
<1>3. /\ DOMAIN spend_policy' = DOMAIN spend_policy \ {a}
      /\ spend_policy' \in [DOMAIN spend_policy' -> SpendPolicy]
  BY <1>1, ClosedTable DEF TypeOK
<1>4. QED
  BY <1>1, <1>2, <1>3 DEF TypeOK

LEMMA SetSpendPolicyType ==
  ASSUME TypeOK, NEW owner \in Keys, NEW a \in AgentIds, NEW params \in PolicyParams,
         SetSpendPolicy(owner, a, params)
  PROVE  TypeOK'
<1> DEFINE policy ==
      [budget                  |-> params.budget,
       per_call_limit          |-> params.per_call_limit,
       rate_limit_calls        |-> params.rate_limit_calls,
       rate_limit_window_secs  |-> params.rate_limit_window_secs,
       rate_limit_call_count   |-> 0,
       rate_limit_window_start |-> now,
       high_value_threshold    |-> params.high_value_threshold,
       allowed_domain_hashes   |-> params.allowed_domain_hashes,
       blocked_domain_hashes   |-> params.blocked_domain_hashes]
<1>1. /\ a \in DOMAIN agent_wallet
      /\ spend_policy' = Stored(spend_policy, a, policy)
      /\ UNCHANGED <<protocol_config, agent_wallet, payment_record, token_account, now>>
  BY DEF SetSpendPolicy, SignedByOwner
<1>2. policy \in SpendPolicy
  <2>1. params \in [budget: [Windows -> U64], per_call_limit: U64,
                    rate_limit_calls: U32, rate_limit_window_secs: U32,
                    high_value_threshold: U64, allowed_domain_hashes: SUBSET Domains,
                    blocked_domain_hashes: SUBSET Domains]
    BY InputsAssumption
  <2>2. 0 \in U32 /\ now \in Nat
    BY WidthAssumption DEF U32, TypeOK
  <2>3. QED
    BY <2>1, <2>2 DEF SpendPolicy
<1> HIDE DEF policy
<1>3. spend_policy \in [DOMAIN spend_policy -> SpendPolicy]
  BY DEF TypeOK
<1>4. /\ DOMAIN spend_policy' = DOMAIN spend_policy \cup {a}
      /\ spend_policy' \in [DOMAIN spend_policy' -> SpendPolicy]
  BY <1>1, <1>2, <1>3 DEF Stored
<1>5. QED
  BY <1>1, <1>4 DEF TypeOK

LEMMA ManageType ==
  ASSUME TypeOK, Manage
  PROVE  TypeOK'
<1>1. PICK owner \in Keys, a \in AgentIds :
        \/ \E mint \in Mints : RegisterAgent(owner, a, mint) \/ CloseAgent(owner, a, mint)
        \/ DeactivateAgent(owner, a)
        \/ ReactivateAgent(owner, a)
        \/ \E new_owner \in Pubkeys : TransferOwnership(owner, a, new_owner)
        \/ \E params \in PolicyParams : SetSpendPolicy(owner, a, params)
  BY DEF Manage
<1>2. ASSUME NEW flag \in BOOLEAN, SetActive(owner, a, flag)
      PROVE  TypeOK'
  <2> DEFINE wallet == [agent_wallet[a] EXCEPT !.is_active = flag]
  <2>1. a \in DOMAIN agent_wallet /\ agent_wallet' = [agent_wallet EXCEPT ![a] = wallet]
    BY <1>2 DEF SetActive, SignedByOwner
  <2>2. wallet \in AgentWallet
    BY <2>1 DEF TypeOK, AgentWallet
  <2> HIDE DEF wallet
  <2>3. QED
    BY <1>2, <2>1, <2>2, WalletChanged DEF SetActive, TypeOK
<1>3. ASSUME NEW new_owner \in Pubkeys, TransferOwnership(owner, a, new_owner)
      PROVE  TypeOK'
  <2> DEFINE wallet == [agent_wallet[a] EXCEPT !.owner = new_owner]
  <2>1. /\ a \in DOMAIN agent_wallet
        /\ new_owner \in Keys
        /\ agent_wallet' = [agent_wallet EXCEPT ![a] = wallet]
    BY <1>3 DEF TransferOwnership, SignedByOwner, Pubkeys
  <2>2. wallet \in AgentWallet
    BY <2>1 DEF TypeOK, AgentWallet
  <2> HIDE DEF wallet
  <2>3. QED
    BY <1>3, <2>1, <2>2, WalletChanged DEF TransferOwnership, TypeOK
<1>4. QED
  BY <1>1, <1>2, <1>3, RegisterAgentType, CloseAgentType, SetSpendPolicyType
     DEF DeactivateAgent, ReactivateAgent

LEMMA SettlePaymentType ==
  ASSUME TypeOK, NEW owner \in Keys, NEW a \in AgentIds, NEW mint \in Mints,
         NEW payee \in Holders, NEW sequence \in U64, NEW params \in PaymentParams,
         SettlePayment(owner, a, mint, payee, sequence, params)
  PROVE  TypeOK'
<1> DEFINE amount == params.amount_usdc
           reset  == ResetWindowsIfElapsed(agent_wallet[a], now)
           wallet == RecordSpend(reset, amount, now)
           policy == CountCall(spend_policy[a], now)
           record == [payee |-> payee, amount_usdc |-> amount,
                      protocol |-> ProtocolOf(params.protocol),
                      settled_at |-> now, policy_passed |-> TRUE,
                      parent_payment |-> params.parent_payment]
<1>1. /\ a \in DOMAIN agent_wallet /\ a \in DOMAIN spend_policy
      /\ <<a, mint>> \in DOMAIN token_account /\ <<payee, mint>> \in DOMAIN token_account
      /\ amount <= token_account[<<a, mint>>]
      /\ spend_policy' = spend_policy \/ spend_policy' = [spend_policy EXCEPT ![a] = policy]
      /\ token_account' = Transferred(token_account, <<a, mint>>, <<payee, mint>>, amount)
      /\ agent_wallet' = [agent_wallet EXCEPT ![a] = wallet]
      /\ payment_record' = Stored(payment_record, <<a, sequence>>, record)
      /\ UNCHANGED <<protocol_config, now>>
  BY DEF SettlePayment, AdmitsPayment, SignedByOwner
<1>2. amount \in Amounts /\ amount \in U64 /\ amount \in Nat /\ now \in Nat
  BY InputsAssumption, WidthAssumption DEF PaymentParams, U64, TypeOK
<1>3. wallet \in AgentWallet
  <2>1. agent_wallet[a] \in AgentWallet
    BY <1>1 DEF TypeOK
  <2>2. reset \in AgentWallet
    BY <1>2, <2>1, ResetWallet
  <2>3. QED
    BY <1>2, <2>2, RecordSpendWallet
<1>4. policy \in SpendPolicy
  <2>1. spend_policy[a] \in SpendPolicy
    BY <1>1 DEF TypeOK
  <2>2. QED
    BY <1>2, <2>1, CountCallPolicy
<1>5. record \in PaymentRecord
  BY <1>2 DEF PaymentRecord, PaymentParams, ProtocolOf, Holders
<1> HIDE DEF amount, wallet, policy, record
<1>6. /\ DOMAIN agent_wallet' = DOMAIN agent_wallet
      /\ agent_wallet' \in [DOMAIN agent_wallet' -> AgentWallet]
  BY <1>1, <1>3, WalletChanged
<1>7. /\ DOMAIN spend_policy' = DOMAIN spend_policy
      /\ spend_policy' \in [DOMAIN spend_policy' -> SpendPolicy]
  BY <1>1, <1>4 DEF TypeOK
<1>8. /\ DOMAIN token_account' = DOMAIN token_account
      /\ token_account' \in [DOMAIN token_account' -> Nat]
  BY <1>1, <1>2 DEF Transferred, TypeOK
<1>9. /\ DOMAIN payment_record' \subseteq Records
      /\ payment_record' \in [DOMAIN payment_record' -> PaymentRecord]
  BY <1>1, <1>5, RecordStored
<1>10. QED
  BY <1>1, <1>6, <1>7, <1>8, <1>9 DEF TypeOK

LEMMA RecordPolicyViolationType ==
  ASSUME TypeOK, NEW owner \in Keys, NEW a \in AgentIds, NEW sequence \in U64,
         NEW params \in PaymentParams, RecordPolicyViolation(owner, a, sequence, params)
  PROVE  TypeOK'
<1> DEFINE wallet == CountEntry(agent_wallet[a])
           record == [payee |-> DefaultKey, amount_usdc |-> params.amount_usdc,
                      protocol |-> ProtocolOf(params.protocol), settled_at |-> now,
                      policy_passed |-> FALSE, parent_payment |-> {}]
<1>1. /\ a \in DOMAIN agent_wallet
      /\ agent_wallet' = [agent_wallet EXCEPT ![a] = wallet]
      /\ payment_record' = Stored(payment_record, <<a, sequence>>, record)
      /\ UNCHANGED <<protocol_config, spend_policy, token_account, now>>
  BY DEF RecordPolicyViolation, SignedByOwner
<1>2. wallet \in AgentWallet
  BY <1>1, CountEntryWallet DEF TypeOK
<1>3. record \in PaymentRecord
  BY InputsAssumption DEF PaymentRecord, PaymentParams, ProtocolOf, TypeOK
<1> HIDE DEF wallet, record
<1>4. /\ DOMAIN agent_wallet' = DOMAIN agent_wallet
      /\ agent_wallet' \in [DOMAIN agent_wallet' -> AgentWallet]
  BY <1>1, <1>2, WalletChanged
<1>5. /\ DOMAIN payment_record' \subseteq Records
      /\ payment_record' \in [DOMAIN payment_record' -> PaymentRecord]
  BY <1>1, <1>3, RecordStored
<1>6. QED
  BY <1>1, <1>4, <1>5 DEF TypeOK

LEMMA WithdrawFundsType ==
  ASSUME TypeOK, NEW owner \in Keys, NEW a \in AgentIds, NEW mint \in Mints,
         NEW amount \in Nat, WithdrawFunds(owner, a, mint, amount)
  PROVE  TypeOK'
<1>1. /\ <<a, mint>> \in DOMAIN token_account /\ <<owner, mint>> \in DOMAIN token_account
      /\ amount <= token_account[<<a, mint>>]
      /\ token_account' = Transferred(token_account, <<a, mint>>, <<owner, mint>>, amount)
      /\ UNCHANGED <<protocol_config, agent_wallet, spend_policy, payment_record, now>>
  BY DEF WithdrawFunds
<1>2. /\ DOMAIN token_account' = DOMAIN token_account
      /\ token_account' \in [DOMAIN token_account' -> Nat]
  BY <1>1 DEF Transferred, TypeOK
<1>3. QED
  BY <1>1, <1>2 DEF TypeOK

LEMMA PayType ==
  ASSUME TypeOK, Pay
  PROVE  TypeOK'
<1>1. PICK owner \in Keys, a \in AgentIds :
        \/ \E sequence \in U64, params \in PaymentParams :
             \/ \E mint \in Mints, payee \in Holders :
                  SettlePayment(owner, a, mint, payee, sequence, params)
             \/ RecordPolicyViolation(owner, a, sequence, params)
        \/ \E mint \in Mints :
             \/ \E amount \in Amounts : WithdrawFunds(owner, a, mint, amount)
             \/ WithdrawAll(owner, a, mint)
  BY DEF Pay
<1>2. \A amount \in Amounts : amount \in Nat
  BY InputsAssumption, WidthAssumption DEF U64
<1>3. ASSUME NEW mint \in Mints, WithdrawAll(owner, a, mint)
      PROVE  TypeOK'
  <2>1. token_account[<<a, mint>>] \in Nat
    BY <1>3 DEF WithdrawAll, TypeOK
  <2>2. QED
    BY <1>3, <2>1, WithdrawFundsType DEF WithdrawAll
<1>4. QED
  BY <1>1, <1>2, <1>3, SettlePaymentType, RecordPolicyViolationType, WithdrawFundsType

LEMMA EnvironmentType ==
  ASSUME TypeOK, Environment
  PROVE  TypeOK'
<1>1. ASSUME NEW holder \in Holders, NEW mint \in Mints, CreateTokenAccount(holder, mint)
      PROVE  TypeOK'
  <2>1. <<holder, mint>> \in TokenAccs
    BY DEF TokenAccs
  <2>2. QED
    BY <1>1, <2>1 DEF CreateTokenAccount, Stored, TypeOK
<1>2. ASSUME NEW holder \in Holders, NEW mint \in Mints, NEW amount \in Amounts,
             Fund(holder, mint, amount)
      PROVE  TypeOK'
  <2>1. amount \in Nat
    BY InputsAssumption, WidthAssumption DEF U64
  <2>2. QED
    BY <1>2, <2>1 DEF Fund, TypeOK
<1>3. ASSUME Tick
      PROVE  TypeOK'
  BY <1>3 DEF Tick, TypeOK
<1>4. QED
  BY <1>1, <1>2, <1>3 DEF Environment

LEMMA InitType == Init => TypeOK
BY WidthAssumption DEF Init, NoAccounts, TypeOK, Config, Pubkeys, U64

LEMMA StepKeepsType ==
  ASSUME TypeOK, [Next]_vars
  PROVE  TypeOK'
<1>1. CASE UNCHANGED vars
  BY <1>1 DEF vars, TypeOK
<1>2. QED
  BY <1>1, AdministerType, ManageType, PayType, EnvironmentType DEF Next

(***************************************************************************)
(* Every account holds data of its declared type in every reachable state: *)
(* counters stay within u64 and u32, no token balance goes below zero and  *)
(* a spend policy never outlives its wallet.                               *)
(***************************************************************************)
THEOREM TypeCorrect == Spec => []TypeOK
<1>1. TypeOK /\ [Next]_vars => TypeOK'
  BY StepKeepsType
<1>2. QED
  BY <1>1, InitType, PTL DEF Spec

-----------------------------------------------------------------------------
(* What a step does to the ledger *)

Sequence(a) == agent_wallet[a].payment_sequence
Total(a)    == agent_wallet[a].total_payments

SameCounters(a) ==
  a \in DOMAIN agent_wallet /\ Sequence(a)' = Sequence(a) /\ Total(a)' = Total(a)

StartsCounters(a) ==
  /\ a \notin DOMAIN agent_wallet
  /\ \E m \in Mints : <<a, m>> \notin DOMAIN token_account /\ <<a, m>> \in DOMAIN token_account'
  /\ Sequence(a)' = 0 /\ Total(a)' = 0

AppendsEntry(a) ==
  /\ a \in DOMAIN agent_wallet
  /\ <<a, Sequence(a)>> \notin DOMAIN payment_record
  /\ DOMAIN payment_record' = DOMAIN payment_record \cup {<<a, Sequence(a)>>}
  /\ IsRestriction(payment_record, payment_record')
  /\ DOMAIN agent_wallet' = DOMAIN agent_wallet
  /\ Sequence(a)' = SaturatingAdd(Sequence(a), 1, MaxU64)
  /\ Total(a)' = SaturatingAdd(Total(a), 1, MaxU64)
  /\ \A b \in DOMAIN agent_wallet : b # a => SameCounters(b)

LeavesLedger ==
  /\ UNCHANGED payment_record
  /\ \A a \in DOMAIN agent_wallet' : SameCounters(a) \/ StartsCounters(a)

LedgerStep == LeavesLedger \/ \E a \in AgentIds : AppendsEntry(a)

\* The ledger keeps its entries and takes at most one more, dated now.
LedgerGrows ==
  /\ IsRestriction(payment_record, payment_record')
  /\ \E r : DOMAIN payment_record' \subseteq DOMAIN payment_record \cup {r}
  /\ \A r \in DOMAIN payment_record' \ DOMAIN payment_record :
       payment_record'[r].settled_at = now

(***************************************************************************)
(* A record stored at a free address is the last entry of the ledger, and  *)
(* a settlement of its agent when its policy_passed says so.               *)
(***************************************************************************)
LEMMA EntryStored ==
  ASSUME NEW b, NEW sequence, <<b, sequence>> \notin DOMAIN payment_record, NEW record,
         payment_record' = Stored(payment_record, <<b, sequence>>, record), record.settled_at = now
  PROVE  /\ LedgerGrows
         /\ \A a : a # b => PassedOf(a)' = PassedOf(a)
         /\ PassedOf(b)' = IF record.policy_passed THEN PassedOf(b) \cup {<<b, sequence>>}
                           ELSE PassedOf(b)
         /\ \A r \in DOMAIN payment_record : payment_record'[r] = payment_record[r]
         /\ payment_record'[<<b, sequence>>] = record
<1>1. /\ DOMAIN payment_record' = DOMAIN payment_record \cup {<<b, sequence>>}
      /\ \A r \in DOMAIN payment_record : payment_record'[r] = payment_record[r]
      /\ payment_record'[<<b, sequence>>] = record
  BY DEF Stored
<1>2. LedgerGrows
  BY <1>1 DEF LedgerGrows, IsRestriction
<1>3. \A a : a # b => RecordsOf(a)' = RecordsOf(a)
  BY <1>1 DEF RecordsOf
<1>4. RecordsOf(b)' = RecordsOf(b) \cup {<<b, sequence>>}
  BY <1>1 DEF RecordsOf
<1>5. \A a : RecordsOf(a) \subseteq DOMAIN payment_record
  BY DEF RecordsOf
<1>6. \A a : a # b => PassedOf(a)' = PassedOf(a)
  BY <1>1, <1>3, <1>5 DEF PassedOf
<1>7. PassedOf(b)' = IF record.policy_passed THEN PassedOf(b) \cup {<<b, sequence>>}
                     ELSE PassedOf(b)
  BY <1>1, <1>4, <1>5 DEF PassedOf
<1>8. QED
  BY <1>1, <1>2, <1>6, <1>7

\* Nothing on the ledger is dated after the clock.
LedgerDated ==
  /\ IsFiniteSet(DOMAIN payment_record)
  /\ \A r \in DOMAIN payment_record : payment_record[r].settled_at <= now

LEMMA LedgerStaysDated ==
  ASSUME TypeOK, TypeOK', LedgerDated, LedgerGrows, now <= now'
  PROVE  LedgerDated'
<1>1. IsFiniteSet(DOMAIN payment_record')
  <2>1. PICK r : DOMAIN payment_record' \subseteq DOMAIN payment_record \cup {r}
    BY DEF LedgerGrows
  <2>2. IsFiniteSet(DOMAIN payment_record \cup {r})
    BY FS_AddElement DEF LedgerDated
  <2>3. QED
    BY <2>1, <2>2, FS_Subset
<1>2. ASSUME NEW r \in DOMAIN payment_record'
      PROVE  payment_record'[r].settled_at <= now'
  <2>1. now \in Nat /\ now' \in Nat
    BY DEF TypeOK
  <2>2. CASE r \in DOMAIN payment_record
    <3>1. payment_record'[r] = payment_record[r] /\ payment_record[r].settled_at <= now
      BY <2>2 DEF LedgerGrows, IsRestriction, LedgerDated
    <3>2. payment_record[r].settled_at \in Nat
      BY <2>2 DEF TypeOK, PaymentRecord
    <3>3. QED
      BY <2>1, <3>1, <3>2
  <2>3. CASE r \notin DOMAIN payment_record
    BY <2>1, <2>3 DEF LedgerGrows
  <2>4. QED
    BY <2>2, <2>3
<1>3. QED
  BY <1>1, <1>2 DEF LedgerDated

LEMMA SettlePaymentAppends ==
  ASSUME TypeOK, NEW owner \in Keys, NEW a \in AgentIds, NEW mint \in Mints,
         NEW payee \in Holders, NEW sequence \in U64, NEW params \in PaymentParams,
         SettlePayment(owner, a, mint, payee, sequence, params)
  PROVE  AppendsEntry(a)
<1> DEFINE reset  == ResetWindowsIfElapsed(agent_wallet[a], now)
           wallet == RecordSpend(reset, params.amount_usdc, now)
           record == [payee |-> payee, amount_usdc |-> params.amount_usdc,
                      protocol |-> ProtocolOf(params.protocol),
                      settled_at |-> now, policy_passed |-> TRUE,
                      parent_payment |-> params.parent_payment]
<1>1. /\ a \in DOMAIN agent_wallet
      /\ sequence = Sequence(a)
      /\ <<a, sequence>> \notin DOMAIN payment_record
      /\ agent_wallet' = [agent_wallet EXCEPT ![a] = wallet]
      /\ payment_record' = Stored(payment_record, <<a, sequence>>, record)
  BY DEF SettlePayment, AdmitsPayment, SignedByOwner, RecordFree, SequenceNext, Sequence
<1>2. /\ wallet.payment_sequence = SaturatingAdd(Sequence(a), 1, MaxU64)
      /\ wallet.total_payments = SaturatingAdd(Total(a), 1, MaxU64)
  <2>1. agent_wallet[a] \in AgentWallet /\ now \in Nat
    BY <1>1 DEF TypeOK
  <2>2. /\ reset \in AgentWallet
        /\ reset.payment_sequence = Sequence(a) /\ reset.total_payments = Total(a)
    BY <2>1, ResetWallet DEF Sequence, Total
  <2> HIDE DEF reset
  <2>3. QED
    BY <2>2 DEF RecordSpend, CountEntry, AgentWallet
<1> HIDE DEF wallet, record
<1>3. QED
  BY <1>1, <1>2 DEF AppendsEntry, SameCounters, Sequence, Total, Stored, IsRestriction, TypeOK

LEMMA RecordPolicyViolationAppends ==
  ASSUME TypeOK, NEW owner \in Keys, NEW a \in AgentIds, NEW sequence \in U64,
         NEW params \in PaymentParams, RecordPolicyViolation(owner, a, sequence, params)
  PROVE  AppendsEntry(a)
<1> DEFINE wallet == CountEntry(agent_wallet[a])
           record == [payee |-> DefaultKey, amount_usdc |-> params.amount_usdc,
                      protocol |-> ProtocolOf(params.protocol), settled_at |-> now,
                      policy_passed |-> FALSE, parent_payment |-> {}]
<1>1. /\ a \in DOMAIN agent_wallet
      /\ sequence = Sequence(a)
      /\ <<a, sequence>> \notin DOMAIN payment_record
      /\ agent_wallet' = [agent_wallet EXCEPT ![a] = wallet]
      /\ payment_record' = Stored(payment_record, <<a, sequence>>, record)
  BY DEF RecordPolicyViolation, SignedByOwner, RecordFree, SequenceNext, Sequence
<1>2. /\ wallet.payment_sequence = SaturatingAdd(Sequence(a), 1, MaxU64)
      /\ wallet.total_payments = SaturatingAdd(Total(a), 1, MaxU64)
  <2>1. agent_wallet[a] \in AgentWallet
    BY <1>1 DEF TypeOK
  <2>2. QED
    BY <2>1 DEF CountEntry, AgentWallet, Sequence, Total
<1> HIDE DEF wallet, record
<1>3. QED
  BY <1>1, <1>2 DEF AppendsEntry, SameCounters, Sequence, Total, Stored, IsRestriction, TypeOK

(***************************************************************************)
(* Every other instruction leaves the ledger alone; only register_agent    *)
(* starts counters.                                                        *)
(***************************************************************************)
LEMMA StepOnLedger ==
  ASSUME TypeOK, [Next]_vars
  PROVE  LedgerStep
<1>1. ASSUME Administer
      PROVE  LeavesLedger
  BY <1>1 DEF Administer, InitProtocol, RotateProtocolAdmin, UpdateProtocolConfig, FreezeAgent,
              UnfreezeAgent, SetFrozen, LeavesLedger, SameCounters, Sequence, Total, TypeOK, AgentWallet
<1>2. ASSUME NEW owner \in Keys, NEW a \in AgentIds, NEW mint \in Mints,
             RegisterAgent(owner, a, mint)
      PROVE  LeavesLedger
  BY <1>2 DEF RegisterAgent, AddressesFree, Stored, LeavesLedger, SameCounters, StartsCounters,
              Sequence, Total
<1>3. ASSUME NEW owner \in Keys, NEW a \in AgentIds, NEW mint \in Mints,
             CloseAgent(owner, a, mint)
      PROVE  LeavesLedger
  BY <1>3 DEF CloseAgent, Closed, Restrict, LeavesLedger, SameCounters, Sequence, Total
<1>4. ASSUME NEW owner \in Keys, NEW a \in AgentIds,
             \/ DeactivateAgent(owner, a) \/ ReactivateAgent(owner, a)
             \/ \E new_owner \in Pubkeys : TransferOwnership(owner, a, new_owner)
             \/ \E params \in PolicyParams : SetSpendPolicy(owner, a, params)
      PROVE  LeavesLedger
  <2>1. /\ UNCHANGED payment_record
        /\ \/ \E flag : agent_wallet' = [agent_wallet EXCEPT ![a].is_active = flag]
           \/ \E key : agent_wallet' = [agent_wallet EXCEPT ![a].owner = key]
           \/ UNCHANGED agent_wallet
    BY <1>4 DEF DeactivateAgent, ReactivateAgent, SetActive, TransferOwnership, SetSpendPolicy
  <2>2. QED
    BY <2>1 DEF LeavesLedger, SameCounters, Sequence, Total, TypeOK, AgentWallet
<1>5. ASSUME Manage
      PROVE  LeavesLedger
  BY <1>2, <1>3, <1>4, <1>5 DEF Manage
<1>6. ASSUME Pay
      PROVE  LedgerStep
  <2>1. ASSUME NEW owner \in Keys, NEW a \in AgentIds, NEW mint \in Mints, NEW amount,
               WithdrawFunds(owner, a, mint, amount)
        PROVE  LeavesLedger
    BY <2>1 DEF WithdrawFunds, LeavesLedger, SameCounters, Sequence, Total
  <2>2. QED
    BY <1>6, <2>1, SettlePaymentAppends, RecordPolicyViolationAppends
       DEF Pay, WithdrawAll, LedgerStep
<1>7. ASSUME Environment
      PROVE  LeavesLedger
  BY <1>7 DEF Environment, CreateTokenAccount, Fund, Tick, LeavesLedger, SameCounters, Sequence, Total
<1>8. ASSUME UNCHANGED vars
      PROVE  LeavesLedger
  BY <1>8 DEF vars, LeavesLedger, SameCounters, Sequence, Total
<1>9. QED
  BY <1>1, <1>5, <1>6, <1>7, <1>8 DEF Next, LedgerStep

(***************************************************************************)
(* Token accounts are never closed by the program.                         *)
(***************************************************************************)
LEMMA TokenAccountsStay ==
  ASSUME [Next]_vars
  PROVE  DOMAIN token_account \subseteq DOMAIN token_account'
<1>1. ASSUME Administer
      PROVE  UNCHANGED token_account
  BY <1>1 DEF Administer, InitProtocol, RotateProtocolAdmin, UpdateProtocolConfig, FreezeAgent,
              UnfreezeAgent, SetFrozen
<1>2. ASSUME Manage
      PROVE  DOMAIN token_account \subseteq DOMAIN token_account'
  BY <1>2 DEF Manage, RegisterAgent, CloseAgent, DeactivateAgent, ReactivateAgent, SetActive,
              TransferOwnership, SetSpendPolicy, Stored
<1>3. ASSUME Pay
      PROVE  DOMAIN token_account \subseteq DOMAIN token_account'
  <2>1. \A from, to, amount :
          DOMAIN Transferred(token_account, from, to, amount) = DOMAIN token_account
    BY DEF Transferred
  <2>2. ASSUME NEW owner \in Keys, NEW a \in AgentIds, NEW mint \in Mints, NEW payee \in Holders,
               NEW sequence \in U64, NEW params \in PaymentParams,
               SettlePayment(owner, a, mint, payee, sequence, params)
        PROVE  DOMAIN token_account' = DOMAIN token_account
    BY <2>1, <2>2 DEF SettlePayment, AdmitsPayment
  <2>3. ASSUME NEW owner \in Keys, NEW a \in AgentIds, NEW mint \in Mints, NEW amount,
               WithdrawFunds(owner, a, mint, amount)
        PROVE  DOMAIN token_account' = DOMAIN token_account
    BY <2>1, <2>3 DEF WithdrawFunds
  <2>4. QED
    BY <1>3, <2>2, <2>3 DEF Pay, RecordPolicyViolation, WithdrawAll
<1>4. ASSUME Environment
      PROVE  DOMAIN token_account \subseteq DOMAIN token_account'
  BY <1>4 DEF Environment, CreateTokenAccount, Fund, Tick, Stored
<1>5. QED
  BY <1>1, <1>2, <1>3, <1>4 DEF Next, vars

-----------------------------------------------------------------------------
(* The ledger is append-only *)

(***************************************************************************)
(* payment_record.rs: records "are never mutated after creation".          *)
(***************************************************************************)
THEOREM LedgerIsAppendOnly == Spec => LedgerAppendOnly
<1>1. TypeOK /\ [Next]_vars => [IsRestriction(payment_record, payment_record')]_payment_record
  <2> SUFFICES ASSUME TypeOK, [Next]_vars
               PROVE  IsRestriction(payment_record, payment_record') \/ UNCHANGED payment_record
    OBVIOUS
  <2>1. LedgerStep
    BY StepOnLedger
  <2>2. QED
    BY <2>1 DEF LedgerStep, LeavesLedger, AppendsEntry
<1>2. QED
  BY <1>1, TypeCorrect, PTL DEF Spec, LedgerAppendOnly

-----------------------------------------------------------------------------
(* Entries are numbered without a gap *)

(***************************************************************************)
(* The entries of a after a step: one more at the wallet's sequence when   *)
(* the step appends for a, the same otherwise.                             *)
(***************************************************************************)
LEMMA RecordsOfAfter ==
  ASSUME TypeOK, LedgerStep, NEW a \in AgentIds
  PROVE  IF AppendsEntry(a) THEN RecordsOf(a)' = RecordsOf(a) \cup {<<a, Sequence(a)>>}
         ELSE RecordsOf(a)' = RecordsOf(a)
<1>1. CASE LeavesLedger
  BY <1>1 DEF LeavesLedger, AppendsEntry, RecordsOf
<1>2. ASSUME NEW b \in AgentIds, AppendsEntry(b)
      PROVE  /\ b = a => RecordsOf(a)' = RecordsOf(a) \cup {<<a, Sequence(a)>>}
             /\ b # a => RecordsOf(a)' = RecordsOf(a) /\ ~AppendsEntry(a)
  <2>1. <<b, Sequence(b)>>[1] = b
    OBVIOUS
  <2>2. RecordsOf(a)' = {r \in DOMAIN payment_record \cup {<<b, Sequence(b)>>} : r[1] = a}
    BY <1>2 DEF AppendsEntry, RecordsOf
  <2>3. CASE b = a
    BY <2>1, <2>2, <2>3 DEF RecordsOf
  <2>4. CASE b # a
    <3>1. RecordsOf(a)' = RecordsOf(a)
      BY <2>1, <2>2, <2>4 DEF RecordsOf
    <3>2. <<a, Sequence(a)>> # <<b, Sequence(b)>>
      BY <2>4
    <3>3. QED
      BY <1>2, <2>4, <3>1, <3>2 DEF AppendsEntry
  <2>5. QED
    BY <2>3, <2>4
<1>3. QED
  BY <1>1, <1>2 DEF LedgerStep

\* The first n addresses of a's ledger, and that an agent's records are those
First(a, n)    == {a} \X (0..(n - 1))
NumberedTo(a, n) == RecordsOf(a) = First(a, n)

LEMMA FirstGrows ==
  ASSUME NEW a, NEW n \in Nat
  PROVE  /\ First(a, n + 1) = First(a, n) \cup {<<a, n>>}
         /\ \A s \in Nat : <<a, s>> \notin First(a, n) => n <= s
<1>1. 0..((n + 1) - 1) = (0..(n - 1)) \cup {n}
  OBVIOUS
<1>2. QED
  BY <1>1 DEF First

\* What LedgerGapless says of one agent with n records
Gapless(a, n) ==
  /\ NumberedTo(a, n)
  /\ a \in DOMAIN agent_wallet =>
       Sequence(a) = n \/ Sequence(a) = 0 \/ (Sequence(a) = MaxU64 /\ n = MaxU64 + 1)

LEMMA GaplessAfter ==
  ASSUME TypeOK, LedgerStep, NEW a \in AgentIds, NEW n \in 0..(MaxU64 + 1), Gapless(a, n)
  PROVE  \E m \in 0..(MaxU64 + 1) : Gapless(a, m)'
<1> USE WidthAssumption
<1>1. CASE AppendsEntry(a)
  <2>1. Sequence(a) \in U64
    BY <1>1 DEF AppendsEntry, Sequence, TypeOK, AgentWallet
  <2>2. <<a, Sequence(a)>> \notin First(a, n)
    BY <1>1 DEF AppendsEntry, Gapless, NumberedTo, RecordsOf
  <2>3. n <= Sequence(a)
    BY <2>1, <2>2, FirstGrows DEF U64
  <2>4. Sequence(a) = n /\ n \in 0..MaxU64
    BY <1>1, <2>1, <2>3 DEF AppendsEntry, Gapless, U64
  <2>5. RecordsOf(a)' = First(a, n + 1)
    <3>1. RecordsOf(a)' = RecordsOf(a) \cup {<<a, Sequence(a)>>}
      BY <1>1, RecordsOfAfter
    <3>2. First(a, n + 1) = First(a, n) \cup {<<a, n>>}
      BY <2>4, FirstGrows
    <3>3. QED
      BY <2>4, <3>1, <3>2 DEF Gapless, NumberedTo
  <2>6. Sequence(a)' = n + 1 \/ (Sequence(a)' = MaxU64 /\ n + 1 = MaxU64 + 1)
    BY <1>1, <2>1, <2>4 DEF AppendsEntry, SaturatingAdd, U64
  <2>7. Gapless(a, n + 1)'
    BY <2>5, <2>6 DEF Gapless, NumberedTo, First
  <2>8. QED
    BY <2>4, <2>7
<1>2. CASE ~AppendsEntry(a)
  <2>1. RecordsOf(a)' = RecordsOf(a)
    BY <1>2, RecordsOfAfter
  <2>2. a \in DOMAIN agent_wallet' =>
          \/ a \in DOMAIN agent_wallet /\ Sequence(a)' = Sequence(a)
          \/ Sequence(a)' = 0
    BY <1>2 DEF LedgerStep, LeavesLedger, AppendsEntry, SameCounters, StartsCounters
  <2>3. Gapless(a, n)'
    BY <2>1, <2>2 DEF Gapless, NumberedTo, First
  <2>4. QED
    BY <2>3
<1>3. QED
  BY <1>1, <1>2

(***************************************************************************)
(* Whatever mints callers name, an agent's entries are numbered from 0     *)
(* without a gap, through closing, registering again and saturation.       *)
(***************************************************************************)
THEOREM LedgerHasNoGaps == Spec => []LedgerGapless
<1>1. Init => LedgerGapless
  <2> SUFFICES ASSUME Init, NEW a \in AgentIds
               PROVE  Gapless(a, 0) /\ 0 \in 0..(MaxU64 + 1)
    BY DEF LedgerGapless, Gapless, NumberedTo, First, Sequence
  <2>1. QED
    BY WidthAssumption DEF Init, NoAccounts, Gapless, NumberedTo, First, RecordsOf
<1>2. TypeOK /\ LedgerGapless /\ [Next]_vars => LedgerGapless'
  <2> SUFFICES ASSUME TypeOK, LedgerGapless, [Next]_vars, NEW a \in AgentIds
               PROVE  \E m \in 0..(MaxU64 + 1) : Gapless(a, m)'
    BY DEF LedgerGapless, Gapless, NumberedTo, First, Sequence
  <2>1. PICK n \in 0..(MaxU64 + 1) : Gapless(a, n)
    BY DEF LedgerGapless, Gapless, NumberedTo, First, Sequence
  <2>2. QED
    BY <2>1, StepOnLedger, GaplessAfter
<1>3. QED
  BY <1>1, <1>2, TypeCorrect, PTL DEF Spec

-----------------------------------------------------------------------------
(* An id closed with a history *)

(***************************************************************************)
(* Whatever mints callers name: once an id has entries and no wallet that  *)
(* made them, nothing is ever added to them.  A second wallet counts from  *)
(* 0, and because the ledger has no gaps the record of 0 is taken.         *)
(***************************************************************************)
THEOREM ClosedHistoryIsSealed == Spec => SealedForever
<1>1. TypeOK /\ LedgerGapless /\ [Next]_vars =>
        [\A a \in AgentIds : Sealed(a) => Sealed(a)' /\ RecordsOf(a)' = RecordsOf(a)]_vars
  <2> SUFFICES ASSUME TypeOK, LedgerGapless, [Next]_vars, NEW a \in AgentIds, Sealed(a)
               PROVE  Sealed(a)' /\ RecordsOf(a)' = RecordsOf(a)
    OBVIOUS
  <2>1. PICK n \in 0..(MaxU64 + 1) : NumberedTo(a, n)
    BY DEF LedgerGapless, NumberedTo, First
  <2>2. <<a, 0>> \in DOMAIN payment_record
    <3>1. n > 0
      BY <2>1, WidthAssumption DEF Sealed, NumberedTo, First
    <3>2. QED
      BY <2>1, <3>1, WidthAssumption DEF NumberedTo, First, RecordsOf
  <2>3. ~AppendsEntry(a)
    BY <2>2 DEF AppendsEntry, Sealed, Sequence
  <2>4. LedgerStep
    BY StepOnLedger
  <2>5. RecordsOf(a)' = RecordsOf(a)
    BY <2>3, <2>4, RecordsOfAfter
  <2>6. a \in DOMAIN agent_wallet' => Sequence(a)' = 0
    BY <2>3, <2>4 DEF LedgerStep, LeavesLedger, AppendsEntry, SameCounters, StartsCounters,
                      Sealed, Sequence
  <2>7. QED
    BY <2>5, <2>6 DEF Sealed, Sequence
<1>2. QED
  BY <1>1, TypeCorrect, LedgerHasNoGaps, PTL DEF Spec, SealedForever

-----------------------------------------------------------------------------
(* With one mint, a wallet starts once *)

\* a's wallet or ledger was once begun, so a has a token account.
HasAccount(a) == \E m \in Mints : <<a, m>> \in DOMAIN token_account
Accounted(a)  == a \in DOMAIN agent_wallet \/ RecordsOf(a) # {} => HasAccount(a)

(***************************************************************************)
(* Nobody starts a wallet for an agent that has a token account.           *)
(***************************************************************************)
LEMMA NoSecondStart ==
  ASSUME SingleMint, NEW a, HasAccount(a)
  PROVE  ~StartsCounters(a)
BY DEF SingleMint, HasAccount, StartsCounters

-----------------------------------------------------------------------------
(* With one mint, a wallet's counters are those of its ledger *)

\* What SequenceMatchesLedger says of one agent
Matches(a) ==
  a \in DOMAIN agent_wallet =>
    /\ NumberedTo(a, Sequence(a)) \/ (Sequence(a) = MaxU64 /\ NumberedTo(a, MaxU64 + 1))
    /\ Total(a) = Sequence(a)

LedgerInv == \A a \in AgentIds : Accounted(a) /\ Matches(a)

LEMMA AccountedAfter ==
  ASSUME TypeOK, [Next]_vars, NEW a \in AgentIds, Accounted(a)
  PROVE  Accounted(a)'
<1>1. LedgerStep
  BY StepOnLedger
<1>2. HasAccount(a) => HasAccount(a)'
  BY TokenAccountsStay DEF HasAccount
<1>3. CASE a \in DOMAIN agent_wallet
  BY <1>2, <1>3 DEF Accounted
<1>4. CASE a \notin DOMAIN agent_wallet
  <2>1. ~AppendsEntry(a)
    BY <1>4 DEF AppendsEntry
  <2>2. RecordsOf(a)' = RecordsOf(a)
    BY <1>1, <2>1, RecordsOfAfter
  <2>3. a \in DOMAIN agent_wallet' => StartsCounters(a)
    BY <1>1, <1>4 DEF LedgerStep, LeavesLedger, AppendsEntry, SameCounters
  <2>4. StartsCounters(a) => HasAccount(a)'
    BY DEF StartsCounters, HasAccount
  <2>5. QED
    BY <1>2, <2>2, <2>3, <2>4 DEF Accounted
<1>5. QED
  BY <1>3, <1>4

LEMMA MatchesAfter ==
  ASSUME SingleMint, TypeOK, LedgerStep, NEW a \in AgentIds, Accounted(a), Matches(a)
  PROVE  Matches(a)'
<1> USE WidthAssumption
<1>1. CASE AppendsEntry(a)
  <2>1. Sequence(a) \in U64
    BY <1>1 DEF AppendsEntry, Sequence, TypeOK, AgentWallet
  <2>2. <<a, Sequence(a)>> \notin RecordsOf(a) /\ a \in DOMAIN agent_wallet
    BY <1>1 DEF AppendsEntry, RecordsOf
  <2>3. NumberedTo(a, Sequence(a)) /\ Total(a) = Sequence(a)
    <3>1. <<a, MaxU64>> \in First(a, MaxU64 + 1)
      BY DEF First
    <3>2. QED
      BY <2>2, <3>1 DEF Matches, NumberedTo
  <2>4. RecordsOf(a)' = First(a, Sequence(a) + 1)
    <3>1. RecordsOf(a)' = RecordsOf(a) \cup {<<a, Sequence(a)>>}
      BY <1>1, RecordsOfAfter
    <3>2. First(a, Sequence(a) + 1) = First(a, Sequence(a)) \cup {<<a, Sequence(a)>>}
      BY <2>1, FirstGrows DEF U64
    <3>3. QED
      BY <2>3, <3>1, <3>2 DEF NumberedTo
  <2>5. /\ \/ Sequence(a)' = Sequence(a) + 1
           \/ Sequence(a) = MaxU64 /\ Sequence(a)' = MaxU64
        /\ Total(a)' = Sequence(a)'
    BY <1>1, <2>1, <2>3 DEF AppendsEntry, SaturatingAdd, U64
  <2>6. QED
    BY <2>4, <2>5 DEF Matches, NumberedTo, First
<1>2. CASE ~AppendsEntry(a)
  <2>1. RecordsOf(a)' = RecordsOf(a)
    BY <1>2, RecordsOfAfter
  <2>2. ASSUME StartsCounters(a)
        PROVE  Matches(a)'
    <3>1. RecordsOf(a) = {}
      BY <2>2, NoSecondStart DEF Accounted
    <3>2. First(a, 0) = {}
      BY DEF First
    <3>3. QED
      BY <2>1, <2>2, <3>1, <3>2 DEF StartsCounters, Matches, NumberedTo, First
  <2>3. ASSUME SameCounters(a)
        PROVE  Matches(a)'
    BY <2>1, <2>3 DEF SameCounters, Matches, NumberedTo, First
  <2>4. a \in DOMAIN agent_wallet' => SameCounters(a) \/ StartsCounters(a)
    BY <1>2 DEF LedgerStep, LeavesLedger, AppendsEntry
  <2>5. QED
    BY <2>2, <2>3, <2>4 DEF Matches
<1>3. QED
  BY <1>1, <1>2

LEMMA LedgerInvariant ==
  ASSUME SingleMint
  PROVE  Spec => []LedgerInv
<1>1. Init => LedgerInv
  BY DEF Init, NoAccounts, LedgerInv, Accounted, Matches, RecordsOf
<1>2. TypeOK /\ LedgerInv /\ [Next]_vars => LedgerInv'
  BY StepOnLedger, AccountedAfter, MatchesAfter DEF LedgerInv
<1>3. QED
  BY <1>1, <1>2, TypeCorrect, PTL DEF Spec

(***************************************************************************)
(* lib.rs, SettlePayment: the ledger is derivable from wallet and          *)
(* sequence.  The records of a registered agent are those below its        *)
(* payment_sequence and total_payments counts them.                        *)
(***************************************************************************)
THEOREM CountersMatchLedger ==
  ASSUME SingleMint
  PROVE  Spec => []SequenceMatchesLedger
<1>1. TypeOK /\ LedgerInv => SequenceMatchesLedger
  <2> SUFFICES ASSUME TypeOK, LedgerInv, NEW a \in DOMAIN agent_wallet
               PROVE  /\ \/ RecordsOf(a) = {a} \X (0..(Sequence(a) - 1))
                         \/ Sequence(a) = MaxU64 /\ RecordsOf(a) = {a} \X (0..MaxU64)
                      /\ Total(a) = Sequence(a)
    BY DEF SequenceMatchesLedger, Sequence, Total
  <2>1. Matches(a)
    BY DEF LedgerInv, TypeOK
  <2>2. First(a, MaxU64 + 1) = {a} \X (0..MaxU64)
    <3>1. (MaxU64 + 1) - 1 = MaxU64
      BY WidthAssumption
    <3>2. QED
      BY <3>1 DEF First
  <2>3. First(a, Sequence(a)) = {a} \X (0..(Sequence(a) - 1))
    BY DEF First
  <2>4. QED
    BY <2>1, <2>2, <2>3 DEF Matches, NumberedTo
<1>2. QED
  BY <1>1, TypeCorrect, LedgerInvariant, PTL

-----------------------------------------------------------------------------
(* Money *)

(***************************************************************************)
(* Only settle_payment and the withdrawals move tokens; the others leave   *)
(* every balance that exists as it is, or raise it.  Several cases         *)
(* coincide: an agent may pay itself, or another agent, and then one       *)
(* transfer changes the balances of two wallets.                           *)
(***************************************************************************)

\* What b gains of an amount that arrives at a holder
Gain(b, holder, amount) == IF b = holder THEN amount ELSE 0

(***************************************************************************)
(* A transfer, also one to the sender itself, by its effect on each agent  *)
(***************************************************************************)
LEMMA TransferAtMint ==
  ASSUME TypeOK, NEW a, NEW to, NEW mint, NEW amount \in Nat,
         <<a, mint>> \in DOMAIN token_account, <<to, mint>> \in DOMAIN token_account,
         token_account' = Transferred(token_account, <<a, mint>>, <<to, mint>>, amount),
         NEW b
  PROVE  Balance(b, mint)' = Balance(b, mint) - Gain(b, a, amount) + Gain(b, to, amount)
<1>1. \A t \in DOMAIN token_account : token_account[t] \in Nat
  BY DEF TypeOK
<1>2. CASE a = to
  BY <1>1, <1>2 DEF Transferred, Balance, Gain
<1>3. CASE a # to
  <2>1. <<a, mint>> # <<to, mint>>
    BY <1>3
  <2>2. /\ DOMAIN token_account' = DOMAIN token_account
        /\ token_account'[<<a, mint>>] = token_account[<<a, mint>>] - amount
        /\ token_account'[<<to, mint>>] = token_account[<<to, mint>>] + amount
        /\ \A t \in DOMAIN token_account \ {<<a, mint>>, <<to, mint>>} :
             token_account'[t] = token_account[t]
    <3>1. token_account' = [token_account EXCEPT ![<<a, mint>>] = @ - amount,
                                                 ![<<to, mint>>] = @ + amount]
      BY <2>1 DEF Transferred
    <3>2. QED
      BY <2>1, <3>1
  <2>3. CASE b = a
    BY <1>1, <1>3, <2>2, <2>3 DEF Balance, Gain
  <2>4. CASE b = to
    BY <1>1, <1>3, <2>2, <2>4 DEF Balance, Gain
  <2>5. CASE b # a /\ b # to
    BY <1>1, <2>2, <2>5 DEF Balance, Gain
  <2>6. QED
    BY <2>3, <2>4, <2>5
<1>4. QED
  BY <1>2, <1>3

LEMMA TransferBalances ==
  ASSUME SingleMint, TypeOK, NEW a, NEW to, NEW mint \in Mints, NEW amount \in Nat,
         <<a, mint>> \in DOMAIN token_account, <<to, mint>> \in DOMAIN token_account,
         token_account' = Transferred(token_account, <<a, mint>>, <<to, mint>>, amount),
         NEW b, NEW m \in Mints
  PROVE  Balance(b, m)' = Balance(b, m) - Gain(b, a, amount) + Gain(b, to, amount)
<1>1. m = mint
  BY DEF SingleMint
<1>2. QED
  BY <1>1, TransferAtMint

LEMMA NewAccountBalances ==
  ASSUME NEW t, t \notin DOMAIN token_account, token_account' = Stored(token_account, t, 0),
         NEW b, NEW m
  PROVE  Balance(b, m)' = Balance(b, m)
BY DEF Stored, Balance

\* No balance of the step goes down.
NothingSpent ==
  \A t \in DOMAIN token_account : token_account'[t] \in Nat /\ token_account[t] <= token_account'[t]

(***************************************************************************)
(* A transfer takes from the sender exactly what the receiver gets, and    *)
(* from nobody else; to oneself, nothing moves.                            *)
(***************************************************************************)
LEMMA TransferMoves ==
  ASSUME TypeOK, NEW from \in DOMAIN token_account, NEW to \in DOMAIN token_account,
         NEW amount \in Nat, token_account' = Transferred(token_account, from, to, amount),
         NEW t \in DOMAIN token_account, token_account[t] - token_account'[t] > 0
  PROVE  /\ t = from
         /\ token_account[t] - token_account'[t] = amount
         /\ token_account'[to] = token_account[to] + amount
<1>1. \A u \in DOMAIN token_account : token_account[u] \in Nat
  BY DEF TypeOK
<1>2. CASE from = to
  BY <1>1, <1>2 DEF Transferred
<1>3. CASE from # to
  <2>1. token_account' = [token_account EXCEPT ![from] = @ - amount, ![to] = @ + amount]
    BY <1>3 DEF Transferred
  <2>2. /\ token_account'[from] = token_account[from] - amount
        /\ token_account'[to] = token_account[to] + amount
        /\ \A u \in DOMAIN token_account \ {from, to} : token_account'[u] = token_account[u]
    BY <1>3, <2>1
  <2>3. QED
    BY <1>1, <2>2
<1>4. QED
  BY <1>2, <1>3

LEMMA NothingSpentAuthorised ==
  ASSUME TypeOK, NothingSpent
  PROVE  AuthorisedStep
<1>1. \A t \in DOMAIN token_account :
        /\ token_account[t] \in Nat /\ token_account'[t] \in Nat
        /\ ~(token_account[t] - token_account'[t] > 0)
  BY DEF NothingSpent, TypeOK
<1>2. QED
  BY <1>1 DEF AuthorisedStep

LEMMA SettlePaymentAuthorised ==
  ASSUME TypeOK, NEW owner \in Keys, NEW a \in AgentIds, NEW mint \in Mints,
         NEW payee \in Holders, NEW sequence \in U64, NEW params \in PaymentParams,
         SettlePayment(owner, a, mint, payee, sequence, params)
  PROVE  AuthorisedStep
<1> DEFINE amount == params.amount_usdc
           wallet == ResetWindowsIfElapsed(agent_wallet[a], now)
           record == [payee |-> payee, amount_usdc |-> amount,
                      protocol |-> ProtocolOf(params.protocol),
                      settled_at |-> now, policy_passed |-> TRUE,
                      parent_payment |-> params.parent_payment]
<1>1. /\ a \in DOMAIN agent_wallet
      /\ <<a, sequence>> \notin DOMAIN payment_record
      /\ sequence = agent_wallet[a].payment_sequence
      /\ <<a, mint>> \in DOMAIN token_account /\ <<payee, mint>> \in DOMAIN token_account
      /\ UnderGlobalCap(amount)
      /\ AcceptsPayments(wallet)
      /\ token_account' = Transferred(token_account, <<a, mint>>, <<payee, mint>>, amount)
      /\ payment_record' = Stored(payment_record, <<a, sequence>>, record)
  BY DEF SettlePayment, AdmitsPayment, SignedByOwner, RecordFree, SequenceNext
<1>2. amount \in Nat
  <2>1. amount \in Amounts
    BY DEF PaymentParams
  <2>2. \A x \in Amounts : x \in Nat
    BY InputsAssumption, WidthAssumption DEF U64
  <2>3. QED
    BY <2>1, <2>2
<1>3. agent_wallet[a].is_active /\ ~agent_wallet[a].is_frozen
  <2>1. agent_wallet[a] \in AgentWallet
    BY <1>1 DEF TypeOK
  <2>2. wallet.is_active = agent_wallet[a].is_active /\ wallet.is_frozen = agent_wallet[a].is_frozen
    BY <2>1 DEF ResetWindowsIfElapsed, AgentWallet
  <2>3. QED
    BY <1>1, <2>2 DEF AcceptsPayments
<1>4. /\ <<a, sequence>> \in DOMAIN payment_record'
      /\ payment_record'[<<a, sequence>>] = record
  BY <1>1 DEF Stored
<1>5. record.payee = payee /\ record.amount_usdc = amount /\ record.policy_passed = TRUE
  OBVIOUS
<1> HIDE DEF amount, wallet, record
<1>6. ASSUME NEW b \in AgentIds, NEW m \in Mints, <<b, m>> \in DOMAIN token_account,
             token_account[<<b, m>>] - token_account'[<<b, m>>] > 0
      PROVE  /\ b \in DOMAIN agent_wallet
             /\ PaysOut(b, m, token_account[<<b, m>>] - token_account'[<<b, m>>])
  <2>1. /\ <<b, m>> = <<a, mint>>
        /\ token_account[<<b, m>>] - token_account'[<<b, m>>] = amount
        /\ token_account'[<<payee, mint>>] = token_account[<<payee, mint>>] + amount
    BY <1>1, <1>2, <1>6, TransferMoves
  <2>2. b = a /\ m = mint
    BY <2>1
  <2>3. PaysOut(a, mint, amount)
    BY <1>1, <1>3, <1>4, <1>5, <2>1 DEF PaysOut
  <2>4. QED
    BY <1>1, <2>1, <2>2, <2>3
<1>7. QED
  BY <1>6 DEF AuthorisedStep

LEMMA WithdrawFundsAuthorised ==
  ASSUME TypeOK, NEW owner \in Keys, NEW a \in AgentIds, NEW mint \in Mints,
         NEW amount \in Nat, WithdrawFunds(owner, a, mint, amount)
  PROVE  AuthorisedStep
<1>1. /\ a \in DOMAIN agent_wallet
      /\ owner = agent_wallet[a].owner
      /\ <<a, mint>> \in DOMAIN token_account /\ <<owner, mint>> \in DOMAIN token_account
      /\ token_account' = Transferred(token_account, <<a, mint>>, <<owner, mint>>, amount)
      /\ UNCHANGED <<agent_wallet, payment_record>>
  BY DEF WithdrawFunds, SignedByOwner
<1>2. ASSUME NEW b \in AgentIds, NEW m \in Mints, <<b, m>> \in DOMAIN token_account,
             token_account[<<b, m>>] - token_account'[<<b, m>>] > 0
      PROVE  /\ b \in DOMAIN agent_wallet
             /\ TakesHome(b, m, token_account[<<b, m>>] - token_account'[<<b, m>>])
  <2>1. /\ <<b, m>> = <<a, mint>>
        /\ token_account[<<b, m>>] - token_account'[<<b, m>>] = amount
        /\ token_account'[<<owner, mint>>] = token_account[<<owner, mint>>] + amount
    BY <1>1, <1>2, TransferMoves
  <2>2. b = a /\ m = mint
    BY <2>1
  <2>3. TakesHome(a, mint, amount)
    BY <1>1, <2>1 DEF TakesHome
  <2>4. QED
    BY <1>1, <2>1, <2>2, <2>3
<1>3. QED
  BY <1>2 DEF AuthorisedStep

LEMMA StepAuthorised ==
  ASSUME TypeOK, Next
  PROVE  AuthorisedStep
<1>1. ASSUME UNCHANGED token_account
      PROVE  AuthorisedStep
  <2>1. NothingSpent
    BY <1>1 DEF NothingSpent, TypeOK
  <2>2. QED
    BY <2>1, NothingSpentAuthorised
<1>2. ASSUME NEW t, t \notin DOMAIN token_account, token_account' = Stored(token_account, t, 0)
      PROVE  AuthorisedStep
  <2>1. NothingSpent
    BY <1>2 DEF NothingSpent, Stored, TypeOK
  <2>2. QED
    BY <2>1, NothingSpentAuthorised
<1>3. ASSUME NEW t \in DOMAIN token_account, NEW amount \in Nat,
             token_account' = [token_account EXCEPT ![t] = @ + amount]
      PROVE  AuthorisedStep
  <2>1. NothingSpent
    BY <1>3 DEF NothingSpent, TypeOK
  <2>2. QED
    BY <2>1, NothingSpentAuthorised
<1>4. \A amount \in Amounts : amount \in Nat
  BY InputsAssumption, WidthAssumption DEF U64
<1>5. CASE Administer
  BY <1>1, <1>5 DEF Administer, InitProtocol, RotateProtocolAdmin, UpdateProtocolConfig,
                    FreezeAgent, UnfreezeAgent, SetFrozen
<1>6. CASE Manage
  BY <1>1, <1>2, <1>6 DEF Manage, RegisterAgent, AddressesFree, CloseAgent, DeactivateAgent,
                          ReactivateAgent, SetActive, TransferOwnership, SetSpendPolicy
<1>7. CASE Pay
  <2>1. PICK owner \in Keys, a \in AgentIds :
          \/ \E sequence \in U64, params \in PaymentParams :
               \/ \E mint \in Mints, payee \in Holders :
                    SettlePayment(owner, a, mint, payee, sequence, params)
               \/ RecordPolicyViolation(owner, a, sequence, params)
          \/ \E mint \in Mints :
               \/ \E amount \in Amounts : WithdrawFunds(owner, a, mint, amount)
               \/ WithdrawAll(owner, a, mint)
    BY <1>7 DEF Pay
  <2>2. CASE \E sequence \in U64, params \in PaymentParams :
               RecordPolicyViolation(owner, a, sequence, params)
    BY <1>1, <2>2 DEF RecordPolicyViolation
  <2>3. ASSUME NEW mint \in Mints, WithdrawAll(owner, a, mint)
        PROVE  AuthorisedStep
    <3>1. token_account[<<a, mint>>] \in Nat
      BY <2>3 DEF WithdrawAll, TypeOK
    <3>2. QED
      BY <2>3, <3>1, WithdrawFundsAuthorised DEF WithdrawAll
  <2>4. QED
    BY <1>4, <2>1, <2>2, <2>3, SettlePaymentAuthorised, WithdrawFundsAuthorised
<1>8. CASE Environment
  <2>1. CASE Tick
    BY <1>1, <2>1 DEF Tick
  <2>2. ASSUME NEW holder \in Holders, NEW mint \in Mints, CreateTokenAccount(holder, mint)
        PROVE  AuthorisedStep
    BY <1>2, <2>2 DEF CreateTokenAccount
  <2>3. ASSUME NEW holder \in Holders, NEW mint \in Mints, NEW amount \in Amounts,
               Fund(holder, mint, amount)
        PROVE  AuthorisedStep
    BY <1>3, <1>4, <2>3 DEF Fund
  <2>4. QED
    BY <1>8, <2>1, <2>2, <2>3 DEF Environment
<1>9. QED
  BY <1>5, <1>6, <1>7, <1>8 DEF Next

(***************************************************************************)
(* Whatever the mints, keys, caps and policies: tokens leave an agent's    *)
(* account only by a recorded settlement of an operational wallet under    *)
(* the cap, or to its registered owner.                                    *)
(***************************************************************************)
THEOREM OutflowIsAuthorised == Spec => OutflowAuthorised
<1>1. TypeOK /\ [Next]_vars => [AuthorisedStep]_vars
  BY StepAuthorised
<1>2. QED
  BY <1>1, TypeCorrect, PTL DEF Spec, OutflowAuthorised
-----------------------------------------------------------------------------
(* What stays recoverable *)

\* A wallet stays and keeps its owner, unless the owner hands it on, ...
KeepsWallet(a) ==
  /\ a \in DOMAIN agent_wallet'
  /\ \/ agent_wallet'[a].owner = agent_wallet[a].owner
     \/ \E new_owner \in Pubkeys : TransferOwnership(agent_wallet[a].owner, a, new_owner)

\* ... until the owner closes it.
ClosesWallet(a) ==
  \E mint \in Mints : CloseAgent(agent_wallet[a].owner, a, mint)

WalletsStay == \A a \in DOMAIN agent_wallet : KeepsWallet(a) \/ ClosesWallet(a)

LEMMA UntouchedWalletsStay ==
  ASSUME UNCHANGED agent_wallet
  PROVE  WalletsStay
BY DEF WalletsStay, KeepsWallet

LEMMA ChangedWalletStays ==
  ASSUME NEW a, NEW wallet, agent_wallet' = [agent_wallet EXCEPT ![a] = wallet],
         a \in DOMAIN agent_wallet,
         wallet.owner = agent_wallet[a].owner
  PROVE  WalletsStay
BY DEF WalletsStay, KeepsWallet

LEMMA AdministerKeepsWallets ==
  ASSUME TypeOK, Administer
  PROVE  WalletsStay
<1>1. CASE UNCHANGED agent_wallet
  BY <1>1, UntouchedWalletsStay
<1>2. ASSUME NEW admin \in Keys, NEW a \in AgentIds, NEW frozen \in BOOLEAN,
             SetFrozen(admin, a, frozen)
      PROVE  WalletsStay
  <2>1. PICK wallet : wallet = [agent_wallet[a] EXCEPT !.is_frozen = frozen]
    OBVIOUS
  <2>2. a \in DOMAIN agent_wallet /\ agent_wallet[a] \in AgentWallet
    BY <1>2 DEF SetFrozen, TypeOK
  <2>3. agent_wallet' = [agent_wallet EXCEPT ![a] = wallet]
    BY <1>2, <2>1 DEF SetFrozen
  <2>4. wallet.owner = agent_wallet[a].owner
    BY <2>1, <2>2 DEF AgentWallet
  <2>5. QED
    BY <2>2, <2>3, <2>4, ChangedWalletStays
<1>3. QED
  BY <1>1, <1>2 DEF Administer, InitProtocol, RotateProtocolAdmin, UpdateProtocolConfig,
                    FreezeAgent, UnfreezeAgent

LEMMA ManageKeepsWallets ==
  ASSUME TypeOK, Manage
  PROVE  WalletsStay
<1>1. ASSUME NEW owner \in Keys, NEW a \in AgentIds, NEW mint \in Mints,
             RegisterAgent(owner, a, mint)
      PROVE  WalletsStay
  BY <1>1 DEF RegisterAgent, AddressesFree, Stored, WalletsStay, KeepsWallet
<1>2. ASSUME NEW owner \in Keys, NEW a \in AgentIds, NEW mint \in Mints,
             CloseAgent(owner, a, mint)
      PROVE  WalletsStay
  <2>1. CloseAgent(agent_wallet[a].owner, a, mint)
    BY <1>2 DEF CloseAgent, SignedByOwner
  <2>2. ClosesWallet(a)
    BY <2>1 DEF ClosesWallet
  <2>3. \A b \in DOMAIN agent_wallet : b # a => KeepsWallet(b)
    BY <1>2 DEF CloseAgent, Closed, Restrict, KeepsWallet
  <2>4. QED
    BY <2>2, <2>3 DEF WalletsStay
<1>3. ASSUME NEW owner \in Keys, NEW a \in AgentIds, NEW active \in BOOLEAN,
             SetActive(owner, a, active)
      PROVE  WalletsStay
  <2>1. PICK wallet : wallet = [agent_wallet[a] EXCEPT !.is_active = active]
    OBVIOUS
  <2>2. a \in DOMAIN agent_wallet /\ agent_wallet[a] \in AgentWallet
    BY <1>3 DEF SetActive, SignedByOwner, TypeOK
  <2>3. agent_wallet' = [agent_wallet EXCEPT ![a] = wallet]
    BY <1>3, <2>1 DEF SetActive
  <2>4. wallet.owner = agent_wallet[a].owner
    BY <2>1, <2>2 DEF AgentWallet
  <2>5. QED
    BY <2>2, <2>3, <2>4, ChangedWalletStays
<1>4. ASSUME NEW owner \in Keys, NEW a \in AgentIds, NEW new_owner \in Pubkeys,
             TransferOwnership(owner, a, new_owner)
      PROVE  WalletsStay
  <2>1. /\ agent_wallet[a] \in AgentWallet /\ owner = agent_wallet[a].owner
        /\ agent_wallet' = [agent_wallet EXCEPT ![a].owner = new_owner]
        /\ a \in DOMAIN agent_wallet
    BY <1>4 DEF TransferOwnership, SignedByOwner, TypeOK
  <2>2. agent_wallet'[a].owner = new_owner
    BY <2>1 DEF AgentWallet
  <2>3. KeepsWallet(a)
    BY <1>4, <2>1, <2>2 DEF KeepsWallet
  <2>4. QED
    BY <2>1, <2>3 DEF WalletsStay, KeepsWallet
<1>5. ASSUME NEW owner \in Keys, NEW a \in AgentIds, NEW params \in PolicyParams,
             SetSpendPolicy(owner, a, params)
      PROVE  WalletsStay
  BY <1>5, UntouchedWalletsStay DEF SetSpendPolicy
<1>6. QED
  BY <1>1, <1>2, <1>3, <1>4, <1>5 DEF Manage, DeactivateAgent, ReactivateAgent

LEMMA PayKeepsWallets ==
  ASSUME TypeOK, Pay
  PROVE  WalletsStay
<1>1. ASSUME NEW owner \in Keys, NEW a \in AgentIds, NEW mint \in Mints, NEW payee \in Holders,
             NEW sequence \in U64, NEW params \in PaymentParams,
             SettlePayment(owner, a, mint, payee, sequence, params)
      PROVE  WalletsStay
  <2>1. PICK reset, wallet : /\ reset = ResetWindowsIfElapsed(agent_wallet[a], now)
                            /\ wallet = RecordSpend(reset, params.amount_usdc, now)
    OBVIOUS
  <2>2. a \in DOMAIN agent_wallet /\ agent_wallet[a] \in AgentWallet /\ now \in Nat
    BY <1>1 DEF SettlePayment, AdmitsPayment, SignedByOwner, TypeOK
  <2>3. agent_wallet' = [agent_wallet EXCEPT ![a] = wallet]
    BY <1>1, <2>1 DEF SettlePayment
  <2>4. reset \in AgentWallet /\ reset.owner = agent_wallet[a].owner
    BY <2>1, <2>2, ResetWallet DEF ResetWindowsIfElapsed, AgentWallet
  <2>5. wallet.owner = reset.owner
    BY <2>1, <2>4 DEF RecordSpend, CountEntry, AgentWallet
  <2>6. QED
    BY <2>2, <2>3, <2>4, <2>5, ChangedWalletStays
<1>2. ASSUME NEW owner \in Keys, NEW a \in AgentIds, NEW sequence \in U64,
             NEW params \in PaymentParams, RecordPolicyViolation(owner, a, sequence, params)
      PROVE  WalletsStay
  <2>1. PICK wallet : wallet = CountEntry(agent_wallet[a])
    OBVIOUS
  <2>2. a \in DOMAIN agent_wallet /\ agent_wallet[a] \in AgentWallet
    BY <1>2 DEF RecordPolicyViolation, SignedByOwner, TypeOK
  <2>3. agent_wallet' = [agent_wallet EXCEPT ![a] = wallet]
    BY <1>2, <2>1 DEF RecordPolicyViolation
  <2>4. wallet.owner = agent_wallet[a].owner
    BY <2>1, <2>2 DEF CountEntry, AgentWallet
  <2>5. QED
    BY <2>2, <2>3, <2>4, ChangedWalletStays
<1>3. ASSUME NEW owner \in Keys, NEW a \in AgentIds, NEW mint \in Mints, NEW amount,
             WithdrawFunds(owner, a, mint, amount)
      PROVE  WalletsStay
  BY <1>3, UntouchedWalletsStay DEF WithdrawFunds
<1>4. QED
  BY <1>1, <1>2, <1>3 DEF Pay, WithdrawAll

(***************************************************************************)
(* A step keeps every wallet and its owner, unless the owner hands it on   *)
(* or closes it.                                                           *)
(***************************************************************************)
LEMMA StepKeepsWallets ==
  ASSUME TypeOK, [Next]_vars
  PROVE  WalletsStay
<1>1. CASE Environment \/ UNCHANGED vars
  BY <1>1, UntouchedWalletsStay DEF Environment, CreateTokenAccount, Fund, Tick, vars
<1>2. QED
  BY <1>1, AdministerKeepsWallets, ManageKeepsWallets, PayKeepsWallets DEF Next

\* All that withdraw_all requires of an owner who asks for the tokens of a
CanWithdrawAll(owner, a, mint) ==
  /\ SignedByOwner(owner, a)
  /\ {<<a, mint>>, <<owner, mint>>} \subseteq DOMAIN token_account
  /\ token_account[<<a, mint>>] > 0

LEMMA WithdrawAllRequires ==
  ASSUME TypeOK, NEW owner \in Keys, NEW a \in AgentIds, NEW mint \in Mints
  PROVE  WithdrawAll(owner, a, mint) <=>
           /\ CanWithdrawAll(owner, a, mint)
           /\ token_account' = Transferred(token_account, <<a, mint>>, <<owner, mint>>,
                                           token_account[<<a, mint>>])
           /\ UNCHANGED <<protocol_config, agent_wallet, spend_policy, payment_record, now>>
BY DEF WithdrawAll, WithdrawFunds, CanWithdrawAll, TypeOK

(***************************************************************************)
(* withdraw_all: "the registered owner can always recover their USDC".     *)
(* Nothing anybody else does, freezing, paying, topping up, administering  *)
(* or registering, takes the withdrawal from an owner who could make it,   *)
(* as long as there are tokens to withdraw.  It is the owner who can, by   *)
(* passing the wallet on, or by closing it with another mint named whose   *)
(* token account is empty.                                                 *)
(***************************************************************************)
THEOREM WithdrawalStaysPossible ==
  Spec => [][\A owner \in Keys, a \in AgentIds, mint \in Mints :
               CanWithdrawAll(owner, a, mint) =>
                 \/ CanWithdrawAll(owner, a, mint)'
                 \/ Balance(a, mint)' = 0
                 \/ \E new_owner \in Pubkeys : TransferOwnership(owner, a, new_owner)
                 \/ \E m \in Mints \ {mint} : CloseAgent(owner, a, m)]_vars
<1>1. TypeOK /\ TypeOK' /\ [Next]_vars =>
        \A owner \in Keys, a \in AgentIds, mint \in Mints :
          CanWithdrawAll(owner, a, mint) =>
            \/ CanWithdrawAll(owner, a, mint)'
            \/ Balance(a, mint)' = 0
            \/ \E new_owner \in Pubkeys : TransferOwnership(owner, a, new_owner)
            \/ \E m \in Mints \ {mint} : CloseAgent(owner, a, m)
  <2> SUFFICES ASSUME TypeOK, TypeOK', [Next]_vars, NEW owner \in Keys, NEW a \in AgentIds,
                      NEW mint \in Mints, CanWithdrawAll(owner, a, mint),
                      Balance(a, mint)' # 0,
                      ~(\E new_owner \in Pubkeys : TransferOwnership(owner, a, new_owner)),
                      ~(\E m \in Mints \ {mint} : CloseAgent(owner, a, m))
               PROVE  CanWithdrawAll(owner, a, mint)'
    OBVIOUS
  <2>1. /\ a \in DOMAIN agent_wallet /\ agent_wallet[a].owner = owner
        /\ <<a, mint>> \in DOMAIN token_account /\ <<owner, mint>> \in DOMAIN token_account
        /\ token_account[<<a, mint>>] > 0
    BY DEF CanWithdrawAll, SignedByOwner
  <2>2. ~ClosesWallet(a)
    <3>1. ~CloseAgent(owner, a, mint)
      BY <2>1 DEF CloseAgent, Drained
    <3>2. QED
      BY <2>1, <3>1 DEF ClosesWallet
  <2>3. KeepsWallet(a)
    BY <2>1, <2>2, StepKeepsWallets DEF WalletsStay
  <2>4. a \in DOMAIN agent_wallet' /\ agent_wallet'[a].owner = owner
    BY <2>1, <2>3 DEF KeepsWallet
  <2>5. <<a, mint>> \in DOMAIN token_account' /\ <<owner, mint>> \in DOMAIN token_account'
    BY <2>1, TokenAccountsStay
  <2>6. token_account'[<<a, mint>>] > 0
    BY <2>5 DEF Balance, TypeOK
  <2>7. QED
    BY <2>4, <2>5, <2>6 DEF CanWithdrawAll, SignedByOwner
<1>2. QED
  BY <1>1, TypeCorrect, PTL DEF Spec

\* Every key has an account to receive into, and the owner has something to receive.
InReach(a, mint) ==
  /\ \A k \in Keys : <<k, mint>> \in DOMAIN token_account
  /\ \E owner \in Keys : CanWithdrawAll(owner, a, mint)

(***************************************************************************)
(* Nor does passing the wallet on: once every key has a token account,     *)
(* whoever is the owner can withdraw, at every moment until the balance is *)
(* zero, unless an owner closes the wallet with another mint named.  With  *)
(* one mint, an owner that keeps asking is thus fairness enough for        *)
(* FundsRecoverable.                                                       *)
(***************************************************************************)
THEOREM FundsStayInReach ==
  Spec => [][\A a \in AgentIds, mint \in Mints :
               InReach(a, mint) =>
                 \/ InReach(a, mint)'
                 \/ Balance(a, mint)' = 0
                 \/ \E owner \in Keys, m \in Mints \ {mint} : CloseAgent(owner, a, m)]_vars
<1>1. TypeOK /\ TypeOK' /\ [Next]_vars =>
        \A a \in AgentIds, mint \in Mints :
          InReach(a, mint) =>
            \/ InReach(a, mint)'
            \/ Balance(a, mint)' = 0
            \/ \E owner \in Keys, m \in Mints \ {mint} : CloseAgent(owner, a, m)
  <2> SUFFICES ASSUME TypeOK, TypeOK', [Next]_vars, NEW a \in AgentIds, NEW mint \in Mints,
                      InReach(a, mint), Balance(a, mint)' # 0,
                      ~(\E owner \in Keys, m \in Mints \ {mint} : CloseAgent(owner, a, m))
               PROVE  InReach(a, mint)'
    OBVIOUS
  <2>1. PICK owner \in Keys : CanWithdrawAll(owner, a, mint)
    BY DEF InReach
  <2>2. \A k \in Keys : <<k, mint>> \in DOMAIN token_account'
    BY TokenAccountsStay DEF InReach
  <2>3. /\ a \in DOMAIN agent_wallet /\ agent_wallet[a].owner = owner
        /\ <<a, mint>> \in DOMAIN token_account'
    BY <2>1, TokenAccountsStay DEF CanWithdrawAll, SignedByOwner
  <2>4. KeepsWallet(a)
    <3>1. ~CloseAgent(owner, a, mint)
      BY <2>1 DEF CloseAgent, Drained, CanWithdrawAll
    <3>2. ~ClosesWallet(a)
      BY <2>3, <3>1 DEF ClosesWallet
    <3>3. QED
      BY <2>3, <3>2, StepKeepsWallets DEF WalletsStay
  <2>5. a \in DOMAIN agent_wallet' /\ agent_wallet'[a].owner \in Keys
    BY <2>4 DEF KeepsWallet, TypeOK, AgentWallet
  <2>6. token_account'[<<a, mint>>] > 0
    BY <2>3 DEF Balance, TypeOK
  <2>7. CanWithdrawAll(agent_wallet[a].owner, a, mint)'
    BY <2>2, <2>3, <2>5, <2>6 DEF CanWithdrawAll, SignedByOwner
  <2>8. QED
    BY <2>2, <2>5, <2>7 DEF InReach
<1>2. QED
  BY <1>1, TypeCorrect, PTL DEF Spec
=============================================================================
