------------------------------- MODULE MCMaxim -------------------------------
(***************************************************************************)
(* Small instances of MaximProtocol for TLC.  Each run's cfg picks its     *)
(* inputs from the definitions below.                                      *)
(***************************************************************************)
EXTENDS MaximRefinesLedger, DocumentedClaims, TLC

CONSTANTS a1, a2, k1, k2, usdc, other, d1, d2

ShortIds == [a \in AgentIds |-> 9]

\* Limits that are all off, to be overridden one by one
NoLimits ==
  [budget |-> [w \in Windows |-> 0], per_call_limit |-> 0,
   rate_limit_calls |-> 0, rate_limit_window_secs |-> 0, high_value_threshold |-> 0,
   allowed_domain_hashes |-> {}, blocked_domain_hashes |-> {}]

Budgets(day, week, month) == [daily |-> day, weekly |-> week, monthly |-> month]

NoPolicy == {NoLimits}

\* Every payment enforced; only payments of 2 enforced; and every payment enforced
\* with a budget of 1 on the day, on the week and on the month, of which two are less
\* than the supply.
BudgetPolicies ==
  {[NoLimits EXCEPT !.budget = Budgets(2, 3, 3), !.high_value_threshold = t] : t \in {1, 2}} \cup
  {[NoLimits EXCEPT !.budget = b, !.high_value_threshold = 1] :
     b \in {Budgets(1, 2, 3), Budgets(0, 1, 0), Budgets(0, 0, 1)}}

RatePolicies ==
  {[NoLimits EXCEPT !.rate_limit_calls = 2, !.rate_limit_window_secs = 2, !.high_value_threshold = 1],
   [NoLimits EXCEPT !.rate_limit_calls = 1, !.rate_limit_window_secs = 0, !.high_value_threshold = 2]}

NoParent == {{}}

\* None, and links to the first two records of a1
Links == {{}, {<<a1, 0>>}, {<<a1, 1>>}}

AgentSymmetry == Permutations(AgentIds)

\* Ids of 32 and of 33 bytes
LongIds == [a \in AgentIds |-> IF a = a1 THEN 32 ELSE 33]

\* A wallet and a policy as register_agent and set_spend_policy make them in second 1
NewWallet(owner, a) ==
  [owner |-> owner, usdc_token_account |-> <<a, usdc>>,
   spend |-> [w \in Windows |-> 0], window_start |-> [w \in Windows |-> 1],
   payment_sequence |-> 0, total_payments |-> 0, total_volume |-> 0,
   last_payment_at |-> 0, is_active |-> TRUE, is_frozen |-> FALSE]

NewPolicy(params) ==
  [budget                  |-> params.budget,
   per_call_limit          |-> params.per_call_limit,
   rate_limit_calls        |-> params.rate_limit_calls,
   rate_limit_window_secs  |-> params.rate_limit_window_secs,
   rate_limit_call_count   |-> 0,
   rate_limit_window_start |-> 1,
   high_value_threshold    |-> params.high_value_threshold,
   allowed_domain_hashes   |-> params.allowed_domain_hashes,
   blocked_domain_hashes   |-> params.blocked_domain_hashes]

-----------------------------------------------------------------------------
(***************************************************************************)
(* The life of one funded wallet that pays k1: the state that              *)
(* init_protocol, register_agent, set_spend_policy and a deposit of the    *)
(* whole supply reach in the first second, and from there payments,        *)
(* violations, policy updates and time.                                    *)
(***************************************************************************)
PayingInit ==
  /\ protocol_config =
       [initialised |-> TRUE, admin |-> k1, max_single_payment_usdc |-> 0]
  /\ agent_wallet = [a \in {a1} |-> NewWallet(k1, a1)]
  /\ \E params \in PolicyParams : spend_policy = [a \in {a1} |-> NewPolicy(params)]
  /\ payment_record = NoAccounts
  /\ token_account = [t \in {a1, k1} \X {usdc} |-> IF t[1] = a1 THEN MaxSupply ELSE 0]
  /\ now = 1

\* Violations of 2 only: the amount of a violation is stored and never read.
PayingNext ==
  \/ \E sequence \in U64, params \in PaymentParams :
       \/ SettlePayment(k1, a1, usdc, k1, sequence, params)
       \/ params.amount_usdc = 2 /\ RecordPolicyViolation(k1, a1, sequence, params)
  \/ Tick

PayingSpec == PayingInit /\ [][PayingNext]_vars

\* The same, with the policy replaced at any time
UpdatingNext == PayingNext \/ \E params \in PolicyParams : SetSpendPolicy(k1, a1, params)

UpdatingSpec == PayingInit /\ [][UpdatingNext]_vars
=============================================================================
