------------------------------ MODULE MCExecution ------------------------------
(***************************************************************************)
(* Settlements executed in parallel: two funded wallets with two owners,   *)
(* a1 under one of the policies below and a2 under none.                   *)
(***************************************************************************)
EXTENDS MCMaxim, SettleExecution

CONSTANTS
  x1, x2,
  MaxOthers    \* bound: how many other instructions a behaviour holds

VARIABLE others   \* how many it has held

\* Policies that between them refuse for every reason a policy has
RefusingPolicies ==
  {[NoLimits EXCEPT !.high_value_threshold = 1, !.per_call_limit = 1,
                    !.budget = Budgets(1, 0, 0)],
   [NoLimits EXCEPT !.high_value_threshold = 1, !.budget = Budgets(0, 1, 0),
                    !.blocked_domain_hashes = {d1}, !.allowed_domain_hashes = {d1, d2}],
   [NoLimits EXCEPT !.high_value_threshold = 1, !.budget = Budgets(0, 0, 1),
                    !.allowed_domain_hashes = {d2}],
   [NoLimits EXCEPT !.high_value_threshold = 1, !.rate_limit_calls = 1,
                    !.rate_limit_window_secs = 1]}

\* A payment of 1 by a1, and what differs from it in one respect; a payment by a2
Plain ==
  [owner |-> k1, a |-> a1, mint |-> usdc, payee |-> k1, sequence |-> 0,
   params |-> [amount_usdc |-> 1, protocol |-> 0, domain_hash |-> d2, parent_payment |-> {}]]

MixedRequests ==
  {[Plain EXCEPT !.sequence = s] : s \in 0..1} \cup
  {[Plain EXCEPT !.params.amount_usdc = x] : x \in {0, 2}} \cup
  {[Plain EXCEPT !.params.protocol = 2], [Plain EXCEPT !.params.domain_hash = d1],
   [Plain EXCEPT !.owner = k2], [Plain EXCEPT !.payee = a2],
   [Plain EXCEPT !.owner = k2, !.a = a2]}

ThreadSymmetry == Permutations(Threads)

ExecutionInit ==
  /\ protocol_config =
       [initialised |-> TRUE, admin |-> k1, max_single_payment_usdc |-> 0]
  /\ agent_wallet = [a \in {a1, a2} |-> NewWallet(IF a = a1 THEN k1 ELSE k2, a)]
  /\ \E params \in PolicyParams :
       spend_policy = [a \in {a1, a2} |-> NewPolicy(IF a = a1 THEN params ELSE NoLimits)]
  /\ payment_record = NoAccounts
  /\ token_account = [t \in {a1, a2, k1} \X {usdc} |->
                        CASE t[1] = a1 -> 2 [] t[1] = a2 -> 1 [] OTHER -> 0]
  /\ now = 1
  /\ executing = NoAccounts
  /\ others = 0

FewOthersNext ==
  \/ (SettleStep \/ NextBlock) /\ UNCHANGED others
  \/ others < MaxOthers /\ OtherInstruction /\ others' = others + 1

ParallelSpec == ExecutionInit /\ [][FewOthersNext]_<<executionVars, others>>
=============================================================================
