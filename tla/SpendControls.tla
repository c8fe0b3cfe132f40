---------------------------- MODULE SpendControls ----------------------------
(***************************************************************************)
(* The arithmetic of the AgentWallet accounting windows and of the         *)
(* SpendPolicy limits: pure functions from an account's data to a verdict  *)
(* or to new data.  MaximProtocol puts them into instructions.             *)
(*                                                                         *)
(* The three spend windows share one definition, so a wallet's spends and  *)
(* window starts, and a policy's budgets, are functions over Windows.      *)
(***************************************************************************)
EXTENDS Integers

CONSTANTS
  MaxU64,          \* u64::MAX, the value at which amounts and counters saturate
  MaxU32,          \* u32::MAX, for the rate-limit counter
  SecondsPerDay,   \* 86_400 in the program
  DaysPerWeek,     \* 7: SECONDS_PER_WEEK is 7 * SECONDS_PER_DAY
  DaysPerMonth     \* 30: SECONDS_PER_MONTH is 30 * SECONDS_PER_DAY

ASSUME WidthAssumption ==
  /\ MaxU64 \in Nat \ {0}
  /\ MaxU32 \in Nat \ {0}

ASSUME PeriodAssumption ==
  /\ SecondsPerDay \in Nat \ {0}
  /\ DaysPerWeek \in Nat \ {0}
  /\ DaysPerMonth \in Nat \ {0}

U64 == 0..MaxU64
U32 == 0..MaxU32

Windows == {"daily", "weekly", "monthly"}

DaysIn(w) == CASE w = "daily"   -> 1
               [] w = "weekly"  -> DaysPerWeek
               [] w = "monthly" -> DaysPerMonth

Period(w) == DaysIn(w) * SecondsPerDay

\* Mutants: unchecked addition, and u64::wrapping_add
UncheckedAdd(x, y, max) == x + y
WrappingAdd(x, y, max)  == (x + y) % (max + 1)

\* u64::saturating_add and u32::saturating_add
SaturatingAdd(x, y, max) == IF x + y > max THEN max ELSE x + y

\* Mutants: catch up by one period only, and restart at the current time
NextStart(start, p, now)      == start + p
RestartedStart(start, p, now) == now

(***************************************************************************)
(* The start of the window of period p that contains now, on the grid that *)
(* start begins: a start moves by whole periods, so no drift accumulates.  *)
(***************************************************************************)
AdvancedStart(start, p, now) == start + ((now - start) \div p) * p

WindowElapsed(wallet, w, now) == now >= wallet.window_start[w] + Period(w)

\* reset_daily_, reset_weekly_ and reset_monthly_window_if_elapsed, in a row
ResetWindowsIfElapsed(wallet, now) ==
  [wallet EXCEPT
     !.spend = [w \in Windows |->
                  IF WindowElapsed(wallet, w, now) THEN 0 ELSE wallet.spend[w]],
     !.window_start = [w \in Windows |->
                  IF WindowElapsed(wallet, w, now)
                  THEN AdvancedStart(wallet.window_start[w], Period(w), now)
                  ELSE wallet.window_start[w]]]

\* What a settlement and a recorded violation both do to the counters
CountEntry(wallet) ==
  [wallet EXCEPT
     !.payment_sequence = SaturatingAdd(@, 1, MaxU64),
     !.total_payments   = SaturatingAdd(@, 1, MaxU64)]

\* Mutant: the time of the payment is forgotten
RecordSpendUndated(wallet, amount, now) ==
  [CountEntry(wallet) EXCEPT
     !.spend           = [w \in Windows |-> SaturatingAdd(wallet.spend[w], amount, MaxU64)],
     !.total_volume    = SaturatingAdd(@, amount, MaxU64)]

\* The accounting settle_payment does once the transfer has gone through
RecordSpend(wallet, amount, now) ==
  [CountEntry(wallet) EXCEPT
     !.spend           = [w \in Windows |-> SaturatingAdd(wallet.spend[w], amount, MaxU64)],
     !.total_volume    = SaturatingAdd(@, amount, MaxU64),
     !.last_payment_at = now]

(***************************************************************************)
(* Spend policy.  Zero switches a limit off.                               *)
(***************************************************************************)
WithinPerCallLimit(policy, amount) ==
  policy.per_call_limit = 0 \/ amount <= policy.per_call_limit

\* Mutant: looks at what was spent before, not at what will have been spent
NotYetOverBudget(policy, w, current_spend, amount) ==
  policy.budget[w] = 0 \/ current_spend <= policy.budget[w]

WithinBudget(policy, w, current_spend, amount) ==
  \/ policy.budget[w] = 0
  \/ SaturatingAdd(current_spend, amount, MaxU64) <= policy.budget[w]

WithinRateLimit(policy) ==
  policy.rate_limit_calls = 0 \/ policy.rate_limit_call_count < policy.rate_limit_calls

\* Mutant: the window restarts and the count goes on
RestartRateWindowIfElapsed(policy, now) ==
  IF /\ policy.rate_limit_window_secs > 0
     /\ now >= policy.rate_limit_window_start + policy.rate_limit_window_secs
  THEN [policy EXCEPT !.rate_limit_window_start = now]
  ELSE policy

\* Unlike the spend windows, the rate window restarts at the call that finds it elapsed.
ResetRateWindowIfElapsed(policy, now) ==
  IF /\ policy.rate_limit_window_secs > 0
     /\ now >= policy.rate_limit_window_start + policy.rate_limit_window_secs
  THEN [policy EXCEPT !.rate_limit_call_count = 0, !.rate_limit_window_start = now]
  ELSE policy

DomainPermitted(policy, domain) ==
  /\ domain \notin policy.blocked_domain_hashes
  /\ policy.allowed_domain_hashes # {} => domain \in policy.allowed_domain_hashes

EnforcedOnChain(policy, amount) ==
  policy.high_value_threshold > 0 /\ amount >= policy.high_value_threshold

(***************************************************************************)
(* The enforced branch of settle_payment: wallet has had its windows reset *)
(* and the rate window is reset before the rate limit is read.             *)
(***************************************************************************)
PolicyAdmits(policy, wallet, amount, domain, now) ==
  /\ WithinPerCallLimit(policy, amount)
  /\ \A w \in Windows : WithinBudget(policy, w, wallet.spend[w], amount)
  /\ WithinRateLimit(ResetRateWindowIfElapsed(policy, now))
  /\ DomainPermitted(policy, domain)

\* What that branch leaves in the SpendPolicy account when it admits the payment
CountCall(policy, now) ==
  [ResetRateWindowIfElapsed(policy, now) EXCEPT
     !.rate_limit_call_count = SaturatingAdd(@, 1, MaxU32)]
=============================================================================
