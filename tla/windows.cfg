\* One paying agent over more than two weeks: days of 2 s, weeks of 4 s, months of 6 s.
\* The clock and the supply run out.
SPECIFICATION PayingSpec
CONSTANTS
  MaxU64 = 4
  MaxU32 = 2
  SecondsPerDay = 2
  DaysPerWeek = 2
  DaysPerMonth = 3
  a1 = a1  a2 = a2  k1 = k1  k2 = k2  usdc = usdc  other = other  d1 = d1  d2 = d2
  AgentIds = {a1}
  IdBytes <- ShortIds
  PlainIds = {a1}
  Keys = {k1}
  DefaultKey = DefaultKey
  Mints = {usdc}
  Domains = {d1}
  Protocols = {0}
  Amounts = {1, 2}
  Caps = {0}
  PolicyParams <- BudgetPolicies
  ParentRefs <- NoParent
  MaxDomainEntries = 1
  MaxSupply = 4
  MaxTime = 8
INVARIANT SpendMatchesLedger
INVARIANT NestedWindows
INVARIANT AnyPeriodWithinTwoBudgets
PROPERTY EnforcedWithinBudget
CHECK_DEADLOCK FALSE
