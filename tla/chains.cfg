\* One paying agent whose payments name any of its first two records as their parent.
SPECIFICATION PayingSpec
CONSTANTS
  MaxU64 = 2
  MaxU32 = 2
  SecondsPerDay = 2
  DaysPerWeek = 2
  DaysPerMonth = 3
  a1 = a1  a2 = a2  k1 = k1  k2 = k2  usdc = usdc  other = other  d1 = d1  d2 = d2
  AgentIds = {a1}
  IdBytes <- ShortIds
  PlainIds = {a1}
  Keys = {k1}
  DefaultKey = DefaultKey
  Mints = {usdc}
  Domains = {d1}
  Protocols = {0}
  Amounts = {1}
  Caps = {0}
  PolicyParams <- NoPolicy
  ParentRefs <- Links
  MaxDomainEntries = 1
  MaxSupply = 2
  MaxTime = 1
INVARIANT ChainsReachRoot
CHECK_DEADLOCK FALSE
