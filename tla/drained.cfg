\* The ledger run, with two mints, asked about the balance a closed wallet leaves.
SPECIFICATION Spec
CONSTANTS
  MaxU64 = 2
  MaxU32 = 2
  SecondsPerDay = 2
  DaysPerWeek = 2
  DaysPerMonth = 3
  a1 = a1  a2 = a2  k1 = k1  k2 = k2  usdc = usdc  other = other  d1 = d1  d2 = d2
  AgentIds = {a1}
  IdBytes <- ShortIds
  PlainIds = {a1}
  Keys = {k1}
  DefaultKey = DefaultKey
  Mints = {usdc, other}
  Domains = {d1}
  Protocols = {0}
  Amounts = {1}
  Caps = {0}
  PolicyParams <- NoPolicy
  ParentRefs <- NoParent
  MaxDomainEntries = 1
  MaxSupply = 1
  MaxTime = 1
PROPERTY CloseLeavesNothing
