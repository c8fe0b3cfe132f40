\* Ids of 32 and of 33 bytes.
SPECIFICATION Spec
CONSTANTS
  MaxU64 = 2
  MaxU32 = 2
  SecondsPerDay = 2
  DaysPerWeek = 2
  DaysPerMonth = 3
  a1 = a1  a2 = a2  k1 = k1  k2 = k2  usdc = usdc  other = other  d1 = d1  d2 = d2
  AgentIds = {a1, a2}
  IdBytes <- LongIds
  PlainIds = {a1, a2}
  Keys = {k1}
  DefaultKey = DefaultKey
  Mints = {usdc}
  Domains = {d1}
  Protocols = {0}
  Amounts = {1}
  Caps = {0}
  PolicyParams <- NoPolicy
  ParentRefs <- NoParent
  MaxDomainEntries = 1
  MaxSupply = 1
  MaxTime = 1
INVARIANT DocumentedIdsRegister
