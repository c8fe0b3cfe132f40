\* Two threads, two agents that pay one payee, every reason to refuse.
SPECIFICATION ParallelSpec
CONSTANTS
  MaxU64 = 3
  MaxU32 = 2
  SecondsPerDay = 1
  DaysPerWeek = 2
  DaysPerMonth = 3
  a1 = a1  a2 = a2  k1 = k1  k2 = k2  usdc = usdc  other = other  d1 = d1  d2 = d2
  x1 = x1  x2 = x2
  AgentIds = {a1, a2}
  IdBytes <- ShortIds
  PlainIds = {a1, a2}
  Keys = {k1, k2}
  DefaultKey = DefaultKey
  Mints = {usdc}
  Domains = {d1, d2}
  Protocols = {0, 2}
  Amounts = {0, 1, 2}
  Caps = {0, 1}
  PolicyParams <- RefusingPolicies
  ParentRefs <- NoParent
  MaxDomainEntries = 2
  MaxSupply = 3
  MaxTime = 2
  Threads = {x1, x2}
  Requests <- MixedRequests
  MaxOthers = 2
INVARIANT RefusalsJustified
PROPERTY SettlesAtomically
PROPERTY OutflowAuthorised
SYMMETRY ThreadSymmetry
