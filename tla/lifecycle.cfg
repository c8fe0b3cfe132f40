\* One agent, two keypairs, one mint: every instruction in any order, counters that
\* saturate at 2.
SPECIFICATION DashboardSpec
CONSTANTS
  MaxU64 = 2
  MaxU32 = 2
  SecondsPerDay = 2
  DaysPerWeek = 2
  DaysPerMonth = 3
  a1 = a1  a2 = a2  k1 = k1  k2 = k2  usdc = usdc  other = other  d1 = d1  d2 = d2
  AgentIds = {a1}
  IdBytes <- ShortIds
  PlainIds = {a1}
  Keys = {k1, k2}
  DefaultKey = DefaultKey
  Mints = {usdc}
  Domains = {d1}
  Protocols = {1, 2}
  Amounts = {0, 2}
  Caps = {0}
  PolicyParams <- TwoPolicies
  ParentRefs <- NoParent
  MaxDomainEntries = 1
  MaxSupply = 2
  MaxTime = 2
INVARIANT TypeOK
INVARIANT SequenceMatchesLedger
INVARIANT VolumeMatchesLedger
PROPERTY RetiredForever
PROPERTY OutflowAuthorised
INVARIANT ViewMatchesAccounts
INVARIANT ShownActiveExists
INVARIANT BooksBalance
PROPERTY FundsRecoverable
