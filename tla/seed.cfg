\* The control flow of the script, whatever the program can read of it, and the script as it stands.
SPECIFICATION EitherSpec
CONSTANTS
  MaxU64 = 1000
  MaxU32 = 4000
  SecondsPerDay = 86400
  DaysPerWeek = 7
  DaysPerMonth = 30
  a1 = a1  a2 = a2  k1 = k1  k2 = k2  usdc = usdc  other = other  d1 = d1  d2 = d2
  AgentIds = {a1, a2}
  IdBytes <- ShortIds
  PlainIds = {a1, a2}
  Keys = {k1, k2}
  DefaultKey = DefaultKey
  Mints = {usdc}
  Domains = {d1}
  Protocols = {0, 1}
  Amounts = {7, 12, 18, 60, 120}
  Caps = {0, 10}
  PolicyParams <- SeededPolicies
  ParentRefs <- NoParent
  MaxDomainEntries = 32
  MaxSupply = 120
  MaxTime = 1
  Agent1 = a1
  Agent2 = a2
  Deployer = k1
  UsdcMint = usdc
  Endpoint = d1
INVARIANT LedgerFollowsScript
INVARIANT CounterInStep
INVARIANT StopsAsItStands
PROPERTY ScriptEnds
CHECK_DEADLOCK FALSE
