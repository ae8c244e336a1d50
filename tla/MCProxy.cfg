CONSTANTS
  Requests = {r1}
  Networks = {"udp", "tcp"}
  Upstreams = {u1, u2, u3}
  Modules = {"missing", "srp_handler", "update_handler"}
  Chains <- MCChains
  Registered = {"srp_handler", "update_handler"}
  None = None
  RequestTimeout = 2
  ResolverTimeout = 1
  MaxTime = 1
  Name <- MCName
  Elsewhere <- MCElsewhere
  Keys = {K, L}
  NoZone = NoZone
  SRVSets <- MCSRVSets
  NoSRV = NoSRV
  Resolvers = 2
  UDPSize = 1
  MaxFaults = 2
  MaxTruncated = 1
SPECIFICATION ProxySpec
INVARIANTS RouterInv LookupsAreRight
PROPERTIES ShutdownCompletes
CHECK_DEADLOCK FALSE
