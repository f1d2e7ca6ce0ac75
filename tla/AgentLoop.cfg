SPECIFICATION FairSpec
CONSTANTS
  crawl = crawl
  sqlmap = sqlmap
  http = http
  get = get
  proxy = proxy
  foreign = foreign
  refused = refused
  e1 = e1
  e2 = e2
  site = site
  other = other
  lan = lan
  NoEndpoint = NoEndpoint
  NoHost = NoHost
  Requests <- AllRequests
  Untargeted = {proxy}
  Discovers = {crawl}
  Tests = {sqlmap, http}
  Endpoints = {e1, e2}
  EndpointOf <- AllEndpoints
  Hosts = {site, other, lan}
  HostOf <- AllHosts
  Scope = {site}
  Private = {lan}
  Forbidden = {refused}
  Stages = 3
  Probes <- ThreePreludes
  Probed <- ThreeProbes
  ReconStage = 2
  MaxSteps = 3
  MaxFailures = 1
  MaxNudges = 2
  MaxRefresh = 1
  Authenticated = TRUE
INVARIANTS
  LoopInv
  LiveMirrorsSteps
  AgentRepeatsNothing
PROPERTIES
  ContractSpec
  LoopEnds
CHECK_DEADLOCK FALSE
