SPECIFICATION TenantServicesSpec
CONSTANTS
  Profiles = {e1,e2}
  PromptConfigs <- MCConfigs
  DefaultConfig <- MCDefault
  PromptRequests = {r1}
  PromptTxs = {t1}
  Buckets = 4
  MaxPromptVersion = 2
  NoProfile = NoProfile
  o1 = o1
  Colleague = Colleague
  x1 = x1
  cA = cA
  cB = cB
  AnchorOperators = {o1}
  Clients = {cA, cB}
  Escalations = {x1}
  RoleOf <- MCRole
  ClientOf <- MCClient
  MaxRevision = 2
  MaxLoads <- MCLoads
  Nobody = Nobody
  Tenants = {"c1", "c2"}
  Numbers = {"n1"}
  Identities = {"i1"}
  StateFields = {e1, e2}
  VoiceJobs = {w1, w2}
  MaxOps = 3
  NoTenant = NoTenant
  Workspaces = {e1, e2}
  MetaPages = {m1, m2}
  OauthSessions = {w1, w2}
  MaxOauthOps = 4
  Nothing = Nothing
  LoginTabs = {login}
  SignupTabs = {signup}
  CodeLife = 1
  MaxSignClock = 2
  MaxCodes = 3
  MaxSignOps = 3
  Sellers = {c1, c2}
  Newcomer = c1
  MaxSetupOps = 3
  Rules = {r1, r2, r3}
  Operators = {w1, w2}
  MaxRuleOps = 3
  Hits <- MCHits
  NoScope = notenant
  RouteLimit <- MCLimits
  Window = 2
  Instances = {e1, e2}
  Checks = {w1, w2}
  MaxTick = 2
  MaxRateOps = 3
INVARIANTS
  TenantInvariant
PROPERTIES
  TenantsStayApart
SYMMETRY PoolSymmetry
CHECK_DEADLOCK FALSE
