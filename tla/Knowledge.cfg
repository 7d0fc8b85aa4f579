SPECIFICATION Spec
CONSTANTS
  Entries = {1, 2, 3}
  Contents = {a, b}
  Requests = {r1}
  Jobs = {j1, j2}
  MaxCalls = 4
  MaxFailures = 1
INVARIANTS
  TypeOK
  VersionNamesContent
  HistoryComplete
  IndexCurrent
  RequestAudited
  RequestCreatesOnce
PROPERTY PublicationGoesLive
SYMMETRY KnowledgeSymmetry
CHECK_DEADLOCK FALSE
