SPECIFICATION OutboundSpec
CONSTANTS
  Actions <- MCActions
  Class <- MCClass
  Amount <- MCAmount
  Named <- MCNamed
  Key <- MCKey
  Unknown = unknown
  NoKey = nokey
  Approvers = {p1, p2}
  Replayers = {w1, w2}
  Thresholds = {0, 2}
  MaxTimeouts = 1
  MaxFailures = 1
INVARIANTS
  TypeOK
  RecordsAreBacked
  SpendIsSanctioned
  AtMostOnceUndisturbed
PROPERTY DecidedIsFinal
SYMMETRY OutboundSymmetry
CHECK_DEADLOCK FALSE
