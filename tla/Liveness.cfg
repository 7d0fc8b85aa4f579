SPECIFICATION LivenessSpec
CONSTANTS
  Handlers = {h1, h2}
  Operators = {}
  Messages = {"refund", "ask", "stray"}
  Conversations = {"c1"}
  Batches = {"b1", "b2"}
  Items <- PoisonItems
  ConvOf <- PoisonConvOf
  Kind <- PoisonKind
  Outcomes <- PoisonOutcomes
  MaxFailures = 1
  MaxDuplicates = 1
  Calls = {c1, c2}
  Timed = {c1}
  MAX_CONCURRENT_CALLS = 1
  MaxTurns = 0
  MaxOutages = 1
INVARIANT CleanDeliveryIsExact
PROPERTIES
  EveryBatchSettles
  SlotReturned
CHECK_DEADLOCK FALSE
