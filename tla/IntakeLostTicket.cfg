SPECIFICATION Spec
CONSTANTS
  Handlers = {h1, h2}
  Operators = {o1}
  Messages = {"refund", "ask", "rate", "stray"}
  Conversations = {"c1"}
  Batches = {"b1", "b2"}
  Items <- MCItems
  ConvOf <- MCConvOf
  Kind <- MCKind
  Outcomes <- MCOutcomes
  MaxFailures = 1
  MaxDuplicates = 0
INVARIANT EscalationHasTicket
CHECK_DEADLOCK FALSE
