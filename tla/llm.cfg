CONSTANTS
  Backends = {"anthropic", "openai"}
  Calls <- AllCalls
  DefaultModel <- Defaults
  Streams <- AllStreams
  Cap = 1
SPECIFICATION Spec
INVARIANTS EveryMessageIsSent DeliveredInOrder ClosedIsComplete
PROPERTIES PumpEnds
CHECK_DEADLOCK FALSE
