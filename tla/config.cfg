CONSTANTS
  File <- Files
  Environments <- UpToTwo
  Remote <- Remotes
  Allowed <- Policy
SPECIFICATION Spec
INVARIANTS LastWriteWins NoSourceIsPassedOver
CHECK_DEADLOCK FALSE
