SPECIFICATION Spec
CONSTANTS
  Messages <- Sent
  Garbage <- Garbled
  BufferSize = 64
INVARIANTS LinksUnderstood
CHECK_DEADLOCK FALSE
