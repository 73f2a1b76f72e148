SPECIFICATION Spec
CONSTANTS
  Messages <- NoSuchName
  Garbage = {}
  BufferSize = 64
INVARIANTS NotInterfered
CHECK_DEADLOCK FALSE
