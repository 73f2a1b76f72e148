SPECIFICATION Spec
CONSTANTS
  Messages <- Sent
  Garbage <- Garbled
  BufferSize = 64
INVARIANTS OnlyTheseChange LabelsKept SkipsNothingElse DropsOnlyFullMessages LinksEnd
CHECK_DEADLOCK FALSE
