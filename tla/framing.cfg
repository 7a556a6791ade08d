SPECIFICATION FairSpec
CONSTANTS
  Base = 4
  Digits = 2
  SessionBytes = 1
  Block = 4
  Kinds = {"negotiation", "transfer", "reply", "ack"}
  PieceSize = 2
  Contents <- TwoContents
  Orders = {9}
  Lengths = {200}
  Paths <- OnePath
  Statuses = {0, 1}
  MaxMessages = 4
INVARIANTS
  InStep
PROPERTIES
  WholeMessages
  WrittenIsRead
