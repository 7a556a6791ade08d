SPECIFICATION Spec
CONSTANTS
  Base = 4
  Digits = 2
  SessionBytes = 1
  Block = 4
  Kinds = {"negotiation", "transfer"}
  PieceSize = 2
  Contents <- OneContent
  Orders = {0}
  Lengths = {200}
  Paths <- OnePath
  Statuses = {0, 1}
  MaxMessages = 4
INVARIANTS
  OursIsOurs
