SPECIFICATION Spec
CONSTANTS
  Base = 4
  Digits = 2
  SessionBytes = 1
  Block = 4
  Kinds = {"transfer"}
  PieceSize = 2
  Contents <- OneContent
  Orders = {0, 15, 16}
  Lengths = {200}
  Paths <- OnePath
  Statuses = {0, 1}
  MaxMessages = 4
INVARIANTS
  OrderArrives
