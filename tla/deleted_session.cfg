SPECIFICATION Spec
CONSTANTS
  Clients = {c1, c2}
  Threads = {t1}
  Main = Main
  None = None
  Window = 1
  OtherKey = {}
  OtherVersion = {}
  FullPieces = 1
  ShortPiece = FALSE
  GarbageOrders = {0}
  ClientFaults = {}
  Faulty = {}
  SeekLimit = 9
  Buffered = {}
  ServerFaults = {"disk"}
INVARIANTS
  DeletedHasNoHandler
