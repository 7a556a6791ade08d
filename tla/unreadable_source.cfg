SPECIFICATION Spec
CONSTANTS
  Clients = {c1}
  Threads = {t1}
  Main = Main
  None = None
  Window = 1
  OtherKey = {}
  OtherVersion = {}
  FullPieces = 1
  ShortPiece = TRUE
  GarbageOrders = {0}
  ClientFaults = {"unreadable"}
  Faulty = {c1}
  SeekLimit = 9
  Buffered = {}
  ServerFaults = {}
INVARIANTS
  FinishedIsComplete
