SPECIFICATION FairSpec
CONSTANTS
  Clients = {c1}
  Threads = {t1, t2}
  Main = Main
  None = None
  Window = 1
  OtherKey = {}
  OtherVersion = {}
  FullPieces = 1
  ShortPiece = TRUE
  GarbageOrders = {9}
  ClientFaults = {"kill", "cut", "unreadable"}
  Faulty = {c1}
  SeekLimit = 9
  Buffered = {c1}
  ServerFaults = {"disk"}
INVARIANTS
  NumberIsUnfinished
PROPERTIES
  ClosedByLast
  KeepsPromise
  ClientsEnd
