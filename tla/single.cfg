SPECIFICATION FairSpec
CONSTANTS
  Clients = {c1, c2}
  Threads = {t1}
  Main = Main
  None = None
  Window = 1
  OtherKey = {}
  OtherVersion = {}
  FullPieces = 2
  ShortPiece = TRUE
  GarbageOrders = {0, 9}
  ClientFaults = {"kill", "cut", "silence", "source"}
  Faulty = {c1}
  SeekLimit = 9
  Buffered = {c1}
  ServerFaults = {"accept"}
INVARIANTS
  FinishFindsSession
  FinishedIsComplete
PROPERTIES
  HealthyUploadsComplete
  AcceptorReturns
  ClientsEnd
