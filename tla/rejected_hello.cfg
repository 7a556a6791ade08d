SPECIFICATION Spec
CONSTANTS
  Clients = {c1, c2}
  Threads = {t1}
  Main = Main
  None = None
  Window = 1
  OtherKey = {c1}
  OtherVersion = {c2}
  FullPieces = 1
  ShortPiece = FALSE
  GarbageOrders = {0}
  ClientFaults = {}
  Faulty = {}
  SeekLimit = 9
  Buffered = {}
  ServerFaults = {}
PROPERTIES
  RejectionIsAnswered
