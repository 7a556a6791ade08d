SPECIFICATION Spec
CONSTANTS
  Clients = {c1}
  Threads = {t1, t2, t3}
  Main = Main
  None = None
  Window = 1
  OtherKey = {}
  OtherVersion = {}
  FullPieces = 2
  ShortPiece = TRUE
  GarbageOrders = {0, 9}
  ClientFaults = {}
  Faulty = {}
  SeekLimit = 9
  Buffered = {c1}
  ServerFaults = {}
SYMMETRY Symmetry
INVARIANTS
  TypeOK
  ChannelsInOrder
  OnePlace
PROPERTIES
  CompleteWhenAllFinish
