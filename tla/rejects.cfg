SPECIFICATION FairSpec
CONSTANTS
  Clients = {c1, c2, c3}
  Threads = {t1, t2}
  Main = Main
  None = None
  Window = 1
  OtherKey = {c1}
  OtherVersion = {c2}
  FullPieces = 1
  ShortPiece = FALSE
  GarbageOrders = {9}
  ClientFaults = {}
  Faulty = {}
  SeekLimit = 9
  Buffered = {c3}
  ServerFaults = {"disk"}
INVARIANTS
  NoNullFile
  RegistryInSync
  MismatchNeverTransfers
PROPERTIES
  ClientsEnd
  KeepsPromise
