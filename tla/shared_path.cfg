SPECIFICATION Spec
CONSTANTS
  Writers = {w1, w2}
  Paths = {p}
  Elsewhere = {}
  Hole = Hole
  Nobody = Nobody
  FileSizes = {4}
  PieceSizes = {2}
  BufferBytes = 3
  EmptyOrders = {1}
  LargestFile = 8
  Capacity = 9
  CapacityElsewhere = 0
  MaxOthers = 0
INVARIANTS
  ClosedIsOwn
