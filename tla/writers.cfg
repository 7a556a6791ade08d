SPECIFICATION Spec
CONSTANTS
  Writers = {w1, w2}
  Paths = {p, q}
  Elsewhere = {q}
  Hole = Hole
  Nobody = Nobody
  FileSizes = {5, 6}
  PieceSizes = {2, 3}
  BufferBytes = 3
  EmptyOrders = {1, 9}
  LargestFile = 6
  Capacity = 5
  CapacityElsewhere = 4
  MaxOthers = 1
INVARIANTS
  BytesInPlace
  ClosedHoldsWritten
  LastOpenerHasNoHole
  CheckedSpaceIsEnough
SYMMETRY Symmetry
