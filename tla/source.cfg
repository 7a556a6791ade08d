SPECIFICATION FairSpec
CONSTANTS
  Readers = {r1, r2}
  StartSizes = {0, 4, 5}
  MaxChanges = 2
  Sizes = {0, 2, 4, 5, 6, 7, 9}
  buff_s = 2
  Garbage = {0, 3}
INVARIANTS
  BytesInPlace
  MeasuredArrives
PROPERTIES
  EveryoneEnds
