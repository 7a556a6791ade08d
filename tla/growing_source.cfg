SPECIFICATION Spec
CONSTANTS
  Readers = {r1, r2}
  StartSizes = {5}
  MaxChanges = 1
  Sizes = {7}
  buff_s = 2
  Garbage = {0}
INVARIANTS
  SizeIsRead
