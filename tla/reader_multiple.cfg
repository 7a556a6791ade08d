SPECIFICATION FairSpec
CONSTANTS
  Readers = {r1, r2, r3}
  Nobody = Nobody
  Size = 4
  buff_s = 2
  Garbage = {0, 3}
INVARIANTS
  ReaderTypeOK
  PacketMatchesBytes
  EndMeansAllRead
PROPERTIES
  AnswersAreAtomic
  EveryoneDone
