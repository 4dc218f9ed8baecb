SPECIFICATION FairSpec
CONSTANTS
  i1 = i1
  i2 = i2
  r1 = r1
  r2 = r2
  Ingests <- MCIngests
  Readers <- MCReaders
  MaxVersion = 3
CHECK_DEADLOCK FALSE
INVARIANTS
  NeverTruncated
PROPERTIES
  ReadersKeepUp
  DoneMeansBothSaved
  PublishesInOrder
  IngestsEnd
