SPECIFICATION FairSpec
CONSTANTS
  l1 = l1
  l2 = l2
  Loads <- TwoLoads
  Inodes = {1, 2, 3, 4, 5}
  Chunks = 2
  MaxVersion = 1
  EndsAfter = {2}
  Faults = {"network", "decode"}
  Commands = {}
INVARIANTS
  FilesSound
PROPERTIES
  LoadsSettle
  MutexReleased
