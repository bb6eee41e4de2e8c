SPECIFICATION Spec
CONSTANTS
  l1 = l1
  l2 = l2
  Loads <- TwoLoads
  Inodes = {1, 2, 3, 4, 5}
  Chunks = 2
  MaxVersion = 2
  EndsAfter = {3}
  Faults = {"network", "decode", "disk", "crash"}
  Commands = {"clear", "invalidate"}
SYMMETRY Slots
CONSTRAINTS Alone
INVARIANTS
  FilesSound
  CachesInStep
PROPERTIES
  RefinesPublishedFile
