CONSTANTS
  Capacity = 5
  BlockSizes = {2, 4}
  CallbackSizes = {1, 3}
  Chunks = {0, 3}
  ChunkYields = {1, 3}
  Rate = 2
  MaxGain = 3
  Asked <- AskedVolumes
  Wrap = 2
SPECIFICATION FairSpec
INVARIANT LiveInputSound
PROPERTIES TrimSound VolumeReaches
