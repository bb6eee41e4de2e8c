CONSTANTS
  NoLength = NoLength
  MaxBody = 4
  MaxRead = 3
  Offsets <- SeekOffsets
SPECIFICATION FairSpec
INVARIANT ReaderSound
PROPERTIES RefinesByteStream CallsReturn
CHECK_DEADLOCK FALSE
