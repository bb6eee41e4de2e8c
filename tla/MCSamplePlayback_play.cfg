CONSTANTS
  Unit = 2
  Lengths = {1, 3}
  Crossfades = {0, 1}
  Estimates <- SomeEstimates
  Targets = {0, 2, 4}
  Speeds <- SomeSpeeds
  FadeFrames = {0, 3}
  CallbackFrames = 2
  MaxPosition = 12
  MaxCommands = 2
SPECIFICATION FairSpec
INVARIANTS PlaybackSound
PROPERTIES NeverCutShort LoopKeepsTime SoundsEnd
CHECK_DEADLOCK FALSE
