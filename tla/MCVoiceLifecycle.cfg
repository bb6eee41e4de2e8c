SPECIFICATION FairSpec
CONSTANTS
  p1 = p1
  p2 = p2
  va = va
  vb = vb
  quiet = quiet
  unit = unit
  Plays <- TwoPlays
  StreamingPlays = {p2}
  Voices = {va, vb}
  VoiceChoices <- OneOrTwoVoices
  Volumes = {unit, quiet}
  UnitVolume = unit
  MaxStops = 1
CHECK_DEADLOCK FALSE
INVARIANTS
  Bookkeeping
  VolumeInForce
  DuckInForce
  NothingLeftBehind
PROPERTIES
  LateLoadsDiscarded
  PlaysRunTheirCourse
