CONSTANTS
  narration = narration
  dialog = dialog
  music = music
  Voices <- SomeVoices
  Rules <- SomeRules
  Full = 2
  DefaultRestore = 1
  CallbackFrames = 1
  InputVoices <- TwoMicrophones
  SampleVoices <- PlayedVoices
  Hold = 2
  MaxLag = 1
SPECIFICATION MicFairSpec
INVARIANT DuckingSound
PROPERTIES RestartedByRulesOnly LevelsSettle SpeechDucks HoldRespected
