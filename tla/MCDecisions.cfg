CONSTANTS
  Numeral <- MCNumeral
  MaxGain = 4
  FadeAllMs = 1000
  Macros <- MCMacros
  Bodies <- MCBodies
  MacroBodies <- MCMacroBodies
  MacroUses <- MCMacroUses
  Samples <- MCSamples
  InputVoices <- MCInputVoices
  Configs <- MCConfigs
  CommandLines <- MCCommandLines
  Links <- MCLinks
  Existing <- MCExisting
  Home <- MCHome
  Paths <- MCPaths
  AllowedDirs <- MCAllowedDirs
  DeviceNumeral <- MCDeviceNumeral
  Cards <- MCCards
  MaxRate = 384000
  MaxInputChannels = 64
  MaxOutputChannels = 32
  Requests <- MCRequests
  Listings <- MCListings
  Formats <- MCFormats
  Wanted <- MCWanted
  Routings <- MCRoutings
  DefaultFormat <- MCDefaultFormat
  Frames = 8
  Widths = {2, 3, 6}
  MixParts <- MCMixParts
  BassSetups <- MCBassSetups
  Maps <- MCMaps
  Aliases <- MCAliases
  FileRates <- MCFileRates
  Files <- MCFiles
  Chunk = 4
  DrainLimit = 64
SPECIFICATION DecisionSpec
INVARIANTS CommandsUnderstood StartsAsConfigured DevicesServe MixAccounted DecodedInTime
CHECK_DEADLOCK FALSE
