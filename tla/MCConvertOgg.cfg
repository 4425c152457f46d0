\* The output lies on the .ogg of a key sound that the chart names .wav.
CONSTANTS
  MIXERSIZE = 3
  WORD_MAX_COUNT = 3
  MSAMPLE_MIN <- MCSampleMin
  MSAMPLE_MAX = 2
  MaxTick = 10
  Sounds <- MCSounds
  Unset <- MCUnset
  FREQUENCY = 2
  TimeUnit = 3
  Charts <- MCCharts
  Disks <- MCDisks
  Broken = Broken
  BmsPath <- MCBmsPath
  Outputs <- MCOggOutputs
  Rates <- MCRates
  Leftover <- MCLeftover
  PitchedSample <- MCPitchedSample
SPECIFICATION Spec
PROPERTY ReadSoundsSurvive
CHECK_DEADLOCK FALSE
