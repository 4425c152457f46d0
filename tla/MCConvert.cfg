\* Charts of up to three bars, four disks, an output beside the key sounds
\* and one on top of them.
CONSTANTS
  MIXERSIZE = 3
  WORD_MAX_COUNT = 3
  MSAMPLE_MIN <- MCSampleMin
  MSAMPLE_MAX = 2
  MaxTick = 10
  Sounds <- MCSounds
  Unset <- MCUnset
  FREQUENCY = 2
  TimeUnit = 3
  Charts <- MCCharts
  Disks <- MCDisks
  Broken = Broken
  BmsPath <- MCBmsPath
  Outputs <- MCOutputs
  Rates <- MCRates
  Leftover <- MCLeftover
  PitchedSample <- MCPitchedSample
SPECIFICATION Spec
INVARIANTS
  RendersChart
PROPERTIES
  ObeysMixer
  NamedSoundsSurvive
  Terminates
CHECK_DEADLOCK FALSE
