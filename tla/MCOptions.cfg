\* All pairs of options, with every kind of program, chart and path.
CONSTANTS
  Character <- MCCharacter
  CommandLines <- MCCommandLines
  Names <- MCNames
SPECIFICATION ParseSpec
INVARIANTS
  StaysInVector
  FormatMatchesName
  KeepsPlace
CHECK_DEADLOCK FALSE
