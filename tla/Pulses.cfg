SPECIFICATION FairSpec
CONSTANTS
  Axes = {0, 1}
  Narrow = {1}
  TOP = 3
  WIDE_TOP = 9
  MoveSizes = {1, 2, 5, 6}
  Periods = {2, 6}
  MAX_COMMANDS = 2
INVARIANTS
  TypeOK
  NeverOvershoots
  CountInv
PROPERTIES
  EndsInFull
  MoveEnds
