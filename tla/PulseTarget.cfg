SPECIFICATION Spec
CONSTANTS
  Axes = {0, 1}
  Narrow = {1}
  TOP = 3
  WIDE_TOP = 9
  MoveSizes = {1, 2, 4, 5}
  Periods = {2, 6}
  MAX_COMMANDS = 2
PROPERTY StopsAtTarget
