SPECIFICATION Spec
CONSTANTS
  PWMCAP_NCHANNELS = 2
  COUNTER = 7
  TIMEOUT = 5
  PERIOD = 3
  Widths = {1, 2}
  LOSSY = {0}
  COLLIDE = TRUE
INVARIANT WidthIsTrue
