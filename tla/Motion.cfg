SPECIFICATION MotionFairSpec
CONSTANTS
  MOTOR_COUNT = 1
  LIMIT_QUEUE_SIZE = 2
  SEM_VALUE_MAX = 2
  REACH_UP = TRUE
  Tasks = {t1}
  ORDERLY_RESTART = TRUE
  MAX_DRIFTS = 0
  FAULTS = FALSE
  FEEDBACK = {0}
INVARIANTS
  MotionTypeOK
  OneCommander
  FlagsFollowSwitches
PROPERTY PushEnds
