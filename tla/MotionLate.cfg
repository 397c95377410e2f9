SPECIFICATION MotionSpec
CONSTANTS
  MOTOR_COUNT = 1
  LIMIT_QUEUE_SIZE = 4
  SEM_VALUE_MAX = 8
  REACH_UP = FALSE
  Tasks = {t1}
  ORDERLY_RESTART = TRUE
  MAX_DRIFTS = 0
  FAULTS = FALSE
  FEEDBACK = {0}
INVARIANT StopCutsMotion
