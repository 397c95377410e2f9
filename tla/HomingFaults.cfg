SPECIFICATION Spec
CONSTANTS
  MOTOR_COUNT = 2
  LIMIT_QUEUE_SIZE = 2
  SEM_VALUE_MAX = 2
  REACH_UP = FALSE
  Tasks = {t1}
  ORDERLY_RESTART = TRUE
  MAX_DRIFTS = 1
  FAULTS = TRUE
  FEEDBACK = {0, 1}
INVARIANTS
  ReadyIsHomed
  ReadyHasZero
  LateCommandIsSingle
  HomingInv
  LateInv
  ZeroInv
PROPERTY ImplementsModes
