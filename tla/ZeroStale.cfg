SPECIFICATION Spec
CONSTANTS
  HALF_TURN = 2
  MOTOR_POS_PULSE = 4
  MARGIN_PULSES = 3
  ANGLE_MAX_PULSES = 8
  PWM_MIN = 1
  PWM_MAX = 2
  FREQ_MIN = 1
  FREQ_MAX = 5
  DEADBAND = 1
  FULL_SPEED = 3
  SLOPE = 1
  MOTOR_POS_COUNT = 2
  MOTOR_UPDATE_QUEUE_SIZE = 4
  SEM_VALUE_MAX = 4
  MAX_TICK = 14
  ANSWER_TIME = 1
  RESPOND_TIMEOUT = 40
  MAX_MISSES = 1
  HOMED = {0}
  Places = {1, 6}
  SILENT_HOMING = TRUE
  OVERLOAD = FALSE
  LAST_EVENT = 2
  HOMING_ZERO_CAPTURE_DELAY = 6
  HOMING_ZERO_FRESH_MAX_AGE = 8
  HOMING_ZERO_FRESH_RETRY = 2
  HOMING_ZERO_FRESH_RETRY_COUNT = 5
INVARIANT ZeroIsCurrent
