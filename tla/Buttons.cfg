SPECIFICATION FairSpec
CONSTANTS
  MOTOR_COUNT = 1
  BTN_QUEUE_SIZE = 4
  BURST = 3
INVARIANTS
  TypeOK
  RunsOnlyIfClosed
  ButtonInv
PROPERTIES
  ImplementsQueue
  EmergencyStops
