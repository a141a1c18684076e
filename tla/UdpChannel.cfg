CONSTANTS
  MaxConnTime = 2
  MaxBindTries = 2
  MaxLen = 2
SPECIFICATION Spec
INVARIANTS
  TypeOK
  NoFdLeak
  FrameIoContract
PROPERTIES
  CallsReturn
CHECK_DEADLOCK FALSE
