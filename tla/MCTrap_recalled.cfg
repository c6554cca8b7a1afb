SPECIFICATION Spec
CONSTANTS
  NSIG = 3
  Console = {1, 2}
  Threads = {1, 2}
  NoSuch = 0
INVARIANT HintIsValid
CHECK_DEADLOCK FALSE
