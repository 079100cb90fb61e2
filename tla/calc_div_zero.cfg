\* Keys and clicks on a freshly opened calculator, both build outcomes of an overflow.
CONSTANTS
  WIDTH = 6
  INPUT_MAX = 1
  COPY_MAX = 2
  DISPLAY_MAX = 31
  Keys <- MCKeys
  MouseXs <- MCMouseXs
  MouseYs <- MCMouseYs
  ERR_DIV0 = ERR_DIV0
  NOOP = NOOP
  PANIC = PANIC
SPECIFICATION Spec
CHECK_DEADLOCK FALSE
PROPERTY
  DivZeroReported
