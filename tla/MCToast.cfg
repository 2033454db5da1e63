SPECIFICATION Spec
CONSTANTS
  Wrap = 32
  ToastMs = 4
PROPERTY ToastStaysUp
CHECK_DEADLOCK FALSE
