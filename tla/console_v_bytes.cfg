CONSTANTS
  Healthy = FALSE  Generous <- EveryDeadline  Wrapper = FALSE
  Utf8Only = FALSE  LossyLog = FALSE  ReadFails = FALSE
SPECIFICATION Spec
CHECK_DEADLOCK FALSE
INVARIANTS PassNoPanic
