CONSTANTS
  Healthy = TRUE  Generous <- EveryDeadline  Wrapper = TRUE
  Utf8Only = FALSE  LossyLog = TRUE  ReadFails = TRUE
SPECIFICATION FairGuestSpec
CHECK_DEADLOCK FALSE
PROPERTIES HealthyPasses
