CONSTANTS
  Healthy = FALSE  Generous <- NoDeadline  Wrapper = FALSE
  Utf8Only = TRUE  LossyLog = FALSE  ReadFails = FALSE
SPECIFICATION FairSpec
CHECK_DEADLOCK FALSE
INVARIANTS TypeOK PassSound PassNoPanic NoVmLeft CommandsInOrder OnlyEchoSwallowed
PROPERTIES ImplementsContract Terminates
