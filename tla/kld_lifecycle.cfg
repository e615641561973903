CONSTANTS
  Built <- InsideBucket  Running <- Kernels  MaxEvents = 5
SPECIFICATION Spec
CHECK_DEADLOCK FALSE
INVARIANTS TypeOK LinkedOnlyBySameBucket LoadsInSameBucket NoSilentLoad HandlerProtocol
