CONSTANTS
  r1 = r1  r2 = r2  hello = hello  wifi = wifi  target = target  cwd = cwd  scratch = scratch
  None = None
  Runs = {r1, r2}  Jobs <- TwoModules
  Overlap = FALSE  RemoveFails = TRUE
SYMMETRY Symmetry
SPECIFICATION Spec
CHECK_DEADLOCK FALSE
INVARIANTS TypeOK PassTestedOwnModule
PROPERTIES FreshDisks VmFilesStay FailureNamesOwnLog EachRunKeepsContract
