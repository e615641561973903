CONSTANTS
  b1 = b1  b2 = b2  b3 = b3  hello = hello  wifi = wifi  releng = releng  stable = stable
  None = None
  Builders = {b1, b2}  Crates = {hello}  Jobs <- BothMachines
  Trees = {releng}  MaxVersion = 2
  Features = {"none", "some"}  Names <- ObjectNames  Members <- MemberNames
  Overlap = FALSE  Moving = {releng}  ClearFails = FALSE
SPECIFICATION Spec
CHECK_DEADLOCK FALSE
INVARIANTS HeadersAreCurrent
