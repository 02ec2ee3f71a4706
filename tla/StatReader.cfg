SPECIFICATION Spec
CONSTANTS
  MaxCount = 2
  Reloads = {FALSE, TRUE}
INVARIANTS
  ReasonableRate
