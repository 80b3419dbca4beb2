SPECIFICATION Spec
CONSTANTS
  r1 = r1
  r2 = r2
  None = None
  Standard = {"unrestricted"}
  Runs = {r1, r2}
  Slots <- TwoOfThree
  CacheTTL = 1
  RadiusTTL = 2
  MaxOps = 1
  MaxFaults = 1
  MaxAccounts = 2
INVARIANTS TypeOK CopiedBeforeDropped
PROPERTIES EditsSurvive  
CHECK_DEADLOCK FALSE
