SPECIFICATION Spec
CONSTANTS
  None = None
  Failed = Failed
  Raw = Raw
  Own = Own
  Other = Other
  MaxWrites = 1
  MaxFaults = 0
  Touched <- MCTouched
INVARIANTS StateIsShown
CHECK_DEADLOCK FALSE
