\* Every short word as an id.
SPECIFICATION Spec
CONSTANTS
  Value <- MCValue
  Databases = 2
  MaxLength = 5
INVARIANTS
  PicksMachineId
  KeyRoutesAsItem
\* The functions return.
CHECK_DEADLOCK FALSE
