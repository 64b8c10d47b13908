SPECIFICATION Spec
CONSTANTS
  NATURAL = 4
  Updates <- MCUpdates
  Addresses <- MCAddresses
  Foreign = 4000
  StackPool = 896
  STACK_POOL_SIZE = 256
  Top = 1080
  Lowest = 1024
  ForeignSize = 8
  Unwritten = {2}
  Apart = TRUE
INVARIANTS
  TypeOK
  SizeBelowLimit
  LayoutOfSlots
PROPERTIES
  ImplementsSlots
