SPECIFICATION Spec
CONSTANTS
  NATURAL = 4
  Updates <- MCBlocks
  Addresses = {}
  Foreign = 4000
  StackPool = 896
  STACK_POOL_SIZE = 256
  Top = 1080
  Lowest = 944
  ForeignSize = 0
  Unwritten = {2}
  Apart = TRUE
INVARIANTS
  HeightTracked
