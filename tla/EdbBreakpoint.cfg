SPECIFICATION Spec
CONSTANTS
  LastAddr = 4
  Program <- MCProgram
  BpMax = 2
  MaxVm = 2
  Forgets = TRUE
INVARIANTS
  TypeOK
  MemoryIsProgramOrBreak
  BreakpointsDistinct
  EnabledAreArmed
