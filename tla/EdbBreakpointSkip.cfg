SPECIFICATION Spec
CONSTANTS
  LastAddr = 3
  Program <- MCProgram3
  BpMax = 1
  MaxVm = 1
  Forgets = TRUE
PROPERTIES
  NoInstructionSkipped
