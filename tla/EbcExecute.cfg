SPECIFICATION Spec
CONSTANTS
  BYTE = 2
  NATURAL = 4
  Programs <- MCPrograms
  Starts <- MCStarts
  EntryPoint = 2
  StackPool = 128
  StackPoolSize = 96
  StackTop = 140
  StackRetAddr = 196
  StackMagic = 220
  Height = 28
INVARIANTS
  TypeOK
  StackIntactWhileRunning
  StoreThenLoad
  DivisionLaw
  ComparisonLaw
  IndexesAgree
  TextInField
PROPERTIES
  ReturnRestores
  TrackerFollowsR0
  RefusedLeavesNoTrace
  ListedIsExecuted
  EveryProgramEnds
CHECK_DEADLOCK FALSE
