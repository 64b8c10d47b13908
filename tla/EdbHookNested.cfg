SPECIFICATION Spec
CONSTANTS
  Program <- MCNative
  Entries = {1}
  CallStackMax = 2
  TraceMax = 2
  MaxVm = 2
  MaxDepth = 2
  Breaks = {}
  GoTils = {}
  Uses = {"native", "thunk", "fault"}
INVARIANTS
  TypeOK
  CallStackIsNewest
