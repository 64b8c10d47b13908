SPECIFICATION Spec
CONSTANTS
  Program <- MCNative
  Entries = {1, 4}
  CallStackMax = 1
  TraceMax = 1
  MaxVm = 2
  MaxDepth = 2
  Breaks = {}
  GoTils = {}
  Uses = {"native"}
INVARIANTS
  TraceTypeAgrees
