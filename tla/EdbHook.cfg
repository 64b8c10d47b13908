SPECIFICATION Spec
CONSTANTS
  Program <- MCLoop
  Entries = {1}
  CallStackMax = 2
  TraceMax = 2
  MaxVm = 1
  MaxDepth = 3
  Breaks = {"BOC", "BOK"}
  GoTils = {6}
  Uses = {}
INVARIANTS
  TraceTypeAgrees
  TraceIsPath
  StepStopsWhereAsked
  StepNotMissed
  KeyBreaksWhileOn
