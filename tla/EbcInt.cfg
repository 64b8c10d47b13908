SPECIFICATION Spec
CONSTANTS
  Images = {h1, h2}
  NullHandle = NullHandle
  ThunkHandle = ThunkHandle
  Thunks = {t1, t2, t3}
  MaxStackNum = 3
  MaxVm = 4
  MaxDepth = 2
  Uses = {"callex", "exit", "failure"}
SYMMETRY MCSymmetry
CHECK_DEADLOCK FALSE
INVARIANTS
  TypeOK
  ContextsOwnStacks
  ListedOnce
  NoStackLost
  NoThunkLost
  PeriodicContext
PROPERTIES
  ImplementsPool
