SPECIFICATION Spec
CONSTANTS
  Keys = {k1, k2, k3}
  MaxSize = 2
  MaxSec = 0
  Hold = 2
  KeyErrors = FALSE
  None = None
  MaxDepth = 1
INVARIANT RefcountIsExact
INVARIANT SizeBound
PROPERTY ImplementsLru
PROPERTY HeldIsLatest
