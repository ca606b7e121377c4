SPECIFICATION Spec
CONSTANTS
  Keys = {k1, k2}
  MaxSize = 1
  MaxSec = 1
  Hold = 2
  KeyErrors = TRUE
  None = None
  MaxDepth = 2
INVARIANT NoFault
INVARIANT CachedIsQueued
SYMMETRY Permutation
