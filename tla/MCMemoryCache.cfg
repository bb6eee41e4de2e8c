CONSTANTS
  Idle = Idle
  Keys = {k1, k2, k3}
  Sizes <- Buffers
  MaxSize = 4
  MaxOps = 6
SPECIFICATION Spec
SYMMETRY KeySymmetry
INVARIANT AccountsKept
PROPERTIES BudgetKept EvictionFair
CHECK_DEADLOCK FALSE
