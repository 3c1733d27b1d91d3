CONSTANTS
  Ctors <- MCCtors
  MaxRules = 3
  LateAddRule = TRUE

SPECIFICATION Spec

INVARIANT NrRulesAgrees

CHECK_DEADLOCK FALSE
