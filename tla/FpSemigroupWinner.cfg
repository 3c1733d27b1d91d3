CONSTANTS
  Ctors <- MCCtors
  MaxRules = 3
  LateAddRule = FALSE

SPECIFICATION Spec

INVARIANT WinnerAnswers
INVARIANT NrRulesAgrees

CHECK_DEADLOCK FALSE
