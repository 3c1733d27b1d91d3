CONSTANTS
  Elem <- MCElem
  Mult <- MCMult
  GenSeq <- MCGenSeq
  Type = "twosided"
  MaxAddPairs = 2
  MaxTimeouts = 1
  TimeoutWindow = {"idle", "loop", "mult"}
  LateAddPair = FALSE

SPECIFICATION FairSpec

INVARIANT TypeOK
INVARIANT LookupSizeAgrees
INVARIANT ClassIndexCorrect
INVARIANT NrClassesCorrect
INVARIANT NonTrivialClassesCorrect

PROPERTY RunTerminates
PROPERTY Refines

CHECK_DEADLOCK FALSE
