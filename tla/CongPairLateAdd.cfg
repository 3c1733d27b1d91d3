CONSTANTS
  Elem <- MCElem
  Mult <- MCMult
  GenSeq <- MCGenSeq
  Type = "twosided"
  MaxAddPairs = 2
  MaxTimeouts = 0
  TimeoutWindow = {"loop", "mult"}
  LateAddPair = TRUE

SPECIFICATION FairSpec

INVARIANT NrClassesCorrect



CHECK_DEADLOCK FALSE
