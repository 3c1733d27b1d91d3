CONSTANTS
  Elem <- MCElem
  Mult <- MCMult
  GenSeq <- MCGenSeq
  Type = "left"
  MaxAddPairs = 2
  MaxTimeouts = 1
  TimeoutWindow = {"loop", "mult"}
  LateAddPair = FALSE

SPECIFICATION FairSpec

INVARIANT ClassIndexCorrect



CHECK_DEADLOCK FALSE
