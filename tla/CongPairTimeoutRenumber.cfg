CONSTANTS
  Elem <- MCElem
  Mult <- MCMult
  GenSeq <- MCGenSeq
  Type = "twosided"
  MaxAddPairs = 1
  MaxTimeouts = 1
  TimeoutWindow = {"loop", "mult", "norm"}
  LateAddPair = FALSE

SPECIFICATION FairSpec

INVARIANT LookupSizeAgrees



CHECK_DEADLOCK FALSE
