CONSTANTS
  Elem <- MCElem
  Mult <- MCMult
  GenSeq <- MCGenSeq
  Type = "twosided"
  MaxAddPairs = 1
  MaxTimeouts = 1
  SharedKB = TRUE

SPECIFICATION Spec

INVARIANT ParentFromFinishedKB

CHECK_DEADLOCK FALSE
