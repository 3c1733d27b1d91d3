CONSTANTS
  Elem <- MCElem
  Mult <- MCMult
  GenSeq <- MCGenSeq
  Type = "twosided"
  MaxAddPairs = 2
  MaxTimeouts = 1
  SharedKB = TRUE

SPECIFICATION Spec

INVARIANT ParentNotFromInterruptedKB

CHECK_DEADLOCK FALSE
