CONSTANTS
  Elem <- MCElem
  Mult <- MCMult
  GenSeq <- MCGenSeq
  Alphabet <- MCAlphabet
  Strings <- MCStrings
  Words <- MCWords
  MaxAddPairs = 2
  LateAddPair = FALSE

SPECIFICATION FairSpec


PROPERTY KilledRunStops

CHECK_DEADLOCK FALSE
