-------------------------- MODULE WrappedPairProofs --------------------------
(***************************************************************************)
(* Proofs about the fpsemigroup::P facade of WrappedPair: whatever the     *)
(* caller does, the facade and the wrapped congruence stay well typed.     *)
(* The lemmas of CongPairProofs are used through an instance with the      *)
(* substitution WrappedPair gives CongPair; the lemmas below restate them  *)
(* in the names of WrappedPair's own instance Cong.                        *)
(***************************************************************************)
EXTENDS WrappedPair, TLAPS

CP == INSTANCE CongPairProofs WITH Type <- "twosided", MaxTimeouts <- 0,
                                   TimeoutWindow <- {}

\* CongPair's type invariant, in the names of the two instances.
LEMMA TypeInvNames ==
  /\ Cong!TypeInv <=> CP!TypeInv
  /\ Cong!TypeInv' <=> CP!TypeInv'
BY DEF CP!TypeInv, Cong!TypeInv, CP!TypeOK, Cong!TypeOK, CP!UFBelow,
  Cong!UFBelow, CP!NormBounds, Cong!NormBounds, CP!Pair, Cong!Pair,
  CP!UNDEFINED, Cong!UNDEFINED, CP!Phases, Cong!Phases, CP!Sides, Cong!Sides

\* The constructor's state is well typed.  The parent and the bounds of
\* the wrapped P satisfy CongPair's assumptions (InputAssumption states
\* them for the facade).
LEMMA CongInitTypeInv == Cong!Init => Cong!TypeInv
<1>1. CP!Init => CP!TypeInv
  BY CP!InitTypeInv, InputAssumption
  DEF CP!IsFiniteSet, IsFiniteSet, CP!Phases
<1>2. Cong!Init <=> CP!Init
  BY DEF CP!Init, Cong!Init, CP!Pair, Cong!Pair, CP!UNDEFINED, Cong!UNDEFINED
<1>3. QED
  BY <1>1, <1>2, TypeInvNames

\* The steps of the wrapped P, in the names of the two instances.
LEMMA NextNames ==
  [Cong!Next]_Cong!vars <=> [CP!Next]_CP!vars
<1>1. ASSUME NEW x, NEW y PROVE Cong!AddPair(x, y) <=> CP!AddPair(x, y)
  BY Zenon DEF CP!AddPair, Cong!AddPair, CP!InternalAddPair, Cong!InternalAddPair,
    CP!GetIndex, Cong!GetIndex, CP!AddIndex, Cong!AddIndex, CP!Store,
    Cong!Store, CP!IndexOf, Cong!IndexOf, CP!UFUnite, Cong!UFUnite,
    CP!UFAddEntry, Cong!UFAddEntry, CP!LesserOf, Cong!LesserOf,
    CP!GreaterOf, Cong!GreaterOf, CP!Range, Cong!Range
<1>2. ASSUME NEW x PROVE Cong!WordToClassIndex(x) <=> CP!WordToClassIndex(x)
  BY DEF CP!WordToClassIndex, Cong!WordToClassIndex, CP!GetIndex,
    Cong!GetIndex, CP!AddIndex, Cong!AddIndex, CP!Store, Cong!Store,
    CP!UFAddEntry, Cong!UFAddEntry, CP!Range, Cong!Range
<1>3. Cong!RunStart <=> CP!RunStart
  BY DEF CP!RunStart, Cong!RunStart
<1>4. Cong!LoopIter <=> CP!LoopIter
  BY DEF CP!LoopIter, Cong!LoopIter
<1>5. Cong!MultStep <=> CP!MultStep
  BY DEF CP!MultStep, Cong!MultStep, CP!Multiple, Cong!Multiple, CP!Sides,
    Cong!Sides, CP!InternalAddPair, Cong!InternalAddPair, CP!GetIndex,
    Cong!GetIndex, CP!AddIndex, Cong!AddIndex, CP!Store, Cong!Store,
    CP!IndexOf, Cong!IndexOf, CP!UFUnite, Cong!UFUnite, CP!UFAddEntry,
    Cong!UFAddEntry, CP!LesserOf, Cong!LesserOf, CP!GreaterOf,
    Cong!GreaterOf, CP!Range, Cong!Range
<1>6. Cong!LoopExit <=> CP!LoopExit
  BY DEF CP!LoopExit, Cong!LoopExit
<1>7. Cong!NormStep <=> CP!NormStep
  BY DEF CP!NormStep, Cong!NormStep
<1>8. Cong!NormDone <=> CP!NormDone
  BY DEF CP!NormDone, Cong!NormDone
<1>9. Cong!Finish <=> CP!Finish
  BY DEF CP!Finish, Cong!Finish, CP!UNDEFINED, Cong!UNDEFINED
<1>10. Cong!Kill <=> CP!Kill
  BY DEF CP!Kill, Cong!Kill
<1>11. Cong!Timeout <=> CP!Timeout
  BY DEF CP!Timeout, Cong!Timeout
<1>12. QED
  BY <1>1, <1>2, <1>3, <1>4, <1>5, <1>6, <1>7, <1>8, <1>9, <1>10, <1>11
  DEF CP!Next, Cong!Next, CP!RunStep, Cong!RunStep, CP!vars, Cong!vars

\* Every step of the wrapped P, or a stutter of it, keeps its type.
LEMMA CongNextTypeInv ==
  Cong!TypeInv /\ [Cong!Next]_Cong!vars => Cong!TypeInv'
<1>1. CP!TypeInv /\ [CP!Next]_CP!vars => CP!TypeInv'
  BY CP!NextTypeInv, InputAssumption
  DEF CP!IsFiniteSet, IsFiniteSet, CP!Phases
<1>2. [Cong!Next]_Cong!vars <=> [CP!Next]_CP!vars
  BY NextNames
<1>3. QED
  BY <1>1, <1>2, TypeInvNames

\* equal_to of two different words interns both elements one after the
\* other, as two calls of get_index: the wrapped P stays well typed.
LEMMA DifferentWordsTypeInv ==
  ASSUME Cong!TypeInv, NEW l, NEW r, Eval(l) \in Elem, Eval(r) \in Elem,
         DifferentWords(l, r), pc = "idle"
  PROVE  Cong!TypeInv'
<1> DEFINE s1 == CP!GetIndex(CP!Store, Eval(l))
           s2 == CP!GetIndex(s1, Eval(r))
<1>1. CP!TypeInv
  BY TypeInvNames
<1>2. CP!StoreOK(CP!Store) /\ finished \in BOOLEAN
  BY <1>1, CP!StoreTypes, InputAssumption
  DEF CP!IsFiniteSet, IsFiniteSet, CP!Phases, CP!TypeInv, CP!TypeOK
<1>3. CP!StoreOK(s1)
  BY <1>2, CP!GetIndexOK, InputAssumption
  DEF CP!IsFiniteSet, IsFiniteSet, CP!Phases
<1>4. CP!StoreOK(s2)
  BY <1>2, <1>3, CP!GetIndexOK, InputAssumption
  DEF CP!IsFiniteSet, IsFiniteSet, CP!Phases
<1>5. rm' = s2.rm /\ uf' = s2.uf /\ cl' = s2.cl /\ nextClass' = s2.nc
  BY DEF DifferentWords, CP!GetIndex, Cong!GetIndex, CP!AddIndex, Cong!AddIndex,
    CP!UFAddEntry, Cong!UFAddEntry, CP!Range, Cong!Range, CP!Store,
    Cong!Store
<1>6. CP!StoreOK(CP!Store')
  BY <1>4, <1>5 DEF CP!StoreOK, CP!Store
<1>7. /\ rm' \in Seq(Elem) /\ uf' \in [1..Len(rm') -> 1..Len(rm')]
      /\ CP!UFBelow' /\ cl' \in Seq(Nat) /\ nextClass' \in Nat
  BY <1>6, CP!StoreTypes, InputAssumption
  DEF CP!IsFiniteSet, IsFiniteSet, CP!Phases
<1>8. UNCHANGED <<found, queue, nrNTClasses, nrNTElems, finished, dead,
                 timedOut, pc, cur, gi, si, ni, normMax, pairs, adds,
                 timeouts>>
  BY DEF DifferentWords
<1>9. pc' = "idle"
  BY <1>8
<1>10. CP!NormBounds'
  BY <1>9 DEF CP!NormBounds
<1>11. CP!TypeOK'
  BY <1>1, <1>7, <1>8 DEF CP!TypeInv, CP!TypeOK
<1>12. CP!TypeInv'
  BY <1>7, <1>10, <1>11 DEF CP!TypeInv
<1>13. QED
  BY <1>12, TypeInvNames

\* string_to_word of a valid string is a word of letter indices.
LEMMA StringToWordType ==
  ASSUME NEW s \in Strings, ValidString(s)
  PROVE  StringToWord(s) \in Seq(Nat)
<1>1. s \in Seq(STRING)
  BY InputAssumption
<1>2. \A k \in 1..Len(s) :
        (CHOOSE i \in DOMAIN Alphabet : Alphabet[i] = s[k])
          \in 1..Len(Alphabet)
  BY <1>1, InputAssumption DEF ValidString
<1>3. \A k \in 1..Len(s) :
        (CHOOSE i \in DOMAIN Alphabet : Alphabet[i] = s[k]) - 1 \in Nat
  BY <1>2, InputAssumption
<1>4. QED
  BY <1>1, <1>3 DEF StringToWord

\* The inductive invariant: the wrapped P's type invariant and the types
\* of the facade's own members.
WInv ==
  /\ Cong!TypeInv
  /\ nrRules \in Nat
  /\ rules \in Seq(Seq(Nat) \X Seq(Nat))
  /\ fin \in BOOLEAN
  /\ wdead \in BOOLEAN

LEMMA InitWInv == Init => WInv
<1> SUFFICES ASSUME Init PROVE WInv
  OBVIOUS
<1>1. Cong!TypeInv
  BY CongInitTypeInv DEF Init
<1>4. nrRules = 0 /\ rules = <<>> /\ fin = FALSE /\ wdead = FALSE
  BY DEF Init
<1>5. rules \in Seq(Seq(Nat) \X Seq(Nat)) /\ nrRules \in Nat
  BY <1>4
<1>6. QED
  BY <1>1, <1>4, <1>5, Zenon DEF WInv

\* A step that leaves the wrapped P alone, or is one of its steps, keeps
\* its type.
LEMMA CongKeeps ==
  ASSUME Cong!TypeInv, Cong!Next \/ UNCHANGED congVars
  PROVE  Cong!TypeInv'
<1>1. [Cong!Next]_Cong!vars
  BY DEF congVars, Cong!vars
<1>2. QED
  BY <1>1, CongNextTypeInv

\* Each step of the facade keeps WInv, when every input the facade may
\* convert names an element of S.
LEMMA NextWInv ==
  ASSUME InputsEvaluate
  PROVE  WInv /\ [Next]_vars => WInv'
<1> SUFFICES ASSUME WInv, [Next]_vars PROVE WInv'
  OBVIOUS
<1>0. Cong!TypeInv
  BY DEF WInv
<1>2. ASSUME NEW l \in Strings, NEW r \in Strings, AddRuleString(l, r)
      PROVE  WInv'
  <2>1. ValidString(l) /\ ValidString(r)
    BY <1>2 DEF AddRuleString
  <2>2. Eval(StringToWord(l)) \in Elem /\ Eval(StringToWord(r)) \in Elem
    BY <2>1 DEF InputsEvaluate
  <2>3. StringToWord(l) \in Seq(Nat) /\ StringToWord(r) \in Seq(Nat)
    BY <2>1, StringToWordType
  <2>4. nrRules' \in Nat
    BY <1>2 DEF AddRuleString, WInv
  <2>5. UNCHANGED <<fin, wdead>>
    BY <1>2 DEF AddRuleString
  <2>6. Cong!TypeInv'
    BY <1>0, <1>2, <2>2, CongKeeps DEF AddRuleString, Cong!Next
  <2>7. rules' \in Seq(Seq(Nat) \X Seq(Nat))
    BY <1>2, <2>3 DEF AddRuleString, WInv
  <2>8. QED
    BY <2>4, <2>5, <2>6, <2>7 DEF WInv
<1>3. ASSUME NEW l \in Words, NEW r \in Words, AddRuleWord(l, r)
      PROVE  WInv'
  <2>1. Eval(l) \in Elem /\ Eval(r) \in Elem
    BY <1>3 DEF AddRuleWord, ValidWord, InputsEvaluate
  <2>2. Cong!TypeInv'
    BY <1>0, <1>3, <2>1, CongKeeps DEF AddRuleWord, Cong!Next
  <2>3. rules' \in Seq(Seq(Nat) \X Seq(Nat))
    BY <1>3, InputAssumption DEF AddRuleWord, WInv
  <2>4. QED
    BY <1>3, <2>2, <2>3 DEF AddRuleWord, WInv
<1>4. CASE Run
  BY <1>0, <1>4, CongKeeps DEF Run, Cong!Next, WInv, facadeVars
<1>5. CASE CongStep
  BY <1>0, <1>5, CongKeeps DEF CongStep, Cong!Next, WInv, facadeVars
<1>6. CASE Finished
  <2>1. finished \in BOOLEAN
    BY <1>0 DEF Cong!TypeInv, Cong!TypeOK
  <2>2. Cong!TypeInv'
    BY <1>0, <1>6, CongKeeps DEF Finished, congVars
  <2>3. QED
    BY <1>6, <2>1, <2>2 DEF Finished, WInv
<1>7. CASE Size
  <2>1. Cong!TypeInv'
    BY <1>0, <1>7, CongKeeps DEF Size, congVars
  <2>2. QED
    BY <1>7, <2>1 DEF Size, WInv
<1>8. ASSUME NEW l \in Words \ {<<>>}, NEW r \in Words \ {<<>>},
             ValidWord(l), ValidWord(r), EqualTo(l, r)
      PROVE  WInv'
  <2>1. Eval(l) \in Elem /\ Eval(r) \in Elem
    BY <1>8 DEF ValidWord, InputsEvaluate
  <2>2. pc = "idle" /\ (EqualWords(l, r) \/ DifferentWords(l, r))
    BY <1>8 DEF EqualTo
  <2>3. Cong!TypeInv'
    <3>1. CASE EqualWords(l, r)
      BY <1>0, <3>1, CongKeeps DEF EqualWords
    <3>2. CASE DifferentWords(l, r)
      BY <1>0, <2>1, <2>2, <3>2, DifferentWordsTypeInv
    <3>3. QED
      BY <2>2, <3>1, <3>2
  <2>4. QED
    BY <1>8, <2>3 DEF EqualTo, WInv
<1>9. ASSUME NEW w \in Words \ {<<>>}, ValidWord(w), NormalForm(w)
      PROVE  WInv'
  <2>1. Eval(w) \in Elem
    BY <1>9 DEF ValidWord, InputsEvaluate
  <2>2. Cong!TypeInv'
    BY <1>0, <1>9, <2>1, CongKeeps DEF NormalForm, Cong!Next
  <2>3. QED
    BY <1>9, <2>2 DEF NormalForm, WInv, facadeVars
<1>10. CASE Kill
  <2>1. Cong!TypeInv'
    BY <1>0, <1>10, CongKeeps DEF Kill, congVars
  <2>2. QED
    BY <1>10, <2>1 DEF Kill, WInv
<1>11. CASE UNCHANGED vars
  <2>1. Cong!TypeInv'
    BY <1>0, <1>11, CongKeeps DEF vars
  <2>2. QED
    BY <1>11, <2>1 DEF vars, facadeVars, WInv
<1>12. QED
  BY <1>2, <1>3, <1>4, <1>5, <1>6, <1>7, <1>8, <1>9, <1>10, <1>11
  DEF Next

\* Whatever the caller does with add_rule, run, kill and the queries, the facade and
\* the wrapped P stay well typed, for every parent, alphabet and input
\* whose words word_to_element can evaluate.
THEOREM WrappedTypeCorrect ==
  ASSUME InputsEvaluate
  PROVE  Spec => []TypeOK
<1>1. WInv => TypeOK
  BY DEF WInv, TypeOK, Cong!TypeInv
<1>2. QED
  BY <1>1, InitWInv, NextWInv, PTL DEF Spec
=============================================================================
