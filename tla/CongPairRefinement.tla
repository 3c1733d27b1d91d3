------------------------- MODULE CongPairRefinement -------------------------
(***************************************************************************)
(* How far P implements the congruence interface CongSpec, proved for     *)
(* every parent semigroup, congruence type and bound: the initial state    *)
(* maps to CongSpec's, every step but the one that completes run() maps to *)
(* a step of CongSpec or to a stutter, and the completing step hands out   *)
(* the class numbers 0 .. n - 1.  That those numbers agree with the        *)
(* congruence the pairs generate is checked by TLC (Refines).              *)
(***************************************************************************)
EXTENDS CongPairProofs, FiniteSetTheorems, TLAPS

\* A sequence holds each of its values once.
NoRepeats(q) == \A i, j \in 1..Len(q) : q[i] = q[j] => i = j

\* Interning keeps _reverse_map free of repeats: get_index appends e only
\* when _map does not hold it.
LEMMA GetIndexNoRepeats ==
  ASSUME NEW s, StoreOK(s), NEW e \in Elem, finished \in BOOLEAN,
         NoRepeats(s.rm)
  PROVE  NoRepeats(GetIndex(s, e).rm)
<1>1. CASE e \in Range(s.rm)
  BY <1>1 DEF GetIndex
<1>2. CASE e \notin Range(s.rm)
  <2> DEFINE q == Append(s.rm, e)
  <2>1. GetIndex(s, e).rm = q
    BY <1>2 DEF GetIndex, AddIndex
  <2>2. /\ s.rm \in Seq(Elem) /\ Len(q) = Len(s.rm) + 1
        /\ \A k \in 1..Len(s.rm) : q[k] = s.rm[k]
        /\ q[Len(s.rm) + 1] = e
    BY AppendProperties DEF StoreOK
  <2>3. \A k \in 1..Len(s.rm) : q[k] # e
    BY <1>2, <2>2 DEF Range
  <2>4. NoRepeats(q)
    <3> SUFFICES ASSUME NEW i \in 1..Len(q), NEW j \in 1..Len(q), q[i] = q[j]
                 PROVE  i = j
      BY DEF NoRepeats
    <3>1. CASE i \in 1..Len(s.rm) /\ j \in 1..Len(s.rm)
      BY <2>2, <3>1 DEF NoRepeats
    <3>2. CASE i = Len(s.rm) + 1 /\ j \in 1..Len(s.rm)
      BY <2>2, <2>3, <3>2
    <3>3. CASE i \in 1..Len(s.rm) /\ j = Len(s.rm) + 1
      BY <2>2, <2>3, <3>3
    <3>4. QED
      BY <2>2, <3>1, <3>2, <3>3
  <2>5. QED
    BY <2>1, <2>4
<1>3. QED
  BY <1>1, <1>2

\* So does internal_add_pair, which interns both elements of the pair.
LEMMA InternalAddPairNoRepeats ==
  ASSUME StoreOK(Store), finished \in BOOLEAN, NEW x \in Elem,
         NEW y \in Elem, InternalAddPair(x, y), NoRepeats(rm)
  PROVE  NoRepeats(rm')
<1> DEFINE s1 == GetIndex(Store, x)
           s2 == GetIndex(s1, y)
<1>1. StoreOK(s1) /\ NoRepeats(s1.rm)
  BY GetIndexOK, GetIndexNoRepeats DEF Store
<1>2. NoRepeats(s2.rm)
  BY <1>1, GetIndexNoRepeats
<1>3. rm' = rm \/ rm' = s2.rm
  BY DEF InternalAddPair
<1>4. QED
  BY <1>2, <1>3

\* No step of P interns an element twice.
LEMMA NextRmInjective ==
  ASSUME TypeInv, RmInjective, [Next]_vars
  PROVE  RmInjective'
<1>0. StoreOK(Store) /\ finished \in BOOLEAN /\ NoRepeats(rm)
  BY StoreTypes DEF TypeInv, TypeOK, RmInjective, NoRepeats
<1> SUFFICES NoRepeats(rm')
  BY DEF RmInjective, NoRepeats
<1>1. ASSUME NEW x \in Elem, NEW y \in Elem, AddPair(x, y) PROVE NoRepeats(rm')
  BY <1>0, <1>1, InternalAddPairNoRepeats DEF AddPair
<1>2. ASSUME NEW x \in Elem, WordToClassIndex(x) PROVE NoRepeats(rm')
  <2>1. NoRepeats(GetIndex(Store, x).rm)
    BY <1>0, GetIndexNoRepeats DEF Store
  <2>2. QED
    BY <1>2, <2>1 DEF WordToClassIndex
<1>3. CASE MultStep
  <2> DEFINE m == Multiple(cur, GenSeq[gi], Sides[si])
  <2>1. GenSeq[gi] \in Elem /\ Sides[si] \in {"left", "right"}
    BY ParentAssumption DEF TypeInv, TypeOK, Sides
  <2>2. m[1] \in Elem /\ m[2] \in Elem
    BY <2>1, ParentAssumption DEF Multiple, TypeInv, TypeOK, Pair
  <2>3. QED
    BY <1>0, <1>3, <2>2, InternalAddPairNoRepeats DEF MultStep
<1>4. CASE UNCHANGED rm
  BY <1>0, <1>4
<1>5. QED
  BY <1>1, <1>2, <1>3, <1>4
  DEF Next, RunStep, RunStart, LoopIter, LoopExit, NormStep, NormDone,
      Finish, Kill, Timeout, vars

-----------------------------------------------------------------------------
(* What the abstract state is, seen through ImplIndex                      *)

\* Until P is finished, word_to_class_index numbers no element.
LEMMA UnfinishedIndex ==
  ASSUME ~finished
  PROVE  ImplIndex = [x \in Elem |-> Abs!NoIndex]
BY DEF ImplIndex, UNDEFINED, Abs!NoIndex

\* Once P is finished, the numbered elements are the interned ones and
\* the numbers handed out are 0 .. _next_class - 1.
LEMMA FinishedIndex ==
  ASSUME NumberingIInv, RmInjective, finished
  PROVE  /\ Abs!Numbered = Interned
         /\ Abs!UsedIndices = 0..(nextClass - 1)
         /\ ImplIndex \in [Elem -> Nat \cup {Abs!NoIndex}]
<1>0. /\ rm \in Seq(Elem) /\ cl \in Seq(Nat) /\ Len(cl) = Len(rm)
      /\ nextClass \in Nat
  BY DEF NumberingIInv, SizeIInv, SizeInv, TypeInv, TypeOK
<1>1. \A k \in 1..Len(rm) : IndexOf(rm, rm[k]) = k
  <2> SUFFICES ASSUME NEW k \in 1..Len(rm) PROVE IndexOf(rm, rm[k]) = k
    OBVIOUS
  <2>1. rm[k] \in Range(rm)
    BY <1>0 DEF Range
  <2>2. IndexOf(rm, rm[k]) \in 1..Len(rm) /\ rm[IndexOf(rm, rm[k])] = rm[k]
    BY <1>0, <2>1, IndexOfOK
  <2>3. QED
    BY <2>2 DEF RmInjective
<1>2. \A x \in Interned : /\ IndexOf(rm, x) \in 1..Len(rm)
                         /\ ImplIndex[x] = cl[IndexOf(rm, x)]
                         /\ ImplIndex[x] \in Nat
  <2> SUFFICES ASSUME NEW x \in Interned
               PROVE  /\ IndexOf(rm, x) \in 1..Len(rm)
                      /\ ImplIndex[x] = cl[IndexOf(rm, x)]
                      /\ ImplIndex[x] \in Nat
    OBVIOUS
  <2>1. IndexOf(rm, x) \in 1..Len(rm) /\ x \in Elem
    BY <1>0, IndexOfOK DEF Interned, Range
  <2>2. IndexOf(rm, x) \in DOMAIN cl
    BY <1>0, <2>1
  <2>3. QED
    BY <1>0, <2>1, <2>2 DEF ImplIndex, ClassIndex
<1>3. \A x \in Elem \ Interned : ImplIndex[x] = Abs!NoIndex
  BY DEF ImplIndex, UNDEFINED, Abs!NoIndex
<1>4. Interned \subseteq Elem
  BY <1>0 DEF Interned, Range
<1>5. Abs!Numbered = Interned
  BY <1>2, <1>3, <1>4 DEF Abs!Numbered, Abs!NoIndex
<1>6. Abs!UsedIndices = {cl[k] : k \in 1..Len(cl)}
  <2>1. Abs!UsedIndices = {ImplIndex[x] : x \in Interned}
    BY <1>5 DEF Abs!UsedIndices
  <2>2. \A x \in Interned : \E k \in 1..Len(cl) : ImplIndex[x] = cl[k]
    BY <1>0, <1>2
  <2>3. \A k \in 1..Len(cl) : \E x \in Interned : ImplIndex[x] = cl[k]
    <3> SUFFICES ASSUME NEW k \in 1..Len(cl)
                 PROVE  \E x \in Interned : ImplIndex[x] = cl[k]
      OBVIOUS
    <3>1. rm[k] \in Interned
      BY <1>0 DEF Interned, Range
    <3>2. ImplIndex[rm[k]] = cl[k]
      BY <1>0, <1>1, <1>2, <3>1
    <3>3. QED
      BY <3>1, <3>2
  <2>4. QED
    BY <2>1, <2>2, <2>3
<1>7. ImplIndex \in [Elem -> Nat \cup {Abs!NoIndex}]
  <2>1. ImplIndex = [x \in Elem |-> ImplIndex[x]]
    BY DEF ImplIndex
  <2>2. \A x \in Elem : ImplIndex[x] \in Nat \cup {Abs!NoIndex}
    BY <1>2, <1>3
  <2>3. QED
    BY <2>1, <2>2
<1>8. QED
  BY <1>5, <1>6, <1>7 DEF NumberingIInv, DenseClasses

\* There are n class numbers 0 .. n - 1.
LEMMA IntervalSize ==
  ASSUME NEW n \in Nat
  PROVE  Cardinality(0..(n - 1)) = n
BY FS_Interval

-----------------------------------------------------------------------------
(* The steps                                                                *)

\* The inductive invariant of the refinement.
RefIInv == NumberingIInv /\ RmInjective

\* The step of run() that sets finished: CongSpec's Run, without the two
\* conjuncts of ConsistentNumbering that relate the numbers to the
\* congruence the pairs generate.
RunNumbers ==
  /\ ~finished
  /\ finished'
  /\ UNCHANGED pairs
  /\ ImplIndex' \in [Elem -> Nat \cup {Abs!NoIndex}]
  /\ Abs!UsedIndices' = 0..(Cardinality(Abs!UsedIndices') - 1)

\* A query of an element P has not seen, once P is finished, is CongSpec's
\* Query: the element gets the next unused class number.
LEMMA QueryRefines ==
  ASSUME RefIInv, RefIInv', NEW x \in Elem, WordToClassIndex(x),
         x \notin Range(rm)
  PROVE  Abs!Query(x)
<1>0. /\ rm \in Seq(Elem) /\ cl \in Seq(Nat) /\ Len(cl) = Len(rm)
      /\ nextClass \in Nat /\ finished /\ finished'
  BY DEF WordToClassIndex, RefIInv, NumberingIInv, SizeIInv, SizeInv,
     TypeInv, TypeOK
<1>1. /\ rm' = Append(rm, x) /\ cl' = Append(cl, nextClass)
      /\ UNCHANGED <<pairs, finished>>
  BY DEF WordToClassIndex, GetIndex, AddIndex, Store
<1>2. ImplIndex[x] = Abs!NoIndex
  BY DEF ImplIndex, Interned, UNDEFINED, Abs!NoIndex
<1>3. Cardinality(Abs!UsedIndices) = nextClass
  BY <1>0, FinishedIndex, IntervalSize DEF RefIInv
<1>4. ImplIndex'[x] = nextClass
  <2>1. /\ Len(rm') = Len(rm) + 1 /\ rm'[Len(rm) + 1] = x
        /\ \A k \in 1..Len(rm) : rm'[k] = rm[k]
        /\ Len(cl') = Len(cl) + 1 /\ cl'[Len(cl) + 1] = nextClass
    BY <1>0, <1>1, AppendProperties
  <2>2. \A k \in DOMAIN rm' : rm'[k] = x <=> k = Len(rm) + 1
    BY <1>0, <1>1, <2>1, AppendProperties DEF Range
  <2>3. IndexOf(rm', x) = Len(rm) + 1
    BY <2>1, <2>2, <1>0 DEF IndexOf
  <2>4. x \in Range(rm') /\ Len(rm) + 1 \in DOMAIN cl'
    BY <1>0, <1>1, <2>1, AppendProperties DEF Range
  <2>5. QED
    BY <1>0, <2>1, <2>3, <2>4 DEF ImplIndex, ClassIndex, Interned
<1>5. \A y \in Elem \ {x} : ImplIndex'[y] = ImplIndex[y]
  <2> SUFFICES ASSUME NEW y \in Elem \ {x} PROVE ImplIndex'[y] = ImplIndex[y]
    OBVIOUS
  <2>1. CASE y \in Interned
    BY <2>1, StepIndexStable, <1>0
    DEF RefIInv, NumberingIInv, Next
  <2>2. CASE y \notin Interned
    <3>1. y \notin Range(rm')
      BY <1>0, <1>1, <2>2, AppendProperties DEF Interned, Range
    <3>2. QED
      BY <2>2, <3>1 DEF ImplIndex, Interned
  <2>3. QED
    BY <2>1, <2>2
<1>6. ImplIndex' = [ImplIndex EXCEPT ![x] = Cardinality(Abs!UsedIndices)]
  BY <1>3, <1>4, <1>5 DEF ImplIndex
<1>7. QED
  BY <1>0, <1>1, <1>2, <1>6 DEF Abs!Query, Abs!Cardinality, Cardinality

\* What FinishedIndex says, as a state predicate.
FinishedShape ==
  finished => /\ ImplIndex \in [Elem -> Nat \cup {Abs!NoIndex}]
              /\ Abs!UsedIndices = 0..(nextClass - 1)
              /\ nextClass \in Nat

LEMMA ShapeHolds == RefIInv => FinishedShape
BY FinishedIndex DEF RefIInv, FinishedShape, NumberingIInv, SizeIInv,
   TypeInv, TypeOK

\* Each step of P, when the caller adds no pair once P is finished, is a
\* step of CongSpec, a stutter of it, or the step that completes run().
LEMMA StepRefines ==
  ASSUME ~LateAddPair, RefIInv, RefIInv', FinishedShape', [Next]_vars
  PROVE  [Abs!Next]_Abs!vars \/ RunNumbers
<1>0. finished \in BOOLEAN /\ finished' \in BOOLEAN
  BY DEF RefIInv, NumberingIInv, SizeIInv, TypeInv, TypeOK
<1>a. ASSUME UNCHANGED <<pairs, finished, rm, cl>>
      PROVE  UNCHANGED Abs!vars
  <2>1. ImplIndex' = ImplIndex
    BY <1>a DEF ImplIndex, Interned, ClassIndex
  <2>2. QED
    BY <1>a, <2>1 DEF Abs!vars
<1>b. ASSUME ~finished, ~finished', UNCHANGED pairs
      PROVE  UNCHANGED Abs!vars
  <2>1. ImplIndex' = [x \in Elem |-> UNDEFINED] /\ ImplIndex = ImplIndex'
    BY <1>b DEF ImplIndex
  <2>2. QED
    BY <1>0, <1>b, <2>1 DEF Abs!vars
<1>n. pc \in {"loop", "mult", "norm", "check"} => ~finished
  BY DEF RefIInv, NumberingIInv, SizeIInv, SizeInv
<1>1. ASSUME NEW x \in Elem, NEW y \in Elem, AddPair(x, y)
      PROVE  [Abs!Next]_Abs!vars \/ RunNumbers
  <2>1. ~finished /\ ~finished' /\ pairs' = pairs \cup {<<x, y>>}
    BY <1>1 DEF AddPair
  <2>2. finished' = finished
    BY <1>0, <2>1
  <2>3. UNCHANGED ImplIndex
    BY <2>1 DEF ImplIndex
  <2>4. Abs!AddPair(x, y)
    BY <2>1, <2>2, <2>3 DEF Abs!AddPair
  <2>5. QED
    BY <2>4 DEF Abs!Next
<1>2. ASSUME NEW x \in Elem, WordToClassIndex(x)
      PROVE  [Abs!Next]_Abs!vars \/ RunNumbers
  <2>1. CASE x \in Range(rm)
    <3>1. UNCHANGED <<pairs, finished, rm, cl>>
      BY <1>2, <2>1 DEF WordToClassIndex, GetIndex, Store
    <3>2. QED
      BY <1>a, <3>1
  <2>2. CASE x \notin Range(rm)
    BY <1>2, <2>2, QueryRefines DEF Abs!Next
  <2>3. QED
    BY <2>1, <2>2
<1>3. CASE RunStart \/ Kill \/ Timeout \/ UNCHANGED vars
  <2>1. UNCHANGED <<pairs, finished, rm, cl>>
    BY <1>3 DEF RunStart, Kill, Timeout, vars
  <2>2. QED
    BY <1>a, <2>1
<1>4. CASE LoopIter \/ MultStep \/ LoopExit \/ NormStep \/ NormDone
  <2>1. ~finished
    BY <1>4, <1>n DEF LoopIter, MultStep, LoopExit, NormStep, NormDone
  <2>2. UNCHANGED <<pairs, finished>>
    BY <1>4 DEF LoopIter, MultStep, LoopExit, NormStep, NormDone
  <2>3. QED
    BY <1>b, <2>1, <2>2
<1>5. CASE Finish
  <2>1. ~finished /\ UNCHANGED pairs
    BY <1>5, <1>n DEF Finish
  <2>2. CASE ~dead /\ ~timedOut
    <3>1. finished'
      BY <1>5, <2>2 DEF Finish
    <3>2. /\ ImplIndex' \in [Elem -> Nat \cup {Abs!NoIndex}]
          /\ Abs!UsedIndices' = 0..(nextClass' - 1)
          /\ nextClass' \in Nat
      BY <3>1 DEF FinishedShape
    <3>3. Cardinality(Abs!UsedIndices') = nextClass'
      BY <3>2, IntervalSize
    <3>4. QED
      BY <2>1, <3>1, <3>2, <3>3 DEF RunNumbers
  <2>3. CASE dead \/ timedOut
    <3>1. ~finished'
      BY <1>5, <2>1, <2>3 DEF Finish
    <3>2. QED
      BY <1>b, <2>1, <3>1
  <2>4. QED
    BY <2>2, <2>3
<1>6. QED
  BY <1>1, <1>2, <1>3, <1>4, <1>5 DEF Next, RunStep

\* P implements CongSpec but for the congruence: when the caller adds no
\* pair once P is finished and no deadline expires after the pair loop,
\* P starts in CongSpec's initial state, and each step is a step of
\* CongSpec (add_pair, or word_to_class_index numbering an element it has
\* not seen), a stutter of it, or the step of run() that completes, which
\* numbers the classes 0 .. n - 1.  Refines, checked by pair_twosided,
\* adds that those numbers agree with the congruence the pairs generate.
THEOREM RefinesExceptCongruence ==
  ASSUME ~LateAddPair, TimeoutWindow \subseteq {"idle", "loop", "mult"}
  PROVE  Spec => Abs!Init /\ [][[Abs!Next]_Abs!vars \/ RunNumbers]_vars
<1>1. Init => Abs!Init
  <2> SUFFICES ASSUME Init PROVE Abs!Init
    OBVIOUS
  <2>1. ~finished /\ pairs = {}
    BY DEF Init
  <2>2. ImplIndex = [x \in Elem |-> Abs!NoIndex]
    BY <2>1, UnfinishedIndex
  <2>3. QED
    BY <2>1, <2>2 DEF Abs!Init
<1>2. Init => RefIInv
  <2> SUFFICES ASSUME Init PROVE RefIInv
    OBVIOUS
  <2>1. RmInjective
    BY DEF Init, RmInjective
  <2>2. QED
    BY <2>1, InitNumbering DEF RefIInv
<1>3. RefIInv /\ [Next]_vars => RefIInv'
  BY NextNumbering, NextRmInjective
  DEF RefIInv, NumberingIInv, SizeIInv
<1>4. Spec => []RefIInv
  BY <1>2, <1>3, PTL DEF Spec
<1>5. Spec => []FinishedShape
  BY <1>4, ShapeHolds, PTL
<1>6. RefIInv /\ RefIInv' /\ FinishedShape' /\ [Next]_vars
        => [Abs!Next]_Abs!vars \/ RunNumbers
  BY StepRefines
<1>7. QED
  BY <1>1, <1>4, <1>5, <1>6, PTL DEF Spec
=============================================================================
