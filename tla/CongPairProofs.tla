--------------------------- MODULE CongPairProofs ---------------------------
(***************************************************************************)
(* Proofs about the pair-closure congruence of CongPair, for every parent  *)
(* semigroup, congruence type and bound.                                   *)
(***************************************************************************)
EXTENDS CongPair, SequenceTheorems, TLAPS

\* The part of the state that interning touches is well formed: the
\* union-find has one link per interned element, each to a root no larger
\* than the element's own index.
StoreOK(s) ==
  /\ s.rm \in Seq(Elem)
  /\ s.uf \in Seq(Nat)
  /\ Len(s.uf) = Len(s.rm)
  /\ \A k \in 1..Len(s.uf) : s.uf[k] \in 1..k
  /\ s.cl \in Seq(Nat)
  /\ s.nc \in Nat

\* What interning an element (get_index) guarantees: the store stays well
\* formed, the element is interned afterwards, and the elements interned
\* before keep their indices.
LEMMA GetIndexOK ==
  ASSUME NEW s, StoreOK(s), NEW e \in Elem, finished \in BOOLEAN
  PROVE  LET t == GetIndex(s, e) IN
         /\ StoreOK(t)
         /\ e \in Range(t.rm)
         /\ Len(t.rm) \in {Len(s.rm), Len(s.rm) + 1}
         /\ \A k \in 1..Len(s.rm) : t.rm[k] = s.rm[k]
         /\ (e \in Range(s.rm)) => t = s
<1> DEFINE t == GetIndex(s, e)
<1>1. CASE e \in Range(s.rm)
  BY <1>1 DEF GetIndex
<1>2. CASE e \notin Range(s.rm)
  <2>1. t = AddIndex(s, e)
    BY <1>2 DEF GetIndex
  <2>2. /\ t.rm = Append(s.rm, e)
        /\ t.uf = Append(s.uf, Len(s.uf) + 1)
        /\ t.cl = IF finished THEN Append(s.cl, s.nc) ELSE s.cl
        /\ t.nc = IF finished THEN s.nc + 1 ELSE s.nc
    BY <2>1 DEF AddIndex, UFAddEntry
  <2>3. StoreOK(t)
    <3>1. t.rm \in Seq(Elem) /\ Len(t.rm) = Len(s.rm) + 1
      BY <2>2, AppendProperties DEF StoreOK
    <3>2. /\ t.uf \in Seq(Nat)
          /\ Len(t.uf) = Len(s.uf) + 1
          /\ \A k \in 1..Len(s.uf) : t.uf[k] = s.uf[k]
          /\ t.uf[Len(s.uf) + 1] = Len(s.uf) + 1
      BY <2>2, AppendProperties DEF StoreOK
    <3>3. \A k \in 1..Len(t.uf) : t.uf[k] \in 1..k
      <4>1. TAKE k \in 1..Len(t.uf)
      <4>2. Len(s.uf) \in Nat /\ \A m \in 1..Len(s.uf) : s.uf[m] \in 1..m
        BY DEF StoreOK
      <4>3. CASE k \in 1..Len(s.uf)
        BY <3>2, <4>2, <4>3
      <4>4. CASE k = Len(s.uf) + 1
        BY <3>2, <4>2, <4>4
      <4>5. QED
        BY <3>2, <4>2, <4>3, <4>4
    <3>4. t.cl \in Seq(Nat) /\ t.nc \in Nat
      BY <2>2, AppendProperties DEF StoreOK
    <3>5. QED
      BY <3>1, <3>2, <3>3, <3>4 DEF StoreOK
  <2>4. e \in Range(t.rm)
    BY <2>2 DEF StoreOK, Range
  <2>5. QED
    BY <1>2, <2>2, <2>3, <2>4 DEF StoreOK
<1>3. QED
  BY <1>1, <1>2

\* The index _map gives an interned element is a position holding it.
LEMMA IndexOfOK ==
  ASSUME NEW S, NEW s \in Seq(S), NEW e \in Range(s)
  PROVE  /\ IndexOf(s, e) \in 1..Len(s)
         /\ s[IndexOf(s, e)] = e
BY DEF IndexOf, Range

\* UF::unite keeps every link pointing to a root no larger than itself.
LEMMA UFUniteOK ==
  ASSUME NEW u \in Seq(Nat), \A k \in 1..Len(u) : u[k] \in 1..k,
         NEW i \in 1..Len(u), NEW j \in 1..Len(u)
  PROVE  /\ UFUnite(u, i, j) \in Seq(Nat)
         /\ Len(UFUnite(u, i, j)) = Len(u)
         /\ \A k \in 1..Len(u) : UFUnite(u, i, j)[k] \in 1..k
<1> DEFINE lo == LesserOf(u[i], u[j])
           hi == GreaterOf(u[i], u[j])
           v  == [k \in 1..Len(u) |-> IF u[k] = hi THEN lo ELSE u[k]]
<1>1. UFUnite(u, i, j) = v
  BY DEF UFUnite
<1>2. lo \in 1..hi
  BY DEF LesserOf, GreaterOf
<1>3. \A k \in 1..Len(u) : v[k] \in 1..k
  BY <1>2
<1>4. QED
  BY <1>1, <1>3

\* The elements of a sequence that a step appends to keep their places, so
\* what was interned stays interned.
LEMMA GetIndexKeeps ==
  ASSUME NEW s, StoreOK(s), NEW e \in Elem, NEW d \in Range(s.rm),
         finished \in BOOLEAN
  PROVE  d \in Range(GetIndex(s, e).rm)
<1>1. PICK k \in 1..Len(s.rm) : s.rm[k] = d
  BY DEF StoreOK, Range
<1>2. GetIndex(s, e).rm[k] = d /\ GetIndex(s, e).rm \in Seq(Elem)
      /\ Len(GetIndex(s, e).rm) >= Len(s.rm)
  BY <1>1, GetIndexOK DEF StoreOK
<1>3. QED
  BY <1>1, <1>2 DEF Range

\* P::internal_add_pair keeps the store, the found pairs and the queue well
\* formed.
LEMMA InternalAddPairOK ==
  ASSUME StoreOK(Store), found \subseteq Pair, queue \in Seq(Pair),
         finished \in BOOLEAN, NEW x \in Elem, NEW y \in Elem,
         InternalAddPair(x, y)
  PROVE  /\ StoreOK(Store')
         /\ found' \subseteq Pair
         /\ queue' \in Seq(Pair)
<1> DEFINE s1   == GetIndex(Store, x)
           s2   == GetIndex(s1, y)
           i    == IndexOf(s2.rm, x)
           j    == IndexOf(s2.rm, y)
           new  == Len(s2.rm) > Len(rm)
           pair == IF i < j THEN <<x, y>> ELSE <<y, x>>
<1>1. StoreOK(s1) /\ x \in Range(s1.rm)
  BY GetIndexOK
<1>2. StoreOK(s2) /\ y \in Range(s2.rm) /\ x \in Range(s2.rm)
  BY <1>1, GetIndexOK, GetIndexKeeps
<1>3. i \in 1..Len(s2.rm) /\ j \in 1..Len(s2.rm)
  BY <1>2, IndexOfOK DEF StoreOK
<1>4. CASE x = y \/ (~new /\ pair \in found)
  <2>1. UNCHANGED <<rm, uf, cl, nextClass, found, queue>>
    BY <1>4 DEF InternalAddPair
  <2>2. QED
    BY <2>1 DEF Store
<1>5. CASE ~(x = y \/ (~new /\ pair \in found))
  <2>1. /\ rm' = s2.rm
        /\ uf' = UFUnite(s2.uf, i, j)
        /\ cl' = s2.cl
        /\ nextClass' = s2.nc
        /\ found' = found \cup {pair}
        /\ queue' = Append(queue, pair)
    BY <1>5 DEF InternalAddPair
  <2>2. /\ UFUnite(s2.uf, i, j) \in Seq(Nat)
        /\ Len(UFUnite(s2.uf, i, j)) = Len(s2.uf)
        /\ \A k \in 1..Len(s2.uf) : UFUnite(s2.uf, i, j)[k] \in 1..k
    BY <1>2, <1>3, UFUniteOK DEF StoreOK
  <2>3. StoreOK(Store')
    BY <1>2, <2>1, <2>2 DEF StoreOK, Store
  <2>4. pair \in Pair
    BY DEF Pair
  <2>5. QED
    BY <2>1, <2>3, <2>4, AppendProperties
<1>6. QED
  BY <1>4, <1>5

\* A function on 1..n is a sequence of length n.
LEMMA FunIsSeq ==
  ASSUME NEW n \in Nat, NEW S, NEW f \in [1..n -> S]
  PROVE  f \in Seq(S) /\ Len(f) = n
<1>1. f \in Seq(S)
  BY SeqDef
<1>2. DOMAIN f = 1..Len(f) /\ Len(f) \in Nat
  BY <1>1, LenProperties
<1>3. QED
  BY <1>1, <1>2

\* The type invariant, stated over a store, and back.
LEMMA StoreOKIsType ==
  ASSUME NEW r, NEW u, NEW c, NEW n
  PROVE  StoreOK([rm |-> r, uf |-> u, cl |-> c, nc |-> n])
           <=> /\ r \in Seq(Elem)
               /\ u \in [1..Len(r) -> 1..Len(r)]
               /\ \A k \in 1..Len(r) : u[k] <= k
               /\ c \in Seq(Nat)
               /\ n \in Nat
<1> DEFINE t == [rm |-> r, uf |-> u, cl |-> c, nc |-> n]
<1>1. ASSUME StoreOK(t)
      PROVE  /\ r \in Seq(Elem)
             /\ u \in [1..Len(r) -> 1..Len(r)]
             /\ \A k \in 1..Len(r) : u[k] <= k
             /\ c \in Seq(Nat)
             /\ n \in Nat
  <2>1. /\ r \in Seq(Elem) /\ u \in Seq(Nat) /\ Len(u) = Len(r)
        /\ c \in Seq(Nat) /\ n \in Nat
        /\ \A k \in 1..Len(u) : u[k] \in 1..k
    BY <1>1 DEF StoreOK
  <2>2. Len(r) \in Nat
    BY <2>1
  <2>3. u \in [1..Len(r) -> 1..Len(r)]
    BY <2>1, <2>2
  <2>4. \A k \in 1..Len(r) : u[k] <= k
    BY <2>1
  <2>5. QED
    BY <2>1, <2>3, <2>4
<1>2. ASSUME r \in Seq(Elem), u \in [1..Len(r) -> 1..Len(r)],
             \A k \in 1..Len(r) : u[k] <= k, c \in Seq(Nat), n \in Nat
      PROVE  StoreOK(t)
  <2>1. Len(r) \in Nat
    BY <1>2
  <2>2. u \in Seq(Nat) /\ Len(u) = Len(r)
    BY <1>2, <2>1
  <2>3. \A k \in 1..Len(u) : u[k] \in 1..k
    BY <1>2, <2>1, <2>2
  <2>4. QED
    BY <1>2, <2>2, <2>3 DEF StoreOK
<1>3. QED
  BY <1>1, <1>2

\* The store of the current and of the next state, in those terms.
LEMMA StoreTypes ==
  /\ StoreOK(Store) <=> /\ rm \in Seq(Elem)
                        /\ uf \in [1..Len(rm) -> 1..Len(rm)]
                        /\ UFBelow
                        /\ cl \in Seq(Nat)
                        /\ nextClass \in Nat
  /\ StoreOK(Store') <=> /\ rm' \in Seq(Elem)
                         /\ uf' \in [1..Len(rm') -> 1..Len(rm')]
                         /\ UFBelow'
                         /\ cl' \in Seq(Nat)
                         /\ nextClass' \in Nat
BY StoreOKIsType DEF Store, UFBelow

-----------------------------------------------------------------------------
(* The type invariant                                                       *)

LEMMA InitTypeInv == Init => TypeInv
<1> SUFFICES ASSUME Init PROVE TypeInv
  OBVIOUS
<1>1. GenSeq[1] \in Elem /\ Len(Sides) \in Nat \ {0}
  BY ParentAssumption DEF Sides
<1>2. (CHOOSE p \in Pair : TRUE) \in Pair
  <2>1. <<GenSeq[1], GenSeq[1]>> \in Pair
    BY <1>1 DEF Pair
  <2>2. QED
    BY <2>1
<1>3. uf \in [1..Len(rm) -> 1..Len(rm)]
  <2>1. rm = <<>> /\ uf = <<>>
    BY DEF Init
  <2>2. QED
    BY <2>1
<1>4. gi \in 1..Len(GenSeq) /\ si \in 1..Len(Sides)
  BY <1>1, ParentAssumption DEF Init
<1>5. nrNTClasses \in Nat \cup {UNDEFINED} /\ nrNTElems \in Nat \cup {UNDEFINED}
  BY DEF Init
<1>6. adds \in 0..MaxAddPairs /\ timeouts \in 0..MaxTimeouts
  BY BoundsAssumption DEF Init
<1>7. rm \in Seq(Elem) /\ queue \in Seq(Pair) /\ cl \in Seq(Nat)
  BY DEF Init
<1>8. cur \in Pair
  BY <1>2 DEF Init
<1>9. /\ found \subseteq Pair /\ pairs \subseteq Pair
      /\ nextClass \in Nat /\ normMax \in Nat /\ ni \in Nat \ {0}
      /\ finished \in BOOLEAN /\ dead \in BOOLEAN /\ timedOut \in BOOLEAN
      /\ pc \in Phases
  <2>1. found \subseteq Pair /\ pairs \subseteq Pair
    BY DEF Init
  <2>2. nextClass \in Nat /\ normMax \in Nat /\ ni \in Nat \ {0}
    BY DEF Init
  <2>3. finished \in BOOLEAN /\ dead \in BOOLEAN /\ timedOut \in BOOLEAN
    <3>1. finished = FALSE /\ dead = FALSE /\ timedOut = FALSE
      BY DEF Init
    <3>2. QED
      BY <3>1, Zenon
  <2>4. pc \in Phases
    BY DEF Init, Phases
  <2>5. QED
    BY <2>1, <2>2, <2>3, <2>4
<1>12. TypeOK
  BY <1>3, <1>4, <1>5, <1>6, <1>7, <1>8, <1>9 DEF TypeOK
<1>10. UFBelow /\ NormBounds
  BY DEF Init, UFBelow, NormBounds
<1>11. QED
  BY <1>12, <1>10 DEF TypeInv

\* One step of the renumbering loop appends one class index to
\* _class_lookup: the index it reads back, at the root of ni, is in range.
LEMMA NormStepLookup ==
  ASSUME TypeInv, NormStep
  PROVE  /\ cl' \in Seq(Nat) /\ Len(cl') = Len(cl) + 1
         /\ nextClass' \in Nat /\ normMax' \in Nat
         /\ normMax' + 2 <= ni'
<1> DEFINE nr == uf[ni] - 1
<1>0. /\ uf \in [1..Len(rm) -> 1..Len(rm)] /\ Len(rm) \in Nat
      /\ ni \in Nat \ {0} /\ normMax \in Nat /\ nextClass \in Nat
      /\ cl \in Seq(Nat)
      /\ \A k \in 1..Len(rm) : uf[k] <= k
  BY DEF TypeInv, TypeOK, UFBelow
<1>1. Len(uf) = Len(rm)
  BY <1>0, FunIsSeq
<1>2. pc = "norm" /\ ni <= Len(uf) /\ ni' = ni + 1
  BY DEF NormStep
<1>3. ni \in 1..Len(rm) /\ uf[ni] \in 1..ni /\ nr \in Nat
  BY <1>0, <1>1, <1>2
<1>4. 2 <= ni /\ normMax + 2 <= ni /\ ni <= Len(cl) + 1
  BY <1>1, <1>2, <1>3 DEF TypeInv, NormBounds
<1>5. CASE nr > normMax
  <2>1. /\ cl' = Append(cl, nextClass)
        /\ nextClass' = nextClass + 1
        /\ normMax' = nr
    BY <1>5 DEF NormStep
  <2>2. QED
    BY <1>0, <1>2, <1>3, <2>1, AppendProperties
<1>6. CASE ~(nr > normMax)
  <2>1. /\ cl' = Append(cl, cl[nr + 1])
        /\ UNCHANGED <<nextClass, normMax>>
    BY <1>6 DEF NormStep
  <2>2. nr + 1 \in 1..Len(cl)
    BY <1>0, <1>3, <1>4, <1>6
  <2>3. cl[nr + 1] \in Nat
    BY <1>0, <2>2
  <2>4. QED
    BY <1>0, <1>2, <1>4, <2>1, <2>3, AppendProperties
<1>7. QED
  BY <1>5, <1>6

\* Each action keeps TypeInv.  The renumbering step is the one that needs
\* the strengthening: its read of _class_lookup at the root's index stays
\* in range because roots are no larger than the indices below them.
LEMMA NextTypeInv == TypeInv /\ [Next]_vars => TypeInv'
<1> SUFFICES ASSUME TypeInv, [Next]_vars PROVE TypeInv'
  OBVIOUS
<1>0. /\ StoreOK(Store)
      /\ found \subseteq Pair /\ queue \in Seq(Pair)
      /\ finished \in BOOLEAN
  BY StoreTypes DEF TypeInv, TypeOK
<1>1. ASSUME NEW x \in Elem, NEW y \in Elem, AddPair(x, y)
      PROVE  TypeInv'
  <2>1. InternalAddPair(x, y)
    BY <1>1 DEF AddPair
  <2>2. StoreOK(Store') /\ found' \subseteq Pair /\ queue' \in Seq(Pair)
    BY <1>0, <2>1, InternalAddPairOK
  <2>3. adds' \in 0..MaxAddPairs /\ pairs' \subseteq Pair /\ finished' = FALSE
    BY <1>1, BoundsAssumption DEF AddPair, TypeInv, TypeOK, Pair
  <2>4. UNCHANGED <<nrNTClasses, nrNTElems, dead, timedOut, pc, cur, gi, si,
                   ni, normMax, timeouts>>
    BY <1>1 DEF AddPair
  <2>5. rm' \in Seq(Elem) /\ uf' \in [1..Len(rm') -> 1..Len(rm')]
        /\ cl' \in Seq(Nat) /\ nextClass' \in Nat
    BY <2>2, StoreTypes
  <2>6. TypeOK'
    BY <2>2, <2>3, <2>4, <2>5, Zenon DEF TypeInv, TypeOK
  <2>7. UFBelow'
    BY <2>2, StoreTypes
  <2>8. NormBounds'
    BY <1>1 DEF AddPair, NormBounds
  <2>9. QED
    BY <2>6, <2>7, <2>8 DEF TypeInv
<1>2. ASSUME NEW x \in Elem, WordToClassIndex(x)
      PROVE  TypeInv'
  <2> DEFINE s == GetIndex(Store, x)
  <2>1. StoreOK(s)
    BY <1>0, GetIndexOK
  <2>2. rm' = s.rm /\ uf' = s.uf /\ cl' = s.cl /\ nextClass' = s.nc
    BY <1>2 DEF WordToClassIndex
  <2>3. StoreOK(Store')
    BY <2>1, <2>2 DEF StoreOK, Store
  <2>4. TypeOK'
    BY <1>2, <2>3, StoreTypes DEF WordToClassIndex, TypeInv, TypeOK
  <2>5. UFBelow'
    BY <2>3, StoreTypes
  <2>6. NormBounds'
    BY <1>2 DEF WordToClassIndex, NormBounds
  <2>7. QED
    BY <2>4, <2>5, <2>6 DEF TypeInv
<1>3. CASE RunStart
  BY <1>3 DEF RunStart, TypeInv, TypeOK, UFBelow, NormBounds, Phases
<1>4. CASE LoopIter
  <2>1. Head(queue) \in Pair /\ Tail(queue) \in Seq(Pair)
    BY <1>0, <1>4, HeadTailProperties DEF LoopIter
  <2>2. QED
    BY <1>4, <2>1 DEF LoopIter, TypeInv, TypeOK, UFBelow, NormBounds,
    Phases
<1>5. CASE MultStep
  <2> DEFINE m == Multiple(cur, GenSeq[gi], Sides[si])
  <2>1. GenSeq[gi] \in Elem /\ Sides[si] \in {"left", "right"}
    BY ParentAssumption DEF TypeInv, TypeOK, Sides
  <2>2. m[1] \in Elem /\ m[2] \in Elem
    BY <2>1, ParentAssumption DEF Multiple, TypeInv, TypeOK, Pair
  <2>3. StoreOK(Store') /\ found' \subseteq Pair /\ queue' \in Seq(Pair)
    BY <1>0, <1>5, <2>2, InternalAddPairOK DEF MultStep
  <2>4. gi' \in 1..Len(GenSeq) /\ si' \in 1..Len(Sides) /\ pc' \in Phases
    BY <1>5, ParentAssumption DEF MultStep, TypeInv, TypeOK, Phases
  <2>5. QED
    BY <1>5, <2>3, <2>4, StoreTypes DEF MultStep, TypeInv, TypeOK,
    NormBounds
<1>6. CASE LoopExit
  <2>1. CASE ~dead /\ ~timedOut /\ Len(uf) > 0
    <3>1. cl' = Append(cl, 0) /\ nextClass' = 1 /\ normMax' = 0 /\ ni' = 2
          /\ pc' = "norm"
      BY <1>6, <2>1 DEF LoopExit
    <3>2. cl' \in Seq(Nat) /\ Len(cl') = Len(cl) + 1
      BY <3>1, AppendProperties DEF TypeInv, TypeOK
    <3>3. QED
      BY <1>6, <3>1, <3>2 DEF LoopExit, TypeInv, TypeOK, UFBelow,
      NormBounds, Phases
  <2>5. CASE ~dead /\ ~timedOut /\ ~(Len(uf) > 0)
    BY <1>6, <2>5 DEF LoopExit, TypeInv, TypeOK, UFBelow, NormBounds, Phases
  <2>6. CASE dead \/ timedOut
    BY <1>6, <2>6 DEF LoopExit, TypeInv, TypeOK, UFBelow, NormBounds, Phases
  <2>7. QED
    BY <2>1, <2>5, <2>6
<1>7. CASE NormStep
  <2>0. ni \in Nat \ {0}
    BY DEF TypeInv, TypeOK
  <2>2. ni' = ni + 1
    BY <1>7 DEF NormStep
  <2>4. 2 <= ni' /\ ni <= Len(cl) + 1
    BY <1>7, <2>0, <2>2, FunIsSeq DEF NormStep, TypeInv, TypeOK, NormBounds
  <2>5. /\ cl' \in Seq(Nat) /\ Len(cl') = Len(cl) + 1
        /\ nextClass' \in Nat /\ normMax' \in Nat
        /\ normMax' + 2 <= ni'
    BY <1>7, NormStepLookup
  <2>6. ni' \in Nat \ {0}
    BY <2>0, <2>2
  <2>7. UNCHANGED <<rm, uf, found, queue, nrNTClasses, nrNTElems, finished,
                   dead, timedOut, pc, cur, gi, si, pairs, adds, timeouts>>
    BY <1>7 DEF NormStep
  <2>8. TypeOK'
    BY <2>5, <2>6, <2>7, Zenon DEF TypeInv, TypeOK
  <2>9. UFBelow'
    BY <2>7 DEF TypeInv, UFBelow
  <2>10. NormBounds'
    <3>1. 2 <= ni'
      BY <2>4
    <3>2. ni' <= Len(cl') + 1
      BY <2>0, <2>2, <2>4, <2>5
    <3>3. QED
      BY <2>5, <3>1, <3>2 DEF NormBounds
  <2>11. QED
    BY <2>8, <2>9, <2>10 DEF TypeInv
<1>8. CASE NormDone
  BY <1>8 DEF NormDone, TypeInv, TypeOK, UFBelow, NormBounds, Phases
<1>9. CASE Finish
  <2>1. CASE ~dead /\ ~timedOut
    <3>1. found' = {} /\ queue' = <<>> /\ finished' = TRUE /\ pc' = "idle"
      BY <1>9, <2>1 DEF Finish
    <3>2. queue' \in Seq(Pair)
      BY <3>1
    <3>3. QED
      BY <1>9, <3>1, <3>2 DEF Finish, TypeInv, TypeOK, UFBelow, NormBounds,
      Phases
  <2>5. CASE dead \/ timedOut
    BY <1>9, <2>5 DEF Finish, TypeInv, TypeOK, UFBelow, NormBounds, Phases
  <2>6. QED
    BY <2>1, <2>5
<1>10. CASE Kill
  BY <1>10 DEF Kill, TypeInv, TypeOK, UFBelow, NormBounds
<1>11. CASE Timeout
  BY <1>11, BoundsAssumption DEF Timeout, TypeInv, TypeOK, UFBelow, NormBounds
<1>12. CASE UNCHANGED vars
  BY <1>12 DEF vars, TypeInv, TypeOK, UFBelow, NormBounds
<1>13. QED
  BY <1>1, <1>2, <1>3, <1>4, <1>5, <1>6, <1>7, <1>8, <1>9, <1>10, <1>11,
     <1>12 DEF Next, RunStep

\* Every reachable state is well typed (TypeOK is checked by every run).
THEOREM TypeCorrect == Spec => []TypeOK
<1>1. Spec => []TypeInv
  BY InitTypeInv, NextTypeInv, PTL DEF Spec
<1>2. QED
  BY <1>1, PTL DEF TypeInv

-----------------------------------------------------------------------------
(* The size of _class_lookup                                                *)

\* get_index appends to _class_lookup exactly when it interns an element
\* while P is finished, and leaves it alone while P is not.
LEMMA GetIndexLookup ==
  ASSUME NEW s, StoreOK(s), NEW e \in Elem, finished \in BOOLEAN
  PROVE  /\ ~finished => GetIndex(s, e).cl = s.cl /\ GetIndex(s, e).nc = s.nc
         /\ finished => Len(GetIndex(s, e).cl) - Len(s.cl)
                        = Len(GetIndex(s, e).rm) - Len(s.rm)
<1> DEFINE t == GetIndex(s, e)
<1>1. CASE e \in Range(s.rm)
  <2>1. t = s
    BY <1>1 DEF GetIndex
  <2>2. Len(t.cl) - Len(s.cl) = Len(t.rm) - Len(s.rm)
    BY <2>1 DEF StoreOK
  <2>3. QED
    BY <2>1, <2>2
<1>2. CASE e \notin Range(s.rm)
  <2>1. /\ t.rm = Append(s.rm, e)
        /\ t.cl = IF finished THEN Append(s.cl, s.nc) ELSE s.cl
        /\ t.nc = IF finished THEN s.nc + 1 ELSE s.nc
    BY <1>2 DEF GetIndex, AddIndex
  <2>2. ASSUME finished
        PROVE  Len(t.cl) - Len(s.cl) = Len(t.rm) - Len(s.rm)
    <3>1. t.cl = Append(s.cl, s.nc)
      BY <2>1, <2>2, Zenon
    <3>2. Len(t.cl) = Len(s.cl) + 1
      BY <3>1, AppendProperties DEF StoreOK
    <3>3. Len(t.rm) = Len(s.rm) + 1
      BY <2>1, AppendProperties DEF StoreOK
    <3>4. QED
      BY <3>2, <3>3 DEF StoreOK
  <2>3. ~finished => t.cl = s.cl /\ t.nc = s.nc
    BY <2>1, Zenon
  <2>4. QED
    BY <2>2, <2>3
<1>3. QED
  BY <1>1, <1>2

\* While P is not finished, internal_add_pair leaves _class_lookup and
\* _next_class alone.
LEMMA InternalAddPairLookup ==
  ASSUME StoreOK(Store), finished = FALSE, NEW x \in Elem, NEW y \in Elem,
         InternalAddPair(x, y)
  PROVE  cl' = cl /\ nextClass' = nextClass
<1> DEFINE s1 == GetIndex(Store, x)
           s2 == GetIndex(s1, y)
<1>0. finished \in BOOLEAN /\ ~finished
  OBVIOUS
<1>1. StoreOK(s1)
  BY <1>0, GetIndexOK
<1>2. s1.cl = Store.cl /\ s2.cl = s1.cl /\ s1.nc = Store.nc /\ s2.nc = s1.nc
  BY <1>0, <1>1, GetIndexLookup
<1>3. QED
  BY <1>2 DEF InternalAddPair, Store

LEMMA InitSizeIInv == Init => SizeIInv
<1> SUFFICES ASSUME Init PROVE SizeIInv
  OBVIOUS
<1>1. TypeInv
  BY InitTypeInv
<1>2. ~finished /\ cl = <<>> /\ pc = "idle"
  BY Zenon DEF Init
<1>3. QED
  BY <1>1, <1>2 DEF SizeIInv, SizeInv

\* Each step keeps SizeIInv when the caller adds no pair once P is
\* finished and no deadline expires after the pair loop: the renumbering
\* loop appends one class per interned element, and nothing else appends
\* to _class_lookup except a query's get_index, which interns the element
\* at the same time.
LEMMA NextSizeIInv ==
  ASSUME ~LateAddPair, TimeoutWindow \subseteq {"idle", "loop", "mult"}
  PROVE  SizeIInv /\ [Next]_vars => SizeIInv'
<1> SUFFICES ASSUME SizeIInv, [Next]_vars PROVE SizeIInv'
  OBVIOUS
<1>0. /\ StoreOK(Store)
      /\ finished \in BOOLEAN /\ dead \in BOOLEAN /\ timedOut \in BOOLEAN
      /\ Len(uf) = Len(rm) /\ Len(rm) \in Nat /\ cl \in Seq(Nat)
      /\ ni \in Nat \ {0}
  <2>1. uf \in [1..Len(rm) -> 1..Len(rm)] /\ Len(rm) \in Nat
    BY DEF SizeIInv, TypeInv, TypeOK
  <2>2. QED
    BY <2>1, FunIsSeq, StoreTypes DEF SizeIInv, TypeInv, TypeOK
<1>1. TypeInv'
  BY NextTypeInv DEF SizeIInv
<1> SUFFICES SizeInv'
  BY <1>1 DEF SizeIInv
<1> USE DEF SizeIInv
<1>2. ASSUME NEW x \in Elem, NEW y \in Elem, AddPair(x, y) PROVE SizeInv'
  <2>1. finished = FALSE /\ pc = "idle"
    BY <1>0, <1>2, Zenon DEF AddPair
  <2>2. cl' = cl
    BY <1>0, <1>2, <2>1, InternalAddPairLookup DEF AddPair
  <2>3. finished' = FALSE /\ pc' = pc /\ dead' = dead
    BY <1>2 DEF AddPair
  <2>4. ~dead => Len(cl) = 0
    BY <2>1 DEF SizeInv
  <2>5. QED
    BY <2>1, <2>2, <2>3, <2>4 DEF SizeInv
<1>3. ASSUME NEW x \in Elem, WordToClassIndex(x) PROVE SizeInv'
  <2> DEFINE s == GetIndex(Store, x)
  <2>1. finished = TRUE /\ pc = "idle"
    BY <1>0, <1>3, Zenon DEF WordToClassIndex
  <2>2. Len(cl) = Len(rm)
    BY <2>1 DEF SizeInv
  <2>3. Len(s.cl) - Len(cl) = Len(s.rm) - Len(rm)
    <3>1. finished
      BY <2>1
    <3>2. Len(s.cl) - Len(Store.cl) = Len(s.rm) - Len(Store.rm)
      BY <1>0, <3>1, GetIndexLookup
    <3>3. QED
      BY <3>2 DEF Store
  <2>4. rm' = s.rm /\ cl' = s.cl /\ finished' = finished /\ pc' = pc
    BY <1>3 DEF WordToClassIndex
  <2>5. Len(cl') = Len(rm')
    BY <1>0, <1>1, <2>2, <2>3, <2>4 DEF TypeInv, TypeOK
  <2>6. QED
    BY <2>1, <2>4, <2>5 DEF SizeInv
<1>4. CASE RunStart
  <2>1. pc = "idle" /\ ~finished /\ ~dead
    BY <1>4 DEF RunStart
  <2>2. Len(cl) = 0
    BY <2>1 DEF SizeInv
  <2>3. pc' = "loop" /\ cl' = cl /\ finished' = finished
    BY <1>4 DEF RunStart
  <2>4. QED
    BY <2>1, <2>2, <2>3 DEF SizeInv
<1>5. CASE LoopIter
  <2>1. pc = "loop" /\ ~finished /\ Len(cl) = 0
    BY <1>5 DEF LoopIter, SizeInv
  <2>2. pc' = "mult" /\ cl' = cl /\ finished' = finished
    BY <1>5 DEF LoopIter
  <2>3. QED
    BY <2>1, <2>2 DEF SizeInv
<1>6. CASE MultStep
  <2> DEFINE m == Multiple(cur, GenSeq[gi], Sides[si])
  <2>1. pc = "mult" /\ finished = FALSE /\ Len(cl) = 0
    BY <1>0, <1>6, Zenon DEF MultStep, SizeInv
  <2>2. m[1] \in Elem /\ m[2] \in Elem
    <3>1. GenSeq[gi] \in Elem /\ Sides[si] \in {"left", "right"}
      BY ParentAssumption DEF TypeInv, TypeOK, Sides
    <3>2. QED
      BY <3>1, ParentAssumption DEF Multiple, TypeInv, TypeOK, Pair
  <2>3. cl' = cl
    BY <1>0, <1>6, <2>1, <2>2, InternalAddPairLookup DEF MultStep
  <2>4. pc' \in {"mult", "loop"} /\ finished' = finished
    BY <1>6 DEF MultStep
  <2>5. QED
    BY <2>1, <2>3, <2>4 DEF SizeInv
<1>7. CASE LoopExit
  <2>1. pc = "loop" /\ ~finished /\ Len(cl) = 0
    BY <1>7 DEF LoopExit, SizeInv
  <2>2. /\ finished' = finished /\ dead' = dead /\ timedOut' = timedOut
        /\ uf' = uf /\ rm' = rm
    BY <1>7 DEF LoopExit
  <2>3. CASE ~dead /\ ~timedOut /\ Len(uf) > 0
    <3>1. pc' = "norm" /\ cl' = Append(cl, 0) /\ ni' = 2
      BY <1>7, <2>3 DEF LoopExit
    <3>2. Len(cl') = 1 /\ ni' <= Len(uf') + 1
      BY <1>0, <2>1, <2>2, <2>3, <3>1, AppendProperties
    <3>3. QED
      BY <2>1, <2>2, <2>3, <3>1, <3>2 DEF SizeInv
  <2>4. CASE ~dead /\ ~timedOut /\ ~(Len(uf) > 0)
    <3>1. pc' = "norm" /\ cl' = cl
      BY <1>7, <2>4 DEF LoopExit
    <3>2. Len(uf') = 0
      BY <1>0, <2>2, <2>4
    <3>3. QED
      BY <2>1, <2>2, <2>4, <3>1, <3>2 DEF SizeInv
  <2>5. CASE dead \/ timedOut
    <3>1. pc' = "check" /\ cl' = cl
      BY <1>7, <2>5 DEF LoopExit
    <3>2. QED
      BY <2>1, <2>2, <2>5, <3>1 DEF SizeInv
  <2>6. QED
    BY <2>3, <2>4, <2>5
<1>8. CASE NormStep
  <2>1. pc = "norm" /\ ni <= Len(uf) /\ ni' = ni + 1
    BY <1>8 DEF NormStep
  <2>2. ~finished /\ ~timedOut /\ Len(cl) = ni - 1 /\ ni <= Len(uf) + 1
    BY <1>0, <2>1 DEF SizeInv
  <2>3. Len(cl') = Len(cl) + 1
    BY <1>8, NormStepLookup
  <2>4. /\ pc' = pc /\ finished' = finished /\ timedOut' = timedOut
        /\ uf' = uf
    BY <1>8 DEF NormStep
  <2>5. Len(uf') > 0 /\ Len(cl') = ni' - 1 /\ ni' <= Len(uf') + 1
    BY <1>0, <2>1, <2>2, <2>3, <2>4
  <2>6. QED
    BY <2>1, <2>2, <2>4, <2>5 DEF SizeInv
<1>9. CASE NormDone
  <2>1. pc = "norm" /\ ni > Len(uf) /\ pc' = "check"
    BY <1>9 DEF NormDone
  <2>2. ~finished /\ ~timedOut
    BY <2>1 DEF SizeInv
  <2>3. Len(cl) = Len(rm)
    BY <1>0, <2>1 DEF SizeInv
  <2>4. /\ cl' = cl /\ rm' = rm /\ finished' = finished
        /\ timedOut' = timedOut
    BY <1>9 DEF NormDone
  <2>5. QED
    BY <2>1, <2>2, <2>3, <2>4 DEF SizeInv
<1>10. CASE Finish
  <2>1. pc = "check" /\ ~finished /\ pc' = "idle"
    BY <1>10 DEF Finish, SizeInv
  <2>2. cl' = cl /\ rm' = rm /\ dead' = dead
    BY <1>10 DEF Finish
  <2>3. CASE ~dead /\ ~timedOut
    <3>1. finished' = TRUE
      BY <1>10, <2>3 DEF Finish
    <3>2. Len(cl) = Len(rm)
      BY <2>1, <2>3 DEF SizeInv
    <3>3. QED
      BY <2>1, <2>2, <3>1, <3>2 DEF SizeInv
  <2>4. CASE dead \/ timedOut
    <3>1. finished' = finished
      BY <1>10, <2>4 DEF Finish
    <3>2. ~dead => Len(cl) = 0
      BY <2>1, <2>4 DEF SizeInv
    <3>3. QED
      BY <2>1, <2>2, <3>1, <3>2 DEF SizeInv
  <2>5. QED
    BY <2>3, <2>4
<1>11. CASE Kill
  BY <1>11 DEF Kill, SizeInv
<1>12. CASE Timeout
  <2>1. pc \in {"idle", "loop", "mult"}
    BY <1>12 DEF Timeout
  <2>2. QED
    BY <1>12, <2>1 DEF Timeout, SizeInv
<1>13. CASE UNCHANGED vars
  BY <1>13 DEF vars, SizeInv
<1>14. QED
  BY <1>2, <1>3, <1>4, <1>5, <1>6, <1>7, <1>8, <1>9, <1>10, <1>11, <1>12,
     <1>13 DEF Next, RunStep

\* When the caller adds every pair before P is finished and no deadline
\* expires after the pair loop, the assertion of const_word_to_class_index
\* holds in every reachable state: _class_lookup has one entry per element
\* _reverse_map holds.
THEOREM LookupSizeHolds ==
  ASSUME ~LateAddPair, TimeoutWindow \subseteq {"idle", "loop", "mult"}
  PROVE  Spec => []LookupSizeAgrees
<1>1. SizeIInv => LookupSizeAgrees
  BY DEF SizeIInv, SizeInv, LookupSizeAgrees
<1>2. QED
  BY <1>1, InitSizeIInv, NextSizeIInv, PTL DEF Spec

-----------------------------------------------------------------------------
(* The numbering of classes                                                 *)

\* Appending the next unused number to a densely numbered _class_lookup, as
\* the renumbering loop and a late get_index do, keeps it dense.
LEMMA DenseAppendNew ==
  ASSUME NEW q \in Seq(Nat), NEW n \in Nat,
         {q[k] : k \in 1..Len(q)} = 0..(n - 1)
  PROVE  {Append(q, n)[k] : k \in 1..Len(Append(q, n))} = 0..((n + 1) - 1)
<1>1. /\ Len(Append(q, n)) = Len(q) + 1
      /\ \A k \in 1..Len(q) : Append(q, n)[k] = q[k]
      /\ Append(q, n)[Len(q) + 1] = n
  BY AppendProperties
<1>2. {Append(q, n)[k] : k \in 1..Len(Append(q, n))}
        = {q[k] : k \in 1..Len(q)} \cup {n}
  BY <1>1
<1>3. QED
  BY <1>2

\* Appending a number already in use, as the renumbering loop does for an
\* index whose root it has seen, keeps _class_lookup dense.
LEMMA DenseAppendOld ==
  ASSUME NEW q \in Seq(Nat), NEW n \in Nat, NEW j \in 1..Len(q),
         {q[k] : k \in 1..Len(q)} = 0..(n - 1)
  PROVE  {Append(q, q[j])[k] : k \in 1..Len(Append(q, q[j]))} = 0..(n - 1)
<1>1. /\ Len(Append(q, q[j])) = Len(q) + 1
      /\ \A k \in 1..Len(q) : Append(q, q[j])[k] = q[k]
      /\ Append(q, q[j])[Len(q) + 1] = q[j]
  BY AppendProperties
<1>2. {Append(q, q[j])[k] : k \in 1..Len(Append(q, q[j]))}
        = {q[k] : k \in 1..Len(q)}
  BY <1>1
<1>3. QED
  BY <1>2

\* Once P is finished, get_index either leaves the store alone or appends
\* the next unused class number and increments _next_class.
LEMMA GetIndexNumbering ==
  ASSUME NEW s, StoreOK(s), NEW e \in Elem, finished = TRUE
  PROVE  \/ GetIndex(s, e).cl = s.cl /\ GetIndex(s, e).nc = s.nc
         \/ /\ GetIndex(s, e).cl = Append(s.cl, s.nc)
            /\ GetIndex(s, e).nc = s.nc + 1
<1>1. CASE e \in Range(s.rm)
  BY <1>1 DEF GetIndex
<1>2. CASE e \notin Range(s.rm)
  BY <1>2 DEF GetIndex, AddIndex
<1>3. QED
  BY <1>1, <1>2

\* The renumbering step appends either the next unused number, and
\* increments _next_class, or a number read back from _class_lookup.
LEMMA NormStepNumbering ==
  ASSUME TypeInv, NormStep
  PROVE  \/ cl' = Append(cl, nextClass) /\ nextClass' = nextClass + 1
         \/ \E j \in 1..Len(cl) : cl' = Append(cl, cl[j]) /\ nextClass' = nextClass
<1> DEFINE nr == uf[ni] - 1
<1>0. /\ uf \in [1..Len(rm) -> 1..Len(rm)] /\ Len(rm) \in Nat
      /\ ni \in Nat \ {0} /\ normMax \in Nat
      /\ \A k \in 1..Len(rm) : uf[k] <= k
  BY DEF TypeInv, TypeOK, UFBelow
<1>1. Len(uf) = Len(rm)
  BY <1>0, FunIsSeq
<1>2. pc = "norm" /\ ni <= Len(uf)
  BY DEF NormStep
<1>3. ni \in 1..Len(rm) /\ uf[ni] \in 1..ni /\ nr \in Nat
  BY <1>0, <1>1, <1>2
<1>4. normMax + 2 <= ni /\ ni <= Len(cl) + 1
  BY <1>1, <1>2, <1>3 DEF TypeInv, NormBounds
<1>5. CASE nr > normMax
  BY <1>5 DEF NormStep
<1>6. CASE ~(nr > normMax)
  <2>1. cl' = Append(cl, cl[nr + 1]) /\ nextClass' = nextClass
    BY <1>6 DEF NormStep
  <2>2. nr + 1 \in 1..Len(cl)
    BY <1>0, <1>3, <1>4, <1>6
  <2>3. QED
    BY <2>1, <2>2
<1>7. QED
  BY <1>5, <1>6

\* The initial states are densely numbered: nothing is.
LEMMA InitNumbering == Init => NumberingIInv
<1> SUFFICES ASSUME Init PROVE NumberingIInv
  OBVIOUS
<1>1. SizeIInv
  BY InitSizeIInv
<1>2. cl = <<>> /\ nextClass = 0
  BY DEF Init
<1>3. QED
  BY <1>1, <1>2 DEF NumberingIInv, DenseClasses

\* Each step keeps _class_lookup densely numbered under the contract of
\* LookupSizeHolds: the renumbering loop opens class numbers in order, and
\* a query's get_index on a finished P gives a new element the next one.
LEMMA NextNumbering ==
  ASSUME ~LateAddPair, TimeoutWindow \subseteq {"idle", "loop", "mult"}
  PROVE  NumberingIInv /\ [Next]_vars => NumberingIInv'
<1> SUFFICES ASSUME NumberingIInv, [Next]_vars PROVE NumberingIInv'
  OBVIOUS
<1>0. /\ StoreOK(Store) /\ TypeInv
      /\ finished \in BOOLEAN /\ cl \in Seq(Nat) /\ nextClass \in Nat
  BY StoreTypes DEF NumberingIInv, SizeIInv, TypeInv, TypeOK
<1>1. SizeIInv'
  BY NextSizeIInv DEF NumberingIInv
<1> SUFFICES DenseClasses'
  BY <1>1 DEF NumberingIInv
<1>d. DenseClasses
  BY DEF NumberingIInv
<1> DEFINE Same == cl' = cl /\ nextClass' = nextClass
<1>s. Same => DenseClasses'
  BY <1>d DEF DenseClasses
<1>n. ASSUME cl' = Append(cl, nextClass), nextClass' = nextClass + 1
      PROVE  DenseClasses'
  <2>1. {Append(cl, nextClass)[k] : k \in 1..Len(Append(cl, nextClass))}
          = 0..((nextClass + 1) - 1)
    BY <1>0, <1>d, DenseAppendNew DEF DenseClasses
  <2>2. QED
    BY <1>n, <2>1 DEF DenseClasses
<1>o. ASSUME NEW j \in 1..Len(cl), cl' = Append(cl, cl[j]),
             nextClass' = nextClass
      PROVE  DenseClasses'
  <2>1. {Append(cl, cl[j])[k] : k \in 1..Len(Append(cl, cl[j]))}
          = 0..(nextClass - 1)
    BY <1>0, <1>d, DenseAppendOld DEF DenseClasses
  <2>2. QED
    BY <1>o, <2>1 DEF DenseClasses
<1>2. ASSUME NEW x \in Elem, NEW y \in Elem, AddPair(x, y) PROVE DenseClasses'
  <2>1. finished = FALSE
    BY <1>0, <1>2, Zenon DEF AddPair
  <2>2. Same
    BY <1>0, <1>2, <2>1, InternalAddPairLookup DEF AddPair
  <2>3. QED
    BY <1>s, <2>2
<1>3. ASSUME NEW x \in Elem, WordToClassIndex(x) PROVE DenseClasses'
  <2> DEFINE s == GetIndex(Store, x)
  <2>1. finished = TRUE
    BY <1>0, <1>3, Zenon DEF WordToClassIndex
  <2>2. \/ s.cl = Store.cl /\ s.nc = Store.nc
        \/ s.cl = Append(Store.cl, Store.nc) /\ s.nc = Store.nc + 1
    BY <1>0, <2>1, GetIndexNumbering
  <2>3. cl' = s.cl /\ nextClass' = s.nc
    BY <1>3 DEF WordToClassIndex
  <2>4. QED
    BY <1>s, <1>n, <2>2, <2>3 DEF Store
<1>4. CASE MultStep
  <2> DEFINE m == Multiple(cur, GenSeq[gi], Sides[si])
  <2>1. finished = FALSE
    BY <1>0, <1>4, Zenon DEF MultStep, NumberingIInv, SizeIInv, SizeInv
  <2>2. m[1] \in Elem /\ m[2] \in Elem
    <3>1. GenSeq[gi] \in Elem /\ Sides[si] \in {"left", "right"}
      BY ParentAssumption DEF NumberingIInv, SizeIInv, TypeInv, TypeOK, Sides
    <3>2. QED
      BY <3>1, <1>0, ParentAssumption DEF Multiple, TypeInv, TypeOK, Pair
  <2>3. Same
    BY <1>0, <1>4, <2>1, <2>2, InternalAddPairLookup DEF MultStep
  <2>4. QED
    BY <1>s, <2>3
<1>5. CASE LoopExit
  <2>1. pc = "loop" /\ Len(cl) = 0
    BY <1>5 DEF LoopExit, NumberingIInv, SizeIInv, SizeInv
  <2>2. nextClass = 0
    <3>1. {cl[k] : k \in 1..Len(cl)} = {}
      BY <2>1
    <3>2. 0..(nextClass - 1) = {}
      BY <1>d, <3>1 DEF DenseClasses
    <3>3. nextClass > 0 => 0 \in 0..(nextClass - 1)
      BY <1>0
    <3>4. QED
      BY <1>0, <3>2, <3>3
  <2>3. CASE ~dead /\ ~timedOut /\ Len(uf) > 0
    <3>1. cl' = Append(cl, 0) /\ nextClass' = 1
      BY <1>5, <2>3 DEF LoopExit
    <3>2. QED
      BY <1>n, <2>2, <3>1
  <2>4. CASE ~(~dead /\ ~timedOut /\ Len(uf) > 0)
    <3>1. Same
      BY <1>5, <2>4 DEF LoopExit
    <3>2. QED
      BY <1>s, <3>1
  <2>5. QED
    BY <2>3, <2>4
<1>6. CASE NormStep
  <2>1. CASE cl' = Append(cl, nextClass) /\ nextClass' = nextClass + 1
    BY <1>n, <2>1
  <2>2. CASE \E j \in 1..Len(cl) : cl' = Append(cl, cl[j]) /\ nextClass' = nextClass
    <3>1. PICK j \in 1..Len(cl) : cl' = Append(cl, cl[j]) /\ nextClass' = nextClass
      BY <2>2
    <3>2. QED
      BY <1>o, <3>1
  <2>3. QED
    BY <1>0, <1>6, <2>1, <2>2, NormStepNumbering
<1>7. CASE RunStart \/ LoopIter \/ NormDone \/ Finish \/ Kill \/ Timeout
      \/ UNCHANGED vars
  <2>1. Same
    BY <1>7 DEF RunStart, LoopIter, NormDone, Finish, Kill, Timeout, vars
  <2>2. QED
    BY <1>s, <2>1
<1>8. QED
  BY <1>2, <1>3, <1>4, <1>5, <1>6, <1>7 DEF Next, RunStep

\* The numbering invariant gives both the density of the class numbers
\* and the assertion of const_word_to_class_index.
LEMMA NumberingDense ==
  NumberingIInv => ClassIndicesDense /\ LookupSizeAgrees
<1> SUFFICES ASSUME NumberingIInv, finished
             PROVE  /\ {ClassIndex(k) : k \in 1..Len(rm)} = 0..(nextClass - 1)
                    /\ Len(cl) = Len(rm)
  BY DEF ClassIndicesDense, LookupSizeAgrees
<1>1. Len(cl) = Len(rm) /\ cl \in Seq(Nat)
  BY DEF NumberingIInv, SizeIInv, SizeInv, TypeInv, TypeOK
<1>2. \A k \in 1..Len(rm) : ClassIndex(k) = cl[k]
  BY <1>1 DEF ClassIndex
<1>3. QED
  BY <1>1, <1>2 DEF NumberingIInv, DenseClasses

\* Under the same contract, once P is finished the class numbers that
\* word_to_class_index gives the elements P has seen are exactly 0 .. n - 1
\* for some n: the renumbering loop of run() and the lazy numbering of a
\* late query leave no gap.
THEOREM ClassIndicesDenseHolds ==
  ASSUME ~LateAddPair, TimeoutWindow \subseteq {"idle", "loop", "mult"}
  PROVE  Spec => []ClassIndicesDense
BY NumberingDense, InitNumbering, NextNumbering, PTL DEF Spec

-----------------------------------------------------------------------------
(* The stability of class numbers                                           *)

\* Appending an element that _reverse_map does not hold leaves the index
\* at which it finds every element it does hold.
LEMMA IndexOfAppend ==
  ASSUME NEW S, NEW q \in Seq(S), NEW e \in S, NEW y \in Range(q), e # y
  PROVE  /\ IndexOf(Append(q, e), y) = IndexOf(q, y)
         /\ IndexOf(q, y) \in 1..Len(q)
<1>1. /\ DOMAIN Append(q, e) = 1..(Len(q) + 1)
      /\ DOMAIN q = 1..Len(q)
      /\ \A k \in 1..Len(q) : Append(q, e)[k] = q[k]
      /\ Append(q, e)[Len(q) + 1] = e
  BY AppendProperties
<1>2. \A k : (k \in DOMAIN Append(q, e) /\ Append(q, e)[k] = y)
               <=> (k \in DOMAIN q /\ q[k] = y)
  BY <1>1
<1>3. IndexOf(Append(q, e), y) = IndexOf(q, y)
  BY <1>2, Zenon DEF IndexOf
<1>4. \E k \in DOMAIN q : q[k] = y
  BY DEF Range
<1>5. IndexOf(q, y) \in 1..Len(q)
  BY <1>1, <1>4 DEF IndexOf
<1>6. QED
  BY <1>3, <1>5

\* A step that keeps P finished changes no class number already given: the
\* only such step that changes the store is a query's get_index, which
\* appends after every index already numbered.
LEMMA StepIndexStable ==
  ASSUME SizeIInv, [Next]_vars, finished, finished'
  PROVE  \A y \in Interned : ImplIndex'[y] = ImplIndex[y]
<1>0. /\ StoreOK(Store) /\ rm \in Seq(Elem) /\ cl \in Seq(Nat)
      /\ Len(cl) = Len(rm)
  BY StoreTypes DEF SizeIInv, SizeInv, TypeInv, TypeOK
<1>1. pc = "idle"
  BY DEF SizeIInv, SizeInv, TypeInv, TypeOK, Phases
<1> DEFINE Keeps == rm' = rm /\ cl' = cl
<1>k. Keeps => \A y \in Interned : ImplIndex'[y] = ImplIndex[y]
  BY DEF ImplIndex, Interned, ClassIndex
<1>2. ASSUME NEW x \in Elem, WordToClassIndex(x)
      PROVE  \A y \in Interned : ImplIndex'[y] = ImplIndex[y]
  <2> DEFINE s == GetIndex(Store, x)
  <2>1. rm' = s.rm /\ cl' = s.cl
    BY <1>2 DEF WordToClassIndex
  <2>2. CASE x \in Range(rm)
    BY <1>k, <2>1, <2>2 DEF GetIndex, Store
  <2>3. CASE x \notin Range(rm)
    <3>1. rm' = Append(rm, x) /\ cl' = Append(cl, nextClass)
      BY <2>1, <2>3 DEF GetIndex, AddIndex, Store
    <3> SUFFICES ASSUME NEW y \in Interned
                 PROVE  ImplIndex'[y] = ImplIndex[y]
      OBVIOUS
    <3> DEFINE i == IndexOf(rm, y)
    <3>2. IndexOf(rm', y) = i /\ i \in 1..Len(rm)
      BY <1>0, <2>3, <3>1, IndexOfAppend DEF Interned
    <3>3. y \in Range(rm') /\ y \in Elem
      BY <1>0, <3>1, AppendProperties DEF Interned, Range
    <3>4. cl'[i] = cl[i] /\ i \in DOMAIN cl' /\ i \in DOMAIN cl
      BY <1>0, <3>1, <3>2, AppendProperties
    <3>5. ClassIndex(IndexOf(rm, y))' = ClassIndex(i)
      BY <3>2, <3>4 DEF ClassIndex
    <3>6. QED
      BY <3>3, <3>5 DEF ImplIndex, Interned
  <2>4. QED
    BY <2>2, <2>3
<1>3. ASSUME NEW x \in Elem, NEW y \in Elem, AddPair(x, y) PROVE FALSE
  BY <1>3 DEF AddPair
<1>4. CASE RunStart
  BY <1>4 DEF RunStart
<1>5. CASE LoopIter \/ MultStep \/ LoopExit \/ NormStep \/ NormDone \/ Finish
  BY <1>1, <1>5 DEF LoopIter, MultStep, LoopExit, NormStep, NormDone, Finish
<1>6. CASE Kill \/ Timeout \/ UNCHANGED vars
  BY <1>k, <1>6 DEF Kill, Timeout, vars
<1>7. QED
  BY <1>2, <1>3, <1>4, <1>5, <1>6 DEF Next, RunStep

\* Under the contract of LookupSizeHolds, the class number that
\* word_to_class_index gives an element never changes while P stays
\* finished, whatever queries are made in between.
THEOREM IndexStableHolds ==
  ASSUME ~LateAddPair, TimeoutWindow \subseteq {"idle", "loop", "mult"}
  PROVE  Spec => IndexStable
<1>1. Spec => []SizeIInv
  BY InitSizeIInv, NextSizeIInv, PTL DEF Spec
<1>2. SizeIInv /\ [Next]_vars
        => [finished /\ finished' => \A x \in Interned : ImplIndex'[x] = ImplIndex[x]]_vars
  BY StepIndexStable
<1>3. QED
  BY <1>1, <1>2, PTL DEF Spec, IndexStable

=============================================================================
