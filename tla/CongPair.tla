------------------------------ MODULE CongPair ------------------------------
(***************************************************************************)
(* The brute-force pair-closure congruence congruence::P of                *)
(* include/cong-pair.hpp, over a finite parent semigroup.                  *)
(*                                                                         *)
(* The parent semigroup is the constant multiplication table Mult on Elem, *)
(* generated by the sequence GenSeq.  A word given to add_pair is          *)
(* represented by the element word_to_element maps it to; every element   *)
(* is the value of some word because the parent is generated by GenSeq.   *)
(*                                                                         *)
(* P::run is a loop; each of its iterations, each generator/side of the   *)
(* inner for loop and each step of the class-renumbering loop is one       *)
(* action, so that the deadline and the kill flag, which other threads    *)
(* set, can be observed between them exactly where the code tests them.   *)
(* Element indices (_map, _reverse_map, _lookup) are the 1-based positions *)
(* of the sequence rm; the code's index k is position k + 1.  Class        *)
(* numbers (_class_lookup, _next_class) keep the code's 0-based values.    *)
(***************************************************************************)
EXTENDS Congruence

CONSTANTS
  MaxAddPairs,   \* bound on the number of add_pair calls
  MaxTimeouts,   \* bound on the number of deadlines that expire
  TimeoutWindow, \* the phases of run() during which a deadline may expire
  LateAddPair    \* whether the caller may call add_pair once P is finished

Phases == {"idle", "loop", "mult", "norm", "check"}

ASSUME BoundsAssumption ==
  /\ MaxAddPairs \in Nat
  /\ MaxTimeouts \in Nat
  /\ TimeoutWindow \subseteq Phases
  /\ LateAddPair \in BOOLEAN

\* UNDEFINED of constants.hpp: a value that is no size_t of the model.
UNDEFINED == -1

VARIABLES
  rm,          \* _reverse_map (and, by inversion, _map): the interned elements
  uf,          \* _lookup: the union-find over element indices, as root links
  found,       \* _found_pairs
  queue,       \* _pairs_to_mult
  cl,          \* _class_lookup
  nextClass,   \* _next_class
  nrNTClasses, \* _nr_non_trivial_classes
  nrNTElems,   \* _nr_non_trivial_elemnts
  finished,    \* Runner::finished()
  dead,        \* Runner::dead(): set by kill() from another thread
  timedOut,    \* Runner::timed_out() within the current run() call
  pc,          \* where the thread of control is in run()
  cur,         \* current_pair of the while loop
  gi,          \* the generator index i of the for loop (1-based)
  si,          \* the side (left, right) being handled for generator gi
  ni,          \* the index i of the renumbering loop (1-based)
  normMax,     \* the local max of the renumbering loop
  pairs,       \* history: the generating pairs passed to add_pair
  adds,        \* number of add_pair calls so far
  timeouts     \* number of deadlines expired so far

vars == <<rm, uf, found, queue, cl, nextClass, nrNTClasses, nrNTElems,
          finished, dead, timedOut, pc, cur, gi, si, ni, normMax, pairs,
          adds, timeouts>>

-----------------------------------------------------------------------------
(* Plausible faults in the code, each the mutated form of one definition    *)
(* below; they are used only to confirm that a property catches them.      *)

\* Sides for a one-sided congruence multiplies on the wrong side.
SidesAlwaysLeft == IF Type = "twosided" THEN <<"left", "right">> ELSE <<"left">>
SidesAlwaysRight == IF Type = "twosided" THEN <<"left", "right">> ELSE <<"right">>

\* add_index links the new entry of _lookup one past itself.
AddIndexOffByOne(s, e) ==
  [s EXCEPT !.rm = Append(s.rm, e),
            !.uf = Append(s.uf, Len(s.uf) + 2),
            !.cl = IF finished THEN Append(s.cl, s.nc) ELSE s.cl,
            !.nc = IF finished THEN s.nc + 1 ELSE s.nc]

\* add_index without the class it owes a late element once finished.
AddIndexNoClass(s, e) ==
  [s EXCEPT !.rm = Append(s.rm, e), !.uf = Append(s.uf, Len(s.uf) + 1)]

\* add_index gives a late element the next class but does not advance
\* _next_class.
AddIndexNoIncrement(s, e) ==
  [s EXCEPT !.rm = Append(s.rm, e),
            !.uf = Append(s.uf, Len(s.uf) + 1),
            !.cl = IF finished THEN Append(s.cl, s.nc) ELSE s.cl]

\* add_index puts a late element's class at the front of _class_lookup
\* instead of the back.
AddIndexPrepend(s, e) ==
  [s EXCEPT !.rm = Append(s.rm, e),
            !.uf = Append(s.uf, Len(s.uf) + 1),
            !.cl = IF finished THEN <<s.nc>> \o s.cl ELSE s.cl,
            !.nc = IF finished THEN s.nc + 1 ELSE s.nc]

\* The renumbering opens a new class when nr >= max instead of nr > max.
NormStepGeq ==
  /\ pc = "norm"
  /\ ni <= Len(uf)
  /\ LET nr == uf[ni] - 1
     IN  IF nr >= normMax
           THEN /\ cl' = Append(cl, nextClass)
                /\ nextClass' = nextClass + 1
                /\ normMax' = nr
           ELSE /\ cl' = Append(cl, cl[nr + 1])
                /\ UNCHANGED <<nextClass, normMax>>
  /\ ni' = ni + 1
  /\ UNCHANGED <<rm, uf, found, queue, nrNTClasses, nrNTElems, finished,
                 dead, timedOut, pc, cur, gi, si, pairs, adds, timeouts>>

\* The renumbering starts counting classes at 0 although class 0 is taken.
LoopExitFromZero ==
  /\ pc = "loop"
  /\ queue = <<>> \/ dead \/ timedOut
  /\ IF ~dead /\ ~timedOut
       THEN /\ pc' = "norm"
            /\ IF Len(uf) > 0
                 THEN /\ cl' = Append(cl, 0)
                      /\ nextClass' = 0
                      /\ normMax' = 0
                      /\ ni' = 2
                 ELSE UNCHANGED <<cl, nextClass, normMax, ni>>
       ELSE /\ pc' = "check"
            /\ UNCHANGED <<cl, nextClass, normMax, ni>>
  /\ UNCHANGED <<rm, uf, found, queue, nrNTClasses, nrNTElems, finished,
                 dead, timedOut, cur, gi, si, pairs, adds, timeouts>>

\* The counts of non-trivial classes and elements are swapped.
NormDoneSwapped ==
  /\ pc = "norm"
  /\ ni > Len(uf)
  /\ nrNTClasses' = Len(rm)
  /\ nrNTElems' = nextClass
  /\ pc' = "check"
  /\ UNCHANGED <<rm, uf, found, queue, cl, nextClass, finished, dead,
                 timedOut, cur, gi, si, ni, normMax, pairs, adds, timeouts>>

\* The loop reads the front pair but never pops it.
LoopIterNoPop ==
  /\ pc = "loop"
  /\ queue # <<>>
  /\ ~dead
  /\ ~timedOut
  /\ cur' = Head(queue)
  /\ gi' = 1
  /\ si' = 1
  /\ pc' = "mult"
  /\ UNCHANGED <<rm, uf, found, queue, cl, nextClass, nrNTClasses,
                 nrNTElems, finished, dead, timedOut, ni, normMax, pairs,
                 adds, timeouts>>

-----------------------------------------------------------------------------
(* Helpers                                                                  *)

\* The sides multiplied in run(): left before right, as lines 147-165 test.
Sides == IF Type = "twosided" THEN <<"left", "right">> ELSE <<Type>>

\* The index _map gives to an interned element.
IndexOf(s, e) == CHOOSE k \in DOMAIN s : s[k] = e

LesserOf(a, b) == IF a <= b THEN a ELSE b
GreaterOf(a, b) == IF a <= b THEN b ELSE a

\* UF::add_entry: a fresh singleton block.
UFAddEntry(u) == Append(u, Len(u) + 1)

\* UF::unite: the block whose root is larger is hung under the smaller root
\* (the root of a block is its least index, which line 188 asserts of 0).
UFUnite(u, i, j) ==
  LET lo == LesserOf(u[i], u[j])
      hi == GreaterOf(u[i], u[j])
  IN  [k \in DOMAIN u |-> IF u[k] = hi THEN lo ELSE u[k]]

\* The part of P's state that interning an element touches, as a record.
Store == [rm |-> rm, uf |-> uf, cl |-> cl, nc |-> nextClass]

\* P::add_index: intern e.  Once P is finished the new element gets a
\* class of its own at once.
AddIndex(s, e) ==
  [s EXCEPT !.rm = Append(s.rm, e),
            !.uf = UFAddEntry(s.uf),
            !.cl = IF finished THEN Append(s.cl, s.nc) ELSE s.cl,
            !.nc = IF finished THEN s.nc + 1 ELSE s.nc]

\* P::get_index (and the lookups in internal_add_pair): intern e if new.
GetIndex(s, e) == IF e \in Range(s.rm) THEN s ELSE AddIndex(s, e)

\* P::internal_add_pair(x, y) as an action: intern both elements and, if
\* the pair they make is new, record it, queue it and unite the blocks.
InternalAddPair(x, y) ==
  LET s1   == GetIndex(Store, x)
      s2   == GetIndex(s1, y)
      i    == IndexOf(s2.rm, x)
      j    == IndexOf(s2.rm, y)
      new  == Len(s2.rm) > Len(rm)
      pair == IF i < j THEN <<x, y>> ELSE <<y, x>>
  IN  IF x = y \/ (~new /\ pair \in found)
        THEN UNCHANGED <<rm, uf, cl, nextClass, found, queue>>
        ELSE /\ rm' = s2.rm
             /\ uf' = UFUnite(s2.uf, i, j)
             /\ cl' = s2.cl
             /\ nextClass' = s2.nc
             /\ found' = found \cup {pair}
             /\ queue' = Append(queue, pair)

\* The products the for loop forms from the current pair, generator g and
\* a side.
Multiple(p, g, side) ==
  IF side = "left" THEN <<Mult[g, p[1]], Mult[g, p[2]]>>
                   ELSE <<Mult[p[1], g], Mult[p[2], g]>>

-----------------------------------------------------------------------------
(* Initial state: the constructor P(type, S).                               *)

Init ==
  /\ rm = <<>>
  /\ uf = <<>>
  /\ found = {}
  /\ queue = <<>>
  /\ cl = <<>>
  /\ nextClass = 0
  /\ nrNTClasses = UNDEFINED
  /\ nrNTElems = UNDEFINED
  /\ finished = FALSE
  /\ dead = FALSE
  /\ timedOut = FALSE
  /\ pc = "idle"
  /\ cur = CHOOSE p \in Pair : TRUE
  /\ gi = 1
  /\ si = 1
  /\ ni = 1
  /\ normMax = 0
  /\ pairs = {}
  /\ adds = 0
  /\ timeouts = 0

-----------------------------------------------------------------------------
(* Operations of the caller's thread                                        *)

\* P::add_pair(l, r): intern and record the pair, then set_finished(false).
\* The interface asks the caller to add pairs before anything is computed
\* but nothing enforces it; LateAddPair lets the caller break that rule.
AddPair(x, y) ==
  /\ pc = "idle"
  /\ adds < MaxAddPairs
  /\ LateAddPair \/ ~finished
  /\ InternalAddPair(x, y)
  /\ finished' = FALSE
  /\ pairs' = pairs \cup {<<x, y>>}
  /\ adds' = adds + 1
  /\ UNCHANGED <<nrNTClasses, nrNTElems, dead, timedOut, pc, cur, gi, si,
                 ni, normMax, timeouts>>

\* P::word_to_class_index(w) once run() has returned finished: the const
\* lookup interns an element it has not seen (get_index is called on a
\* const object through mutable members).  Unfinished, it returns UNDEFINED
\* and changes nothing.
WordToClassIndex(x) ==
  /\ pc = "idle"
  /\ finished
  /\ LET s == GetIndex(Store, x)
     IN  /\ rm' = s.rm
         /\ uf' = s.uf
         /\ cl' = s.cl
         /\ nextClass' = s.nc
  /\ UNCHANGED <<found, queue, nrNTClasses, nrNTElems, finished, dead,
                 timedOut, pc, cur, gi, si, ni, normMax, pairs, adds,
                 timeouts>>

-----------------------------------------------------------------------------
(* P::run()                                                                 *)

\* Lines 130-136: return at once if finished or dead, otherwise init().
RunStart ==
  /\ pc = "idle"
  /\ ~finished
  /\ ~dead
  /\ pc' = "loop"
  /\ UNCHANGED <<rm, uf, found, queue, cl, nextClass, nrNTClasses,
                 nrNTElems, finished, dead, timedOut, cur, gi, si, ni,
                 normMax, pairs, adds, timeouts>>

\* Lines 137-142: the loop test holds; pop the next pair.
LoopIter ==
  /\ pc = "loop"
  /\ queue # <<>>
  /\ ~dead
  /\ ~timedOut
  /\ cur' = Head(queue)
  /\ queue' = Tail(queue)
  /\ gi' = 1
  /\ si' = 1
  /\ pc' = "mult"
  /\ UNCHANGED <<rm, uf, found, cl, nextClass, nrNTClasses, nrNTElems,
                 finished, dead, timedOut, ni, normMax, pairs, adds,
                 timeouts>>

\* Lines 145-167: one side of one generator of the for loop.
MultStep ==
  /\ pc = "mult"
  /\ LET m == Multiple(cur, GenSeq[gi], Sides[si])
     IN  InternalAddPair(m[1], m[2])
  /\ IF si < Len(Sides)
       THEN si' = si + 1 /\ gi' = gi /\ pc' = "mult"
       ELSE /\ si' = 1
            /\ gi' = IF gi < Len(GenSeq) THEN gi + 1 ELSE 1
            /\ pc' = IF gi < Len(GenSeq) THEN "mult" ELSE "loop"
  /\ UNCHANGED <<nrNTClasses, nrNTElems, finished, dead, timedOut, cur, ni,
                 normMax, pairs, adds, timeouts>>

\* Lines 137 and 181-189: the loop has ended.  Unless dead or timed out,
\* start the renumbering of classes, which appends to _class_lookup.
LoopExit ==
  /\ pc = "loop"
  /\ queue = <<>> \/ dead \/ timedOut
  /\ IF ~dead /\ ~timedOut
       THEN /\ pc' = "norm"
            /\ IF Len(uf) > 0
                 THEN /\ cl' = Append(cl, 0)
                      /\ nextClass' = 1
                      /\ normMax' = 0
                      /\ ni' = 2
                 ELSE UNCHANGED <<cl, nextClass, normMax, ni>>
       ELSE /\ pc' = "check"
            /\ UNCHANGED <<cl, nextClass, normMax, ni>>
  /\ UNCHANGED <<rm, uf, found, queue, nrNTClasses, nrNTElems, finished,
                 dead, timedOut, cur, gi, si, pairs, adds, timeouts>>

\* Lines 190-198: one step of the renumbering loop.  A root larger than
\* every root seen opens the next class; any other index takes the class
\* of its root, read back from _class_lookup.
NormStep ==
  /\ pc = "norm"
  /\ ni <= Len(uf)
  /\ LET nr == uf[ni] - 1
     IN  IF nr > normMax
           THEN /\ cl' = Append(cl, nextClass)
                /\ nextClass' = nextClass + 1
                /\ normMax' = nr
           ELSE /\ cl' = Append(cl, cl[nr + 1])
                /\ UNCHANGED <<nextClass, normMax>>
  /\ ni' = ni + 1
  /\ UNCHANGED <<rm, uf, found, queue, nrNTClasses, nrNTElems, finished,
                 dead, timedOut, pc, cur, gi, si, pairs, adds, timeouts>>

\* Lines 201-204: record the non-trivial classes.
NormDone ==
  /\ pc = "norm"
  /\ ni > Len(uf)
  /\ nrNTClasses' = nextClass
  /\ nrNTElems' = Len(rm)
  /\ pc' = "check"
  /\ UNCHANGED <<rm, uf, found, queue, cl, nextClass, finished, dead,
                 timedOut, cur, gi, si, ni, normMax, pairs, adds, timeouts>>

\* Lines 206-218: unless dead or timed out (tested again), set finished and
\* delete_tmp_storage(); run() returns.
Finish ==
  /\ pc = "check"
  /\ IF ~dead /\ ~timedOut
       THEN /\ finished' = TRUE
            /\ found' = {}
            /\ queue' = <<>>
       ELSE UNCHANGED <<finished, found, queue>>
  /\ pc' = "idle"
  /\ timedOut' = FALSE
  /\ UNCHANGED <<rm, uf, cl, nextClass, nrNTClasses, nrNTElems, dead, cur,
                 gi, si, ni, normMax, pairs, adds, timeouts>>

-----------------------------------------------------------------------------
(* Other threads                                                            *)

\* Runner::kill(), called by a race that another runner has won.
Kill ==
  /\ ~dead
  /\ dead' = TRUE
  /\ UNCHANGED <<rm, uf, found, queue, cl, nextClass, nrNTClasses,
                 nrNTElems, finished, timedOut, pc, cur, gi, si, ni, normMax,
                 pairs, adds, timeouts>>

\* The deadline of run_for expires while run() is executing.
Timeout ==
  /\ pc \in TimeoutWindow
  /\ ~timedOut
  /\ timeouts < MaxTimeouts
  /\ timedOut' = TRUE
  /\ timeouts' = timeouts + 1
  /\ UNCHANGED <<rm, uf, found, queue, cl, nextClass, nrNTClasses,
                 nrNTElems, finished, dead, pc, cur, gi, si, ni, normMax,
                 pairs, adds>>

-----------------------------------------------------------------------------

RunStep ==
  LoopIter \/ MultStep \/ LoopExit \/ NormStep \/ NormDone \/ Finish

Next ==
  \/ \E x, y \in Elem : AddPair(x, y)
  \/ \E x \in Elem : WordToClassIndex(x)
  \/ RunStart
  \/ RunStep
  \/ Kill
  \/ Timeout

Spec == Init /\ [][Next]_vars

\* The thread that executes run() is never blocked: it keeps taking steps.
FairSpec == Spec /\ WF_vars(RunStep)

-----------------------------------------------------------------------------
(* What the computed state answers                                         *)

Interned == Range(rm)

\* P::nr_classes() once run() has returned (line 250).
NrClasses == Cardinality(Elem) - Len(cl) + nextClass

\* What const_word_to_class_index returns for the element of index k.
ClassIndex(k) == IF k \in DOMAIN cl THEN cl[k] ELSE UNDEFINED

\* The classes init_non_trivial_classes builds (lines 283-290).
NonTrivialClasses ==
  {{rm[k] : k \in {k \in 1..nrNTElems : ClassIndex(k) = c}} :
     c \in 0..(nrNTClasses - 1)}

-----------------------------------------------------------------------------
(* Properties                                                               *)

\* The type of every variable: P's containers hold interned elements, pairs
\* of them and class numbers; UF links each index to an index in range.
TypeOK ==
  /\ rm \in Seq(Elem)
  /\ uf \in [1..Len(rm) -> 1..Len(rm)]
  /\ found \subseteq Pair
  /\ queue \in Seq(Pair)
  /\ cl \in Seq(Nat)
  /\ nextClass \in Nat
  /\ nrNTClasses \in Nat \cup {UNDEFINED}
  /\ nrNTElems \in Nat \cup {UNDEFINED}
  /\ finished \in BOOLEAN
  /\ dead \in BOOLEAN
  /\ timedOut \in BOOLEAN
  /\ pc \in Phases
  /\ cur \in Pair
  /\ gi \in 1..Len(GenSeq)
  /\ si \in 1..Len(Sides)
  /\ ni \in Nat \ {0}
  /\ normMax \in Nat
  /\ pairs \subseteq Pair
  /\ adds \in 0..MaxAddPairs
  /\ timeouts \in 0..MaxTimeouts

\* The assertion of const_word_to_class_index (line 273), met by every
\* word_to_class_index once P is finished: _class_lookup has one entry per
\* interned element.  It fails if run() renumbers the classes twice.
LookupSizeAgrees ==
  finished => Len(cl) = Len(rm)

\* Once finished, word_to_class_index is right: two interned elements have
\* the same class index exactly when the generated congruence relates
\* them, their indices are 0 .. _next_class - 1 (so an element interned
\* later by a query gets a fresh one), and an element never interned is
\* related to nothing else.
ClassIndexCorrect ==
  finished =>
    LET C == Cong(pairs) IN
    /\ \A i, j \in 1..Len(rm) :
         (ClassIndex(i) = ClassIndex(j)) <=> (<<rm[i], rm[j]>> \in C)
    /\ {ClassIndex(k) : k \in 1..Len(rm)} = 0..(nextClass - 1)
    /\ \A x \in Elem \ Interned : ClassOf(C, x) = {x}

\* Once finished, nr_classes() is the number of classes of the generated
\* congruence, however many elements queries have interned since.
NrClassesCorrect ==
  finished => NrClasses = Cardinality(Classes(Cong(pairs)))

\* Once finished, the non-trivial classes P reports are exactly the classes
\* of the generated congruence with more than one element.
NonTrivialClassesCorrect ==
  finished =>
    NonTrivialClasses = {K \in Classes(Cong(pairs)) : Cardinality(K) > 1}

\* Every call of run() returns: the pair loop and the renumbering loop end.
RunTerminates == (pc # "idle") ~> (pc = "idle")

\* The class number word_to_class_index gives each element: what
\* const_word_to_class_index returns for an interned element once P is
\* finished, and UNDEFINED otherwise.
ImplIndex ==
  [x \in Elem |-> IF finished /\ x \in Interned
                   THEN ClassIndex(IndexOf(rm, x)) ELSE UNDEFINED]

Abs == INSTANCE CongSpec WITH gens <- pairs, done <- finished, index <- ImplIndex

\* P keeps the promise of the congruence interface (cong-intf.h): class
\* numbers appear only when run() returns finished, and they then agree
\* with the congruence the pairs generate and cover 0 .. n - 1.  A number,
\* once given, never changes, and an element first seen by a query gets
\* the next unused number.  A run that is killed or times out numbers
\* nothing.
Refines == Abs!Spec

\* Once finished, the class numbers of the interned elements are exactly
\* 0 .. _next_class - 1, however many elements queries have interned
\* since: word_to_class_index is onto the classes it counts.
ClassIndicesDense ==
  finished => {ClassIndex(k) : k \in 1..Len(rm)} = 0..(nextClass - 1)

\* While P stays finished, no step changes the class number of an element
\* that has one: the answer of word_to_class_index does not depend on the
\* queries made before it (cong-intf.h, lines 165-167).
IndexStable ==
  [][finished /\ finished' => \A x \in Interned : ImplIndex'[x] = ImplIndex[x]]_vars

-----------------------------------------------------------------------------
(* Strengthenings of the invariants above, inductive for the proofs in     *)
(* CongPairProofs.                                                         *)

\* The union-find links every index to a root no larger than itself.
UFBelow == \A k \in 1..Len(rm) : uf[k] <= k

\* Inside the renumbering loop, the reads of _class_lookup stay in range.
NormBounds ==
  (pc = "norm" /\ Len(uf) > 0) =>
    /\ 2 <= ni
    /\ normMax + 2 <= ni
    /\ ni <= Len(cl) + 1

\* The type invariant strengthened so that it is inductive.
TypeInv == TypeOK /\ UFBelow /\ NormBounds

\* How long _class_lookup is at each point of run() and between calls,
\* when the caller keeps to the contract and no deadline expires after the
\* pair loop.
SizeInv ==
  /\ finished => Len(cl) = Len(rm)
  /\ (pc = "idle" /\ ~finished /\ ~dead) => Len(cl) = 0
  /\ pc \in {"loop", "mult"} => ~finished /\ Len(cl) = 0
  /\ pc = "norm" =>
       /\ ~finished
       /\ ~timedOut
       /\ \/ Len(uf) = 0 /\ Len(cl) = 0
          \/ Len(uf) > 0 /\ Len(cl) = ni - 1 /\ ni <= Len(uf) + 1
  /\ pc = "check" =>
       /\ ~finished
       /\ timedOut => Len(cl) = 0
       /\ (~dead /\ ~timedOut) => Len(cl) = Len(rm)

\* The inductive strengthening of LookupSizeAgrees.
SizeIInv == TypeInv /\ SizeInv

\* The class numbers in _class_lookup are exactly 0 .. _next_class - 1.
DenseClasses == {cl[k] : k \in 1..Len(cl)} = 0..(nextClass - 1)

\* The inductive strengthening of ClassIndicesDense.
NumberingIInv == SizeIInv /\ DenseClasses

\* _reverse_map holds each interned element once: get_index appends only
\* an element _map does not hold.
RmInjective == \A i, j \in 1..Len(rm) : rm[i] = rm[j] => i = j

=============================================================================
