------------------------------ MODULE CongSpec ------------------------------
(***************************************************************************)
(* What a congruence promises its caller, from the interface               *)
(* congruence::Interface of include/cong-intf.h, over a finite parent      *)
(* semigroup.                                                              *)
(*                                                                         *)
(* The caller adds generating pairs before anything is computed.  Running  *)
(* the congruence then numbers classes, and word_to_class_index maps every *)
(* element onto 0 .. n - 1, where n is the number of classes.  The number  *)
(* an element gets never changes afterwards.  The numbering may be found   *)
(* lazily: an element that is numbered only when it is first asked about   *)
(* is alone in its class, and it gets the next unused number.  Until the   *)
(* congruence has run, const_word_to_class_index answers UNDEFINED.        *)
(***************************************************************************)
EXTENDS Congruence

VARIABLES
  gens,    \* the generating pairs added so far
  done,    \* the structure of the congruence has been computed
  index    \* the class number each element has been given, or NoIndex

vars == <<gens, done, index>>

\* UNDEFINED: the answer for an element that has no class number yet.
NoIndex == -1

\* The elements that have a class number.
Numbered == {x \in Elem : index[x] # NoIndex}

\* The class numbers handed out so far.
UsedIndices == {index[x] : x \in Numbered}

\* A numbering of some of the elements that agrees with the congruence C:
\* two numbered elements share a number exactly when C relates them, the
\* numbers used are 0 .. k - 1 for some k, and an element left unnumbered
\* is alone in its class.
ConsistentNumbering(f, C) ==
  LET D == {x \in Elem : f[x] # NoIndex}
      U == {f[x] : x \in D}
  IN  /\ f \in [Elem -> Nat \cup {NoIndex}]
      /\ \A x, y \in D : (f[x] = f[y]) <=> (<<x, y>> \in C)
      /\ U = 0..(Cardinality(U) - 1)
      /\ \A x \in Elem \ D : ClassOf(C, x) = {x}

Init ==
  /\ gens = {}
  /\ done = FALSE
  /\ index = [x \in Elem |-> NoIndex]

\* add_pair: a generating pair, added before anything is computed.
AddPair(x, y) ==
  /\ ~done
  /\ gens' = gens \cup {<<x, y>>}
  /\ UNCHANGED <<done, index>>

\* Computing the structure: some elements get class numbers that agree with
\* the congruence the pairs generate.
Run ==
  /\ ~done
  /\ done' = TRUE
  /\ ConsistentNumbering(index', Cong(gens))
  /\ UNCHANGED gens

\* word_to_class_index(x) once the structure is known: the number x has, or
\* the next unused number if it has none yet.
Query(x) ==
  /\ done
  /\ index[x] = NoIndex
  /\ index' = [index EXCEPT ![x] = Cardinality(UsedIndices)]
  /\ UNCHANGED <<gens, done>>

Next ==
  \/ \E x, y \in Elem : AddPair(x, y)
  \/ Run
  \/ \E x \in Elem : Query(x)

Spec == Init /\ [][Next]_vars

=============================================================================
