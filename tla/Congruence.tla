----------------------------- MODULE Congruence -----------------------------
(***************************************************************************)
(* The parent semigroup of a congruence and the congruence a set of        *)
(* generating pairs generates on it: the reference that the specification  *)
(* of the congruence interface (CongSpec) and the pair-closure algorithm   *)
(* (CongPair) are both stated against.                                     *)
(***************************************************************************)
EXTENDS Naturals, Sequences, FiniteSets, Functions

CONSTANTS
  Elem,          \* the elements of the parent semigroup
  Mult,          \* its multiplication table: Mult[x, y] = x * y
  GenSeq,        \* its generators, in the order prnt->generator(i) lists them
  Type           \* congruence_type: "left", "right" or "twosided"

ASSUME ParentAssumption ==
  /\ IsFiniteSet(Elem)
  /\ Mult \in [Elem \X Elem -> Elem]
  /\ GenSeq \in Seq(Elem)
  /\ Len(GenSeq) > 0
  /\ Type \in {"left", "right", "twosided"}

Pair == Elem \X Elem

GenSet == Range(GenSeq)

\* One round of closure of a relation E on Elem: symmetry, transitivity and
\* multiplication by a generator on the side(s) the congruence type names.
CloseOnce(E) ==
  E \cup {<<p[2], p[1]>> : p \in E}
    \cup {<<pq[1][1], pq[2][2]>> : pq \in {pq \in E \X E : pq[1][2] = pq[2][1]}}
    \cup {<<Mult[g, p[1]], Mult[g, p[2]]>> :
            p \in IF Type = "right" THEN {} ELSE E, g \in GenSet}
    \cup {<<Mult[p[1], g], Mult[p[2], g]>> :
            p \in IF Type = "left" THEN {} ELSE E, g \in GenSet}

\* The least congruence of the given type containing R.  Each round that
\* is not a fixed point adds a pair, so |Elem|^2 rounds reach the fixed point.
Cong(R) ==
  LET C[n \in Nat] == IF n = 0 THEN R \cup {<<x, x>> : x \in Elem}
                                ELSE CloseOnce(C[n - 1])
  IN  C[Cardinality(Elem) * Cardinality(Elem)]

ClassOf(C, x) == {y \in Elem : <<x, y>> \in C}

Classes(C) == {ClassOf(C, x) : x \in Elem}

=============================================================================
