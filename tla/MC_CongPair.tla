---------------------------- MODULE MC_CongPair ----------------------------
(***************************************************************************)
(* Instance of CongPair for TLC: the parent semigroup is the full          *)
(* transformation monoid T_2 of the maps {1,2} -> {1,2}, generated by the  *)
(* transposition and a constant map, as libsemigroups' Transformation     *)
(* multiplies (x * y first applies x, then y).                             *)
(***************************************************************************)
EXTENDS CongPair, TLC

Points == {1, 2}

MCElem == [Points -> Points]

MCMult == [p \in MCElem \X MCElem |-> [k \in Points |-> p[2][p[1][k]]]]

\* The transposition (1 2) and the constant map to 1.
MCGenSeq == << (1 :> 2 @@ 2 :> 1), (1 :> 1 @@ 2 :> 1) >>

=============================================================================
