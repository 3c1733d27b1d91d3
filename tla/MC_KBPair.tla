----------------------------- MODULE MC_KBPair -----------------------------
(***************************************************************************)
(* Instance of KBPair for TLC: the semigroup Knuth-Bendix finds is T_2,    *)
(* generated by the transposition and a constant map (as in MC_CongPair). *)
(***************************************************************************)
EXTENDS KBPair, TLC

Points == {1, 2}

MCElem == [Points -> Points]

MCMult == [p \in MCElem \X MCElem |-> [k \in Points |-> p[2][p[1][k]]]]

\* The transposition (1 2) and the constant map to 1.
MCGenSeq == << (1 :> 2 @@ 2 :> 1), (1 :> 1 @@ 2 :> 1) >>

=============================================================================
