--------------------------- MODULE MC_WrappedPair ---------------------------
(***************************************************************************)
(* Instance of WrappedPair for TLC: fpsemigroup::P over the full           *)
(* transformation monoid T_2, generated by the transposition and a         *)
(* constant map (as in MC_CongPair), with the alphabet "ab".  The caller's *)
(* inputs include an invalid string and an empty and an invalid word.      *)
(***************************************************************************)
EXTENDS WrappedPair, TLC

Points == {1, 2}

MCElem == [Points -> Points]

MCMult == [p \in MCElem \X MCElem |-> [k \in Points |-> p[2][p[1][k]]]]

\* The transposition (1 2) and the constant map to 1.
MCGenSeq == << (1 :> 2 @@ 2 :> 1), (1 :> 1 @@ 2 :> 1) >>

MCAlphabet == <<"a", "b">>

\* "a", "ab" and the invalid "c".
MCStrings == { <<"a">>, <<"a", "b">>, <<"c">> }

\* b, ba, the empty word and the invalid letter 2.
MCWords == { <<1>>, <<1, 0>>, <<>>, <<2>> }

\* The hypothesis of WrappedPairProofs holds for these inputs.
ASSUME InputsEvaluate

=============================================================================
