---------------------------- MODULE KBPairProofs ----------------------------
(***************************************************************************)
(* Proofs that KBP::run takes its parent only from a KnuthBendix that      *)
(* stopped on its own: the test of stopped() between run_until and         *)
(* set_parent (cong-pair.hpp, lines 481-483) keeps out every run_until     *)
(* that the KBP's own kill or deadline interrupted.  When nobody else owns *)
(* _kb, the parent therefore comes from a KnuthBendix that has finished;   *)
(* the run kbp_shared_kb shows that this fails when another owner may kill *)
(* _kb.                                                                    *)
(***************************************************************************)
EXTENDS KBPair, TLAPS

\* The inductive invariant: the KBP's stopped flags do not clear while
\* KBP::run waits on _kb or is about to test stopped(), because P::run
\* takes no step then; so after run_until either _kb has stopped on its
\* own or the KBP is stopped.
KBInv ==
  /\ kpc \in {"idle", "kb", "check"}
  /\ hasParent => kbDone \/ kbKilled
  /\ kpc \in {"kb", "check"} => pc = "idle"
  /\ kpc = "check" => kbDone \/ kbKilled \/ dead \/ timedOut

LEMMA InitKBInv == Init => KBInv
<1> SUFFICES ASSUME Init PROVE KBInv
  OBVIOUS
<1>1. kpc = "idle" /\ hasParent = FALSE
  BY DEF Init
<1>2. QED
  BY <1>1 DEF KBInv

\* Each step keeps KBInv, whoever owns _kb.
LEMMA NextKBInv == KBInv /\ [Next]_vars => KBInv'
<1> SUFFICES ASSUME KBInv, [Next]_vars PROVE KBInv'
  OBVIOUS
<1>1. ASSUME NEW x \in Elem, NEW y \in Elem, AddPair(x, y) PROVE KBInv'
  <2>1. kpc = "idle" /\ UNCHANGED kbpVars
    BY <1>1 DEF AddPair
  <2>2. QED
    BY <2>1 DEF KBInv, kbpVars
<1>2. CASE KBPRunStart
  <2>1. kpc = "idle" /\ pc = "idle" /\ kpc' = "kb"
    BY <1>2 DEF KBPRunStart
  <2>2. UNCHANGED <<congVars, kbDone, kbKilled, hasParent>>
    BY <1>2 DEF KBPRunStart
  <2>3. QED
    BY <2>1, <2>2 DEF KBInv, congVars
<1>3. CASE KBRunUntil
  <2>1. kpc = "kb" /\ kpc' = "check"
    BY <1>3 DEF KBRunUntil
  <2>2. UNCHANGED <<congVars, kbKilled, hasParent>>
    BY <1>3 DEF KBRunUntil
  <2>3. kbDone' \/ kbKilled \/ dead \/ timedOut
    BY <1>3 DEF KBRunUntil
  <2>4. kbDone => kbDone'
    BY <1>3 DEF KBRunUntil
  <2>5. QED
    BY <2>1, <2>2, <2>3, <2>4 DEF KBInv, congVars
<1>4. CASE KBPCheck
  <2>1. kpc = "check" /\ kpc' = "idle"
    BY <1>4 DEF KBPCheck
  <2>2. kbDone' = kbDone /\ kbKilled' = kbKilled
    BY <1>4 DEF KBPCheck
  <2>3. CASE ~Stopped
    <3>1. kbDone \/ kbKilled
      BY <2>1, <2>3 DEF KBInv, Stopped
    <3>2. QED
      BY <2>1, <2>2, <3>1 DEF KBInv
  <2>4. CASE Stopped
    <3>1. hasParent' = hasParent
      BY <1>4, <2>4 DEF KBPCheck
    <3>2. QED
      BY <2>1, <2>2, <3>1 DEF KBInv
  <2>5. QED
    BY <2>3, <2>4
<1>5. CASE PStep
  <2>1. UNCHANGED kbpVars
    BY <1>5 DEF PStep
  <2>2. pc # "idle"
    BY <1>5 DEF PStep, Cong!RunStep, Cong!LoopIter, Cong!MultStep,
                Cong!LoopExit, Cong!NormStep, Cong!NormDone, Cong!Finish
  <2>3. kpc = "idle"
    BY <2>2 DEF KBInv
  <2>4. QED
    BY <2>1, <2>3 DEF KBInv, kbpVars
<1>6. CASE Kill
  <2>1. UNCHANGED kbpVars /\ dead' = TRUE /\ pc' = pc
    BY <1>6 DEF Kill, Cong!Kill
  <2>2. QED
    BY <2>1 DEF KBInv, kbpVars
<1>7. CASE Timeout
  <2>1. UNCHANGED kbpVars /\ timedOut' = TRUE /\ pc' = pc
    BY <1>7 DEF Timeout, Cong!Timeout
  <2>2. QED
    BY <2>1 DEF KBInv, kbpVars
<1>8. CASE KBKill
  <2>1. kbKilled' = TRUE
    BY <1>8 DEF KBKill
  <2>2. UNCHANGED <<congVars, kpc, kbDone, hasParent>>
    BY <1>8 DEF KBKill
  <2>3. QED
    BY <2>1, <2>2 DEF KBInv, congVars
<1>9. CASE UNCHANGED vars
  BY <1>9 DEF KBInv, vars, congVars, kbpVars
<1>10. QED
  BY <1>1, <1>2, <1>3, <1>4, <1>5, <1>6, <1>7, <1>8, <1>9 DEF Next

\* Whoever owns _kb and whenever the KBP is killed or its deadline
\* expires, set_parent at line 483 never reads a _kb whose run_until the
\* KBP cut short itself (ParentNotFromInterruptedKB, checked by the run
\* kbp_shared).
THEOREM ParentNotFromInterruptedKBHolds == Spec => []ParentNotFromInterruptedKB
<1>1. KBInv => ParentNotFromInterruptedKB
  BY DEF KBInv, ParentNotFromInterruptedKB
<1>2. QED
  BY <1>1, InitKBInv, NextKBInv, PTL DEF Spec

\* With no other owner, _kb is never killed.
LEMMA NotKilled ==
  ASSUME ~SharedKB
  PROVE  Spec => []~kbKilled
<1>1. Init => ~kbKilled
  BY DEF Init
<1>2. ~kbKilled /\ [Next]_vars => ~kbKilled'
  BY DEF Next, AddPair, KBPRunStart, KBRunUntil, KBPCheck, PStep, Kill,
    Timeout, KBKill, vars, kbpVars
<1>3. QED
  BY <1>1, <1>2, PTL DEF Spec

\* When no one but the KBP owns _kb, set_parent at line 483 only ever
\* reads a KnuthBendix that has finished.
THEOREM ParentFromFinishedKBHolds ==
  ASSUME ~SharedKB
  PROVE  Spec => []ParentFromFinishedKB
<1>1. ParentNotFromInterruptedKB /\ ~kbKilled => ParentFromFinishedKB
  BY DEF ParentNotFromInterruptedKB, ParentFromFinishedKB
<1>2. QED
  BY <1>1, NotKilled, ParentNotFromInterruptedKBHolds, PTL

=============================================================================
