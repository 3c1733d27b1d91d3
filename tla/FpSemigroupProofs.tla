-------------------------- MODULE FpSemigroupProofs --------------------------
(***************************************************************************)
(* Proofs about the FpSemigroup facade: when the caller adds no rule once  *)
(* a query has started the race, every answer comes from the finished     *)
(* winner and from exactly the accepted rules, and nr_rules counts them.   *)
(***************************************************************************)
EXTENDS FpSemigroup, FiniteSetTheorems, TLAPS

\* Before the race both runners agree on the alphabet, so add_rule's loop
\* either reaches the end or throws at the first runner: the rule is taken
\* by both runners or by neither.
LEMMA TookAllOrNone ==
  ASSUME race = <<TC, KB>>, ralpha[TC] = ralpha[KB],
         rstate[TC] = "ready", rstate[KB] = "ready",
         NEW valid \in BOOLEAN
  PROVE  \/ /\ FirstThrow(valid) > Len(race)
            /\ Took(valid) = Runner
         \/ /\ ~(FirstThrow(valid) > Len(race))
            /\ Took(valid) = {}
<1> DEFINE throws == {k \in 1..Len(race) : ~RunnerAccepts(race[k], valid)}
<1>1. RunnerAccepts(TC, valid) <=> RunnerAccepts(KB, valid)
  BY DEF RunnerAccepts
<1>2. CASE RunnerAccepts(TC, valid)
  <2>1. throws = {}
    BY <1>1, <1>2
  <2>2. FirstThrow(valid) = 3
    BY <2>1 DEF FirstThrow
  <2>3. Took(valid) = Runner
    BY <2>2 DEF Took, Runner
  <2>4. QED
    BY <2>2, <2>3
<1>3. CASE ~RunnerAccepts(TC, valid)
  <2>1. 1 \in throws
    BY <1>3
  <2>2. throws \subseteq 1..2
    OBVIOUS
  <2>3. \E k \in throws : \A j \in throws : k <= j
    BY <2>1, <2>2
  <2>4. LET c == CHOOSE k \in throws : \A j \in throws : k <= j
        IN  c \in throws /\ \A j \in throws : c <= j
    BY <2>3
  <2>5. FirstThrow(valid) = CHOOSE k \in throws : \A j \in throws : k <= j
    BY <2>1 DEF FirstThrow
  <2>6. FirstThrow(valid) = 1
    BY <2>1, <2>2, <2>4, <2>5
  <2>7. Took(valid) = {}
    BY <2>6 DEF Took
  <2>8. QED
    BY <2>6, <2>7
<1>4. QED
  BY <1>2, <1>3

\* The initial states of every constructor satisfy RaceInv.
LEMMA InitRaceInv == Init => RaceInv
<1> SUFFICES ASSUME Init PROVE RaceInv
  OBVIOUS
<1>1. PICK ctor \in Ctors : race = RaceOf(ctor) /\ alphaSet = (ctor = "parent")
                           /\ ralpha = [r \in Runner |-> ctor = "parent"]
                           /\ rrules = [r \in Runner |-> {}]
                           /\ rstate = [r \in Runner |-> "ready"]
                           /\ winner = NoRunner /\ caller = "idle"
                           /\ accepted = {} /\ calls = 0 /\ answer = NoAnswer
  BY DEF Init
<1>2. TypeOK
  BY <1>1, FpAssumption DEF TypeOK, RaceOf, Runner, RunnerStates, NoRunner
<1>3. QED
  BY <1>1, <1>2 DEF RaceInv, RaceOf, Runner, NoRunner

\* Each step of the facade, the race and the runners keeps RaceInv, as
\* long as add_rule is called only before the race.
LEMMA NextRaceInv ==
  ASSUME ~LateAddRule
  PROVE  RaceInv /\ [Next]_vars => RaceInv'
<1> SUFFICES ASSUME RaceInv, [Next]_vars PROVE RaceInv'
  OBVIOUS
<1> USE FpAssumption DEF RaceInv, TypeOK
<1>1. CASE SetAlphabet
  <2>1. alphaSet' \in BOOLEAN
    BY <1>1 DEF SetAlphabet
  <2>2. ralpha' \in [Runner -> BOOLEAN]
    BY <1>1, Zenon DEF SetAlphabet
  <2>3. race # <<>> => ralpha'[TC] = ralpha'[KB]
    <3>1. race # <<>> => RaceSet = Runner
      BY DEF RaceSet, Runner
    <3>2. race # <<>> => ralpha' = [r \in Runner |-> TRUE]
      BY <1>1, <3>1 DEF SetAlphabet
    <3>3. QED
      BY <3>2, Zenon DEF Runner
  <2>4. QED
    BY <1>1, <2>1, <2>2, <2>3 DEF SetAlphabet
<1>2. ASSUME NEW valid \in BOOLEAN, AddRule(valid) PROVE RaceInv'
  <2>1. race = <<TC, KB>>
    BY <1>2 DEF AddRule
  <2>2. RaceSet = Runner
    BY <2>1 DEF RaceSet, Runner
  <2>3. rstate[TC] = "ready" /\ rstate[KB] = "ready"
    BY <1>2, <2>2 DEF AddRule, Runner
  <2>4. winner = NoRunner /\ answer = NoAnswer
    BY <2>3 DEF NoRunner, Runner
  <2>5. calls' \in 1..MaxRules
    BY <1>2 DEF AddRule
  <2>0. alphaSet' \in BOOLEAN /\ ralpha' \in [Runner -> BOOLEAN] /\ ralpha' = ralpha
    BY <1>2, Zenon DEF AddRule
  <2>6. CASE FirstThrow(valid) > Len(race) /\ Took(valid) = Runner
    <3>1. rrules' = [r \in Runner |-> rrules[r] \cup {calls'}]
      BY <1>2, <2>6 DEF AddRule
    <3>2. accepted' = accepted \cup {calls'}
      BY <1>2, <2>6 DEF AddRule
    <3>3. TypeOK'
      BY <1>2, <2>0, <2>5, <3>1, <3>2 DEF AddRule
    <3>4. QED
      BY <1>2, <2>1, <2>4, <3>1, <3>2, <3>3 DEF AddRule, Runner
  <2>7. CASE ~(FirstThrow(valid) > Len(race)) /\ Took(valid) = {}
    <3>1. rrules' = rrules
      BY <1>2, <2>7 DEF AddRule, Runner
    <3>2. accepted' = accepted
      BY <1>2, <2>7 DEF AddRule
    <3>3. TypeOK'
      BY <1>2, <2>0, <3>1, <3>2 DEF AddRule
    <3>4. QED
      BY <1>2, <2>1, <2>4, <3>1, <3>2, <3>3 DEF AddRule
  <2>8. QED
    BY <2>1, <2>3, <2>6, <2>7, TookAllOrNone
<1>3. CASE EmptyRaceThrows
  BY <1>3 DEF EmptyRaceThrows
<1>4. ASSUME NEW q \in Queries, Ask(q) PROVE RaceInv'
  <2>1. race # <<>>
    BY <1>4 DEF Ask
  <2>2. winner # NoRunner => rstate'[winner] = "finished"
    BY <1>4 DEF Ask, Runner, NoRunner
  <2>3. rstate' \in [Runner -> RunnerStates]
    BY <1>4 DEF Ask, RunnerStates
  <2>4. QED
    BY <1>4, <2>1, <2>2, <2>3 DEF Ask
<1>5. ASSUME NEW r \in Runner, RunnerFinish(r) PROVE RaceInv'
  <2>1. race # <<>>
    BY <1>5 DEF RunnerFinish, Runner
  <2>2. winner' \in Runner /\ rstate'[winner'] = "finished"
    BY <1>5 DEF RunnerFinish, Runner, NoRunner, RunnerStates
  <2>3. answer # NoAnswer => winner' = winner
    BY <1>5 DEF RunnerFinish
  <2>4. rstate' \in [Runner -> RunnerStates]
    BY <1>5 DEF RunnerFinish, RunnerStates
  <2>5. QED
    BY <1>5, <2>1, <2>2, <2>3, <2>4 DEF RunnerFinish
<1>6. ASSUME NEW r \in Runner, RunnerStop(r) PROVE RaceInv'
  <2>1. race # <<>>
    BY <1>6 DEF RunnerStop, Runner
  <2>2. winner # NoRunner => rstate'[winner] = "finished"
    BY <1>6 DEF RunnerStop
  <2>3. rstate' \in [Runner -> RunnerStates]
    BY <1>6 DEF RunnerStop, RunnerStates
  <2>4. QED
    BY <1>6, <2>1, <2>2, <2>3 DEF RunnerStop
<1>7. CASE Reply
  <2>1. race # <<>>
    BY <1>7 DEF Reply, NoRunner, Runner
  <2>2. caller = "run" => answer' = answer
    BY <1>7 DEF Reply
  <2>3. caller # "run" => answer' = [op |-> caller, from |-> winner,
                                     rules |-> rrules[winner]]
    BY <1>7 DEF Reply
  <2>4. winner \in Runner
    BY <1>7 DEF Reply, Runner, NoRunner
  <2>5. rrules[winner] = accepted
    BY <2>1, <2>4 DEF Runner
  <2>6. answer' \in {NoAnswer} \cup
                    [op : Queries, from : Runner, rules : SUBSET (1..MaxRules)]
    BY <1>7, <2>2, <2>3, <2>4 DEF Reply
  <2>7. answer' # NoAnswer => /\ winner' # NoRunner
                              /\ answer'.from = winner'
                              /\ answer'.rules = accepted'
    BY <1>7, <2>2, <2>3, <2>5 DEF Reply
  <2>8. QED
    BY <1>7, <2>6, <2>7 DEF Reply
<1>8. CASE UNCHANGED vars
  BY <1>8 DEF vars
<1>9. QED
  BY <1>1, <1>2, <1>3, <1>4, <1>5, <1>6, <1>7, <1>8 DEF Next

-----------------------------------------------------------------------------

\* When the caller adds every rule before the first query, every answer of
\* equal_to, normal_form and size comes from a runner that finished, and
\* from exactly the rules of the add_rule calls that returned normally.
THEOREM WinnerAnswersHold ==
  ASSUME ~LateAddRule
  PROVE  Spec => []WinnerAnswers
<1>1. RaceInv => WinnerAnswers
  BY DEF RaceInv, WinnerAnswers
<1>2. QED
  BY <1>1, InitRaceInv, NextRaceInv, PTL DEF Spec

\* Under the same contract nr_rules(), the first runner's count, is the
\* number of add_rule calls that returned normally.
THEOREM NrRulesAgreesHolds ==
  ASSUME ~LateAddRule
  PROVE  Spec => []NrRulesAgrees
<1>1. RaceInv => NrRulesAgrees
  <2> SUFFICES ASSUME RaceInv PROVE NrRulesAgrees
    OBVIOUS
  <2>1. CASE race = <<>>
    BY <2>1, FS_EmptySet DEF RaceInv, NrRulesAgrees, NrRules
  <2>2. CASE race # <<>>
    <3>1. race = <<TC, KB>>
      BY <2>2 DEF RaceInv, TypeOK
    <3>2. rrules[race[1]] = accepted
      BY <3>1 DEF RaceInv
    <3>3. QED
      BY <2>2, <3>2 DEF NrRulesAgrees, NrRules
  <2>3. QED
    BY <2>1, <2>2
<1>2. QED
  BY <1>1, InitRaceInv, NextRaceInv, PTL DEF Spec

=============================================================================
