----------------------------- MODULE FpSemigroup -----------------------------
(***************************************************************************)
(* The facade FpSemigroup of src/fpsemi.cpp: it holds a Race of runners    *)
(* (a Todd-Coxeter and a Knuth-Bendix), broadcasts the alphabet and every  *)
(* rule to each of them, and answers queries from the race's winner.       *)
(*                                                                         *)
(* A rule is abstracted to the number of the add_rule call that passed it  *)
(* and whether its words are valid: what the properties tell apart is      *)
(* which runner holds which rules.  The runners' own add_rule and run, and *)
(* the Race, are not under src/ and are modelled from their specified      *)
(* behaviour: a runner rejects a rule when it has no alphabet, when the    *)
(* rule is invalid and, once finished, with PrematureMutation; the race    *)
(* starts every runner on the first query, the first to finish is the    *)
(* winner and the others are killed.                                       *)
(***************************************************************************)
EXTENDS Naturals, Sequences, FiniteSets

CONSTANTS
  Ctors,        \* the constructors the program may use: "standard", "none"
                \* (FpSemigroup(policy)) and "parent" (FpSemigroup(S))
  MaxRules,     \* bound on the number of add_rule calls
  LateAddRule   \* whether the caller may call add_rule once a query has
                \* started the race

ASSUME FpAssumption ==
  /\ Ctors \subseteq {"standard", "none", "parent"} /\ Ctors # {}
  /\ MaxRules \in Nat
  /\ LateAddRule \in BOOLEAN

\* The runners, in the order the constructors add them to _race.
TC == "todd_coxeter"
KB == "knuth_bendix"
Runner == {TC, KB}
NoRunner == "none"

RunnerStates == {"ready", "running", "finished", "dead"}
Queries == {"run", "equal_to", "normal_form", "size"}

VARIABLES
  race,      \* _race, as the sequence of its runners
  alphaSet,  \* is_alphabet_defined() of the facade
  ralpha,    \* is_alphabet_defined() of each runner
  rrules,    \* the rules each runner has accepted
  rstate,    \* each runner's Runner state
  winner,    \* the winner the race recorded, or NoRunner
  caller,    \* "idle", or the query the caller is blocked in
  accepted,  \* history: the add_rule calls that returned normally
  calls,     \* history: the number of add_rule calls made
  answer     \* the last query's answer: which runner gave it, from which rules

vars == <<race, alphaSet, ralpha, rrules, rstate, winner, caller, accepted,
          calls, answer>>

NoAnswer == [op |-> "none"]

RaceOf(ctor) == IF ctor = "none" THEN <<>> ELSE <<TC, KB>>

RaceSet == {race[k] : k \in DOMAIN race}

-----------------------------------------------------------------------------
(* The runners' add_rule, from the congruence contract.                    *)

\* A runner's add_rule(lhs, rhs) returns normally: its alphabet is set, the
\* words are valid, and it has not finished.
RunnerAccepts(r, valid) == ralpha[r] /\ valid /\ rstate[r] # "finished"

-----------------------------------------------------------------------------
(* Plausible faults, each the mutated form of one definition below.        *)

\* add_rule's loop over _race starts at its second runner.
TookFromSecond(valid) ==
  LET throws == {k \in 2..Len(race) : ~RunnerAccepts(race[k], valid)}
      stop == IF throws = {} THEN Len(race) + 1
              ELSE CHOOSE k \in throws : \A j \in throws : k <= j
  IN  {race[k] : k \in 2..(stop - 1)}

\* The query is answered by the first runner instead of the winner.
ReplyFromFirst ==
  /\ caller \in Queries
  /\ winner # NoRunner
  /\ \A r \in RaceSet : rstate[r] # "running"
  /\ caller' = "idle"
  /\ answer' = IF caller = "run" THEN answer
               ELSE [op |-> caller, from |-> race[1], rules |-> rrules[race[1]]]
  /\ UNCHANGED <<race, alphaSet, ralpha, rrules, rstate, winner, accepted,
                 calls>>

-----------------------------------------------------------------------------

\* The position in _race of the first runner whose add_rule throws, or one
\* past the end: the loop of add_rule (lines 93-95) stops at the throw.
FirstThrow(valid) ==
  LET throws == {k \in 1..Len(race) : ~RunnerAccepts(race[k], valid)}
  IN  IF throws = {} THEN Len(race) + 1
      ELSE CHOOSE k \in throws : \A j \in throws : k <= j

\* The runners the loop of add_rule reached before the first throw: they
\* have taken the rule.
Took(valid) == {race[k] : k \in 1..(FirstThrow(valid) - 1)}

\* FpSemigroup(policy) (lines 47-59) and FpSemigroup(S) (lines 63-71): the
\* latter sets the alphabet from S's generators before adding runners made
\* from S, which take their alphabet from S.
Init ==
  \E ctor \in Ctors :
    /\ race = RaceOf(ctor)
    /\ alphaSet = (ctor = "parent")
    /\ ralpha = [r \in Runner |-> ctor = "parent"]
    /\ rrules = [r \in Runner |-> {}]
    /\ rstate = [r \in Runner |-> "ready"]
    /\ winner = NoRunner
    /\ caller = "idle"
    /\ accepted = {}
    /\ calls = 0
    /\ answer = NoAnswer

\* set_alphabet (lines 190-204): FpSemiBase::set_alphabet throws if the
\* alphabet is already set, before any runner is told; otherwise every
\* runner gets it.
SetAlphabet ==
  /\ caller = "idle"
  /\ ~alphaSet
  /\ alphaSet' = TRUE
  /\ ralpha' = [r \in Runner |-> IF r \in RaceSet THEN TRUE ELSE ralpha[r]]
  /\ UNCHANGED <<race, rrules, rstate, winner, caller, accepted, calls,
                 answer>>

\* add_rule (lines 87-96): throw if the race is empty; otherwise call each
\* runner's add_rule in turn, and stop at the first that throws, after the
\* runners before it have taken the rule.  The call returns normally when
\* none throws.
AddRule(valid) ==
  /\ caller = "idle"
  /\ calls < MaxRules
  /\ LateAddRule \/ \A r \in RaceSet : rstate[r] = "ready"
  /\ calls' = calls + 1
  /\ race # <<>>
  /\ rrules' = [r \in Runner |->
                  IF r \in Took(valid) THEN rrules[r] \cup {calls'} ELSE rrules[r]]
  /\ accepted' = IF FirstThrow(valid) > Len(race) THEN accepted \cup {calls'}
                 ELSE accepted
  /\ UNCHANGED <<race, alphaSet, ralpha, rstate, winner, caller, answer>>

\* add_rule on an empty race throws at line 89, and changes nothing.
EmptyRaceThrows ==
  /\ caller = "idle"
  /\ race = <<>>
  /\ calls < MaxRules
  /\ calls' = calls + 1
  /\ UNCHANGED <<race, alphaSet, ralpha, rrules, rstate, winner, caller,
                 accepted, answer>>

\* run (lines 79-81), equal_to (98-100), normal_form (162-164) and size
\* (175-184) call _race.winner(), which starts every runner when there is
\* no winner yet and blocks the caller until the race is over.  size asks
\* is_obviously_infinite() first, which reads the runners and changes
\* nothing; the model follows its finite branch.
Ask(q) ==
  /\ caller = "idle"
  /\ race # <<>>
  /\ caller' = q
  /\ rstate' = IF winner = NoRunner
                 THEN [r \in Runner |->
                         IF r \in RaceSet /\ rstate[r] = "ready"
                           THEN "running" ELSE rstate[r]]
                 ELSE rstate
  /\ UNCHANGED <<race, alphaSet, ralpha, rrules, winner, accepted, calls,
                 answer>>

\* A runner's run() returns finished.  The first to do so is recorded as
\* the winner and sets the others' cancellation flag; another may finish
\* before it observes the flag.
RunnerFinish(r) ==
  /\ rstate[r] = "running"
  /\ rstate' = [rstate EXCEPT ![r] = "finished"]
  /\ winner' = IF winner = NoRunner THEN r ELSE winner
  /\ UNCHANGED <<race, alphaSet, ralpha, rrules, caller, accepted, calls,
                 answer>>

\* A loser observes the cancellation flag and its run() returns.
RunnerStop(r) ==
  /\ rstate[r] = "running"
  /\ winner # NoRunner
  /\ rstate' = [rstate EXCEPT ![r] = "dead"]
  /\ UNCHANGED <<race, alphaSet, ralpha, rrules, winner, caller, accepted,
                 calls, answer>>

\* The winner is known and every runner has returned: _race.winner()
\* returns, and the query asks the winner.
Reply ==
  /\ caller \in Queries
  /\ winner # NoRunner
  /\ \A r \in RaceSet : rstate[r] # "running"
  /\ caller' = "idle"
  /\ answer' = IF caller = "run" THEN answer
               ELSE [op |-> caller, from |-> winner, rules |-> rrules[winner]]
  /\ UNCHANGED <<race, alphaSet, ralpha, rrules, rstate, winner, accepted,
                 calls>>

Next ==
  \/ SetAlphabet
  \/ \E valid \in BOOLEAN : AddRule(valid)
  \/ EmptyRaceThrows
  \/ \E q \in Queries : Ask(q)
  \/ \E r \in Runner : RunnerFinish(r)
  \/ \E r \in Runner : RunnerStop(r)
  \/ Reply

Spec == Init /\ [][Next]_vars

-----------------------------------------------------------------------------
(* Properties                                                               *)

\* nr_rules (lines 166-173): the first runner's count.
NrRules == IF race = <<>> THEN 0 ELSE Cardinality(rrules[race[1]])

\* The type of the facade's and the runners' state.
TypeOK ==
  /\ race \in {<<>>, <<TC, KB>>}
  /\ alphaSet \in BOOLEAN
  /\ ralpha \in [Runner -> BOOLEAN]
  /\ rrules \in [Runner -> SUBSET (1..MaxRules)]
  /\ rstate \in [Runner -> RunnerStates]
  /\ winner \in Runner \cup {NoRunner}
  /\ caller \in {"idle"} \cup Queries
  /\ accepted \subseteq 1..MaxRules
  /\ calls \in 0..MaxRules
  /\ answer \in {NoAnswer} \cup
                [op : Queries, from : Runner, rules : SUBSET (1..MaxRules)]

\* Every query is answered by a runner that finished, from exactly the
\* rules of the add_rule calls that returned normally: the race's winner
\* saw every rule, and no rule the caller was told failed.
WinnerAnswers ==
  answer # NoAnswer =>
    /\ rstate[answer.from] = "finished"
    /\ answer.rules = accepted

\* nr_rules() is the number of add_rule calls that returned normally.
NrRulesAgrees == NrRules = Cardinality(accepted)

-----------------------------------------------------------------------------
(* The inductive invariant behind WinnerAnswers and NrRulesAgrees, when no *)
(* rule is added once a query has started the race.                       *)

\* Before the race every runner of _race is ready, has the same alphabet
\* and holds exactly the accepted rules; once a runner is recorded as the
\* winner it has finished, and an answer comes from it.
RaceInv ==
  /\ TypeOK
  /\ race = <<>> => /\ accepted = {}
                    /\ \A r \in Runner : rstate[r] = "ready"
  /\ race # <<>> => /\ ralpha[TC] = ralpha[KB]
                    /\ rrules[TC] = accepted
                    /\ rrules[KB] = accepted
  /\ winner # NoRunner => rstate[winner] = "finished"
  /\ answer # NoAnswer => /\ winner # NoRunner
                          /\ answer.from = winner
                          /\ answer.rules = accepted

=============================================================================
