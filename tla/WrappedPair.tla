----------------------------- MODULE WrappedPair -----------------------------
(***************************************************************************)
(* fpsemigroup::P, the finitely presented semigroup facade                 *)
(* WrappedCong<congruence::P, false> of include/cong-pair.hpp (lines       *)
(* 516-525), over a parent semigroup S: the methods of include/cong-wrap.h *)
(* composed with the model CongPair of the wrapped two-sided congruence.   *)
(*                                                                         *)
(* The facade is built with WrappedCong(S), whose alphabet has one letter *)
(* per generator of S (TAddRules is false, so no rule of S is added).      *)
(* WrappedCong() and WrappedCong(alphabet) would build the wrapped P with  *)
(* P(congruence_type), which is protected (cong-pair.hpp, lines 75-87):    *)
(* fpsemigroup::P cannot be built without a parent.                        *)
(* A string is a sequence of characters of Alphabet; a word a sequence of  *)
(* letter indices 0 .. Len(Alphabet) - 1.                                  *)
(*                                                                         *)
(* The facade is a Runner of its own: kill() and a run_for deadline set    *)
(* its flags, not those of the wrapped P, whose run() alone tests them;    *)
(* only finished() is passed between the two (lines 74-83).               *)
(***************************************************************************)
EXTENDS Naturals, Sequences, FiniteSets

CONSTANTS
  Elem, Mult, GenSeq,          \* the parent semigroup S, as in CongPair
  MaxAddPairs, LateAddPair,    \* as in CongPair
  Alphabet,   \* the characters of the alphabet, in letter order
  Strings,    \* the strings the caller passes to add_rule(string, string)
  Words       \* the words the caller passes to add_rule(word, word) and
              \* to the queries

ASSUME InputAssumption ==
  /\ IsFiniteSet(Elem) /\ Mult \in [Elem \X Elem -> Elem]
  /\ GenSeq \in Seq(Elem) /\ Len(GenSeq) > 0
  /\ MaxAddPairs \in Nat /\ LateAddPair \in BOOLEAN
  /\ Alphabet \in Seq(STRING)
  /\ Len(Alphabet) = Len(GenSeq)
  /\ \A i, j \in DOMAIN Alphabet : Alphabet[i] = Alphabet[j] => i = j
  /\ IsFiniteSet(Strings) /\ Strings \subseteq Seq(STRING)
  /\ IsFiniteSet(Words) /\ Words \subseteq Seq(Nat)

VARIABLES
  rm, uf, found, queue, cl, nextClass, nrNTClasses, nrNTElems, finished,
  dead, timedOut, pc, cur, gi, si, ni, normMax, pairs, adds, timeouts,
  nrRules,    \* WrappedCong::_nr_rules
  rules,      \* history: the rules add_rule accepted, as pairs of words
  fin,        \* the facade's own Runner finished flag
  wdead,      \* the facade's own Runner dead flag, set by kill()
  answer      \* the value the last query returned

\* The wrapped congruence: the constructor makes it two-sided (line 53).
\* Nothing can reach its private Runner flags, so it is neither killed nor
\* given a deadline: MaxTimeouts is 0.
Cong == INSTANCE CongPair WITH Type <- "twosided", MaxTimeouts <- 0,
                               TimeoutWindow <- {}

congVars == <<rm, uf, found, queue, cl, nextClass, nrNTClasses, nrNTElems,
              finished, dead, timedOut, pc, cur, gi, si, ni, normMax, pairs,
              adds, timeouts>>

facadeVars == <<nrRules, rules, fin, wdead, answer>>

vars == <<congVars, facadeVars>>

NoAnswer == [op |-> "none"]

-----------------------------------------------------------------------------
(* Conversions of the facade's base class and of the parent                *)

\* validate_word: every letter is a letter of the alphabet.
ValidWord(w) == \A k \in DOMAIN w : w[k] < Len(Alphabet)

\* validate_word on a string: every character is in the alphabet.
ValidString(s) == \A k \in DOMAIN s : \E i \in DOMAIN Alphabet : Alphabet[i] = s[k]

\* string_to_word: each character becomes the index of its letter.
StringToWord(s) ==
  [k \in DOMAIN s |-> (CHOOSE i \in DOMAIN Alphabet : Alphabet[i] = s[k]) - 1]

\* word_to_element of the parent: the product of the generators the
\* letters name, from left to right.
Eval(w) ==
  LET gen(a) == GenSeq[a + 1]
      prod[k \in 1..Len(w)] ==
        IF k = 1 THEN gen(w[1]) ELSE Mult[prod[k - 1], gen(w[k])]
  IN  prod[Len(w)]

-----------------------------------------------------------------------------
(* Plausible faults, each the mutated form of one definition below.        *)

\* add_rule forwards the left-hand side twice.
AddRuleStringSameSides(l, r) ==
  /\ ValidString(l) /\ ValidString(r)
  /\ nrRules' = nrRules + 1
  /\ Cong!AddPair(Eval(StringToWord(l)), Eval(StringToWord(l)))
  /\ rules' = Append(rules, <<StringToWord(l), StringToWord(r)>>)
  /\ answer' = NoAnswer
  /\ UNCHANGED <<fin, wdead>>

-----------------------------------------------------------------------------

\* WrappedCong(S), lines 50-58: the wrapped P(TWOSIDED, S), and the
\* alphabet set from S (so set_alphabet, which throws once it is set, has
\* no effect on this facade).
Init ==
  /\ Cong!Init
  /\ nrRules = 0
  /\ rules = <<>>
  /\ fin = FALSE
  /\ wdead = FALSE
  /\ answer = NoAnswer

\* add_rule(string, string), lines 89-100: the alphabet is defined;
\* validate both sides, count the rule, then add the pair to the wrapped
\* congruence (P::add_pair, cong-pair.hpp lines 225-236).
AddRuleString(l, r) ==
  /\ ValidString(l) /\ ValidString(r)
  /\ nrRules' = nrRules + 1
  /\ Cong!AddPair(Eval(StringToWord(l)), Eval(StringToWord(r)))
  /\ rules' = Append(rules, <<StringToWord(l), StringToWord(r)>>)
  /\ answer' = NoAnswer
  /\ UNCHANGED <<fin, wdead>>

\* add_rule(word, word), lines 139-146: reject empty and invalid words,
\* then add the pair to the wrapped congruence.
AddRuleWord(l, r) ==
  /\ l # <<>> /\ r # <<>>
  /\ ValidWord(l) /\ ValidWord(r)
  /\ Cong!AddPair(Eval(l), Eval(r))
  /\ rules' = Append(rules, <<l, r>>)
  /\ answer' = NoAnswer
  /\ UNCHANGED <<nrRules, fin, wdead>>

\* run(), lines 70-72: the wrapped P runs; its steps follow.
Run ==
  /\ Cong!RunStart
  /\ UNCHANGED facadeVars

\* A step of the wrapped P::run() in progress.
CongStep ==
  /\ Cong!RunStep
  /\ UNCHANGED facadeVars

\* finished(), lines 74-83: copy the wrapped flag into the facade's own.
Finished ==
  /\ fin' = finished
  /\ UNCHANGED <<congVars, nrRules, rules, wdead, answer>>

\* size(), lines 110-112: nr_classes() of the wrapped congruence, once its
\* run() has returned finished.
Size ==
  /\ pc = "idle"
  /\ finished
  /\ answer' = [op |-> "size", val |-> Cong!NrClasses]
  /\ UNCHANGED <<congVars, nrRules, rules, fin, wdead>>

\* CongBase::contains on two equal words: true, with nothing interned.
EqualWords(l, r) ==
  /\ l = r
  /\ answer' = [op |-> "equal_to", lhs |-> l, rhs |-> r, val |-> TRUE]
  /\ UNCHANGED congVars

\* CongBase::contains on two different words: compare their class
\* indices, interning each element that P has not seen yet.
DifferentWords(l, r) ==
  /\ l # r
  /\ LET s1 == Cong!GetIndex(Cong!Store, Eval(l))
         s2 == Cong!GetIndex(s1, Eval(r))
         cls(e) == s2.cl[Cong!IndexOf(s2.rm, e)]
     IN  /\ rm' = s2.rm
         /\ uf' = s2.uf
         /\ cl' = s2.cl
         /\ nextClass' = s2.nc
         /\ answer' = [op |-> "equal_to", lhs |-> l, rhs |-> r,
                       val |-> cls(Eval(l)) = cls(Eval(r))]
  /\ UNCHANGED <<found, queue, nrNTClasses, nrNTElems, finished, dead,
                 timedOut, pc, cur, gi, si, ni, normMax, pairs, adds,
                 timeouts>>

\* equal_to(lhs, rhs), lines 114-116 and 150-152: contains() of the wrapped
\* congruence, answered once its run() has returned finished.
EqualTo(l, r) ==
  /\ pc = "idle"
  /\ finished
  /\ EqualWords(l, r) \/ DifferentWords(l, r)
  /\ UNCHANGED <<nrRules, rules, fin, wdead>>

\* normal_form(w), lines 120-123 and 156-159: word_to_class_index interns
\* the element, then class_index_to_word throws "not yet implemented".
NormalForm(w) ==
  /\ Cong!WordToClassIndex(Eval(w))
  /\ UNCHANGED facadeVars

\* Runner::kill() on the facade, by a race it has lost.
Kill ==
  /\ ~wdead
  /\ wdead' = TRUE
  /\ UNCHANGED <<congVars, nrRules, rules, fin, answer>>

Next ==
  \/ \E l, r \in Strings : AddRuleString(l, r)
  \/ \E l, r \in Words : AddRuleWord(l, r)
  \/ Run
  \/ CongStep
  \/ Finished
  \/ Size
  \/ \E l, r \in Words \ {<<>>} : ValidWord(l) /\ ValidWord(r) /\ EqualTo(l, r)
  \/ \E w \in Words \ {<<>>} : ValidWord(w) /\ NormalForm(w)
  \/ Kill

Spec == Init /\ [][Next]_vars

\* The wrapped P's run() is never blocked: it keeps taking steps.
FairSpec == Spec /\ WF_vars(CongStep)

-----------------------------------------------------------------------------
(* Properties                                                               *)

\* nr_rules(), lines 129-131.
NrRules == nrRules

\* The congruence the accepted rules generate on S.
RuleCong == Cong!Cong({<<Eval(rule[1]), Eval(rule[2])>> : rule \in Cong!Range(rules)})

\* word_to_element of the parent names an element of S for every non-empty
\* word over the alphabet; the inputs the facade may convert are such
\* words.  (An empty string passes the checks of add_rule(string, string)
\* and would reach word_to_element: the hypothesis excludes it.)
InputsEvaluate ==
  /\ \A w \in Words :
       (w # <<>> /\ \A k \in DOMAIN w : w[k] < Len(Alphabet)) => Eval(w) \in Elem
  /\ \A s \in Strings : ValidString(s) => Eval(StringToWord(s)) \in Elem

\* The type of the facade's own state.
TypeOK ==
  /\ Cong!TypeOK
  /\ nrRules \in Nat
  /\ rules \in Seq(Seq(Nat) \X Seq(Nat))
  /\ fin \in BOOLEAN
  /\ wdead \in BOOLEAN

\* size() is the number of elements of the quotient of S by the rules the
\* caller added, and equal_to(u, v) holds exactly when the rules make u
\* and v equal, even when the words name elements no rule mentions.
AnswersCorrect ==
  /\ answer.op = "size" =>
       answer.val = Cardinality(Cong!Classes(RuleCong))
  /\ answer.op = "equal_to" =>
       answer.val = (<<Eval(answer.lhs), Eval(answer.rhs)>> \in RuleCong)

\* nr_rules() is the number of rules the caller added, by either overload
\* of add_rule.
NrRulesCounts == NrRules = Len(rules)

\* A facade that has been killed pops no further pair in run(): the
\* cancellation flag is observed at each iteration of the outer loop.
KilledRunStops ==
  [][wdead => ~(pc = "loop" /\ pc' = "mult")]_vars

=============================================================================
