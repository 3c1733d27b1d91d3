------------------------------- MODULE KBPair -------------------------------
(***************************************************************************)
(* congruence::KBP of include/cong-pair.hpp (lines 446-513): a P whose     *)
(* parent is the semigroup a KnuthBendix finds.  run() first runs the      *)
(* KnuthBendix _kb until it finishes or the KBP is stopped, then sets the  *)
(* parent and runs P::run, modelled by CongPair.                           *)
(*                                                                         *)
(* _kb is a raw pointer the caller owns: the same KnuthBendix may be a     *)
(* runner of an FpSemigroup's race (FpSemigroup::knuth_bendix()), which    *)
(* kills it when the other runner wins.  SharedKB says whether it is.     *)
(* The KnuthBendix itself is not under src/: it either finishes or is      *)
(* interrupted.  A word given to add_pair is the element it reduces to.   *)
(***************************************************************************)
EXTENDS Naturals, Sequences, FiniteSets

CONSTANTS
  Elem, Mult, GenSeq, Type,     \* the semigroup KB finds, and the type
  MaxAddPairs, MaxTimeouts,     \* as in CongPair
  SharedKB   \* whether another owner of _kb may kill it

\* The semigroup _kb finds and the bounds satisfy CongPair's assumptions.
ASSUME KBPAssumption ==
  /\ IsFiniteSet(Elem) /\ Mult \in [Elem \X Elem -> Elem]
  /\ GenSeq \in Seq(Elem) /\ Len(GenSeq) > 0
  /\ Type \in {"left", "right", "twosided"}
  /\ MaxAddPairs \in Nat /\ MaxTimeouts \in Nat
  /\ SharedKB \in BOOLEAN

VARIABLES
  rm, uf, found, queue, cl, nextClass, nrNTClasses, nrNTElems, finished,
  dead, timedOut, pc, cur, gi, si, ni, normMax, pairs, adds, timeouts,
  kpc,        \* where KBP::run is: "idle", "kb" (in run_until), "check"
  kbDone,     \* _kb->finished()
  kbKilled,   \* _kb->dead(), set by another owner of _kb
  hasParent   \* has_parent(): set_parent has been called

\* The P part: pairs are added before anything is computed.  P::run reads
\* the KBP's own timed_out() (lines 137, 181 and 215), so the deadline of
\* the KBP may expire in any phase of it.
Cong == INSTANCE CongPair WITH LateAddPair <- FALSE,
         TimeoutWindow <- {"idle", "loop", "mult", "norm", "check"}

congVars == <<rm, uf, found, queue, cl, nextClass, nrNTClasses, nrNTElems,
              finished, dead, timedOut, pc, cur, gi, si, ni, normMax, pairs,
              adds, timeouts>>

kbpVars == <<kpc, kbDone, kbKilled, hasParent>>

vars == <<congVars, kbpVars>>

\* Runner::stopped(): finished, killed or past the deadline.
Stopped == finished \/ dead \/ timedOut

-----------------------------------------------------------------------------

\* KBP(type, kb), lines 464-467: a P with no parent yet.
Init ==
  /\ Cong!Init
  /\ kpc = "idle"
  /\ kbDone = FALSE
  /\ kbKilled = FALSE
  /\ hasParent = FALSE

\* add_pair, lines 492-499: intern the two KBE elements with no test of
\* the parent, add the pair and set_finished(false).
AddPair(x, y) ==
  /\ kpc = "idle"
  /\ Cong!AddPair(x, y)
  /\ UNCHANGED kbpVars

\* run(), lines 477-481: return if stopped, otherwise run _kb until it
\* finishes or the KBP is dead or timed out.
KBPRunStart ==
  /\ kpc = "idle"
  /\ pc = "idle"
  /\ ~Stopped
  /\ kpc' = "kb"
  /\ UNCHANGED <<congVars, kbDone, kbKilled, hasParent>>

\* _kb->run_until returns: _kb has finished, or it has stopped on its own
\* (killed by another owner), or the predicate dead() || timed_out() of the
\* KBP holds.
KBRunUntil ==
  /\ kpc = "kb"
  /\ \/ kbDone' = TRUE /\ ~kbKilled
     \/ (kbKilled \/ kbDone \/ dead \/ timedOut) /\ UNCHANGED kbDone
  /\ kpc' = "check"
  /\ UNCHANGED <<congVars, kbKilled, hasParent>>

\* KBP::run without the stopped() test at line 482.
KBPCheckNoStopTest ==
  /\ kpc = "check"
  /\ kpc' = "idle"
  /\ hasParent' = TRUE
  /\ pc' = "loop"
  /\ UNCHANGED <<rm, uf, found, queue, cl, nextClass, nrNTClasses, nrNTElems,
                 finished, dead, timedOut, cur, gi, si, ni, normMax, pairs,
                 adds, timeouts, kbDone, kbKilled>>

\* Lines 482-486: unless stopped, set the parent to _kb's semigroup and
\* call P::run, which returns at once if finished or dead.
KBPCheck ==
  /\ kpc = "check"
  /\ kpc' = "idle"
  /\ IF ~Stopped
       THEN /\ hasParent' = TRUE
            /\ pc' = "loop"
       ELSE UNCHANGED <<hasParent, pc>>
  /\ UNCHANGED <<rm, uf, found, queue, cl, nextClass, nrNTClasses, nrNTElems,
                 finished, dead, timedOut, cur, gi, si, ni, normMax, pairs,
                 adds, timeouts, kbDone, kbKilled>>

\* A step of P::run.
PStep ==
  /\ Cong!RunStep
  /\ UNCHANGED kbpVars

\* The KBP is killed.
Kill ==
  /\ Cong!Kill
  /\ UNCHANGED kbpVars

\* The KBP's deadline expires while KBP::run runs: in run_until, before
\* the stopped() test that follows it, or in P::run.
Timeout ==
  /\ kpc \in {"kb", "check"} \/ pc # "idle"
  /\ Cong!Timeout
  /\ UNCHANGED kbpVars

\* Another owner of _kb kills it, as a race does with its losers.
KBKill ==
  /\ SharedKB
  /\ ~kbDone
  /\ ~kbKilled
  /\ kbKilled' = TRUE
  /\ UNCHANGED <<congVars, kpc, kbDone, hasParent>>

Next ==
  \/ \E x, y \in Elem : AddPair(x, y)
  \/ KBPRunStart
  \/ KBRunUntil
  \/ KBPCheck
  \/ PStep
  \/ Kill
  \/ Timeout
  \/ KBKill

Spec == Init /\ [][Next]_vars

-----------------------------------------------------------------------------
(* Properties                                                               *)

\* The parent P computes on is the semigroup of a KnuthBendix that has
\* finished: set_parent at line 483 never reads a _kb whose run was cut
\* short, because KBP::run tests stopped() between run_until and it.
ParentFromFinishedKB == hasParent => kbDone

\* The parent P computes on never comes from a run_until that the KBP
\* interrupted itself: a kill of the KBP or its deadline between
\* run_until and the stopped() test at line 482 stops set_parent, so the
\* parent is that of a _kb that finished, or that another owner killed
\* (the case kbp_shared_kb shows).
ParentNotFromInterruptedKB == hasParent => kbDone \/ kbKilled

=============================================================================
