# TLA+ models of libsemigroups' congruence code

This directory holds TLA+ models of the C++ sources under `src/`, the
TLC configurations that check them, and TLAPS proofs about them.
`PROJECT.json` lists, for each module:

- the components it covers;
- the runs that check it;
- the mutants that confirm each property can fail;
- the source lines each definition translates;
- the findings and the hazards.

## The system

The repository's `src/` holds part of libsemigroups, a library for
computing with semigroups and their congruences:

| part | file | what it is |
|---|---|---|
| `congruence::P` | `include/cong-pair.hpp` | Computes a congruence on a *finite* parent semigroup by brute force. It closes the set of generating pairs under multiplication by the generators and keeps the classes in a union-find `UF`. |
| `congruence::KBP` | `include/cong-pair.hpp` | A `P` whose parent is produced by running Knuth-Bendix first. |
| `WrappedCong` | `include/cong-wrap.h` | Presents a congruence as a finitely presented semigroup. It forwards `run`, `size`, `equal_to` and `normal_form`, and counts rules. |
| `FpSemigroup` | `src/fpsemi.cpp` | Races a Todd-Coxeter and a Knuth-Bendix runner. It broadcasts alphabet and rules to every runner and answers queries from the winner. |
| `Forest` | `include/forest.hpp` | The spanning forest Todd-Coxeter keeps: parent and edge label per node. |
| interface | `include/cong-intf.h` | The congruence interface and its contract, in comments. |

`UF`, `Runner`, `Race`, `ToddCoxeter` and `KnuthBendix` are used by
this code but are not under `src/`.

### How the parts interact

A `Runner` (the base of `P`) has a `run()` that another thread may stop
in two ways:

- by `kill()`, which a `Race` calls on its losers;
- by a deadline (`run_for`).

The runner observes both only where it tests `dead()` and `timed_out()`.

The caller of `P` follows this protocol:

1. add generating pairs with `add_pair`;
2. ask questions (`word_to_class_index`, `nr_classes`, the non-trivial
   classes), each of which calls `run()` first.

`run()` does the following:

1. It pops pairs from `_pairs_to_mult`.
2. For each generator, and for the left side, the right side or both (by
   the congruence type), it forms the products with the popped pair and
   calls `internal_add_pair` on them.
3. `internal_add_pair` does three things:
   - it interns unseen elements in `_map` / `_reverse_map`;
   - it deduplicates through `_found_pairs`;
   - it queues the pair and unites the two blocks.
4. When the queue is empty, it renumbers the union-find blocks into class
   numbers `0..n-1`, in `_class_lookup`.
5. It marks itself finished and frees the temporary containers.

After `run()` has finished, a query can still intern an element it has
not seen, through mutable members. `add_index` then gives that element a
fresh class.

## Hard behaviours

These are the behaviours that tests hardly reach:

- **Other threads.** Kill and deadline arrive between any two steps of
  `run()`.
- **A second deadline test.** The deadline is tested again at line 215,
  after the renumbering has already changed `_class_lookup`.
- **Unenforced call order.** `add_pair` may be called after `finished()`,
  which the interface asks against but does not enforce.
- **Renumbering order.** The renumbering depends on the union-find root of
  each block being its least index.
- **Const queries change state.** Queries that are `const` still intern
  elements.
- **A dangling reference.** `current_pair` refers to a popped queue
  element (line 140).

## Modules

### `CongPair`: `congruence::P`

**Constants:**

- the parent semigroup: `Elem`, the table `Mult`, and the generator
  sequence `GenSeq`;
- the congruence `Type`;
- the bounds `MaxAddPairs` and `MaxTimeouts`;
- `TimeoutWindow`, the phases of `run()` in which a deadline may expire;
- `LateAddPair`, whether the caller may add pairs once `P` is finished.

A word given to `add_pair` is represented by the element it evaluates to.

**State**, one variable per member of `P`:

| variable | member |
|---|---|
| `rm` | `_reverse_map` (positions are `_map` indices plus 1) |
| `uf` | `_lookup`, as links to roots |
| `found` | `_found_pairs` |
| `queue` | `_pairs_to_mult` |
| `cl` | `_class_lookup` |
| `nextClass` | `_next_class` |
| `nrNTClasses`, `nrNTElems` | `_nr_non_trivial_classes`, `_nr_non_trivial_elemnts` |
| `finished` | `finished()` |
| `dead` | `dead()` |
| `timedOut` | `timed_out()` |

`pc`, `cur`, `gi`, `si`, `ni` and `normMax` are the program counter and
the locals of `run()`. `pairs`, `adds` and `timeouts` are history and
bounds.

**Actions.** `run()` is cut at the points where another thread's flag can
change what it does:

| action | source lines | what it does |
|---|---|---|
| `RunStart` | 130-136 | the early return if finished or dead |
| `LoopIter` | 137-142 | the loop test and the pop |
| `MultStep` | 143-167 | one generator and one side of the `for` loop; the whole `internal_add_pair` is part of the step |
| `LoopExit` | 181-189 | the end of the loop and the start of the renumbering |
| `NormStep` | 190-198 | one renumbering iteration |
| `NormDone` | 201-204 | records the non-trivial counts |
| `Finish` | 206-218 | the second test, `set_finished` and `delete_tmp_storage` |

The other actions are:

- `AddPair`: `add_pair`;
- `WordToClassIndex`: `word_to_class_index` on a finished `P`, including
  the interning in `get_index`;
- `Kill` and `Timeout`: the other threads.

`UF` is not under `src/`. It is modelled from its specified behaviour:

- `UFAddEntry`: `add_entry` makes a singleton;
- `UFUnite`: `unite` hangs the block with the larger root under the smaller
  root.

The assertion at line 188 (`_lookup.find(0) == 0`) requires that minimum.

**Reference.** The module `Congruence` holds the parent semigroup's
constants and `Cong(R)`, the least congruence of the given type that
contains `R`. `CongPair` extends it. `Cong(R)` is computed by iterating
one closure round (`CloseOnce`: symmetry, transitivity, products by the
generators on the type's sides) `|Elem|^2` times. It is written
independently of `Sides` and `Multiple`, so faults in those are caught.

**Refinement.** `CongPair` defines `Abs`, an instance of `CongSpec`
(below) under this refinement mapping:

- `gens <- pairs`;
- `done <- finished`;
- `index <- ImplIndex`, the class number `const_word_to_class_index`
  returns for each interned element once `P` is finished, and `UNDEFINED`
  otherwise.

The property `Refines == Abs!Spec` says that `P` implements the
interface's contract. The steps of `run()`, kills and deadlines are
stutters. `Finish` is the abstract `Run`, a query of an unseen element is
`Query`, and `add_pair` is `AddPair`.

### `CongSpec`: the contract of `congruence::Interface`

`include/cong-intf.h` declares the congruence interface and states its
contract in comments:

- `add_pair` should only be called before anything is computed (lines
  85-89);
- `word_to_class_index` is a surjection onto `0..n-1` (lines 56-71);
- its answer does not depend on the object's state (lines 163-169).

`CongSpec` is that contract as an abstract specification. Its state is:

- `gens`, the generating pairs;
- `done`, whether the structure is computed;
- `index`, the class number each element has, or `NoIndex`.

Its actions are:

- `AddPair`, allowed only while `~done`;
- `Run`, which numbers some elements consistently with `Cong(gens)`
  (`ConsistentNumbering`): equal numbers exactly for related elements,
  numbers `0..k-1`, and every unnumbered element alone in its class;
- `Query(x)`, which gives an unnumbered `x` the next unused number.

Nothing else changes a number once it is given.

### `MC_CongPair`

The parent is the full transformation monoid T_2 (4 elements). It is
generated by the transposition and a constant map, multiplied as
libsemigroups' transformations are.

T_2 has non-trivial left, right and two-sided congruences that differ.
With two generating pairs, a run reaches:

- merges that need several rounds of closure;
- both branches of the renumbering;
- queries that intern elements no pair touched.

### `WrappedPair`: `fpsemigroup::P = WrappedCong<congruence::P, false>`

The facade of `cong-wrap.h` over a wrapped two-sided `P`. For `P` it can
only be built from a parent `S` (`WrappedCong(S)`, lines 50-58). The
other two constructors (`WrappedCong()` and `WrappedCong(string)`) build
the wrapped congruence with `P(congruence_type)`, which is protected
(cong-pair.hpp:75-87), so they do not compile for `P`. The parent
constructor sets the alphabet, so `set_alphabet` always throws and
changes nothing. It composes with `CongPair` by
`Cong == INSTANCE CongPair WITH Type <- "twosided", ...`: the wrapped P's
variables are shared, and each facade action calls a `Cong!` action.

**Constants:**

- the parent, as in `CongPair`;
- `Alphabet`, the characters of the letters;
- `Strings` and `Words`, the caller's inputs to the two `add_rule`
  overloads and to the queries.

**State:**

| variable | member |
|---|---|
| `nrRules` | `_nr_rules` |
| `fin` | the facade's own Runner `finished` flag |
| `wdead` | the facade's own Runner `dead` flag |

`rules` (the accepted rules, as words) and `answer` (the last query's
value) are history.

**Actions:**

| action | lines | what it does |
|---|---|---|
| `AddRuleString` | 89-100 | validate, count, convert by `string_to_word`, then the wrapped `add_pair` of the elements the words evaluate to |
| `AddRuleWord` | 139-146 | the empty and letter checks, then the wrapped `add_pair`, with no count |
| `Run` | 70-72 | starts the wrapped P, which has a parent |
| `CongStep` | | the wrapped P's steps |
| `Finished` | 74-83 | copies the wrapped flag |
| `Size` | 110-112 | the wrapped P's answer |
| `EqualTo` | 114-116 | `EqualWords` answers true for two equal words without interning; `DifferentWords` interns both words' elements by `word_to_class_index` and compares the indices (the default `CongBase::contains`, spec-modelled) |
| `NormalForm` | 118-123 | the wrapped P's answer, including its interning |
| `Kill` | | the facade's `kill()` |

The wrapped P is private, so nobody can kill it or give it a deadline.
`validate_word`, `string_to_word` and the parent's `word_to_element` are
not under `src/`. They are modelled from the spec (§4.7, §6).

### `FpSemigroup`: the race facade

The facade of `fpsemi.cpp`. A rule is abstracted to the number of the
`add_rule` call and whether its words are valid; what the properties
tell apart is which runner holds which rules.

**Runners.** The runners are `todd_coxeter` and `knuth_bendix`, in the
order the constructors add them. Each has:

- `rstate`: ready, running, finished or dead;
- `ralpha`: whether its alphabet is set;
- `rrules`: the rules it has taken.

The race records a `winner`. The `caller` is idle or blocked in a query.

**Actions:**

| action | lines | what it does |
|---|---|---|
| `Init` | 47-73 | the three constructors |
| `SetAlphabet` | 190-204 | sets the alphabet |
| `AddRule` | 87-96 | the broadcast; it stops at the first runner that throws |
| `EmptyRaceThrows` | 88-91 | `add_rule` on an empty race |
| `Ask` | 79-81, 98-100, 162-164, 175-184 | `_race.winner()` starts the runners if there is no winner |
| `Reply` | 98-100 | the winner answers |

The Race and the runners' own `add_rule` are not under `src/`. They are
spec-modelled (§4.1, §4.6):

- `RunnerAccepts`: a runner refuses a rule without an alphabet, when the
  rule is invalid, or once it is finished (`PrematureMutation`);
- `RunnerFinish`: the first runner to finish is recorded as the winner
  and kills the others;
- `RunnerStop`: a loser observes the kill, unless it finishes first.

### `KBPair`: `congruence::KBP`

`KBP::run` in three stages:

| action | lines | what it does |
|---|---|---|
| `KBPRunStart` | 477-480 | the `stopped()` test |
| `KBRunUntil` | 481 | `_kb->run_until(dead || timed_out)` |
| `KBPCheck` | 482-487 | the second `stopped()` test, `set_parent`, and the start of `P::run` |

After `KBPCheck`, the steps of `P::run` are `CongPair`'s, through
`Cong == INSTANCE CongPair`. `AddPair` is `KBP::add_pair` (489-499).

`_kb` is a raw pointer that another owner may hold. `KBKill` models such
an owner, for instance the race of the `FpSemigroup` whose
`knuth_bendix()` returned it, killing `_kb`. The constant `SharedKB`
allows it. The Knuth-Bendix run itself is abstracted: it finishes or is
interrupted.

### MC modules

`MC_CongPair`, `MC_WrappedPair` and `MC_KBPair` use T_2 as the parent.
`CongSpec` has no MC module: `pair_twosided` checks it as the property
`Refines` of `CongPair`.

`MC_WrappedPair` adds the caller's inputs:

- the alphabet `"ab"`;
- the strings `"a"`, `"ab"` and the invalid `"c"`;
- the words `b`, `ba`, the empty word and the invalid letter `2`.

`MC_FpSemigroup` enables every constructor.

### The proof modules

`CongPairProofs`, `CongPairRefinement`, `KBPairProofs`, `WrappedPairProofs`
and `FpSemigroupProofs` hold the TLAPS proofs (see below).

- `CongPairRefinement` extends `CongPairProofs`.
- `WrappedPairProofs` uses `CongPairProofs` through the instance
  `CP == INSTANCE CongPairProofs WITH Type <- "twosided", ...`. This is the
  substitution `WrappedPair` gives its own instance `Cong`.
  - The provers treat `CP!X` and `Cong!X` as different names.
  - The lemmas `TypeInvNames` and `NextNames` prove that they agree by
    expanding both.
  - The instantiated lemmas carry CongPair's assumptions.
    `WrappedPair`'s `InputAssumption` states them for the facade: a
    finite parent with a total multiplication and generators, and the
    bounds.

`CongPair`'s `BoundsAssumption` allows any `TimeoutWindow \subseteq Phases`.
`KBPair` gives it every phase, because `P::run` reads the KBP's own
`timed_out()` at lines 137, 181 and 215, and the KBP's deadline may
expire at any of them, as well as while `_kb` runs.

## Runs

| run | cfg | expect | checks |
|---|---|---|---|
| `pair_twosided` | `CongPairTwoSided.cfg` | pass | `TypeOK`, `LookupSizeAgrees`, `ClassIndexCorrect`, `NrClassesCorrect`, `NonTrivialClassesCorrect`, `RunTerminates` and `Refines` (P implements `CongSpec`) |
| `pair_left` | `CongPairLeft.cfg` | pass | `ClassIndexCorrect` for a left congruence |
| `pair_right` | `CongPairRight.cfg` | pass | `ClassIndexCorrect` for a right congruence |
| `pair_timeout_renumber` | `CongPairTimeoutRenumber.cfg` | violation | `LookupSizeAgrees` when a deadline may expire during renumbering |
| `pair_late_add` | `CongPairLateAdd.cfg` | violation | `NrClassesCorrect` when `add_pair` follows a finished run |
| `wrapped_answers` | `WrappedPairAnswers.cfg` | pass | `AnswersCorrect`: `size()` and `equal_to()` answer from the congruence the accepted rules generate |
| `wrapped_nr_rules` | `WrappedPairNrRules.cfg` | violation | `NrRulesCounts`: `nr_rules()` counts exactly the accepted rules (broken by the word overload) |
| `wrapped_kill` | `WrappedPairKill.cfg` | violation | `KilledRunStops`: a killed facade pops no further pair |
| `fp_winner` | `FpSemigroupWinner.cfg` | pass | `WinnerAnswers` and `NrRulesAgrees`, with rules added before the first query |
| `fp_late_rule` | `FpSemigroupLateRule.cfg` | violation | `NrRulesAgrees` when a rule is added after the race |
| `kbp_shared` | `KBPairShared.cfg` | pass | `ParentNotFromInterruptedKB`: a parent is set only from a `_kb` whose `run_until` was not cut short by the KBP's own kill or deadline, with kills of the KBP and of `_kb`, and a deadline anywhere in `KBP::run` |
| `kbp_shared_kb` | `KBPairSharedKB.cfg` | violation | `ParentFromFinishedKB` when another owner kills `_kb` |

**Bounds.**

- Up to two `add_pair` calls. Two pairs suffice for a pair that is found
  again by closure, and for merges of blocks built separately.
- One expiring deadline, one kill and any number of queries. In
  `pair_twosided` the deadline expires between runs or in the pair loop.
- `WrappedPair`: two rules, enough for one of each overload and for a
  rule whose sides are equal. Invalid and empty inputs exercise every
  error path.
- `FpSemigroup`: three `add_rule` calls, enough for one before the
  alphabet, an invalid one and a valid one, or valid rules before and
  after the race. Both runners can win, and a loser can finish before it
  sees the kill.
- `KBPair`: two pairs, one deadline, and kills of both the KBP and `_kb`.

**Fairness.** `WF_vars(RunStep)`. The thread in `run()` is never blocked,
so it keeps taking steps; kill and deadline need no fairness. Deadlock
checking is off: once the pairs are used up and `P` is finished (or
killed), nothing is left to do, and that is correct. The same holds for
the facades once their rule bound is spent. Their runs check safety only,
because the Knuth-Bendix and Todd-Coxeter runners are semi-decision
procedures: the code cannot promise that a race ends.

## Findings

1. **Deadline during renumbering** (`pair_timeout_renumber`).
   - `run()` tests the deadline again at line 215, after the renumbering
     has already pushed the lookup.
   - A deadline that expires in between makes `run()` return unfinished,
     with `_class_lookup` built.
   - The next call pushes a second copy onto it.
   - The assertion at line 273 then fails, and `nr_classes` is wrong.
2. **`add_pair` after finishing** (`pair_late_add`).
   - Elements interned by `add_pair` on a finished `P` get classes at
     once; `add_pair` then clears `finished`.
   - The next `run()` renumbers onto the old lookup, and `nr_classes` is
     wrong.
   - The interface says pairs should only be added before anything is
     computed, "TODO ... actually enforce it".

3. **`add_rule(word, word)` is not counted** (`wrapped_nr_rules`). The
   word overload (cong-wrap.h:139-146) omits `_nr_rules++`, which the
   string overload does at line 98. `nr_rules()` undercounts.
4. **Killing a `WrappedCong` does not stop it** (`wrapped_kill`).
   - Only `finished()` is passed between the facade and the wrapped
     congruence.
   - `kill()` and a `run_for` deadline set the facade's own flags, which
     the wrapped `P::run` never reads.
   - The spec (§5) asks runners to observe cancellation at each outer
     iteration.
5. **A rule added after the race is half-applied** (`fp_late_rule`).
   - `FpSemigroup::add_rule` checks only that the race is non-empty.
   - After Knuth-Bendix has won, the killed Todd-Coxeter takes the rule
     and the finished winner throws.
   - The caller sees the call fail, but `nr_rules()` (the first runner's
     count) includes the rule.
   - §4.6 forbids adding after a race has begun.
6. **KBP reads a killed `_kb`** (`kbp_shared_kb`).
   - `KBP::run` tests only its own `stopped()` after `run_until`.
   - If another owner killed `_kb`, `set_parent` reads an unfinished
     Knuth-Bendix.
   - §5 says a cancelled runner's state is never queried.

## Proofs

`CongPairProofs` proves `TypeCorrect`: `Spec => []TypeOK`, for every
finite parent, type and bound allowed by the assumptions `ParentAssumption`
and `BoundsAssumption`.

`TypeOK` alone is not inductive. The renumbering step reads
`_class_lookup[nr]` at the root `nr` of index `i`, and that read is in
range only because:

- every root is at most the index it is the root of (`UFBelow`);
- in the loop, `normMax + 2 <= ni <= Len(cl) + 1` (`NormBounds`).

`TypeInv == TypeOK /\ UFBelow /\ NormBounds` is inductive. The proof has
one step per action, and uses lemmas about the operators:

- `GetIndexOK`: interning keeps the store well formed and extends it;
- `UFUniteOK`: uniting keeps roots below their indices;
- `InternalAddPairOK`;
- `FunIsSeq`;
- `StoreOKIsType`.

`CongPairProofs` also proves `LookupSizeHolds`: `Spec => []LookupSizeAgrees`,
the assertion of `const_word_to_class_index`. It assumes the caller's
contract:

- `~LateAddPair`: no `add_pair` once P is finished;
- `TimeoutWindow \subseteq {"idle", "loop", "mult"}`: a deadline expires
  only between runs or in the pair loop, never after it.

`pair_timeout_renumber` shows that the second assumption is needed.

The inductive invariant is `SizeIInv == TypeInv /\ SizeInv`. `SizeInv`
gives the length of `_class_lookup` at each phase of `run()`:

- it is empty before and inside the pair loop;
- in the renumbering loop it has `ni - 1` entries;
- at the final check it has one entry per element, unless the run was
  killed or timed out;
- it has one entry per element whenever P is finished.

TLC checks `SizeIInv` as an invariant of a two-sided run with one
deadline. The proof has one step per action. Its lemmas are:

- `GetIndexLookup`: `get_index` appends a class exactly when it interns an
  element while P is finished;
- `InternalAddPairLookup`: while P is not finished, pair interning leaves
  `_class_lookup` alone;
- `NormStepLookup`: a renumbering step appends one entry. `NextTypeInv`
  also uses it.

Under the same contract, `CongPairProofs` proves two facts about the
numbers `word_to_class_index` returns. No run checks them on their own:
`ClassIndexCorrect` already fixes the numbering on the instance, and
`Refines` implies `IndexStable`. The theorems state them for every
instance, and `CongPairRefinement` builds on their invariants:

- `ClassIndicesDenseHolds`: `Spec => []ClassIndicesDense`. Once P is
  finished, the class numbers of the interned elements are exactly
  `0 .. _next_class - 1`. The inductive invariant is
  `NumberingIInv == SizeIInv /\ DenseClasses`, where `DenseClasses` says
  that the values in `_class_lookup` are exactly `0 .. _next_class - 1` in
  every state, not only once P is finished. The pair loop leaves both
  empty. `LoopExit` starts at `<<0>>` and 1. Each renumbering step and
  each late `get_index` appends either the next number, raising
  `_next_class`, or a number already present. The lemmas are:
  - `DenseAppendNew` and `DenseAppendOld`, one for each kind of append;
  - `GetIndexNumbering` and `NormStepNumbering`, which state which kind
    of append each action makes.

  `SizeIInv` is needed because `_class_lookup` is empty in the pair loop,
  and because it has one entry per element of `_reverse_map` once
  finished.
- `IndexStableHolds`: `Spec => IndexStable`. A step that keeps P finished
  changes no class number that has been given. Such a step starts with
  `pc = "idle"` (by `SizeInv`). It is therefore a query, a kill, a
  deadline or a stutter. A query either changes nothing or appends to
  both `_reverse_map` and `_class_lookup`. `IndexOfAppend` shows that the
  append does not move any element already held, because the `CHOOSE` in
  `IndexOf` ranges over the same indices. No injectivity of
  `_reverse_map` is needed.

`CongPairRefinement` proves `RefinesExceptCongruence`. It assumes the
same contract as `LookupSizeHolds`. Under it, `P` implements `CongSpec`
(with the mapping of `Abs`) up to one point:

```
Spec => Abs!Init /\ [][[Abs!Next]_Abs!vars \/ RunNumbers]_vars
```

- `Init` maps to `Abs!Init`: no pairs, not done, nothing numbered.
- `add_pair` maps to `Abs!AddPair`. P is not finished, so `ImplIndex`
  stays all `UNDEFINED`.
- A query of an element already interned changes nothing. A query of a
  new element maps to `Abs!Query` (`QueryRefines`): it gets
  `_next_class`, which is `Cardinality(UsedIndices)`.
- The steps of `run()` before the last change nothing of the abstract
  state: P is not finished, so `ImplIndex` is constant. The same holds for
  kills and deadlines.
- The completing `Finish` is `RunNumbers`: `Abs!Run` without the two
  conjuncts of `ConsistentNumbering` that mention `Cong(gens)`. It sets
  `done` and keeps `gens`. It hands out numbers of the right type, and the
  numbers used are `0 .. k - 1`.

The inductive invariant is `RefIInv == NumberingIInv /\ RmInjective`.
`RmInjective` says that `_reverse_map` holds each element once, because
`get_index` appends only an element that `_map` lacks. `IndexStable` did
not need it, but the refinement does: to show that the numbers used are
`{cl[k] : k \in 1..Len(rm)}`, each position `k` must be
`IndexOf(rm, rm[k])` (`FinishedIndex`). TLC checks `RefIInv` and the
step property on the `pair_twosided` instance.

`WrappedPairProofs` proves `WrappedTypeCorrect`: `Spec => []TypeOK` for
the `fpsemigroup::P` facade, under the hypothesis `InputsEvaluate`.

- `InputsEvaluate` says that `word_to_element` names an element of `S`
  for every non-empty valid input word, and for the word of every valid
  input string.
- That `Eval` (a recursive function) is total on non-empty words is
  induction over data, which the provers cannot do. The hypothesis is
  therefore a statement about the constants. `MC_WrappedPair` states it
  as an `ASSUME`, so TLC evaluates it on every run of the instance.
- The invariant `WInv` is `Cong!TypeInv` plus the facade's own types.
- Every facade action is one of three things:
  - a step of `Cong!Next`: `add_rule` with a parent, `run`, the steps of
    `run` and `normal_form`;
  - a step that leaves the wrapped P alone: `finished`, `size`, `kill`,
    and `equal_to` of two equal words;
  - `equal_to` of two different words, which interns two elements one
    after the other (`DifferentWordsTypeInv`).
- The first two kinds keep `Cong!TypeInv` by `CongPair`'s `NextTypeInv`.
  The third keeps it by applying `GetIndexOK` twice.

`TypeOK` is a theorem here and no run's property: the types are proved
for every instance, and a run of them would add nothing.

`KBPairProofs` proves `ParentNotFromInterruptedKBHolds`:
`Spec => []ParentNotFromInterruptedKB`, whoever owns `_kb` and wherever
the KBP's kill or deadline falls. The inductive invariant `KBInv` says:

- a parent is set only from a `_kb` that finished or was killed by
  another owner;
- while `KBP::run` waits on `_kb` or is about to test `stopped()`, `P::run`
  is idle, so it takes no step that could clear a flag;
- after `run_until`, `_kb` has finished, or was killed by another owner,
  or the KBP is stopped.

`KBPCheck` sets the parent only when the KBP is not stopped, so the last
conjunct gives the second. The mutant that drops the `stopped()` test
at line 482 breaks the property in `kbp_shared`.

The corollary `ParentFromFinishedKBHolds` assumes `~SharedKB` (no owner
of `_kb` other than the KBP). Then `_kb` is never killed (`NotKilled`),
so the parent always comes from a finished `_kb`. `kbp_shared_kb` shows
that the assumption is needed.

`FpSemigroupProofs` proves `WinnerAnswersHold` and `NrRulesAgreesHolds`:
`Spec => []WinnerAnswers` and `Spec => []NrRulesAgrees`. Each holds under
the assumption `~LateAddRule` (no `add_rule` once a query has started the
race), for every `MaxRules` and set of constructors. `fp_late_rule` shows
that the assumption is needed.

The inductive invariant is `RaceInv`. It says:

- an empty race has accepted nothing and started nothing;
- before the race, both runners have the same alphabet and hold exactly
  the accepted rules;
- the recorded winner has finished;
- an answer comes from the winner, with the accepted rules.

Its key step is the lemma `TookAllOrNone`. With both runners ready and
agreeing on the alphabet, `add_rule`'s loop either passes both runners or
throws at the first, so the broadcast is all or nothing.

## Checked only by TLC

These properties are checked by TLC and not proved:

- the correctness properties against `Cong`, because `Cong` is a
  fixpoint over data;
- `RunTerminates`, because it is liveness under fairness;
- `Refines`, in part. `RefinesExceptCongruence` proves every other
  part of it. A `Run` step of `CongSpec` also requires the numbering
  that `Finish` leaves to agree with `Cong(pairs)`. That is again a
  fixpoint over data, so TLC alone checks it;
- that `Eval` is total on non-empty words, the hypothesis
  `InputsEvaluate` of `WrappedTypeCorrect`. TLC evaluates it on the
  inputs of `MC_WrappedPair`.

## Not modelled

- **`Forest`.** `Forest` is two vectors. `set`, `parent` and `label`
  index them without checking the index (the TODOs at forest.hpp:40, 50
  and 63). Whether an index is ever out of range depends only on the
  calls its client makes, and that client, Todd-Coxeter, is not under
  `src/`. The spec says nothing about `Forest`. A model of `Forest` on its
  own would state only that vector writes are writes. This hazard is
  listed without a property.
- **`add_rule` with an empty string.** The string overload of
  `add_rule` (cong-wrap.h:89-100) does not test for empty sides. The
  word overload does (line 140). `validate_word(string)` is not under
  `src/`, so whether it rejects `""` is unknown. If it does not,
  `word_to_element` of the parent receives the empty word, which denotes
  no element of a semigroup. The model's `Eval` has no value there.
  The instances therefore pass no empty string, and `InputsEvaluate`
  excludes one. The hazard is listed without a property.
- **`init_non_trivial_classes` on a stopped `P`.** The counts
  `_nr_non_trivial_classes` and `_nr_non_trivial_elemnts` are set only
  when a run completes (cong-pair.hpp:201-203). On a killed `P`, `run()`
  returns at once, and `init_non_trivial_classes` (279-292) sizes its
  vectors by the `UNDEFINED` counts. The model reads the non-trivial
  classes only once `P` is finished (`NonTrivialClassesCorrect`), so this
  path is listed as a hazard without a property.
- **The read-only queries of `FpSemigroup`.** `is_obviously_finite/infinite`,
  `isomorphic_non_fp_semigroup` and `find_method` only read, and depend on
  the words of the rules.
- **Stale `KBE` reductions in `KBP::add_pair`.** Words are represented by
  the elements they denote, so a stale reduction cannot be told apart.
- **The bodies of `ToddCoxeter` and `KnuthBendix`.** They are not under
  `src/`, and they are semi-decision procedures over unbounded words.
- **Reporting, timers and element memory management.** These are
  `internal_copy` / `external_free`, which no property tells apart.
- **The dangling `current_pair` reference.** It is undefined behaviour
  whose result depends on the allocator. The model reads the popped value.
