--------------------------- MODULE MC_FpSemigroup ---------------------------
(***************************************************************************)
(* Instance of FpSemigroup for TLC: every constructor, and three add_rule  *)
(* calls, enough for a rule before the alphabet, an invalid one and valid  *)
(* ones before and after the race.                                        *)
(***************************************************************************)
EXTENDS FpSemigroup, TLC

MCCtors == {"standard", "none", "parent"}

=============================================================================
