----------------------------- MODULE MCModelCache -----------------------------
(***************************************************************************)
(* Instances of ModelCache for TLC: two requests, two adapters of one base, *)
(* and a small model, a big one and one without its file of another.        *)
(***************************************************************************)
EXTENDS ModelCache

CONSTANTS old, new, small, big, absent

\* The default model has two variants, the promoted endpoint's adapters.
MCBaseOf == [k \in Keys |-> IF k \in {old, new} THEN "base1" ELSE "base2"]

\* With a budget of 5 the two variants fit beside a small model, but not beside
\* the count cap of 2; a big one fits only alone or beside the small one; a budget
\* of 3 refuses it altogether.
MCCost == [k \in Keys |-> IF k \in {small, absent} THEN 1 ELSE IF k = big THEN 4 ELSE 2]
=============================================================================
