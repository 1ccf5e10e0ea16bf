------------------------------- MODULE Totals -------------------------------
(***************************************************************************)
(* Sums of numbers, as the loops of the code add them up.  They are not    *)
(* defined by recursion, so that they can be reasoned about: the numbers   *)
(* are laid side by side and what lies there is counted.                   *)
(***************************************************************************)
EXTENDS Integers, FiniteSets

(* The sum of the values of f, which are at least 0.                       *)
TotalOf(f) == Cardinality(UNION {{i} \X (1..f[i]) : i \in DOMAIN f})
=============================================================================
