------------------------- MODULE MCLoadedExecutables -------------------------
(* A small instance of LoadedExecutables.                                  *)
EXTENDS LoadedExecutables, TLC

CONSTANTS x1, x2, x3, f1, f2, f3, h1, h2, h3, h4

(* Two programs that tie on size, each of which fills the budget that       *)
(* SetMaxResidentBytes may set, and one without constants.                 *)
Sizes == [f \in Fingerprints |-> IF f = f3 THEN 0 ELSE 1]

Interchangeable == Permutations(Executables) \cup Permutations(Handles)
=============================================================================
