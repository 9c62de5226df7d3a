--------------------------- MODULE MCRuntimeEvents ---------------------------
(* A small instance of RuntimeEvents: a chain of two events can fill the   *)
(* table of a third, and a callback can be refused.                        *)
EXTENDS RuntimeEvents

CONSTANTS e1, e2, e3, c1, c2, c3
=============================================================================
