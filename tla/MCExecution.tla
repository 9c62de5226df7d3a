----------------------------- MODULE MCExecution -----------------------------
(* A small instance of Execution: two devices, two parameters, two outputs, *)
(* and plans with each kind of alias, with and without a compiled program. *)
EXTENDS Execution

Plan(donated, aliases, ids, compiled) ==
  [donated |-> donated, output_aliases |-> aliases, output_ids |-> ids,
   compiled_program |-> compiled]

Alias(o, p, k) == [output |-> o, parameter |-> p, kind |-> k]
Computed == [o \in {1, 2} |-> 0]
Returned(o, p) == [Computed EXCEPT ![o] = p]

VetoPlans == {Plan({1}, {Alias(1, 1, "donation")}, Returned(2, 2), TRUE)}

MCPlans ==
  VetoPlans \cup
  {Plan({1}, {Alias(1, 1, "donation")}, Computed, FALSE),
   Plan({1}, {Alias(2, 1, "identity")}, Returned(2, 1), TRUE),
   Plan({1}, {Alias(1, 1, "identity")}, [o \in {1, 2} |-> 1], FALSE),
   Plan({1, 2}, {Alias(1, 1, "identity"), Alias(2, 2, "donation")}, Returned(1, 1), TRUE)}

(* Two buffers on each device.                                             *)
MCHostBuffers == [b \in 1 .. 4 |-> IF b <= 2 THEN 1 ELSE 2]
=============================================================================
