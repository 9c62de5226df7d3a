-------------------------- MODULE MCBackendExecution --------------------------
(* The requests of MCMetalGraph; small executables with a captured program;   *)
(* and plans of one or two parameters with every two and every three         *)
(* operations one after the other, and chains of more.                     *)
EXTENDS BackendExecution, MCMetalGraph, SequencesExt

Executable(n, give, same, small, min, max) ==
  [params |-> n, donated |-> give, identity |-> same, control |-> small, min |-> min, max |-> max]

(* One argument, captured or never; one donated and one kept, at once or     *)
(* after a first run; a donated one that is also an output, which may end up *)
(* captured.                                                               *)
MCCaptureExecutables ==
  {Executable(1, {}, {}, {}, 1, 9), Executable(1, {}, {}, {}, 1, 0),
   Executable(2, {1}, {}, {}, 1, 9), Executable(2, {1}, {}, {2}, 1, 9),
   Executable(2, {1}, {1}, {}, 1, 9), Executable(2, {1}, {1}, {}, 2, 2)}

(* A plan in the making: with its next value and its tuples.  An operation   *)
(* reads the newest values; "get" the second element of the last tuple.    *)
NewPlan(k) == [params |-> k, instructions |-> <<>>, next |-> k + 1, tuples |-> {}]
ValuesOf(p) == (1 .. p.next - 1) \ p.tuples
Newest(p) == Max(ValuesOf(p))
Older(p) == Max({1} \cup (ValuesOf(p) \ {Newest(p)}))

Extended(p, op) ==
  LET in == CASE op = "constant" -> <<>>
              [] op = "get" -> <<Max(p.tuples)>>
              [] op \in {"copy", "sort", "op", "pair"} -> <<Newest(p)>>
              [] OTHER -> <<Older(p), Newest(p)>>
      out == IF op \in {"sort_pair", "barrier", "while", "pair"} THEN <<p.next, p.next + 1>> ELSE <<p.next>>
  IN [p EXCEPT !.instructions = Append(@, [op |-> op, inputs |-> in, outputs |-> out, element |-> 2]),
               !.next = p.next + Len(out),
               !.tuples = IF op = "tuple" THEN @ \cup {p.next} ELSE @]

Plain == {"constant", "copy", "map", "op", "sort", "sort_pair", "pair", "barrier", "while"}
Chains ==
  (Plain \X Plain) \cup (Plain \X Plain \X Plain) \cup
  {<<"tuple", "get">>, <<"tuple", "get", "map">>, <<"sort", "tuple", "get", "op">>, <<"map", "tuple", "map", "get", "op">>,
   <<"map", "copy", "map", "op">>, <<"constant", "map", "copy", "sort_pair">>, <<"while", "barrier", "map">>,
   <<"op", "map", "pair", "copy", "map">>, <<"sort", "map", "op", "copy">>}
Returned(p) == {<<Newest(p)>>, <<Newest(p), Newest(p)>>, <<1, Newest(p)>>, <<Newest(p), Older(p)>>}

MCSchedulePlans ==
  UNION {LET p == FoldLeft(Extended, NewPlan(k), chain)
         IN {[params |-> p.params, instructions |-> p.instructions, output_ids |-> o] : o \in Returned(p)} :
         k \in {1, 2}, chain \in Chains}
(* Less of each, for the stale capture.                                    *)
OneRequest == {CHOOSE r \in MCRequests : TRUE}
OnePlan == {CHOOSE p \in MCSchedulePlans : TRUE}
===============================================================================
