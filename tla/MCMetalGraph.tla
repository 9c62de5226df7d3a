----------------------------- MODULE MCMetalGraph -----------------------------
(* Plans of one parameter and three instructions, each of every kind over    *)
(* every operand, some of two parameters, with and without fusion and        *)
(* donation, lowered by MetalLowering; and requests that are no plan's.      *)
EXTENDS MetalGraph

L == INSTANCE MetalLowering

Instructions(k) ==
  {[kind |-> "constant", inputs |-> <<>>]}
  \cup [kind : {"alias", "map"}, inputs : {<<v>> : v \in 1 .. k}]
  \cup [kind : {"update", "dot"}, inputs : (1 .. k) \X (1 .. k)]

Plan(data, instructions, outputs, donations, conservative, min_nodes) ==
  [params |-> Len(data), data |-> data, instructions |-> instructions, output_ids |-> outputs,
   donations |-> donations, conservative |-> conservative, min_nodes |-> min_nodes, elements |-> 4]

Donate(o, p) == {[output |-> o, parameter |-> p]}

(* A plan is of interest when something is updated in place, or dots group,  *)
(* and the first results are used.                                           *)
OnePar ==
  {p \in {Plan(<<1>>, <<a, b, c>>, outs, don, FALSE, 0) :
          a \in Instructions(1), b \in Instructions(2), c \in Instructions(3),
          outs \in {<<4>>, <<4, 3>>}, don \in {{}, Donate(1, 1)}} :
     /\ \E i \in 1 .. 3 : L!UpdatesInPlace(p, i, L!releaseValuesAfter(p, {i})) \/ L!dotGroupAt(p, i) # {}
     /\ L!NoDeadCode(p)}

Fused ==
  {Plan(<<1>>, <<a, b, c>>, outs, {}, cons, min) :
     a \in {x \in Instructions(1) : x.kind \in {"alias", "map"}},
     b \in {x \in Instructions(2) : x.kind \in {"alias", "map"}},
     c \in {x \in Instructions(3) : x.kind # "dot"},
     outs \in {<<4>>, <<3>>, <<4, 2>>}, cons \in BOOLEAN, min \in {0, 2, 3}}

Map(v) == [kind |-> "map", inputs |-> <<v>>]
View(v) == [kind |-> "alias", inputs |-> <<v>>]
Dot(v, w) == [kind |-> "dot", inputs |-> <<v, w>>]
Update(v, w) == [kind |-> "update", inputs |-> <<v, w>>]

(* Chains that three instructions are too few for.                         *)
Longer ==
  {Plan(<<1, 2>>, s, outs, don, FALSE, 0) :
     s \in {<<Dot(1, 2), Dot(1, 2), Dot(1, 1), Map(4)>>, <<Map(1), Update(3, 2), Update(4, 2), Map(5)>>,
            <<Dot(2, 1), Dot(2, 1), Update(3, 4), View(5)>>, <<Update(1, 2), Update(3, 2), View(4), Map(2)>>},
     outs \in {<<6>>, <<6, 4>>, <<5, 6>>}, don \in {{}, Donate(1, 1)}}
  \cup
  {Plan(<<1, 1>>, <<a, b>>, <<4>>, don, FALSE, 0) :
     a \in Instructions(2), b \in Instructions(3), don \in {{}, Donate(1, 1), Donate(1, 2)}}

(* Requests that are not the planner's: kernels on their own, with operands  *)
(* that do and do not fit; and programs with an index that is out of range,  *)
(* an output that is released, a value that nothing computes.                *)
Kernel(kind, in_spec, out_spec) ==
  LET s == [alias |-> FALSE, inputs |-> <<1, 2>>, outputs |-> <<3>>, release |-> {}, in_place |-> 0, elements |-> 4,
            kernel |-> {[kind |-> "map", inputs |-> <<1, 2>>, result |-> 3]}]
  IN [kind |-> kind, specs |-> <<4, in_spec, out_spec>>, params |-> 2, inputs |-> <<1, 2>>, outputs |-> <<3>>,
      steps |-> <<s>>, donated |-> {}, root |-> <<1, 2, 3>>, safe |-> TRUE, compact |-> TRUE,
      meaning |-> <<<<1, <<>>>>, <<IF in_spec = 4 THEN 2 ELSE 3, <<>>>>, <<3, <<<<1, <<>>>>, <<IF in_spec = 4 THEN 2 ELSE 3, <<>>>>>>>>>>]

Chain == L!Lower(Plan(<<1>>, <<Map(1), Map(2)>>, <<3>>, {}, FALSE, 0))
Odd(r) == [r EXCEPT !.safe = FALSE, !.compact = FALSE]
Strange ==
  {Kernel("kernel", 4, 4), Kernel("kernel", 1, 4), Kernel("legacy", 4, 4), Kernel("legacy", 1, 4),
   Kernel("kernel", 3, 4), Kernel("legacy", 4, 3), Kernel("legacy", 0, 4),
   [Chain EXCEPT !.steps[1].inputs = <<4>>], [Chain EXCEPT !.steps[2].in_place = 2],
   [Chain EXCEPT !.steps[2].release = {3}], [Chain EXCEPT !.steps[1].release = {2}]}

Plans == OnePar \cup Fused \cup Longer
ASSUME PlansVerified == \A plan \in Plans : L!Verified(plan)

MCRequests == {L!Lower(plan) : plan \in Plans} \cup {Odd(r) : r \in Strange}

(* Two arrays with the data of the first parameter, one of them not yet      *)
(* evaluated, one of the second, and one that is never dense; the operand    *)
(* of one element.                                                           *)
MCHostArrays ==
  LET Array(d, spec, layout) == [data |-> <<d, <<>>>>, spec |-> spec, layout |-> layout]
  IN <<Array(1, 4, "dense"), Array(1, 4, "lazy"), Array(2, 4, "dense"), Array(1, 4, "strided"), Array(3, 1, "dense"), Array(2, 3, "dense")>>

MCCompute(s, a) == L!RunKernel(s, a)
MCUnwritten == <<0, <<>>>>
===============================================================================
