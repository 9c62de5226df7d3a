---------------------------- MODULE MetalLowering ----------------------------
(***************************************************************************)
(* The planner of executable Metal programs: from an executable plan to the *)
(* create request of MetalGraph                                             *)
(* (src/backend/mlx_metal/executable_metal_graph_lowering*.zig, program_*,  *)
(* executable_metal_graph_program_request.zig).                             *)
(*                                                                         *)
(* A plan has parameters 1 .. params, and instructions of one result each,  *)
(* numbered from params + 1.  Their kinds tell apart what the planner does: *)
(* "constant", "alias" (a view that keeps the elements: reshape, copy),     *)
(* "map" (elementwise), "update" (dynamic_update_slice) and "dot"           *)
(* (dot_general, of the sizes that tile).  All tensors have one element     *)
(* count, so that every fusible chain has the shapes fusion asks for.       *)
(***************************************************************************)
EXTENDS Integers, Sequences, FiniteSets, FiniteSetsExt, Functions

Nodes(plan) == DOMAIN plan.instructions
Kind(plan, i) == plan.instructions[i].kind
Operands(plan, i) == Range(plan.instructions[i].inputs)
ResultId(plan, i) == plan.params + i
ValueIds(plan) == 1 .. plan.params + Len(plan.instructions)
Run(i, j) == i .. j

(* The numbers of S in ascending order.                                    *)
Ascending(S) ==
  CHOOSE f \in [1 .. Cardinality(S) -> S] : \A j, k \in 1 .. Cardinality(S) : j < k => f[j] < f[k]

(* verifyExecutablePlan: operands come before the instructions that read    *)
(* them; an output and a donation are of values there are.  (The tensors     *)
(* are as large as a kernel may be.)                                        *)
Verified(plan) ==
  /\ plan.params \in Nat
  /\ plan.instructions \in Seq([kind : {"constant", "alias", "map", "update", "dot"}, inputs : Seq(Nat)])
  /\ \A i \in Nodes(plan) :
       /\ Operands(plan, i) \subseteq 1 .. plan.params + i - 1
       /\ CASE Kind(plan, i) = "constant" -> plan.instructions[i].inputs = <<>>
            [] Kind(plan, i) = "alias" -> Len(plan.instructions[i].inputs) = 1
            [] Kind(plan, i) \in {"update", "dot"} -> Len(plan.instructions[i].inputs) = 2
            [] OTHER -> TRUE
  /\ plan.output_ids \in Seq(ValueIds(plan))
  /\ plan.donations \subseteq [output : DOMAIN plan.output_ids, parameter : 1 .. plan.params]
  /\ plan.elements \in 1 .. 2^30

(* program_build.build: the liveness of a value.                           *)
producer_node(plan, v) == v - plan.params   \* not positive for a parameter
last_use_node(plan, v) == Max({0} \cup {i \in Nodes(plan) : v \in Operands(plan, i)})
is_output(plan, v) == v \in Range(plan.output_ids)

(* Mutant: an output may be released.                                      *)
releasableOutput(plan, v) == producer_node(plan, v) > 0 /\ Kind(plan, producer_node(plan, v)) # "constant"
releasableValue(plan, v) ==
  /\ ~is_output(plan, v)
  /\ producer_node(plan, v) > 0
  /\ Kind(plan, producer_node(plan, v)) # "constant"

(* Mutant: a value is released after its last use, not with it.            *)
releaseValuesLate(plan, S) ==
  {v \in UNION {Operands(plan, i) : i \in S} : releasableValue(plan, v) /\ last_use_node(plan, v) < Max(S)}
(* releaseValuesAfterNode, ...NodeRange, ...InstructionRange, ...FusionGroup. *)
releaseValuesAfter(plan, S) ==
  {v \in UNION {Operands(plan, i) : i \in S} :
     releasableValue(plan, v) /\ last_use_node(plan, v) <= Max(S)}
----------------------------------------------------------------------------
(* Fusion.                                                                 *)

programNodeFusible(kind) == kind \in {"alias", "map"}

(* The longest run from i of nodes in S.                                   *)
LongestRun(plan, i, S) == {j \in Run(i, Len(plan.instructions)) : Run(i, j) \subseteq S}

valueEscapesNodes(plan, v, S) ==
  is_output(plan, v) \/ last_use_node(plan, v) \notin S \cup {0}

FusedOutputs(plan, S) == {v \in {ResultId(plan, i) : i \in S} : valueEscapesNodes(plan, v, S)}
FusedInputs(plan, S) == (UNION {Operands(plan, i) : i \in S}) \ {ResultId(plan, i) : i \in S}

groupEligible(plan, S) ==
  IF plan.min_nodes > 0
    THEN Cardinality(S) >= plan.min_nodes
    ELSE /\ plan.conservative
         /\ Cardinality(S) \in 2 .. 4
         /\ Cardinality(FusedOutputs(plan, S)) = 1

(* The fusion group that begins at node i, or the longest eligible segment  *)
(* of one; none when there is none.                                        *)
fusionSegmentAt(plan, i) ==
  LET fusible == {k \in Nodes(plan) : programNodeFusible(Kind(plan, k))}
      ends == {j \in LongestRun(plan, i, fusible) : groupEligible(plan, Run(i, j))}
  IN IF ends = {} THEN {} ELSE Run(i, Max(ends))

(* Adjacent dots of one left operand.                                      *)
dotGroupAt(plan, i) ==
  LET lhs(k) == plan.instructions[k].inputs[1]
      joins == {k \in Nodes(plan) : Kind(plan, k) = "dot" /\ lhs(k) = lhs(i)}
      group == LongestRun(plan, i, joins)
  IN IF Kind(plan, i) = "dot" /\ Cardinality(group) > 1 THEN group ELSE {}
----------------------------------------------------------------------------
(* Steps.                                                                  *)

Kernel(plan, S) == {[kind |-> Kind(plan, i), inputs |-> plan.instructions[i].inputs, result |-> ResultId(plan, i)] : i \in S}

GraphStep(plan, S, inputs, outputs, release) ==
  [alias |-> FALSE, inputs |-> inputs, outputs |-> outputs, release |-> release,
   in_place |-> 0, elements |-> plan.elements, kernel |-> Kernel(plan, S)]

(* dynamicUpdateSliceInPlaceInput: the operand dies here, or is a parameter *)
(* donated to this very output.                                            *)
UpdatesInPlace(plan, i, release) ==
  LET operand == plan.instructions[i].inputs[1] IN
  /\ Kind(plan, i) = "update"
  /\ \/ operand \in release
     \/ \E a \in plan.donations : a.parameter = operand /\ plan.output_ids[a.output] = ResultId(plan, i)

makeStep(plan, i, release) ==
  [GraphStep(plan, {i}, plan.instructions[i].inputs, <<ResultId(plan, i)>>, release) EXCEPT
     !.alias = Kind(plan, i) = "alias",
     !.in_place = IF UpdatesInPlace(plan, i, release) THEN 1 ELSE 0]

appendInstructionStep(plan, i, release) ==
  IF Kind(plan, i) = "constant" THEN <<>> ELSE <<makeStep(plan, i, release)>>

(* A group that no kernel can be written for, as nothing leaves it, becomes *)
(* one step per node, and its last step releases for all.                  *)
FusionSteps(plan, S) ==
  IF FusedOutputs(plan, S) # {}
    THEN <<GraphStep(plan, S, Ascending(FusedInputs(plan, S)), Ascending(FusedOutputs(plan, S)), releaseValuesAfter(plan, S))>>
    ELSE [k \in 1 .. Cardinality(S) |->
           LET i == Min(S) + k - 1 IN makeStep(plan, i, IF i = Max(S) THEN releaseValuesAfter(plan, S) ELSE {})]

makeGroupStep(plan, S) ==
  GraphStep(plan, S,
       <<plan.instructions[Min(S)].inputs[1]>> \o [k \in 1 .. Cardinality(S) |-> plan.instructions[Min(S) + k - 1].inputs[2]],
       [k \in 1 .. Cardinality(S) |-> ResultId(plan, Min(S) + k - 1)],
       releaseValuesAfter(plan, S))

(* metal_graph_lowering.run, and the steps of initRequest: the nodes taken   *)
(* together from node i, and what becomes of them.                         *)
NodesFrom(plan, i) ==
  IF dotGroupAt(plan, i) # {} THEN dotGroupAt(plan, i)
  ELSE IF fusionSegmentAt(plan, i) # {} THEN fusionSegmentAt(plan, i)
  ELSE {i}

StepsOf(plan, i) ==
  IF dotGroupAt(plan, i) # {} THEN <<makeGroupStep(plan, dotGroupAt(plan, i))>>
  ELSE IF fusionSegmentAt(plan, i) # {} THEN FusionSteps(plan, fusionSegmentAt(plan, i))
  ELSE appendInstructionStep(plan, i, releaseValuesAfter(plan, {i}))

LoweredSteps(plan) ==
  LET from[i \in 1 .. Len(plan.instructions) + 1] ==
        IF i = Len(plan.instructions) + 1 THEN <<>>
        ELSE StepsOf(plan, i) \o from[Max(NodesFrom(plan, i)) + 1]
  IN from[1]
----------------------------------------------------------------------------
(* What values mean: terms over the data of the arguments and constants.   *)

TermOf(instruction, v, of) ==
  IF instruction.kind = "constant" THEN <<v, <<>>>>
  ELSE IF instruction.kind = "alias" THEN of[instruction.inputs[1]]
  ELSE <<v, [k \in DOMAIN instruction.inputs |-> of[instruction.inputs[k]]]>>

Meaning(plan) ==
  LET of[v \in ValueIds(plan)] ==
        IF v <= plan.params THEN <<plan.data[v], <<>>>> ELSE TermOf(plan.instructions[v - plan.params], v, of)
  IN of

(* The kernel of a step, over the contents of its inputs: it computes its   *)
(* nodes in order, and takes from memory what is listed as an input.       *)
RunKernel(step, args) ==
  LET node(v) == CHOOSE n \in step.kernel : n.result = v
      of[v \in Range(step.inputs) \cup {n.result : n \in step.kernel}] ==
        IF v \in Range(step.inputs)
          THEN args[CHOOSE k \in DOMAIN step.inputs : step.inputs[k] = v]
          ELSE TermOf(node(v), v, of)
  IN [j \in DOMAIN step.outputs |-> of[step.outputs[j]]]

(* The value whose storage each value shares.                              *)
Root(plan, steps) ==
  LET Shares(v) == {t \in DOMAIN steps : (steps[t].alias \/ steps[t].in_place # 0) /\ steps[t].outputs[1] = v}
      of[v \in ValueIds(plan)] ==
        IF Shares(v) = {} THEN v ELSE of[steps[Min(Shares(v))].inputs[1]]
  IN of

----------------------------------------------------------------------------
(* The plans the planner is right about.                                   *)

Uses(plan, v) == {i \in Nodes(plan) : v \in Operands(plan, i)}

(* A value that shares its storage with no other: a kernel computed it into *)
(* memory of its own, and no view of it is taken.                          *)
OwnStorage(plan, v) ==
  /\ producer_node(plan, v) > 0 => Kind(plan, producer_node(plan, v)) # "alias"
  /\ \A i \in Uses(plan, v) : Kind(plan, i) # "alias"

(* The operands that updates write in place.                               *)
TakenOver(plan) ==
  {plan.instructions[i].inputs[1] : i \in {j \in Nodes(plan) : UpdatesInPlace(plan, j, releaseValuesAfter(plan, {j}))}}

(* Outputs are distinct; a dot of a group does not use another's result; an  *)
(* update takes over only storage that is its operand's alone, and a donated *)
(* operand nothing else uses; and if it is an argument's, no other argument  *)
(* comes back as an output.                                                *)
SafePlan(plan) ==
  /\ IsInjective(plan.output_ids)
  /\ \A i \in Nodes(plan) : \A j \in dotGroupAt(plan, i) :
       Operands(plan, j) \cap {ResultId(plan, k) : k \in dotGroupAt(plan, i)} = {}
  /\ \A i \in Nodes(plan) : UpdatesInPlace(plan, i, releaseValuesAfter(plan, {i})) =>
       LET operand == plan.instructions[i].inputs[1] IN
       /\ OwnStorage(plan, operand)
       /\ last_use_node(plan, operand) = i
       /\ ~is_output(plan, operand)
  /\ LET root == Root(plan, LoweredSteps(plan))
         written == {root[v] : v \in TakenOver(plan)}
     IN written \cap (1 .. plan.params) # {} =>
          \A v \in Range(plan.output_ids) : root[v] > plan.params \/ root[v] \in written

(* Every result is used or returned, and every fusible chain has an output. *)
NoDeadCode(plan) ==
  \A i \in Nodes(plan) : is_output(plan, ResultId(plan, i)) \/ Uses(plan, ResultId(plan, i)) # {}

----------------------------------------------------------------------------
(* initRequest.                                                            *)
Lower(plan) ==
  LET steps == LoweredSteps(plan)
      constants == Ascending({ResultId(plan, i) : i \in {j \in Nodes(plan) : Kind(plan, j) = "constant"}})
  IN [kind |-> "program",
      specs |-> [v \in ValueIds(plan) |-> plan.elements],
      params |-> plan.params,
      inputs |-> [i \in 1 .. plan.params |-> i] \o constants,
      outputs |-> plan.output_ids,
      steps |-> steps,
      donated |-> {a.parameter : a \in plan.donations},
      meaning |-> Meaning(plan),
      root |-> Root(plan, steps),
      safe |-> SafePlan(plan), compact |-> NoDeadCode(plan)]
=============================================================================
