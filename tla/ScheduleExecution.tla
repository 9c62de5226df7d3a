--------------------------- MODULE ScheduleExecution ---------------------------
(***************************************************************************)
(* The operation by operation schedule of a backend executable: its nodes,  *)
(* fusion groups and liveness (src/backend/mlx_metal/program_build.zig,     *)
(* program_fusion.zig, program_schedule_build.zig), the table of values that *)
(* an execution walks it with (execution_values.zig, execution_schedule.zig, *)
(* execution_node*.zig), and the outputs it hands over.  The same walk      *)
(* builds the trace of a compiled program.                                  *)
(*                                                                         *)
(* A plan has parameters 1 .. params and instructions [op, inputs, outputs, *)
(* element]; an op stands for all those that are run alike:                 *)
(*   "constant"; "copy" (clones its operand); "map" (fusible, one backend    *)
(*   call); "op" (not fusible, one call, a sort up among them); "sort" (one  *)
(*   operand, down); "sort_pair"; "top_k"; "pair" (a reduction with indices, *)
(*   or random bits); "barrier"; "tuple" and "get"; "while" (one counter,    *)
(*   one invariant, whose double is the step).                               *)
(***************************************************************************)
EXTENDS Integers, Sequences, FiniteSets, FiniteSetsExt, Functions

CONSTANTS
  SchedulePlans,   \* executable plans
  BackendHandles   \* backend buffers there is room for

Operations == {"constant", "copy", "map", "op", "sort", "sort_pair", "top_k", "pair", "barrier", "tuple", "get", "while"}
TwoOutputs == {"sort_pair", "top_k", "pair", "while"}
OneInput == {"copy", "sort", "get", "top_k"}
TwoInputs == {"sort_pair", "while"}

ValuesOfPlan(p) == 1 .. p.params \cup UNION {Range(p.instructions[i].outputs) : i \in DOMAIN p.instructions}

(* What the lowering makes of a program: every instruction has the operands  *)
(* and results that its kind requires, among the values of the plan, whose   *)
(* arguments and constants have a buffer, and a "get" an element to get.    *)
WellTyped(p) ==
  LET V == ValuesOfPlan(p) IN
  /\ p.params \in Nat
  /\ p.instructions \in Seq([op : Operations, inputs : Seq(V), outputs : Seq(V), element : Nat])
  /\ V \subseteq Nat \ {0} /\ 1 .. p.params \subseteq BackendHandles
  /\ p.output_ids \in Seq(V)
  /\ \A i \in DOMAIN p.instructions :
       LET instruction == p.instructions[i]
           op == instruction.op
           in == instruction.inputs
           out == instruction.outputs
       IN /\ Len(out) = IF op = "barrier" THEN Len(in) ELSE IF op \in TwoOutputs THEN 2 ELSE 1
          /\ op \in OneInput => Len(in) = 1
          /\ op \in TwoInputs => Len(in) = 2
          /\ op = "constant" => out[1] \in BackendHandles
          /\ op = "get" =>
               LET producers == {j \in DOMAIN p.instructions : in[1] \in Range(p.instructions[j].outputs)}
               IN producers # {} /\ \A j \in producers : instruction.element \in DOMAIN p.instructions[j].inputs

(* verifyExecutablePlan, of the values: an argument is defined from the start, *)
(* any other value by one instruction, before those that read it.          *)
InOrder(p) ==
  /\ \A i, j \in DOMAIN p.instructions :
       \A k \in DOMAIN p.instructions[i].outputs, m \in DOMAIN p.instructions[j].outputs :
         p.instructions[i].outputs[k] = p.instructions[j].outputs[m] => i = j /\ k = m
  /\ \A i \in DOMAIN p.instructions :
       /\ Range(p.instructions[i].outputs) \cap (1 .. p.params) = {}
       /\ Range(p.instructions[i].inputs) \subseteq
            (1 .. p.params) \cup UNION {Range(p.instructions[j].outputs) : j \in 1 .. i - 1}

ASSUME ScheduleAssumption ==
  /\ BackendHandles \subseteq Nat \ {0}
  /\ \A p \in SchedulePlans : WellTyped(p)

ASSUME ScheduleOrder == \A p \in SchedulePlans : InOrder(p)

VARIABLES
  plan,      \* the plan of the executable
  tracing,   \* whether the walk builds the trace of a compiled program
  position,  \* the next node, one past the last for the outputs
  operation, \* how far the operation of this node is: [at, local], see below
  table,     \* [memory, handles, owned, misused], see below
  outputs,   \* the handles handed over
  outcome    \* "new", "running", "evaluated", "returned" or "failed"

scheduleVars == <<plan, tracing, position, operation, table, outputs, outcome>>

NoHandle == 0
----------------------------------------------------------------------------
(* The program of a plan.                                                  *)

ProgramNodes == DOMAIN plan.instructions
NodeOutputs(i) == Range(plan.instructions[i].outputs)
ParameterIds == 1 .. plan.params
AllValues == ValuesOfPlan(plan)

TupleProducer(v) == CHOOSE i \in ProgramNodes : v \in NodeOutputs(i)
(* The element that a "get" asks for.                                      *)
TupleElement(instruction) ==
  plan.instructions[TupleProducer(instruction.inputs[1])].inputs[instruction.element]

(* programNodeInputs: a "get" also reads the element.                      *)
programNodeInputs(i) ==
  LET instruction == plan.instructions[i] IN
    IF instruction.op = "get"
      THEN <<instruction.inputs[1], TupleElement(instruction)>>
      ELSE instruction.inputs

ReadBy(v) == {i \in ProgramNodes : v \in Range(programNodeInputs(i))}
lastUseNode(v) == Max({0} \cup ReadBy(v))
isOutput(v) == v \in Range(plan.output_ids)

programNodeIsFusible(i) == plan.instructions[i].op \in {"map", "copy", "tuple", "get"}

(* The fusion group of a node: the run of fusible nodes around it.         *)
FusionGroupOf(i) ==
  {j \in ProgramNodes : \A k \in Min({i, j}) .. Max({i, j}) : programNodeIsFusible(k)}

(* group.output_values.                                                    *)
GroupOutputs(S) ==
  {v \in UNION {NodeOutputs(i) : i \in S} : isOutput(v) \/ ~(ReadBy(v) \subseteq S)}
GroupInputs(S) ==
  (UNION {Range(programNodeInputs(i)) : i \in S}) \ UNION {NodeOutputs(i) : i \in S}
----------------------------------------------------------------------------
(* The table of values: what each backend buffer that exists holds, the      *)
(* handle of each value, whether the table owns it, and whether a buffer was *)
(* destroyed twice or read after it was destroyed.                         *)

Existing(t) == DOMAIN t.memory

DestroyAll(t, handles) ==
  [t EXCEPT !.memory = Restrict(t.memory, Existing(t) \ handles),
            !.misused = t.misused \/ ~(handles \subseteq Existing(t))]

(* destroyOwnedValueHandles, of some of the values.                        *)
DestroyOwned(t, vs) ==
  LET mine == {v \in vs : t.owned[v] /\ t.handles[v] # NoHandle}
      twice == \E v, w \in mine : v # w /\ t.handles[v] = t.handles[w]
  IN [DestroyAll(t, {t.handles[v] : v \in mine}) EXCEPT !.misused = @ \/ twice]

(* storeOwnedValueHandle, storeBorrowedValueHandle.                        *)
Store(t, v, h, owned) ==
  [DestroyOwned(t, {v}) EXCEPT !.handles[v] = h, !.owned[v] = owned]

ReleaseAll(t, vs) ==
  [DestroyOwned(t, vs) EXCEPT
     !.handles = [v \in AllValues |-> IF v \in vs /\ t.owned[v] THEN NoHandle ELSE @[v]],
     !.owned = [v \in AllValues |-> @[v] /\ v \notin vs]]

(* Mutant: outputs are released like any other value.                      *)
DiesEvenOutput(S, i) == {v \in Range(programNodeInputs(i)) : lastUseNode(v) <= Max(S)}
(* LivenessRelease.afterNode (S the node) and fusionGroup (S the group).   *)
DeadAfter(S, i) ==
  {v \in Range(programNodeInputs(i)) : ~isOutput(v) /\ lastUseNode(v) <= Max(S)}

ReleaseAfter(t, S) == ReleaseAll(t, UNION {DeadAfter(S, i) : i \in S})

(* ValueBindings.deinit.                                                   *)
Deinit(t) ==
  [DestroyOwned(t, AllValues) EXCEPT
     !.handles = [v \in AllValues |-> NoHandle], !.owned = [v \in AllValues |-> FALSE]]
----------------------------------------------------------------------------
(* What an operation does, step by step.  Its local handles are negative;   *)
(* a value, positive, stands for its entry in the table.  A call of the     *)
(* backend reads some of these, makes buffers for locals, or fails: then the *)
(* errdefers and defers in force undo what they are about, destroying locals *)
(* and releasing values.  The value of a store is in range, and so it never  *)
(* fails: an errdefer with no call after it is left out.                   *)

Locals == -6 .. -1
Call(made, op, operands, undo) == [do |-> "call", made |-> made, op |-> op, from |-> operands, undo |-> undo]
Drop(local) == [do |-> "drop", slot |-> local]
Keep(v, local) == [do |-> "keep", slot |-> v, from |-> local]
Borrow(v) == [do |-> "borrow", slot |-> v]

(* The descending direction, which reverseIfDescending reverses.           *)
SortDown(operand, out) ==
  <<Call(<<-1>>, "sort", <<operand>>, {}), Call(<<-2>>, "reverse", <<-1>>, {-1}), Drop(-1), Keep(out, -2)>>

SortPair(keys, vals, out) ==
  <<Call(<<-1>>, "sort", <<keys>>, {}), Call(<<-2>>, "reverse", <<-1>>, {-1}), Drop(-1),
    Call(<<-3>>, "argsort", <<keys>>, {-2}), Call(<<-4>>, "reverse", <<-3>>, {-2, -3}), Drop(-3),
    Call(<<-5>>, "take", <<vals, -4>>, {-2, -4}), Keep(out[1], -2), Keep(out[2], -5), Drop(-4)>>

(* topK.  The errdefers of the sorted values stay in force once these are    *)
(* destroyed, and there is none of what was sliced from them.              *)
TopK(operand, out) ==
  <<Call(<<-1>>, "sort", <<operand>>, {}), Call(<<-2>>, "reverse", <<-1>>, {-1}), Drop(-1),
    Call(<<-3>>, "slice", <<-2>>, {-2}), Drop(-2),
    Call(<<-4>>, "argsort", <<operand>>, {-2}), Call(<<-5>>, "reverse", <<-4>>, {-2, -4}), Drop(-4),
    Call(<<-6>>, "slice", <<-5>>, {-2, -5}), Drop(-5), Keep(out[1], -3), Keep(out[2], -6)>>

(* reduceMaxWithIndices, rngBitGenerator: one call makes both.             *)
PairOf(in, out) == <<Call(<<-1, -2>>, "pair", in, {}), Keep(out[1], -1), Keep(out[2], -2)>>

(* WhileLoopDispatch: the step is freed at the end, the invariant cloned.  *)
WhileLoop(in, out) ==
  <<Call(<<-1>>, "double", <<in[2]>>, {}), Call(<<-2>>, "loop", <<in[1], in[2], -1>>, {-1}), Keep(out[1], -2),
    Call(<<-3>>, "clone", <<in[2]>>, {-1}), Keep(out[2], -3), Drop(-1)>>

(* optimizationBarrier: clones in turn, those stored are undone.           *)
Barrier(in, out) ==
  [j \in 1 .. 2 * Len(in) |->
     LET k == (j + 1) \div 2 IN
       IF j % 2 = 1 THEN Call(<<-1>>, "clone", <<in[k]>>, {out[m] : m \in 1 .. k - 1}) ELSE Keep(out[k], -1)]

OperationOf(i) ==
  LET instruction == plan.instructions[i]
      in == instruction.inputs
      out == instruction.outputs
      op == instruction.op
  IN CASE op = "constant" -> <<Borrow(out[1])>>
       [] op = "tuple" -> <<>>
       [] op = "copy" -> <<Call(<<-1>>, "clone", in, {}), Keep(out[1], -1)>>
       [] op = "get" -> <<Call(<<-1>>, "clone", <<TupleElement(instruction)>>, {}), Keep(out[1], -1)>>
       [] op \in {"map", "op"} -> <<Call(<<-1>>, "apply", in, {}), Keep(out[1], -1)>>
       [] op = "sort" -> SortDown(in[1], out[1])
       [] op = "sort_pair" -> SortPair(in[1], in[2], out)
       [] op = "top_k" -> TopK(in[1], out)
       [] op = "pair" -> PairOf(in, out)
       [] op = "barrier" -> Barrier(in, out)
       [] op = "while" -> WhileLoop(in, out)

(* No operation in progress: the next one begins at its first step.        *)
NoOperation == [at |-> 1, local |-> [l \in Locals |-> NoHandle]]
Step == OperationOf(position)[operation.at]
AtStep(kind) ==
  /\ outcome = "running" /\ position \in ProgramNodes
  /\ operation.at \in DOMAIN OperationOf(position) /\ Step.do = kind

HandleOf(operand) == IF operand \in Locals THEN operation.local[operand] ELSE table.handles[operand]

(* The first of two results is told apart from the second.                 *)
Result(op, k, contents) == IF op = "clone" THEN contents[1] ELSE <<op, k, contents>>

(* The n buffers that a call makes: any that do not exist.                 *)
Fresh(n) == {new \in [1 .. n -> BackendHandles \ Existing(table)] : IsInjective(new)}
WithBuffers(t, new, contents) ==
  [t EXCEPT !.memory = [h \in Existing(t) \cup Range(new) |->
     IF h \in Range(new) THEN contents[CHOOSE k \in DOMAIN new : new[k] = h] ELSE t.memory[h]]]

(* A call reads the buffers of some handles.                               *)
Reading(t, handles) == [t EXCEPT !.misused = t.misused \/ ~(handles \subseteq Existing(t) \cup {NoHandle})]

UndoNothing(t, undo) == t   \* mutant: the errdefers are forgotten
Undone(t, undo) ==
  ReleaseAll(DestroyAll(t, {operation.local[l] : l \in undo \cap Locals}), undo \ Locals)
----------------------------------------------------------------------------
(* What the values of a plan mean.  Arguments and constants have buffers that *)
(* others hold, whose handle is the number of the value.                   *)

ResidentConstants == UNION {NodeOutputs(i) : i \in {j \in ProgramNodes : plan.instructions[j].op = "constant"}}
HeldByOthers == ParameterIds \cup ResidentConstants
Original(h) == <<IF h \in ParameterIds THEN "parameter" ELSE "constant", h>>

Term(instruction, k, args) ==
  LET op == instruction.op
      down(t) == <<"reverse", 1, <<t>>>>
      sorted == down(<<"sort", 1, <<args[1]>>>>)
      order == down(<<"argsort", 1, <<args[1]>>>>)
  IN CASE op \in {"copy", "barrier"} -> args[k]
       [] op = "get" -> args[2]
       [] op \in {"map", "op"} -> <<"apply", 1, args>>
       [] op = "sort" \/ (op = "sort_pair" /\ k = 1) -> sorted
       [] op = "sort_pair" /\ k = 2 -> <<"take", 1, <<args[2], order>>>>
       [] op = "top_k" -> <<"slice", 1, <<IF k = 1 THEN sorted ELSE order>>>>
       [] op = "pair" -> <<"pair", k, args>>
       [] op = "while" -> IF k = 1 THEN <<"loop", 1, <<args[1], args[2], <<"double", 1, <<args[2]>>>>>>>> ELSE args[2]
       [] op = "tuple" -> <<"tuple", args>>

MeaningOf ==
  LET of[v \in AllValues] ==
        IF v \in HeldByOthers THEN Original(v)
        ELSE LET i == TupleProducer(v)
                 instruction == plan.instructions[i]
             IN Term(instruction, CHOOSE k \in DOMAIN instruction.outputs : instruction.outputs[k] = v,
                          [k \in DOMAIN programNodeInputs(i) |-> of[programNodeInputs(i)[k]]])
  IN of

(* What the generated kernel of a group computes from its inputs.          *)
GeneratedKernel(S, v) ==
  LET of[w \in GroupInputs(S) \cup UNION {NodeOutputs(i) : i \in S}] ==
        IF w \in GroupInputs(S) THEN table.memory[table.handles[w]]
        ELSE LET i == TupleProducer(w) IN
          Term(plan.instructions[i], 1, [k \in DOMAIN programNodeInputs(i) |-> of[programNodeInputs(i)[k]]])
  IN of[v]
----------------------------------------------------------------------------
(* The walk.                                                               *)

Unwalked ==
  /\ position = 1
  /\ operation = NoOperation
  /\ table = [memory |-> [h \in HeldByOthers |-> Original(h)], handles |-> [v \in AllValues |-> NoHandle],
              owned |-> [v \in AllValues |-> FALSE], misused |-> FALSE]
  /\ outputs = <<>>
  /\ outcome = "new"

ScheduleInit == plan \in SchedulePlans /\ tracing \in BOOLEAN /\ Unwalked

(* ValueBindings.init.                                                     *)
BindArguments ==
  /\ outcome = "new"
  /\ outcome' = "running"
  /\ table' = [table EXCEPT !.handles = [v \in AllValues |-> IF v \in ParameterIds THEN v ELSE NoHandle]]
  /\ UNCHANGED <<plan, tracing, position, operation, outputs>>

WalkFails(t) ==
  /\ outcome' = "failed"
  /\ table' = Deinit(t)
  /\ operation' = NoOperation
  /\ outputs' = <<>>
  /\ UNCHANGED <<plan, tracing, position>>

Proceed(t, local) ==
  /\ table' = t
  /\ operation' = [at |-> operation.at + 1, local |-> local]
  /\ UNCHANGED <<plan, tracing, position, outputs, outcome>>

(* A call of the backend: it may fail, and does when an operand is missing. *)
CallBackend ==
  /\ AtStep("call")
  /\ LET handles == [k \in DOMAIN Step.from |-> HandleOf(Step.from[k])]
         t == Reading(table, Range(handles))
         slots == DOMAIN Step.made
     IN \/ WalkFails(Undone(t, Step.undo))
        \/ /\ Range(handles) \subseteq Existing(t)
           /\ Fresh(Len(Step.made)) # {}
           /\ LET new == CHOOSE f \in Fresh(Len(Step.made)) : TRUE
                  contents == [k \in DOMAIN handles |-> t.memory[handles[k]]]
              IN Proceed(WithBuffers(t, new, [k \in slots |-> Result(Step.op, k, contents)]),
                         [l \in Locals |-> IF l \in Range(Step.made)
                                            THEN new[CHOOSE k \in slots : Step.made[k] = l]
                                            ELSE operation.local[l]])

DropLocal ==
  /\ AtStep("drop")
  /\ Proceed(DestroyAll(table, {operation.local[Step.slot]}), [operation.local EXCEPT ![Step.slot] = NoHandle])

KeepResult ==
  /\ AtStep("keep")
  /\ Proceed(Store(table, Step.slot, operation.local[Step.from], TRUE),
             [operation.local EXCEPT ![Step.from] = NoHandle])

BorrowConstant ==
  /\ AtStep("borrow")
  /\ Proceed(Store(table, Step.slot, Step.slot, FALSE), operation.local)

(* A node, on its own or in a group that runs node by node, is done: it       *)
(* releases its operands, or the group those of all its nodes at its end.  *)
FinishNode ==
  /\ outcome = "running" /\ position \in ProgramNodes
  /\ operation.at = Len(OperationOf(position)) + 1
  /\ LET scope == IF programNodeIsFusible(position) THEN FusionGroupOf(position) ELSE {position}
     IN table' = IF position = Max(scope) THEN ReleaseAfter(table, scope) ELSE table
  /\ position' = position + 1
  /\ operation' = NoOperation
  /\ UNCHANGED <<plan, tracing, outputs, outcome>>

(* FusionRunner: a generated kernel for the whole group, which makes only   *)
(* what leaves it, of one value.                                           *)
RunGroupKernel ==
  /\ outcome = "running" /\ position \in ProgramNodes /\ operation = NoOperation
  /\ programNodeIsFusible(position)
  /\ LET S == FusionGroupOf(position)
         result == CHOOSE v \in GroupOutputs(S) : TRUE
         handles == {table.handles[v] : v \in GroupInputs(S)}
         t == Reading(table, handles)
     IN /\ position = Min(S)
        /\ \A i \in S : plan.instructions[i].op \in {"map", "copy"}
        /\ Cardinality(GroupOutputs(S)) = 1
        /\ \/ NoHandle \in handles /\ WalkFails(t)
           \/ /\ handles \subseteq Existing(t)
              /\ Fresh(1) # {}
              /\ LET new == CHOOSE f \in Fresh(1) : TRUE
                 IN table' = ReleaseAfter(
                      Store(WithBuffers(t, new, <<GeneratedKernel(S, result)>>), result, new[1], TRUE), S)
              /\ position' = Max(S) + 1
              /\ UNCHANGED <<plan, tracing, operation, outputs, outcome>>

AtEnd == position = Len(plan.instructions) + 1

(* MaterializationBoundaryEval: the outputs are evaluated, or the call      *)
(* fails; a trace is not.                                                  *)
EvaluateOutputs ==
  /\ outcome = "running" /\ AtEnd
  /\ \/ /\ tracing \/ \A v \in Range(plan.output_ids) : table.handles[v] # NoHandle
        /\ outcome' = "evaluated"
        /\ UNCHANGED <<plan, tracing, position, operation, table, outputs>>
     \/ ~tracing /\ WalkFails(table)

(* OutputBindings.clone, one output: a value that the table owns is handed   *)
(* over, any other is cloned; if that fails, those before are destroyed.    *)
HandOverOutput ==
  /\ outcome = "evaluated" /\ Len(outputs) < Len(plan.output_ids)
  /\ LET v == plan.output_ids[Len(outputs) + 1]
         h == table.handles[v]
         t == Reading(table, {h})
     IN \/ /\ h # NoHandle /\ table.owned[v]
           /\ table' = [table EXCEPT !.owned[v] = FALSE]
           /\ outputs' = Append(outputs, h)
           /\ UNCHANGED <<plan, tracing, position, operation, outcome>>
        \/ /\ h \in Existing(t) /\ ~table.owned[v]
           /\ Fresh(1) # {}
           /\ LET new == CHOOSE f \in Fresh(1) : TRUE
              IN /\ table' = WithBuffers(t, new, <<t.memory[h]>>)
                 /\ outputs' = Append(outputs, new[1])
           /\ UNCHANGED <<plan, tracing, position, operation, outcome>>
        \/ (h = NoHandle \/ ~table.owned[v]) /\ WalkFails(DestroyAll(t, Range(outputs)))

ReturnOutputs ==
  /\ outcome = "evaluated" /\ Len(outputs) = Len(plan.output_ids)
  /\ table' = Deinit(table)
  /\ outcome' = "returned"
  /\ UNCHANGED <<plan, tracing, position, operation, outputs>>

ScheduleNext ==
  \/ BindArguments
  \/ CallBackend \/ DropLocal \/ KeepResult \/ BorrowConstant \/ FinishNode
  \/ RunGroupKernel
  \/ EvaluateOutputs \/ HandOverOutput \/ ReturnOutputs

ScheduleSpec == ScheduleInit /\ [][ScheduleNext]_scheduleVars
----------------------------------------------------------------------------
(* Properties.                                                             *)

ScheduleTypeOK ==
  /\ position \in 1 .. Len(plan.instructions) + 1
  /\ outcome \in {"new", "running", "evaluated", "returned", "failed"}
  /\ operation.at \in Nat \ {0}
  /\ operation.local \in [Locals -> BackendHandles \cup {NoHandle}]
  /\ table.handles \in [AllValues -> BackendHandles \cup {NoHandle}]
  /\ table.owned \in [AllValues -> BOOLEAN]
  /\ Existing(table) \subseteq BackendHandles
  /\ Len(outputs) <= Len(plan.output_ids)

(* The places that own a backend buffer: a value of the table, a local of    *)
(* the operation in progress, an output handed over.                       *)
Owners ==
  {<<"value", v>> : v \in {w \in AllValues : table.owned[w]}}
    \cup {<<"local", l>> : l \in {m \in Locals : operation.local[m] # NoHandle}}
    \cup {<<"output", k>> : k \in DOMAIN outputs}
Holding(p) ==
  CASE p[1] = "value" -> table.handles[p[2]]
    [] p[1] = "local" -> operation.local[p[2]]
    [] p[1] = "output" -> outputs[p[2]]

(* Every backend buffer is an argument, a constant, or owned by one place:   *)
(* whatever call of whatever operation failed, none is lost, destroyed twice *)
(* or used once destroyed.                                                 *)
BuffersAccounted ==
  /\ ~table.misused
  /\ Existing(table) = HeldByOthers \cup {Holding(p) : p \in Owners}
  /\ \A p \in Owners : Holding(p) \notin HeldByOthers
  /\ \A p, q \in Owners : Holding(p) = Holding(q) => p = q
  /\ outcome \in {"returned", "failed"} => \A p \in Owners : p[1] = "output"

(* The values computed by the nodes behind, and those that the nodes ahead  *)
(* read, of those that have a buffer (a tuple has none).                   *)
Computed == {v \in AllValues : v \in ParameterIds \/ TupleProducer(v) < position}
ReadAhead == {v \in AllValues : isOutput(v) \/ lastUseNode(v) >= position}
Buffered == {v \in AllValues : v \in ParameterIds \/ plan.instructions[TupleProducer(v)].op # "tuple"}

(* What was computed and is still needed is bound to a buffer with its      *)
(* meaning, and so are the outputs that are returned; what is not needed    *)
(* any more was released, at the latest by the end of its fusion group.    *)
BindingsFollowLiveness ==
  /\ outcome = "running" =>
       LET inside == position \in ProgramNodes /\ programNodeIsFusible(position)
           behind == IF inside THEN Min(FusionGroupOf(position)) ELSE position
       IN \A v \in Computed \cap Buffered :
            /\ v \in ReadAhead =>
                 \/ table.handles[v] # NoHandle /\ table.memory[table.handles[v]] = MeaningOf[v]
            /\ table.owned[v] /\ ReadBy(v) # {} /\ ~isOutput(v) => lastUseNode(v) >= behind
  /\ outcome = "returned" =>
       \A k \in DOMAIN plan.output_ids : table.memory[outputs[k]] = MeaningOf[plan.output_ids[k]]
================================================================================
