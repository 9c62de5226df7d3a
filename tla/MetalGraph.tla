------------------------------ MODULE MetalGraph ------------------------------
(***************************************************************************)
(* The executor of generated Metal programs                                 *)
(* (src/backend/mlx_metal/metalcpp_api.cc): a program is created from a     *)
(* request, or refused, then executed over host arguments and resident      *)
(* constants.  Its registers are optional arrays that share their storage   *)
(* when one is an alias of the other, or was updated in place.              *)
(*                                                                         *)
(* A request holds, besides what the code reads, the `meaning' of each      *)
(* value (what the compiled program should compute) and the value whose     *)
(* storage it shares, its `root': the properties are stated with them, no   *)
(* action reads them but to name the data of an argument.  A tensor spec is *)
(* its number of elements, 0 when the code would not accept it.             *)
(***************************************************************************)
EXTENDS Integers, Sequences, FiniteSets

CONSTANTS
  Requests,       \* the create requests
  Compute(_, _),  \* what the kernel of a step makes of the contents of its inputs
  Storages,       \* device allocations there is room for
  HostArrays,     \* the arrays of the host: [spec, data, layout] by storage
  Unwritten,      \* the content of memory nobody wrote
  MaxCalls        \* bound on the executions

Elements(s) == {s[i] : i \in DOMAIN s}

ASSUME MetalAssumption ==
  /\ Storages \subseteq Nat \ {0}
  /\ DOMAIN HostArrays \subseteq Storages
  /\ MaxCalls \in Nat

(* The shape of a request: its values are numbered, its parameters come     *)
(* first among its inputs, and one that is a kernel on its own has one step *)
(* over all of them (initialize_legacy_executable_program).                *)
ASSUME RequestAssumption ==
  \A r \in Requests :
    /\ DOMAIN r.specs \subseteq Nat
    /\ r.inputs \in Seq(Nat) /\ r.outputs \in Seq(Nat)
    /\ Len(r.steps) \in Nat /\ DOMAIN r.steps = 1 .. Len(r.steps)
    /\ \A t \in DOMAIN r.steps : r.steps[t].inputs \in Seq(Nat) /\ r.steps[t].outputs \in Seq(Nat)
    /\ r.params \in 0 .. Len(r.inputs)
    /\ r.donated \subseteq 1 .. r.params
    /\ r.kind # "program" =>
         /\ Len(r.steps) = 1 /\ r.params = Len(r.inputs) /\ r.donated = {}
         /\ Elements(r.inputs) \cup Elements(r.outputs) \subseteq DOMAIN r.specs
         /\ r.steps[1].inputs = r.inputs /\ r.steps[1].outputs = r.outputs
         /\ ~r.steps[1].alias /\ r.steps[1].in_place = 0

None == 0   \* an empty register, or an array that was moved from

VARIABLES
  program,   \* the request of the program
  status,    \* "new", "refused", "ready", "running", "returned" or "failed"
  pc,        \* the next step of a running call
  args,      \* the arrays the call was given
  values,    \* the storage of each register
  resident,  \* the storage of each constant of the executable
  heap,      \* the content of each storage
  held,      \* outputs the host was given: [storage, data]
  donated,   \* arrays the host gave away
  calls      \* how many executions there were

vars == <<program, status, pc, args, values, resident, heap, held, donated, calls>>

step == program.steps[pc]

Values(r) == DOMAIN r.specs
Parameters(r) == {r.inputs[i] : i \in 1 .. r.params}
Constants(r) == Elements(r.inputs) \ Parameters(r)
----------------------------------------------------------------------------
(* Creation: what a request is refused for.                                *)

InRange(r, indices) == Elements(indices) \subseteq Values(r)

(* initialize_generated_kernel.  A kernel on its own asks that its operands *)
(* have as many elements as it has threads, or an input one element.       *)
KernelAccepted(r, s, strict) ==
  /\ s.outputs # <<>>
  /\ s.elements \in 1 .. 2^30   \* the code's bound is 2^32 - 1
  /\ \A v \in Elements(s.inputs) :
       r.specs[v] # 0 /\ (strict => r.specs[v] \in {s.elements, 1})
  /\ \A v \in Elements(s.outputs) :
       r.specs[v] # 0 /\ (strict => r.specs[v] = s.elements)

StepAccepted(r, s) ==
  /\ InRange(r, s.inputs) /\ InRange(r, s.outputs) /\ s.release \subseteq Values(r)
  /\ IF s.alias
       THEN Len(s.inputs) = 1 /\ Len(s.outputs) = 1
       ELSE KernelAccepted(r, s, FALSE)
  /\ s.in_place # 0 => /\ ~s.alias
                       /\ Len(s.outputs) = 1
                       /\ s.in_place \in DOMAIN s.inputs

(* A request with no steps of its own is one kernel over the inputs.       *)
Accepted(r) ==
  IF r.kind = "program"
    THEN /\ \A v \in Values(r) : r.specs[v] # 0
         /\ InRange(r, r.inputs) /\ InRange(r, r.outputs)
         /\ \A t \in DOMAIN r.steps : StepAccepted(r, r.steps[t])
    ELSE KernelAccepted(r, r.steps[1], TRUE)
----------------------------------------------------------------------------
(* Registers and storage.                                                  *)

(* Mutant: the arrays of the outputs die with the call.                    *)
InUseForgetsOutputs == DOMAIN HostArrays \cup Elements(values) \cup Elements(resident)
InUse ==
  DOMAIN HostArrays \cup Elements(values) \cup Elements(resident)
    \cup {h.storage : h \in held}
Free == Storages \ InUse

(* Arrays of their own for the values in V, in the first storages free: one *)
(* free storage is as good as another.                                     *)
Allocations(V) ==
  {f \in [V -> Free] :
     /\ \A v, w \in V : v < w => f[v] < f[w]
     /\ \A v \in V : \A s \in Free \ Elements(f) : f[v] < s}

(* The memory once the storages places[j] have got the contents[j].        *)
Overwritten(places, contents) ==
  [s \in Storages |->
     IF \E j \in DOMAIN places : places[j] = s
       THEN contents[CHOOSE j \in DOMAIN places : places[j] = s]
       ELSE heap[s]]

EmptyInputs(r) == [v \in Elements(r.inputs) |-> None]   \* mutant: too few registers
Empty(r) == [v \in Values(r) |-> None]

Untouched ==
  /\ status = "new"
  /\ pc = 0
  /\ args = <<>>
  /\ values = Empty(program)
  /\ resident = <<>>
  /\ heap = [s \in Storages |-> IF s \in DOMAIN HostArrays THEN HostArrays[s].data ELSE Unwritten]
  /\ held = {}
  /\ donated = {}
  /\ calls = 0

Init == program \in Requests /\ Untouched

(* The program is created, and its constants made resident.                *)
Create ==
  /\ status = "new"
  /\ IF Accepted(program)
       THEN \E f \in Allocations(Constants(program)) :
              /\ status' = "ready"
              /\ resident' = f
              /\ heap' = Overwritten(f, program.meaning)
       ELSE status' = "refused" /\ UNCHANGED <<resident, heap>>
  /\ UNCHANGED <<program, pc, args, values, held, donated, calls>>
----------------------------------------------------------------------------
(* Execution.                                                              *)

(* What the rest of the runtime lets through: a donated argument is no      *)
(* other argument, and an array that was given away is used no more.  The   *)
(* arrays have the data the program's meaning is about.                     *)
HostGives(a) ==
  /\ \A i \in DOMAIN a : HostArrays[a[i]].data = program.meaning[program.inputs[i]]
  /\ \A i, j \in DOMAIN a : i \in program.donated /\ i # j => a[i] # a[j]

Matches(a) == \A i \in DOMAIN a : HostArrays[a[i]].spec = program.specs[program.inputs[i]]

(* ensure_dense_inputs_ready: an array not yet evaluated is, and must then  *)
(* be dense.                                                               *)
DenseReady(a) == \A i \in DOMAIN a : HostArrays[a[i]].layout \in {"dense", "lazy"}

Given(a) == donated \cup {a[i] : i \in program.donated}

Ended(outcome) ==
  /\ status' = outcome
  /\ pc' = 0
  /\ values' = Empty(program)

Start(a) ==
  /\ status \in {"ready", "returned", "failed"} /\ calls < MaxCalls
  /\ program.kind # "kernel"
  /\ HostGives(a)
  /\ calls' = calls + 1
  /\ args' = a
  /\ IF Matches(a) /\ DenseReady(a)
       THEN /\ status' = "running"
            /\ pc' = 1
            /\ values' = [v \in Values(program) |->
                 IF v \in Parameters(program)
                   THEN a[CHOOSE i \in DOMAIN a : program.inputs[i] = v]
                   ELSE IF v \in Constants(program) THEN resident[v] ELSE None]
            /\ donated' = Given(a)
       ELSE Ended("failed") /\ UNCHANGED donated
  /\ UNCHANGED <<program, resident, heap, held>>

(* Mutant: a step releases whatever it read.                               *)
AfterReleaseAll(vals) ==
  /\ values' = [v \in Values(program) |-> IF v \in Elements(step.inputs) THEN None ELSE vals[v]]
  /\ pc' = pc + 1
  /\ UNCHANGED status

(* release_executable_values, after step pc left the registers vals.       *)
AfterRelease(vals) ==
  IF step.release \cap Elements(program.outputs) = {}
    THEN /\ values' = [v \in Values(program) |-> IF v \in step.release THEN None ELSE vals[v]]
         /\ pc' = pc + 1
         /\ UNCHANGED status
    ELSE Ended("failed")

Running == status = "running" /\ pc \in DOMAIN program.steps

AliasStep ==
  /\ Running /\ step.alias
  /\ IF values[step.inputs[1]] = None
       THEN Ended("failed")
       ELSE AfterRelease([values EXCEPT ![step.outputs[1]] = values[step.inputs[1]]])
  /\ UNCHANGED <<program, args, resident, heap, held, donated, calls>>

(* Mutant: a step with no in-place input is treated as having the first.   *)
PreparedOffByOne == {[values EXCEPT ![step.outputs[1]] = values[step.inputs[1]]]}
(* The registers once the outputs of the step have their arrays.           *)
Prepared ==
  IF step.in_place # 0
    THEN {[values EXCEPT ![step.outputs[1]] = values[step.inputs[step.in_place]]]}
    ELSE {[v \in Values(program) |-> IF v \in Elements(step.outputs) THEN f[v] ELSE values[v]] :
            f \in Allocations(Elements(step.outputs))}

(* A kernel that reads what it writes, other than in place, reads it before *)
(* it is written.                                                          *)
Read(vals, v) ==
  IF step.in_place = 0 /\ v \in Elements(step.outputs) THEN Unwritten ELSE heap[vals[v]]

(* dispatch_generated_kernel.                                              *)
KernelStep ==
  /\ Running /\ ~step.alias
  /\ \E vals \in Prepared :
       IF \E v \in Elements(step.inputs) \cup Elements(step.outputs) : vals[v] = None
         THEN Ended("failed") /\ UNCHANGED heap
         ELSE /\ heap' = Overwritten([j \in DOMAIN step.outputs |-> vals[step.outputs[j]]],
                                     Compute(step, [i \in DOMAIN step.inputs |-> Read(vals, step.inputs[i])]))
              /\ AfterRelease(vals)
  /\ UNCHANGED <<program, args, resident, held, donated, calls>>

(* An allocation, the encoder or the construction of an output throws: what *)
(* was dispatched stays, nothing is returned.                              *)
Throws ==
  /\ status = "running"
  /\ Ended("failed")
  /\ UNCHANGED <<program, args, resident, heap, held, donated, calls>>

(* The outputs are moved out of their registers, one after the other: a     *)
(* value that is an output twice has been moved from the second time.       *)
Collected ==
  {[storage |-> IF \E j \in 1 .. i - 1 : program.outputs[j] = program.outputs[i]
                  THEN None ELSE values[program.outputs[i]],
    data |-> program.meaning[program.outputs[i]]] : i \in DOMAIN program.outputs}

Finish ==
  /\ status = "running" /\ pc = Len(program.steps) + 1
  /\ IF \E v \in Elements(program.outputs) : values[v] = None
       THEN Ended("failed") /\ UNCHANGED held
       ELSE Ended("returned") /\ held' = held \cup Collected
  /\ UNCHANGED <<program, args, resident, heap, donated, calls>>

(* execute_generated_kernel: a kernel on its own, in one call.             *)
ExecuteKernel(a) ==
  /\ status \in {"ready", "returned", "failed"} /\ calls < MaxCalls
  /\ program.kind = "kernel"
  /\ HostGives(a)
  /\ calls' = calls + 1
  /\ args' = a
  /\ IF Matches(a) /\ DenseReady(a)
       THEN \E f \in Allocations(Elements(program.outputs)) :
              LET s == program.steps[1]
              IN /\ status' \in {"returned", "failed"}
                 /\ heap' = Overwritten([j \in DOMAIN s.outputs |-> f[s.outputs[j]]],
                                        Compute(s, [i \in DOMAIN a |-> heap[a[i]]]))
                 /\ held' = held \cup
                      (IF status' = "returned"
                         THEN {[storage |-> f[v], data |-> program.meaning[v]] : v \in Elements(s.outputs)}
                         ELSE {})
       ELSE status' = "failed" /\ UNCHANGED <<heap, held>>
  /\ UNCHANGED <<program, pc, values, resident, donated>>

Calls == [1 .. program.params -> DOMAIN HostArrays \ donated]

Next ==
  \/ Create
  \/ \E a \in Calls : Start(a) \/ ExecuteKernel(a)
  \/ AliasStep
  \/ KernelStep
  \/ Throws
  \/ Finish

Spec == Init /\ [][Next]_vars
----------------------------------------------------------------------------
(* What a program must be for the executor to be right.                    *)

Steps(r) == DOMAIN r.steps
Inputs(r, t) == Elements(r.steps[t].inputs)
Outputs(r, t) == Elements(r.steps[t].outputs)

(* The values computed before step t, and those needed from step t on.     *)
Defined(r, t) == Elements(r.inputs) \cup UNION {Outputs(r, u) : u \in {x \in Steps(r) : x < t}}
Needed(r, t) == Elements(r.outputs) \cup UNION {Inputs(r, u) : u \in {x \in Steps(r) : x >= t}}

InPlaceOperand(r, t) == r.steps[t].inputs[r.steps[t].in_place]
Updates(r) == {t \in Steps(r) : r.steps[t].in_place # 0}
(* The values whose storage is written in place.                           *)
WrittenRoots(r) == {r.root[InPlaceOperand(r, t)] : t \in Updates(r)}

Injective(s) == \A i, j \in DOMAIN s : s[i] = s[j] => i = j

(* A value is computed once, from values computed before, and released when *)
(* nothing needs it.                                                       *)
Scheduled(r) ==
  /\ Injective(r.inputs) /\ Injective(r.outputs)
  /\ Elements(r.outputs) \subseteq Defined(r, Len(r.steps) + 1)
  /\ \A t \in Steps(r) :
       /\ Injective(r.steps[t].outputs)
       /\ Inputs(r, t) \subseteq Defined(r, t)
       /\ Outputs(r, t) \cap Defined(r, t) = {}
       /\ r.steps[t].release \cap (Needed(r, t + 1) \cup Elements(r.inputs)) = {}

(* Each step makes of the meaning of its inputs the meaning of its outputs. *)
MeaningKept(r) ==
  \A t \in Steps(r) :
    LET s == r.steps[t] IN
      IF s.alias
        THEN r.meaning[s.outputs[1]] = r.meaning[s.inputs[1]]
        ELSE Compute(s, [i \in DOMAIN s.inputs |-> r.meaning[s.inputs[i]]])
               = [j \in DOMAIN s.outputs |-> r.meaning[s.outputs[j]]]

Rooted(r) ==
  /\ \A v \in Elements(r.inputs) : r.root[v] = v
  /\ \A t \in Steps(r) : \A v \in Outputs(r, t) :
       r.root[v] = IF r.steps[t].alias THEN r.root[r.steps[t].inputs[1]]
                   ELSE IF r.steps[t].in_place # 0 THEN r.root[InPlaceOperand(r, t)]
                   ELSE v

(* Storage is written in place only when no other value in it is needed    *)
(* afterwards, and it is no one's but the program's.                       *)
Exclusive(r) ==
  /\ \A t \in Updates(r) :
       \A v \in Defined(r, t) \cap Needed(r, t + 1) : r.root[v] # r.root[InPlaceOperand(r, t)]
  /\ WrittenRoots(r) \cap Elements(r.inputs) \subseteq {r.inputs[i] : i \in r.donated}
  /\ WrittenRoots(r) \cap Elements(r.inputs) # {} =>
       \A v \in Elements(r.outputs) : r.root[v] \in Parameters(r) => r.root[v] \in WrittenRoots(r)

(* What dies in a step, used for the last time or used never, is released   *)
(* by that step.                                                           *)
Timely(r) ==
  \A t \in Steps(r) :
    (Inputs(r, t) \cup Outputs(r, t)) \ (Needed(r, t + 1) \cup Elements(r.inputs)) \subseteq r.steps[t].release

WellFormed(r) == Accepted(r) /\ Scheduled(r) /\ MeaningKept(r) /\ Rooted(r) /\ Exclusive(r)
----------------------------------------------------------------------------
(* Properties.                                                             *)

TypeOK ==
  /\ status \in {"new", "refused", "ready", "running", "returned", "failed"}
  /\ pc \in Nat
  /\ values \in [Values(program) -> Storages \cup {None}]
  /\ DOMAIN heap = Storages
  /\ calls \in 0 .. MaxCalls

(* A value that a running call has computed and still needs is in its       *)
(* register, with the content the program means: no release came too early, *)
(* no update in place overwrote it.                                        *)
RegistersCorrect ==
  WellFormed(program) /\ status = "running" =>
    \A v \in Defined(program, pc) \cap Needed(program, pc) :
      values[v] # None /\ heap[values[v]] = program.meaning[v]

(* The outputs the host was given, by this execution and by earlier ones,   *)
(* are arrays with the content the program means.                          *)
OutputsCorrect ==
  WellFormed(program) =>
    \A h \in held : h.storage # None /\ heap[h.storage] = h.data

(* No execution, whether it returns or fails, changes an argument that was  *)
(* not donated, or a constant of the executable.                           *)
ArgumentsIntact ==
  WellFormed(program) =>
    /\ \A s \in DOMAIN HostArrays \ donated : heap[s] = HostArrays[s].data
    /\ \A v \in DOMAIN resident : heap[resident[v]] = program.meaning[v]

(* Every value a step computed is released by the step that uses it last:   *)
(* between two steps only what is still needed holds memory.  (A value that *)
(* nothing uses stays to the end.)                                         *)
DeadValuesReleased ==
  program.compact /\ status = "running" =>
    \A v \in Values(program) \ Elements(program.inputs) :
      values[v] # None => v \in Needed(program, pc)

(* The planner's programs are well formed: its liveness, its releases and   *)
(* its aliases fit the executor, for the plans it is right about; and no    *)
(* release is missing from those of a plan without dead code.              *)
LoweringWellFormed ==
  /\ program.safe => WellFormed(program)
  /\ program.compact => Timely(program)
=============================================================================
