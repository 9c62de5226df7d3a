--------------------------- MODULE MetalGraphProofs ---------------------------
(***************************************************************************)
(* For every set of requests, every kernel and every number of calls: a     *)
(* well formed program computes what it means, returns outputs that stay    *)
(* what they mean, and changes nothing that is not its own.                 *)
(*                                                                         *)
(* The argument: two registers that share storage share their root, if the  *)
(* root is one that is written in place (SharedByRoot), and a storage of    *)
(* the host, or of a constant, is reached only from its own root (RootsOwn). *)
(* A well formed program writes in place when nothing else of that root is  *)
(* needed, and fresh storage otherwise.                                     *)
(***************************************************************************)
EXTENDS MetalGraph, TLAPS

Hosts == DOMAIN HostArrays

(* The control state.                                                       *)
TypeInv ==
  /\ program \in Requests
  /\ status \in {"new", "refused", "ready", "running", "returned", "failed"}
  /\ status \notin {"new", "refused"} => Accepted(program)
  /\ pc \in Nat
  /\ status = "running" => pc \in 1 .. Len(program.steps) + 1 /\ program.kind # "kernel"
  /\ values \in [Values(program) -> Storages \cup {None}]
  /\ DOMAIN heap = Storages
  /\ calls \in 0 .. MaxCalls

(* The constants have storage of their own.                                *)
ResidentInv ==
  IF status \in {"new", "refused"} THEN resident = <<>>
  ELSE /\ resident \in [Constants(program) -> Storages \ Hosts]
       /\ \A v, w \in Constants(program) : resident[v] = resident[w] => v = w

(* What a running call needs to know of its registers, when these are vals, *)
(* the memory is mem and the steps before t are done.                       *)
Correct(vals, mem, t) ==
  \A v \in Defined(program, t) \cap Needed(program, t) :
    vals[v] # None /\ mem[vals[v]] = program.meaning[v]

InputsKept(vals) ==
  /\ \A i \in 1 .. program.params :
       /\ vals[program.inputs[i]] \in Hosts
       /\ i \in program.donated => vals[program.inputs[i]] \in donated
  /\ \A v \in Elements(program.inputs) : vals[v] # None

FilledIsDefined(vals, t) == \A v \in Values(program) : vals[v] # None => v \in Defined(program, t)

SharedByRoot(vals) ==
  \A v, w \in Values(program) :
    (vals[v] # None /\ vals[v] = vals[w] /\ program.root[v] \in WrittenRoots(program))
      => program.root[w] = program.root[v]

RootsOwn(vals) ==
  \A v \in Values(program) :
    /\ vals[v] \in Hosts => program.root[v] \in Parameters(program) /\ vals[program.root[v]] = vals[v]
    /\ vals[v] \in Elements(resident) => program.root[v] \in Constants(program)
    /\ (vals[v] # None /\ program.root[v] \in WrittenRoots(program)) => \A h \in held : vals[v] # h.storage

Registers(vals, mem, t) ==
  /\ vals \in [Values(program) -> Storages \cup {None}]
  /\ Correct(vals, mem, t)
  /\ InputsKept(vals)
  /\ FilledIsDefined(vals, t)
  /\ SharedByRoot(vals)
  /\ RootsOwn(vals)

(* An output in an array of the host is in one the host gave away, unless   *)
(* the program writes no argument at all.                                  *)
HeldInv ==
  \A h \in held :
    /\ h.storage \in Storages
    /\ h.storage \in Hosts /\ WrittenRoots(program) \cap Elements(program.inputs) # {} => h.storage \in donated

(* What is in the memory that others hold.                                 *)
Intact(mem) ==
  /\ \A s \in Hosts \ donated : mem[s] = HostArrays[s].data
  /\ \A v \in DOMAIN resident : mem[resident[v]] = program.meaning[v]
  /\ \A h \in held : mem[h.storage] = h.data

GraphInv ==
  WellFormed(program) =>
    /\ HeldInv
    /\ Intact(heap)
    /\ status = "running" => Registers(values, heap, pc)

Inv == TypeInv /\ ResidentInv /\ GraphInv
----------------------------------------------------------------------------
(* Requests.                                                               *)

(* The values of an accepted request are numbered.                         *)
LEMMA IndicesInRange ==
  ASSUME NEW r \in Requests, Accepted(r)
  PROVE  /\ Values(r) \subseteq Nat
         /\ Elements(r.inputs) \subseteq Values(r) /\ Elements(r.outputs) \subseteq Values(r)
         /\ \A t \in Steps(r) : Inputs(r, t) \subseteq Values(r) /\ Outputs(r, t) \subseteq Values(r)
<1>1. CASE r.kind = "program"
  BY <1>1, RequestAssumption DEF Accepted, StepAccepted, InRange, Steps, Inputs, Outputs, Values
<1>2. CASE r.kind # "program"
  <2>1. Steps(r) = {1}
    BY <1>2, RequestAssumption DEF Steps
  <2> QED BY <1>2, <2>1, RequestAssumption DEF Inputs, Outputs, Values
<1> QED BY <1>1, <1>2

LEMMA StepShape ==
  ASSUME NEW r \in Requests, Accepted(r), NEW t \in Steps(r)
  PROVE  /\ r.steps[t].alias => Len(r.steps[t].inputs) = 1 /\ Len(r.steps[t].outputs) = 1
         /\ r.steps[t].in_place # 0 => /\ Len(r.steps[t].outputs) = 1
                                       /\ r.steps[t].in_place \in DOMAIN r.steps[t].inputs
<1>1. CASE r.kind = "program"
  BY <1>1 DEF Accepted, StepAccepted, Steps
<1>2. CASE r.kind # "program"
  BY <1>2, RequestAssumption DEF Steps
<1> QED BY <1>1, <1>2

(* The first element of a sequence of one.                                 *)
LEMMA OnlyElement ==
  ASSUME NEW s \in Seq(Nat), Len(s) = 1
  PROVE  Elements(s) = {s[1]} /\ DOMAIN s = {1}
BY DEF Elements

LEMMA DefinedNext ==
  ASSUME NEW r \in Requests, NEW t \in Steps(r)
  PROVE  Defined(r, t + 1) = Defined(r, t) \cup Outputs(r, t)
<1>1. \A x \in Steps(r) : x < t + 1 <=> x < t \/ x = t
  BY RequestAssumption DEF Steps
<1> QED BY <1>1 DEF Defined

LEMMA NeededNext ==
  ASSUME NEW r \in Requests, NEW t \in Steps(r)
  PROVE  Needed(r, t) = Needed(r, t + 1) \cup Inputs(r, t)
<1>1. \A x \in Steps(r) : x >= t <=> x >= t + 1 \/ x = t
  BY RequestAssumption DEF Steps
<1> QED BY <1>1 DEF Needed

LEMMA DefinedFirst ==
  ASSUME NEW r \in Requests
  PROVE  Defined(r, 1) = Elements(r.inputs)
<1>1. \A x \in Steps(r) : ~(x < 1)
  BY RequestAssumption DEF Steps
<1> QED BY <1>1 DEF Defined

LEMMA InputsDefined ==
  ASSUME NEW r \in Requests, NEW t \in Nat
  PROVE  Elements(r.inputs) \subseteq Defined(r, t) /\ Elements(r.outputs) \subseteq Needed(r, t)
BY DEF Defined, Needed
----------------------------------------------------------------------------
(* Typing.                                                                 *)

LEMMA AllocationsFree ==
  ASSUME NEW V \in SUBSET Nat, NEW f \in Allocations(V)
  PROVE  /\ f \in [V -> Storages]
         /\ \A v \in V : f[v] \notin InUse
         /\ \A v, w \in V : f[v] = f[w] => v = w
<1>1. f \in [V -> Free] /\ \A v, w \in V : v < w => f[v] < f[w]
  BY DEF Allocations
<1>2. \A v \in V : f[v] \in Storages /\ f[v] \notin InUse
  BY <1>1 DEF Free
<1>3. \A v \in V : f[v] \in Nat
  BY <1>2, MetalAssumption
<1>4. ASSUME NEW v \in V, NEW w \in V, f[v] = f[w] PROVE v = w
  <2>1. ~(v < w) /\ ~(w < v)
    BY <1>1, <1>3, <1>4
  <2> QED BY <2>1
<1> QED BY <1>1, <1>2, <1>4

LEMMA EndedTyped ==
  ASSUME Inv, NEW o \in {"returned", "failed"}, Ended(o), Accepted(program),
         UNCHANGED <<program, resident>>, status \notin {"new", "refused"},
         DOMAIN heap' = Storages, calls' \in 0 .. MaxCalls
  PROVE  TypeInv' /\ ResidentInv'
BY DEF Inv, TypeInv, ResidentInv, Ended, Empty, Values, Constants, Parameters

LEMMA InitTyped == Init => TypeInv /\ ResidentInv
<1> SUFFICES ASSUME Init PROVE TypeInv /\ ResidentInv
  OBVIOUS
<1>1. values \in [Values(program) -> Storages \cup {None}]
  BY DEF Init, Untouched, Empty
<1> QED BY <1>1, MetalAssumption DEF Init, Untouched, TypeInv, ResidentInv

LEMMA CreateTyped ==
  ASSUME Inv, Create
  PROVE  TypeInv' /\ ResidentInv'
<1>1. program \in Requests /\ status = "new"
  BY DEF Inv, TypeInv, Create
<1>2. CASE Accepted(program)
  <2>1. PICK f \in Allocations(Constants(program)) : status' = "ready" /\ resident' = f /\ DOMAIN heap' = Storages
    BY <1>2 DEF Create, Overwritten
  <2>2. Constants(program) \in SUBSET Nat
    BY <1>1, <1>2, IndicesInRange DEF Constants
  <2>3. /\ f \in [Constants(program) -> Storages \ Hosts]
        /\ \A v, w \in Constants(program) : f[v] = f[w] => v = w
    BY <2>1, <2>2, AllocationsFree DEF InUse, Hosts
  <2>4. UNCHANGED <<program, pc, values, calls>>
    BY DEF Create
  <2>5. Constants(program)' = Constants(program) /\ Values(program)' = Values(program)
    BY <2>4 DEF Constants, Parameters, Values
  <2>6. TypeInv'
    BY <1>1, <1>2, <2>1, <2>4, <2>5 DEF Inv, TypeInv
  <2> QED BY <2>1, <2>3, <2>5, <2>6 DEF ResidentInv
<1>3. CASE ~Accepted(program)
  BY <1>1, <1>3 DEF Inv, TypeInv, ResidentInv, Create, Values
<1> QED BY <1>2, <1>3

LEMMA StartTyped ==
  ASSUME Inv, NEW a \in Calls, Start(a)
  PROVE  TypeInv' /\ ResidentInv'
<1>1. /\ program \in Requests /\ Accepted(program) /\ program.kind # "kernel"
      /\ status \in {"ready", "returned", "failed"}
      /\ UNCHANGED <<program, resident, heap>>
      /\ calls' \in 0 .. MaxCalls /\ DOMAIN heap' = Storages
  BY MetalAssumption DEF Inv, TypeInv, Start
<1>2. CASE ~(Matches(a) /\ DenseReady(a))
  BY <1>1, <1>2, EndedTyped DEF Start
<1>3. CASE Matches(a) /\ DenseReady(a)
  <2>1. a \in [1 .. program.params -> Storages]
    BY MetalAssumption DEF Calls
  <2>2. resident \in [Constants(program) -> Storages]
    BY <1>1 DEF Inv, ResidentInv
  <2>3. ASSUME NEW v \in Parameters(program)
        PROVE  a[CHOOSE i \in DOMAIN a : program.inputs[i] = v] \in Storages
    <3>1. \E i \in DOMAIN a : program.inputs[i] = v
      BY <2>1 DEF Parameters
    <3> QED BY <2>1, <3>1
  <2>4. values' \in [Values(program) -> Storages \cup {None}]
    BY <1>3, <2>2, <2>3 DEF Start
  <2>5. 1 \in 1 .. Len(program.steps) + 1
    BY <1>1, RequestAssumption
  <2>6. status' = "running" /\ pc' = 1
    BY <1>3 DEF Start
  <2>7. TypeInv'
    BY <1>1, <2>4, <2>5, <2>6 DEF TypeInv, Values
  <2> QED BY <1>1, <2>6, <2>7 DEF Inv, ResidentInv, Constants, Parameters
<1> QED BY <1>2, <1>3

(* The steps of a call.                                                    *)
LEMMA AfterReleaseTyped ==
  ASSUME Inv, Running, NEW vals \in [Values(program) -> Storages \cup {None}],
         AfterRelease(vals), UNCHANGED <<program, resident, calls>>, DOMAIN heap' = Storages
  PROVE  TypeInv' /\ ResidentInv'
<1>1. /\ program \in Requests /\ Accepted(program) /\ status = "running" /\ program.kind # "kernel"
      /\ calls' \in 0 .. MaxCalls /\ pc \in 1 .. Len(program.steps)
  BY RequestAssumption DEF Inv, TypeInv, Running
<1>2. CASE step.release \cap Elements(program.outputs) # {}
  BY <1>1, <1>2, EndedTyped DEF AfterRelease
<1>3. CASE step.release \cap Elements(program.outputs) = {}
  <2>1. values' \in [Values(program) -> Storages \cup {None}] /\ status' = "running" /\ pc' = pc + 1
    BY <1>1, <1>3 DEF AfterRelease
  <2>2. pc' \in Nat /\ pc' \in 1 .. Len(program.steps) + 1
    BY <1>1, <2>1, RequestAssumption
  <2> QED BY <1>1, <2>1, <2>2 DEF Inv, TypeInv, ResidentInv, Values, Constants, Parameters
<1> QED BY <1>2, <1>3

LEMMA RunningTyped ==
  ASSUME Inv, Running
  PROVE  /\ program \in Requests /\ Accepted(program) /\ pc \in Steps(program) /\ pc \in Nat
         /\ status = "running" /\ DOMAIN heap = Storages /\ calls \in 0 .. MaxCalls
         /\ step = program.steps[pc] /\ step.inputs \in Seq(Nat) /\ step.outputs \in Seq(Nat)
         /\ Elements(step.inputs) = Inputs(program, pc) /\ Elements(step.outputs) = Outputs(program, pc)
         /\ Inputs(program, pc) \subseteq Values(program) /\ Outputs(program, pc) \subseteq Values(program)
         /\ values \in [Values(program) -> Storages \cup {None}]
<1>1. /\ program \in Requests /\ Accepted(program) /\ pc \in Steps(program) /\ pc \in Nat
      /\ status = "running" /\ DOMAIN heap = Storages /\ calls \in 0 .. MaxCalls
      /\ values \in [Values(program) -> Storages \cup {None}]
  BY DEF Inv, TypeInv, Running, Steps
<1>2. step = program.steps[pc] /\ step.inputs \in Seq(Nat) /\ step.outputs \in Seq(Nat)
  BY <1>1, RequestAssumption DEF step, Steps
<1> QED BY <1>1, <1>2, IndicesInRange DEF Inputs, Outputs

(* The registers of a step with an alias, or an update in place.           *)
LEMMA SharedTyped ==
  ASSUME Inv, Running, NEW in \in Inputs(program, pc), NEW out \in Outputs(program, pc)
  PROVE  [values EXCEPT ![out] = values[in]] \in [Values(program) -> Storages \cup {None}]
BY RunningTyped

LEMMA AliasStepTyped ==
  ASSUME Inv, AliasStep
  PROVE  TypeInv' /\ ResidentInv'
<1>1. Running /\ step.alias /\ UNCHANGED <<program, resident, heap, calls>>
  BY DEF AliasStep
<1>2. step.inputs[1] \in Inputs(program, pc) /\ step.outputs[1] \in Outputs(program, pc)
  BY <1>1, RunningTyped, StepShape, OnlyElement
<1>3. CASE values[step.inputs[1]] = None
  <2>1. Ended("failed")
    BY <1>3 DEF AliasStep
  <2> QED BY <1>1, <2>1, EndedTyped, RunningTyped
<1>4. CASE values[step.inputs[1]] # None
  <2>1. AfterRelease([values EXCEPT ![step.outputs[1]] = values[step.inputs[1]]])
    BY <1>4 DEF AliasStep
  <2>2. [values EXCEPT ![step.outputs[1]] = values[step.inputs[1]]] \in [Values(program) -> Storages \cup {None}]
    BY <1>1, <1>2, SharedTyped
  <2> QED BY <1>1, <2>1, <2>2, AfterReleaseTyped, RunningTyped
<1> QED BY <1>3, <1>4

LEMMA PreparedTyped ==
  ASSUME Inv, Running, NEW vals \in Prepared
  PROVE  vals \in [Values(program) -> Storages \cup {None}]
<1>1. CASE step.in_place # 0
  <2>1. step.inputs[step.in_place] \in Inputs(program, pc) /\ step.outputs[1] \in Outputs(program, pc)
    <3>1. Len(step.outputs) = 1 /\ step.in_place \in DOMAIN step.inputs
      BY <1>1, RunningTyped, StepShape
    <3>2. step.inputs[step.in_place] \in Elements(step.inputs)
      BY <3>1 DEF Elements
    <3> QED BY <3>1, <3>2, RunningTyped, OnlyElement
  <2> QED BY <1>1, <2>1, SharedTyped DEF Prepared
<1>2. CASE step.in_place = 0
  <2>1. PICK f \in Allocations(Elements(step.outputs)) :
          vals = [v \in Values(program) |-> IF v \in Elements(step.outputs) THEN f[v] ELSE values[v]]
    BY <1>2 DEF Prepared
  <2>2. Elements(step.outputs) \in SUBSET Nat
    BY RunningTyped, IndicesInRange
  <2>3. f \in [Elements(step.outputs) -> Storages]
    BY <2>2, AllocationsFree
  <2> QED BY <2>1, <2>3, RunningTyped
<1> QED BY <1>1, <1>2

LEMMA KernelStepTyped ==
  ASSUME Inv, KernelStep
  PROVE  TypeInv' /\ ResidentInv'
<1>1. Running /\ UNCHANGED <<program, resident, calls>>
  BY DEF KernelStep
<1>2. PICK vals \in Prepared :
        \/ Ended("failed") /\ UNCHANGED heap
        \/ DOMAIN heap' = Storages /\ AfterRelease(vals)
  BY DEF KernelStep, Overwritten
<1>3. CASE Ended("failed") /\ UNCHANGED heap
  BY <1>1, <1>3, EndedTyped, RunningTyped
<1>4. CASE DOMAIN heap' = Storages /\ AfterRelease(vals)
  BY <1>1, <1>4, AfterReleaseTyped, PreparedTyped
<1> QED BY <1>2, <1>3, <1>4

LEMMA ThrowsTyped ==
  ASSUME Inv, Throws
  PROVE  TypeInv' /\ ResidentInv'
<1>1. status = "running" /\ Accepted(program) /\ DOMAIN heap' = Storages /\ calls' \in 0 .. MaxCalls
  BY DEF Inv, TypeInv, Throws
<1> QED BY <1>1, EndedTyped DEF Throws

LEMMA FinishTyped ==
  ASSUME Inv, Finish
  PROVE  TypeInv' /\ ResidentInv'
<1>1. status = "running" /\ Accepted(program) /\ DOMAIN heap' = Storages /\ calls' \in 0 .. MaxCalls
  BY DEF Inv, TypeInv, Finish
<1>2. UNCHANGED <<program, resident>> /\ (Ended("failed") \/ Ended("returned"))
  BY DEF Finish
<1> QED BY <1>1, <1>2, EndedTyped

LEMMA ExecuteKernelTyped ==
  ASSUME Inv, NEW a \in Calls, ExecuteKernel(a)
  PROVE  TypeInv' /\ ResidentInv'
<1>1. /\ status \in {"ready", "returned", "failed"} /\ status' \in {"returned", "failed"}
      /\ UNCHANGED <<program, pc, values, resident>>
  BY DEF ExecuteKernel
<1>2. DOMAIN heap' = Storages /\ calls' \in 0 .. MaxCalls
  <2>1. calls' \in 0 .. MaxCalls
    BY MetalAssumption DEF Inv, TypeInv, ExecuteKernel
  <2>2. DOMAIN heap = Storages
    BY DEF Inv, TypeInv
  <2>3. heap' = heap \/ \E p, c : heap' = Overwritten(p, c)
    BY DEF ExecuteKernel
  <2>4. \A p, c : DOMAIN Overwritten(p, c) = Storages
    BY DEF Overwritten
  <2> QED BY <2>1, <2>2, <2>3, <2>4
<1> QED BY <1>1, <1>2 DEF Inv, TypeInv, ResidentInv, Values, Constants, Parameters

LEMMA NextTyped ==
  ASSUME Inv, [Next]_vars
  PROVE  TypeInv' /\ ResidentInv'
<1>1. CASE UNCHANGED vars
  BY <1>1 DEF Inv, TypeInv, ResidentInv, vars, Values, Constants, Parameters
<1>2. CASE Next
  BY <1>2, CreateTyped, StartTyped, ExecuteKernelTyped, AliasStepTyped, KernelStepTyped, ThrowsTyped, FinishTyped DEF Next
<1> QED BY <1>1, <1>2
----------------------------------------------------------------------------
(* The memory and the registers of a well formed program.                  *)

(* What WellFormed says of step t.                                         *)
LEMMA StepWellFormed ==
  ASSUME NEW r \in Requests, WellFormed(r), NEW t \in Steps(r)
  PROVE  /\ Inputs(r, t) \subseteq Defined(r, t) \cap Needed(r, t)
         /\ Outputs(r, t) \cap Defined(r, t) = {}
         /\ Outputs(r, t) \cap Elements(r.inputs) = {}
         /\ Injective(r.steps[t].outputs)
         /\ r.steps[t].release \cap Needed(r, t + 1) = {}
         /\ r.steps[t].release \cap Elements(r.inputs) = {}
         /\ r.steps[t].release \cap Elements(r.outputs) = {}
         /\ Defined(r, t + 1) = Defined(r, t) \cup Outputs(r, t)
         /\ Needed(r, t) = Needed(r, t + 1) \cup Inputs(r, t)
<1>1. t \in Nat /\ t + 1 \in Nat
  BY RequestAssumption DEF Steps
<1>2. Scheduled(r)
  BY DEF WellFormed
<1>3. /\ Injective(r.steps[t].outputs) /\ Inputs(r, t) \subseteq Defined(r, t)
      /\ Outputs(r, t) \cap Defined(r, t) = {}
      /\ r.steps[t].release \cap (Needed(r, t + 1) \cup Elements(r.inputs)) = {}
  BY <1>2 DEF Scheduled
<1> QED BY <1>1, <1>3, DefinedNext, NeededNext, InputsDefined

(* The roots that are written in place, and the inputs among them.         *)
LEMMA WrittenInputs ==
  ASSUME NEW r \in Requests, WellFormed(r), NEW v \in WrittenRoots(r), v \in Elements(r.inputs)
  PROVE  /\ \E i \in r.donated : v = r.inputs[i] /\ i \in 1 .. r.params
         /\ v \notin Constants(r)
         /\ \A w \in Elements(r.outputs) : r.root[w] \in Parameters(r) => r.root[w] \in WrittenRoots(r)
<1>1. /\ WrittenRoots(r) \cap Elements(r.inputs) \subseteq {r.inputs[i] : i \in r.donated}
      /\ \A w \in Elements(r.outputs) : r.root[w] \in Parameters(r) => r.root[w] \in WrittenRoots(r)
  BY DEF WellFormed, Exclusive
<1>2. PICK i \in r.donated : v = r.inputs[i]
  BY <1>1
<1>3. i \in 1 .. r.params
  BY <1>2, RequestAssumption
<1> QED BY <1>1, <1>2, <1>3 DEF Constants, Parameters

(* A release takes away what nothing needs.                                *)
LEMMA ReleaseKeepsRegisters ==
  ASSUME program \in Requests, Accepted(program), NEW vals, NEW mem, NEW t \in Nat, NEW S,
         Registers(vals, mem, t), S \cap Needed(program, t) = {}, S \cap Elements(program.inputs) = {},
         None \notin Elements(resident)
  PROVE  Registers([v \in Values(program) |-> IF v \in S THEN None ELSE vals[v]], mem, t)
<1> DEFINE new == [v \in Values(program) |-> IF v \in S THEN None ELSE vals[v]]
<1>1. /\ vals \in [Values(program) -> Storages \cup {None}]
      /\ Elements(program.inputs) \subseteq Values(program)
      /\ \A i \in 1 .. program.params : program.inputs[i] \in Elements(program.inputs)
  BY IndicesInRange, RequestAssumption DEF Registers, Elements
<1>2. \A v \in Values(program) : new[v] # None => new[v] = vals[v]
  OBVIOUS
<1>3. \A v \in Values(program) : v \notin S => new[v] = vals[v]
  OBVIOUS
<1>4. \A s \in Hosts : s # None
  BY MetalAssumption DEF Hosts, None
<1>5. new \in [Values(program) -> Storages \cup {None}]
  BY <1>1
<1>6. Correct(new, mem, t)
  <2>1. \A v \in Defined(program, t) \cap Needed(program, t) : v \in Values(program) /\ v \notin S
    <3>1. Defined(program, t) \subseteq Values(program)
      BY IndicesInRange DEF Defined
    <3> QED BY <3>1
  <2> QED BY <1>3, <2>1 DEF Registers, Correct
<1>7. InputsKept(new)
  BY <1>1, <1>3 DEF Registers, InputsKept
<1>8. FilledIsDefined(new, t)
  BY <1>2 DEF Registers, FilledIsDefined
<1>9. SharedByRoot(new)
  BY <1>2 DEF Registers, SharedByRoot
<1>10. RootsOwn(new)
  <2> SUFFICES ASSUME NEW v \in Values(program)
               PROVE  /\ new[v] \in Hosts => program.root[v] \in Parameters(program) /\ new[program.root[v]] = new[v]
                      /\ new[v] \in Elements(resident) => program.root[v] \in Constants(program)
                      /\ (new[v] # None /\ program.root[v] \in WrittenRoots(program)) => \A h \in held : new[v] # h.storage
    BY DEF RootsOwn
  <2>1. ASSUME new[v] \in Hosts
        PROVE  program.root[v] \in Parameters(program) /\ new[program.root[v]] = new[v]
    <3>1. new[v] = vals[v] /\ vals[v] \in Hosts
      BY <1>2, <1>4, <2>1
    <3>2. program.root[v] \in Parameters(program) /\ vals[program.root[v]] = vals[v]
      BY <3>1 DEF Registers, RootsOwn
    <3>3. program.root[v] \in Elements(program.inputs)
      BY <1>1, <3>2 DEF Parameters
    <3> QED BY <1>1, <1>3, <3>1, <3>2, <3>3
  <2>2. ASSUME new[v] \in Elements(resident)
        PROVE  program.root[v] \in Constants(program)
    <3>1. CASE new[v] = None
      BY <2>2, <3>1
    <3>2. CASE new[v] # None
      BY <1>2, <2>2, <3>2 DEF Registers, RootsOwn
    <3> QED BY <3>1, <3>2
  <2>3. (new[v] # None /\ program.root[v] \in WrittenRoots(program)) => \A h \in held : new[v] # h.storage
    BY <1>2 DEF Registers, RootsOwn
  <2> QED BY <2>1, <2>2, <2>3
<1> HIDE DEF new
<1>11. Registers(new, mem, t)
  BY <1>5, <1>6, <1>7, <1>8, <1>9, <1>10 DEF Registers
<1> QED BY <1>11 DEF new

LEMMA RegistersAfter ==
  ASSUME UNCHANGED <<program, resident, held, donated>>, Registers(values', heap', pc')
  PROVE  Registers(values, heap, pc)'
<1>1. /\ Values(program)' = Values(program) /\ Parameters(program)' = Parameters(program)
      /\ Constants(program)' = Constants(program) /\ WrittenRoots(program)' = WrittenRoots(program)
      /\ \A t : Defined(program, t)' = Defined(program, t) /\ Needed(program, t)' = Needed(program, t)
  BY DEF Values, Parameters, Constants, WrittenRoots, Updates, InPlaceOperand, Steps, Defined, Needed, Inputs, Outputs
<1>2. Defined(program, pc)' = Defined(program, pc') /\ Needed(program, pc)' = Needed(program, pc')
  BY DEF Defined, Needed, Inputs, Outputs, Steps
<1>3. Correct(values, heap, pc)'
  BY <1>2 DEF Registers, Correct
<1>4. InputsKept(values)'
  BY DEF Registers, InputsKept
<1>5. FilledIsDefined(values, pc)'
  BY <1>1, <1>2 DEF Registers, FilledIsDefined
<1>6. SharedByRoot(values)'
  BY <1>1 DEF Registers, SharedByRoot
<1>7. RootsOwn(values)'
  BY <1>1 DEF Registers, RootsOwn
<1> QED BY <1>1, <1>3, <1>4, <1>5, <1>6, <1>7 DEF Registers

(* What a memory has after some storages were written.                     *)
LEMMA OverwrittenAt ==
  ASSUME NEW places, NEW contents,
         \A j, k \in DOMAIN places : places[j] = places[k] => j = k
  PROVE  /\ \A j \in DOMAIN places : places[j] \in Storages => Overwritten(places, contents)[places[j]] = contents[j]
         /\ \A s \in Storages : (\A j \in DOMAIN places : places[j] # s) => Overwritten(places, contents)[s] = heap[s]
         /\ DOMAIN Overwritten(places, contents) = Storages
<1>1. ASSUME NEW j \in DOMAIN places, places[j] \in Storages
      PROVE  Overwritten(places, contents)[places[j]] = contents[j]
  <2>1. (CHOOSE k \in DOMAIN places : places[k] = places[j]) = j
    OBVIOUS
  <2> QED BY <1>1, <2>1 DEF Overwritten
<1> QED BY <1>1 DEF Overwritten

(* A call that ends leaves no registers to be right about.                 *)
LEMMA EndedGraph ==
  ASSUME GraphInv, WellFormed(program), UNCHANGED <<program, resident, held>>, donated' = donated,
         NEW o \in {"returned", "failed"}, Ended(o), Intact(heap')
  PROVE  GraphInv'
<1>1. HeldInv
  BY DEF GraphInv
<1>2. HeldInv'
  BY <1>1 DEF HeldInv, WrittenRoots, Updates, InPlaceOperand, Steps
<1>3. Intact(heap)'
  BY DEF Intact
<1> QED BY <1>2, <1>3 DEF GraphInv, Ended

(* The end of a step that left the registers vals and the memory heap'.    *)
LEMMA AfterReleaseGraph ==
  ASSUME Inv, WellFormed(program), Running, NEW vals, AfterRelease(vals),
         UNCHANGED <<program, resident, held, donated>>,
         Registers(vals, heap', pc + 1), Intact(heap')
  PROVE  GraphInv'
<1>1. /\ program \in Requests /\ Accepted(program) /\ pc \in Steps(program) /\ pc + 1 \in Nat /\ step = program.steps[pc]
  BY RunningTyped
<1>2. None \notin Elements(resident)
  BY MetalAssumption DEF Inv, ResidentInv, Running, Elements, None
<1>3. /\ step.release \cap Elements(program.outputs) = {}
      /\ step.release \cap Needed(program, pc + 1) = {} /\ step.release \cap Elements(program.inputs) = {}
  BY <1>1, StepWellFormed
<1>4. values' = [v \in Values(program) |-> IF v \in step.release THEN None ELSE vals[v]] /\ pc' = pc + 1
  BY <1>3 DEF AfterRelease
<1>5. Registers([v \in Values(program) |-> IF v \in step.release THEN None ELSE vals[v]], heap', pc + 1)
  BY <1>1, <1>2, <1>3, ReleaseKeepsRegisters
<1>6. Registers(values, heap, pc)'
  BY <1>4, <1>5, RegistersAfter
<1>7. HeldInv'
  BY DEF Inv, GraphInv, HeldInv, WrittenRoots, Updates, InPlaceOperand, Steps
<1>8. Intact(heap)'
  BY DEF Intact
<1> QED BY <1>6, <1>7, <1>8 DEF GraphInv

(* What a running call of a well formed program has at hand.               *)
LEMMA RunningGraph ==
  ASSUME Inv, WellFormed(program), Running
  PROVE  /\ Registers(values, heap, pc) /\ Intact(heap) /\ HeldInv
         /\ \A v \in Inputs(program, pc) : values[v] # None /\ heap[values[v]] = program.meaning[v]
<1>1. Registers(values, heap, pc) /\ Intact(heap) /\ HeldInv
  BY DEF Inv, GraphInv, Running
<1>2. Inputs(program, pc) \subseteq Defined(program, pc) \cap Needed(program, pc)
  BY RunningTyped, StepWellFormed
<1> QED BY <1>1, <1>2 DEF Registers, Correct

(* A step whose one output shares the storage of one of its inputs.        *)
LEMMA SharedRegisters ==
  ASSUME Inv, WellFormed(program), Running, NEW in \in Inputs(program, pc), NEW out,
         Outputs(program, pc) = {out}, program.root[out] = program.root[in], NEW mem,
         mem[values[in]] = program.meaning[out],
         \A v \in Defined(program, pc) \cap Needed(program, pc + 1) : mem[values[v]] = heap[values[v]]
  PROVE  Registers([values EXCEPT ![out] = values[in]], mem, pc + 1)
<1> DEFINE new == [values EXCEPT ![out] = values[in]]
<1> DEFINE Of(v) == IF v = out THEN in ELSE v
<1>1. /\ program \in Requests /\ Accepted(program) /\ pc \in Steps(program) /\ pc \in Nat
      /\ values \in [Values(program) -> Storages \cup {None}]
      /\ in \in Values(program) /\ out \in Values(program)
      /\ Elements(program.inputs) \subseteq Values(program)
  BY RunningTyped, IndicesInRange
<1>2. /\ out \notin Elements(program.inputs)
      /\ Defined(program, pc + 1) = Defined(program, pc) \cup {out}
      /\ Needed(program, pc) = Needed(program, pc + 1) \cup Inputs(program, pc)
      /\ in \in Defined(program, pc)
  BY <1>1, StepWellFormed
<1>3. Registers(values, heap, pc) /\ values[in] # None
  BY RunningGraph
<1>4. /\ new \in [Values(program) -> Storages \cup {None}]
      /\ \A v \in Values(program) : new[v] = values[Of(v)] /\ program.root[v] = program.root[Of(v)] /\ Of(v) \in Values(program)
      /\ \A v \in Elements(program.inputs) : new[v] = values[v]
      /\ new[out] = values[in]
  BY <1>1, <1>2
<1>5. Correct(new, mem, pc + 1)
  <2> SUFFICES ASSUME NEW v \in Defined(program, pc + 1) \cap Needed(program, pc + 1)
               PROVE  new[v] # None /\ mem[new[v]] = program.meaning[v]
    BY DEF Correct
  <2>1. CASE v = out
    BY <1>3, <1>4, <2>1
  <2>2. CASE v # out
    <3>1. v \in Defined(program, pc) \cap Needed(program, pc + 1) /\ v \in Needed(program, pc)
      BY <1>2, <2>2
    <3>2. new[v] = values[v]
      BY <1>1, <2>2
    <3>3. values[v] # None /\ heap[values[v]] = program.meaning[v]
      BY <1>3, <3>1 DEF Registers, Correct
    <3> QED BY <3>1, <3>2, <3>3
  <2> QED BY <2>1, <2>2
<1>6. InputsKept(new)
  <2>1. \A i \in 1 .. program.params : program.inputs[i] \in Elements(program.inputs)
    BY <1>1, RequestAssumption DEF Elements
  <2> QED BY <1>3, <1>4, <2>1 DEF Registers, InputsKept
<1>7. FilledIsDefined(new, pc + 1)
  BY <1>1, <1>2, <1>3 DEF Registers, FilledIsDefined
<1> HIDE DEF new, Of
<1>8. SharedByRoot(new)
  BY <1>3, <1>4 DEF Registers, SharedByRoot
<1>9. RootsOwn(new)
  <2> SUFFICES ASSUME NEW v \in Values(program)
               PROVE  /\ new[v] \in Hosts => program.root[v] \in Parameters(program) /\ new[program.root[v]] = new[v]
                      /\ new[v] \in Elements(resident) => program.root[v] \in Constants(program)
                      /\ (new[v] # None /\ program.root[v] \in WrittenRoots(program)) => \A h \in held : new[v] # h.storage
    BY DEF RootsOwn
  <2>1. new[v] = values[Of(v)] /\ program.root[v] = program.root[Of(v)] /\ Of(v) \in Values(program)
    BY <1>4
  <2>2. \A w \in Parameters(program) : w \in Elements(program.inputs)
    BY <1>1, RequestAssumption DEF Parameters, Elements
  <2>3. new[v] \in Hosts => program.root[v] \in Parameters(program) /\ values[program.root[v]] = values[Of(v)]
    BY <1>3, <2>1 DEF Registers, RootsOwn
  <2>4. new[v] \in Hosts => program.root[v] \in Parameters(program) /\ new[program.root[v]] = new[v]
    BY <1>4, <2>1, <2>2, <2>3
  <2> QED BY <1>3, <2>1, <2>4 DEF Registers, RootsOwn
<1>10. Registers(new, mem, pc + 1)
  BY <1>4, <1>5, <1>6, <1>7, <1>8, <1>9 DEF Registers
<1> QED BY <1>10 DEF new

(* A step whose outputs have storage of their own.                         *)
LEMMA FreshRegisters ==
  ASSUME Inv, WellFormed(program), Running,
         \A v \in Outputs(program, pc) : program.root[v] = v,
         NEW f \in Allocations(Outputs(program, pc)), NEW mem,
         \A v \in Outputs(program, pc) : mem[f[v]] = program.meaning[v],
         \A s \in Storages \cap InUse : mem[s] = heap[s]
  PROVE  Registers([v \in Values(program) |-> IF v \in Outputs(program, pc) THEN f[v] ELSE values[v]], mem, pc + 1)
<1> DEFINE new == [v \in Values(program) |-> IF v \in Outputs(program, pc) THEN f[v] ELSE values[v]]
<1>1. /\ program \in Requests /\ Accepted(program) /\ pc \in Steps(program) /\ pc \in Nat
      /\ values \in [Values(program) -> Storages \cup {None}]
      /\ Outputs(program, pc) \subseteq Values(program) /\ Values(program) \subseteq Nat
      /\ Elements(program.inputs) \subseteq Values(program)
  BY RunningTyped, IndicesInRange
<1>2. /\ Outputs(program, pc) \cap Elements(program.inputs) = {}
      /\ Defined(program, pc + 1) = Defined(program, pc) \cup Outputs(program, pc)
      /\ Needed(program, pc) = Needed(program, pc + 1) \cup Inputs(program, pc)
      /\ Defined(program, pc + 1) \subseteq Values(program)
  <2>1. Defined(program, pc + 1) \subseteq Values(program)
    BY <1>1, IndicesInRange DEF Defined
  <2> QED BY <1>1, <2>1, StepWellFormed
<1>3. Registers(values, heap, pc)
  BY RunningGraph
<1>4. /\ f \in [Outputs(program, pc) -> Storages]
      /\ \A v \in Outputs(program, pc) : f[v] \notin InUse
      /\ \A v, w \in Outputs(program, pc) : f[v] = f[w] => v = w
  <2>1. Outputs(program, pc) \in SUBSET Nat
    BY <1>1
  <2> QED BY <2>1, AllocationsFree
<1>5. /\ new \in [Values(program) -> Storages \cup {None}]
      /\ \A v \in Values(program) : v \in Outputs(program, pc) => new[v] = f[v]
      /\ \A v \in Values(program) : v \notin Outputs(program, pc) => new[v] = values[v]
      /\ \A v \in Elements(program.inputs) : new[v] = values[v]
  BY <1>1, <1>2, <1>4
<1>6. \A v \in Values(program) : values[v] \in InUse
  BY <1>1 DEF InUse, Elements
<1>7. /\ \A s \in Hosts : s \in InUse
      /\ \A s \in Elements(resident) : s \in InUse
      /\ \A h \in held : h.storage \in InUse
  BY DEF InUse, Hosts
<1>8. \A s \in Storages : s # None
  BY MetalAssumption DEF None
<1> HIDE DEF new
<1>9. Correct(new, mem, pc + 1)
  <2> SUFFICES ASSUME NEW v \in Defined(program, pc + 1) \cap Needed(program, pc + 1)
               PROVE  new[v] # None /\ mem[new[v]] = program.meaning[v]
    BY DEF Correct
  <2>1. CASE v \in Outputs(program, pc)
    BY <1>1, <1>4, <1>5, <1>8, <2>1
  <2>2. CASE v \notin Outputs(program, pc)
    <3>1. v \in Defined(program, pc) \cap Needed(program, pc) /\ v \in Values(program)
      BY <1>2, <2>2
    <3>2. values[v] # None /\ heap[values[v]] = program.meaning[v]
      BY <1>3, <3>1 DEF Registers, Correct
    <3> QED BY <1>5, <1>6, <2>2, <3>1, <3>2
  <2> QED BY <2>1, <2>2
<1>10. InputsKept(new)
  <2>1. \A i \in 1 .. program.params : program.inputs[i] \in Elements(program.inputs)
    BY <1>1, RequestAssumption DEF Elements
  <2> QED BY <1>3, <1>5, <2>1 DEF Registers, InputsKept
<1>11. FilledIsDefined(new, pc + 1)
  BY <1>2, <1>3, <1>5 DEF Registers, FilledIsDefined
<1>12. SharedByRoot(new)
  <2> SUFFICES ASSUME NEW v \in Values(program), NEW w \in Values(program), new[v] # None, new[v] = new[w],
                      program.root[v] \in WrittenRoots(program)
               PROVE  program.root[w] = program.root[v]
    BY DEF SharedByRoot
  <2>1. CASE v \notin Outputs(program, pc) /\ w \notin Outputs(program, pc)
    BY <1>3, <1>5, <2>1 DEF Registers, SharedByRoot
  <2>2. CASE v \in Outputs(program, pc) \/ w \in Outputs(program, pc)
    <3>1. v = w
      BY <1>4, <1>5, <1>6, <2>2
    <3> QED BY <3>1
  <2> QED BY <2>1, <2>2
<1>13. RootsOwn(new)
  <2> SUFFICES ASSUME NEW v \in Values(program)
               PROVE  /\ new[v] \in Hosts => program.root[v] \in Parameters(program) /\ new[program.root[v]] = new[v]
                      /\ new[v] \in Elements(resident) => program.root[v] \in Constants(program)
                      /\ (new[v] # None /\ program.root[v] \in WrittenRoots(program)) => \A h \in held : new[v] # h.storage
    BY DEF RootsOwn
  <2>1. CASE v \in Outputs(program, pc)
    <3>1. new[v] \notin InUse
      BY <1>4, <1>5, <2>1
    <3> QED BY <1>7, <3>1
  <2>2. CASE v \notin Outputs(program, pc)
    <3>1. new[v] = values[v]
      BY <1>5, <2>2
    <3>2. \A w \in Parameters(program) : new[w] = values[w]
      BY <1>1, <1>5, RequestAssumption DEF Parameters, Elements
    <3> QED BY <1>3, <3>1, <3>2 DEF Registers, RootsOwn
  <2> QED BY <2>1, <2>2
<1>14. Registers(new, mem, pc + 1)
  BY <1>5, <1>9, <1>10, <1>11, <1>12, <1>13 DEF Registers
<1> QED BY <1>14 DEF new
----------------------------------------------------------------------------
(* The steps of a call.                                                    *)

LEMMA AliasStepGraph ==
  ASSUME Inv, WellFormed(program), AliasStep
  PROVE  GraphInv'
<1> DEFINE in == step.inputs[1]
<1> DEFINE out == step.outputs[1]
<1>1. Running /\ step.alias /\ UNCHANGED <<program, resident, heap, held, donated>>
  BY DEF AliasStep
<1>2. /\ program \in Requests /\ pc \in Steps(program) /\ pc \in Nat /\ step = program.steps[pc]
      /\ Inputs(program, pc) = {in} /\ Outputs(program, pc) = {out}
  BY <1>1, RunningTyped, StepShape, OnlyElement
<1>3. values[in] # None /\ heap[values[in]] = program.meaning[in]
  BY <1>1, <1>2, RunningGraph
<1>4. program.meaning[out] = program.meaning[in] /\ program.root[out] = program.root[in]
  <2>1. MeaningKept(program) /\ Rooted(program)
    BY DEF WellFormed
  <2>2. out \in Outputs(program, pc) /\ program.steps[pc].alias
    BY <1>1, <1>2
  <2>3. program.root[out] = program.root[in]
    BY <1>2, <2>1, <2>2 DEF Rooted
  <2>4. program.meaning[out] = program.meaning[in]
    BY <1>2, <2>1, <2>2 DEF MeaningKept
  <2> QED BY <2>3, <2>4
<1>5. AfterRelease([values EXCEPT ![out] = values[in]])
  BY <1>3 DEF AliasStep
<1> HIDE DEF in, out
<1>6. Registers([values EXCEPT ![out] = values[in]], heap, pc + 1)
  BY <1>1, <1>2, <1>3, <1>4, SharedRegisters
<1>7. Intact(heap) /\ heap' = heap
  BY <1>1, RunningGraph
<1>8. Registers([values EXCEPT ![out] = values[in]], heap', pc + 1) /\ Intact(heap')
  BY <1>6, <1>7
<1> QED BY <1>1, <1>5, <1>8, AfterReleaseGraph

(* What the kernel of a step finds in its inputs, and makes of it.         *)
LEMMA KernelResult ==
  ASSUME Inv, WellFormed(program), Running, ~step.alias,
         NEW vals, \A v \in Inputs(program, pc) : vals[v] = values[v]
  PROVE  Compute(step, [i \in DOMAIN step.inputs |-> Read(vals, step.inputs[i])])
           = [j \in DOMAIN step.outputs |-> program.meaning[step.outputs[j]]]
<1>1. /\ program \in Requests /\ pc \in Steps(program) /\ step = program.steps[pc]
      /\ Elements(step.inputs) = Inputs(program, pc) /\ Elements(step.outputs) = Outputs(program, pc)
  BY RunningTyped
<1>2. \A v \in Inputs(program, pc) : v \notin Outputs(program, pc)
  BY <1>1, StepWellFormed
<1>3. \A v \in Inputs(program, pc) : Read(vals, v) = program.meaning[v]
  BY <1>1, <1>2, RunningGraph DEF Read
<1>4. [i \in DOMAIN step.inputs |-> Read(vals, step.inputs[i])] = [i \in DOMAIN step.inputs |-> program.meaning[step.inputs[i]]]
  BY <1>1, <1>3 DEF Elements
<1>5. Compute(program.steps[pc], [i \in DOMAIN program.steps[pc].inputs |-> program.meaning[program.steps[pc].inputs[i]]])
        = [j \in DOMAIN program.steps[pc].outputs |-> program.meaning[program.steps[pc].outputs[j]]]
  BY <1>1 DEF WellFormed, MeaningKept
<1> QED BY <1>1, <1>4, <1>5

LEMMA InPlaceGraph ==
  ASSUME Inv, WellFormed(program), KernelStep, step.in_place # 0
  PROVE  GraphInv'
<1> DEFINE in == step.inputs[step.in_place]
<1> DEFINE out == step.outputs[1]
<1> DEFINE vals == [values EXCEPT ![out] = values[in]]
<1>1. Running /\ ~step.alias /\ UNCHANGED <<program, resident, held, donated>>
  BY DEF KernelStep
<1>2. /\ program \in Requests /\ pc \in Steps(program) /\ pc \in Nat /\ step = program.steps[pc]
      /\ Elements(step.inputs) = Inputs(program, pc) /\ Elements(step.outputs) = Outputs(program, pc)
      /\ Inputs(program, pc) \subseteq Values(program) /\ Outputs(program, pc) \subseteq Values(program)
      /\ values \in [Values(program) -> Storages \cup {None}] /\ DOMAIN heap = Storages
  BY <1>1, RunningTyped
<1>3. /\ in \in Inputs(program, pc) /\ Outputs(program, pc) = {out} /\ DOMAIN step.outputs = {1}
      /\ in = InPlaceOperand(program, pc) /\ pc \in Updates(program)
  <2>1. Len(step.outputs) = 1 /\ step.in_place \in DOMAIN step.inputs
    BY <1>1, <1>2, RunningTyped, StepShape
  <2> QED BY <1>1, <1>2, <2>1, RunningTyped, OnlyElement DEF Elements, InPlaceOperand, Updates
<1>4. values[in] # None /\ values[in] \in Storages /\ in \in Values(program) /\ out \in Values(program) /\ in # out
  <2>1. out \notin Defined(program, pc) /\ in \in Defined(program, pc)
    BY <1>2, <1>3, StepWellFormed
  <2> QED BY <1>1, <1>2, <1>3, <2>1, RunningGraph
<1>5. program.root[out] = program.root[in] /\ program.root[in] \in WrittenRoots(program)
  BY <1>1, <1>2, <1>3 DEF WellFormed, Rooted, WrittenRoots, InPlaceOperand
<1>6. /\ vals[out] = values[in] /\ \A v \in Inputs(program, pc) : vals[v] = values[v]
      /\ \A v \in Inputs(program, pc) \cup Outputs(program, pc) : vals[v] # None
  <2>1. out \notin Inputs(program, pc)
    BY <1>2, <1>3, StepWellFormed
  <2> QED BY <1>1, <1>2, <1>3, <1>4, <2>1, RunningGraph
<1>7. Prepared = {vals}
  BY DEF Prepared
<1>8. Compute(step, [i \in DOMAIN step.inputs |-> Read(vals, step.inputs[i])])
        = [j \in DOMAIN step.outputs |-> program.meaning[step.outputs[j]]]
  BY <1>1, <1>6, KernelResult
<1> HIDE DEF vals, in
<1> DEFINE places == [j \in DOMAIN step.outputs |-> vals[step.outputs[j]]]
<1> DEFINE contents == [j \in DOMAIN step.outputs |-> program.meaning[step.outputs[j]]]
<1>9. AfterRelease(vals) /\ heap' = Overwritten(places, contents)
  <2>1. ~ \E v \in Elements(step.inputs) \cup Elements(step.outputs) : vals[v] = None
    BY <1>2, <1>6
  <2> QED BY <1>7, <1>8, <2>1 DEF KernelStep
<1>10. /\ heap'[values[in]] = program.meaning[out]
       /\ \A s \in Storages : s # values[in] => heap'[s] = heap[s]
  <2>1. DOMAIN places = {1} /\ places[1] = values[in] /\ contents[1] = program.meaning[out]
    BY <1>3, <1>6
  <2> HIDE DEF places, contents
  <2>2. \A j \in DOMAIN places : \A k \in DOMAIN places : places[j] = places[k] => j = k
    BY <2>1
  <2> QED BY <1>4, <1>9, <2>1, <2>2, OverwrittenAt
<1> HIDE DEF places, contents
<1>11. Registers(values, heap, pc) /\ Intact(heap) /\ HeldInv
  BY <1>1, RunningGraph
(* No other value that is needed is in the storage written.                *)
<1>12. \A v \in Defined(program, pc) \cap Needed(program, pc + 1) : heap'[values[v]] = heap[values[v]]
  <2> SUFFICES ASSUME NEW v \in Defined(program, pc) \cap Needed(program, pc + 1)
               PROVE  heap'[values[v]] = heap[values[v]]
    OBVIOUS
  <2>1. v \in Values(program) /\ v \in Needed(program, pc)
    BY <1>1, <1>2, RunningTyped, StepWellFormed, IndicesInRange DEF Defined
  <2>2. values[v] # None /\ values[v] \in Storages
    BY <1>2, <1>11, <2>1 DEF Registers, Correct
  <2>3. program.root[v] # program.root[in]
    BY <1>3 DEF WellFormed, Exclusive
  <2>4. values[in] # values[v]
    BY <1>4, <1>5, <1>11, <2>1, <2>3 DEF Registers, SharedByRoot
  <2> QED BY <1>10, <2>2, <2>4
<1>13. Registers(vals, heap', pc + 1)
  BY <1>1, <1>3, <1>5, <1>10, <1>12, SharedRegisters DEF vals
(* Nor is it anyone else's.                                                *)
<1>14. values[in] \in Hosts => values[in] \in donated
  <2> SUFFICES ASSUME values[in] \in Hosts PROVE values[in] \in donated
    OBVIOUS
  <2>1. program.root[in] \in Parameters(program) /\ values[program.root[in]] = values[in]
    BY <1>4, <1>11 DEF Registers, RootsOwn
  <2>2. program.root[in] \in Elements(program.inputs)
    BY <1>2, <2>1, RequestAssumption DEF Parameters, Elements
  <2>3. PICK i \in program.donated : program.root[in] = program.inputs[i] /\ i \in 1 .. program.params
    BY <1>2, <1>5, <2>2, WrittenInputs
  <2> QED BY <1>11, <2>1, <2>3 DEF Registers, InputsKept
<1>15. values[in] \notin Elements(resident)
  <2> SUFFICES ASSUME values[in] \in Elements(resident) PROVE FALSE
    OBVIOUS
  <2>1. program.root[in] \in Constants(program)
    BY <1>4, <1>11 DEF Registers, RootsOwn
  <2> QED BY <1>2, <1>5, <2>1, WrittenInputs DEF Constants
<1>16. \A h \in held : values[in] # h.storage
  BY <1>4, <1>5, <1>11 DEF Registers, RootsOwn
<1>17. Intact(heap')
  <2>1. \A s \in Hosts \ donated : heap'[s] = HostArrays[s].data
    BY <1>10, <1>11, <1>14, MetalAssumption DEF Intact, Hosts
  <2>2. \A v \in DOMAIN resident : heap'[resident[v]] = program.meaning[v]
    <3>1. \A v \in DOMAIN resident : resident[v] \in Storages
      BY <1>1 DEF Inv, ResidentInv, Running
    <3> QED BY <1>10, <1>11, <1>15, <3>1 DEF Intact, Elements
  <2>3. \A h \in held : heap'[h.storage] = h.data
    BY <1>10, <1>11, <1>16 DEF Intact, HeldInv
  <2> QED BY <1>1, <2>1, <2>2, <2>3 DEF Intact
<1> QED BY <1>1, <1>9, <1>13, <1>17, AfterReleaseGraph

(* Memory that is written only where nobody holds it.                      *)
LEMMA UnusedIntact ==
  ASSUME TypeInv, ResidentInv, Intact(heap), HeldInv, NEW mem, \A s \in Storages \cap InUse : mem[s] = heap[s]
  PROVE  Intact(mem)
<1>1. \A s \in Hosts : s \in Storages \cap InUse
  BY MetalAssumption DEF InUse, Hosts
<1>2. \A v \in DOMAIN resident : resident[v] \in Storages \cap InUse
  BY DEF InUse, Elements, ResidentInv
<1>3. \A h \in held : h.storage \in Storages \cap InUse
  BY DEF InUse, HeldInv
<1> QED BY <1>1, <1>2, <1>3 DEF Intact

LEMMA FreshGraph ==
  ASSUME Inv, WellFormed(program), KernelStep, step.in_place = 0
  PROVE  GraphInv'
<1>1. Running /\ ~step.alias /\ UNCHANGED <<program, resident, held, donated>>
  BY DEF KernelStep
<1>2. /\ program \in Requests /\ Accepted(program) /\ pc \in Steps(program) /\ pc \in Nat /\ step = program.steps[pc]
      /\ Elements(step.inputs) = Inputs(program, pc) /\ Elements(step.outputs) = Outputs(program, pc)
      /\ Inputs(program, pc) \subseteq Values(program) /\ Outputs(program, pc) \subseteq Values(program)
      /\ Values(program) \subseteq Nat
      /\ values \in [Values(program) -> Storages \cup {None}]
  BY <1>1, RunningTyped, IndicesInRange
<1>3. /\ Outputs(program, pc) \in SUBSET Nat /\ Injective(step.outputs)
      /\ \A v \in Inputs(program, pc) : v \notin Outputs(program, pc)
  BY <1>2, StepWellFormed
<1>4. \A v \in Outputs(program, pc) : program.root[v] = v
  BY <1>1, <1>2 DEF WellFormed, Rooted
<1>5. PICK vals \in Prepared :
        IF \E v \in Elements(step.inputs) \cup Elements(step.outputs) : vals[v] = None
          THEN Ended("failed") /\ UNCHANGED heap
          ELSE /\ heap' = Overwritten([j \in DOMAIN step.outputs |-> vals[step.outputs[j]]],
                                      Compute(step, [i \in DOMAIN step.inputs |-> Read(vals, step.inputs[i])]))
               /\ AfterRelease(vals)
  BY DEF KernelStep
<1>5a. PICK f \in Allocations(Outputs(program, pc)) :
         vals = [v \in Values(program) |-> IF v \in Outputs(program, pc) THEN f[v] ELSE values[v]]
  BY <1>2 DEF Prepared
<1>6. /\ f \in [Outputs(program, pc) -> Storages]
      /\ \A v \in Outputs(program, pc) : f[v] \notin InUse /\ f[v] # None
      /\ \A v, w \in Outputs(program, pc) : f[v] = f[w] => v = w
  <2>1. /\ f \in [Outputs(program, pc) -> Storages]
        /\ \A v \in Outputs(program, pc) : f[v] \notin InUse
        /\ \A v, w \in Outputs(program, pc) : f[v] = f[w] => v = w
    BY <1>3, AllocationsFree
  <2>2. None \notin Storages
    BY MetalAssumption DEF None
  <2> QED BY <2>1, <2>2
<1> DEFINE places == [j \in DOMAIN step.outputs |-> f[step.outputs[j]]]
<1> DEFINE contents == [j \in DOMAIN step.outputs |-> program.meaning[step.outputs[j]]]
<1>7. /\ \A v \in Inputs(program, pc) : vals[v] = values[v]
      /\ \A v \in Outputs(program, pc) : vals[v] = f[v]
      /\ \A v \in Inputs(program, pc) \cup Outputs(program, pc) : vals[v] # None
  BY <1>1, <1>2, <1>3, <1>5a, <1>6, RunningGraph
<1>8. [j \in DOMAIN step.outputs |-> vals[step.outputs[j]]] = places
  BY <1>2, <1>7 DEF Elements
<1>9. Compute(step, [i \in DOMAIN step.inputs |-> Read(vals, step.inputs[i])]) = contents
  BY <1>1, <1>7, KernelResult
<1>10. AfterRelease(vals) /\ heap' = Overwritten(places, contents)
  BY <1>2, <1>5, <1>7, <1>8, <1>9
<1>11. /\ \A v \in Outputs(program, pc) : heap'[f[v]] = program.meaning[v]
       /\ \A s \in Storages \cap InUse : heap'[s] = heap[s]
  <2>1. \A j \in DOMAIN step.outputs : step.outputs[j] \in Outputs(program, pc)
    BY <1>2 DEF Elements
  <2>2. /\ DOMAIN places = DOMAIN step.outputs
        /\ \A j \in DOMAIN places : places[j] = f[step.outputs[j]] /\ contents[j] = program.meaning[step.outputs[j]]
    OBVIOUS
  <2> HIDE DEF places, contents
  <2>3. \A j, k \in DOMAIN places : places[j] = places[k] => j = k
    BY <1>3, <1>6, <2>1, <2>2 DEF Injective
  <2>4. \A j \in DOMAIN places : places[j] \in Storages /\ places[j] \notin InUse
    BY <1>6, <2>1, <2>2
  <2>5. /\ \A j \in DOMAIN places : heap'[places[j]] = contents[j]
        /\ \A s \in Storages : (\A j \in DOMAIN places : places[j] # s) => heap'[s] = heap[s]
    BY <1>10, <2>3, <2>4, OverwrittenAt
  <2>6. \A v \in Outputs(program, pc) : \E j \in DOMAIN step.outputs : step.outputs[j] = v
    BY <1>2 DEF Elements
  <2> QED BY <2>2, <2>4, <2>5, <2>6
<1> HIDE DEF places, contents
<1>12. Intact(heap')
  BY <1>1, <1>11, RunningGraph, UnusedIntact DEF Inv
<1>13. Registers(vals, heap', pc + 1)
  BY <1>1, <1>4, <1>5a, <1>11, FreshRegisters
<1> QED BY <1>1, <1>10, <1>12, <1>13, AfterReleaseGraph

LEMMA ThrowsGraph ==
  ASSUME Inv, WellFormed(program), Throws
  PROVE  GraphInv'
BY EndedGraph DEF Inv, GraphInv, Throws, Intact

LEMMA FinishGraph ==
  ASSUME Inv, WellFormed(program), Finish
  PROVE  GraphInv'
<1>1. /\ program \in Requests /\ status = "running" /\ pc = Len(program.steps) + 1
      /\ UNCHANGED <<program, resident, heap, donated>> /\ Accepted(program)
  BY DEF Inv, TypeInv, Finish
<1>2. Registers(values, heap, pc) /\ Intact(heap) /\ HeldInv
  BY <1>1 DEF Inv, GraphInv
<1>3. Scheduled(program)
  BY DEF WellFormed
<1>4. /\ Elements(program.outputs) \subseteq Defined(program, pc) \cap Needed(program, pc)
      /\ Elements(program.outputs) \subseteq Values(program) /\ Injective(program.outputs)
  BY <1>1, <1>3, IndicesInRange DEF Scheduled, Needed
<1>5. \A v \in Elements(program.outputs) : values[v] # None /\ heap[values[v]] = program.meaning[v] /\ values[v] \in Storages
  BY <1>2, <1>4 DEF Registers, Correct
<1>6. Ended("returned") /\ held' = held \cup Collected
  BY <1>5 DEF Finish
<1>7. Collected = {[storage |-> values[program.outputs[i]], data |-> program.meaning[program.outputs[i]]] : i \in DOMAIN program.outputs}
  <2>1. \A i \in DOMAIN program.outputs : ~ \E j \in 1 .. i - 1 : program.outputs[j] = program.outputs[i]
    <3> SUFFICES ASSUME NEW i \in DOMAIN program.outputs, NEW j \in 1 .. i - 1, program.outputs[j] = program.outputs[i]
                 PROVE  FALSE
      OBVIOUS
    <3>1. i \in Nat /\ j \in DOMAIN program.outputs /\ j # i
      BY <1>1, RequestAssumption
    <3> QED BY <1>4, <3>1 DEF Injective
  <2> QED BY <2>1 DEF Collected
<1>8. \A h \in held' \ held : \E v \in Elements(program.outputs) : h.storage = values[v] /\ h.data = program.meaning[v]
  BY <1>6, <1>7 DEF Elements
<1>9. Intact(heap)'
  BY <1>1, <1>2, <1>5, <1>8 DEF Intact
<1>10. ASSUME NEW v \in Elements(program.outputs), values[v] \in Hosts,
              WrittenRoots(program) \cap Elements(program.inputs) # {}
       PROVE  values[v] \in donated
  <2>1. program.root[v] \in Parameters(program) /\ values[program.root[v]] = values[v]
    BY <1>2, <1>4, <1>10 DEF Registers, RootsOwn
  <2>2. program.root[v] \in WrittenRoots(program)
    BY <1>1, <1>10, <2>1, WrittenInputs
  <2>3. program.root[v] \in Elements(program.inputs)
    BY <1>1, <2>1, RequestAssumption DEF Parameters, Elements
  <2>4. PICK i \in program.donated : program.root[v] = program.inputs[i] /\ i \in 1 .. program.params
    BY <1>1, <2>2, <2>3, WrittenInputs
  <2> QED BY <1>2, <2>1, <2>4 DEF Registers, InputsKept
<1>11. HeldInv'
  <2>1. WrittenRoots(program)' = WrittenRoots(program)
    BY <1>1 DEF WrittenRoots, Updates, InPlaceOperand, Steps
  <2> QED BY <1>1, <1>2, <1>5, <1>8, <1>10, <2>1 DEF HeldInv
<1> QED BY <1>6, <1>9, <1>11 DEF GraphInv, Ended

LEMMA KernelStepGraph ==
  ASSUME Inv, WellFormed(program), KernelStep
  PROVE  GraphInv'
BY InPlaceGraph, FreshGraph

LEMMA InitGraph == Init => GraphInv
<1> SUFFICES ASSUME Init PROVE GraphInv
  OBVIOUS
<1>1. \A s \in Hosts : heap[s] = HostArrays[s].data
  BY MetalAssumption DEF Init, Untouched, Hosts
<1>2. resident = <<>> /\ DOMAIN resident = {} /\ held = {} /\ status = "new"
  BY DEF Init, Untouched
<1> QED BY <1>1, <1>2 DEF GraphInv, HeldInv, Intact

LEMMA CreateGraph ==
  ASSUME Inv, WellFormed(program), Create
  PROVE  GraphInv'
<1>1. /\ program \in Requests /\ Accepted(program) /\ HeldInv /\ Intact(heap)
      /\ UNCHANGED <<program, held, donated>>
  BY DEF Inv, TypeInv, GraphInv, WellFormed, Create
<1>2. PICK f \in Allocations(Constants(program)) :
        status' = "ready" /\ resident' = f /\ heap' = Overwritten(f, program.meaning)
  BY <1>1 DEF Create
<1>3. Constants(program) \in SUBSET Nat
  BY <1>1, IndicesInRange DEF Constants
<1>4. /\ DOMAIN f = Constants(program)
      /\ \A v \in DOMAIN f : f[v] \in Storages /\ f[v] \notin InUse
      /\ \A v, w \in DOMAIN f : f[v] = f[w] => v = w
  BY <1>3, AllocationsFree
<1>5. /\ \A v \in DOMAIN f : heap'[f[v]] = program.meaning[v]
      /\ \A s \in Storages \cap InUse : heap'[s] = heap[s]
  BY <1>2, <1>4, OverwrittenAt
<1>6. Intact(heap')
  BY <1>1, <1>5, UnusedIntact DEF Inv
<1>7. Intact(heap)'
  BY <1>1, <1>2, <1>5, <1>6 DEF Intact
<1>8. HeldInv'
  BY <1>1 DEF HeldInv, WrittenRoots, Updates, InPlaceOperand, Steps
<1> QED BY <1>2, <1>7, <1>8 DEF GraphInv

(* What the arguments of a call are.                                       *)
LEMMA ArgumentsMeant ==
  ASSUME TypeInv, Intact(heap), NEW a \in Calls, HostGives(a)
  PROVE  /\ DOMAIN a = 1 .. program.params
         /\ \A i \in 1 .. program.params : a[i] \in Hosts \ donated /\ heap[a[i]] = program.meaning[program.inputs[i]]
         /\ \A i, j \in 1 .. program.params : i \in program.donated /\ a[i] = a[j] => i = j
<1>1. DOMAIN a = 1 .. program.params /\ \A i \in 1 .. program.params : a[i] \in Hosts \ donated
  BY DEF Calls, Hosts
<1> QED BY <1>1 DEF HostGives, Intact

(* The registers a call starts with.                                       *)
LEMMA StartRegisters ==
  ASSUME Inv, WellFormed(program), NEW a \in Calls, Start(a), Matches(a) /\ DenseReady(a)
  PROVE  Registers(values, heap, pc)'
<1>1. /\ program \in Requests /\ Accepted(program) /\ status \in {"ready", "returned", "failed"}
      /\ UNCHANGED <<program, resident, heap, held>> /\ HeldInv /\ Intact(heap) /\ HostGives(a)
      /\ pc' = 1 /\ donated' = Given(a)
  BY DEF Inv, TypeInv, GraphInv, Start
<1>2. /\ DOMAIN a = 1 .. program.params
      /\ \A i \in 1 .. program.params : a[i] \in Hosts \ donated /\ heap[a[i]] = program.meaning[program.inputs[i]]
      /\ \A i, j \in 1 .. program.params : i \in program.donated /\ a[i] = a[j] => i = j
  BY <1>1, ArgumentsMeant DEF Inv
<1>3. /\ resident \in [Constants(program) -> Storages \ Hosts]
      /\ \A v, w \in Constants(program) : resident[v] = resident[w] => v = w
  BY <1>1 DEF Inv, ResidentInv
<1>4. /\ Elements(program.inputs) \subseteq Values(program)
      /\ \A i \in 1 .. program.params : i \in DOMAIN program.inputs /\ program.inputs[i] \in Elements(program.inputs)
      /\ Elements(program.inputs) = Parameters(program) \cup Constants(program)
      /\ Parameters(program) \cap Constants(program) = {}
      /\ \A i, j \in 1 .. program.params : program.inputs[i] = program.inputs[j] => i = j
      /\ \A v \in Elements(program.inputs) : program.root[v] = v
      /\ Defined(program, 1) = Elements(program.inputs)
  <2>1. \A i \in 1 .. program.params : i \in DOMAIN program.inputs
    BY <1>1, RequestAssumption
  <2>2. Injective(program.inputs) /\ \A v \in Elements(program.inputs) : program.root[v] = v
    BY DEF WellFormed, Scheduled, Rooted
  <2>3. \A i \in 1 .. program.params : program.inputs[i] \in Elements(program.inputs)
    BY <2>1 DEF Elements
  <2>4. Elements(program.inputs) = Parameters(program) \cup Constants(program) /\ Parameters(program) \cap Constants(program) = {}
    BY <2>3 DEF Parameters, Constants
  <2>5. Elements(program.inputs) \subseteq Values(program) /\ Defined(program, 1) = Elements(program.inputs)
    BY <1>1, IndicesInRange, DefinedFirst
  <2>6. \A i, j \in 1 .. program.params : program.inputs[i] = program.inputs[j] => i = j
    BY <2>1, <2>2 DEF Injective
  <2> QED BY <2>1, <2>2, <2>3, <2>4, <2>5, <2>6
<1>5. /\ values' \in [Values(program) -> Storages \cup {None}]
      /\ \A i \in 1 .. program.params : values'[program.inputs[i]] = a[i]
      /\ \A v \in Constants(program) : values'[v] = resident[v]
      /\ \A v \in Values(program) : v \notin Elements(program.inputs) => values'[v] = None
  <2>1. values' = [v \in Values(program) |->
                     IF v \in Parameters(program) THEN a[CHOOSE i \in DOMAIN a : program.inputs[i] = v]
                     ELSE IF v \in Constants(program) THEN resident[v] ELSE None]
    BY DEF Start
  <2>2. values' \in [Values(program) -> Storages \cup {None}]
    BY <1>1, StartTyped DEF TypeInv, Values
  <2>3. ASSUME NEW i \in 1 .. program.params PROVE values'[program.inputs[i]] = a[i]
    <3>1. (CHOOSE j \in DOMAIN a : program.inputs[j] = program.inputs[i]) = i
      BY <1>2, <1>4
    <3>2. program.inputs[i] \in Parameters(program) /\ program.inputs[i] \in Values(program)
      BY <1>4 DEF Parameters
    <3> QED BY <2>1, <3>1, <3>2
  <2> QED BY <1>4, <2>1, <2>2, <2>3
<1>6. None \notin Storages /\ Hosts \subseteq Storages
  BY MetalAssumption DEF None, Hosts
(* The value of a register, by what it is of.                              *)
<1>7. /\ \A v \in Parameters(program) : \E i \in 1 .. program.params : v = program.inputs[i] /\ values'[v] = a[i]
      /\ \A v \in Parameters(program) : values'[v] \in Hosts \ donated /\ heap[values'[v]] = program.meaning[v]
      /\ \A v \in Constants(program) : values'[v] \in Storages \ Hosts /\ heap[values'[v]] = program.meaning[v]
  <2>1. \A v \in Parameters(program) : \E i \in 1 .. program.params : v = program.inputs[i] /\ values'[v] = a[i]
    BY <1>5 DEF Parameters
  <2>2. \A v \in Constants(program) : values'[v] \in Storages \ Hosts /\ heap[values'[v]] = program.meaning[v]
    BY <1>1, <1>3, <1>5 DEF Intact
  <2> QED BY <1>2, <2>1, <2>2
<1>8. /\ \A v \in Values(program) : values'[v] \in Hosts => v \in Parameters(program)
      /\ \A v \in Values(program) : values'[v] \in Elements(resident) => v \in Constants(program)
      /\ \A v \in Values(program) : values'[v] # None => v \in Elements(program.inputs)
  <2>1. Elements(resident) \subseteq Storages \ Hosts
    BY <1>3 DEF Elements
  <2> QED BY <1>4, <1>5, <1>6, <1>7, <2>1
<1>9. Correct(values', heap', 1)
  BY <1>1, <1>4, <1>6, <1>7 DEF Correct
<1>10. FilledIsDefined(values', 1)
  BY <1>4, <1>8 DEF FilledIsDefined
<1>11. SharedByRoot(values')
  <2> SUFFICES ASSUME NEW v \in Values(program), NEW w \in Values(program),
                      values'[v] # None, values'[v] = values'[w], program.root[v] \in WrittenRoots(program)
               PROVE  v = w
    BY DEF SharedByRoot
  <2>1. v \in Elements(program.inputs) /\ program.root[v] = v
    BY <1>4, <1>8
  <2>2. PICK i \in program.donated : v = program.inputs[i] /\ i \in 1 .. program.params
    BY <1>1, <2>1, WrittenInputs
  <2>3. values'[v] = a[i] /\ a[i] \in Hosts
    BY <1>2, <1>5, <2>2
  <2>4. PICK j \in 1 .. program.params : w = program.inputs[j] /\ values'[w] = a[j]
    BY <1>7, <1>8, <2>3
  <2> QED BY <1>2, <2>2, <2>3, <2>4
<1>12. RootsOwn(values')
  <2> SUFFICES ASSUME NEW v \in Values(program)
               PROVE  /\ values'[v] \in Hosts => program.root[v] \in Parameters(program) /\ values'[program.root[v]] = values'[v]
                      /\ values'[v] \in Elements(resident) => program.root[v] \in Constants(program)
                      /\ (values'[v] # None /\ program.root[v] \in WrittenRoots(program)) => \A h \in held : values'[v] # h.storage
    BY DEF RootsOwn
  <2>1. ASSUME values'[v] # None, program.root[v] \in WrittenRoots(program), NEW h \in held
        PROVE  values'[v] # h.storage
    <3>1. v \in Elements(program.inputs) /\ program.root[v] = v
      BY <1>4, <1>8, <2>1
    <3>2. v \in Parameters(program)
      BY <1>1, <1>4, <2>1, <3>1, WrittenInputs
    <3>3. h.storage \in Hosts => h.storage \in donated
      BY <1>1, <2>1, <3>1 DEF HeldInv
    <3> QED BY <1>7, <3>2, <3>3
  <2> QED BY <1>4, <1>8, <2>1
<1>13. /\ \A i \in 1 .. program.params :
            /\ values'[program.inputs[i]] \in Hosts
            /\ i \in program.donated => values'[program.inputs[i]] \in donated'
       /\ \A v \in Elements(program.inputs) : values'[v] # None
  BY <1>1, <1>2, <1>4, <1>5, <1>6, <1>7 DEF Given
<1>14. InputsKept(values)'
  BY <1>1, <1>13 DEF InputsKept
<1>15. SharedByRoot(values)' /\ RootsOwn(values)'
  <2>1. /\ Values(program)' = Values(program) /\ Parameters(program)' = Parameters(program)
        /\ Constants(program)' = Constants(program) /\ WrittenRoots(program)' = WrittenRoots(program)
        /\ held' = held /\ resident' = resident /\ program' = program
    BY <1>1 DEF Values, Parameters, Constants, WrittenRoots, Updates, InPlaceOperand, Steps
  <2>2. SharedByRoot(values)'
    BY <1>11, <2>1 DEF SharedByRoot
  <2>3. RootsOwn(values)'
    BY <1>12, <2>1 DEF RootsOwn
  <2> QED BY <2>2, <2>3
<1>16. Correct(values, heap, pc)' /\ FilledIsDefined(values, pc)'
  BY <1>1, <1>9, <1>10 DEF Correct, FilledIsDefined, Defined, Needed, Inputs, Outputs, Steps, Values
<1>17. Values(program)' = Values(program)
  BY <1>1 DEF Values
<1> QED BY <1>5, <1>14, <1>15, <1>16, <1>17 DEF Registers

LEMMA StartGraph ==
  ASSUME Inv, WellFormed(program), NEW a \in Calls, Start(a)
  PROVE  GraphInv'
<1>1. HeldInv /\ Intact(heap) /\ UNCHANGED <<program, resident, heap, held>>
  BY DEF Inv, GraphInv, Start
<1>2. CASE Matches(a) /\ DenseReady(a)
  <2>1. donated \subseteq donated'
    BY <1>2 DEF Start, Given
  <2>2. HeldInv'
    BY <1>1, <2>1 DEF HeldInv, WrittenRoots, Updates, InPlaceOperand, Steps
  <2>3. Intact(heap)'
    BY <1>1, <2>1 DEF Intact
  <2> QED BY <1>2, <2>2, <2>3, StartRegisters DEF GraphInv
<1>3. CASE ~(Matches(a) /\ DenseReady(a))
  BY <1>1, <1>3, EndedGraph DEF Inv, Start
<1> QED BY <1>2, <1>3

LEMMA ExecuteKernelGraph ==
  ASSUME Inv, WellFormed(program), NEW a \in Calls, ExecuteKernel(a)
  PROVE  GraphInv'
<1> DEFINE s == program.steps[1]
<1>1. /\ program \in Requests /\ Accepted(program) /\ program.kind = "kernel" /\ HostGives(a)
      /\ UNCHANGED <<program, resident, donated>> /\ HeldInv /\ Intact(heap)
      /\ status' \in {"returned", "failed"}
  BY DEF Inv, TypeInv, GraphInv, ExecuteKernel
<1>2. WrittenRoots(program)' = WrittenRoots(program)
  BY <1>1 DEF WrittenRoots, Updates, InPlaceOperand, Steps
<1>3. CASE UNCHANGED <<heap, held>>
  BY <1>1, <1>2, <1>3 DEF GraphInv, HeldInv, Intact
<1>4. CASE Matches(a) /\ DenseReady(a)
  <2>1. PICK f \in Allocations(Elements(program.outputs)) :
          /\ heap' = Overwritten([j \in DOMAIN s.outputs |-> f[s.outputs[j]]],
                                 Compute(s, [i \in DOMAIN a |-> heap[a[i]]]))
          /\ held' = held \cup
               (IF status' = "returned"
                  THEN {[storage |-> f[v], data |-> program.meaning[v]] : v \in Elements(s.outputs)}
                  ELSE {})
    BY <1>4 DEF ExecuteKernel
  <2>2. /\ Steps(program) = {1} /\ s.inputs = program.inputs /\ s.outputs = program.outputs /\ ~s.alias
        /\ program.params = Len(s.inputs) /\ s.inputs \in Seq(Nat) /\ s.outputs \in Seq(Nat)
    BY <1>1, RequestAssumption DEF Steps
  <2>3. [i \in DOMAIN a |-> heap[a[i]]] = [i \in DOMAIN s.inputs |-> program.meaning[s.inputs[i]]]
    BY <1>1, <2>2, ArgumentsMeant DEF Inv
  <2>4. Compute(s, [i \in DOMAIN a |-> heap[a[i]]]) = [j \in DOMAIN s.outputs |-> program.meaning[s.outputs[j]]]
    <3>1. Compute(s, [i \in DOMAIN s.inputs |-> program.meaning[s.inputs[i]]])
            = [j \in DOMAIN s.outputs |-> program.meaning[s.outputs[j]]]
      BY <2>2 DEF WellFormed, MeaningKept
    <3> QED BY <2>3, <3>1
  <2>5. Injective(s.outputs) /\ Elements(s.outputs) \in SUBSET Nat
    BY <1>1, <2>2, IndicesInRange DEF WellFormed, Scheduled
  <2> HIDE DEF s
  <2> DEFINE places == [j \in DOMAIN s.outputs |-> f[s.outputs[j]]]
  <2> DEFINE contents == [j \in DOMAIN s.outputs |-> program.meaning[s.outputs[j]]]
  <2>6. /\ f \in [Elements(s.outputs) -> Storages]
        /\ \A v \in Elements(s.outputs) : f[v] \notin InUse
        /\ \A v, w \in Elements(s.outputs) : f[v] = f[w] => v = w
    BY <2>2, <2>5, AllocationsFree
  <2>7. heap' = Overwritten(places, contents)
    BY <2>1, <2>4
  <2>8. /\ \A v \in Elements(s.outputs) : heap'[f[v]] = program.meaning[v]
        /\ \A x \in Storages \cap InUse : heap'[x] = heap[x]
    <3>1. \A j \in DOMAIN s.outputs : s.outputs[j] \in Elements(s.outputs)
      BY DEF Elements
    <3>2. /\ DOMAIN places = DOMAIN s.outputs
          /\ \A j \in DOMAIN places : places[j] = f[s.outputs[j]] /\ contents[j] = program.meaning[s.outputs[j]]
      OBVIOUS
    <3> HIDE DEF places, contents
    <3>3. \A j, k \in DOMAIN places : places[j] = places[k] => j = k
      BY <2>5, <2>6, <3>1, <3>2 DEF Injective
    <3>4. \A j \in DOMAIN places : places[j] \in Storages /\ places[j] \notin InUse
      BY <2>6, <3>1, <3>2
    <3>5. /\ \A j \in DOMAIN places : heap'[places[j]] = contents[j]
          /\ \A x \in Storages : (\A j \in DOMAIN places : places[j] # x) => heap'[x] = heap[x]
      BY <2>7, <3>3, <3>4, OverwrittenAt
    <3>6. \A v \in Elements(s.outputs) : \E j \in DOMAIN s.outputs : s.outputs[j] = v
      BY DEF Elements
    <3> QED BY <3>2, <3>4, <3>5, <3>6
  <2>9. Intact(heap')
    BY <1>1, <2>8, UnusedIntact DEF Inv
  <2>10. \A h \in held' \ held : \E v \in Elements(s.outputs) : h.storage = f[v] /\ h.data = program.meaning[v]
    BY <2>1
  <2>11. Intact(heap)'
    BY <1>1, <2>8, <2>9, <2>10 DEF Intact
  <2>12. \A v \in Elements(s.outputs) : f[v] \in Storages /\ f[v] \notin Hosts
    BY <2>6 DEF InUse, Hosts
  <2>13. HeldInv'
    BY <1>1, <1>2, <2>10, <2>12 DEF HeldInv
  <2> QED BY <1>1, <2>11, <2>13 DEF GraphInv
<1>5. CASE ~(Matches(a) /\ DenseReady(a))
  BY <1>3, <1>5 DEF ExecuteKernel
<1> QED BY <1>4, <1>5
----------------------------------------------------------------------------
(* The invariant.                                                          *)

LEMMA InitInv == Init => Inv
BY InitTyped, InitGraph DEF Inv

LEMMA NextInv == Inv /\ [Next]_vars => Inv'
<1> SUFFICES ASSUME Inv, [Next]_vars PROVE Inv'
  OBVIOUS
<1>1. TypeInv' /\ ResidentInv'
  BY NextTyped
<1>2. program' = program
  BY DEF Next, Create, Start, ExecuteKernel, AliasStep, KernelStep, Throws, Finish, vars
<1>3. CASE ~WellFormed(program)
  <2>1. WellFormed(program)' = WellFormed(program)
    BY <1>2 DEF WellFormed, Accepted, Scheduled, MeaningKept, Rooted, Exclusive, KernelAccepted, StepAccepted, InRange,
       Values, Steps, Injective, Defined, Needed, Inputs, Outputs, Updates, InPlaceOperand, WrittenRoots, Parameters
  <2> QED BY <1>1, <1>3, <2>1 DEF Inv, GraphInv
<1>4. CASE WellFormed(program)
  <2>1. CASE UNCHANGED vars
    <3>1. status = "running" => Registers(values', heap', pc')
      BY <1>4, <2>1 DEF Inv, GraphInv, vars
    <3>2. status = "running" => Registers(values, heap, pc)'
      BY <2>1, <3>1, RegistersAfter DEF vars
    <3>3. HeldInv' /\ Intact(heap)'
      <4>1. WrittenRoots(program)' = WrittenRoots(program)
        BY <2>1 DEF vars, WrittenRoots, Updates, InPlaceOperand, Steps
      <4>2. HeldInv /\ Intact(heap)
        BY <1>4 DEF Inv, GraphInv
      <4> QED BY <2>1, <4>1, <4>2 DEF vars, HeldInv, Intact
    <3> QED BY <1>1, <2>1, <3>2, <3>3 DEF Inv, GraphInv, vars
  <2>2. CASE Next
    BY <1>1, <1>4, <2>2, CreateGraph, StartGraph, ExecuteKernelGraph, AliasStepGraph, KernelStepGraph, ThrowsGraph,
       FinishGraph DEF Next, Inv
  <2> QED BY <2>1, <2>2
<1> QED BY <1>3, <1>4

(* The invariant holds of every behaviour of the executor.                 *)
THEOREM Invariance == Spec => []Inv
BY InitInv, NextInv, PTL DEF Spec

(* The control state and the registers of the executor are what the code's  *)
(* types say, for every set of requests.                                   *)
THEOREM TypeCorrect == Spec => []TypeOK
<1>1. Inv => TypeOK
  BY DEF Inv, TypeInv, TypeOK
<1> QED BY <1>1, Invariance, PTL

(* In a running call of a well formed program, what is computed and still   *)
(* needed is in its register with the content the program means: neither a  *)
(* release nor an update in place takes it away.                           *)
THEOREM RegistersStayCorrect == Spec => []RegistersCorrect
<1>1. Inv => RegistersCorrect
  BY DEF Inv, GraphInv, RegistersCorrect, Registers, Correct
<1> QED BY <1>1, Invariance, PTL

(* The outputs the host was given stay what the program means, whatever     *)
(* calls follow.                                                           *)
THEOREM OutputsStayCorrect == Spec => []OutputsCorrect
<1>1. Inv => OutputsCorrect
  BY MetalAssumption DEF Inv, GraphInv, HeldInv, Intact, OutputsCorrect, None
<1> QED BY <1>1, Invariance, PTL

(* No execution of a well formed program changes an argument the host kept, *)
(* or a constant of the executable.                                        *)
THEOREM ArgumentsStayIntact == Spec => []ArgumentsIntact
<1>1. Inv => ArgumentsIntact
  BY DEF Inv, GraphInv, Intact, ArgumentsIntact, Hosts
<1> QED BY <1>1, Invariance, PTL
----------------------------------------------------------------------------
(* Dead registers.                                                         *)

(* Only what is needed from step t on is in the registers vals.            *)
NoneDead(vals, t) ==
  \A v \in Values(program) \ Elements(program.inputs) : vals[v] # None => v \in Needed(program, t)

DeadInv == Timely(program) /\ status = "running" => NoneDead(values, pc)

(* A step fills no register but its outputs, and its releases empty those   *)
(* that die.                                                               *)
LEMMA ReleaseLeavesNoneDead ==
  ASSUME Inv, Running, Timely(program), NoneDead(values, pc), NEW vals,
         \A v \in Values(program) : vals[v] # None => values[v] # None \/ v \in Outputs(program, pc),
         AfterRelease(vals), program' = program
  PROVE  DeadInv'
<1>1. /\ pc \in Steps(program) /\ program \in Requests /\ step = program.steps[pc] /\ status = "running"
  BY RunningTyped
<1>2. CASE step.release \cap Elements(program.outputs) = {}
  <2>1. values' = [v \in Values(program) |-> IF v \in step.release THEN None ELSE vals[v]] /\ pc' = pc + 1
    BY <1>2 DEF AfterRelease
  <2>2. ASSUME NEW v \in Values(program) \ Elements(program.inputs), values'[v] # None
        PROVE  v \in Needed(program, pc + 1)
    <3>1. v \notin step.release /\ vals[v] # None
      BY <2>1, <2>2
    <3>2. v \notin (Inputs(program, pc) \cup Outputs(program, pc)) \ Needed(program, pc + 1)
      BY <1>1, <2>2, <3>1 DEF Timely
    <3>3. values[v] # None => v \in Needed(program, pc)
      BY <2>2 DEF NoneDead
    <3>4. Needed(program, pc) = Needed(program, pc + 1) \cup Inputs(program, pc)
      BY <1>1, NeededNext
    <3> QED BY <2>2, <3>1, <3>2, <3>3, <3>4
  <2>3. Values(program)' = Values(program) /\ Needed(program, pc)' = Needed(program, pc + 1)
    BY <2>1 DEF Values, Needed, Inputs, Steps
  <2> QED BY <2>2, <2>3 DEF DeadInv, NoneDead
<1>3. CASE step.release \cap Elements(program.outputs) # {}
  BY <1>3 DEF AfterRelease, Ended, DeadInv
<1> QED BY <1>2, <1>3

LEMMA AliasStepDead ==
  ASSUME Inv, Timely(program), DeadInv, AliasStep
  PROVE  DeadInv'
<1>1. Running /\ step.alias /\ program' = program /\ NoneDead(values, pc)
  BY DEF AliasStep, Running, DeadInv
<1>2. CASE values[step.inputs[1]] = None
  BY <1>2 DEF AliasStep, Ended, DeadInv
<1>3. CASE values[step.inputs[1]] # None
  <2> DEFINE vals == [values EXCEPT ![step.outputs[1]] = values[step.inputs[1]]]
  <2>1. AfterRelease(vals)
    BY <1>3 DEF AliasStep
  <2>2. step.outputs[1] \in Outputs(program, pc)
    BY <1>1, RunningTyped, StepShape, OnlyElement
  <2>3. \A v \in Values(program) : vals[v] # None => values[v] # None \/ v \in Outputs(program, pc)
    BY <1>1, <2>2, RunningTyped
  <2> HIDE DEF vals
  <2> QED BY <1>1, <2>1, <2>3, ReleaseLeavesNoneDead
<1> QED BY <1>2, <1>3

LEMMA KernelStepDead ==
  ASSUME Inv, Timely(program), DeadInv, KernelStep
  PROVE  DeadInv'
<1>1. Running /\ program' = program /\ NoneDead(values, pc)
  BY DEF KernelStep, Running, DeadInv
<1>2. PICK vals \in Prepared : Ended("failed") \/ AfterRelease(vals)
  BY DEF KernelStep
<1>3. CASE Ended("failed")
  BY <1>3 DEF Ended, DeadInv
<1>4. CASE AfterRelease(vals)
  <2>1. \A v \in Values(program) : vals[v] # None => values[v] # None \/ v \in Outputs(program, pc)
    <3>1. CASE step.in_place # 0
      <4>1. step.outputs[1] \in Outputs(program, pc)
        BY <1>1, <3>1, RunningTyped, StepShape, OnlyElement
      <4>2. vals = [values EXCEPT ![step.outputs[1]] = values[step.inputs[step.in_place]]]
        BY <3>1 DEF Prepared
      <4> QED BY <1>1, <4>1, <4>2, RunningTyped
    <3>2. CASE step.in_place = 0
      <4>1. PICK f : vals = [v \in Values(program) |-> IF v \in Elements(step.outputs) THEN f[v] ELSE values[v]]
        BY <3>2 DEF Prepared
      <4> QED BY <1>1, <4>1, RunningTyped
    <3> QED BY <3>1, <3>2
  <2> QED BY <1>1, <1>4, <2>1, ReleaseLeavesNoneDead
<1> QED BY <1>2, <1>3, <1>4

LEMMA StartDead ==
  ASSUME Inv, NEW a \in Calls, Start(a)
  PROVE  DeadInv'
<1>1. program \in Requests /\ program' = program
  BY DEF Inv, TypeInv, Start
<1>2. Parameters(program) \subseteq Elements(program.inputs) /\ Constants(program) \subseteq Elements(program.inputs)
  BY <1>1, RequestAssumption DEF Parameters, Constants, Elements
<1>3. CASE Matches(a) /\ DenseReady(a)
  <2>1. values' = [v \in Values(program) |->
                 IF v \in Parameters(program)
                   THEN a[CHOOSE i \in DOMAIN a : program.inputs[i] = v]
                   ELSE IF v \in Constants(program) THEN resident[v] ELSE None]
    BY <1>3 DEF Start
  <2>2. \A v \in Values(program) \ Elements(program.inputs) : values'[v] = None
    BY <1>2, <2>1
  <2> QED BY <1>1, <2>2 DEF DeadInv, NoneDead, Values
<1>4. CASE ~(Matches(a) /\ DenseReady(a))
  BY <1>4 DEF Start, Ended, DeadInv
<1> QED BY <1>3, <1>4

LEMMA NextDead == Inv /\ DeadInv /\ [Next]_vars => DeadInv'
<1> SUFFICES ASSUME Inv, DeadInv, [Next]_vars PROVE DeadInv'
  OBVIOUS
<1>1. program' = program
  BY DEF Next, Create, Start, ExecuteKernel, AliasStep, KernelStep, Throws, Finish, vars
<1>2. Timely(program)' = Timely(program)
  BY <1>1 DEF Timely, Steps, Inputs, Outputs, Needed
<1>3. CASE ~ Timely(program)
  BY <1>2, <1>3 DEF DeadInv
<1>4. CASE Timely(program) /\ UNCHANGED vars
  <2>1. Values(program)' = Values(program) /\ Needed(program, pc)' = Needed(program, pc)
    BY <1>4 DEF vars, Values, Needed, Inputs, Steps
  <2> QED BY <1>2, <1>4, <2>1 DEF DeadInv, NoneDead, vars
<1>5. CASE Create \/ Throws \/ Finish \/ \E a \in Calls : ExecuteKernel(a)
  <2>1. status' # "running"
    BY <1>5 DEF Create, Throws, Finish, ExecuteKernel, Ended
  <2> QED BY <2>1 DEF DeadInv
<1>6. CASE Timely(program) /\ Next
  BY <1>5, <1>6, AliasStepDead, KernelStepDead, StartDead DEF Next
<1> QED BY <1>3, <1>4, <1>6

(* Between two steps a running call holds memory for nothing but arguments, *)
(* constants and what it still needs, of every program whose releases are   *)
(* those that the planner promises (LoweringWellFormed).                   *)
THEOREM DeadValuesAreReleased == Spec /\ []LoweringWellFormed => []DeadValuesReleased
<1>1. Init => DeadInv
  BY DEF Init, Untouched, DeadInv
<1>2. Spec => []DeadInv
  BY <1>1, NextDead, Invariance, PTL DEF Spec
<1>3. DeadInv /\ LoweringWellFormed => DeadValuesReleased
  BY DEF DeadInv, NoneDead, LoweringWellFormed, DeadValuesReleased
<1> QED BY <1>2, <1>3, PTL
=============================================================================
