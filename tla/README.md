# PjRTx in TLA+

PjRTx is a PJRT plugin, written in Zig and C++, that runs StableHLO programs on
Apple GPUs through MLX and Metal. A host (JAX, or any PJRT client) calls it
through a C table of functions from as many threads as it likes. This project
models the part of the plugin where those calls share state: the cache of
compiled executables, the loaded executables over it, the execution of a
program with its donations, the readiness events, and the asynchronous
transfers; and the backend that runs a compiled executable in one of three ways: a
generated Metal program, with the planner that makes it; a compiled MLX program,
with its captured variant; or the schedule, operation by operation, over the
operations of the MLX bridge. TLC checks each model on a small
instance; TLAPS proves the most important properties for every instance.

Paths below are relative to the root of the repository.

## 1. The system

### Components, their state and their operations

| Component | Code | State | Operations |
|---|---|---|---|
| Executable cache | `src/runtime/executable_cache.zig`, `executable_residency.zig` | entries (backend executable, size, references, latency, last use), counters, budget; one mutex | look up, race winner, install, release, evict, trim, set budget, shut down |
| Loaded executables | `src/runtime/executable.zig`, `client_compile.zig`, `src/plugin/executable.zig` | plan, lease on the cache, deleted and released flags | compile, execute, delete, destroy, metadata |
| Execution | `src/plugin/execute.zig`, `src/runtime/execution_*.zig` | outputs of each device so far, donors so far | validate, dispatch per device, wrap outputs, assign, clean up, commit donations |
| Compiled programs | `src/backend/mlx_metal/execution_compiled_program.zig`, `api.cc` | the arrays behind backend buffers | execute with donation |
| Buffers | `src/runtime/buffer.zig`, `buffer_storage.zig` | live / deleted / donated, readiness event, storage, accounted bytes | create, delete, donate, take storage, replace storage, destroy |
| Memory statistics | `src/runtime/device_memory.zig` | counters per memory | retain, release, mirror of the cache |
| Events | `src/runtime/event.zig`, `src/plugin/events.zig` | pending / ready / failed, table of 256 callbacks | ready, fail, on-ready, chain, destroy |
| Async transfers | `src/plugin/async_h2d.zig`, `src/runtime/async_host_transfer.zig` | per buffer: bytes written, completed, retrieved, staging transfer | write, literal, set error, retrieve, destroy |
| Backend executable | `src/backend/mlx_metal/execution_call.zig` | what it was compiled to | execute: Metal program, compiled program or schedule |
| Argument capture | `src/backend/mlx_metal/executable_argument_capture.zig`, `execution_compiled_program.zig` | previous arguments by address, captured program; one mutex | match, capture, execute captured, reset |
| Program and schedule | `src/backend/mlx_metal/program*.zig`, `execution_schedule.zig`, `execution_node*.zig`, `execution_values.zig` | per call: a table of handles, borrowed or owned | build, liveness, run nodes and groups, release, hand over outputs |
| Metal programs | `src/backend/mlx_metal/metalcpp_api.cc` | registers that share device storage, resident constants, outputs | create or refuse, execute: alias, dispatch, release, collect |
| Planner of Metal programs | `executable_metal_graph_lowering*.zig`, `program_build.zig`, `metal_graph_dot.zig` | none | liveness, fusion, releases, updates in place |
| Operations on arrays | `src/backend/mlx_metal/api.cc` | none between calls | validate, compose MLX primitives, record type, shape and size |
| Compiler | `src/compiler/*.zig` | none between calls | import, plan, verify, memory plan |
| Other lowering, Metal text | `src/backend/mlx_metal/lowering*.zig`, `src/backend/metalcpp` | none | pure |
| ABI, handles, errors, trace, profiling | `src/plugin/pjrt_*.zig`, `errors.zig`, `trace.zig` | none | casts, formatting |
| `next/` | `next/pjrtx` | none shared with the plugin | a prototype of a later compiler over fixtures |

### How they interact

```
 PJRT host threads
   |  compile / execute / delete / destroy     |  transfer, ready event, callbacks
   v                                           v
 loaded executable --lease--> executable cache       transfer manager --> buffer --> event
   |  execute                    | compile, destroy        |                ^  chained
   v                             v                         v                |
 execution ----dispatch---> backend executable --plan   staging ----> backend buffer
   |  wrap, donate                                                         ^
   +--------------------------> buffers, completion event -----------------+

 backend executable --+-- Metal program (registers over shared storage)
                      +-- compiled program --+-- all the arguments
                      |                      +-- captured: the dynamic arguments only
                      +-- schedule: nodes and fusion groups over a table of values
```

* A compile asks the cache for its fingerprint. A hit takes a lease on the
  resident backend executable; a miss compiles *outside* the mutex and either
  installs what it made or, having lost a race, destroys it and takes the
  winner's.
* An execution first lets the cache evict idle executables to make room for its
  outputs, then dispatches, then wraps each backend output in a buffer. An output
  may adopt the storage of a donated argument. Donors become tombstones only
  after the last device succeeded.
* The readiness of an output is chained to the completion event of its device.
* A transfer manager owns the staging memory of each buffer until the transfer
  finishes, when the memory becomes the buffer's array without a copy.

The only locks are the mutex of the cache, one for captured arguments and
statistics in a backend executable, and one in an MLX program. Buffers, events
and memory statistics have none: one buffer or event is used from one thread at
a time, which PJRT leaves to the host.

### What is hard, and what correctness means

* **Cache** - threads interleave between critical sections; a backend executable
  must never be destroyed while leased, never leak and never have two owners;
  reference counts equal leases; the budget holds whenever leases permit;
  evictions take no more than needed and in the right order.
* **Loaded executables** - delete, destroy and execute on executables that share
  a cache entry; the plan that the shared backend executable points to.
* **Execution** - any step of any device may fail; every backend buffer keeps
  exactly one owner; donation is all or nothing; the host's veto.
* **Events** - each callback exactly once, whatever completes, fails or destroys
  the event; failure is final; bounded table; chains are never lost.
* **Transfers** - writes in any order, partial, repeated and too late; buffers
  deleted under the manager; a manager destroyed early; no one waits for ever.

* **Argument capture** - the state of the capture is read and written in three
  critical sections of a call, with the run outside them; a captured argument is
  known by the address of a buffer that the host may free.
* **Schedule** - a table with borrowed and owned handles; any call of any
  operation may fail; a value is released after its last use, not before, and
  the outputs change owner.
* **Metal programs** - registers share storage through views and updates in
  place, with the host's arguments and the executable's constants among them;
  each fused group releases for all its nodes; outputs outlive the call.
* **Operations** - each one renumbers axes between StableHLO's and MLX's
  conventions, checks its own request, and records beside its array what later
  operations trust.

PROJECT.json lists each hazard with its line and the properties that address it.

## 2. The modules

| Module | Models | Role |
|---|---|---|
| `LeasedHandles` | - | abstract specification: what a cache promises to its users |
| `ExecutableCache` | executable cache | implements `LeasedHandles` |
| `LoadedExecutables` | loaded executables, plans | extends `ExecutableCache`; every step of the cache happens on behalf of a loaded executable |
| `Execution` | execution, donation, buffers, backend arrays | |
| `RuntimeEvents` | events, PJRT events, chained readiness | |
| `AsyncHostTransfer` | transfer manager, staging transfers, buffers, ready events | |
| `MetalLowering` | planner of Metal programs | pure: from a plan to a create request |
| `MetalGraph` | creation and execution of Metal programs | runs what `MetalLowering` makes, and requests that it would not make |
| `ArgumentCapture` | compiled program and its captured variant, called by several threads | |
| `ScheduleExecution` | program, liveness, table of values, operations as sequences of backend calls, hand-over of outputs | |
| `BackendExecution` | `executeExecutable` | composes `MetalGraph`, `ArgumentCapture` and `ScheduleExecution`, the three ways to run an executable |
| `TensorOps` | operations of the MLX bridge | composes the primitives of `MlxArrays` and the kernels of `MetalKernels` |
| `MetalKernels` | the kernels that `api.cc` writes out itself | |
| `MlxArrays` | MLX, as `api.cc` uses it (external) | arrays with strides, and its primitives |
| `StableHLO` | - | reference: what each operation means |
| `LoadedExecutablesProofs` | | theorems about the cache and the loaded executables over it |
| `ScheduleExecutionProofs` | | theorems about the schedule: who owns a buffer, and what it holds |
| `MetalLoweringProofs` | | theorems about the planner, and the executor over its programs |
| `BackendExecutionProofs` | | theorems about argument capture and the composed backend |
| `ExecutionProofs`, `MetalGraphProofs`, `RuntimeEventsProofs`, `AsyncHostTransferProofs` | | theorems about one module each |
| `MC*` | | instances for TLC |

An operator below the comment "Mutant" is a plausible bug: a variant of the
definition that follows it, which no action uses. Replacing the definition by
it must break the property it is paired with in PROJECT.json; this shows that
the property depends on what the code does.

### ExecutableCache

`entry[f]` is the `Entry` of a fingerprint; `request[x]` is the progress of one
call of `acquireOrCompile`, whose `pc` names the next critical section:

| Action | Code |
|---|---|
| `RecordCompile` | `recordCompile` |
| `EntryForCompile` | `entryForCompile`: reuse, or go on to compile |
| `RetainRaceWinner` | the second look before compiling |
| `BackendCompile`, `BackendCompileFails` | `backend.compileExecutable`, unlocked |
| `TrimForConstants` | `trimForAllocation` of the resident constants |
| `LoseRace` | a winner is resident: destroy the own executable, take its lease |
| `AcquireResident` | install, then evict down to the budget |
| `Release` | `releaseCached`: the lease ends, then evict down to the budget |
| `AbandonCompile` | the compile fails after the cache had answered |
| `SetMaxResidentBytes`, `TrimForAllocation`, `Deinit` | the same |
| `MemoryRetain`, `MemoryRelease` | buffers of the rest of the program come and go |

Nothing in the code keeps live buffers within the capacity: `MaxBytesInUse` is a
bound of the model alone, and the runs give it a value above `Capacity`.

The loop of evictions is not a recursion: `Victims` is the set the loop removes,
namely each idle entry for which the budget is still exceeded after all idle
entries before it in the eviction order have gone. The clock `last_use` is
replaced by `unused`, the number of entries used since, which orders entries
alike and stays bounded. The last tie-break of the code, on the fingerprint's
bytes, is not needed: two entries are never used at the same instant.

### LoadedExecutables

`loaded[x]` is the executable and its PJRT handle; `plan_of[h]` is the compile
whose plan the backend executable `h` points to, or `FreedPlan`. A compile drives
the cache's own actions (`CacheLookup`, `CompileBackend`), Delete and Destroy
share `releaseResidentStorage`, and Execute is three steps, trim, dispatch and
return, so that every other thread can act in between.

### Execution

`array[h]` is the backend buffer `h`: `"live"`, `"reset"` (its array was donated
to a program that succeeded), `"moved"` (to one that failed) or `"free"`. `call`
is the execution in progress. A failure is an action beside each step
(`DispatchRefused`, `DispatchFails`, `WrapFails`, `WrapFailsAfterTake`,
`AssignFails`), and all of them end in `FailCall`, the `errdefer`s and
`ExecuteResults.cleanup` of the code together. `corrupted` records the two
outcomes after which nothing more can be said: the use of a moved-from array, and
a second destruction of a backend buffer. A state with `corrupted` has no next
one, so that no property is claimed of what follows.

### RuntimeEvents

`waiting[e]` holds the callbacks and the chained events of an event. Callbacks
run synchronously inside the call that completes the event, and a chained event
is completed by such a callback; so the whole cascade is one step, and `Reached`
is its extent, the least set closed under chaining.

`Events` are slots, the memory of an event. `Deinit` asks nothing of who waits on the
event or whom it waits for, as in the code (`execute.zig:207`, `:329`): an event
that others are still registered with may go, and a slot may be taken by another event
while an older registration still points to it. Completing what holds the
registration then resolves whatever the slot has by that time. `CleanupResults`
is what a failing call does to the completion events and outputs it has made, on
every device (`execute.zig:200-243`); it is reached from `ChainReadyAfter`, when the
table of the completion event is full, and from `ExecuteFails`, when a later device
fails. The completion events of today's program are never pending
(`execution_completion.zig:16`), so that stale registrations of chained
outputs are what the code would do and not what it does.

### AsyncHostTransfer

One manager, its buffers, and the staging allocation of each
(`transfer`, `memory`, `frees`). Sizes are counted in chunks, the unit in which
the host cuts a buffer. `ready_event[v]` is a PJRT event made from a buffer: a
copy of its readiness, as in the code.

### MetalLowering and MetalGraph

A plan is a list of instructions, told apart by what the planner does with them:
constants, views that keep the elements (`"alias"`), elementwise ones (`"map"`),
`"update"` (dynamic_update_slice) and `"dot"`. `MetalLowering!Lower` is the whole
way from a plan to a create request: `producer_node`, `last_use_node` and the
escape of values as `program_build.zig` computes them, the elementwise groups and
how `appendSplitFusionGroup` cuts them (`fusionSegmentAt`), the dots that share a
left operand (`dotGroupAt`), the values each step releases, and whether an
update takes over its operand's storage (`UpdatesInPlace`).

`MetalGraph` is the executor. `values` holds the storage of each register, `heap`
the content of each storage, so that registers which alias each other, the host's
arrays (`HostArrays`) and the resident constants (`resident`) share what the code
lets them share. The content of a storage is a term over the arguments: what a
kernel computed is told apart from everything else. `Throws` may end a call at
any point; what the kernels wrote until then stays.

| Action | Code |
|---|---|
| `Create` | `pjrtx_metalcpp_executable_program_create`, with every refusal |
| `Start` | `execute_executable_program` up to its loop: match, make dense, fill the registers |
| `AliasStep`, `KernelStep` | one turn of the loop, with the release that ends it |
| `Finish` | the outputs, moved out one by one |
| `Throws` | the handlers of exceptions |
| `ExecuteKernel` | `execute_generated_kernel` |

A request carries the meaning of each value and the value whose storage it shares
(`root`). No action reads them, except to give an argument the content it
stands for; the properties do. `WellFormed` says what a request must be for
the executor to be right, and `LoweringWellFormed` that the planner makes such
requests from every `SafePlan` among the plans that `verifyExecutablePlan` lets
through (`Verified`). `SafePlan` excludes what the planner is wrong about:

* an update takes over an operand that dies in its step whatever shares the
  operand's storage: a view of a constant, of an argument that was not donated,
  or of a value that is still needed is overwritten
  (`executable_metal_graph_slice.zig:131`), although `README.md:375` speaks of
  "immutable device arrays". Arguments and constants are damaged for later calls;
* a donated operand is updated in place even when later instructions read it;
* dots are grouped although one uses the result of another;
* an output listed twice; and, when the program writes the storage of one argument,
  an output that is a view of another: a later call can be given that array
  to write, while the host still holds the output.

### ArgumentCapture

`capture` is the `State` of one device with what its program holds,
`programs` the captured programs that live. Backend buffers have addresses:
`buffers[a]` is what the buffer at `a` holds, a generation that no other buffer
has and that nothing remembers, so that a buffer made at a freed address is told
from the former one. `caller[t]` is a call of `executeExecutable`; its `pc` names
the next critical section, and `used` what its run computed from.

| Action | Code |
|---|---|
| `HostCalls`, `CallReturns` | the call of the runtime; the arguments it consumed are gone |
| `MaybeCreateInitial` | `maybeCreateInitialArgumentCapturedProgram`, under the lock |
| `ExecuteCaptured` | `executeArgumentCapturedProgram`, which holds the lock while it runs |
| `ExecuteCompiled` | `executeCompiledProgram`, outside the lock |
| `UpdateCapture` | `updateArgumentCaptureState`, under the lock |
| `DestroyStates` | `destroyStates`, with no call in progress |
| `HostMakes`, `HostDestroys` | backend buffers that come and go (external) |

Memory may run out in two places, and the call then fails. In `MaybeCreateInitial`
(its last disjunct) it is before anything was stored, or at the copy of the
baseline, whose failure `state.reset` answers by destroying the new program. In
`UpdateCapture` it is at a baseline of another length or at the dynamic indices,
before a program is created; the baseline after it has the length of
the last one, so that its copy needs no memory
(`execution_compiled_program.zig:267`). Two defects of these paths are outside this state:
a failing `UpdateCapture` loses the outputs of its run (`execution_call.zig:111`),
and after a failing initial baseline the array of dynamic indices is freed twice, by
`state.reset` and by the `errdefer` (`execution_compiled_program.zig:127`, `:148`).

### ScheduleExecution

A plan has parameters and instructions whose kind stands for all the operations
that are run alike. `table` is `ValueBindings` (`handles`, `owned`) with the
memory the handles refer to; `misused` records a second destruction or a read of
freed memory. What an operation does is a sequence of steps (`OperationOf`), one
definition for each kind (`SortPair`, `WhileLoop`, `Barrier`, ...): calls of the
backend, which make buffers for the local variables of the Zig function, stores
into the table, and destructions of locals. `operation` is how far the operation of
the node at `position` is, and which buffer each of its locals has. Each step is a
step of the model:

| Action | Code |
|---|---|
| `BindArguments` | `ValueBindings.init` |
| `CallBackend` | one `buffer_mod.Opaque` call: it makes its buffers, or fails and the `errdefer`s in force undo what they are about (`Undone`) before the table goes |
| `DropLocal`, `KeepResult`, `BorrowConstant` | `destroy` of a local, `storeOwnedValueHandle`, `storeBorrowedValueHandle` |
| `FinishNode` | the end of a node: it releases what died in it or, at the end of a fusion group, in the group |
| `RunGroupKernel` | a group that has a generated kernel |
| `EvaluateOutputs` | the materialization boundaries, which a trace (`tracing`) does not evaluate |
| `HandOverOutput`, `ReturnOutputs` | `OutputBindings.clone`, one output at a time, and the end of the table |

A call that fails does so with an error: `buffer_handle.wrap` makes one of a null
pointer, and the early returns of `null` in the operations, for which Zig runs no
`errdefer`, come before they make a buffer, or are about attributes that a plan the
lowering accepts has. A call gets a buffer that does not exist; which one does not
matter, and the model takes any one.

`MeaningOf` is what each value means, a term over parameters and constants; no
action reads it but to give arguments their contents. It is well defined because
the instructions of a plan are in the order of their values, which
`verifyExecutablePlan` checks before a plan is compiled (`InOrder`, the assumption
`ScheduleOrder`).

`top_k` is modelled as the code has it (`TopK`) and is left out of the plans of
the passing run: its `errdefer` on the sorted values stays in force after they
were destroyed, so that a failing `argsort` destroys them twice
(`execution_node_indexing_order.zig:52`). The theorems about the schedule exclude it
by name (`NoTopK`). With it among the plans TLC finds
`BuffersAccounted` violated.

### BackendExecution

`way` is what the executable was compiled to. `ExecuteGraph`, `ExecuteProgram` and
`ExecuteSchedule` are the three branches of `executeExecutable`; each is the next
state of its module and leaves the others at rest. A run of it is therefore a run
of each component, which is what `BackendImplementsItsWays` proves and what lets
the theorems of the components carry over.

### TensorOps, MetalKernels, MlxArrays, StableHLO

One action per operation of `api.cc`: it makes one call, with operands and
attributes from `Calls`, and leaves what came back. A call is the whole function:
its checks (`slice_is_valid`, `gather_metadata_is_valid`, ...), the MLX primitives
in their order, and the buffer it returns with the type, dimensions and size it
records. Wherever the code returns a null pointer, or MLX throws and the code
makes a null pointer of it, the result is empty.

`MlxArrays` describes the library from its use: an array is a shape, a type, a
function from indices to elements, and strides, and each primitive is one
definition. The strides matter where `api.cc` reads them, at `as_strided`. An array that is
still to be computed has those of row-major order; one that has been (the result
of an earlier execution) has those of the view it is, so that operands come
transposed, cut or in row-major order. Elements
are small integers; a float type is one whose division is exact. Contents that
the code leaves undefined (reading outside an array) are `Garbage`. `MetalKernels`
translates the inline kernels: bit counts, the loop, triangular solve, Cholesky,
the attention mask, and the counters of the random generator, whose block function
is abstracted to its input (two blocks are equal when their counters are).
Triangular systems are tried on operands made from their solution, and an
attention weight is its score, so that integers suffice.

The bridge does not check everything. The shape of a reduction's result is
checked by the lowering (`lowering_reduction.zig`, `validReduceShape`), and `api.cc` records
what it is told; so `buffer_reduce` and `buffer_reduce_max_with_indices` have no such
guard, and the actions `Reduce` and `ArgMax` make only calls that the lowering
lets through (`validateReduce`). `buffer_dot_general` has both of its ways, told apart by the
attribute `tensordot`, the environment's switch `PJRTX_MLX_DOT_TENSORDOT` (on by default).

`StableHLO` is the reference: for each operation its typing (`Legal`) and its
meaning, written from the definition of the operation and not from `api.cc`.
`KnownDeviation` names the calls on which the two differ:

1. `dot_general` with a transposed right operand and a left operand of rank three
   or more contracts axis 1, unless `PJRTX_MLX_DOT_TENSORDOT` is off (`api.cc:3412`): the
   call is refused, or contracts the wrong axis when the sizes agree.
2. `scatter` takes `update_window_dims` for axes of the operand (`api.cc:3213`),
   and its single-axis form is right for rank one only.
3. Division of integers other than `U8` gives an array of floats recorded as
   integers; the remainder has the sign of the divisor.
4. Starts of dynamic slices and indices of gathers are not clamped.
5. A loop ends silently at `max_iterations`.
6. A tied window of the two-output maximum takes its last index.
7. `count_leading_zeros` counts 32 bits for `U16` and `U64`.
8. The state that `rng_bit_generator` returns is an array of four words of 32 bits,
   recorded as two of 64 (`KeptAsHalves`).
9. Windows of a computed operand that is not in row-major order are laid over the wrong
   elements when nothing is padded: the strides are those of the operand, but
   `as_strided` first makes it row-major (`api.cc:4403`, `api.cc:4536`; the run
   `tensor_window`). Padding makes a new array, and hides it.

## 3. What TLC checks

| Run | Question | Bounds | Distinct states |
|---|---|---|---|
| `loaded` | do interleaved compiles, executions, releases and evictions keep leases safe, does every dispatch find the right executable, does the cache implement `LeasedHandles`? | 2 executables, 3 programs (two of equal size, one without constants), 4 handles, live buffers of up to 3 bytes beside a capacity of 2 | 308 168 |
| `events` | is each callback called at most once, and does a failure, a clean-up or a reused slot leave any chained readiness behind? | 3 events, 3 callbacks, table of 2 | 54 591 |
| `async` | who owns the memory, what does the host see? | 2 buffers of 2 chunks, 2 contents, 1 event | 151 713 |
| `execution` | what is left after a failure anywhere? | 2 devices, 2 parameters, 2 outputs, 5 plans, 1 call, 2 deletions | 37 167 |
| `backend` | does each of the three ways compute what the plan means, with one owner for everything, whatever fails? | Metal: plans of 3 instructions (some of 2 or 4), 1 or 2 parameters, with and without fusion and donation, 11 odd requests, 2 calls, 15 storages, 6 host arrays. Capture: 6 executables of 1 or 2 parameters, 2 threads, 3 addresses. Schedule: every chain of 2 or 3 of 9 kinds of operation and 9 others, 1 or 2 parameters, 4 choices of outputs, any call of any operation failing | 863 064 |
| `tensor_ops` | does each operation compute what StableHLO says, and record it truly? | 33 operations, shapes up to rank 4 and side 4, three layouts, 1 379 calls | 1 380 |

Why these bounds are enough for the cases that matter:

* two executables race for one program, or one reuses or evicts what the other
  made; three programs make eviction choose by size and by disuse (the tie-break
  on latency in between is modelled but one latency is instantiated: two make
  the run several times longer); four handles never run out (two compiles, at most
  three residents, of which a compile holds none), so that no behaviour is lost
  for want of a name. The cache's own properties are checked here too, since the
  composed specification takes every step the cache has;
* three bytes of live buffers are beyond the capacity, so that nothing is left for the cache;
* three events make a chain of two and a third that fills a table or takes a slot that
  was freed;
* two chunks written in either order, twice, or one of them only;
* two devices make partial success possible; the plans have each kind of alias
  (none, identity, donation; by the plan or by returning a parameter), with and
  without a compiled program, and one that uses both parameters. One call
  suffices, because a buffer that an earlier call left deleted, donated or
  without storage is refused before anything happens (`Dispatchable`), and
  `MaxDeletes` makes such arguments.

* three instructions make an alias of a value, an update of it and a later use, or
  a fused pair and what consumes it; longer plans are there for groups of dots and
  chains of updates. A second call shows what the first did to arguments, constants
  and outputs. Storages never run out: two calls leave at most four outputs, beside
  six host arrays and the registers;
* three addresses are two arguments and a third to pass instead; two threads meet
  in each critical section; generations never run out, since a fresh one is taken
  among those that nothing remembers;
* chains of three operations put each kind before and after each other, with their
  operands dying, surviving or being outputs, and each call of each of them may fail;
  the longer ones are for tuples and for groups between other nodes. Sixteen backend buffers are more than the values
  and locals of any plan;
* `TensorOps` has no state between calls, so that one call each suffices; every
  attribute takes values on both sides of each check, and shapes have sides that
  differ, so that a wrong axis shows.

`CHECK_DEADLOCK FALSE` appears in the runs of `Execution`,
`AsyncHostTransfer`, `BackendExecution` and `TensorOps`: there a host may destroy
everything it has and stop, a program may be refused or have made its calls, a
walk ends, and one operation is all there is.

### The properties, by hazard

* Cache: `LeaseSafety` (a leased executable exists, and is the one of its
  program), `SoleOwner`, `StatsExact`, `BudgetRespected`,
  `EvictionOrder` (victims are idle, and the largest of those go first) and
  `EvictionNeeded` (a step evicts no more than its own demand asks for), both judged
  afterwards from the entries alone,
  `ImplementsLeases` (refinement).
* Loaded: `DispatchesResident`, `ReferencesExact`, `PressureTrimmed`.
* Events: `CalledOnce`, `WithinTable`, `ChainsResolve`, `FailureIsFinal`.
* Transfers: `ReadyIsBacked`, `AllocationOwnedOnce`, `BytesExact`,
  `ReadyContentsStable`, `ReadinessMonotonic`, `BuffersResolve`.
* Execution: `HandlesOwnedOnce`, `FailedCallLeavesNoOutput`, `OutputsUsable`,
  `DonationIsAtomic`, `TombstonesStay`.
* Metal programs: `RegistersCorrect` (what is computed and still needed is there),
  `OutputsCorrect`, `ArgumentsIntact` (whether a call returns or fails),
  `DeadValuesReleased`, `LoweringWellFormed`.
* Argument capture: `ProgramsAccounted` (one captured program, none after the
  executable, and nothing captured that a run consumes), `CaptureFaithful` (a call
  never computes from another live argument than its own).
* Schedule: `BuffersAccounted` (one owner for each backend buffer, whatever call
  failed), `BindingsFollowLiveness` (what is needed is there with its meaning,
  what is not is released).
* Operations: `ResultsMatchStableHLO`, `MetadataMatchesArrays`,
  `AcceptsWhatIsWellTyped`, but for the deviations above.

### Disagreements between the code and what is said of it

Six runs have a property that a document or a message states and the code does
not satisfy; TLC shows the shortest way there. Another was met in `Execution`:
when memory runs out after an identity output took its donor's storage, two
clean-ups destroy one backend buffer (`execution_outputs.zig:67`); the model ends
such a behaviour with `corrupted = "freed"`. That of `top_k` is described under
`ScheduleExecution`.

| Run | Property | What happens |
|---|---|---|
| `async_holes` | `ReadyIsWhole` | completion is decided by the highest byte written: writing only the last chunk completes a buffer |
| `ready_event` | `CallbacksFollowBuffer` | a ready event taken while a transfer is pending is a copy that nobody completes |
| `veto` | `VetoHonoured` | a compiled program consumes every donated parameter, those vetoed for this call included |
| `tensor_window` | `WindowsReduce` | an operand that has been computed and is transposed or cut: unpadded windows are laid over the wrong elements |
| `capture_stale` | `CapturedArgumentsMatch` | a new buffer at the address of a freed one is taken for it: the captured program runs with the old contents |
| `plan_lifetime` | `PlanOutlivesExecution` | the loaded executable that compiled a cached backend executable frees the plan the others still run |

### Fairness

* `AsyncHostTransfer` - weak fairness of `DestroyManager`: a host destroys every
  manager it creates. Nothing is assumed of writes, so that a host that stops
  writing is covered.
* The other modules state no liveness. For `RuntimeEvents` this is a matter of the code: a
  pending event may have no producer at all, a copy of a buffer's readiness
  (`plugin/buffer.zig:60`, the run `ready_event`) or an event the host made
  (`plugin/events.zig:114`). What the module shows instead is that resolution never gets
  lost: a callback is either called or held by one pending event (`CalledOnce`), and a
  chained readiness is held by another (`ChainsResolve`).

## 4. What is proved

`LoadedExecutablesProofs`, first of the cache, for every set of executables, programs, handles, budgets
and sizes (assumption `CacheAssumption`, which says only what kinds of values the
constants are):

* `LeasesAreSafe`, `RefCountsAreExact`, `OwnersAreSole` - `LeaseSafety`,
  `RefCountExact` and `SoleOwner` hold in every state.
* `CacheTypesAreCorrect`, `StatisticsAreExact`, `BudgetHolds` - `TypeOK`,
  `StatsExact` and `BudgetRespected`.
* `EvictionsAreInOrder`, `EvictionsAreNeeded` - the action properties `EvictionOrder` and
  `EvictionNeeded`.
* `CacheImplementsLeases` - `Spec` implies the specification of `LeasedHandles`
  under the mapping of `ExecutableCache!Promise`.

The inductive invariant `IInv` is the typing of the control state joined with
these three invariants; none of them is inductive alone. That `acquireResident`
may set the count to one instead of adding to it, for instance, needs that an
entry without a backend executable has no lease, and this follows from
`LeaseSafety` and `SoleOwner` together: a leased handle is alive, is its entry's,
and is therefore not `NoHandle`. Evictions keep the invariant because they only
take idle entries (`EvictKeeps`, `EvictInv`), and a new handle keeps it because it
is in no entry yet. One lemma treats each kind of step (`ReuseInv`, `CompileInv`,
`AcquireInv`, `ReleaseInv`, `TrimInv`, ...), and `NextInv` combines them. This part
never uses the values of the counters, so that eviction is safe whatever the
statistics say.

The accounting is proved on top of it, with `AccountInv`: the types of the counters,
`Account` (they are the sums over the resident entries), the published statistics,
`BudgetRespected`, and `UseOrder`. The last is the strengthening the order of evictions needs: the
ages order the resident entries totally, because every use makes its entry
younger than all others, so that the order of eviction has no ties and "the entries before
this one" is a definite set. The prover has no induction over a set that it can
instantiate; `SetInduction` states it over a set of good sets in place of an
operator, from `NumberInduction`, and gives what a sum over a set is when one
element is taken out or changed (`BytesOfIsSumOver`, `BytesStep`, `BytesRemove`,
`BytesSplit`). `VictimsAre` then says what an eviction takes: a set of idle entries
closed under "goes before", whose last member was still needed to reach the target,
and all that is idle when the target is not reached even so. `EvictAccountInv` and
`EvictOrderly` follow from it alone; `AddAccount` and `TouchOrder` treat an entry that
is added or used, and a new entry is no victim of the trim that makes room for it
because its requester already counts. `BudgetHolds` is inductive only with the
sums. For the two theorems about evictions one lemma treats each section that evicts
(`TrimNeeded`, `AcquireNeeded`, `ReleaseNeeded`, `BudgetNeeded`) and says for which
target it does; `BudgetOrTrim` combines them.

Then of the loaded executables, under the same assumption and `LoadedAssumption` (an
execution's outputs have one of the sizes that are allocated):

* `LoadedExecutablesUseCache` - `LoadedSpec` implies `Spec`: composing the cache
  with its users adds no step that the cache does not have, so that its theorems
  carry over.
* `LoadedTypesAreCorrect`, `ExecutionsDispatchResident`, `ReferencesAreExact` - the
  invariants `LoadedTypeOK`, `DispatchesResident` and `ReferencesExact`.
* `PressureIsTrimmed` - the action property `PressureTrimmed`.

The invariant needed on top of the cache's, `LInv`, says of each executable that
its state agrees with its request to the cache (`Agrees`): one that is loaded and
not deleted holds the lease of its own fingerprint, one that is deleted holds
none, and only one that is not deleted executes. `StepKeepsLInv` reduces every
action to the records of the one executable that takes the step.
`PressureIsTrimmed` rests on the accounting of the cache: `TrimMakesRoom` says what a
trim to a target leaves, `RoomLeft` does the arithmetic of the saturating
subtractions by which the code finds the target. The proof corrected the
property. When live buffers alone exceed the capacity the target is zero and
the loop stops as soon as `resident_bytes` is zero, so that idle executables
without bytes of their own stay; the property says that what stays idle holds no
bytes, and no longer that nothing stays idle.

`RuntimeEventsProofs`, for every number of events and callbacks and every size of
the table (`EventAssumption`):

* `CallbacksAreCalledOnce`, `TableNeverOverflows`, `NoChainIsLost` - the
  invariants `CalledOnce`, `WithinTable`, `ChainsResolve`.
* `FailuresAreFinal` - the action property `FailureIsFinal`.

The invariant adds to them that an accepted callback waits at exactly one event
or was called (`CallbackInv`), that only pending events have anything waiting,
and that an empty slot is not chained. The cascade is
handled once, in `ResolvedInvariant`, from the closure of `Reached` under
chaining (`ReachedClosed`): all completions, failures and destructions are
instances of it, the clean-up of a call included, which takes the slots of outputs
along.

`AsyncHostTransferProofs`, for every number of buffers and events, every size and
every set of contents (`TransferAssumption`):

* `TransfersAreTyped`, `AllocationsAreOwnedOnce`, `ReadyBuffersAreBacked`,
  `AccountingIsExact` - the invariants `TypeOK`, `AllocationOwnedOnce`,
  `ReadyIsBacked`, `BytesExact`.
* `ReadyContentsAreStable`, `ReadinessIsMonotonic` - the action properties.

`Sound(t, b, f)` states all that holds of one transfer, its buffer and its freed
allocation; besides the invariants it says that a finished transfer has no
staging left and that a ready buffer's transfer is finished, which is what keeps
later writes away. Every action but the manager's end touches one index, so that
`StepKeepsSound` does the accounting for all of them; `AbandonKeepsSound` does it
for the set of buffers that the manager destroys.

`MetalGraphProofs`, for every set of requests, every function the kernels compute,
every storage and number of calls (`MetalAssumption`, and `RequestAssumption`, which
says that a request's indices are numbers and that a kernel on its own has the one
step the code makes for it):

* `TypeCorrect`, `RegistersStayCorrect`, `OutputsStayCorrect`, `ArgumentsStayIntact` -
  four invariants of the executor. The last three are about programs that are
  `WellFormed`; that the planner's are is `PlannerIsRight`, below.
* `DeadValuesAreReleased` - `Spec` and `[]LoweringWellFormed` imply
  `[]DeadValuesReleased`: the executor releases what dies, as long as the requests
  it gets name it. The hypothesis is an invariant of the planner's requests (`PlannerIsRight`);
  what it says of a plan without dead code is `Timely`, each step releases all
  that it uses for the last time. It needs only the
  types of the executor: what a step fills are its outputs, and its releases name those of
  them that nothing will use (`ReleaseLeavesNoneDead`).

None of them is inductive. `Registers` adds what a running call must know of its
storage: two registers in one storage have one root, when that root is written in
place (`SharedByRoot`); an array of the host is reached only from the parameter it
came in by, a resident constant only from its own value, and an output that the host
already holds from no root that is written (`RootsOwn`); the inputs are still in their
registers, the donated ones in arrays given away (`InputsKept`). `HeldInv` is what
makes the second execution safe: an output in an array of the host is in one that was
given away, so that no later argument is that array, unless the program writes no
argument at all. `SharedRegisters` treats aliases and updates in place,
`FreshRegisters` new storage, `ReleaseKeepsRegisters` the releases,
`StartRegisters` the registers a call starts with; the lemmas of the actions
combine them.

`MetalLoweringProofs`, for every verified plan, of any length, with any fusion options:

* `PlannerIsRight` - the invariant `LoweringWellFormed`. Its hypothesis, `Planned`,
  says what the module of requests is for: a request that claims to be safe or compact
  is `Lower(plan)` for a `Verified` plan, and kernels compute their nodes
  (`RunKernel`). The instance of the run `backend` is made so; TLC evaluates
  `PlansVerified` for its plans.
* `PlannedReleasesAreTimely`, `PlannedExecutionIsRight` - what was proved of the executor
  under hypotheses about its requests, without these: in the planner's programs
  no dead value keeps its register, and a safe plan's outputs have its meaning
  and spare the arguments, in whatever order executions succeed and fail.

The planner is recursive over the plan (`LoweredSteps`), so is the meaning of a value,
the kernel of a step and the storage a value shares. `LoweredExists`, `MeaningIs`,
`KernelFunctionMeans` and `RootIs` show that the functions exist, from
`NumberInduction`. `Covers` is what is proved along the recursion: the steps stand for
runs of nodes, in order, each node in one of them but for the constants, and each step
`StepFits` its run: it reads what its nodes use and do not make, it writes all that
is used after them, it releases only the dead. `NodeFits`, `FusedFits`, `GroupFits` and
`DeadGroupCovers` show it of the four kinds of step, `CoversJoin` puts them together, and
`PlanCovered` is the result. `LoweredAccepted`, `LoweredScheduled`, `LoweredTimely`,
`LoweredMeaning` and `LoweredRooted` follow, of which `LoweredScheduled` needs a
`SafePlan` and `LoweredTimely` a plan without dead code, the others neither: the executor accepts every lowered plan, and its steps compute what the plan means.
The part where the planner can be wrong is `LoweredExclusive`, and its argument is
`StorageChain`: a value in the storage of an operand that an update takes over is that
operand, or made by the update or later, or an operand that was taken over before, which is
dead. It goes by induction on the sum of the two values, up the chain of
updates from whichever is the later. The proof corrected `SafePlan`, whose last part spoke of the
donated parameters and not of those that are written.

`BackendExecutionProofs`, first of argument capture, for every executable, any number of threads, addresses and
generations (`CaptureAssumption`: a policy has numbers, and the parameters it names
exist):

* `CapturedProgramsAccounted`, `CaptureIsFaithful` - the invariants
  `ProgramsAccounted` and `CaptureFaithful`.

`CaptureInv` joins them with `CaptureTyped` and `CallerInv`. The latter says of each
call that its arguments are live buffers until it returns, that no other call has
one of them where it donates it, and what it used. `Accounted` is the invariant of
the programs; its last part needs that an initial capture never takes a donated
parameter (`InitialDynamic`) and a later one only takes what was not consumed.
`GoneInv` says that after `DestroyStates` nothing runs. A buffer that is made never
equals a remembered one (`UsedRemembered`, `CapturedRemembered`), which is why
`CaptureFaithful` survives `HostMakes`; destroying one only takes values away
(`LosingKeepsSound`, shared by `HostDestroys` and `CallReturns`).

Then of the composed backend, under the assumptions of its components and
`BackendAssumption` (there is something to run in each way):

* `BackendImplementsItsWays` - `BackendSpec` implies the specifications of the three
  components.
* `BackendGraphCorrect`, `BackendCaptureCorrect`, `BackendPlannerIsRight`,
  `BackendReleasesDead`, `BackendBuffersAccounted`, `BackendBindingsFaithful`,
  `BackendTypesAreCorrect` - their invariants therefore hold of the composed backend (the
  two about the planner under `Planned`, as above, and the last three under `NoTopK`), which
  is what the run `backend` checks.

`ScheduleExecutionProofs`, for every plan, of any length, in which no operation is a
`top_k` (`NoTopK`; the plans of the run `backend` satisfy it, and with a `top_k` the
first is false):

* `BuffersAreAccounted`, `ScheduleTypesAreCorrect` - the invariants
  `BuffersAccounted` and `ScheduleTypeOK` of the schedule.

The assumption about plans, `ScheduleAssumption`, is what the lowering accepts
(`WellTyped`): the number of operands and results each kind needs, and a tuple that a
"get" reads. That a value has one producer, before all that read it, is an assumption of
its own (`ScheduleOrder`), because ownership does not depend on it: these two do not
cite it.

`WalkInv` is the inductive invariant. `Balanced(t, l, o)` relates the buffers that
exist to the table, the locals and the outputs: each buffer is the caller's or has
exactly one owner among them. `Bound` adds that a handle which the table does not own
is the caller's or was handed over, so that to read it is safe. Neither says
why an operation may fail anywhere; for this `Disciplined(steps, H)` says of a sequence of
steps that `H[j]` are the locals that have a buffer before step `j`: a call
takes locals that are in `H[j]`, and undoes all of them; a drop and a store take
one away; at the end none is left. There is one lemma for each kind of
operation (`SortPairDisciplined`, `WhileDisciplined`, `BarrierDisciplined`, the last for
any number of operands), and
`OperationDisciplined` combines them. This is the place where `top_k` fails: its
undo sets name a local that was dropped. `HeldAt` then says that the locals which have a buffer
are those of the step the operation is at. `StoreIs`, `KeepAccounted`,
`DropAccounted`, `GainAccounted`, `CloneAccounted`, `ReleaseAccounted` and
`DeinitAccounted` treat the moves of ownership over any table, and the lemmas of
the actions combine them.

And, for the same plans, under `ScheduleOrder`:

* `BindingsAreFaithful` - the invariant `BindingsFollowLiveness`: what was computed and
  is read by a node ahead, or is an output, is bound to a buffer that holds what the
  value means; what the table still owns was not read last before the current
  fusion group; the outputs returned are what the plan means.

Its proof has three parts. The first is about plans alone. `MeaningOf` is a recursive function,
and the library's induction takes an operator, so `MeaningExists` is proved from
`NumberInduction` over the set of numbers of nodes up to which a function that satisfies the equation
exists (`MeaningBegins`, `MeaningExtends`); it needs that operands come from earlier
nodes, the element of a "get" included (`OperandsAreEarlier`). `ResultMeaning` and
`KernelMeans` follow: an instruction, or the generated kernel of a whole group, makes from
operands with their meaning a result with its own. As `Disciplined` says which locals each
step of an operation finds held, `Meant(steps, C)` says what they hold, `C[j]` before
step `j`, and that what is kept in a slot is that slot's meaning;
`OperationMeant` combines the lemmas of the kinds. `OperationStores` says that
an operation stores exactly its node's results, and `GroupRuns` that a fusion group
is a run of consecutive nodes, the same from whichever of them it is taken.

The second part is `Faithful`: what is bound, held by a local or handed over holds
what it means, and the caller's buffers hold what they did. It is inductive
beside `WalkInv`, since no call writes a buffer that remains (`SameMemory`, shown for each
operation on the table by `StoreMemory`, `DestroyMemory`, `DeinitMemory`,
`WithBuffersMemory`) and a new buffer is one that nothing is bound to.

The third is `Lively`, which is stronger than the property in the middle of a
node: what the steps of the current operation stored already counts as made
(`Made`), and a value that is read ahead is bound (`Bounded`); `Dropped` is the other
direction. The step that matters is the end of a node. Inside a group nothing is released; at its
last node all that died in any of its nodes is, and `ReleasedOrAhead` says that what remains is read
after the group or by nobody. `FinishNodeKeeps` needs from `GroupGoesOn` that the
next node's group does not begin before the release, and `RunGroupKernelKeeps`
that a kernel's group has one value that leaves it (`OneOutput`).

`ExecutionProofs`, for every plan and any number of devices, parameters, outputs,
buffers and calls (`ExecutionAssumption`, which says what kinds of values the
constants are, and that an output may only alias a donated parameter of its plan):

* `ExecutionIsTyped`, `BackendBuffersAreOwnedOnce`, `FailuresLeaveNothing`,
  `ReturnedOutputsAreUsable` - the invariants of `Execution`.
* `DonationsAreAtomic`, `TombstonesRemain` - its action properties.

`IInv` is these invariants and what relates a call in progress to the buffers
around it. `OwnedOnce` says that the places which can own a backend buffer - runtime
buffers and the outputs of the backend that are not wrapped yet - never share one
and own every live one. `NewBuffers` says that what the call made is exactly
what was not there before it, so that the failure paths, which destroy what the
call made, leave what they found; `DonorsInv` that the arguments to donate are
distinct from all other arguments and live until the commit. `UsableInv` follows the arrays:
an output that shares its donor's storage is usable only as long as
nothing consumed that storage, which a vetoed donation would. Ownership moves
in three ways only, and a lemma treats each (`Releasing`, `Handing`, `Moving`);
`Failing` treats the failures of all the stages of a call at once.

Only model-checked:

* `TensorOps`: recursive definitions over data, compared with a reference.
* `BuffersResolve`: liveness under fairness is beyond the prover.

## 5. What is not modelled, and why

* Compiler, the other lowering, Metal text: pure translations; what they compute is
  textual, or a property of floating numbers.
* Of the operations: complex numbers, FFT, floating unary functions, the uniform and
  normal generators of MLX (and `rng_bit_generator` with a state of 32 bits), views
  as another type, and `gather_axis`, which nothing calls. The environment-only MSL
  path of binary operations. Rounding and infinities: elements are integers.
* Of the schedule: the regions of reductions and scatters, which are run as single
  operations; of `while`, how the counted loop is recognised (any other is refused) and
  the other places its limit and its step may come from.
* Of argument capture: several devices, whose states are independent; the profile.
* Of Metal programs: the text of the kernels, profiling, and the options that change
  only when the host waits for the device.
* The fingerprint: a model value. That different programs have different ones is
  a matter of hashing.
* Allocation failures in metadata, messages and traces; texts of errors and who
  owns them.
* Lost updates of the unlocked memory statistics, which leave `bytes_in_use` wrong.
  Of the cache only `EvictionNeeded` and `PressureTrimmed` read it, and they speak of
  the value the code reads.
* A host that breaks PJRT's rules: two threads on one buffer or event, deletion
  of an executable that it is executing, destruction of a buffer the manager
  still fills. The guards of the corresponding actions name the rule.
* `next/`: no shared state and no concurrency.

## 6. Plan

Done, in this order: the cache with its abstract specification and proofs; events
and proofs; transfers and proofs; execution and proofs; loaded executables over the cache
and proofs; Metal programs, their planner and proofs of both; the operations of
the bridge against StableHLO; argument capture and proofs; the schedule; and the
composition of the three ways to run an executable, with proofs.

Next, in order of importance:

1. `Execution` over `BackendExecution`: the runtime's dispatch as a step of the backend, so
   that donated inputs, captures and outputs are the same buffers in both.
2. The memory plan of the compiler (`plan_memory.zig`) and the verification of
   aliases (`executable_plan_verify.zig`), if their definitions stay shorter than
   the code.
