------------------------------ MODULE Execution ------------------------------
(***************************************************************************)
(* PJRT_LoadedExecutable_Execute (src/plugin/execute.zig) from the          *)
(* validation of its arguments to the commit of its donations: the dispatch *)
(* on each device in turn (src/runtime/execution_call.zig), the backend     *)
(* program that consumes donated inputs                                     *)
(* (src/backend/mlx_metal/execution_compiled_program.zig, api.cc), and the  *)
(* wrapping of its outputs (src/runtime/execution_outputs.zig,              *)
(* execution_donation.zig), any of which may fail.                          *)
(*                                                                         *)
(* Outputs, parameters, devices, buffers and backend buffers are numbered.  *)
(* A host makes no other call on these buffers while an execution runs.     *)
(***************************************************************************)
EXTENDS Naturals, FiniteSets

CONSTANTS
  NumDevices,             \* of the executable
  NumParams, NumOutputs,  \* of its program
  Plans,                  \* executable plans that may be compiled
  NumBuffers,             \* runtime buffers, and backend buffers, there is room for
  HostBuffers,            \* the buffers the host made, with the device of each
  MaxCalls,               \* bound on the calls of Execute
  MaxDeletes              \* bound on the buffers the host deletes or destroys

Devices == 1 .. NumDevices
Params == 1 .. NumParams
Outputs == 1 .. NumOutputs
Buffers == 1 .. NumBuffers
Handles == 1 .. NumBuffers

ASSUME ExecutionAssumption ==
  /\ {NumDevices, NumParams, NumOutputs, NumBuffers} \subseteq Nat \ {0}
  /\ {MaxCalls, MaxDeletes} \subseteq Nat
  /\ DOMAIN HostBuffers \subseteq Buffers
  /\ \A b \in DOMAIN HostBuffers : HostBuffers[b] \in Devices
  /\ \A plan \in Plans :
       /\ plan.donated \subseteq Params
       /\ plan.output_aliases \subseteq
            [output : Outputs, parameter : plan.donated, kind : {"identity", "donation"}]
       /\ plan.output_ids \in [Outputs -> Params \cup {0}]
       /\ plan.compiled_program \in BOOLEAN

None == 0

VARIABLES
  plan,        \* the plan of the loaded executable
  buffer,      \* runtime buffers, free or not
  array,       \* backend buffers: "free", "live", "reset" or "moved" from
  call,        \* the call of Execute in progress, or the last one
  calls,       \* how many there were
  deletes,     \* how many buffers the host deleted or destroyed
  corrupted    \* "moved": a moved-from array was used, "freed": one was freed twice

vars == <<plan, buffer, array, call, calls, deletes, corrupted>>

FreeBuffer == [state |-> "free", readiness |-> "failed", storage |-> None, device |-> None]
(* Mutant: an output waits for an event that nobody will complete.         *)
PendingBuffer(h, d) == [state |-> "live", readiness |-> "pending", storage |-> h, device |-> d]
(* Buffer.initBackendHandle: a buffer around a backend buffer is ready.    *)
LiveBuffer(h, d) == [state |-> "live", readiness |-> "ready", storage |-> h, device |-> d]

NoOutputs == [o \in Outputs |-> None]
Idle ==
  [pc |-> "idle", devices |-> {}, device |-> None, args |-> <<>>, keep |-> {},
   donors |-> {}, pending |-> NoOutputs, wrapped |-> NoOutputs,
   output_lists |-> [d \in Devices |-> NoOutputs], before |-> {}]

Init ==
  /\ plan \in Plans
  /\ buffer = [b \in Buffers |->
       IF b \in DOMAIN HostBuffers THEN LiveBuffer(b, HostBuffers[b]) ELSE FreeBuffer]
  /\ array = [h \in Handles |-> IF h \in DOMAIN HostBuffers THEN "live" ELSE "free"]
  /\ call = Idle
  /\ calls = 0
  /\ deletes = 0
  /\ corrupted = "no"

Least(S) == CHOOSE n \in S : \A m \in S : n <= m

FreeHandles == {h \in Handles : array[h] = "free"}
FreeBuffers == {b \in Buffers : buffer[b].state = "free"}
Held(f) == {f[o] : o \in {x \in Outputs : f[x] # None}}

(* The backend buffers in S are destroyed.                                 *)
Destroyed(S) == [h \in Handles |-> IF h \in S THEN "free" ELSE array[h]]

Storages(B) == {buffer[b].storage : b \in B} \ {None}

----------------------------------------------------------------------------
(* Aliases and donations of the plan.                                      *)

(* aliasForOutput: the first alias of the plan, or else the donated         *)
(* parameter that the output is; at most one.                              *)
aliasForOutput(o) ==
  LET aliases == {a \in plan.output_aliases : a.output = o}
      first == CHOOSE a \in aliases : TRUE IN
    IF aliases # {} THEN {[parameter |-> first.parameter, kind |-> first.kind]}
    ELSE {[parameter |-> p, kind |-> "identity"] : p \in {plan.output_ids[o]} \cap plan.donated}

FeedsNone(p) == FALSE  \* mutant: identity outputs are not excepted

parameterFeedsIdentityOutput(p) ==
  \/ \E a \in plan.output_aliases : a.parameter = p /\ a.kind = "identity"
  \/ \E o \in Outputs : plan.output_ids[o] = p

(* donatedProgramInputIndices does not ask for the host's veto.            *)
donatedProgramInputIndices ==
  IF plan.compiled_program
    THEN {p \in plan.donated : ~parameterFeedsIdentityOutput(p)}
    ELSE {}

(* donationAliases: a donated argument is no other argument of the call.   *)
NoDonorAliases(devices, args, keep) ==
  \A d, e \in devices, p \in plan.donated \ keep, q \in Params :
    <<d, p>> # <<e, q>> => args[d][p] # args[e][q]

----------------------------------------------------------------------------
(* Endings of a call.                                                      *)

CleanupOwnDevice == Held(call.output_lists[call.device])  \* mutant: one device only

(* ExecuteResults.cleanup: the outputs given to the host so far.           *)
AssignedOutputs == UNION {Held(call.output_lists[d]) : d \in call.devices}

(* The call fails in a state of the buffers b and the arrays a: the outputs *)
(* in doomed and those assigned for earlier devices are destroyed.         *)
FailCall(b, a, doomed) ==
  LET gone == doomed \cup AssignedOutputs
      storages == {b[x].storage : x \in gone} IN
    /\ buffer' = [x \in Buffers |-> IF x \in gone THEN FreeBuffer ELSE b[x]]
    /\ array' = [h \in Handles |-> IF h \in storages THEN "free" ELSE a[h]]
    /\ call' = [Idle EXCEPT !.pc = "failed", !.devices = call.devices, !.args = call.args,
                            !.keep = call.keep, !.before = call.before]
    /\ UNCHANGED <<plan, calls, deletes>>

----------------------------------------------------------------------------
(* The steps of a call.                                                    *)

Arguments == {call.args[call.device][p] : p \in Params}

(* Execute on the first n devices: a call that passes ExecuteValidation,   *)
(* for others change nothing.  Arguments on another device are left out:   *)
(* they make Dispatch refuse, which it may do anyway.                      *)
Execute(n, args, keep) ==
  /\ call.pc = "idle" /\ calls < MaxCalls
  /\ \A d \in 1 .. n, p \in Params : buffer[args[d][p]].device = d
  /\ NoDonorAliases(1 .. n, args, keep)
  /\ call' = [Idle EXCEPT !.pc = "dispatch", !.devices = 1 .. n, !.device = 1,
                          !.args = args, !.keep = keep, !.before = Buffers \ FreeBuffers]
  /\ calls' = calls + 1
  /\ UNCHANGED <<plan, buffer, array, deletes, corrupted>>

(* Mutant: the donors of the last device only.                             *)
DonorsOfDevice == {call.args[call.device][p] : p \in plan.donated \ call.keep}
(* DonationSet.record for each argument of the device                      *)
DonorsRecorded == call.donors \cup {call.args[call.device][p] : p \in plan.donated \ call.keep}

(* execution_call.execute and the backend's own check of its inputs.       *)
Dispatchable ==
  \A b \in Arguments :
    /\ buffer[b].state = "live" /\ buffer[b].readiness = "ready"
    /\ buffer[b].storage # None
    /\ array[buffer[b].storage] # "reset"

Input(p) == buffer[call.args[call.device][p]].storage
Consumed == {Input(p) : p \in donatedProgramInputIndices}

(* An input that was moved from, before or by this very call, is used.     *)
UsesMovedFrom ==
  \/ \E p \in Params : array[Input(p)] = "moved"
  \/ \E p, q \in Params : p < q /\ p \in donatedProgramInputIndices /\ Input(p) = Input(q)

(* Dispatch is refused, by the runtime or by the backend before it touched *)
(* the inputs.                                                             *)
DispatchRefused ==
  /\ call.pc = "dispatch"
  /\ FailCall(buffer, array, {})
  /\ UNCHANGED corrupted

(* The backend fails after it moved the donated inputs out of their        *)
(* buffers.                                                                *)
DispatchFails ==
  /\ call.pc = "dispatch" /\ Dispatchable
  /\ FailCall(buffer, [h \in Handles |-> IF h \in Consumed THEN "moved" ELSE array[h]], {})
  /\ corrupted' = IF UsesMovedFrom THEN "moved" ELSE "no"

(* The backend runs: each output has a new backend buffer, and the donated *)
(* inputs have no array any more.                                          *)
Dispatch ==
  /\ call.pc = "dispatch" /\ Dispatchable
  /\ \E f \in [Outputs -> FreeHandles] :
       /\ \A o, p \in Outputs : o < p => f[o] < f[p]
       /\ \A h \in FreeHandles \ Held(f) : \A o \in Outputs : f[o] < h
       /\ call' = [call EXCEPT !.pc = "wrap", !.pending = f, !.donors = DonorsRecorded]
       /\ array' = [h \in Handles |-> CASE h \in Consumed -> "reset"
                                        [] h \in Held(f) -> "live"
                                        [] OTHER -> array[h]]
  /\ corrupted' = IF UsesMovedFrom THEN "moved" ELSE "no"
  /\ UNCHANGED <<plan, buffer, calls, deletes>>

(* wrapBackendOutputs takes the outputs in order; an output that aliases a *)
(* donated parameter needs the storage of that argument.                   *)
NextOutput == Least({o \in Outputs : call.wrapped[o] = None})
AliasedArgument(a) == call.args[call.device][a.parameter]
DonorStorageGone(o) ==
  \E a \in aliasForOutput(o) : buffer[AliasedArgument(a)].storage = None
TakesFrom(o) == {AliasedArgument(a) : a \in {x \in aliasForOutput(o) : x.kind = "identity"}}

(* Mutant: the argument keeps a pointer to the storage it gave away.       *)
SharedStorage(o) == buffer
(* takeBackendStorageForDonationAlias                                      *)
WithoutStorage(o) ==
  [b \in Buffers |-> IF b \in TakesFrom(o) THEN [buffer[b] EXCEPT !.storage = None] ELSE buffer[b]]

(* takeOutputHandle and Buffer.initBackendHandle: an identity output       *)
(* destroys its own backend buffer and takes that of the argument.         *)
WrapOutput ==
  /\ call.pc = "wrap" /\ FreeBuffers # {}
  /\ LET o == NextOutput
         b == Least(FreeBuffers)
         own == call.pending[o]
         adopted == IF TakesFrom(o) = {} THEN own ELSE Least(Storages(TakesFrom(o))) IN
       /\ ~DonorStorageGone(o)
       /\ buffer' = [WithoutStorage(o) EXCEPT ![b] = LiveBuffer(adopted, call.device)]
       /\ array' = Destroyed({own} \ {adopted})
       /\ call' = [call EXCEPT !.pending[o] = None, !.wrapped[o] = b,
            !.pc = IF \A x \in Outputs \ {o} : call.wrapped[x] # None THEN "assign" ELSE "wrap"]
  /\ UNCHANGED <<plan, calls, deletes, corrupted>>

PendingHandles == Held(call.pending)

(* An output cannot be wrapped: its donor has no storage left, or memory   *)
(* is short before it took anything.                                       *)
WrapFails ==
  /\ call.pc = "wrap"
  /\ FailCall(buffer, Destroyed(PendingHandles), Held(call.wrapped))
  /\ UNCHANGED corrupted

(* Memory is short once an identity output took its donor's storage: that  *)
(* storage is destroyed, and the output's own backend buffer a second time. *)
WrapFailsAfterTake ==
  /\ call.pc = "wrap" /\ TakesFrom(NextOutput) # {} /\ ~DonorStorageGone(NextOutput)
  /\ FailCall(WithoutStorage(NextOutput),
              Destroyed(PendingHandles \cup Storages(TakesFrom(NextOutput))),
              Held(call.wrapped))
  /\ corrupted' = "freed"

(* assignDeviceOutputs; the outputs follow a completion event that is       *)
(* complete when the backend returns.                                      *)
AssignOutputs ==
  /\ call.pc = "assign"
  /\ call' = [call EXCEPT !.output_lists[call.device] = call.wrapped, !.wrapped = NoOutputs,
                          !.pc = IF call.device + 1 \in call.devices THEN "dispatch" ELSE "commit",
                          !.device = IF @ + 1 \in call.devices THEN @ + 1 ELSE @]
  /\ UNCHANGED <<plan, buffer, array, calls, deletes, corrupted>>

(* No memory for the completion event of the device.                       *)
AssignFails ==
  /\ call.pc = "assign"
  /\ FailCall(buffer, array, Held(call.wrapped))
  /\ UNCHANGED corrupted

(* Mutant: the readiness is forgotten.                                     *)
ReadyTombstone(b, state) == [buffer[b] EXCEPT !.state = state, !.storage = None]
(* A buffer leaves the live state: its storage and its readiness go.       *)
Tombstone(b, state) ==
  [buffer[b] EXCEPT !.state = state, !.readiness = "failed", !.storage = None]

(* DonationSet.commit                                                      *)
Commit ==
  /\ call.pc = "commit"
  /\ buffer' = [b \in Buffers |->
       IF b \in call.donors THEN Tombstone(b, "donated") ELSE buffer[b]]
  /\ array' = Destroyed(Storages(call.donors))
  /\ call' = [call EXCEPT !.pc = "done"]
  /\ UNCHANGED <<plan, calls, deletes, corrupted>>

Return ==
  /\ call.pc \in {"done", "failed"}
  /\ call' = Idle
  /\ UNCHANGED <<plan, buffer, array, calls, deletes, corrupted>>

----------------------------------------------------------------------------
(* The host's other calls on buffers, between executions.                  *)

DeleteBuffer(b) ==
  /\ call.pc = "idle" /\ deletes < MaxDeletes /\ buffer[b].state # "free"
  /\ buffer' = [buffer EXCEPT ![b] = Tombstone(b, "deleted")]
  /\ array' = Destroyed(Storages({b}))
  /\ deletes' = deletes + 1
  /\ UNCHANGED <<plan, call, calls, corrupted>>

DestroyBuffer(b) ==
  /\ call.pc = "idle" /\ deletes < MaxDeletes /\ buffer[b].state # "free"
  /\ buffer' = [buffer EXCEPT ![b] = FreeBuffer]
  /\ array' = Destroyed(Storages({b}))
  /\ deletes' = deletes + 1
  /\ UNCHANGED <<plan, call, calls, corrupted>>

Next ==
  /\ corrupted = "no"
  /\ \/ \E n \in Devices, keep \in SUBSET Params :
          \E args \in [1 .. n -> [Params -> Buffers \ FreeBuffers]] : Execute(n, args, keep)
     \/ DispatchRefused \/ DispatchFails \/ Dispatch
     \/ WrapOutput \/ WrapFails \/ WrapFailsAfterTake
     \/ AssignOutputs \/ AssignFails
     \/ Commit \/ Return
     \/ \E b \in Buffers : DeleteBuffer(b) \/ DestroyBuffer(b)

Spec == Init /\ [][Next]_vars

----------------------------------------------------------------------------
(* Properties.                                                             *)

TypeOK ==
  /\ plan \in Plans
  /\ buffer \in [Buffers -> [state : {"free", "live", "deleted", "donated"},
                             readiness : {"ready", "failed"},
                             storage : Handles \cup {None}, device : Devices \cup {None}]]
  /\ array \in [Handles -> {"free", "live", "reset", "moved"}]
  /\ call.pc \in {"idle", "dispatch", "wrap", "assign", "commit", "done", "failed"}
  /\ calls \in 0 .. MaxCalls /\ deletes \in 0 .. MaxDeletes
  /\ corrupted \in {"no", "moved", "freed"}

(* Every backend buffer that exists has exactly one owner, a runtime       *)
(* buffer or the outputs not wrapped yet, and nothing owns one that does   *)
(* not exist: wherever a call fails, no backend buffer leaks or is shared. *)
HandlesOwnedOnce ==
  LET owners == {<<"buffer", b>> : b \in {x \in Buffers : buffer[x].storage # None}}
                  \cup {<<"pending", o>> : o \in {x \in Outputs : call.pending[x] # None}}
      Owned(w) == IF w[1] = "buffer" THEN buffer[w[2]].storage ELSE call.pending[w[2]] IN
    /\ {Owned(w) : w \in owners} = Handles \ FreeHandles
    /\ Cardinality(owners) = Cardinality(Handles \ FreeHandles)

(* README: an execution that fails after partial results destroys them     *)
(* before it returns: whichever device failed, the host is left with the   *)
(* buffers it had and no other.                                            *)
FailedCallLeavesNoOutput == call.pc = "failed" => Buffers \ FreeBuffers = call.before

(* A call without a veto that succeeds returns, for every device, outputs   *)
(* that the host can read there, with a device array behind each.          *)
OutputsUsable ==
  call.pc = "done" /\ call.keep = {} =>
    \A d \in call.devices, o \in Outputs :
      LET b == call.output_lists[d][o] IN
        /\ b # None
        /\ buffer[b].state = "live" /\ buffer[b].readiness = "ready" /\ buffer[b].device = d
        /\ buffer[b].storage # None /\ array[buffer[b].storage] = "live"

(* Donation is all or nothing: buffers become donated only together, when  *)
(* every device of the call has succeeded, and then exactly the donated    *)
(* arguments that the host did not veto.                                   *)
DonationIsAtomic ==
  [][LET donated == {b \in Buffers : buffer[b].state # "donated" /\ buffer'[b].state = "donated"} IN
       donated # {} =>
         /\ \A d \in call.devices : NoOutputs # call.output_lists[d]
         /\ donated = {call.args[d][p] : d \in call.devices, p \in plan.donated \ call.keep}]_vars

(* A deleted or donated buffer is a failed tombstone without storage, and  *)
(* stays one until it is destroyed.                                        *)
TombstonesStay ==
  [][\A b \in Buffers :
       buffer[b].state \in {"deleted", "donated"} =>
         /\ buffer[b].storage = None /\ buffer[b].readiness = "failed"
         /\ buffer'[b].state \in {"deleted", "donated", "free"}]_vars

(* README: non_donatable_input_indices vetoes donation: after a successful *)
(* call, the arguments listed are live and have their device array.        *)
VetoHonoured ==
  call.pc = "done" =>
    \A d \in call.devices, p \in call.keep :
      LET b == call.args[d][p] IN
        buffer[b].state = "live" => buffer[b].storage # None /\ array[buffer[b].storage] = "live"
=============================================================================
