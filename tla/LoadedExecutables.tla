-------------------------- MODULE LoadedExecutables --------------------------
(***************************************************************************)
(* The loaded executables of a client: PJRT_Client_Compile,                 *)
(* PJRT_LoadedExecutable_Execute, _Delete and _Destroy                      *)
(* (src/plugin/executable.zig, client.zig, execute.zig), the compiled       *)
(* executable each owns (src/runtime/executable.zig, client_compile.zig)    *)
(* and the compiler plan that a backend executable reads when it runs       *)
(* (src/backend/mlx_metal/executable.zig), composed with the cache that     *)
(* they share.                                                             *)
(*                                                                         *)
(* Threads compile and execute at once; a host deletes or destroys a loaded *)
(* executable only when none of its own executions is in progress.         *)
(***************************************************************************)
EXTENDS ExecutableCache

CONSTANTS
  OutputBytes,    \* outputByteSize of the executables, one of the AllocSizes
  FreedPlan       \* a plan that has been freed

ASSUME LoadedAssumption ==
  /\ OutputBytes \in AllocSizes
  /\ FreedPlan \notin Executables

VARIABLES
  loaded,    \* the CompiledExecutable of each compile, and PJRT's handle on it
  plan_of    \* whose plan a backend executable points to

loadedVars == <<vars, loaded, plan_of>>

NotLoaded ==
  [state |-> "none", fingerprint |-> AnyFingerprint, deleted |-> FALSE,
   resident_released |-> FALSE, executing |-> "no"]

LoadedInit ==
  /\ Init
  /\ loaded = [x \in Executables |-> NotLoaded]
  /\ plan_of = [h \in Handles |-> FreedPlan]

----------------------------------------------------------------------------
(* Compilation.                                                            *)

(* The compile has its plan, and enters the cache.                         *)
Compile(x, f) ==
  /\ loaded[x].state = "none"
  /\ RecordCompile(x, f)
  /\ loaded' = [loaded EXCEPT ![x] = [NotLoaded EXCEPT !.state = "compiling", !.fingerprint = f]]
  /\ UNCHANGED plan_of

CacheLookup(x) ==
  /\ \/ EntryForCompile(x) \/ RetainRaceWinner(x) \/ TrimForConstants(x)
     \/ LoseRace(x) \/ AcquireResident(x)
  /\ UNCHANGED <<loaded, plan_of>>

(* The backend executable borrows the plan of the compile that makes it.   *)
CompileBackend(x, h, latency) ==
  /\ BackendCompile(x, h, latency)
  /\ plan_of' = [plan_of EXCEPT ![h] = x]
  /\ UNCHANGED loaded

(* deinit: the plan goes, whoever points to it.                            *)
Unload(x) ==
  /\ loaded' = [loaded EXCEPT ![x] = NotLoaded]
  /\ plan_of' = [h \in Handles |-> IF plan_of[h] = x THEN FreedPlan ELSE plan_of[h]]

CompileFails(x) == (AbandonCompile(x) \/ BackendCompileFails(x)) /\ Unload(x)

CreateExecutable(x) ==
  /\ loaded[x].state = "compiling" /\ request[x].pc = "held"
  /\ loaded' = [loaded EXCEPT ![x].state = "loaded"]
  /\ UNCHANGED <<vars, plan_of>>

(* No memory for PJRT's metadata.                                          *)
CreateExecutableFails(x) ==
  /\ loaded[x].state = "compiling" /\ Release(x)
  /\ Unload(x)

----------------------------------------------------------------------------
(* Deletion.                                                               *)

(* Mutant: a second release ends a lease that somebody else holds.         *)
ReleaseTwice(x) ==
  IF request[x].pc = "held" THEN Release(x)
  ELSE LET f == loaded[x].fingerprint
           e == [entry EXCEPT ![f].ref_count = IF @ # 0 THEN @ - 1 ELSE 0] IN
         /\ EvictAndPublish(e, resident_bytes, resident_entries, max_resident_bytes)
         /\ alive' = alive \ EvictedHandles
         /\ UNCHANGED <<known, max_resident_bytes, bytes_in_use, request>>

(* CompiledExecutable.releaseResidentStorage                               *)
releaseResidentStorage(x) == IF loaded[x].resident_released THEN UNCHANGED vars ELSE Release(x)

(* Mutant: the handle is marked, and its storage kept until Destroy.       *)
DeleteMarksOnly(x) ==
  /\ loaded[x].state = "loaded" /\ loaded[x].executing = "no"
  /\ loaded' = [loaded EXCEPT ![x].deleted = TRUE]
  /\ UNCHANGED <<vars, plan_of>>

Delete(x) ==
  /\ loaded[x].state = "loaded" /\ loaded[x].executing = "no"
  /\ releaseResidentStorage(x)
  /\ loaded' = [loaded EXCEPT ![x].deleted = TRUE, ![x].resident_released = TRUE]
  /\ UNCHANGED plan_of

Destroy(x) ==
  /\ loaded[x].state = "loaded" /\ loaded[x].executing = "no"
  /\ releaseResidentStorage(x)
  /\ Unload(x)

----------------------------------------------------------------------------
(* Execution: on each device in turn, room is made for the outputs and the *)
(* backend executable runs.                                                *)

Executing(x, step) == loaded' = [loaded EXCEPT ![x].executing = step] /\ UNCHANGED plan_of

Execute(x) ==
  /\ loaded[x].state = "loaded" /\ loaded[x].executing = "no" /\ ~loaded[x].deleted
  /\ Executing(x, "trim")
  /\ UNCHANGED vars

TrimForOutputs(x) ==
  /\ loaded[x].executing = "trim"
  /\ TrimForAllocation(OutputBytes)
  /\ Executing(x, "dispatch")

(* The backend returns, and there may be another device.                   *)
Dispatched(x) ==
  /\ loaded[x].executing = "dispatch"
  /\ \E step \in {"trim", "no"} : Executing(x, step)
  /\ UNCHANGED vars

(* An argument is refused before the trim.                                 *)
ExecuteFails(x) ==
  /\ loaded[x].executing = "trim"
  /\ Executing(x, "no")
  /\ UNCHANGED vars

----------------------------------------------------------------------------
(* The rest of the client.                                                 *)

ClientStep ==
  /\ \/ \E limit \in Limits : SetMaxResidentBytes(limit)
     \/ \E n \in AllocSizes : TrimForAllocation(n) \/ MemoryRetain(n) \/ MemoryRelease(n)
     \/ (\A x \in Executables : loaded[x].state = "none") /\ Deinit
  /\ UNCHANGED <<loaded, plan_of>>

LoadedNext ==
  \/ \E x \in Executables :
       \/ \E f \in Fingerprints : Compile(x, f)
       \/ CacheLookup(x)
       \/ \E h \in Handles \ alive, latency \in Latencies : CompileBackend(x, h, latency)
       \/ CompileFails(x) \/ CreateExecutable(x) \/ CreateExecutableFails(x)
       \/ Delete(x) \/ Destroy(x)
       \/ Execute(x) \/ TrimForOutputs(x) \/ Dispatched(x) \/ ExecuteFails(x)
  \/ ClientStep

LoadedSpec == LoadedInit /\ [][LoadedNext]_loadedVars

----------------------------------------------------------------------------
(* Properties.                                                             *)

LoadedTypeOK ==
  /\ TypeOK
  /\ loaded \in [Executables ->
       [state : {"none", "compiling", "loaded"}, fingerprint : Fingerprints, deleted : BOOLEAN,
        resident_released : BOOLEAN, executing : {"no", "trim", "dispatch"}]]
  /\ plan_of \in [Handles -> Executables \cup {FreedPlan}]
  /\ \A x \in Executables :
       /\ request[x].pc = "none" <=> loaded[x].state = "none" \/ loaded[x].deleted
       /\ loaded[x].resident_released <=> loaded[x].deleted
       /\ loaded[x].deleted => loaded[x].executing = "no"

(* An execution dispatches a backend executable that exists, and the one   *)
(* its own fingerprint has in the cache: no eviction, its own trim for     *)
(* outputs included, and no deletion of another loaded executable of the   *)
(* same program takes it away while the call runs.                         *)
DispatchesResident ==
  \A x \in Executables : loaded[x].executing # "no" =>
    /\ request[x].handle \in alive
    /\ request[x].handle = entry[loaded[x].fingerprint].handle

(* README: Delete releases the reference at once and is idempotent: a cache *)
(* entry has exactly as many references as there are executables of its     *)
(* program not yet deleted, so that the last Delete makes it reclaimable    *)
(* and a Destroy after Delete takes no other executable's reference.       *)
Referencing(f) ==
  {x \in Executables : loaded[x].fingerprint = f /\
     (\/ loaded[x].state = "loaded" /\ ~loaded[x].deleted
      \/ loaded[x].state = "compiling" /\ request[x].pc = "held")}

ReferencesExact ==
  \A f \in Fingerprints : entry[f].ref_count = Cardinality(Referencing(f))

(* README: runtime trims idle resident executables before an execution     *)
(* exceeds the capacity: when it dispatches without room for its outputs,  *)
(* everything resident that holds bytes is in use.                         *)
PressureTrimmed ==
  [][\A x \in Executables :
       loaded[x].executing = "trim" /\ loaded'[x].executing = "dispatch" =>
         \/ Capacity = 0
         \/ bytes_in_use + OutputBytes + resident_bytes' <= Capacity
         \/ \A f \in Idle(entry') : entry'[f].bytes = 0]_loadedVars

(* README: cache hits reuse the cached backend executable handle: while an *)
(* executable dispatches it, the plan it reads has not been freed.         *)
PlanOutlivesExecution ==
  \A x \in Executables :
    loaded[x].executing = "dispatch" => plan_of[request[x].handle] # FreedPlan
=============================================================================
