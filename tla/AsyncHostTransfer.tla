-------------------------- MODULE AsyncHostTransfer --------------------------
(***************************************************************************)
(* One PJRT async host-to-device transfer manager                          *)
(* (src/plugin/async_h2d.zig), the runtime buffers it fills                *)
(* (src/runtime/buffer.zig, buffer_storage.zig), the MLX staging transfers *)
(* behind them (src/backend/mlx_metal/api.cc), and the PJRT events that    *)
(* copy a buffer's readiness (src/plugin/buffer.zig).                      *)
(*                                                                         *)
(* The transfers share the plugin with no lock of their own: a host calls  *)
(* one manager from one thread at a time, and every call is one step.      *)
(***************************************************************************)
EXTENDS Naturals, FiniteSets

CONSTANTS
  Indices,        \* the buffers of the manager
  Size,           \* chunks in each buffer
  Bytes,          \* what a chunk may be written with
  Uninit,         \* what malloc leaves in a chunk
  ReadyEvents     \* PJRT events made by PJRT_Buffer_ReadyEvent

ASSUME TransferAssumption ==
  /\ IsFiniteSet(Indices)
  /\ Size \in Nat \ {0}
  /\ Uninit \notin Bytes

VARIABLES
  manager,        \* "open" until PJRT_AsyncHostToDeviceTransferManager_Destroy
  completed,      \* TransferManager.completed
  retrieved,      \* TransferManager.retrieved
  written,        \* TransferManager.written
  transfer,       \* the backend transfers: staging owned, finished, destroyed
  memory,         \* contents of the allocation of each staging transfer
  frees,          \* how often each allocation was freed
  buffer,         \* the runtime buffers
  bytes_in_use,   \* MemoryStats.bytes_in_use, in chunks
  ready_event     \* the PJRT events over copies of a buffer's readiness

managerVars == <<manager, completed, retrieved, written>>
backendVars == <<transfer, memory, frees>>
vars == <<managerVars, backendVars, buffer, bytes_in_use, ready_event>>

Chunks == 0 .. Size - 1
Readiness == {"pending", "ready", "failed"}

Buffer ==
  [state : {"live", "deleted", "freed"}, readiness : Readiness,
   storage : BOOLEAN, accounted : {0, Size}]

Transfer == [staging : BOOLEAN, finished : BOOLEAN, destroyed : BOOLEAN]

NoEvent == [of |-> "none", readiness |-> "none", callback |-> "none"]

(* create and initPendingBackendTransfer                                   *)
Init ==
  /\ manager = "open"
  /\ completed = [i \in Indices |-> FALSE]
  /\ retrieved = [i \in Indices |-> FALSE]
  /\ written = [i \in Indices |-> 0]
  /\ transfer = [i \in Indices |-> [staging |-> TRUE, finished |-> FALSE, destroyed |-> FALSE]]
  /\ memory = [i \in Indices |-> [k \in Chunks |-> Uninit]]
  /\ frees = [i \in Indices |-> 0]
  /\ buffer = [i \in Indices |->
       [state |-> "live", readiness |-> "pending", storage |-> FALSE, accounted |-> 0]]
  /\ bytes_in_use = 0
  /\ ready_event = [v \in ReadyEvents |-> NoEvent]

----------------------------------------------------------------------------
(* Buffer readiness and storage, as operators on a buffer record.          *)

(* Mutant: the last completion wins.                                       *)
MarkReadyAlways(b) == [b EXCEPT !.readiness = "ready"]

markReady(b) ==
  [b EXCEPT !.readiness = IF @ = "pending" THEN "ready" ELSE @]

failReadiness(b) == [b EXCEPT !.readiness = "failed"]

(* Mutant: a second release would return the bytes again.                 *)
ReleaseKeepsAccount(b) == [b EXCEPT !.storage = FALSE]
(* Storage.release: the accounted bytes go, then the backend buffer.       *)
releaseStorage(b) == [b EXCEPT !.storage = FALSE, !.accounted = 0]

ReleaseUnaccounted(b) == Size  \* mutant: releases what was never accounted
released(b) == b.accounted

(* markDeleted                                                             *)
deletedBuffer(b) == failReadiness([releaseStorage(b) EXCEPT !.state = "deleted"])

(* Storage.replace of a live buffer                                        *)
installed(b) == [b EXCEPT !.storage = TRUE, !.accounted = Size]

----------------------------------------------------------------------------
(* The backend transfer.                                                   *)

WritableForever(i) == TRUE  \* mutant: a finished transfer still takes bytes

(* pjrtx_mlx_metal_async_h2d_write takes bytes until the transfer finishes. *)
Writable(i) == transfer[i].staging /\ ~transfer[i].finished

Contents(i, offset, n, x) ==
  [k \in Chunks |-> IF k \in offset .. offset + n - 1 THEN x ELSE memory[i][k]]

(* Mutant: the array takes the staging allocation and the transfer keeps it. *)
FinishedSharing(i) == [transfer EXCEPT ![i].finished = TRUE]

(* The staging allocation becomes the array's.                             *)
FinishedTransfer(i) == [transfer EXCEPT ![i].finished = TRUE, ![i].staging = FALSE]

(* pjrtx_mlx_metal_async_h2d_destroy frees the staging it still owns.      *)
StagingFreed(i) == IF transfer[i].staging /\ ~transfer[i].finished THEN 1 ELSE 0

(* finishBuffer fails: the buffer is failed whatever its readiness was.    *)
FailFinish(i) ==
  /\ buffer' = [buffer EXCEPT ![i] = failReadiness(@)]
  /\ UNCHANGED <<completed, bytes_in_use>>

(* The backend fails before or after it took the staging allocation; when  *)
(* after, the array is destroyed and its allocation with it.               *)
BackendFails(i) ==
  /\ \/ UNCHANGED <<transfer, frees>>
     \/ /\ Writable(i)
        /\ transfer' = FinishedTransfer(i)
        /\ frees' = [frees EXCEPT ![i] = @ + 1]
  /\ FailFinish(i)

(* The buffer was deleted meanwhile: the new backend buffer is destroyed.  *)
InstallRefused(i) ==
  /\ Writable(i) /\ buffer[i].state = "deleted"
  /\ transfer' = FinishedTransfer(i)
  /\ frees' = [frees EXCEPT ![i] = @ + 1]
  /\ FailFinish(i)

Install(i) ==
  /\ Writable(i) /\ buffer[i].state = "live"
  /\ transfer' = FinishedTransfer(i)
  /\ buffer' = [buffer EXCEPT ![i] = markReady(installed(@))]
  /\ bytes_in_use' = bytes_in_use - released(buffer[i]) + Size
  /\ completed' = [completed EXCEPT ![i] = TRUE]
  /\ UNCHANGED frees

(* finishBuffer                                                            *)
finishBuffer(i) ==
  IF completed[i]
    THEN FailFinish(i) /\ UNCHANGED <<transfer, frees>>
    ELSE BackendFails(i) \/ InstallRefused(i) \/ Install(i)

(* finishIfComplete                                                        *)
finishIfComplete(i, w) ==
  IF w < Size
    THEN FailFinish(i) /\ UNCHANGED <<transfer, frees>>
    ELSE finishBuffer(i)

----------------------------------------------------------------------------
(* The calls of the PJRT host.                                             *)

HighWater(old, end) == IF end > old THEN end ELSE old

(* TransferData of n chunks at an offset.  No chunk, no backend write; a   *)
(* transfer that refuses the bytes fails the call and nothing else.        *)
TransferData(i, offset, n, x, is_last) ==
  /\ manager = "open" /\ offset + n <= Size
  /\ n = 0 \/ Writable(i)
  /\ memory' = [memory EXCEPT ![i] = Contents(i, offset, n, x)]
  /\ LET w == IF n = 0 THEN written[i] ELSE HighWater(written[i], offset + n) IN
       /\ written' = [written EXCEPT ![i] = w]
       /\ IF is_last THEN finishIfComplete(i, w)
                     ELSE UNCHANGED <<transfer, frees, buffer, completed, bytes_in_use>>
  /\ UNCHANGED <<manager, retrieved, ready_event>>

(* TransferLiteral writes every chunk and finishes.                        *)
TransferLiteral(i, x) ==
  /\ manager = "open" /\ Writable(i)
  /\ memory' = [memory EXCEPT ![i] = Contents(i, 0, Size, x)]
  /\ written' = [written EXCEPT ![i] = Size]
  /\ finishBuffer(i)
  /\ UNCHANGED <<manager, retrieved, ready_event>>

SetBufferError(i) ==
  /\ manager = "open"
  /\ buffer' = [buffer EXCEPT ![i] = failReadiness(@)]
  /\ UNCHANGED <<managerVars, backendVars, bytes_in_use, ready_event>>

(* The host takes each buffer once.                                        *)
RetrieveBuffer(i) ==
  /\ manager = "open" /\ ~retrieved[i]
  /\ retrieved' = [retrieved EXCEPT ![i] = TRUE]
  /\ UNCHANGED <<manager, completed, written, backendVars, buffer, bytes_in_use, ready_event>>

(* The allocation of an array goes with its backend buffer.                *)
Freed(i) == IF buffer[i].storage THEN 1 ELSE 0

DeleteBuffer(i) ==
  /\ retrieved[i] /\ buffer[i].state # "freed"
  /\ buffer' = [buffer EXCEPT ![i] = deletedBuffer(@)]
  /\ bytes_in_use' = bytes_in_use - released(buffer[i])
  /\ frees' = [frees EXCEPT ![i] = @ + Freed(i)]
  /\ UNCHANGED <<managerVars, transfer, memory, ready_event>>

(* The manager points to its buffers, so that the host destroys one only   *)
(* when the manager has no more to do with it.                             *)
DestroyBuffer(i) ==
  /\ retrieved[i] /\ buffer[i].state # "freed"
  /\ completed[i] \/ manager = "destroyed"
  /\ buffer' = [buffer EXCEPT ![i] = [releaseStorage(@) EXCEPT !.state = "freed"]]
  /\ bytes_in_use' = bytes_in_use - released(buffer[i])
  /\ frees' = [frees EXCEPT ![i] = @ + Freed(i)]
  /\ UNCHANGED <<managerVars, transfer, memory, ready_event>>

Unfinished == {i \in Indices : ~completed[i]}
Unretrieved == {i \in Indices : ~retrieved[i]}

(* Mutant: only the buffers that the manager keeps are failed.             *)
FailUnretrieved ==
  [i \in Indices |->
     IF i \in Unretrieved THEN [releaseStorage(failReadiness(buffer[i])) EXCEPT !.state = "freed"]
                          ELSE buffer[i]]

(* A manager fails every buffer it did not complete and keeps none.        *)
AbandonedBuffers ==
  [i \in Indices |->
     LET b == IF i \in Unfinished THEN failReadiness(buffer[i]) ELSE buffer[i]
     IN  IF i \in Unretrieved THEN [releaseStorage(b) EXCEPT !.state = "freed"] ELSE b]

(* TransferManager.deinit.  The backend transfers of completed buffers are *)
(* left as they are.                                                       *)
DestroyManager ==
  /\ manager = "open"
  /\ manager' = "destroyed"
  /\ buffer' = AbandonedBuffers
  /\ transfer' = [i \in Indices |->
       IF i \in Unfinished THEN [transfer[i] EXCEPT !.staging = FALSE, !.destroyed = TRUE]
                           ELSE transfer[i]]
  /\ frees' = [i \in Indices |->
       frees[i] + (IF i \in Unfinished THEN StagingFreed(i) ELSE 0)
                + (IF i \in Unretrieved THEN Freed(i) ELSE 0)]
  /\ bytes_in_use' = bytes_in_use - Size * Cardinality({i \in Unretrieved : buffer[i].accounted # 0})
  /\ UNCHANGED <<completed, retrieved, written, memory, ready_event>>

(* PJRT_Buffer_ReadyEvent copies the readiness the buffer has now.         *)
ReadyEvent(v, i) ==
  /\ ready_event[v] = NoEvent
  /\ retrieved[i] /\ buffer[i].state # "freed"
  /\ ready_event' =
       [ready_event EXCEPT ![v] = [of |-> i, readiness |-> buffer[i].readiness, callback |-> "none"]]
  /\ UNCHANGED <<managerVars, backendVars, buffer, bytes_in_use>>

OnReady(v) ==
  /\ ready_event[v] # NoEvent /\ ready_event[v].callback = "none"
  /\ ready_event' = [ready_event EXCEPT ![v].callback =
       IF ready_event[v].readiness = "pending" THEN "waiting" ELSE "called"]
  /\ UNCHANGED <<managerVars, backendVars, buffer, bytes_in_use>>

(* Event.deinit calls back what still waits.                               *)
DestroyEvent(v) ==
  /\ ready_event[v] # NoEvent
  /\ ready_event' = [ready_event EXCEPT ![v] = NoEvent]
  /\ UNCHANGED <<managerVars, backendVars, buffer, bytes_in_use>>

Next ==
  \/ DestroyManager
  \/ \E i \in Indices :
       \/ \E offset, n \in 0 .. Size, x \in Bytes, last \in BOOLEAN :
            TransferData(i, offset, n, x, last)
       \/ \E x \in Bytes : TransferLiteral(i, x)
       \/ SetBufferError(i)
       \/ RetrieveBuffer(i)
       \/ DeleteBuffer(i)
       \/ DestroyBuffer(i)
       \/ \E v \in ReadyEvents : ReadyEvent(v, i)
  \/ \E v \in ReadyEvents : OnReady(v) \/ DestroyEvent(v)

(* A host destroys every manager it creates.                               *)
Fairness == WF_vars(DestroyManager)

Spec == Init /\ [][Next]_vars /\ Fairness

----------------------------------------------------------------------------
(* Properties.                                                             *)

TypeOK ==
  /\ manager \in {"open", "destroyed"}
  /\ completed \in [Indices -> BOOLEAN]
  /\ retrieved \in [Indices -> BOOLEAN]
  /\ written \in [Indices -> 0 .. Size]
  /\ transfer \in [Indices -> Transfer]
  /\ memory \in [Indices -> [Chunks -> Bytes \cup {Uninit}]]
  /\ frees \in [Indices -> Nat]
  /\ buffer \in [Indices -> Buffer]
  /\ bytes_in_use \in Nat
  /\ ready_event \in [ReadyEvents ->
       {NoEvent} \cup [of : Indices, readiness : Readiness, callback : {"none", "waiting", "called"}]]

(* A buffer that lets the host read it has a backend buffer to read, and   *)
(* one without a backend buffer is not accounted.                          *)
ReadyIsBacked ==
  \A i \in Indices :
    /\ buffer[i].state = "live" /\ buffer[i].readiness = "ready" => buffer[i].storage
    /\ buffer[i].accounted = IF buffer[i].storage THEN Size ELSE 0

(* Each staging allocation belongs to its transfer, or to the array of the *)
(* buffer it became, or was freed, once: whatever was deleted, failed or   *)
(* destroyed in between, it is neither freed twice nor lost.               *)
AllocationOwnedOnce ==
  \A i \in Indices :
    (IF transfer[i].staging THEN 1 ELSE 0) + (IF buffer[i].storage THEN 1 ELSE 0) + frees[i] = 1

(* Memory statistics count exactly the buffers that hold device memory.    *)
BytesExact == bytes_in_use = Size * Cardinality({i \in Indices : buffer[i].storage})

(* What a host was told is ready does not change under it: no later write  *)
(* of the manager reaches the memory of a ready buffer.                    *)
ReadyContentsStable ==
  [][\A i \in Indices : buffer[i].readiness = "ready" => memory'[i] = memory[i]]_vars

(* An error that the host set, a deletion, or a failed transfer is never   *)
(* covered up by a transfer that completes later, and no buffer becomes    *)
(* pending again.                                                          *)
ReadinessMonotonic ==
  [][\A i \in Indices :
       /\ buffer[i].readiness = "failed" => buffer'[i].readiness = "failed"
       /\ buffer[i].readiness = "ready" => buffer'[i].readiness # "pending"]_vars

(* No buffer a host retrieved stays pending: the manager completes it or   *)
(* fails it when it is destroyed.                                          *)
BuffersResolve ==
  \A i \in Indices : buffer[i].readiness = "pending" ~> buffer[i].readiness # "pending"

(* async_h2d.zig's message for a transfer "completed before full buffer    *)
(* was written": a buffer is ready only when each of its chunks was.       *)
ReadyIsWhole ==
  \A i \in Indices :
    buffer[i].readiness = "ready" => \A k \in Chunks : memory[i][k] # Uninit

(* README: pending events hold a callback until the runtime marks them     *)
(* ready or failed, and buffer-ready events mirror the buffer.             *)
CallbacksFollowBuffer ==
  \A v \in ReadyEvents :
    ready_event[v].callback = "waiting" => buffer[ready_event[v].of].readiness = "pending"
=============================================================================
