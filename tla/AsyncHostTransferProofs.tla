----------------------- MODULE AsyncHostTransferProofs -----------------------
(***************************************************************************)
(* Proofs about AsyncHostTransfer, for any number of buffers of any size,   *)
(* any contents and any number of ready events.                            *)
(***************************************************************************)
EXTENDS AsyncHostTransfer, FiniteSetTheorems, TLAPS

(* What holds of a transfer t, its buffer b and the number f of times its  *)
(* allocation was freed: the allocation is owned once, the accounting      *)
(* follows the storage, and a ready buffer's transfer takes no more bytes. *)
Sound(t, b, f) ==
  /\ t \in Transfer /\ b \in Buffer /\ f \in Nat
  /\ (IF t.staging THEN 1 ELSE 0) + (IF b.storage THEN 1 ELSE 0) + f = 1
  /\ b.accounted = IF b.storage THEN Size ELSE 0
  /\ b.state = "live" /\ b.readiness = "ready" => b.storage
  /\ t.finished => ~t.staging
  /\ b.readiness = "ready" => t.finished

Functions ==
  /\ transfer \in [Indices -> Transfer]
  /\ buffer \in [Indices -> Buffer]
  /\ frees \in [Indices -> Nat]

AllSound == Functions /\ \A i \in Indices : Sound(transfer[i], buffer[i], frees[i])

(* Types of what the host and the manager keep.                            *)
HostTyped ==
  /\ manager \in {"open", "destroyed"}
  /\ completed \in [Indices -> BOOLEAN]
  /\ retrieved \in [Indices -> BOOLEAN]
  /\ written \in [Indices -> 0 .. Size]
  /\ memory \in [Indices -> [Chunks -> Bytes \cup {Uninit}]]
  /\ ready_event \in [ReadyEvents ->
       {NoEvent} \cup [of : Indices, readiness : Readiness, callback : {"none", "waiting", "called"}]]

IInv == HostTyped /\ AllSound /\ BytesExact

USE TransferAssumption

----------------------------------------------------------------------------
(* The accounting.                                                         *)

Stored == {i \in Indices : buffer[i].storage}

LEMMA StoredFinite == IsFiniteSet(Stored) /\ Cardinality(Stored) \in Nat
<1>1. Stored \subseteq Indices  BY DEF Stored
<1> QED  BY <1>1, FS_Subset, FS_CardinalityType

(* Sizes add up: the only nonlinear facts of the proofs.                   *)
LEMMA SizeTimes ==
  ASSUME NEW m \in Nat, NEW n \in Nat
  PROVE  /\ Size * (m + 1) = Size * m + Size
         /\ n <= m => Size * (m - n) = Size * m - Size * n
         /\ Size * m \in Nat
OBVIOUS

(* A step of the buffer i alone that accounts for what it changes keeps    *)
(* all that is sound.                                                      *)
LEMMA StepKeepsSound ==
  ASSUME AllSound, BytesExact, NEW i \in Indices, NEW t, NEW b, NEW f,
         transfer' = [transfer EXCEPT ![i] = t],
         buffer' = [buffer EXCEPT ![i] = b],
         frees' = [frees EXCEPT ![i] = f],
         Sound(t, b, f),
         bytes_in_use' = bytes_in_use - buffer[i].accounted + b.accounted
  PROVE  AllSound' /\ BytesExact'
<1>1. AllSound'
  BY DEF AllSound, Functions, Sound
<1>2. /\ Sound(transfer[i], buffer[i], frees[i])
      /\ \A j \in Indices : buffer'[j] = IF j = i THEN b ELSE buffer[j]
  BY DEF AllSound, Functions
<1>3. IsFiniteSet(Stored) /\ Cardinality(Stored) \in Nat /\ bytes_in_use = Size * Cardinality(Stored)
  BY StoredFinite DEF BytesExact, Stored
<1>4. bytes_in_use' = Size * Cardinality(Stored')
  <2>1. CASE b.storage <=> buffer[i].storage
    <3>1. Stored' = Stored  BY <1>2, <2>1 DEF Stored
    <3>2. b.accounted = buffer[i].accounted /\ b.accounted \in Nat
      BY <1>2, <2>1 DEF Sound, Buffer
    <3> QED  BY <1>3, <3>1, <3>2, SizeTimes
  <2>2. CASE b.storage /\ ~buffer[i].storage
    <3>1. Stored' = Stored \cup {i} /\ i \notin Stored  BY <1>2, <2>2 DEF Stored
    <3>2. b.accounted = Size /\ buffer[i].accounted = 0
      BY <1>2, <2>2 DEF Sound
    <3>3. Cardinality(Stored') = Cardinality(Stored) + 1  BY <1>3, <3>1, FS_AddElement
    <3> QED  BY <1>3, <3>2, <3>3, SizeTimes
  <2>3. CASE ~b.storage /\ buffer[i].storage
    <3>1. Stored' = Stored \ {i} /\ i \in Stored  BY <1>2, <2>3 DEF Stored
    <3>2. b.accounted = 0 /\ buffer[i].accounted = Size
      BY <1>2, <2>3 DEF Sound
    <3>3. Cardinality(Stored') = Cardinality(Stored) - 1  BY <1>3, <3>1, FS_RemoveElement
    <3>4. Cardinality(Stored) >= 1
      BY <1>3, <3>1, FS_EmptySet
    <3>5. Size * (Cardinality(Stored) - 1) = Size * Cardinality(Stored) - Size * 1
      BY <1>3, <3>4, SizeTimes
    <3> QED  BY <1>3, <3>2, <3>3, <3>5
  <2> QED  BY <2>1, <2>2, <2>3
<1> QED  BY <1>1, <1>4 DEF BytesExact, Stored

----------------------------------------------------------------------------
(* Initially.                                                              *)

LEMMA InitInv == Init => IInv
<1> SUFFICES ASSUME Init PROVE IInv  OBVIOUS
<1>1. HostTyped
  BY DEF Init, HostTyped, Chunks
<1>2. AllSound
  BY DEF Init, AllSound, Functions, Sound, Transfer, Buffer, Readiness
<1>3. BytesExact
  <2>1. {i \in Indices : buffer[i].storage} = {}  BY DEF Init
  <2>2. Cardinality({i \in Indices : buffer[i].storage}) = 0  BY <2>1, FS_EmptySet
  <2>3. bytes_in_use = 0  BY DEF Init
  <2> QED  BY <2>2, <2>3, SizeTimes DEF BytesExact
<1> QED  BY <1>1, <1>2, <1>3 DEF IInv

----------------------------------------------------------------------------
(* The steps of one buffer.                                                *)

(* A transfer that owns its staging allocation is the only owner.          *)
LEMMA StagingOwns ==
  ASSUME NEW t, NEW b, NEW f, Sound(t, b, f), t.staging
  PROVE  ~b.storage /\ f = 0
BY DEF Sound

LEMMA FinishedFields ==
  ASSUME NEW t \in Transfer
  PROVE  LET u == [t EXCEPT !.finished = TRUE, !.staging = FALSE] IN
           u \in Transfer /\ u.finished /\ ~u.staging
BY DEF Transfer

LEMMA FailKeepsSound ==
  ASSUME AllSound, BytesExact, NEW i \in Indices,
         buffer' = [buffer EXCEPT ![i] = failReadiness(@)], bytes_in_use' = bytes_in_use,
         \/ UNCHANGED <<transfer, frees>>
         \/ /\ Writable(i)
            /\ transfer' = FinishedTransfer(i)
            /\ frees' = [frees EXCEPT ![i] = @ + 1]
  PROVE  AllSound' /\ BytesExact'
<1> DEFINE b == failReadiness(buffer[i])
<1>1. Functions /\ Sound(transfer[i], buffer[i], frees[i])  BY DEF AllSound
<1>2. /\ buffer' = [buffer EXCEPT ![i] = b]
      /\ bytes_in_use' = bytes_in_use - buffer[i].accounted + b.accounted
  <2>1. bytes_in_use \in Nat /\ buffer[i].accounted \in Nat
    BY <1>1, StoredFinite, SizeTimes DEF BytesExact, Stored, Sound, Buffer
  <2> QED  BY <1>1, <2>1 DEF Functions, failReadiness, Buffer
<1>3. CASE UNCHANGED <<transfer, frees>>
  <2>1. /\ transfer' = [transfer EXCEPT ![i] = transfer[i]]
        /\ frees' = [frees EXCEPT ![i] = frees[i]]
    BY <1>1, <1>3 DEF Functions
  <2>2. Sound(transfer[i], b, frees[i])
    BY <1>1 DEF Sound, failReadiness, Buffer, Readiness
  <2> HIDE DEF b
  <2> QED  BY <1>2, <2>1, <2>2, StepKeepsSound
<1>4. CASE /\ Writable(i)
           /\ transfer' = FinishedTransfer(i)
           /\ frees' = [frees EXCEPT ![i] = @ + 1]
  <2> DEFINE t == [transfer[i] EXCEPT !.finished = TRUE, !.staging = FALSE]
             f == frees[i] + 1
  <2>1. transfer' = [transfer EXCEPT ![i] = t] /\ frees' = [frees EXCEPT ![i] = f]
    BY <1>1, <1>4 DEF FinishedTransfer, Functions
  <2>2. Sound(t, b, f)
    <3>1. t \in Transfer /\ t.finished /\ ~t.staging
      BY <1>1, FinishedFields DEF Sound
    <3>2. /\ b \in Buffer /\ b.readiness = "failed"
          /\ b.storage = buffer[i].storage /\ b.accounted = buffer[i].accounted
      BY <1>1 DEF Sound, failReadiness, Buffer, Readiness
    <3>3. ~buffer[i].storage /\ f = 1
      BY <1>1, <1>4, StagingOwns DEF Writable
    <3>4. buffer[i].accounted = 0
      BY <1>1, <3>3 DEF Sound
    <3> HIDE DEF b, t
    <3> QED  BY <3>1, <3>2, <3>3, <3>4 DEF Sound
  <2> HIDE DEF b, t, f
  <2> QED  BY <1>2, <2>1, <2>2, StepKeepsSound
<1> QED  BY <1>3, <1>4

LEMMA InstallKeepsSound ==
  ASSUME AllSound, BytesExact, NEW i \in Indices, Install(i)
  PROVE  AllSound' /\ BytesExact'
<1> DEFINE b == markReady(installed(buffer[i]))
           t == [transfer[i] EXCEPT !.finished = TRUE, !.staging = FALSE]
<1>1. Functions /\ Sound(transfer[i], buffer[i], frees[i])  BY DEF AllSound
<1>2. /\ transfer' = [transfer EXCEPT ![i] = t]
      /\ buffer' = [buffer EXCEPT ![i] = b]
      /\ frees' = [frees EXCEPT ![i] = frees[i]]
  BY <1>1 DEF Install, FinishedTransfer, Functions
<1>3. b.accounted = Size /\ bytes_in_use' = bytes_in_use - buffer[i].accounted + b.accounted
  BY <1>1 DEF Install, released, markReady, installed, Functions, Buffer
<1>4. Sound(t, b, frees[i])
  <2>1. t \in Transfer /\ t.finished /\ ~t.staging
    BY <1>1, FinishedFields DEF Sound
  <2>2. b \in Buffer /\ b.storage /\ b.accounted = Size
    BY <1>1 DEF Sound, markReady, installed, Buffer, Readiness
  <2>3. frees[i] = 0
    BY <1>1, StagingOwns DEF Install, Writable
  <2> HIDE DEF b, t
  <2> QED  BY <2>1, <2>2, <2>3 DEF Sound
<1> HIDE DEF b, t
<1> QED  BY <1>2, <1>3, <1>4, StepKeepsSound

LEMMA FinishKeepsSound ==
  ASSUME AllSound, BytesExact, NEW i \in Indices, NEW w, finishIfComplete(i, w) \/ finishBuffer(i)
  PROVE  AllSound' /\ BytesExact'
BY FailKeepsSound, InstallKeepsSound
   DEF finishIfComplete, finishBuffer, FailFinish, BackendFails, InstallRefused

LEMMA FinishKeepsCompleted ==
  ASSUME completed \in [Indices -> BOOLEAN], NEW i \in Indices, NEW w,
         finishIfComplete(i, w) \/ finishBuffer(i)
  PROVE  completed' \in [Indices -> BOOLEAN]
BY DEF finishIfComplete, finishBuffer, FailFinish, BackendFails, InstallRefused, Install

(* A buffer that leaves the live state gives up its storage.               *)
LEMMA LeaveKeepsSound ==
  ASSUME AllSound, BytesExact, NEW i \in Indices, DeleteBuffer(i) \/ DestroyBuffer(i)
  PROVE  AllSound' /\ BytesExact'
<1>1. Functions /\ Sound(transfer[i], buffer[i], frees[i])  BY DEF AllSound
<1> DEFINE f == frees[i] + Freed(i)
<1>2. transfer' = [transfer EXCEPT ![i] = transfer[i]] /\ frees' = [frees EXCEPT ![i] = f]
  BY <1>1 DEF DeleteBuffer, DestroyBuffer, Functions
<1>3. PICK b : /\ b \in {deletedBuffer(buffer[i]), [releaseStorage(buffer[i]) EXCEPT !.state = "freed"]}
               /\ buffer' = [buffer EXCEPT ![i] = b]
  BY DEF DeleteBuffer, DestroyBuffer
<1>4. b.accounted = 0 /\ Sound(transfer[i], b, f)
  <2>1. /\ b \in Buffer /\ b.state # "live" /\ ~b.storage /\ b.accounted = 0
        /\ b.readiness \in {"failed", buffer[i].readiness}
    BY <1>1, <1>3 DEF Sound, deletedBuffer, failReadiness, releaseStorage, Buffer, Readiness
  <2>2. f \in Nat /\ f = frees[i] + IF buffer[i].storage THEN 1 ELSE 0
    BY <1>1 DEF Sound, Freed
  <2> HIDE DEF f
  <2>3. (IF transfer[i].staging THEN 1 ELSE 0) + f = 1
    BY <1>1, <2>2 DEF Sound
  <2> QED  BY <1>1, <2>1, <2>2, <2>3 DEF Sound
<1>5. bytes_in_use' = bytes_in_use - buffer[i].accounted + b.accounted
  <2>1. bytes_in_use \in Nat /\ buffer[i].accounted \in Nat
    BY <1>1, StoredFinite, SizeTimes DEF BytesExact, Stored, Sound, Buffer
  <2> QED  BY <1>4, <2>1 DEF DeleteBuffer, DestroyBuffer, released
<1> HIDE DEF f
<1> QED  BY <1>2, <1>3, <1>4, <1>5, StepKeepsSound

(* The manager goes, and with it everything it still owns.                 *)
LEMMA AbandonKeepsSound ==
  ASSUME AllSound, BytesExact, DestroyManager
  PROVE  AllSound' /\ BytesExact'
<1> DEFINE T == {i \in Unretrieved : buffer[i].accounted # 0}
<1>1. Functions /\ \A i \in Indices : Sound(transfer[i], buffer[i], frees[i])  BY DEF AllSound
<1>2. ASSUME NEW i \in Indices
      PROVE  /\ Sound(transfer'[i], buffer'[i], frees'[i])
             /\ buffer'[i].storage <=> buffer[i].storage /\ i \notin T
  <2>1. Sound(transfer[i], buffer[i], frees[i])  BY <1>1
  <2>2. transfer'[i] = IF i \in Unfinished THEN [transfer[i] EXCEPT !.staging = FALSE, !.destroyed = TRUE]
                                           ELSE transfer[i]
    BY DEF DestroyManager
  <2>3. /\ transfer'[i] \in Transfer /\ transfer'[i].finished = transfer[i].finished
        /\ transfer'[i].staging = (transfer[i].staging /\ i \notin Unfinished)
    BY <2>1, <2>2 DEF Sound, Transfer
  <2>4. /\ buffer'[i] \in Buffer
        /\ buffer'[i].readiness \in {"failed", buffer[i].readiness}
        /\ i \notin Unretrieved => /\ buffer'[i].state = buffer[i].state
                                   /\ buffer'[i].storage = buffer[i].storage
                                   /\ buffer'[i].accounted = buffer[i].accounted
        /\ i \in Unretrieved => /\ buffer'[i].state = "freed"
                                /\ ~buffer'[i].storage /\ buffer'[i].accounted = 0
    BY <2>1 DEF DestroyManager, AbandonedBuffers, failReadiness, releaseStorage, Sound, Buffer, Readiness
  <2>5. frees'[i] = frees[i]
          + (IF i \in Unfinished /\ transfer[i].staging /\ ~transfer[i].finished THEN 1 ELSE 0)
          + (IF i \in Unretrieved /\ buffer[i].storage THEN 1 ELSE 0)
    BY <2>1 DEF DestroyManager, StagingFreed, Freed, Sound
  <2>6. transfer[i].staging => ~transfer[i].finished  BY <2>1 DEF Sound
  <2>7. frees'[i] \in Nat
    BY <2>1, <2>5 DEF Sound
  <2>8. (IF transfer'[i].staging THEN 1 ELSE 0) + (IF buffer'[i].storage THEN 1 ELSE 0) + frees'[i] = 1
    <3>1. CASE transfer[i].staging
      <4>1. ~buffer[i].storage /\ frees[i] = 0 /\ ~transfer[i].finished
        BY <2>1, <2>6, <3>1, StagingOwns
      <4>2. ~buffer'[i].storage  BY <2>4, <4>1
      <4>3. frees'[i] = IF i \in Unfinished THEN 1 ELSE 0  BY <2>5, <3>1, <4>1
      <4>4. transfer'[i].staging <=> i \notin Unfinished  BY <2>3, <3>1
      <4> QED  BY <4>2, <4>3, <4>4
    <3>2. CASE ~transfer[i].staging /\ buffer[i].storage
      <4>1. frees[i] = 0  BY <2>1, <3>2 DEF Sound
      <4>2. frees'[i] = IF i \in Unretrieved THEN 1 ELSE 0  BY <2>5, <3>2, <4>1
      <4>3. ~transfer'[i].staging /\ (buffer'[i].storage <=> i \notin Unretrieved)
        BY <2>3, <2>4, <3>2
      <4> QED  BY <4>2, <4>3
    <3>3. CASE ~transfer[i].staging /\ ~buffer[i].storage
      <4>1. frees[i] = 1  BY <2>1, <3>3 DEF Sound
      <4>2. frees'[i] = 1  BY <2>5, <3>3, <4>1
      <4>3. ~transfer'[i].staging /\ ~buffer'[i].storage  BY <2>3, <2>4, <3>3
      <4> QED  BY <4>2, <4>3
    <3> QED  BY <3>1, <3>2, <3>3
  <2>9. i \in T <=> i \in Unretrieved /\ buffer[i].storage
    BY <2>1 DEF Sound
  <2> QED  BY <2>1, <2>3, <2>4, <2>6, <2>7, <2>8, <2>9 DEF Sound
<1>3. Functions'
  BY <1>2 DEF DestroyManager, Functions, Sound, AbandonedBuffers
<1>4. /\ Stored' = Stored \ T /\ T \subseteq Stored
  <2>1. \A i \in T : buffer[i].storage  BY <1>1 DEF Sound, Unretrieved
  <2> QED  BY <1>2, <2>1 DEF Stored, Unretrieved
<1>5. BytesExact'
  <2> HIDE DEF T
  <2>1. IsFiniteSet(Stored) /\ Cardinality(Stored) \in Nat  BY StoredFinite
  <2>2. IsFiniteSet(T) /\ Cardinality(T) \in Nat /\ Cardinality(T) <= Cardinality(Stored)
    BY <1>4, <2>1, FS_Subset, FS_CardinalityType
  <2>3. Cardinality(Stored') = Cardinality(Stored) - Cardinality(T)
    <3>1. Stored \cap T = T  BY <1>4
    <3> QED  BY <1>4, <2>1, <3>1, FS_Difference
  <2>4. Size * Cardinality(Stored') = Size * Cardinality(Stored) - Size * Cardinality(T)
    BY <2>1, <2>2, <2>3, SizeTimes
  <2>5. bytes_in_use' = Size * Cardinality(Stored) - Size * Cardinality(T)
    BY DEF DestroyManager, T, BytesExact, Stored
  <2> QED  BY <2>4, <2>5 DEF BytesExact, Stored
<1> QED  BY <1>2, <1>3, <1>5 DEF AllSound

----------------------------------------------------------------------------
(* Every step.                                                             *)

LEMMA ContentsType ==
  ASSUME memory \in [Indices -> [Chunks -> Bytes \cup {Uninit}]], NEW i \in Indices,
         NEW offset, NEW n, NEW x \in Bytes
  PROVE  [memory EXCEPT ![i] = Contents(i, offset, n, x)]
           \in [Indices -> [Chunks -> Bytes \cup {Uninit}]]
BY DEF Contents

LEMMA TransferKeepsIInv ==
  ASSUME IInv, NEW i \in Indices, NEW x \in Bytes,
         \/ \E offset, n \in 0 .. Size, last \in BOOLEAN : TransferData(i, offset, n, x, last)
         \/ TransferLiteral(i, x)
  PROVE  IInv'
<1> AllSound /\ BytesExact /\ HostTyped  BY DEF IInv
<1>1. CASE TransferLiteral(i, x)
  <2>1. AllSound' /\ BytesExact'
    BY <1>1, FinishKeepsSound DEF TransferLiteral
  <2>2. completed' \in [Indices -> BOOLEAN]
    BY <1>1, FinishKeepsCompleted DEF TransferLiteral, HostTyped
  <2>3. memory' \in [Indices -> [Chunks -> Bytes \cup {Uninit}]]
    BY <1>1, ContentsType DEF TransferLiteral, HostTyped
  <2>4. written' \in [Indices -> 0 .. Size]
    BY <1>1 DEF TransferLiteral, HostTyped
  <2> QED  BY <1>1, <2>1, <2>2, <2>3, <2>4 DEF TransferLiteral, HostTyped, IInv
<1>2. ASSUME NEW offset \in 0 .. Size, NEW n \in 0 .. Size, NEW last \in BOOLEAN,
             TransferData(i, offset, n, x, last)
      PROVE  IInv'
  <2> DEFINE w == IF n = 0 THEN written[i] ELSE HighWater(written[i], offset + n)
  <2>1. w \in 0 .. Size
    BY <1>2 DEF TransferData, HighWater, HostTyped
  <2>2. written' = [written EXCEPT ![i] = w]
    BY <1>2 DEF TransferData
  <2>3. memory' \in [Indices -> [Chunks -> Bytes \cup {Uninit}]]
    BY <1>2, ContentsType DEF TransferData, HostTyped
  <2>4. AllSound' /\ BytesExact' /\ completed' \in [Indices -> BOOLEAN]
    <3>1. CASE last /\ finishIfComplete(i, w)
      BY <3>1, FinishKeepsSound, FinishKeepsCompleted DEF HostTyped
    <3>2. CASE UNCHANGED <<transfer, frees, buffer, completed, bytes_in_use>>
      BY <3>2 DEF AllSound, Functions, BytesExact, HostTyped
    <3> HIDE DEF w
    <3>3. \/ last /\ finishIfComplete(i, w)
          \/ UNCHANGED <<transfer, frees, buffer, completed, bytes_in_use>>
      BY <1>2 DEF TransferData, w
    <3> QED  BY <3>1, <3>2, <3>3
  <2> HIDE DEF w
  <2> QED  BY <1>2, <2>1, <2>2, <2>3, <2>4 DEF TransferData, HostTyped, IInv
<1> QED  BY <1>1, <1>2

LEMMA FailureKeepsIInv ==
  ASSUME IInv, NEW i \in Indices, SetBufferError(i)
  PROVE  IInv'
<1> AllSound /\ BytesExact /\ HostTyped  BY DEF IInv
<1>1. AllSound' /\ BytesExact'
  BY FailKeepsSound DEF SetBufferError, backendVars
<1> QED  BY <1>1 DEF SetBufferError, managerVars, backendVars, HostTyped, IInv

LEMMA LeaveKeepsIInv ==
  ASSUME IInv, NEW i \in Indices, DeleteBuffer(i) \/ DestroyBuffer(i)
  PROVE  IInv'
<1> AllSound /\ BytesExact /\ HostTyped  BY DEF IInv
<1>1. AllSound' /\ BytesExact'  BY LeaveKeepsSound
<1> QED  BY <1>1 DEF DeleteBuffer, DestroyBuffer, managerVars, HostTyped, IInv

LEMMA AbandonKeepsIInv == IInv /\ DestroyManager => IInv'
<1> SUFFICES ASSUME IInv, DestroyManager PROVE IInv'  OBVIOUS
<1> AllSound /\ BytesExact /\ HostTyped  BY DEF IInv
<1>1. AllSound' /\ BytesExact'  BY AbandonKeepsSound
<1> QED  BY <1>1 DEF DestroyManager, HostTyped, IInv

(* Retrieving a buffer and the events made of it disturb no memory.        *)
LEMMA HostKeepsIInv ==
  ASSUME IInv,
         \/ \E i \in Indices : RetrieveBuffer(i)
         \/ \E i \in Indices, v \in ReadyEvents : ReadyEvent(v, i)
         \/ \E v \in ReadyEvents : OnReady(v) \/ DestroyEvent(v)
         \/ UNCHANGED vars
  PROVE  IInv'
<1> AllSound /\ BytesExact /\ HostTyped  BY DEF IInv
<1>1. UNCHANGED <<transfer, memory, frees, buffer, bytes_in_use, manager, completed, written>>
  BY DEF RetrieveBuffer, ReadyEvent, OnReady, DestroyEvent, vars, managerVars, backendVars
<1>2. AllSound' /\ BytesExact'
  BY <1>1 DEF AllSound, Functions, BytesExact
<1>3. retrieved' \in [Indices -> BOOLEAN]
  BY DEF RetrieveBuffer, ReadyEvent, OnReady, DestroyEvent, vars, managerVars, HostTyped
<1>4. ready_event' \in [ReadyEvents ->
        {NoEvent} \cup [of : Indices, readiness : Readiness, callback : {"none", "waiting", "called"}]]
  <2>1. CASE (\E i \in Indices : RetrieveBuffer(i)) \/ UNCHANGED vars
    BY <2>1 DEF RetrieveBuffer, vars, HostTyped
  <2>2. ASSUME NEW i \in Indices, NEW v \in ReadyEvents, ReadyEvent(v, i)
        PROVE  ready_event'[v] \in [of : Indices, readiness : Readiness, callback : {"none", "waiting", "called"}]
               /\ ready_event' = [ready_event EXCEPT ![v] = ready_event'[v]]
    BY <2>2 DEF ReadyEvent, HostTyped, AllSound, Functions, Buffer
  <2>3. ASSUME NEW v \in ReadyEvents, OnReady(v)
        PROVE  ready_event'[v] \in [of : Indices, readiness : Readiness, callback : {"none", "waiting", "called"}]
               /\ ready_event' = [ready_event EXCEPT ![v] = ready_event'[v]]
    BY <2>3 DEF OnReady, HostTyped
  <2>4. ASSUME NEW v \in ReadyEvents, DestroyEvent(v)
        PROVE  ready_event' = [ready_event EXCEPT ![v] = NoEvent]
    BY <2>4 DEF DestroyEvent
  <2> QED  BY <2>1, <2>2, <2>3, <2>4 DEF HostTyped
<1> QED  BY <1>1, <1>2, <1>3, <1>4 DEF HostTyped, IInv

LEMMA NextInv == IInv /\ [Next]_vars => IInv'
BY TransferKeepsIInv, FailureKeepsIInv, LeaveKeepsIInv, AbandonKeepsIInv, HostKeepsIInv DEF Next

----------------------------------------------------------------------------
(* Theorems.                                                               *)

(* The inductive invariant holds in every state.                           *)
THEOREM TransferInvariant == Spec => []IInv
BY InitInv, NextInv, PTL DEF Spec

(* The state is well typed; in particular the bytes in use are never       *)
(* negative (device_memory.zig clamps them, and never needs to).           *)
THEOREM TransfersAreTyped == Spec => []TypeOK
<1>1. IInv => TypeOK
  <2> SUFFICES ASSUME IInv PROVE TypeOK  OBVIOUS
  <2>1. bytes_in_use \in Nat
    BY StoredFinite, SizeTimes DEF IInv, BytesExact, Stored
  <2> QED  BY <2>1 DEF IInv, HostTyped, AllSound, Functions, TypeOK
<1> QED  BY <1>1, TransferInvariant, PTL

(* Each staging allocation is owned by its transfer, owned by the array of *)
(* a buffer or freed, once (async_h2d.zig, api.cc).                        *)
THEOREM AllocationsAreOwnedOnce == Spec => []AllocationOwnedOnce
<1>1. IInv => AllocationOwnedOnce
  BY DEF IInv, AllSound, Sound, AllocationOwnedOnce
<1> QED  BY <1>1, TransferInvariant, PTL

(* A buffer that can be read has a backend buffer, and the accounting      *)
(* follows (buffer.zig, buffer_storage.zig).                               *)
THEOREM ReadyBuffersAreBacked == Spec => []ReadyIsBacked
<1>1. IInv => ReadyIsBacked
  BY DEF IInv, AllSound, Sound, ReadyIsBacked
<1> QED  BY <1>1, TransferInvariant, PTL

(* The memory statistics count the buffers that hold memory exactly        *)
(* (device_memory.zig).                                                    *)
THEOREM AccountingIsExact == Spec => []BytesExact
<1>1. IInv => BytesExact  BY DEF IInv
<1> QED  BY <1>1, TransferInvariant, PTL

(* No write of the manager reaches the memory of a ready buffer            *)
(* (async_h2d.zig, api.cc).                                                *)
THEOREM ReadyContentsAreStable == Spec => ReadyContentsStable
<1>1. ASSUME IInv, [Next]_vars, NEW i \in Indices, buffer[i].readiness = "ready"
      PROVE  memory'[i] = memory[i]
  <2>1. memory[i] \in [Chunks -> Bytes \cup {Uninit}] /\ ~Writable(i)
    BY <1>1 DEF IInv, HostTyped, AllSound, Sound, Writable
  <2>2. ASSUME NEW j \in Indices, NEW offset \in 0 .. Size, NEW n \in 0 .. Size,
               NEW x \in Bytes, NEW last \in BOOLEAN, TransferData(j, offset, n, x, last)
        PROVE  memory'[i] = memory[i]
    <3>1. CASE j # i  BY <1>1, <2>2, <3>1 DEF TransferData, IInv, HostTyped
    <3>2. CASE j = i
      <4>1. n = 0  BY <2>1, <2>2, <3>2 DEF TransferData
      <4>2. \A k \in Chunks : ~(k \in offset .. offset + n - 1)  BY <4>1 DEF Chunks
      <4>3. Contents(i, offset, n, x) = memory[i]  BY <2>1, <4>2 DEF Contents
      <4>4. memory'[i] = Contents(i, offset, n, x)
        BY <1>1, <2>2, <3>2 DEF TransferData, IInv, HostTyped
      <4> QED  BY <4>3, <4>4
    <3> QED  BY <3>1, <3>2
  <2>3. ASSUME NEW j \in Indices, NEW x \in Bytes, TransferLiteral(j, x)
        PROVE  memory'[i] = memory[i]
    BY <1>1, <2>1, <2>3 DEF TransferLiteral, IInv, HostTyped
  <2>4. CASE \/ DestroyManager \/ UNCHANGED vars
             \/ \E j \in Indices :
                  \/ SetBufferError(j) \/ RetrieveBuffer(j) \/ DeleteBuffer(j) \/ DestroyBuffer(j)
                  \/ \E v \in ReadyEvents : ReadyEvent(v, j)
             \/ \E v \in ReadyEvents : OnReady(v) \/ DestroyEvent(v)
    BY <2>4 DEF DestroyManager, SetBufferError, RetrieveBuffer, DeleteBuffer, DestroyBuffer,
                ReadyEvent, OnReady, DestroyEvent, vars, backendVars
  <2> QED  BY <1>1, <2>2, <2>3, <2>4 DEF Next
<1>2. IInv /\ [Next]_vars => [\A i \in Indices : buffer[i].readiness = "ready" => memory'[i] = memory[i]]_vars
  BY <1>1
<1> QED  BY <1>2, TransferInvariant, PTL DEF Spec, ReadyContentsStable

(* An error is never covered up, and nothing becomes pending again         *)
(* (buffer.zig, event.zig).                                                *)
THEOREM ReadinessIsMonotonic == Spec => ReadinessMonotonic
<1> DEFINE Kept(b, c) == /\ b.readiness = "failed" => c.readiness = "failed"
                         /\ b.readiness = "ready" => c.readiness # "pending"
<1>1. ASSUME NEW b \in Buffer
      PROVE  /\ Kept(b, b) /\ Kept(b, failReadiness(b)) /\ Kept(b, deletedBuffer(b))
             /\ Kept(b, markReady(installed(b)))
             /\ Kept(b, [releaseStorage(b) EXCEPT !.state = "freed"])
             /\ Kept(b, [releaseStorage(failReadiness(b)) EXCEPT !.state = "freed"])
  BY DEF Buffer, failReadiness, deletedBuffer, markReady, installed, releaseStorage
<1>2. ASSUME IInv, [Next]_vars, NEW i \in Indices
      PROVE  Kept(buffer[i], buffer'[i])
  <2>1. buffer \in [Indices -> Buffer]  BY <1>2 DEF IInv, AllSound, Functions
  <2>2. ASSUME NEW j \in Indices, NEW w, finishIfComplete(j, w) \/ finishBuffer(j)
        PROVE  Kept(buffer[i], buffer'[i])
    <3>1. PICK b \in {failReadiness(buffer[j]), markReady(installed(buffer[j]))} :
            buffer' = [buffer EXCEPT ![j] = b]
      BY <2>2 DEF finishIfComplete, finishBuffer, FailFinish, BackendFails, InstallRefused, Install
    <3> HIDE DEF Kept
    <3>2. Kept(buffer[j], b)  BY <1>1, <2>1, <3>1
    <3>3. buffer'[i] = IF i = j THEN b ELSE buffer[i]  BY <2>1, <3>1
    <3> QED  BY <1>1, <2>1, <3>2, <3>3
  <2>3. ASSUME NEW j \in Indices, NEW x \in Bytes,
               \/ \E offset, n \in 0 .. Size, last \in BOOLEAN : TransferData(j, offset, n, x, last)
               \/ TransferLiteral(j, x)
        PROVE  Kept(buffer[i], buffer'[i])
    <3> HIDE DEF Kept
    <3>1. (\E w : finishIfComplete(j, w) \/ finishBuffer(j)) \/ buffer' = buffer
      BY <2>3 DEF TransferData, TransferLiteral
    <3> QED  BY <1>1, <2>1, <2>2, <3>1
  <2>4. ASSUME NEW j \in Indices, SetBufferError(j) \/ DeleteBuffer(j) \/ DestroyBuffer(j)
        PROVE  Kept(buffer[i], buffer'[i])
    <3>1. PICK b \in {failReadiness(buffer[j]), deletedBuffer(buffer[j]),
                     [releaseStorage(buffer[j]) EXCEPT !.state = "freed"]} :
            buffer' = [buffer EXCEPT ![j] = b]
      BY <2>4 DEF SetBufferError, DeleteBuffer, DestroyBuffer
    <3> HIDE DEF Kept
    <3>2. Kept(buffer[j], b)  BY <1>1, <2>1, <3>1
    <3>3. buffer'[i] = IF i = j THEN b ELSE buffer[i]  BY <2>1, <3>1
    <3> QED  BY <1>1, <2>1, <3>2, <3>3
  <2>5. CASE DestroyManager
    <3>1. buffer'[i] \in {buffer[i], failReadiness(buffer[i]),
                          [releaseStorage(buffer[i]) EXCEPT !.state = "freed"],
                          [releaseStorage(failReadiness(buffer[i])) EXCEPT !.state = "freed"]}
      BY <2>5 DEF DestroyManager, AbandonedBuffers
    <3> HIDE DEF Kept
    <3> QED  BY <1>1, <2>1, <3>1
  <2>6. CASE \/ UNCHANGED vars
             \/ \E j \in Indices : RetrieveBuffer(j) \/ \E v \in ReadyEvents : ReadyEvent(v, j)
             \/ \E v \in ReadyEvents : OnReady(v) \/ DestroyEvent(v)
    <3>1. buffer' = buffer
      BY <2>6 DEF RetrieveBuffer, ReadyEvent, OnReady, DestroyEvent, vars
    <3> QED  BY <1>1, <2>1, <3>1
  <2> HIDE DEF Kept
  <2> QED  BY <1>2, <2>3, <2>4, <2>5, <2>6 DEF Next
<1> DEFINE Step == \A i \in Indices :
             /\ buffer[i].readiness = "failed" => buffer'[i].readiness = "failed"
             /\ buffer[i].readiness = "ready" => buffer'[i].readiness # "pending"
<1>3. IInv /\ [Next]_vars => Step
  BY <1>2
<1>4. ReadinessMonotonic <=> [][Step]_vars
  BY DEF ReadinessMonotonic
<1> HIDE DEF Kept, Step
<1> QED  BY <1>3, <1>4, TransferInvariant, PTL DEF Spec
=============================================================================
