----------------------- MODULE BackendExecutionProofs -----------------------
(***************************************************************************)
(* The execution of a backend executable implements the specification of     *)
(* each of its three ways, so that what is proved of a way holds of it.  The *)
(* way of the captured program comes first, with its own proofs.            *)
(*                                                                         *)
(* The program in use is accounted for, and a captured run never sees the    *)
(* argument of another live buffer, for any executables, threads and         *)
(* addresses.  The invariant: what a buffer holds names its address, the     *)
(* arguments of a call in progress are live and those it gives away are its  *)
(* own, and what is captured or was used is held at the address it came      *)
(* from, or by no buffer.                                                  *)
(***************************************************************************)
EXTENDS BackendExecution, MetalLoweringProofs, ScheduleExecutionProofs

----------------------------------------------------------------------------
Held == {buffers[a] : a \in Addresses}
Active(t) == caller[t].pc \notin {"idle", "gone"}

(* What was read at an address is still held there, or nowhere.             *)
Sound(content, a) == content # NoBuffer /\ (content = buffers[a] \/ content \notin Held)

Pairs == Addresses \X Generations
CallerRecords ==
  [pc : {"idle", "called", "prepared", "uncaptured", "updating", "executed", "failed", "gone"},
   arguments : {<<>>} \cup [AllParams -> Addresses],
   used : {<<>>} \cup [AllParams -> Pairs]]
CaptureRecords ==
  [program : ProgramIds \cup {NoProgram}, previous : {<<>>} \cup [AllParams -> Addresses],
   dynamic : SUBSET AllParams, captured : {<<>>} \cup UNION {[S -> Pairs] : S \in SUBSET AllParams}]

CaptureTyped ==
  /\ executable \in CaptureExecutables
  /\ buffers \in [Addresses -> {NoBuffer} \cup Pairs]
  /\ \A a \in Addresses : buffers[a] # NoBuffer => buffers[a][1] = a
  /\ caller \in [Callers -> CallerRecords]

CallerInv ==
  \A t \in Callers :
    /\ Active(t) => /\ caller[t].arguments \in [AllParams -> Live]
                    /\ \A u \in Callers \ {t} : Active(u) => DonatedBy(u) \cap ArgumentsOf(t) = {}
    /\ ~Active(t) => caller[t].arguments = <<>> /\ caller[t].used = <<>>
    /\ caller[t].pc \in {"called", "prepared", "uncaptured"} => caller[t].used = <<>>
    /\ \A p \in DOMAIN caller[t].used : p \in AllParams /\ Sound(caller[t].used[p], caller[t].arguments[p])

(* The capture: its program, and arguments of which none was given away.    *)
Accounted ==
  /\ capture \in CaptureRecords
  /\ programs = {capture.program} \ {NoProgram}
  /\ capture.program # NoProgram =>
       /\ capture.previous \in [AllParams -> Addresses]
       /\ ConsumedParams \subseteq capture.dynamic
       /\ DOMAIN capture.captured = AllParams \ capture.dynamic
       /\ \A p \in DOMAIN capture.captured : Sound(capture.captured[p], capture.previous[p])

(* When the executable is gone, it is for every thread.                    *)
GoneInv ==
  (\E t \in Callers : caller[t].pc = "gone") =>
    capture.program = NoProgram /\ \A u \in Callers : caller[u].pc = "gone"

CaptureInv == CaptureTyped /\ CallerInv /\ Accounted /\ GoneInv
----------------------------------------------------------------------------
LEMMA EmptyDomain == DOMAIN <<>> = {}
OBVIOUS

LEMMA PairIsBuffer == \A c \in Pairs : c # NoBuffer
BY DEF Pairs, NoBuffer

LEMMA IdleTyped == Idle \in CallerRecords /\ NoCapture \in CaptureRecords
BY DEF Idle, CallerRecords, NoCapture, CaptureRecords, NoProgram

LEMMA RecordUpdate ==
  ASSUME NEW r \in CallerRecords, NEW stage
  PROVE  [r EXCEPT !.pc = stage] = [pc |-> stage, arguments |-> r.arguments, used |-> r.used]
BY DEF CallerRecords

(* What a step that leaves the buffers alone leaves alone.                 *)
LEMMA SameBuffers ==
  ASSUME UNCHANGED <<executable, buffers>>
  PROVE  /\ Live' = Live /\ AllParams' = AllParams /\ ConsumedParams' = ConsumedParams
         /\ CallerRecords' = CallerRecords /\ CaptureRecords' = CaptureRecords
         /\ \A c, a : Sound(c, a)' <=> Sound(c, a)
BY DEF Live, AllParams, ConsumedParams, CallerRecords, CaptureRecords, Sound, Held

LEMMA CaptureInitInv == CaptureInit => CaptureInv
<1> SUFFICES ASSUME CaptureInit PROVE CaptureInv
  OBVIOUS
<1> USE DEF CaptureInit, Uncalled
<1>1. CaptureTyped
  BY IdleTyped DEF CaptureTyped
<1>2. \A t \in Callers : caller[t].pc = "idle" /\ caller[t].arguments = <<>> /\ caller[t].used = <<>>
  BY DEF Idle
<1>3. CallerInv
  BY <1>2, EmptyDomain DEF CallerInv, Active
<1>4. Accounted /\ GoneInv
  BY <1>2, IdleTyped DEF Accounted, GoneInv, NoCapture
<1> QED BY <1>1, <1>3, <1>4 DEF CaptureInv
----------------------------------------------------------------------------
(* The host makes and destroys buffers.                                    *)

(* What is sound stays so when a buffer is made that holds something else.  *)
LEMMA MakingKeepsSound ==
  ASSUME NEW a \in Addresses, CaptureInv, HostMakes(a),
         NEW c \in Remembered, NEW b \in Addresses, Sound(c, b), b # a \/ c \notin Held
  PROVE  Sound(c, b)'
<1>1. PICK g \in Generations : <<a, g>> \notin Remembered /\ buffers' = [buffers EXCEPT ![a] = <<a, g>>]
  BY DEF HostMakes, FreshGenerations
<1>2. c # <<a, g>>
  BY <1>1
<1>3. Held' \subseteq Held \cup {<<a, g>>}
  BY <1>1 DEF Held, CaptureInv, CaptureTyped
<1>4. b # a => buffers'[b] = buffers[b]
  BY <1>1 DEF CaptureInv, CaptureTyped
<1> QED BY <1>2, <1>3, <1>4 DEF Sound

LEMMA UsedRemembered ==
  ASSUME NEW t \in Callers, NEW p \in DOMAIN caller[t].used
  PROVE  caller[t].used[p] \in Remembered
BY DEF Remembered

LEMMA CapturedRemembered ==
  ASSUME NEW p \in DOMAIN capture.captured
  PROVE  capture.captured[p] \in Remembered
BY DEF Remembered

(* Buffers are lost at some addresses, and what is sound stays so.          *)
BufferLosses(S) ==
  buffers' = [a \in Addresses |-> IF a \in S THEN NoBuffer ELSE buffers[a]]

LEMMA LossesKeepShape ==
  ASSUME NEW S, CaptureTyped, BufferLosses(S)
  PROVE  /\ buffers' \in [Addresses -> {NoBuffer} \cup Pairs]
         /\ \A a \in Addresses : buffers'[a] # NoBuffer => buffers'[a][1] = a
BY DEF CaptureTyped, BufferLosses

(* What an address held and lost was held nowhere else.                    *)
LEMMA LosingKeepsSound ==
  ASSUME NEW S, CaptureTyped, BufferLosses(S), NEW c, NEW b \in Addresses, Sound(c, b)
  PROVE  Sound(c, b)'
<1>1. c # NoBuffer
  BY DEF Sound
<1>2. CASE c \notin Held
  BY <1>1, <1>2 DEF Sound, Held, BufferLosses
<1>3. CASE c = buffers[b]
  <2>1. \A a \in Addresses : buffers'[a] = c => a = b
    BY <1>1, <1>3 DEF CaptureTyped, BufferLosses
  <2>2. buffers'[b] = c \/ c \notin {buffers'[a] : a \in Addresses}
    BY <2>1
  <2> QED BY <1>1, <2>2 DEF Sound, Held
<1> QED BY <1>2, <1>3 DEF Sound

(* An address that holds nothing is no argument, and what was captured there *)
(* is not held anywhere.                                                   *)
LEMMA HostMakesInv ==
  ASSUME NEW a \in Addresses, CaptureInv, HostMakes(a)
  PROVE  CaptureInv'
<1> USE DEF CaptureInv
<1>0. UNCHANGED <<executable, capture, programs, caller>> /\ buffers[a] = NoBuffer
  BY DEF HostMakes
<1>1. PICK g \in Generations : buffers' = [buffers EXCEPT ![a] = <<a, g>>]
  BY DEF HostMakes, FreshGenerations
<1>2. /\ AllParams' = AllParams /\ ConsumedParams' = ConsumedParams
      /\ CallerRecords' = CallerRecords /\ CaptureRecords' = CaptureRecords
      /\ \A t : Active(t)' <=> Active(t)
      /\ \A t : DonatedBy(t)' = DonatedBy(t) /\ ArgumentsOf(t)' = ArgumentsOf(t)
  BY <1>0 DEF AllParams, ConsumedParams, CallerRecords, CaptureRecords, Active, DonatedBy, ArgumentsOf
<1>3. Live \subseteq Live'
  BY <1>0, <1>1 DEF Live, CaptureTyped, NoBuffer
<1>4. CaptureTyped'
  <2>1. buffers' \in [Addresses -> {NoBuffer} \cup Pairs]
    BY <1>1 DEF CaptureTyped, Pairs
  <2>2. \A b \in Addresses : buffers'[b] # NoBuffer => buffers'[b][1] = b
    BY <1>1 DEF CaptureTyped
  <2> QED BY <1>0, <1>2, <2>1, <2>2 DEF CaptureTyped
<1>5. CallerInv'
  <2> SUFFICES ASSUME NEW t \in Callers, NEW p \in DOMAIN caller[t].used
               PROVE  Sound(caller[t].used[p], caller[t].arguments[p])'
    BY <1>0, <1>2, <1>3 DEF CallerInv
  <2>1. Active(t) /\ p \in AllParams /\ Sound(caller[t].used[p], caller[t].arguments[p])
    BY EmptyDomain DEF CallerInv
  <2>2. caller[t].arguments[p] \in Live
    BY <2>1 DEF CallerInv
  <2>3. caller[t].arguments[p] \in Addresses /\ caller[t].arguments[p] # a
    BY <2>2, <1>0 DEF Live
  <2> QED BY <1>0, <2>1, <2>3, UsedRemembered, MakingKeepsSound
<1>6. Accounted'
  <2> SUFFICES ASSUME capture.program # NoProgram, NEW p \in DOMAIN capture.captured
               PROVE  Sound(capture.captured[p], capture.previous[p])'
    BY <1>0, <1>2 DEF Accounted
  <2>1. Sound(capture.captured[p], capture.previous[p]) /\ capture.previous[p] \in Addresses
    BY DEF Accounted
  <2>2. capture.previous[p] = a => capture.captured[p] \notin Held
    BY <1>0, <2>1 DEF Sound
  <2> QED BY <1>0, <2>1, <2>2, CapturedRemembered, MakingKeepsSound
<1>7. GoneInv'
  BY <1>0 DEF GoneInv
<1> QED BY <1>4, <1>5, <1>6, <1>7

(* No argument of a call in progress is destroyed.                         *)
LEMMA HostDestroysInv ==
  ASSUME NEW a \in Addresses, CaptureInv, HostDestroys(a)
  PROVE  CaptureInv'
<1> USE DEF CaptureInv
<1>0. /\ UNCHANGED <<executable, capture, programs, caller>>
      /\ buffers' = [buffers EXCEPT ![a] = NoBuffer]
      /\ \A t \in Callers : a \notin ArgumentsOf(t)
  BY DEF HostDestroys
<1>1. BufferLosses({a})
  BY <1>0 DEF CaptureTyped, BufferLosses
<1>2. /\ AllParams' = AllParams /\ ConsumedParams' = ConsumedParams
      /\ CallerRecords' = CallerRecords /\ CaptureRecords' = CaptureRecords
      /\ \A t : Active(t)' <=> Active(t)
      /\ \A t : DonatedBy(t)' = DonatedBy(t) /\ ArgumentsOf(t)' = ArgumentsOf(t)
  BY <1>0 DEF AllParams, ConsumedParams, CallerRecords, CaptureRecords, Active, DonatedBy, ArgumentsOf
<1>3. CaptureTyped'
  BY <1>0, <1>1, <1>2, LossesKeepShape DEF CaptureTyped
<1>4. CallerInv'
  <2> SUFFICES ASSUME NEW t \in Callers
               PROVE  /\ Active(t) => caller[t].arguments \in [AllParams -> Live']
                      /\ \A p \in DOMAIN caller[t].used :
                           Sound(caller[t].used[p], caller[t].arguments[p])'
    BY <1>0, <1>2 DEF CallerInv
  <2>1. ASSUME Active(t) PROVE caller[t].arguments \in [AllParams -> Live']
    <3>1. caller[t].arguments \in [AllParams -> Live]
      BY <2>1 DEF CallerInv
    <3>2. \A p \in AllParams : caller[t].arguments[p] # a
      BY <1>0, <3>1 DEF ArgumentsOf
    <3> QED BY <1>0, <3>1, <3>2 DEF Live, CaptureTyped
  <2>2. ASSUME NEW p \in DOMAIN caller[t].used
        PROVE  Sound(caller[t].used[p], caller[t].arguments[p])'
    <3>1. Active(t) /\ p \in AllParams /\ Sound(caller[t].used[p], caller[t].arguments[p])
      BY EmptyDomain DEF CallerInv
    <3>2. caller[t].arguments \in [AllParams -> Live]
      BY <3>1 DEF CallerInv
    <3>3. caller[t].arguments[p] \in Addresses
      BY <3>1, <3>2 DEF Live
    <3> QED BY <1>0, <1>1, <3>1, <3>3, LosingKeepsSound
  <2> QED BY <2>1, <2>2
<1>5. Accounted'
  <2> SUFFICES ASSUME capture.program # NoProgram, NEW p \in DOMAIN capture.captured
               PROVE  Sound(capture.captured[p], capture.previous[p])'
    BY <1>0, <1>2 DEF Accounted
  <2>1. Sound(capture.captured[p], capture.previous[p]) /\ capture.previous[p] \in Addresses
    BY DEF Accounted
  <2> QED BY <1>0, <1>1, <2>1, LosingKeepsSound
<1>6. GoneInv'
  BY <1>0 DEF GoneInv
<1> QED BY <1>3, <1>4, <1>5, <1>6
----------------------------------------------------------------------------
(* A thread calls: the buffers it gives away are no argument of another.    *)
LEMMA HostCallsInv ==
  ASSUME NEW t \in Callers, NEW arguments \in [AllParams -> Live], CaptureInv, HostCalls(t, arguments)
  PROVE  CaptureInv'
<1> DEFINE called == [pc |-> "called", arguments |-> arguments, used |-> <<>>]
<1> USE DEF CaptureInv
<1>0. /\ UNCHANGED <<executable, capture, programs, buffers>>
      /\ caller[t].pc = "idle"
      /\ caller' = [caller EXCEPT ![t] = called]
  BY DEF HostCalls
<1>1. called \in CallerRecords
  BY DEF CallerRecords, Live
<1>2. CaptureTyped'
  BY <1>0, <1>1, SameBuffers DEF CaptureTyped
<1>3. /\ caller'[t] = called
      /\ \A u \in Callers \ {t} :
           caller'[u] = caller[u] /\ DonatedBy(u)' = DonatedBy(u) /\ ArgumentsOf(u)' = ArgumentsOf(u)
  BY <1>0 DEF CaptureTyped, DonatedBy, ArgumentsOf
<1>4. /\ ArgumentsOf(t)' = {arguments[p] : p \in AllParams}
      /\ DonatedBy(t)' \subseteq {arguments[p] : p \in executable.donated}
  BY <1>0, <1>3 DEF DonatedBy, ArgumentsOf
<1>5. CallerInv'
  <2>1. \A u \in Callers \ {t} :
          /\ DonatedBy(u)' \cap ArgumentsOf(t)' = {}
          /\ DonatedBy(t)' \cap ArgumentsOf(u)' = {}
    BY <1>3, <1>4 DEF HostCalls
  <2>2. /\ caller'[t].arguments \in [AllParams -> Live]' /\ caller'[t].used = <<>>
        /\ Active(t)'
    BY <1>0, <1>3, SameBuffers DEF Active
  <2> SUFFICES ASSUME NEW v \in Callers
               PROVE  /\ Active(v)' => /\ caller'[v].arguments \in [AllParams -> Live]'
                                       /\ \A u \in Callers \ {v} :
                                            Active(u)' => DonatedBy(u)' \cap ArgumentsOf(v)' = {}
                      /\ ~Active(v)' => caller'[v].arguments = <<>> /\ caller'[v].used = <<>>
                      /\ caller'[v].pc \in {"called", "prepared", "uncaptured"} => caller'[v].used = <<>>
                      /\ \A p \in DOMAIN caller'[v].used :
                           p \in AllParams' /\ Sound(caller[v].used[p], caller[v].arguments[p])'
    BY DEF CallerInv
  <2>3. CASE v = t
    BY <2>1, <2>2, <2>3, EmptyDomain
  <2>4. CASE v # t
    <3>1. caller'[v] = caller[v] /\ (Active(v)' <=> Active(v))
      BY <1>3, <2>4 DEF Active
    <3>2. \A u \in Callers \ {v, t} : (Active(u)' <=> Active(u)) /\ DonatedBy(u)' = DonatedBy(u)
      BY <1>3 DEF Active
    <3>3. Active(v)' => \A u \in Callers \ {v} : Active(u)' => DonatedBy(u)' \cap ArgumentsOf(v)' = {}
      BY <1>3, <2>1, <2>4, <3>1, <3>2 DEF CallerInv
    <3> QED BY <1>0, <3>1, <3>3, SameBuffers DEF CallerInv
  <2> QED BY <2>3, <2>4
<1>6. Accounted'
  BY <1>0, SameBuffers DEF Accounted
<1>7. GoneInv'
  BY <1>0, <1>3 DEF GoneInv
<1> QED BY <1>2, <1>5, <1>6, <1>7
----------------------------------------------------------------------------
(* A call goes on.                                                         *)

InCall == {"called", "prepared", "uncaptured", "updating", "executed", "failed"}

(* A step of a call that leaves the buffers alone, and used what is sound.  *)
LEMMA CallGoesOn ==
  ASSUME NEW t \in Callers, CaptureInv, Active(t), UNCHANGED <<executable, buffers>>, Accounted',
         NEW stage \in InCall, NEW used \in {<<>>} \cup [AllParams -> Pairs],
         \A p \in DOMAIN used : p \in AllParams /\ Sound(used[p], caller[t].arguments[p]),
         stage \in {"called", "prepared", "uncaptured"} => used = <<>>,
         caller' = [caller EXCEPT ![t] = [pc |-> stage, arguments |-> caller[t].arguments, used |-> used]]
  PROVE  CaptureInv'
<1> USE DEF CaptureInv
<1>1. /\ caller'[t] = [pc |-> stage, arguments |-> caller[t].arguments, used |-> used]
      /\ \A u \in Callers \ {t} : caller'[u] = caller[u]
      /\ caller[t] \in CallerRecords
  BY DEF CaptureTyped
<1>2. CaptureTyped'
  <2>1. [pc |-> stage, arguments |-> caller[t].arguments, used |-> used] \in CallerRecords
    BY <1>1 DEF CallerRecords, InCall
  <2> QED BY <2>1, SameBuffers DEF CaptureTyped
<1>3. \A u \in Callers : /\ caller'[u].arguments = caller[u].arguments
                         /\ DonatedBy(u)' = DonatedBy(u) /\ ArgumentsOf(u)' = ArgumentsOf(u)
                         /\ Active(u)' <=> Active(u)
  BY <1>1 DEF DonatedBy, ArgumentsOf, Active, InCall
<1>4. CallerInv'
  <2> SUFFICES ASSUME NEW v \in Callers
               PROVE  /\ Active(v)' => /\ caller'[v].arguments \in [AllParams -> Live]'
                                       /\ \A u \in Callers \ {v} :
                                            Active(u)' => DonatedBy(u)' \cap ArgumentsOf(v)' = {}
                      /\ ~Active(v)' => caller'[v].arguments = <<>> /\ caller'[v].used = <<>>
                      /\ caller'[v].pc \in {"called", "prepared", "uncaptured"} => caller'[v].used = <<>>
                      /\ \A p \in DOMAIN caller'[v].used :
                           p \in AllParams' /\ Sound(caller[v].used[p], caller[v].arguments[p])'
    BY DEF CallerInv
  <2>1. Active(v)' => /\ caller'[v].arguments \in [AllParams -> Live]'
                      /\ \A u \in Callers \ {v} : Active(u)' => DonatedBy(u)' \cap ArgumentsOf(v)' = {}
    BY <1>3, SameBuffers DEF CallerInv
  <2>2. CASE v = t
    BY <1>1, <1>3, <2>1, <2>2, SameBuffers
  <2>3. CASE v # t
    BY <1>1, <1>3, <2>1, <2>3, SameBuffers DEF CallerInv
  <2> QED BY <2>2, <2>3
<1>5. GoneInv'
  BY <1>1, <1>3 DEF GoneInv, Active, InCall
<1> QED BY <1>2, <1>4, <1>5

(* The same, of a step that only moves the thread.                         *)
LEMMA CallMoves ==
  ASSUME NEW t \in Callers, CaptureInv, Active(t), UNCHANGED <<executable, buffers>>, Accounted',
         NEW stage \in InCall, Goto(t, stage),
         stage \in {"called", "prepared", "uncaptured"} => caller[t].used = <<>>
  PROVE  CaptureInv'
<1>1. caller[t] \in CallerRecords /\ caller \in [Callers -> CallerRecords]
  BY DEF CaptureInv, CaptureTyped
<1>2. /\ caller' = [caller EXCEPT ![t] = [pc |-> stage, arguments |-> caller[t].arguments, used |-> caller[t].used]]
      /\ caller[t].used \in {<<>>} \cup [AllParams -> Pairs]
  <2>1. caller' = [caller EXCEPT ![t] = [caller[t] EXCEPT !.pc = stage]]
    BY DEF Goto
  <2>2. caller[t].used \in {<<>>} \cup [AllParams -> Pairs]
    BY <1>1 DEF CallerRecords
  <2> QED BY <1>1, <2>1, <2>2, RecordUpdate
<1>3. \A p \in DOMAIN caller[t].used : p \in AllParams /\ Sound(caller[t].used[p], caller[t].arguments[p])
  BY DEF CaptureInv, CallerInv
<1> QED BY <1>2, <1>3, CallGoesOn

(* What an argument of a call in progress holds.                           *)
LEMMA ArgumentsHeld ==
  ASSUME NEW t \in Callers, CaptureInv, Active(t), NEW p \in AllParams
  PROVE  /\ caller[t].arguments[p] \in Addresses
         /\ buffers[caller[t].arguments[p]] \in Pairs
         /\ Sound(buffers[caller[t].arguments[p]], caller[t].arguments[p])
<1>1. caller[t].arguments[p] \in Live
  BY DEF CaptureInv, CallerInv
<1> QED BY <1>1 DEF Live, CaptureInv, CaptureTyped, Sound

(* A program that is created captures what the stable arguments hold.      *)
LEMMA CreateAccounted ==
  ASSUME NEW t \in Callers, CaptureInv, Active(t), UNCHANGED <<executable, buffers>>,
         capture.program = NoProgram, NEW dynamic \in SUBSET AllParams, ConsumedParams \subseteq dynamic,
         CreateProgram(caller[t].arguments, dynamic)
  PROVE  Accounted'
<1> DEFINE taken == [p \in AllParams \ dynamic |-> buffers[caller[t].arguments[p]]]
<1>1. PICK id \in ProgramIds \ programs :
        /\ programs' = programs \cup {id}
        /\ capture' = [program |-> id, previous |-> caller[t].arguments, dynamic |-> dynamic, captured |-> taken]
  BY DEF CreateProgram
<1>2. caller[t].arguments \in [AllParams -> Addresses]
  BY ArgumentsHeld DEF CaptureInv, CallerInv
<1>3. taken \in [AllParams \ dynamic -> Pairs]
  BY ArgumentsHeld
<1>4. capture' \in CaptureRecords
  BY <1>1, <1>2, <1>3 DEF CaptureRecords
<1>5. programs' = {id} /\ id # NoProgram
  BY <1>1 DEF CaptureInv, Accounted, ProgramIds, NoProgram
<1>6. \A p \in DOMAIN capture'.captured : Sound(capture'.captured[p], capture'.previous[p])
  BY <1>1, ArgumentsHeld
<1> HIDE DEF taken
<1>7. DOMAIN capture'.captured = AllParams \ capture'.dynamic
  BY <1>1, <1>3
<1> QED BY <1>1, <1>2, <1>4, <1>5, <1>6, <1>7, SameBuffers DEF Accounted

LEMMA ResetAccounted ==
  ASSUME CaptureInv, UNCHANGED <<executable, buffers>>, Reset
  PROVE  Accounted' /\ capture'.program = NoProgram
BY IdleTyped, SameBuffers DEF CaptureInv, Accounted, Reset, NoCapture

LEMMA UnchangedAccounted ==
  ASSUME CaptureInv, UNCHANGED <<executable, buffers, capture, programs>>
  PROVE  Accounted'
BY SameBuffers DEF CaptureInv, Accounted

LEMMA MaybeCreateInitialInv ==
  ASSUME NEW t \in Callers, CaptureInv, MaybeCreateInitial(t)
  PROVE  CaptureInv'
<1>1. /\ UNCHANGED <<executable, buffers>> /\ caller[t].pc = "called"
      /\ Active(t) /\ caller[t].used = <<>> /\ (Goto(t, "prepared") \/ Goto(t, "failed"))
  BY DEF MaybeCreateInitial, Active, CaptureInv, CallerInv
<1>2. ConsumedParams \subseteq InitialDynamic /\ InitialDynamic \subseteq AllParams
  BY CaptureAssumption DEF ConsumedParams, InitialDynamic, AllParams, CaptureInv, CaptureTyped
<1>3. Accounted'
  BY <1>1, <1>2, CreateAccounted, UnchangedAccounted DEF MaybeCreateInitial
<1> QED BY <1>1, <1>3, CallMoves DEF InCall

(* A captured argument matches: it was captured from the argument's address. *)
LEMMA ExecuteCapturedInv ==
  ASSUME NEW t \in Callers, CaptureInv, ExecuteCaptured(t)
  PROVE  CaptureInv'
<1> DEFINE used == [p \in AllParams |-> IF p \in capture.dynamic THEN buffers[caller[t].arguments[p]]
                                       ELSE capture.captured[p]]
<1>1. /\ UNCHANGED <<executable, buffers>> /\ caller[t].pc = "prepared"
      /\ Active(t) /\ caller[t].used = <<>> /\ caller[t] \in CallerRecords
  BY DEF ExecuteCaptured, Active, CaptureInv, CallerInv, CaptureTyped
<1>2. CASE Goto(t, "uncaptured") /\ (UNCHANGED <<capture, programs>> \/ Reset)
  BY <1>1, <1>2, UnchangedAccounted, ResetAccounted, CallMoves DEF InCall
<1>3. CASE Goto(t, "failed") /\ UNCHANGED <<capture, programs>>
  BY <1>1, <1>3, UnchangedAccounted, CallMoves DEF InCall
<1>4. CASE /\ capture.program # NoProgram /\ matches(caller[t].arguments)
           /\ Computes(t, "executed", used)
           /\ UNCHANGED <<capture, programs>>
  <2>1. \A p \in AllParams : used[p] \in Pairs /\ Sound(used[p], caller[t].arguments[p])
    <3> SUFFICES ASSUME NEW p \in AllParams
                 PROVE  used[p] \in Pairs /\ Sound(used[p], caller[t].arguments[p])
      OBVIOUS
    <3>1. CASE p \in capture.dynamic
      BY <1>1, <3>1, ArgumentsHeld
    <3>2. CASE p \notin capture.dynamic
      <4>1. p \in DOMAIN capture.captured /\ Sound(capture.captured[p], capture.previous[p])
        BY <1>4, <3>2 DEF CaptureInv, Accounted
      <4>2. capture.captured[p] \in Pairs
        BY <4>1, EmptyDomain DEF CaptureInv, Accounted, CaptureRecords
      <4>3. capture.previous[p] = caller[t].arguments[p]
        BY <1>4, <3>2 DEF matches
      <4> QED BY <3>2, <4>1, <4>2, <4>3
    <3> QED BY <3>1, <3>2
  <2>2. used \in [AllParams -> Pairs] /\ DOMAIN used = AllParams
    BY <2>1
  <2> HIDE DEF used
  <2>3. caller' = [caller EXCEPT ![t] = [pc |-> "executed", arguments |-> caller[t].arguments, used |-> used]]
    BY <1>4 DEF Computes
  <2> QED BY <1>1, <1>4, <2>1, <2>2, <2>3, UnchangedAccounted, CallGoesOn DEF InCall
<1> QED BY <1>2, <1>3, <1>4 DEF ExecuteCaptured

LEMMA ExecuteCompiledInv ==
  ASSUME NEW t \in Callers, CaptureInv, ExecuteCompiled(t)
  PROVE  CaptureInv'
<1> DEFINE used == [p \in AllParams |-> buffers[caller[t].arguments[p]]]
<1>1. /\ UNCHANGED <<executable, buffers, capture, programs>> /\ caller[t].pc = "uncaptured"
      /\ Active(t) /\ caller[t].used = <<>> /\ caller[t] \in CallerRecords /\ Accounted'
  BY UnchangedAccounted DEF ExecuteCompiled, Active, CaptureInv, CallerInv, CaptureTyped
<1>2. CASE Goto(t, "failed")
  BY <1>1, <1>2, CallMoves DEF InCall
<1>3. CASE Computes(t, "updating", used)
  <2>1. /\ used \in [AllParams -> Pairs] /\ DOMAIN used = AllParams
        /\ \A p \in AllParams : Sound(used[p], caller[t].arguments[p])
    BY <1>1, ArgumentsHeld
  <2> HIDE DEF used
  <2>2. caller' = [caller EXCEPT ![t] = [pc |-> "updating", arguments |-> caller[t].arguments, used |-> used]]
    BY <1>3 DEF Computes
  <2> QED BY <1>1, <2>1, <2>2, CallGoesOn DEF InCall
<1> QED BY <1>2, <1>3 DEF ExecuteCompiled

(* Another program may stand: then nothing is created or reset.            *)
LEMMA UpdateCaptureInv ==
  ASSUME NEW t \in Callers, CaptureInv, UpdateCapture(t)
  PROVE  CaptureInv'
<1>1. UNCHANGED <<executable, buffers>> /\ caller[t].pc = "updating" /\ Active(t)
  BY DEF UpdateCapture, Active
<1>2. CASE (Goto(t, "executed") \/ Goto(t, "failed")) /\ UNCHANGED <<capture, programs>>
  BY <1>1, <1>2, UnchangedAccounted, CallMoves DEF InCall
<1>3. CASE capture.program = NoProgram /\ Goto(t, "executed") /\ rememberBaseline(caller[t].arguments)
  <2>1. caller[t].arguments \in [AllParams -> Addresses]
    BY <1>1, ArgumentsHeld DEF CaptureInv, CallerInv
  <2>2. capture' \in CaptureRecords /\ capture'.program = NoProgram
    BY <1>3, <2>1 DEF rememberBaseline, CaptureInv, Accounted, CaptureRecords
  <2>3. Accounted'
    BY <1>1, <1>3, <2>2, SameBuffers DEF rememberBaseline, CaptureInv, Accounted
  <2> QED BY <1>1, <1>3, <2>3, CallMoves DEF InCall
<1>4. CASE /\ capture.program = NoProgram /\ Goto(t, "executed")
           /\ ConsumedParams \subseteq ChangedSince(capture.previous, caller[t].arguments)
           /\ CreateProgram(caller[t].arguments, ChangedSince(capture.previous, caller[t].arguments))
  BY <1>1, <1>4, CreateAccounted, CallMoves DEF ChangedSince, InCall
<1> QED BY <1>2, <1>3, <1>4 DEF UpdateCapture, ProgramStands
----------------------------------------------------------------------------
(* A call returns: what it gave away is no argument of another.            *)
LEMMA CallReturnsInv ==
  ASSUME NEW t \in Callers, CaptureInv, CallReturns(t)
  PROVE  CaptureInv'
<1> DEFINE given == {caller[t].arguments[p] : p \in ConsumedParams}
<1> USE DEF CaptureInv
<1>0. /\ UNCHANGED <<executable, capture, programs>> /\ Active(t)
      /\ caller' = [caller EXCEPT ![t] = Idle] /\ BufferLosses(given)
  BY DEF CallReturns, Active, BufferLosses
<1>1. /\ caller'[t] = Idle /\ \A u \in Callers \ {t} : caller'[u] = caller[u]
      /\ AllParams' = AllParams /\ ConsumedParams' = ConsumedParams
      /\ CallerRecords' = CallerRecords /\ CaptureRecords' = CaptureRecords
  BY <1>0 DEF CaptureTyped, AllParams, ConsumedParams, CallerRecords, CaptureRecords
<1>2. given \subseteq DonatedBy(t)
  <2>1. ConsumedParams \subseteq executable.donated \cap AllParams
    BY CaptureAssumption DEF ConsumedParams, AllParams, CaptureTyped
  <2>2. DOMAIN caller[t].arguments = AllParams
    BY <1>0 DEF CallerInv
  <2> QED BY <2>1, <2>2 DEF DonatedBy
<1> HIDE DEF given
<1>3. CaptureTyped'
  BY <1>0, <1>1, IdleTyped, LossesKeepShape DEF CaptureTyped
<1>4. CallerInv'
  <2> SUFFICES ASSUME NEW v \in Callers
               PROVE  /\ Active(v)' => /\ caller'[v].arguments \in [AllParams -> Live]'
                                       /\ \A u \in Callers \ {v} :
                                            Active(u)' => DonatedBy(u)' \cap ArgumentsOf(v)' = {}
                      /\ ~Active(v)' => caller'[v].arguments = <<>> /\ caller'[v].used = <<>>
                      /\ caller'[v].pc \in {"called", "prepared", "uncaptured"} => caller'[v].used = <<>>
                      /\ \A p \in DOMAIN caller'[v].used :
                           p \in AllParams' /\ Sound(caller[v].used[p], caller[v].arguments[p])'
    BY DEF CallerInv
  <2>1. CASE v = t
    BY <1>1, <2>1, EmptyDomain DEF Idle, Active
  <2>2. CASE v # t
    <3>1. caller'[v] = caller[v] /\ (Active(v)' <=> Active(v)) /\ ArgumentsOf(v)' = ArgumentsOf(v)
      BY <1>1, <2>2 DEF Active, ArgumentsOf
    <3>2. \A u \in Callers \ {t} : (Active(u)' <=> Active(u)) /\ DonatedBy(u)' = DonatedBy(u)
      BY <1>0, <1>1 DEF Active, DonatedBy
    <3>3. ~Active(t)'
      BY <1>1 DEF Idle, Active
    <3>4. ASSUME Active(v) PROVE caller[v].arguments \in [AllParams -> Live']
      <4>1. caller[v].arguments \in [AllParams -> Live] /\ given \cap ArgumentsOf(v) = {}
        BY <1>0, <1>2, <2>2, <3>4 DEF CallerInv
      <4>2. \A p \in AllParams : caller[v].arguments[p] \in Live \ given
        BY <4>1 DEF ArgumentsOf
      <4>3. Live \ given \subseteq Live'
        BY <1>0 DEF Live, BufferLosses
      <4> QED BY <4>1, <4>2, <4>3
    <3>5. ASSUME NEW p \in DOMAIN caller[v].used
          PROVE  p \in AllParams /\ Sound(caller[v].used[p], caller[v].arguments[p])'
      <4>1. Active(v) /\ p \in AllParams /\ Sound(caller[v].used[p], caller[v].arguments[p])
        BY EmptyDomain DEF CallerInv
      <4>2. caller[v].arguments[p] \in Addresses
        BY <4>1, ArgumentsHeld
      <4> QED BY <1>0, <3>1, <4>1, <4>2, LosingKeepsSound
    <3> QED BY <1>1, <3>1, <3>2, <3>3, <3>4, <3>5 DEF CallerInv
  <2> QED BY <2>1, <2>2
<1>5. Accounted'
  <2> SUFFICES ASSUME capture.program # NoProgram, NEW p \in DOMAIN capture.captured
               PROVE  Sound(capture.captured[p], capture.previous[p])'
    BY <1>0, <1>1 DEF Accounted
  <2>1. Sound(capture.captured[p], capture.previous[p]) /\ capture.previous[p] \in Addresses
    BY DEF Accounted
  <2> QED BY <1>0, <2>1, LosingKeepsSound
<1>6. GoneInv'
  BY <1>0, <1>1 DEF GoneInv, Active, Idle
<1> QED BY <1>3, <1>4, <1>5, <1>6

LEMMA DestroyStatesInv ==
  ASSUME CaptureInv, DestroyStates
  PROVE  CaptureInv'
<1> USE DEF CaptureInv
<1>0. UNCHANGED <<executable, buffers>> /\ Accounted' /\ capture'.program = NoProgram
  BY ResetAccounted DEF DestroyStates
<1>1. \A t \in Callers : caller'[t] = [pc |-> "gone", arguments |-> <<>>, used |-> <<>>]
  BY DEF DestroyStates, Idle
<1>2. CaptureTyped'
  <2>1. [pc |-> "gone", arguments |-> <<>>, used |-> <<>>] \in CallerRecords
    BY DEF CallerRecords
  <2>2. caller' \in [Callers -> CallerRecords]
    BY <2>1 DEF DestroyStates, Idle
  <2> QED BY <1>0, <2>2, SameBuffers DEF CaptureTyped
<1>3. CallerInv'
  BY <1>1, EmptyDomain DEF CallerInv, Active
<1>4. GoneInv'
  BY <1>0, <1>1 DEF GoneInv
<1> QED BY <1>0, <1>2, <1>3, <1>4
----------------------------------------------------------------------------
LEMMA CaptureNextInv == CaptureInv /\ [CaptureNext]_captureVars => CaptureInv'
<1> SUFFICES ASSUME CaptureInv, [CaptureNext]_captureVars PROVE CaptureInv'
  OBVIOUS
<1>1. CASE \E a \in Addresses : HostMakes(a) \/ HostDestroys(a)
  BY <1>1, HostMakesInv, HostDestroysInv
<1>2. CASE \E t \in Callers : \E arguments \in [AllParams -> Live] : HostCalls(t, arguments)
  BY <1>2, HostCallsInv
<1>3. ASSUME NEW t \in Callers,
             MaybeCreateInitial(t) \/ ExecuteCaptured(t) \/ ExecuteCompiled(t) \/ UpdateCapture(t) \/ CallReturns(t)
      PROVE  CaptureInv'
  BY <1>3, MaybeCreateInitialInv, ExecuteCapturedInv, ExecuteCompiledInv, UpdateCaptureInv, CallReturnsInv
<1>4. CASE DestroyStates
  BY <1>4, DestroyStatesInv
<1>5. CASE UNCHANGED captureVars
  <2>1. \A t : /\ Active(t)' <=> Active(t)
               /\ DonatedBy(t)' = DonatedBy(t) /\ ArgumentsOf(t)' = ArgumentsOf(t)
    BY <1>5 DEF captureVars, Active, DonatedBy, ArgumentsOf
  <2>2. CaptureTyped' /\ Accounted' /\ GoneInv'
    BY <1>5, SameBuffers DEF captureVars, CaptureInv, CaptureTyped, Accounted, GoneInv
  <2>3. CallerInv'
    BY <1>5, <2>1, SameBuffers DEF captureVars, CaptureInv, CallerInv
  <2> QED BY <2>2, <2>3 DEF CaptureInv
<1> QED BY <1>1, <1>2, <1>3, <1>4, <1>5 DEF CaptureNext

LEMMA CaptureInvariance == CaptureSpec => []CaptureInv
BY CaptureInitInv, CaptureNextInv, PTL DEF CaptureSpec

(* However the calls of several threads interleave with each other and with  *)
(* resets, no captured program leaks, none is left once the executable is    *)
(* gone, and none captured an argument that its run had consumed.          *)
THEOREM CapturedProgramsAccounted == CaptureSpec => []ProgramsAccounted
<1>1. CaptureInv => ProgramsAccounted
  <2> SUFFICES ASSUME CaptureInv PROVE ProgramsAccounted
    OBVIOUS
  <2>1. programs = {capture.program} \ {NoProgram} /\ ((\E t \in Callers : caller[t].pc = "gone") => programs = {})
    BY DEF CaptureInv, Accounted, GoneInv
  <2>2. ASSUME capture.program # NoProgram
        PROVE  /\ DOMAIN capture.captured = AllParams \ capture.dynamic
               /\ DOMAIN capture.captured \cap ConsumedParams = {}
               /\ NoBuffer \notin {capture.captured[p] : p \in DOMAIN capture.captured}
    BY <2>2 DEF CaptureInv, Accounted, Sound
  <2> QED BY <2>1, <2>2 DEF ProgramsAccounted
<1> QED BY <1>1, CaptureInvariance, PTL

(* A captured run computes from what its arguments hold or from what no live *)
(* buffer holds: it never sees another argument, of its call or another's.  *)
THEOREM CaptureIsFaithful == CaptureSpec => []CaptureFaithful
<1>1. CaptureInv => CaptureFaithful
  BY DEF CaptureInv, CallerInv, Sound, Held, CaptureFaithful
<1> QED BY <1>1, CaptureInvariance, PTL

--------------------------------------------------------------------------------
(* The three ways.                                                         *)

LEMMA Resting ==
  /\ RestingRequest \in Requests
  /\ RestingExecutable \in CaptureExecutables
  /\ RestingPlan \in SchedulePlans
BY BackendAssumption DEF RestingRequest, RestingExecutable, RestingPlan

LEMMA BackendInitImplements == BackendInit => Init /\ CaptureInit /\ ScheduleInit
<1> SUFFICES ASSUME BackendInit PROVE Init /\ CaptureInit /\ ScheduleInit
  OBVIOUS
<1>1. program \in Requests /\ executable \in CaptureExecutables /\ plan \in SchedulePlans
  BY Resting DEF BackendInit
<1>2. tracing \in BOOLEAN
  BY DEF BackendInit
<1> QED BY <1>1, <1>2 DEF BackendInit, Init, CaptureInit, ScheduleInit

LEMMA BackendNextImplements ==
  [BackendNext]_backendVars => /\ [Next]_vars
                               /\ [CaptureNext]_captureVars
                               /\ [ScheduleNext]_scheduleVars
BY DEF BackendNext, backendVars, ExecuteGraph, ExecuteProgram, ExecuteSchedule

(* executeExecutable does what the way it takes does, and the state of the   *)
(* other ways stays at rest (execution_call.zig).                          *)
THEOREM BackendImplementsItsWays == BackendSpec => Spec /\ CaptureSpec /\ ScheduleSpec
BY BackendInitImplements, BackendNextImplements, PTL DEF BackendSpec, Spec, CaptureSpec, ScheduleSpec

(* A Metal program run by the backend computes its graph and leaves the      *)
(* caller's arguments as they were.                                        *)
THEOREM BackendGraphCorrect == BackendSpec => [](RegistersCorrect /\ OutputsCorrect /\ ArgumentsIntact)
BY BackendImplementsItsWays, RegistersStayCorrect, OutputsStayCorrect, ArgumentsStayIntact, PTL

(* The Metal programs that the planner makes for the backend are well formed, *)
(* so that they are executed as their plans mean, and hold no memory for     *)
(* values that are dead.                                                   *)
THEOREM BackendPlannerIsRight == ASSUME Planned PROVE BackendSpec => []LoweringWellFormed
BY BackendImplementsItsWays, PlannerIsRight, PTL

(* Between two steps a call of such a program holds only what is needed.    *)
THEOREM BackendReleasesDead == ASSUME Planned PROVE BackendSpec => []DeadValuesReleased
BY BackendImplementsItsWays, PlannedReleasesAreTimely, PTL

(* The captured program of an executable run by the backend is accounted for, *)
(* and no run of it sees the argument of another.                          *)
THEOREM BackendCaptureCorrect == BackendSpec => [](ProgramsAccounted /\ CaptureFaithful)
BY BackendImplementsItsWays, CapturedProgramsAccounted, CaptureIsFaithful, PTL

(* An execution of the backend, whichever way it takes, loses no buffer.    *)
THEOREM BackendBuffersAccounted == ASSUME NoTopK PROVE BackendSpec => []BuffersAccounted
BY BackendImplementsItsWays, BuffersAreAccounted, PTL

(* Nor does it read a value that is not bound to what it means, or keep one  *)
(* past its last read.                                                     *)
THEOREM BackendBindingsFaithful == ASSUME NoTopK PROVE BackendSpec => []BindingsFollowLiveness
BY BackendImplementsItsWays, BindingsAreFaithful, PTL

LEMMA CaptureShape ==
  CaptureInv => /\ executable \in CaptureExecutables /\ programs \subseteq ProgramIds
                /\ \A t \in Callers : DOMAIN caller[t].used \subseteq DOMAIN caller[t].arguments
<1> SUFFICES ASSUME CaptureInv
             PROVE  /\ executable \in CaptureExecutables /\ programs \subseteq ProgramIds
                    /\ \A t \in Callers : DOMAIN caller[t].used \subseteq DOMAIN caller[t].arguments
  OBVIOUS
<1>1. executable \in CaptureExecutables /\ programs \subseteq ProgramIds
  <2>1. capture.program \in ProgramIds \cup {NoProgram} /\ programs = {capture.program} \ {NoProgram}
    BY DEF CaptureInv, Accounted, CaptureRecords
  <2> QED BY <2>1 DEF CaptureInv, CaptureTyped
<1>2. ASSUME NEW t \in Callers PROVE DOMAIN caller[t].used \subseteq DOMAIN caller[t].arguments
  <2>1. /\ Active(t) => caller[t].arguments \in [AllParams -> Live]
        /\ ~Active(t) => caller[t].used = <<>>
        /\ \A p \in DOMAIN caller[t].used : p \in AllParams
    BY DEF CaptureInv, CallerInv
  <2>2. CASE Active(t)
    <3>1. DOMAIN caller[t].arguments = AllParams
      BY <2>1, <2>2
    <3> QED BY <2>1, <3>1
  <2>3. CASE ~Active(t)
    <3>1. DOMAIN caller[t].used = {}
      BY <2>1, <2>3, EmptyDomain
    <3> QED BY <3>1
  <2> QED BY <2>2, <2>3
<1> QED BY <1>1, <1>2

(* The state of every way has its shape.                                   *)
THEOREM BackendTypesAreCorrect == ASSUME NoTopK PROVE BackendSpec => []BackendTypeOK
<1>1. TypeOK /\ ScheduleTypeOK /\ CaptureInv => BackendTypeOK
  BY CaptureShape DEF BackendTypeOK
<1> QED BY <1>1, BackendImplementsItsWays, TypeCorrect, ScheduleTypesAreCorrect, CaptureInvariance, PTL
================================================================================
