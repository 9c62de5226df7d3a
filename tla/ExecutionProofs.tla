--------------------------- MODULE ExecutionProofs ---------------------------
(***************************************************************************)
(* For every plan, any number of devices, parameters, outputs and buffers,  *)
(* and any number of calls: an execution leaks and shares no backend        *)
(* buffer, leaves nothing behind when it fails, returns outputs that can be *)
(* used when it does not, and donates all its arguments or none.            *)
(*                                                                         *)
(* The argument: a running call owns what it made (the buffers it wrapped   *)
(* and assigned are the ones that were not there before it), its donors     *)
(* are arguments, which were there, and each backend buffer has one owner,  *)
(* so what it does to the arguments cannot touch its outputs.              *)
(***************************************************************************)
EXTENDS Execution, FiniteSetTheorems, WellFoundedInduction, TLAPS

BufferRecords ==
  [state : {"free", "live", "deleted", "donated"}, readiness : {"ready", "failed"},
   storage : Handles \cup {None}, device : Devices \cup {None}]
ArrayStates == {"free", "live", "reset", "moved"}
ArgumentLists == {<<>>} \cup UNION {[1 .. n -> [Params -> Buffers]] : n \in Devices}
Calls ==
  [pc : {"idle", "dispatch", "wrap", "assign", "commit", "done", "failed"},
   devices : SUBSET Devices, device : Devices \cup {None}, args : ArgumentLists,
   keep : SUBSET Params, donors : SUBSET Buffers,
   pending : [Outputs -> Handles \cup {None}], wrapped : [Outputs -> Buffers \cup {None}],
   output_lists : [Devices -> [Outputs -> Buffers \cup {None}]], before : SUBSET Buffers]

TypeInv ==
  /\ plan \in Plans
  /\ buffer \in [Buffers -> BufferRecords]
  /\ array \in [Handles -> ArrayStates]
  /\ call \in Calls
  /\ calls \in 0 .. MaxCalls /\ deletes \in 0 .. MaxDeletes
  /\ corrupted \in {"no", "moved", "freed"}

(* The backend buffers of arrays a each belong to one of the buffers b, or  *)
(* to the outputs pend that are not wrapped yet.                            *)
OwnedOnce(b, a, pend) ==
  /\ \A x \in Buffers : b[x].storage # None => a[b[x].storage] # "free"
  /\ \A x, y \in Buffers : b[x].storage # None /\ b[x].storage = b[y].storage => x = y
  /\ \A o \in Outputs : pend[o] # None => a[pend[o]] # "free"
  /\ \A o, p \in Outputs : pend[o] # None /\ pend[o] = pend[p] => o = p
  /\ \A x \in Buffers, o \in Outputs : b[x].storage # None => b[x].storage # pend[o]
  /\ \A h \in Handles : a[h] # "free" =>
       (\E x \in Buffers : b[x].storage = h) \/ (\E o \in Outputs : pend[o] = h)

Tombstones(b) ==
  \A x \in Buffers : b[x].state # "live" => b[x].storage = None /\ b[x].readiness = "failed"

Running == call.pc \in {"dispatch", "wrap", "assign", "commit", "done"}

(* What each step of a call has made so far.                               *)
ProgressInv ==
  /\ call.pc = "idle" => call = Idle
  /\ call.pc # "wrap" => call.pending = NoOutputs
  /\ call.pc \notin {"wrap", "assign"} => call.wrapped = NoOutputs
  /\ call.pc = "wrap" =>
       /\ \A o \in Outputs : call.pending[o] = None <=> call.wrapped[o] # None
       /\ \E o \in Outputs : call.wrapped[o] = None
  /\ call.pc = "assign" => \A o \in Outputs : call.wrapped[o] # None
  /\ Running => call.device \in call.devices
  /\ call.pc \in {"commit", "done"} => \A d \in call.devices : d <= call.device
  /\ Running => \A d \in call.devices, o \in Outputs :
       call.output_lists[d][o] # None <=> d < call.device \/ call.pc \in {"commit", "done"}

(* The arguments were there before the call, and all else it made.         *)
ArgumentsInv ==
  Running =>
    /\ \E n \in Devices : call.devices = 1 .. n /\ call.args \in [1 .. n -> [Params -> Buffers]]
    /\ \A d \in call.devices, p \in Params : call.args[d][p] \in call.before
    /\ NoDonorAliases(call.devices, call.args, call.keep)

NewBuffers ==
  /\ call.pc = "failed" => Buffers \ FreeBuffers = call.before
  /\ Running =>
       /\ Buffers \ FreeBuffers = call.before \cup Held(call.wrapped) \cup AssignedOutputs
       /\ \A b \in Held(call.wrapped) \cup AssignedOutputs : b \notin call.before

(* The donors are arguments of the devices that ran, live until the commit. *)
Dispatched(d) == d < call.device \/ (d = call.device /\ call.pc # "dispatch")
DonorsInv ==
  Running =>
    /\ call.donors = {call.args[d][p] : d \in {e \in call.devices : Dispatched(e)},
                                        p \in plan.donated \ call.keep}
    /\ call.pc # "done" => \A b \in call.donors : buffer[b].state = "live"

Usable(b, d) ==
  /\ buffer[b].state = "live" /\ buffer[b].readiness = "ready" /\ buffer[b].device = d
  /\ buffer[b].storage # None
  /\ call.keep = {} => array[buffer[b].storage] = "live"

(* The outputs can be used, and the donors whose storage one will adopt.   *)
UsableInv ==
  /\ Running =>
       /\ \A o \in Outputs : call.wrapped[o] # None => Usable(call.wrapped[o], call.device)
       /\ \A d \in call.devices, o \in Outputs :
            call.output_lists[d][o] # None => Usable(call.output_lists[d][o], d)
  /\ \A o \in Outputs : call.pending[o] # None => array[call.pending[o]] = "live"
  /\ call.pc = "wrap" /\ call.keep = {} /\ corrupted = "no" =>
       \A o \in Outputs : \A b \in TakesFrom(o) :
         buffer[b].storage # None => array[buffer[b].storage] = "live"
  /\ corrupted # "no" => call.pc \in {"wrap", "failed"}

IInv ==
  /\ TypeInv /\ OwnedOnce(buffer, array, call.pending) /\ Tombstones(buffer)
  /\ ProgressInv /\ ArgumentsInv /\ NewBuffers /\ DonorsInv /\ UsableInv

----------------------------------------------------------------------------
(* Lemmas about the operators of the model.                                *)

USE DEF None

(* A set of numbers that is not empty has a least one.                     *)
LEMMA LeastIsIn ==
  ASSUME NEW S \in SUBSET Nat, S # {}
  PROVE  Least(S) \in S
<1> DEFINE Below == {pair \in Nat \X Nat : pair[1] < pair[2]}
<1>1. IsWellFoundedOn(Below, Nat)
  BY NatLessThanWellFounded DEF OpToRel
<1> HIDE DEF Below
<1>2. \E n \in S : \A m \in S : <<m, n>> \notin Below
  BY <1>1, WFMin
<1>3. PICK n \in S : \A m \in S : <<m, n>> \notin Below
  BY <1>2
<1>4. \A i, j \in Nat : <<i, j>> \notin Below => j <= i
  BY DEF Below
<1>5. \A m \in S : n <= m
  BY <1>3, <1>4
<1> QED
  BY <1>5 DEF Least

(* Zero numbers nothing.                                                   *)
LEMMA Numbering ==
  /\ Handles \subseteq Nat \ {0} /\ Buffers \subseteq Nat \ {0} /\ Devices \subseteq Nat \ {0}
  /\ Outputs \subseteq Nat \ {0} /\ Params \subseteq Nat \ {0}
  /\ Outputs # {}
BY ExecutionAssumption DEF Handles, Buffers, Devices, Outputs, Params

(* The alias of an output is one donated parameter, and if it is adopted   *)
(* whole then the backend did not consume it.                              *)
LEMMA AliasOfOutput ==
  ASSUME plan \in Plans, NEW o \in Outputs
  PROVE  /\ \A a \in aliasForOutput(o) :
              /\ a.parameter \in plan.donated /\ a.parameter \in Params
              /\ a.kind = "identity" => parameterFeedsIdentityOutput(a.parameter)
         /\ \A a, b \in aliasForOutput(o) : a = b
<1> DEFINE aliases == {a \in plan.output_aliases : a.output = o}
           first == CHOOSE a \in aliases : TRUE
<1>1. /\ plan.donated \subseteq Params
      /\ plan.output_aliases \subseteq
            [output : Outputs, parameter : plan.donated, kind : {"identity", "donation"}]
  BY ExecutionAssumption
<1>2. CASE aliases # {}
  <2>1. first \in plan.output_aliases
    BY <1>2
  <2>2. aliasForOutput(o) = {[parameter |-> first.parameter, kind |-> first.kind]}
    BY <1>2 DEF aliasForOutput
  <2>3. first.parameter \in plan.donated
    BY <1>1, <2>1
  <2>4. first.kind = "identity" => parameterFeedsIdentityOutput(first.parameter)
    BY <2>1 DEF parameterFeedsIdentityOutput
  <2> HIDE DEF first, aliases
  <2> QED
    BY <1>1, <2>2, <2>3, <2>4
<1>3. CASE aliases = {}
  <2>1. aliasForOutput(o) =
          {[parameter |-> p, kind |-> "identity"] : p \in {plan.output_ids[o]} \cap plan.donated}
    BY <1>3 DEF aliasForOutput
  <2>2. plan.output_ids[o] \in plan.donated => parameterFeedsIdentityOutput(plan.output_ids[o])
    BY DEF parameterFeedsIdentityOutput
  <2> QED
    BY <1>1, <2>1, <2>2
<1> QED
  BY <1>2, <1>3

(* What is held, and what a call gave to the host so far.                  *)
LEMMA HeldIs ==
  \A f, x : x \in Held(f) <=> \E o \in Outputs : f[o] # None /\ x = f[o]
BY DEF Held

LEMMA AssignedIs ==
  \A x : x \in AssignedOutputs <=>
           \E d \in call.devices : \E o \in Outputs :
             call.output_lists[d][o] # None /\ x = call.output_lists[d][o]
BY DEF AssignedOutputs, Held

LEMMA OutputsAreBuffers ==
  ASSUME call \in Calls
  PROVE  Held(call.wrapped) \subseteq Buffers /\ AssignedOutputs \subseteq Buffers
<1>1. \A o \in Outputs : call.wrapped[o] \in Buffers \cup {None}
  BY DEF Calls
<1>2. \A d \in call.devices : \A o \in Outputs : call.output_lists[d][o] \in Buffers \cup {None}
  BY DEF Calls
<1> QED
  BY <1>1, <1>2, HeldIs, AssignedIs

(* The backend buffers in gone are destroyed, their owners let go of them, *)
(* and each of the others still has one owner.                             *)
Released(gone, b, a, pend, b2, a2, pend2) ==
  /\ \A x \in Buffers : b[x].storage \in Handles \cup {None}
  /\ \A o \in Outputs : pend[o] \in Handles \cup {None}
  /\ \A x \in Buffers : b2[x].storage = IF b[x].storage \in gone THEN None ELSE b[x].storage
  /\ \A o \in Outputs : pend2[o] = IF pend[o] \in gone THEN None ELSE pend[o]
  /\ \A h \in Handles : a2[h] = "free" <=> h \in gone \/ a[h] = "free"

LEMMA Releasing ==
  ASSUME NEW gone, NEW b, NEW a, NEW pend, NEW b2, NEW a2, NEW pend2,
         OwnedOnce(b, a, pend), Released(gone, b, a, pend, b2, a2, pend2)
  PROVE  OwnedOnce(b2, a2, pend2)
<1>1. \A x \in Buffers : b2[x].storage # None =>
        b2[x].storage = b[x].storage /\ b[x].storage \in Handles \ gone
  BY Numbering DEF Released
<1>2. \A o \in Outputs : pend2[o] # None => pend2[o] = pend[o] /\ pend[o] \in Handles \ gone
  BY Numbering DEF Released
<1>3. \A h \in Handles : a2[h] # "free" => h \notin gone /\ a[h] # "free"
  BY DEF Released
<1>4. \A h \in Handles \ gone : a[h] # "free" => a2[h] # "free"
  BY DEF Released
<1>5. \A h \in Handles : a2[h] # "free" =>
        (\E x \in Buffers : b2[x].storage = h) \/ (\E o \in Outputs : pend2[o] = h)
  BY <1>3 DEF OwnedOnce, Released
<1>6. /\ \A x \in Buffers : b2[x].storage # None => a2[b2[x].storage] # "free"
      /\ \A o \in Outputs : pend2[o] # None => a2[pend2[o]] # "free"
  BY <1>1, <1>2, <1>4 DEF OwnedOnce
<1>7. /\ \A x, y \in Buffers : b2[x].storage # None /\ b2[x].storage = b2[y].storage => x = y
      /\ \A o, p \in Outputs : pend2[o] # None /\ pend2[o] = pend2[p] => o = p
      /\ \A x \in Buffers, o \in Outputs : b2[x].storage # None => b2[x].storage # pend2[o]
  BY <1>1, <1>2 DEF OwnedOnce
<1> QED
  BY <1>5, <1>6, <1>7 DEF OwnedOnce

(* Buffer x, which owns nothing, takes the backend buffer of output o.      *)
Handed(x, o, b, a, pend, b2, a2, pend2) ==
  /\ \A y \in Buffers : b[y].storage \in Handles \cup {None}
  /\ \A q \in Outputs : pend[q] \in Handles \cup {None}
  /\ x \in Buffers /\ b[x].storage = None
  /\ o \in Outputs /\ pend[o] # None
  /\ \A y \in Buffers : b2[y].storage = IF y = x THEN pend[o] ELSE b[y].storage
  /\ \A q \in Outputs : pend2[q] = IF q = o THEN None ELSE pend[q]
  /\ \A h \in Handles : a2[h] = a[h]

LEMMA Handing ==
  ASSUME NEW x, NEW o, NEW b, NEW a, NEW pend, NEW b2, NEW a2, NEW pend2,
         OwnedOnce(b, a, pend), Handed(x, o, b, a, pend, b2, a2, pend2)
  PROVE  OwnedOnce(b2, a2, pend2)
<1>1. /\ \A y \in Buffers : b2[y].storage # None => a2[b2[y].storage] # "free"
      /\ \A q \in Outputs : pend2[q] # None => a2[pend2[q]] # "free"
  BY DEF OwnedOnce, Handed
<1>2. /\ \A y, z \in Buffers : b2[y].storage # None /\ b2[y].storage = b2[z].storage => y = z
      /\ \A q, p \in Outputs : pend2[q] # None /\ pend2[q] = pend2[p] => q = p
  BY DEF OwnedOnce, Handed
<1>3. \A y \in Buffers, q \in Outputs : b2[y].storage # None => b2[y].storage # pend2[q]
  BY DEF OwnedOnce, Handed
<1>4. \A h \in Handles : a2[h] # "free" =>
        (\E y \in Buffers : b2[y].storage = h) \/ (\E q \in Outputs : pend2[q] = h)
  <2> SUFFICES ASSUME NEW h \in Handles, a2[h] # "free"
               PROVE  (\E y \in Buffers : b2[y].storage = h) \/ (\E q \in Outputs : pend2[q] = h)
    OBVIOUS
  <2>1. CASE pend[o] = h
    BY <2>1 DEF Handed
  <2>2. CASE \E q \in Outputs : pend[q] = h /\ q # o
    BY <2>2 DEF Handed
  <2>3. CASE \E y \in Buffers : b[y].storage = h
    BY <2>3, Numbering DEF Handed
  <2> QED
    BY <2>1, <2>2, <2>3 DEF OwnedOnce, Handed
<1> QED
  BY <1>1, <1>2, <1>3, <1>4 DEF OwnedOnce

(* Buffer x, which owns nothing, takes the backend buffer of buffer t.      *)
Moved(x, t, b, b2) ==
  /\ x \in Buffers /\ t \in Buffers /\ x # t /\ b[x].storage = None
  /\ \A y \in Buffers :
       b2[y].storage = IF y = x THEN b[t].storage ELSE IF y = t THEN None ELSE b[y].storage

LEMMA Moving ==
  ASSUME NEW x, NEW t, NEW b, NEW a, NEW pend, NEW b2, OwnedOnce(b, a, pend), Moved(x, t, b, b2)
  PROVE  OwnedOnce(b2, a, pend)
<1>1. \A y \in Buffers : b2[y].storage # None =>
         \E z \in Buffers : b2[y].storage = b[z].storage /\ z = (IF y = x THEN t ELSE y) /\ y # t
  BY DEF Moved
<1>2. /\ \A y \in Buffers : b2[y].storage # None => a[b2[y].storage] # "free"
      /\ \A y \in Buffers, q \in Outputs : b2[y].storage # None => b2[y].storage # pend[q]
  BY <1>1 DEF OwnedOnce
<1>3. \A y, z \in Buffers : b2[y].storage # None /\ b2[y].storage = b2[z].storage => y = z
  BY <1>1 DEF OwnedOnce
<1>4. \A h \in Handles : a[h] # "free" =>
        (\E y \in Buffers : b2[y].storage = h) \/ (\E q \in Outputs : pend[q] = h)
  <2> SUFFICES ASSUME NEW h \in Handles, NEW z \in Buffers, b[z].storage = h
               PROVE  \E y \in Buffers : b2[y].storage = h
    BY DEF OwnedOnce
  <2> QED
    BY Numbering DEF Moved
<1> QED
  BY <1>2, <1>3, <1>4 DEF OwnedOnce

----------------------------------------------------------------------------
(* The invariant holds at first.                                           *)

LEMMA InitIInv == Init => IInv
<1> SUFFICES ASSUME Init PROVE IInv
  OBVIOUS
<1> USE Numbering, ExecutionAssumption
<1>1. call = Idle /\ call \in Calls
  BY DEF Init, Idle, Calls, ArgumentLists, NoOutputs
<1>2. buffer \in [Buffers -> BufferRecords]
  BY DEF Init, BufferRecords, LiveBuffer, FreeBuffer, Handles, Buffers
<1>3. TypeInv
  BY <1>1, <1>2 DEF Init, TypeInv, ArrayStates
<1>4. OwnedOnce(buffer, array, call.pending)
  <2>1. \A x \in Buffers : buffer[x].storage = IF x \in DOMAIN HostBuffers THEN x ELSE 0
    BY DEF Init, LiveBuffer, FreeBuffer
  <2>2. \A o \in Outputs : call.pending[o] = 0
    BY <1>1 DEF Idle, NoOutputs
  <2>3. \A h \in Handles : array[h] = IF h \in DOMAIN HostBuffers THEN "live" ELSE "free"
    BY DEF Init
  <2>4. DOMAIN HostBuffers \subseteq Handles /\ Buffers = Handles /\ \A x \in Buffers : x # 0
    BY DEF Handles, Buffers
  <2> QED
    BY <2>1, <2>2, <2>3, <2>4 DEF OwnedOnce
<1>5. Tombstones(buffer)
  BY DEF Init, Tombstones, LiveBuffer, FreeBuffer
<1>6. ProgressInv /\ ArgumentsInv /\ NewBuffers /\ DonorsInv
  BY <1>1 DEF Idle, ProgressInv, ArgumentsInv, NewBuffers, DonorsInv, Running
<1>7. UsableInv
  BY <1>1 DEF Init, Idle, UsableInv, Running, NoOutputs
<1> QED
  BY <1>3, <1>4, <1>5, <1>6, <1>7 DEF IInv

----------------------------------------------------------------------------
(* A call that fails.                                                      *)

LEMMA Failing ==
  ASSUME IInv, Running, NEW b \in [Buffers -> BufferRecords], NEW a \in [Handles -> ArrayStates],
         \A x \in Buffers : b[x].state = buffer[x].state,
         Tombstones(b), OwnedOnce(b, a, NoOutputs),
         FailCall(b, a, Held(call.wrapped)), corrupted' \in {"no", "moved", "freed"}
  PROVE  IInv'
<1> DEFINE gone == Held(call.wrapped) \cup AssignedOutputs
           storages == {b[x].storage : x \in gone}
<1> USE Numbering
<1>0. call' = [pc |-> "failed", devices |-> call.devices, device |-> 0, args |-> call.args,
               keep |-> call.keep, donors |-> {}, pending |-> NoOutputs, wrapped |-> NoOutputs,
               output_lists |-> [d \in Devices |-> NoOutputs], before |-> call.before]
  BY DEF FailCall, Idle
<1>1. /\ call'.pc = "failed" /\ call'.pending = NoOutputs /\ call'.wrapped = NoOutputs
      /\ call'.before = call.before /\ call' \in Calls
  <2>1. /\ call.devices \in SUBSET Devices /\ call.args \in ArgumentLists
        /\ call.keep \in SUBSET Params /\ call.before \in SUBSET Buffers
    BY DEF IInv, TypeInv, Calls
  <2>2. /\ NoOutputs \in [Outputs -> Handles \cup {0}]
        /\ NoOutputs \in [Outputs -> Buffers \cup {0}]
    BY DEF NoOutputs
  <2> QED
    BY <1>0, <2>1, <2>2 DEF Calls
<1>2. gone \subseteq Buffers
  BY OutputsAreBuffers DEF IInv, TypeInv
<1>3. /\ buffer' = [x \in Buffers |-> IF x \in gone THEN FreeBuffer ELSE b[x]]
      /\ array' = [h \in Handles |-> IF h \in storages THEN "free" ELSE a[h]]
      /\ UNCHANGED <<plan, calls, deletes>>
  BY DEF FailCall
<1> HIDE DEF gone
<1>4. FreeBuffer \in BufferRecords /\ FreeBuffer.storage = 0
  BY DEF FreeBuffer, BufferRecords
<1>5. buffer' \in [Buffers -> BufferRecords] /\ array' \in [Handles -> ArrayStates]
  BY <1>3, <1>4 DEF ArrayStates
<1>6. TypeInv'
  BY <1>1, <1>3, <1>5 DEF IInv, TypeInv
<1>7. OwnedOnce(buffer', array', NoOutputs)
  <2>1. \A x \in Buffers : b[x].storage \in Handles \cup {0}
    BY DEF BufferRecords
  <2>2. \A x \in Buffers : buffer'[x].storage = IF x \in gone THEN 0 ELSE b[x].storage
    BY <1>3, <1>4
  <2>3. \A h \in Handles : array'[h] = IF \E x \in gone : b[x].storage = h THEN "free" ELSE a[h]
    BY <1>3
  <2>4. \A o \in Outputs : NoOutputs[o] = 0
    BY DEF NoOutputs
  <2> QED
    BY <1>2, <2>1, <2>2, <2>3, <2>4 DEF OwnedOnce
<1>8. Tombstones(buffer)'
  BY <1>3 DEF Tombstones, FreeBuffer
<1>9. (Buffers \ FreeBuffers)' = call.before
  <2>1. Buffers \ FreeBuffers = call.before \cup gone
    BY DEF IInv, NewBuffers, gone
  <2>2. \A x \in gone : x \notin call.before
    BY DEF IInv, NewBuffers, gone
  <2>3. \A x \in Buffers : buffer'[x].state = IF x \in gone THEN "free" ELSE buffer[x].state
    BY <1>3 DEF FreeBuffer
  <2> QED
    BY <1>2, <2>1, <2>2, <2>3 DEF FreeBuffers
<1>10. ProgressInv' /\ ArgumentsInv' /\ DonorsInv'
  BY <1>1 DEF ProgressInv, ArgumentsInv, DonorsInv, Running
<1>11. NewBuffers'
  BY <1>1, <1>9 DEF NewBuffers, Running
<1>12. UsableInv'
  BY <1>1 DEF UsableInv, Running, NoOutputs
<1> QED
  BY <1>1, <1>6, <1>7, <1>8, <1>10, <1>11, <1>12 DEF IInv

----------------------------------------------------------------------------
(* Before a call and after it.                                             *)

LEMMA ExecuteStep ==
  ASSUME IInv, corrupted = "no", NEW n \in Devices, NEW keep \in SUBSET Params,
         NEW args \in [1 .. n -> [Params -> Buffers \ FreeBuffers]], Execute(n, args, keep)
  PROVE  IInv'
<1> USE Numbering
<1>1. call' = [pc |-> "dispatch", devices |-> 1 .. n, device |-> 1, args |-> args,
               keep |-> keep, donors |-> {}, pending |-> NoOutputs, wrapped |-> NoOutputs,
               output_lists |-> [d \in Devices |-> NoOutputs], before |-> Buffers \ FreeBuffers]
  BY DEF Execute, Idle
<1>2. 1 \in 1 .. n /\ 1 .. n \subseteq Devices /\ args \in [1 .. n -> [Params -> Buffers]]
  BY ExecutionAssumption DEF Devices
<1>3. call' \in Calls
  <2>1. args \in ArgumentLists
    BY <1>2 DEF ArgumentLists
  <2>2. /\ NoOutputs \in [Outputs -> Handles \cup {0}]
        /\ NoOutputs \in [Outputs -> Buffers \cup {0}]
    BY DEF NoOutputs
  <2> QED
    BY <1>1, <1>2, <2>1, <2>2 DEF Calls
<1>4. TypeInv'
  <2>1. calls' \in 0 .. MaxCalls
    BY ExecutionAssumption DEF Execute, IInv, TypeInv
  <2> QED
    BY <1>3, <2>1 DEF Execute, IInv, TypeInv
<1>5. OwnedOnce(buffer, array, call.pending)' /\ Tombstones(buffer)'
  <2>1. call.pending = NoOutputs /\ call'.pending = NoOutputs
    BY <1>1 DEF IInv, ProgressInv, Execute
  <2>2. buffer' = buffer /\ array' = array
    BY DEF Execute
  <2>3. OwnedOnce(buffer, array, NoOutputs) /\ Tombstones(buffer)
    BY <2>1 DEF IInv
  <2>4. OwnedOnce(buffer', array', NoOutputs) /\ Tombstones(buffer')
    BY <2>2, <2>3
  <2> QED
    BY <2>1, <2>4
<1>6. ProgressInv'
  <2>1. \A d \in call'.devices, o \in Outputs : call'.output_lists[d][o] = None /\ ~(d < call'.device)
    BY <1>1, <1>2 DEF NoOutputs
  <2> QED
    BY <1>1, <1>2, <2>1 DEF ProgressInv, Running
<1>7. ArgumentsInv'
  <2>1. \A d \in 1 .. n, p \in Params : args[d][p] \in Buffers \ FreeBuffers
    OBVIOUS
  <2>2. NoDonorAliases(1 .. n, args, keep)'
    BY DEF Execute, NoDonorAliases
  <2> QED
    BY <1>1, <1>2, <2>1, <2>2 DEF ArgumentsInv
<1>8. Held(call.wrapped)' = {} /\ (AssignedOutputs)' = {}
  BY <1>1, <1>2 DEF Held, AssignedOutputs, NoOutputs
<1>9. NewBuffers'
  <2>1. FreeBuffers' = FreeBuffers
    <3>1. buffer' = buffer
      BY DEF Execute
    <3> QED
      BY <3>1 DEF FreeBuffers
  <2>2. call'.before = Buffers \ FreeBuffers /\ call'.pc = "dispatch"
    BY <1>1
  <2> QED
    BY <1>8, <2>1, <2>2 DEF NewBuffers
<1>10. DonorsInv'
  <2>1. \A d \in 1 .. n : ~Dispatched(d)'
    BY <1>1 DEF Dispatched
  <2> QED
    BY <1>1, <2>1 DEF DonorsInv
<1>11. UsableInv'
  <2>1. \A o \in Outputs : call'.wrapped[o] = None /\ call'.pending[o] = None
    BY <1>1 DEF NoOutputs
  <2>2. \A d \in call'.devices, o \in Outputs : call'.output_lists[d][o] = None
    BY <1>1, <1>2 DEF NoOutputs
  <2>3. call'.pc = "dispatch" /\ corrupted' = "no"
    BY <1>1 DEF Execute
  <2> QED
    BY <2>1, <2>2, <2>3 DEF UsableInv
<1> QED
  BY <1>4, <1>5, <1>6, <1>7, <1>9, <1>10, <1>11 DEF IInv

(* Between calls, only the buffers have something to say.                  *)
LEMMA IdleIInv ==
  ASSUME call' = Idle, TypeInv', corrupted' = "no",
         OwnedOnce(buffer', array', NoOutputs), Tombstones(buffer)'
  PROVE  IInv'
<1>1. call'.pc = "idle" /\ call'.pending = NoOutputs /\ call'.wrapped = NoOutputs
  BY DEF Idle
<1>2. ProgressInv' /\ ArgumentsInv' /\ NewBuffers' /\ DonorsInv'
  BY <1>1 DEF ProgressInv, ArgumentsInv, NewBuffers, DonorsInv, Running, Idle
<1>3. UsableInv'
  BY <1>1 DEF UsableInv, Running, NoOutputs
<1> QED
  BY <1>1, <1>2, <1>3 DEF IInv

LEMMA IdleIsCall == Idle \in Calls
BY Numbering DEF Idle, Calls, ArgumentLists, NoOutputs

LEMMA ReturnStep ==
  ASSUME IInv, corrupted = "no", Return
  PROVE  IInv'
<1>1. call' = Idle /\ UNCHANGED <<plan, buffer, array, calls, deletes, corrupted>>
  BY DEF Return
<1>2. TypeInv'
  BY <1>1, IdleIsCall DEF IInv, TypeInv
<1>3. call.pending = NoOutputs
  BY DEF IInv, ProgressInv, Return
<1>4. OwnedOnce(buffer', array', NoOutputs) /\ Tombstones(buffer)'
  BY <1>1, <1>3 DEF IInv, Tombstones
<1> QED
  BY <1>1, <1>2, <1>4, IdleIInv

(* The host gives up a buffer: it becomes t, without storage.              *)
LEMMA GivingUp ==
  ASSUME IInv, corrupted = "no", call.pc = "idle", NEW b \in Buffers, NEW t \in BufferRecords,
         t.storage = None, t.state # "live", t.readiness = "failed",
         buffer' = [buffer EXCEPT ![b] = t], array' = Destroyed(Storages({b})),
         deletes < MaxDeletes, deletes' = deletes + 1, UNCHANGED <<plan, call, calls, corrupted>>
  PROVE  IInv'
<1> USE Numbering
<1>1. call = Idle /\ call.pending = NoOutputs
  BY DEF IInv, ProgressInv
<1>2. \A h \in Handles : array'[h] = IF h = buffer[b].storage THEN "free" ELSE array[h]
  BY DEF Destroyed, Storages
<1>3. TypeInv'
  <2>1. deletes' \in 0 .. MaxDeletes
    BY ExecutionAssumption DEF IInv, TypeInv
  <2>2. buffer' \in [Buffers -> BufferRecords]
    BY DEF IInv, TypeInv
  <2>3. array' \in [Handles -> ArrayStates]
    BY DEF IInv, TypeInv, ArrayStates, Destroyed
  <2> QED
    BY <2>1, <2>2, <2>3 DEF IInv, TypeInv
<1>4. OwnedOnce(buffer', array', NoOutputs)
  <2>1. OwnedOnce(buffer, array, NoOutputs)
    BY <1>1 DEF IInv
  <2> DEFINE gone == {buffer[b].storage}
  <2>2. \A x \in Buffers : buffer'[x].storage = IF x = b THEN None ELSE buffer[x].storage
    BY DEF IInv, TypeInv
  <2>3. \A x \in Buffers : buffer[x].storage \in Handles \cup {None}
    BY DEF IInv, TypeInv, BufferRecords
  <2>4. /\ \A o \in Outputs : NoOutputs[o] \in Handles \cup {None}
        /\ \A o \in Outputs : NoOutputs[o] = IF NoOutputs[o] \in gone THEN None ELSE NoOutputs[o]
    BY DEF NoOutputs
  <2>5. \A x \in Buffers : buffer'[x].storage =
           IF buffer[x].storage \in gone THEN None ELSE buffer[x].storage
    BY <2>1, <2>2 DEF OwnedOnce
  <2>6. \A h \in Handles : array'[h] = "free" <=> h \in gone \/ array[h] = "free"
    BY <1>2
  <2> HIDE DEF gone
  <2>7. Released(gone, buffer, array, NoOutputs, buffer', array', NoOutputs)
    BY <2>3, <2>4, <2>5, <2>6 DEF Released
  <2> QED
    BY <2>1, <2>7, Releasing
<1>5. Tombstones(buffer)'
  <2>1. \A x \in Buffers : buffer'[x] = IF x = b THEN t ELSE buffer[x]
    BY DEF IInv, TypeInv
  <2> QED
    BY <2>1 DEF IInv, Tombstones
<1> QED
  BY <1>1, <1>3, <1>4, <1>5, IdleIInv

LEMMA TombstoneRecord ==
  ASSUME TypeInv, NEW b \in Buffers, NEW state \in {"deleted", "donated"}
  PROVE  /\ Tombstone(b, state) \in BufferRecords
         /\ Tombstone(b, state).state = state /\ Tombstone(b, state).readiness = "failed"
         /\ Tombstone(b, state).storage = None
<1>1. buffer[b] \in BufferRecords
  BY DEF TypeInv
<1> QED
  BY <1>1 DEF Tombstone, BufferRecords

LEMMA DeleteStep ==
  ASSUME IInv, corrupted = "no", NEW b \in Buffers, DeleteBuffer(b)
  PROVE  IInv'
<1>1. TypeInv
  BY DEF IInv
<1> QED
  BY <1>1, TombstoneRecord, GivingUp DEF DeleteBuffer

LEMMA DestroyStep ==
  ASSUME IInv, corrupted = "no", NEW b \in Buffers, DestroyBuffer(b)
  PROVE  IInv'
<1>1. FreeBuffer \in BufferRecords
  BY DEF FreeBuffer, BufferRecords
<1>2. FreeBuffer.storage = None /\ FreeBuffer.state = "free" /\ FreeBuffer.readiness = "failed"
  BY DEF FreeBuffer
<1> QED
  BY <1>1, <1>2, GivingUp DEF DestroyBuffer

----------------------------------------------------------------------------
(* What the steps of a call read.                                          *)

LEMMA Typing ==
  ASSUME IInv
  PROVE  /\ \A x \in Buffers : buffer[x].storage \in Handles \cup {None}
         /\ \A o \in Outputs : call.pending[o] \in Handles \cup {None}
         /\ \A o \in Outputs : call.wrapped[o] \in Buffers \cup {None}
         /\ plan.donated \subseteq Params /\ call.before \subseteq Buffers
<1>1. buffer \in [Buffers -> BufferRecords] /\ call \in Calls /\ plan \in Plans
  BY DEF IInv, TypeInv
<1> QED
  BY <1>1, ExecutionAssumption DEF BufferRecords, Calls

(* An argument is a buffer that was there before the call, and still is.   *)
LEMMA ArgumentsAre ==
  ASSUME IInv, Running, NEW p \in Params
  PROVE  /\ call.args[call.device][p] \in call.before
         /\ call.args[call.device][p] \in Buffers \ FreeBuffers
<1>1. call.args[call.device][p] \in call.before
  BY DEF IInv, ProgressInv, ArgumentsInv
<1>2. call.before \subseteq Buffers \ FreeBuffers
  BY DEF IInv, NewBuffers
<1> QED
  BY <1>1, <1>2

LEMMA TakesFromArgument ==
  ASSUME IInv, Running, NEW o \in Outputs
  PROVE  /\ TakesFrom(o) \subseteq call.before \cap (Buffers \ FreeBuffers)
         /\ \A x, y \in TakesFrom(o) : x = y
         /\ \A x \in TakesFrom(o) : \E p \in plan.donated :
              x = call.args[call.device][p] /\ parameterFeedsIdentityOutput(p)
         /\ ~DonorStorageGone(o) => \A x \in TakesFrom(o) : buffer[x].storage \in Handles
<1>1. plan \in Plans
  BY DEF IInv, TypeInv
<1>2. /\ \A a \in aliasForOutput(o) :
              /\ a.parameter \in plan.donated /\ a.parameter \in Params
              /\ a.kind = "identity" => parameterFeedsIdentityOutput(a.parameter)
      /\ \A a, b \in aliasForOutput(o) : a = b
  BY <1>1, AliasOfOutput
<1>3. \A x \in TakesFrom(o) : \E a \in aliasForOutput(o) :
         a.kind = "identity" /\ x = call.args[call.device][a.parameter]
  BY DEF TakesFrom, AliasedArgument
<1>4. TakesFrom(o) \subseteq call.before \cap (Buffers \ FreeBuffers)
  BY <1>1, <1>2, <1>3, ArgumentsAre
<1>5. ~DonorStorageGone(o) => \A x \in TakesFrom(o) : buffer[x].storage \in Handles
  <2> SUFFICES ASSUME ~DonorStorageGone(o), NEW x \in TakesFrom(o)
               PROVE  buffer[x].storage \in Handles
    OBVIOUS
  <2>1. PICK a \in aliasForOutput(o) : x = AliasedArgument(a)
    BY DEF TakesFrom
  <2>2. buffer[x].storage # None
    BY <2>1 DEF DonorStorageGone
  <2>3. buffer[x].storage \in Handles \cup {None}
    BY <1>4, Typing
  <2> QED
    BY <2>2, <2>3
<1> QED
  BY <1>2, <1>3, <1>4, <1>5

LEMMA NextOutputIs ==
  ASSUME IInv, call.pc = "wrap"
  PROVE  /\ NextOutput \in Outputs /\ call.wrapped[NextOutput] = None
         /\ call.pending[NextOutput] \in Handles
<1>1. {o \in Outputs : call.wrapped[o] = None} \in SUBSET Nat
  BY Numbering
<1>2. {o \in Outputs : call.wrapped[o] = None} # {}
  BY DEF IInv, ProgressInv
<1>3. NextOutput \in {o \in Outputs : call.wrapped[o] = None}
  BY <1>1, <1>2, LeastIsIn DEF NextOutput
<1>4. call.pending[NextOutput] # None
  BY <1>3 DEF IInv, ProgressInv
<1> QED
  BY <1>3, <1>4, Typing

----------------------------------------------------------------------------
(* The ways a call fails.                                                  *)

LEMMA DispatchRefusedStep ==
  ASSUME IInv, corrupted = "no", DispatchRefused
  PROVE  IInv'
<1>1. call.pending = NoOutputs /\ call.wrapped = NoOutputs /\ Running
  BY DEF IInv, ProgressInv, DispatchRefused, Running
<1>2. Held(call.wrapped) = {}
  BY <1>1 DEF Held, NoOutputs
<1>3. /\ buffer \in [Buffers -> BufferRecords] /\ array \in [Handles -> ArrayStates]
      /\ Tombstones(buffer) /\ OwnedOnce(buffer, array, NoOutputs)
  BY <1>1 DEF IInv, TypeInv
<1> QED
  BY <1>1, <1>2, <1>3, Failing DEF DispatchRefused

LEMMA ConsumedIsOwned ==
  ASSUME IInv, call.pc = "dispatch", Dispatchable
  PROVE  /\ \A p \in Params : Input(p) \in Handles /\ array[Input(p)] \in {"live", "moved"}
         /\ donatedProgramInputIndices \subseteq Params
         /\ Consumed \subseteq Handles
<1>1. Running /\ array \in [Handles -> ArrayStates]
  BY DEF Running, IInv, TypeInv
<1>2. \A p \in Params : Input(p) \in Handles /\ array[Input(p)] \in {"live", "moved"}
  <2> TAKE p \in Params
  <2>1. call.args[call.device][p] \in Buffers
    BY <1>1, ArgumentsAre
  <2>2. Input(p) # None /\ array[Input(p)] # "reset"
    BY DEF Dispatchable, Arguments, Input
  <2>3. Input(p) \in Handles /\ array[Input(p)] # "free"
    BY <2>1, <2>2, Typing DEF IInv, OwnedOnce, Input
  <2> QED
    BY <1>1, <2>2, <2>3 DEF ArrayStates
<1>3. donatedProgramInputIndices \subseteq Params
  BY Typing DEF donatedProgramInputIndices
<1> QED
  BY <1>2, <1>3 DEF Consumed

LEMMA DispatchFailsStep ==
  ASSUME IInv, corrupted = "no", DispatchFails
  PROVE  IInv'
<1> DEFINE moved == [h \in Handles |-> IF h \in Consumed THEN "moved" ELSE array[h]]
<1>1. call.pc = "dispatch" /\ Dispatchable /\ FailCall(buffer, moved, {})
  BY DEF DispatchFails
<1>2. call.pending = NoOutputs /\ call.wrapped = NoOutputs /\ Running
  BY <1>1 DEF IInv, ProgressInv, Running
<1>3. Held(call.wrapped) = {}
  BY <1>2 DEF Held, NoOutputs
<1>4. buffer \in [Buffers -> BufferRecords] /\ Tombstones(buffer)
  BY DEF IInv, TypeInv
<1>5. moved \in [Handles -> ArrayStates]
  BY DEF IInv, TypeInv, ArrayStates
<1>6. OwnedOnce(buffer, moved, NoOutputs)
  <2>1. \A h \in Handles : moved[h] = "free" <=> h \in {} \/ array[h] = "free"
    BY <1>1, ConsumedIsOwned DEF Consumed
  <2> HIDE DEF moved
  <2>2. Released({}, buffer, array, call.pending, buffer, moved, NoOutputs)
    BY <1>2, <2>1, Typing DEF Released
  <2> QED
    BY <2>2, Releasing DEF IInv
<1>7. corrupted' \in {"no", "moved", "freed"}
  BY DEF DispatchFails
<1> HIDE DEF moved
<1> QED
  BY <1>1, <1>2, <1>3, <1>4, <1>5, <1>6, <1>7, Failing

LEMMA AssignFailsStep ==
  ASSUME IInv, corrupted = "no", AssignFails
  PROVE  IInv'
<1>1. call.pending = NoOutputs /\ Running
  BY DEF IInv, ProgressInv, AssignFails, Running
<1>2. /\ buffer \in [Buffers -> BufferRecords] /\ array \in [Handles -> ArrayStates]
      /\ Tombstones(buffer) /\ OwnedOnce(buffer, array, NoOutputs)
  BY <1>1 DEF IInv, TypeInv
<1> QED
  BY <1>1, <1>2, Failing DEF AssignFails

LEMMA DestroyedIs ==
  ASSUME array \in [Handles -> ArrayStates], NEW gone
  PROVE  /\ Destroyed(gone) \in [Handles -> ArrayStates]
         /\ \A h \in Handles : Destroyed(gone)[h] = IF h \in gone THEN "free" ELSE array[h]
BY DEF Destroyed, ArrayStates

LEMMA WrapFailsStep ==
  ASSUME IInv, corrupted = "no", WrapFails
  PROVE  IInv'
<1>1. call.pc = "wrap" /\ Running
  BY DEF WrapFails, Running
<1>2. buffer \in [Buffers -> BufferRecords] /\ Tombstones(buffer) /\ array \in [Handles -> ArrayStates]
  BY DEF IInv, TypeInv
<1>3. \A h : h \in PendingHandles <=> \E o \in Outputs : call.pending[o] # None /\ h = call.pending[o]
  BY HeldIs DEF PendingHandles
<1>4. Released(PendingHandles, buffer, array, call.pending, buffer, Destroyed(PendingHandles), NoOutputs)
  <2>1. \A o \in Outputs : NoOutputs[o] = None
    BY DEF NoOutputs
  <2>2. \A x \in Buffers : buffer[x].storage \in PendingHandles => buffer[x].storage = None
    BY <1>3 DEF IInv, OwnedOnce
  <2> QED
    BY <1>2, <1>3, <2>1, <2>2, Typing, DestroyedIs DEF Released
<1>5. OwnedOnce(buffer, Destroyed(PendingHandles), NoOutputs)
  BY <1>4, Releasing DEF IInv
<1>6. Destroyed(PendingHandles) \in [Handles -> ArrayStates]
  BY <1>2, DestroyedIs
<1> QED
  BY <1>1, <1>2, <1>5, <1>6, Failing DEF WrapFails

LEMMA WithoutStorageIs ==
  ASSUME IInv, NEW o
  PROVE  /\ WithoutStorage(o) \in [Buffers -> BufferRecords]
         /\ \A x \in Buffers :
              /\ WithoutStorage(o)[x].storage = IF x \in TakesFrom(o) THEN None ELSE buffer[x].storage
              /\ WithoutStorage(o)[x].state = buffer[x].state
              /\ WithoutStorage(o)[x].readiness = buffer[x].readiness
              /\ WithoutStorage(o)[x].device = buffer[x].device
         /\ Tombstones(WithoutStorage(o))
<1>1. \A x \in Buffers : buffer[x] \in BufferRecords
  BY DEF IInv, TypeInv
<1>2. \A x \in Buffers : [buffer[x] EXCEPT !.storage = None] \in BufferRecords
  BY <1>1 DEF BufferRecords
<1>3. WithoutStorage(o) \in [Buffers -> BufferRecords]
  BY <1>1, <1>2 DEF WithoutStorage
<1>4. \A x \in Buffers :
        /\ WithoutStorage(o)[x].storage = IF x \in TakesFrom(o) THEN None ELSE buffer[x].storage
        /\ WithoutStorage(o)[x].state = buffer[x].state
        /\ WithoutStorage(o)[x].readiness = buffer[x].readiness
        /\ WithoutStorage(o)[x].device = buffer[x].device
  BY <1>1 DEF WithoutStorage, BufferRecords
<1>5. Tombstones(WithoutStorage(o))
  BY <1>4 DEF IInv, Tombstones
<1> QED
  BY <1>3, <1>4, <1>5

LEMMA WrapFailsAfterTakeStep ==
  ASSUME IInv, corrupted = "no", WrapFailsAfterTake
  PROVE  IInv'
<1> DEFINE o == NextOutput
           gone == PendingHandles \cup Storages(TakesFrom(o))
<1>1. /\ call.pc = "wrap" /\ Running /\ ~DonorStorageGone(o)
      /\ FailCall(WithoutStorage(o), Destroyed(gone), Held(call.wrapped)) /\ corrupted' = "freed"
  BY DEF WrapFailsAfterTake, Running
<1>2. o \in Outputs /\ array \in [Handles -> ArrayStates]
  BY <1>1, NextOutputIs DEF IInv, TypeInv
<1>3. \A h : h \in PendingHandles <=> \E q \in Outputs : call.pending[q] # None /\ h = call.pending[q]
  BY HeldIs DEF PendingHandles
<1>4. \A h : h \in Storages(TakesFrom(o)) <=> \E x \in TakesFrom(o) : h = buffer[x].storage /\ h # None
  BY DEF Storages
<1>5. TakesFrom(o) \subseteq Buffers /\ \A x \in TakesFrom(o) : buffer[x].storage \in Handles
  BY <1>1, <1>2, TakesFromArgument
<1>6. Released(gone, buffer, array, call.pending, WithoutStorage(o), Destroyed(gone), NoOutputs)
  <2>1. \A q \in Outputs : NoOutputs[q] = None
    BY DEF NoOutputs
  <2>2. \A x \in Buffers : buffer[x].storage # None =>
           (buffer[x].storage \in gone <=> x \in TakesFrom(o))
    BY <1>3, <1>4, <1>5 DEF IInv, OwnedOnce
  <2>3. \A x \in Buffers : WithoutStorage(o)[x].storage =
           IF buffer[x].storage \in gone THEN None ELSE buffer[x].storage
    BY <2>2, <1>5, WithoutStorageIs
  <2>4. \A q \in Outputs : call.pending[q] \in gone \/ call.pending[q] = None
    BY <1>3
  <2>5. \A h \in Handles : Destroyed(gone)[h] = "free" <=> h \in gone \/ array[h] = "free"
    BY <1>2, DestroyedIs
  <2> HIDE DEF gone
  <2> QED
    BY <2>1, <2>3, <2>4, <2>5, Typing DEF Released
<1> HIDE DEF gone, o
<1>7. OwnedOnce(WithoutStorage(o), Destroyed(gone), NoOutputs)
  BY <1>6, Releasing DEF IInv
<1>8. Destroyed(gone) \in [Handles -> ArrayStates]
  BY <1>2, DestroyedIs
<1> QED
  BY <1>1, <1>7, <1>8, WithoutStorageIs, Failing

----------------------------------------------------------------------------
(* The steps of a call that goes on.                                       *)

(* The donors of the devices that ran are recorded, and live.              *)
LEMMA DispatchStep ==
  ASSUME IInv, corrupted = "no", Dispatch
  PROVE  IInv'
<1> USE Numbering
<1>1. call.pc = "dispatch" /\ Dispatchable /\ Running
  BY DEF Dispatch, Running
<1>2. PICK f \in [Outputs -> FreeHandles] :
        /\ \A o, p \in Outputs : o < p => f[o] < f[p]
        /\ call' = [call EXCEPT !.pc = "wrap", !.pending = f, !.donors = DonorsRecorded]
        /\ array' = [h \in Handles |-> CASE h \in Consumed -> "reset"
                                         [] h \in Held(f) -> "live"
                                         [] OTHER -> array[h]]
  BY DEF Dispatch
<1>3. UNCHANGED <<plan, buffer, calls, deletes>> /\ corrupted' \in {"no", "moved"}
      /\ corrupted' = (IF UsesMovedFrom THEN "moved" ELSE "no")
  BY DEF Dispatch
<1>4. call \in Calls /\ array \in [Handles -> ArrayStates]
  BY DEF IInv, TypeInv
<1>5. /\ call'.pc = "wrap" /\ call'.pending = f /\ call'.donors = DonorsRecorded
      /\ call'.devices = call.devices /\ call'.device = call.device /\ call'.args = call.args
      /\ call'.keep = call.keep /\ call'.wrapped = call.wrapped
      /\ call'.output_lists = call.output_lists /\ call'.before = call.before
  BY <1>2, <1>4 DEF Calls
<1>6. call.pending = NoOutputs /\ call.wrapped = NoOutputs
  BY <1>1 DEF IInv, ProgressInv
<1>7. \A o \in Outputs : f[o] \in Handles /\ array[f[o]] = "free"
  BY DEF FreeHandles
<1>8. \A o, p \in Outputs : f[o] = f[p] => o = p
  BY <1>2, <1>7
<1>9. /\ \A p \in Params : Input(p) \in Handles /\ array[Input(p)] \in {"live", "moved"}
      /\ donatedProgramInputIndices \subseteq Params /\ Consumed \subseteq Handles
  BY <1>1, ConsumedIsOwned
<1>10. \A h \in Consumed :
         /\ \E p \in donatedProgramInputIndices : h = Input(p)
         /\ array[h] \in {"live", "moved"} /\ \E p \in Params : h = Input(p)
  BY <1>9 DEF Consumed
<1>11. /\ \A h \in Handles : array'[h] = IF h \in Consumed THEN "reset"
                                       ELSE IF \E o \in Outputs : h = f[o] THEN "live" ELSE array[h]
       /\ array' \in [Handles -> ArrayStates]
  <2>1. \A h : h \in Held(f) <=> \E o \in Outputs : h = f[o]
    BY <1>7, HeldIs, Numbering
  <2>2. \A h \in Handles :
          /\ h \in Consumed => array'[h] = "reset"
          /\ h \notin Consumed /\ h \in Held(f) => array'[h] = "live"
          /\ h \notin Consumed /\ h \notin Held(f) => array'[h] = array[h]
    <3>1. \A h \in Consumed : h \notin Held(f)
      BY <1>7, <1>10, <2>1
    <3> QED
      BY <1>2, <3>1
  <2>3. DOMAIN array' = Handles /\ array' = [h \in Handles |-> array'[h]]
    BY <1>2
  <2>4. \A h \in Handles : array'[h] \in ArrayStates
    <3>1. "reset" \in ArrayStates /\ "live" \in ArrayStates
      BY DEF ArrayStates
    <3>2. \A h \in Handles : array[h] \in ArrayStates
      BY <1>4
    <3> QED
      BY <2>2, <3>1, <3>2
  <2>5. array' \in [Handles -> ArrayStates]
    BY <2>3, <2>4
  <2>6. \A h \in Handles : array'[h] = IF h \in Consumed THEN "reset"
                                     ELSE IF h \in Held(f) THEN "live" ELSE array[h]
    BY <2>2
  <2> QED
    BY <2>1, <2>5, <2>6
<1>12. DonorsRecorded \subseteq Buffers
  <2>1. \A p \in plan.donated \ call.keep : call.args[call.device][p] \in Buffers
    BY <1>1, Typing, ArgumentsAre
  <2> QED
    BY <1>4, <2>1 DEF DonorsRecorded, Calls
<1>13. TypeInv'
  <2>1. f \in [Outputs -> Handles \cup {None}]
    BY <1>7
  <2>2. call' \in Calls
    BY <1>2, <1>4, <1>12, <2>1 DEF Calls
  <2> QED
    BY <1>3, <1>11, <2>2 DEF IInv, TypeInv
<1>14. \A o \in Outputs : array'[f[o]] = "live"
  BY <1>7, <1>9, <1>10, <1>11
<1>15. OwnedOnce(buffer, array', f)
  <2>1. OwnedOnce(buffer, array, NoOutputs)
    BY <1>6 DEF IInv
  <2>2. \A o \in Outputs : NoOutputs[o] = None
    BY DEF NoOutputs
  <2>3. \A h \in Handles : array'[h] = "free" <=> (array[h] = "free" /\ ~\E o \in Outputs : h = f[o])
    BY <1>9, <1>10, <1>11
  <2>4. \A x \in Buffers : buffer[x].storage # None =>
           /\ array[buffer[x].storage] # "free" /\ array'[buffer[x].storage] # "free"
           /\ \A o \in Outputs : buffer[x].storage # f[o]
    <3> TAKE x \in Buffers
    <3>1. buffer[x].storage # None => buffer[x].storage \in Handles /\ array[buffer[x].storage] # "free"
      BY <2>1, Typing DEF OwnedOnce
    <3> QED
      BY <1>7, <2>3, <3>1
  <2>5. \A o \in Outputs : f[o] # None /\ array'[f[o]] # "free"
    BY <1>7, <1>14
  <2>6. \A h \in Handles : array'[h] # "free" =>
          (\E x \in Buffers : buffer[x].storage = h) \/ (\E o \in Outputs : f[o] = h)
    <3> TAKE h \in Handles
    <3>1. array[h] # "free" => \E x \in Buffers : buffer[x].storage = h
      BY <2>1, <2>2 DEF OwnedOnce
    <3> QED
      BY <2>3, <3>1
  <2>7. \A x, y \in Buffers : buffer[x].storage # None /\ buffer[x].storage = buffer[y].storage => x = y
    BY <2>1 DEF OwnedOnce
  <2> QED
    BY <1>8, <2>4, <2>5, <2>6, <2>7 DEF OwnedOnce
<1>16. OwnedOnce(buffer, array, call.pending)' /\ Tombstones(buffer)'
  <2>1. buffer' = buffer /\ Tombstones(buffer)
    BY <1>3 DEF IInv
  <2>2. OwnedOnce(buffer', array', f) /\ Tombstones(buffer')
    BY <1>15, <2>1
  <2> QED
    BY <1>5, <2>2
<1>17. ProgressInv'
  <2>1. \A o \in Outputs : call'.pending[o] # None /\ call'.wrapped[o] = None
    BY <1>5, <1>6, <1>7 DEF NoOutputs
  <2>2. /\ call.device \in call.devices
        /\ \A d \in call.devices, o \in Outputs : call.output_lists[d][o] # None <=> d < call.device
    BY <1>1 DEF IInv, ProgressInv
  <2> QED
    BY <1>5, <2>1, <2>2 DEF ProgressInv
<1>18. ArgumentsInv'
  <2>1. NoDonorAliases(call.devices, call.args, call.keep)' <=>
          NoDonorAliases(call.devices, call.args, call.keep)
    BY <1>3, <1>5 DEF NoDonorAliases
  <2> QED
    BY <1>1, <1>5, <2>1 DEF IInv, ArgumentsInv
<1>19. NewBuffers'
  <2>1. AssignedOutputs' = AssignedOutputs /\ Held(call.wrapped)' = Held(call.wrapped)
        /\ FreeBuffers' = FreeBuffers
    BY <1>3, <1>5 DEF AssignedOutputs, Held, FreeBuffers
  <2> QED
    BY <1>1, <1>5, <2>1 DEF IInv, NewBuffers
<1>20. DonorsInv'
  <2>1. \A d \in call.devices : Dispatched(d)' <=> d < call.device \/ d = call.device
    BY <1>5 DEF Dispatched
  <2>2. \A d \in call.devices : Dispatched(d) <=> d < call.device
    BY <1>1 DEF Dispatched
  <2>3. call.device \in call.devices
    BY <1>1 DEF IInv, ProgressInv
  <2>4. /\ call.donors = {call.args[d][p] : d \in {e \in call.devices : Dispatched(e)},
                                            p \in plan.donated \ call.keep}
        /\ \A b \in call.donors : buffer[b].state = "live"
    BY <1>1 DEF IInv, DonorsInv
  <2>5. \A x : x \in DonorsRecorded <=>
           \E d \in call.devices : Dispatched(d)' /\ \E p \in plan.donated \ call.keep : x = call.args[d][p]
    BY <2>1, <2>2, <2>3, <2>4 DEF DonorsRecorded
  <2>6. DonorsRecorded = {call.args[d][p] : d \in {e \in call.devices : Dispatched(e)'},
                                           p \in plan.donated \ call.keep}
    BY <2>5
  <2>7. \A b \in DonorsRecorded : buffer[b].state = "live"
    <3>1. plan.donated \subseteq Params
      BY Typing
    <3>2. \A p \in Params : buffer[call.args[call.device][p]].state = "live"
      BY <1>1 DEF Dispatchable, Arguments
    <3>3. \A p \in plan.donated \ call.keep : buffer[call.args[call.device][p]].state = "live"
      BY <3>1, <3>2
    <3> QED
      BY <2>4, <3>3 DEF DonorsRecorded
  <2> QED
    BY <1>3, <1>5, <2>6, <2>7 DEF DonorsInv
<1>21. UsableInv'
  <2>1. \A x \in Buffers, p \in Params :
          buffer[x].storage # None /\ buffer[x].storage = Input(p) =>
            x = call.args[call.device][p] /\ x \in call.before
    <3>1. \A x, y \in Buffers : buffer[x].storage # None /\ buffer[x].storage = buffer[y].storage => x = y
      BY DEF IInv, OwnedOnce
    <3>2. \A p \in Params : call.args[call.device][p] \in Buffers /\ call.args[call.device][p] \in call.before
      BY <1>1, ArgumentsAre
    <3> TAKE x \in Buffers, p \in Params
    <3>3. PICK y \in Buffers : y = call.args[call.device][p] /\ y \in call.before
      BY <3>2
    <3>4. Input(p) = buffer[y].storage
      BY <3>3 DEF Input
    <3> QED
      BY <3>1, <3>3, <3>4
  <2>2. \A d \in call.devices, o \in Outputs :
          call.output_lists[d][o] # None => Usable(call.output_lists[d][o], d)'
    <3> SUFFICES ASSUME NEW d \in call.devices, NEW o \in Outputs, call.output_lists[d][o] # None
                 PROVE  Usable(call.output_lists[d][o], d)'
      OBVIOUS
    <3>1. PICK b : b = call.output_lists[d][o]
      OBVIOUS
    <3>2. b \in AssignedOutputs
      BY <3>1, AssignedIs
    <3>3. b \in Buffers /\ b \notin call.before
      BY <1>1, <1>4, <3>2, OutputsAreBuffers DEF IInv, NewBuffers
    <3>4. Usable(b, d)
      BY <1>1, <3>1 DEF IInv, UsableInv
    <3>5. buffer[b].storage \in Handles /\ buffer[b].storage # None
      BY <3>3, <3>4, Typing DEF Usable
    <3>6. buffer[b].storage \notin Consumed
      BY <1>10, <2>1, <3>3, <3>5
    <3>7. array[buffer[b].storage] # "free"
      BY <3>3, <3>5 DEF IInv, OwnedOnce
    <3>8. array'[buffer[b].storage] = array[buffer[b].storage]
      BY <1>7, <1>11, <3>5, <3>6, <3>7
    <3>9. Usable(b, d)'
      BY <1>3, <1>5, <3>4, <3>8 DEF Usable
    <3> QED
      BY <1>5, <3>1, <3>9
  <2>3. corrupted' = "no" => \A p \in Params : array[Input(p)] = "live"
    BY <1>3, <1>9 DEF UsesMovedFrom
  <2>4. corrupted' = "no" /\ call.keep = {} =>
          \A o \in Outputs : \A b \in TakesFrom(o) : array'[buffer[b].storage] = "live"
    <3> SUFFICES ASSUME corrupted' = "no", call.keep = {}, NEW o \in Outputs, NEW b \in TakesFrom(o)
                 PROVE  array'[buffer[b].storage] = "live"
      OBVIOUS
    <3>1. PICK p \in plan.donated : b = call.args[call.device][p] /\ parameterFeedsIdentityOutput(p)
      BY <1>1, TakesFromArgument
    <3>2. p \in Params /\ buffer[b].storage = Input(p) /\ b \in Buffers
      BY <1>1, <3>1, Typing, ArgumentsAre DEF Input
    <3>3. \A q \in donatedProgramInputIndices : Input(q) # Input(p)
      <4> SUFFICES ASSUME NEW q \in donatedProgramInputIndices, Input(q) = Input(p)
                   PROVE  FALSE
        OBVIOUS
      <4>1. q \in Params /\ q # p
        BY <1>9, <3>1 DEF donatedProgramInputIndices
      <4>2. call.args[call.device][p] = call.args[call.device][q]
        BY <1>9, <2>1, <3>1, <3>2, <4>1
      <4>3. call.device \in call.devices /\ NoDonorAliases(call.devices, call.args, call.keep)
        BY <1>1 DEF IInv, ProgressInv, ArgumentsInv
      <4> QED
        BY <4>1, <4>2, <4>3 DEF NoDonorAliases
    <3>4. Input(p) \notin Consumed
      BY <1>10, <3>3
    <3> QED
      BY <1>7, <1>9, <1>11, <2>3, <3>2, <3>4
  <2>5. \A o \in Outputs : TakesFrom(o)' = TakesFrom(o)
    <3>1. \A o \in Outputs : aliasForOutput(o)' = aliasForOutput(o)
      BY <1>3 DEF aliasForOutput
    <3> QED
      BY <1>5, <3>1 DEF TakesFrom, AliasedArgument
  <2>6. \A o \in Outputs : call'.wrapped[o] = None
    BY <1>5, <1>6 DEF NoOutputs
  <2> QED
    BY <1>3, <1>5, <1>14, <2>2, <2>4, <2>5, <2>6 DEF UsableInv
<1> QED
  BY <1>13, <1>16, <1>17, <1>18, <1>19, <1>20, <1>21 DEF IInv

(* An output is wrapped: its own backend buffer, or that of its donor, has  *)
(* the new runtime buffer as its owner.                                    *)
LEMMA WrapOutputStep ==
  ASSUME IInv, corrupted = "no", WrapOutput
  PROVE  IInv'
<1> DEFINE o == NextOutput
           b == Least(FreeBuffers)
           own == call.pending[o]
           adopted == IF TakesFrom(o) = {} THEN own ELSE Least(Storages(TakesFrom(o)))
           last == \A x \in Outputs \ {o} : call.wrapped[x] # None
<1> USE Numbering
<1>1. /\ call.pc = "wrap" /\ Running /\ FreeBuffers # {} /\ ~DonorStorageGone(o)
      /\ buffer' = [WithoutStorage(o) EXCEPT ![b] = LiveBuffer(adopted, call.device)]
      /\ array' = Destroyed({own} \ {adopted})
      /\ call' = [call EXCEPT !.pending[o] = None, !.wrapped[o] = b,
                              !.pc = IF last THEN "assign" ELSE "wrap"]
      /\ UNCHANGED <<plan, calls, deletes, corrupted>>
  BY DEF WrapOutput, Running
<1>2. o \in Outputs /\ call.wrapped[o] = None /\ own \in Handles
  BY <1>1, NextOutputIs
<1>3. b \in Buffers /\ buffer[b].state = "free" /\ b \in FreeBuffers
  <2>1. FreeBuffers \in SUBSET Nat
    BY DEF FreeBuffers
  <2> QED
    BY <1>1, <2>1, LeastIsIn DEF FreeBuffers
<1>4. /\ TakesFrom(o) \subseteq call.before \cap (Buffers \ FreeBuffers)
      /\ \A x, y \in TakesFrom(o) : x = y
      /\ \A x \in TakesFrom(o) : buffer[x].storage \in Handles
  BY <1>1, <1>2, TakesFromArgument
<1>5. /\ TakesFrom(o) = {} => adopted = own
      /\ \A t \in TakesFrom(o) : adopted = buffer[t].storage
      /\ adopted \in Handles
  <2>1. ASSUME NEW t \in TakesFrom(o)
        PROVE  Least(Storages(TakesFrom(o))) = buffer[t].storage
    <3>1. Storages(TakesFrom(o)) = {buffer[t].storage}
      BY <1>4, <2>1 DEF Storages
    <3>2. Storages(TakesFrom(o)) \in SUBSET Nat
      BY <1>4, <2>1, <3>1
    <3> QED
      BY <3>1, <3>2, LeastIsIn
  <2>2. CASE TakesFrom(o) = {}
    BY <1>2, <2>2
  <2>3. CASE TakesFrom(o) # {}
    BY <1>4, <2>1, <2>3
  <2> QED
    BY <2>2, <2>3
<1> HIDE DEF o, b, own, adopted, last
<1>6. call \in Calls /\ array \in [Handles -> ArrayStates] /\ buffer \in [Buffers -> BufferRecords]
  BY DEF IInv, TypeInv
<1>7. /\ call'.pc = (IF last THEN "assign" ELSE "wrap")
      /\ call'.pending = [call.pending EXCEPT ![o] = None]
      /\ call'.wrapped = [call.wrapped EXCEPT ![o] = b]
      /\ call'.donors = call.donors
      /\ call'.devices = call.devices /\ call'.device = call.device /\ call'.args = call.args
      /\ call'.keep = call.keep /\ call'.output_lists = call.output_lists
      /\ call'.before = call.before
  BY <1>1, <1>6 DEF Calls
<1>8. /\ \A q \in Outputs : call'.pending[q] = IF q = o THEN None ELSE call.pending[q]
      /\ \A q \in Outputs : call'.wrapped[q] = IF q = o THEN b ELSE call.wrapped[q]
  BY <1>6, <1>7 DEF Calls
<1>9. \A h \in Handles : array'[h] = IF h = own /\ h # adopted THEN "free" ELSE array[h]
  BY <1>1, <1>6, DestroyedIs
<1>10. /\ \A x \in Buffers : buffer'[x] = IF x = b THEN LiveBuffer(adopted, call.device)
                                          ELSE WithoutStorage(o)[x]
       /\ buffer' \in [Buffers -> BufferRecords]
  <2>1. call.device \in Devices
    BY <1>1, <1>6 DEF IInv, ProgressInv, Calls
  <2>2. LiveBuffer(adopted, call.device) \in BufferRecords
    BY <1>5, <2>1 DEF LiveBuffer, BufferRecords
  <2> QED
    BY <1>1, <1>3, <2>2, WithoutStorageIs
<1>11. /\ buffer'[b].state = "live" /\ buffer'[b].readiness = "ready"
       /\ buffer'[b].device = call.device /\ buffer'[b].storage = adopted
  BY <1>3, <1>10 DEF LiveBuffer
<1>12. \A x \in Buffers \ {b} :
         /\ buffer'[x].state = buffer[x].state /\ buffer'[x].readiness = buffer[x].readiness
         /\ buffer'[x].device = buffer[x].device
         /\ buffer'[x].storage = IF x \in TakesFrom(o) THEN None ELSE buffer[x].storage
  <2> TAKE x \in Buffers \ {b}
  <2>1. buffer'[x] = WithoutStorage(o)[x]
    BY <1>10
  <2> QED
    BY <2>1, WithoutStorageIs
<1>13. b \notin TakesFrom(o) /\ buffer[b].storage = None /\ own # None
  BY <1>2, <1>3, <1>4 DEF IInv, Tombstones
<1>14. TypeInv'
  <2>1. array' \in [Handles -> ArrayStates]
    BY <1>1, <1>6, DestroyedIs
  <2>2. /\ call'.pending \in [Outputs -> Handles \cup {None}]
        /\ call'.wrapped \in [Outputs -> Buffers \cup {None}]
    BY <1>2, <1>3, <1>6, <1>7 DEF Calls
  <2>3. call' \in Calls
    BY <1>1, <1>6, <2>2 DEF Calls
  <2> QED
    BY <1>1, <1>10, <2>1, <2>3 DEF IInv, TypeInv
<1>15. OwnedOnce(buffer', array', call'.pending)
  <2>1. \A x \in Buffers : buffer'[x].storage =
           IF x = b THEN adopted ELSE IF x \in TakesFrom(o) THEN None ELSE buffer[x].storage
    BY <1>11, <1>12
  <2>2. OwnedOnce(buffer, array, call.pending)
    BY DEF IInv
  <2>3. CASE TakesFrom(o) = {}
    <3>1. \A x \in Buffers : buffer'[x].storage = IF x = b THEN call.pending[o] ELSE buffer[x].storage
      BY <1>5, <2>1, <2>3 DEF own
    <3>2. \A h \in Handles : array'[h] = array[h]
      BY <1>5, <1>9, <2>3
    <3>3. Handed(b, o, buffer, array, call.pending, buffer', array', call'.pending)
      BY <1>2, <1>3, <1>8, <1>13, <3>1, <3>2, Typing DEF Handed, own
    <3> QED
      BY <2>2, <3>3, Handing
  <2>4. CASE TakesFrom(o) # {}
    <3>1. PICK t \in TakesFrom(o) : t \in Buffers
      BY <1>4, <2>4
    <3>2. TakesFrom(o) = {t} /\ adopted = buffer[t].storage /\ adopted # None /\ t # b
      BY <1>4, <1>5, <1>13, <3>1
    <3>3. own # adopted
      BY <1>2, <2>2, <3>1, <3>2 DEF OwnedOnce, own
    <3>4. OwnedOnce(buffer, array', call'.pending)
      <4>1. \A x \in Buffers : buffer[x].storage \notin {own} \/ buffer[x].storage = None
        BY <1>2, <2>2 DEF OwnedOnce, own
      <4>2. \A q \in Outputs : call'.pending[q] = IF call.pending[q] \in {own} THEN None ELSE call.pending[q]
        BY <1>2, <1>8, <1>13, <2>2 DEF OwnedOnce, own
      <4>3. \A h \in Handles : array'[h] = "free" <=> h \in {own} \/ array[h] = "free"
        BY <1>9, <3>3
      <4>4. Released({own}, buffer, array, call.pending, buffer, array', call'.pending)
        BY <4>1, <4>2, <4>3, Typing DEF Released
      <4> QED
        BY <2>2, <4>4, Releasing
    <3>5. Moved(b, t, buffer, buffer')
      BY <1>3, <1>13, <2>1, <3>1, <3>2 DEF Moved
    <3> QED
      BY <3>4, <3>5, Moving
  <2> QED
    BY <2>3, <2>4
<1>16. Tombstones(buffer')
  BY <1>3, <1>11, <1>12 DEF IInv, Tombstones
<1>17. ProgressInv'
  <2>1. /\ \A q \in Outputs : call.pending[q] = None <=> call.wrapped[q] # None
        /\ call.device \in call.devices
        /\ \A d \in call.devices, q \in Outputs : call.output_lists[d][q] # None <=> d < call.device
    BY <1>1 DEF IInv, ProgressInv
  <2>2. b # None
    BY <1>3
  <2>3. \A q \in Outputs : call'.pending[q] = None <=> call'.wrapped[q] # None
    BY <1>8, <2>1, <2>2
  <2>4. CASE last
    <3>1. call'.pc = "assign" /\ \A q \in Outputs : call'.wrapped[q] # None
      BY <1>7, <1>8, <2>2, <2>4 DEF last
    <3>2. call'.pending = NoOutputs
      <4>1. call'.pending \in [Outputs -> Handles \cup {None}]
        BY <1>14 DEF TypeInv, Calls
      <4> QED
        BY <2>3, <3>1, <4>1 DEF NoOutputs
    <3>3. /\ call'.device \in call'.devices
          /\ \A d \in call'.devices, q \in Outputs : call'.output_lists[d][q] # None <=> d < call'.device
      BY <1>7, <2>1
    <3> QED
      BY <3>1, <3>2, <3>3 DEF ProgressInv
  <2>5. CASE ~last
    <3>1. call'.pc = "wrap" /\ \E q \in Outputs : call'.wrapped[q] = None
      BY <1>7, <1>8, <2>5 DEF last
    <3> QED
      BY <1>7, <2>1, <2>3, <3>1 DEF ProgressInv
  <2> QED
    BY <2>4, <2>5
<1>18. Running' /\ call'.pc \in {"wrap", "assign"}
  BY <1>7 DEF Running
<1>19. ArgumentsInv'
  <2>1. NoDonorAliases(call.devices, call.args, call.keep)' <=>
          NoDonorAliases(call.devices, call.args, call.keep)
    BY <1>1, <1>7 DEF NoDonorAliases
  <2> QED
    BY <1>1, <1>7, <2>1 DEF IInv, ArgumentsInv
<1>20. NewBuffers'
  <2>1. AssignedOutputs' = AssignedOutputs
    BY <1>7 DEF AssignedOutputs, Held
  <2>2. Held(call.wrapped)' = Held(call.wrapped) \cup {b}
    BY <1>2, <1>3, <1>8 DEF Held
  <2>3. (Buffers \ FreeBuffers)' = (Buffers \ FreeBuffers) \cup {b}
    BY <1>3, <1>11, <1>12 DEF FreeBuffers
  <2>4. /\ Buffers \ FreeBuffers = call.before \cup Held(call.wrapped) \cup AssignedOutputs
        /\ \A x \in Held(call.wrapped) \cup AssignedOutputs : x \notin call.before
    BY <1>1 DEF IInv, NewBuffers
  <2>5. b \notin call.before
    BY <1>3, <2>4
  <2> QED
    BY <1>7, <1>18, <2>1, <2>2, <2>3, <2>4, <2>5 DEF NewBuffers
<1>21. DonorsInv'
  <2>1. \A d \in call.devices : Dispatched(d)' <=> Dispatched(d)
    BY <1>1, <1>7, <1>18 DEF Dispatched
  <2>2. /\ call.donors = {call.args[d][p] : d \in {e \in call.devices : Dispatched(e)},
                                            p \in plan.donated \ call.keep}
        /\ \A x \in call.donors : buffer[x].state = "live"
    BY <1>1 DEF IInv, DonorsInv
  <2>3. \A x \in call.donors : buffer'[x].state = "live"
    BY <1>3, <1>6, <1>12, <2>2 DEF Calls
  <2>4. {call.args[d][p] : d \in {e \in call.devices : Dispatched(e)}, p \in plan.donated \ call.keep} =
        {call.args[d][p] : d \in {e \in call.devices : Dispatched(e)'}, p \in plan.donated \ call.keep}
    BY <2>1
  <2> QED
    BY <1>1, <1>7, <2>2, <2>3, <2>4 DEF DonorsInv
<1>22. UsableInv'
  <2>1. ASSUME NEW x \in Buffers, NEW d, Usable(x, d), x \notin call.before
        PROVE  Usable(x, d)'
    <3>1. x # b /\ x \notin TakesFrom(o)
      BY <1>3, <1>4, <2>1 DEF Usable
    <3>2. buffer[x].storage \in Handles /\ buffer[x].storage # own
      BY <1>2, <2>1, Typing DEF Usable, IInv, OwnedOnce, own
    <3>3. array'[buffer[x].storage] = array[buffer[x].storage]
      BY <1>9, <3>2
    <3> QED
      BY <1>7, <1>12, <2>1, <3>1, <3>3 DEF Usable
  <2>2. \A q \in Outputs : call.wrapped[q] # None =>
          call.wrapped[q] \in Buffers /\ call.wrapped[q] \notin call.before
    BY <1>1, Typing, HeldIs DEF IInv, NewBuffers
  <2>3. \A d \in call.devices, q \in Outputs : call.output_lists[d][q] # None =>
          call.output_lists[d][q] \in Buffers /\ call.output_lists[d][q] \notin call.before
    BY <1>1, <1>6, AssignedIs, OutputsAreBuffers DEF IInv, NewBuffers
  <2>4. /\ \A q \in Outputs : call.wrapped[q] # None => Usable(call.wrapped[q], call.device)
        /\ \A d \in call.devices, q \in Outputs :
             call.output_lists[d][q] # None => Usable(call.output_lists[d][q], d)
        /\ \A q \in Outputs : call.pending[q] # None => array[call.pending[q]] = "live"
        /\ call.keep = {} =>
             \A q \in Outputs : \A x \in TakesFrom(q) :
               buffer[x].storage # None => array[buffer[x].storage] = "live"
    BY <1>1 DEF IInv, UsableInv
  <2>5. ASSUME NEW x, x = b PROVE Usable(x, call.device)'
    <3>1. call.keep = {} => array'[adopted] = "live"
      <4>1. CASE TakesFrom(o) = {}
        BY <1>2, <1>5, <1>9, <1>13, <2>4, <4>1 DEF own
      <4>2. CASE TakesFrom(o) # {}
        <5>1. PICK t \in TakesFrom(o) : adopted = buffer[t].storage
          BY <1>5, <4>2
        <5>2. adopted # own
          BY <1>2, <1>4, <1>5, <5>1 DEF IInv, OwnedOnce, own
        <5>3. adopted \in Handles /\ adopted # None
          BY <1>5, Numbering
        <5>4. call.keep = {} => \A y \in TakesFrom(o) :
                buffer[y].storage # None => array[buffer[y].storage] = "live"
          BY <1>2, <2>4
        <5>5. call.keep = {} => array[adopted] = "live"
          BY <5>1, <5>3, <5>4
        <5> QED
          BY <1>9, <5>2, <5>3, <5>5
      <4> QED
        BY <4>1, <4>2
    <3> QED
      BY <1>5, <1>7, <1>11, <2>5, <3>1 DEF Usable
  <2>6. \A q \in Outputs : call'.wrapped[q] # None => Usable(call.wrapped[q], call.device)'
    <3> TAKE q \in Outputs
    <3>1. PICK x : x = call'.wrapped[q]
      OBVIOUS
    <3>2. CASE q = o
      BY <1>8, <2>5, <3>1, <3>2
    <3>3. CASE q # o
      <4>1. x = call.wrapped[q]
        BY <1>8, <3>1, <3>3
      <4>2. x # None => Usable(x, call.device)'
        <5>1. PICK d : d = call.device
          OBVIOUS
        <5> QED
          BY <1>7, <2>1, <2>2, <2>4, <4>1, <5>1
      <4> QED
        BY <3>1, <4>2
    <3> QED
      BY <3>2, <3>3
  <2>7. \A d \in call.devices, q \in Outputs :
          call'.output_lists[d][q] # None => Usable(call.output_lists[d][q], d)'
    <3> TAKE d \in call.devices, q \in Outputs
    <3>1. PICK x : x = call'.output_lists[d][q]
      OBVIOUS
    <3>2. x = call.output_lists[d][q]
      BY <1>7, <3>1
    <3>3. x # None => x \in Buffers /\ Usable(x, d) /\ x \notin call.before
      BY <2>3, <2>4, <3>2
    <3>4. x # None => Usable(x, d)'
      BY <2>1, <3>3
    <3> QED
      BY <3>1, <3>2, <3>4
  <2>8. \A q \in Outputs : call'.pending[q] # None => array'[call'.pending[q]] = "live"
    <3> SUFFICES ASSUME NEW q \in Outputs, call'.pending[q] # None
                 PROVE  array'[call'.pending[q]] = "live"
      OBVIOUS
    <3>1. q # o /\ call'.pending[q] = call.pending[q] /\ call.pending[q] \in Handles
      BY <1>8, Typing
    <3>2. call.pending[q] # own
      BY <1>2, <1>8, <3>1 DEF IInv, OwnedOnce, own
    <3> QED
      BY <1>9, <2>4, <3>1, <3>2
  <2>9. call.keep = {} => \A q \in Outputs : \A x \in TakesFrom(q) :
          buffer'[x].storage # None => array'[buffer'[x].storage] = "live"
    <3> SUFFICES ASSUME call.keep = {}, NEW q \in Outputs, NEW x \in TakesFrom(q), buffer'[x].storage # None
                 PROVE  array'[buffer'[x].storage] = "live"
      OBVIOUS
    <3>1. x \in Buffers /\ x # b
      BY <1>1, <1>3, TakesFromArgument
    <3>2. x \notin TakesFrom(o) /\ buffer'[x].storage = buffer[x].storage
      BY <1>12, <3>1
    <3>3. buffer[x].storage \in Handles /\ buffer[x].storage # own
      BY <1>2, <3>1, <3>2, Typing DEF IInv, OwnedOnce, own
    <3>4. array[buffer[x].storage] = "live"
      BY <2>4, <3>2, <3>3, Numbering
    <3> QED
      BY <1>9, <3>2, <3>3, <3>4
  <2>10. \A q \in Outputs : TakesFrom(q)' = TakesFrom(q)
    <3>1. \A q \in Outputs : aliasForOutput(q)' = aliasForOutput(q)
      BY <1>1 DEF aliasForOutput
    <3> QED
      BY <1>7, <3>1 DEF TakesFrom, AliasedArgument
  <2>11. call'.devices = call.devices /\ call'.keep = call.keep /\ corrupted' = "no"
    BY <1>1, <1>7
  <2> QED
    BY <2>6, <2>7, <2>8, <2>9, <2>10, <2>11 DEF UsableInv
<1> QED
  BY <1>14, <1>15, <1>16, <1>17, <1>19, <1>20, <1>21, <1>22 DEF IInv

(* The outputs of a device are given to the host, and the next has its turn. *)
LEMMA AssignOutputsStep ==
  ASSUME IInv, corrupted = "no", AssignOutputs
  PROVE  IInv'
<1> DEFINE next == call.device + 1 \in call.devices
<1>1. /\ call.pc = "assign" /\ Running
      /\ UNCHANGED <<plan, buffer, array, calls, deletes, corrupted>>
  BY DEF AssignOutputs, Running
<1>2. call \in Calls /\ call.device \in call.devices
  BY <1>1 DEF IInv, TypeInv, ProgressInv
<1>3. call.pending = NoOutputs /\ \A o \in Outputs : call.wrapped[o] # None
  BY <1>1 DEF IInv, ProgressInv
<1>4. /\ call'.pc = (IF next THEN "dispatch" ELSE "commit")
      /\ call'.device = (IF next THEN call.device + 1 ELSE call.device)
      /\ call'.output_lists = [call.output_lists EXCEPT ![call.device] = call.wrapped]
      /\ call'.wrapped = NoOutputs /\ call'.pending = NoOutputs /\ call'.donors = call.donors
      /\ call'.devices = call.devices /\ call'.args = call.args
      /\ call'.keep = call.keep /\ call'.before = call.before
  BY <1>2, <1>3 DEF AssignOutputs, Calls
<1>5. PICK n \in Devices : call.devices = 1 .. n
  BY <1>1 DEF IInv, ArgumentsInv
<1>6. /\ call.device \in 1 .. n /\ n \in Nat /\ \A d \in call.devices : d \in Nat
      /\ ~next => \A d \in call.devices : d <= call.device
      /\ \A d \in call.devices : d <= call.device <=> (d < call.device \/ d = call.device)
      /\ \A d \in call.devices : d <= call.device <=> d < call.device + 1
  BY <1>2, <1>5, Numbering
<1>7. /\ \A d \in call.devices, o \in Outputs :
           call'.output_lists[d][o] = IF d = call.device THEN call.wrapped[o] ELSE call.output_lists[d][o]
      /\ call'.output_lists \in [Devices -> [Outputs -> Buffers \cup {None}]]
  BY <1>2, <1>4 DEF Calls
<1>8. TypeInv'
  <2>1. NoOutputs \in [Outputs -> Buffers \cup {None}]
    BY DEF NoOutputs
  <2>2. call' = [call EXCEPT !.output_lists = call'.output_lists, !.wrapped = NoOutputs,
                             !.pc = IF next THEN "dispatch" ELSE "commit",
                             !.device = IF next THEN call.device + 1 ELSE call.device]
    BY <1>2, <1>4 DEF AssignOutputs, Calls
  <2>3. next => call.device + 1 \in Devices
    BY <1>2 DEF Calls
  <2>4. (IF next THEN call.device + 1 ELSE call.device) \in Devices \cup {None}
    BY <1>2, <2>3 DEF Calls
  <2>5. (IF next THEN "dispatch" ELSE "commit")
           \in {"idle", "dispatch", "wrap", "assign", "commit", "done", "failed"}
    OBVIOUS
  <2> HIDE DEF next
  <2>6. call'.output_lists \in [Devices -> [Outputs -> Buffers \cup {None}]]
    BY <1>7
  <2>7. call' \in Calls
    BY <1>2, <2>1, <2>2, <2>4, <2>5, <2>6 DEF Calls
  <2> QED
    BY <1>1, <2>7 DEF IInv, TypeInv
<1> HIDE DEF next
<1>9. OwnedOnce(buffer', array', call'.pending) /\ Tombstones(buffer')
  BY <1>1, <1>3, <1>4 DEF IInv
<1>10. \A d \in call.devices, o \in Outputs :
          /\ call.output_lists[d][o] # None <=> d < call.device
          /\ call'.output_lists[d][o] # None <=> d <= call.device
  <2>1. \A d \in call.devices, o \in Outputs : call.output_lists[d][o] # None <=> d < call.device
    BY <1>1 DEF IInv, ProgressInv
  <2> QED
    BY <1>3, <1>6, <1>7, <2>1
<1>11. ProgressInv'
  <2>1. CASE next
    <3>1. call'.pc = "dispatch" /\ call'.device = call.device + 1 /\ call'.device \in call'.devices
      BY <1>4, <2>1 DEF next
    <3> QED
      BY <1>4, <1>6, <1>10, <3>1 DEF ProgressInv
  <2>2. CASE ~next
    <3>1. call'.pc = "commit" /\ call'.device = call.device
      BY <1>4, <2>2
    <3> QED
      BY <1>2, <1>4, <1>6, <1>10, <2>2, <3>1 DEF ProgressInv
  <2> QED
    BY <2>1, <2>2
<1>12. Running' /\ call'.pc \in {"dispatch", "commit"}
  BY <1>4 DEF Running
<1>13. ArgumentsInv'
  <2>1. NoDonorAliases(call.devices, call.args, call.keep)' <=>
          NoDonorAliases(call.devices, call.args, call.keep)
    BY <1>1, <1>4 DEF NoDonorAliases
  <2> QED
    BY <1>1, <1>4, <2>1 DEF IInv, ArgumentsInv
<1>14. NewBuffers'
  <2>1. Held(call'.wrapped) = {}
    BY <1>4 DEF Held, NoOutputs
  <2>2. \A x : x \in AssignedOutputs' <=>
           \E d \in call.devices, o \in Outputs :
             call'.output_lists[d][o] # None /\ x = call'.output_lists[d][o]
    BY <1>4 DEF AssignedOutputs, Held
  <2>3. AssignedOutputs' = Held(call.wrapped) \cup AssignedOutputs
    <3>1. \A x \in AssignedOutputs' : x \in Held(call.wrapped) \cup AssignedOutputs
      <4> SUFFICES ASSUME NEW d \in call.devices, NEW o \in Outputs, call'.output_lists[d][o] # None
                   PROVE  call'.output_lists[d][o] \in Held(call.wrapped) \cup AssignedOutputs
        BY <2>2
      <4>1. CASE d = call.device
        BY <1>3, <1>7, <4>1, HeldIs
      <4>2. CASE d # call.device
        BY <1>7, <4>2, AssignedIs
      <4> QED
        BY <4>1, <4>2
    <3>2. \A x \in Held(call.wrapped) : x \in AssignedOutputs'
      BY <1>2, <1>7, <2>2, HeldIs
    <3>3. \A x \in AssignedOutputs : x \in AssignedOutputs'
      <4> SUFFICES ASSUME NEW d \in call.devices, NEW o \in Outputs, call.output_lists[d][o] # None
                   PROVE  call.output_lists[d][o] \in AssignedOutputs'
        BY AssignedIs
      <4>1. d # call.device
        BY <1>6, <1>10
      <4> QED
        BY <1>7, <2>2, <4>1
    <3> QED
      BY <3>1, <3>2, <3>3
  <2>4. /\ Buffers \ FreeBuffers = call.before \cup Held(call.wrapped) \cup AssignedOutputs
        /\ \A x \in Held(call.wrapped) \cup AssignedOutputs : x \notin call.before
    BY <1>1 DEF IInv, NewBuffers
  <2>5. FreeBuffers' = FreeBuffers
    BY <1>1 DEF FreeBuffers
  <2> QED
    BY <1>4, <1>12, <2>1, <2>3, <2>4, <2>5 DEF NewBuffers
<1>15. DonorsInv'
  <2>1. \A d \in call.devices : Dispatched(d)' <=> Dispatched(d)
    <3>1. \A d \in call.devices : Dispatched(d) <=> d <= call.device
      BY <1>1, <1>6 DEF Dispatched
    <3>2. \A d \in call.devices : Dispatched(d)' <=> d <= call.device
      <4>1. CASE next
        BY <1>4, <1>6, <4>1 DEF Dispatched
      <4>2. CASE ~next
        BY <1>4, <1>6, <4>2 DEF Dispatched
      <4> QED
        BY <4>1, <4>2
    <3> QED
      BY <3>1, <3>2
  <2>2. /\ call.donors = {call.args[d][p] : d \in {e \in call.devices : Dispatched(e)},
                                            p \in plan.donated \ call.keep}
        /\ \A x \in call.donors : buffer[x].state = "live"
    BY <1>1 DEF IInv, DonorsInv
  <2>3. {call.args[d][p] : d \in {e \in call.devices : Dispatched(e)}, p \in plan.donated \ call.keep} =
        {call.args[d][p] : d \in {e \in call.devices : Dispatched(e)'}, p \in plan.donated \ call.keep}
    BY <2>1
  <2> QED
    BY <1>1, <1>4, <2>2, <2>3 DEF DonorsInv
<1>16. UsableInv'
  <2>1. /\ \A o \in Outputs : call.wrapped[o] # None => Usable(call.wrapped[o], call.device)
        /\ \A d \in call.devices, o \in Outputs :
             call.output_lists[d][o] # None => Usable(call.output_lists[d][o], d)
    BY <1>1 DEF IInv, UsableInv
  <2>2. \A x, d : Usable(x, d)' <=> Usable(x, d)
    BY <1>1, <1>4 DEF Usable
  <2>3. \A d \in call.devices, o \in Outputs :
          call'.output_lists[d][o] # None => Usable(call.output_lists[d][o], d)'
    <3> TAKE d \in call.devices, o \in Outputs
    <3>1. PICK x : x = call'.output_lists[d][o]
      OBVIOUS
    <3>2. x # None => Usable(x, d)
      BY <1>7, <2>1, <3>1
    <3> QED
      BY <2>2, <3>1, <3>2
  <2>4. \A o \in Outputs : call'.wrapped[o] = None /\ call'.pending[o] = None
    BY <1>4 DEF NoOutputs
  <2> QED
    BY <1>1, <1>4, <1>12, <2>3, <2>4 DEF UsableInv
<1> QED
  BY <1>8, <1>9, <1>11, <1>13, <1>14, <1>15, <1>16 DEF IInv

(* The donations take effect: the donors were there before the call, and    *)
(* own nothing that an output has.                                         *)
LEMMA CommitStep ==
  ASSUME IInv, corrupted = "no", Commit
  PROVE  IInv'
<1>1. /\ call.pc = "commit" /\ Running
      /\ buffer' = [b \in Buffers |-> IF b \in call.donors THEN Tombstone(b, "donated") ELSE buffer[b]]
      /\ array' = Destroyed(Storages(call.donors))
      /\ call' = [call EXCEPT !.pc = "done"]
      /\ UNCHANGED <<plan, calls, deletes, corrupted>>
  BY DEF Commit, Running
<1>2. /\ call \in Calls /\ array \in [Handles -> ArrayStates] /\ TypeInv
      /\ buffer \in [Buffers -> BufferRecords]
  BY DEF IInv, TypeInv
<1>3. /\ call'.pc = "done" /\ call'.pending = call.pending /\ call'.wrapped = call.wrapped
      /\ call'.donors = call.donors /\ call'.output_lists = call.output_lists
      /\ call'.devices = call.devices /\ call'.device = call.device /\ call'.args = call.args
      /\ call'.keep = call.keep /\ call'.before = call.before /\ call' \in Calls
  BY <1>1, <1>2 DEF Calls
<1>4. call.pending = NoOutputs /\ call.wrapped = NoOutputs
  BY <1>1 DEF IInv, ProgressInv
<1>5. call.donors \subseteq Buffers /\ call.donors \subseteq call.before
  <2>1. /\ call.donors = {call.args[d][p] : d \in {e \in call.devices : Dispatched(e)},
                                            p \in plan.donated \ call.keep}
        /\ \A d \in call.devices, p \in Params : call.args[d][p] \in call.before
    BY <1>1 DEF IInv, DonorsInv, ArgumentsInv
  <2> QED
    BY <1>2, <2>1, Typing DEF Calls
<1>6. \A b \in call.donors : buffer[b].state = "live"
  BY <1>1 DEF IInv, DonorsInv
<1>7. /\ buffer' \in [Buffers -> BufferRecords]
      /\ \A b \in call.donors :
           buffer'[b].state = "donated" /\ buffer'[b].readiness = "failed" /\ buffer'[b].storage = None
      /\ \A b \in Buffers \ call.donors : buffer'[b] = buffer[b]
  <2>1. \A b \in Buffers :
          /\ Tombstone(b, "donated") \in BufferRecords
          /\ Tombstone(b, "donated").state = "donated"
          /\ Tombstone(b, "donated").readiness = "failed" /\ Tombstone(b, "donated").storage = None
    BY <1>2, TombstoneRecord
  <2> QED
    BY <1>1, <1>2, <1>5, <2>1
<1>8. /\ array' \in [Handles -> ArrayStates]
      /\ \A h \in Handles : array'[h] = IF h \in Storages(call.donors) THEN "free" ELSE array[h]
  BY <1>1, <1>2, DestroyedIs
<1>9. TypeInv'
  BY <1>1, <1>3, <1>7, <1>8 DEF IInv, TypeInv
<1>10. \A x \in Buffers : buffer[x].storage # None =>
         (buffer[x].storage \in Storages(call.donors) <=> x \in call.donors)
  BY <1>5 DEF Storages, IInv, OwnedOnce
<1>11. OwnedOnce(buffer', array', call'.pending)
  <2>1. \A x \in Buffers : buffer'[x].storage =
           IF buffer[x].storage \in Storages(call.donors) THEN None ELSE buffer[x].storage
    <3> TAKE x \in Buffers
    <3>1. buffer'[x].storage = IF x \in call.donors THEN None ELSE buffer[x].storage
      BY <1>7
    <3> QED
      BY <1>10, <3>1
  <2>2. \A o \in Outputs : call.pending[o] = None /\ call'.pending[o] = None
    BY <1>3, <1>4 DEF NoOutputs
  <2>3. Released(Storages(call.donors), buffer, array, call.pending, buffer', array', call'.pending)
    BY <1>8, <2>1, <2>2, Typing DEF Released
  <2> QED
    BY <2>3, Releasing DEF IInv
<1>12. Tombstones(buffer')
  BY <1>7 DEF IInv, Tombstones
<1>13. ProgressInv'
  BY <1>1, <1>3, <1>4 DEF IInv, ProgressInv, Running
<1>14. ArgumentsInv'
  <2>1. NoDonorAliases(call.devices, call.args, call.keep)' <=>
          NoDonorAliases(call.devices, call.args, call.keep)
    BY <1>1, <1>3 DEF NoDonorAliases
  <2> QED
    BY <1>1, <1>3, <2>1 DEF IInv, ArgumentsInv
<1>15. NewBuffers'
  <2>1. AssignedOutputs' = AssignedOutputs /\ Held(call.wrapped)' = Held(call.wrapped)
    BY <1>3 DEF AssignedOutputs, Held
  <2>2. FreeBuffers' = FreeBuffers
    BY <1>5, <1>6, <1>7 DEF FreeBuffers
  <2> QED
    BY <1>1, <1>3, <2>1, <2>2 DEF IInv, NewBuffers
<1>16. DonorsInv'
  <2>1. \A d \in call.devices : Dispatched(d)' <=> Dispatched(d)
    BY <1>1, <1>3 DEF Dispatched
  <2>2. call.donors = {call.args[d][p] : d \in {e \in call.devices : Dispatched(e)},
                                         p \in plan.donated \ call.keep}
    BY <1>1 DEF IInv, DonorsInv
  <2>3. {call.args[d][p] : d \in {e \in call.devices : Dispatched(e)}, p \in plan.donated \ call.keep} =
        {call.args[d][p] : d \in {e \in call.devices : Dispatched(e)'}, p \in plan.donated \ call.keep}
    BY <2>1
  <2> QED
    BY <1>1, <1>3, <2>2, <2>3 DEF DonorsInv
<1>17. UsableInv'
  <2>1. ASSUME NEW x \in Buffers, NEW d, Usable(x, d), x \notin call.before
        PROVE  Usable(x, d)'
    <3>1. x \notin call.donors /\ buffer'[x] = buffer[x]
      BY <1>5, <1>7, <2>1
    <3>2. buffer[x].storage \in Handles /\ buffer[x].storage \notin Storages(call.donors)
      BY <1>10, <2>1, <3>1, Typing DEF Usable
    <3>3. array'[buffer[x].storage] = array[buffer[x].storage]
      BY <1>8, <3>2
    <3> QED
      BY <1>3, <2>1, <3>1, <3>3 DEF Usable
  <2>2. \A d \in call.devices, o \in Outputs : call.output_lists[d][o] # None =>
          /\ call.output_lists[d][o] \in Buffers /\ call.output_lists[d][o] \notin call.before
          /\ Usable(call.output_lists[d][o], d)
    BY <1>1, <1>2, AssignedIs, OutputsAreBuffers DEF IInv, NewBuffers, UsableInv
  <2>3. \A d \in call.devices, o \in Outputs :
          call'.output_lists[d][o] # None => Usable(call.output_lists[d][o], d)'
    <3> TAKE d \in call.devices, o \in Outputs
    <3>1. PICK x : x = call'.output_lists[d][o]
      OBVIOUS
    <3>2. x # None => Usable(x, d)'
      BY <1>3, <2>1, <2>2, <3>1
    <3> QED
      BY <3>1, <3>2
  <2>4. \A o \in Outputs : call'.wrapped[o] = None /\ call'.pending[o] = None
    BY <1>3, <1>4 DEF NoOutputs
  <2> QED
    BY <1>1, <1>3, <2>3, <2>4 DEF UsableInv
<1> QED
  BY <1>9, <1>11, <1>12, <1>13, <1>14, <1>15, <1>16, <1>17 DEF IInv

----------------------------------------------------------------------------
(* The invariant.                                                          *)

LEMMA StutterStep ==
  ASSUME IInv, UNCHANGED vars
  PROVE  IInv'
<1>1. UNCHANGED <<plan, buffer, array, call, calls, deletes, corrupted>>
  BY DEF vars
<1>2. TypeInv' /\ ProgressInv'
  BY <1>1 DEF IInv, TypeInv, ProgressInv, Running
<1>3. OwnedOnce(buffer', array', call'.pending) /\ Tombstones(buffer')
  BY <1>1 DEF IInv
<1>4. ArgumentsInv' /\ NewBuffers'
  BY <1>1 DEF IInv, ArgumentsInv, NewBuffers, Running, NoDonorAliases, FreeBuffers, Held, AssignedOutputs
<1>5. DonorsInv'
  BY <1>1 DEF IInv, DonorsInv, Running, Dispatched
<1>6. UsableInv'
  <2>1. \A o \in Outputs : TakesFrom(o)' = TakesFrom(o)
    BY <1>1 DEF TakesFrom, aliasForOutput, AliasedArgument
  <2>2. \A b, d : Usable(b, d)' <=> Usable(b, d)
    BY <1>1 DEF Usable
  <2>3. Running' <=> Running
    BY <1>1 DEF Running
  <2>4. UsableInv
    BY DEF IInv
  <2> QED
    BY <1>1, <2>1, <2>2, <2>3, <2>4 DEF UsableInv
<1> QED
  BY <1>2, <1>3, <1>4, <1>5, <1>6 DEF IInv

LEMMA NextIInv == IInv /\ [Next]_vars => IInv'
<1> SUFFICES ASSUME IInv, [Next]_vars PROVE IInv'
  OBVIOUS
<1>1. CASE UNCHANGED vars
  BY <1>1, StutterStep
<1>2. CASE Next
  <2>1. corrupted = "no"
    BY <1>2 DEF Next
  <2>2. ASSUME NEW n \in Devices, NEW keep \in SUBSET Params,
               NEW args \in [1 .. n -> [Params -> Buffers \ FreeBuffers]], Execute(n, args, keep)
        PROVE  IInv'
    BY <2>1, <2>2, ExecuteStep
  <2>3. CASE DispatchRefused \/ DispatchFails \/ Dispatch
    BY <2>1, <2>3, DispatchRefusedStep, DispatchFailsStep, DispatchStep
  <2>4. CASE WrapOutput \/ WrapFails \/ WrapFailsAfterTake
    BY <2>1, <2>4, WrapOutputStep, WrapFailsStep, WrapFailsAfterTakeStep
  <2>5. CASE AssignOutputs \/ AssignFails
    BY <2>1, <2>5, AssignOutputsStep, AssignFailsStep
  <2>6. CASE Commit \/ Return
    BY <2>1, <2>6, CommitStep, ReturnStep
  <2>7. ASSUME NEW b \in Buffers, DeleteBuffer(b) \/ DestroyBuffer(b)
        PROVE  IInv'
    BY <2>1, <2>7, DeleteStep, DestroyStep
  <2> QED
    BY <1>2, <2>2, <2>3, <2>4, <2>5, <2>6, <2>7 DEF Next
<1> QED
  BY <1>1, <1>2

----------------------------------------------------------------------------
(* Theorems.                                                               *)

(* The invariant holds in every state.                                     *)
THEOREM ExecutionInvariant == Spec => []IInv
BY InitIInv, NextIInv, PTL DEF Spec

(* The state of buffers and calls is what the types of the code say         *)
(* (buffer.zig, execution.zig).                                            *)
THEOREM ExecutionIsTyped == Spec => []TypeOK
<1>1. IInv => TypeOK
  BY DEF IInv, TypeInv, TypeOK, BufferRecords, ArrayStates, Calls
<1> QED
  BY <1>1, ExecutionInvariant, PTL

(* Wherever a call fails, no backend buffer leaks, and none is shared       *)
(* (execution_outputs.zig, execution_donation.zig).                        *)
THEOREM BackendBuffersAreOwnedOnce == Spec => []HandlesOwnedOnce
<1>1. ASSUME IInv
      PROVE  HandlesOwnedOnce
  <2> DEFINE owners == {<<"buffer", b>> : b \in {x \in Buffers : buffer[x].storage # None}}
                         \cup {<<"pending", o>> : o \in {x \in Outputs : call.pending[x] # None}}
             Owned(w) == IF w[1] = "buffer" THEN buffer[w[2]].storage ELSE call.pending[w[2]]
             existing == Handles \ FreeHandles
             owned == [w \in owners |-> Owned(w)]
  <2>1. /\ \A x \in Buffers : buffer[x].storage # None => buffer[x].storage \in existing
        /\ \A o \in Outputs : call.pending[o] # None => call.pending[o] \in existing
    BY <1>1, Typing DEF IInv, OwnedOnce, FreeHandles
  <2>2. \A w \in owners : Owned(w) \in existing
    BY <2>1
  <2>3. \A h \in existing : \E w \in owners : Owned(w) = h
    <3> SUFFICES ASSUME NEW h \in existing
                 PROVE  \E w \in owners : Owned(w) = h
      OBVIOUS
    <3>1. h # None
      BY Numbering
    <3>2. CASE \E x \in Buffers : buffer[x].storage = h
      <4>1. PICK x \in Buffers : buffer[x].storage = h
        BY <3>2
      <4>2. <<"buffer", x>> \in owners /\ Owned(<<"buffer", x>>) = h
        BY <3>1, <4>1
      <4> QED
        BY <4>2
    <3>3. CASE \E o \in Outputs : call.pending[o] = h
      <4>1. PICK o \in Outputs : call.pending[o] = h
        BY <3>3
      <4>2. <<"pending", o>> \in owners /\ Owned(<<"pending", o>>) = h
        BY <3>1, <4>1
      <4> QED
        BY <4>2
    <3> QED
      BY <1>1, <3>2, <3>3 DEF IInv, OwnedOnce, FreeHandles
  <2>4. \A v, w \in owners : Owned(v) = Owned(w) => v = w
    BY <1>1 DEF IInv, OwnedOnce
  <2>5. {Owned(w) : w \in owners} = existing
    BY <2>2, <2>3
  <2> HIDE DEF owners, Owned, existing
  <2>6. owned \in Injection(owners, existing)
    BY <2>2, <2>4 DEF Injection, IsInjective
  <2>7. owned \in Surjection(owners, existing)
    BY <2>2, <2>3 DEF Surjection
  <2>8. IsFiniteSet(existing)
    <3>1. IsFiniteSet(1 .. NumBuffers)
      BY FS_Interval, ExecutionAssumption
    <3> QED
      BY <3>1, FS_Subset DEF existing, Handles
  <2>9. Cardinality(owners) = Cardinality(existing)
    BY <2>6, <2>7, <2>8, FS_Injection
  <2> QED
    BY <2>5, <2>9 DEF HandlesOwnedOnce, owners, Owned, existing
<1> QED
  BY <1>1, ExecutionInvariant, PTL

(* A call that fails on some device leaves the host the buffers it had      *)
(* (ExecuteResults.cleanup).                                               *)
THEOREM FailuresLeaveNothing == Spec => []FailedCallLeavesNoOutput
<1>1. IInv => FailedCallLeavesNoOutput
  BY DEF IInv, NewBuffers, FailedCallLeavesNoOutput
<1> QED
  BY <1>1, ExecutionInvariant, PTL

(* A call that succeeds returns outputs the host can read, on their device  *)
(* (execution_outputs.zig).                                                *)
THEOREM ReturnedOutputsAreUsable == Spec => []OutputsUsable
<1>1. ASSUME IInv
      PROVE  OutputsUsable
  <2>1. ASSUME call.pc = "done", NEW d \in call.devices, NEW o \in Outputs
        PROVE  call.output_lists[d][o] # None /\ Usable(call.output_lists[d][o], d)
    BY <1>1, <2>1 DEF IInv, ProgressInv, UsableInv, Running
  <2> QED
    BY <2>1 DEF OutputsUsable, Usable
<1> QED
  BY <1>1, ExecutionInvariant, PTL

(* What a step may do to the state of a buffer.                            *)
LEMMA StatesAfter ==
  ASSUME IInv, [Next]_vars, ~Commit, NEW b \in Buffers
  PROVE  /\ buffer'[b].state = "donated" => buffer[b].state = "donated"
         /\ buffer[b].state \in {"deleted", "donated"} => buffer'[b].state \in {"deleted", "donated", "free"}
<1>1. buffer \in [Buffers -> BufferRecords] /\ TypeInv
  BY DEF IInv, TypeInv
<1>2. CASE buffer' = buffer
  BY <1>2
<1>3. ASSUME NEW c, NEW a, NEW doomed, FailCall(c, a, doomed), c[b].state = buffer[b].state
      PROVE  buffer'[b].state \in {"free", buffer[b].state}
  BY <1>3 DEF FailCall, FreeBuffer
<1>4. CASE DispatchRefused \/ DispatchFails \/ WrapFails \/ AssignFails
  BY <1>3, <1>4 DEF DispatchRefused, DispatchFails, WrapFails, AssignFails
<1>5. CASE WrapFailsAfterTake
  BY <1>3, <1>5, WithoutStorageIs DEF WrapFailsAfterTake
<1>6. CASE WrapOutput
  <2>1. PICK x, h, q : /\ x \in FreeBuffers
                       /\ buffer' = [WithoutStorage(q) EXCEPT ![x] = LiveBuffer(h, call.device)]
    <3>1. FreeBuffers \in SUBSET Nat
      BY Numbering DEF FreeBuffers
    <3> QED
      BY <1>6, <3>1, LeastIsIn DEF WrapOutput
  <2>2. buffer'[b].state = IF b = x THEN "live" ELSE buffer[b].state
    BY <2>1, WithoutStorageIs DEF LiveBuffer
  <2> QED
    BY <2>1, <2>2 DEF FreeBuffers
<1>7. ASSUME NEW x \in Buffers, DeleteBuffer(x) \/ DestroyBuffer(x)
      PROVE  buffer'[b].state \in {"deleted", "free", buffer[b].state}
  <2>1. Tombstone(x, "deleted").state = "deleted"
    BY <1>1, TombstoneRecord
  <2> QED
    BY <1>1, <1>7, <2>1 DEF DeleteBuffer, DestroyBuffer, FreeBuffer
<1> QED
  BY <1>2, <1>4, <1>5, <1>6, <1>7
     DEF Next, vars, Execute, Dispatch, AssignOutputs, Return

(* Buffers become donated only together, once every device of the call has  *)
(* succeeded (DonationSet.commit).                                         *)
THEOREM DonationsAreAtomic == Spec => DonationIsAtomic
<1> DEFINE Donated == {b \in Buffers : buffer[b].state # "donated" /\ buffer'[b].state = "donated"}
           Step == Donated # {} =>
                     /\ \A d \in call.devices : NoOutputs # call.output_lists[d]
                     /\ Donated = {call.args[d][p] : d \in call.devices, p \in plan.donated \ call.keep}
<1>1. ASSUME IInv, [Next]_vars
      PROVE  Step
  <2>1. CASE ~Commit
    BY <1>1, <2>1, StatesAfter
  <2>2. CASE Commit
    <3>1. call.pc = "commit" /\ Running /\ TypeInv
      BY <1>1, <2>2 DEF Commit, Running, IInv
    <3>2. /\ \A d \in call.devices, o \in Outputs : call.output_lists[d][o] # None
          /\ \A d \in call.devices : d <= call.device
      BY <1>1, <3>1 DEF IInv, ProgressInv
    <3>3. \A d \in call.devices : NoOutputs # call.output_lists[d]
      BY <3>2, Numbering DEF NoOutputs
    <3>4. \A d \in call.devices : Dispatched(d)
      <4>1. call.device \in Nat /\ \A d \in call.devices : d \in Nat
        BY <1>1, <3>1, Numbering DEF IInv, ProgressInv, TypeInv, Calls
      <4> QED
        BY <3>1, <3>2, <4>1 DEF Dispatched
    <3>5. /\ call.donors = {call.args[d][p] : d \in {e \in call.devices : Dispatched(e)},
                                              p \in plan.donated \ call.keep}
          /\ \A b \in call.donors : buffer[b].state = "live"
      BY <1>1, <3>1 DEF IInv, DonorsInv
    <3>6. call.donors = {call.args[d][p] : d \in call.devices, p \in plan.donated \ call.keep}
      BY <3>4, <3>5
    <3>7. call.donors \subseteq Buffers
      BY <3>1 DEF TypeInv, Calls
    <3>8. \A b \in Buffers : buffer'[b].state = IF b \in call.donors THEN "donated" ELSE buffer[b].state
      BY <2>2, <3>1, TombstoneRecord DEF Commit
    <3>9. Donated = call.donors
      BY <3>5, <3>7, <3>8
    <3> QED
      BY <3>3, <3>6, <3>9
  <2> QED
    BY <2>1, <2>2
<1>2. IInv /\ [Next]_vars => [Step]_vars
  BY <1>1
<1>3. DonationIsAtomic <=> [][Step]_vars
  BY DEF DonationIsAtomic
<1> HIDE DEF Step
<1> QED
  BY <1>2, <1>3, ExecutionInvariant, PTL DEF Spec

(* A deleted or donated buffer stays a failed tombstone without storage     *)
(* (buffer.zig).                                                           *)
THEOREM TombstonesRemain == Spec => TombstonesStay
<1> DEFINE Step == \A b \in Buffers :
                     buffer[b].state \in {"deleted", "donated"} =>
                       /\ buffer[b].storage = None /\ buffer[b].readiness = "failed"
                       /\ buffer'[b].state \in {"deleted", "donated", "free"}
<1>1. ASSUME IInv, [Next]_vars
      PROVE  Step
  <2> SUFFICES ASSUME NEW b \in Buffers, buffer[b].state \in {"deleted", "donated"}
               PROVE  /\ buffer[b].storage = None /\ buffer[b].readiness = "failed"
                      /\ buffer'[b].state \in {"deleted", "donated", "free"}
    OBVIOUS
  <2>1. buffer[b].storage = None /\ buffer[b].readiness = "failed"
    BY <1>1 DEF IInv, Tombstones
  <2>2. CASE ~Commit
    BY <1>1, <2>1, <2>2, StatesAfter
  <2>3. CASE Commit
    <3>1. TypeInv
      BY <1>1 DEF IInv
    <3> QED
      BY <2>1, <2>3, <3>1, TombstoneRecord DEF Commit
  <2> QED
    BY <2>2, <2>3
<1>2. IInv /\ [Next]_vars => [Step]_vars
  BY <1>1
<1>3. TombstonesStay <=> [][Step]_vars
  BY DEF TombstonesStay
<1> HIDE DEF Step
<1> QED
  BY <1>2, <1>3, ExecutionInvariant, PTL DEF Spec
=============================================================================
