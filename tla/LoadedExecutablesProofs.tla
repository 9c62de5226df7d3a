----------------------- MODULE LoadedExecutablesProofs -----------------------
(***************************************************************************)
(* Proofs about the executable cache, for every number of executables,     *)
(* fingerprints and handles, every budget and every allocation size; then  *)
(* about loaded executables, which use the cache as its own specification   *)
(* says, so that its theorems carry over, and an execution dispatches the   *)
(* resident executable of its own program.                                *)
(***************************************************************************)
EXTENDS LoadedExecutables, FiniteSetTheorems, WellFoundedInduction, TLAPS

(* The invariant of the control state, of entries e, requests r and live   *)
(* backend executables a: its parts are the four invariants of the module. *)
HeldIn(r, f) == {x \in Executables : r[x].pc = "held" /\ r[x].fp = f}
Flying(r) == {x \in Executables : r[x].pc \in {"trim", "install"}}

Typed(e, r, a) ==
  /\ e \in [Fingerprints -> Entry]
  /\ r \in [Executables -> Request]
  /\ a \subseteq Handles

Leased(e, r, a) ==
  \A x \in Executables : r[x].pc = "held" =>
    /\ r[x].handle \in a
    /\ r[x].handle = e[r[x].fp].handle

Counted(e, r) == \A f \in Fingerprints : e[f].ref_count = Cardinality(HeldIn(r, f))

Owned(e, r, a) ==
  /\ a = {e[f].handle : f \in Resident(e)} \cup {r[x].handle : x \in Flying(r)}
  /\ \A f, g \in Resident(e) : e[f].handle = e[g].handle => f = g
  /\ \A x, y \in Flying(r) : r[x].handle = r[y].handle => x = y
  /\ \A x \in Flying(r), f \in Resident(e) : r[x].handle # e[f].handle

InvOf(e, r, a) == Typed(e, r, a) /\ Leased(e, r, a) /\ Counted(e, r) /\ Owned(e, r, a)

(* The strengthening that is inductive.                                    *)
IInv == ControlTypeOK /\ LeaseSafety /\ RefCountExact /\ SoleOwner

USE CacheAssumption

(* A request that is over names some fingerprint.                          *)
LEMMA AnyFingerprintType == AnyFingerprint \in Fingerprints
BY DEF AnyFingerprint

(* Touch reorders the entries and changes nothing else.                    *)
LEMMA TouchKeeps ==
  ASSUME NEW e \in [Fingerprints -> Entry], NEW f \in Fingerprints
  PROVE  /\ Touch(e, f) \in [Fingerprints -> Entry]
         /\ \A g \in Fingerprints : /\ Touch(e, f)[g].handle = e[g].handle
                                    /\ Touch(e, f)[g].ref_count = e[g].ref_count
BY DEF Touch, Entry

(* Evictions only take handles from idle entries.                          *)
LEMMA EvictKeeps ==
  ASSUME NEW e \in [Fingerprints -> Entry], NEW total, NEW count, NEW target,
         EvictAndPublish(e, total, count, target)
  PROVE  /\ entry' \in [Fingerprints -> Entry]
         /\ \A g \in Fingerprints :
              /\ entry'[g].ref_count = e[g].ref_count
              /\ entry'[g].handle \in {e[g].handle, NoHandle}
              /\ e[g].ref_count # 0 => entry'[g].handle = e[g].handle
<1>1. Victims(e, total, target) \subseteq {g \in Fingerprints : e[g].ref_count = 0}
  BY DEF Victims, Idle, Resident
<1>2. entry' = [f \in Fingerprints |->
                 IF f \in Victims(e, total, target) THEN [e[f] EXCEPT !.handle = NoHandle, !.bytes = 0]
                                  ELSE e[f]]
  BY DEF EvictAndPublish
<1>3. QED
  BY <1>1, <1>2 DEF Entry

(* IInv is InvOf of the state.                                             *)
LEMMA IInvIsInvOf == IInv => InvOf(entry, request, alive)
BY DEF IInv, InvOf, Typed, Leased, Counted, Owned, HeldIn, Flying, Held, InFlight,
       ControlTypeOK, LeaseSafety, RefCountExact, SoleOwner

LEMMA InvOfIsIInv ==
  ASSUME InvOf(entry', request', alive'), known' \subseteq Fingerprints
  PROVE  IInv'
BY DEF IInv, InvOf, Typed, Leased, Counted, Owned, HeldIn, Flying, Held, InFlight,
       ControlTypeOK, LeaseSafety, RefCountExact, SoleOwner, Resident

(* The evictions that end a critical section keep the invariant, whatever  *)
(* the section did before to reach the entries e.                          *)
LEMMA EvictInv ==
  ASSUME NEW e, NEW total, NEW count, NEW target,
         EvictAndPublish(e, total, count, target),
         InvOf(e, request', alive),
         \A f \in Resident(entry) : f \in Resident(e) /\ e[f].handle = entry[f].handle,
         \A f \in Resident(e) \ Resident(entry) : e[f].ref_count # 0,
         alive' = alive \ EvictedHandles
  PROVE  InvOf(entry', request', alive')
<1>1. /\ entry' \in [Fingerprints -> Entry]
      /\ \A g \in Fingerprints :
              /\ entry'[g].ref_count = e[g].ref_count
              /\ entry'[g].handle \in {e[g].handle, NoHandle}
              /\ e[g].ref_count # 0 => entry'[g].handle = e[g].handle
  BY EvictKeeps DEF InvOf, Typed
<1>2. EvictedHandles = {e[f].handle : f \in {g \in Resident(e) : entry'[g].handle = NoHandle}}
  BY <1>1 DEF EvictedHandles, Resident
<1>3. Resident(entry') = {g \in Resident(e) : entry'[g].handle # NoHandle}
  BY <1>1 DEF Resident
<1>4. \A g \in Resident(entry') : entry'[g].handle = e[g].handle
  BY <1>1, <1>3 DEF Resident
<1>5. Typed(entry', request', alive')
  BY <1>1 DEF InvOf, Typed
<1>6. Counted(entry', request')
  BY <1>1 DEF InvOf, Counted
<1>7. Owned(entry', request', alive')
  BY <1>2, <1>3, <1>4 DEF InvOf, Owned
<1>8. Leased(entry', request', alive')
  <2> SUFFICES ASSUME NEW x \in Executables, request'[x].pc = "held"
               PROVE  /\ request'[x].handle \in alive'
                      /\ request'[x].handle = entry'[request'[x].fp].handle
    BY DEF Leased
  <2> DEFINE f == request'[x].fp
  <2>1. f \in Fingerprints /\ request'[x].handle = e[f].handle /\ request'[x].handle \in Handles
    BY DEF InvOf, Typed, Leased, Request
  <2>2. x \in HeldIn(request', f) /\ HeldIn(request', f) \subseteq Executables
    BY DEF HeldIn
  <2>3. IsFiniteSet(HeldIn(request', f))
    BY <2>2, FS_Subset
  <2>4. Cardinality(HeldIn(request', f)) # 0
    BY <2>2, <2>3, FS_EmptySet
  <2>5. e[f].ref_count # 0
    BY <2>1, <2>4 DEF InvOf, Counted
  <2>6. entry'[f].handle = e[f].handle
    BY <1>1, <2>1, <2>5
  <2>7. f \in Resident(entry')
    BY <2>1, <2>6 DEF Resident
  <2>8. QED
    BY <1>7, <2>1, <2>6, <2>7 DEF Owned
<1>9. QED
  BY <1>5, <1>6, <1>7, <1>8 DEF InvOf

----------------------------------------------------------------------------
(* A request that goes between states where it owns nothing.               *)
LEMMA IdleMove ==
  ASSUME IInv, NEW x \in Executables, NEW q \in Request,
         request[x].pc \in {"none", "lookup", "recheck", "compile"},
         q.pc \in {"none", "lookup", "recheck", "compile"},
         request' = [request EXCEPT ![x] = q],
         entry' = entry, alive' = alive
  PROVE  InvOf(entry', request', alive')
<1>1. InvOf(entry, request, alive)
  BY IInvIsInvOf
<1>2. request' \in [Executables -> Request]
  BY <1>1 DEF InvOf, Typed
<1>3. \A f \in Fingerprints : HeldIn(request', f) = HeldIn(request, f)
  BY <1>1 DEF HeldIn, InvOf, Typed
<1>4. Flying(request') = Flying(request)
  BY <1>1 DEF Flying, InvOf, Typed
<1>5. \A y \in Flying(request) : request'[y] = request[y]
  BY <1>1 DEF Flying, InvOf, Typed
<1>6. Owned(entry', request', alive')
  <2>1. {request'[y].handle : y \in Flying(request')} = {request[y].handle : y \in Flying(request)}
    BY <1>4, <1>5
  <2>2. Owned(entry, request, alive)
    BY <1>1 DEF InvOf
  <2>3. Owned(entry, request', alive)
    <3>1. alive = {entry[f].handle : f \in Resident(entry)} \cup {request'[y].handle : y \in Flying(request')}
      BY <2>1, <2>2 DEF Owned
    <3>2. /\ \A f, g \in Resident(entry) : entry[f].handle = entry[g].handle => f = g
          /\ \A z, y \in Flying(request') : request'[z].handle = request'[y].handle => z = y
          /\ \A z \in Flying(request'), f \in Resident(entry) : request'[z].handle # entry[f].handle
      BY <1>1, <1>4, <1>5, <2>2 DEF Owned, Flying, InvOf, Typed
    <3>3. QED
      BY <3>1, <3>2 DEF Owned
  <2>4. QED
    BY <2>3
<1>7. Leased(entry', request', alive')
  BY <1>1 DEF InvOf, Leased, Typed
<1>8. Counted(entry', request')
  BY <1>1, <1>3 DEF InvOf, Counted
<1>9. QED
  BY <1>1, <1>2, <1>6, <1>7, <1>8 DEF InvOf, Typed

(* A critical section that only evicts, and may let x pass its trim.       *)
LEMMA TrimInv ==
  ASSUME IInv, NEW total, NEW count, NEW target,
         EvictAndPublish(entry, total, count, target),
         alive' = alive \ EvictedHandles,
         \/ request' = request
         \/ \E x \in Executables : /\ request[x].pc = "trim"
                                   /\ request' = [request EXCEPT ![x].pc = "install"]
  PROVE  InvOf(entry', request', alive')
<1>1. InvOf(entry, request, alive)
  BY IInvIsInvOf
<1>2. /\ request' \in [Executables -> Request]
      /\ \A y \in Executables : /\ request'[y].handle = request[y].handle
                                /\ request'[y].fp = request[y].fp
                                /\ request'[y].pc = "held" <=> request[y].pc = "held"
                                /\ request'[y].pc \in {"trim", "install"}
                                     <=> request[y].pc \in {"trim", "install"}
  BY <1>1 DEF InvOf, Typed, Request
<1>3. Flying(request') = Flying(request) /\ \A f : HeldIn(request', f) = HeldIn(request, f)
  BY <1>2 DEF Flying, HeldIn
<1>4. Owned(entry, request', alive)
  BY <1>1, <1>2, <1>3 DEF InvOf, Owned, Flying
<1>5. InvOf(entry, request', alive)
  BY <1>1, <1>2, <1>3, <1>4 DEF InvOf, Typed, Leased, Counted
<1>6. QED
  BY <1>5, EvictInv

(* A request that starts to hold the executable its entry has.             *)
LEMMA ReuseInv ==
  ASSUME IInv, NEW x \in Executables, request[x].pc # "held", Reuse(x),
         alive' = alive \ (IF x \in Flying(request) THEN {request[x].handle} ELSE {})
  PROVE  InvOf(entry', request', alive')
<1> DEFINE f == request[x].fp
           e == [entry EXCEPT ![f].ref_count = @ + 1]
<1>1. InvOf(entry, request, alive)
  BY IInvIsInvOf
<1>2. f \in Fingerprints /\ entry[f].handle # NoHandle /\ entry[f] \in Entry
  BY <1>1 DEF InvOf, Typed, Request, Reuse
<1>3. e \in [Fingerprints -> Entry]
  BY <1>1, <1>2 DEF InvOf, Typed, Entry
<1>4. entry' = Touch(e, f)
  BY DEF Reuse, Retain
<1>5. /\ entry' \in [Fingerprints -> Entry]
      /\ \A g \in Fingerprints : /\ entry'[g].handle = entry[g].handle
                                 /\ g # f => entry'[g].ref_count = entry[g].ref_count
      /\ entry'[f].ref_count = entry[f].ref_count + 1
  <2>1. \A g \in Fingerprints : /\ e[g].handle = entry[g].handle
                                /\ g # f => e[g].ref_count = entry[g].ref_count
    BY <1>1, <1>2 DEF InvOf, Typed, Entry
  <2>2. e[f].ref_count = entry[f].ref_count + 1
    BY <1>1, <1>2 DEF InvOf, Typed, Entry
  <2>3. f \in Fingerprints /\ e \in [Fingerprints -> Entry] /\ entry' = Touch(e, f)
    BY <1>2, <1>3, <1>4
  <2> HIDE DEF e
  <2>4. /\ entry' \in [Fingerprints -> Entry]
        /\ \A g \in Fingerprints : /\ entry'[g].handle = e[g].handle
                                   /\ entry'[g].ref_count = e[g].ref_count
    BY <2>3, TouchKeeps
  <2>5. QED
    BY <2>1, <2>2, <2>3, <2>4
<1>6. /\ request' \in [Executables -> Request]
      /\ \A y \in Executables \ {x} : request'[y] = request[y]
      /\ request'[x].pc = "held" /\ request'[x].fp = f /\ request'[x].handle = entry[f].handle
  <2>1. request \in [Executables -> Request]
    BY <1>1 DEF InvOf, Typed
  <2>2. entry[f].handle \in Handles \cup {NoHandle}
    BY <1>2 DEF Entry
  <2>3. request' = [request EXCEPT ![x].pc = "held", ![x].handle = entry[f].handle]
    BY DEF Reuse
  <2>4. request' = [request EXCEPT ![x] = [request[x] EXCEPT !.pc = "held", !.handle = entry[f].handle]]
    BY <2>1, <2>3
  <2>5. [request[x] EXCEPT !.pc = "held", !.handle = entry[f].handle] \in Request
    BY <2>1, <2>2 DEF Request
  <2>6. request[x] \in Request
    BY <2>1
  <2>7. QED
    BY <2>1, <2>4, <2>5, <2>6 DEF Request
<1>7. Resident(entry') = Resident(entry)
  BY <1>5 DEF Resident
<1>8. Flying(request') = Flying(request) \ {x}
  BY <1>6 DEF Flying
<1>9. Owned(entry', request', alive')
  BY <1>1, <1>5, <1>6, <1>7, <1>8 DEF InvOf, Owned, Flying, Resident
<1>10. Counted(entry', request')
  <2> SUFFICES ASSUME NEW g \in Fingerprints
               PROVE  entry'[g].ref_count = Cardinality(HeldIn(request', g))
    BY DEF Counted
  <2>1. CASE g = f
    <3>1. HeldIn(request', f) = HeldIn(request, f) \cup {x} /\ x \notin HeldIn(request, f)
      BY <1>6 DEF HeldIn
    <3>2. IsFiniteSet(HeldIn(request, f))
      BY FS_Subset DEF HeldIn
    <3>3. Cardinality(HeldIn(request', f)) = Cardinality(HeldIn(request, f)) + 1
      BY <3>1, <3>2, FS_AddElement
    <3>4. QED
      BY <1>1, <1>2, <1>5, <2>1, <3>3 DEF InvOf, Counted
  <2>2. CASE g # f
    <3>1. HeldIn(request', g) = HeldIn(request, g)
      BY <1>6, <2>2 DEF HeldIn
    <3>2. QED
      BY <1>1, <1>5, <2>2, <3>1 DEF InvOf, Counted
  <2>3. QED
    BY <2>1, <2>2
<1>11. Leased(entry', request', alive')
  <2> SUFFICES ASSUME NEW y \in Executables, request'[y].pc = "held"
               PROVE  /\ request'[y].handle \in alive'
                      /\ request'[y].handle = entry'[request'[y].fp].handle
    BY DEF Leased
  <2>1. /\ request'[y].fp \in Fingerprints
        /\ request'[y].handle = entry[request'[y].fp].handle
        /\ request'[y].handle \in alive
    BY <1>1, <1>2, <1>6 DEF InvOf, Leased, Typed, Request, Owned, Resident
  <2>2. request'[y].fp \in Resident(entry)
    BY <1>1, <2>1 DEF InvOf, Typed, Resident
  <2>3. request'[y].handle \in alive'
    BY <1>1, <2>1, <2>2 DEF InvOf, Owned
  <2>4. QED
    BY <1>5, <2>1, <2>3
<1>12. QED
  BY <1>1, <1>5, <1>6, <1>9, <1>10, <1>11 DEF InvOf, Typed

(* A finished backend compile: the request owns a new handle.              *)
LEMMA CompileInv ==
  ASSUME IInv, NEW x \in Executables, NEW h \in Handles \ alive, NEW latency \in Latencies,
         BackendCompile(x, h, latency)
  PROVE  InvOf(entry', request', alive')
<1>1. InvOf(entry, request, alive)
  BY IInvIsInvOf
<1>2. /\ request' \in [Executables -> Request]
      /\ \A y \in Executables \ {x} : request'[y] = request[y]
      /\ request'[x].handle = h /\ request'[x].pc \in {"trim", "install"}
      /\ request[x].pc = "compile"
  BY <1>1 DEF InvOf, Typed, Request, BackendCompile
<1>3. entry' = entry /\ alive' = alive \cup {h}
  BY DEF BackendCompile
<1>4. Flying(request') = Flying(request) \cup {x} /\ x \notin Flying(request)
  BY <1>2 DEF Flying
<1>5. \A f \in Fingerprints : HeldIn(request', f) = HeldIn(request, f)
  BY <1>2 DEF HeldIn
<1>6. Owned(entry, request', alive')
  <2>1. /\ \A f \in Resident(entry) : entry[f].handle \in alive
        /\ \A y \in Flying(request) : request[y].handle \in alive
    BY <1>1 DEF InvOf, Owned
  <2>2. \A y \in Flying(request) : request'[y] = request[y]
    BY <1>2, <1>4 DEF Flying
  <2>3. QED
    BY <1>1, <1>2, <1>3, <1>4, <2>1, <2>2 DEF InvOf, Owned
<1>7. Leased(entry, request', alive')
  BY <1>1, <1>2, <1>3 DEF InvOf, Leased
<1>8. Counted(entry, request')
  BY <1>1, <1>5 DEF InvOf, Counted
<1>9. InvOf(entry, request', alive')
  BY <1>1, <1>2, <1>3, <1>6, <1>7, <1>8 DEF InvOf, Typed
<1>10. QED
  BY <1>3, <1>9

(* A handle becomes resident: nobody could have leased the entry before,   *)
(* so that overwriting the reference count with one loses no lease.        *)
LEMMA AcquireInv ==
  ASSUME IInv, NEW x \in Executables, AcquireResident(x)
  PROVE  InvOf(entry', request', alive')
<1> DEFINE f == request[x].fp
           n == ConstantBytes[f]
           d == [entry EXCEPT ![f].handle = request[x].handle, ![f].bytes = n,
                              ![f].ref_count = 1, ![f].latency = request[x].latency]
           e == Touch(d, f)
<1>1. InvOf(entry, request, alive)
  BY IInvIsInvOf
<1>2. f \in Fingerprints /\ entry[f].handle = NoHandle /\ x \in Flying(request)
  BY <1>1 DEF InvOf, Typed, Request, AcquireResident, Flying
<1>3. request[x].handle \in alive /\ request[x].handle # NoHandle
  BY <1>1, <1>2 DEF InvOf, Owned, Typed
<1>4. /\ d \in [Fingerprints -> Entry]
      /\ \A g \in Fingerprints \ {f} : d[g] = entry[g]
      /\ d[f].handle = request[x].handle /\ d[f].ref_count = 1
  <2>1. n \in Nat /\ request[x] \in Request /\ entry[f] \in Entry /\ entry \in [Fingerprints -> Entry]
    BY <1>1, <1>2 DEF InvOf, Typed
  <2>2. QED
    BY <1>2, <2>1 DEF Request, Entry
<1> HIDE DEF d
<1>5. /\ e \in [Fingerprints -> Entry]
      /\ \A g \in Fingerprints : e[g].handle = d[g].handle /\ e[g].ref_count = d[g].ref_count
  BY <1>2, <1>4, TouchKeeps
<1> HIDE DEF e
<1>6. /\ \A g \in Fingerprints \ {f} : /\ e[g].handle = entry[g].handle
                                       /\ e[g].ref_count = entry[g].ref_count
      /\ e[f].handle = request[x].handle /\ e[f].ref_count = 1
  BY <1>2, <1>4, <1>5
<1>7. /\ request' \in [Executables -> Request]
      /\ \A y \in Executables \ {x} : request'[y] = request[y]
      /\ request'[x].pc = "held" /\ request'[x].fp = f
      /\ request'[x].handle = request[x].handle /\ request[x].pc = "install"
  BY <1>1, <1>2 DEF InvOf, Typed, Request, AcquireResident
<1>8. Resident(e) = Resident(entry) \cup {f} /\ f \notin Resident(entry)
  BY <1>2, <1>3, <1>6 DEF Resident
<1>9. Flying(request') = Flying(request) \ {x}
  BY <1>7 DEF Flying
<1>10. HeldIn(request, f) = {}
  BY <1>1, <1>2 DEF InvOf, Leased, Typed, HeldIn
<1>11. Counted(e, request')
  <2>1. HeldIn(request', f) = {x}
    BY <1>7, <1>10 DEF HeldIn
  <2>2. \A g \in Fingerprints \ {f} : HeldIn(request', g) = HeldIn(request, g)
    BY <1>7 DEF HeldIn
  <2>3. Cardinality(HeldIn(request', f)) = 1
    BY <2>1, FS_Singleton
  <2>4. QED
    BY <1>1, <1>6, <2>2, <2>3 DEF InvOf, Counted
<1>12. Leased(e, request', alive)
  <2>1. \A y \in Executables \ {x} : request[y].pc = "held" => request[y].fp \in Fingerprints \ {f}
    BY <1>1, <1>10 DEF HeldIn, InvOf, Typed, Request
  <2>2. QED
    BY <1>1, <1>3, <1>6, <1>7, <2>1 DEF InvOf, Leased
<1>13. Owned(e, request', alive)
  <2>1. \A g \in Resident(entry) : e[g].handle = entry[g].handle
    BY <1>6, <1>8 DEF Resident
  <2>2. \A y \in Flying(request') : request'[y] = request[y] /\ y \in Flying(request) /\ y # x
    BY <1>7, <1>9 DEF Flying
  <2>3. QED
    BY <1>1, <1>2, <1>6, <1>8, <1>9, <2>1, <2>2 DEF InvOf, Owned
<1>14. InvOf(e, request', alive)
  BY <1>1, <1>5, <1>7, <1>11, <1>12, <1>13 DEF InvOf, Typed
<1>15. /\ EvictAndPublish(e, resident_bytes + n, resident_entries + 1, max_resident_bytes)
       /\ alive' = alive \ EvictedHandles
  BY DEF AcquireResident, e, d
<1>16. /\ \A g \in Resident(entry) : g \in Resident(e) /\ e[g].handle = entry[g].handle
       /\ \A g \in Resident(e) \ Resident(entry) : e[g].ref_count # 0
  BY <1>6, <1>8 DEF Resident
<1>17. QED
  BY <1>14, <1>15, <1>16, EvictInv

(* A lease given up: its entry may go in the same critical section.        *)
LEMMA ReleaseInv ==
  ASSUME IInv, NEW x \in Executables, Release(x)
  PROVE  InvOf(entry', request', alive')
<1> DEFINE f == request[x].fp
           d == [entry EXCEPT ![f].ref_count = IF @ # 0 THEN @ - 1 ELSE 0]
           e == Touch(d, f)
<1>1. InvOf(entry, request, alive)
  BY IInvIsInvOf
<1>2. f \in Fingerprints /\ x \in HeldIn(request, f) /\ entry[f] \in Entry
  BY <1>1 DEF InvOf, Typed, Request, Release, HeldIn
<1>3. IsFiniteSet(HeldIn(request, f))
  BY FS_Subset DEF HeldIn
<1>4. entry[f].ref_count = Cardinality(HeldIn(request, f)) /\ entry[f].ref_count # 0
  BY <1>1, <1>2, <1>3, FS_EmptySet DEF InvOf, Counted
<1>5. /\ d \in [Fingerprints -> Entry]
      /\ \A g \in Fingerprints : d[g].handle = entry[g].handle
      /\ \A g \in Fingerprints \ {f} : d[g].ref_count = entry[g].ref_count
      /\ d[f].ref_count = entry[f].ref_count - 1
  <2>1. entry \in [Fingerprints -> Entry]
    BY <1>1 DEF InvOf, Typed
  <2>2. entry[f].ref_count - 1 \in Nat
    BY <1>2, <1>4 DEF Entry
  <2>3. d = [entry EXCEPT ![f].ref_count = entry[f].ref_count - 1]
    BY <1>4
  <2> HIDE DEF d
  <2> QED
    BY <1>2, <2>1, <2>2, <2>3 DEF Entry
<1> HIDE DEF d
<1>6. /\ e \in [Fingerprints -> Entry]
      /\ \A g \in Fingerprints : e[g].handle = d[g].handle /\ e[g].ref_count = d[g].ref_count
  BY <1>2, <1>5, TouchKeeps
<1> HIDE DEF e
<1>7. /\ request' \in [Executables -> Request]
      /\ \A y \in Executables \ {x} : request'[y] = request[y]
      /\ request'[x].pc = "none" /\ request[x].pc = "held"
  BY <1>1, <1>2, AnyFingerprintType DEF InvOf, Typed, Request, NoRequest, Release
<1>8. Resident(e) = Resident(entry) /\ \A g \in Resident(entry) : e[g].handle = entry[g].handle
  BY <1>5, <1>6 DEF Resident
<1>9. Flying(request') = Flying(request) /\ \A y \in Flying(request) : request'[y] = request[y]
  BY <1>7 DEF Flying
<1>10. Counted(e, request')
  <2>1. HeldIn(request', f) = HeldIn(request, f) \ {x}
    BY <1>7 DEF HeldIn
  <2>2. \A g \in Fingerprints \ {f} : HeldIn(request', g) = HeldIn(request, g)
    BY <1>2, <1>7 DEF HeldIn
  <2>3. Cardinality(HeldIn(request', f)) = Cardinality(HeldIn(request, f)) - 1
    <3>1. Cardinality(HeldIn(request, f) \ {x}) =
            IF x \in HeldIn(request, f) THEN Cardinality(HeldIn(request, f)) - 1
                                        ELSE Cardinality(HeldIn(request, f))
      BY <1>3, FS_RemoveElement
    <3>2. QED
      BY <1>2, <2>1, <3>1
  <2>4. e[f].ref_count = Cardinality(HeldIn(request', f))
    BY <1>2, <1>4, <1>5, <1>6, <2>3
  <2>5. QED
    BY <1>1, <1>5, <1>6, <2>2, <2>4 DEF InvOf, Counted
<1>11. Leased(e, request', alive)
  <2> SUFFICES ASSUME NEW y \in Executables, request'[y].pc = "held"
               PROVE  request'[y].handle \in alive /\ request'[y].handle = e[request'[y].fp].handle
    BY DEF Leased
  <2>1. request'[y] = request[y]
    BY <1>7
  <2>2. request[y].fp \in Fingerprints
    BY <1>1 DEF InvOf, Typed, Request
  <2>3. request[y].handle \in alive /\ request[y].handle = entry[request[y].fp].handle
    BY <1>1, <2>1 DEF InvOf, Leased
  <2>4. e[request[y].fp].handle = entry[request[y].fp].handle
    BY <1>5, <1>6, <2>2
  <2>5. QED
    BY <2>1, <2>3, <2>4
<1>12. Owned(e, request', alive)
  BY <1>1, <1>8, <1>9 DEF InvOf, Owned
<1>13. InvOf(e, request', alive)
  BY <1>1, <1>6, <1>7, <1>10, <1>11, <1>12 DEF InvOf, Typed
<1>14. /\ EvictAndPublish(e, resident_bytes, resident_entries, max_resident_bytes)
       /\ alive' = alive \ EvictedHandles
  BY DEF Release, e, d
<1>15. /\ \A g \in Resident(entry) : g \in Resident(e) /\ e[g].handle = entry[g].handle
       /\ \A g \in Resident(e) \ Resident(entry) : e[g].ref_count # 0
  BY <1>8
<1>16. QED
  BY <1>13, <1>14, <1>15, EvictInv

----------------------------------------------------------------------------
(* Trimming for n bytes keeps the invariant, whether it evicts or not.     *)
LEMMA TrimToInv ==
  ASSUME IInv, NEW n, TrimTo(n),
         \/ request' = request
         \/ \E x \in Executables : /\ request[x].pc = "trim"
                                   /\ request' = [request EXCEPT ![x].pc = "install"]
  PROVE  InvOf(entry', request', alive')
<1>1. CASE UNCHANGED <<entry, resident_bytes, resident_entries, published, alive>>
  <2>1. InvOf(entry, request, alive)
    BY IInvIsInvOf
  <2>2. /\ request' \in [Executables -> Request]
        /\ \A y \in Executables : /\ request'[y].handle = request[y].handle
                                  /\ request'[y].fp = request[y].fp
                                  /\ request'[y].pc = "held" <=> request[y].pc = "held"
                                  /\ request'[y].pc \in {"trim", "install"}
                                       <=> request[y].pc \in {"trim", "install"}
    <3>1. request \in [Executables -> Request]
      BY <2>1 DEF InvOf, Typed
    <3>2. CASE request' = request
      BY <3>1, <3>2
    <3>3. ASSUME NEW x \in Executables, request[x].pc = "trim",
                 request' = [request EXCEPT ![x].pc = "install"]
          PROVE  request' \in [Executables -> Request]
      BY <3>1, <3>3 DEF Request
    <3>4. ASSUME NEW x \in Executables, request[x].pc = "trim",
                 request' = [request EXCEPT ![x].pc = "install"],
                 NEW y \in Executables
          PROVE  /\ request'[y].handle = request[y].handle
                 /\ request'[y].fp = request[y].fp
                 /\ request'[y].pc = "held" <=> request[y].pc = "held"
                 /\ request'[y].pc \in {"trim", "install"}
                      <=> request[y].pc \in {"trim", "install"}
      <4>1. CASE y = x
        <5>1. request'[x] = [request[x] EXCEPT !.pc = "install"] /\ request[x] \in Request
          BY <3>1, <3>4
        <5>2. QED
          BY <3>4, <4>1, <5>1 DEF Request
      <4>2. CASE y # x
        BY <3>1, <3>4, <4>2
      <4>3. QED
        BY <4>1, <4>2
    <3>5. QED
      BY <3>1, <3>2, <3>3, <3>4
  <2>3. Flying(request') = Flying(request) /\ \A f : HeldIn(request', f) = HeldIn(request, f)
    BY <2>2 DEF Flying, HeldIn
  <2>4. Owned(entry, request', alive)
    BY <2>1, <2>2, <2>3 DEF InvOf, Owned, Flying
  <2>5. InvOf(entry, request', alive)
    BY <2>1, <2>2, <2>3, <2>4 DEF InvOf, Typed, Leased, Counted
  <2>6. QED
    BY <1>1, <2>5
<1>2. CASE /\ EvictAndPublish(entry, resident_bytes, resident_entries, Max({0, Capacity - (bytes_in_use + n)}))
           /\ alive' = alive \ EvictedHandles
  BY <1>2, TrimInv
<1>3. QED
  BY <1>1, <1>2 DEF TrimTo

(* Initially nothing is resident, held or alive.                           *)
LEMMA InitInv == Init => IInv
<1> SUFFICES ASSUME Init PROVE IInv
  OBVIOUS
<1>1. ControlTypeOK
  BY AnyFingerprintType DEF Init, ControlTypeOK, NewEntry, NoRequest, Entry, Request
<1>2. Resident(entry) = {} /\ InFlight = {} /\ \A f \in Fingerprints : Held(f) = {}
  BY DEF Init, Resident, InFlight, Held, NewEntry, NoRequest
<1>3. LeaseSafety /\ SoleOwner
  BY <1>2 DEF Init, LeaseSafety, SoleOwner, NoRequest
<1>4. RefCountExact
  BY <1>2, FS_EmptySet DEF Init, RefCountExact, NewEntry
<1>5. QED
  BY <1>1, <1>3, <1>4 DEF IInv

(* A destroyed client leaves the invariant of a new one.                   *)
LEMMA DeinitInv ==
  ASSUME IInv, Deinit
  PROVE  InvOf(entry', request', alive')
<1>1. InvOf(entry, request, alive)
  BY IInvIsInvOf
<1>2. Flying(request) = {} /\ \A f : HeldIn(request, f) = {}
  BY DEF Deinit, Flying, HeldIn
<1>3. alive' = {} /\ request' = request
  BY <1>1, <1>2 DEF Deinit, InvOf, Owned
<1>4. entry' \in [Fingerprints -> Entry] /\ Resident(entry') = {}
  BY DEF Deinit, NewEntry, Entry, Resident
<1>5. Counted(entry', request)
  BY <1>2, FS_EmptySet DEF Deinit, NewEntry, Counted
<1>6. Leased(entry', request, {}) /\ Owned(entry', request, {})
  BY <1>2, <1>4 DEF Leased, Owned, HeldIn, Deinit
<1>7. InvOf(entry', request, {})
  BY <1>1, <1>4, <1>5, <1>6 DEF InvOf, Typed
<1>8. QED
  BY <1>3, <1>7

(* Every step keeps the invariant: one case per action.                    *)
LEMMA NextInv == IInv /\ [Next]_vars => IInv'
<1> SUFFICES ASSUME IInv, [Next]_vars PROVE IInv'
  OBVIOUS
<1>0. known \subseteq Fingerprints /\ InvOf(entry, request, alive)
  BY IInvIsInvOf DEF IInv, ControlTypeOK
<1>a. request \in [Executables -> Request]
  BY <1>0 DEF InvOf, Typed
<1>1. ASSUME NEW x \in Executables, NEW f \in Fingerprints, RecordCompile(x, f) PROVE IInv'
  <2> DEFINE q == [NoRequest EXCEPT !.pc = "lookup", !.fp = f]
  <2>1. q \in Request /\ q.pc = "lookup"
    BY AnyFingerprintType DEF NoRequest, Request
  <2> HIDE DEF q
  <2>2. request' = [request EXCEPT ![x] = q] /\ known' = known \cup {f}
    BY <1>1 DEF RecordCompile, q
  <2>3. InvOf(entry', request', alive')
    BY <1>1, <2>1, <2>2, IdleMove DEF RecordCompile
  <2>4. QED
    BY <1>0, <2>2, <2>3, InvOfIsIInv
<1>2. ASSUME NEW x \in Executables, AbandonCompile(x) \/ BackendCompileFails(x) PROVE IInv'
  <2>1. NoRequest \in Request /\ NoRequest.pc = "none"
    BY AnyFingerprintType DEF NoRequest, Request
  <2>2. request' = [request EXCEPT ![x] = NoRequest] /\ known' = known
    BY <1>2 DEF AbandonCompile, BackendCompileFails
  <2>3. InvOf(entry', request', alive')
    BY <1>2, <2>1, <2>2, IdleMove DEF AbandonCompile, BackendCompileFails
  <2>4. QED
    BY <1>0, <2>2, <2>3, InvOfIsIInv
<1>3. ASSUME NEW x \in Executables, EntryForCompile(x) \/ RetainRaceWinner(x) PROVE IInv'
  <2>1. /\ request[x].pc \in {"lookup", "recheck"} /\ alive' = alive /\ known' = known
        /\ x \notin Flying(request)
    BY <1>3 DEF EntryForCompile, RetainRaceWinner, LookUp, Reuse, Flying
  <2>2. CASE Reuse(x)
    <3>1. InvOf(entry', request', alive')
      BY <2>1, <2>2, ReuseInv
    <3>2. QED
      BY <1>0, <2>1, <3>1, InvOfIsIInv
  <2>3. CASE ~ Reuse(x)
    <3>1. PICK to \in {"recheck", "compile"} : request' = [request EXCEPT ![x].pc = to] /\ entry' = entry
      BY <1>3, <2>3 DEF EntryForCompile, RetainRaceWinner, LookUp
    <3> DEFINE q == [request[x] EXCEPT !.pc = to]
    <3>2. q \in Request /\ q.pc \in {"recheck", "compile"}
      BY <1>a DEF Request
    <3>3. request' = [request EXCEPT ![x] = q]
      BY <3>1
    <3> HIDE DEF q
    <3>4. InvOf(entry', request', alive')
      BY <2>1, <3>1, <3>2, <3>3, IdleMove
    <3>5. QED
      BY <1>0, <2>1, <3>4, InvOfIsIInv
  <2>4. QED
    BY <2>2, <2>3
<1>4. ASSUME NEW x \in Executables, NEW h \in Handles \ alive, NEW l \in Latencies, BackendCompile(x, h, l)
      PROVE  IInv'
  BY <1>0, <1>4, CompileInv, InvOfIsIInv DEF BackendCompile
<1>5. ASSUME NEW x \in Executables, TrimForConstants(x) PROVE IInv'
  <2>1. InvOf(entry', request', alive')
    BY <1>5, TrimToInv DEF TrimForConstants
  <2>2. QED
    BY <1>0, <1>5, <2>1, InvOfIsIInv DEF TrimForConstants
<1>6. ASSUME NEW x \in Executables, LoseRace(x) PROVE IInv'
  <2>1. x \in Flying(request) /\ request[x].pc # "held" /\ known' = known
    BY <1>6 DEF LoseRace, Reuse, Flying
  <2>2. InvOf(entry', request', alive')
    BY <1>6, <2>1, ReuseInv DEF LoseRace
  <2>3. QED
    BY <1>0, <2>1, <2>2, InvOfIsIInv
<1>7. ASSUME NEW x \in Executables, AcquireResident(x) PROVE IInv'
  BY <1>0, <1>7, AcquireInv, InvOfIsIInv DEF AcquireResident
<1>8. ASSUME NEW x \in Executables, Release(x) PROVE IInv'
  BY <1>0, <1>8, ReleaseInv, InvOfIsIInv DEF Release
<1>9. ASSUME NEW limit \in Limits, SetMaxResidentBytes(limit) PROVE IInv'
  <2>1. InvOf(entry', request', alive')
    BY <1>9, TrimInv DEF SetMaxResidentBytes
  <2>2. QED
    BY <1>0, <1>9, <2>1, InvOfIsIInv DEF SetMaxResidentBytes
<1>10. ASSUME NEW n \in AllocSizes, TrimForAllocation(n) PROVE IInv'
  <2>1. InvOf(entry', request', alive')
    BY <1>10, TrimToInv DEF TrimForAllocation
  <2>2. QED
    BY <1>0, <1>10, <2>1, InvOfIsIInv DEF TrimForAllocation
<1>11. ASSUME NEW n \in AllocSizes, MemoryRetain(n) \/ MemoryRelease(n) \/ UNCHANGED vars PROVE IInv'
  BY <1>0, <1>11, InvOfIsIInv DEF MemoryRetain, MemoryRelease, vars
<1>12. CASE Deinit
  BY <1>12, DeinitInv, InvOfIsIInv DEF Deinit
<1>13. CASE UNCHANGED vars
  BY <1>0, <1>13, InvOfIsIInv DEF vars
<1>14. QED
  BY <1>1, <1>2, <1>3, <1>4, <1>5, <1>6, <1>7, <1>8, <1>9, <1>10, <1>11, <1>12, <1>13 DEF Next

(* The inductive invariant holds in every reachable state.                 *)
THEOREM CacheInvariant == Spec => []IInv
<1>1. Init => IInv
  BY InitInv
<1>2. IInv /\ [Next]_vars => IInv'
  BY NextInv
<1>3. QED
  BY <1>1, <1>2, PTL DEF Spec

(* No eviction, trim, race or budget change destroys a backend executable  *)
(* that a loaded executable still dispatches.                              *)
THEOREM LeasesAreSafe == Spec => []LeaseSafety
<1>1. IInv => LeaseSafety
  BY DEF IInv
<1>2. QED
  BY <1>1, CacheInvariant, PTL

(* Reference counts are exact.                                             *)
THEOREM RefCountsAreExact == Spec => []RefCountExact
<1>1. IInv => RefCountExact
  BY DEF IInv
<1>2. QED
  BY <1>1, CacheInvariant, PTL

(* Every backend executable has one owner: no leak and no double destroy.  *)
THEOREM OwnersAreSole == Spec => []SoleOwner
<1>1. IInv => SoleOwner
  BY DEF IInv
<1>2. QED
  BY <1>1, CacheInvariant, PTL

----------------------------------------------------------------------------
(* Induction, on sets of numbers and of sets: a property is the set of     *)
(* what has it.                                                            *)

LEMMA LeastNatural ==
  ASSUME NEW T, T \subseteq Nat, T # {}
  PROVE  \E n \in T : \A m \in T : n <= m
<1>1. IsWellFoundedOn(OpToRel(<, Nat), Nat)
  BY NatLessThanWellFounded
<1>2. PICK n \in T : \A m \in T : ~ (<<m, n>> \in OpToRel(<, Nat))
  BY <1>1, WFMin
<1>3. \A m \in T : ~ (m < n)
  BY <1>2 DEF OpToRel
<1> QED
  BY <1>3

LEMMA NumberInduction ==
  ASSUME NEW G, 0 \in G, \A n \in Nat : n \in G => n + 1 \in G
  PROVE  Nat \subseteq G
<1> SUFFICES ASSUME Nat \ G # {} PROVE FALSE
  OBVIOUS
<1>1. PICK n \in Nat \ G : \A m \in Nat \ G : n <= m
  BY LeastNatural
<1>2. n - 1 \in Nat /\ n - 1 \in G
  BY <1>1
<1>3. (n - 1) + 1 \in G
  BY <1>2
<1> QED
  BY <1>1, <1>3

LEMMA SetInduction ==
  ASSUME NEW S, IsFiniteSet(S), NEW G,
         \A T \in SUBSET S : (\A x \in T : T \ {x} \in G) => T \in G
  PROVE  SUBSET S \subseteq G
<1> DEFINE N == {n \in Nat : \A T \in SUBSET S : Cardinality(T) = n => T \in G}
<1>1. \A T \in SUBSET S : IsFiniteSet(T) /\ Cardinality(T) \in Nat
  BY FS_Subset, FS_CardinalityType
<1>2. 0 \in N
  BY <1>1, FS_EmptySet
<1>3. ASSUME NEW n \in Nat, n \in N PROVE n + 1 \in N
  <2> SUFFICES ASSUME NEW T \in SUBSET S, Cardinality(T) = n + 1 PROVE T \in G
    OBVIOUS
  <2>1. ASSUME NEW x \in T PROVE T \ {x} \in G
    <3>1. Cardinality(T \ {x}) = Cardinality(T) - 1
      BY <1>1, FS_RemoveElement
    <3>2. Cardinality(T \ {x}) = n /\ T \ {x} \in SUBSET S
      BY <3>1
    <3> QED
      BY <1>3, <3>2
  <2> QED
    BY <2>1
<1> HIDE DEF N
<1>4. Nat \subseteq N
  BY <1>2, <1>3, NumberInduction
<1> QED
  BY <1>1, <1>4 DEF N

----------------------------------------------------------------------------
(* Sums of the bytes of entries.                                           *)

Chosen(s) == CHOOSE x \in s : TRUE
SumStep(e, g, s) == IF s = {} THEN 0 ELSE e[Chosen(s)].bytes + g[s \ {Chosen(s)}]
SumOver(e, S) == CHOOSE g : g = [s \in SUBSET S |-> SumStep(e, g, s)]

LEMMA BytesOfIsSumOver ==
  ASSUME NEW e, NEW S
  PROVE  BytesOf(e, S) = SumOver(e, S)[S]
BY DEF BytesOf, MapThenSumSet, MapThenFoldSet, SumOver, SumStep, Chosen

LEMMA ChosenIsIn == ASSUME NEW s, s # {} PROVE Chosen(s) \in s
BY DEF Chosen

(* The subsets of S of at most n elements.                                 *)
UpTo(S, n) == {s \in SUBSET S : Cardinality(s) <= n}

LEMMA SumOverExists ==
  ASSUME NEW e, NEW S, IsFiniteSet(S)
  PROVE  \A s \in SUBSET S : SumOver(e, S)[s] = SumStep(e, SumOver(e, S), s)
<1> DEFINE N == {n \in Nat : \E g : g = [s \in UpTo(S, n) |-> SumStep(e, g, s)]}
<1>1. \A s \in SUBSET S : IsFiniteSet(s) /\ Cardinality(s) \in Nat
  BY FS_Subset, FS_CardinalityType
<1>2. ASSUME NEW n \in Nat, NEW s \in UpTo(S, n + 1), s # {}
      PROVE  s \ {Chosen(s)} \in UpTo(S, n)
  <2>1. Chosen(s) \in s /\ IsFiniteSet(s) /\ Cardinality(s) \in Nat /\ Cardinality(s) <= n + 1
    BY <1>1, <1>2, ChosenIsIn DEF UpTo
  <2>2. Cardinality(s \ {Chosen(s)}) = Cardinality(s) - 1
    BY <2>1, FS_RemoveElement
  <2> QED
    BY <2>1, <2>2 DEF UpTo
<1>3. \A s \in UpTo(S, 0) : s = {}
  BY <1>1, FS_EmptySet DEF UpTo
<1>4. 0 \in N
  <2> DEFINE g == [s \in UpTo(S, 0) |-> 0]
  <2>1. \A s \in UpTo(S, 0) : SumStep(e, g, s) = 0
    BY <1>3 DEF SumStep
  <2>2. g = [s \in UpTo(S, 0) |-> SumStep(e, g, s)]
    BY <2>1
  <2> QED
    BY <2>2
<1>5. ASSUME NEW n \in Nat, n \in N PROVE n + 1 \in N
  <2>1. PICK g : g = [s \in UpTo(S, n) |-> SumStep(e, g, s)]
    BY <1>5
  <2> DEFINE h == [s \in UpTo(S, n + 1) |-> SumStep(e, g, s)]
  <2>2. \A s \in UpTo(S, n) : s \in UpTo(S, n + 1)
    BY <1>1 DEF UpTo
  <2>3. \A s \in UpTo(S, n) : h[s] = g[s]
    BY <2>1, <2>2
  <2>4. h = [s \in UpTo(S, n + 1) |-> SumStep(e, g, s)]
    OBVIOUS
  <2> HIDE DEF h
  <2>5. \A s \in UpTo(S, n + 1) : SumStep(e, h, s) = SumStep(e, g, s)
    BY <1>2, <2>3 DEF SumStep
  <2>6. h = [s \in UpTo(S, n + 1) |-> SumStep(e, h, s)]
    BY <2>4, <2>5
  <2>7. \E f : f = [s \in UpTo(S, n + 1) |-> SumStep(e, f, s)]
    BY <2>6
  <2> QED
    BY <2>7
<1>6. Cardinality(S) \in N
  <2> HIDE DEF N
  <2> QED
    BY <1>4, <1>5, <1>1, NumberInduction
<1>7. UpTo(S, Cardinality(S)) = SUBSET S
  BY FS_Subset DEF UpTo
<1>8. \E g : g = [s \in SUBSET S |-> SumStep(e, g, s)]
  BY <1>6, <1>7
<1> DEFINE g == SumOver(e, S)
<1>9. g = [s \in SUBSET S |-> SumStep(e, g, s)]
  BY <1>8 DEF SumOver
<1> HIDE DEF g
<1>10. \A s \in SUBSET S : g[s] = SumStep(e, g, s)
  BY <1>9
<1> QED
  BY <1>10 DEF g

(* The sum over a subset does not depend on the set it is taken in.        *)
LEMMA SumOverSubset ==
  ASSUME NEW e, NEW S, IsFiniteSet(S), NEW T \in SUBSET S
  PROVE  SumOver(e, S)[T] = BytesOf(e, T)
<1> DEFINE G == {U \in SUBSET S : \A R \in SUBSET S : U \subseteq R => SumOver(e, R)[U] = BytesOf(e, U)}
<1>1. ASSUME NEW U \in SUBSET S, \A x \in U : U \ {x} \in G PROVE U \in G
  <2> SUFFICES ASSUME NEW R \in SUBSET S, U \subseteq R PROVE SumOver(e, R)[U] = SumOver(e, U)[U]
    BY BytesOfIsSumOver
  <2>1. IsFiniteSet(R) /\ IsFiniteSet(U)
    BY FS_Subset
  <2>2. SumOver(e, R)[U] = SumStep(e, SumOver(e, R), U)
    BY <2>1, SumOverExists
  <2>3. SumOver(e, U)[U] = SumStep(e, SumOver(e, U), U)
    BY <2>1, SumOverExists
  <2>4. CASE U = {}
    BY <2>2, <2>3, <2>4 DEF SumStep
  <2>5. CASE U # {}
    <3>1. U \ {Chosen(U)} \in G
      BY <1>1, <2>5, ChosenIsIn
    <3>2. SumOver(e, R)[U \ {Chosen(U)}] = SumOver(e, U)[U \ {Chosen(U)}]
      BY <3>1
    <3> QED
      BY <2>2, <2>3, <2>5, <3>2 DEF SumStep
  <2> QED
    BY <2>4, <2>5
<1> HIDE DEF G
<1>2. SUBSET S \subseteq G
  BY <1>1, SetInduction
<1> QED
  BY <1>2 DEF G

LEMMA BytesStep ==
  ASSUME NEW e, NEW S, IsFiniteSet(S)
  PROVE  /\ BytesOf(e, {}) = 0
         /\ S # {} => BytesOf(e, S) = e[Chosen(S)].bytes + BytesOf(e, S \ {Chosen(S)})
<1> DEFINE g == SumOver(e, S)
<1>1. g[S] = SumStep(e, g, S) /\ g[{}] = SumStep(e, g, {})
  BY SumOverExists
<1>2. g[S] = BytesOf(e, S) /\ g[{}] = BytesOf(e, {}) /\ g[S \ {Chosen(S)}] = BytesOf(e, S \ {Chosen(S)})
  BY SumOverSubset
<1> HIDE DEF g
<1> QED
  BY <1>1, <1>2 DEF SumStep

Sized(e, S) == IsFiniteSet(S) /\ \A f \in S : e[f].bytes \in Nat

LEMMA BytesNat ==
  ASSUME NEW e, NEW S, Sized(e, S)
  PROVE  BytesOf(e, S) \in Nat
<1> DEFINE G == {T \in SUBSET S : BytesOf(e, T) \in Nat}
<1>1. ASSUME NEW T \in SUBSET S, \A x \in T : T \ {x} \in G PROVE T \in G
  <2>1. IsFiniteSet(T)
    BY FS_Subset DEF Sized
  <2>2. T # {} => Chosen(T) \in T /\ e[Chosen(T)].bytes \in Nat
    BY ChosenIsIn DEF Sized
  <2>3. T # {} => BytesOf(e, T \ {Chosen(T)}) \in Nat
    BY <1>1, <2>2
  <2>4. /\ BytesOf(e, {}) = 0
        /\ T # {} => BytesOf(e, T) = e[Chosen(T)].bytes + BytesOf(e, T \ {Chosen(T)})
    BY <2>1, BytesStep
  <2>5. T = {} => BytesOf(e, T) = 0
    BY <2>4
  <2>6. ASSUME NEW m \in Nat, NEW n \in Nat, BytesOf(e, T) = m + n PROVE BytesOf(e, T) \in Nat
    BY <2>6
  <2>7. T # {} => BytesOf(e, T) \in Nat
    BY <2>2, <2>3, <2>4, <2>6
  <2> QED
    BY <2>5, <2>7
<1> HIDE DEF G
<1>2. SUBSET S \subseteq G
  BY <1>1, SetInduction DEF Sized
<1> QED
  BY <1>2 DEF G

LEMMA BytesRemove ==
  ASSUME NEW e, NEW S, Sized(e, S), NEW x \in S
  PROVE  BytesOf(e, S) = e[x].bytes + BytesOf(e, S \ {x})
<1> DEFINE G == {T \in SUBSET S : \A y \in T : BytesOf(e, T) = e[y].bytes + BytesOf(e, T \ {y})}
<1>1. ASSUME NEW T \in SUBSET S, \A y \in T : T \ {y} \in G PROVE T \in G
  <2> SUFFICES ASSUME NEW y \in T PROVE BytesOf(e, T) = e[y].bytes + BytesOf(e, T \ {y})
    OBVIOUS
  <2> DEFINE c == Chosen(T)
  <2>1. IsFiniteSet(T) /\ c \in T
    BY FS_Subset, ChosenIsIn DEF Sized
  <2>2. BytesOf(e, T) = e[c].bytes + BytesOf(e, T \ {c})
    BY <2>1, BytesStep
  <2>3. CASE c = y
    BY <2>2, <2>3
  <2>4. CASE c # y
    <3> DEFINE rest == (T \ {c}) \ {y}
    <3>1. BytesOf(e, T \ {c}) = e[y].bytes + BytesOf(e, rest)
      BY <1>1, <2>1, <2>4
    <3>2. rest = (T \ {y}) \ {c}
      OBVIOUS
    <3>3. BytesOf(e, T \ {y}) = e[c].bytes + BytesOf(e, rest)
      BY <1>1, <2>1, <2>4, <3>2
    <3>4. Sized(e, rest)
      BY FS_Subset DEF Sized
    <3>5. BytesOf(e, rest) \in Nat /\ e[c].bytes \in Nat /\ e[y].bytes \in Nat
      BY <2>1, <3>4, BytesNat DEF Sized
    <3> HIDE DEF rest, c
    <3> QED
      BY <2>2, <3>1, <3>3, <3>5
  <2> QED
    BY <2>3, <2>4
<1> HIDE DEF G
<1>2. SUBSET S \subseteq G
  BY <1>1, SetInduction DEF Sized
<1> QED
  BY <1>2 DEF G

LEMMA BytesSplit ==
  ASSUME NEW e, NEW S, Sized(e, S), NEW A \in SUBSET S
  PROVE  /\ BytesOf(e, S) = BytesOf(e, A) + BytesOf(e, S \ A)
         /\ BytesOf(e, A) \in Nat /\ BytesOf(e, S \ A) \in Nat
<1> DEFINE G == {T \in SUBSET S : BytesOf(e, T) = BytesOf(e, T \cap A) + BytesOf(e, T \ A)}
<1>0. \A T \in SUBSET S : Sized(e, T) /\ BytesOf(e, T) \in Nat
  BY FS_Subset, BytesNat DEF Sized
<1>1. ASSUME NEW T \in SUBSET S, \A x \in T : T \ {x} \in G PROVE T \in G
  <2>1. CASE T = {}
    <3>1. BytesOf(e, {}) = 0
      BY <1>0, BytesStep, FS_EmptySet
    <3> QED
      BY <2>1, <3>1
  <2>2. CASE T # {}
    <3> DEFINE x == Chosen(T)
    <3>1. x \in T /\ e[x].bytes \in Nat
      BY <2>2, ChosenIsIn DEF Sized
    <3> HIDE DEF x
    <3> DEFINE U == T \ {x}
    <3>2. BytesOf(e, T) = e[x].bytes + BytesOf(e, U)
      BY <1>0, <3>1, BytesRemove
    <3>3. BytesOf(e, U) = BytesOf(e, U \cap A) + BytesOf(e, U \ A)
      BY <1>1, <3>1
    <3>4. BytesOf(e, U \cap A) \in Nat /\ BytesOf(e, U \ A) \in Nat
      BY <1>0
    <3>5. CASE x \in A
      <4>1. (T \cap A) \ {x} = U \cap A /\ T \ A = U \ A /\ x \in T \cap A /\ Sized(e, T \cap A)
        BY <1>0, <3>1, <3>5
      <4>2. BytesOf(e, T \cap A) = e[x].bytes + BytesOf(e, U \cap A)
        BY <4>1, BytesRemove
      <4>3. BytesOf(e, T) = BytesOf(e, T \cap A) + BytesOf(e, U \ A)
        BY <3>1, <3>2, <3>3, <3>4, <4>2
      <4> QED
        BY <4>1, <4>3
    <3>6. CASE x \notin A
      <4>1. (T \ A) \ {x} = U \ A /\ T \cap A = U \cap A /\ x \in T \ A /\ Sized(e, T \ A)
        BY <1>0, <3>1, <3>6
      <4>2. BytesOf(e, T \ A) = e[x].bytes + BytesOf(e, U \ A)
        BY <4>1, BytesRemove
      <4>3. BytesOf(e, T) = BytesOf(e, U \cap A) + BytesOf(e, T \ A)
        BY <3>1, <3>2, <3>3, <3>4, <4>2
      <4> QED
        BY <4>1, <4>3
    <3> QED
      BY <3>5, <3>6
  <2> QED
    BY <2>1, <2>2
<1> HIDE DEF G
<1>2. SUBSET S \subseteq G
  BY <1>1, SetInduction DEF Sized
<1>3. BytesOf(e, S) = BytesOf(e, S \cap A) + BytesOf(e, S \ A) /\ S \cap A = A
  BY <1>2 DEF G
<1> QED
  BY <1>0, <1>3

LEMMA BytesSame ==
  ASSUME NEW d, NEW e, NEW S, IsFiniteSet(S), \A f \in S : d[f].bytes = e[f].bytes
  PROVE  BytesOf(d, S) = BytesOf(e, S)
<1> DEFINE G == {T \in SUBSET S : BytesOf(d, T) = BytesOf(e, T)}
<1>1. ASSUME NEW T \in SUBSET S, \A x \in T : T \ {x} \in G PROVE T \in G
  <2>1. IsFiniteSet(T)
    BY FS_Subset
  <2>2. T # {} => Chosen(T) \in T /\ d[Chosen(T)].bytes = e[Chosen(T)].bytes
    BY ChosenIsIn
  <2>3. /\ BytesOf(e, {}) = 0 /\ BytesOf(d, {}) = 0
        /\ T # {} => BytesOf(e, T) = e[Chosen(T)].bytes + BytesOf(e, T \ {Chosen(T)})
        /\ T # {} => BytesOf(d, T) = d[Chosen(T)].bytes + BytesOf(d, T \ {Chosen(T)})
    BY <2>1, BytesStep
  <2> QED
    BY <1>1, <2>2, <2>3
<1> HIDE DEF G
<1>2. SUBSET S \subseteq G
  BY <1>1, SetInduction
<1> QED
  BY <1>2 DEF G

----------------------------------------------------------------------------
(* The accounts of the cache.                                              *)

(* The counters are those of the entries e.                                *)
Account(e, total, count) ==
  /\ IsFiniteSet(Resident(e))
  /\ total = BytesOf(e, Resident(e))
  /\ count = Cardinality(Resident(e))

(* Only entries that were never used, which none that was is older than,   *)
(* have an age in common: the age orders the resident ones.                *)
UseOrder(e) ==
  \A f, g \in Fingerprints : f # g /\ e[f].unused = e[g].unused =>
    /\ f \notin Resident(e)
    /\ \A k \in Fingerprints : e[k].unused <= e[f].unused

(* What is inductive together with IInv.                                   *)
AccountInv ==
  /\ TypeOK
  /\ Account(entry, resident_bytes, resident_entries)
  /\ published = [bytes |-> resident_bytes, entries |-> resident_entries]
  /\ BudgetRespected
  /\ UseOrder(entry)

LEMMA AtLeastZero ==
  ASSUME NEW n \in Int
  PROVE  Max({0, n}) = IF n > 0 THEN n ELSE 0
BY DEF Max

(* The entries that are evicted before f.                                  *)
Before(e, f) == {g \in Idle(e) : EvictedBefore(e[g], e[f])}

(* Eviction goes by an order, in which resident entries never tie.         *)
LEMMA IdleAreOrdered ==
  ASSUME NEW e \in [Fingerprints -> Entry]
  PROVE  /\ \A f \in Fingerprints : f \notin Before(e, f) /\ Before(e, f) \subseteq Idle(e)
         /\ \A f, g \in Fingerprints : g \in Before(e, f) => Before(e, g) \subseteq Before(e, f)
         /\ UseOrder(e) => \A f, g \in Idle(e) : f # g => f \in Before(e, g) \/ g \in Before(e, f)
<1>1. \A f \in Fingerprints : e[f].bytes \in Nat /\ e[f].latency \in Nat /\ e[f].unused \in Nat
  BY DEF Entry
<1>2. \A f \in Fingerprints : f \notin Before(e, f) /\ Before(e, f) \subseteq Idle(e)
  BY <1>1 DEF Before, EvictedBefore
<1>3. ASSUME NEW f \in Fingerprints, NEW g \in Before(e, f), NEW h \in Before(e, g)
      PROVE  h \in Before(e, f)
  <2>1. g \in Fingerprints /\ h \in Fingerprints /\ h \in Idle(e)
    BY DEF Before, Idle, Resident
  <2>2. EvictedBefore(e[h], e[g]) /\ EvictedBefore(e[g], e[f])
    BY DEF Before
  <2>3. EvictedBefore(e[h], e[f])
    BY <1>1, <2>1, <2>2 DEF EvictedBefore
  <2> QED
    BY <2>1, <2>3 DEF Before
<1>4. ASSUME UseOrder(e), NEW f \in Idle(e), NEW g \in Idle(e), f # g
      PROVE  f \in Before(e, g) \/ g \in Before(e, f)
  <2>1. f \in Fingerprints /\ g \in Fingerprints /\ f \in Resident(e)
    BY DEF Idle, Resident
  <2>2. e[f].unused # e[g].unused
    BY <1>4, <2>1 DEF UseOrder
  <2>3. EvictedBefore(e[f], e[g]) \/ EvictedBefore(e[g], e[f])
    BY <1>1, <2>1, <2>2 DEF EvictedBefore
  <2> QED
    BY <2>3 DEF Before
<1> QED
  BY <1>2, <1>3, <1>4

(* The bytes of idle entries, in any number.                               *)
LEMMA IdleBytes ==
  ASSUME NEW e \in [Fingerprints -> Entry], IsFiniteSet(Resident(e)), NEW A \in SUBSET Resident(e)
  PROVE  /\ IsFiniteSet(A) /\ Sized(e, A) /\ Cardinality(A) \in Nat /\ BytesOf(e, A) \in Nat
         /\ \A B \in SUBSET A : /\ BytesOf(e, A) = BytesOf(e, B) + BytesOf(e, A \ B)
                                /\ BytesOf(e, B) <= BytesOf(e, A)
                                /\ Cardinality(A \ B) = Cardinality(A) - Cardinality(B)
         /\ \A f \in A : e[f].bytes \in Nat /\ BytesOf(e, A) = e[f].bytes + BytesOf(e, A \ {f})
<1>1. \A f \in A : e[f].bytes \in Nat
  BY DEF Resident, Entry
<1>2. IsFiniteSet(A) /\ Sized(e, A) /\ Cardinality(A) \in Nat /\ BytesOf(e, A) \in Nat
  BY <1>1, FS_Subset, FS_CardinalityType, BytesNat DEF Sized
<1>3. ASSUME NEW B \in SUBSET A
      PROVE  /\ BytesOf(e, A) = BytesOf(e, B) + BytesOf(e, A \ B)
             /\ BytesOf(e, B) <= BytesOf(e, A)
             /\ Cardinality(A \ B) = Cardinality(A) - Cardinality(B)
  <2>1. /\ BytesOf(e, A) = BytesOf(e, B) + BytesOf(e, A \ B)
        /\ BytesOf(e, B) \in Nat /\ BytesOf(e, A \ B) \in Nat
    BY <1>2, BytesSplit
  <2>2. Cardinality(A \ B) = Cardinality(A) - Cardinality(A \cap B)
    BY <1>2, FS_Difference
  <2>3. A \cap B = B
    OBVIOUS
  <2>4. Cardinality(A \ B) = Cardinality(A) - Cardinality(B)
    BY <2>2, <2>3
  <2>5. BytesOf(e, B) <= BytesOf(e, A)
    BY <2>1
  <2> QED
    BY <2>1, <2>4, <2>5
<1>4. \A f \in A : BytesOf(e, A) = e[f].bytes + BytesOf(e, A \ {f})
  BY <1>2, BytesRemove
<1> QED
  BY <1>1, <1>2, <1>3, <1>4

(* What the loop of evictions removes, seen from its end: the victims come *)
(* first in the order, the loop stops as soon as the target is met, and it *)
(* removes all that is idle otherwise.                                     *)
LEMMA VictimsAre ==
  ASSUME NEW e \in [Fingerprints -> Entry], NEW total, NEW count, Account(e, total, count),
         UseOrder(e), NEW target \in Nat
  PROVE  LET V == Victims(e, total, target) IN
         /\ V \subseteq Idle(e)
         /\ \A f \in V : Before(e, f) \subseteq V
         /\ \A f \in V : (\A g \in V : f \notin Before(e, g)) =>
                           total - BytesOf(e, V) + e[f].bytes > target
         /\ total - BytesOf(e, V) > target => V = Idle(e)
<1> DEFINE V == Victims(e, total, target)
<1>1. /\ V \subseteq Idle(e) /\ Idle(e) \subseteq Resident(e) /\ Resident(e) \subseteq Fingerprints
      /\ \A f \in Idle(e) : f \in V <=> total - BytesOf(e, Before(e, f)) > target
  BY DEF Victims, Idle, Resident, Before
<1>2. IsFiniteSet(Resident(e)) /\ total \in Nat
  BY IdleBytes DEF Account
<1>3. \A f \in Fingerprints : Before(e, f) \subseteq Idle(e) /\ BytesOf(e, Before(e, f)) \in Nat
  BY <1>1, <1>2, IdleAreOrdered, IdleBytes
<1>4. BytesOf(e, V) \in Nat
  BY <1>1, <1>2, IdleBytes
<1> HIDE DEF V
<1>5. ASSUME NEW f \in V, NEW g \in Before(e, f) PROVE g \in V
  <2>1. f \in Fingerprints /\ g \in Fingerprints /\ g \in Idle(e)
    BY <1>1, <1>3
  <2>2. Before(e, g) \subseteq Before(e, f)
    BY <2>1, IdleAreOrdered
  <2>3. BytesOf(e, Before(e, g)) <= BytesOf(e, Before(e, f))
    BY <1>1, <1>2, <1>3, <2>1, <2>2, IdleBytes
  <2>4. total - BytesOf(e, Before(e, f)) > target
    BY <1>1
  <2> QED
    BY <1>1, <1>2, <1>3, <2>1, <2>3, <2>4
<1>6. ASSUME NEW f \in V, \A g \in V : f \notin Before(e, g)
      PROVE  total - BytesOf(e, V) + e[f].bytes > target
  <2>1. f \in Fingerprints /\ f \in Idle(e)
    BY <1>1
  <2>2. V \ {f} \subseteq Before(e, f)
    BY <1>1, <1>6, <2>1, IdleAreOrdered
  <2>3. BytesOf(e, V \ {f}) <= BytesOf(e, Before(e, f))
    BY <1>1, <1>2, <1>3, <2>1, <2>2, IdleBytes
  <2>4. /\ e[f].bytes \in Nat /\ BytesOf(e, V) = e[f].bytes + BytesOf(e, V \ {f})
        /\ BytesOf(e, V \ {f}) \in Nat
    <3>1. V \in SUBSET Resident(e) /\ V \ {f} \in SUBSET Resident(e)
      BY <1>1
    <3>2. e[f].bytes \in Nat /\ BytesOf(e, V) = e[f].bytes + BytesOf(e, V \ {f})
      BY <1>2, <3>1, IdleBytes
    <3>3. BytesOf(e, V \ {f}) \in Nat
      BY <1>2, <3>1, IdleBytes
    <3> QED
      BY <3>2, <3>3
  <2>5. total - BytesOf(e, Before(e, f)) > target
    BY <1>1, <2>1
  <2>6. BytesOf(e, Before(e, f)) \in Nat
    BY <1>3, <2>1
  <2> QED
    BY <1>2, <1>4, <2>3, <2>4, <2>5, <2>6
<1>7. ASSUME total - BytesOf(e, V) > target, V # Idle(e) PROVE FALSE
  <2> DEFINE Places == {Cardinality(Before(e, f)) : f \in Idle(e) \ V}
  <2>0. \A f \in Idle(e) : Before(e, f) \in SUBSET Resident(e) /\ Cardinality(Before(e, f)) \in Nat
    <3> TAKE f \in Idle(e)
    <3>1. Before(e, f) \in SUBSET Resident(e)
      BY <1>1, <1>3
    <3> QED
      BY <1>2, <3>1, IdleBytes
  <2>1. Places \subseteq Nat /\ Places # {}
    BY <1>1, <1>7, <2>0
  <2>2. PICK f \in Idle(e) \ V : \A g \in Idle(e) \ V :
          Cardinality(Before(e, f)) <= Cardinality(Before(e, g))
    <3>1. PICK n \in Places : \A m \in Places : n <= m
      BY <2>1, LeastNatural
    <3> QED
      BY <3>1
  <2>3. f \in Fingerprints
    BY <1>1
  <2>4. ASSUME NEW g \in Before(e, f), g \notin V PROVE FALSE
    <3>1. g \in Idle(e) \ V /\ g \in Fingerprints
      BY <1>1, <1>3, <2>3, <2>4
    <3>2. Before(e, g) \subseteq Before(e, f) \ {g}
      BY <2>3, <3>1, IdleAreOrdered
    <3>3. /\ Before(e, f) \in SUBSET Resident(e) /\ IsFiniteSet(Before(e, f))
          /\ Cardinality(Before(e, f)) \in Nat
      BY <1>1, <1>2, <1>3, <2>3, IdleBytes
    <3>4. /\ Cardinality(Before(e, f) \ {g}) = Cardinality(Before(e, f)) - 1
          /\ IsFiniteSet(Before(e, f) \ {g})
      BY <3>3, FS_RemoveElement
    <3>5. Cardinality(Before(e, g)) <= Cardinality(Before(e, f) \ {g}) /\ Cardinality(Before(e, g)) \in Nat
      BY <3>2, <3>4, FS_Subset, FS_CardinalityType
    <3>6. Cardinality(Before(e, f)) <= Cardinality(Before(e, g))
      BY <2>2, <3>1
    <3> QED
      BY <3>3, <3>4, <3>5, <3>6
  <2>5. BytesOf(e, Before(e, f)) <= BytesOf(e, V)
    BY <1>1, <1>2, <2>4, IdleBytes
  <2>6. ~ (total - BytesOf(e, Before(e, f)) > target)
    BY <1>1, <2>2
  <2> QED
    BY <1>2, <1>3, <1>4, <1>7, <2>3, <2>5, <2>6
<1> QED
  BY <1>1, <1>5, <1>6, <1>7 DEF V

(* The evictions of a critical section that reached the entries e: the     *)
(* counters stay those of the entries, and beyond the target only while    *)
(* nothing is idle.                                                        *)
LEMMA EvictAccounts ==
  ASSUME NEW e \in [Fingerprints -> Entry], NEW total, NEW count, Account(e, total, count),
         UseOrder(e), NEW target \in Nat, EvictAndPublish(e, total, count, target)
  PROVE  LET V == Victims(e, total, target) IN
         /\ Account(entry', resident_bytes', resident_entries')
         /\ published' = [bytes |-> resident_bytes', entries |-> resident_entries']
         /\ resident_bytes' \in Nat /\ resident_entries' \in Nat /\ total \in Nat
         /\ resident_bytes' = total - BytesOf(e, V) /\ resident_bytes' <= total
         /\ Resident(entry') = Resident(e) \ V /\ Idle(entry') = Idle(e) \ V
         /\ \A f \in Fingerprints : /\ entry'[f].unused = e[f].unused
                                    /\ entry'[f].latency = e[f].latency
                                    /\ f \notin V => entry'[f] = e[f]
         /\ resident_bytes' > target => Idle(entry') = {}
         /\ UseOrder(entry')
<1> DEFINE V == Victims(e, total, target)
<1>1. V \subseteq Idle(e) /\ Idle(e) \subseteq Resident(e) /\ Resident(e) \subseteq Fingerprints
  BY DEF Victims, Idle, Resident
<1>2. total - BytesOf(e, V) > target => V = Idle(e)
  BY VictimsAre
<1>3. /\ entry' = [f \in Fingerprints |->
                     IF f \in V THEN [e[f] EXCEPT !.handle = NoHandle, !.bytes = 0] ELSE e[f]]
      /\ resident_bytes' = Max({0, total - BytesOf(e, V)})
      /\ resident_entries' = Max({0, count - Cardinality(V)})
      /\ published' = [bytes |-> resident_bytes', entries |-> resident_entries']
  BY DEF EvictAndPublish
<1> HIDE DEF V
<1>4. /\ IsFiniteSet(Resident(e)) /\ total = BytesOf(e, Resident(e)) /\ count = Cardinality(Resident(e))
      /\ V \in SUBSET Resident(e) /\ Resident(e) \in SUBSET Resident(e)
  BY <1>1 DEF Account
<1>5. /\ BytesOf(e, Resident(e)) = BytesOf(e, V) + BytesOf(e, Resident(e) \ V)
      /\ Cardinality(Resident(e) \ V) = Cardinality(Resident(e)) - Cardinality(V)
  BY <1>4, IdleBytes
<1>6. /\ total \in Nat /\ count \in Nat /\ BytesOf(e, V) \in Nat /\ Cardinality(V) \in Nat
  BY <1>4, IdleBytes
<1>7. /\ IsFiniteSet(Resident(e) \ V) /\ BytesOf(e, Resident(e) \ V) \in Nat
      /\ Cardinality(Resident(e) \ V) \in Nat
  <2>1. Resident(e) \ V \in SUBSET Resident(e)
    OBVIOUS
  <2> QED
    BY <1>4, <2>1, IdleBytes
<1>8. /\ resident_bytes' = total - BytesOf(e, V) /\ resident_bytes' = BytesOf(e, Resident(e) \ V)
      /\ resident_bytes' \in Nat /\ resident_bytes' <= total
  <2>1. total - BytesOf(e, V) = BytesOf(e, Resident(e) \ V)
    BY <1>4, <1>5, <1>6, <1>7
  <2>2. resident_bytes' = total - BytesOf(e, V)
    <3>1. PICK n \in Nat : n = total - BytesOf(e, V)
      BY <1>7, <2>1
    <3>2. Max({0, n}) = n
      BY AtLeastZero
    <3> QED
      BY <1>3, <3>1, <3>2
  <2> QED
    BY <1>6, <1>7, <2>1, <2>2
<1>9. resident_entries' = Cardinality(Resident(e) \ V) /\ resident_entries' \in Nat
  <2>1. count - Cardinality(V) = Cardinality(Resident(e) \ V)
    BY <1>4, <1>5
  <2>2. resident_entries' = count - Cardinality(V)
    <3>1. PICK n \in Nat : n = count - Cardinality(V)
      BY <1>7, <2>1
    <3>2. Max({0, n}) = n
      BY AtLeastZero
    <3> QED
      BY <1>3, <3>1, <3>2
  <2> QED
    BY <1>7, <2>1, <2>2
<1>10. \A f \in Fingerprints : /\ entry'[f].unused = e[f].unused
                               /\ entry'[f].latency = e[f].latency
                               /\ entry'[f].ref_count = e[f].ref_count
                               /\ f \notin V => entry'[f] = e[f]
                               /\ f \in V => entry'[f].handle = NoHandle
  <2> TAKE f \in Fingerprints
  <2>1. entry'[f] = IF f \in V THEN [e[f] EXCEPT !.handle = NoHandle, !.bytes = 0] ELSE e[f]
    BY <1>3
  <2>2. e[f] \in Entry
    OBVIOUS
  <2> QED
    BY <2>1, <2>2 DEF Entry
<1>11. Resident(entry') = Resident(e) \ V
  BY <1>1, <1>10 DEF Resident
<1>12. Idle(entry') = Idle(e) \ V
  BY <1>10, <1>11 DEF Idle, Resident
<1>13. BytesOf(entry', Resident(e) \ V) = BytesOf(e, Resident(e) \ V)
  <2>1. \A f \in Resident(e) \ V : entry'[f].bytes = e[f].bytes
    BY <1>1, <1>10
  <2> QED
    BY <1>7, <2>1, BytesSame
<1>14. Account(entry', resident_bytes', resident_entries')
  BY <1>7, <1>8, <1>9, <1>11, <1>13 DEF Account
<1>15. resident_bytes' > target => Idle(entry') = {}
  BY <1>2, <1>8, <1>12
<1>16. UseOrder(entry')
  BY <1>10, <1>11 DEF UseOrder
<1> QED
  BY <1>3, <1>6, <1>8, <1>9, <1>10, <1>11, <1>12, <1>14, <1>15, <1>16 DEF V

(* A critical section that ends with evictions keeps the accounts.         *)
LEMMA EvictAccountInv ==
  ASSUME IInv', NEW e \in [Fingerprints -> Entry], NEW total, NEW count, Account(e, total, count),
         UseOrder(e), NEW target \in Nat, EvictAndPublish(e, total, count, target),
         max_resident_bytes' \in Nat, bytes_in_use' \in Nat,
         resident_bytes' > max_resident_bytes' => resident_bytes' > target \/ Idle(e) = {}
  PROVE  AccountInv'
<1>1. /\ Account(entry', resident_bytes', resident_entries')
      /\ published' = [bytes |-> resident_bytes', entries |-> resident_entries']
      /\ resident_bytes' \in Nat /\ resident_entries' \in Nat
      /\ resident_bytes' > target => Idle(entry') = {}
      /\ UseOrder(entry') /\ Idle(entry') \subseteq Idle(e)
  BY EvictAccounts
<1>2. BudgetRespected'
  BY <1>1 DEF BudgetRespected
<1>3. TypeOK'
  BY <1>1 DEF IInv, TypeOK
<1> QED
  BY <1>1, <1>2, <1>3 DEF AccountInv, Account, UseOrder, Resident

(* A critical section that changes no size keeps them too.                 *)
LEMMA SameAccountInv ==
  ASSUME AccountInv, IInv', UNCHANGED <<resident_bytes, resident_entries, max_resident_bytes>>,
         published' = [bytes |-> resident_bytes, entries |-> resident_entries],
         bytes_in_use' \in Nat,
         \A f \in Fingerprints : entry'[f].handle = entry[f].handle /\ entry'[f].bytes = entry[f].bytes,
         Idle(entry') \subseteq Idle(entry), UseOrder(entry')
  PROVE  AccountInv'
<1>1. Resident(entry') = Resident(entry) /\ Resident(entry) \subseteq Fingerprints
  BY DEF Resident
<1>2. BytesOf(entry', Resident(entry)) = BytesOf(entry, Resident(entry))
  BY <1>1, BytesSame DEF AccountInv, Account
<1>3. Account(entry', resident_bytes', resident_entries')
  BY <1>1, <1>2 DEF AccountInv, Account
<1>4. BudgetRespected'
  BY DEF AccountInv, BudgetRespected
<1>5. TypeOK'
  BY DEF IInv, TypeOK, AccountInv
<1> QED
  BY <1>3, <1>4, <1>5 DEF AccountInv, Account, UseOrder, Resident

(* A critical section that uses f has made d of the entries e.              *)
Using(e, d, f) ==
  /\ e \in [Fingerprints -> Entry] /\ d \in [Fingerprints -> Entry] /\ f \in Fingerprints
  /\ UseOrder(e)
  /\ \A g \in Fingerprints : d[g].unused = e[g].unused
  /\ Resident(d) \subseteq Resident(e) \cup {f}

(* A use makes its entry the youngest and leaves the order of the others.  *)
LEMMA TouchOrder ==
  ASSUME NEW e, NEW d, NEW f, Using(e, d, f)
  PROVE  /\ Touch(d, f) \in [Fingerprints -> Entry]
         /\ \A g \in Fingerprints : /\ Touch(d, f)[g].handle = d[g].handle
                                    /\ Touch(d, f)[g].ref_count = d[g].ref_count
                                    /\ Touch(d, f)[g].bytes = d[g].bytes
         /\ UseOrder(Touch(d, f))
<1> DEFINE t == Touch(d, f)
<1>0. /\ e \in [Fingerprints -> Entry] /\ d \in [Fingerprints -> Entry] /\ f \in Fingerprints
      /\ UseOrder(e) /\ \A g \in Fingerprints : d[g].unused = e[g].unused
      /\ Resident(d) \subseteq Resident(e) \cup {f}
  BY DEF Using
<1>1. \A g \in Fingerprints : d[g] \in Entry /\ d[g].unused \in Nat
  BY <1>0 DEF Entry
<1>2. \A g \in Fingerprints :
        /\ t[g] = [d[g] EXCEPT !.unused = IF g = f THEN 0
                                          ELSE IF @ <= d[f].unused THEN @ + 1 ELSE @]
  BY <1>0 DEF Touch
<1>3. t \in [Fingerprints -> Entry]
  BY <1>0, TouchKeeps
<1>4. \A g \in Fingerprints :
        /\ t[g].handle = d[g].handle /\ t[g].ref_count = d[g].ref_count /\ t[g].bytes = d[g].bytes
        /\ t[g].unused = IF g = f THEN 0
                         ELSE IF d[g].unused <= d[f].unused THEN d[g].unused + 1 ELSE d[g].unused
  <2> TAKE g \in Fingerprints
  <2> DEFINE age == IF g = f THEN 0
                    ELSE IF d[g].unused <= d[f].unused THEN d[g].unused + 1 ELSE d[g].unused
  <2>1. t[g] = [d[g] EXCEPT !.unused = age]
    BY <1>2
  <2> HIDE DEF age
  <2>2. d[g] \in Entry
    BY <1>1
  <2>3. /\ t[g].handle = d[g].handle /\ t[g].ref_count = d[g].ref_count /\ t[g].bytes = d[g].bytes
        /\ t[g].unused = age
    BY <2>1, <2>2 DEF Entry
  <2> QED
    BY <2>3 DEF age
<1> HIDE DEF t
<1>5. ASSUME NEW g \in Fingerprints, NEW k \in Fingerprints, g # k, t[g].unused = t[k].unused
      PROVE  g \notin Resident(t) /\ \A j \in Fingerprints : t[j].unused <= t[g].unused
  <2>1. g # f /\ k # f
    BY <1>1, <1>4, <1>5
  <2>2. CASE d[g].unused = d[k].unused
    <3>1. g \notin Resident(e) /\ \A j \in Fingerprints : d[j].unused <= d[g].unused
      BY <1>0, <1>5, <2>2 DEF UseOrder
    <3>2. g \notin Resident(t)
      BY <1>0, <1>4, <2>1, <3>1 DEF Resident
    <3>3. ASSUME NEW j \in Fingerprints PROVE t[j].unused <= t[g].unused
      <4>1. d[j].unused <= d[g].unused /\ d[f].unused <= d[g].unused
        BY <1>0, <3>1
      <4>2. /\ t[j].unused = IF j = f THEN 0
                             ELSE IF d[j].unused <= d[f].unused THEN d[j].unused + 1 ELSE d[j].unused
            /\ t[g].unused = IF d[g].unused <= d[f].unused THEN d[g].unused + 1 ELSE d[g].unused
        BY <1>0, <1>4, <2>1
      <4> QED
        BY <1>0, <1>1, <4>1, <4>2
    <3> QED
      BY <3>2, <3>3
  <2>3. CASE d[g].unused # d[k].unused
    <3>1. PICK i \in {g, k}, j \in {g, k} : d[i].unused = d[f].unused /\ d[j].unused = d[f].unused + 1
      <4>1. \A i \in {g, k} :
              t[i].unused = IF d[i].unused <= d[f].unused THEN d[i].unused + 1 ELSE d[i].unused
        BY <1>0, <1>4, <2>1
      <4>2. d[g].unused \in Nat /\ d[k].unused \in Nat /\ d[f].unused \in Nat
        BY <1>0, <1>1
      <4> QED
        BY <1>5, <2>3, <4>1, <4>2
    <3>2. d[j].unused <= d[i].unused
      BY <1>0, <2>1, <3>1 DEF UseOrder
    <3> QED
      BY <1>1, <3>1, <3>2
  <2> QED
    BY <2>2, <2>3
<1>6. UseOrder(t)
  BY <1>5 DEF UseOrder
<1> QED
  BY <1>3, <1>4, <1>6 DEF t

(* A critical section that gives f, which had nothing resident, a handle   *)
(* has made d of the entries e.                                            *)
Adding(e, d, f) ==
  /\ e \in [Fingerprints -> Entry] /\ d \in [Fingerprints -> Entry]
  /\ f \in Fingerprints \ Resident(e) /\ d[f].handle # NoHandle
  /\ \A g \in Fingerprints \ {f} : d[g].handle = e[g].handle /\ d[g].bytes = e[g].bytes

(* The counters gain the bytes of f and one entry.                         *)
LEMMA AddAccount ==
  ASSUME NEW e, NEW d, NEW f, NEW total, NEW count, Account(e, total, count), Adding(e, d, f)
  PROVE  Resident(d) = Resident(e) \cup {f} /\ Account(d, total + d[f].bytes, count + 1)
<1> /\ e \in [Fingerprints -> Entry] /\ d \in [Fingerprints -> Entry] /\ f \in Fingerprints
    /\ f \notin Resident(e) /\ d[f].handle # NoHandle
    /\ \A g \in Fingerprints \ {f} : d[g].handle = e[g].handle /\ d[g].bytes = e[g].bytes
  BY DEF Adding
<1>1. Resident(d) = Resident(e) \cup {f} /\ f \notin Resident(e) /\ Resident(e) \subseteq Fingerprints
  BY DEF Resident
<1>2. IsFiniteSet(Resident(e)) /\ Cardinality(Resident(e)) = count /\ total = BytesOf(e, Resident(e))
  BY DEF Account
<1>3. IsFiniteSet(Resident(d)) /\ Cardinality(Resident(d)) = count + 1
  <2>1. /\ IsFiniteSet(Resident(e) \cup {f})
        /\ Cardinality(Resident(e) \cup {f}) = Cardinality(Resident(e)) + 1
    BY <1>1, <1>2, FS_AddElement
  <2> QED
    BY <1>1, <1>2, <2>1
<1>4. BytesOf(d, Resident(d)) = d[f].bytes + BytesOf(d, Resident(d) \ {f}) /\ d[f].bytes \in Nat
  <2>1. f \in Resident(d) /\ Resident(d) \in SUBSET Resident(d)
    BY <1>1
  <2> QED
    BY <1>3, <2>1, IdleBytes
<1>5. Resident(d) \ {f} = Resident(e)
  BY <1>1
<1>6. BytesOf(d, Resident(e)) = BytesOf(e, Resident(e))
  <2>1. \A g \in Resident(e) : d[g].bytes = e[g].bytes
    BY <1>1
  <2> QED
    BY <1>2, <2>1, BytesSame
<1>7. total \in Nat
  BY <1>2, IdleBytes
<1> QED
  <2>1. BytesOf(d, Resident(d)) = d[f].bytes + total
    BY <1>2, <1>4, <1>5, <1>6
  <2>2. total + d[f].bytes = BytesOf(d, Resident(d))
    BY <1>4, <1>7, <2>1
  <2> QED
    BY <1>1, <1>3, <2>2 DEF Account

(* At the start, and after Deinit, nothing is resident.                    *)
LEMMA NoAccount ==
  ASSUME NEW e, e = [f \in Fingerprints |-> NewEntry]
  PROVE  Resident(e) = {} /\ Account(e, 0, 0) /\ UseOrder(e)
<1>1. \A f \in Fingerprints : e[f].handle = NoHandle /\ e[f].unused = 0
  BY DEF NewEntry
<1>2. Resident(e) = {}
  BY <1>1 DEF Resident
<1>3. IsFiniteSet({}) /\ Cardinality({}) = 0
  BY FS_EmptySet
<1>4. BytesOf(e, {}) = 0
  BY BytesStep, <1>3 DEF Sized
<1>5. UseOrder(e)
  BY <1>1, <1>2 DEF UseOrder
<1> QED
  BY <1>2, <1>3, <1>4, <1>5 DEF Account

(* Reusing an entry and losing a race.                                     *)
LEMMA ReuseAccounts ==
  ASSUME IInv, AccountInv, IInv', NEW x \in Executables, Reuse(x)
  PROVE  AccountInv'
<1> DEFINE f == request[x].fp
           d == [entry EXCEPT ![f].ref_count = @ + 1]
<1>1. /\ f \in Fingerprints /\ entry \in [Fingerprints -> Entry]
      /\ entry[f] \in Entry
  BY DEF IInv, ControlTypeOK, Request
<1>2. \A g \in Fingerprints : d[g] = IF g = f THEN [entry[f] EXCEPT !.ref_count = @ + 1] ELSE entry[g]
  BY <1>1
<1>3. [entry[f] EXCEPT !.ref_count = @ + 1] \in Entry
  BY <1>1 DEF Entry
<1>4. d \in [Fingerprints -> Entry]
  BY <1>1, <1>3
<1>5. /\ \A g \in Fingerprints : /\ d[g].handle = entry[g].handle /\ d[g].bytes = entry[g].bytes
                                 /\ d[g].unused = entry[g].unused
                                 /\ d[g].ref_count = entry[g].ref_count \/ d[g].ref_count # 0
  BY <1>1, <1>2 DEF Entry
<1>6. Resident(d) \subseteq Resident(entry) \cup {f}
  BY <1>5 DEF Resident
<1>7. entry' = Touch(d, f)
  BY DEF Reuse, Retain
<1> HIDE DEF d, f
<1>8. /\ \A g \in Fingerprints : /\ entry'[g].handle = d[g].handle
                                 /\ entry'[g].ref_count = d[g].ref_count
                                 /\ entry'[g].bytes = d[g].bytes
      /\ UseOrder(entry')
  <2>1. UseOrder(entry) /\ \A g \in Fingerprints : d[g].unused = entry[g].unused
    BY <1>5 DEF AccountInv
  <2>2. Using(entry, d, f)
    BY <1>1, <1>4, <1>6, <2>1 DEF Using
  <2>3. /\ \A g \in Fingerprints : /\ Touch(d, f)[g].handle = d[g].handle
                                    /\ Touch(d, f)[g].ref_count = d[g].ref_count
                                    /\ Touch(d, f)[g].bytes = d[g].bytes
        /\ UseOrder(Touch(d, f))
    BY <2>2, TouchOrder
  <2> QED
    BY <1>7, <2>3
<1>9. Idle(entry') \subseteq Idle(entry)
  BY <1>5, <1>8 DEF Idle, Resident
<1> QED
  BY <1>5, <1>8, <1>9, SameAccountInv DEF Reuse, AccountInv, TypeOK

(* A step that leaves the entries and the counters alone.                  *)
LEMMA IdleAccounts ==
  ASSUME AccountInv, IInv', bytes_in_use' \in Nat,
         UNCHANGED <<entry, resident_bytes, resident_entries, published, max_resident_bytes>>
  PROVE  AccountInv'
BY SameAccountInv DEF AccountInv, UseOrder, Resident, Idle

(* Trimming: within the budget before, and so after.                       *)
LEMMA TrimAccounts ==
  ASSUME IInv, AccountInv, IInv', NEW n \in Nat, TrimTo(n), UNCHANGED <<max_resident_bytes, bytes_in_use>>
  PROVE  AccountInv'
<1>1. CASE Capacity = 0 \/ bytes_in_use + n + resident_bytes <= Capacity
  BY <1>1, IdleAccounts DEF TrimTo, AccountInv, TypeOK
<1>2. CASE ~ (Capacity = 0 \/ bytes_in_use + n + resident_bytes <= Capacity)
  <2> DEFINE target == Max({0, Capacity - (bytes_in_use + n)})
  <2>1. EvictAndPublish(entry, resident_bytes, resident_entries, target)
    BY <1>2 DEF TrimTo
  <2>2. target \in Nat
    <3>1. Capacity - (bytes_in_use + n) \in Int
      BY DEF AccountInv, TypeOK
    <3> QED
      BY <3>1, AtLeastZero
  <2> HIDE DEF target
  <2>3. /\ entry \in [Fingerprints -> Entry] /\ Account(entry, resident_bytes, resident_entries)
        /\ UseOrder(entry) /\ {max_resident_bytes, bytes_in_use} \subseteq Nat /\ resident_bytes \in Nat
        /\ resident_bytes > max_resident_bytes => Idle(entry) = {}
    BY DEF AccountInv, TypeOK, ControlTypeOK, BudgetRespected
  <2>4. resident_bytes' \in Nat /\ resident_bytes' <= resident_bytes
    BY <2>1, <2>2, <2>3, EvictAccounts
  <2>5. resident_bytes' > max_resident_bytes' => Idle(entry) = {}
    BY <2>3, <2>4
  <2> QED
    BY <2>1, <2>2, <2>3, <2>5, EvictAccountInv
<1> QED
  BY <1>1, <1>2

(* The entries that acquireResident reaches before it evicts.              *)
Installed(x) ==
  Touch([entry EXCEPT ![request[x].fp].handle = request[x].handle,
                      ![request[x].fp].bytes = ConstantBytes[request[x].fp],
                      ![request[x].fp].ref_count = 1,
                      ![request[x].fp].latency = request[x].latency], request[x].fp)

LEMMA InstalledAccount ==
  ASSUME IInv, AccountInv, NEW x \in Executables, request[x].pc = "install",
         entry[request[x].fp].handle = NoHandle
  PROVE  LET f == request[x].fp e == Installed(x) IN
         /\ e \in [Fingerprints -> Entry] /\ f \in Fingerprints
         /\ Account(e, resident_bytes + ConstantBytes[f], resident_entries + 1)
         /\ UseOrder(e) /\ e[f].ref_count = 1 /\ Resident(e) = Resident(entry) \cup {f}
         /\ \A g \in Fingerprints \ {f} : e[g].bytes = entry[g].bytes /\ e[g].handle = entry[g].handle
<1> DEFINE f == request[x].fp
           q == [entry[f] EXCEPT !.handle = request[x].handle, !.bytes = ConstantBytes[f],
                                 !.ref_count = 1, !.latency = request[x].latency]
           d == [entry EXCEPT ![f] = q]
<1>1. /\ f \in Fingerprints /\ entry \in [Fingerprints -> Entry] /\ entry[f] \in Entry
      /\ request[x].handle \in Handles \cup {NoHandle} /\ request[x].latency \in Nat
      /\ ConstantBytes[f] \in Nat
  BY DEF IInv, ControlTypeOK, Request
<1>2. Installed(x) = Touch(d, f)
  BY <1>1 DEF Installed
<1>3. request[x].handle # NoHandle
  <2>1. request[x].handle \in alive
    BY DEF IInv, SoleOwner, InFlight
  <2> QED
    BY <2>1 DEF IInv, ControlTypeOK
<1>4. /\ q \in Entry /\ q.handle = request[x].handle /\ q.bytes = ConstantBytes[f]
      /\ q.ref_count = 1 /\ q.unused = entry[f].unused
  BY <1>1 DEF Entry
<1> HIDE DEF q
<1>5. /\ d \in [Fingerprints -> Entry]
      /\ \A g \in Fingerprints : d[g] = IF g = f THEN q ELSE entry[g]
  BY <1>1, <1>4
<1> HIDE DEF d, f
<1>6. \A g \in Fingerprints : d[g].unused = entry[g].unused
  BY <1>4, <1>5
<1>7. Resident(d) \subseteq Resident(entry) \cup {f}
  BY <1>5 DEF Resident
<1> DEFINE e == Touch(d, f)
<1>8. /\ e \in [Fingerprints -> Entry] /\ UseOrder(e)
      /\ \A g \in Fingerprints : /\ e[g].handle = d[g].handle /\ e[g].ref_count = d[g].ref_count
                                 /\ e[g].bytes = d[g].bytes
  <2>1. UseOrder(entry)
    BY DEF AccountInv
  <2>2. Using(entry, d, f)
    BY <1>1, <1>5, <1>6, <1>7, <2>1 DEF Using
  <2> QED
    BY <2>2, TouchOrder
<1> HIDE DEF e
<1>9. /\ e[f].handle # NoHandle /\ e[f].bytes = ConstantBytes[f] /\ e[f].ref_count = 1
      /\ \A g \in Fingerprints \ {f} : e[g].bytes = entry[g].bytes /\ e[g].handle = entry[g].handle
  BY <1>1, <1>3, <1>4, <1>5, <1>8
<1>10. f \in Fingerprints \ Resident(entry)
  BY <1>1 DEF Resident, f
<1>11. Account(entry, resident_bytes, resident_entries)
  BY DEF AccountInv
<1>12. /\ Resident(e) = Resident(entry) \cup {f}
       /\ Account(e, resident_bytes + e[f].bytes, resident_entries + 1)
  <2>1. Adding(entry, e, f)
    BY <1>1, <1>8, <1>9, <1>10 DEF Adding
  <2> QED
    BY <1>11, <2>1, AddAccount
<1> QED
  BY <1>1, <1>2, <1>8, <1>9, <1>12 DEF e, f

LEMMA AcquireAccounts ==
  ASSUME IInv, AccountInv, IInv', NEW x \in Executables, AcquireResident(x)
  PROVE  AccountInv'
<1> DEFINE n == ConstantBytes[request[x].fp]
<1>1. /\ EvictAndPublish(Installed(x), resident_bytes + n, resident_entries + 1, max_resident_bytes)
      /\ request[x].pc = "install" /\ entry[request[x].fp].handle = NoHandle
      /\ UNCHANGED <<max_resident_bytes, bytes_in_use>>
  BY DEF AcquireResident, Installed
<1>2. /\ Installed(x) \in [Fingerprints -> Entry]
      /\ Account(Installed(x), resident_bytes + n, resident_entries + 1)
      /\ UseOrder(Installed(x))
  BY <1>1, InstalledAccount
<1>3. max_resident_bytes \in Nat /\ bytes_in_use \in Nat
  BY DEF AccountInv, TypeOK
<1> HIDE DEF n
<1> QED
  BY <1>1, <1>2, <1>3, EvictAccountInv

(* The entries that a release reaches before it evicts.                    *)
Returned(x) ==
  Touch([entry EXCEPT ![request[x].fp].ref_count = IF @ # 0 THEN @ - 1 ELSE 0], request[x].fp)

LEMMA ReturnedAccount ==
  ASSUME IInv, AccountInv, NEW x \in Executables
  PROVE  LET e == Returned(x) IN
         /\ e \in [Fingerprints -> Entry]
         /\ Account(e, resident_bytes, resident_entries)
         /\ UseOrder(e) /\ Resident(e) = Resident(entry)
         /\ \A g \in Fingerprints : e[g].bytes = entry[g].bytes /\ e[g].handle = entry[g].handle
<1> DEFINE f == request[x].fp
           q == [entry[f] EXCEPT !.ref_count = IF @ # 0 THEN @ - 1 ELSE 0]
           d == [entry EXCEPT ![f] = q]
<1>1. f \in Fingerprints /\ entry \in [Fingerprints -> Entry] /\ entry[f] \in Entry
  BY DEF IInv, ControlTypeOK, Request
<1>2. Returned(x) = Touch(d, f)
  BY <1>1 DEF Returned
<1>3. /\ q \in Entry /\ q.handle = entry[f].handle /\ q.bytes = entry[f].bytes
      /\ q.unused = entry[f].unused
  BY <1>1 DEF Entry
<1> HIDE DEF q
<1>4. /\ d \in [Fingerprints -> Entry]
      /\ \A g \in Fingerprints : d[g] = IF g = f THEN q ELSE entry[g]
  BY <1>1, <1>3
<1> HIDE DEF d, f
<1>5. \A g \in Fingerprints : /\ d[g].unused = entry[g].unused /\ d[g].handle = entry[g].handle
                              /\ d[g].bytes = entry[g].bytes
  BY <1>3, <1>4
<1>6. Resident(d) \subseteq Resident(entry) \cup {f}
  BY <1>5 DEF Resident
<1> DEFINE e == Touch(d, f)
<1>7. /\ e \in [Fingerprints -> Entry] /\ UseOrder(e)
      /\ \A g \in Fingerprints : e[g].handle = d[g].handle /\ e[g].bytes = d[g].bytes
  <2>1. UseOrder(entry) /\ \A g \in Fingerprints : d[g].unused = entry[g].unused
    BY <1>5 DEF AccountInv
  <2>2. Using(entry, d, f)
    BY <1>1, <1>4, <1>6, <2>1 DEF Using
  <2> QED
    BY <2>2, TouchOrder
<1> HIDE DEF e
<1>8. \A g \in Fingerprints : e[g].bytes = entry[g].bytes /\ e[g].handle = entry[g].handle
  BY <1>5, <1>7
<1>9. Resident(e) = Resident(entry) /\ Resident(entry) \subseteq Fingerprints
  BY <1>8 DEF Resident
<1>10. BytesOf(e, Resident(entry)) = BytesOf(entry, Resident(entry)) /\ IsFiniteSet(Resident(entry))
  BY <1>8, <1>9, BytesSame DEF AccountInv, Account
<1>11. Account(e, resident_bytes, resident_entries)
  BY <1>9, <1>10 DEF AccountInv, Account
<1> QED
  BY <1>2, <1>7, <1>8, <1>9, <1>11 DEF e

LEMMA ReleaseAccounts ==
  ASSUME IInv, AccountInv, IInv', NEW x \in Executables, Release(x)
  PROVE  AccountInv'
<1>1. /\ EvictAndPublish(Returned(x), resident_bytes, resident_entries, max_resident_bytes)
      /\ UNCHANGED <<max_resident_bytes, bytes_in_use>>
  BY DEF Release, Returned
<1>2. /\ Returned(x) \in [Fingerprints -> Entry]
      /\ Account(Returned(x), resident_bytes, resident_entries)
      /\ UseOrder(Returned(x))
  BY ReturnedAccount
<1>3. max_resident_bytes \in Nat /\ bytes_in_use \in Nat
  BY DEF AccountInv, TypeOK
<1> QED
  BY <1>1, <1>2, <1>3, EvictAccountInv

LEMMA BudgetAccounts ==
  ASSUME IInv, AccountInv, IInv', NEW limit \in Nat, SetMaxResidentBytes(limit)
  PROVE  AccountInv'
<1>1. /\ EvictAndPublish(entry, resident_bytes, resident_entries, limit)
      /\ max_resident_bytes' = limit /\ bytes_in_use' = bytes_in_use
  BY DEF SetMaxResidentBytes
<1>2. /\ entry \in [Fingerprints -> Entry] /\ Account(entry, resident_bytes, resident_entries)
      /\ UseOrder(entry) /\ bytes_in_use \in Nat
  BY DEF AccountInv, TypeOK, ControlTypeOK
<1> QED
  BY <1>1, <1>2, EvictAccountInv

LEMMA DeinitAccounts ==
  ASSUME AccountInv, IInv', Deinit
  PROVE  AccountInv'
<1>1. /\ entry' = [f \in Fingerprints |-> NewEntry] /\ bytes_in_use' = bytes_in_use
      /\ resident_bytes' = 0 /\ resident_entries' = 0 /\ max_resident_bytes' = Unlimited
      /\ published' = [bytes |-> 0, entries |-> 0]
  BY DEF Deinit
<1>2. Resident(entry') = {} /\ Account(entry', 0, 0) /\ UseOrder(entry')
  BY <1>1, NoAccount
<1>3. Idle(entry') = {}
  BY <1>2 DEF Idle
<1>4. TypeOK'
  BY <1>1 DEF AccountInv, TypeOK, IInv
<1> QED
  BY <1>1, <1>2, <1>3, <1>4 DEF AccountInv, BudgetRespected, Account, UseOrder, Resident, Idle

LEMMA InitAccounts == Init => AccountInv
<1> SUFFICES ASSUME Init PROVE AccountInv
  OBVIOUS
<1>1. IInv
  BY InitInv
<1>2. Resident(entry) = {} /\ Account(entry, 0, 0) /\ UseOrder(entry)
  BY NoAccount DEF Init
<1>3. Idle(entry) = {}
  BY <1>2 DEF Idle
<1> QED
  BY <1>1, <1>2, <1>3 DEF Init, AccountInv, BudgetRespected, IInv, TypeOK

(* The steps whose critical section ends without evictions.                *)
LEMMA QuietAccounts ==
  ASSUME AccountInv, IInv',
         \/ \E x \in Executables :
              \/ \E f \in Fingerprints : RecordCompile(x, f)
              \/ AbandonCompile(x) \/ BackendCompileFails(x)
              \/ \E h \in Handles \ alive, l \in Latencies : BackendCompile(x, h, l)
              \/ ~ Reuse(x) /\ (EntryForCompile(x) \/ RetainRaceWinner(x))
         \/ \E n \in AllocSizes : MemoryRetain(n) \/ MemoryRelease(n)
         \/ UNCHANGED vars
  PROVE  AccountInv'
<1>1. UNCHANGED <<entry, resident_bytes, resident_entries, published, max_resident_bytes>>
  BY DEF RecordCompile, AbandonCompile, BackendCompileFails, BackendCompile, EntryForCompile,
         RetainRaceWinner, LookUp, MemoryRetain, MemoryRelease, vars
<1>2. bytes_in_use' \in Nat
  <2>1. bytes_in_use \in Nat /\ \A n \in AllocSizes : n \in Nat
    BY DEF AccountInv, TypeOK
  <2>2. ASSUME NEW n \in AllocSizes, MemoryRelease(n) PROVE bytes_in_use' \in Nat
    <3>1. bytes_in_use - n \in Int /\ bytes_in_use' = Max({0, bytes_in_use - n})
      BY <2>1, <2>2 DEF MemoryRelease
    <3> QED
      BY <3>1, AtLeastZero
  <2>3. ASSUME NEW n \in AllocSizes, MemoryRetain(n) PROVE bytes_in_use' \in Nat
    BY <2>1, <2>3 DEF MemoryRetain
  <2>4. CASE ~ \E n \in AllocSizes : MemoryRetain(n) \/ MemoryRelease(n)
    BY <2>1, <2>4 DEF RecordCompile, AbandonCompile, BackendCompileFails, BackendCompile, EntryForCompile,
         RetainRaceWinner, LookUp, vars
  <2> QED
    BY <2>2, <2>3, <2>4
<1> QED
  BY <1>1, <1>2, IdleAccounts

LEMMA NextAccounts == IInv /\ AccountInv /\ [Next]_vars => AccountInv'
<1> SUFFICES ASSUME IInv, AccountInv, [Next]_vars PROVE AccountInv'
  OBVIOUS
<1>1. IInv'
  BY NextInv
<1>2. ASSUME NEW x \in Executables, NEW f \in Fingerprints, RecordCompile(x, f) PROVE AccountInv'
  BY <1>1, <1>2, QuietAccounts
<1>3. ASSUME NEW x \in Executables, AbandonCompile(x) \/ BackendCompileFails(x) PROVE AccountInv'
  BY <1>1, <1>3, QuietAccounts
<1>4. ASSUME NEW x \in Executables, EntryForCompile(x) \/ RetainRaceWinner(x) PROVE AccountInv'
  BY <1>1, <1>4, QuietAccounts, ReuseAccounts
<1>5. ASSUME NEW x \in Executables, NEW h \in Handles \ alive, NEW l \in Latencies, BackendCompile(x, h, l)
      PROVE  AccountInv'
  BY <1>1, <1>5, QuietAccounts
<1>6. ASSUME NEW x \in Executables, TrimForConstants(x) PROVE AccountInv'
  <2>1. request[x].fp \in Fingerprints
    BY DEF IInv, ControlTypeOK, Request
  <2> QED
    BY <1>1, <1>6, <2>1, TrimAccounts DEF TrimForConstants
<1>7. ASSUME NEW x \in Executables, LoseRace(x) PROVE AccountInv'
  BY <1>1, <1>7, ReuseAccounts DEF LoseRace
<1>8. ASSUME NEW x \in Executables, AcquireResident(x) PROVE AccountInv'
  BY <1>1, <1>8, AcquireAccounts
<1>9. ASSUME NEW x \in Executables, Release(x) PROVE AccountInv'
  BY <1>1, <1>9, ReleaseAccounts
<1>10. ASSUME NEW limit \in Limits, SetMaxResidentBytes(limit) PROVE AccountInv'
  BY <1>1, <1>10, BudgetAccounts
<1>11. ASSUME NEW n \in AllocSizes, TrimForAllocation(n) PROVE AccountInv'
  BY <1>1, <1>11, TrimAccounts DEF TrimForAllocation
<1>12. ASSUME NEW n \in AllocSizes, MemoryRetain(n) \/ MemoryRelease(n) PROVE AccountInv'
  BY <1>1, <1>12, QuietAccounts
<1>13. ASSUME Deinit PROVE AccountInv'
  BY <1>1, <1>13, DeinitAccounts
<1>14. CASE UNCHANGED vars
  BY <1>1, <1>14, QuietAccounts
<1> QED
  BY <1>2, <1>3, <1>4, <1>5, <1>6, <1>7, <1>8, <1>9, <1>10, <1>11, <1>12, <1>13, <1>14 DEF Next

LEMMA CacheAccounts == Spec => [](IInv /\ AccountInv)
<1>1. Init => IInv /\ AccountInv
  BY InitInv, InitAccounts
<1>2. IInv /\ AccountInv /\ [Next]_vars => (IInv /\ AccountInv)'
  BY NextInv, NextAccounts
<1> QED
  BY <1>1, <1>2, PTL DEF Spec

(* Every value the cache computes has its type: no counter goes below zero *)
(* and none of its saturating subtractions hides a count that is wrong.    *)
THEOREM CacheTypesAreCorrect == Spec => []TypeOK
<1>1. IInv /\ AccountInv => TypeOK
  BY DEF AccountInv
<1> QED
  BY <1>1, CacheAccounts, PTL

(* The counters are those of the entries and the memory statistics are the *)
(* counters, after every critical section of any number of requests.       *)
THEOREM StatisticsAreExact == Spec => []StatsExact
<1>1. IInv /\ AccountInv => StatsExact
  BY DEF AccountInv, Account, StatsExact
<1> QED
  BY <1>1, CacheAccounts, PTL

(* Over budget only while every resident entry is leased, for any budget,  *)
(* any sizes of constants and any number of entries.                       *)
THEOREM BudgetHolds == Spec => []BudgetRespected
<1>1. IInv /\ AccountInv => BudgetRespected
  BY DEF AccountInv
<1> QED
  BY <1>1, CacheAccounts, PTL

----------------------------------------------------------------------------
(* The order of evictions, and how many there are.                         *)

(* What the two properties say of one step.                                *)
Order == ~ Deinit => InOrder
Needed ==
  /\ \A n \in AllocSizes : TrimForAllocation(n) => NoMoreThan(RoomBeside(n))
  /\ \A x \in Executables :
       TrimForConstants(x) => NoMoreThan(RoomBeside(ConstantBytes[request[x].fp]))
  /\ \/ Deinit
     \/ \E n \in AllocSizes : TrimForAllocation(n)
     \/ \E x \in Executables : TrimForConstants(x)
     \/ NoMoreThan(max_resident_bytes')

(* Nothing but the three sizes decides which of two entries goes first.    *)
LEMMA SameOrder ==
  ASSUME NEW a, NEW b, NEW c, NEW d, EvictedBefore(a, b),
         a.bytes = c.bytes, a.latency = c.latency, a.unused = c.unused,
         b.bytes = d.bytes, b.latency = d.latency, b.unused = d.unused
  PROVE  EvictedBefore(c, d)
BY DEF EvictedBefore

(* The evictions of a critical section that first reached the entries e,   *)
(* whose new entries are leased.                                           *)
LEMMA EvictOrderly ==
  ASSUME NEW e \in [Fingerprints -> Entry], NEW total, NEW count, Account(e, total, count),
         UseOrder(e), NEW target \in Nat, EvictAndPublish(e, total, count, target),
         Resident(entry) \subseteq Resident(e),
         \A f \in Resident(entry) : e[f].bytes = entry[f].bytes,
         \A f \in Resident(e) \ Resident(entry) : e[f].ref_count # 0
  PROVE  InOrder /\ NoMoreThan(target)
<1> DEFINE V == Victims(e, total, target)
<1>1. /\ V \subseteq Idle(e)
      /\ \A f \in V : Before(e, f) \subseteq V
      /\ \A f \in V : (\A g \in V : f \notin Before(e, g)) =>
                        total - BytesOf(e, V) + e[f].bytes > target
  BY VictimsAre
<1>2. /\ resident_bytes' = total - BytesOf(e, V)
      /\ Resident(entry') = Resident(e) \ V /\ Idle(entry') = Idle(e) \ V
      /\ \A f \in Fingerprints : /\ entry'[f].unused = e[f].unused
                                 /\ entry'[f].latency = e[f].latency
                                 /\ f \notin V => entry'[f] = e[f]
  BY EvictAccounts
<1>3. entry' \in [Fingerprints -> Entry] /\ \A g \in Fingerprints : entry'[g].ref_count = e[g].ref_count
  BY EvictKeeps
<1> HIDE DEF V
<1>4. Evicted = V
  <2>1. ASSUME NEW f \in Evicted PROVE f \in V
    <3>1. f \in Resident(e) /\ f \notin Resident(entry')
      BY DEF Evicted, Resident
    <3> QED
      BY <1>2, <3>1
  <2>2. ASSUME NEW f \in V PROVE f \in Evicted
    <3>1. f \in Resident(entry) /\ f \in Fingerprints /\ f \notin Resident(entry')
      BY <1>1, <1>2 DEF Idle, Resident
    <3> QED
      BY <3>1 DEF Evicted, Resident
  <2> QED
    BY <2>1, <2>2
<1>5. ASSUME NEW f \in V
      PROVE  /\ f \in Fingerprints /\ f \in Idle(e) /\ AsVictim(f).bytes = e[f].bytes
             /\ AsVictim(f).latency = e[f].latency /\ AsVictim(f).unused = e[f].unused
             /\ entry[f].bytes = e[f].bytes /\ entry'[f].ref_count = 0
  <2>1. f \in Fingerprints /\ f \in Idle(e) /\ f \in Resident(entry) /\ entry'[f] \in Entry
    BY <1>1, <1>3, <1>4 DEF Idle, Resident, Evicted
  <2>3. entry'[f].ref_count = 0
    BY <1>3, <2>1 DEF Idle
  <2>2. /\ AsVictim(f).bytes = entry[f].bytes /\ AsVictim(f).latency = entry'[f].latency
        /\ AsVictim(f).unused = entry'[f].unused
    BY <2>1 DEF AsVictim, Entry
  <2> QED
    BY <1>2, <2>1, <2>2, <2>3
<1>6. ASSUME NEW f \in V, NEW g \in Idle(entry'), EvictedBefore(entry'[g], AsVictim(f)) PROVE FALSE
  <2>1. g \in Idle(e) /\ g \notin V /\ g \in Fingerprints
    BY <1>2 DEF Idle, Resident
  <2>2. entry'[g] = e[g]
    BY <1>2, <2>1
  <2>3. EvictedBefore(e[g], e[f])
    BY <1>5, <1>6, <2>2, SameOrder
  <2>4. g \in Before(e, f)
    BY <2>1, <2>3 DEF Before
  <2> QED
    BY <1>1, <2>1, <2>4
<1>7. ASSUME NEW f \in V
      PROVE  \/ \E g \in V : EvictedBefore(AsVictim(f), AsVictim(g))
             \/ resident_bytes' + entry[f].bytes > target
  <2>1. CASE \E g \in V : f \in Before(e, g)
    <3>1. PICK g \in V : f \in Before(e, g)
      BY <2>1
    <3>2. EvictedBefore(e[f], e[g])
      BY <3>1 DEF Before
    <3>3. EvictedBefore(AsVictim(f), AsVictim(g))
      BY <1>5, <3>2, SameOrder
    <3> QED
      BY <3>3
  <2>2. CASE \A g \in V : f \notin Before(e, g)
    BY <1>1, <1>2, <1>5, <2>2
  <2> QED
    BY <2>1, <2>2
<1> QED
  BY <1>4, <1>5, <1>6, <1>7 DEF InOrder, NoMoreThan

(* Steps that leave every handle in its place.                             *)
LEMMA QuietEvicts ==
  ASSUME \A f \in Resident(entry) : entry'[f].handle = entry[f].handle
  PROVE  Evicted = {} /\ InOrder /\ \A target : NoMoreThan(target)
BY DEF InOrder, NoMoreThan, Evicted, Resident

(* A trim that makes room for n bytes.                                     *)
LEMMA TrimNeeded ==
  ASSUME AccountInv, NEW n \in Nat, TrimTo(n)
  PROVE  InOrder /\ NoMoreThan(RoomBeside(n))
<1>0. /\ entry \in [Fingerprints -> Entry] /\ Account(entry, resident_bytes, resident_entries)
      /\ UseOrder(entry) /\ bytes_in_use \in Nat
  BY DEF AccountInv, TypeOK, ControlTypeOK
<1>1. CASE Capacity = 0 \/ bytes_in_use + n + resident_bytes <= Capacity
  <2>1. entry' = entry
    BY <1>1 DEF TrimTo
  <2> QED
    BY <2>1, QuietEvicts
<1>2. CASE ~ (Capacity = 0 \/ bytes_in_use + n + resident_bytes <= Capacity)
  <2>1. EvictAndPublish(entry, resident_bytes, resident_entries, RoomBeside(n))
    BY <1>2 DEF TrimTo, RoomBeside
  <2>2. RoomBeside(n) \in Nat
    <3>1. PICK m \in Int : m = Capacity - (bytes_in_use + n)
      BY <1>0
    <3>2. Max({0, m}) \in Nat
      BY AtLeastZero
    <3> QED
      BY <1>2, <3>1, <3>2 DEF RoomBeside
  <2> QED
    BY <1>0, <2>1, <2>2, EvictOrderly
<1> QED
  BY <1>1, <1>2

LEMMA ReuseEvicts ==
  ASSUME IInv, NEW x \in Executables, Reuse(x)
  PROVE  Evicted = {}
<1> DEFINE f == request[x].fp
           d == [entry EXCEPT ![f].ref_count = @ + 1]
<1>1. f \in Fingerprints /\ entry \in [Fingerprints -> Entry]
  BY DEF IInv, ControlTypeOK, Request
<1>2. d \in [Fingerprints -> Entry] /\ \A g \in Fingerprints : d[g].handle = entry[g].handle
  BY <1>1 DEF Entry
<1>3. entry' = Touch(d, f)
  BY DEF Reuse, Retain
<1> HIDE DEF d, f
<1>4. \A g \in Fingerprints : entry'[g].handle = d[g].handle
  BY <1>1, <1>2, <1>3, TouchKeeps
<1> QED
  BY <1>2, <1>4 DEF Evicted, Resident

LEMMA AcquireNeeded ==
  ASSUME IInv, AccountInv, NEW x \in Executables, AcquireResident(x)
  PROVE  InOrder /\ NoMoreThan(max_resident_bytes')
<1> DEFINE f == request[x].fp
           n == ConstantBytes[request[x].fp]
<1>1. /\ EvictAndPublish(Installed(x), resident_bytes + n, resident_entries + 1, max_resident_bytes)
      /\ request[x].pc = "install" /\ entry[request[x].fp].handle = NoHandle
      /\ max_resident_bytes' = max_resident_bytes /\ max_resident_bytes \in Nat
  BY DEF AcquireResident, Installed, AccountInv, TypeOK
<1>2. /\ Installed(x) \in [Fingerprints -> Entry]
      /\ Account(Installed(x), resident_bytes + n, resident_entries + 1)
      /\ UseOrder(Installed(x)) /\ Installed(x)[f].ref_count = 1
      /\ Resident(Installed(x)) = Resident(entry) \cup {f}
      /\ \A g \in Fingerprints \ {f} : Installed(x)[g].bytes = entry[g].bytes
  BY <1>1, InstalledAccount
<1>3. f \notin Resident(entry) /\ Resident(entry) \subseteq Fingerprints
  BY <1>1 DEF Resident
<1> HIDE DEF n, f
<1>4. /\ Resident(entry) \subseteq Resident(Installed(x))
      /\ \A g \in Resident(entry) : Installed(x)[g].bytes = entry[g].bytes
      /\ \A g \in Resident(Installed(x)) \ Resident(entry) : Installed(x)[g].ref_count # 0
  BY <1>2, <1>3
<1> QED
  BY <1>1, <1>2, <1>4, EvictOrderly

LEMMA ReleaseNeeded ==
  ASSUME IInv, AccountInv, NEW x \in Executables, Release(x)
  PROVE  InOrder /\ NoMoreThan(max_resident_bytes')
<1>1. /\ EvictAndPublish(Returned(x), resident_bytes, resident_entries, max_resident_bytes)
      /\ max_resident_bytes' = max_resident_bytes /\ max_resident_bytes \in Nat
  BY DEF Release, Returned, AccountInv, TypeOK
<1>2. /\ Returned(x) \in [Fingerprints -> Entry]
      /\ Account(Returned(x), resident_bytes, resident_entries)
      /\ UseOrder(Returned(x)) /\ Resident(Returned(x)) = Resident(entry)
      /\ \A g \in Fingerprints : Returned(x)[g].bytes = entry[g].bytes
  BY ReturnedAccount
<1>3. Resident(entry) \subseteq Fingerprints
  BY DEF Resident
<1> QED
  BY <1>1, <1>2, <1>3, EvictOrderly

LEMMA BudgetNeeded ==
  ASSUME AccountInv, NEW limit \in Nat, SetMaxResidentBytes(limit)
  PROVE  InOrder /\ NoMoreThan(max_resident_bytes')
<1>1. EvictAndPublish(entry, resident_bytes, resident_entries, limit) /\ max_resident_bytes' = limit
  BY DEF SetMaxResidentBytes
<1>2. /\ entry \in [Fingerprints -> Entry] /\ Account(entry, resident_bytes, resident_entries)
      /\ UseOrder(entry)
  BY DEF AccountInv, TypeOK, ControlTypeOK
<1> QED
  BY <1>1, <1>2, EvictOrderly

(* Two kinds of steps evict for the sake of an allocation, and say which.  *)
LEMMA AllocationNeeded ==
  ASSUME AccountInv, NEW n \in AllocSizes, TrimForAllocation(n)
  PROVE  InOrder /\ NoMoreThan(RoomBeside(n))
BY TrimNeeded DEF TrimForAllocation

LEMMA ConstantsNeeded ==
  ASSUME IInv, AccountInv, NEW x \in Executables, TrimForConstants(x)
  PROVE  InOrder /\ NoMoreThan(RoomBeside(ConstantBytes[request[x].fp]))
<1>1. request[x].fp \in Fingerprints
  BY DEF IInv, ControlTypeOK, Request
<1>2. ConstantBytes[request[x].fp] \in Nat
  BY <1>1
<1> QED
  BY <1>2, TrimNeeded DEF TrimForConstants

(* All the others evict for the sake of the budget, or not at all.         *)
LEMMA BudgetOrTrim ==
  ASSUME IInv, AccountInv, [Next]_vars
  PROVE  \/ Deinit
         \/ \E n \in AllocSizes : TrimForAllocation(n)
         \/ \E x \in Executables : TrimForConstants(x)
         \/ InOrder /\ NoMoreThan(max_resident_bytes')
<1> DEFINE Goal == \/ Deinit
                   \/ \E n \in AllocSizes : TrimForAllocation(n)
                   \/ \E x \in Executables : TrimForConstants(x)
                   \/ InOrder /\ NoMoreThan(max_resident_bytes')
<1>1. ASSUME NEW x \in Executables, NEW f \in Fingerprints, RecordCompile(x, f) PROVE Goal
  BY <1>1, QuietEvicts DEF RecordCompile
<1>2. ASSUME NEW x \in Executables, AbandonCompile(x) \/ BackendCompileFails(x) PROVE Goal
  BY <1>2, QuietEvicts DEF AbandonCompile, BackendCompileFails
<1>3. ASSUME NEW x \in Executables, EntryForCompile(x) \/ RetainRaceWinner(x) PROVE Goal
  <2>1. Reuse(x) \/ entry' = entry
    BY <1>3 DEF EntryForCompile, RetainRaceWinner, LookUp
  <2> QED
    BY <2>1, QuietEvicts, ReuseEvicts DEF InOrder, NoMoreThan
<1>4. ASSUME NEW x \in Executables, NEW h \in Handles \ alive, NEW l \in Latencies, BackendCompile(x, h, l)
      PROVE  Goal
  BY <1>4, QuietEvicts DEF BackendCompile
<1>5. ASSUME NEW x \in Executables, LoseRace(x) PROVE Goal
  BY <1>5, ReuseEvicts DEF LoseRace, InOrder, NoMoreThan
<1>6. ASSUME NEW x \in Executables, AcquireResident(x) PROVE Goal
  BY <1>6, AcquireNeeded
<1>7. ASSUME NEW x \in Executables, Release(x) PROVE Goal
  BY <1>7, ReleaseNeeded
<1>8. ASSUME NEW limit \in Limits, SetMaxResidentBytes(limit) PROVE Goal
  BY <1>8, BudgetNeeded
<1>9. ASSUME NEW n \in AllocSizes, MemoryRetain(n) \/ MemoryRelease(n) PROVE Goal
  BY <1>9, QuietEvicts DEF MemoryRetain, MemoryRelease
<1>10. CASE UNCHANGED vars
  BY <1>10, QuietEvicts DEF vars
<1> QED
  BY <1>1, <1>2, <1>3, <1>4, <1>5, <1>6, <1>7, <1>8, <1>9, <1>10 DEF Next

(* Only idle entries are evicted, and an idle entry stays only if every    *)
(* victim of the step went before it: the largest first, of equal sizes    *)
(* the cheapest to compile again, then the longest unused.                 *)
THEOREM EvictionsAreInOrder == Spec => EvictionOrder
<1>1. IInv /\ AccountInv /\ [Next]_vars => [Order]_vars
  BY BudgetOrTrim, AllocationNeeded, ConstantsNeeded DEF Order
<1>2. [][Order]_vars => EvictionOrder
  BY DEF EvictionOrder, Order
<1> QED
  BY <1>1, <1>2, CacheAccounts, PTL DEF Spec

(* A trim for n bytes evicts no entry once they fit, whatever n is and     *)
(* however much is live beside the cache, and every other critical section *)
(* none once the budget is met: the victims are the shortest prefix of the *)
(* order that will do.                                                     *)
THEOREM EvictionsAreNeeded == Spec => EvictionNeeded
<1>1. ASSUME IInv, AccountInv, [Next]_vars PROVE Needed
  <2>1. \A n \in AllocSizes : TrimForAllocation(n) => NoMoreThan(RoomBeside(n))
    BY <1>1, AllocationNeeded
  <2>2. \A x \in Executables :
          TrimForConstants(x) => NoMoreThan(RoomBeside(ConstantBytes[request[x].fp]))
    BY <1>1, ConstantsNeeded
  <2>3. \/ Deinit
        \/ \E n \in AllocSizes : TrimForAllocation(n)
        \/ \E x \in Executables : TrimForConstants(x)
        \/ NoMoreThan(max_resident_bytes')
    BY <1>1, BudgetOrTrim
  <2> QED
    BY <2>1, <2>2, <2>3 DEF Needed
<1>2. IInv /\ AccountInv /\ [Next]_vars => [Needed]_vars
  BY <1>1
<1>3. [][Needed]_vars => EvictionNeeded
  BY DEF EvictionNeeded, Needed
<1> QED
  BY <1>2, <1>3, CacheAccounts, PTL DEF Spec

----------------------------------------------------------------------------
(* A step that only destroys handles destroys none that is leased after it. *)
LEMMA ReclaimStep == IInv' /\ alive' \subseteq alive => Promise!Reclaim
BY DEF IInv, LeaseSafety, HeldHandles, Promise!Reclaim

(* Every step of the cache is one of leased handles, or a stutter.         *)
LEMMA PromiseStep == IInv /\ IInv' /\ [Next]_vars => [Promise!Next]_Promise!vars
<1> SUFFICES ASSUME IInv, IInv', [Next]_vars PROVE [Promise!Next]_Promise!vars
  OBVIOUS
<1>0. request \in [Executables -> Request]
  BY DEF IInv, ControlTypeOK
<1>a. ASSUME alive' \subseteq alive, HeldHandles' = HeldHandles PROVE Promise!Next
  BY <1>a, ReclaimStep DEF Promise!Next
<1>b. ASSUME NEW x \in Executables, NEW q, q.pc # "held", request[x].pc # "held",
             request' = [request EXCEPT ![x] = q]
      PROVE  HeldHandles' = HeldHandles
  BY <1>0, <1>b DEF HeldHandles
<1>c. ASSUME NEW x \in Executables, Reuse(x), request[x].pc # "held", alive' \subseteq alive
      PROVE  Promise!Next
  <2> DEFINE h == entry[request[x].fp].handle
  <2>1. h # NoHandle /\ h \in Handles
    BY <1>0, <1>c DEF Reuse, Request, IInv, ControlTypeOK, Entry
  <2>2. request' = [request EXCEPT ![x].pc = "held", ![x].handle = h]
    BY <1>c DEF Reuse
  <2>3. h \in alive
    BY <1>0, <2>1 DEF IInv, SoleOwner, Resident, Request
  <2> HIDE DEF h
  <2>4. HeldHandles' = [HeldHandles EXCEPT ![x] = h] /\ HeldHandles[x] = NoHandle
    BY <1>0, <1>c, <2>2 DEF HeldHandles, Request
  <2>5. Promise!Take(x, h)
    BY <2>3, <2>4 DEF Promise!Take
  <2>6. QED
    BY <1>c, <2>1, <2>5, ReclaimStep DEF Promise!Next
<1>1. ASSUME NEW x \in Executables, NEW f \in Fingerprints, RecordCompile(x, f) PROVE Promise!Next
  BY <1>1, <1>a, <1>b DEF RecordCompile, NoRequest
<1>2. ASSUME NEW x \in Executables, AbandonCompile(x) \/ BackendCompileFails(x) PROVE Promise!Next
  BY <1>2, <1>a, <1>b DEF AbandonCompile, BackendCompileFails, NoRequest
<1>3. ASSUME NEW x \in Executables, EntryForCompile(x) \/ RetainRaceWinner(x) PROVE Promise!Next
  <2>1. request[x].pc # "held" /\ alive' = alive
    BY <1>3 DEF EntryForCompile, RetainRaceWinner, LookUp
  <2>2. CASE Reuse(x)
    BY <2>1, <2>2, <1>c
  <2>3. CASE ~ Reuse(x)
    <3>1. PICK to \in {"recheck", "compile"} : request' = [request EXCEPT ![x].pc = to]
      BY <1>3, <2>3 DEF EntryForCompile, RetainRaceWinner, LookUp
    <3>2. HeldHandles' = HeldHandles
      BY <1>0, <2>1, <3>1 DEF HeldHandles, Request
    <3>3. QED
      BY <2>1, <3>2, <1>a
  <2>4. QED
    BY <2>2, <2>3
<1>4. ASSUME NEW x \in Executables, NEW h \in Handles \ alive, NEW l \in Latencies, BackendCompile(x, h, l)
      PROVE  Promise!Next
  <2>1. HeldHandles' = HeldHandles
    BY <1>0, <1>4 DEF BackendCompile, HeldHandles, Request
  <2>2. Promise!Create(h)
    BY <1>4, <2>1 DEF Promise!Create, BackendCompile
  <2>3. QED
    BY <2>2 DEF Promise!Next
<1>5. ASSUME NEW n, TrimTo(n) PROVE alive' \subseteq alive
  BY <1>5 DEF TrimTo
<1>6. ASSUME NEW x \in Executables, TrimForConstants(x) PROVE Promise!Next
  <2>1. HeldHandles' = HeldHandles
    BY <1>0, <1>6 DEF TrimForConstants, HeldHandles, Request
  <2>2. QED
    BY <1>5, <1>6, <1>a, <2>1 DEF TrimForConstants
<1>7. ASSUME NEW x \in Executables, LoseRace(x) PROVE Promise!Next
  BY <1>7, <1>c DEF LoseRace
<1>8. ASSUME NEW x \in Executables, AcquireResident(x) PROVE Promise!Next
  <2> DEFINE h == request[x].handle
  <2>1. request[x].pc = "install" /\ alive' \subseteq alive /\ request' = [request EXCEPT ![x].pc = "held"]
    BY <1>8 DEF AcquireResident
  <2>2. h \in alive /\ h \in Handles
    BY <2>1 DEF IInv, SoleOwner, InFlight, ControlTypeOK
  <2>3. HeldHandles' = [HeldHandles EXCEPT ![x] = h] /\ HeldHandles[x] = NoHandle
    BY <1>0, <2>1 DEF HeldHandles, Request
  <2>4. Promise!Take(x, h)
    BY <2>2, <2>3 DEF Promise!Take
  <2>5. QED
    BY <2>1, <2>2, <2>4, ReclaimStep DEF Promise!Next
<1>9. ASSUME NEW x \in Executables, Release(x) PROVE Promise!Next
  <2>1. request[x].pc = "held" /\ alive' \subseteq alive /\ request' = [request EXCEPT ![x] = NoRequest]
    BY <1>9 DEF Release
  <2>2. request[x].handle # NoHandle
    BY <2>1 DEF IInv, LeaseSafety, ControlTypeOK
  <2>3. HeldHandles' = [HeldHandles EXCEPT ![x] = NoHandle] /\ HeldHandles[x] # NoHandle
    BY <1>0, <2>1, <2>2 DEF HeldHandles, NoRequest
  <2>4. Promise!GiveUp(x)
    BY <2>3 DEF Promise!GiveUp
  <2>5. QED
    BY <2>1, <2>4, ReclaimStep DEF Promise!Next
<1>10. ASSUME NEW limit \in Limits, SetMaxResidentBytes(limit) PROVE Promise!Next
  <2>1. HeldHandles' = HeldHandles /\ alive' \subseteq alive
    BY <1>10 DEF SetMaxResidentBytes, HeldHandles
  <2>2. QED
    BY <1>a, <2>1
<1>11. ASSUME NEW n \in AllocSizes, TrimForAllocation(n) \/ MemoryRetain(n) \/ MemoryRelease(n)
       PROVE  Promise!Next
  <2>1. HeldHandles' = HeldHandles
    BY <1>11 DEF TrimForAllocation, MemoryRetain, MemoryRelease, HeldHandles
  <2>2. alive' \subseteq alive
    BY <1>5, <1>11 DEF TrimForAllocation, MemoryRetain, MemoryRelease
  <2>3. QED
    BY <1>a, <2>1, <2>2
<1>12. ASSUME Deinit PROVE Promise!Next
  <2>1. HeldHandles' = HeldHandles /\ alive' \subseteq alive
    BY <1>12 DEF Deinit, HeldHandles
  <2>2. QED
    BY <1>a, <2>1
<1>13. CASE UNCHANGED vars
  BY <1>13 DEF vars, Promise!vars, HeldHandles
<1>14. QED
  BY <1>1, <1>2, <1>3, <1>4, <1>6, <1>7, <1>8, <1>9, <1>10, <1>11, <1>12, <1>13 DEF Next

(* The cache keeps the promise of leased handles.                          *)
THEOREM CacheImplementsLeases == Spec => ImplementsLeases
<1>1. Init => Promise!Init
  BY DEF Init, Promise!Init, HeldHandles, NoRequest
<1>2. IInv /\ IInv' /\ [Next]_vars => [Promise!Next]_Promise!vars
  BY PromiseStep
<1>3. QED
  BY <1>1, <1>2, CacheInvariant, PTL DEF Spec, ImplementsLeases, Promise!Spec

----------------------------------------------------------------------------
(* Loaded executables.                                                     *)

LoadedRecord ==
  [state : {"none", "compiling", "loaded"}, fingerprint : Fingerprints, deleted : BOOLEAN,
   resident_released : BOOLEAN, executing : {"no", "trim", "dispatch"}]

(* How far a loaded executable l is agrees with its request r to the cache. *)
Agrees(l, r) ==
  /\ l.state = "none" => r.pc = "none"
  /\ l.state = "compiling" => r.pc # "none"
  /\ l.state = "loaded" => r.pc = IF l.deleted THEN "none" ELSE "held"
  /\ r.pc # "none" => r.fp = l.fingerprint
  /\ l.deleted => l.state = "loaded"
  /\ l.resident_released <=> l.deleted
  /\ l.executing # "no" => l.state = "loaded" /\ ~l.deleted

LInv ==
  /\ loaded \in [Executables -> LoadedRecord]
  /\ \A x \in Executables : Agrees(loaded[x], request[x])

----------------------------------------------------------------------------
(* The cache below loaded executables.                                     *)

LEMMA NotLoadedType == NotLoaded \in LoadedRecord
BY AnyFingerprintType DEF NotLoaded, LoadedRecord

(* Every step of the loaded executables is one of the cache or changes     *)
(* nothing of it.                                                          *)
LEMMA LoadedStepIsCacheStep == [LoadedNext]_loadedVars => [Next]_vars
<1>1. ASSUME NEW x \in Executables,
             \/ \E f \in Fingerprints : Compile(x, f)
             \/ CacheLookup(x)
             \/ \E h \in Handles \ alive, latency \in Latencies : CompileBackend(x, h, latency)
      PROVE  Next
  BY <1>1 DEF Compile, CacheLookup, CompileBackend, Next
<1>2. ASSUME NEW x \in Executables,
             \/ CompileFails(x) \/ CreateExecutable(x) \/ CreateExecutableFails(x)
             \/ Delete(x) \/ Destroy(x)
      PROVE  [Next]_vars
  BY <1>2 DEF CompileFails, CreateExecutable, CreateExecutableFails, Delete, Destroy,
              releaseResidentStorage, Next
<1>3. ASSUME NEW x \in Executables,
             Execute(x) \/ Dispatched(x) \/ ExecuteFails(x)
      PROVE  UNCHANGED vars
  BY <1>3 DEF Execute, Dispatched, ExecuteFails
<1>4. ASSUME NEW x \in Executables, TrimForOutputs(x)
      PROVE  Next
  BY <1>4, LoadedAssumption DEF TrimForOutputs, Next
<1>5. CASE ClientStep
  BY <1>5 DEF ClientStep, Next
<1>6. CASE UNCHANGED loadedVars
  BY <1>6 DEF loadedVars
<1> QED
  BY <1>1, <1>2, <1>3, <1>4, <1>5, <1>6 DEF LoadedNext

(* What the cache's actions for x leave of its request.                    *)
LEMMA LookupKeepsRequest ==
  ASSUME IInv, NEW x \in Executables, CacheLookup(x)
  PROVE  /\ request[x].pc # "none"
         /\ \E r \in Request : /\ request' = [request EXCEPT ![x] = r]
                                /\ r.pc # "none" /\ r.fp = request[x].fp
<1> request \in [Executables -> Request]  BY DEF IInv, ControlTypeOK
<1>1. /\ request[x].pc # "none"
      /\ request' = [request EXCEPT ![x] = request'[x]]
      /\ request'[x].pc # "none" /\ request'[x].fp = request[x].fp
  <2>1. request[x] \in Request
    OBVIOUS
  <2>2. ASSUME request[x].pc # "none", Reuse(x)
        PROVE  <1>1!:
    BY <2>1, <2>2 DEF Reuse, Request
  <2>3. ASSUME request[x].pc # "none", NEW to, to # "none", request' = [request EXCEPT ![x].pc = to]
        PROVE  <1>1!:
    BY <2>1, <2>3 DEF Request
  <2>4. CASE EntryForCompile(x) \/ RetainRaceWinner(x)
    BY <2>2, <2>3, <2>4 DEF EntryForCompile, RetainRaceWinner, LookUp
  <2>5. CASE TrimForConstants(x) \/ AcquireResident(x)
    BY <2>3, <2>5 DEF TrimForConstants, AcquireResident
  <2>6. CASE LoseRace(x)
    BY <2>2, <2>6 DEF LoseRace
  <2> QED
    BY <2>4, <2>5, <2>6 DEF CacheLookup
<1>2. request'[x] \in Request
  <2>1. [Next]_vars  BY DEF CacheLookup, Next
  <2> QED  BY <2>1, NextInv DEF IInv, ControlTypeOK
<1> QED  BY <1>1, <1>2

(* The step of x preserves LInv when the records of x agree afterwards and *)
(* those of the others are as they were.                                   *)
LEMMA StepKeepsLInv ==
  ASSUME LInv, NEW x \in Executables, NEW l \in LoadedRecord, NEW r,
         request \in [Executables -> Request],
         loaded' = [loaded EXCEPT ![x] = l], request' = [request EXCEPT ![x] = r],
         Agrees(l, r)
  PROVE  LInv'
<1>1. loaded' \in [Executables -> LoadedRecord]
  BY DEF LInv
<1>2. loaded'[x] = l /\ request'[x] = r
  BY DEF LInv
<1>3. ASSUME NEW y \in Executables \ {x} PROVE loaded'[y] = loaded[y] /\ request'[y] = request[y]
  BY DEF LInv
<1>4. \A y \in Executables : Agrees(loaded'[y], request'[y])
  BY <1>2, <1>3 DEF LInv
<1> QED BY <1>1, <1>4 DEF LInv, Agrees

LEMMA LoadedInitLInv == LoadedInit => LInv
<1> SUFFICES ASSUME LoadedInit PROVE LInv
  OBVIOUS
<1>1. loaded \in [Executables -> LoadedRecord]
  BY NotLoadedType DEF LoadedInit
<1>2. Agrees(NotLoaded, NoRequest)
  BY DEF Agrees, NotLoaded, NoRequest
<1>3. \A x \in Executables : loaded[x] = NotLoaded /\ request[x] = NoRequest
  BY DEF LoadedInit, Init
<1> QED BY <1>1, <1>2, <1>3 DEF LInv

----------------------------------------------------------------------------
(* The actions, one lemma for each part of a loaded executable's life.      *)

LEMMA CompileLInv ==
  ASSUME LInv, IInv, NEW x \in Executables,
         \/ \E f \in Fingerprints : Compile(x, f)
         \/ CacheLookup(x)
         \/ \E h \in Handles \ alive, latency \in Latencies : CompileBackend(x, h, latency)
         \/ CreateExecutable(x)
  PROVE  LInv'
<1> request \in [Executables -> Request] /\ loaded \in [Executables -> LoadedRecord]
  BY DEF IInv, ControlTypeOK, LInv
<1>1. CASE \E f \in Fingerprints : Compile(x, f)
  <2> PICK f \in Fingerprints : Compile(x, f)  BY <1>1
  <2> DEFINE l == [NotLoaded EXCEPT !.state = "compiling", !.fingerprint = f]
             r == [NoRequest EXCEPT !.pc = "lookup", !.fp = f]
  <2>1. loaded' = [loaded EXCEPT ![x] = l] /\ request' = [request EXCEPT ![x] = r]
    BY DEF Compile, RecordCompile
  <2>2. l \in LoadedRecord /\ Agrees(l, r)
    BY NotLoadedType DEF Agrees, LoadedRecord, NotLoaded, NoRequest
  <2> HIDE DEF l, r
  <2> QED  BY <2>1, <2>2, StepKeepsLInv
<1>2. CASE CacheLookup(x)
  <2>1. PICK r \in Request : /\ request' = [request EXCEPT ![x] = r]
                             /\ r.pc # "none" /\ r.fp = request[x].fp
    BY <1>2, LookupKeepsRequest
  <2>2. request[x].pc \in {"lookup", "recheck", "trim", "install"}
    BY <1>2 DEF CacheLookup, EntryForCompile, RetainRaceWinner, TrimForConstants, LoseRace,
                AcquireResident, LookUp
  <2>3. Agrees(loaded[x], r)
    BY <2>1, <2>2 DEF LInv, Agrees, LoadedRecord
  <2> QED  BY <1>2, <2>1, <2>3, StepKeepsLInv DEF CacheLookup
<1>3. CASE \E h \in Handles \ alive, latency \in Latencies : CompileBackend(x, h, latency)
  <2>1. request[x].pc = "compile" /\ loaded' = loaded
    BY <1>3 DEF CompileBackend, BackendCompile
  <2>2. PICK r : /\ request' = [request EXCEPT ![x] = r]
                 /\ r.pc # "none" /\ r.fp = request[x].fp
    <3> PICK h \in Handles, latency \in Latencies : BackendCompile(x, h, latency)
      BY <1>3 DEF CompileBackend
    <3> DEFINE r == [request[x] EXCEPT !.handle = h, !.latency = latency,
                       !.pc = IF ConstantBytes[request[x].fp] = 0 THEN "install" ELSE "trim"]
    <3>1. request' = [request EXCEPT ![x] = r]
      BY DEF BackendCompile
    <3>2. r.pc # "none" /\ r.fp = request[x].fp
      BY DEF Request
    <3> QED  BY <3>1, <3>2
  <2>3. Agrees(loaded[x], r)
    BY <2>1, <2>2 DEF LInv, Agrees, LoadedRecord
  <2> QED  BY <2>1, <2>2, <2>3, StepKeepsLInv
<1>4. CASE CreateExecutable(x)
  <2> DEFINE l == [loaded[x] EXCEPT !.state = "loaded"]
  <2>1. loaded' = [loaded EXCEPT ![x] = l] /\ request' = [request EXCEPT ![x] = request[x]]
    BY <1>4 DEF CreateExecutable, vars
  <2>2. l \in LoadedRecord /\ Agrees(l, request[x])
    BY <1>4 DEF CreateExecutable, LInv, Agrees, LoadedRecord
  <2> HIDE DEF l
  <2> QED  BY <2>1, <2>2, StepKeepsLInv
<1> QED  BY <1>1, <1>2, <1>3, <1>4

LEMMA UnloadLInv ==
  ASSUME LInv, IInv, NEW x \in Executables,
         CompileFails(x) \/ CreateExecutableFails(x) \/ Destroy(x)
  PROVE  LInv'
<1> request \in [Executables -> Request] /\ loaded \in [Executables -> LoadedRecord]
  BY DEF IInv, ControlTypeOK, LInv
<1>1. loaded' = [loaded EXCEPT ![x] = NotLoaded]
  BY DEF CompileFails, CreateExecutableFails, Destroy, Unload
<1>2. PICK r : request' = [request EXCEPT ![x] = r] /\ r.pc = "none"
  <2>1. CASE CompileFails(x) \/ CreateExecutableFails(x)
    BY <2>1 DEF CompileFails, AbandonCompile, BackendCompileFails, CreateExecutableFails,
                Release, NoRequest
  <2>2. CASE Destroy(x) /\ ~loaded[x].resident_released
    BY <2>2 DEF Destroy, releaseResidentStorage, Release, NoRequest
  <2>3. CASE Destroy(x) /\ loaded[x].resident_released
    <3>1. request[x].pc = "none" /\ request' = [request EXCEPT ![x] = request[x]]
      BY <2>3 DEF Destroy, releaseResidentStorage, vars, LInv, Agrees, LoadedRecord
    <3> QED  BY <3>1
  <2> QED  BY <2>1, <2>2, <2>3
<1>3. Agrees(NotLoaded, r)
  BY <1>2 DEF Agrees, NotLoaded
<1> QED  BY <1>1, <1>2, <1>3, NotLoadedType, StepKeepsLInv

LEMMA DeleteLInv ==
  ASSUME LInv, IInv, NEW x \in Executables, Delete(x)
  PROVE  LInv'
<1> request \in [Executables -> Request] /\ loaded \in [Executables -> LoadedRecord]
  BY DEF IInv, ControlTypeOK, LInv
<1> DEFINE l == [loaded[x] EXCEPT !.deleted = TRUE, !.resident_released = TRUE]
<1>1. loaded' = [loaded EXCEPT ![x] = l]
  BY DEF Delete
<1>2. PICK r : request' = [request EXCEPT ![x] = r] /\ r.pc = "none"
  <2>1. CASE ~loaded[x].resident_released
    BY <2>1 DEF Delete, releaseResidentStorage, Release, NoRequest
  <2>2. CASE loaded[x].resident_released
    <3>1. request[x].pc = "none" /\ request' = [request EXCEPT ![x] = request[x]]
      BY <2>2 DEF Delete, releaseResidentStorage, vars, LInv, Agrees, LoadedRecord
    <3> QED  BY <3>1
  <2> QED  BY <2>1, <2>2
<1>3. l \in LoadedRecord /\ Agrees(l, r)
  BY <1>2 DEF Delete, LInv, Agrees, LoadedRecord
<1> HIDE DEF l
<1> QED  BY <1>1, <1>2, <1>3, StepKeepsLInv

LEMMA ExecuteLInv ==
  ASSUME LInv, IInv, NEW x \in Executables,
         Execute(x) \/ TrimForOutputs(x) \/ Dispatched(x) \/ ExecuteFails(x)
  PROVE  LInv'
<1> request \in [Executables -> Request] /\ loaded \in [Executables -> LoadedRecord]
  BY DEF IInv, ControlTypeOK, LInv
<1>1. PICK step \in {"no", "trim", "dispatch"} :
        loaded' = [loaded EXCEPT ![x].executing = step]
  BY DEF Execute, TrimForOutputs, Dispatched, ExecuteFails, Executing
<1> DEFINE l == [loaded[x] EXCEPT !.executing = step]
<1>2. loaded' = [loaded EXCEPT ![x] = l] /\ request' = [request EXCEPT ![x] = request[x]]
  BY <1>1 DEF Execute, TrimForOutputs, Dispatched, ExecuteFails, TrimForAllocation, vars
<1>3. l \in LoadedRecord /\ Agrees(l, request[x])
  BY DEF Execute, TrimForOutputs, Dispatched, ExecuteFails, LInv, Agrees, LoadedRecord
<1> HIDE DEF l
<1> QED  BY <1>2, <1>3, StepKeepsLInv

LEMMA ClientLInv ==
  ASSUME LInv, ClientStep \/ UNCHANGED loadedVars
  PROVE  LInv'
<1>1. UNCHANGED <<loaded, request>>
  BY DEF ClientStep, SetMaxResidentBytes, TrimForAllocation, MemoryRetain, MemoryRelease,
         Deinit, loadedVars, vars
<1> QED  BY <1>1 DEF LInv, Agrees

LEMMA LoadedNextLInv == LInv /\ IInv /\ [LoadedNext]_loadedVars => LInv'
BY CompileLInv, UnloadLInv, DeleteLInv, ExecuteLInv, ClientLInv DEF LoadedNext

----------------------------------------------------------------------------
(* Plans, and room for outputs.                                            *)

USE CacheAssumption

PlanTyped == plan_of \in [Handles -> Executables \cup {FreedPlan}]

LEMMA PlanStep == PlanTyped /\ [LoadedNext]_loadedVars => PlanTyped'
<1> SUFFICES ASSUME PlanTyped, [LoadedNext]_loadedVars PROVE PlanTyped'
  OBVIOUS
<1>1. ASSUME UNCHANGED plan_of PROVE PlanTyped'
  BY <1>1 DEF PlanTyped
<1>2. ASSUME NEW x \in Executables, Unload(x) PROVE PlanTyped'
  BY <1>2 DEF PlanTyped, Unload
<1>3. ASSUME NEW x \in Executables, NEW h \in Handles \ alive, NEW latency \in Latencies,
             CompileBackend(x, h, latency)
      PROVE  PlanTyped'
  BY <1>3 DEF PlanTyped, CompileBackend
<1> QED
  BY <1>1, <1>2, <1>3
  DEF LoadedNext, Compile, CacheLookup, CompileFails, CreateExecutable, CreateExecutableFails,
      Delete, Destroy, Execute, TrimForOutputs, Dispatched, ExecuteFails, Executing, ClientStep,
      loadedVars

(* What the saturating subtractions of trimForAllocation leave: below the  *)
(* target they compute, n more bytes fit.                                 *)
LEMMA RoomLeft ==
  ASSUME NEW a \in Int, NEW b \in Int, NEW c \in Int, NEW d \in Int, a <= b - (c + d)
  PROVE  c + d + a <= b
OBVIOUS

(* A trim for n bytes leaves room for them, or nothing idle that gives any. *)
LEMMA TrimMakesRoom ==
  ASSUME AccountInv, NEW n \in Nat, TrimTo(n)
  PROVE  \/ Capacity = 0
         \/ bytes_in_use + n + resident_bytes' <= Capacity
         \/ \A f \in Idle(entry') : entry'[f].bytes = 0
<1>0. /\ entry \in [Fingerprints -> Entry] /\ Account(entry, resident_bytes, resident_entries)
      /\ UseOrder(entry) /\ bytes_in_use \in Nat
  BY DEF AccountInv, TypeOK, ControlTypeOK
<1>1. CASE Capacity = 0 \/ bytes_in_use + n + resident_bytes <= Capacity
  BY <1>1 DEF TrimTo
<1>2. CASE ~ (Capacity = 0 \/ bytes_in_use + n + resident_bytes <= Capacity)
  <2> DEFINE target == Max({0, Capacity - (bytes_in_use + n)})
  <2>1. EvictAndPublish(entry, resident_bytes, resident_entries, target)
    BY <1>2 DEF TrimTo
  <2>2. /\ target \in Nat
        /\ target = IF Capacity > bytes_in_use + n THEN Capacity - (bytes_in_use + n) ELSE 0
    <3>1. PICK m \in Int : m = Capacity - (bytes_in_use + n)
      BY <1>0
    <3>2. Max({0, m}) = IF m > 0 THEN m ELSE 0
      BY AtLeastZero
    <3> QED
      BY <1>0, <3>1, <3>2
  <2> HIDE DEF target
  <2>3. /\ Account(entry', resident_bytes', resident_entries') /\ resident_bytes' \in Nat
        /\ resident_bytes' > target => Idle(entry') = {}
    BY <1>0, <2>1, <2>2, EvictAccounts
  <2>4. CASE resident_bytes' > target
    BY <2>3, <2>4
  <2>5. CASE resident_bytes' <= target /\ Capacity > bytes_in_use + n
    <3>1. bytes_in_use + n + resident_bytes' <= Capacity
      <4>1. resident_bytes' <= Capacity - (bytes_in_use + n)
        BY <2>2, <2>5
      <4>2. Capacity \in Int /\ bytes_in_use \in Int /\ n \in Int /\ resident_bytes' \in Int
        BY <1>0, <2>3
      <4> QED
        BY <4>1, <4>2, RoomLeft
    <3> QED
      BY <3>1
  <2>6. CASE resident_bytes' <= target /\ ~ (Capacity > bytes_in_use + n)
    <3>1. resident_bytes' = 0
      BY <1>0, <2>2, <2>3, <2>6
    <3>2. entry' \in [Fingerprints -> Entry]
      BY <1>0, <2>1, EvictKeeps
    <3>3. ASSUME NEW f \in Resident(entry') PROVE entry'[f].bytes = 0
      <4>1. IsFiniteSet(Resident(entry')) /\ BytesOf(entry', Resident(entry')) = 0
        BY <2>3, <3>1 DEF Account
      <4>2. Resident(entry') \in SUBSET Resident(entry') /\ Resident(entry') \ {f} \in SUBSET Resident(entry')
        OBVIOUS
      <4>3. /\ entry'[f].bytes \in Nat
            /\ BytesOf(entry', Resident(entry')) = entry'[f].bytes + BytesOf(entry', Resident(entry') \ {f})
        BY <3>2, <4>1, <4>2, IdleBytes
      <4>4. BytesOf(entry', Resident(entry') \ {f}) \in Nat
        BY <3>2, <4>1, <4>2, IdleBytes
      <4> QED
        BY <4>1, <4>3, <4>4
    <3> QED
      BY <3>3 DEF Idle
  <2> QED
    <3>1. resident_bytes' > target \/ resident_bytes' <= target
      BY <2>2, <2>3
    <3> QED
      BY <2>4, <2>5, <2>6, <3>1
<1> QED
  BY <1>1, <1>2

(* Only the trim of an execution takes it to its dispatch.                 *)
LEMMA DispatchFollowsTrim ==
  ASSUME LInv, LoadedNext, NEW x \in Executables,
         loaded[x].executing = "trim", loaded'[x].executing = "dispatch"
  PROVE  TrimTo(OutputBytes)
<1> loaded \in [Executables -> LoadedRecord]
  BY DEF LInv
<1>1. ASSUME NEW y \in Executables, NEW l, loaded' = [loaded EXCEPT ![y] = l],
             l.executing # "dispatch" \/ l.executing = loaded[y].executing
      PROVE  FALSE
  BY <1>1
<1>2. ASSUME NEW y \in Executables, NEW f \in Fingerprints, Compile(y, f) PROVE FALSE
  <2>1. [NotLoaded EXCEPT !.state = "compiling", !.fingerprint = f].executing = "no"
    BY DEF NotLoaded
  <2> QED
    BY <1>1, <1>2, <2>1 DEF Compile
<1>3. ASSUME NEW y \in Executables, Unload(y) PROVE FALSE
  BY <1>1, <1>3 DEF Unload, NotLoaded
<1>4. ASSUME NEW y \in Executables, CreateExecutable(y) \/ Delete(y) PROVE FALSE
  <2>1. loaded[y] \in LoadedRecord
    OBVIOUS
  <2>2. PICK l : loaded' = [loaded EXCEPT ![y] = l] /\ l.executing = loaded[y].executing
    BY <1>4, <2>1 DEF CreateExecutable, Delete, LoadedRecord
  <2> QED
    BY <1>1, <2>2
<1>5. ASSUME NEW y \in Executables, NEW step \in {"no", "trim"}, Executing(y, step) PROVE FALSE
  <2>1. [loaded[y] EXCEPT !.executing = step].executing = step
    BY DEF LoadedRecord
  <2> QED
    BY <1>1, <1>5, <2>1 DEF Executing
<1>6. loaded' # loaded
  OBVIOUS
<1>7. PICK y \in Executables : TrimForOutputs(y)
  BY <1>2, <1>3, <1>4, <1>5, <1>6
  DEF LoadedNext, CacheLookup, CompileBackend, CompileFails, CreateExecutableFails, Destroy,
      Execute, Dispatched, ExecuteFails, ClientStep
<1> QED
  BY <1>7 DEF TrimForOutputs, TrimForAllocation

----------------------------------------------------------------------------
(* Theorems.                                                               *)

(* Loaded executables drive the cache as its specification allows.         *)
THEOREM LoadedExecutablesUseCache == LoadedSpec => Spec
<1>1. LoadedInit => Init  BY DEF LoadedInit
<1> QED  BY <1>1, LoadedStepIsCacheStep, PTL DEF LoadedSpec, Spec

(* So the invariant of the cache holds of it, and a loaded executable      *)
(* agrees with its request in every state.                                 *)
THEOREM LoadedInvariant == LoadedSpec => [](IInv /\ LInv)
<1>1. LoadedSpec => []IInv  BY LoadedExecutablesUseCache, CacheInvariant, PTL
<1> QED  BY <1>1, LoadedInitLInv, LoadedNextLInv, PTL DEF LoadedSpec

(* An execution dispatches a backend executable that exists, and the one   *)
(* the cache has for its program, whatever is trimmed, evicted, deleted or  *)
(* destroyed meanwhile (execution_call.zig, executable_cache.zig).          *)
THEOREM ExecutionsDispatchResident == LoadedSpec => []DispatchesResident
<1>1. IInv /\ LInv => DispatchesResident
  BY DEF IInv, LeaseSafety, LInv, Agrees, LoadedRecord, DispatchesResident
<1> QED  BY <1>1, LoadedInvariant, PTL

(* The references of a cache entry are those of its executables that are   *)
(* not deleted: Delete and then Destroy release one reference and no more   *)
(* (executable.zig).                                                       *)
THEOREM ReferencesAreExact == LoadedSpec => []ReferencesExact
<1>1. ASSUME IInv, LInv PROVE ReferencesExact
  <2>1. ASSUME NEW f \in Fingerprints, NEW x \in Executables
        PROVE  x \in Referencing(f) <=> x \in Held(f)
    BY <1>1 DEF Referencing, Held, LInv, Agrees, LoadedRecord
  <2>2. ASSUME NEW f \in Fingerprints PROVE Referencing(f) = Held(f)
    BY <2>1 DEF Referencing, Held
  <2> QED  BY <1>1, <2>2 DEF IInv, RefCountExact, ReferencesExact
<1> QED  BY <1>1, LoadedInvariant, PTL

(* What the accounts of the cache say holds under loaded executables too,  *)
(* and every record of a compile agrees with its request and its plan.     *)
THEOREM LoadedTypesAreCorrect == LoadedSpec => []LoadedTypeOK
<1>1. LoadedInit => PlanTyped
  BY DEF LoadedInit, PlanTyped
<1>2. LoadedSpec => []PlanTyped
  BY <1>1, PlanStep, PTL DEF LoadedSpec
<1>3. LoadedSpec => []TypeOK
  BY LoadedExecutablesUseCache, CacheTypesAreCorrect, PTL
<1>4. IInv /\ LInv /\ PlanTyped /\ TypeOK => LoadedTypeOK
  BY DEF LInv, Agrees, LoadedRecord, PlanTyped, LoadedTypeOK
<1> QED
  BY <1>2, <1>3, <1>4, LoadedInvariant, PTL

(* An execution that dispatches has room for its outputs, or whatever is   *)
(* resident and not in use holds no bytes (execution_call.zig).            *)
THEOREM PressureIsTrimmed == LoadedSpec => PressureTrimmed
<1>1. LoadedSpec => []AccountInv
  BY LoadedExecutablesUseCache, CacheAccounts, PTL
<1>2. ASSUME LInv, AccountInv, LoadedNext, NEW x \in Executables,
             loaded[x].executing = "trim", loaded'[x].executing = "dispatch"
      PROVE  \/ Capacity = 0
             \/ bytes_in_use + OutputBytes + resident_bytes' <= Capacity
             \/ \A f \in Idle(entry') : entry'[f].bytes = 0
  <2>1. TrimTo(OutputBytes) /\ OutputBytes \in Nat
    BY <1>2, DispatchFollowsTrim, LoadedAssumption
  <2> QED
    BY <1>2, <2>1, TrimMakesRoom
<1>3. LInv /\ AccountInv /\ [LoadedNext]_loadedVars =>
      [\A x \in Executables :
         loaded[x].executing = "trim" /\ loaded'[x].executing = "dispatch" =>
           \/ Capacity = 0
           \/ bytes_in_use + OutputBytes + resident_bytes' <= Capacity
           \/ \A f \in Idle(entry') : entry'[f].bytes = 0]_loadedVars
  BY <1>2
<1> QED
  BY <1>1, <1>3, LoadedInvariant, PTL DEF LoadedSpec, PressureTrimmed
================================================================================
