-------------------------- MODULE ExecutableCache --------------------------
(***************************************************************************)
(* The cache of resident backend executables shared by every loaded        *)
(* executable of a client (src/runtime/executable_cache.zig) and the path   *)
(* that acquires and releases an entry (executable_residency.zig).          *)
(*                                                                         *)
(* Every action is one critical section of Residency.mutex, except          *)
(* BackendCompile, BackendCompileFails and AbandonCompile, which run        *)
(* unlocked.  An element of Executables is one compile request and, once    *)
(* the request succeeds, the loaded executable that holds the lease.        *)
(***************************************************************************)
EXTENDS Integers, FiniteSets, FiniteSetsExt

CONSTANTS
  Executables,    \* concurrent compile requests / loaded executables
  Fingerprints,   \* cache keys
  Handles,        \* names the backend may give its executables
  NoHandle,
  ConstantBytes,  \* [Fingerprints -> Nat]: resident_constant_bytes of a program
  Latencies,      \* compile latencies that a clock may measure
  Unlimited,      \* std.math.maxInt(u64), the default residency budget
  Limits,         \* budgets passed to setMaxResidentBytes
  Capacity,       \* capacity_bytes of the residency memory, 0 when unknown
  AllocSizes,     \* sizes of the buffers allocated beside the cache
  MaxBytesInUse   \* bound of the model: live bytes it lets the host allocate

ASSUME CacheAssumption ==
  /\ IsFiniteSet(Executables)
  /\ NoHandle \notin Handles
  /\ Fingerprints # {}
  /\ ConstantBytes \in [Fingerprints -> Nat]
  /\ Latencies \subseteq Nat
  /\ Limits \subseteq Nat
  /\ Unlimited \in Nat
  /\ Capacity \in Nat
  /\ AllocSizes \subseteq Nat
  /\ MaxBytesInUse \in Nat

VARIABLES
  known,               \* fingerprints that own an Entry
  entry,               \* the Entry of each fingerprint
  resident_bytes,      \* Stats.resident_bytes
  resident_entries,    \* Stats.resident_entries
  published,           \* the two counters as MemoryStats shows them
  max_resident_bytes,
  bytes_in_use,        \* MemoryStats.bytes_in_use: live buffers
  request,             \* progress of each compile request
  alive                \* backend executables created and not yet destroyed

vars == <<known, entry, resident_bytes, resident_entries, published,
          max_resident_bytes, bytes_in_use, request, alive>>

NewEntry == [handle |-> NoHandle, bytes |-> 0, ref_count |-> 0,
             latency |-> 0, unused |-> 0]
AnyFingerprint == CHOOSE f \in Fingerprints : TRUE
NoRequest == [pc |-> "none", fp |-> AnyFingerprint, handle |-> NoHandle, latency |-> 0]

Entry == [handle : Handles \cup {NoHandle}, bytes : Nat, ref_count : Nat,
          latency : Nat, unused : Nat]
Request == [pc : {"none", "lookup", "recheck", "compile", "trim", "install", "held"},
            fp : Fingerprints, handle : Handles \cup {NoHandle}, latency : Nat]

Init ==
  /\ known = {}
  /\ entry = [f \in Fingerprints |-> NewEntry]
  /\ resident_bytes = 0
  /\ resident_entries = 0
  /\ published = [bytes |-> 0, entries |-> 0]
  /\ max_resident_bytes = Unlimited
  /\ bytes_in_use = 0
  /\ request = [x \in Executables |-> NoRequest]
  /\ alive = {}

----------------------------------------------------------------------------
(* Eviction.                                                               *)

Resident(e) == {f \in Fingerprints : e[f].handle # NoHandle}
EvictLeased(e) == Resident(e)  \* mutant: ignores the leases
Idle(e) == {f \in Resident(e) : e[f].ref_count = 0}
BytesOf(e, S) == MapThenSumSet(LAMBDA f : e[f].bytes, S)

(* `unused` counts the entries used since this one was: the order of       *)
(* last_use without the clock.                                             *)
Touch(e, f) ==
  [g \in Fingerprints |->
     [e[g] EXCEPT !.unused = IF g = f THEN 0
                             ELSE IF @ <= e[f].unused THEN @ + 1 ELSE @]]

(* Victims leave largest first; equal sizes by the cheaper rebuild, then   *)
(* by the longer disuse.                                                   *)
EvictedBefore(a, b) ==
  \/ a.bytes > b.bytes
  \/ a.bytes = b.bytes /\ a.latency < b.latency
  \/ a.bytes = b.bytes /\ a.latency = b.latency /\ a.unused > b.unused

(* Mutant: the least recently used goes first, whatever its size.          *)
OldestVictims(e, total, target) ==
  {f \in Idle(e) :
     total - BytesOf(e, {g \in Idle(e) : e[g].unused > e[f].unused}) > target}

(* Mutant: the loop goes on when the target is just met.                   *)
VictimsAtTarget(e, total, target) ==
  {f \in Idle(e) :
     total - BytesOf(e, {g \in Idle(e) : EvictedBefore(e[g], e[f])}) >= target}

(* The entries a loop of evictions removes: an idle entry goes when the    *)
(* budget is still exceeded after all those that go before it.             *)
Victims(e, total, target) ==
  {f \in Idle(e) :
     total - BytesOf(e, {g \in Idle(e) : EvictedBefore(e[g], e[f])}) > target}

(* Mutant: forgets the memory statistics.                                  *)
EvictSilently(e, total, count, target) ==
  LET victims == Victims(e, total, target) IN
  /\ entry' = [f \in Fingerprints |->
                 IF f \in victims THEN [e[f] EXCEPT !.handle = NoHandle, !.bytes = 0]
                                  ELSE e[f]]
  /\ resident_bytes' = Max({0, total - BytesOf(e, victims)})
  /\ resident_entries' = Max({0, count - Cardinality(victims)})
  /\ UNCHANGED published

(* Runs the loop on the entries e whose counters are total and count, and  *)
(* mirrors the counters into the memory statistics.                        *)
EvictAndPublish(e, total, count, target) ==
  LET victims == Victims(e, total, target) IN
  /\ entry' = [f \in Fingerprints |->
                 IF f \in victims THEN [e[f] EXCEPT !.handle = NoHandle, !.bytes = 0]
                                  ELSE e[f]]
  /\ resident_bytes' = Max({0, total - BytesOf(e, victims)})
  /\ resident_entries' = Max({0, count - Cardinality(victims)})
  /\ published' = [bytes |-> resident_bytes', entries |-> resident_entries']

EvictedHandles == {entry[f].handle : f \in {g \in Resident(entry) : entry'[g].handle = NoHandle}}

SetMaxResidentBytes(limit) ==
  /\ max_resident_bytes' = limit
  /\ EvictAndPublish(entry, resident_bytes, resident_entries, limit)
  /\ alive' = alive \ EvictedHandles
  /\ UNCHANGED <<known, bytes_in_use, request>>

(* Mutant: makes room for the buffers that exist already.                  *)
TrimToBuffers(n) ==
  IF Capacity = 0 \/ bytes_in_use + resident_bytes <= Capacity
  THEN UNCHANGED <<entry, resident_bytes, resident_entries, published, alive>>
  ELSE /\ EvictAndPublish(entry, resident_bytes, resident_entries, Max({0, Capacity - bytes_in_use}))
       /\ alive' = alive \ EvictedHandles

(* Makes room for n more bytes next to the live buffers.                   *)
TrimTo(n) ==
  LET without == bytes_in_use + n IN
  IF Capacity = 0 \/ without + resident_bytes <= Capacity
  THEN UNCHANGED <<entry, resident_bytes, resident_entries, published, alive>>
  ELSE /\ EvictAndPublish(entry, resident_bytes, resident_entries, Max({0, Capacity - without}))
       /\ alive' = alive \ EvictedHandles

TrimForAllocation(n) ==
  /\ TrimTo(n)
  /\ UNCHANGED <<known, max_resident_bytes, bytes_in_use, request>>

(* The buffers' own accounting, which takes no lock and refuses nothing:   *)
(* live buffers may exceed the capacity.                                   *)
MemoryRetain(n) ==
  /\ bytes_in_use + n <= MaxBytesInUse
  /\ bytes_in_use' = bytes_in_use + n
  /\ UNCHANGED <<known, entry, resident_bytes, resident_entries, published,
                 max_resident_bytes, request, alive>>

MemoryRelease(n) ==
  /\ bytes_in_use > 0
  /\ bytes_in_use' = Max({0, bytes_in_use - n})
  /\ UNCHANGED <<known, entry, resident_bytes, resident_entries, published,
                 max_resident_bytes, request, alive>>

----------------------------------------------------------------------------
(* Acquiring and releasing a backend executable.                           *)

RecordCompile(x, f) ==
  /\ request[x].pc = "none"
  /\ known' = known \cup {f}
  /\ request' = [request EXCEPT ![x] = [NoRequest EXCEPT !.pc = "lookup", !.fp = f]]
  /\ UNCHANGED <<entry, resident_bytes, resident_entries, published,
                 max_resident_bytes, bytes_in_use, alive>>

(* The schedule cannot be built: the request dies, its Entry stays.        *)
AbandonCompile(x) ==
  /\ request[x].pc = "lookup"
  /\ request' = [request EXCEPT ![x] = NoRequest]
  /\ UNCHANGED <<known, entry, resident_bytes, resident_entries, published,
                 max_resident_bytes, bytes_in_use, alive>>

Retain(f) == Touch([entry EXCEPT ![f].ref_count = @ + 1], f)

(* retainResidentEntry found the entry resident.                           *)
Reuse(x) ==
  LET f == request[x].fp IN
  /\ entry[f].handle # NoHandle
  /\ entry' = Retain(f)
  /\ published' = [bytes |-> resident_bytes, entries |-> resident_entries]
  /\ request' = [request EXCEPT ![x].pc = "held", ![x].handle = entry[f].handle]
  /\ UNCHANGED <<known, resident_bytes, resident_entries, max_resident_bytes, bytes_in_use>>

LookUp(x, from, to) ==
  /\ request[x].pc = from
  /\ \/ Reuse(x)
     \/ /\ entry[request[x].fp].handle = NoHandle
        /\ request' = [request EXCEPT ![x].pc = to]
        /\ UNCHANGED <<known, entry, resident_bytes, resident_entries, published,
                       max_resident_bytes, bytes_in_use>>
  /\ UNCHANGED alive

EntryForCompile(x) == request[x].fp \in known /\ LookUp(x, "lookup", "recheck")
RetainRaceWinner(x) == LookUp(x, "recheck", "compile")

BackendCompile(x, h, latency) ==
  /\ request[x].pc = "compile"
  /\ alive' = alive \cup {h}
  /\ request' = [request EXCEPT ![x].handle = h, ![x].latency = latency,
                   ![x].pc = IF ConstantBytes[request[x].fp] = 0 THEN "install" ELSE "trim"]
  /\ UNCHANGED <<known, entry, resident_bytes, resident_entries, published,
                 max_resident_bytes, bytes_in_use>>

BackendCompileFails(x) ==
  /\ request[x].pc = "compile"
  /\ request' = [request EXCEPT ![x] = NoRequest]
  /\ UNCHANGED <<known, entry, resident_bytes, resident_entries, published,
                 max_resident_bytes, bytes_in_use, alive>>

TrimForConstants(x) ==
  /\ request[x].pc = "trim"
  /\ TrimTo(ConstantBytes[request[x].fp])
  /\ request' = [request EXCEPT ![x].pc = "install"]
  /\ UNCHANGED <<known, max_resident_bytes, bytes_in_use>>

(* Mutants of LoseRace: our handle leaks; the winner's is destroyed.       *)
LoseRaceLeaks(x) == request[x].pc = "install" /\ Reuse(x) /\ UNCHANGED alive
LoseRaceDestroysWinner(x) ==
  /\ request[x].pc = "install"
  /\ Reuse(x)
  /\ alive' = alive \ {entry[request[x].fp].handle}

(* Another request installed the program meanwhile: reuse it, destroy ours. *)
LoseRace(x) ==
  /\ request[x].pc = "install"
  /\ Reuse(x)
  /\ alive' = alive \ {request[x].handle}

(* acquireResident, then recordCompileLatency.                             *)
AcquireResident(x) ==
  LET f == request[x].fp
      n == ConstantBytes[f]
      e == Touch([entry EXCEPT ![f].handle = request[x].handle, ![f].bytes = n,
                               ![f].ref_count = 1, ![f].latency = request[x].latency], f)
  IN /\ request[x].pc = "install"
     /\ entry[f].handle = NoHandle
     /\ EvictAndPublish(e, resident_bytes + n, resident_entries + 1, max_resident_bytes)
     /\ alive' = alive \ EvictedHandles
     /\ request' = [request EXCEPT ![x].pc = "held"]
     /\ UNCHANGED <<known, max_resident_bytes, bytes_in_use>>

(* Mutant: the limit is not applied again when a lease ends.               *)
ReleaseKeepsAll(x) ==
  LET f == request[x].fp
      e == Touch([entry EXCEPT ![f].ref_count = IF @ # 0 THEN @ - 1 ELSE 0], f)
  IN /\ request[x].pc = "held"
     /\ EvictAndPublish(e, resident_bytes, resident_entries, resident_bytes)
     /\ alive' = alive \ EvictedHandles
     /\ request' = [request EXCEPT ![x] = NoRequest]
     /\ UNCHANGED <<known, max_resident_bytes, bytes_in_use>>

Release(x) ==
  LET f == request[x].fp
      e == Touch([entry EXCEPT ![f].ref_count = IF @ # 0 THEN @ - 1 ELSE 0], f)
  IN /\ request[x].pc = "held"
     /\ EvictAndPublish(e, resident_bytes, resident_entries, max_resident_bytes)
     /\ alive' = alive \ EvictedHandles
     /\ request' = [request EXCEPT ![x] = NoRequest]
     /\ UNCHANGED <<known, max_resident_bytes, bytes_in_use>>

(* The client is destroyed once its executables and buffers are gone (the  *)
(* PJRT host's obligation), and the host creates another.                  *)
Deinit ==
  /\ \A x \in Executables : request[x].pc = "none"
  /\ bytes_in_use = 0
  /\ known' = {}
  /\ entry' = [f \in Fingerprints |-> NewEntry]
  /\ resident_bytes' = 0
  /\ resident_entries' = 0
  /\ published' = [bytes |-> 0, entries |-> 0]
  /\ max_resident_bytes' = Unlimited
  /\ alive' = alive \ {entry[f].handle : f \in Resident(entry)}
  /\ UNCHANGED <<bytes_in_use, request>>

Next ==
  \/ \E x \in Executables :
       \/ \E f \in Fingerprints : RecordCompile(x, f)
       \/ AbandonCompile(x)
       \/ EntryForCompile(x)
       \/ RetainRaceWinner(x)
       \/ \E h \in Handles \ alive, l \in Latencies : BackendCompile(x, h, l)
       \/ BackendCompileFails(x)
       \/ TrimForConstants(x)
       \/ LoseRace(x)
       \/ AcquireResident(x)
       \/ Release(x)
  \/ \E limit \in Limits : SetMaxResidentBytes(limit)
  \/ \E n \in AllocSizes : TrimForAllocation(n) \/ MemoryRetain(n) \/ MemoryRelease(n)
  \/ Deinit

Spec == Init /\ [][Next]_vars

----------------------------------------------------------------------------
(* Properties.                                                             *)

Held(f) == {x \in Executables : request[x].pc = "held" /\ request[x].fp = f}
InFlight == {x \in Executables : request[x].pc \in {"trim", "install"}}

(* Types of the control state.                                             *)
ControlTypeOK ==
  /\ known \subseteq Fingerprints
  /\ entry \in [Fingerprints -> Entry]
  /\ request \in [Executables -> Request]
  /\ alive \subseteq Handles

TypeOK ==
  /\ ControlTypeOK
  /\ {resident_bytes, resident_entries, max_resident_bytes, bytes_in_use} \subseteq Nat
  /\ published \in [bytes : Nat, entries : Nat]

(* A loaded executable dispatches a backend executable that exists and is  *)
(* the one its cache entry holds, whatever eviction, race or trim happened *)
(* since it was acquired.                                                  *)
LeaseSafety ==
  \A x \in Executables : request[x].pc = "held" =>
    /\ request[x].handle \in alive
    /\ request[x].handle = entry[request[x].fp].handle

(* The reference count of an entry is the number of its leases, although   *)
(* acquireResident overwrites it with one.                                 *)
RefCountExact == \A f \in Fingerprints : entry[f].ref_count = Cardinality(Held(f))

(* Every live backend executable has exactly one owner, the cache or a     *)
(* compile in flight: the loser of a race neither leaks its handle nor     *)
(* destroys the winner's.                                                  *)
SoleOwner ==
  /\ alive = {entry[f].handle : f \in Resident(entry)} \cup {request[x].handle : x \in InFlight}
  /\ \A f, g \in Resident(entry) : entry[f].handle = entry[g].handle => f = g
  /\ \A x, y \in InFlight : request[x].handle = request[y].handle => x = y
  /\ \A x \in InFlight, f \in Resident(entry) : request[x].handle # entry[f].handle

(* The counters agree with the entries, and the memory statistics that     *)
(* PJRT reads agree with the counters, after every critical section.       *)
StatsExact ==
  /\ resident_bytes = BytesOf(entry, Resident(entry))
  /\ resident_entries = Cardinality(Resident(entry))
  /\ published = [bytes |-> resident_bytes, entries |-> resident_entries]

(* Over budget only while every resident entry is leased: a release or a   *)
(* smaller budget is never forgotten.                                      *)
BudgetRespected == resident_bytes > max_resident_bytes => Idle(entry) = {}

Evicted == {f \in Resident(entry) : entry'[f].handle = NoHandle}
AsVictim(f) == [entry'[f] EXCEPT !.bytes = entry[f].bytes]

(* What is evicted is idle, and no idle entry that stays was to go before. *)
InOrder ==
  \A f \in Evicted :
    /\ entry'[f].ref_count = 0
    /\ \A g \in Idle(entry') : ~ EvictedBefore(entry'[g], AsVictim(f))

(* Of what is evicted, the entry that goes last was still one too many.    *)
NoMoreThan(target) ==
  \A f \in Evicted :
    \/ \E g \in Evicted : EvictedBefore(AsVictim(f), AsVictim(g))
    \/ resident_bytes' + entry[f].bytes > target

(* What n more bytes of buffers leave to the cache.                        *)
RoomBeside(n) ==
  IF Capacity = 0 THEN resident_bytes ELSE Max({0, Capacity - (bytes_in_use + n)})

(* The victims of a critical section are the largest idle entries, of      *)
(* equal ones the cheapest to rebuild, then the longest unused: no lease   *)
(* is broken and nothing smaller goes while a larger idle entry stays,     *)
(* though the same section may have ended a lease or installed an entry.   *)
EvictionOrder == [][~ Deinit => InOrder]_vars

(* No critical section evicts more than its own demand: a trim stops as    *)
(* soon as the n bytes it is for fit, any other section as soon as the     *)
(* budget is met.                                                          *)
EvictionNeeded ==
  [][/\ \A n \in AllocSizes : TrimForAllocation(n) => NoMoreThan(RoomBeside(n))
     /\ \A x \in Executables :
          TrimForConstants(x) => NoMoreThan(RoomBeside(ConstantBytes[request[x].fp]))
     /\ \/ Deinit
        \/ \E n \in AllocSizes : TrimForAllocation(n)
        \/ \E x \in Executables : TrimForConstants(x)
        \/ NoMoreThan(max_resident_bytes')]_vars

(* The promise made to loaded executables, and how the state shows it.     *)
HeldHandles ==
  [x \in Executables |-> IF request[x].pc = "held" THEN request[x].handle ELSE NoHandle]

Promise == INSTANCE LeasedHandles WITH Holders <- Executables, held <- HeldHandles

(* The cache implements leased handles.                                    *)
ImplementsLeases == Promise!Spec
=============================================================================
