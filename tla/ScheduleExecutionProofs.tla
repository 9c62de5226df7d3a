---------------------- MODULE ScheduleExecutionProofs ----------------------
(***************************************************************************)
(* Whatever the plan and whichever call fails, every backend buffer has one  *)
(* owner.  The invariant: besides what the values, the locals and the outputs *)
(* own, which locals each step of an operation finds held, so that a call    *)
(* that fails can undo exactly these.                                      *)
(*                                                                         *)
(* And every value is bound, when it is read, to what it means.  Two          *)
(* invariants on top of the owners:                                         *)
(*   Faithful  what is bound, held by a local or handed over is what it      *)
(*             means, and no operation writes a buffer that remains;         *)
(*   Lively    what was made and is read ahead is bound, and what the table  *)
(*             still owns was not read last before the current group.        *)
(* They rest on the order of a plan, which makes the meaning of its values   *)
(* well defined, and on the runs of nodes that fusion groups are.           *)
(***************************************************************************)
EXTENDS ScheduleExecution, FiniteSetTheorems, WellFoundedInduction, TLAPS

----------------------------------------------------------------------------
(* Who owns what, over a table t, the locals l and the outputs o.          *)

IsTable(t) ==
  /\ t = [memory |-> t.memory, handles |-> t.handles, owned |-> t.owned, misused |-> t.misused]
  /\ t.handles \in [AllValues -> BackendHandles \cup {NoHandle}]
  /\ t.owned \in [AllValues -> BOOLEAN]
  /\ Existing(t) \subseteq BackendHandles
  /\ t.misused = FALSE

IsLocal(l) == l \in [Locals -> BackendHandles \cup {NoHandle}]
IsGiven(o) == o \in Seq(BackendHandles)

OwnedOnce(t, l, o) ==
  /\ \A v, w \in AllValues : t.owned[v] /\ t.owned[w] /\ t.handles[v] = t.handles[w] => v = w
  /\ \A r, s \in Locals : l[r] # NoHandle /\ l[r] = l[s] => r = s
  /\ \A j, k \in DOMAIN o : o[j] = o[k] => j = k
  /\ \A v \in AllValues, s \in Locals : t.owned[v] => t.handles[v] # l[s]
  /\ \A v \in AllValues, k \in DOMAIN o : t.owned[v] => t.handles[v] # o[k]
  /\ \A s \in Locals, k \in DOMAIN o : l[s] # o[k]

Owned(t, l, o, h) ==
  \/ h \in HeldByOthers
  \/ \E v \in AllValues : t.owned[v] /\ t.handles[v] = h
  \/ \E s \in Locals : l[s] = h
  \/ \E k \in DOMAIN o : o[k] = h

OwnersHold(t, l, o) ==
  /\ HeldByOthers \subseteq Existing(t)
  /\ \A v \in AllValues : t.owned[v] => t.handles[v] \in Existing(t) \ HeldByOthers
  /\ \A s \in Locals : l[s] # NoHandle => l[s] \in Existing(t) \ HeldByOthers
  /\ \A k \in DOMAIN o : o[k] \in Existing(t) \ HeldByOthers

Balanced(t, l, o) ==
  /\ IsTable(t) /\ IsLocal(l) /\ IsGiven(o)
  /\ OwnedOnce(t, l, o) /\ OwnersHold(t, l, o)
  /\ \A h \in Existing(t) : Owned(t, l, o, h)

(* A handle that the table does not own is another's or was handed over.   *)
Bound(t, o) ==
  \A v \in AllValues : ~t.owned[v] /\ t.handles[v] # NoHandle => t.handles[v] \in HeldByOthers \cup Range(o)

NoLocals == [l \in Locals |-> NoHandle]

LEMMA NoHandleIsNone == NoHandle \notin BackendHandles
BY ScheduleAssumption DEF NoHandle

(* What is destroyed of the table is what it owned.                        *)
LEMMA DestroyOwnedIs ==
  ASSUME NEW t, NEW l, NEW o, Balanced(t, l, o), NEW vs \in SUBSET AllValues
  PROVE  DestroyOwned(t, vs) =
           [memory |-> Restrict(t.memory, Existing(t) \ {t.handles[v] : v \in {w \in vs : t.owned[w]}}),
            handles |-> t.handles, owned |-> t.owned, misused |-> FALSE]
<1> DEFINE mine == {v \in vs : t.owned[v] /\ t.handles[v] # NoHandle}
<1>1. /\ t = [memory |-> t.memory, handles |-> t.handles, owned |-> t.owned, misused |-> t.misused]
      /\ t.misused = FALSE /\ Existing(t) \subseteq BackendHandles
  BY DEF Balanced, IsTable
<1>2. mine = {w \in vs : t.owned[w]}
  BY <1>1, NoHandleIsNone DEF Balanced, OwnersHold
<1>3. /\ {t.handles[v] : v \in mine} \subseteq Existing(t)
      /\ ~ \E v, w \in mine : v # w /\ t.handles[v] = t.handles[w]
  BY DEF Balanced, OwnersHold, OwnedOnce
<1> DEFINE gone == {t.handles[v] : v \in mine}
           twice == \E v, w \in mine : v # w /\ t.handles[v] = t.handles[w]
           left == Restrict(t.memory, Existing(t) \ gone)
           d == DestroyAll(t, gone)
<1>4. DestroyOwned(t, vs) = [d EXCEPT !.misused = d.misused \/ twice]
  BY DEF DestroyOwned
<1>5. twice = FALSE /\ gone \subseteq Existing(t)
  BY <1>3
<1>6. d = [t EXCEPT !.memory = left, !.misused = t.misused \/ ~(gone \subseteq Existing(t))]
  BY DEF DestroyAll
<1> HIDE DEF twice, gone, left
<1>7. d = [memory |-> left, handles |-> t.handles, owned |-> t.owned, misused |-> FALSE]
  BY <1>1, <1>5, <1>6
<1> HIDE DEF d
<1>8. DestroyOwned(t, vs) = [memory |-> left, handles |-> t.handles, owned |-> t.owned, misused |-> FALSE]
  BY <1>4, <1>5, <1>7
<1> QED
  BY <1>2, <1>8 DEF left, gone

LEMMA ExistingAfter ==
  ASSUME NEW m, NEW S
  PROVE  DOMAIN Restrict(m, S) = S
BY DEF Restrict

(* Releasing values, whichever they are.                                   *)
LEMMA ReleaseAccounted ==
  ASSUME NEW t, NEW l, NEW o, Balanced(t, l, o), NEW vs \in SUBSET AllValues
  PROVE  /\ Balanced(ReleaseAll(t, vs), l, o)
         /\ Bound(t, o) => Bound(ReleaseAll(t, vs), o)
<1> DEFINE gone == {t.handles[v] : v \in {w \in vs : t.owned[w]}}
           u == ReleaseAll(t, vs)
<1>1. u = [memory |-> Restrict(t.memory, Existing(t) \ gone),
           handles |-> [v \in AllValues |-> IF v \in vs /\ t.owned[v] THEN NoHandle ELSE t.handles[v]],
           owned |-> [v \in AllValues |-> t.owned[v] /\ v \notin vs], misused |-> FALSE]
  <2> DEFINE left == Restrict(t.memory, Existing(t) \ gone)
             d == DestroyOwned(t, vs)
  <2>1. d = [memory |-> left, handles |-> t.handles, owned |-> t.owned, misused |-> FALSE]
    BY DestroyOwnedIs
  <2>2. u = [d EXCEPT
               !.handles = [v \in AllValues |-> IF v \in vs /\ t.owned[v] THEN NoHandle ELSE d.handles[v]],
               !.owned = [v \in AllValues |-> d.owned[v] /\ v \notin vs]]
    BY DEF ReleaseAll
  <2> HIDE DEF left, d, u
  <2> QED
    BY <2>1, <2>2 DEF left
<1>2. /\ Existing(u) = Existing(t) \ gone
      /\ u.handles = [v \in AllValues |-> IF v \in vs /\ t.owned[v] THEN NoHandle ELSE t.handles[v]]
      /\ u.owned = [v \in AllValues |-> t.owned[v] /\ v \notin vs]
      /\ u.misused = FALSE
  <2> HIDE DEF u, gone
  <2> QED BY <1>1, ExistingAfter DEF Existing
<1>3. /\ t.handles \in [AllValues -> BackendHandles \cup {NoHandle}]
      /\ t.owned \in [AllValues -> BOOLEAN]
      /\ Existing(t) \subseteq BackendHandles
  BY DEF Balanced, IsTable
<1>4. IsTable(u)
  BY <1>1, <1>2, <1>3 DEF IsTable
<1> HIDE DEF u
<1>5. /\ \A v \in AllValues : u.owned[v] => t.owned[v] /\ v \notin vs /\ u.handles[v] = t.handles[v]
      /\ \A v \in AllValues : t.owned[v] /\ v \notin vs => u.owned[v]
  BY <1>2, <1>3
<1>6. OwnedOnce(u, l, o)
  BY <1>5 DEF Balanced, OwnedOnce
<1>7. OwnersHold(u, l, o)
  <2>1. HeldByOthers \cap gone = {}
    BY DEF Balanced, OwnersHold
  <2>2. \A v \in AllValues : t.owned[v] /\ v \notin vs => t.handles[v] \notin gone
    BY DEF Balanced, OwnedOnce
  <2>3. \A s \in Locals : l[s] \notin gone
    BY DEF Balanced, OwnedOnce
  <2>4. \A k \in DOMAIN o : o[k] \notin gone
    BY DEF Balanced, OwnedOnce
  <2> QED
    BY <1>2, <1>5, <2>1, <2>2, <2>3, <2>4 DEF Balanced, OwnersHold
<1>8. \A h \in Existing(u) : Owned(u, l, o, h)
  BY <1>2, <1>5 DEF Balanced, Owned
<1>9. Balanced(u, l, o)
  BY <1>4, <1>6, <1>7, <1>8 DEF Balanced
<1>10. Bound(t, o) => Bound(u, o)
  BY <1>2, <1>3 DEF Bound
<1> QED
  BY <1>9, <1>10 DEF u

(* What a store leaves.                                                    *)
LEMMA StoreIs ==
  ASSUME NEW t, NEW l, NEW o, Balanced(t, l, o), NEW v \in AllValues, NEW h, NEW b
  PROVE  Store(t, v, h, b) =
           [memory |-> Restrict(t.memory, Existing(t) \ (IF t.owned[v] THEN {t.handles[v]} ELSE {})),
            handles |-> [t.handles EXCEPT ![v] = h], owned |-> [t.owned EXCEPT ![v] = b], misused |-> FALSE]
<1> DEFINE d == DestroyOwned(t, {v})
           gone == {t.handles[x] : x \in {w \in {v} : t.owned[w]}}
           left == Restrict(t.memory, Existing(t) \ gone)
<1>1. d = [memory |-> left, handles |-> t.handles, owned |-> t.owned, misused |-> FALSE]
  BY DestroyOwnedIs
<1>2. Store(t, v, h, b) = [d EXCEPT !.handles = [d.handles EXCEPT ![v] = h], !.owned = [d.owned EXCEPT ![v] = b]]
  BY DEF Store
<1>3. gone = IF t.owned[v] THEN {t.handles[v]} ELSE {}
  OBVIOUS
<1> HIDE DEF d, left, gone
<1>4. Store(t, v, h, b) =
        [memory |-> left, handles |-> [t.handles EXCEPT ![v] = h], owned |-> [t.owned EXCEPT ![v] = b], misused |-> FALSE]
  BY <1>1, <1>2
<1> QED
  BY <1>3, <1>4 DEF left

(* A local becomes the table's.                                            *)
LEMMA KeepAccounted ==
  ASSUME NEW t, NEW l, NEW o, Balanced(t, l, o), NEW v \in AllValues, NEW s \in Locals, l[s] # NoHandle
  PROVE  /\ Balanced(Store(t, v, l[s], TRUE), [l EXCEPT ![s] = NoHandle], o)
         /\ Bound(t, o) => Bound(Store(t, v, l[s], TRUE), o)
<1> DEFINE u == Store(t, v, l[s], TRUE)
           m == [l EXCEPT ![s] = NoHandle]
           gone == IF t.owned[v] THEN {t.handles[v]} ELSE {}
<1>1. u = [memory |-> Restrict(t.memory, Existing(t) \ gone), handles |-> [t.handles EXCEPT ![v] = l[s]],
           owned |-> [t.owned EXCEPT ![v] = TRUE], misused |-> FALSE]
  BY StoreIs
<1>2. /\ Existing(u) = Existing(t) \ gone
      /\ u.handles = [t.handles EXCEPT ![v] = l[s]]
      /\ u.owned = [t.owned EXCEPT ![v] = TRUE]
      /\ u.misused = FALSE
  <2> HIDE DEF u, gone
  <2> QED BY <1>1, ExistingAfter DEF Existing
<1>3. /\ t.handles \in [AllValues -> BackendHandles \cup {NoHandle}]
      /\ t.owned \in [AllValues -> BOOLEAN]
      /\ Existing(t) \subseteq BackendHandles
      /\ l \in [Locals -> BackendHandles \cup {NoHandle}] /\ IsGiven(o)
  BY DEF Balanced, IsTable, IsLocal
<1>4. IsTable(u) /\ IsLocal(m)
  BY <1>1, <1>2, <1>3 DEF IsTable, IsLocal
<1>5. /\ \A w \in AllValues \ {v} : u.owned[w] = t.owned[w] /\ u.handles[w] = t.handles[w]
      /\ u.owned[v] = TRUE /\ u.handles[v] = l[s]
      /\ \A r \in Locals : m[r] = IF r = s THEN NoHandle ELSE l[r]
  BY <1>2, <1>3
<1> HIDE DEF u, m
<1>6. OwnedOnce(u, m, o)
  <2>1. \A w \in AllValues : t.owned[w] => t.handles[w] # l[s]
    BY DEF Balanced, OwnedOnce
  <2>2. \A w, x \in AllValues : u.owned[w] /\ u.owned[x] /\ u.handles[w] = u.handles[x] => w = x
    BY <1>5, <2>1 DEF Balanced, OwnedOnce
  <2>3. \A q, r \in Locals : m[q] # NoHandle /\ m[q] = m[r] => q = r
    BY <1>5 DEF Balanced, OwnedOnce
  <2>4. \A w \in AllValues, r \in Locals : u.owned[w] => u.handles[w] # m[r]
    <3> SUFFICES ASSUME NEW w \in AllValues, NEW r \in Locals, u.owned[w], u.handles[w] = m[r] PROVE FALSE
      OBVIOUS
    <3>1. u.handles[w] # NoHandle
      <4>1. l[s] # NoHandle
        OBVIOUS
      <4>2. \A x \in AllValues : t.owned[x] => t.handles[x] # NoHandle
        BY <1>3, NoHandleIsNone DEF Balanced, OwnersHold
      <4> QED BY <1>5, <4>1, <4>2
    <3>2. r # s /\ m[r] = l[r]
      BY <1>5, <3>1
    <3>3. CASE w = v
      BY <1>5, <3>1, <3>2, <3>3 DEF Balanced, OwnedOnce
    <3>4. CASE w # v
      BY <1>5, <3>2, <3>4 DEF Balanced, OwnedOnce
    <3> QED BY <3>3, <3>4
  <2>5. \A w \in AllValues, k \in DOMAIN o : u.owned[w] => u.handles[w] # o[k]
    BY <1>5 DEF Balanced, OwnedOnce
  <2>6. \A r \in Locals, k \in DOMAIN o : m[r] # o[k]
    BY <1>3, <1>5, NoHandleIsNone DEF Balanced, OwnedOnce, OwnersHold
  <2> QED
    BY <2>2, <2>3, <2>4, <2>5, <2>6 DEF Balanced, OwnedOnce
<1>7. OwnersHold(u, m, o)
  <2>1. HeldByOthers \cap gone = {}
    BY DEF Balanced, OwnersHold
  <2>2. \A w \in AllValues \ {v} : t.owned[w] => t.handles[w] \notin gone
    BY DEF Balanced, OwnedOnce
  <2>3. \A r \in Locals : l[r] \notin gone
    BY DEF Balanced, OwnedOnce
  <2>4. \A k \in DOMAIN o : o[k] \notin gone
    BY DEF Balanced, OwnedOnce
  <2> QED
    BY <1>2, <1>5, <2>1, <2>2, <2>3, <2>4 DEF Balanced, OwnersHold
<1>8. \A h \in Existing(u) : Owned(u, m, o, h)
  <2> SUFFICES ASSUME NEW h \in Existing(u) PROVE Owned(u, m, o, h)
    OBVIOUS
  <2>1. h \in BackendHandles /\ h # NoHandle /\ Owned(t, l, o, h) /\ h \notin gone
    BY <1>2, <1>3, NoHandleIsNone DEF Balanced
  <2>2. CASE \E w \in AllValues : t.owned[w] /\ t.handles[w] = h
    BY <1>5, <2>1, <2>2 DEF Owned
  <2>3. CASE \E r \in Locals : l[r] = h
    BY <1>5, <2>1, <2>3 DEF Owned
  <2> QED
    BY <2>1, <2>2, <2>3 DEF Owned
<1>9. Balanced(u, m, o)
  BY <1>3, <1>4, <1>6, <1>7, <1>8 DEF Balanced
<1>10. Bound(t, o) => Bound(u, o)
  BY <1>5 DEF Bound
<1> QED
  BY <1>9, <1>10 DEF u, m

(* A value is bound to a buffer that others hold.                          *)
LEMMA BorrowAccounted ==
  ASSUME NEW t, NEW l, NEW o, Balanced(t, l, o), NEW v \in AllValues, NEW h \in HeldByOthers
  PROVE  /\ Balanced(Store(t, v, h, FALSE), l, o)
         /\ Bound(t, o) => Bound(Store(t, v, h, FALSE), o)
<1> DEFINE u == Store(t, v, h, FALSE)
           gone == IF t.owned[v] THEN {t.handles[v]} ELSE {}
<1>1. u = [memory |-> Restrict(t.memory, Existing(t) \ gone), handles |-> [t.handles EXCEPT ![v] = h],
           owned |-> [t.owned EXCEPT ![v] = FALSE], misused |-> FALSE]
  BY StoreIs
<1>2. /\ Existing(u) = Existing(t) \ gone
      /\ u.handles = [t.handles EXCEPT ![v] = h]
      /\ u.owned = [t.owned EXCEPT ![v] = FALSE]
      /\ u.misused = FALSE
  <2> HIDE DEF u, gone
  <2> QED BY <1>1, ExistingAfter DEF Existing
<1>3. /\ t.handles \in [AllValues -> BackendHandles \cup {NoHandle}]
      /\ t.owned \in [AllValues -> BOOLEAN]
      /\ Existing(t) \subseteq BackendHandles
      /\ IsLocal(l) /\ IsGiven(o) /\ h \in BackendHandles
  BY DEF Balanced, IsTable, OwnersHold
<1>4. IsTable(u)
  BY <1>1, <1>2, <1>3 DEF IsTable
<1>5. /\ \A w \in AllValues \ {v} : u.owned[w] = t.owned[w] /\ u.handles[w] = t.handles[w]
      /\ u.owned[v] = FALSE /\ u.handles[v] = h
  BY <1>2, <1>3
<1> HIDE DEF u
<1>6. OwnedOnce(u, l, o)
  BY <1>5 DEF Balanced, OwnedOnce
<1>7. OwnersHold(u, l, o)
  <2>1. HeldByOthers \cap gone = {}
    BY DEF Balanced, OwnersHold
  <2>2. \A w \in AllValues \ {v} : t.owned[w] => t.handles[w] \notin gone
    BY DEF Balanced, OwnedOnce
  <2>3. \A r \in Locals : l[r] \notin gone
    BY DEF Balanced, OwnedOnce
  <2>4. \A k \in DOMAIN o : o[k] \notin gone
    BY DEF Balanced, OwnedOnce
  <2> QED
    BY <1>2, <1>5, <2>1, <2>2, <2>3, <2>4 DEF Balanced, OwnersHold
<1>8. \A g \in Existing(u) : Owned(u, l, o, g)
  BY <1>2, <1>5 DEF Balanced, Owned
<1>9. Balanced(u, l, o)
  BY <1>3, <1>4, <1>6, <1>7, <1>8 DEF Balanced
<1>10. Bound(t, o) => Bound(u, o)
  BY <1>5 DEF Bound
<1> QED
  BY <1>9, <1>10 DEF u

(* What destroying buffers that exist leaves.                              *)
LEMMA DestroyAllIs ==
  ASSUME NEW t, IsTable(t), NEW gone \in SUBSET Existing(t)
  PROVE  DestroyAll(t, gone) =
           [memory |-> Restrict(t.memory, Existing(t) \ gone), handles |-> t.handles, owned |-> t.owned, misused |-> FALSE]
<1> DEFINE left == Restrict(t.memory, Existing(t) \ gone)
<1>1. DestroyAll(t, gone) = [t EXCEPT !.memory = left, !.misused = t.misused \/ ~(gone \subseteq Existing(t))]
  BY DEF DestroyAll
<1> HIDE DEF left
<1>2. DestroyAll(t, gone) = [memory |-> left, handles |-> t.handles, owned |-> t.owned, misused |-> FALSE]
  BY <1>1 DEF IsTable
<1> QED
  BY <1>2 DEF left

Without(l, S) == [s \in Locals |-> IF s \in S THEN NoHandle ELSE l[s]]

(* Locals are destroyed.                                                   *)
LEMMA DropAccounted ==
  ASSUME NEW t, NEW l, NEW o, Balanced(t, l, o), NEW S \in SUBSET Locals, \A s \in S : l[s] # NoHandle
  PROVE  /\ Balanced(DestroyAll(t, {l[s] : s \in S}), Without(l, S), o)
         /\ Bound(t, o) => Bound(DestroyAll(t, {l[s] : s \in S}), o)
<1> DEFINE gone == {l[s] : s \in S}
           u == DestroyAll(t, gone)
           m == Without(l, S)
<1>0. gone \subseteq Existing(t)
  BY DEF Balanced, OwnersHold
<1>1. u = [memory |-> Restrict(t.memory, Existing(t) \ gone), handles |-> t.handles, owned |-> t.owned, misused |-> FALSE]
  BY <1>0, DestroyAllIs DEF Balanced
<1>2. Existing(u) = Existing(t) \ gone /\ u.handles = t.handles /\ u.owned = t.owned /\ u.misused = FALSE
  <2> HIDE DEF u, gone
  <2> QED BY <1>1, ExistingAfter DEF Existing
<1>3. /\ t.handles \in [AllValues -> BackendHandles \cup {NoHandle}]
      /\ t.owned \in [AllValues -> BOOLEAN]
      /\ Existing(t) \subseteq BackendHandles
      /\ l \in [Locals -> BackendHandles \cup {NoHandle}] /\ IsGiven(o)
  BY DEF Balanced, IsTable, IsLocal
<1>4. IsTable(u) /\ IsLocal(m)
  BY <1>1, <1>2, <1>3 DEF IsTable, IsLocal, Without
<1>5. \A s \in Locals : m[s] = IF s \in S THEN NoHandle ELSE l[s]
  BY DEF Without
<1> HIDE DEF u, m
<1>6. OwnedOnce(u, m, o)
  <2>1. \A w \in AllValues, r \in Locals : u.owned[w] => u.handles[w] # m[r]
    BY <1>2, <1>5, <1>3, NoHandleIsNone DEF Balanced, OwnedOnce, OwnersHold
  <2>2. \A r \in Locals, k \in DOMAIN o : m[r] # o[k]
    BY <1>3, <1>5, NoHandleIsNone DEF Balanced, OwnedOnce, OwnersHold
  <2>3. \A q, r \in Locals : m[q] # NoHandle /\ m[q] = m[r] => q = r
    BY <1>5 DEF Balanced, OwnedOnce
  <2> QED
    BY <1>2, <2>1, <2>2, <2>3 DEF Balanced, OwnedOnce
<1>7. OwnersHold(u, m, o)
  <2>1. HeldByOthers \cap gone = {}
    BY DEF Balanced, OwnersHold
  <2>2. \A w \in AllValues : t.owned[w] => t.handles[w] \notin gone
    BY DEF Balanced, OwnedOnce
  <2>3. \A r \in Locals \ S : l[r] # NoHandle => l[r] \notin gone
    BY DEF Balanced, OwnedOnce
  <2>4. \A k \in DOMAIN o : o[k] \notin gone
    BY DEF Balanced, OwnedOnce
  <2> QED
    BY <1>2, <1>5, <2>1, <2>2, <2>3, <2>4 DEF Balanced, OwnersHold
<1>8. \A h \in Existing(u) : Owned(u, m, o, h)
  BY <1>2, <1>5 DEF Balanced, Owned
<1>9. Balanced(u, m, o)
  BY <1>3, <1>4, <1>6, <1>7, <1>8 DEF Balanced
<1>10. Bound(t, o) => Bound(u, o)
  BY <1>2 DEF Bound
<1> QED
  BY <1>9, <1>10 DEF u, m

(* The table is freed.                                                     *)
LEMMA DeinitAccounted ==
  ASSUME NEW t, NEW l, NEW o, Balanced(t, l, o)
  PROVE  /\ Balanced(Deinit(t), l, o) /\ Bound(Deinit(t), o)
         /\ \A v \in AllValues : Deinit(t).owned[v] = FALSE
<1> DEFINE gone == {t.handles[v] : v \in {w \in AllValues : t.owned[w]}}
           u == Deinit(t)
           r == ReleaseAll(t, AllValues)
<1>1. u = [memory |-> Restrict(t.memory, Existing(t) \ gone), handles |-> [v \in AllValues |-> NoHandle],
           owned |-> [v \in AllValues |-> FALSE], misused |-> FALSE]
  <2> DEFINE left == Restrict(t.memory, Existing(t) \ gone)
             d == DestroyOwned(t, AllValues)
  <2>1. d = [memory |-> left, handles |-> t.handles, owned |-> t.owned, misused |-> FALSE]
    BY DestroyOwnedIs
  <2>2. u = [d EXCEPT !.handles = [v \in AllValues |-> NoHandle], !.owned = [v \in AllValues |-> FALSE]]
    BY DEF Deinit
  <2> HIDE DEF left, d, u
  <2> QED
    BY <2>1, <2>2 DEF left
<1>2. /\ Existing(u) = Existing(t) \ gone /\ u.misused = FALSE
      /\ \A v \in AllValues : u.handles[v] = NoHandle /\ u.owned[v] = FALSE
  <2> HIDE DEF u, gone
  <2> QED BY <1>1, ExistingAfter DEF Existing
<1>3. /\ Existing(t) \subseteq BackendHandles
      /\ IsLocal(l) /\ IsGiven(o)
  BY DEF Balanced, IsTable
<1>4. IsTable(u)
  BY <1>1, <1>2, <1>3 DEF IsTable
<1> HIDE DEF u
<1>6. OwnedOnce(u, l, o)
  BY <1>2 DEF Balanced, OwnedOnce
<1>7. OwnersHold(u, l, o)
  <2>1. HeldByOthers \cap gone = {}
    BY DEF Balanced, OwnersHold
  <2>3. \A s \in Locals : l[s] \notin gone
    BY DEF Balanced, OwnedOnce
  <2>4. \A k \in DOMAIN o : o[k] \notin gone
    BY DEF Balanced, OwnedOnce
  <2> QED
    BY <1>2, <2>1, <2>3, <2>4 DEF Balanced, OwnersHold
<1>8. \A h \in Existing(u) : Owned(u, l, o, h)
  BY <1>2 DEF Balanced, Owned
<1>9. Balanced(u, l, o) /\ Bound(u, o)
  BY <1>2, <1>3, <1>4, <1>6, <1>7, <1>8 DEF Balanced, Bound
<1> QED
  BY <1>2, <1>9 DEF u

(* The buffers that a call makes.                                          *)
NewBuffers(t, n) == {new \in [1 .. n -> BackendHandles \ Existing(t)] : IsInjective(new)}

LEMMA WithBuffersIs ==
  ASSUME NEW t, IsTable(t), NEW n \in Nat, NEW new \in NewBuffers(t, n), NEW c
  PROVE  LET u == WithBuffers(t, new, c) IN
         /\ u = [memory |-> u.memory, handles |-> t.handles, owned |-> t.owned, misused |-> FALSE]
         /\ Existing(u) = Existing(t) \cup Range(new)
         /\ Range(new) \subseteq BackendHandles \ Existing(t)
         /\ IsTable(u)
<1> DEFINE memory == [h \in Existing(t) \cup Range(new) |->
                        IF h \in Range(new) THEN c[CHOOSE k \in DOMAIN new : new[k] = h] ELSE t.memory[h]]
           u == WithBuffers(t, new, c)
<1>1. u = [t EXCEPT !.memory = memory]
  BY DEF WithBuffers
<1>2. DOMAIN memory = Existing(t) \cup Range(new)
  OBVIOUS
<1>3. Range(new) \subseteq BackendHandles \ Existing(t)
  BY DEF NewBuffers, Range
<1> HIDE DEF memory, u
<1>4. u = [memory |-> memory, handles |-> t.handles, owned |-> t.owned, misused |-> FALSE]
  BY <1>1 DEF IsTable
<1>5. Existing(u) = Existing(t) \cup Range(new)
  BY <1>2, <1>4 DEF Existing
<1>6. u = [memory |-> u.memory, handles |-> t.handles, owned |-> t.owned, misused |-> FALSE]
  BY <1>4
<1>7. IsTable(u)
  BY <1>3, <1>4, <1>5 DEF IsTable
<1> QED
  BY <1>3, <1>5, <1>6, <1>7 DEF u

(* The locals that a call's buffers are for.                               *)
Gained(l, made, new) ==
  [s \in Locals |-> IF s \in Range(made) THEN new[CHOOSE k \in DOMAIN made : made[k] = s] ELSE l[s]]

LEMMA GainAccounted ==
  ASSUME NEW t, NEW l, NEW o, Balanced(t, l, o), NEW n \in Nat, NEW new \in NewBuffers(t, n), NEW c,
         NEW made \in [1 .. n -> Locals], IsInjective(made), \A k \in 1 .. n : l[made[k]] = NoHandle
  PROVE  /\ Balanced(WithBuffers(t, new, c), Gained(l, made, new), o)
         /\ Bound(t, o) => Bound(WithBuffers(t, new, c), o)
         /\ \A s \in Locals : Gained(l, made, new)[s] # NoHandle <=> l[s] # NoHandle \/ s \in Range(made)
<1> DEFINE u == WithBuffers(t, new, c)
           m == Gained(l, made, new)
<1>1. IsTable(t) /\ IsLocal(l) /\ IsGiven(o)
  BY DEF Balanced
<1>2. /\ u = [memory |-> u.memory, handles |-> t.handles, owned |-> t.owned, misused |-> FALSE]
      /\ Existing(u) = Existing(t) \cup Range(new)
      /\ Range(new) \subseteq BackendHandles \ Existing(t)
      /\ IsTable(u)
  BY <1>1, WithBuffersIs
<1> HIDE DEF u
<1>3. u.handles = t.handles /\ u.owned = t.owned
  BY <1>2
<1>4. DOMAIN made = 1 .. n /\ DOMAIN new = 1 .. n /\ IsInjective(new)
  BY DEF NewBuffers
<1>5. \A k \in 1 .. n : m[made[k]] = new[k] /\ new[k] \in Range(new)
  BY <1>4 DEF Gained, IsInjective, Range
<1>6. \A s \in Locals : s \notin Range(made) => m[s] = l[s]
  BY DEF Gained
<1>7. \A s \in Locals : s \in Range(made) => \E k \in 1 .. n : s = made[k]
  BY <1>4 DEF Range
<1>8. m = [s \in Locals |-> m[s]]
  BY DEF Gained
<1> HIDE DEF m
<1>9. IsLocal(m)
  <2>1. \A s \in Locals : m[s] \in BackendHandles \cup {NoHandle}
    BY <1>1, <1>2, <1>5, <1>6, <1>7 DEF IsLocal
  <2> QED BY <1>8, <2>1 DEF IsLocal
<1>10. \A s \in Locals : \/ m[s] = l[s] /\ s \notin Range(made)
                         \/ m[s] \in Range(new) /\ m[s] # NoHandle /\ s \in Range(made)
  BY <1>2, <1>5, <1>6, <1>7, NoHandleIsNone
<1>11. OwnedOnce(u, m, o)
  <2>1. \A r, s \in Locals : m[r] # NoHandle /\ m[r] = m[s] => r = s
    <3> SUFFICES ASSUME NEW r \in Locals, NEW s \in Locals, m[r] # NoHandle, m[r] = m[s] PROVE r = s
      OBVIOUS
    <3>1. \A q \in Locals : l[q] # NoHandle => l[q] \in Existing(t)
      BY DEF Balanced, OwnersHold
    <3>2. CASE r \in Range(made) /\ s \in Range(made)
      <4>1. PICK j \in 1 .. n, k \in 1 .. n : r = made[j] /\ s = made[k]
        BY <1>7, <3>2
      <4>2. new[j] = new[k]
        BY <1>5, <4>1
      <4> QED BY <1>4, <4>1, <4>2 DEF IsInjective
    <3>3. CASE r \notin Range(made) /\ s \notin Range(made)
      BY <1>6, <3>3 DEF Balanced, OwnedOnce
    <3>4. CASE (r \in Range(made)) # (s \in Range(made))
      <4>1. \A q \in Locals : q \in Range(made) => m[q] \notin Existing(t)
        BY <1>2, <1>5, <1>7
      <4> QED BY <1>6, <3>1, <3>4, <4>1
    <3> QED BY <3>2, <3>3, <3>4
  <2>2. \A v \in AllValues, s \in Locals : t.owned[v] => t.handles[v] # m[s]
    <3>1. \A v \in AllValues : t.owned[v] => t.handles[v] \in Existing(t)
      BY DEF Balanced, OwnersHold
    <3> QED BY <1>2, <1>10, <3>1 DEF Balanced, OwnedOnce
  <2>3. \A s \in Locals, k \in DOMAIN o : m[s] # o[k]
    <3>1. \A k \in DOMAIN o : o[k] \in Existing(t)
      BY DEF Balanced, OwnersHold
    <3> QED BY <1>2, <1>10, <3>1 DEF Balanced, OwnedOnce
  <2> QED
    BY <1>3, <2>1, <2>2, <2>3 DEF Balanced, OwnedOnce
<1>12. OwnersHold(u, m, o)
  <2>1. \A s \in Locals : m[s] # NoHandle => m[s] \in Existing(u) \ HeldByOthers
    <3>1. HeldByOthers \subseteq Existing(t) /\ \A s \in Locals : l[s] # NoHandle => l[s] \in Existing(t) \ HeldByOthers
      BY DEF Balanced, OwnersHold
    <3> QED BY <1>2, <1>10, <3>1
  <2> QED
    BY <1>2, <1>3, <2>1 DEF Balanced, OwnersHold
<1>13. \A h \in Existing(u) : Owned(u, m, o, h)
  <2> SUFFICES ASSUME NEW h \in Existing(u) PROVE Owned(u, m, o, h)
    OBVIOUS
  <2>1. CASE h \in Range(new)
    BY <1>4, <1>5, <2>1 DEF Owned, Range
  <2>2. CASE h \in Existing(t)
    <3>1. Owned(t, l, o, h) /\ h # NoHandle
      BY <1>1, <2>2, NoHandleIsNone DEF Balanced, IsTable
    <3>2. \A s \in Locals : l[s] = h => m[s] = h
      BY <1>4, <1>6, <1>7, <3>1
    <3> QED BY <1>3, <3>1, <3>2 DEF Owned
  <2> QED
    BY <1>2, <2>1, <2>2
<1>14. Balanced(u, m, o)
  BY <1>1, <1>2, <1>9, <1>11, <1>12, <1>13 DEF Balanced
<1>15. Bound(t, o) => Bound(u, o)
  BY <1>3 DEF Bound
<1>16. \A s \in Locals : m[s] # NoHandle <=> l[s] # NoHandle \/ s \in Range(made)
  BY <1>10
<1> QED
  BY <1>14, <1>15, <1>16 DEF u, m

(* A sequence with one more element.                                       *)
LEMMA AppendIs ==
  ASSUME NEW S, NEW o \in Seq(S), NEW h
  PROVE  /\ DOMAIN Append(o, h) = DOMAIN o \cup {Len(o) + 1} /\ Len(o) + 1 \notin DOMAIN o
         /\ \A k \in DOMAIN o : Append(o, h)[k] = o[k]
         /\ Append(o, h)[Len(o) + 1] = h
         /\ Range(Append(o, h)) = Range(o) \cup {h}
<1>1. /\ DOMAIN Append(o, h) = DOMAIN o \cup {Len(o) + 1} /\ Len(o) + 1 \notin DOMAIN o
      /\ \A k \in DOMAIN o : Append(o, h)[k] = o[k]
      /\ Append(o, h)[Len(o) + 1] = h
  OBVIOUS
<1> QED
  BY <1>1 DEF Range

(* A clone of an output is handed over.                                    *)
LEMMA CloneAccounted ==
  ASSUME NEW t, NEW l, NEW o, Balanced(t, l, o), NEW new \in NewBuffers(t, 1), NEW c
  PROVE  /\ Balanced(WithBuffers(t, new, c), l, Append(o, new[1]))
         /\ Bound(t, o) => Bound(WithBuffers(t, new, c), Append(o, new[1]))
<1> DEFINE u == WithBuffers(t, new, c)
           h == new[1]
           p == Append(o, h)
<1>1. IsTable(t) /\ IsLocal(l) /\ IsGiven(o)
  BY DEF Balanced
<1>2. /\ u = [memory |-> u.memory, handles |-> t.handles, owned |-> t.owned, misused |-> FALSE]
      /\ Existing(u) = Existing(t) \cup Range(new)
      /\ Range(new) \subseteq BackendHandles \ Existing(t)
      /\ IsTable(u)
  BY <1>1, WithBuffersIs
<1> HIDE DEF u
<1>3. u.handles = t.handles /\ u.owned = t.owned
  BY <1>2
<1>4. Range(new) = {h}
  BY DEF NewBuffers, Range
<1>5. /\ DOMAIN p = DOMAIN o \cup {Len(o) + 1} /\ Len(o) + 1 \notin DOMAIN o
      /\ \A k \in DOMAIN o : p[k] = o[k]
      /\ p[Len(o) + 1] = h
      /\ Range(p) = Range(o) \cup {h}
  BY <1>1, AppendIs DEF IsGiven
<1>6. IsGiven(p)
  BY <1>1, <1>2, <1>4 DEF IsGiven
<1> HIDE DEF p, h
<1>7. OwnedOnce(u, l, p)
  <2>1. h \notin Existing(t) /\ h # NoHandle
    BY <1>2, <1>4, NoHandleIsNone
  <2>2. \A j, k \in DOMAIN p : p[j] = p[k] => j = k
    <3>1. \A k \in DOMAIN o : o[k] # h
      BY <2>1 DEF Balanced, OwnersHold
    <3> QED BY <1>5, <3>1 DEF Balanced, OwnedOnce
  <2>3. \A v \in AllValues, k \in DOMAIN p : u.owned[v] => u.handles[v] # p[k]
    <3>1. \A v \in AllValues : t.owned[v] => t.handles[v] # h
      BY <2>1 DEF Balanced, OwnersHold
    <3> QED BY <1>3, <1>5, <3>1 DEF Balanced, OwnedOnce
  <2>4. \A s \in Locals, k \in DOMAIN p : l[s] # p[k]
    <3>1. \A s \in Locals : l[s] # h
      BY <2>1 DEF Balanced, OwnersHold
    <3> QED BY <1>5, <3>1 DEF Balanced, OwnedOnce
  <2> QED
    BY <1>3, <2>2, <2>3, <2>4 DEF Balanced, OwnedOnce
<1>8. OwnersHold(u, l, p)
  BY <1>2, <1>3, <1>4, <1>5 DEF Balanced, OwnersHold
<1>9. \A g \in Existing(u) : Owned(u, l, p, g)
  BY <1>2, <1>3, <1>4, <1>5 DEF Balanced, Owned
<1>10. Balanced(u, l, p)
  BY <1>1, <1>2, <1>6, <1>7, <1>8, <1>9 DEF Balanced
<1>11. Bound(t, o) => Bound(u, p)
  BY <1>3, <1>5 DEF Bound
<1> QED
  BY <1>10, <1>11 DEF u, p, h

(* What the table owns is handed over.                                     *)
LEMMA HandOverAccounted ==
  ASSUME NEW t, NEW l, NEW o, Balanced(t, l, o), Bound(t, o), NEW v \in AllValues, t.owned[v]
  PROVE  /\ Balanced([t EXCEPT !.owned[v] = FALSE], l, Append(o, t.handles[v]))
         /\ Bound([t EXCEPT !.owned[v] = FALSE], Append(o, t.handles[v]))
<1> DEFINE u == [t EXCEPT !.owned[v] = FALSE]
           h == t.handles[v]
           p == Append(o, h)
<1>1. IsTable(t) /\ IsLocal(l) /\ IsGiven(o)
  BY DEF Balanced
<1>2. u = [memory |-> t.memory, handles |-> t.handles, owned |-> [t.owned EXCEPT ![v] = FALSE], misused |-> FALSE]
  <2> DEFINE owned == [t.owned EXCEPT ![v] = FALSE]
  <2>1. u = [t EXCEPT !.owned = owned]
    OBVIOUS
  <2>2. t = [memory |-> t.memory, handles |-> t.handles, owned |-> t.owned, misused |-> FALSE]
    BY <1>1 DEF IsTable
  <2> HIDE DEF u, owned
  <2>3. u = [[memory |-> t.memory, handles |-> t.handles, owned |-> t.owned, misused |-> FALSE] EXCEPT !.owned = owned]
    BY <2>1, <2>2, Zenon
  <2>4. u = [memory |-> t.memory, handles |-> t.handles, owned |-> owned, misused |-> FALSE]
    BY <2>3
  <2> QED BY <2>4 DEF owned
<1> HIDE DEF u
<1>3. /\ u.handles = t.handles /\ Existing(u) = Existing(t)
      /\ u.owned[v] = FALSE /\ \A w \in AllValues \ {v} : u.owned[w] = t.owned[w]
  BY <1>1, <1>2 DEF Existing, IsTable
<1>4. IsTable(u)
  BY <1>1, <1>2, <1>3 DEF IsTable
<1>5. /\ DOMAIN p = DOMAIN o \cup {Len(o) + 1} /\ Len(o) + 1 \notin DOMAIN o
      /\ \A k \in DOMAIN o : p[k] = o[k]
      /\ p[Len(o) + 1] = h
      /\ Range(p) = Range(o) \cup {h}
  BY <1>1, AppendIs DEF IsGiven
<1>6. h \in Existing(t) \ HeldByOthers
  BY DEF Balanced, OwnersHold
<1>7. IsGiven(p)
  BY <1>1, <1>6 DEF IsGiven, IsTable
<1> HIDE DEF p
<1>8. OwnedOnce(u, l, p)
  <2>1. \A j, k \in DOMAIN p : p[j] = p[k] => j = k
    BY <1>5 DEF Balanced, OwnedOnce
  <2>2. \A w \in AllValues, k \in DOMAIN p : u.owned[w] => u.handles[w] # p[k]
    BY <1>3, <1>5 DEF Balanced, OwnedOnce
  <2>3. \A s \in Locals, k \in DOMAIN p : l[s] # p[k]
    BY <1>5 DEF Balanced, OwnedOnce
  <2> QED
    BY <1>3, <2>1, <2>2, <2>3 DEF Balanced, OwnedOnce
<1>9. OwnersHold(u, l, p)
  BY <1>3, <1>5, <1>6 DEF Balanced, OwnersHold
<1>10. \A g \in Existing(u) : Owned(u, l, p, g)
  <2> SUFFICES ASSUME NEW g \in Existing(u) PROVE Owned(u, l, p, g)
    OBVIOUS
  <2>1. Owned(t, l, o, g)
    BY <1>3 DEF Balanced
  <2>2. CASE g = h
    BY <1>5, <2>2 DEF Owned
  <2>3. CASE g # h
    BY <1>3, <1>5, <2>1, <2>3 DEF Owned
  <2> QED BY <2>2, <2>3
<1>11. Balanced(u, l, p)
  BY <1>1, <1>4, <1>7, <1>8, <1>9, <1>10 DEF Balanced
<1>12. Bound(u, p)
  <2> SUFFICES ASSUME NEW w \in AllValues, ~u.owned[w], u.handles[w] # NoHandle
               PROVE  u.handles[w] \in HeldByOthers \cup Range(p)
    BY DEF Bound
  <2>1. CASE w = v
    BY <1>3, <1>5, <2>1
  <2>2. CASE w # v
    BY <1>3, <1>5, <2>2 DEF Bound
  <2> QED BY <2>1, <2>2
<1> QED
  BY <1>11, <1>12 DEF u, p

(* The outputs handed over are destroyed.                                  *)
LEMMA RevokeAccounted ==
  ASSUME NEW t, NEW l, NEW o, Balanced(t, l, o)
  PROVE  Balanced(DestroyAll(t, Range(o)), l, <<>>)
<1> DEFINE gone == Range(o)
           u == DestroyAll(t, gone)
<1>1. IsTable(t) /\ IsLocal(l) /\ IsGiven(o)
  BY DEF Balanced
<1>2. gone \subseteq Existing(t) /\ gone \cap HeldByOthers = {}
  BY DEF Balanced, OwnersHold, Range
<1>3. u = [memory |-> Restrict(t.memory, Existing(t) \ gone), handles |-> t.handles, owned |-> t.owned, misused |-> FALSE]
  BY <1>1, <1>2, DestroyAllIs
<1>4. Existing(u) = Existing(t) \ gone /\ u.handles = t.handles /\ u.owned = t.owned /\ u.misused = FALSE
  <2> HIDE DEF u, gone
  <2> QED BY <1>3, ExistingAfter DEF Existing
<1>5. \A h : h \in gone <=> \E k \in DOMAIN o : o[k] = h
  BY DEF Range
<1> HIDE DEF u, gone
<1>6. IsTable(u)
  BY <1>1, <1>3, <1>4 DEF IsTable
<1>7. DOMAIN <<>> = {} /\ IsGiven(<<>>)
  BY DEF IsGiven
<1>8. OwnedOnce(u, l, <<>>)
  BY <1>4, <1>7 DEF Balanced, OwnedOnce
<1>9. OwnersHold(u, l, <<>>)
  <2>1. \A v \in AllValues : t.owned[v] => t.handles[v] \notin gone
    BY <1>5 DEF Balanced, OwnedOnce
  <2>2. \A s \in Locals : l[s] \notin gone
    BY <1>5 DEF Balanced, OwnedOnce
  <2> QED BY <1>2, <1>4, <1>7, <2>1, <2>2 DEF Balanced, OwnersHold
<1>10. \A h \in Existing(u) : Owned(u, l, <<>>, h)
  BY <1>4, <1>5 DEF Balanced, Owned
<1> QED
  BY <1>1, <1>6, <1>7, <1>8, <1>9, <1>10 DEF Balanced, u, gone

(* A handle that is bound is that of a buffer that exists.                 *)
LEMMA BoundExists ==
  ASSUME NEW t, NEW l, NEW o, Balanced(t, l, o), Bound(t, o), NEW v \in AllValues, t.handles[v] # NoHandle
  PROVE  t.handles[v] \in Existing(t)
<1>1. CASE t.owned[v]
  BY <1>1 DEF Balanced, OwnersHold
<1>2. CASE ~t.owned[v]
  BY <1>2 DEF Balanced, OwnersHold, Bound, Range
<1> QED BY <1>1, <1>2

LEMMA ReadingIs ==
  ASSUME NEW t, IsTable(t), NEW handles, handles \subseteq Existing(t) \cup {NoHandle}
  PROVE  Reading(t, handles) = t
<1>1. Reading(t, handles) = [t EXCEPT !.misused = t.misused \/ ~(handles \subseteq Existing(t) \cup {NoHandle})]
  BY DEF Reading
<1>2. (t.misused \/ ~(handles \subseteq Existing(t) \cup {NoHandle})) = FALSE
  BY DEF IsTable
<1> QED
  BY <1>1, <1>2 DEF IsTable
----------------------------------------------------------------------------
(* What the plans' types give.                                             *)

Instructions == [op : Operations, inputs : Seq(AllValues), outputs : Seq(AllValues), element : Nat]

LEMMA PlanTyped ==
  ASSUME plan \in SchedulePlans
  PROVE  /\ plan.instructions \in Seq(Instructions)
         /\ plan.output_ids \in Seq(AllValues)
         /\ AllValues \subseteq Nat \ {0}
         /\ plan.params \in Nat /\ ParameterIds \subseteq BackendHandles
         /\ ParameterIds \subseteq AllValues
         /\ ProgramNodes = 1 .. Len(plan.instructions)
<1>1. WellTyped(plan)
  BY ScheduleAssumption
<1>2. /\ plan.params \in Nat
      /\ plan.instructions \in Seq([op : Operations, inputs : Seq(AllValues), outputs : Seq(AllValues), element : Nat])
      /\ AllValues \subseteq Nat \ {0} /\ 1 .. plan.params \subseteq BackendHandles
      /\ plan.output_ids \in Seq(AllValues)
  BY <1>1 DEF WellTyped, AllValues
<1>3. ParameterIds \subseteq AllValues
  BY DEF ParameterIds, AllValues, ValuesOfPlan
<1>4. DOMAIN plan.instructions = 1 .. Len(plan.instructions)
  BY <1>2
<1> QED
  BY <1>2, <1>3, <1>4 DEF Instructions, ParameterIds, ProgramNodes

LEMMA InstructionTyped ==
  ASSUME plan \in SchedulePlans, NEW i \in ProgramNodes
  PROVE  LET instruction == plan.instructions[i]
             op == instruction.op
             in == instruction.inputs
             out == instruction.outputs
         IN /\ op \in Operations /\ in \in Seq(AllValues) /\ out \in Seq(AllValues) /\ instruction.element \in Nat
            /\ Len(out) = IF op = "barrier" THEN Len(in) ELSE IF op \in TwoOutputs THEN 2 ELSE 1
            /\ op \in OneInput => Len(in) = 1
            /\ op \in TwoInputs => Len(in) = 2
            /\ op = "constant" => out[1] \in BackendHandles
            /\ op = "get" =>
                 LET producers == {j \in ProgramNodes : in[1] \in Range(plan.instructions[j].outputs)}
                 IN producers # {} /\ \A j \in producers : instruction.element \in DOMAIN plan.instructions[j].inputs
<1>1. WellTyped(plan)
  BY ScheduleAssumption
<1>2. plan.instructions[i] \in Instructions
  BY PlanTyped
<1>3. /\ plan.instructions[i].op \in Operations
      /\ plan.instructions[i].inputs \in Seq(AllValues)
      /\ plan.instructions[i].outputs \in Seq(AllValues)
      /\ plan.instructions[i].element \in Nat
  BY <1>2 DEF Instructions
<1>4. LET instruction == plan.instructions[i]
          op == instruction.op
          in == instruction.inputs
          out == instruction.outputs
      IN /\ Len(out) = IF op = "barrier" THEN Len(in) ELSE IF op \in TwoOutputs THEN 2 ELSE 1
         /\ op \in OneInput => Len(in) = 1
         /\ op \in TwoInputs => Len(in) = 2
         /\ op = "constant" => out[1] \in BackendHandles
         /\ op = "get" =>
              LET producers == {j \in ProgramNodes : in[1] \in Range(plan.instructions[j].outputs)}
              IN producers # {} /\ \A j \in producers : instruction.element \in DOMAIN plan.instructions[j].inputs
  BY <1>1 DEF WellTyped, ProgramNodes
<1> QED
  BY <1>3, <1>4

(* The element of a tuple is a value of the plan.                          *)
LEMMA ElementTyped ==
  ASSUME plan \in SchedulePlans, NEW i \in ProgramNodes, plan.instructions[i].op = "get"
  PROVE  TupleElement(plan.instructions[i]) \in AllValues
<1> DEFINE instruction == plan.instructions[i]
           v == instruction.inputs[1]
           producers == {j \in ProgramNodes : v \in Range(plan.instructions[j].outputs)}
           j == TupleProducer(v)
<1>1. producers # {} /\ \A k \in producers : instruction.element \in DOMAIN plan.instructions[k].inputs
  BY InstructionTyped
<1>2. j \in producers
  BY <1>1 DEF TupleProducer, NodeOutputs
<1>3. plan.instructions[j].inputs \in Seq(AllValues)
  BY <1>2, InstructionTyped
<1>4. instruction.element \in DOMAIN plan.instructions[j].inputs
  BY <1>1, <1>2
<1>5. TupleElement(instruction) = plan.instructions[j].inputs[instruction.element]
  BY DEF TupleElement
<1> HIDE DEF j, instruction
<1>6. plan.instructions[j].inputs[instruction.element] \in AllValues
  BY <1>3, <1>4
<1> QED BY <1>5, <1>6 DEF instruction

LEMMA NodeTyped ==
  ASSUME plan \in SchedulePlans, NEW i \in ProgramNodes
  PROVE  /\ programNodeInputs(i) \in Seq(AllValues)
         /\ Range(programNodeInputs(i)) \subseteq AllValues
         /\ NodeOutputs(i) \subseteq AllValues
<1>1. programNodeInputs(i) \in Seq(AllValues)
  <2>1. CASE plan.instructions[i].op = "get"
    <3>1. plan.instructions[i].inputs[1] \in AllValues
      <4>1. plan.instructions[i].inputs \in Seq(AllValues) /\ Len(plan.instructions[i].inputs) = 1
        BY <2>1, InstructionTyped DEF OneInput
      <4> QED BY <4>1
    <3>2. TupleElement(plan.instructions[i]) \in AllValues
      BY <2>1, ElementTyped
    <3> QED BY <2>1, <3>1, <3>2 DEF programNodeInputs
  <2>2. CASE plan.instructions[i].op # "get"
    BY <2>2, InstructionTyped DEF programNodeInputs
  <2> QED BY <2>1, <2>2
<1>2. plan.instructions[i].outputs \in Seq(AllValues)
  BY InstructionTyped
<1> QED
  BY <1>1, <1>2 DEF Range, NodeOutputs

(* A constant is the number of a buffer.                                   *)
LEMMA ConstantTyped ==
  ASSUME plan \in SchedulePlans, NEW i \in ProgramNodes, plan.instructions[i].op = "constant"
  PROVE  LET v == plan.instructions[i].outputs[1] IN
         /\ NodeOutputs(i) = {v} /\ v \in BackendHandles /\ v \in AllValues /\ v \in HeldByOthers
<1> DEFINE out == plan.instructions[i].outputs
<1>1. /\ out \in Seq(AllValues) /\ out[1] \in BackendHandles
      /\ Len(out) = IF plan.instructions[i].op = "barrier" THEN Len(plan.instructions[i].inputs)
                    ELSE IF plan.instructions[i].op \in TwoOutputs THEN 2 ELSE 1
  BY InstructionTyped
<1>2. Len(out) = 1
  BY <1>1 DEF TwoOutputs
<1>3. DOMAIN out = {1} /\ out[1] \in AllValues
  BY <1>1, <1>2
<1>4. NodeOutputs(i) = {out[1]}
  BY <1>3 DEF NodeOutputs, Range
<1>5. out[1] \in HeldByOthers
  BY <1>4 DEF HeldByOthers, ResidentConstants
<1> QED BY <1>1, <1>3, <1>4, <1>5

LEMMA OthersTyped ==
  ASSUME plan \in SchedulePlans
  PROVE  HeldByOthers \subseteq BackendHandles /\ HeldByOthers \subseteq AllValues
<1>1. ResidentConstants \subseteq BackendHandles \cap AllValues
  BY ConstantTyped DEF ResidentConstants
<1> QED BY <1>1, PlanTyped DEF HeldByOthers
----------------------------------------------------------------------------
(* The locals that each step of an operation finds: made before it and not   *)
(* disposed of.  A call that fails undoes exactly these.                   *)

Follows(act, before, after) ==
  \/ /\ act.do = "call"
     /\ act.made \in Seq(Locals \ before) /\ IsInjective(act.made)
     /\ \A k \in DOMAIN act.from : act.from[k] \in before \cup AllValues
     /\ act.undo \subseteq Locals \cup AllValues /\ act.undo \cap Locals = before
     /\ after = before \cup Range(act.made)
  \/ act.do = "drop" /\ act.slot \in before /\ after = before \ {act.slot}
  \/ act.do = "keep" /\ act.slot \in AllValues /\ act.from \in before /\ after = before \ {act.from}
  \/ act.do = "borrow" /\ act.slot \in HeldByOthers \cap AllValues /\ after = before

Disciplined(steps, H) ==
  /\ Len(steps) \in Nat /\ DOMAIN steps = 1 .. Len(steps)
  /\ H \in [1 .. Len(steps) + 1 -> SUBSET Locals]
  /\ H[1] = {} /\ H[Len(steps) + 1] = {}
  /\ \A k \in 1 .. Len(steps) : Follows(steps[k], H[k], H[k + 1])

HeldThrough(i) == CHOOSE H : Disciplined(OperationOf(i), H)

LEMMA CallFollows ==
  ASSUME NEW before \in SUBSET Locals, NEW l \in Locals \ before, NEW op,
         NEW from, \A k \in DOMAIN from : from[k] \in before \cup AllValues
  PROVE  Follows(Call(<<l>>, op, from, before), before, before \cup {l})
<1>1. <<l>> \in Seq(Locals \ before) /\ DOMAIN <<l>> = {1} /\ <<l>>[1] = l
  OBVIOUS
<1>2. IsInjective(<<l>>) /\ Range(<<l>>) = {l}
  BY <1>1 DEF IsInjective, Range
<1> QED
  BY <1>1, <1>2 DEF Follows, Call

LEMMA LocalsAre ==
  ASSUME plan \in SchedulePlans
  PROVE  /\ -1 \in Locals /\ -2 \in Locals /\ -3 \in Locals /\ -4 \in Locals /\ -5 \in Locals /\ -6 \in Locals
         /\ Locals \cap AllValues = {} /\ NoHandle \notin Locals
<1>1. AllValues \subseteq Nat \ {0}
  BY PlanTyped
<1> QED BY <1>1 DEF Locals, NoHandle

(* One call, and what it made is kept.                                     *)
LEMMA OneCallDisciplined ==
  ASSUME plan \in SchedulePlans, NEW op, NEW from \in Seq(AllValues), NEW v \in AllValues
  PROVE  \E H : Disciplined(<<Call(<<-1>>, op, from, {}), Keep(v, -1)>>, H)
<1> DEFINE steps == <<Call(<<-1>>, op, from, {}), Keep(v, -1)>>
           H == <<{}, {-1}, {}>>
<1>1. Follows(steps[1], H[1], H[2])
  BY LocalsAre, CallFollows
<1>2. Follows(steps[2], H[2], H[3])
  BY LocalsAre DEF Drop, Keep, Follows
<1>3. Len(steps) = 2 /\ DOMAIN steps = 1 .. 2 /\ H \in [1 .. 3 -> SUBSET Locals] /\ H[1] = {} /\ H[3] = {}
  BY LocalsAre
<1> HIDE DEF steps, H
<1>4. \A k \in 1 .. 2 : Follows(steps[k], H[k], H[k + 1])
  <2> SUFFICES ASSUME NEW k \in 1 .. 2 PROVE Follows(steps[k], H[k], H[k + 1])
    OBVIOUS
  <2>1. k = 1 \/ k = 2
    OBVIOUS
  <2> QED BY <2>1, <1>1, <1>2
<1>5. Disciplined(steps, H)
  BY <1>3, <1>4 DEF Disciplined
<1> QED BY <1>5 DEF steps

(* A sort, and one with values.                                            *)
LEMMA SortDownDisciplined ==
  ASSUME plan \in SchedulePlans, NEW x \in AllValues, NEW v \in AllValues
  PROVE  \E H : Disciplined(SortDown(x, v), H)
<1> DEFINE steps == SortDown(x, v)
           H == <<{}, {-1}, {-1, -2}, {-2}, {}>>
<1>1. Follows(steps[1], H[1], H[2])
  BY LocalsAre, CallFollows DEF SortDown
<1>2. Follows(steps[2], H[2], H[3])
  BY LocalsAre, CallFollows DEF SortDown
<1>3. Follows(steps[3], H[3], H[4])
  BY LocalsAre DEF SortDown, Drop, Keep, Follows
<1>4. Follows(steps[4], H[4], H[5])
  BY LocalsAre DEF SortDown, Drop, Keep, Follows
<1>5. Len(steps) = 4 /\ DOMAIN steps = 1 .. 4 /\ H \in [1 .. 5 -> SUBSET Locals] /\ H[1] = {} /\ H[5] = {}
  BY LocalsAre DEF SortDown
<1> HIDE DEF steps, H
<1>6. \A k \in 1 .. 4 : Follows(steps[k], H[k], H[k + 1])
  <2> SUFFICES ASSUME NEW k \in 1 .. 4 PROVE Follows(steps[k], H[k], H[k + 1])
    OBVIOUS
  <2>1. k = 1 \/ k = 2 \/ k = 3 \/ k = 4
    OBVIOUS
  <2> QED BY <2>1, <1>1, <1>2, <1>3, <1>4
<1>7. Disciplined(steps, H)
  BY <1>5, <1>6 DEF Disciplined
<1> QED BY <1>7 DEF steps

LEMMA SortPairDisciplined ==
  ASSUME plan \in SchedulePlans, NEW x \in AllValues, NEW y \in AllValues, NEW out \in Seq(AllValues), Len(out) = 2
  PROVE  \E H : Disciplined(SortPair(x, y, out), H)
<1> DEFINE steps == SortPair(x, y, out)
           H == <<{}, {-1}, {-1, -2}, {-2}, {-2, -3}, {-2, -3, -4}, {-2, -4}, {-2, -4, -5}, {-4, -5}, {-4}, {}>>
<1>0. out[1] \in AllValues /\ out[2] \in AllValues
  OBVIOUS
<1>1. Follows(steps[1], H[1], H[2])
  BY LocalsAre, CallFollows DEF SortPair
<1>2. Follows(steps[2], H[2], H[3])
  BY LocalsAre, CallFollows DEF SortPair
<1>3. Follows(steps[3], H[3], H[4])
  BY LocalsAre DEF SortPair, Drop, Keep, Follows
<1>4. Follows(steps[4], H[4], H[5])
  BY LocalsAre, CallFollows DEF SortPair
<1>5. Follows(steps[5], H[5], H[6])
  BY LocalsAre, CallFollows DEF SortPair
<1>6. Follows(steps[6], H[6], H[7])
  BY LocalsAre DEF SortPair, Drop, Keep, Follows
<1>7. Follows(steps[7], H[7], H[8])
  BY LocalsAre, CallFollows DEF SortPair
<1>8. Follows(steps[8], H[8], H[9])
  BY <1>0, LocalsAre DEF SortPair, Drop, Keep, Follows
<1>9. Follows(steps[9], H[9], H[10])
  BY <1>0, LocalsAre DEF SortPair, Drop, Keep, Follows
<1>10. Follows(steps[10], H[10], H[11])
  BY LocalsAre DEF SortPair, Drop, Keep, Follows
<1>11. Len(steps) = 10 /\ DOMAIN steps = 1 .. 10 /\ H \in [1 .. 11 -> SUBSET Locals] /\ H[1] = {} /\ H[11] = {}
  BY LocalsAre DEF SortPair
<1> HIDE DEF steps, H
<1>12. \A k \in 1 .. 10 : Follows(steps[k], H[k], H[k + 1])
  <2> SUFFICES ASSUME NEW k \in 1 .. 10 PROVE Follows(steps[k], H[k], H[k + 1])
    OBVIOUS
  <2>1. k = 1 \/ k = 2 \/ k = 3 \/ k = 4 \/ k = 5 \/ k = 6 \/ k = 7 \/ k = 8 \/ k = 9 \/ k = 10
    OBVIOUS
  <2> QED BY <2>1, <1>1, <1>2, <1>3, <1>4, <1>5, <1>6, <1>7, <1>8, <1>9, <1>10
<1>13. Disciplined(steps, H)
  BY <1>11, <1>12 DEF Disciplined
<1> QED BY <1>13 DEF steps

(* A loop.                                                                 *)
LEMMA WhileDisciplined ==
  ASSUME plan \in SchedulePlans, NEW in \in Seq(AllValues), Len(in) = 2, NEW out \in Seq(AllValues), Len(out) = 2
  PROVE  \E H : Disciplined(WhileLoop(in, out), H)
<1> DEFINE steps == WhileLoop(in, out)
           H == <<{}, {-1}, {-1, -2}, {-1}, {-1, -3}, {-1}, {}>>
<1>1. Follows(steps[1], H[1], H[2])
  BY LocalsAre, CallFollows DEF WhileLoop
<1>2. Follows(steps[2], H[2], H[3])
  BY LocalsAre, CallFollows DEF WhileLoop
<1>3. Follows(steps[3], H[3], H[4])
  BY LocalsAre DEF WhileLoop, Drop, Keep, Follows
<1>4. Follows(steps[4], H[4], H[5])
  BY LocalsAre, CallFollows DEF WhileLoop
<1>5. Follows(steps[5], H[5], H[6])
  BY LocalsAre DEF WhileLoop, Drop, Keep, Follows
<1>6. Follows(steps[6], H[6], H[7])
  BY LocalsAre DEF WhileLoop, Drop, Keep, Follows
<1>7. Len(steps) = 6 /\ DOMAIN steps = 1 .. 6 /\ H \in [1 .. 7 -> SUBSET Locals] /\ H[1] = {} /\ H[7] = {}
  BY LocalsAre DEF WhileLoop
<1> HIDE DEF steps, H
<1>8. \A k \in 1 .. 6 : Follows(steps[k], H[k], H[k + 1])
  <2> SUFFICES ASSUME NEW k \in 1 .. 6 PROVE Follows(steps[k], H[k], H[k + 1])
    OBVIOUS
  <2>1. k = 1 \/ k = 2 \/ k = 3 \/ k = 4 \/ k = 5 \/ k = 6
    OBVIOUS
  <2> QED BY <2>1, <1>1, <1>2, <1>3, <1>4, <1>5, <1>6
<1>9. Disciplined(steps, H)
  BY <1>7, <1>8 DEF Disciplined
<1> QED BY <1>9 DEF steps

(* A reduction with its indices, or random bits: one call makes both.      *)
LEMMA PairDisciplined ==
  ASSUME plan \in SchedulePlans, NEW in \in Seq(AllValues), NEW out \in Seq(AllValues), Len(out) = 2
  PROVE  \E H : Disciplined(PairOf(in, out), H)
<1> DEFINE steps == PairOf(in, out)
           H == <<{}, {-1, -2}, {-2}, {}>>
<1>0. out[1] \in AllValues /\ out[2] \in AllValues
  OBVIOUS
<1>1. Follows(steps[1], H[1], H[2])
  <2>1. DOMAIN <<-1, -2>> = {1, 2} /\ <<-1, -2>>[1] = -1 /\ <<-1, -2>>[2] = -2
    OBVIOUS
  <2>2. IsInjective(<<-1, -2>>) /\ Range(<<-1, -2>>) = {-1, -2}
    BY <2>1 DEF IsInjective, Range
  <2>3. <<-1, -2>> \in Seq(Locals) /\ \A k \in DOMAIN in : in[k] \in AllValues
    BY LocalsAre
  <2>4. Follows(Call(<<-1, -2>>, "pair", in, {}), {}, {-1, -2})
    BY <2>2, <2>3 DEF Follows, Call
  <2> QED BY <2>4 DEF PairOf
<1>2. Follows(steps[2], H[2], H[3])
  BY <1>0, LocalsAre DEF PairOf, Keep, Follows
<1>3. Follows(steps[3], H[3], H[4])
  BY <1>0, LocalsAre DEF PairOf, Keep, Follows
<1>4. Len(steps) = 3 /\ DOMAIN steps = 1 .. 3 /\ H \in [1 .. 4 -> SUBSET Locals] /\ H[1] = {} /\ H[4] = {}
  BY LocalsAre DEF PairOf
<1> HIDE DEF steps, H
<1>5. \A k \in 1 .. 3 : Follows(steps[k], H[k], H[k + 1])
  <2> SUFFICES ASSUME NEW k \in 1 .. 3 PROVE Follows(steps[k], H[k], H[k + 1])
    OBVIOUS
  <2>1. k = 1 \/ k = 2 \/ k = 3
    OBVIOUS
  <2> QED BY <2>1, <1>1, <1>2, <1>3
<1>6. Disciplined(steps, H)
  BY <1>4, <1>5 DEF Disciplined
<1> QED BY <1>6 DEF steps

(* A barrier clones and keeps in turn, whatever its operands.              *)
LEMMA BarrierDisciplined ==
  ASSUME plan \in SchedulePlans, NEW in \in Seq(AllValues), NEW out \in Seq(AllValues), Len(out) = Len(in)
  PROVE  \E H : Disciplined(Barrier(in, out), H)
<1> DEFINE steps == Barrier(in, out)
           n == 2 * Len(in)
           H == [j \in 1 .. n + 1 |-> IF j % 2 = 1 THEN {} ELSE {-1}]
<1>0. n \in Nat /\ Len(in) \in Nat
  OBVIOUS
<1>1. /\ Len(steps) = n /\ DOMAIN steps = 1 .. n
      /\ \A j \in 1 .. n : steps[j] = LET k == (j + 1) \div 2 IN
           IF j % 2 = 1 THEN Call(<<-1>>, "clone", <<in[k]>>, {out[m] : m \in 1 .. k - 1}) ELSE Keep(out[k], -1)
  BY <1>0 DEF Barrier
<1>2. H \in [1 .. n + 1 -> SUBSET Locals] /\ H[1] = {} /\ H[n + 1] = {}
  <2>1. (n + 1) % 2 = 1 /\ 1 % 2 = 1 /\ 1 \in 1 .. n + 1 /\ n + 1 \in 1 .. n + 1
    BY <1>0
  <2> QED BY <2>1, LocalsAre
<1>3. ASSUME NEW j \in 1 .. n PROVE Follows(steps[j], H[j], H[j + 1])
  <2> DEFINE k == (j + 1) \div 2
             undo == {out[m] : m \in 1 .. k - 1}
  <2>1. k \in 1 .. Len(in)
    BY <1>0
  <2>2. in[k] \in AllValues /\ out[k] \in AllValues /\ undo \subseteq AllValues
    BY <2>1
  <2>3. CASE j % 2 = 1
    <3>1. (j + 1) % 2 # 1 /\ j + 1 \in 1 .. n + 1 /\ j \in 1 .. n + 1
      BY <1>0, <2>3
    <3>2. H[j] = {} /\ H[j + 1] = {-1}
      BY <2>3, <3>1
    <3>3. steps[j] = Call(<<-1>>, "clone", <<in[k]>>, undo)
      BY <1>1, <2>3
    <3> HIDE DEF k, undo, steps, H
    <3>4. undo \subseteq Locals \cup AllValues /\ undo \cap Locals = {}
      BY <2>2, LocalsAre
    <3>5. /\ <<-1>> \in Seq(Locals) /\ IsInjective(<<-1>>) /\ Range(<<-1>>) = {-1}
      <4>1. DOMAIN <<-1>> = {1} /\ <<-1>>[1] = -1
        OBVIOUS
      <4> QED BY <4>1, LocalsAre DEF IsInjective, Range
    <3>6. \A x \in DOMAIN <<in[k]>> : <<in[k]>>[x] \in AllValues
      BY <2>2
    <3>7. Follows(Call(<<-1>>, "clone", <<in[k]>>, undo), {}, {-1})
      BY <3>4, <3>5, <3>6 DEF Follows, Call
    <3> QED BY <3>2, <3>3, <3>7
  <2>4. CASE j % 2 # 1
    <3>1. (j + 1) % 2 = 1 /\ j + 1 \in 1 .. n + 1 /\ j \in 1 .. n + 1
      BY <1>0, <2>4
    <3>2. H[j] = {-1} /\ H[j + 1] = {}
      BY <2>4, <3>1
    <3>3. steps[j] = Keep(out[k], -1)
      BY <1>1, <2>4
    <3> HIDE DEF k, undo, steps, H
    <3>4. Follows(Keep(out[k], -1), {-1}, {})
      BY <2>2, LocalsAre DEF Follows, Keep
    <3> QED BY <3>2, <3>3, <3>4
  <2> QED BY <2>3, <2>4
<1> HIDE DEF steps, H
<1>4. Disciplined(steps, H)
  BY <1>0, <1>1, <1>2, <1>3 DEF Disciplined
<1> QED BY <1>4 DEF steps

(* A constant is borrowed; a tuple has nothing to do.                      *)
LEMMA BorrowDisciplined ==
  ASSUME NEW v \in HeldByOthers \cap AllValues
  PROVE  \E H : Disciplined(<<Borrow(v)>>, H)
<1> DEFINE steps == <<Borrow(v)>>
           H == <<{}, {}>>
<1>1. Len(steps) = 1 /\ DOMAIN steps = 1 .. 1 /\ steps[1] = Borrow(v) /\ H \in [1 .. 2 -> SUBSET Locals] /\ H[1] = {} /\ H[2] = {}
  OBVIOUS
<1>2. Follows(Borrow(v), {}, {})
  BY DEF Follows, Borrow
<1> HIDE DEF steps, H
<1>3. Disciplined(steps, H)
  BY <1>1, <1>2 DEF Disciplined
<1> QED BY <1>3 DEF steps

LEMMA NothingDisciplined == \E H : Disciplined(<<>>, H)
<1> DEFINE H == <<{}>>
<1>1. Len(<<>>) = 0 /\ DOMAIN <<>> = 1 .. 0 /\ H \in [1 .. 1 -> SUBSET Locals] /\ H[1] = {}
  OBVIOUS
<1> HIDE DEF H
<1>2. Disciplined(<<>>, H)
  BY <1>1 DEF Disciplined
<1> QED BY <1>2

(* Every operation but "top_k", which destroys a buffer twice.             *)
LEMMA OperationDisciplined ==
  ASSUME plan \in SchedulePlans, NEW i \in ProgramNodes, plan.instructions[i].op # "top_k"
  PROVE  Disciplined(OperationOf(i), HeldThrough(i))
<1> DEFINE op == plan.instructions[i].op
           in == plan.instructions[i].inputs
           out == plan.instructions[i].outputs
<1>1. /\ op \in Operations /\ in \in Seq(AllValues) /\ out \in Seq(AllValues)
      /\ Len(out) = IF op = "barrier" THEN Len(in) ELSE IF op \in TwoOutputs THEN 2 ELSE 1
      /\ op \in OneInput => Len(in) = 1
      /\ op \in TwoInputs => Len(in) = 2
  BY InstructionTyped
<1>2. \E H : Disciplined(OperationOf(i), H)
  <2>1. CASE op = "constant"
    <3>1. OperationOf(i) = <<Borrow(out[1])>>
      BY <2>1 DEF OperationOf
    <3>2. out[1] \in HeldByOthers \cap AllValues
      BY <2>1, ConstantTyped
    <3> QED BY <3>1, <3>2, BorrowDisciplined
  <2>2. CASE op = "tuple"
    BY <2>2, NothingDisciplined DEF OperationOf
  <2>3. CASE op \in {"copy", "map", "op"}
    <3>1. out[1] \in AllValues
      BY <1>1, <2>3 DEF TwoOutputs
    <3>2. \/ OperationOf(i) = <<Call(<<-1>>, "clone", in, {}), Keep(out[1], -1)>>
          \/ OperationOf(i) = <<Call(<<-1>>, "apply", in, {}), Keep(out[1], -1)>>
      BY <2>3 DEF OperationOf
    <3> QED BY <1>1, <3>1, <3>2, OneCallDisciplined
  <2>4. CASE op = "get"
    <3>1. out[1] \in AllValues
      BY <1>1, <2>4 DEF TwoOutputs
    <3>2. OperationOf(i) = <<Call(<<-1>>, "clone", <<TupleElement(plan.instructions[i])>>, {}), Keep(out[1], -1)>>
      BY <2>4 DEF OperationOf
    <3>3. <<TupleElement(plan.instructions[i])>> \in Seq(AllValues)
      BY <2>4, ElementTyped
    <3> QED BY <3>1, <3>2, <3>3, OneCallDisciplined
  <2>5. CASE op = "sort"
    <3>1. out[1] \in AllValues /\ in[1] \in AllValues
      BY <1>1, <2>5 DEF TwoOutputs, OneInput
    <3>2. OperationOf(i) = SortDown(in[1], out[1])
      BY <2>5 DEF OperationOf
    <3> QED BY <3>1, <3>2, SortDownDisciplined
  <2>6. CASE op = "sort_pair"
    <3>1. Len(out) = 2 /\ in[1] \in AllValues /\ in[2] \in AllValues
      BY <1>1, <2>6 DEF TwoOutputs, TwoInputs
    <3>2. OperationOf(i) = SortPair(in[1], in[2], out)
      BY <2>6 DEF OperationOf
    <3> QED BY <1>1, <3>1, <3>2, SortPairDisciplined
  <2>7. CASE op = "pair"
    <3>1. Len(out) = 2
      BY <1>1, <2>7 DEF TwoOutputs
    <3>2. OperationOf(i) = PairOf(in, out)
      BY <2>7 DEF OperationOf
    <3> QED BY <1>1, <3>1, <3>2, PairDisciplined
  <2>8. CASE op = "barrier"
    <3>1. Len(out) = Len(in)
      BY <1>1, <2>8
    <3>2. OperationOf(i) = Barrier(in, out)
      BY <2>8 DEF OperationOf
    <3> QED BY <1>1, <3>1, <3>2, BarrierDisciplined
  <2>9. CASE op = "while"
    <3>1. Len(out) = 2 /\ Len(in) = 2
      BY <1>1, <2>9 DEF TwoOutputs, TwoInputs
    <3>2. OperationOf(i) = WhileLoop(in, out)
      BY <2>9 DEF OperationOf
    <3> QED BY <1>1, <3>1, <3>2, WhileDisciplined
  <2> QED
    BY <1>1, <2>1, <2>2, <2>3, <2>4, <2>5, <2>6, <2>7, <2>8, <2>9 DEF Operations
<1> QED
  BY <1>2 DEF HeldThrough
----------------------------------------------------------------------------
(* The inductive invariant: besides what is owned, the locals held are those *)
(* of the step that the operation is at, and the walk is where its outcome   *)
(* says.                                                                   *)

HeldAt(pos, op) ==
  /\ op.at \in 1 .. Len(OperationOf(pos)) + 1
  /\ \A s \in Locals : op.local[s] # NoHandle <=> s \in HeldThrough(pos)[op.at]

StateOK(pos, op, t, o, oc) ==
  /\ pos \in 1 .. Len(plan.instructions) + 1
  /\ op = [at |-> op.at, local |-> op.local] /\ op.at \in Nat \ {0}
  /\ oc \in {"new", "running", "evaluated", "returned", "failed"}
  /\ Balanced(t, op.local, o) /\ Bound(t, o)
  /\ oc \in {"new", "running", "failed"} => o = <<>>
  /\ Len(o) <= Len(plan.output_ids)
  /\ oc \in {"new", "returned", "failed"} => \A v \in AllValues : ~t.owned[v]
  /\ IF oc = "running" /\ pos \in ProgramNodes THEN HeldAt(pos, op) ELSE op = NoOperation

WalkInv == plan \in SchedulePlans /\ StateOK(position, operation, table, outputs, outcome)

(* No plan has a "top_k", whose failure destroys a buffer twice.           *)
NoTopK == \A p \in SchedulePlans : \A i \in DOMAIN p.instructions : p.instructions[i].op # "top_k"

LEMMA SamePlan ==
  ASSUME plan' = plan
  PROVE  WalkInv' <=> plan \in SchedulePlans /\ StateOK(position', operation', table', outputs', outcome')
<1>1. AllValues' = AllValues /\ HeldByOthers' = HeldByOthers /\ ProgramNodes' = ProgramNodes
  BY DEF AllValues, HeldByOthers, ProgramNodes, ParameterIds, ResidentConstants, NodeOutputs
<1>2. (OperationOf(position))' = OperationOf(position')
  BY DEF OperationOf, TupleElement, TupleProducer, NodeOutputs, ProgramNodes
<1>3. (HeldThrough(position))' = HeldThrough(position')
  BY <1>1, <1>2 DEF HeldThrough, Disciplined, Follows
<1>4. (HeldAt(position, operation))' <=> HeldAt(position', operation')
  BY <1>2, <1>3 DEF HeldAt
<1>5. (Balanced(table, operation.local, outputs))' <=> Balanced(table', operation'.local, outputs')
  BY <1>1 DEF Balanced, IsTable, IsLocal, IsGiven, OwnedOnce, OwnersHold, Owned, Existing
<1>6. (Bound(table, outputs))' <=> Bound(table', outputs')
  BY <1>1 DEF Bound
<1> QED
  BY <1>1, <1>4, <1>5, <1>6 DEF WalkInv, StateOK

(* An operation begins holding nothing.                                    *)
LEMMA BeginsEmpty ==
  ASSUME plan \in SchedulePlans, NoTopK, NEW pos \in ProgramNodes
  PROVE  HeldAt(pos, NoOperation)
<1>1. Disciplined(OperationOf(pos), HeldThrough(pos))
  BY OperationDisciplined DEF NoTopK, ProgramNodes
<1>2. NoOperation.at = 1 /\ \A s \in Locals : NoOperation.local[s] = NoHandle
  BY DEF NoOperation
<1> QED
  BY <1>1, <1>2 DEF HeldAt, Disciplined

LEMMA NoOperationIs ==
  /\ NoOperation = [at |-> NoOperation.at, local |-> NoOperation.local]
  /\ NoOperation.at \in Nat \ {0} /\ NoOperation.local = NoLocals
BY DEF NoOperation, NoLocals

LEMMA NoOutputs == Len(<<>>) = 0
OBVIOUS

(* A walk that fails.                                                      *)
LEMMA WalkFailsInv ==
  ASSUME WalkInv, NEW t, Balanced(t, NoLocals, <<>>), WalkFails(t)
  PROVE  WalkInv'
<1>1. /\ plan' = plan /\ position' = position /\ outcome' = "failed" /\ table' = Deinit(t)
      /\ operation' = NoOperation /\ outputs' = <<>>
  BY DEF WalkFails
<1>2. /\ Balanced(Deinit(t), NoLocals, <<>>) /\ Bound(Deinit(t), <<>>)
      /\ \A v \in AllValues : Deinit(t).owned[v] = FALSE
  BY DeinitAccounted
<1>3. Len(plan.output_ids) \in Nat
  BY PlanTyped DEF WalkInv
<1>4. StateOK(position', operation', table', outputs', outcome')
  BY <1>1, <1>2, <1>3, NoOperationIs, NoOutputs DEF WalkInv, StateOK
<1> QED
  BY <1>1, <1>4, SamePlan DEF WalkInv

LEMMA StepFollows ==
  ASSUME WalkInv, NoTopK, NEW kind, AtStep(kind)
  PROVE  LET H == HeldThrough(position) IN
         /\ Step.do = kind /\ outputs = <<>>
         /\ operation.at \in Nat /\ operation.at + 1 \in 1 .. Len(OperationOf(position)) + 1
         /\ H[operation.at] \subseteq Locals
         /\ \A s \in Locals : operation.local[s] # NoHandle <=> s \in H[operation.at]
         /\ Follows(Step, H[operation.at], H[operation.at + 1])
<1>1. outcome = "running" /\ position \in ProgramNodes /\ operation.at \in DOMAIN OperationOf(position) /\ Step.do = kind
  BY DEF AtStep
<1>2. Disciplined(OperationOf(position), HeldThrough(position))
  BY <1>1, OperationDisciplined DEF NoTopK, WalkInv, ProgramNodes
<1>3. HeldAt(position, operation) /\ outputs = <<>>
  BY <1>1 DEF WalkInv, StateOK
<1>4. operation.at \in 1 .. Len(OperationOf(position)) /\ Len(OperationOf(position)) \in Nat
  BY <1>1, <1>2 DEF Disciplined
<1>5. HeldThrough(position)[operation.at] \subseteq Locals
  BY <1>2, <1>4 DEF Disciplined
<1> QED
  BY <1>1, <1>2, <1>3, <1>4, <1>5 DEF Disciplined, HeldAt, Step

LEMMA ProceedInv ==
  ASSUME WalkInv, NoTopK, NEW kind, AtStep(kind), NEW t, NEW l, Proceed(t, l),
         Balanced(t, l, outputs), Bound(t, outputs),
         \A s \in Locals : l[s] # NoHandle <=> s \in HeldThrough(position)[operation.at + 1]
  PROVE  WalkInv'
<1>1. /\ plan' = plan /\ position' = position /\ outcome' = outcome /\ outputs' = outputs /\ table' = t
      /\ operation' = [at |-> operation.at + 1, local |-> l]
  BY DEF Proceed
<1>2. outcome = "running" /\ position \in ProgramNodes
  BY DEF AtStep
<1>3. operation.at \in Nat /\ operation.at + 1 \in 1 .. Len(OperationOf(position)) + 1
  BY StepFollows
<1>4. operation'.at = operation.at + 1 /\ operation'.local = l
  BY <1>1
<1>5. HeldAt(position, operation')
  BY <1>3, <1>4 DEF HeldAt
<1>6. operation' = [at |-> operation'.at, local |-> operation'.local] /\ operation'.at \in Nat \ {0}
  BY <1>1, <1>3, <1>4
<1>7. StateOK(position', operation', table', outputs', outcome')
  BY <1>1, <1>2, <1>4, <1>5, <1>6 DEF WalkInv, StateOK
<1> QED
  BY <1>1, <1>7, SamePlan DEF WalkInv
----------------------------------------------------------------------------
(* The steps of an operation.                                              *)

LEMMA OperandExists ==
  ASSUME WalkInv, NEW x, x \in AllValues \/ (x \in Locals /\ operation.local[x] # NoHandle)
  PROVE  HandleOf(x) \in Existing(table) \cup {NoHandle}
<1>1. CASE x \in Locals
  BY <1>1, LocalsAre DEF HandleOf, WalkInv, StateOK, Balanced, OwnersHold
<1>2. CASE x \notin Locals
  <2>1. HandleOf(x) = table.handles[x] /\ x \in AllValues
    BY <1>2 DEF HandleOf
  <2> QED BY <2>1, BoundExists DEF WalkInv, StateOK
<1> QED BY <1>1, <1>2

LEMMA CallBackendInv == ASSUME WalkInv, NoTopK, CallBackend PROVE WalkInv'
<1> DEFINE before == HeldThrough(position)[operation.at]
           after == HeldThrough(position)[operation.at + 1]
           handles == [k \in DOMAIN Step.from |-> HandleOf(Step.from[k])]
           t == Reading(table, Range(handles))
           slots == DOMAIN Step.made
           n == Len(Step.made)
           new == CHOOSE f \in Fresh(n) : TRUE
           contents == [k \in DOMAIN handles |-> t.memory[handles[k]]]
           results == [k \in slots |-> Result(Step.op, k, contents)]
           local == [l \in Locals |-> IF l \in Range(Step.made)
                                       THEN new[CHOOSE k \in slots : Step.made[k] = l]
                                       ELSE operation.local[l]]
<1>1. /\ AtStep("call")
      /\ \/ WalkFails(Undone(t, Step.undo))
         \/ Fresh(n) # {} /\ Proceed(WithBuffers(t, new, results), local)
  BY DEF CallBackend
<1>2. /\ Step.do = "call" /\ outputs = <<>> /\ before \subseteq Locals
      /\ \A s \in Locals : operation.local[s] # NoHandle <=> s \in before
      /\ Follows(Step, before, after)
  BY <1>1, StepFollows
<1>3. /\ Step.made \in Seq(Locals \ before) /\ IsInjective(Step.made)
      /\ \A k \in DOMAIN Step.from : Step.from[k] \in before \cup AllValues
      /\ Step.undo \subseteq Locals \cup AllValues /\ Step.undo \cap Locals = before
      /\ after = before \cup Range(Step.made)
  BY <1>2 DEF Follows
<1>4. Balanced(table, operation.local, outputs) /\ Bound(table, outputs) /\ IsTable(table) /\ IsLocal(operation.local)
  BY DEF WalkInv, StateOK, Balanced
<1>5. t = table
  <2>1. \A k \in DOMAIN Step.from : HandleOf(Step.from[k]) \in Existing(table) \cup {NoHandle}
    BY <1>2, <1>3, OperandExists
  <2>2. Range(handles) \subseteq Existing(table) \cup {NoHandle}
    BY <2>1 DEF Range
  <2> HIDE DEF handles
  <2> QED BY <1>4, <2>2, ReadingIs
<1>6. CASE WalkFails(Undone(t, Step.undo))
  <2> DEFINE d == DestroyAll(table, {operation.local[s] : s \in before})
  <2>1. Balanced(d, Without(operation.local, before), <<>>)
    BY <1>2, <1>4, DropAccounted
  <2>2. Without(operation.local, before) = NoLocals
    BY <1>2 DEF Without, NoLocals
  <2>3. Step.undo \ Locals \in SUBSET AllValues
    BY <1>3
  <2>4. Undone(t, Step.undo) = ReleaseAll(d, Step.undo \ Locals)
    BY <1>3, <1>5 DEF Undone
  <2> HIDE DEF d
  <2>5. Balanced(Undone(t, Step.undo), NoLocals, <<>>)
    BY <2>1, <2>2, <2>3, <2>4, ReleaseAccounted
  <2> HIDE DEF t
  <2> QED BY <1>6, <2>5, WalkFailsInv
<1>7. CASE Fresh(n) # {} /\ Proceed(WithBuffers(t, new, results), local)
  <2>1. n \in Nat /\ slots = 1 .. n /\ Step.made \in [1 .. n -> Locals]
    BY <1>2, <1>3
  <2>2. new \in NewBuffers(table, n)
    BY <1>7 DEF Fresh, NewBuffers
  <2>3. \A k \in 1 .. n : operation.local[Step.made[k]] = NoHandle
    BY <1>2, <1>3, <2>1
  <2>4. local = Gained(operation.local, Step.made, new)
    BY DEF Gained
  <2> HIDE DEF new, results, local, t, n
  <2>5. /\ Balanced(WithBuffers(table, new, results), local, outputs)
        /\ Bound(WithBuffers(table, new, results), outputs)
        /\ \A s \in Locals : local[s] # NoHandle <=> operation.local[s] # NoHandle \/ s \in Range(Step.made)
    <3> DEFINE made == Step.made
               l == operation.local
    <3>1. /\ Balanced(table, l, outputs) /\ Bound(table, outputs) /\ n \in Nat /\ new \in NewBuffers(table, n)
          /\ made \in [1 .. n -> Locals] /\ IsInjective(made) /\ \A k \in 1 .. n : l[made[k]] = NoHandle
      BY <1>3, <1>4, <2>1, <2>2, <2>3
    <3> HIDE DEF made, l
    <3>2. /\ Balanced(WithBuffers(table, new, results), Gained(l, made, new), outputs)
          /\ Bound(table, outputs) => Bound(WithBuffers(table, new, results), outputs)
          /\ \A s \in Locals : Gained(l, made, new)[s] # NoHandle <=> l[s] # NoHandle \/ s \in Range(made)
      BY <3>1, GainAccounted
    <3> QED BY <2>4, <3>1, <3>2 DEF made, l
  <2>6. \A s \in Locals : local[s] # NoHandle <=> s \in after
    BY <1>2, <1>3, <2>5
  <2> QED BY <1>1, <1>5, <1>7, <2>5, <2>6, ProceedInv
<1> QED BY <1>1, <1>6, <1>7

LEMMA DropLocalInv == ASSUME WalkInv, NoTopK, DropLocal PROVE WalkInv'
<1> DEFINE before == HeldThrough(position)[operation.at]
           after == HeldThrough(position)[operation.at + 1]
           s == Step.slot
           l == operation.local
           t == DestroyAll(table, {l[s]})
           m == [l EXCEPT ![s] = NoHandle]
<1>1. AtStep("drop") /\ Proceed(t, m)
  BY DEF DropLocal
<1>2. /\ Step.do = "drop" /\ before \subseteq Locals
      /\ \A r \in Locals : l[r] # NoHandle <=> r \in before
      /\ Follows(Step, before, after)
  BY <1>1, StepFollows
<1>3. s \in before /\ after = before \ {s}
  BY <1>2 DEF Follows
<1>4. Balanced(table, l, outputs) /\ Bound(table, outputs) /\ IsLocal(l)
  BY DEF WalkInv, StateOK, Balanced
<1>5. {l[r] : r \in {s}} = {l[s]} /\ m = Without(l, {s})
  BY <1>2, <1>3, <1>4 DEF Without, IsLocal
<1>6. s \in Locals /\ l[s] # NoHandle
  BY <1>2, <1>3
<1> HIDE DEF s, l, m
<1>7. /\ Balanced(DestroyAll(table, {l[r] : r \in {s}}), Without(l, {s}), outputs)
      /\ Bound(DestroyAll(table, {l[r] : r \in {s}}), outputs)
  BY <1>4, <1>6, DropAccounted
<1>8. \A r \in Locals : m[r] # NoHandle <=> r \in after
  BY <1>2, <1>3, <1>5 DEF Without
<1> QED BY <1>1, <1>5, <1>7, <1>8, ProceedInv

LEMMA KeepResultInv == ASSUME WalkInv, NoTopK, KeepResult PROVE WalkInv'
<1> DEFINE before == HeldThrough(position)[operation.at]
           after == HeldThrough(position)[operation.at + 1]
           s == Step.from
           v == Step.slot
           l == operation.local
           t == Store(table, v, l[s], TRUE)
           m == [l EXCEPT ![s] = NoHandle]
<1>1. AtStep("keep") /\ Proceed(t, m)
  BY DEF KeepResult
<1>2. /\ Step.do = "keep" /\ before \subseteq Locals
      /\ \A r \in Locals : l[r] # NoHandle <=> r \in before
      /\ Follows(Step, before, after)
  BY <1>1, StepFollows
<1>3. s \in before /\ v \in AllValues /\ after = before \ {s}
  BY <1>2 DEF Follows
<1>4. Balanced(table, l, outputs) /\ Bound(table, outputs) /\ IsLocal(l)
  BY DEF WalkInv, StateOK, Balanced
<1>5. s \in Locals /\ l[s] # NoHandle
  BY <1>2, <1>3
<1>6. \A r \in Locals : m[r] # NoHandle <=> r \in after
  BY <1>2, <1>3, <1>4 DEF IsLocal
<1> HIDE DEF s, v, l, m
<1>7. Balanced(t, [l EXCEPT ![s] = NoHandle], outputs) /\ Bound(t, outputs)
  BY <1>3, <1>4, <1>5, KeepAccounted
<1> QED BY <1>1, <1>6, <1>7, ProceedInv DEF m

LEMMA BorrowConstantInv == ASSUME WalkInv, NoTopK, BorrowConstant PROVE WalkInv'
<1> DEFINE before == HeldThrough(position)[operation.at]
           after == HeldThrough(position)[operation.at + 1]
           v == Step.slot
           t == Store(table, v, v, FALSE)
<1>1. AtStep("borrow") /\ Proceed(t, operation.local)
  BY DEF BorrowConstant
<1>2. /\ Step.do = "borrow"
      /\ \A r \in Locals : operation.local[r] # NoHandle <=> r \in before
      /\ Follows(Step, before, after)
  BY <1>1, StepFollows
<1>3. v \in HeldByOthers \cap AllValues /\ after = before
  BY <1>2 DEF Follows
<1>4. Balanced(table, operation.local, outputs) /\ Bound(table, outputs)
  BY DEF WalkInv, StateOK
<1> HIDE DEF v
<1>5. Balanced(t, operation.local, outputs) /\ Bound(t, outputs)
  BY <1>3, <1>4, BorrowAccounted
<1> QED BY <1>1, <1>2, <1>3, <1>5, ProceedInv
----------------------------------------------------------------------------
(* The walk from node to node.                                             *)

LEMMA LeastNatural ==
  ASSUME NEW T, T \subseteq Nat, T # {}
  PROVE  \E n \in T : \A m \in T : n <= m
<1>1. IsWellFoundedOn(OpToRel(<, Nat), Nat)
  BY NatLessThanWellFounded
<1>2. PICK n \in T : \A m \in T : ~ (<<m, n>> \in OpToRel(<, Nat))
  BY <1>1, WFMin
<1>3. \A m \in T : ~ (m < n)
  BY <1>2 DEF OpToRel
<1> QED
  BY <1>3

LEMMA LastOfNodes ==
  ASSUME plan \in SchedulePlans, NEW S \in SUBSET ProgramNodes, S # {}
  PROVE  Max(S) \in ProgramNodes
<1> DEFINE n == Len(plan.instructions)
           T == {n - i : i \in S}
<1>1. n \in Nat /\ ProgramNodes = 1 .. n
  BY PlanTyped
<1>2. T \subseteq Nat /\ T # {}
  <2>1. \A i \in S : n - i \in Nat
    BY <1>1
  <2> QED BY <2>1
<1>3. \E m \in T : \A k \in T : m <= k
  <2> HIDE DEF T
  <2> QED BY <1>2, LeastNatural
<1>4. PICK m \in T : \A k \in T : m <= k
  BY <1>3
<1>5. PICK i \in S : m = n - i
  OBVIOUS
<1>6. \A j \in S : i >= j
  <2> SUFFICES ASSUME NEW j \in S PROVE i >= j
    OBVIOUS
  <2>1. n - i <= n - j
    BY <1>4, <1>5
  <2> QED BY <1>1, <2>1
<1> QED BY <1>6 DEF Max

LEMMA NodesTyped ==
  ASSUME plan \in SchedulePlans, NEW S \in SUBSET ProgramNodes
  PROVE  /\ GroupOutputs(S) \subseteq AllValues /\ GroupInputs(S) \subseteq AllValues
         /\ UNION {DeadAfter(S, i) : i \in S} \subseteq AllValues
         /\ GroupOutputs(S) # {} => S # {}
BY NodeTyped DEF GroupOutputs, GroupInputs, DeadAfter

LEMMA ReleaseAfterAccounted ==
  ASSUME plan \in SchedulePlans, NEW t, NEW l, NEW o, Balanced(t, l, o), Bound(t, o), NEW S \in SUBSET ProgramNodes
  PROVE  Balanced(ReleaseAfter(t, S), l, o) /\ Bound(ReleaseAfter(t, S), o)
<1> DEFINE dead == UNION {DeadAfter(S, i) : i \in S}
<1>1. dead \in SUBSET AllValues
  BY NodesTyped
<1>2. ReleaseAfter(t, S) = ReleaseAll(t, dead)
  BY DEF ReleaseAfter
<1> HIDE DEF dead
<1> QED BY <1>1, <1>2, ReleaseAccounted

(* Between two nodes nothing is held.                                      *)
LEMMA AdvanceInv ==
  ASSUME WalkInv, NoTopK, outcome = "running", plan' = plan, outcome' = outcome, outputs' = outputs,
         position' \in 1 .. Len(plan.instructions) + 1, operation' = NoOperation,
         Balanced(table', NoLocals, outputs), Bound(table', outputs)
  PROVE  WalkInv'
<1>1. position' \in ProgramNodes => HeldAt(position', NoOperation)
  BY BeginsEmpty DEF WalkInv
<1>2. StateOK(position', operation', table', outputs', outcome')
  BY <1>1, NoOperationIs DEF WalkInv, StateOK
<1> QED BY <1>2, SamePlan DEF WalkInv

LEMMA FinishNodeInv == ASSUME WalkInv, NoTopK, FinishNode PROVE WalkInv'
<1> DEFINE scope == IF programNodeIsFusible(position) THEN FusionGroupOf(position) ELSE {position}
<1>1. /\ outcome = "running" /\ position \in ProgramNodes /\ operation.at = Len(OperationOf(position)) + 1
      /\ table' = (IF position = Max(scope) THEN ReleaseAfter(table, scope) ELSE table)
      /\ position' = position + 1 /\ operation' = NoOperation
      /\ plan' = plan /\ outputs' = outputs /\ outcome' = outcome
  BY DEF FinishNode
<1>2. scope \subseteq ProgramNodes
  BY <1>1 DEF FusionGroupOf
<1>3. /\ HeldAt(position, operation) /\ plan \in SchedulePlans
      /\ Balanced(table, operation.local, outputs) /\ Bound(table, outputs) /\ IsLocal(operation.local)
  BY <1>1 DEF WalkInv, StateOK, Balanced
<1>4. Disciplined(OperationOf(position), HeldThrough(position))
  BY <1>1, <1>3, OperationDisciplined DEF NoTopK, ProgramNodes
<1>5. \A s \in Locals : operation.local[s] = NoHandle
  BY <1>1, <1>3, <1>4 DEF HeldAt, Disciplined
<1>6. operation.local = NoLocals
  BY <1>3, <1>5 DEF IsLocal, NoLocals
<1> HIDE DEF scope
<1>7. Balanced(table', NoLocals, outputs) /\ Bound(table', outputs)
  BY <1>1, <1>2, <1>3, <1>6, ReleaseAfterAccounted
<1>8. position' \in 1 .. Len(plan.instructions) + 1
  BY <1>1, <1>3, PlanTyped
<1> QED BY <1>1, <1>7, <1>8, AdvanceInv

LEMMA RunGroupKernelInv == ASSUME WalkInv, NoTopK, RunGroupKernel PROVE WalkInv'
<1> DEFINE S == FusionGroupOf(position)
           result == CHOOSE v \in GroupOutputs(S) : TRUE
           handles == {table.handles[v] : v \in GroupInputs(S)}
           t == Reading(table, handles)
           new == CHOOSE f \in Fresh(1) : TRUE
           contents == <<GeneratedKernel(S, result)>>
           w == WithBuffers(t, new, contents)
<1>1. /\ outcome = "running" /\ position \in ProgramNodes /\ operation = NoOperation
      /\ Cardinality(GroupOutputs(S)) = 1
      /\ \/ WalkFails(t)
         \/ /\ Fresh(1) # {}
            /\ table' = ReleaseAfter(Store(w, result, new[1], TRUE), S)
            /\ position' = Max(S) + 1
            /\ UNCHANGED <<plan, tracing, operation, outputs, outcome>>
  BY DEF RunGroupKernel
<1>2. /\ plan \in SchedulePlans /\ outputs = <<>>
      /\ Balanced(table, NoLocals, outputs) /\ Bound(table, outputs) /\ IsTable(table)
  BY <1>1, NoOperationIs DEF WalkInv, StateOK, Balanced
<1>3. S \in SUBSET ProgramNodes
  BY DEF FusionGroupOf
<1>4. GroupOutputs(S) # {}
  BY <1>1, FS_EmptySet
<1>5. result \in AllValues /\ S # {} /\ GroupInputs(S) \subseteq AllValues
  <2> HIDE DEF S
  <2> QED BY <1>2, <1>3, <1>4, NodesTyped
<1>6. t = table
  <2>1. handles \subseteq Existing(table) \cup {NoHandle}
    BY <1>2, <1>5, BoundExists
  <2> HIDE DEF handles
  <2> QED BY <1>2, <2>1, ReadingIs
<1>7. CASE WalkFails(t)
  <2> HIDE DEF t
  <2> QED BY <1>2, <1>6, <1>7, WalkFailsInv
<1>8. CASE /\ Fresh(1) # {}
           /\ table' = ReleaseAfter(Store(w, result, new[1], TRUE), S)
           /\ position' = Max(S) + 1
           /\ UNCHANGED <<plan, tracing, operation, outputs, outcome>>
  <2> DEFINE made == <<-1>>
             l == Gained(NoLocals, made, new)
             u == Store(w, result, new[1], TRUE)
  <2>1. new \in NewBuffers(table, 1)
    BY <1>8 DEF Fresh, NewBuffers
  <2>2. /\ made \in [1 .. 1 -> Locals] /\ IsInjective(made) /\ Range(made) = {-1}
        /\ \A k \in 1 .. 1 : NoLocals[made[k]] = NoHandle
    <3>1. DOMAIN made = 1 .. 1 /\ made[1] = -1 /\ -1 \in Locals
      BY <1>2, LocalsAre
    <3> QED BY <3>1 DEF IsInjective, Range, NoLocals
  <2>3. w = WithBuffers(table, new, contents)
    BY <1>6
  <2> HIDE DEF made, new, contents, t, w, S, result
  <2>4. /\ Balanced(w, l, outputs) /\ Bound(w, outputs)
        /\ \A s \in Locals : l[s] # NoHandle <=> NoLocals[s] # NoHandle \/ s \in Range(made)
    <3>1. 1 \in Nat
      OBVIOUS
    <3>2. /\ Balanced(WithBuffers(table, new, contents), Gained(NoLocals, made, new), outputs)
          /\ Bound(table, outputs) => Bound(WithBuffers(table, new, contents), outputs)
          /\ \A s \in Locals : Gained(NoLocals, made, new)[s] # NoHandle <=> NoLocals[s] # NoHandle \/ s \in Range(made)
      <4> DEFINE n == 1
      <4>1. Balanced(table, NoLocals, outputs) /\ n \in Nat /\ new \in NewBuffers(table, n)
        BY <1>2, <2>1
      <4>2. made \in [1 .. n -> Locals] /\ IsInjective(made) /\ \A k \in 1 .. n : NoLocals[made[k]] = NoHandle
        BY <2>2
      <4> HIDE DEF n
      <4> QED BY <4>1, <4>2, GainAccounted
    <3> QED BY <1>2, <2>3, <3>2
  <2>5. -1 \in Locals /\ l[-1] # NoHandle
    BY <1>2, <2>2, <2>4, LocalsAre
  <2>6. l[-1] = new[1]
    <3>1. \A k \in DOMAIN made : k = 1
      BY <2>2
    <3>2. made[1] = -1 /\ 1 \in DOMAIN made
      BY DEF made
    <3>3. -1 \in Range(made) /\ (CHOOSE k \in DOMAIN made : made[k] = -1) = 1
      BY <2>2, <3>1, <3>2
    <3> QED BY <2>5, <3>3 DEF Gained
  <2>7. [l EXCEPT ![-1] = NoHandle] = NoLocals
    <3>1. \A s \in Locals : s # -1 => l[s] = NoHandle
      BY <2>2, <2>4 DEF NoLocals
    <3>2. l = [s \in Locals |-> l[s]]
      BY DEF Gained
    <3> HIDE DEF l
    <3> QED BY <3>1, <3>2 DEF NoLocals
  <2> HIDE DEF l
  <2>8. Balanced(u, NoLocals, outputs) /\ Bound(u, outputs)
    BY <1>5, <2>4, <2>5, <2>6, <2>7, KeepAccounted
  <2> HIDE DEF u
  <2>9. Balanced(table', NoLocals, outputs) /\ Bound(table', outputs)
    BY <1>2, <1>3, <1>8, <2>8, ReleaseAfterAccounted DEF u
  <2>10. position' \in 1 .. Len(plan.instructions) + 1
    <3>1. Max(S) \in ProgramNodes
      BY <1>2, <1>3, <1>5, LastOfNodes
    <3> QED BY <1>2, <1>8, <3>1, PlanTyped
  <2> QED BY <1>1, <1>8, <2>9, <2>10, AdvanceInv
<1> QED BY <1>1, <1>7, <1>8
----------------------------------------------------------------------------
(* The beginning and the end of the walk.                                  *)

LEMMA UnwalkedInv == plan \in SchedulePlans /\ Unwalked => WalkInv
<1> SUFFICES ASSUME plan \in SchedulePlans, Unwalked PROVE WalkInv
  OBVIOUS
<1>1. /\ position = 1 /\ operation = NoOperation /\ outputs = <<>> /\ outcome = "new"
      /\ Existing(table) = HeldByOthers
      /\ table = [memory |-> table.memory, handles |-> table.handles, owned |-> table.owned, misused |-> table.misused]
      /\ table.handles = [v \in AllValues |-> NoHandle]
      /\ table.owned = [v \in AllValues |-> FALSE] /\ table.misused = FALSE
  BY DEF Unwalked, Existing
<1>2. /\ HeldByOthers \subseteq BackendHandles
      /\ plan.instructions \in Seq(Instructions) /\ plan.output_ids \in Seq(AllValues)
  BY OthersTyped, PlanTyped
<1>3. IsTable(table) /\ Bound(table, <<>>)
  BY <1>1, <1>2 DEF IsTable, Bound
<1>4. IsLocal(NoLocals) /\ IsGiven(<<>>) /\ DOMAIN <<>> = {}
  BY DEF IsLocal, NoLocals, IsGiven
<1>5. \A v \in AllValues : ~table.owned[v]
  BY <1>1
<1>6. Balanced(table, NoLocals, <<>>)
  <2>1. OwnedOnce(table, NoLocals, <<>>)
    BY <1>4, <1>5 DEF OwnedOnce, NoLocals
  <2>2. OwnersHold(table, NoLocals, <<>>)
    BY <1>1, <1>4, <1>5 DEF OwnersHold, NoLocals
  <2>3. \A h \in Existing(table) : Owned(table, NoLocals, <<>>, h)
    BY <1>1 DEF Owned
  <2> QED BY <1>3, <1>4, <2>1, <2>2, <2>3 DEF Balanced
<1>7. 1 \in 1 .. Len(plan.instructions) + 1 /\ Len(<<>>) <= Len(plan.output_ids)
  BY <1>2
<1> QED
  BY <1>1, <1>3, <1>5, <1>6, <1>7, NoOperationIs DEF WalkInv, StateOK

LEMMA BindArgumentsInv == ASSUME WalkInv, NoTopK, BindArguments PROVE WalkInv'
<1> DEFINE bound == [v \in AllValues |-> IF v \in ParameterIds THEN v ELSE NoHandle]
<1>1. /\ outcome = "new" /\ outcome' = "running" /\ plan' = plan /\ position' = position
      /\ operation' = operation /\ outputs' = outputs
      /\ table' = [table EXCEPT !.handles = bound]
  BY DEF BindArguments
<1>2. /\ plan \in SchedulePlans /\ outputs = <<>> /\ operation = NoOperation
      /\ Balanced(table, NoLocals, outputs)
      /\ \A v \in AllValues : ~table.owned[v]
  BY <1>1, NoOperationIs DEF WalkInv, StateOK
<1>3. /\ table = [memory |-> table.memory, handles |-> table.handles, owned |-> table.owned, misused |-> FALSE]
      /\ IsTable(table) /\ IsLocal(NoLocals) /\ IsGiven(outputs)
  BY <1>2 DEF Balanced, IsTable
<1> HIDE DEF bound
<1>4. table' = [[memory |-> table.memory, handles |-> table.handles, owned |-> table.owned, misused |-> FALSE]
                  EXCEPT !.handles = bound]
  BY <1>1, <1>3, Zenon
<1>5. table' = [memory |-> table.memory, handles |-> bound, owned |-> table.owned, misused |-> FALSE]
  BY <1>4
<1>6. table'.handles = bound /\ table'.owned = table.owned /\ Existing(table') = Existing(table)
  BY <1>5 DEF Existing
<1>7. /\ bound \in [AllValues -> BackendHandles \cup {NoHandle}]
      /\ \A v \in AllValues : bound[v] # NoHandle => bound[v] \in HeldByOthers
  BY <1>2, PlanTyped DEF bound, HeldByOthers
<1>8. IsTable(table') /\ Bound(table', outputs)
  BY <1>3, <1>5, <1>6, <1>7 DEF IsTable, Bound
<1>9. Balanced(table', NoLocals, outputs)
  <2>1. OwnedOnce(table', NoLocals, outputs)
    BY <1>2, <1>6 DEF Balanced, OwnedOnce
  <2>2. OwnersHold(table', NoLocals, outputs)
    BY <1>2, <1>6 DEF Balanced, OwnersHold
  <2>3. \A h \in Existing(table') : Owned(table', NoLocals, outputs, h)
    BY <1>2, <1>6 DEF Balanced, Owned
  <2> QED BY <1>3, <1>8, <2>1, <2>2, <2>3 DEF Balanced
<1>10. position \in ProgramNodes => HeldAt(position, NoOperation)
  BY <1>2, BeginsEmpty
<1>11. StateOK(position', operation', table', outputs', outcome')
  BY <1>1, <1>2, <1>8, <1>9, <1>10, NoOperationIs DEF WalkInv, StateOK
<1> QED BY <1>1, <1>2, <1>11, SamePlan

LEMMA EvaluateOutputsInv == ASSUME WalkInv, NoTopK, EvaluateOutputs PROVE WalkInv'
<1>1. outcome = "running" /\ AtEnd
  BY DEF EvaluateOutputs
<1>2. position \notin ProgramNodes
  BY <1>1, PlanTyped DEF AtEnd, WalkInv
<1>3. /\ plan \in SchedulePlans /\ operation = NoOperation /\ outputs = <<>>
      /\ Balanced(table, NoLocals, outputs)
  BY <1>1, <1>2, NoOperationIs DEF WalkInv, StateOK
<1>4. CASE WalkFails(table)
  BY <1>3, <1>4, WalkFailsInv
<1>5. CASE outcome' = "evaluated" /\ UNCHANGED <<plan, tracing, position, operation, table, outputs>>
  <2>1. StateOK(position', operation', table', outputs', outcome')
    BY <1>3, <1>5 DEF WalkInv, StateOK
  <2> QED BY <1>3, <1>5, <2>1, SamePlan
<1> QED BY <1>4, <1>5 DEF EvaluateOutputs

LEMMA HandOverOutputInv == ASSUME WalkInv, NoTopK, HandOverOutput PROVE WalkInv'
<1> DEFINE v == plan.output_ids[Len(outputs) + 1]
           h == table.handles[v]
           t == Reading(table, {h})
           new == CHOOSE f \in Fresh(1) : TRUE
           contents == <<t.memory[h]>>
<1>1. /\ outcome = "evaluated" /\ Len(outputs) < Len(plan.output_ids)
      /\ \/ /\ table.owned[v]
            /\ table' = [table EXCEPT !.owned[v] = FALSE]
            /\ outputs' = Append(outputs, h)
            /\ UNCHANGED <<plan, tracing, position, operation, outcome>>
         \/ /\ Fresh(1) # {}
            /\ table' = WithBuffers(t, new, contents)
            /\ outputs' = Append(outputs, new[1])
            /\ UNCHANGED <<plan, tracing, position, operation, outcome>>
         \/ WalkFails(DestroyAll(t, Range(outputs)))
  BY DEF HandOverOutput
<1>2. /\ plan \in SchedulePlans /\ operation = NoOperation
      /\ Balanced(table, NoLocals, outputs) /\ Bound(table, outputs) /\ IsTable(table)
      /\ outputs \in Seq(BackendHandles)
  BY <1>1, NoOperationIs DEF WalkInv, StateOK, Balanced, IsGiven
<1>3. v \in AllValues /\ Len(outputs) + 1 <= Len(plan.output_ids)
  BY <1>1, <1>2, PlanTyped
<1> HIDE DEF v
<1>4. t = table
  <2>1. {h} \subseteq Existing(table) \cup {NoHandle}
    BY <1>2, <1>3, BoundExists
  <2> HIDE DEF h
  <2> QED BY <1>2, <2>1, ReadingIs
<1>5. CASE WalkFails(DestroyAll(t, Range(outputs)))
  <2>1. Balanced(DestroyAll(table, Range(outputs)), NoLocals, <<>>)
    BY <1>2, RevokeAccounted
  <2> HIDE DEF t
  <2> QED BY <1>4, <1>5, <2>1, WalkFailsInv
<1>6. ASSUME NEW g, outputs' = Append(outputs, g), UNCHANGED <<plan, tracing, position, operation, outcome>>,
             Balanced(table', NoLocals, outputs'), Bound(table', outputs')
      PROVE  WalkInv'
  <2>1. Len(outputs') <= Len(plan.output_ids)
    BY <1>2, <1>3, <1>6
  <2>2. StateOK(position', operation', table', outputs', outcome')
    BY <1>1, <1>2, <1>6, <2>1, NoOperationIs DEF WalkInv, StateOK
  <2> QED BY <1>2, <1>6, <2>2, SamePlan
<1>7. CASE /\ table.owned[v]
           /\ table' = [table EXCEPT !.owned[v] = FALSE]
           /\ outputs' = Append(outputs, h)
           /\ UNCHANGED <<plan, tracing, position, operation, outcome>>
  <2>1. Balanced(table', NoLocals, outputs') /\ Bound(table', outputs')
    BY <1>2, <1>3, <1>7, HandOverAccounted
  <2> QED BY <1>6, <1>7, <2>1
<1>8. CASE /\ Fresh(1) # {}
           /\ table' = WithBuffers(t, new, contents)
           /\ outputs' = Append(outputs, new[1])
           /\ UNCHANGED <<plan, tracing, position, operation, outcome>>
  <2>1. new \in NewBuffers(table, 1)
    BY <1>8 DEF Fresh, NewBuffers
  <2> HIDE DEF new, t, contents
  <2>2. Balanced(table', NoLocals, outputs') /\ Bound(table', outputs')
    BY <1>2, <1>4, <1>8, <2>1, CloneAccounted
  <2> QED BY <1>6, <1>8, <2>2
<1> QED BY <1>1, <1>5, <1>7, <1>8

LEMMA ReturnOutputsInv == ASSUME WalkInv, NoTopK, ReturnOutputs PROVE WalkInv'
<1>1. /\ outcome = "evaluated" /\ table' = Deinit(table) /\ outcome' = "returned"
      /\ UNCHANGED <<plan, tracing, position, operation, outputs>>
  BY DEF ReturnOutputs
<1>2. plan \in SchedulePlans /\ operation = NoOperation /\ Balanced(table, NoLocals, outputs)
  BY <1>1, NoOperationIs DEF WalkInv, StateOK
<1>3. /\ Balanced(Deinit(table), NoLocals, outputs) /\ Bound(Deinit(table), outputs)
      /\ \A v \in AllValues : Deinit(table).owned[v] = FALSE
  BY <1>2, DeinitAccounted
<1>4. StateOK(position', operation', table', outputs', outcome')
  BY <1>1, <1>2, <1>3, NoOperationIs DEF WalkInv, StateOK
<1> QED BY <1>1, <1>2, <1>4, SamePlan

LEMMA StutterInv == ASSUME WalkInv, UNCHANGED scheduleVars PROVE WalkInv'
BY SamePlan DEF WalkInv, scheduleVars

LEMMA WalkNextInv == NoTopK /\ WalkInv /\ [ScheduleNext]_scheduleVars => WalkInv'
BY BindArgumentsInv, CallBackendInv, DropLocalInv, KeepResultInv, BorrowConstantInv, FinishNodeInv,
   RunGroupKernelInv, EvaluateOutputsInv, HandOverOutputInv, ReturnOutputsInv, StutterInv DEF ScheduleNext

LEMMA WalkInvariance == ASSUME NoTopK PROVE ScheduleSpec => []WalkInv
<1>1. ScheduleInit => WalkInv
  BY UnwalkedInv DEF ScheduleInit
<1>2. WalkInv /\ [ScheduleNext]_scheduleVars => WalkInv'
  BY WalkNextInv
<1> QED BY <1>1, <1>2, PTL DEF ScheduleSpec

LEMMA WalkInvTyped == WalkInv => ScheduleTypeOK
<1> SUFFICES ASSUME WalkInv PROVE ScheduleTypeOK
  OBVIOUS
<1>1. IsTable(table) /\ IsLocal(operation.local)
  BY DEF WalkInv, StateOK, Balanced
<1> QED
  BY <1>1 DEF WalkInv, StateOK, IsTable, IsLocal, ScheduleTypeOK

(* The owners of the invariant are the places of the property.             *)
LEMMA WalkInvAccounted == WalkInv => BuffersAccounted
<1> SUFFICES ASSUME WalkInv PROVE BuffersAccounted
  OBVIOUS
<1> DEFINE l == operation.local
           Bindings == {<<"value", v>> : v \in {w \in AllValues : table.owned[w]}}
           Temporaries == {<<"local", s>> : s \in {m \in Locals : l[m] # NoHandle}}
           HandedOver == {<<"output", k>> : k \in DOMAIN outputs}
<1>1. /\ Balanced(table, l, outputs)
      /\ outcome \in {"returned", "failed"} => operation = NoOperation /\ \A v \in AllValues : ~table.owned[v]
  BY DEF WalkInv, StateOK
<1> HIDE DEF l
<1>2. Owners = Bindings \cup Temporaries \cup HandedOver
  BY DEF Owners, l
<1>3. /\ \A v \in AllValues : Holding(<<"value", v>>) = table.handles[v]
      /\ \A s \in Locals : Holding(<<"local", s>>) = l[s]
      /\ \A k \in DOMAIN outputs : Holding(<<"output", k>>) = outputs[k]
  BY DEF Holding, l
<1>4. ASSUME NEW p \in Owners
      PROVE  \/ \E v \in AllValues : p = <<"value", v>> /\ table.owned[v] /\ Holding(p) = table.handles[v]
             \/ \E s \in Locals : p = <<"local", s>> /\ l[s] # NoHandle /\ Holding(p) = l[s]
             \/ \E k \in DOMAIN outputs : p = <<"output", k>> /\ Holding(p) = outputs[k]
  <2>1. CASE p \in Bindings
    BY <1>3, <2>1
  <2>2. CASE p \in Temporaries
    BY <1>3, <2>2
  <2>3. CASE p \in HandedOver
    BY <1>3, <2>3
  <2> QED BY <1>2, <2>1, <2>2, <2>3
<1>5. /\ \A v \in AllValues : table.owned[v] => <<"value", v>> \in Owners
      /\ \A s \in Locals : l[s] # NoHandle => <<"local", s>> \in Owners
      /\ \A k \in DOMAIN outputs : <<"output", k>> \in Owners
  BY <1>2
<1> HIDE DEF Bindings, Temporaries, HandedOver
<1>6. \A p \in Owners : Holding(p) \in Existing(table) \ HeldByOthers
  BY <1>1, <1>4 DEF Balanced, OwnersHold
<1>7. Existing(table) = HeldByOthers \cup {Holding(p) : p \in Owners}
  <2>1. ASSUME NEW h \in Existing(table), h \notin HeldByOthers PROVE \E p \in Owners : Holding(p) = h
    <3>1. h # NoHandle
      BY <1>1, NoHandleIsNone DEF Balanced, IsTable
    <3>2. \/ \E v \in AllValues : table.owned[v] /\ table.handles[v] = h
          \/ \E s \in Locals : l[s] = h
          \/ \E k \in DOMAIN outputs : outputs[k] = h
      BY <1>1, <2>1 DEF Balanced, Owned
    <3> QED BY <1>3, <1>5, <3>1, <3>2
  <2>2. HeldByOthers \subseteq Existing(table)
    BY <1>1 DEF Balanced, OwnersHold
  <2> QED BY <1>6, <2>1, <2>2
<1>8. ASSUME NEW p \in Owners, NEW q \in Owners, Holding(p) = Holding(q) PROVE p = q
  <2>1. CASE \E v \in AllValues : p = <<"value", v>> /\ table.owned[v] /\ Holding(p) = table.handles[v]
    BY <1>1, <1>4, <1>8, <2>1 DEF Balanced, OwnedOnce
  <2>2. CASE \E s \in Locals : p = <<"local", s>> /\ l[s] # NoHandle /\ Holding(p) = l[s]
    BY <1>1, <1>4, <1>8, <2>2 DEF Balanced, OwnedOnce
  <2>3. CASE \E k \in DOMAIN outputs : p = <<"output", k>> /\ Holding(p) = outputs[k]
    <3>1. PICK k \in DOMAIN outputs : p = <<"output", k>> /\ Holding(p) = outputs[k]
      BY <2>3
    <3>2. PICK j \in DOMAIN outputs : q = <<"output", j>> /\ Holding(q) = outputs[j]
      <4>1. ~ \E v \in AllValues : table.owned[v] /\ table.handles[v] = Holding(q)
        BY <1>1, <1>8, <3>1 DEF Balanced, OwnedOnce
      <4>2. ~ \E s \in Locals : l[s] = Holding(q)
        BY <1>1, <1>8, <3>1 DEF Balanced, OwnedOnce
      <4> QED BY <1>4, <4>1, <4>2
    <3> QED BY <1>1, <1>8, <3>1, <3>2 DEF Balanced, OwnedOnce
  <2> QED BY <1>4, <2>1, <2>2, <2>3
<1>9. outcome \in {"returned", "failed"} => \A p \in Owners : p[1] = "output"
  <2> SUFFICES ASSUME outcome \in {"returned", "failed"}, NEW p \in Owners PROVE p[1] = "output"
    OBVIOUS
  <2>1. \A s \in Locals : l[s] = NoHandle
    BY <1>1 DEF l, NoOperation
  <2> QED BY <1>1, <1>4, <2>1
<1>10. table.misused = FALSE
  BY <1>1 DEF Balanced, IsTable
<1> QED
  BY <1>6, <1>7, <1>8, <1>9, <1>10 DEF BuffersAccounted

(* Whatever the plan, of any length, and whatever call of the walk fails, each *)
(* backend buffer is an argument, a constant, or owned by one place: none is  *)
(* lost, destroyed twice or read once destroyed (execution_values.zig,       *)
(* execution_node*.zig, execution_liveness.zig).                            *)
THEOREM BuffersAreAccounted == ASSUME NoTopK PROVE ScheduleSpec => []BuffersAccounted
BY WalkInvariance, WalkInvAccounted, PTL

(* Every handle and every local of the walk is a backend buffer or none, and   *)
(* no more outputs are handed over than there are (execution_values.zig).    *)
THEOREM ScheduleTypesAreCorrect == ASSUME NoTopK PROVE ScheduleSpec => []ScheduleTypeOK
BY WalkInvariance, WalkInvTyped, PTL
----------------------------------------------------------------------------
(* What the order of a plan gives: where a value comes from, and before whom. *)

InstructionValues == UNION {NodeOutputs(i) : i \in ProgramNodes}

LEMMA ValuesAre == AllValues = ParameterIds \cup InstructionValues
BY DEF AllValues, ValuesOfPlan, ParameterIds, InstructionValues, NodeOutputs, ProgramNodes

LEMMA OneProducer ==
  ASSUME plan \in SchedulePlans, NEW i \in ProgramNodes, NEW v \in NodeOutputs(i)
  PROVE  TupleProducer(v) = i /\ v \notin ParameterIds
<1>1. InOrder(plan)
  BY ScheduleOrder
<1>2. PICK k \in DOMAIN plan.instructions[i].outputs : plan.instructions[i].outputs[k] = v
  BY DEF NodeOutputs, Range
<1>3. ASSUME NEW j \in ProgramNodes, v \in NodeOutputs(j) PROVE j = i
  <2>1. PICK m \in DOMAIN plan.instructions[j].outputs : plan.instructions[j].outputs[m] = v
    BY <1>3 DEF NodeOutputs, Range
  <2> QED BY <1>1, <1>2, <2>1 DEF InOrder, ProgramNodes
<1>4. v \notin ParameterIds
  BY <1>1 DEF InOrder, ProgramNodes, NodeOutputs, ParameterIds
<1>5. TupleProducer(v) = i
  BY <1>3 DEF TupleProducer
<1> QED BY <1>4, <1>5

LEMMA ProducerIs ==
  ASSUME plan \in SchedulePlans, NEW v \in AllValues, v \notin ParameterIds
  PROVE  TupleProducer(v) \in ProgramNodes /\ v \in NodeOutputs(TupleProducer(v))
<1>1. PICK i \in ProgramNodes : v \in NodeOutputs(i)
  BY ValuesAre DEF InstructionValues
<1> QED BY <1>1, OneProducer

(* Whatever an instruction reads, the element of a "get" too, is an argument *)
(* or comes from an earlier one.                                           *)
LEMMA OperandsAreEarlier ==
  ASSUME plan \in SchedulePlans, NEW i \in ProgramNodes, NEW v \in Range(programNodeInputs(i)), v \notin ParameterIds
  PROVE  TupleProducer(v) \in ProgramNodes /\ TupleProducer(v) < i
<1>1. InOrder(plan) /\ ProgramNodes = 1 .. Len(plan.instructions) /\ plan.instructions \in Seq(Instructions)
  BY ScheduleOrder, PlanTyped
<1>2. ASSUME NEW j \in ProgramNodes, NEW w \in Range(plan.instructions[j].inputs), w \notin ParameterIds
      PROVE  TupleProducer(w) \in ProgramNodes /\ TupleProducer(w) < j
  <2>1. w \in UNION {Range(plan.instructions[m].outputs) : m \in 1 .. j - 1}
    BY <1>1, <1>2 DEF InOrder, ParameterIds, ProgramNodes
  <2>2. PICK m \in 1 .. j - 1 : w \in NodeOutputs(m)
    BY <2>1 DEF NodeOutputs
  <2>3. m \in ProgramNodes /\ m < j
    BY <1>1
  <2> QED BY <2>2, <2>3, OneProducer
<1>3. CASE v \in Range(plan.instructions[i].inputs)
  BY <1>2, <1>3
<1>4. CASE v \notin Range(plan.instructions[i].inputs)
  <2> DEFINE t == plan.instructions[i].inputs[1]
             j == TupleProducer(t)
  <2>1. plan.instructions[i].op = "get"
    BY <1>4 DEF programNodeInputs
  <2>2. plan.instructions[i].inputs \in Seq(AllValues) /\ Len(plan.instructions[i].inputs) = 1
    BY <2>1, InstructionTyped DEF OneInput
  <2>3. t \in Range(plan.instructions[i].inputs)
    BY <2>2 DEF Range
  <2>4. programNodeInputs(i) = <<t, TupleElement(plan.instructions[i])>>
    BY <2>1 DEF programNodeInputs
  <2>5. v = TupleElement(plan.instructions[i])
    <3>1. v = t \/ v = TupleElement(plan.instructions[i])
      BY <2>4 DEF Range
    <3> QED BY <1>4, <2>3, <3>1
  <2>6. /\ \E k \in ProgramNodes : t \in NodeOutputs(k)
        /\ \A k \in ProgramNodes : t \in NodeOutputs(k) => plan.instructions[i].element \in DOMAIN plan.instructions[k].inputs
    BY <2>1, InstructionTyped DEF NodeOutputs
  <2>7. j \in ProgramNodes /\ t \in NodeOutputs(j) /\ t \notin ParameterIds
    BY <2>6, OneProducer
  <2>8. v \in Range(plan.instructions[j].inputs)
    BY <2>5, <2>6, <2>7 DEF TupleElement, Range
  <2>9. j < i
    BY <1>2, <2>3, <2>7
  <2>10. TupleProducer(v) \in ProgramNodes /\ TupleProducer(v) < j
    BY <1>2, <2>7, <2>8
  <2> HIDE DEF j
  <2> QED BY <1>1, <2>7, <2>9, <2>10
<1> QED BY <1>3, <1>4

(* The greatest and the least of some numbers.                             *)
LEMMA GreatestIs ==
  ASSUME NEW n \in Nat, NEW S \in SUBSET (0 .. n), S # {}
  PROVE  Max(S) \in S /\ \A x \in S : x <= Max(S)
<1> DEFINE T == {n - i : i \in S}
<1>1. T \subseteq Nat /\ T # {}
  <2>1. \A i \in S : n - i \in Nat
    OBVIOUS
  <2> QED BY <2>1
<1>2. \E m \in T : \A k \in T : m <= k
  <2> HIDE DEF T
  <2> QED BY <1>1, LeastNatural
<1>3. PICK low \in T : \A k \in T : low <= k
  BY <1>2
<1>4. PICK i \in S : low = n - i
  OBVIOUS
<1>5. \A j \in S : i >= j
  <2> SUFFICES ASSUME NEW j \in S PROVE i >= j
    OBVIOUS
  <2>1. n - i <= n - j
    BY <1>3, <1>4
  <2> QED BY <2>1
<1>6. Max(S) \in S /\ \A y \in S : Max(S) >= y
  BY <1>5 DEF Max
<1> DEFINE m == Max(S)
<1>7. m \in S /\ \A y \in S : m >= y
  BY <1>6
<1> HIDE DEF m
<1>8. \A y \in S : y <= m
  BY <1>7
<1> QED BY <1>7, <1>8 DEF m

LEMMA LeastIs ==
  ASSUME NEW S \in SUBSET Nat, S # {}
  PROVE  Min(S) \in S /\ \A x \in S : Min(S) <= x
<1>1. PICK n \in S : \A m \in S : n <= m
  BY LeastNatural
<1> QED BY <1>1 DEF Min
----------------------------------------------------------------------------
(* What the values mean is well defined: the meaning of a value depends on   *)
(* those of the values read by the instruction that it comes from.          *)

Arguments(of, i) == [k \in DOMAIN programNodeInputs(i) |-> of[programNodeInputs(i)[k]]]
ResultIndex(i, v) == CHOOSE k \in DOMAIN plan.instructions[i].outputs : plan.instructions[i].outputs[k] = v
MeaningGiven(of, v) ==
  IF v \in HeldByOthers THEN Original(v)
  ELSE Term(plan.instructions[TupleProducer(v)], ResultIndex(TupleProducer(v), v), Arguments(of, TupleProducer(v)))

LEMMA MeaningOfIs == MeaningOf = CHOOSE of : of = [v \in AllValues |-> MeaningGiven(of, v)]
BY DEF MeaningOf, MeaningGiven, Arguments, ResultIndex

LEMMA SameArguments ==
  ASSUME NEW f, NEW g, NEW i, \A k \in DOMAIN programNodeInputs(i) : f[programNodeInputs(i)[k]] = g[programNodeInputs(i)[k]]
  PROVE  Arguments(f, i) = Arguments(g, i)
BY DEF Arguments

(* The value is one that others hold, or of the first n nodes.             *)
Through(n, v) == v \in HeldByOthers \/ TupleProducer(v) <= n

LEMMA MeaningDepends ==
  ASSUME plan \in SchedulePlans, NEW n \in Nat, NEW f, NEW g,
         \A x \in AllValues : Through(n, x) => f[x] = g[x],
         NEW v \in AllValues, Through(n + 1, v)
  PROVE  MeaningGiven(f, v) = MeaningGiven(g, v)
<1>1. CASE v \in HeldByOthers
  BY <1>1 DEF MeaningGiven
<1>2. CASE v \notin HeldByOthers
  <2> DEFINE i == TupleProducer(v)
  <2>1. i \in ProgramNodes /\ i <= n + 1
    BY <1>2, ProducerIs DEF Through, HeldByOthers
  <2>2. i \in Nat
    BY <2>1, PlanTyped
  <2> HIDE DEF i
  <2>3. ASSUME NEW k \in DOMAIN programNodeInputs(i) PROVE f[programNodeInputs(i)[k]] = g[programNodeInputs(i)[k]]
    <3> DEFINE x == programNodeInputs(i)[k]
    <3>1. x \in Range(programNodeInputs(i)) /\ x \in AllValues
      BY <2>1, NodeTyped DEF Range
    <3>2. CASE x \in ParameterIds
      BY <3>1, <3>2 DEF Through, HeldByOthers
    <3>3. CASE x \notin ParameterIds
      <4>1. TupleProducer(x) \in ProgramNodes /\ TupleProducer(x) < i
        BY <2>1, <3>1, <3>3, OperandsAreEarlier
      <4>2. TupleProducer(x) \in Nat
        BY <4>1, PlanTyped
      <4>3. TupleProducer(x) <= n
        BY <2>1, <2>2, <4>1, <4>2
      <4> QED BY <3>1, <4>3 DEF Through
    <3> QED BY <3>2, <3>3
  <2>4. Arguments(f, i) = Arguments(g, i)
    BY <2>3, SameArguments
  <2> QED BY <1>2, <2>4 DEF MeaningGiven, i
<1> QED BY <1>1, <1>2

Gives(f, n) == f = [v \in AllValues |-> f[v]] /\ \A v \in AllValues : Through(n, v) => f[v] = MeaningGiven(f, v)

LEMMA MeaningExtends ==
  ASSUME plan \in SchedulePlans, NEW n \in Nat, NEW f, Gives(f, n)
  PROVE  \E g : Gives(g, n + 1)
<1> DEFINE g == [v \in AllValues |-> IF Through(n, v) THEN f[v] ELSE MeaningGiven(f, v)]
<1>1. g = [v \in AllValues |-> g[v]] /\ \A v \in AllValues : Through(n, v) => f[v] = g[v]
  OBVIOUS
<1>2. ASSUME NEW v \in AllValues PROVE g[v] = MeaningGiven(f, v)
  BY DEF Gives
<1> HIDE DEF g
<1>3. ASSUME NEW v \in AllValues, Through(n + 1, v) PROVE MeaningGiven(f, v) = MeaningGiven(g, v)
  BY <1>1, <1>3, MeaningDepends
<1>4. Gives(g, n + 1)
  BY <1>1, <1>2, <1>3 DEF Gives
<1> QED BY <1>4

LEMMA MeaningBegins ==
  ASSUME plan \in SchedulePlans
  PROVE  \E g : Gives(g, 0)
<1> DEFINE g == [v \in AllValues |-> Original(v)]
<1>1. ASSUME NEW v \in AllValues, Through(0, v) PROVE v \in HeldByOthers
  <2> SUFFICES ASSUME v \notin HeldByOthers PROVE FALSE
    OBVIOUS
  <2>1. TupleProducer(v) \in ProgramNodes
    BY ProducerIs DEF HeldByOthers
  <2>2. TupleProducer(v) \in 1 .. Len(plan.instructions) /\ Len(plan.instructions) \in Nat
    BY <2>1, PlanTyped
  <2> QED BY <1>1, <2>2 DEF Through
<1>2. g = [v \in AllValues |-> g[v]] /\ \A v \in AllValues : g[v] = Original(v)
  OBVIOUS
<1> HIDE DEF g
<1>3. Gives(g, 0)
  BY <1>1, <1>2 DEF Gives, MeaningGiven
<1> QED BY <1>3

LEMMA MeaningExists ==
  ASSUME plan \in SchedulePlans
  PROVE  \E of : of = [v \in AllValues |-> MeaningGiven(of, v)]
<1> DEFINE T == {n \in Nat : ~ \E g : Gives(g, n)}
           N == Len(plan.instructions)
<1>1. N \in Nat /\ ProgramNodes = 1 .. N
  BY PlanTyped
<1>2. T = {}
  <2> SUFFICES ASSUME T # {} PROVE FALSE
    OBVIOUS
  <2>1. PICK n \in T : \A m \in T : n <= m
    <3> HIDE DEF T
    <3>1. T \subseteq Nat
      BY DEF T
    <3> QED BY <3>1, LeastNatural
  <2>2. n # 0
    BY MeaningBegins
  <2>3. n - 1 \in Nat /\ n = (n - 1) + 1 /\ n - 1 \notin T
    BY <2>1, <2>2
  <2>4. PICK g : Gives(g, n - 1)
    BY <2>3
  <2>5. \E h : Gives(h, (n - 1) + 1)
    BY <2>3, <2>4, MeaningExtends
  <2> QED BY <2>3, <2>5
<1>3. PICK g : Gives(g, N)
  BY <1>1, <1>2
<1>4. ASSUME NEW v \in AllValues PROVE Through(N, v)
  <2> SUFFICES ASSUME v \notin HeldByOthers PROVE TupleProducer(v) <= N
    BY DEF Through
  <2>1. TupleProducer(v) \in 1 .. N
    BY <1>1, ProducerIs DEF HeldByOthers
  <2> HIDE DEF N
  <2> QED BY <1>1, <2>1
<1>5. g = [v \in AllValues |-> g[v]] /\ \A v \in AllValues : g[v] = MeaningGiven(g, v)
  BY <1>3, <1>4 DEF Gives
<1>6. g = [v \in AllValues |-> MeaningGiven(g, v)]
  BY <1>5
<1> QED BY <1>6

LEMMA MeaningIs ==
  ASSUME plan \in SchedulePlans, NEW v \in AllValues
  PROVE  MeaningOf[v] = MeaningGiven(MeaningOf, v)
<1>1. MeaningOf = [w \in AllValues |-> MeaningGiven(MeaningOf, w)]
  BY MeaningOfIs, MeaningExists
<1> QED BY <1>1

LEMMA OriginalMeaning ==
  ASSUME plan \in SchedulePlans, NEW v \in HeldByOthers
  PROVE  MeaningOf[v] = Original(v)
BY MeaningIs, OthersTyped DEF MeaningGiven

(* The results of an instruction mean what it computes from its operands.   *)
LEMMA ResultMeaning ==
  ASSUME plan \in SchedulePlans, NEW i \in ProgramNodes, plan.instructions[i].op # "constant",
         NEW k \in DOMAIN plan.instructions[i].outputs
  PROVE  MeaningOf[plan.instructions[i].outputs[k]] = Term(plan.instructions[i], k, Arguments(MeaningOf, i))
<1> DEFINE v == plan.instructions[i].outputs[k]
<1>1. v \in NodeOutputs(i)
  BY DEF NodeOutputs, Range
<1>2. v \in AllValues /\ TupleProducer(v) = i /\ v \notin ParameterIds
  BY <1>1, NodeTyped, OneProducer
<1>3. v \notin HeldByOthers
  <2> SUFFICES ASSUME v \in ResidentConstants PROVE FALSE
    BY <1>2 DEF HeldByOthers
  <2>1. PICK j \in ProgramNodes : plan.instructions[j].op = "constant" /\ v \in NodeOutputs(j)
    BY DEF ResidentConstants
  <2> QED BY <1>2, <2>1, OneProducer
<1>4. ResultIndex(i, v) = k
  BY ScheduleOrder DEF ResultIndex, InOrder, ProgramNodes
<1> HIDE DEF v
<1>5. MeaningOf[v] = Term(plan.instructions[i], k, Arguments(MeaningOf, i))
  BY <1>2, <1>3, <1>4, MeaningIs DEF MeaningGiven
<1> QED BY <1>5 DEF v
----------------------------------------------------------------------------
(* A generated kernel computes what its group means.                       *)

GroupValues(S) == UNION {NodeOutputs(i) : i \in S}
KernelValue(S, f, w) ==
  IF w \in GroupInputs(S) THEN table.memory[table.handles[w]]
  ELSE Term(plan.instructions[TupleProducer(w)], 1, Arguments(f, TupleProducer(w)))
IsKernel(S, f) == f = [w \in GroupInputs(S) \cup GroupValues(S) |-> KernelValue(S, f, w)]

LEMMA GroupIs ==
  ASSUME NEW S
  PROVE  /\ \A i \in S : NodeOutputs(i) \cap GroupInputs(S) = {} /\ NodeOutputs(i) \subseteq GroupValues(S)
         /\ \A i \in S : Range(programNodeInputs(i)) \subseteq GroupInputs(S) \cup GroupValues(S)
<1> DEFINE read == UNION {Range(programNodeInputs(i)) : i \in S}
<1>1. /\ \A i \in S : NodeOutputs(i) \subseteq GroupValues(S)
      /\ \A i \in S : Range(programNodeInputs(i)) \subseteq read
  BY DEF GroupValues
<1>2. GroupInputs(S) = read \ GroupValues(S)
  BY DEF GroupInputs, GroupValues
<1> HIDE DEF read
<1> QED BY <1>1, <1>2

LEMMA KernelIs ==
  ASSUME NEW S, NEW v
  PROVE  GeneratedKernel(S, v) = (CHOOSE f : IsKernel(S, f))[v]
BY DEF GeneratedKernel, IsKernel, KernelValue, Arguments, GroupValues

LEMMA KernelMeans ==
  ASSUME plan \in SchedulePlans, NEW S \in SUBSET ProgramNodes,
         \A i \in S : plan.instructions[i].op \in {"map", "copy"},
         \A w \in GroupInputs(S) : table.memory[table.handles[w]] = MeaningOf[w],
         NEW v \in GroupValues(S)
  PROVE  GeneratedKernel(S, v) = MeaningOf[v]
<1> DEFINE D == GroupInputs(S) \cup GroupValues(S)
<1>1. ASSUME NEW i \in S, NEW w \in NodeOutputs(i)
      PROVE  /\ TupleProducer(w) = i /\ w \notin ParameterIds /\ w \notin GroupInputs(S)
             /\ MeaningOf[w] = Term(plan.instructions[i], 1, Arguments(MeaningOf, i))
  <2>1. i \in ProgramNodes /\ TupleProducer(w) = i /\ w \notin ParameterIds
    BY OneProducer
  <2>2. /\ plan.instructions[i].outputs \in Seq(AllValues) /\ Len(plan.instructions[i].outputs) = 1
        /\ plan.instructions[i].op # "constant"
    BY <2>1, InstructionTyped DEF TwoOutputs
  <2>3. DOMAIN plan.instructions[i].outputs = {1}
    BY <2>2
  <2>4. w = plan.instructions[i].outputs[1]
    BY <2>3 DEF NodeOutputs, Range
  <2>5. w \notin GroupInputs(S)
    BY GroupIs
  <2> QED BY <2>1, <2>2, <2>3, <2>4, <2>5, ResultMeaning
<1>2. ASSUME NEW i \in S, NEW k \in DOMAIN programNodeInputs(i) PROVE programNodeInputs(i)[k] \in D
  <2>1. programNodeInputs(i)[k] \in Range(programNodeInputs(i))
    BY DEF Range
  <2> QED BY <2>1, GroupIs
<1>3. \E f : IsKernel(S, f)
  <2> DEFINE g == [w \in D |-> MeaningOf[w]]
  <2>1. \A w \in D : g[w] = MeaningOf[w]
    OBVIOUS
  <2>2. g = [w \in D |-> g[w]]
    OBVIOUS
  <2> HIDE DEF g
  <2>3. ASSUME NEW i \in S PROVE Arguments(g, i) = Arguments(MeaningOf, i)
    BY <1>2, <2>1, SameArguments
  <2>4. ASSUME NEW w \in D PROVE g[w] = KernelValue(S, g, w)
    <3>1. CASE w \in GroupInputs(S)
      BY <2>1, <3>1 DEF KernelValue
    <3>2. CASE w \notin GroupInputs(S)
      <4>1. PICK i \in S : w \in NodeOutputs(i)
        BY <3>2 DEF GroupValues
      <4> QED BY <1>1, <2>1, <2>3, <3>2, <4>1 DEF KernelValue
    <3> QED BY <3>1, <3>2
  <2>5. g = [w \in D |-> KernelValue(S, g, w)]
    BY <2>2, <2>4
  <2>6. IsKernel(S, g)
    BY <2>5 DEF IsKernel
  <2> QED BY <2>6
<1> DEFINE f == CHOOSE g : IsKernel(S, g)
<1>4. IsKernel(S, f)
  BY <1>3
<1> HIDE DEF f
<1>5. \A w \in D : f[w] = KernelValue(S, f, w)
  <2>1. f = [w \in D |-> KernelValue(S, f, w)]
    BY <1>4 DEF IsKernel
  <2> QED BY <2>1
<1> DEFINE T == {i \in S : \E w \in NodeOutputs(i) : f[w] # MeaningOf[w]}
<1>6. T = {}
  <2> SUFFICES ASSUME T # {} PROVE FALSE
    OBVIOUS
  <2>1. T \subseteq Nat /\ S \subseteq Nat
    BY PlanTyped
  <2>2. PICK i \in T : \A j \in T : i <= j
    <3> HIDE DEF T
    <3> QED BY <2>1, LeastNatural
  <2>3. PICK w \in NodeOutputs(i) : f[w] # MeaningOf[w]
    BY <2>2
  <2>4. i \in S /\ i \in ProgramNodes
    BY <2>2
  <2>5. ASSUME NEW k \in DOMAIN programNodeInputs(i)
        PROVE  f[programNodeInputs(i)[k]] = MeaningOf[programNodeInputs(i)[k]]
    <3> DEFINE x == programNodeInputs(i)[k]
    <3>1. x \in D /\ x \in Range(programNodeInputs(i))
      BY <1>2, <2>4 DEF Range
    <3> HIDE DEF x
    <3>2. CASE x \in GroupInputs(S)
      BY <1>5, <3>1, <3>2 DEF KernelValue, x
    <3>3. CASE x \notin GroupInputs(S)
      <4>1. PICK j \in S : x \in NodeOutputs(j)
        BY <3>1, <3>3 DEF GroupValues
      <4>2. TupleProducer(x) = j /\ x \notin ParameterIds
        BY <1>1, <4>1
      <4>3. j < i
        BY <2>4, <3>1, <4>2, OperandsAreEarlier
      <4>4. j \notin T
        <5>1. i \in Nat /\ j \in Nat
          BY <2>1, <2>4
        <5> HIDE DEF T
        <5> QED BY <2>2, <4>3, <5>1
      <4> QED BY <4>1, <4>4 DEF x
    <3> QED BY <3>2, <3>3
  <2>6. Arguments(f, i) = Arguments(MeaningOf, i)
    BY <2>5, SameArguments
  <2>7. w \in D
    BY <2>3, <2>4 DEF GroupValues
  <2>8. f[w] = Term(plan.instructions[i], 1, Arguments(f, i))
    BY <1>1, <1>5, <2>3, <2>4, <2>7 DEF KernelValue
  <2> QED BY <1>1, <2>3, <2>4, <2>6, <2>8
<1>7. f[v] = MeaningOf[v]
  BY <1>6 DEF GroupValues
<1> QED BY <1>7, KernelIs DEF f

----------------------------------------------------------------------------
(* What the locals hold at each step of an operation, and that what is kept  *)
(* is what the value means.                                                *)

Operand(c, x) == IF x \in Locals THEN c[x] ELSE MeaningOf[x]
OperandsIn(c, from) == [n \in DOMAIN from |-> Operand(c, from[n])]

Yields(act, c, d) ==
  \/ /\ act.do = "call"
     /\ \A k \in DOMAIN act.made : d[act.made[k]] = Result(act.op, k, OperandsIn(c, act.from))
     /\ \A s \in Locals : s \notin Range(act.made) => d[s] = c[s]
  \/ act.do = "keep" /\ c[act.from] = MeaningOf[act.slot] /\ d = c
  \/ act.do \in {"drop", "borrow"} /\ d = c

Meant(steps, C) == \A k \in 1 .. Len(steps) : Yields(steps[k], C[k], C[k + 1])

ContentsThrough(i) == CHOOSE C : Meant(OperationOf(i), C)

(* A step that finds the locals as they are in the end.                    *)
Steady(act, c) ==
  \/ act.do = "call" /\ \A k \in DOMAIN act.made : c[act.made[k]] = Result(act.op, k, OperandsIn(c, act.from))
  \/ act.do = "keep" /\ c[act.from] = MeaningOf[act.slot]
  \/ act.do \in {"drop", "borrow"}

LEMMA SteadyIsMeant ==
  ASSUME NEW steps, Len(steps) \in Nat, NEW c, \A k \in 1 .. Len(steps) : Steady(steps[k], c)
  PROVE  \E C : Meant(steps, C)
<1> DEFINE C == [k \in 1 .. Len(steps) + 1 |-> c]
<1>1. ASSUME NEW k \in 1 .. Len(steps) PROVE C[k] = c /\ C[k + 1] = c /\ Yields(steps[k], c, c)
  BY DEF Steady, Yields
<1> HIDE DEF C
<1>2. Meant(steps, C)
  BY <1>1 DEF Meant
<1> QED BY <1>2

LEMMA FewOperands ==
  ASSUME NEW c
  PROVE  /\ \A x : OperandsIn(c, <<x>>) = <<Operand(c, x)>>
         /\ \A x, y : OperandsIn(c, <<x, y>>) = <<Operand(c, x), Operand(c, y)>>
         /\ \A x, y, z : OperandsIn(c, <<x, y, z>>) = <<Operand(c, x), Operand(c, y), Operand(c, z)>>
BY DEF OperandsIn

LEMMA SteadyCall ==
  ASSUME NEW c, NEW l, NEW op, NEW from, NEW undo, c[l] = Result(op, 1, OperandsIn(c, from))
  PROVE  Steady(Call(<<l>>, op, from, undo), c)
<1>1. DOMAIN <<l>> = {1} /\ <<l>>[1] = l
  OBVIOUS
<1> QED BY <1>1 DEF Steady, Call

LEMMA SteadyKeep ==
  ASSUME NEW c, NEW l, NEW v, c[l] = MeaningOf[v]
  PROVE  Steady(Keep(v, l), c)
BY DEF Steady, Keep

LEMMA SteadyOther ==
  ASSUME NEW c, NEW x
  PROVE  Steady(Drop(x), c) /\ Steady(Borrow(x), c)
BY DEF Steady, Drop, Borrow

LEMMA OneCallMeant ==
  ASSUME plan \in SchedulePlans, NEW op, NEW from \in Seq(AllValues), NEW v,
         MeaningOf[v] = Result(op, 1, [n \in DOMAIN from |-> MeaningOf[from[n]]])
  PROVE  \E C : Meant(<<Call(<<-1>>, op, from, {}), Keep(v, -1)>>, C)
<1> DEFINE steps == <<Call(<<-1>>, op, from, {}), Keep(v, -1)>>
           c == [l \in Locals |-> MeaningOf[v]]
<1>1. c[-1] = MeaningOf[v]
  BY LocalsAre
<1> HIDE DEF c
<1>2. OperandsIn(c, from) = [n \in DOMAIN from |-> MeaningOf[from[n]]]
  <2>1. \A n \in DOMAIN from : from[n] \in AllValues /\ from[n] \notin Locals
    BY LocalsAre
  <2> QED BY <2>1 DEF OperandsIn, Operand
<1>3. Steady(Call(<<-1>>, op, from, {}), c) /\ Steady(Keep(v, -1), c)
  BY <1>1, <1>2, SteadyCall, SteadyKeep
<1>4. Len(steps) = 2 /\ steps[1] = Call(<<-1>>, op, from, {}) /\ steps[2] = Keep(v, -1)
  OBVIOUS
<1> HIDE DEF steps
<1>5. \A k \in 1 .. 2 : k = 1 \/ k = 2
  OBVIOUS
<1>6. Len(steps) \in Nat /\ \A k \in 1 .. Len(steps) : Steady(steps[k], c)
  BY <1>3, <1>4, <1>5
<1>7. \E C : Meant(steps, C)
  BY <1>6, SteadyIsMeant
<1> QED BY <1>7 DEF steps

Down(t) == <<"reverse", 1, <<t>>>>
Sorted(t) == Down(<<"sort", 1, <<t>>>>)
Order(t) == Down(<<"argsort", 1, <<t>>>>)

LEMMA SortDownMeant ==
  ASSUME plan \in SchedulePlans, NEW x \in AllValues, NEW v, MeaningOf[v] = Sorted(MeaningOf[x])
  PROVE  \E C : Meant(SortDown(x, v), C)
<1> DEFINE steps == SortDown(x, v)
           a == <<"sort", 1, <<MeaningOf[x]>>>>
           c == [l \in Locals |-> IF l = -1 THEN a ELSE Down(a)]
<1>1. c[-1] = a /\ c[-2] = Down(a)
  BY LocalsAre
<1> HIDE DEF c
<1>2. Operand(c, x) = MeaningOf[x] /\ Operand(c, -1) = a
  BY <1>1, LocalsAre DEF Operand
<1>3. Steady(Call(<<-1>>, "sort", <<x>>, {}), c)
  <2>1. Result("sort", 1, OperandsIn(c, <<x>>)) = a
    BY <1>2, FewOperands DEF Result
  <2> QED BY <1>1, <2>1, SteadyCall
<1>4. Steady(Call(<<-2>>, "reverse", <<-1>>, {-1}), c)
  <2>1. Result("reverse", 1, OperandsIn(c, <<-1>>)) = Down(a)
    BY <1>2, FewOperands DEF Result, Down
  <2> QED BY <1>1, <2>1, SteadyCall
<1>5. Steady(Drop(-1), c) /\ Steady(Keep(v, -2), c)
  BY <1>1, SteadyKeep, SteadyOther DEF Sorted
<1>6. /\ Len(steps) = 4 /\ steps[1] = Call(<<-1>>, "sort", <<x>>, {}) /\ steps[2] = Call(<<-2>>, "reverse", <<-1>>, {-1})
      /\ steps[3] = Drop(-1) /\ steps[4] = Keep(v, -2)
  BY DEF SortDown
<1> HIDE DEF steps
<1>7. \A k \in 1 .. 4 : k = 1 \/ k = 2 \/ k = 3 \/ k = 4
  OBVIOUS
<1>8. Len(steps) \in Nat /\ \A k \in 1 .. Len(steps) : Steady(steps[k], c)
  BY <1>3, <1>4, <1>5, <1>6, <1>7
<1>9. \E C : Meant(steps, C)
  BY <1>8, SteadyIsMeant
<1> QED BY <1>9 DEF steps

LEMMA SortPairMeant ==
  ASSUME plan \in SchedulePlans, NEW x \in AllValues, NEW y \in AllValues, NEW out,
         MeaningOf[out[1]] = Sorted(MeaningOf[x]),
         MeaningOf[out[2]] = <<"take", 1, <<MeaningOf[y], Order(MeaningOf[x])>>>>
  PROVE  \E C : Meant(SortPair(x, y, out), C)
<1> DEFINE steps == SortPair(x, y, out)
           a == <<"sort", 1, <<MeaningOf[x]>>>>
           b == <<"argsort", 1, <<MeaningOf[x]>>>>
           e == <<"take", 1, <<MeaningOf[y], Down(b)>>>>
           c == [l \in Locals |-> IF l = -1 THEN a ELSE IF l = -2 THEN Down(a) ELSE IF l = -3 THEN b
                                  ELSE IF l = -4 THEN Down(b) ELSE e]
<1>1. c[-1] = a /\ c[-2] = Down(a) /\ c[-3] = b /\ c[-4] = Down(b) /\ c[-5] = e
  BY LocalsAre
<1> HIDE DEF c
<1>2. /\ Operand(c, x) = MeaningOf[x] /\ Operand(c, y) = MeaningOf[y]
      /\ Operand(c, -1) = a /\ Operand(c, -3) = b /\ Operand(c, -4) = Down(b)
  BY <1>1, LocalsAre DEF Operand
<1>3. Steady(Call(<<-1>>, "sort", <<x>>, {}), c)
  <2>1. Result("sort", 1, OperandsIn(c, <<x>>)) = a
    BY <1>2, FewOperands DEF Result
  <2> QED BY <1>1, <2>1, SteadyCall
<1>4. Steady(Call(<<-2>>, "reverse", <<-1>>, {-1}), c)
  <2>1. Result("reverse", 1, OperandsIn(c, <<-1>>)) = Down(a)
    BY <1>2, FewOperands DEF Result, Down
  <2> QED BY <1>1, <2>1, SteadyCall
<1>5. Steady(Call(<<-3>>, "argsort", <<x>>, {-2}), c)
  <2>1. Result("argsort", 1, OperandsIn(c, <<x>>)) = b
    BY <1>2, FewOperands DEF Result
  <2> QED BY <1>1, <2>1, SteadyCall
<1>6. Steady(Call(<<-4>>, "reverse", <<-3>>, {-2, -3}), c)
  <2>1. Result("reverse", 1, OperandsIn(c, <<-3>>)) = Down(b)
    BY <1>2, FewOperands DEF Result, Down
  <2> QED BY <1>1, <2>1, SteadyCall
<1>7. Steady(Call(<<-5>>, "take", <<y, -4>>, {-2, -4}), c)
  <2>1. Result("take", 1, OperandsIn(c, <<y, -4>>)) = e
    BY <1>2, FewOperands DEF Result
  <2> QED BY <1>1, <2>1, SteadyCall
<1>8. Steady(Keep(out[1], -2), c) /\ Steady(Keep(out[2], -5), c)
  BY <1>1, SteadyKeep DEF Sorted, Order
<1>9. /\ Len(steps) = 10 /\ steps[1] = Call(<<-1>>, "sort", <<x>>, {})
      /\ steps[2] = Call(<<-2>>, "reverse", <<-1>>, {-1}) /\ steps[3] = Drop(-1)
      /\ steps[4] = Call(<<-3>>, "argsort", <<x>>, {-2})
      /\ steps[5] = Call(<<-4>>, "reverse", <<-3>>, {-2, -3}) /\ steps[6] = Drop(-3)
      /\ steps[7] = Call(<<-5>>, "take", <<y, -4>>, {-2, -4})
      /\ steps[8] = Keep(out[1], -2) /\ steps[9] = Keep(out[2], -5) /\ steps[10] = Drop(-4)
  BY DEF SortPair
<1> HIDE DEF steps
<1>10. \A k \in 1 .. 10 : k = 1 \/ k = 2 \/ k = 3 \/ k = 4 \/ k = 5 \/ k = 6 \/ k = 7 \/ k = 8 \/ k = 9 \/ k = 10
  OBVIOUS
<1>11. \A k \in 1 .. 10 : Steady(steps[k], c)
  BY <1>3, <1>4, <1>5, <1>6, <1>7, <1>8, <1>9, <1>10, SteadyOther
<1>12. Len(steps) \in Nat /\ \A k \in 1 .. Len(steps) : Steady(steps[k], c)
  BY <1>9, <1>11
<1>13. \E C : Meant(steps, C)
  BY <1>12, SteadyIsMeant
<1> QED BY <1>13 DEF steps

LEMMA BothTyped ==
  ASSUME NEW S, NEW s \in Seq(S), Len(s) = 2
  PROVE  s[1] \in S /\ s[2] \in S /\ 1 \in DOMAIN s /\ 2 \in DOMAIN s
<1>1. DOMAIN s = 1 .. Len(s)
  OBVIOUS
<1>3. \A k \in 1 .. Len(s) : s[k] \in S
  OBVIOUS
<1>2. 1 \in 1 .. Len(s) /\ 2 \in 1 .. Len(s)
  OBVIOUS
<1> QED BY <1>1, <1>2, <1>3

LEMMA WhileMeant ==
  ASSUME plan \in SchedulePlans, NEW in \in Seq(AllValues), Len(in) = 2, NEW out,
         MeaningOf[out[1]] =
           <<"loop", 1, <<MeaningOf[in[1]], MeaningOf[in[2]], <<"double", 1, <<MeaningOf[in[2]]>>>>>>>>,
         MeaningOf[out[2]] = MeaningOf[in[2]]
  PROVE  \E C : Meant(WhileLoop(in, out), C)
<1>0. in[1] \in AllValues /\ in[2] \in AllValues
  BY BothTyped
<1> DEFINE steps == WhileLoop(in, out)
           a == <<"double", 1, <<MeaningOf[in[2]]>>>>
           b == <<"loop", 1, <<MeaningOf[in[1]], MeaningOf[in[2]], a>>>>
           c == [l \in Locals |-> IF l = -1 THEN a ELSE IF l = -2 THEN b ELSE MeaningOf[in[2]]]
<1>1. c[-1] = a /\ c[-2] = b /\ c[-3] = MeaningOf[in[2]]
  BY LocalsAre
<1> HIDE DEF c
<1>2. Operand(c, in[1]) = MeaningOf[in[1]] /\ Operand(c, in[2]) = MeaningOf[in[2]] /\ Operand(c, -1) = a
  BY <1>0, <1>1, LocalsAre DEF Operand
<1>3. Steady(Call(<<-1>>, "double", <<in[2]>>, {}), c)
  <2>1. Result("double", 1, OperandsIn(c, <<in[2]>>)) = a
    BY <1>2, FewOperands DEF Result
  <2> QED BY <1>1, <2>1, SteadyCall
<1>4. Steady(Call(<<-2>>, "loop", <<in[1], in[2], -1>>, {-1}), c)
  <2>1. Result("loop", 1, OperandsIn(c, <<in[1], in[2], -1>>)) = b
    BY <1>2, FewOperands DEF Result
  <2> QED BY <1>1, <2>1, SteadyCall
<1>5. Steady(Call(<<-3>>, "clone", <<in[2]>>, {-1}), c)
  <2>1. Result("clone", 1, OperandsIn(c, <<in[2]>>)) = MeaningOf[in[2]]
    BY <1>2, FewOperands DEF Result
  <2> QED BY <1>1, <2>1, SteadyCall
<1>6. Steady(Keep(out[1], -2), c) /\ Steady(Keep(out[2], -3), c)
  BY <1>1, SteadyKeep
<1>7. /\ Len(steps) = 6 /\ steps[1] = Call(<<-1>>, "double", <<in[2]>>, {})
      /\ steps[2] = Call(<<-2>>, "loop", <<in[1], in[2], -1>>, {-1}) /\ steps[3] = Keep(out[1], -2)
      /\ steps[4] = Call(<<-3>>, "clone", <<in[2]>>, {-1}) /\ steps[5] = Keep(out[2], -3) /\ steps[6] = Drop(-1)
  BY DEF WhileLoop
<1> HIDE DEF steps
<1>8. \A k \in 1 .. 6 : k = 1 \/ k = 2 \/ k = 3 \/ k = 4 \/ k = 5 \/ k = 6
  OBVIOUS
<1>9. \A k \in 1 .. 6 : Steady(steps[k], c)
  BY <1>3, <1>4, <1>5, <1>6, <1>7, <1>8, SteadyOther
<1>10. Len(steps) \in Nat /\ \A k \in 1 .. Len(steps) : Steady(steps[k], c)
  BY <1>7, <1>9
<1>11. \E C : Meant(steps, C)
  BY <1>10, SteadyIsMeant
<1> QED BY <1>11 DEF steps

LEMMA PairMeant ==
  ASSUME plan \in SchedulePlans, NEW in \in Seq(AllValues), NEW out,
         NEW args, args = [n \in DOMAIN in |-> MeaningOf[in[n]]],
         MeaningOf[out[1]] = <<"pair", 1, args>>, MeaningOf[out[2]] = <<"pair", 2, args>>
  PROVE  \E C : Meant(PairOf(in, out), C)
<1> DEFINE steps == PairOf(in, out)
           a == <<"pair", 1, args>>
           b == <<"pair", 2, args>>
           c == [l \in Locals |-> IF l = -1 THEN a ELSE b]
<1>0. MeaningOf[out[1]] = a /\ MeaningOf[out[2]] = b
  OBVIOUS
<1> HIDE DEF a, b
<1>1. c[-1] = a /\ c[-2] = b
  BY LocalsAre
<1> HIDE DEF c
<1>2. OperandsIn(c, in) = args
  <2>1. \A n \in DOMAIN in : in[n] \in AllValues /\ in[n] \notin Locals
    BY LocalsAre
  <2> QED BY <2>1 DEF OperandsIn, Operand
<1>3. Steady(Call(<<-1, -2>>, "pair", in, {}), c)
  <2> DEFINE made == <<-1, -2>>
  <2>1. DOMAIN made = {1, 2} /\ made[1] = -1 /\ made[2] = -2
    OBVIOUS
  <2>2. Result("pair", 1, args) = c[-1] /\ Result("pair", 2, args) = c[-2]
    BY <1>1 DEF Result, a, b
  <2> HIDE DEF made
  <2>3. \A k \in DOMAIN made : c[made[k]] = Result("pair", k, args)
    BY <2>1, <2>2
  <2>4. Steady(Call(made, "pair", in, {}), c)
    BY <1>2, <2>3 DEF Steady, Call
  <2> QED BY <2>4 DEF made
<1>4. Steady(Keep(out[1], -1), c) /\ Steady(Keep(out[2], -2), c)
  BY <1>0, <1>1, SteadyKeep
<1>5. /\ Len(steps) = 3 /\ steps[1] = Call(<<-1, -2>>, "pair", in, {})
      /\ steps[2] = Keep(out[1], -1) /\ steps[3] = Keep(out[2], -2)
  BY DEF PairOf
<1> HIDE DEF steps
<1>6. \A k \in 1 .. 3 : k = 1 \/ k = 2 \/ k = 3
  OBVIOUS
<1>7. Len(steps) \in Nat /\ \A k \in 1 .. Len(steps) : Steady(steps[k], c)
  BY <1>3, <1>4, <1>5, <1>6
<1>8. \E C : Meant(steps, C)
  BY <1>7, SteadyIsMeant
<1> QED BY <1>8 DEF steps

(* A barrier reuses its local: what it holds is the operand last cloned.    *)
LEMMA BarrierMeant ==
  ASSUME plan \in SchedulePlans, NEW in \in Seq(AllValues), NEW out,
         \A k \in 1 .. Len(in) : MeaningOf[out[k]] = MeaningOf[in[k]]
  PROVE  \E C : Meant(Barrier(in, out), C)
<1> DEFINE steps == Barrier(in, out)
           n == 2 * Len(in)
           C == [j \in 1 .. n + 1 |-> [l \in Locals |-> IF l = -1 THEN MeaningOf[in[j \div 2]] ELSE 0]]
<1>0. n \in Nat /\ Len(in) \in Nat
  OBVIOUS
<1>1. /\ Len(steps) = n
      /\ \A j \in 1 .. n : steps[j] = LET k == (j + 1) \div 2 IN
           IF j % 2 = 1 THEN Call(<<-1>>, "clone", <<in[k]>>, {out[m] : m \in 1 .. k - 1}) ELSE Keep(out[k], -1)
  BY <1>0 DEF Barrier
<1>2. ASSUME NEW j \in 1 .. n PROVE Yields(steps[j], C[j], C[j + 1])
  <2> DEFINE k == (j + 1) \div 2
             undo == {out[m] : m \in 1 .. k - 1}
             c == C[j]
             d == C[j + 1]
  <2>1. k \in 1 .. Len(in) /\ j \in 1 .. n + 1 /\ j + 1 \in 1 .. n + 1
    BY <1>0
  <2>2. in[k] \in AllValues /\ MeaningOf[out[k]] = MeaningOf[in[k]]
    BY <2>1
  <2>3. d = [l \in Locals |-> IF l = -1 THEN MeaningOf[in[k]] ELSE 0]
    BY <2>1
  <2>4. c = [l \in Locals |-> IF l = -1 THEN MeaningOf[in[j \div 2]] ELSE 0]
    BY <2>1
  <2>5. CASE j % 2 = 1
    <3>1. steps[j] = Call(<<-1>>, "clone", <<in[k]>>, undo)
      BY <1>1, <2>5
    <3>2. d[-1] = MeaningOf[in[k]] /\ \A l \in Locals : l # -1 => d[l] = c[l]
      BY <2>3, <2>4, LocalsAre
    <3> HIDE DEF k, undo, steps, c, d, C
    <3>3. DOMAIN <<-1>> = {1} /\ <<-1>>[1] = -1 /\ Range(<<-1>>) = {-1}
      BY DEF Range
    <3>4. Result("clone", 1, OperandsIn(c, <<in[k]>>)) = MeaningOf[in[k]]
      <4>1. Operand(c, in[k]) = MeaningOf[in[k]]
        BY <2>2, LocalsAre DEF Operand
      <4>2. OperandsIn(c, <<in[k]>>) = <<MeaningOf[in[k]]>>
        BY <4>1, FewOperands
      <4> QED BY <4>2 DEF Result
    <3>5. Yields(Call(<<-1>>, "clone", <<in[k]>>, undo), c, d)
      BY <3>2, <3>3, <3>4 DEF Yields, Call
    <3> QED BY <3>1, <3>5 DEF c, d
  <2>6. CASE j % 2 # 1
    <3>1. steps[j] = Keep(out[k], -1)
      BY <1>1, <2>6
    <3>2. j \div 2 = k
      BY <2>6
    <3>3. c[-1] = MeaningOf[in[k]] /\ d = c
      BY <2>3, <2>4, <3>2, LocalsAre
    <3> HIDE DEF k, undo, steps, c, d, C
    <3>4. Yields(Keep(out[k], -1), c, d)
      BY <2>2, <3>3 DEF Yields, Keep
    <3> QED BY <3>1, <3>4 DEF c, d
  <2> QED BY <2>5, <2>6
<1> HIDE DEF steps, C
<1>3. Meant(steps, C)
  BY <1>1, <1>2 DEF Meant
<1> QED BY <1>3 DEF steps

LEMMA OneTyped ==
  ASSUME NEW S, NEW s \in Seq(S), Len(s) = 1
  PROVE  s[1] \in S /\ 1 \in DOMAIN s
OBVIOUS

LEMMA TermIs ==
  ASSUME NEW instruction, NEW k, NEW args
  PROVE  LET op == instruction.op IN
         /\ op \in {"copy", "barrier"} => Term(instruction, k, args) = args[k]
         /\ op = "get" => Term(instruction, k, args) = args[2]
         /\ op \in {"map", "op"} => Term(instruction, k, args) = <<"apply", 1, args>>
         /\ op = "sort" \/ (op = "sort_pair" /\ k = 1) => Term(instruction, k, args) = Sorted(args[1])
         /\ op = "sort_pair" /\ k = 2 => Term(instruction, k, args) = <<"take", 1, <<args[2], Order(args[1])>>>>
         /\ op = "pair" => Term(instruction, k, args) = <<"pair", k, args>>
         /\ op = "while" /\ k = 1 =>
              Term(instruction, k, args) = <<"loop", 1, <<args[1], args[2], <<"double", 1, <<args[2]>>>>>>>>
         /\ op = "while" /\ k = 2 => Term(instruction, k, args) = args[2]
<1> DEFINE op == instruction.op
<1>1. op \in {"copy", "barrier"} => Term(instruction, k, args) = args[k]
  BY DEF Term
<1>2. op = "get" => Term(instruction, k, args) = args[2]
  BY DEF Term
<1>3. op \in {"map", "op"} => Term(instruction, k, args) = <<"apply", 1, args>>
  BY DEF Term
<1>4. op = "sort" \/ (op = "sort_pair" /\ k = 1) => Term(instruction, k, args) = Sorted(args[1])
  BY DEF Term, Sorted, Down
<1>5. op = "sort_pair" /\ k = 2 => Term(instruction, k, args) = <<"take", 1, <<args[2], Order(args[1])>>>>
  BY DEF Term, Order, Down
<1>6. op = "pair" => Term(instruction, k, args) = <<"pair", k, args>>
  BY DEF Term
<1>7. op = "while" /\ k = 1 =>
        Term(instruction, k, args) = <<"loop", 1, <<args[1], args[2], <<"double", 1, <<args[2]>>>>>>>>
  BY DEF Term
<1>8. op = "while" /\ k = 2 => Term(instruction, k, args) = args[2]
  BY DEF Term
<1> QED BY <1>1, <1>2, <1>3, <1>4, <1>5, <1>6, <1>7, <1>8

(* Every operation keeps what its values mean.                             *)
LEMMA OperationMeant ==
  ASSUME plan \in SchedulePlans, NEW i \in ProgramNodes, plan.instructions[i].op # "top_k"
  PROVE  Meant(OperationOf(i), ContentsThrough(i))
<1> DEFINE instruction == plan.instructions[i]
           op == instruction.op
           in == instruction.inputs
           out == instruction.outputs
           args == Arguments(MeaningOf, i)
<1>1. /\ op \in Operations /\ in \in Seq(AllValues) /\ out \in Seq(AllValues)
      /\ Len(out) = IF op = "barrier" THEN Len(in) ELSE IF op \in TwoOutputs THEN 2 ELSE 1
      /\ op \in OneInput => Len(in) = 1
      /\ op \in TwoInputs => Len(in) = 2
  BY InstructionTyped
<1>2. ASSUME NEW k \in DOMAIN out, op # "constant" PROVE MeaningOf[out[k]] = Term(instruction, k, args)
  BY <1>2, ResultMeaning
<1>3. op # "get" => args = [n \in DOMAIN in |-> MeaningOf[in[n]]]
  BY DEF Arguments, programNodeInputs
<1>4. Len(out) = 1 => out[1] \in AllValues /\ 1 \in DOMAIN out
  BY <1>1, OneTyped
<1>5. /\ Len(out) = 2 => out[1] \in AllValues /\ out[2] \in AllValues /\ 1 \in DOMAIN out /\ 2 \in DOMAIN out
      /\ Len(in) = 2 => in[1] \in AllValues /\ in[2] \in AllValues /\ 1 \in DOMAIN in /\ 2 \in DOMAIN in
  BY <1>1, BothTyped
<1>6. Len(in) = 1 => in[1] \in AllValues /\ 1 \in DOMAIN in
  BY <1>1, OneTyped
<1>7. \E C : Meant(OperationOf(i), C)
  <2>1. CASE op = "constant"
    <3>1. OperationOf(i) = <<Borrow(out[1])>>
      BY <2>1 DEF OperationOf
    <3>2. Len(<<Borrow(out[1])>>) = 1 /\ <<Borrow(out[1])>>[1] = Borrow(out[1])
      OBVIOUS
    <3>3. \A k \in 1 .. 1 : k = 1
      OBVIOUS
    <3> DEFINE steps == <<Borrow(out[1])>>
               c == 0
    <3>4. Len(steps) = 1 /\ steps[1] = Borrow(out[1])
      OBVIOUS
    <3> HIDE DEF steps, c
    <3>5. Len(steps) \in Nat /\ \A k \in 1 .. Len(steps) : Steady(steps[k], c)
      BY <3>3, <3>4, SteadyOther
    <3>6. \E C : Meant(steps, C)
      BY <3>5, SteadyIsMeant
    <3> QED BY <3>1, <3>6 DEF steps
  <2>2. CASE op = "tuple"
    <3>1. OperationOf(i) = <<>> /\ Len(<<>>) = 0
      BY <2>2 DEF OperationOf
    <3>2. Meant(<<>>, 0)
      BY <3>1 DEF Meant
    <3> QED BY <3>1, <3>2
  <2>3. CASE op = "copy"
    <3>1. OperationOf(i) = <<Call(<<-1>>, "clone", in, {}), Keep(out[1], -1)>>
      BY <2>3 DEF OperationOf
    <3>2. 1 \in DOMAIN out /\ 1 \in DOMAIN in
      BY <1>1, <1>4, <1>6, <2>3 DEF TwoOutputs, OneInput
    <3>3. MeaningOf[out[1]] = args[1]
      BY <1>2, <2>3, <3>2, TermIs
    <3>4. MeaningOf[out[1]] = Result("clone", 1, [n \in DOMAIN in |-> MeaningOf[in[n]]])
      BY <1>3, <2>3, <3>3 DEF Result
    <3>5. in \in Seq(AllValues)
      BY <1>1
    <3> HIDE DEF in, out, args, op
    <3>6. \E C : Meant(<<Call(<<-1>>, "clone", in, {}), Keep(out[1], -1)>>, C)
      BY <3>4, <3>5, OneCallMeant
    <3> QED BY <3>1, <3>6
  <2>4. CASE op \in {"map", "op"}
    <3>1. OperationOf(i) = <<Call(<<-1>>, "apply", in, {}), Keep(out[1], -1)>>
      BY <2>4 DEF OperationOf
    <3>2. 1 \in DOMAIN out
      BY <1>1, <1>4, <2>4 DEF TwoOutputs
    <3>3. MeaningOf[out[1]] = <<"apply", 1, args>>
      BY <1>2, <2>4, <3>2, TermIs
    <3>4. MeaningOf[out[1]] = Result("apply", 1, [n \in DOMAIN in |-> MeaningOf[in[n]]])
      BY <1>3, <2>4, <3>3 DEF Result
    <3>5. in \in Seq(AllValues)
      BY <1>1
    <3> HIDE DEF in, out, args, op
    <3>6. \E C : Meant(<<Call(<<-1>>, "apply", in, {}), Keep(out[1], -1)>>, C)
      BY <3>4, <3>5, OneCallMeant
    <3> QED BY <3>1, <3>6
  <2>5. CASE op = "get"
    <3> DEFINE x == TupleElement(instruction)
    <3>1. OperationOf(i) = <<Call(<<-1>>, "clone", <<x>>, {}), Keep(out[1], -1)>>
      BY <2>5 DEF OperationOf
    <3>2. 1 \in DOMAIN out
      BY <1>1, <1>4, <2>5 DEF TwoOutputs
    <3>3. MeaningOf[out[1]] = args[2]
      BY <1>2, <2>5, <3>2, TermIs
    <3>4. x \in AllValues
      BY <2>5, ElementTyped
    <3> DEFINE y == in[1]
    <3>5. programNodeInputs(i) = <<y, x>>
      BY <2>5 DEF programNodeInputs
    <3> HIDE DEF x, in, out, y
    <3>6. args[2] = MeaningOf[x]
      BY <3>5 DEF Arguments
    <3>7. <<x>> \in Seq(AllValues) /\ [n \in DOMAIN <<x>> |-> MeaningOf[<<x>>[n]]][1] = MeaningOf[x]
      BY <3>4
    <3>8. MeaningOf[out[1]] = Result("clone", 1, [n \in DOMAIN <<x>> |-> MeaningOf[<<x>>[n]]])
      BY <3>3, <3>6, <3>7 DEF Result
    <3> QED BY <3>1, <3>7, <3>8, OneCallMeant
  <2>6. CASE op = "sort"
    <3>1. OperationOf(i) = SortDown(in[1], out[1])
      BY <2>6 DEF OperationOf
    <3>2. 1 \in DOMAIN out /\ in[1] \in AllValues /\ 1 \in DOMAIN in
      BY <1>1, <1>4, <1>6, <2>6 DEF TwoOutputs, OneInput
    <3>3. MeaningOf[out[1]] = Sorted(args[1])
      BY <1>2, <2>6, <3>2, TermIs
    <3>4. args[1] = MeaningOf[in[1]]
      BY <1>3, <2>6, <3>2
    <3> HIDE DEF in, out, args
    <3> QED BY <3>1, <3>2, <3>3, <3>4, SortDownMeant
  <2>7. CASE op = "sort_pair"
    <3>1. OperationOf(i) = SortPair(in[1], in[2], out)
      BY <2>7 DEF OperationOf
    <3>2. 1 \in DOMAIN out /\ 2 \in DOMAIN out /\ in[1] \in AllValues /\ in[2] \in AllValues /\ 1 \in DOMAIN in /\ 2 \in DOMAIN in
      BY <1>1, <1>5, <2>7 DEF TwoOutputs, TwoInputs
    <3>3. MeaningOf[out[1]] = Sorted(args[1]) /\ MeaningOf[out[2]] = <<"take", 1, <<args[2], Order(args[1])>>>>
      BY <1>2, <2>7, <3>2, TermIs
    <3>4. args[1] = MeaningOf[in[1]] /\ args[2] = MeaningOf[in[2]]
      BY <1>3, <2>7, <3>2
    <3> HIDE DEF in, out, args
    <3> QED BY <3>1, <3>2, <3>3, <3>4, SortPairMeant
  <2>8. CASE op = "pair"
    <3>1. OperationOf(i) = PairOf(in, out)
      BY <2>8 DEF OperationOf
    <3>2. 1 \in DOMAIN out /\ 2 \in DOMAIN out
      BY <1>1, <1>5, <2>8 DEF TwoOutputs
    <3>3. MeaningOf[out[1]] = <<"pair", 1, args>> /\ MeaningOf[out[2]] = <<"pair", 2, args>>
      BY <1>2, <2>8, <3>2, TermIs
    <3>4. args = [n \in DOMAIN in |-> MeaningOf[in[n]]]
      BY <1>3, <2>8
    <3> HIDE DEF in, out, args
    <3> QED BY <1>1, <3>1, <3>3, <3>4, PairMeant
  <2>9. CASE op = "barrier"
    <3>1. OperationOf(i) = Barrier(in, out)
      BY <2>9 DEF OperationOf
    <3>2. ASSUME NEW k \in 1 .. Len(in) PROVE MeaningOf[out[k]] = MeaningOf[in[k]]
      <4>1. k \in DOMAIN out /\ k \in DOMAIN in
        BY <1>1, <2>9
      <4>2. MeaningOf[out[k]] = args[k]
        BY <1>2, <2>9, <4>1, TermIs
      <4> QED BY <1>3, <2>9, <4>1, <4>2
    <3> HIDE DEF in, out, args
    <3> QED BY <1>1, <3>1, <3>2, BarrierMeant
  <2>10. CASE op = "while"
    <3>1. OperationOf(i) = WhileLoop(in, out) /\ Len(in) = 2
      BY <1>1, <2>10 DEF OperationOf, TwoInputs
    <3>2. 1 \in DOMAIN out /\ 2 \in DOMAIN out /\ 1 \in DOMAIN in /\ 2 \in DOMAIN in
      BY <1>1, <1>5, <2>10 DEF TwoOutputs, TwoInputs
    <3>3. /\ MeaningOf[out[1]] = <<"loop", 1, <<args[1], args[2], <<"double", 1, <<args[2]>>>>>>>>
          /\ MeaningOf[out[2]] = args[2]
      <4>1. MeaningOf[out[1]] = Term(instruction, 1, args) /\ MeaningOf[out[2]] = Term(instruction, 2, args)
        BY <1>2, <2>10, <3>2
      <4> HIDE DEF args, in, out
      <4> QED BY <2>10, <4>1, TermIs
    <3>4. args[1] = MeaningOf[in[1]] /\ args[2] = MeaningOf[in[2]]
      BY <1>3, <2>10, <3>2
    <3> HIDE DEF in, out, args
    <3> QED BY <1>1, <3>1, <3>3, <3>4, WhileMeant
  <2> QED
    BY <1>1, <2>1, <2>2, <2>3, <2>4, <2>5, <2>6, <2>7, <2>8, <2>9, <2>10 DEF Operations
<1> QED
  BY <1>7 DEF ContentsThrough

----------------------------------------------------------------------------
(* An operation stores each of its results, and nothing else.               *)

IsStore(act) == act.do \in {"keep", "borrow"}
StoredBefore(steps, n) == {v \in AllValues : \E k \in 1 .. n - 1 : IsStore(steps[k]) /\ steps[k].slot = v}
Stores(steps, V) ==
  /\ \A k \in 1 .. Len(steps) : IsStore(steps[k]) => steps[k].slot \in V
  /\ \A v \in V : \E k \in 1 .. Len(steps) : IsStore(steps[k]) /\ steps[k].slot = v

LEMMA StepsStore ==
  ASSUME NEW x, NEW y, NEW op, NEW made, NEW from, NEW undo
  PROVE  /\ ~IsStore(Call(made, op, from, undo)) /\ ~IsStore(Drop(x))
         /\ IsStore(Keep(x, y)) /\ Keep(x, y).slot = x
         /\ IsStore(Borrow(x)) /\ Borrow(x).slot = x
BY DEF IsStore, Call, Drop, Keep, Borrow

LEMMA OneCallStores ==
  ASSUME NEW op, NEW from, NEW v
  PROVE  Stores(<<Call(<<-1>>, op, from, {}), Keep(v, -1)>>, {v})
<1> DEFINE steps == <<Call(<<-1>>, op, from, {}), Keep(v, -1)>>
<1>1. Len(steps) = 2 /\ ~IsStore(steps[1]) /\ IsStore(steps[2]) /\ steps[2].slot = v
  BY StepsStore
<1> HIDE DEF steps
<1>2. \A k \in 1 .. 2 : k = 1 \/ k = 2
  OBVIOUS
<1>3. 2 \in 1 .. Len(steps)
  BY <1>1
<1>4. Stores(steps, {v})
  BY <1>1, <1>2, <1>3 DEF Stores
<1> QED BY <1>4 DEF steps

LEMMA SortDownStores ==
  ASSUME NEW x, NEW v
  PROVE  Stores(SortDown(x, v), {v})
<1> DEFINE steps == SortDown(x, v)
<1>1. /\ Len(steps) = 4 /\ ~IsStore(steps[1]) /\ ~IsStore(steps[2]) /\ ~IsStore(steps[3])
      /\ IsStore(steps[4]) /\ steps[4].slot = v
  BY StepsStore DEF SortDown
<1> HIDE DEF steps
<1>2. \A k \in 1 .. 4 : k = 1 \/ k = 2 \/ k = 3 \/ k = 4
  OBVIOUS
<1>3. 4 \in 1 .. Len(steps)
  BY <1>1
<1>4. Stores(steps, {v})
  BY <1>1, <1>2, <1>3 DEF Stores
<1> QED BY <1>4 DEF steps

LEMMA SortPairStores ==
  ASSUME NEW x, NEW y, NEW out
  PROVE  Stores(SortPair(x, y, out), {out[1], out[2]})
<1> DEFINE steps == SortPair(x, y, out)
<1>1. /\ Len(steps) = 10 /\ ~IsStore(steps[1]) /\ ~IsStore(steps[2]) /\ ~IsStore(steps[3]) /\ ~IsStore(steps[4])
      /\ ~IsStore(steps[5]) /\ ~IsStore(steps[6]) /\ ~IsStore(steps[7]) /\ ~IsStore(steps[10])
      /\ IsStore(steps[8]) /\ steps[8].slot = out[1] /\ IsStore(steps[9]) /\ steps[9].slot = out[2]
  BY StepsStore DEF SortPair
<1> HIDE DEF steps
<1>2. \A k \in 1 .. 10 : k = 1 \/ k = 2 \/ k = 3 \/ k = 4 \/ k = 5 \/ k = 6 \/ k = 7 \/ k = 8 \/ k = 9 \/ k = 10
  OBVIOUS
<1>3. 8 \in 1 .. Len(steps) /\ 9 \in 1 .. Len(steps)
  BY <1>1
<1>4. Stores(steps, {out[1], out[2]})
  BY <1>1, <1>2, <1>3 DEF Stores
<1> QED BY <1>4 DEF steps

LEMMA PairStores ==
  ASSUME NEW in, NEW out
  PROVE  Stores(PairOf(in, out), {out[1], out[2]})
<1> DEFINE steps == PairOf(in, out)
<1>1. /\ Len(steps) = 3 /\ ~IsStore(steps[1])
      /\ IsStore(steps[2]) /\ steps[2].slot = out[1] /\ IsStore(steps[3]) /\ steps[3].slot = out[2]
  BY StepsStore DEF PairOf
<1> HIDE DEF steps
<1>2. \A k \in 1 .. 3 : k = 1 \/ k = 2 \/ k = 3
  OBVIOUS
<1>3. 2 \in 1 .. Len(steps) /\ 3 \in 1 .. Len(steps)
  BY <1>1
<1>4. Stores(steps, {out[1], out[2]})
  BY <1>1, <1>2, <1>3 DEF Stores
<1> QED BY <1>4 DEF steps

LEMMA WhileStores ==
  ASSUME NEW in, NEW out
  PROVE  Stores(WhileLoop(in, out), {out[1], out[2]})
<1> DEFINE steps == WhileLoop(in, out)
<1>1. /\ Len(steps) = 6 /\ ~IsStore(steps[1]) /\ ~IsStore(steps[2]) /\ ~IsStore(steps[4]) /\ ~IsStore(steps[6])
      /\ IsStore(steps[3]) /\ steps[3].slot = out[1] /\ IsStore(steps[5]) /\ steps[5].slot = out[2]
  BY StepsStore DEF WhileLoop
<1> HIDE DEF steps
<1>2. \A k \in 1 .. 6 : k = 1 \/ k = 2 \/ k = 3 \/ k = 4 \/ k = 5 \/ k = 6
  OBVIOUS
<1>3. 3 \in 1 .. Len(steps) /\ 5 \in 1 .. Len(steps)
  BY <1>1
<1>4. Stores(steps, {out[1], out[2]})
  BY <1>1, <1>2, <1>3 DEF Stores
<1> QED BY <1>4 DEF steps

LEMMA BarrierStores ==
  ASSUME NEW S, NEW in \in Seq(S), NEW out \in Seq(S), Len(out) = Len(in)
  PROVE  Stores(Barrier(in, out), Range(out))
<1> DEFINE steps == Barrier(in, out)
           n == 2 * Len(in)
<1>0. n \in Nat /\ Len(in) \in Nat /\ DOMAIN out = 1 .. Len(in)
  OBVIOUS
<1>1. Len(steps) = n
  BY <1>0 DEF Barrier
<1>5. \A j \in 1 .. n : steps[j] = LET k == (j + 1) \div 2 IN
        IF j % 2 = 1 THEN Call(<<-1>>, "clone", <<in[k]>>, {out[m] : m \in 1 .. k - 1}) ELSE Keep(out[k], -1)
  BY <1>0 DEF Barrier
<1> HIDE DEF steps
<1>2. ASSUME NEW j \in 1 .. n, IsStore(steps[j]) PROVE steps[j].slot \in Range(out)
  <2> DEFINE k == (j + 1) \div 2
  <2>1. k \in DOMAIN out
    BY <1>0
  <2>2. CASE j % 2 = 1
    <3>1. steps[j] = Call(<<-1>>, "clone", <<in[k]>>, {out[m] : m \in 1 .. k - 1})
      BY <1>5, <2>2
    <3> QED BY <1>2, <3>1, StepsStore
  <2>3. CASE j % 2 # 1
    <3>1. steps[j] = Keep(out[k], -1)
      BY <1>5, <2>3
    <3> HIDE DEF k
    <3> QED BY <2>1, <3>1, StepsStore DEF Range
  <2> QED BY <2>2, <2>3
<1>3. ASSUME NEW v \in Range(out) PROVE \E j \in 1 .. n : IsStore(steps[j]) /\ steps[j].slot = v
  <2>1. PICK k \in 1 .. Len(in) : out[k] = v
    BY <1>0 DEF Range
  <2> DEFINE j == 2 * k
  <2>2. j \in 1 .. n /\ j % 2 # 1 /\ (j + 1) \div 2 = k
    BY <1>0
  <2>3. steps[j] = Keep(out[k], -1)
    BY <1>5, <2>2
  <2> HIDE DEF j
  <2>4. IsStore(steps[j]) /\ steps[j].slot = v
    BY <2>1, <2>2, <2>3, StepsStore
  <2> QED BY <2>2, <2>4
<1>4. Stores(steps, Range(out))
  BY <1>1, <1>2, <1>3 DEF Stores
<1> QED BY <1>4 DEF steps

LEMMA OperationStores ==
  ASSUME plan \in SchedulePlans, NEW i \in ProgramNodes, plan.instructions[i].op # "top_k"
  PROVE  Stores(OperationOf(i), IF plan.instructions[i].op = "tuple" THEN {} ELSE NodeOutputs(i))
<1> DEFINE instruction == plan.instructions[i]
           op == instruction.op
           in == instruction.inputs
           out == instruction.outputs
<1>1. /\ op \in Operations /\ in \in Seq(AllValues) /\ out \in Seq(AllValues)
      /\ Len(out) = IF op = "barrier" THEN Len(in) ELSE IF op \in TwoOutputs THEN 2 ELSE 1
  BY InstructionTyped
<1>2. Len(out) = 1 => NodeOutputs(i) = {out[1]}
  BY <1>1 DEF NodeOutputs, Range
<1>3. Len(out) = 2 => NodeOutputs(i) = {out[1], out[2]}
  <2> SUFFICES ASSUME Len(out) = 2 PROVE NodeOutputs(i) = {out[1], out[2]}
    OBVIOUS
  <2>1. DOMAIN out = {1, 2}
    <3>1. DOMAIN out = 1 .. 2
      BY <1>1
    <3> QED BY <3>1
  <2> QED BY <2>1 DEF NodeOutputs, Range
<1>4. CASE op = "constant"
  <2>1. OperationOf(i) = <<Borrow(out[1])>> /\ NodeOutputs(i) = {out[1]}
    BY <1>1, <1>2, <1>4 DEF OperationOf, TwoOutputs
  <2> DEFINE steps == <<Borrow(out[1])>>
             v == out[1]
  <2>2. Len(steps) = 1 /\ IsStore(steps[1]) /\ steps[1].slot = v
    BY StepsStore
  <2> HIDE DEF steps, v
  <2>3. \A k \in 1 .. 1 : k = 1
    OBVIOUS
  <2>4. 1 \in 1 .. Len(steps)
    BY <2>2
  <2>5. Stores(steps, {v})
    BY <2>2, <2>3, <2>4 DEF Stores
  <2> QED BY <1>4, <2>1, <2>5 DEF steps, v
<1>5. CASE op = "tuple"
  <2>1. OperationOf(i) = <<>> /\ Len(<<>>) = 0
    BY <1>5 DEF OperationOf
  <2> QED BY <1>5, <2>1 DEF Stores
<1>6. CASE op \in {"copy", "map", "op", "get"}
  <2>1. NodeOutputs(i) = {out[1]}
    BY <1>1, <1>2, <1>6 DEF TwoOutputs
  <2>2. \E what, from : OperationOf(i) = <<Call(<<-1>>, what, from, {}), Keep(out[1], -1)>>
    <3>1. CASE op = "get"
      <4>1. OperationOf(i) = <<Call(<<-1>>, "clone", <<TupleElement(instruction)>>, {}), Keep(out[1], -1)>>
        BY <3>1 DEF OperationOf
      <4> QED BY <4>1
    <3>2. CASE op = "copy"
      <4>1. OperationOf(i) = <<Call(<<-1>>, "clone", in, {}), Keep(out[1], -1)>>
        BY <3>2 DEF OperationOf
      <4> QED BY <4>1
    <3>3. CASE op \in {"map", "op"}
      <4>1. OperationOf(i) = <<Call(<<-1>>, "apply", in, {}), Keep(out[1], -1)>>
        BY <3>3 DEF OperationOf
      <4> QED BY <4>1
    <3> QED BY <1>6, <3>1, <3>2, <3>3
  <2> QED BY <1>6, <2>1, <2>2, OneCallStores
<1>7. CASE op = "sort"
  <2>1. OperationOf(i) = SortDown(in[1], out[1]) /\ NodeOutputs(i) = {out[1]}
    BY <1>1, <1>2, <1>7 DEF OperationOf, TwoOutputs
  <2> QED BY <1>7, <2>1, SortDownStores
<1>8. CASE op = "sort_pair"
  <2>1. OperationOf(i) = SortPair(in[1], in[2], out) /\ NodeOutputs(i) = {out[1], out[2]}
    BY <1>1, <1>3, <1>8 DEF OperationOf, TwoOutputs
  <2> QED BY <1>8, <2>1, SortPairStores
<1>9. CASE op = "pair"
  <2>1. OperationOf(i) = PairOf(in, out) /\ NodeOutputs(i) = {out[1], out[2]}
    BY <1>1, <1>3, <1>9 DEF OperationOf, TwoOutputs
  <2> QED BY <1>9, <2>1, PairStores
<1>10. CASE op = "barrier"
  <2>1. OperationOf(i) = Barrier(in, out) /\ NodeOutputs(i) = Range(out) /\ Len(out) = Len(in)
    BY <1>1, <1>10 DEF OperationOf, NodeOutputs
  <2> QED BY <1>1, <1>10, <2>1, BarrierStores
<1>11. CASE op = "while"
  <2>1. OperationOf(i) = WhileLoop(in, out) /\ NodeOutputs(i) = {out[1], out[2]}
    BY <1>1, <1>3, <1>11 DEF OperationOf, TwoOutputs
  <2> QED BY <1>11, <2>1, WhileStores
<1> QED
  BY <1>1, <1>4, <1>5, <1>6, <1>7, <1>8, <1>9, <1>10, <1>11 DEF Operations

----------------------------------------------------------------------------
(* What the buffers hold.  No operation on the table writes a buffer that     *)
(* remains.                                                                *)

SameMemory(t, u) == \A h \in Existing(t) \cap Existing(u) : u.memory[h] = t.memory[h]

(* The arguments and the constants are as they were; a value that is bound is *)
(* bound to its meaning.                                                   *)
MeansWell(t) ==
  /\ \A h \in HeldByOthers : t.memory[h] = Original(h)
  /\ \A v \in AllValues : t.handles[v] # NoHandle => t.memory[t.handles[v]] = MeaningOf[v]
LocalsHold(t, l, c) == \A s \in Locals : l[s] # NoHandle => t.memory[l[s]] = c[s]
GivenMean(t, o) == \A k \in DOMAIN o : t.memory[o[k]] = MeaningOf[plan.output_ids[k]]

LEMMA MeansAfter ==
  ASSUME NEW t, NEW l, NEW o, Balanced(t, l, o), Bound(t, o), MeansWell(t),
         NEW u, NEW m, NEW p, Balanced(u, m, p), Bound(u, p), SameMemory(t, u),
         \A v \in AllValues : u.handles[v] # NoHandle =>
           u.handles[v] = t.handles[v] \/ u.memory[u.handles[v]] = MeaningOf[v]
  PROVE  MeansWell(u)
<1>1. ASSUME NEW h \in HeldByOthers PROVE u.memory[h] = Original(h)
  BY DEF Balanced, OwnersHold, SameMemory, MeansWell
<1>2. ASSUME NEW v \in AllValues, u.handles[v] # NoHandle, u.handles[v] = t.handles[v]
      PROVE  u.memory[u.handles[v]] = MeaningOf[v]
  <2>1. u.handles[v] \in Existing(u) /\ t.handles[v] \in Existing(t)
    BY <1>2, BoundExists
  <2> QED BY <1>2, <2>1 DEF SameMemory, MeansWell
<1> QED BY <1>1, <1>2 DEF MeansWell

LEMMA LocalsAfter ==
  ASSUME NEW t, NEW l, NEW o, Balanced(t, l, o), NEW c, LocalsHold(t, l, c),
         NEW u, NEW m, NEW p, Balanced(u, m, p), SameMemory(t, u),
         \A s \in Locals : m[s] # NoHandle => m[s] = l[s]
  PROVE  LocalsHold(u, m, c)
<1> SUFFICES ASSUME NEW s \in Locals, m[s] # NoHandle PROVE u.memory[m[s]] = c[s]
  BY DEF LocalsHold
<1>1. m[s] = l[s] /\ m[s] \in Existing(u) /\ m[s] \in Existing(t)
  BY DEF Balanced, OwnersHold
<1> QED BY <1>1 DEF SameMemory, LocalsHold

LEMMA RestrictedMemory ==
  ASSUME NEW t, NEW u, NEW S, u.memory = Restrict(t.memory, S)
  PROVE  SameMemory(t, u) /\ Existing(u) = S
<1>1. Existing(u) = S /\ \A h \in S : u.memory[h] = t.memory[h]
  BY DEF Existing, Restrict
<1> QED BY <1>1 DEF SameMemory

LEMMA ReleaseIs ==
  ASSUME NEW t, NEW l, NEW o, Balanced(t, l, o), NEW vs \in SUBSET AllValues
  PROVE  LET u == ReleaseAll(t, vs) IN
         /\ SameMemory(t, u) /\ Existing(u) \subseteq Existing(t)
         /\ \A v \in AllValues : u.handles[v] = IF v \in vs /\ t.owned[v] THEN NoHandle ELSE t.handles[v]
         /\ \A v \in AllValues : u.owned[v] <=> t.owned[v] /\ v \notin vs
<1> DEFINE gone == {t.handles[v] : v \in {w \in vs : t.owned[w]}}
           left == Restrict(t.memory, Existing(t) \ gone)
           d == DestroyOwned(t, vs)
           u == ReleaseAll(t, vs)
<1>1. d = [memory |-> left, handles |-> t.handles, owned |-> t.owned, misused |-> FALSE]
  BY DestroyOwnedIs
<1>2. u = [d EXCEPT
             !.handles = [v \in AllValues |-> IF v \in vs /\ t.owned[v] THEN NoHandle ELSE d.handles[v]],
             !.owned = [v \in AllValues |-> d.owned[v] /\ v \notin vs]]
  BY DEF ReleaseAll
<1> HIDE DEF left, d, u
<1>3. /\ u.memory = left
      /\ u.handles = [v \in AllValues |-> IF v \in vs /\ t.owned[v] THEN NoHandle ELSE t.handles[v]]
      /\ u.owned = [v \in AllValues |-> t.owned[v] /\ v \notin vs]
  BY <1>1, <1>2
<1>4. SameMemory(t, u) /\ Existing(u) \subseteq Existing(t)
  BY <1>3, RestrictedMemory DEF left
<1>5. \A v \in AllValues : u.handles[v] = IF v \in vs /\ t.owned[v] THEN NoHandle ELSE t.handles[v]
  BY <1>3
<1>6. \A v \in AllValues : u.owned[v] <=> t.owned[v] /\ v \notin vs
  BY <1>3, Zenon
<1> QED BY <1>4, <1>5, <1>6 DEF u

LEMMA StoreMemory ==
  ASSUME NEW t, NEW l, NEW o, Balanced(t, l, o), NEW v \in AllValues, NEW h, NEW b
  PROVE  LET u == Store(t, v, h, b) IN
         /\ SameMemory(t, u) /\ Existing(u) \subseteq Existing(t)
         /\ u.handles[v] = h /\ u.owned[v] = b
         /\ \A w \in AllValues \ {v} : u.handles[w] = t.handles[w] /\ u.owned[w] = t.owned[w]
<1> DEFINE u == Store(t, v, h, b)
           gone == IF t.owned[v] THEN {t.handles[v]} ELSE {}
           left == Restrict(t.memory, Existing(t) \ gone)
<1>1. u = [memory |-> left, handles |-> [t.handles EXCEPT ![v] = h], owned |-> [t.owned EXCEPT ![v] = b],
           misused |-> FALSE]
  BY StoreIs
<1>2. t.handles = [w \in AllValues |-> t.handles[w]] /\ t.owned = [w \in AllValues |-> t.owned[w]]
  BY DEF Balanced, IsTable
<1> HIDE DEF left, u
<1>3. /\ u.memory = left /\ u.handles = [t.handles EXCEPT ![v] = h] /\ u.owned = [t.owned EXCEPT ![v] = b]
  BY <1>1
<1>4. SameMemory(t, u) /\ Existing(u) \subseteq Existing(t)
  BY <1>3, RestrictedMemory DEF left
<1>5. /\ u.handles[v] = h /\ u.owned[v] = b
      /\ \A w \in AllValues \ {v} : u.handles[w] = t.handles[w] /\ u.owned[w] = t.owned[w]
  BY <1>2, <1>3
<1> QED BY <1>4, <1>5 DEF u

LEMMA DestroyMemory ==
  ASSUME NEW t, IsTable(t), NEW gone \in SUBSET Existing(t)
  PROVE  LET u == DestroyAll(t, gone) IN
         SameMemory(t, u) /\ Existing(u) \subseteq Existing(t) /\ u.handles = t.handles /\ u.owned = t.owned
<1> DEFINE u == DestroyAll(t, gone)
           left == Restrict(t.memory, Existing(t) \ gone)
<1>1. u = [memory |-> left, handles |-> t.handles, owned |-> t.owned, misused |-> FALSE]
  BY DestroyAllIs
<1> HIDE DEF left, u
<1>2. u.memory = left /\ u.handles = t.handles /\ u.owned = t.owned
  BY <1>1
<1> QED BY <1>2, RestrictedMemory DEF left, u

LEMMA DeinitMemory ==
  ASSUME NEW t, NEW l, NEW o, Balanced(t, l, o)
  PROVE  SameMemory(t, Deinit(t)) /\ \A v \in AllValues : Deinit(t).handles[v] = NoHandle
<1> DEFINE gone == {t.handles[v] : v \in {w \in AllValues : t.owned[w]}}
           left == Restrict(t.memory, Existing(t) \ gone)
           d == DestroyOwned(t, AllValues)
           u == Deinit(t)
<1>1. d = [memory |-> left, handles |-> t.handles, owned |-> t.owned, misused |-> FALSE]
  BY DestroyOwnedIs
<1>2. u = [d EXCEPT !.handles = [v \in AllValues |-> NoHandle], !.owned = [v \in AllValues |-> FALSE]]
  BY DEF Deinit
<1> HIDE DEF left, d, u
<1>3. u.memory = left /\ u.handles = [v \in AllValues |-> NoHandle]
  BY <1>1, <1>2
<1> QED BY <1>3, RestrictedMemory DEF left, u

LEMMA WithBuffersMemory ==
  ASSUME NEW t, IsTable(t), NEW n \in Nat, NEW new \in NewBuffers(t, n), NEW c
  PROVE  LET u == WithBuffers(t, new, c) IN
         /\ SameMemory(t, u) /\ u.handles = t.handles /\ u.owned = t.owned
         /\ \A k \in 1 .. n : u.memory[new[k]] = c[k]
<1> DEFINE memory == [h \in Existing(t) \cup Range(new) |->
                        IF h \in Range(new) THEN c[CHOOSE k \in DOMAIN new : new[k] = h] ELSE t.memory[h]]
           u == WithBuffers(t, new, c)
<1>1. u = [t EXCEPT !.memory = memory]
  BY DEF WithBuffers
<1>2. Range(new) \cap Existing(t) = {}
  BY DEF NewBuffers, Range
<1>3. DOMAIN new = 1 .. n /\ IsInjective(new)
  BY DEF NewBuffers
<1>4. \A h \in Existing(t) : memory[h] = t.memory[h]
  BY <1>2
<1>5. ASSUME NEW k \in 1 .. n PROVE memory[new[k]] = c[k]
  <2>1. new[k] \in Range(new) /\ (CHOOSE j \in DOMAIN new : new[j] = new[k]) = k
    BY <1>3 DEF IsInjective, Range
  <2> QED BY <2>1
<1> HIDE DEF memory, u
<1>6. u.memory = memory /\ u.handles = t.handles /\ u.owned = t.owned
  BY <1>1 DEF IsTable
<1> QED BY <1>4, <1>5, <1>6 DEF SameMemory, u

----------------------------------------------------------------------------
(* What is bound, held or handed over is what it means.                    *)

ContentOK(pos, op, t, o, oc) ==
  /\ MeansWell(t) /\ GivenMean(t, o)
  /\ oc = "running" /\ pos \in ProgramNodes => LocalsHold(t, op.local, ContentsThrough(pos)[op.at])
  /\ oc = "returned" => Len(o) = Len(plan.output_ids)

Faithful == ContentOK(position, operation, table, outputs, outcome)

LEMMA SameMeaning ==
  ASSUME plan' = plan
  PROVE  /\ MeaningOf' = MeaningOf /\ AllValues' = AllValues /\ HeldByOthers' = HeldByOthers
         /\ ProgramNodes' = ProgramNodes
         /\ \A h : Original(h)' = Original(h)
<1>1. AllValues' = AllValues /\ HeldByOthers' = HeldByOthers /\ ProgramNodes' = ProgramNodes
  BY DEF AllValues, HeldByOthers, ProgramNodes, ParameterIds, ResidentConstants, NodeOutputs
<1>2. \A h : Original(h)' = Original(h)
  BY DEF Original, ParameterIds
<1>3. MeaningOf' = MeaningOf
  BY DEF MeaningOf, Term, programNodeInputs, TupleElement, TupleProducer, NodeOutputs, ProgramNodes,
         AllValues, HeldByOthers, ParameterIds, ResidentConstants, Original
<1> QED BY <1>1, <1>2, <1>3

LEMMA SameContent ==
  ASSUME plan' = plan
  PROVE  Faithful' <=> ContentOK(position', operation', table', outputs', outcome')
<1>1. (OperationOf(position))' = OperationOf(position')
  BY DEF OperationOf, TupleElement, TupleProducer, NodeOutputs, ProgramNodes
<1>6. MeaningOf' = MeaningOf
  BY SameMeaning
<1>2. (ContentsThrough(position))' = ContentsThrough(position')
  BY <1>1, <1>6 DEF ContentsThrough, Meant, Yields, OperandsIn, Operand
<1>3. MeansWell(table)' <=> MeansWell(table')
  BY SameMeaning DEF MeansWell
<1>4. GivenMean(table, outputs)' <=> GivenMean(table', outputs')
  BY SameMeaning DEF GivenMean
<1>5. LocalsHold(table, operation.local, ContentsThrough(position)[operation.at])'
        <=> LocalsHold(table', operation'.local, ContentsThrough(position')[operation'.at])
  BY <1>2 DEF LocalsHold
<1> QED BY <1>3, <1>4, <1>5, SameMeaning DEF Faithful, ContentOK

(* The state after a step is accounted for as the one before it.            *)
LEMMA StepBalanced ==
  ASSUME WalkInv, WalkInv', plan' = plan
  PROVE  /\ plan \in SchedulePlans
         /\ Balanced(table, operation.local, outputs) /\ Bound(table, outputs)
         /\ Balanced(table', operation'.local, outputs') /\ Bound(table', outputs')
BY SamePlan DEF WalkInv, StateOK

(* A walk that fails leaves the arguments and the constants as they were.    *)
LEMMA WalkFailsMeans ==
  ASSUME WalkInv, WalkInv', Faithful, NEW t, Balanced(t, NoLocals, <<>>), SameMemory(table, t), WalkFails(t)
  PROVE  Faithful'
<1>1. /\ plan' = plan /\ outcome' = "failed" /\ table' = Deinit(t) /\ outputs' = <<>>
  BY DEF WalkFails
<1>2. SameMemory(t, table') /\ \A v \in AllValues : table'.handles[v] = NoHandle
  BY <1>1, DeinitMemory
<1>3. HeldByOthers \subseteq Existing(table) /\ HeldByOthers \subseteq Existing(t) /\ HeldByOthers \subseteq Existing(table')
  BY <1>1, StepBalanced DEF Balanced, OwnersHold
<1>4. MeansWell(table')
  BY <1>2, <1>3 DEF Faithful, ContentOK, MeansWell, SameMemory
<1>5. GivenMean(table', outputs')
  BY <1>1 DEF GivenMean
<1>6. ContentOK(position', operation', table', outputs', outcome')
  BY <1>1, <1>4, <1>5 DEF ContentOK
<1> QED BY <1>1, <1>6, SameContent

(* A step of an operation.                                                 *)
LEMMA StepMeans ==
  ASSUME WalkInv, Faithful, NoTopK, NEW kind, AtStep(kind)
  PROVE  LET C == ContentsThrough(position) IN
         /\ LocalsHold(table, operation.local, C[operation.at])
         /\ Yields(Step, C[operation.at], C[operation.at + 1])
         /\ outputs = <<>> /\ MeansWell(table)
<1>1. outcome = "running" /\ position \in ProgramNodes /\ operation.at \in DOMAIN OperationOf(position)
  BY DEF AtStep
<1>2. Disciplined(OperationOf(position), HeldThrough(position)) /\ Meant(OperationOf(position), ContentsThrough(position))
  BY <1>1, OperationDisciplined, OperationMeant DEF NoTopK, WalkInv, ProgramNodes
<1>3. operation.at \in 1 .. Len(OperationOf(position))
  BY <1>1, <1>2 DEF Disciplined
<1> QED BY <1>1, <1>2, <1>3, StepFollows DEF Faithful, ContentOK, Meant, Step

LEMMA ProceedMeans ==
  ASSUME WalkInv, WalkInv', Faithful, NoTopK, NEW kind, AtStep(kind), NEW t, NEW l, Proceed(t, l),
         MeansWell(t), LocalsHold(t, l, ContentsThrough(position)[operation.at + 1])
  PROVE  Faithful'
<1>1. /\ plan' = plan /\ position' = position /\ outcome' = outcome /\ outputs' = outputs /\ table' = t
      /\ operation' = [at |-> operation.at + 1, local |-> l]
  BY DEF Proceed
<1>2. outputs = <<>> /\ outcome = "running"
  BY StepFollows DEF AtStep
<1>3. GivenMean(table', outputs')
  BY <1>1, <1>2 DEF GivenMean
<1>4. ContentOK(position', operation', table', outputs', outcome')
  BY <1>1, <1>2, <1>3 DEF ContentOK
<1> QED BY <1>1, <1>4, SameContent

----------------------------------------------------------------------------
(* The steps of an operation: a call makes what its results mean.           *)

LEMMA UndoneMemory ==
  ASSUME WalkInv, NoTopK, AtStep("call")
  PROVE  /\ Balanced(Undone(table, Step.undo), NoLocals, <<>>)
         /\ SameMemory(table, Undone(table, Step.undo))
<1> DEFINE before == HeldThrough(position)[operation.at]
           gone == {operation.local[s] : s \in before}
           d == DestroyAll(table, gone)
           u == Undone(table, Step.undo)
<1>1. /\ Step.do = "call" /\ outputs = <<>> /\ before \subseteq Locals
      /\ \A s \in Locals : operation.local[s] # NoHandle <=> s \in before
      /\ Follows(Step, before, HeldThrough(position)[operation.at + 1])
  BY StepFollows
<1>2. Step.undo \subseteq Locals \cup AllValues /\ Step.undo \cap Locals = before
  BY <1>1 DEF Follows
<1>3. Balanced(table, operation.local, outputs) /\ Bound(table, outputs) /\ IsTable(table)
  BY DEF WalkInv, StateOK, Balanced
<1>4. Balanced(d, Without(operation.local, before), <<>>)
  BY <1>1, <1>3, DropAccounted
<1>5. Without(operation.local, before) = NoLocals
  BY <1>1 DEF Without, NoLocals
<1>6. Step.undo \ Locals \in SUBSET AllValues
  BY <1>2
<1>7. u = ReleaseAll(d, Step.undo \ Locals)
  BY <1>2 DEF Undone
<1>8. gone \in SUBSET Existing(table)
  BY <1>1, <1>3 DEF Balanced, OwnersHold
<1> HIDE DEF gone
<1>9. SameMemory(table, d) /\ Existing(d) \subseteq Existing(table)
  BY <1>3, <1>8, DestroyMemory
<1> HIDE DEF d, u
<1>10. Balanced(u, NoLocals, <<>>) /\ SameMemory(d, u) /\ Existing(u) \subseteq Existing(d)
  <2> DEFINE vs == Step.undo \ Locals
  <2>1. Balanced(d, NoLocals, <<>>) /\ vs \in SUBSET AllValues
    BY <1>4, <1>5, <1>6
  <2> HIDE DEF vs
  <2>2. Balanced(ReleaseAll(d, vs), NoLocals, <<>>)
    BY <2>1, ReleaseAccounted
  <2>3. SameMemory(d, ReleaseAll(d, vs)) /\ Existing(ReleaseAll(d, vs)) \subseteq Existing(d)
    BY <2>1, ReleaseIs
  <2> QED BY <1>7, <2>2, <2>3 DEF vs
<1>11. SameMemory(table, u)
  BY <1>9, <1>10 DEF SameMemory
<1> QED BY <1>10, <1>11 DEF u

(* The operands of a call hold what they mean.                             *)
LEMMA OperandsMean ==
  ASSUME WalkInv, Faithful, NoTopK, AtStep("call"),
         NEW k \in DOMAIN Step.from, HandleOf(Step.from[k]) \in Existing(table)
  PROVE  table.memory[HandleOf(Step.from[k])] = Operand(ContentsThrough(position)[operation.at], Step.from[k])
<1> DEFINE before == HeldThrough(position)[operation.at]
           x == Step.from[k]
           c == ContentsThrough(position)[operation.at]
<1>1. /\ Step.do = "call" /\ before \subseteq Locals
      /\ \A s \in Locals : operation.local[s] # NoHandle <=> s \in before
      /\ Follows(Step, before, HeldThrough(position)[operation.at + 1])
  BY StepFollows
<1>2. x \in before \cup AllValues
  BY <1>1 DEF Follows
<1>3. HandleOf(x) # NoHandle /\ LocalsHold(table, operation.local, c) /\ MeansWell(table)
  <2>1. Existing(table) \subseteq BackendHandles
    BY DEF WalkInv, StateOK, Balanced, IsTable
  <2> QED BY <2>1, NoHandleIsNone, StepMeans
<1>4. plan \in SchedulePlans
  BY DEF WalkInv
<1> HIDE DEF x, c, before
<1>5. HandleOf(x) = IF x \in Locals THEN operation.local[x] ELSE table.handles[x]
  BY DEF HandleOf
<1>6. table.memory[HandleOf(x)] = Operand(c, x)
  BY <1>1, <1>2, <1>3, <1>5 DEF Operand, LocalsHold, MeansWell
<1> QED BY <1>6 DEF x, c

LEMMA CallBackendMeans == ASSUME WalkInv, WalkInv', Faithful, NoTopK, CallBackend PROVE Faithful'
<1> DEFINE handles == [k \in DOMAIN Step.from |-> HandleOf(Step.from[k])]
           t == Reading(table, Range(handles))
           slots == DOMAIN Step.made
           n == Len(Step.made)
           new == CHOOSE f \in Fresh(n) : TRUE
           contents == [k \in DOMAIN handles |-> t.memory[handles[k]]]
           results == [k \in slots |-> Result(Step.op, k, contents)]
           local == [l \in Locals |-> IF l \in Range(Step.made)
                                       THEN new[CHOOSE k \in slots : Step.made[k] = l]
                                       ELSE operation.local[l]]
<1>1. /\ AtStep("call")
      /\ \/ WalkFails(Undone(t, Step.undo))
         \/ /\ Range(handles) \subseteq Existing(t)
            /\ Fresh(n) # {}
            /\ Proceed(WithBuffers(t, new, results), local)
  BY DEF CallBackend
<1> DEFINE c == ContentsThrough(position)[operation.at]
           d == ContentsThrough(position)[operation.at + 1]
           before == HeldThrough(position)[operation.at]
<1>2. /\ Step.do = "call"
      /\ \A s \in Locals : operation.local[s] # NoHandle <=> s \in before
      /\ Follows(Step, before, HeldThrough(position)[operation.at + 1])
  BY <1>1, StepFollows
<1>3. /\ Step.made \in Seq(Locals \ before) /\ IsInjective(Step.made)
      /\ \A k \in DOMAIN Step.from : Step.from[k] \in before \cup AllValues
  BY <1>2 DEF Follows
<1>4. Balanced(table, operation.local, outputs) /\ Bound(table, outputs) /\ IsTable(table)
  BY DEF WalkInv, StateOK, Balanced
<1>5. before \subseteq Locals
  BY <1>1, StepFollows
<1>6. t = table
  <2>1. \A k \in DOMAIN Step.from : HandleOf(Step.from[k]) \in Existing(table) \cup {NoHandle}
    BY <1>2, <1>3, <1>5, OperandExists
  <2>2. Range(handles) \subseteq Existing(table) \cup {NoHandle}
    BY <2>1 DEF Range
  <2> HIDE DEF handles
  <2> QED BY <1>4, <2>2, ReadingIs
<1>7. CASE WalkFails(Undone(t, Step.undo))
  <2> HIDE DEF t
  <2> QED BY <1>1, <1>6, <1>7, UndoneMemory, WalkFailsMeans
<1>8. CASE /\ Range(handles) \subseteq Existing(t)
           /\ Fresh(n) # {}
           /\ Proceed(WithBuffers(t, new, results), local)
  <2> DEFINE w == WithBuffers(table, new, results)
  <2>1. n \in Nat /\ slots = 1 .. n
    BY <1>3
  <2>2. new \in NewBuffers(table, n)
    BY <1>8 DEF Fresh, NewBuffers
  <2>3. contents = OperandsIn(c, Step.from)
    <3>1. \A k \in DOMAIN Step.from : HandleOf(Step.from[k]) \in Existing(table)
      BY <1>6, <1>8 DEF Range
    <3>2. \A k \in DOMAIN Step.from : table.memory[HandleOf(Step.from[k])] = Operand(c, Step.from[k])
      <4> HIDE DEF c
      <4> QED BY <1>1, <3>1, OperandsMean DEF c
    <3>3. contents = [k \in DOMAIN Step.from |-> table.memory[HandleOf(Step.from[k])]]
      BY <1>6
    <3> HIDE DEF contents, c
    <3> QED BY <3>2, <3>3 DEF OperandsIn
  <2>4. /\ LocalsHold(table, operation.local, c) /\ Yields(Step, c, d) /\ MeansWell(table)
    <3> HIDE DEF t, results
    <3> QED BY <1>1, StepMeans
  <2>5. \A k \in slots : results[k] = d[Step.made[k]]
    <3> HIDE DEF c, d, contents
    <3>1. \A k \in slots : d[Step.made[k]] = Result(Step.op, k, contents)
      BY <1>2, <2>3, <2>4 DEF Yields
    <3> QED BY <3>1
  <2>6. \A s \in Locals : s \notin Range(Step.made) => d[s] = c[s]
    <3> HIDE DEF c, d
    <3> QED BY <1>2, <2>4 DEF Yields
  <2> HIDE DEF results, contents, t, new, c, d, n
  <2>7. /\ SameMemory(table, w) /\ w.handles = table.handles
        /\ \A k \in 1 .. n : w.memory[new[k]] = results[k]
    BY <1>4, <2>1, <2>2, WithBuffersMemory
  <2>8. table' = w /\ plan' = plan /\ operation'.local = local
    <3> HIDE DEF local
    <3> QED BY <1>6, <1>8 DEF Proceed
  <2>9. MeansWell(w)
    <3> HIDE DEF w
    <3> QED BY <2>4, <2>7, <2>8, StepBalanced, MeansAfter
  <2>10. ASSUME NEW s \in Locals, local[s] # NoHandle PROVE w.memory[local[s]] = d[s]
    <3> HIDE DEF w
    <3>1. CASE s \in Range(Step.made)
      <4> DEFINE k == CHOOSE j \in slots : Step.made[j] = s
      <4>1. k \in slots /\ Step.made[k] = s
        BY <3>1 DEF Range
      <4>2. local[s] = new[k]
        BY <3>1
      <4> HIDE DEF k, local
      <4> QED BY <2>1, <2>5, <2>7, <4>1, <4>2
    <3>2. CASE s \notin Range(Step.made)
      <4>1. local[s] = operation.local[s]
        BY <3>2
      <4>2. local[s] \in Existing(w)
        <5>1. OwnersHold(w, local, outputs')
          BY <2>8, StepBalanced DEF Balanced
        <5> HIDE DEF local
        <5> QED BY <2>10, <5>1 DEF OwnersHold
      <4>3. operation.local[s] \in Existing(table)
        BY <1>4, <2>10, <4>1 DEF Balanced, OwnersHold
      <4> HIDE DEF local
      <4> QED BY <2>4, <2>6, <2>7, <2>10, <3>2, <4>1, <4>2, <4>3 DEF SameMemory, LocalsHold
    <3> QED BY <3>1, <3>2
  <2>11. LocalsHold(w, local, d)
    <3> HIDE DEF local, w
    <3> QED BY <2>10 DEF LocalsHold
  <2>12. AtStep("call") /\ Proceed(w, local)
    BY <1>1, <1>6, <1>8
  <2> HIDE DEF local, w
  <2> QED BY <2>9, <2>11, <2>12, ProceedMeans DEF d
<1> QED BY <1>1, <1>7, <1>8

(* A table is left that binds what it did, or less.                        *)
LEMMA LessMeans ==
  ASSUME WalkInv, WalkInv', plan' = plan, MeansWell(table), SameMemory(table, table'),
         \A v \in AllValues : table'.handles[v] # NoHandle => table'.handles[v] = table.handles[v]
  PROVE  MeansWell(table')
BY StepBalanced, MeansAfter

LEMMA DropLocalMeans == ASSUME WalkInv, WalkInv', Faithful, NoTopK, DropLocal PROVE Faithful'
<1> DEFINE s == Step.slot
           l == operation.local
           t == DestroyAll(table, {l[s]})
           m == [l EXCEPT ![s] = NoHandle]
           c == ContentsThrough(position)[operation.at]
           d == ContentsThrough(position)[operation.at + 1]
           before == HeldThrough(position)[operation.at]
<1>1. AtStep("drop") /\ Proceed(t, m)
  BY DEF DropLocal
<1>2. /\ Step.do = "drop" /\ before \subseteq Locals /\ \A r \in Locals : l[r] # NoHandle <=> r \in before
      /\ Follows(Step, before, HeldThrough(position)[operation.at + 1])
  BY <1>1, StepFollows
<1>3. s \in Locals /\ l[s] # NoHandle
  BY <1>2 DEF Follows
<1>4. LocalsHold(table, l, c) /\ Yields(Step, c, d) /\ MeansWell(table)
  BY <1>1, StepMeans
<1>5. d = c
  <2> HIDE DEF c, d
  <2> QED BY <1>2, <1>4 DEF Yields
<1>6. plan' = plan /\ table' = t /\ operation'.local = m
  BY <1>1 DEF Proceed
<1>7. Balanced(table, l, outputs) /\ Balanced(table', m, outputs') /\ IsTable(table) /\ IsLocal(l)
  BY <1>6, StepBalanced DEF Balanced
<1> HIDE DEF c, d, s, l, before
<1>8. SameMemory(table, t) /\ t.handles = table.handles
  <2>1. {l[s]} \in SUBSET Existing(table)
    BY <1>3, <1>7 DEF Balanced, OwnersHold
  <2> QED BY <1>7, <2>1, DestroyMemory
<1> HIDE DEF t
<1>9. MeansWell(t)
  BY <1>4, <1>6, <1>8, LessMeans
<1>10. \A r \in Locals : m[r] # NoHandle => m[r] = l[r]
  BY <1>7 DEF IsLocal
<1> HIDE DEF m
<1>11. LocalsHold(t, m, d)
  BY <1>4, <1>5, <1>6, <1>7, <1>8, <1>10, LocalsAfter
<1> QED BY <1>1, <1>9, <1>11, ProceedMeans DEF d

LEMMA KeepResultMeans == ASSUME WalkInv, WalkInv', Faithful, NoTopK, KeepResult PROVE Faithful'
<1> DEFINE s == Step.from
           v == Step.slot
           l == operation.local
           t == Store(table, v, l[s], TRUE)
           m == [l EXCEPT ![s] = NoHandle]
           c == ContentsThrough(position)[operation.at]
           d == ContentsThrough(position)[operation.at + 1]
           before == HeldThrough(position)[operation.at]
<1>1. AtStep("keep") /\ Proceed(t, m)
  BY DEF KeepResult
<1>2. /\ Step.do = "keep" /\ before \subseteq Locals /\ \A r \in Locals : l[r] # NoHandle <=> r \in before
      /\ Follows(Step, before, HeldThrough(position)[operation.at + 1])
  BY <1>1, StepFollows
<1>3. s \in Locals /\ l[s] # NoHandle /\ v \in AllValues
  BY <1>2 DEF Follows
<1>4. LocalsHold(table, l, c) /\ Yields(Step, c, d) /\ MeansWell(table)
  BY <1>1, StepMeans
<1>5. d = c /\ c[s] = MeaningOf[v]
  <2> HIDE DEF c, d
  <2> QED BY <1>2, <1>4 DEF Yields
<1>6. plan' = plan /\ table' = t /\ operation'.local = m
  BY <1>1 DEF Proceed
<1>7. /\ Balanced(table, l, outputs) /\ Bound(table, outputs) /\ IsLocal(l)
      /\ Balanced(table', m, outputs') /\ Bound(table', outputs')
  BY <1>6, StepBalanced DEF Balanced
<1> HIDE DEF c, d, s, l, v, before
<1>8. /\ SameMemory(table, t) /\ t.handles[v] = l[s] /\ t.owned[v] = TRUE
      /\ \A w \in AllValues \ {v} : t.handles[w] = table.handles[w]
  <2> DEFINE h == l[s]
             b == TRUE
  <2>1. Balanced(table, l, outputs) /\ v \in AllValues
    BY <1>3, <1>7
  <2> HIDE DEF h, b
  <2>2. LET u == Store(table, v, h, b) IN
        /\ SameMemory(table, u) /\ Existing(u) \subseteq Existing(table)
        /\ u.handles[v] = h /\ u.owned[v] = b
        /\ \A w \in AllValues \ {v} : u.handles[w] = table.handles[w] /\ u.owned[w] = table.owned[w]
    BY <2>1, StoreMemory
  <2> QED BY <2>2 DEF h, b
<1> HIDE DEF t
<1>9. \A r \in Locals : m[r] # NoHandle => m[r] = l[r]
  BY <1>7 DEF IsLocal
<1> HIDE DEF m
<1>10. t.memory[t.handles[v]] = MeaningOf[v]
  <2>1. t.handles[v] \in Existing(t) /\ t.handles[v] \in Existing(table)
    BY <1>3, <1>6, <1>7, <1>8 DEF Balanced, OwnersHold
  <2> QED BY <1>3, <1>4, <1>5, <1>8, <2>1 DEF SameMemory, LocalsHold
<1>11. MeansWell(t)
  BY <1>4, <1>6, <1>7, <1>8, <1>10, MeansAfter
<1>12. LocalsHold(t, m, d)
  BY <1>4, <1>5, <1>6, <1>7, <1>8, <1>9, LocalsAfter
<1> QED BY <1>1, <1>11, <1>12, ProceedMeans DEF d

LEMMA BorrowConstantMeans == ASSUME WalkInv, WalkInv', Faithful, NoTopK, BorrowConstant PROVE Faithful'
<1> DEFINE v == Step.slot
           l == operation.local
           t == Store(table, v, v, FALSE)
           c == ContentsThrough(position)[operation.at]
           d == ContentsThrough(position)[operation.at + 1]
           before == HeldThrough(position)[operation.at]
<1>1. AtStep("borrow") /\ Proceed(t, l)
  BY DEF BorrowConstant
<1>2. /\ Step.do = "borrow"
      /\ Follows(Step, before, HeldThrough(position)[operation.at + 1])
  BY <1>1, StepFollows
<1>3. v \in HeldByOthers \cap AllValues
  BY <1>2 DEF Follows
<1>4. LocalsHold(table, l, c) /\ Yields(Step, c, d) /\ MeansWell(table)
  BY <1>1, StepMeans
<1>5. d = c
  <2> HIDE DEF c, d
  <2> QED BY <1>2, <1>4 DEF Yields
<1>6. plan' = plan /\ table' = t /\ operation'.local = l
  BY <1>1 DEF Proceed
<1>7. /\ Balanced(table, l, outputs) /\ Bound(table, outputs) /\ plan \in SchedulePlans
      /\ Balanced(table', l, outputs') /\ Bound(table', outputs')
  BY <1>6, StepBalanced DEF Balanced
<1> HIDE DEF c, d, l, v, before
<1>8. /\ SameMemory(table, t) /\ t.handles[v] = v
      /\ \A w \in AllValues \ {v} : t.handles[w] = table.handles[w]
  <2> DEFINE h == v
             b == FALSE
  <2>1. Balanced(table, l, outputs) /\ v \in AllValues
    BY <1>3, <1>7
  <2> HIDE DEF h, b
  <2>2. LET u == Store(table, v, h, b) IN
        /\ SameMemory(table, u) /\ Existing(u) \subseteq Existing(table)
        /\ u.handles[v] = h /\ u.owned[v] = b
        /\ \A w \in AllValues \ {v} : u.handles[w] = table.handles[w] /\ u.owned[w] = table.owned[w]
    BY <2>1, StoreMemory
  <2> QED BY <2>2 DEF h, b
<1> HIDE DEF t
<1>9. t.memory[v] = MeaningOf[v]
  <2>1. v \in Existing(t) /\ v \in Existing(table)
    BY <1>3, <1>6, <1>7 DEF Balanced, OwnersHold
  <2>2. table.memory[v] = Original(v) /\ MeaningOf[v] = Original(v)
    BY <1>3, <1>4, <1>7, OriginalMeaning DEF MeansWell
  <2> QED BY <1>8, <2>1, <2>2 DEF SameMemory
<1>10. MeansWell(t)
  BY <1>4, <1>6, <1>7, <1>8, <1>9, MeansAfter
<1>11. LocalsHold(t, l, d)
  BY <1>4, <1>5, <1>6, <1>7, <1>8, LocalsAfter
<1> QED BY <1>1, <1>10, <1>11, ProceedMeans DEF d

----------------------------------------------------------------------------
(* From node to node.                                                      *)

DeadOf(S) == UNION {DeadAfter(S, i) : i \in S}

LEMMA ReleaseAfterIs ==
  ASSUME plan \in SchedulePlans, NEW t, NEW l, NEW o, Balanced(t, l, o), NEW S \in SUBSET ProgramNodes
  PROVE  LET u == ReleaseAfter(t, S) IN
         /\ SameMemory(t, u) /\ Existing(u) \subseteq Existing(t)
         /\ \A v \in AllValues : u.handles[v] = IF v \in DeadOf(S) /\ t.owned[v] THEN NoHandle ELSE t.handles[v]
         /\ \A v \in AllValues : u.owned[v] <=> t.owned[v] /\ v \notin DeadOf(S)
<1>1. DeadOf(S) \in SUBSET AllValues
  BY NodeTyped DEF DeadOf, DeadAfter
<1>2. ReleaseAfter(t, S) = ReleaseAll(t, DeadOf(S))
  BY DEF ReleaseAfter, DeadOf
<1> QED BY <1>1, <1>2, ReleaseIs

(* What one call makes is held by one local.                               *)
LEMMA OneGained ==
  ASSUME NEW t, NEW o, Balanced(t, NoLocals, o), Bound(t, o), NEW new \in NewBuffers(t, 1), NEW c
  PROVE  LET l == Gained(NoLocals, <<-1>>, new) IN
         /\ Balanced(WithBuffers(t, new, c), l, o) /\ Bound(WithBuffers(t, new, c), o)
         /\ l[-1] = new[1] /\ l[-1] # NoHandle
         /\ [l EXCEPT ![-1] = NoHandle] = NoLocals
<1> DEFINE made == <<-1>>
           l == Gained(NoLocals, made, new)
           n == 1
<1>1. /\ made \in [1 .. 1 -> Locals] /\ IsInjective(made) /\ Range(made) = {-1}
      /\ \A k \in 1 .. 1 : NoLocals[made[k]] = NoHandle
  <2>1. DOMAIN made = 1 .. 1 /\ made[1] = -1 /\ -1 \in Locals
    BY DEF Locals
  <2> QED BY <2>1 DEF IsInjective, Range, NoLocals
<1>2. n \in Nat /\ new \in NewBuffers(t, n)
  OBVIOUS
<1>3. made \in [1 .. n -> Locals] /\ IsInjective(made) /\ \A k \in 1 .. n : NoLocals[made[k]] = NoHandle
  BY <1>1
<1>4. l[-1] = new[1]
  <2>1. \A k \in DOMAIN made : k = 1
    BY <1>1
  <2>2. made[1] = -1 /\ 1 \in DOMAIN made /\ -1 \in Locals
    BY DEF Locals
  <2> HIDE DEF made
  <2>3. -1 \in Range(made) /\ (CHOOSE k \in DOMAIN made : made[k] = -1) = 1
    BY <1>1, <2>1, <2>2
  <2> QED BY <2>2, <2>3 DEF Gained
<1> HIDE DEF n, made
<1>5. /\ Balanced(WithBuffers(t, new, c), l, o)
      /\ Bound(WithBuffers(t, new, c), o)
      /\ \A s \in Locals : l[s] # NoHandle <=> NoLocals[s] # NoHandle \/ s \in Range(made)
  BY <1>2, <1>3, GainAccounted
<1>6. l[-1] # NoHandle
  BY <1>1, <1>5 DEF Locals
<1>7. [l EXCEPT ![-1] = NoHandle] = NoLocals
  <2>1. \A s \in Locals : s # -1 => l[s] = NoHandle
    BY <1>1, <1>5 DEF NoLocals
  <2>2. l = [s \in Locals |-> l[s]]
    BY DEF Gained
  <2> HIDE DEF l
  <2> QED BY <2>1, <2>2 DEF NoLocals
<1> QED BY <1>4, <1>5, <1>6, <1>7 DEF made

LEMMA AdvanceMeans ==
  ASSUME WalkInv, plan' = plan, outputs' = outputs, outcome = "running", outcome' = outcome, operation' = NoOperation,
         MeansWell(table')
  PROVE  Faithful'
<1>1. outputs = <<>>
  BY DEF WalkInv, StateOK
<1>2. GivenMean(table', outputs')
  BY <1>1 DEF GivenMean
<1>3. \A s \in Locals : operation'.local[s] = NoHandle
  BY DEF NoOperation
<1>4. LocalsHold(table', operation'.local, ContentsThrough(position')[operation'.at])
  BY <1>3 DEF LocalsHold
<1>5. ContentOK(position', operation', table', outputs', outcome')
  BY <1>2, <1>4 DEF ContentOK
<1> QED BY <1>5, SameContent

LEMMA FinishNodeMeans == ASSUME WalkInv, WalkInv', Faithful, NoTopK, FinishNode PROVE Faithful'
<1> DEFINE scope == IF programNodeIsFusible(position) THEN FusionGroupOf(position) ELSE {position}
<1>1. /\ outcome = "running" /\ position \in ProgramNodes
      /\ table' = (IF position = Max(scope) THEN ReleaseAfter(table, scope) ELSE table)
      /\ operation' = NoOperation /\ plan' = plan /\ outputs' = outputs /\ outcome' = outcome
  BY DEF FinishNode
<1>2. scope \subseteq ProgramNodes
  BY <1>1 DEF FusionGroupOf
<1>3. Balanced(table, operation.local, outputs) /\ plan \in SchedulePlans /\ MeansWell(table)
  BY DEF WalkInv, StateOK, Faithful, ContentOK
<1> HIDE DEF scope
<1>4. /\ SameMemory(table, table')
      /\ \A v \in AllValues : table'.handles[v] # NoHandle => table'.handles[v] = table.handles[v]
  <2>1. CASE position = Max(scope)
    BY <1>1, <1>2, <1>3, <2>1, ReleaseAfterIs
  <2>2. CASE position # Max(scope)
    BY <1>1, <2>2 DEF SameMemory
  <2> QED BY <2>1, <2>2
<1>5. MeansWell(table')
  BY <1>1, <1>3, <1>4, LessMeans
<1> QED BY <1>1, <1>5, AdvanceMeans

LEMMA RunGroupKernelMeans == ASSUME WalkInv, WalkInv', Faithful, NoTopK, RunGroupKernel PROVE Faithful'
<1> DEFINE S == FusionGroupOf(position)
           result == CHOOSE v \in GroupOutputs(S) : TRUE
           handles == {table.handles[v] : v \in GroupInputs(S)}
           t == Reading(table, handles)
           new == CHOOSE f \in Fresh(1) : TRUE
           contents == <<GeneratedKernel(S, result)>>
           w == WithBuffers(t, new, contents)
<1>1. /\ outcome = "running" /\ position \in ProgramNodes /\ operation = NoOperation
      /\ \A i \in S : plan.instructions[i].op \in {"map", "copy"}
      /\ Cardinality(GroupOutputs(S)) = 1
      /\ \/ WalkFails(t)
         \/ /\ handles \subseteq Existing(t)
            /\ Fresh(1) # {}
            /\ table' = ReleaseAfter(Store(w, result, new[1], TRUE), S)
            /\ position' = Max(S) + 1
            /\ UNCHANGED <<plan, tracing, operation, outputs, outcome>>
  BY DEF RunGroupKernel
<1>2. /\ plan \in SchedulePlans /\ outputs = <<>> /\ MeansWell(table)
      /\ Balanced(table, NoLocals, outputs) /\ Bound(table, outputs) /\ IsTable(table)
  BY <1>1, NoOperationIs DEF WalkInv, StateOK, Balanced, Faithful, ContentOK
<1>3. S \in SUBSET ProgramNodes
  BY DEF FusionGroupOf
<1>4. GroupOutputs(S) # {}
  <2> HIDE DEF S
  <2> QED BY <1>1, FS_EmptySet
<1>5. result \in GroupOutputs(S) /\ result \in AllValues /\ GroupInputs(S) \subseteq AllValues
  <2> HIDE DEF S
  <2> QED BY <1>2, <1>3, <1>4, NodesTyped
<1>6. t = table
  <2>1. handles \subseteq Existing(table) \cup {NoHandle}
    BY <1>2, <1>5, BoundExists
  <2> HIDE DEF handles
  <2> QED BY <1>2, <2>1, ReadingIs
<1>7. CASE WalkFails(t)
  <2>1. SameMemory(table, table)
    BY DEF SameMemory
  <2> HIDE DEF t
  <2> QED BY <1>2, <1>6, <1>7, <2>1, WalkFailsMeans
<1>8. CASE /\ handles \subseteq Existing(t)
           /\ Fresh(1) # {}
           /\ table' = ReleaseAfter(Store(w, result, new[1], TRUE), S)
           /\ position' = Max(S) + 1
           /\ UNCHANGED <<plan, tracing, operation, outputs, outcome>>
  <2> DEFINE made == <<-1>>
             l == Gained(NoLocals, made, new)
             u == Store(w, result, new[1], TRUE)
  <2>1. new \in NewBuffers(table, 1)
    BY <1>8 DEF Fresh, NewBuffers
  <2>2. handles \subseteq Existing(table)
    BY <1>6, <1>8
  <2>3. \A x \in GroupInputs(S) : table.memory[table.handles[x]] = MeaningOf[x]
    <3>1. ASSUME NEW x \in GroupInputs(S) PROVE table.handles[x] # NoHandle
      BY <1>2, <2>2, NoHandleIsNone DEF IsTable
    <3> HIDE DEF S, handles
    <3> QED BY <1>2, <1>5, <3>1 DEF MeansWell
  <2>4. GeneratedKernel(S, result) = MeaningOf[result]
    <3>1. result \in GroupValues(S)
      <4> HIDE DEF S, result
      <4> QED BY <1>5 DEF GroupOutputs, GroupValues
    <3> HIDE DEF S, result
    <3> QED BY <1>1, <1>2, <1>3, <2>3, <3>1, KernelMeans
  <2>5. w = WithBuffers(table, new, contents)
    BY <1>6
  <2>6. contents[1] = MeaningOf[result]
    BY <2>4
  <2> HIDE DEF new, contents, t, w, S, result, handles
  <2>7. SameMemory(table, w) /\ w.handles = table.handles /\ w.owned = table.owned /\ w.memory[new[1]] = MeaningOf[result]
    <3> DEFINE n == 1
    <3>1. n \in Nat /\ new \in NewBuffers(table, n) /\ 1 \in 1 .. n
      BY <2>1
    <3> HIDE DEF n
    <3>2. /\ SameMemory(table, w) /\ w.handles = table.handles /\ w.owned = table.owned
          /\ \A k \in 1 .. n : w.memory[new[k]] = contents[k]
      BY <1>2, <2>5, <3>1, WithBuffersMemory
    <3> QED BY <2>6, <3>1, <3>2
  <2>8. Balanced(w, l, outputs) /\ Bound(w, outputs) /\ l[-1] = new[1] /\ l[-1] # NoHandle
    BY <1>2, <2>1, <2>5, OneGained
  <2>9. Balanced(u, [l EXCEPT ![-1] = NoHandle], outputs) /\ Bound(u, outputs)
    <3> HIDE DEF l
    <3>1. u = Store(w, result, l[-1], TRUE)
      BY <2>8, Zenon
    <3>4. -1 \in Locals
      BY DEF Locals
    <3> HIDE DEF u
    <3>2. Balanced(Store(w, result, l[-1], TRUE), [l EXCEPT ![-1] = NoHandle], outputs)
      BY <1>5, <2>8, <3>4, KeepAccounted
    <3>3. Bound(Store(w, result, l[-1], TRUE), outputs)
      BY <1>5, <2>8, <3>4, KeepAccounted
    <3> QED BY <3>1, <3>2, <3>3
  <2>10. /\ SameMemory(w, u) /\ u.handles[result] = new[1] /\ u.owned[result] = TRUE
         /\ \A x \in AllValues \ {result} : u.handles[x] = w.handles[x]
    <3> DEFINE h == new[1]
               b == TRUE
    <3> HIDE DEF h, b, l
    <3>1. LET r == Store(w, result, h, b) IN
          /\ SameMemory(w, r) /\ Existing(r) \subseteq Existing(w)
          /\ r.handles[result] = h /\ r.owned[result] = b
          /\ \A x \in AllValues \ {result} : r.handles[x] = w.handles[x] /\ r.owned[x] = w.owned[x]
      BY <1>5, <2>8, StoreMemory
    <3> QED BY <3>1 DEF h, b
  <2> HIDE DEF l
  <2>11. MeansWell(w)
    BY <1>2, <2>7, <2>8, MeansAfter
  <2>12. MeansWell(u)
    <3> HIDE DEF u
    <3>1. u.memory[u.handles[result]] = MeaningOf[result]
      <4>1. new[1] \in Existing(u)
        BY <1>5, <2>8, <2>9, <2>10, BoundExists
      <4>2. -1 \in Locals
        BY DEF Locals
      <4>3. new[1] \in Existing(w)
        BY <2>8, <4>2 DEF Balanced, OwnersHold
      <4> QED BY <2>7, <2>10, <4>1, <4>3 DEF SameMemory
    <3> QED BY <2>8, <2>9, <2>10, <2>11, <3>1, MeansAfter
  <2>13. /\ SameMemory(u, table')
         /\ \A v \in AllValues : table'.handles[v] # NoHandle => table'.handles[v] = u.handles[v]
    <3> HIDE DEF u
    <3>1. table' = ReleaseAfter(u, S)
      BY <1>8 DEF u
    <3> QED BY <1>2, <1>3, <2>9, <3>1, ReleaseAfterIs
  <2>14. MeansWell(table')
    <3> HIDE DEF u
    <3> QED BY <1>8, <2>9, <2>12, <2>13, StepBalanced, MeansAfter
  <2> QED BY <1>1, <1>8, <2>14, AdvanceMeans
<1> QED BY <1>1, <1>7, <1>8

----------------------------------------------------------------------------
(* The beginning and the end of the walk.                                  *)

LEMMA UnwalkedMeans == ASSUME plan \in SchedulePlans, Unwalked PROVE Faithful
<1>1. /\ outputs = <<>> /\ outcome = "new"
      /\ table.memory = [h \in HeldByOthers |-> Original(h)]
      /\ table.handles = [v \in AllValues |-> NoHandle]
  BY DEF Unwalked
<1>2. MeansWell(table)
  BY <1>1 DEF MeansWell
<1>3. GivenMean(table, outputs)
  BY <1>1 DEF GivenMean
<1> QED BY <1>1, <1>2, <1>3 DEF Faithful, ContentOK

LEMMA BindArgumentsMeans == ASSUME WalkInv, WalkInv', Faithful, BindArguments PROVE Faithful'
<1> DEFINE bound == [v \in AllValues |-> IF v \in ParameterIds THEN v ELSE NoHandle]
<1>1. /\ outcome = "new" /\ outcome' = "running" /\ plan' = plan
      /\ operation' = operation /\ outputs' = outputs
      /\ table' = [table EXCEPT !.handles = bound]
  BY DEF BindArguments
<1>2. /\ plan \in SchedulePlans /\ outputs = <<>> /\ operation = NoOperation /\ MeansWell(table) /\ IsTable(table)
  BY <1>1 DEF WalkInv, StateOK, Faithful, ContentOK, Balanced
<1> HIDE DEF bound
<1>3. table'.memory = table.memory /\ table'.handles = bound
  BY <1>1, <1>2 DEF IsTable
<1>4. ASSUME NEW v \in AllValues, bound[v] # NoHandle PROVE bound[v] = v /\ v \in HeldByOthers
  BY <1>4 DEF bound, HeldByOthers
<1>5. MeansWell(table')
  <2>1. ASSUME NEW v \in AllValues, bound[v] # NoHandle PROVE table.memory[bound[v]] = MeaningOf[v]
    BY <1>2, <1>4, <2>1, OriginalMeaning DEF MeansWell
  <2> QED BY <1>2, <1>3, <2>1 DEF MeansWell
<1>6. GivenMean(table', outputs')
  BY <1>1, <1>2 DEF GivenMean
<1>7. \A s \in Locals : operation'.local[s] = NoHandle
  BY <1>1, <1>2 DEF NoOperation
<1>8. ContentOK(position', operation', table', outputs', outcome')
  BY <1>1, <1>5, <1>6, <1>7 DEF ContentOK, LocalsHold
<1> QED BY <1>1, <1>8, SameContent

LEMMA EvaluateOutputsMeans == ASSUME WalkInv, WalkInv', Faithful, EvaluateOutputs PROVE Faithful'
<1>1. outcome = "running" /\ AtEnd
  BY DEF EvaluateOutputs
<1>2. position \notin ProgramNodes
  BY <1>1, PlanTyped DEF AtEnd, WalkInv
<1>3. Balanced(table, NoLocals, <<>>) /\ SameMemory(table, table)
  BY <1>1, <1>2, NoOperationIs DEF WalkInv, StateOK, SameMemory
<1>4. CASE WalkFails(table)
  BY <1>3, <1>4, WalkFailsMeans
<1>5. CASE outcome' = "evaluated" /\ UNCHANGED <<plan, tracing, position, operation, table, outputs>>
  <2>1. ContentOK(position', operation', table', outputs', outcome')
    BY <1>5 DEF Faithful, ContentOK
  <2> QED BY <1>5, <2>1, SameContent
<1> QED BY <1>4, <1>5 DEF EvaluateOutputs

(* The outputs handed over keep what they hold.                            *)
LEMMA GivenAfter ==
  ASSUME WalkInv, WalkInv', plan' = plan, GivenMean(table, outputs), SameMemory(table, table'),
         NEW k \in DOMAIN outputs, k \in DOMAIN outputs', outputs'[k] = outputs[k]
  PROVE  table'.memory[outputs'[k]] = MeaningOf[plan.output_ids[k]]
<1>1. outputs[k] \in Existing(table) /\ outputs'[k] \in Existing(table')
  BY StepBalanced DEF Balanced, OwnersHold
<1> QED BY <1>1 DEF GivenMean, SameMemory

LEMMA GivesOneMore ==
  ASSUME WalkInv, WalkInv', Faithful, UNCHANGED <<plan, tracing, position, operation, outcome>>, outcome = "evaluated",
         NEW h, outputs' = Append(outputs, h), SameMemory(table, table'), table'.handles = table.handles,
         table'.memory[h] = MeaningOf[plan.output_ids[Len(outputs) + 1]]
  PROVE  Faithful'
<1>1. outputs \in Seq(BackendHandles) /\ MeansWell(table) /\ GivenMean(table, outputs)
  BY DEF WalkInv, StateOK, Balanced, IsGiven, Faithful, ContentOK
<1>2. /\ DOMAIN outputs' = DOMAIN outputs \cup {Len(outputs) + 1}
      /\ \A k \in DOMAIN outputs : outputs'[k] = outputs[k]
      /\ outputs'[Len(outputs) + 1] = h
  BY <1>1, AppendIs
<1>3. \A k \in DOMAIN outputs : table'.memory[outputs'[k]] = MeaningOf[plan.output_ids[k]]
  BY <1>1, <1>2, GivenAfter
<1>4. GivenMean(table', outputs')
  BY <1>2, <1>3 DEF GivenMean
<1>5. MeansWell(table')
  BY <1>1, LessMeans
<1>6. ContentOK(position', operation', table', outputs', outcome')
  BY <1>4, <1>5 DEF ContentOK
<1> QED BY <1>6, SameContent

LEMMA HandOverOutputMeans == ASSUME WalkInv, WalkInv', Faithful, HandOverOutput PROVE Faithful'
<1> DEFINE v == plan.output_ids[Len(outputs) + 1]
           h == table.handles[v]
           t == Reading(table, {h})
           new == CHOOSE f \in Fresh(1) : TRUE
           contents == <<t.memory[h]>>
<1>1. /\ outcome = "evaluated" /\ Len(outputs) < Len(plan.output_ids)
      /\ \/ /\ h # NoHandle /\ table.owned[v]
            /\ table' = [table EXCEPT !.owned[v] = FALSE]
            /\ outputs' = Append(outputs, h)
            /\ UNCHANGED <<plan, tracing, position, operation, outcome>>
         \/ /\ h \in Existing(t) /\ Fresh(1) # {}
            /\ table' = WithBuffers(t, new, contents)
            /\ outputs' = Append(outputs, new[1])
            /\ UNCHANGED <<plan, tracing, position, operation, outcome>>
         \/ WalkFails(DestroyAll(t, Range(outputs)))
  BY DEF HandOverOutput
<1>2. /\ plan \in SchedulePlans /\ MeansWell(table)
      /\ Balanced(table, NoLocals, outputs) /\ Bound(table, outputs) /\ IsTable(table)
      /\ outputs \in Seq(BackendHandles)
  BY <1>1, NoOperationIs DEF WalkInv, StateOK, Balanced, IsGiven, Faithful, ContentOK
<1>3. v \in AllValues
  <2>1. plan.output_ids \in Seq(AllValues)
    BY <1>2, PlanTyped
  <2>2. Len(outputs) + 1 \in DOMAIN plan.output_ids
    BY <1>1, <1>2, <2>1
  <2> QED BY <2>1, <2>2
<1>4. h # NoHandle => table.memory[h] = MeaningOf[v]
  <2> HIDE DEF v
  <2> QED BY <1>2, <1>3 DEF MeansWell
<1>5. t = table
  <2>1. {h} \subseteq Existing(table) \cup {NoHandle}
    <3> HIDE DEF v
    <3> QED BY <1>2, <1>3, BoundExists
  <2> HIDE DEF h
  <2> QED BY <1>2, <2>1, ReadingIs
<1>6. CASE WalkFails(DestroyAll(t, Range(outputs)))
  <2>1. Balanced(DestroyAll(table, Range(outputs)), NoLocals, <<>>)
    BY <1>2, RevokeAccounted
  <2>2. Range(outputs) \in SUBSET Existing(table)
    BY <1>2 DEF Balanced, OwnersHold, Range
  <2>3. SameMemory(table, DestroyAll(table, Range(outputs)))
    BY <1>2, <2>2, DestroyMemory
  <2> HIDE DEF t
  <2> QED BY <1>5, <1>6, <2>1, <2>3, WalkFailsMeans
<1>7. CASE /\ h # NoHandle
           /\ table' = [table EXCEPT !.owned[v] = FALSE]
           /\ outputs' = Append(outputs, h)
           /\ UNCHANGED <<plan, tracing, position, operation, outcome>>
  <2> HIDE DEF h, v
  <2>1. table'.memory = table.memory /\ table'.handles = table.handles
    BY <1>2, <1>7 DEF IsTable
  <2>2. SameMemory(table, table') /\ table'.memory[h] = MeaningOf[v]
    BY <1>4, <1>7, <2>1 DEF SameMemory
  <2> QED BY <1>1, <1>7, <2>1, <2>2, GivesOneMore DEF v
<1>8. CASE /\ h \in Existing(t) /\ Fresh(1) # {}
           /\ table' = WithBuffers(t, new, contents)
           /\ outputs' = Append(outputs, new[1])
           /\ UNCHANGED <<plan, tracing, position, operation, outcome>>
  <2> DEFINE n == 1
  <2>1. n \in Nat /\ new \in NewBuffers(table, n) /\ 1 \in 1 .. n
    <3>1. new \in Fresh(1)
      BY <1>8
    <3>2. Fresh(1) = NewBuffers(table, 1)
      BY DEF Fresh, NewBuffers
    <3> QED BY <3>1, <3>2
  <2>2. contents[1] = MeaningOf[v]
    <3>1. h # NoHandle
      <4> HIDE DEF h
      <4> QED BY <1>2, <1>5, <1>8, NoHandleIsNone DEF IsTable
    <3>2. contents[1] = table.memory[h]
      BY <1>5
    <3> HIDE DEF h, v, contents
    <3> QED BY <1>4, <3>1, <3>2
  <2> HIDE DEF new, t, contents, v, n
  <2>3. /\ SameMemory(table, table') /\ table'.handles = table.handles
        /\ \A k \in 1 .. n : table'.memory[new[k]] = contents[k]
    BY <1>2, <1>5, <1>8, <2>1, WithBuffersMemory
  <2>4. table'.memory[new[1]] = MeaningOf[v]
    BY <2>1, <2>2, <2>3
  <2> QED BY <1>1, <1>8, <2>3, <2>4, GivesOneMore DEF v
<1> QED BY <1>1, <1>6, <1>7, <1>8

LEMMA ReturnOutputsMeans == ASSUME WalkInv, WalkInv', Faithful, ReturnOutputs PROVE Faithful'
<1>1. /\ outcome = "evaluated" /\ table' = Deinit(table) /\ outcome' = "returned"
      /\ Len(outputs) = Len(plan.output_ids)
      /\ UNCHANGED <<plan, tracing, position, operation, outputs>>
  BY DEF ReturnOutputs
<1>2. Balanced(table, operation.local, outputs) /\ MeansWell(table) /\ GivenMean(table, outputs)
  BY DEF WalkInv, StateOK, Faithful, ContentOK
<1>3. SameMemory(table, table') /\ \A v \in AllValues : table'.handles[v] = NoHandle
  BY <1>1, <1>2, DeinitMemory
<1>4. MeansWell(table')
  BY <1>1, <1>2, <1>3, LessMeans
<1>5. GivenMean(table', outputs')
  <2>1. \A k \in DOMAIN outputs : table'.memory[outputs'[k]] = MeaningOf[plan.output_ids[k]]
    BY <1>1, <1>2, <1>3, GivenAfter
  <2> QED BY <1>1, <2>1 DEF GivenMean
<1>6. ContentOK(position', operation', table', outputs', outcome')
  BY <1>1, <1>4, <1>5 DEF ContentOK
<1> QED BY <1>1, <1>6, SameContent

LEMMA StutterMeans == ASSUME Faithful, UNCHANGED scheduleVars PROVE Faithful'
BY SameContent DEF Faithful, scheduleVars

LEMMA FaithfulNext == NoTopK /\ WalkInv /\ WalkInv' /\ Faithful /\ [ScheduleNext]_scheduleVars => Faithful'
BY BindArgumentsMeans, CallBackendMeans, DropLocalMeans, KeepResultMeans, BorrowConstantMeans, FinishNodeMeans,
   RunGroupKernelMeans, EvaluateOutputsMeans, HandOverOutputMeans, ReturnOutputsMeans, StutterMeans DEF ScheduleNext

LEMMA FaithfulAlways == ASSUME NoTopK PROVE ScheduleSpec => []Faithful
<1>1. ScheduleInit => Faithful
  BY UnwalkedMeans DEF ScheduleInit
<1>2. WalkInv /\ WalkInv' /\ Faithful /\ [ScheduleNext]_scheduleVars => Faithful'
  BY FaithfulNext
<1>3. ScheduleSpec => []WalkInv
  BY WalkInvariance
<1> QED BY <1>1, <1>2, <1>3, PTL DEF ScheduleSpec

----------------------------------------------------------------------------
(* The last node that reads a value, and the fusion groups.                 *)

LEMMA LastUseIs ==
  ASSUME plan \in SchedulePlans, NEW v
  PROVE  /\ lastUseNode(v) \in Nat /\ \A i \in ReadBy(v) : i <= lastUseNode(v)
         /\ ReadBy(v) # {} => lastUseNode(v) \in ReadBy(v)
<1> DEFINE S == {0} \cup ReadBy(v)
           n == Len(plan.instructions)
<1>1. n \in Nat /\ ReadBy(v) \subseteq 1 .. n
  BY PlanTyped DEF ReadBy
<1>2. S \in SUBSET (0 .. n) /\ S # {}
  BY <1>1
<1>3. lastUseNode(v) = Max(S)
  BY DEF lastUseNode
<1> HIDE DEF S, n
<1>4. Max(S) \in S /\ \A x \in S : x <= Max(S)
  BY <1>1, <1>2, GreatestIs
<1>5. ReadBy(v) # {} => lastUseNode(v) # 0
  BY <1>1, <1>3, <1>4 DEF S
<1> QED BY <1>1, <1>3, <1>4, <1>5 DEF S

LEMMA UnreadIs ==
  ASSUME plan \in SchedulePlans, NEW v, lastUseNode(v) # 0
  PROVE  lastUseNode(v) \in ReadBy(v)
<1>1. CASE ReadBy(v) = {}
  <2>1. lastUseNode(v) = Max({0})
    BY <1>1 DEF lastUseNode
  <2>2. {0} \in SUBSET (0 .. 0) /\ {0} # {}
    OBVIOUS
  <2>3. Max({0}) \in {0}
    BY <2>2, GreatestIs
  <2> QED BY <2>1, <2>3
<1>2. CASE ReadBy(v) # {}
  BY <1>2, LastUseIs
<1> QED BY <1>1, <1>2

LEMMA PairIs ==
  ASSUME NEW i \in Nat, NEW j \in Nat, i <= j
  PROVE  Min({i, j}) = i /\ Max({i, j}) = j
<1>1. Min({i, j}) = i
  BY LeastIs
<1>2. {i, j} \in SUBSET (0 .. j) /\ {i, j} # {}
  OBVIOUS
<1>3. Max({i, j}) \in {i, j} /\ \A x \in {i, j} : x <= Max({i, j})
  BY <1>2, GreatestIs
<1>4. Max({i, j}) = j
  BY <1>3
<1> QED BY <1>1, <1>4

(* A node is in the group of another when all between them, and they, are    *)
(* fusible.                                                                *)
LEMMA GroupMembers ==
  ASSUME plan \in SchedulePlans, NEW i \in ProgramNodes, NEW j \in ProgramNodes
  PROVE  j \in FusionGroupOf(i) <=> \A k \in Nat : (i <= k /\ k <= j) \/ (j <= k /\ k <= i) => programNodeIsFusible(k)
<1>1. i \in Nat /\ j \in Nat
  BY PlanTyped
<1>2. CASE i <= j
  <2>1. Min({i, j}) = i /\ Max({i, j}) = j
    BY <1>1, <1>2, PairIs
  <2>2. j \in FusionGroupOf(i) <=> \A k \in i .. j : programNodeIsFusible(k)
    BY <2>1 DEF FusionGroupOf
  <2>3. \A k \in Nat : k \in i .. j <=> (i <= k /\ k <= j) \/ (j <= k /\ k <= i)
    BY <1>1, <1>2
  <2>4. \A k \in i .. j : k \in Nat
    BY <1>1
  <2> QED BY <2>2, <2>3, <2>4
<1>3. CASE j <= i
  <2>1. Min({i, j}) = j /\ Max({i, j}) = i
    <3>1. {i, j} = {j, i}
      OBVIOUS
    <3> QED BY <1>1, <1>3, <3>1, PairIs
  <2>2. j \in FusionGroupOf(i) <=> \A k \in j .. i : programNodeIsFusible(k)
    BY <2>1 DEF FusionGroupOf
  <2>3. \A k \in Nat : k \in j .. i <=> (i <= k /\ k <= j) \/ (j <= k /\ k <= i)
    BY <1>1, <1>3
  <2>4. \A k \in j .. i : k \in Nat
    BY <1>1
  <2> QED BY <2>2, <2>3, <2>4
<1> QED BY <1>1, <1>2, <1>3

(* A group is a run of nodes, whichever of its nodes it is taken of.        *)
LEMMA GroupRuns ==
  ASSUME plan \in SchedulePlans, NEW i \in ProgramNodes, programNodeIsFusible(i)
  PROVE  LET S == FusionGroupOf(i) IN
         /\ S \subseteq ProgramNodes /\ i \in S
         /\ Min(S) \in S /\ Max(S) \in S /\ \A j \in S : Min(S) <= j /\ j <= Max(S)
         /\ \A j \in ProgramNodes : Min(S) <= j /\ j <= Max(S) => j \in S
<1> DEFINE S == FusionGroupOf(i)
           n == Len(plan.instructions)
           Near(j) == \A k \in Nat : (i <= k /\ k <= j) \/ (j <= k /\ k <= i) => programNodeIsFusible(k)
<1>1. n \in Nat /\ ProgramNodes = 1 .. n /\ S \subseteq ProgramNodes
  BY PlanTyped DEF FusionGroupOf
<1>2. \A j \in ProgramNodes : j \in S <=> Near(j)
  BY GroupMembers
<1> HIDE DEF S, n
<1>3. i \in S
  <2>1. \A k \in Nat : (i <= k /\ k <= i) => k = i
    BY <1>1
  <2> QED BY <1>2, <2>1
<1>4. S \in SUBSET Nat /\ S \in SUBSET (0 .. n) /\ S # {}
  BY <1>1, <1>3
<1>5. Min(S) \in S /\ \A j \in S : Min(S) <= j
  BY <1>4, LeastIs
<1>6. Max(S) \in S /\ \A j \in S : j <= Max(S)
  BY <1>1, <1>4, GreatestIs
<1>7. ASSUME NEW a \in S, NEW b \in S, NEW j \in ProgramNodes, a <= j, j <= b PROVE j \in S
  <2>1. a \in Nat /\ b \in Nat /\ j \in Nat /\ i \in Nat /\ Near(a) /\ Near(b)
    BY <1>1, <1>2
  <2>2. ASSUME NEW k \in Nat, (i <= k /\ k <= j) \/ (j <= k /\ k <= i) PROVE programNodeIsFusible(k)
    BY <1>7, <2>1, <2>2
  <2> QED BY <1>2, <2>2
<1> QED BY <1>1, <1>3, <1>5, <1>6, <1>7 DEF S

(* The next node of a group begins no later.                               *)
LEMMA GroupGoesOn ==
  ASSUME plan \in SchedulePlans, NEW i \in ProgramNodes, programNodeIsFusible(i),
         i + 1 \in ProgramNodes, programNodeIsFusible(i + 1)
  PROVE  Min(FusionGroupOf(i + 1)) <= Min(FusionGroupOf(i))
<1>1. ProgramNodes \subseteq Nat /\ i \in Nat
  BY PlanTyped
<1>2. Min(FusionGroupOf(i)) \in FusionGroupOf(i) /\ FusionGroupOf(i) \subseteq ProgramNodes
  BY GroupRuns
<1> DEFINE m == Min(FusionGroupOf(i))
<1>3. m \in ProgramNodes /\ m \in FusionGroupOf(i)
  BY <1>2
<1> HIDE DEF m
<1>4. \A k \in Nat : (i <= k /\ k <= m) \/ (m <= k /\ k <= i) => programNodeIsFusible(k)
  BY <1>3, GroupMembers
<1>5. ASSUME NEW k \in Nat, (i + 1 <= k /\ k <= m) \/ (m <= k /\ k <= i + 1) PROVE programNodeIsFusible(k)
  BY <1>1, <1>3, <1>4, <1>5
<1>6. m \in FusionGroupOf(i + 1)
  BY <1>3, <1>5, GroupMembers
<1>7. \A j \in FusionGroupOf(i + 1) : Min(FusionGroupOf(i + 1)) <= j
  BY GroupRuns
<1> QED BY <1>6, <1>7 DEF m

----------------------------------------------------------------------------
(* The table follows liveness: what was made and is read ahead is bound; what *)
(* the table still owns was read, if at all, no earlier than the group begins. *)

Made(pos, op, v) ==
  \/ v \in ParameterIds
  \/ TupleProducer(v) < pos /\ plan.instructions[TupleProducer(v)].op # "tuple"
  \/ pos \in ProgramNodes /\ v \in StoredBefore(OperationOf(pos), op.at)
Ahead(pos, v) == isOutput(v) \/ lastUseNode(v) >= pos
Begin(pos) == IF pos \in ProgramNodes /\ programNodeIsFusible(pos) THEN Min(FusionGroupOf(pos)) ELSE pos

Bounded(pos, op, t) == \A v \in AllValues : Made(pos, op, v) /\ Ahead(pos, v) => t.handles[v] # NoHandle
Dropped(pos, t) == \A v \in AllValues : t.owned[v] /\ ReadBy(v) # {} /\ ~isOutput(v) => lastUseNode(v) >= Begin(pos)

LivenessOK(pos, op, t, oc) ==
  /\ oc = "new" => pos = 1
  /\ oc = "running" => Bounded(pos, op, t) /\ Dropped(pos, t)
Lively == LivenessOK(position, operation, table, outcome)

LEMMA SameProgram ==
  ASSUME plan' = plan
  PROVE  /\ \A v : ReadBy(v)' = ReadBy(v) /\ (isOutput(v)' <=> isOutput(v)) /\ lastUseNode(v)' = lastUseNode(v)
         /\ \A v : TupleProducer(v)' = TupleProducer(v)
         /\ \A i : programNodeIsFusible(i)' <=> programNodeIsFusible(i)
         /\ \A i : FusionGroupOf(i)' = FusionGroupOf(i)
         /\ \A i : OperationOf(i)' = OperationOf(i)
<1>1. \A v : ReadBy(v)' = ReadBy(v) /\ (isOutput(v)' <=> isOutput(v))
  BY DEF ReadBy, isOutput, programNodeInputs, TupleElement, TupleProducer, NodeOutputs, ProgramNodes
<1>2. \A v : lastUseNode(v)' = lastUseNode(v)
  BY <1>1 DEF lastUseNode
<1>3. \A v : TupleProducer(v)' = TupleProducer(v)
  BY DEF TupleProducer, NodeOutputs, ProgramNodes
<1>4. \A i : programNodeIsFusible(i)' <=> programNodeIsFusible(i)
  BY DEF programNodeIsFusible
<1>5. \A i : FusionGroupOf(i)' = FusionGroupOf(i)
  BY DEF FusionGroupOf, programNodeIsFusible, ProgramNodes
<1>6. \A i : OperationOf(i)' = OperationOf(i)
  BY DEF OperationOf, TupleElement, TupleProducer, NodeOutputs, ProgramNodes
<1> QED BY <1>1, <1>2, <1>3, <1>4, <1>5, <1>6

LEMMA SameLiveness ==
  ASSUME plan' = plan
  PROVE  Lively' <=> LivenessOK(position', operation', table', outcome')
<1>1. AllValues' = AllValues /\ ProgramNodes' = ProgramNodes /\ ParameterIds' = ParameterIds
  BY SameMeaning DEF ParameterIds
<1>2. \A v : Ahead(position, v)' <=> Ahead(position', v)
  BY SameProgram DEF Ahead
<1>3. Begin(position)' = Begin(position')
  BY <1>1, SameProgram DEF Begin
<1>4. \A v : Made(position, operation, v)' <=> Made(position', operation', v)
  <2>1. OperationOf(position)' = OperationOf(position')
    BY DEF OperationOf, TupleElement, TupleProducer, NodeOutputs, ProgramNodes
  <2>2. StoredBefore(OperationOf(position), operation.at)' = StoredBefore(OperationOf(position'), operation'.at)
    BY <1>1, <2>1 DEF StoredBefore, IsStore
  <2>3. \A v : TupleProducer(v)' = TupleProducer(v)
    BY SameProgram
  <2> QED BY <1>1, <2>2, <2>3 DEF Made
<1>5. Bounded(position, operation, table)' <=> Bounded(position', operation', table')
  BY <1>1, <1>2, <1>4 DEF Bounded
<1>6. Dropped(position, table)' <=> Dropped(position', table')
  BY <1>1, <1>3, SameProgram DEF Dropped
<1> QED BY <1>5, <1>6 DEF Lively, LivenessOK

(* A step of an operation that stores nothing.                             *)
LEMMA StoresNothing ==
  ASSUME NEW steps, NEW n \in Nat \ {0}, ~IsStore(steps[n])
  PROVE  StoredBefore(steps, n + 1) = StoredBefore(steps, n)
<1>1. \A k \in 1 .. n + 1 - 1 : k \in 1 .. n - 1 \/ k = n
  OBVIOUS
<1>2. \A k \in 1 .. n - 1 : k \in 1 .. n + 1 - 1
  OBVIOUS
<1> QED BY <1>1, <1>2 DEF StoredBefore

LEMMA StoresOne ==
  ASSUME NEW steps, NEW n \in Nat \ {0}
  PROVE  \A v \in StoredBefore(steps, n + 1) : v \in StoredBefore(steps, n) \/ v = steps[n].slot
<1>1. \A k \in 1 .. n + 1 - 1 : k \in 1 .. n - 1 \/ k = n
  OBVIOUS
<1> QED BY <1>1 DEF StoredBefore

LEMMA ProceedKeeps ==
  ASSUME WalkInv, Lively, NoTopK, NEW kind, AtStep(kind), NEW t, NEW l, Proceed(t, l),
         \A v \in AllValues : table.handles[v] # NoHandle => t.handles[v] # NoHandle,
         IsStore(Step) => t.handles[Step.slot] # NoHandle,
         Dropped(position, t)
  PROVE  Lively'
<1> DEFINE steps == OperationOf(position)
           n == operation.at
<1>1. /\ plan' = plan /\ position' = position /\ outcome' = outcome /\ table' = t
      /\ operation' = [at |-> n + 1, local |-> l]
  BY DEF Proceed
<1>2. outcome = "running" /\ position \in ProgramNodes /\ Step = steps[n]
  BY DEF AtStep, Step
<1>3. n \in Nat \ {0} /\ operation'.at = n + 1
  BY <1>1 DEF WalkInv, StateOK
<1>4. Bounded(position, operation, table)
  BY <1>2 DEF Lively, LivenessOK
<1> HIDE DEF steps, n
<1>5. ASSUME NEW v \in AllValues, Made(position, operation', v), Ahead(position, v)
      PROVE  t.handles[v] # NoHandle
  <2>1. CASE Made(position, operation, v)
    BY <1>4, <1>5, <2>1 DEF Bounded
  <2>2. CASE ~Made(position, operation, v)
    <3>1. v \in StoredBefore(steps, n + 1) /\ v \notin StoredBefore(steps, n)
      BY <1>2, <1>3, <1>5, <2>2 DEF Made, steps, n
    <3>2. IsStore(steps[n])
      BY <1>3, <3>1, StoresNothing
    <3>3. v = steps[n].slot
      BY <1>3, <3>1, StoresOne
    <3> QED BY <1>2, <3>2, <3>3
  <2> QED BY <2>1, <2>2
<1>6. LivenessOK(position', operation', table', outcome')
  BY <1>1, <1>2, <1>5 DEF LivenessOK, Bounded
<1> QED BY <1>1, <1>6, SameLiveness

LEMMA SlotIsResult ==
  ASSUME WalkInv, NoTopK, NEW kind, AtStep(kind), IsStore(Step)
  PROVE  Step.slot \in NodeOutputs(position)
<1>1. plan \in SchedulePlans /\ position \in ProgramNodes /\ plan.instructions[position].op # "top_k"
  BY DEF WalkInv, AtStep, NoTopK, ProgramNodes
<1>2. Stores(OperationOf(position), IF plan.instructions[position].op = "tuple" THEN {} ELSE NodeOutputs(position))
  BY <1>1, OperationStores
<1>3. operation.at \in 1 .. Len(OperationOf(position))
  <2>1. Disciplined(OperationOf(position), HeldThrough(position))
    BY <1>1, OperationDisciplined
  <2> QED BY <2>1 DEF Disciplined, AtStep
<1> QED BY <1>2, <1>3 DEF Stores, Step

LEMMA FailsKeeps == ASSUME NEW t, WalkFails(t) PROVE Lively'
<1>1. plan' = plan /\ outcome' = "failed"
  BY DEF WalkFails
<1> QED BY <1>1, SameLiveness DEF LivenessOK

LEMMA CallBackendKeeps == ASSUME WalkInv, WalkInv', Lively, NoTopK, CallBackend PROVE Lively'
<1> DEFINE handles == [k \in DOMAIN Step.from |-> HandleOf(Step.from[k])]
           t == Reading(table, Range(handles))
           slots == DOMAIN Step.made
           n == Len(Step.made)
           new == CHOOSE f \in Fresh(n) : TRUE
           contents == [k \in DOMAIN handles |-> t.memory[handles[k]]]
           results == [k \in slots |-> Result(Step.op, k, contents)]
           local == [l \in Locals |-> IF l \in Range(Step.made)
                                       THEN new[CHOOSE k \in slots : Step.made[k] = l]
                                       ELSE operation.local[l]]
           w == WithBuffers(t, new, results)
<1>1. /\ AtStep("call")
      /\ \/ WalkFails(Undone(t, Step.undo))
         \/ Proceed(w, local)
  BY DEF CallBackend
<1>2. w.handles = table.handles /\ w.owned = table.owned
  <2>1. table = [memory |-> table.memory, handles |-> table.handles, owned |-> table.owned, misused |-> table.misused]
    BY DEF WalkInv, StateOK, Balanced, IsTable
  <2>2. t.handles = table.handles /\ t.owned = table.owned
    BY <2>1 DEF Reading
  <2> HIDE DEF t, new, results
  <2>3. w.handles = t.handles /\ w.owned = t.owned
    BY <2>1 DEF WithBuffers
  <2> QED BY <2>2, <2>3
<1> HIDE DEF w, local
<1>3. CASE WalkFails(Undone(t, Step.undo))
  BY <1>3, FailsKeeps
<1>4. CASE Proceed(w, local)
  <2>1. ~IsStore(Step) /\ outcome = "running"
    BY <1>1 DEF AtStep, IsStore
  <2>2. Dropped(position, w)
    BY <1>2, <2>1 DEF Dropped, Lively, LivenessOK
  <2> QED BY <1>1, <1>2, <1>4, <2>1, <2>2, ProceedKeeps
<1> QED BY <1>1, <1>3, <1>4

LEMMA DropLocalKeeps == ASSUME WalkInv, WalkInv', Lively, NoTopK, DropLocal PROVE Lively'
<1> DEFINE l == operation.local
           t == DestroyAll(table, {l[Step.slot]})
           m == [l EXCEPT ![Step.slot] = NoHandle]
<1>1. AtStep("drop") /\ Proceed(t, m)
  BY DEF DropLocal
<1>2. t.handles = table.handles /\ t.owned = table.owned
  <2>1. table = [memory |-> table.memory, handles |-> table.handles, owned |-> table.owned, misused |-> table.misused]
    BY DEF WalkInv, StateOK, Balanced, IsTable
  <2> QED BY <2>1 DEF DestroyAll
<1> HIDE DEF t, m
<1>3. ~IsStore(Step) /\ outcome = "running"
  BY <1>1 DEF AtStep, IsStore
<1>4. Dropped(position, t)
  BY <1>2, <1>3 DEF Dropped, Lively, LivenessOK
<1> QED BY <1>1, <1>2, <1>3, <1>4, ProceedKeeps

(* What a node makes is read by later ones only.                           *)
LEMMA ReadLater ==
  ASSUME plan \in SchedulePlans, NEW i \in ProgramNodes, NEW v \in NodeOutputs(i), NEW j \in ReadBy(v)
  PROVE  i < j
<1>1. v \notin ParameterIds /\ TupleProducer(v) = i
  BY OneProducer
<1>2. j \in ProgramNodes /\ v \in Range(programNodeInputs(j))
  BY DEF ReadBy
<1> QED BY <1>1, <1>2, OperandsAreEarlier

LEMMA BeginIs ==
  ASSUME plan \in SchedulePlans, NEW pos \in Nat
  PROVE  Begin(pos) <= pos
<1>1. CASE pos \in ProgramNodes /\ programNodeIsFusible(pos)
  BY <1>1, GroupRuns DEF Begin
<1>2. CASE ~(pos \in ProgramNodes /\ programNodeIsFusible(pos))
  BY <1>2 DEF Begin
<1> QED BY <1>1, <1>2

LEMMA BeginNumber ==
  ASSUME plan \in SchedulePlans, NEW pos \in Nat
  PROVE  Begin(pos) \in Nat
<1>1. CASE pos \in ProgramNodes /\ programNodeIsFusible(pos)
  BY <1>1, GroupRuns, PlanTyped DEF Begin
<1>2. CASE ~(pos \in ProgramNodes /\ programNodeIsFusible(pos))
  BY <1>2 DEF Begin
<1> QED BY <1>1, <1>2

LEMMA KeepResultKeeps == ASSUME WalkInv, WalkInv', Lively, NoTopK, KeepResult PROVE Lively'
<1> DEFINE s == Step.from
           v == Step.slot
           l == operation.local
           t == Store(table, v, l[s], TRUE)
           m == [l EXCEPT ![s] = NoHandle]
           before == HeldThrough(position)[operation.at]
<1>1. AtStep("keep") /\ Proceed(t, m)
  BY DEF KeepResult
<1>2. /\ Step.do = "keep" /\ before \subseteq Locals /\ \A r \in Locals : l[r] # NoHandle <=> r \in before
      /\ Follows(Step, before, HeldThrough(position)[operation.at + 1])
  BY <1>1, StepFollows
<1>3. s \in Locals /\ l[s] # NoHandle /\ v \in AllValues
  BY <1>2 DEF Follows
<1>4. IsStore(Step) /\ v \in NodeOutputs(position)
  <2>1. IsStore(Step)
    BY <1>2 DEF IsStore
  <2> QED BY <1>1, <2>1, SlotIsResult
<1>5. /\ plan \in SchedulePlans /\ position \in ProgramNodes /\ outcome = "running"
      /\ Balanced(table, l, outputs)
  BY <1>1 DEF AtStep, WalkInv, StateOK
<1> HIDE DEF s, l, v, before
<1>6. /\ t.handles[v] = l[s]
      /\ \A w \in AllValues \ {v} : t.handles[w] = table.handles[w] /\ t.owned[w] = table.owned[w]
  <2> DEFINE h == l[s]
             b == TRUE
  <2>1. Balanced(table, l, outputs) /\ v \in AllValues
    BY <1>3, <1>5
  <2> HIDE DEF h, b
  <2>2. LET u == Store(table, v, h, b) IN
        /\ SameMemory(table, u) /\ Existing(u) \subseteq Existing(table)
        /\ u.handles[v] = h /\ u.owned[v] = b
        /\ \A w \in AllValues \ {v} : u.handles[w] = table.handles[w] /\ u.owned[w] = table.owned[w]
    BY <2>1, StoreMemory
  <2> QED BY <2>2 DEF h, b
<1> HIDE DEF t, m
<1>7. ASSUME NEW w \in AllValues, t.owned[w], ReadBy(w) # {}, ~isOutput(w) PROVE lastUseNode(w) >= Begin(position)
  <2>1. CASE w = v
    <3>1. PICK j \in ReadBy(v) : TRUE
      BY <1>7, <2>1
    <3>2. position < j /\ j <= lastUseNode(v) /\ lastUseNode(v) \in Nat
      BY <1>4, <1>5, <3>1, ReadLater, LastUseIs
    <3>3. position \in Nat /\ j \in Nat
      BY <1>5, PlanTyped DEF ReadBy
    <3>4. Begin(position) <= position /\ Begin(position) \in Nat
      BY <1>5, <3>3, BeginIs, BeginNumber
    <3> QED BY <2>1, <3>2, <3>3, <3>4
  <2>2. CASE w # v
    BY <1>5, <1>6, <1>7, <2>2 DEF Lively, LivenessOK, Dropped
  <2> QED BY <2>1, <2>2
<1>8. Dropped(position, t)
  BY <1>7 DEF Dropped
<1>9. \A w \in AllValues : table.handles[w] # NoHandle => t.handles[w] # NoHandle
  BY <1>3, <1>6
<1>10. t.handles[Step.slot] # NoHandle
  BY <1>3, <1>6 DEF v
<1> QED BY <1>1, <1>8, <1>9, <1>10, ProceedKeeps

LEMMA BorrowConstantKeeps == ASSUME WalkInv, WalkInv', Lively, NoTopK, BorrowConstant PROVE Lively'
<1> DEFINE v == Step.slot
           l == operation.local
           t == Store(table, v, v, FALSE)
           before == HeldThrough(position)[operation.at]
<1>1. AtStep("borrow") /\ Proceed(t, l)
  BY DEF BorrowConstant
<1>2. /\ Step.do = "borrow"
      /\ Follows(Step, before, HeldThrough(position)[operation.at + 1])
  BY <1>1, StepFollows
<1>3. v \in AllValues /\ v # NoHandle
  <2>1. v \in HeldByOthers \cap AllValues
    BY <1>2 DEF Follows
  <2>2. AllValues \subseteq Nat \ {0}
    BY PlanTyped DEF WalkInv
  <2> HIDE DEF v
  <2> QED BY <2>1, <2>2 DEF NoHandle
<1>4. outcome = "running" /\ Balanced(table, l, outputs)
  BY <1>1 DEF AtStep, WalkInv, StateOK
<1> HIDE DEF l, v, before
<1>5. /\ t.handles[v] = v /\ t.owned[v] = FALSE
      /\ \A w \in AllValues \ {v} : t.handles[w] = table.handles[w] /\ t.owned[w] = table.owned[w]
  <2> DEFINE h == v
             b == FALSE
  <2>1. Balanced(table, l, outputs) /\ v \in AllValues
    BY <1>3, <1>4
  <2> HIDE DEF h, b
  <2>2. LET u == Store(table, v, h, b) IN
        /\ SameMemory(table, u) /\ Existing(u) \subseteq Existing(table)
        /\ u.handles[v] = h /\ u.owned[v] = b
        /\ \A w \in AllValues \ {v} : u.handles[w] = table.handles[w] /\ u.owned[w] = table.owned[w]
    BY <2>1, StoreMemory
  <2> QED BY <2>2 DEF h, b
<1> HIDE DEF t
<1>6. Dropped(position, t)
  BY <1>4, <1>5, Zenon DEF Dropped, Lively, LivenessOK
<1>7. \A w \in AllValues : table.handles[w] # NoHandle => t.handles[w] # NoHandle
  BY <1>3, <1>5
<1>8. t.handles[Step.slot] # NoHandle
  BY <1>3, <1>5 DEF v
<1> QED BY <1>1, <1>6, <1>7, <1>8, ProceedKeeps

----------------------------------------------------------------------------
(* From node to node: a group releases what it reads last.                 *)

(* What a group read last, and no output is, is released at its end; what is  *)
(* owned then is read after the group, if at all.                          *)
LEMMA ReleasedOrAhead ==
  ASSUME plan \in SchedulePlans, NEW S \in SUBSET ProgramNodes, NEW v \in AllValues, NEW first \in Nat,
         \A j \in ProgramNodes : first <= j /\ j <= Max(S) => j \in S, Max(S) \in Nat,
         ReadBy(v) # {}, ~isOutput(v), lastUseNode(v) >= first, v \notin DeadOf(S)
  PROVE  lastUseNode(v) >= Max(S) + 1
<1> DEFINE m == lastUseNode(v)
<1>1. m \in ReadBy(v) /\ m \in Nat
  BY LastUseIs
<1>2. m \in ProgramNodes /\ v \in Range(programNodeInputs(m))
  BY <1>1 DEF ReadBy
<1>3. ASSUME m <= Max(S) PROVE FALSE
  <2>1. m \in S
    BY <1>2, <1>3
  <2>2. v \in DeadAfter(S, m)
    BY <1>2, <1>3 DEF DeadAfter
  <2> QED BY <2>1, <2>2 DEF DeadOf
<1> HIDE DEF m
<1>4. m >= Max(S) + 1
  BY <1>1, <1>3
<1> QED BY <1>4 DEF m

LEMMA NotAhead ==
  ASSUME plan \in SchedulePlans, NEW S \in SUBSET ProgramNodes, NEW v \in DeadOf(S), Max(S) \in Nat
  PROVE  ~Ahead(Max(S) + 1, v)
<1>1. ~isOutput(v) /\ lastUseNode(v) <= Max(S)
  BY DEF DeadOf, DeadAfter
<1> QED BY <1>1, LastUseIs DEF Ahead

LEMMA NothingStored == ASSUME NEW steps PROVE StoredBefore(steps, NoOperation.at) = {}
<1>1. NoOperation.at = 1
  BY DEF NoOperation
<1>2. 1 .. 1 - 1 = {}
  OBVIOUS
<1> QED BY <1>1, <1>2 DEF StoredBefore

(* What the nodes behind made.                                             *)
LEMMA MadeBehind ==
  ASSUME NEW pos, NEW v, Made(pos, NoOperation, v), v \notin ParameterIds
  PROVE  TupleProducer(v) < pos /\ plan.instructions[TupleProducer(v)].op # "tuple"
BY NothingStored DEF Made

LEMMA FinishNodeKeeps == ASSUME WalkInv, WalkInv', Lively, NoTopK, FinishNode PROVE Lively'
<1> DEFINE scope == IF programNodeIsFusible(position) THEN FusionGroupOf(position) ELSE {position}
           next == position + 1
<1>1. /\ outcome = "running" /\ position \in ProgramNodes
      /\ operation.at = Len(OperationOf(position)) + 1
      /\ table' = (IF position = Max(scope) THEN ReleaseAfter(table, scope) ELSE table)
      /\ position' = next /\ operation' = NoOperation /\ plan' = plan /\ outcome' = outcome
  BY DEF FinishNode
<1>2. /\ plan \in SchedulePlans /\ Balanced(table, operation.local, outputs)
      /\ Bounded(position, operation, table) /\ Dropped(position, table)
      /\ position \in Nat /\ next \in Nat /\ plan.instructions[position].op # "top_k"
  BY <1>1, PlanTyped DEF WalkInv, StateOK, Lively, LivenessOK, NoTopK, ProgramNodes
<1>3. /\ scope \in SUBSET ProgramNodes /\ Max(scope) \in ProgramNodes /\ position <= Max(scope)
      /\ \A j \in ProgramNodes : Begin(position) <= j /\ j <= Max(scope) => j \in scope
  <2>1. CASE programNodeIsFusible(position)
    <3>1. scope = FusionGroupOf(position) /\ Begin(position) = Min(scope)
      BY <1>1, <2>1 DEF Begin
    <3> HIDE DEF scope
    <3>2. /\ scope \subseteq ProgramNodes /\ position \in scope
          /\ Max(scope) \in scope /\ \A j \in scope : Min(scope) <= j /\ j <= Max(scope)
      BY <1>1, <1>2, <2>1, <3>1, GroupRuns
    <3>3. \A j \in ProgramNodes : Min(scope) <= j /\ j <= Max(scope) => j \in scope
      BY <1>1, <1>2, <2>1, <3>1, GroupRuns
    <3> QED BY <3>1, <3>2, <3>3
  <2>2. CASE ~programNodeIsFusible(position)
    <3>1. scope = {position} /\ Begin(position) = position
      BY <2>2 DEF Begin
    <3>2. Max({position}) = position
      BY <1>2, PairIs
    <3> HIDE DEF scope
    <3>3. ProgramNodes \subseteq Nat
      BY <1>2, PlanTyped
    <3>4. Max(scope) = position
      BY <3>1, <3>2
    <3>5. \A j \in ProgramNodes : position <= j /\ j <= position => j \in scope
      <4>1. \A j, k \in Nat : k <= j /\ j <= k => j = k
        OBVIOUS
      <4>2. position \in Nat
        BY <1>2
      <4>3. \A j \in ProgramNodes : position <= j /\ j <= position => j = position
        BY <3>3, <4>1, <4>2
      <4> QED BY <3>1, <4>3
    <3>6. scope \in SUBSET ProgramNodes /\ position <= position
      BY <1>1, <1>2, <3>1
    <3>7. Max(scope) \in ProgramNodes /\ position <= Max(scope)
      BY <1>1, <3>4, <3>6
    <3>8. \A j \in ProgramNodes : Begin(position) <= j /\ j <= Max(scope) => j \in scope
      BY <3>1, <3>4, <3>5
    <3> QED BY <3>6, <3>7, <3>8
  <2> QED BY <2>1, <2>2
<1> HIDE DEF next
<1>4. ASSUME NEW v \in AllValues, Made(next, NoOperation, v), Ahead(next, v)
      PROVE  table.handles[v] # NoHandle
  <2>1. Ahead(position, v)
    BY <1>2, <1>4, LastUseIs DEF Ahead, next
  <2>2. Made(position, operation, v)
    <3>1. CASE v \in ParameterIds
      BY <3>1 DEF Made
    <3>2. CASE v \notin ParameterIds
      <4> DEFINE i == TupleProducer(v)
      <4>1. i \in ProgramNodes /\ v \in NodeOutputs(i) /\ i < next /\ plan.instructions[i].op # "tuple"
        BY <1>2, <1>4, <3>2, MadeBehind, ProducerIs
      <4>2. CASE i < position
        BY <4>1, <4>2 DEF Made
      <4>3. CASE ~(i < position)
        <5>1. i = position
          BY <1>2, <4>1, <4>3, PlanTyped DEF next
        <5>2. Stores(OperationOf(position), NodeOutputs(position))
          BY <1>1, <1>2, <4>1, <5>1, OperationStores
        <5>3. PICK k \in 1 .. Len(OperationOf(position)) : IsStore(OperationOf(position)[k]) /\ OperationOf(position)[k].slot = v
          BY <4>1, <5>1, <5>2 DEF Stores
        <5>4. Len(OperationOf(position)) \in Nat
          BY <1>1, <1>2, OperationDisciplined DEF Disciplined
        <5>5. k \in 1 .. operation.at - 1
          BY <1>1, <5>3, <5>4
        <5> QED BY <1>1, <5>3, <5>5 DEF Made, StoredBefore
      <4> QED BY <4>2, <4>3
    <3> QED BY <3>1, <3>2
  <2> QED BY <1>2, <2>1, <2>2 DEF Bounded
<1>5. CASE position = Max(scope)
  <2>1. table' = ReleaseAfter(table, scope) /\ next = Max(scope) + 1
    BY <1>1, <1>5 DEF next
  <2> HIDE DEF scope
  <2>2. /\ \A v \in AllValues :
             table'.handles[v] = IF v \in DeadOf(scope) /\ table.owned[v] THEN NoHandle ELSE table.handles[v]
        /\ \A v \in AllValues : table'.owned[v] <=> table.owned[v] /\ v \notin DeadOf(scope)
    BY <1>2, <1>3, <2>1, ReleaseAfterIs
  <2>3. Bounded(next, NoOperation, table')
    <3> SUFFICES ASSUME NEW v \in AllValues, Made(next, NoOperation, v), Ahead(next, v)
                 PROVE  table'.handles[v] # NoHandle
      BY DEF Bounded
    <3>1. v \notin DeadOf(scope)
      BY <1>2, <1>3, <1>5, <2>1, NotAhead
    <3> QED BY <1>4, <2>2, <3>1
  <2>4. Dropped(next, table')
    <3> SUFFICES ASSUME NEW v \in AllValues, table'.owned[v], ReadBy(v) # {}, ~isOutput(v)
                 PROVE  lastUseNode(v) >= Begin(next)
      BY DEF Dropped
    <3>1. table.owned[v] /\ v \notin DeadOf(scope)
      BY <2>2
    <3>2. lastUseNode(v) >= Begin(position) /\ Begin(position) \in Nat
      BY <1>2, <3>1, BeginNumber DEF Dropped
    <3>3. lastUseNode(v) >= Max(scope) + 1
      BY <1>2, <1>3, <1>5, <3>1, <3>2, ReleasedOrAhead
    <3> QED BY <1>2, <2>1, <3>3, BeginIs, BeginNumber, LastUseIs
  <2>5. LivenessOK(position', operation', table', outcome')
    BY <1>1, <2>3, <2>4 DEF LivenessOK
  <2> QED BY <1>1, <2>5, SameLiveness
<1>6. CASE position # Max(scope)
  <2>1. table' = table
    BY <1>1, <1>6
  <2>2. programNodeIsFusible(position)
    <3>1. Max({position}) = position
      BY <1>2, PairIs
    <3> QED BY <1>6, <3>1
  <2>3. next \in ProgramNodes /\ next <= Max(scope)
    <3> HIDE DEF scope
    <3> QED BY <1>1, <1>2, <1>3, <1>6, PlanTyped DEF next
  <2>4. next \in FusionGroupOf(position)
    <3>1. Begin(position) <= position
      BY <1>2, BeginIs
    <3>2. Begin(position) <= next
      BY <1>2, <3>1, BeginNumber DEF next
    <3>3. next \in scope
      <4> HIDE DEF scope
      <4> QED BY <1>3, <2>3, <3>2
    <3> QED BY <2>2, <3>3
  <2>5. programNodeIsFusible(next)
    <3>1. \A k \in Nat : (position <= k /\ k <= next) \/ (next <= k /\ k <= position) => programNodeIsFusible(k)
      BY <1>1, <1>2, <2>3, <2>4, GroupMembers
    <3> QED BY <1>2, <3>1 DEF next
  <2>6. Begin(next) <= Begin(position)
    BY <1>1, <1>2, <2>2, <2>3, <2>5, GroupGoesOn DEF Begin, next
  <2>7. Begin(next) \in Nat /\ Begin(position) \in Nat
    BY <1>2, BeginNumber
  <2>8. Dropped(next, table')
    BY <1>2, <2>1, <2>6, <2>7, LastUseIs DEF Dropped
  <2>9. Bounded(next, NoOperation, table')
    BY <1>4, <2>1 DEF Bounded
  <2>10. LivenessOK(position', operation', table', outcome')
    BY <1>1, <2>8, <2>9 DEF LivenessOK
  <2> QED BY <1>1, <2>10, SameLiveness
<1> QED BY <1>5, <1>6

LEMMA ImageFinite ==
  ASSUME NEW S, IsFiniteSet(S), NEW f
  PROVE  IsFiniteSet({f[x] : x \in S})
<1> DEFINE g == [x \in S |-> f[x]]
           T == {f[x] : x \in S}
<1>1. g \in Surjection(S, T)
  BY DEF Surjection
<1> HIDE DEF g, T
<1>2. IsFiniteSet(T)
  BY <1>1, FS_Surjection
<1> QED BY <1>2 DEF T

(* A kernel makes the one value that leaves its group.                      *)
LEMMA OneOutput ==
  ASSUME plan \in SchedulePlans, NEW S \in SUBSET ProgramNodes,
         \A i \in S : plan.instructions[i].op \in {"map", "copy"}, Cardinality(GroupOutputs(S)) = 1
  PROVE  \A x, y \in GroupOutputs(S) : x = y
<1> DEFINE f == [i \in S |-> plan.instructions[i].outputs[1]]
<1>1. IsFiniteSet(S)
  <2>1. ProgramNodes = 1 .. Len(plan.instructions) /\ Len(plan.instructions) \in Nat
    BY PlanTyped
  <2>2. IsFiniteSet(1 .. Len(plan.instructions))
    BY <2>1, FS_Interval
  <2> QED BY <2>1, <2>2, FS_Subset
<1>2. ASSUME NEW i \in S PROVE NodeOutputs(i) = {f[i]}
  <2>1. plan.instructions[i].outputs \in Seq(AllValues) /\ Len(plan.instructions[i].outputs) = 1
    BY InstructionTyped DEF TwoOutputs
  <2>2. DOMAIN plan.instructions[i].outputs = {1}
    BY <2>1
  <2> QED BY <2>2 DEF NodeOutputs, Range
<1> HIDE DEF f
<1>3. GroupOutputs(S) \subseteq {f[i] : i \in S}
  BY <1>2 DEF GroupOutputs
<1>4. IsFiniteSet(GroupOutputs(S))
  <2>1. IsFiniteSet({f[i] : i \in S})
    BY <1>1, ImageFinite
  <2> QED BY <1>3, <2>1, FS_Subset
<1> QED BY <1>4, FS_Singleton

LEMMA RunGroupKernelKeeps == ASSUME WalkInv, WalkInv', Lively, NoTopK, RunGroupKernel PROVE Lively'
<1> DEFINE S == FusionGroupOf(position)
           result == CHOOSE v \in GroupOutputs(S) : TRUE
           handles == {table.handles[v] : v \in GroupInputs(S)}
           t == Reading(table, handles)
           new == CHOOSE f \in Fresh(1) : TRUE
           contents == <<GeneratedKernel(S, result)>>
           w == WithBuffers(t, new, contents)
           u == Store(w, result, new[1], TRUE)
           next == Max(S) + 1
<1>1. /\ outcome = "running" /\ position \in ProgramNodes /\ operation = NoOperation
      /\ programNodeIsFusible(position) /\ position = Min(S)
      /\ \A i \in S : plan.instructions[i].op \in {"map", "copy"}
      /\ Cardinality(GroupOutputs(S)) = 1
      /\ \/ WalkFails(t)
         \/ /\ Fresh(1) # {}
            /\ table' = ReleaseAfter(u, S)
            /\ position' = next
            /\ UNCHANGED <<plan, tracing, operation, outputs, outcome>>
  BY DEF RunGroupKernel
<1>2. /\ plan \in SchedulePlans /\ Balanced(table, NoLocals, outputs) /\ Bound(table, outputs) /\ IsTable(table)
      /\ Bounded(position, NoOperation, table) /\ Dropped(position, table)
  BY <1>1, NoOperationIs DEF WalkInv, StateOK, Balanced, Lively, LivenessOK
<1>3. /\ S \in SUBSET ProgramNodes /\ Max(S) \in S /\ position \in S
      /\ \A j \in S : Min(S) <= j /\ j <= Max(S)
      /\ \A j \in ProgramNodes : Min(S) <= j /\ j <= Max(S) => j \in S
  BY <1>1, <1>2, GroupRuns
<1>4. ProgramNodes \subseteq Nat /\ Max(S) \in Nat /\ position \in Nat /\ next \in Nat
  <2> HIDE DEF S
  <2>1. ProgramNodes \subseteq Nat
    BY <1>2, PlanTyped
  <2>2. Max(S) \in Nat /\ position \in Nat
    BY <1>3, <2>1
  <2> QED BY <2>1, <2>2
<1>5. CASE WalkFails(t)
  BY <1>5, FailsKeeps
<1>6. CASE /\ Fresh(1) # {}
           /\ table' = ReleaseAfter(u, S)
           /\ position' = next
           /\ UNCHANGED <<plan, tracing, operation, outputs, outcome>>
  <2> HIDE DEF S
  <2>1. /\ result \in GroupOutputs(S) /\ result \in AllValues /\ GroupInputs(S) \subseteq AllValues
        /\ \A v \in GroupOutputs(S) : v = result
    <3>1. GroupOutputs(S) # {}
      <4>1. Cardinality(GroupOutputs(S)) = 1
        BY <1>1
      <4> QED BY <4>1, FS_EmptySet
    <3>2. result \in GroupOutputs(S)
      BY <3>1
    <3> HIDE DEF result
    <3> QED BY <1>1, <1>2, <1>3, <3>2, NodesTyped, OneOutput
  <2>2. t = table
    <3>1. handles \subseteq Existing(table) \cup {NoHandle}
      BY <1>2, <2>1, BoundExists
    <3> HIDE DEF handles
    <3> QED BY <1>2, <3>1, ReadingIs
  <2>3. new \in NewBuffers(table, 1) /\ w = WithBuffers(table, new, contents)
    BY <1>6, <2>2 DEF Fresh, NewBuffers
  <2> DEFINE l == Gained(NoLocals, <<-1>>, new)
  <2> HIDE DEF new, contents, t, w, result, handles
  <2>4. Balanced(w, l, outputs) /\ Bound(w, outputs) /\ l[-1] = new[1] /\ l[-1] # NoHandle
    BY <1>2, <2>3, OneGained
  <2>5. w.handles = table.handles /\ w.owned = table.owned
    <3> DEFINE n == 1
    <3>1. n \in Nat /\ new \in NewBuffers(table, n)
      BY <2>3
    <3> HIDE DEF n
    <3> QED BY <1>2, <2>3, <3>1, WithBuffersMemory
  <2>6. Balanced(u, [l EXCEPT ![-1] = NoHandle], outputs)
    <3> HIDE DEF l
    <3>1. u = Store(w, result, l[-1], TRUE)
      BY <2>4, Zenon
    <3>2. -1 \in Locals
      BY DEF Locals
    <3> HIDE DEF u
    <3>3. Balanced(Store(w, result, l[-1], TRUE), [l EXCEPT ![-1] = NoHandle], outputs)
      BY <2>1, <2>4, <3>2, KeepAccounted
    <3> QED BY <3>1, <3>3
  <2>7. /\ u.handles[result] = new[1]
        /\ \A x \in AllValues \ {result} : u.handles[x] = table.handles[x] /\ u.owned[x] = table.owned[x]
    <3> DEFINE h == new[1]
               b == TRUE
    <3> HIDE DEF h, b, l
    <3>1. LET r == Store(w, result, h, b) IN
          /\ SameMemory(w, r) /\ Existing(r) \subseteq Existing(w)
          /\ r.handles[result] = h /\ r.owned[result] = b
          /\ \A x \in AllValues \ {result} : r.handles[x] = w.handles[x] /\ r.owned[x] = w.owned[x]
      BY <2>1, <2>4, StoreMemory
    <3> QED BY <2>5, <3>1 DEF h, b
  <2> HIDE DEF u, l
  <2>8. /\ \A v \in AllValues :
             table'.handles[v] = IF v \in DeadOf(S) /\ u.owned[v] THEN NoHandle ELSE u.handles[v]
        /\ \A v \in AllValues : table'.owned[v] <=> u.owned[v] /\ v \notin DeadOf(S)
    BY <1>2, <1>3, <1>6, <2>6, ReleaseAfterIs
  <2>9. ASSUME NEW v \in AllValues, Made(next, NoOperation, v), Ahead(next, v), v # result
        PROVE  table.handles[v] # NoHandle
    <3>1. Ahead(position, v)
      BY <1>2, <1>3, <1>4, <2>9, LastUseIs DEF Ahead
    <3>2. Made(position, NoOperation, v)
      <4>1. CASE v \in ParameterIds
        BY <4>1 DEF Made
      <4>2. CASE v \notin ParameterIds
        <5> DEFINE i == TupleProducer(v)
        <5>1. i \in ProgramNodes /\ v \in NodeOutputs(i) /\ i < next /\ plan.instructions[i].op # "tuple"
          BY <1>2, <2>9, <4>2, MadeBehind, ProducerIs
        <5>2. CASE i < position
          BY <5>1, <5>2 DEF Made
        <5>3. CASE ~(i < position)
          <6>1. i \in S
            <7> HIDE DEF i
            <7>1. i \in Nat
              BY <1>4, <5>1
            <7>2. position <= i /\ i <= Max(S)
              BY <1>4, <5>1, <5>3, <7>1
            <7>3. i \in ProgramNodes /\ position = Min(S)
              BY <1>1, <5>1
            <7>4. \A j \in ProgramNodes : Min(S) <= j /\ j <= Max(S) => j \in S
              BY <1>3
            <7> QED BY <7>2, <7>3, <7>4
          <6>2. isOutput(v) \/ ~(ReadBy(v) \subseteq S)
            <7>1. ASSUME ~isOutput(v), ReadBy(v) \subseteq S PROVE FALSE
              <8>1. lastUseNode(v) >= next /\ lastUseNode(v) \in Nat
                BY <1>2, <2>9, <7>1, LastUseIs DEF Ahead
              <8>2. lastUseNode(v) # 0
                BY <1>4, <8>1
              <8>3. lastUseNode(v) \in S
                BY <1>2, <7>1, <8>2, LastUseIs, UnreadIs
              <8> QED BY <1>3, <1>4, <8>1, <8>3
            <7> QED BY <7>1
          <6>3. v \in GroupOutputs(S)
            BY <5>1, <6>1, <6>2 DEF GroupOutputs
          <6> QED BY <2>1, <2>9, <6>3
        <5> QED BY <5>2, <5>3
      <4> QED BY <4>1, <4>2
    <3> QED BY <1>2, <3>1, <3>2 DEF Bounded
  <2>10. Bounded(next, NoOperation, table')
    <3> SUFFICES ASSUME NEW v \in AllValues, Made(next, NoOperation, v), Ahead(next, v)
                 PROVE  table'.handles[v] # NoHandle
      BY DEF Bounded
    <3>1. v \notin DeadOf(S)
      BY <1>2, <1>3, <1>4, NotAhead
    <3>2. u.handles[v] # NoHandle
      BY <2>4, <2>7, <2>9
    <3> QED BY <2>8, <3>1, <3>2
  <2>11. ASSUME NEW v \in AllValues, table'.owned[v], ReadBy(v) # {}, ~isOutput(v)
         PROVE  lastUseNode(v) >= next
    <3>1. u.owned[v] /\ v \notin DeadOf(S)
      BY <2>8, <2>11
    <3>2. CASE v = result
      <4>1. PICK i \in S : v \in NodeOutputs(i)
        BY <2>1, <3>2 DEF GroupOutputs
      <4>2. PICK j \in ReadBy(v) : j \notin S
        BY <2>1, <2>11, <3>2 DEF GroupOutputs
      <4>3. i < j /\ j \in ProgramNodes
        BY <1>2, <1>3, <4>1, ReadLater DEF ReadBy
      <4>6. Min(S) <= i /\ Min(S) \in Nat /\ i \in Nat /\ j \in Nat
        BY <1>1, <1>3, <1>4, <4>3
      <4>7. Min(S) <= j
        BY <4>3, <4>6
      <4>8. ~(j <= Max(S))
        BY <1>3, <4>2, <4>3, <4>7
      <4>4. j >= next
        BY <1>4, <4>6, <4>8
      <4>5. j <= lastUseNode(v) /\ lastUseNode(v) \in Nat
        BY <1>2, LastUseIs
      <4> HIDE DEF next
      <4> QED BY <1>4, <4>3, <4>4, <4>5
    <3>3. CASE v # result
      <4>1. table.owned[v]
        BY <2>7, <3>1, <3>3, Zenon
      <4>2. Begin(position) = position
        BY <1>1 DEF Begin, S
      <4>3. lastUseNode(v) >= position
        BY <1>2, <2>11, <4>1, <4>2 DEF Dropped
      <4>4. \A j \in ProgramNodes : position <= j /\ j <= Max(S) => j \in S
        BY <1>1, <1>3
      <4> QED BY <1>2, <1>3, <1>4, <2>11, <3>1, <4>3, <4>4, ReleasedOrAhead
    <3> QED BY <3>2, <3>3
  <2>12. Dropped(next, table')
    <3> SUFFICES ASSUME NEW v \in AllValues, table'.owned[v], ReadBy(v) # {}, ~isOutput(v)
                 PROVE  lastUseNode(v) >= Begin(next)
      BY DEF Dropped
    <3>1. lastUseNode(v) >= next /\ lastUseNode(v) \in Nat
      BY <1>2, <2>11, LastUseIs
    <3>2. Begin(next) <= next /\ Begin(next) \in Nat
      BY <1>2, <1>4, BeginIs, BeginNumber
    <3> HIDE DEF next
    <3> QED BY <1>4, <3>1, <3>2
  <2>13. LivenessOK(position', operation', table', outcome')
    BY <1>1, <1>6, <2>10, <2>12 DEF LivenessOK
  <2> QED BY <1>6, <2>13, SameLiveness
<1> QED BY <1>1, <1>5, <1>6

----------------------------------------------------------------------------
(* The table follows liveness in every state of the walk.                   *)

LEMMA UnwalkedLively == ASSUME Unwalked PROVE Lively
BY DEF Unwalked, Lively, LivenessOK

LEMMA BindArgumentsKeeps == ASSUME WalkInv, WalkInv', Lively, BindArguments PROVE Lively'
<1> DEFINE bound == [v \in AllValues |-> IF v \in ParameterIds THEN v ELSE NoHandle]
<1>1. /\ outcome = "new" /\ outcome' = "running" /\ plan' = plan /\ position' = position
      /\ operation' = operation
      /\ table' = [table EXCEPT !.handles = bound]
  BY DEF BindArguments
<1>2. /\ plan \in SchedulePlans /\ position = 1 /\ operation = NoOperation /\ IsTable(table)
      /\ \A v \in AllValues : ~table.owned[v]
  BY <1>1 DEF WalkInv, StateOK, Balanced, Lively, LivenessOK
<1> HIDE DEF bound
<1>3. table'.handles = bound /\ table'.owned = table.owned
  BY <1>1, <1>2 DEF IsTable
<1>4. Bounded(1, NoOperation, table')
  <2> SUFFICES ASSUME NEW v \in AllValues, Made(1, NoOperation, v) PROVE table'.handles[v] # NoHandle
    BY DEF Bounded
  <2>1. v \in ParameterIds
    <3>1. ASSUME v \notin ParameterIds PROVE FALSE
      <4>1. TupleProducer(v) < 1 /\ TupleProducer(v) \in ProgramNodes
        BY <1>2, <3>1, MadeBehind, ProducerIs
      <4> QED BY <1>2, <4>1, PlanTyped
    <3> QED BY <3>1
  <2>2. v # NoHandle
    BY <1>2, PlanTyped DEF NoHandle
  <2> QED BY <1>3, <2>1, <2>2 DEF bound
<1>5. Dropped(1, table')
  BY <1>2, <1>3 DEF Dropped
<1>6. LivenessOK(position', operation', table', outcome')
  BY <1>1, <1>2, <1>4, <1>5 DEF LivenessOK
<1> QED BY <1>1, <1>6, SameLiveness

LEMMA EvaluateOutputsKeeps == ASSUME EvaluateOutputs PROVE Lively'
<1>1. CASE WalkFails(table)
  BY <1>1, FailsKeeps
<1>2. CASE outcome' = "evaluated" /\ UNCHANGED <<plan, tracing, position, operation, table, outputs>>
  BY <1>2, SameLiveness DEF LivenessOK
<1> QED BY <1>1, <1>2 DEF EvaluateOutputs

LEMMA HandOverOutputKeeps == ASSUME HandOverOutput PROVE Lively'
<1> DEFINE v == plan.output_ids[Len(outputs) + 1]
           t == DestroyAll(Reading(table, {table.handles[v]}), Range(outputs))
<1>1. outcome = "evaluated" /\ (UNCHANGED <<plan, tracing, position, operation, outcome>> \/ WalkFails(t))
  BY DEF HandOverOutput
<1> HIDE DEF t
<1>2. CASE WalkFails(t)
  BY <1>2, FailsKeeps
<1>3. CASE UNCHANGED <<plan, tracing, position, operation, outcome>>
  BY <1>1, <1>3, SameLiveness DEF LivenessOK
<1> QED BY <1>1, <1>2, <1>3

LEMMA ReturnOutputsKeeps == ASSUME ReturnOutputs PROVE Lively'
<1>1. plan' = plan /\ outcome' = "returned"
  BY DEF ReturnOutputs
<1> QED BY <1>1, SameLiveness DEF LivenessOK

LEMMA StutterKeeps == ASSUME Lively, UNCHANGED scheduleVars PROVE Lively'
BY SameLiveness DEF Lively, scheduleVars

LEMMA LivelyNext == NoTopK /\ WalkInv /\ WalkInv' /\ Lively /\ [ScheduleNext]_scheduleVars => Lively'
BY BindArgumentsKeeps, CallBackendKeeps, DropLocalKeeps, KeepResultKeeps, BorrowConstantKeeps, FinishNodeKeeps,
   RunGroupKernelKeeps, EvaluateOutputsKeeps, HandOverOutputKeeps, ReturnOutputsKeeps, StutterKeeps DEF ScheduleNext

LEMMA LivelyAlways == ASSUME NoTopK PROVE ScheduleSpec => []Lively
<1>1. ScheduleInit => Lively
  BY UnwalkedLively DEF ScheduleInit
<1>2. WalkInv /\ WalkInv' /\ Lively /\ [ScheduleNext]_scheduleVars => Lively'
  BY LivelyNext
<1>3. ScheduleSpec => []WalkInv
  BY WalkInvariance
<1> QED BY <1>1, <1>2, <1>3, PTL DEF ScheduleSpec

LEMMA BindingsFollow == ASSUME WalkInv, Faithful, Lively PROVE BindingsFollowLiveness
<1>1. plan \in SchedulePlans /\ MeansWell(table) /\ GivenMean(table, outputs)
  BY DEF WalkInv, Faithful, ContentOK
<1>2. ASSUME outcome = "running", NEW v \in Computed \cap Buffered
      PROVE  /\ v \in ReadAhead => table.handles[v] # NoHandle /\ table.memory[table.handles[v]] = MeaningOf[v]
             /\ table.owned[v] /\ ReadBy(v) # {} /\ ~isOutput(v) => lastUseNode(v) >= Begin(position)
  <2>1. v \in AllValues /\ Made(position, operation, v)
    BY <1>2 DEF Computed, Buffered, Made
  <2>2. Bounded(position, operation, table) /\ Dropped(position, table)
    BY <1>2 DEF Lively, LivenessOK
  <2>3. v \in ReadAhead => table.handles[v] # NoHandle
    BY <2>1, <2>2 DEF ReadAhead, Ahead, Bounded
  <2> QED BY <1>1, <2>1, <2>2, <2>3 DEF Dropped, MeansWell
<1>3. ASSUME outcome = "returned", NEW k \in DOMAIN plan.output_ids
      PROVE  table.memory[outputs[k]] = MeaningOf[plan.output_ids[k]]
  <2>1. Len(outputs) = Len(plan.output_ids) /\ outputs \in Seq(BackendHandles) /\ plan.output_ids \in Seq(AllValues)
    BY <1>1, <1>3, PlanTyped DEF Faithful, ContentOK, WalkInv, StateOK, Balanced, IsGiven
  <2>2. DOMAIN outputs = DOMAIN plan.output_ids
    BY <2>1
  <2> QED BY <1>1, <1>3, <2>2 DEF GivenMean
<1> QED BY <1>2, <1>3 DEF BindingsFollowLiveness, Begin

(* Whatever the plan in order, of any length, fused or not, and whichever call *)
(* fails: a value read ahead is bound, to what the instructions mean, and a   *)
(* buffer read last is released (execution_values.zig, execution_liveness.zig, *)
(* execution_node*.zig, program_fusion.zig).                               *)
THEOREM BindingsAreFaithful == ASSUME NoTopK PROVE ScheduleSpec => []BindingsFollowLiveness
<1>1. WalkInv /\ Faithful /\ Lively => BindingsFollowLiveness
  BY BindingsFollow
<1> QED BY <1>1, WalkInvariance, FaithfulAlways, LivelyAlways, PTL
============================================================================
