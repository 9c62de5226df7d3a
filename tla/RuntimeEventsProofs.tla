------------------------- MODULE RuntimeEventsProofs -------------------------
(***************************************************************************)
(* Proofs about RuntimeEvents for any number of events and callbacks and    *)
(* any table size.                                                          *)
(***************************************************************************)
EXTENDS RuntimeEvents, FiniteSetTheorems, TLAPS

(* A callback is free, held by one event, or called once.                  *)
CallbackInv ==
  \A c \in Callbacks :
    \/ c \notin accepted /\ Holders(c) = {} /\ outcome[c] = <<>>
    \/ c \in accepted /\ (\E e \in Events : Holders(c) = {e}) /\ outcome[c] = <<>>
    \/ c \in accepted /\ Holders(c) = {} /\ Len(outcome[c]) = 1

OnlyPendingWait == \A e \in Events : waiting[e] # {} => state[e] = "pending"

FreeIsUnchained == \A e \in Events : state[e] = "free" => e \notin chained

IInv ==
  /\ TypeOK
  /\ OnlyPendingWait
  /\ CallbackInv
  /\ WithinTable
  /\ ChainsResolve
  /\ FreeIsUnchained

----------------------------------------------------------------------------
(* Facts about the operators.                                              *)

(* What the completion of the events S resolves contains S and is closed    *)
(* under chaining.                                                          *)
LEMMA ReachedClosed ==
  ASSUME NEW S \in SUBSET Events
  PROVE  /\ Reached(S) \subseteq Events
         /\ S \subseteq Reached(S)
         /\ \A a \in Reached(S) : waiting[a] \cap Events \subseteq Reached(S)
BY DEF Reached

(* Waiting sets are finite, for they hold callbacks and events only.       *)
LEMMA WaitingFinite ==
  ASSUME TypeOK, NEW e \in Events
  PROVE  IsFiniteSet(waiting[e]) /\ Cardinality(waiting[e]) \in Nat
<1>1. waiting[e] \in SUBSET (Events \cup Callbacks)  BY DEF TypeOK
<1>2. IsFiniteSet(Events \cup Callbacks)  BY EventAssumption, FS_Union
<1> QED  BY <1>1, <1>2, FS_Subset, FS_CardinalityType

(* Adding one element to a waiting set with room keeps it within the table. *)
LEMMA OneMoreFits ==
  ASSUME TypeOK, NEW e \in Events, NEW w, Cardinality(waiting[e]) < MaxCallbacks
  PROVE  Cardinality(waiting[e] \cup {w}) <= MaxCallbacks
<1>1. IsFiniteSet(waiting[e]) /\ Cardinality(waiting[e]) \in Nat  BY WaitingFinite
<1>2. Cardinality(waiting[e] \cup {w}) \in {Cardinality(waiting[e]), Cardinality(waiting[e]) + 1}
  BY <1>1, FS_AddElement
<1> QED  BY <1>1, <1>2, EventAssumption

----------------------------------------------------------------------------
(* What a completion of the events S with status s preserves, when the      *)
(* events F are destroyed as well.  SetReady, SetFailed, Deinit and the     *)
(* cleanup of a failed call differ only in S and F.                         *)

Resolved(S, s, F) ==
  /\ waiting' = WaitingAfter(S)
  /\ outcome' = OutcomeAfter(S, s)
  /\ accepted' = accepted
  /\ state' = [d \in Events |-> IF d \in F THEN "free" ELSE StateAfter(S, s)[d]]
  /\ chained' = chained \ F

LEMMA ResolvedInvariant ==
  ASSUME IInv, NEW S \in SUBSET Events, NEW s \in Complete, NEW F \in SUBSET Events,
         \A d \in F : d \in S \/ waiting[d] = {}, Resolved(S, s, F)
  PROVE  IInv'
<1> DEFINE R == Reached(S)
<1>1. /\ R \subseteq Events
      /\ S \subseteq R
      /\ \A a \in R : waiting[a] \cap Events \subseteq R
  BY ReachedClosed
<1>2. waiting' = [d \in Events |-> IF d \in R THEN {} ELSE waiting[d]]
  BY DEF Resolved, WaitingAfter
<1>3. outcome' = [c \in Callbacks |->
        IF \E d \in R : c \in waiting[d] THEN Append(outcome[c], s) ELSE outcome[c]]
  BY DEF Resolved, OutcomeAfter
<1>a. state \in [Events -> State]
  BY DEF IInv, TypeOK
<1>b. \A d \in Events :
        state'[d] = IF d \in F THEN "free"
                    ELSE IF d \in R /\ (state[d] = "pending" \/ (s = "failed" /\ state[d] # "free"))
                         THEN s ELSE state[d]
  BY DEF Resolved, StateAfter
<1>4. \A d \in Events \ (R \cup F) : state'[d] = state[d]
  BY <1>b
<1>5. \A d \in R : state'[d] # "pending"
  BY <1>1, <1>b DEF Complete
<1>c. /\ state' \in [Events -> State]
      /\ \A d \in Events \ F : state'[d] = "free" => state[d] = "free"
  <2>1. \A d \in Events : state'[d] \in State
    BY <1>a, <1>b DEF State, Complete
  <2>2. state' = [d \in Events |-> state'[d]]
    BY DEF Resolved
  <2>3. \A d \in Events \ F : state'[d] = "free" => state[d] = "free"
    BY <1>b DEF Complete
  <2> QED  BY <2>1, <2>2, <2>3
<1> HIDE DEF R
<1>6. TypeOK'
  <2>1. outcome' \in [Callbacks -> Seq(Complete)]
    BY <1>3 DEF IInv, TypeOK
  <2>2. waiting' \in [Events -> SUBSET (Events \cup Callbacks)]
    BY <1>2 DEF IInv, TypeOK
  <2> QED  BY <1>c, <2>1, <2>2 DEF Resolved, IInv, TypeOK
<1>7. OnlyPendingWait'
  BY <1>1, <1>2, <1>4 DEF IInv, OnlyPendingWait
<1>8. CallbackInv'
  <2> SUFFICES ASSUME NEW c \in Callbacks
               PROVE  \/ c \notin accepted' /\ Holders(c)' = {} /\ outcome'[c] = <<>>
                      \/ c \in accepted' /\ (\E h \in Events : Holders(c)' = {h}) /\ outcome'[c] = <<>>
                      \/ c \in accepted' /\ Holders(c)' = {} /\ Len(outcome'[c]) = 1
    BY DEF CallbackInv
  <2>1. Holders(c)' = Holders(c) \ R
    BY <1>1, <1>2 DEF Holders
  <2>2. accepted' = accepted  BY DEF Resolved
  <2>3. (\E d \in R : c \in waiting[d]) <=> Holders(c) \cap R # {}
    BY <1>1 DEF Holders
  <2>4. CASE Holders(c) = {}
    BY <1>3, <2>1, <2>2, <2>3, <2>4 DEF IInv, CallbackInv
  <2>5. CASE \E h \in Events : Holders(c) = {h}
    <3>1. c \in accepted /\ outcome[c] = <<>>  BY <2>5 DEF IInv, CallbackInv
    <3>2. PICK h \in Events : Holders(c) = {h}  BY <2>5
    <3>3. CASE h \in R
      <4>1. outcome'[c] = Append(<<>>, s)  BY <1>3, <2>3, <3>1, <3>2, <3>3
      <4>2. Len(Append(<<>>, s)) = 1  OBVIOUS
      <4> QED  BY <2>1, <2>2, <3>1, <3>2, <3>3, <4>1, <4>2
    <3>4. CASE h \notin R
      BY <1>3, <2>1, <2>2, <2>3, <3>1, <3>2, <3>4
    <3> QED  BY <3>3, <3>4
  <2> QED  BY <2>4, <2>5 DEF IInv, CallbackInv
<1>9. WithinTable'
  BY <1>2, FS_EmptySet, EventAssumption DEF IInv, WithinTable
<1>10. ChainsResolve'
  <2> SUFFICES ASSUME NEW d \in chained', state'[d] = "pending"
               PROVE  \E h \in Events : d \in waiting'[h]
    BY DEF ChainsResolve
  <2>1. d \in chained /\ d \in Events /\ d \notin R /\ d \notin F
    BY <1>5 DEF Resolved, IInv, TypeOK
  <2>2. PICK h \in Events : d \in waiting[h]
    BY <1>4, <2>1 DEF IInv, ChainsResolve
  <2>3. h \notin R  BY <1>1, <2>1, <2>2
  <2> QED  BY <1>2, <2>2, <2>3
<1>11. FreeIsUnchained'
  BY <1>c DEF Resolved, IInv, FreeIsUnchained
<1> QED  BY <1>6, <1>7, <1>8, <1>9, <1>10, <1>11 DEF IInv

----------------------------------------------------------------------------
(* The inductive invariant.                                                *)

LEMMA InitInvariant == Init => IInv
<1> SUFFICES ASSUME Init PROVE IInv  OBVIOUS
<1>1. TypeOK  BY DEF Init, TypeOK, State
<1>2. OnlyPendingWait  BY DEF Init, OnlyPendingWait
<1>3. CallbackInv  BY DEF Init, CallbackInv, Holders
<1>4. WithinTable  BY FS_EmptySet, EventAssumption DEF Init, WithinTable
<1>5. ChainsResolve  BY DEF Init, ChainsResolve
<1>6. FreeIsUnchained  BY DEF Init, FreeIsUnchained
<1> QED  BY <1>1, <1>2, <1>3, <1>4, <1>5, <1>6 DEF IInv

LEMMA CreateInvariant ==
  ASSUME IInv, NEW e \in Events, NEW s \in State \ {"free"}, Create(e, s)
  PROVE  IInv'
<1>1. TypeOK'  BY DEF Create, IInv, TypeOK
<1>2. OnlyPendingWait'  BY DEF Create, IInv, OnlyPendingWait, TypeOK, State, Complete
<1>3. CallbackInv'  BY DEF Create, IInv, CallbackInv, Holders
<1>4. WithinTable'  BY DEF Create, IInv, WithinTable
<1>5. ChainsResolve'
  BY DEF Create, IInv, ChainsResolve, FreeIsUnchained, TypeOK
<1>6. FreeIsUnchained'  BY DEF Create, IInv, FreeIsUnchained, TypeOK
<1> QED  BY <1>1, <1>2, <1>3, <1>4, <1>5, <1>6 DEF IInv

LEMMA OnReadyInvariant ==
  ASSUME IInv, NEW e \in Events, NEW c \in Callbacks, OnReady(e, c)
  PROVE  IInv'
<1>1. /\ c \notin accepted /\ accepted' = accepted \cup {c}
      /\ state' = state /\ chained' = chained
  BY DEF OnReady
<1>2. Holders(c) = {} /\ outcome[c] = <<>>
  BY <1>1 DEF IInv, CallbackInv
<1>3. CASE state[e] \in Complete /\ outcome' = [outcome EXCEPT ![c] = Append(@, state[e])]
           /\ waiting' = waiting
  <2>1. TypeOK'  BY <1>1, <1>3 DEF IInv, TypeOK
  <2>2. outcome'[c] = Append(<<>>, state[e])
    BY <1>2, <1>3 DEF IInv, TypeOK
  <2>3. Len(Append(<<>>, state[e])) = 1  OBVIOUS
  <2>4. \A b \in Callbacks \ {c} : outcome'[b] = outcome[b]
    BY <1>3 DEF IInv, TypeOK
  <2>5. \A b \in Callbacks : Holders(b)' = Holders(b)
    BY <1>3 DEF Holders
  <2>6. CallbackInv'
    BY <1>1, <1>2, <2>2, <2>3, <2>4, <2>5 DEF IInv, CallbackInv
  <2> QED
    BY <1>1, <1>3, <2>1, <2>6
       DEF IInv, OnlyPendingWait, WithinTable, ChainsResolve, FreeIsUnchained
<1>4. CASE state[e] = "pending" /\ Cardinality(waiting[e]) < MaxCallbacks
           /\ waiting' = [waiting EXCEPT ![e] = @ \cup {c}] /\ outcome' = outcome
  <2>1. TypeOK'  BY <1>1, <1>4 DEF IInv, TypeOK
  <2>2. waiting'[e] = waiting[e] \cup {c} /\ \A h \in Events \ {e} : waiting'[h] = waiting[h]
    BY <1>4 DEF IInv, TypeOK
  <2>3. \A b \in Callbacks \ {c} : Holders(b)' = Holders(b)
    BY <2>2 DEF Holders
  <2>4. Holders(c)' = {e}
    BY <1>2, <2>2 DEF Holders
  <2>5. CallbackInv'
    BY <1>1, <1>2, <1>4, <2>3, <2>4 DEF IInv, CallbackInv
  <2>6. Cardinality(waiting'[e]) <= MaxCallbacks
    BY <1>4, <2>2, OneMoreFits DEF IInv
  <2>7. WithinTable'  BY <2>2, <2>6 DEF IInv, WithinTable
  <2>8. OnlyPendingWait'  BY <1>1, <1>4, <2>2 DEF IInv, OnlyPendingWait
  <2>9. ChainsResolve'  BY <1>1, <2>2 DEF IInv, ChainsResolve
  <2>10. FreeIsUnchained'  BY <1>1 DEF IInv, FreeIsUnchained
  <2> QED  BY <2>1, <2>5, <2>7, <2>8, <2>9, <2>10 DEF IInv
<1> QED  BY <1>3, <1>4 DEF OnReady

(* The cleanup of a failed call fails the completion events and destroys    *)
(* them, with outputs that nothing waits for.                               *)
LEMMA CleanupInvariant ==
  ASSUME IInv, NEW S \in SUBSET Events, NEW D \in SUBSET Events, CleanupResults(S, D),
         accepted' = accepted
  PROVE  IInv'
<1>1. Resolved(S, "failed", S \cup D)
  BY DEF CleanupResults, Resolved
<1>2. \A d \in S \cup D : d \in S \/ waiting[d] = {}
  BY DEF CleanupResults
<1> QED  BY <1>1, <1>2, ResolvedInvariant DEF Complete

LEMMA ChainReadyAfterInvariant ==
  ASSUME IInv, NEW d \in Events, NEW e \in Events, ChainReadyAfter(d, e)
  PROVE  IInv'
<1>1. d # e /\ state[d] = "ready" /\ d \notin chained
      /\ accepted' = accepted
  BY DEF ChainReadyAfter
<1>2. waiting[d] = {}  BY <1>1 DEF IInv, OnlyPendingWait
<1>3. CASE state[e] \in Complete /\ state' = [state EXCEPT ![d] = state[e]]
           /\ chained' = chained \cup {d} /\ waiting' = waiting /\ outcome' = outcome
  <2>1. TypeOK'  BY <1>1, <1>3 DEF IInv, TypeOK, State
  <2>2. CallbackInv'  BY <1>1, <1>3 DEF IInv, CallbackInv, Holders
  <2>3. OnlyPendingWait'  BY <1>2, <1>3 DEF IInv, TypeOK, OnlyPendingWait
  <2>4. WithinTable'  BY <1>3 DEF IInv, WithinTable
  <2>5. ChainsResolve'  BY <1>3 DEF IInv, TypeOK, ChainsResolve, Complete
  <2>6. FreeIsUnchained'  BY <1>3 DEF IInv, TypeOK, FreeIsUnchained, Complete
  <2> QED  BY <2>1, <2>2, <2>3, <2>4, <2>5, <2>6 DEF IInv
<1>4. CASE state[e] = "pending" /\ Cardinality(waiting[e]) < MaxCallbacks
           /\ state' = [state EXCEPT ![d] = "pending"] /\ chained' = chained \cup {d}
           /\ waiting' = [waiting EXCEPT ![e] = @ \cup {d}] /\ outcome' = outcome
  <2>1. TypeOK'  BY <1>1, <1>4 DEF IInv, TypeOK, State
  <2>2. waiting'[e] = waiting[e] \cup {d} /\ \A h \in Events \ {e} : waiting'[h] = waiting[h]
    BY <1>4 DEF IInv, TypeOK
  <2>3. \A b \in Callbacks : Holders(b)' = Holders(b)
    BY <2>2, EventAssumption DEF Holders
  <2>4. CallbackInv'  BY <1>1, <1>4, <2>3 DEF IInv, CallbackInv
  <2>5. Cardinality(waiting'[e]) <= MaxCallbacks
    BY <1>4, <2>2, OneMoreFits DEF IInv
  <2>6. WithinTable'  BY <2>2, <2>5 DEF IInv, WithinTable
  <2>7. OnlyPendingWait'  BY <1>1, <1>2, <1>4, <2>2 DEF IInv, TypeOK, OnlyPendingWait
  <2>8. ChainsResolve'  BY <1>4, <2>2 DEF IInv, TypeOK, ChainsResolve
  <2>9. FreeIsUnchained'  BY <1>4 DEF IInv, TypeOK, FreeIsUnchained
  <2> QED  BY <2>1, <2>4, <2>6, <2>7, <2>8, <2>9 DEF IInv
<1>5. CASE \E S, D \in SUBSET Events : CleanupResults(S, D)
  BY <1>1, <1>5, CleanupInvariant
<1> QED  BY <1>3, <1>4, <1>5 DEF ChainReadyAfter

LEMMA CompletionInvariant ==
  ASSUME IInv, NEW e \in Events, SetReady(e) \/ SetFailed(e) \/ Deinit(e)
  PROVE  IInv'
<1>1. \A s \in Complete : StateAfter({e}, s) = [d \in Events |-> StateAfter({e}, s)[d]]
  BY DEF StateAfter
<1>2. {e} \in SUBSET Events /\ {} \in SUBSET Events
  OBVIOUS
<1>3. CASE SetReady(e)
  <2>1. Resolved({e}, "ready", {})
    BY <1>1, <1>3 DEF SetReady, Resolved, Complete
  <2> QED  BY <1>2, <2>1, ResolvedInvariant DEF Complete
<1>4. CASE SetFailed(e)
  <2>1. Resolved({e}, "failed", {})
    BY <1>1, <1>4 DEF SetFailed, Resolved, Complete
  <2> QED  BY <1>2, <2>1, ResolvedInvariant DEF Complete
<1>5. CASE Deinit(e)
  <2>1. state' = [d \in Events |-> IF d \in {e} THEN "free" ELSE StateAfter({e}, "failed")[d]]
    BY <1>1, <1>5 DEF Deinit, Complete, StateAfter
  <2>2. Resolved({e}, "failed", {e})
    BY <1>5, <2>1 DEF Deinit, Resolved
  <2> QED  BY <1>2, <2>2, ResolvedInvariant DEF Complete
<1> QED  BY <1>3, <1>4, <1>5

LEMMA StutterInvariant ==
  ASSUME IInv, UNCHANGED vars
  PROVE  IInv'
BY DEF vars, IInv, TypeOK, OnlyPendingWait, CallbackInv, Holders, WithinTable, ChainsResolve,
       FreeIsUnchained

(* The strengthened invariant of every run of the events.                  *)
THEOREM EventInvariant == Spec => []IInv
<1>1. Init => IInv  BY InitInvariant
<1>2. IInv /\ [Next]_vars => IInv'
  <2> SUFFICES ASSUME IInv, [Next]_vars PROVE IInv'  OBVIOUS
  <2>1. CASE Next
    <3>1. ASSUME ExecuteFails PROVE IInv'
      BY <3>1, CleanupInvariant DEF ExecuteFails
    <3> QED
      BY <2>1, <3>1, CreateInvariant, OnReadyInvariant, ChainReadyAfterInvariant, CompletionInvariant
         DEF Next
  <2>2. CASE UNCHANGED vars  BY <2>2, StutterInvariant
  <2> QED  BY <2>1, <2>2
<1> QED  BY <1>1, <1>2, PTL DEF Spec

----------------------------------------------------------------------------
(* What the events promise.                                                *)

(* A callback accepted by Event.onReady is called exactly once: it is       *)
(* either still held by one pending event or was called one time.           *)
THEOREM CallbacksAreCalledOnce == Spec => []CalledOnce
<1>1. IInv => CalledOnce
  <2> SUFFICES ASSUME IInv, NEW c \in Callbacks
               PROVE  Cardinality(Holders(c)) + Len(outcome[c])
                        = IF c \in accepted THEN 1 ELSE 0
    BY DEF CalledOnce, IInv, OnlyPendingWait
  <2>1. Cardinality({}) = 0 /\ Len(<<>>) = 0  BY FS_EmptySet
  <2>2. CASE Holders(c) = {}
    <3>1. Cardinality(Holders(c)) = 0  BY <2>1, <2>2
    <3>2. CASE c \notin accepted /\ outcome[c] = <<>>  BY <2>1, <3>1, <3>2
    <3>3. CASE c \in accepted /\ Len(outcome[c]) = 1  BY <3>1, <3>3
    <3> QED  BY <2>2, <3>2, <3>3 DEF IInv, CallbackInv
  <2>3. CASE \E e \in Events : Holders(c) = {e}
    <3>1. Cardinality(Holders(c)) = 1  BY <2>3, FS_Singleton
    <3>2. c \in accepted /\ outcome[c] = <<>>  BY <2>3 DEF IInv, CallbackInv
    <3> QED  BY <2>1, <3>1, <3>2
  <2> QED  BY <2>2, <2>3 DEF IInv, CallbackInv
<1> QED  BY <1>1, EventInvariant, PTL

(* No event ever holds more callbacks than its fixed table has room for.   *)
THEOREM TableNeverOverflows == Spec => []WithinTable
<1>1. IInv => WithinTable  BY DEF IInv
<1> QED  BY <1>1, EventInvariant, PTL

(* No output of an execution stays pending on an event that is complete or *)
(* destroyed.                                                              *)
THEOREM NoChainIsLost == Spec => []ChainsResolve
<1>1. IInv => ChainsResolve  BY DEF IInv
<1> QED  BY <1>1, EventInvariant, PTL

(* Nothing turns a failed event into a ready or a pending one.             *)
THEOREM FailuresAreFinal == Spec => FailureIsFinal
<1> DEFINE Stays(e) == state[e] = "failed" => state'[e] \in {"failed", "free"}
<1>1. IInv /\ [Next]_vars => [\A e \in Events : Stays(e)]_vars
  <2> SUFFICES ASSUME IInv, Next, NEW d \in Events, state[d] = "failed"
               PROVE  state'[d] \in {"failed", "free"}
    OBVIOUS
  <2>1. ASSUME NEW e \in Events, NEW s \in State, Create(e, s)
        PROVE  state'[d] = "failed"
    BY <2>1 DEF Create, IInv, TypeOK
  <2>2. ASSUME NEW e \in Events, NEW c \in Callbacks, OnReady(e, c)
        PROVE  state'[d] = "failed"
    BY <2>2 DEF OnReady
  <2>3. ASSUME NEW e \in Events, NEW a \in Events, ChainReadyAfter(a, e)
        PROVE  state'[d] \in {"failed", "free"}
    <3>1. CASE state' = [state EXCEPT ![a] = state[e]] \/ state' = [state EXCEPT ![a] = "pending"]
      BY <2>3, <3>1 DEF ChainReadyAfter, IInv, TypeOK
    <3>2. CASE \E S, D \in SUBSET Events : CleanupResults(S, D)
      BY <3>2 DEF CleanupResults, StateAfter
    <3> QED  BY <2>3, <3>1, <3>2 DEF ChainReadyAfter
  <2>4. ASSUME NEW e \in Events, SetReady(e) \/ SetFailed(e) \/ Deinit(e)
        PROVE  state'[d] \in {"failed", "free"}
    BY <2>4 DEF SetReady, SetFailed, Deinit, StateAfter
  <2>5. ASSUME ExecuteFails
        PROVE  state'[d] \in {"failed", "free"}
    BY <2>5 DEF ExecuteFails, CleanupResults, StateAfter
  <2> QED  BY <2>1, <2>2, <2>3, <2>4, <2>5 DEF Next
<1> QED  BY <1>1, EventInvariant, PTL DEF Spec, FailureIsFinal
=============================================================================
