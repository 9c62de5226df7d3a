---------------------------- MODULE RuntimeEvents ----------------------------
(***************************************************************************)
(* The runtime's readiness events (src/runtime/event.zig) under the PJRT    *)
(* events the plugin builds on them (src/plugin/events.zig) and the buffer  *)
(* readiness chained after an execution (src/runtime/buffer.zig).           *)
(*                                                                         *)
(* A slot is memory for an event and is reused once its event is gone, also *)
(* while another event still points to it: nothing removes a registration,  *)
(* and what it then resolves is the event that the slot holds by that time, *)
(* if any.  Callbacks run inside the call that completes an event, so that  *)
(* a whole cascade along chained events is one step.                        *)
(***************************************************************************)
EXTENDS Naturals, FiniteSets, Sequences

CONSTANTS
  Events,          \* slots for events
  Callbacks,       \* callback registrations (OnReadyBridge objects)
  MaxCallbacks     \* MAX_EVENT_CALLBACKS

ASSUME EventAssumption ==
  /\ IsFiniteSet(Events)
  /\ IsFiniteSet(Callbacks)
  /\ Events \cap Callbacks = {}
  /\ MaxCallbacks \in Nat

VARIABLES
  state,      \* EventState, or "free" for a slot without an event
  waiting,    \* the callbacks and chained events each event will resolve
  outcome,    \* the statuses each callback was called with
  accepted,   \* callbacks whose OnReady succeeded
  chained     \* events whose completion is left to another event

vars == <<state, waiting, outcome, accepted, chained>>

Complete == {"ready", "failed"}
State == {"free", "pending"} \cup Complete

Init ==
  /\ state = [e \in Events |-> "free"]
  /\ waiting = [e \in Events |-> {}]
  /\ outcome = [c \in Callbacks |-> <<>>]
  /\ accepted = {}
  /\ chained = {}

----------------------------------------------------------------------------
(* Completion.                                                             *)

ReachedAlone(S) == S  \* mutant: chained events are forgotten

(* The slots that the completion of the events S resolves: S and,           *)
(* transitively, what is chained to them.                                  *)
Reached(S) ==
  {d \in Events : \A T \in SUBSET Events :
     (S \subseteq T /\ \A a \in T : waiting[a] \cap Events \subseteq T) => d \in T}

(* Mutant: the last call wins, whatever the event was completed with.      *)
StateOverwritten(S, s) == [d \in Events |-> IF d \in Reached(S) THEN s ELSE state[d]]

(* A pending event takes the status; a complete one ignores a success and  *)
(* is overwritten by a failure; a slot without an event has no state.      *)
StateAfter(S, s) ==
  [d \in Events |->
     IF d \in Reached(S) /\ (state[d] = "pending" \/ (s = "failed" /\ state[d] # "free"))
     THEN s ELSE state[d]]

WaitingKept(S) == waiting  \* mutant: the callback table is not emptied
WaitingAfter(S) == [d \in Events |-> IF d \in Reached(S) THEN {} ELSE waiting[d]]

OutcomeAfter(S, s) ==
  [c \in Callbacks |->
     IF \E d \in Reached(S) : c \in waiting[d] THEN Append(outcome[c], s) ELSE outcome[c]]

----------------------------------------------------------------------------
(* Operations.                                                             *)

Create(e, s) ==
  /\ state[e] = "free"
  /\ state' = [state EXCEPT ![e] = s]
  /\ UNCHANGED <<waiting, outcome, accepted, chained>>

(* Mutant: the capacity test lets one callback too many in.                *)
OnReadyOverflow(e, c) ==
  /\ c \notin accepted
  /\ accepted' = accepted \cup {c}
  /\ \/ /\ state[e] \in Complete
        /\ outcome' = [outcome EXCEPT ![c] = Append(@, state[e])]
        /\ UNCHANGED waiting
     \/ /\ state[e] = "pending"
        /\ Cardinality(waiting[e]) <= MaxCallbacks
        /\ waiting' = [waiting EXCEPT ![e] = @ \cup {c}]
        /\ UNCHANGED outcome
  /\ UNCHANGED <<state, chained>>

(* A completed event calls back at once; a pending one keeps the callback,  *)
(* unless its table is full: then the bridge is destroyed and the caller    *)
(* gets an error.                                                           *)
OnReady(e, c) ==
  /\ c \notin accepted
  /\ accepted' = accepted \cup {c}
  /\ \/ /\ state[e] \in Complete
        /\ outcome' = [outcome EXCEPT ![c] = Append(@, state[e])]
        /\ UNCHANGED waiting
     \/ /\ state[e] = "pending"
        /\ Cardinality(waiting[e]) < MaxCallbacks
        /\ waiting' = [waiting EXCEPT ![e] = @ \cup {c}]
        /\ UNCHANGED outcome
  /\ UNCHANGED <<state, chained>>

(* A call that fails destroys the outputs it has made, on every device, and *)
(* the completion events that they may be chained to.  The host has not     *)
(* seen the outputs, so that no callback waits for them.                   *)
CleanupResults(completions, outputs) ==
  LET gone == completions \cup outputs IN
  /\ completions \cap outputs = {}
  /\ \A e \in completions : state[e] # "free"
  /\ \A d \in outputs : state[d] # "free" /\ waiting[d] = {}
  /\ \A e \in completions : \A d \in waiting[e] \cap Events : state[d] # "free" => d \in outputs
  /\ state' = [d \in Events |-> IF d \in gone THEN "free" ELSE StateAfter(completions, "failed")[d]]
  /\ waiting' = WaitingAfter(completions)
  /\ outcome' = OutcomeAfter(completions, "failed")
  /\ chained' = chained \ gone

(* The readiness d of a fresh output follows e from now on.  When e cannot *)
(* take one more, the call fails, with all the outputs chained to e.  (The *)
(* outputs chained to e have distinct slots: one call makes them all and    *)
(* destroys none before it fails or returns.)                              *)
ChainReadyAfter(d, e) ==
  /\ d # e
  /\ state[d] = "ready" /\ d \notin chained /\ d \notin waiting[e]
  /\ \/ /\ state[e] \in Complete
        /\ state' = [state EXCEPT ![d] = state[e]]
        /\ chained' = chained \cup {d}
        /\ UNCHANGED <<waiting, outcome>>
     \/ /\ state[e] = "pending"
        /\ Cardinality(waiting[e]) < MaxCallbacks
        /\ state' = [state EXCEPT ![d] = "pending"]
        /\ chained' = chained \cup {d}
        /\ waiting' = [waiting EXCEPT ![e] = @ \cup {d}]
        /\ UNCHANGED outcome
     \/ /\ state[e] = "pending"
        /\ Cardinality(waiting[e]) >= MaxCallbacks
        /\ \E completions, outputs \in SUBSET Events :
             /\ e \in completions /\ d \in outputs
             /\ CleanupResults(completions, outputs)
  /\ UNCHANGED accepted

(* The call fails at a later device.                                       *)
ExecuteFails ==
  /\ \E completions, outputs \in SUBSET Events : CleanupResults(completions, outputs)
  /\ UNCHANGED accepted

(* The producer of an event reports success.                               *)
SetReady(e) ==
  /\ state[e] = "pending" /\ e \notin chained
  /\ state' = StateAfter({e}, "ready")
  /\ waiting' = WaitingAfter({e})
  /\ outcome' = OutcomeAfter({e}, "ready")
  /\ UNCHANGED <<accepted, chained>>

(* Failures come from the producer, or from the deletion or donation of    *)
(* the buffer that the event belongs to.                                   *)
SetFailed(e) ==
  /\ state[e] # "free"
  /\ state' = StateAfter({e}, "failed")
  /\ waiting' = WaitingAfter({e})
  /\ outcome' = OutcomeAfter({e}, "failed")
  /\ UNCHANGED <<accepted, chained>>

(* A pending event fails its callbacks before it goes.  An event that is    *)
(* chained to e, or to which e is chained, does not hold it back.          *)
Deinit(e) ==
  /\ state[e] # "free"
  /\ state' = [StateAfter({e}, "failed") EXCEPT ![e] = "free"]
  /\ waiting' = WaitingAfter({e})
  /\ outcome' = OutcomeAfter({e}, "failed")
  /\ chained' = chained \ {e}
  /\ UNCHANGED accepted

Next ==
  \/ \E e \in Events :
       \/ \E s \in State \ {"free"} : Create(e, s)
       \/ \E c \in Callbacks : OnReady(e, c)
       \/ \E d \in Events : ChainReadyAfter(d, e)
       \/ SetReady(e)
       \/ SetFailed(e)
       \/ Deinit(e)
  \/ ExecuteFails

Spec == Init /\ [][Next]_vars

----------------------------------------------------------------------------
(* Properties.                                                             *)

TypeOK ==
  /\ state \in [Events -> State]
  /\ waiting \in [Events -> SUBSET (Events \cup Callbacks)]
  /\ outcome \in [Callbacks -> Seq(Complete)]
  /\ accepted \subseteq Callbacks
  /\ chained \subseteq Events

Holders(w) == {e \in Events : w \in waiting[e]}

(* Every callback accepted is either held by exactly one pending event or  *)
(* was called exactly once; one that was refused was never called.         *)
CalledOnce ==
  /\ \A e \in Events : waiting[e] # {} => state[e] = "pending"
  /\ \A c \in Callbacks :
       Cardinality(Holders(c)) + Len(outcome[c]) = IF c \in accepted THEN 1 ELSE 0

(* The table of callbacks never exceeds its fixed storage.                 *)
WithinTable == \A e \in Events : Cardinality(waiting[e]) <= MaxCallbacks

(* The readiness of an execution's output is pending only while the event  *)
(* it was chained to is: neither completion nor destruction of that event  *)
(* leaves the output waiting for nothing.                                  *)
ChainsResolve ==
  \A d \in chained : state[d] = "pending" => \E e \in Events : d \in waiting[e]

(* A failure is final: no later success of the producer, and no success    *)
(* cascading along a chain, makes a failed event ready or pending again.   *)
FailureIsFinal ==
  [][\A e \in Events : state[e] = "failed" => state'[e] \in {"failed", "free"}]_vars
=============================================================================
