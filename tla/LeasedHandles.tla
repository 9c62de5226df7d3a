---------------------------- MODULE LeasedHandles ----------------------------
(***************************************************************************)
(* What the executable cache promises the loaded executables of a client:   *)
(* a holder that was given a handle may use it until it gives it up,        *)
(* because no handle is destroyed while anyone holds it.                    *)
(***************************************************************************)
CONSTANTS Holders, Handles, NoHandle

VARIABLES
  held,    \* [Holders -> handle held, or NoHandle]
  alive    \* handles that exist

vars == <<held, alive>>

InUse(h) == \E x \in Holders : held[x] = h

Init ==
  /\ held = [x \in Holders |-> NoHandle]
  /\ alive = {}

Create(h) ==
  /\ h \notin alive
  /\ alive' = alive \cup {h}
  /\ UNCHANGED held

(* One holder takes or gives up a handle, and handles nobody holds         *)
(* afterwards may be destroyed.                                            *)
Take(x, h) ==
  /\ held[x] = NoHandle
  /\ h \in alive
  /\ held' = [held EXCEPT ![x] = h]

GiveUp(x) ==
  /\ held[x] # NoHandle
  /\ held' = [held EXCEPT ![x] = NoHandle]

Reclaim ==
  /\ alive' \subseteq alive
  /\ \A x \in Holders : held'[x] # NoHandle => held'[x] \in alive'

Next ==
  \/ \E h \in Handles : Create(h)
  \/ \E x \in Holders : (GiveUp(x) \/ \E h \in Handles : Take(x, h)) /\ Reclaim
  \/ UNCHANGED held /\ Reclaim

Spec == Init /\ [][Next]_vars
=============================================================================
