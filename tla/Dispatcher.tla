----------------------------- MODULE Dispatcher -----------------------------
(***************************************************************************)
(* What the request path promises, without locks, loops or goroutines:     *)
(* every request is placed on one node while the balancer looks at a view  *)
(* of the load that is nowhere below the load it accounts for, is counted  *)
(* on that node from then on, and is taken off it once.                    *)
(*                                                                         *)
(* A telemetry reset makes the balancer forget load it still carries; from *)
(* then on the accounts may run short (dirty), never over.                 *)
(***************************************************************************)
EXTENDS Integers

CONSTANTS
    Nodes,     \* a set of positive integers
    Requests

Queued == 0
Gone   == -1

VARIABLES
    load,     \* the load accounted for on each node
    place,    \* where a request is: Queued, on a node, or Gone
    view,     \* the load the balancer is looking at
    dirty     \* a reset has happened

dvars == <<load, place, view, dirty>>

Init ==
    /\ load = [n \in Nodes |-> 0]
    /\ place = [r \in Requests |-> Queued]
    /\ view = [n \in Nodes |-> 0]
    /\ dirty = FALSE

Observe ==
    /\ view' \in [Nodes -> Nat]
    /\ UNCHANGED <<load, place, dirty>>

Dispatch(r, n) ==
    /\ place[r] = Queued
    /\ \A m \in Nodes : load[m] <= view[m]
    /\ place' = [place EXCEPT ![r] = n]
    /\ \/ load' = [load EXCEPT ![n] = @ + 1]
       \/ dirty /\ UNCHANGED load
    /\ UNCHANGED <<view, dirty>>

Refuse(r) ==
    /\ place[r] = Queued
    /\ place' = [place EXCEPT ![r] = Gone]
    /\ view' \in [Nodes -> Nat]
    /\ UNCHANGED <<load, dirty>>

Finish(r) ==
    /\ place[r] \in Nodes
    /\ place' = [place EXCEPT ![r] = Gone]
    /\ \/ load' = [load EXCEPT ![place[r]] = @ - 1] /\ load[place[r]] > 0
       \/ dirty /\ load[place[r]] = 0 /\ UNCHANGED load
    /\ UNCHANGED <<view, dirty>>

Reset ==
    /\ dirty' = TRUE
    /\ UNCHANGED <<load, place, view>>

Forget(n) ==
    /\ dirty
    /\ load' = [load EXCEPT ![n] = 0]
    /\ UNCHANGED <<place, view, dirty>>

Next ==
    \/ Observe
    \/ \E r \in Requests : \/ \E n \in Nodes : Dispatch(r, n)
                           \/ Refuse(r)
                           \/ Finish(r)
    \/ Reset
    \/ \E n \in Nodes : Forget(n)

Spec == Init /\ [][Next]_dvars

=============================================================================
