---------------------------- MODULE CounterSlot ----------------------------
(***************************************************************************)
(* What the queue promises the counters: a counter bills one visit at a    *)
(* time, a visit is billed at one counter, the slot passes from one visit  *)
(* to another only by becoming free in between, and a visit that is over   *)
(* is never billed again.                                                  *)
(***************************************************************************)

CONSTANTS Visits, Counters, Nobody

VARIABLES
    served,   \* counter -> the visit that is billed there, or Nobody
    over      \* visits that have ended

vars == <<served, over>>

Init ==
    /\ served = [c \in Counters |-> Nobody]
    /\ over = {}

\* The slot of a free counter goes to a visit that still runs.
Serve(c, v) ==
    /\ served[c] = Nobody
    /\ v \notin over
    /\ \A d \in Counters : served[d] # v
    /\ served' = [served EXCEPT ![c] = v]
    /\ UNCHANGED over

\* Some counters become free, and some visits end; who is over holds no slot.
Free(S) ==
    /\ served' = [c \in Counters |-> IF c \in S THEN Nobody ELSE served[c]]
    /\ over \subseteq over' /\ over' \subseteq Visits
    /\ \A c \in Counters : served'[c] \notin over'

Next ==
    \/ \E c \in Counters : \E v \in Visits : Serve(c, v)
    \/ \E S \in SUBSET Counters : Free(S)

Spec == Init /\ [][Next]_vars

=============================================================================
