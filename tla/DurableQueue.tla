---------------------------- MODULE DurableQueue ----------------------------
(***************************************************************************)
(* What the offline queue promises: ids are minted in their order, what is *)
(* stored leaves the store oldest first and only once it is billed, and    *)
(* nothing is billed that was not minted.                                  *)
(***************************************************************************)
EXTENDS Integers

CONSTANT Ids

VARIABLES
    minted,   \* ids of the sales that were rung up
    stored,   \* those that wait in the store
    billed    \* those for which an invoice was made

vars == <<minted, stored, billed>>

Init == minted = {} /\ stored = {} /\ billed = {}

Newest(k) == k \notin minted /\ \A j \in minted : j < k
Oldest(k) == \A j \in stored \ {k} : k < j

\* A sale is rung up: it is stored, or billed without the store.
Put(k) ==
    /\ Newest(k)
    /\ minted' = minted \cup {k} /\ stored' = stored \cup {k}
    /\ UNCHANGED billed
Mint(k) ==
    /\ Newest(k)
    /\ minted' = minted \cup {k}
    /\ UNCHANGED <<stored, billed>>

Bill(k) ==
    /\ k \in minted
    /\ billed' = billed \cup {k}
    /\ UNCHANGED <<minted, stored>>

Take(k) ==
    /\ k \in stored /\ k \in billed /\ Oldest(k)
    /\ stored' = stored \ {k}
    /\ UNCHANGED <<minted, billed>>

Next == \E k \in Ids : Put(k) \/ Mint(k) \/ Bill(k) \/ Take(k)

Spec == Init /\ [][Next]_vars

=============================================================================
