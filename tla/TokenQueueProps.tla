-------------------------- MODULE TokenQueueProps --------------------------
(***************************************************************************)
(* Properties of TokenQueue.                                               *)
(***************************************************************************)
EXTENDS TokenQueue

Open(t) == tok[t].status \in OPEN_STATUSES

-----------------------------------------------------------------------------
(* Safety                                                                  *)

\* The bill a token points at is submitted and points back at the token, while
\* visits end in bills that are cancelled again.  The run with overlapping
\* requests has one bill; BillsAreLive and BillsAreLiveInRaces
\* (TokenQueue_proofs) are for several bills of one visit, in any order.
LinkedBillIsLive ==
    \A t \in Tokens :
        tok[t].bill # None =>
            /\ billState[tok[t].bill] = "Submitted"
            /\ billToken[tok[t].bill] = t

\* One customer at a time is billed at a counter, however claims, releases,
\* bills, withdrawals and the three jobs follow each other: "the exclusive
\* active billing slot" (token_api.py:1716).  TillSpec keeps it; with the
\* walk-in entry and the queue board, Spec does not.
OneBillingSlot ==
    \A c \in Counters : \A s, t \in Queued(tok, c, "In Progress") : s = t

\* The swap of the till (release the open bill, then claim) finds the counter
\* free: nobody is billed there and nobody is left on Hold.
SwapFreesTheCounter ==
    [][\A t \in Tokens :
          (/\ tok[t].status = "In Progress" /\ tok[t].docstatus = 1
           /\ ReleasePosBilling(t, TRUE))
          => \A s \in {"In Progress", "Hold"} : Queued(tok', tok[t].counter, s) = {}]_vars

-----------------------------------------------------------------------------
(* The abstract specification                                              *)

\* Who is billed at a counter, and whose visit is over.
Holder(Q) == IF Q = {} THEN None ELSE CHOOSE t \in Q : TRUE
Over == {t \in Tokens : tok[t].status \in TERMINAL_STATUSES}

CS == INSTANCE CounterSlot
    WITH Visits <- Tokens, Counters <- Counters, Nobody <- None,
         served <- [c \in Counters |-> Holder(Queued(tok, c, "In Progress"))], over <- Over

\* What the till and the jobs do to the visits implements CounterSlot: the
\* slot changes hands only through being free, and "a token can no longer
\* move" (pos_kiosk_token.py:35) once its visit ended.
ImplementsCounterSlot == CS!Spec

-----------------------------------------------------------------------------
(* Liveness                                                                *)

\* Somebody who came to the shop and whose visit is still open is closed at
\* the latest by an end-of-day job, even if the desk keeps restarting it.
VisitsEnd ==
    \A t \in Tokens :
        Open(t) /\ tok[t].inPerson /\ tok[t].docstatus = 1 ~> ~Open(t)

=============================================================================
