------------------------- MODULE OfflineBillingProps ------------------------
(***************************************************************************)
(* Properties of OfflineBilling.                                           *)
(***************************************************************************)
EXTENDS OfflineBilling

Billed(k) == live[k] + cancelled[k] > 0

-----------------------------------------------------------------------------
(* Safety                                                                  *)

\* A sale the till has put behind it is not lost: it is billed, or it still
\* waits in the browser's store, whatever answers, connections and tabs were
\* lost in between.
SaleIsKept ==
    \A s \in Sales :
        cart[s] = "done" =>
            \E k \in Presses : saleOf[k] = s /\ (k \in pending \/ Billed(k))

\* A request id is billed twice only when the browser gave up calls with it
\* that the server was still serving, and once more for each of those at
\* most: a replay after the invoice was committed, whether the answer was
\* lost or the tab closed before it was read, finds that invoice.
ExtraBillsWereOvertaken ==
    \A k \in Presses : live[k] <= 1 + overtaken[k]

-----------------------------------------------------------------------------
(* The abstract specification                                              *)

DQ == INSTANCE DurableQueue
    WITH Ids <- Presses, minted <- {k \in Presses : Minted(k)}, stored <- pending,
         billed <- {k \in Presses : Billed(k)}

\* The store is a durable queue: a sale leaves it only once it is billed and
\* before every later one, a press is stored once, and nothing is billed
\* that nobody paid, whatever connections, answers and tabs are lost.
ImplementsDurableQueue == DQ!Spec

-----------------------------------------------------------------------------
(* Liveness                                                                *)

\* "Invoice queued - will sync when online" (payment_dialog.js:3518), when
\* the server refuses nothing.
QueuedSalesSync ==
    \A k \in Presses : k \in pending ~> k \notin pending

=============================================================================
