------------------------ MODULE OfflineBilling_proofs -----------------------
(***************************************************************************)
(* For every number of sales, web workers, presses and troubles: types,    *)
(* that a sale the till has put behind it is not lost, that a press is     *)
(* billed again only for calls that were overtaken, and that the store is  *)
(* replayed in its order.                                                  *)
(***************************************************************************)
EXTENDS OfflineBillingProps, FiniteSetTheorems, TLAPS

-----------------------------------------------------------------------------
(* Types                                                                   *)

\* What GiveUp counts is a number, because the workers are finitely many.
LEMMA GiveUpCounts ==
    ASSUME TypeOK, NEW W \in SUBSET Workers, GiveUp(W)
    PROVE  /\ overtaken' \in [Presses -> Nat]
           /\ req' \in [Workers -> Requests]
           /\ \A w \in Workers : req'[w].phase \in {"ok", "failed"} => req'[w].from # "nobody"
<1>1. \A k \in Presses : Cardinality({w \in W : Busy(w) /\ req[w].press = k}) \in Nat
  <2> TAKE k \in Presses
  <2>1. {w \in W : Busy(w) /\ req[w].press = k} \in SUBSET Workers
    OBVIOUS
  <2>2. IsFiniteSet({w \in W : Busy(w) /\ req[w].press = k})
    BY <2>1, FS_Subset, OfflineBillingAssumption
  <2> QED BY <2>2, FS_CardinalityType
<1>2. overtaken' \in [Presses -> Nat]
  <2> DEFINE n(k) == Cardinality({w \in W : Busy(w) /\ req[w].press = k})
  <2>1. overtaken' = [k \in Presses |-> overtaken[k] + n(k)]
    BY DEF GiveUp
  <2>2. \A k \in Presses : n(k) \in Nat
    BY <1>1
  <2>3. overtaken \in [Presses -> Nat]
    BY DEF TypeOK
  <2> HIDE DEF n
  <2> QED BY <2>1, <2>2, <2>3
<1>3. \A w \in Workers : Abandoned(req[w]) \in Requests
  <2> TAKE w \in Workers
  <2>1. req[w] \in Requests
    BY DEF TypeOK
  <2> QED BY <2>1, OfflineBillingAssumption DEF Abandoned, Idle, Requests
<1>4. req' = [w \in Workers |-> IF w \in W THEN Abandoned(req[w]) ELSE req[w]]
  BY DEF GiveUp
<1>5. req' \in [Workers -> Requests]
  BY <1>3, <1>4 DEF TypeOK
<1>6. ASSUME NEW w \in Workers, req'[w].phase \in {"ok", "failed"}
      PROVE  req'[w].from # "nobody"
  <2>1. req[w] \in Requests /\ (req[w].phase \in {"ok", "failed"} => req[w].from # "nobody")
    BY DEF TypeOK
  <2>2. CASE w \in W
    BY <1>4, <1>6, <2>1, <2>2 DEF Abandoned, Idle, Requests
  <2>3. CASE w \notin W
    BY <1>4, <1>6, <2>1, <2>3
  <2> QED BY <2>2, <2>3
<1> QED BY <1>2, <1>5, <1>6

\* A request that goes to another phase, or ends, is still a request.
LEMMA AnsweredIsRequest ==
    ASSUME NEW r \in Requests, NEW w \in Workers, req[w] = r, NEW phase \in {"ok", "failed"}
    PROVE  /\ Ended(w, phase) \in Requests
           /\ Ended(w, phase).phase \in {"ok", "failed"} => Ended(w, phase).from # "nobody"
BY OfflineBillingAssumption DEF Ended, Idle, Requests

LEMMA IdleIsRequest == Idle \in Requests /\ Idle.phase = "idle"
BY OfflineBillingAssumption DEF Idle, Requests

\* SyncService takes the flag and a copy of the store, or does nothing.
LEMMA SyncPendingTypes ==
    ASSUME TypeOK, NEW connected \in BOOLEAN, SyncPending(connected)
    PROVE  syncing' \in BOOLEAN /\ batch' \subseteq Presses
BY DEF SyncPending, TypeOK

\* Every variable keeps to its type: TypeOK of OfflineBilling.
THEOREM OfflineTypes == Spec => []TypeOK
<1>1. Init => TypeOK
  <2> SUFFICES ASSUME Init PROVE TypeOK
    OBVIOUS
  <2>1. /\ req \in [Workers -> Requests]
        /\ \A w \in Workers : req[w].phase \in {"ok", "failed"} => req[w].from # "nobody"
    BY IdleIsRequest DEF Init
  <2>2. /\ saleOf \in [Presses -> Sales \cup {NoSale}]
        /\ live \in [Presses -> Nat] /\ cancelled \in [Presses -> Nat]
        /\ overtaken \in [Presses -> Nat]
        /\ cart \in [Sales -> {"open", "paying", "done"}]
    BY DEF Init
  <2>3. /\ online \in BOOLEAN /\ tag \in BOOLEAN /\ timer \in BOOLEAN /\ syncing \in BOOLEAN
        /\ tab \in {"closed", "loading", "ready"}
        /\ pending \subseteq Presses /\ batch \subseteq Presses
    BY DEF Init
  <2>4. troubles \in 0..MaxTroubles
    BY OfflineBillingAssumption DEF Init
  <2> QED BY <2>1, <2>2, <2>3, <2>4 DEF TypeOK
<1>2. TypeOK /\ [Next]_vars => TypeOK'
  <2> SUFFICES ASSUME TypeOK, [Next]_vars PROVE TypeOK'
    OBVIOUS
  <2> USE OfflineBillingAssumption
  <2>1. ASSUME NEW w \in Workers, SendNext(w) PROVE TypeOK'
    <3>1. PICK k \in batch : Call(w, k, "sync")
      BY <2>1 DEF SendNext
    <3>2. [phase |-> "arrived", press |-> k, from |-> "sync"] \in Requests
      BY <3>1 DEF Requests, TypeOK, Presses
    <3> QED BY <2>1, <3>1, <3>2 DEF SendNext, Call, TypeOK, client, invoices
  <2>2. CASE EndSync
    BY <2>2 DEF EndSync, TypeOK, invoices
  <2>3. CASE SendFails
    BY <2>3 DEF SendFails, SyncFails, TypeOK, invoices
  <2>4. CASE Retry
    <3>1. syncing' \in BOOLEAN /\ batch' \subseteq Presses
      BY <2>4, SyncPendingTypes DEF Retry, TypeOK
    <3> QED BY <2>4, <3>1 DEF Retry, TypeOK, invoices
  <2>5. CASE BackgroundSync
    <3>1. syncing' \in BOOLEAN /\ batch' \subseteq Presses
      BY <2>5, SyncPendingTypes DEF BackgroundSync, TypeOK
    <3> QED BY <2>5, <3>1 DEF BackgroundSync, TypeOK, invoices
  <2>6. CASE OpenTab
    BY <2>6 DEF OpenTab, TypeOK, invoices
  <2>7. CASE LoadBundle
    BY <2>7 DEF LoadBundle, TypeOK, invoices
  <2>8. ASSUME NEW w \in Workers, Read(w) PROVE TypeOK'
    <3>1. req[w] \in Requests /\ req[w].phase = "arrived"
      BY <2>8 DEF Read, TypeOK
    <3>2. \A p \in {"found", "new"} : [req[w] EXCEPT !.phase = p] \in Requests
      BY <3>1 DEF Requests
    <3> QED BY <2>8, <3>1, <3>2 DEF Read, TypeOK, client, invoices
  <2>9. ASSUME NEW w \in Workers, Commit(w) PROVE TypeOK'
    <3>1. req[w] \in Requests
      BY DEF TypeOK
    <3>2. req' \in [Workers -> Requests] /\ \A v \in Workers :
             req'[v].phase \in {"ok", "failed"} => req'[v].from # "nobody"
      BY <2>9, <3>1, AnsweredIsRequest DEF Commit, TypeOK
    <3>3. live' \in [Presses -> Nat]
      <4> DEFINE k == req[w].press
      <4>1. live' = live \/ live' = [live EXCEPT ![k] = @ + 1]
        BY <2>9 DEF Commit
      <4>2. live \in [Presses -> Nat]
        BY DEF TypeOK
      <4> HIDE DEF k
      <4> QED BY <4>1, <4>2
    <3> QED BY <2>9, <3>2, <3>3 DEF Commit, TypeOK, client
  <2>10. ASSUME NEW w \in Workers, Refuse(w) PROVE TypeOK'
    <3>1. req[w] \in Requests
      BY DEF TypeOK
    <3>2. req' \in [Workers -> Requests] /\ \A v \in Workers :
             req'[v].phase \in {"ok", "failed"} => req'[v].from # "nobody"
      BY <2>10, <3>1, AnsweredIsRequest DEF Refuse, TypeOK
    <3> QED BY <2>10, <3>2 DEF Refuse, TypeOK, client, invoices
  <2>11. ASSUME NEW w \in Workers, SyncAnswered(w) PROVE TypeOK'
    <3>1. req' \in [Workers -> Requests] /\ \A v \in Workers :
             req'[v].phase \in {"ok", "failed"} => req'[v].from # "nobody"
      BY <2>11, IdleIsRequest DEF SyncAnswered, TypeOK
    <3> QED BY <2>11, <3>1 DEF SyncAnswered, SyncFails, TypeOK, invoices
  <2>12. ASSUME NEW w \in Workers, DialogAnswered(w) PROVE TypeOK'
    <3>1. req' \in [Workers -> Requests] /\ \A v \in Workers :
             req'[v].phase \in {"ok", "failed"} => req'[v].from # "nobody"
      BY <2>12, IdleIsRequest DEF DialogAnswered, TypeOK
    <3>2. cart' \in [Sales -> {"open", "paying", "done"}]
      BY <2>12 DEF DialogAnswered, TypeOK
    <3> QED BY <2>12, <3>1, <3>2 DEF DialogAnswered, TypeOK, invoices
  <2>13. ASSUME NEW w \in Workers, LoseAnswer(w) PROVE TypeOK'
    <3>1. GiveUp({w})
      BY <2>13 DEF LoseAnswer
    <3>2. cart' \in [Sales -> {"open", "paying", "done"}]
      BY <2>13 DEF LoseAnswer, TypeOK
    <3> QED BY <2>13, <3>1, <3>2, GiveUpCounts DEF LoseAnswer, SyncFails, TypeOK, invoices
  <2>14. CASE GoOnline
    <3>1. syncing' \in BOOLEAN /\ batch' \subseteq Presses
      BY <2>14, SyncPendingTypes DEF GoOnline, TypeOK
    <3> QED BY <2>14, <3>1 DEF GoOnline, TypeOK, invoices
  <2>15. CASE GoOffline
    <3>1. troubles \in 0..MaxTroubles /\ troubles < MaxTroubles /\ troubles' = troubles + 1
      BY <2>15, Zenon DEF GoOffline, TypeOK
    <3>2. troubles' \in 0..MaxTroubles
      BY <3>1
    <3> QED BY <2>15, <3>2 DEF GoOffline, TypeOK, client, invoices
  <2>16. CASE CloseTab
    <3>1. GiveUp({w \in Workers : req[w].from # "nobody"})
      BY <2>16 DEF CloseTab
    <3>2. cart' \in [Sales -> {"open", "paying", "done"}]
      BY <2>16 DEF CloseTab, TypeOK
    <3>3. troubles' \in 0..MaxTroubles
      BY <2>16 DEF CloseTab, TypeOK
    <3> QED BY <2>16, <3>1, <3>2, <3>3, GiveUpCounts DEF CloseTab, TypeOK, invoices
  <2>17. ASSUME NEW k \in Presses, CancelInvoice(k) PROVE TypeOK'
    BY <2>17 DEF CancelInvoice, TypeOK, client
  <2>18. ASSUME NEW s \in Sales, NEW k \in Presses, PayOffline(s, k) PROVE TypeOK'
    BY <2>18 DEF PayOffline, TypeOK, invoices
  <2>19. ASSUME NEW s \in Sales, NEW k \in Presses, NEW w \in Workers, PayOnline(s, k, w)
         PROVE  TypeOK'
    <3>1. [phase |-> "arrived", press |-> k, from |-> "dialog"] \in Requests
      BY DEF Requests, Presses
    <3> QED BY <2>19, <3>1 DEF PayOnline, Call, TypeOK, invoices
  <2>20. CASE UNCHANGED vars
    BY <2>20 DEF TypeOK, vars
  <2> QED
    BY <2>1, <2>2, <2>3, <2>4, <2>5, <2>6, <2>7, <2>8, <2>9, <2>10, <2>11, <2>12, <2>13,
       <2>14, <2>15, <2>16, <2>17, <2>18, <2>19, <2>20
    DEF Next, Browser, Server, Answers
<1> QED BY <1>1, <1>2, PTL DEF Spec

-----------------------------------------------------------------------------
(* No sale is lost                                                         *)

\* SaleIsKept alone is not inductive: the answer that ends a sale, and the
\* one that takes it out of the store, must be true.
AnswersAreTrue ==
    \A w \in Workers :
        /\ req[w].phase # "idle" => req[w].press \in Presses
        /\ req[w].phase \in {"found", "ok"} => Billed(req[w].press)

\* Bills are cancelled but not deleted.
BillsStay == \A k \in Presses : Billed(k) => Billed(k)'

LEMMA UntouchedBillsStay ==
    ASSUME UNCHANGED invoices PROVE BillsStay
BY DEF TypeOK, BillsStay, Billed, invoices

\* When neither the sales nor the store lose anything, a sale that was kept
\* stays kept.
LEMMA KeptStaysKept ==
    ASSUME TypeOK, SaleIsKept, BillsStay,
           UNCHANGED saleOf, pending \subseteq pending',
           \A s \in Sales : cart'[s] = "done" => cart[s] = "done"
    PROVE  SaleIsKept'
<1> SUFFICES ASSUME NEW s \in Sales, cart'[s] = "done"
             PROVE  \E k \in Presses : saleOf'[k] = s /\ (k \in pending' \/ Billed(k)')
  BY DEF SaleIsKept
<1>1. PICK k \in Presses : saleOf[k] = s /\ (k \in pending \/ Billed(k))
  BY DEF SaleIsKept
<1> QED BY <1>1 DEF BillsStay

\* Requests that move without a new "found" or "ok" keep answers true.
LEMMA SilentRequests ==
    ASSUME TypeOK, AnswersAreTrue, BillsStay,
           \A w \in Workers : \/ req'[w] = req[w]
                              \/ req'[w].phase = "idle"
                              \/ /\ req'[w].press \in Presses
                                 /\ req'[w].phase \notin {"found", "ok"}
                              \/ /\ req'[w].press = req[w].press
                                 /\ req'[w].phase = req[w].phase
    PROVE  AnswersAreTrue'
<1> SUFFICES ASSUME NEW w \in Workers
             PROVE  /\ req'[w].phase # "idle" => req'[w].press \in Presses
                    /\ req'[w].phase \in {"found", "ok"} => Billed(req[w].press)'
  BY DEF AnswersAreTrue
<1>1. /\ req[w].phase # "idle" => req[w].press \in Presses
      /\ req[w].phase \in {"found", "ok"} => Billed(req[w].press)
  BY DEF AnswersAreTrue
<1>2. \A k \in Presses : live[k] + cancelled[k] > 0 => live'[k] + cancelled'[k] > 0
  BY DEF BillsStay, Billed
<1>3. CASE req'[w] = req[w] \/ (/\ req'[w].press = req[w].press
                               /\ req'[w].phase = req[w].phase)
  BY <1>1, <1>2, <1>3 DEF Billed
<1>4. CASE req'[w].phase = "idle"
  BY <1>4
<1>5. CASE req'[w].press \in Presses /\ req'[w].phase \notin {"found", "ok"}
  BY <1>5
<1> QED BY <1>3, <1>4, <1>5

KeptInv == TypeOK /\ AnswersAreTrue /\ SaleIsKept

\* What the actions outside the dialog, the server and the answers do.
LEMMA ElsewhereKept ==
    ASSUME KeptInv, UNCHANGED <<saleOf, cart, pending, req, invoices>>
    PROVE  AnswersAreTrue' /\ SaleIsKept'
<1>1. BillsStay
  BY UntouchedBillsStay
<1>2. AnswersAreTrue'
  BY <1>1, SilentRequests DEF KeptInv
<1>3. SaleIsKept'
  BY <1>1, KeptStaysKept DEF KeptInv
<1> QED BY <1>2, <1>3

\* Calls that are given up become idle or go on for nobody.
LEMMA GiveUpKeepsAnswers ==
    ASSUME KeptInv, NEW W \in SUBSET Workers, GiveUp(W), UNCHANGED invoices
    PROVE  AnswersAreTrue'
<1>1. BillsStay
  BY UntouchedBillsStay
<1>2. ASSUME NEW w \in Workers
      PROVE  \/ req'[w] = req[w]
             \/ req'[w].phase = "idle"
             \/ /\ req'[w].press = req[w].press
                /\ req'[w].phase = req[w].phase
  <2>1. req[w] \in Requests
    BY DEF KeptInv, TypeOK
  <2>2. req'[w] = IF w \in W THEN Abandoned(req[w]) ELSE req[w]
    BY DEF GiveUp
  <2> QED BY <2>1, <2>2 DEF Abandoned, Idle, Requests
<1> QED BY <1>1, <1>2, SilentRequests DEF KeptInv

\* Answers stay true and sales stay kept, the two together.
THEOREM SalesAreKept == Spec => []KeptInv
<1>1. Init => AnswersAreTrue /\ SaleIsKept
  BY IdleIsRequest DEF Init, AnswersAreTrue, SaleIsKept
<1>2. KeptInv /\ [Next]_vars => AnswersAreTrue' /\ SaleIsKept'
  <2> SUFFICES ASSUME KeptInv, [Next]_vars PROVE AnswersAreTrue' /\ SaleIsKept'
    OBVIOUS
  <2> USE OfflineBillingAssumption
  <2>a. TypeOK /\ AnswersAreTrue /\ SaleIsKept
    BY DEF KeptInv
  <2>1. ASSUME NEW w \in Workers, SendNext(w) PROVE AnswersAreTrue' /\ SaleIsKept'
    <3>1. PICK k \in batch : Call(w, k, "sync")
      BY <2>1 DEF SendNext
    <3>2. BillsStay
      BY <2>1, UntouchedBillsStay DEF SendNext
    <3>3. k \in Presses
      BY <2>a DEF TypeOK
    <3>4. \A v \in Workers : \/ req'[v] = req[v]
                              \/ /\ req'[v].press \in Presses
                                 /\ req'[v].phase \notin {"found", "ok"}
      BY <2>a, <3>1, <3>3 DEF Call, TypeOK
    <3>5. AnswersAreTrue'
      BY <2>a, <3>2, <3>4, SilentRequests
    <3>6. SaleIsKept'
      BY <2>1, <2>a, <3>2, KeptStaysKept DEF SendNext, client
    <3> QED BY <3>5, <3>6
  <2>2. CASE EndSync
    BY <2>2, ElsewhereKept DEF EndSync
  <2>3. CASE SendFails
    BY <2>3, ElsewhereKept DEF SendFails
  <2>4. CASE Retry
    BY <2>4, ElsewhereKept DEF Retry
  <2>5. CASE BackgroundSync
    BY <2>5, ElsewhereKept DEF BackgroundSync
  <2>6. CASE OpenTab
    BY <2>6, ElsewhereKept DEF OpenTab
  <2>7. CASE LoadBundle
    BY <2>7, ElsewhereKept DEF LoadBundle
  <2>8. ASSUME NEW w \in Workers, Read(w) PROVE AnswersAreTrue' /\ SaleIsKept'
    <3>1. BillsStay
      BY <2>8, UntouchedBillsStay DEF Read
    <3>2. req[w] \in Requests /\ req[w].phase = "arrived" /\ req[w].press \in Presses
      BY <2>8, <2>a DEF Read, TypeOK, AnswersAreTrue
    <3>3. /\ \A v \in Workers : v # w => req'[v] = req[v]
          /\ req'[w].press = req[w].press
          /\ req'[w].phase = IF Finds(req[w].press) THEN "found" ELSE "new"
      BY <2>8, <2>a, <3>2 DEF Read, TypeOK, Requests
    <3>4. req'[w].phase = "found" => Billed(req[w].press)
      BY <2>a, <3>2, <3>3 DEF Finds, Billed, TypeOK
    <3>5. UNCHANGED <<live, cancelled>>
      BY <2>8 DEF Read, invoices
    <3>6. AnswersAreTrue'
      BY <2>a, <3>2, <3>3, <3>4, <3>5 DEF AnswersAreTrue, Billed
    <3>7. SaleIsKept'
      BY <2>8, <2>a, <3>1, KeptStaysKept DEF Read, client
    <3> QED BY <3>6, <3>7
  <2>9. ASSUME NEW w \in Workers, Commit(w) PROVE AnswersAreTrue' /\ SaleIsKept'
    <3> DEFINE k == req[w].press
    <3>1. req[w] \in Requests /\ req[w].phase \in {"found", "new"} /\ k \in Presses
      BY <2>9, <2>a DEF Commit, TypeOK, AnswersAreTrue
    <3>2. /\ live' = live \/ live' = [live EXCEPT ![k] = @ + 1]
          /\ req[w].phase = "new" => live' = [live EXCEPT ![k] = @ + 1]
          /\ cancelled' = cancelled
      BY <2>9, <3>1 DEF Commit
    <3>3. BillsStay
      BY <2>a, <3>1, <3>2 DEF BillsStay, Billed, TypeOK
    <3>4. req[w].phase = "found" => Billed(k)
      BY <2>a DEF AnswersAreTrue
    <3>5. live'[k] + cancelled'[k] > 0
      BY <2>a, <3>1, <3>2, <3>3, <3>4 DEF BillsStay, Billed, TypeOK
    <3>6. /\ \A v \in Workers : v # w => req'[v] = req[v]
          /\ \/ req'[w].phase = "idle"
             \/ req'[w].press = k
      BY <2>9, <2>a, <3>1 DEF Commit, Ended, Idle, TypeOK, Requests
    <3>7. AnswersAreTrue'
      <4> SUFFICES ASSUME NEW v \in Workers
                   PROVE  /\ req'[v].phase # "idle" => req'[v].press \in Presses
                          /\ req'[v].phase \in {"found", "ok"} =>
                                live'[req'[v].press] + cancelled'[req'[v].press] > 0
        BY DEF AnswersAreTrue, Billed
      <4>1. CASE v = w
        <5> HIDE DEF k
        <5> QED BY <3>1, <3>5, <3>6, <4>1
      <4>2. CASE v # w
        BY <2>a, <3>3, <3>6, <4>2 DEF AnswersAreTrue, BillsStay, Billed
      <4> QED BY <4>1, <4>2
    <3>8. SaleIsKept'
      BY <2>9, <2>a, <3>3, KeptStaysKept DEF Commit, client
    <3> QED BY <3>7, <3>8
  <2>10. ASSUME NEW w \in Workers, Refuse(w) PROVE AnswersAreTrue' /\ SaleIsKept'
    <3>1. BillsStay
      BY <2>10, UntouchedBillsStay DEF Refuse
    <3>2. req[w] \in Requests /\ req[w].press \in Presses
      BY <2>10, <2>a DEF Refuse, TypeOK, AnswersAreTrue
    <3>3. \A v \in Workers : \/ req'[v] = req[v]
                              \/ req'[v].phase = "idle"
                              \/ /\ req'[v].press \in Presses
                                 /\ req'[v].phase \notin {"found", "ok"}
      BY <2>10, <2>a, <3>2 DEF Refuse, Ended, Idle, TypeOK, Requests
    <3>4. AnswersAreTrue'
      BY <2>a, <3>1, <3>3, SilentRequests
    <3>5. SaleIsKept'
      BY <2>10, <2>a, <3>1, KeptStaysKept DEF Refuse, client
    <3> QED BY <3>4, <3>5
  <2>11. ASSUME NEW w \in Workers, SyncAnswered(w) PROVE AnswersAreTrue' /\ SaleIsKept'
    <3> DEFINE k == req[w].press
    <3>1. BillsStay
      BY <2>11, UntouchedBillsStay DEF SyncAnswered
    <3>2. \A v \in Workers : req'[v] = req[v] \/ req'[v].phase = "idle"
      BY <2>11, <2>a, IdleIsRequest DEF SyncAnswered, TypeOK
    <3>3. AnswersAreTrue'
      BY <2>a, <3>1, <3>2, SilentRequests
    <3>4. CASE Done(req[w].phase)
      <4>1. pending' = pending \ {k} /\ UNCHANGED <<cart, saleOf>>
        BY <2>11, <3>4 DEF SyncAnswered
      <4>2. k \in Presses /\ Billed(k)
        BY <2>a, <3>4 DEF AnswersAreTrue, Done
      <4>3. SUFFICES ASSUME NEW s \in Sales, cart[s] = "done"
                     PROVE  \E j \in Presses : saleOf[j] = s /\ (j \in pending' \/ Billed(j)')
        BY <3>3, <4>1 DEF SaleIsKept
      <4>4. PICK j \in Presses : saleOf[j] = s /\ (j \in pending \/ Billed(j))
        BY <2>a, <4>3 DEF SaleIsKept
      <4>5. j \in pending' \/ Billed(j)
        BY <4>1, <4>2, <4>4
      <4> QED BY <3>1, <4>4, <4>5 DEF BillsStay
    <3>5. CASE ~Done(req[w].phase)
      <4>1. UNCHANGED <<pending, cart, saleOf>>
        BY <2>11, <3>5 DEF SyncAnswered
      <4> QED BY <2>a, <3>1, <3>3, <4>1, KeptStaysKept
    <3> QED BY <3>4, <3>5
  <2>12. ASSUME NEW w \in Workers, DialogAnswered(w) PROVE AnswersAreTrue' /\ SaleIsKept'
    <3> DEFINE k == req[w].press
    <3>1. BillsStay
      BY <2>12, UntouchedBillsStay DEF DialogAnswered
    <3>2. \A v \in Workers : req'[v] = req[v] \/ req'[v].phase = "idle"
      BY <2>12, <2>a, IdleIsRequest DEF DialogAnswered, TypeOK
    <3>3. AnswersAreTrue'
      BY <2>a, <3>1, <3>2, SilentRequests
    <3>4. UNCHANGED <<pending, saleOf>>
      BY <2>12 DEF DialogAnswered
    <3>5. k \in Presses /\ (req[w].phase = "ok" => Billed(k))
      BY <2>12, <2>a DEF DialogAnswered, AnswersAreTrue
    <3>6. ASSUME NEW s \in Sales, cart'[s] = "done"
          PROVE  cart[s] = "done" \/ (s = saleOf[k] /\ Billed(k))
      <4>1. cart' = [cart EXCEPT ![saleOf[k]] = IF req[w].phase = "ok" THEN "done" ELSE "open"]
        BY <2>12 DEF DialogAnswered
      <4> HIDE DEF k
      <4> QED BY <2>a, <3>5, <3>6, <4>1 DEF TypeOK
    <3>7. SaleIsKept'
      <4> SUFFICES ASSUME NEW s \in Sales, cart'[s] = "done"
                   PROVE  \E j \in Presses : saleOf[j] = s /\ (j \in pending \/ Billed(j)')
        BY <3>4 DEF SaleIsKept
      <4>1. \E j \in Presses : saleOf[j] = s /\ (j \in pending \/ Billed(j))
        BY <2>a, <3>5, <3>6 DEF SaleIsKept
      <4> QED BY <3>1, <4>1 DEF BillsStay
    <3> QED BY <3>3, <3>7
  <2>13. ASSUME NEW w \in Workers, LoseAnswer(w) PROVE AnswersAreTrue' /\ SaleIsKept'
    <3>1. AnswersAreTrue'
      BY <2>13, GiveUpKeepsAnswers DEF LoseAnswer
    <3>2. BillsStay
      BY <2>13, UntouchedBillsStay DEF LoseAnswer
    <3>3. \A s \in Sales : cart'[s] = "done" => cart[s] = "done"
      BY <2>13, <2>a DEF LoseAnswer, TypeOK
    <3>4. UNCHANGED <<saleOf, pending>>
      BY <2>13 DEF LoseAnswer
    <3> QED BY <2>a, <3>1, <3>2, <3>3, <3>4, KeptStaysKept
  <2>14. CASE GoOnline
    BY <2>14, ElsewhereKept DEF GoOnline
  <2>15. CASE GoOffline
    BY <2>15, ElsewhereKept DEF GoOffline, client
  <2>16. CASE CloseTab
    <3>1. AnswersAreTrue'
      BY <2>16, GiveUpKeepsAnswers DEF CloseTab
    <3>2. BillsStay
      BY <2>16, UntouchedBillsStay DEF CloseTab
    <3>3. \A s \in Sales : cart'[s] = "done" => cart[s] = "done"
      BY <2>16, <2>a DEF CloseTab, TypeOK
    <3>4. UNCHANGED <<saleOf, pending>>
      BY <2>16 DEF CloseTab
    <3> QED BY <2>a, <3>1, <3>2, <3>3, <3>4, KeptStaysKept
  <2>17. ASSUME NEW k \in Presses, CancelInvoice(k) PROVE AnswersAreTrue' /\ SaleIsKept'
    <3>1. BillsStay
      BY <2>17, <2>a DEF CancelInvoice, BillsStay, Billed, TypeOK
    <3>2. UNCHANGED <<req, saleOf, cart, pending>>
      BY <2>17 DEF CancelInvoice, client
    <3> QED BY <2>a, <3>1, <3>2, SilentRequests, KeptStaysKept
  <2>18. ASSUME NEW s \in Sales, NEW k \in Presses, PayOffline(s, k)
         PROVE  AnswersAreTrue' /\ SaleIsKept'
    <3>1. UNCHANGED <<req, live, cancelled>>
      BY <2>18 DEF PayOffline, invoices
    <3>2. AnswersAreTrue'
      BY <2>a, <3>1 DEF AnswersAreTrue, Billed
    <3>3. /\ saleOf' = [saleOf EXCEPT ![k] = s] /\ saleOf[k] = NoSale
          /\ cart' = [cart EXCEPT ![s] = "done"] /\ pending' = pending \cup {k}
      BY <2>18 DEF PayOffline, Fresh, Minted
    <3>4. ASSUME NEW t \in Sales, cart'[t] = "done"
          PROVE  \E j \in Presses : saleOf'[j] = t /\ (j \in pending' \/ Billed(j)')
      <4>1. CASE t = s
        BY <2>a, <3>3, <4>1 DEF TypeOK
      <4>2. CASE t # s
        <5>1. PICK j \in Presses : saleOf[j] = t /\ (j \in pending \/ Billed(j))
          BY <2>a, <3>3, <3>4, <4>2 DEF SaleIsKept, TypeOK
        <5>2. saleOf'[j] = t
          BY <2>a, <3>3, <5>1 DEF TypeOK
        <5> QED BY <3>1, <3>3, <5>1, <5>2 DEF Billed
      <4> QED BY <4>1, <4>2
    <3> QED BY <3>2, <3>4 DEF SaleIsKept
  <2>19. ASSUME NEW s \in Sales, NEW k \in Presses, NEW w \in Workers, PayOnline(s, k, w)
         PROVE  AnswersAreTrue' /\ SaleIsKept'
    <3>1. BillsStay /\ UNCHANGED <<live, cancelled>>
      BY <2>19, UntouchedBillsStay DEF PayOnline, invoices
    <3>2. \A v \in Workers : \/ req'[v] = req[v]
                              \/ /\ req'[v].press \in Presses
                                 /\ req'[v].phase \notin {"found", "ok"}
      BY <2>19, <2>a DEF PayOnline, Call, TypeOK
    <3>3. AnswersAreTrue'
      BY <2>a, <3>1, <3>2, SilentRequests
    <3>4. /\ saleOf' = [saleOf EXCEPT ![k] = s] /\ saleOf[k] = NoSale
          /\ cart' = [cart EXCEPT ![s] = "paying"] /\ pending' = pending
      BY <2>19 DEF PayOnline, Fresh, Minted
    <3>5. ASSUME NEW t \in Sales, cart'[t] = "done"
          PROVE  \E j \in Presses : saleOf'[j] = t /\ (j \in pending' \/ Billed(j)')
      <4>1. PICK j \in Presses : saleOf[j] = t /\ (j \in pending \/ Billed(j))
        BY <2>a, <3>4, <3>5 DEF SaleIsKept, TypeOK
      <4>2. saleOf'[j] = t
        BY <2>a, <3>4, <4>1 DEF TypeOK
      <4> QED BY <3>1, <3>4, <4>1, <4>2 DEF Billed
    <3> QED BY <3>3, <3>5 DEF SaleIsKept
  <2>20. CASE UNCHANGED vars
    BY <2>20, ElsewhereKept DEF vars, invoices
  <2> QED
    BY <2>1, <2>2, <2>3, <2>4, <2>5, <2>6, <2>7, <2>8, <2>9, <2>10, <2>11, <2>12, <2>13,
       <2>14, <2>15, <2>16, <2>17, <2>18, <2>19, <2>20
    DEF Next, Browser, Server, Answers
<1> QED BY <1>1, <1>2, OfflineTypes, PTL DEF Spec, KeptInv

\* A sale the till has put behind it is billed or waits in the store:
\* SaleIsKept of OfflineBillingProps.
THEOREM NoSaleIsLost == Spec => []SaleIsKept
<1>1. KeptInv => SaleIsKept
  BY DEF KeptInv
<1> QED BY <1>1, SalesAreKept, PTL

-----------------------------------------------------------------------------
(* No press is billed twice unless a call was overtaken                    *)

\* The workers about to create an invoice for k, and those that serve k
\* for a browser that gave up.
Creating(k) == {w \in Workers : req[w].phase = "new" /\ req[w].press = k}
Orphans(k) == {w \in Workers : Busy(w) /\ req[w].press = k /\ req[w].from = "nobody"}

\* The browser waits for one call of a press at a time: the replay calls for
\* what is in the store, the dialog for what never was.
OneCallEach ==
    /\ batch \subseteq pending
    /\ \A k \in pending : Minted(k)
    /\ \A w \in Workers :
          /\ req[w].phase # "idle" => req[w].press \in Presses /\ Minted(req[w].press)
          /\ req[w].from # "nobody" => req[w].phase # "idle"
          /\ req[w].from = "sync" => req[w].press \in pending
          /\ req[w].from = "dialog" => req[w].press \notin pending
    /\ \A v, w \in Workers :
          req[v].from = req[w].from /\ req[v].from # "nobody" => v = w

Counted ==
    \A k \in Presses :
        /\ Cardinality(Orphans(k)) <= overtaken[k]
        /\ live[k] + Cardinality(Creating(k)) <= 1 + overtaken[k]

ExtraInv == TypeOK /\ OneCallEach /\ Counted

LEMMA FiniteCounts ==
    ASSUME NEW k
    PROVE  /\ IsFiniteSet(Creating(k)) /\ Cardinality(Creating(k)) \in Nat
           /\ IsFiniteSet(Orphans(k)) /\ Cardinality(Orphans(k)) \in Nat
<1>1. Creating(k) \in SUBSET Workers /\ Orphans(k) \in SUBSET Workers
  BY DEF Creating, Orphans
<1>2. IsFiniteSet(Creating(k)) /\ IsFiniteSet(Orphans(k))
  BY <1>1, FS_Subset, OfflineBillingAssumption
<1> QED BY <1>2, FS_CardinalityType

\* With no more invoices, no more workers about to create one and no more
\* orphans, the counts still agree.
LEMMA CountsShrink ==
    ASSUME ExtraInv, TypeOK', UNCHANGED overtaken,
           NEW k \in Presses, live'[k] <= live[k],
           Creating(k)' \subseteq Creating(k), Orphans(k)' \subseteq Orphans(k)
    PROVE  /\ Cardinality(Orphans(k)') <= overtaken'[k]
           /\ live'[k] + Cardinality(Creating(k)') <= 1 + overtaken'[k]
<1>1. /\ Cardinality(Creating(k)') \in Nat /\ Cardinality(Orphans(k)') \in Nat
      /\ Cardinality(Creating(k)') <= Cardinality(Creating(k))
      /\ Cardinality(Orphans(k)') <= Cardinality(Orphans(k))
  <2>1. /\ IsFiniteSet(Creating(k)') /\ IsFiniteSet(Orphans(k)')
        /\ Cardinality(Creating(k)') <= Cardinality(Creating(k))
        /\ Cardinality(Orphans(k)') <= Cardinality(Orphans(k))
    BY FiniteCounts, FS_Subset
  <2> QED BY <2>1, FS_CardinalityType
<1>2. Cardinality(Creating(k)) \in Nat /\ Cardinality(Orphans(k)) \in Nat
  BY FiniteCounts
<1>3. /\ live[k] \in Nat /\ live'[k] \in Nat /\ overtaken[k] \in Nat
      /\ overtaken'[k] = overtaken[k]
  BY DEF ExtraInv, TypeOK
<1>4. /\ Cardinality(Orphans(k)) <= overtaken[k]
      /\ live[k] + Cardinality(Creating(k)) <= 1 + overtaken[k]
  BY DEF ExtraInv, Counted
<1> QED BY <1>1, <1>2, <1>3, <1>4

\* What the actions that leave requests and invoices alone do.
LEMMA ElsewhereCounted ==
    ASSUME ExtraInv, TypeOK', UNCHANGED <<req, overtaken>>,
           \A k \in Presses : live'[k] <= live[k]
    PROVE  Counted'
<1> SUFFICES ASSUME NEW k \in Presses
             PROVE  /\ Cardinality(Orphans(k)') <= overtaken'[k]
                    /\ live'[k] + Cardinality(Creating(k)') <= 1 + overtaken'[k]
  BY DEF Counted
<1>1. Creating(k)' \subseteq Creating(k) /\ Orphans(k)' \subseteq Orphans(k)
  BY DEF Creating, Orphans, Busy
<1> QED BY <1>1, CountsShrink

\* A worker that becomes idle, or takes a call the browser waits for, or has
\* an answer, counts no more.
LEMMA RequestCounted ==
    ASSUME ExtraInv, TypeOK', UNCHANGED <<live, overtaken>>, NEW w \in Workers,
           \A v \in Workers : v # w => req'[v] = req[v],
           \/ req'[w].phase \in {"idle", "ok", "failed"}
           \/ req'[w].phase = "arrived" /\ req'[w].from # "nobody"
           \/ /\ req'[w].phase = "found" /\ req[w].phase = "arrived"
              /\ req'[w].press = req[w].press /\ req'[w].from = req[w].from
    PROVE  Counted'
<1> SUFFICES ASSUME NEW k \in Presses
             PROVE  /\ Cardinality(Orphans(k)') <= overtaken'[k]
                    /\ live'[k] + Cardinality(Creating(k)') <= 1 + overtaken'[k]
  BY DEF Counted
<1>1. Creating(k)' \subseteq Creating(k)
  BY DEF Creating
<1>2. Orphans(k)' \subseteq Orphans(k)
  BY DEF Orphans, Busy
<1>3. live'[k] <= live[k]
  BY DEF ExtraInv, TypeOK
<1> QED BY <1>1, <1>2, <1>3, CountsShrink

\* A worker that found no invoice is about to create one.  All who are, but
\* the one the browser waits for, are orphans.
LEMMA NewCounted ==
    ASSUME ExtraInv, NEW w \in Workers, req[w].phase = "arrived", live[req[w].press] = 0,
           req' = [req EXCEPT ![w].phase = "new"], UNCHANGED <<live, overtaken>>
    PROVE  Counted'
<1> SUFFICES ASSUME NEW k \in Presses
             PROVE  /\ Cardinality(Orphans(k)') <= overtaken'[k]
                    /\ live'[k] + Cardinality(Creating(k)') <= 1 + overtaken'[k]
  BY DEF Counted
<1>1. /\ req \in [Workers -> Requests] /\ live[k] \in Nat /\ overtaken[k] \in Nat
      /\ overtaken'[k] = overtaken[k] /\ live'[k] = live[k]
  BY DEF ExtraInv, TypeOK
<1>2. /\ req'[w].phase = "new" /\ req'[w].press = req[w].press /\ req'[w].from = req[w].from
      /\ \A v \in Workers : v # w => req'[v] = req[v]
  BY <1>1 DEF Requests
<1>3. Orphans(k)' = Orphans(k)
  BY <1>2 DEF Orphans, Busy
<1>4. Cardinality(Orphans(k)) \in Nat /\ Cardinality(Orphans(k)) <= overtaken[k]
  BY FiniteCounts DEF ExtraInv, Counted
<1>5. CASE req[w].press # k
  <2>1. Creating(k)' = Creating(k)
    BY <1>2, <1>5 DEF Creating
  <2> QED BY <1>1, <1>3, <1>4, <2>1 DEF ExtraInv, Counted
<1>6. CASE req[w].press = k
  <2> DEFINE all == Creating(k)'
             attended == {v \in all : req[v].from # "nobody"}
  <2>1. all \subseteq Orphans(k) \cup attended
    BY <1>2, <1>6 DEF Creating, Orphans, Busy
  <2>2. \A u, v \in attended : u = v
    <3> SUFFICES ASSUME NEW u \in attended, NEW v \in attended PROVE u = v
      OBVIOUS
    <3>1. /\ u \in Workers /\ req[u].press = k /\ req[u].from # "nobody"
          /\ v \in Workers /\ req[v].press = k /\ req[v].from # "nobody"
      BY <1>2, <1>6 DEF Creating
    <3>2. req[u].from \in {"sync", "dialog"} /\ req[v].from \in {"sync", "dialog"}
      BY <1>1, <3>1 DEF Requests
    <3> QED BY <3>1, <3>2 DEF ExtraInv, OneCallEach
  <2>3. IsFiniteSet(attended) /\ Cardinality(attended) \in Nat /\ Cardinality(attended) <= 1
    <3> HIDE DEF attended
    <3>1. CASE attended = {}
      <4>1. IsFiniteSet(attended) /\ Cardinality(attended) = 0
        BY <3>1, FS_EmptySet, Zenon
      <4> QED BY <4>1
    <3>2. CASE attended # {}
      <4>1. PICK v : attended = {v}
        BY <2>2, <3>2
      <4>2. IsFiniteSet(attended) /\ Cardinality(attended) = 1
        BY <4>1, FS_Singleton, Zenon
      <4> QED BY <4>2
    <3> QED BY <3>1, <3>2
  <2> HIDE DEF attended, all
  <2>4. /\ IsFiniteSet(Orphans(k) \cup attended)
        /\ Cardinality(Orphans(k) \cup attended) =
              Cardinality(Orphans(k)) + Cardinality(attended)
                - Cardinality(Orphans(k) \cap attended)
    BY <2>3, FiniteCounts, FS_Union
  <2>5. Cardinality(Orphans(k) \cap attended) \in Nat
    <3>1. IsFiniteSet(Orphans(k) \cap attended)
      BY <2>3, FS_Subset
    <3> QED BY <3>1, FS_CardinalityType
  <2>6. /\ Cardinality(all) <= Cardinality(Orphans(k) \cup attended)
        /\ Cardinality(all) \in Nat
    <3>1. IsFiniteSet(all) /\ Cardinality(all) <= Cardinality(Orphans(k) \cup attended)
      BY <2>1, <2>4, FS_Subset
    <3> QED BY <3>1, FS_CardinalityType
  <2>7. Cardinality(all) <= overtaken[k] + 1
    BY <1>1, <1>4, <2>3, <2>4, <2>5, <2>6
  <2>8. live'[k] = 0
    BY <1>1, <1>6
  <2>9. Cardinality(all) = Cardinality(Creating(k)')
    BY DEF all
  <2> QED BY <1>1, <1>3, <1>4, <2>6, <2>7, <2>8, <2>9
<1> QED BY <1>5, <1>6

\* An invoice that is created was about to be.
LEMMA CreatedCounted ==
    ASSUME ExtraInv, NEW w \in Workers, req[w].phase = "new",
           live' = [live EXCEPT ![req[w].press] = @ + 1],
           req' = [req EXCEPT ![w] = Ended(w, "ok")], UNCHANGED overtaken
    PROVE  Counted'
<1> SUFFICES ASSUME NEW k \in Presses
             PROVE  /\ Cardinality(Orphans(k)') <= overtaken'[k]
                    /\ live'[k] + Cardinality(Creating(k)') <= 1 + overtaken'[k]
  BY DEF Counted
<1>1. /\ req \in [Workers -> Requests] /\ live \in [Presses -> Nat] /\ overtaken[k] \in Nat
      /\ overtaken'[k] = overtaken[k] /\ live[k] \in Nat
  BY DEF ExtraInv, TypeOK
<1>2. /\ \A v \in Workers : v # w => req'[v] = req[v]
      /\ req'[w].phase \in {"ok", "idle"}
  BY <1>1 DEF Ended, Idle, Requests
<1>3. Orphans(k)' \subseteq Orphans(k) /\ Creating(k)' = Creating(k) \ {w}
  BY <1>2 DEF Orphans, Creating, Busy
<1>4. /\ Cardinality(Orphans(k)') \in Nat /\ Cardinality(Orphans(k)) \in Nat
      /\ Cardinality(Orphans(k)') <= Cardinality(Orphans(k))
      /\ Cardinality(Orphans(k)) <= overtaken[k]
      /\ live[k] + Cardinality(Creating(k)) <= 1 + overtaken[k]
  <2>1. /\ IsFiniteSet(Orphans(k)')
        /\ Cardinality(Orphans(k)') <= Cardinality(Orphans(k))
    BY <1>3, FiniteCounts, FS_Subset
  <2> QED BY <2>1, FiniteCounts, FS_CardinalityType DEF ExtraInv, Counted
<1>5. Cardinality(Creating(k)) \in Nat
  BY FiniteCounts
<1>6. CASE req[w].press = k
  <2>1. w \in Creating(k)
    BY <1>6 DEF Creating
  <2>2. Cardinality(Creating(k) \ {w}) = Cardinality(Creating(k)) - 1
    BY <2>1, FiniteCounts, FS_RemoveElement
  <2>3. live'[k] = live[k] + 1
    BY <1>1, <1>6
  <2> QED BY <1>1, <1>3, <1>4, <1>5, <2>2, <2>3
<1>7. CASE req[w].press # k
  <2>1. Creating(k) \ {w} = Creating(k)
    BY <1>7 DEF Creating
  <2>2. live'[k] = live[k]
    BY <1>1, <1>7
  <2>3. Cardinality(Creating(k)') = Cardinality(Creating(k))
    BY <1>3, <2>1
  <2> QED BY <1>1, <1>4, <1>5, <2>2, <2>3
<1> QED BY <1>6, <1>7

\* Calls that are given up become orphans, and are counted.
LEMMA GiveUpCounted ==
    ASSUME ExtraInv, NEW W \in SUBSET Workers, GiveUp(W), UNCHANGED live
    PROVE  Counted'
<1> SUFFICES ASSUME NEW k \in Presses
             PROVE  /\ Cardinality(Orphans(k)') <= overtaken'[k]
                    /\ live'[k] + Cardinality(Creating(k)') <= 1 + overtaken'[k]
  BY DEF Counted
<1> DEFINE more == {w \in W : Busy(w) /\ req[w].press = k}
<1>1. /\ req \in [Workers -> Requests] /\ live[k] \in Nat /\ overtaken[k] \in Nat
      /\ live'[k] = live[k]
  BY DEF ExtraInv, TypeOK
<1>2. \A w \in Workers :
         /\ req[w] \in Requests
         /\ req'[w] = IF w \in W THEN Abandoned(req[w]) ELSE req[w]
  BY <1>1 DEF GiveUp
<1>3. overtaken'[k] = overtaken[k] + Cardinality(more)
  BY DEF GiveUp
<1>a. ASSUME NEW w \in Workers
      PROVE  \/ req'[w] = req[w]
             \/ req'[w].phase = "idle"
             \/ /\ w \in W /\ req'[w].phase = req[w].phase
                /\ req'[w].press = req[w].press
  <2>1. req[w] \in Requests /\ req'[w] = IF w \in W THEN Abandoned(req[w]) ELSE req[w]
    BY <1>2
  <2> QED BY <2>1 DEF Abandoned, Idle, Requests
<1>4. Creating(k)' \subseteq Creating(k)
  BY <1>a DEF Creating
<1>5. Orphans(k)' \subseteq Orphans(k) \cup more
  BY <1>a DEF Orphans, Busy
<1>6. IsFiniteSet(more) /\ Cardinality(more) \in Nat
  <2>1. more \in SUBSET Workers
    OBVIOUS
  <2>2. IsFiniteSet(more)
    BY <2>1, FS_Subset, OfflineBillingAssumption
  <2> QED BY <2>2, FS_CardinalityType
<1> HIDE DEF more
<1>7. /\ Cardinality(Orphans(k)) \in Nat /\ Cardinality(Creating(k)) \in Nat
      /\ Cardinality(Orphans(k)) <= overtaken[k]
      /\ live[k] + Cardinality(Creating(k)) <= 1 + overtaken[k]
  BY FiniteCounts DEF ExtraInv, Counted
<1>8. /\ Cardinality(Creating(k)') \in Nat
      /\ Cardinality(Creating(k)') <= Cardinality(Creating(k))
  <2>1. /\ IsFiniteSet(Creating(k)')
        /\ Cardinality(Creating(k)') <= Cardinality(Creating(k))
    BY <1>4, FiniteCounts, FS_Subset
  <2> QED BY <2>1, FS_CardinalityType
<1>9. /\ Cardinality(Orphans(k)') \in Nat
      /\ Cardinality(Orphans(k)') <= Cardinality(Orphans(k)) + Cardinality(more)
  <2>1. /\ IsFiniteSet(Orphans(k) \cup more)
        /\ Cardinality(Orphans(k) \cup more) =
              Cardinality(Orphans(k)) + Cardinality(more) - Cardinality(Orphans(k) \cap more)
    BY <1>6, FiniteCounts, FS_Union
  <2>2. /\ IsFiniteSet(Orphans(k)')
        /\ Cardinality(Orphans(k)') <= Cardinality(Orphans(k) \cup more)
    BY <1>5, <2>1, FS_Subset
  <2>3. IsFiniteSet(Orphans(k) \cap more)
    BY <1>6, FS_Subset
  <2>4. Cardinality(Orphans(k) \cap more) \in Nat /\ Cardinality(Orphans(k)') \in Nat
    BY <2>2, <2>3, FS_CardinalityType
  <2> QED BY <1>6, <1>7, <2>1, <2>2, <2>4
<1> QED BY <1>1, <1>3, <1>6, <1>7, <1>8, <1>9

\* Requests that move without a new caller keep one call each.
LEMMA CallsStay ==
    ASSUME ExtraInv, UNCHANGED <<saleOf, pending, batch>>,
           \A w \in Workers :
              \/ req'[w].phase = "idle" /\ req'[w].from = "nobody"
              \/ /\ req[w].phase # "idle" /\ req'[w].phase # "idle"
                 /\ req'[w].press = req[w].press /\ req'[w].from \in {req[w].from, "nobody"}
              \/ req'[w] = req[w]
    PROVE  OneCallEach'
<1>1. /\ batch' \subseteq pending'
      /\ \A k \in pending' : Minted(k)'
  BY DEF ExtraInv, OneCallEach, Minted
<1>2. ASSUME NEW w \in Workers
      PROVE  /\ req'[w].phase # "idle" => req'[w].press \in Presses /\ saleOf'[req'[w].press] # NoSale
             /\ req'[w].from # "nobody" => req'[w].phase # "idle"
             /\ req'[w].from = "sync" => req'[w].press \in pending'
             /\ req'[w].from = "dialog" => req'[w].press \notin pending'
  BY DEF ExtraInv, OneCallEach, Minted
<1>3. ASSUME NEW v \in Workers, NEW w \in Workers,
             req'[v].from = req'[w].from, req'[v].from # "nobody"
      PROVE  v = w
  <2>1. \A x \in {v, w} : req'[x].from = req[x].from
    BY <1>3
  <2> QED BY <1>3, <2>1 DEF ExtraInv, OneCallEach
<1> QED BY <1>1, <1>2, <1>3 DEF OneCallEach, Minted

\* A replay copies the store or nothing.
LEMMA ReplayCallsStay ==
    ASSUME ExtraInv, UNCHANGED <<saleOf, pending, req>>, batch' \subseteq pending
    PROVE  OneCallEach'
BY DEF ExtraInv, OneCallEach, Minted

\* Extra invoices of a press are at most its overtaken calls:
\* ExtraBillsWereOvertaken of OfflineBillingProps.
THEOREM ExtraBills == Spec => []ExtraBillsWereOvertaken
<1>1. Init => OneCallEach /\ Counted
  <2> SUFFICES ASSUME Init PROVE OneCallEach /\ Counted
    OBVIOUS
  <2>1. \A w \in Workers : req[w].phase = "idle" /\ req[w].from = "nobody"
    BY DEF Init, Idle
  <2>2. OneCallEach
    BY <2>1 DEF Init, OneCallEach
  <2>3. ASSUME NEW k \in Presses
        PROVE  /\ Cardinality(Orphans(k)) <= overtaken[k]
               /\ live[k] + Cardinality(Creating(k)) <= 1 + overtaken[k]
    <3>1. Orphans(k) = {} /\ Creating(k) = {}
      BY <2>1 DEF Orphans, Creating, Busy
    <3>2. Cardinality(Orphans(k)) = 0 /\ Cardinality(Creating(k)) = 0
      BY <3>1, FS_EmptySet, Zenon
    <3>3. overtaken[k] = 0 /\ live[k] = 0
      BY DEF Init
    <3> QED BY <3>2, <3>3
  <2> QED BY <2>2, <2>3 DEF Counted
<1>2. ExtraInv /\ TypeOK' /\ [Next]_vars => OneCallEach' /\ Counted'
  <2> SUFFICES ASSUME ExtraInv, TypeOK', [Next]_vars PROVE OneCallEach' /\ Counted'
    OBVIOUS
  <2> USE OfflineBillingAssumption
  <2>a. TypeOK /\ OneCallEach /\ Counted
    BY DEF ExtraInv
  <2>b. /\ req \in [Workers -> Requests] /\ batch \subseteq pending
        /\ \A k \in Presses : live[k] \in Nat /\ live[k] <= live[k]
    BY <2>a DEF TypeOK, OneCallEach
  <2>1. ASSUME NEW w \in Workers, SendNext(w) PROVE OneCallEach' /\ Counted'
    <3>1. PICK k \in batch : Call(w, k, "sync")
      BY <2>1 DEF SendNext
    <3>2. UNCHANGED <<saleOf, pending, batch, live, overtaken>>
      BY <2>1 DEF SendNext, client, invoices
    <3>3. /\ \A v \in Workers : v # w => req'[v] = req[v]
          /\ req'[w] = [phase |-> "arrived", press |-> k, from |-> "sync"]
      BY <2>b, <3>1 DEF Call
    <3>4. \A v \in Workers : req[v].from # "sync"
      BY <2>1 DEF SendNext, Waiting
    <3>5. Counted'
      BY <3>2, <3>3, RequestCounted
    <3>6. k \in pending /\ k \in Presses /\ Minted(k)
      BY <2>a, <3>1 DEF OneCallEach, TypeOK
    <3>7. OneCallEach'
      BY <2>a, <3>2, <3>3, <3>4, <3>6 DEF OneCallEach, Minted
    <3> QED BY <3>5, <3>7
  <2>2. CASE EndSync
    BY <2>2, <2>b, ElsewhereCounted, ReplayCallsStay DEF EndSync, invoices
  <2>3. CASE SendFails
    BY <2>3, <2>b, ElsewhereCounted, ReplayCallsStay DEF SendFails, SyncFails, invoices
  <2>4. CASE Retry
    BY <2>4, <2>b, ElsewhereCounted, ReplayCallsStay DEF Retry, SyncPending, invoices
  <2>5. CASE BackgroundSync
    BY <2>5, <2>b, ElsewhereCounted, ReplayCallsStay DEF BackgroundSync, SyncPending, invoices
  <2>6. CASE OpenTab
    BY <2>6, <2>b, ElsewhereCounted, ReplayCallsStay DEF OpenTab, invoices
  <2>7. CASE LoadBundle
    BY <2>7, <2>b, ElsewhereCounted, ReplayCallsStay DEF LoadBundle, invoices
  <2>8. ASSUME NEW w \in Workers, Read(w) PROVE OneCallEach' /\ Counted'
    <3>1. /\ req[w] \in Requests /\ req[w].phase = "arrived" /\ req[w].press \in Presses
          /\ UNCHANGED <<saleOf, pending, batch, live, overtaken>>
      BY <2>8, <2>a DEF Read, TypeOK, OneCallEach, client, invoices
    <3>2. /\ \A v \in Workers : v # w => req'[v] = req[v]
          /\ req'[w].press = req[w].press /\ req'[w].from = req[w].from
          /\ req'[w].phase = IF Finds(req[w].press) THEN "found" ELSE "new"
      BY <2>8, <2>b, <3>1 DEF Read, Requests
    <3>3. OneCallEach'
      BY <3>1, <3>2, CallsStay
    <3>4. CASE Finds(req[w].press)
      BY <3>1, <3>2, <3>3, <3>4, RequestCounted
    <3>5. CASE ~Finds(req[w].press)
      <4>1. live[req[w].press] = 0
        BY <2>b, <3>1, <3>5 DEF Finds
      <4>2. req' = [req EXCEPT ![w].phase = "new"]
        BY <2>8, <3>5 DEF Read
      <4> QED BY <3>1, <3>3, <4>1, <4>2, NewCounted
    <3> QED BY <3>3, <3>4, <3>5
  <2>9. ASSUME NEW w \in Workers, Commit(w) PROVE OneCallEach' /\ Counted'
    <3>1. /\ req[w] \in Requests /\ req[w].phase \in {"found", "new"}
          /\ UNCHANGED <<saleOf, pending, batch, overtaken>>
          /\ req' = [req EXCEPT ![w] = Ended(w, "ok")]
      BY <2>9, <2>b DEF Commit, client
    <3>2. /\ \A v \in Workers : v # w => req'[v] = req[v]
          /\ \/ req'[w].phase = "idle" /\ req'[w].from = "nobody"
             \/ /\ req'[w].phase = "ok" /\ req'[w].press = req[w].press
                /\ req'[w].from = req[w].from
      BY <2>b, <3>1 DEF Ended, Idle, Requests
    <3>3. OneCallEach'
      BY <3>1, <3>2, CallsStay
    <3>4. CASE req[w].phase = "found"
      BY <2>9, <3>1, <3>2, <3>3, <3>4, RequestCounted DEF Commit
    <3>5. CASE req[w].phase = "new"
      BY <2>9, <3>1, <3>3, <3>5, CreatedCounted DEF Commit
    <3> QED BY <3>1, <3>3, <3>4, <3>5
  <2>10. ASSUME NEW w \in Workers, Refuse(w) PROVE OneCallEach' /\ Counted'
    <3>1. /\ req[w] \in Requests /\ req[w].phase = "new"
          /\ UNCHANGED <<saleOf, pending, batch, live, overtaken>>
          /\ req' = [req EXCEPT ![w] = Ended(w, "failed")]
      BY <2>10, <2>b DEF Refuse, client, invoices
    <3>2. /\ \A v \in Workers : v # w => req'[v] = req[v]
          /\ \/ req'[w].phase = "idle" /\ req'[w].from = "nobody"
             \/ /\ req'[w].phase = "failed" /\ req'[w].press = req[w].press
                /\ req'[w].from = req[w].from
      BY <2>b, <3>1 DEF Ended, Idle, Requests
    <3> QED BY <3>1, <3>2, CallsStay, RequestCounted
  <2>11. ASSUME NEW w \in Workers, SyncAnswered(w) PROVE OneCallEach' /\ Counted'
    <3> DEFINE k == req[w].press
    <3>1. /\ req[w].from = "sync" /\ UNCHANGED <<saleOf, live, overtaken>>
          /\ \A v \in Workers : v # w => req'[v] = req[v]
          /\ req'[w].phase = "idle" /\ req'[w].from = "nobody"
      BY <2>11, <2>b DEF SyncAnswered, invoices, Idle
    <3>2. Counted'
      BY <3>1, RequestCounted
    <3>3. CASE Done(req[w].phase)
      <4>1. pending' = pending \ {k} /\ batch' = batch \ {k}
        BY <2>11, <3>3 DEF SyncAnswered
      <4>2. \A v \in Workers : req'[v].from # "sync"
        BY <2>a, <3>1 DEF OneCallEach
      <4> QED BY <2>a, <3>1, <3>2, <4>1, <4>2 DEF OneCallEach, Minted
    <3>4. CASE ~Done(req[w].phase)
      <4>1. pending' = pending /\ batch' = {}
        BY <2>11, <3>4 DEF SyncAnswered, SyncFails
      <4> QED BY <2>a, <3>1, <3>2, <4>1 DEF OneCallEach, Minted
    <3> QED BY <3>3, <3>4
  <2>12. ASSUME NEW w \in Workers, DialogAnswered(w) PROVE OneCallEach' /\ Counted'
    <3>1. /\ UNCHANGED <<saleOf, pending, batch, live, overtaken>>
          /\ \A v \in Workers : v # w => req'[v] = req[v]
          /\ req'[w].phase = "idle" /\ req'[w].from = "nobody"
      BY <2>12, <2>b DEF DialogAnswered, invoices, Idle
    <3> QED BY <3>1, CallsStay, RequestCounted
  <2>13. ASSUME NEW W \in SUBSET Workers, GiveUp(W), UNCHANGED <<saleOf, pending, live>>,
                batch' \in {batch, {}}
         PROVE  OneCallEach' /\ Counted'
    <3>1. ASSUME NEW w \in Workers
          PROVE  \/ req'[w].phase = "idle" /\ req'[w].from = "nobody"
                 \/ /\ req[w].phase # "idle" /\ req'[w].phase # "idle"
                    /\ req'[w].press = req[w].press /\ req'[w].from \in {req[w].from, "nobody"}
                 \/ req'[w] = req[w]
      <4>1. /\ req[w] \in Requests
            /\ req'[w] = IF w \in W THEN Abandoned(req[w]) ELSE req[w]
        BY <2>b, <2>13 DEF GiveUp
      <4> QED BY <4>1 DEF Abandoned, Idle, Requests
    <3>2. CASE batch' = batch
      BY <2>13, <3>1, <3>2, CallsStay, GiveUpCounted
    <3>3. CASE batch' = {}
      <4>1. \A w \in Workers :
              /\ req'[w].phase # "idle" => req'[w].press \in Presses /\ Minted(req[w].press)
                                           /\ req'[w].press = req[w].press
              /\ req'[w].from # "nobody" => /\ req'[w].phase # "idle"
                                            /\ req'[w].from = req[w].from
        BY <2>a, <3>1 DEF OneCallEach
      <4> QED BY <2>a, <2>13, <3>3, <4>1, GiveUpCounted DEF OneCallEach, Minted
    <3> QED BY <2>13, <3>2, <3>3
  <2>14. ASSUME NEW w \in Workers, LoseAnswer(w) PROVE OneCallEach' /\ Counted'
    BY <2>13, <2>14 DEF LoseAnswer, SyncFails, invoices
  <2>15. CASE CloseTab
    BY <2>13, <2>15 DEF CloseTab, invoices
  <2>16. CASE GoOnline
    BY <2>16, <2>b, ElsewhereCounted, ReplayCallsStay DEF GoOnline, SyncPending, invoices
  <2>17. CASE GoOffline
    BY <2>17, <2>b, ElsewhereCounted, ReplayCallsStay DEF GoOffline, client, invoices
  <2>18. ASSUME NEW k \in Presses, CancelInvoice(k) PROVE OneCallEach' /\ Counted'
    <3>1. UNCHANGED <<req, overtaken, saleOf, pending, batch>>
      BY <2>18 DEF CancelInvoice, client
    <3>2. \A j \in Presses : live'[j] <= live[j]
      BY <2>18, <2>a DEF CancelInvoice, TypeOK
    <3> QED BY <2>b, <3>1, <3>2, ElsewhereCounted, ReplayCallsStay
  <2>19. ASSUME NEW s \in Sales, NEW k \in Presses, PayOffline(s, k) PROVE OneCallEach' /\ Counted'
    <3>1. UNCHANGED <<req, live, overtaken, batch>>
      BY <2>19 DEF PayOffline, invoices
    <3>2. /\ saleOf' = [saleOf EXCEPT ![k] = s] /\ saleOf[k] = NoSale /\ s # NoSale
          /\ pending' = pending \cup {k}
      BY <2>19 DEF PayOffline, Fresh, Minted
    <3>3. \A j \in Presses : Minted(j) \/ j = k <=> Minted(j)'
      BY <2>a, <3>2 DEF TypeOK, Minted
    <3>4. \A w \in Workers : req[w].phase # "idle" => req[w].press # k
      BY <2>a, <3>2 DEF OneCallEach, Minted
    <3>5. OneCallEach'
      <4>1. batch' \subseteq pending' /\ \A j \in pending' : Minted(j)'
        BY <2>a, <3>1, <3>2, <3>3 DEF OneCallEach, TypeOK
      <4>2. \A w \in Workers :
              /\ req[w].phase # "idle" => req[w].press \in Presses /\ saleOf'[req[w].press] # NoSale
              /\ req[w].from # "nobody" => req[w].phase # "idle"
              /\ req[w].from = "sync" => req[w].press \in pending'
              /\ req[w].from = "dialog" => req[w].press \notin pending'
        BY <2>a, <3>2, <3>3, <3>4 DEF OneCallEach, Minted
      <4> QED BY <2>a, <3>1, <4>1, <4>2 DEF OneCallEach, Minted
    <3> QED BY <2>b, <3>1, <3>5, ElsewhereCounted
  <2>20. ASSUME NEW s \in Sales, NEW k \in Presses, NEW w \in Workers, PayOnline(s, k, w)
         PROVE  OneCallEach' /\ Counted'
    <3>1. /\ UNCHANGED <<live, overtaken, batch, pending>>
          /\ \A v \in Workers : v # w => req'[v] = req[v]
          /\ req'[w] = [phase |-> "arrived", press |-> k, from |-> "dialog"]
      BY <2>20, <2>b DEF PayOnline, Call, invoices
    <3>2. saleOf' = [saleOf EXCEPT ![k] = s] /\ saleOf[k] = NoSale /\ s # NoSale
      BY <2>20 DEF PayOnline, Fresh, Minted
    <3>3. \A v \in Workers : req[v].from # "dialog"
      BY <2>20 DEF PayOnline, Waiting
    <3>4. \A j \in Presses : Minted(j) \/ j = k <=> Minted(j)'
      BY <2>a, <3>2 DEF TypeOK, Minted
    <3>5. k \notin pending
      BY <2>a, <3>2 DEF OneCallEach, Minted
    <3>6. OneCallEach'
      <4>1. batch' \subseteq pending' /\ \A j \in pending' : Minted(j)'
        BY <2>a, <3>1, <3>4 DEF OneCallEach, TypeOK
      <4>2. ASSUME NEW v \in Workers
            PROVE  /\ req'[v].phase # "idle" =>
                         req'[v].press \in Presses /\ saleOf'[req'[v].press] # NoSale
                   /\ req'[v].from # "nobody" => req'[v].phase # "idle"
                   /\ req'[v].from = "sync" => req'[v].press \in pending'
                   /\ req'[v].from = "dialog" => req'[v].press \notin pending'
        BY <2>a, <3>1, <3>4, <3>5 DEF OneCallEach, Minted
      <4>3. \A u, v \in Workers :
              req'[u].from = req'[v].from /\ req'[u].from # "nobody" => u = v
        BY <2>a, <3>1, <3>3 DEF OneCallEach
      <4> QED BY <4>1, <4>2, <4>3 DEF OneCallEach, Minted
    <3> QED BY <3>1, <3>6, RequestCounted
  <2>21. CASE UNCHANGED vars
    BY <2>21, <2>b, ElsewhereCounted, ReplayCallsStay DEF vars
  <2> QED
    BY <2>1, <2>2, <2>3, <2>4, <2>5, <2>6, <2>7, <2>8, <2>9, <2>10, <2>11, <2>12, <2>14,
       <2>15, <2>16, <2>17, <2>18, <2>19, <2>20, <2>21
    DEF Next, Browser, Server, Answers
<1>3. ExtraInv => ExtraBillsWereOvertaken
  <2> SUFFICES ASSUME ExtraInv, NEW k \in Presses PROVE live[k] <= 1 + overtaken[k]
    BY DEF ExtraBillsWereOvertaken
  <2>1. Cardinality(Creating(k)) \in Nat /\ live[k] \in Nat /\ overtaken[k] \in Nat
    BY FiniteCounts DEF ExtraInv, TypeOK
  <2>2. live[k] + Cardinality(Creating(k)) <= 1 + overtaken[k]
    BY DEF ExtraInv, Counted
  <2> QED BY <2>1, <2>2
<1> QED BY <1>1, <1>2, <1>3, OfflineTypes, PTL DEF Spec, ExtraInv

-----------------------------------------------------------------------------
(* The order of the replay                                                 *)

\* Ids are minted in their order, and the store holds minted ones.
IdsInOrder == \A j, k \in Presses : Minted(k) /\ j < k => Minted(j)
StoredAreMinted == \A k \in pending : Minted(k)

\* What the replay still has to send is in the store, and older than what was
\* stored since it was read.
BatchIsOldest == batch \subseteq pending /\ \A k \in batch : \A j \in pending \ batch : k < j

\* The replay waits for one answer, about the oldest invoice it has left.
OneReplay ==
    \A w \in Waiting("sync") :
        /\ syncing
        /\ req[w].press \in batch /\ First(req[w].press)
        /\ \A v \in Waiting("sync") : v = w

ReplayInv == TypeOK /\ IdsInOrder /\ StoredAreMinted /\ BatchIsOldest /\ OneReplay

\* A step that leaves the replay alone, and starts no call of it.
LEMMA ReplayUndisturbed ==
    ASSUME OneReplay, UNCHANGED <<syncing, batch>>,
           \A w \in Workers : req'[w].from = "sync" =>
               req[w].from = "sync" /\ req'[w].press = req[w].press
    PROVE  OneReplay'
BY DEF OneReplay, Waiting, First

\* A step after which the replay waits for no answer.
LEMMA NobodyReplays ==
    ASSUME \A w \in Workers : req'[w].from # "sync" PROVE OneReplay'
BY DEF OneReplay, Waiting

\* A call that is given up is nobody's.
LEMMA GivenUpIsNobodys ==
    ASSUME TypeOK, NEW W \in SUBSET Workers, GiveUp(W), NEW w \in Workers
    PROVE  /\ w \in W => req'[w].from = "nobody"
           /\ w \notin W => req'[w] = req[w]
<1>1. req'[w] = IF w \in W THEN Abandoned(req[w]) ELSE req[w]
  BY DEF GiveUp
<1>2. req[w] \in Requests
  BY DEF TypeOK
<1> QED BY <1>1, <1>2 DEF Abandoned, Idle, Requests

\* A worker that becomes idle serves nobody, and the others go on.
LEMMA AnsweredIsIdle ==
    ASSUME TypeOK, NEW w \in Workers, req' = [req EXCEPT ![w] = Idle], NEW v \in Workers
    PROVE  /\ v = w => req'[v].from = "nobody"
           /\ v # w => req'[v] = req[v]
BY DEF TypeOK, Idle

\* A replay that starts reads the whole store, when none was running.
LEMMA ReplayStarts ==
    ASSUME ReplayInv, NEW connected \in BOOLEAN, SyncPending(connected), UNCHANGED <<pending, req>>
    PROVE  BatchIsOldest' /\ OneReplay'
<1>1. CASE UNCHANGED <<syncing, batch>>
  BY <1>1, ReplayUndisturbed DEF ReplayInv, BatchIsOldest
<1>2. CASE ~syncing /\ batch' = pending
  <2>1. Waiting("sync") = {}
    BY <1>2 DEF ReplayInv, OneReplay
  <2>2. OneReplay'
    BY <2>1, NobodyReplays DEF Waiting
  <2> QED BY <1>2, <2>2 DEF BatchIsOldest
<1> QED BY <1>1, <1>2 DEF SyncPending

\* A replay that ends early leaves nothing to be sent.
LEMMA ReplayEnds ==
    ASSUME batch' = {}, \A w \in Workers : req'[w].from # "sync"
    PROVE  BatchIsOldest' /\ OneReplay'
BY NobodyReplays DEF BatchIsOldest

\* A new id is above all that are in the store.
LEMMA FreshIsNewest ==
    ASSUME ReplayInv, NEW k \in Presses, Fresh(k), NEW s \in Sales,
           saleOf' = [saleOf EXCEPT ![k] = s]
    PROVE  /\ \A j \in pending : j < k
           /\ IdsInOrder'
           /\ \A j \in pending \cup {k} : Minted(j)'
<1> USE DEF ReplayInv
<1>1. ASSUME NEW j \in Presses, Minted(j) PROVE j < k
  BY <1>1 DEF Fresh, IdsInOrder, Presses
<1>2. \A j \in Presses : Minted(j)' <=> Minted(j) \/ j = k
  BY OfflineBillingAssumption DEF Minted, TypeOK
<1>3. ASSUME NEW i \in Presses, NEW j \in Presses, Minted(j)', i < j PROVE Minted(i)'
  BY <1>2, <1>3 DEF Fresh, IdsInOrder
<1>4. \A j \in pending : j \in Presses /\ Minted(j)
  BY DEF TypeOK, StoredAreMinted
<1> QED BY <1>1, <1>2, <1>3, <1>4 DEF IdsInOrder

\* The answers of the replay: a sale that was created or found leaves the
\* store and the batch, any other answer ends the replay.
LEMMA ReplayAnswered ==
    ASSUME ReplayInv, NEW w \in Workers, SyncAnswered(w)
    PROVE  BatchIsOldest' /\ OneReplay' /\ pending' \subseteq pending
<1> USE DEF ReplayInv
<1>1. w \in Waiting("sync")
  BY DEF SyncAnswered, Waiting
<1>2. \A v \in Workers : req'[v].from # "sync"
  <2> SUFFICES ASSUME NEW v \in Workers PROVE req'[v].from # "sync"
    OBVIOUS
  <2>1. req' = [req EXCEPT ![w] = Idle]
    BY DEF SyncAnswered
  <2>2. v # w => req[v].from # "sync"
    BY <1>1 DEF OneReplay, Waiting
  <2> QED BY <2>1, <2>2, AnsweredIsIdle
<1>3. OneReplay'
  BY <1>2, NobodyReplays
<1>4. \/ pending' = pending \ {req[w].press} /\ batch' = batch \ {req[w].press}
      \/ batch' = {} /\ pending' = pending
  BY DEF SyncAnswered, SyncFails
<1>5. req[w].press \in batch
  BY <1>1 DEF OneReplay
<1> QED BY <1>3, <1>4, <1>5 DEF BatchIsOldest

THEOREM ReplayIsOrdered == Spec => []ReplayInv
<1>1. Init => IdsInOrder /\ StoredAreMinted /\ BatchIsOldest /\ OneReplay
  BY DEF Init, IdsInOrder, Minted, StoredAreMinted, BatchIsOldest, OneReplay, Waiting, Idle
<1>2. ReplayInv /\ [Next]_vars =>
         IdsInOrder' /\ StoredAreMinted' /\ BatchIsOldest' /\ OneReplay'
  <2> SUFFICES ASSUME ReplayInv, [Next]_vars
               PROVE  IdsInOrder' /\ StoredAreMinted' /\ BatchIsOldest' /\ OneReplay'
    OBVIOUS
  <2> DEFINE Goal == IdsInOrder' /\ StoredAreMinted' /\ BatchIsOldest' /\ OneReplay'
  <2>a. TypeOK /\ IdsInOrder /\ StoredAreMinted /\ BatchIsOldest /\ OneReplay
    BY DEF ReplayInv
  <2>b. ASSUME UNCHANGED saleOf, pending' \subseteq pending PROVE IdsInOrder' /\ StoredAreMinted'
    BY <2>a, <2>b DEF IdsInOrder, StoredAreMinted, Minted
  <2>c. ASSUME UNCHANGED <<saleOf, pending, syncing, batch>>,
               \A w \in Workers : req'[w].from = "sync" =>
                   req[w].from = "sync" /\ req'[w].press = req[w].press
        PROVE  Goal
    <3>1. OneReplay'
      BY <2>a, <2>c, ReplayUndisturbed
    <3> QED BY <2>a, <2>b, <2>c, <3>1 DEF BatchIsOldest
  <2>d. ASSUME UNCHANGED <<saleOf, pending, syncing, batch, req>> PROVE Goal
    BY <2>c, <2>d
  <2>e. ASSUME UNCHANGED <<saleOf, pending, req>>,
               \E connected \in BOOLEAN : SyncPending(connected)
        PROVE  Goal
    BY <2>b, <2>e, ReplayStarts
  <2> HIDE DEF Goal
  <2>1. ASSUME NEW w \in Workers, SendNext(w) PROVE Goal
    <3>1. PICK k \in batch : First(k) /\ Call(w, k, "sync")
      BY <2>1 DEF SendNext
    <3>2. /\ syncing /\ Waiting("sync") = {}
          /\ UNCHANGED <<saleOf, pending, syncing, batch>>
      BY <2>1 DEF SendNext, client
    <3>3. \A v \in Workers : req'[v] = IF v = w THEN [phase |-> "arrived", press |-> k, from |-> "sync"]
                                       ELSE req[v]
      BY <2>a, <3>1 DEF Call, TypeOK
    <3>4. Waiting("sync")' = {w}
      BY <3>2, <3>3 DEF Waiting
    <3>5. OneReplay'
      BY <3>1, <3>2, <3>3, <3>4 DEF OneReplay, First
    <3> QED BY <2>a, <2>b, <3>2, <3>5 DEF Goal, BatchIsOldest
  <2>2. CASE EndSync
    <3>1. /\ UNCHANGED <<saleOf, pending, batch, req>> /\ Waiting("sync") = {}
      BY <2>2 DEF EndSync
    <3>2. OneReplay'
      BY <3>1, NobodyReplays DEF Waiting
    <3> QED BY <2>a, <2>b, <3>1, <3>2 DEF Goal, BatchIsOldest
  <2>3. CASE SendFails
    <3>1. /\ UNCHANGED <<saleOf, pending, req>> /\ batch' = {} /\ Waiting("sync") = {}
      BY <2>3 DEF SendFails, SyncFails
    <3>2. BatchIsOldest' /\ OneReplay'
      BY <3>1, ReplayEnds DEF Waiting
    <3> QED BY <2>b, <3>1, <3>2 DEF Goal
  <2>4. CASE Retry
    BY <2>4, <2>e, <2>a DEF Goal, Retry, TypeOK
  <2>5. CASE BackgroundSync
    BY <2>5, <2>d, <2>e DEF Goal, BackgroundSync
  <2>6. CASE OpenTab \/ LoadBundle \/ GoOffline \/ \E k \in Presses : CancelInvoice(k)
    BY <2>6, <2>d DEF Goal, OpenTab, LoadBundle, GoOffline, CancelInvoice, client
  <2>7. ASSUME NEW w \in Workers, Read(w) \/ Commit(w) \/ Refuse(w) PROVE Goal
    <3>1. UNCHANGED <<saleOf, pending, syncing, batch>>
      BY <2>7 DEF Read, Commit, Refuse, client
    <3>2. \A v \in Workers : req[v] \in Requests
      BY <2>a DEF TypeOK
    <3>3. \E p \in {"found", "new", "ok", "failed"} :
             \/ req' = [req EXCEPT ![w].phase = p]
             \/ req' = [req EXCEPT ![w] = Idle]
      BY <2>7, <2>a DEF Read, Commit, Refuse, Ended, TypeOK
    <3>4. ASSUME NEW v \in Workers, req'[v].from = "sync"
          PROVE  req[v].from = "sync" /\ req'[v].press = req[v].press
      BY <3>2, <3>3, <3>4, <2>a DEF Idle, Requests, TypeOK
    <3> QED BY <2>c, <3>1, <3>4
  <2>8. ASSUME NEW w \in Workers, SyncAnswered(w) PROVE Goal
    <3>1. UNCHANGED saleOf
      BY <2>8 DEF SyncAnswered
    <3> QED BY <2>8, <2>b, <3>1, ReplayAnswered DEF Goal
  <2>9. ASSUME NEW w \in Workers, DialogAnswered(w) PROVE Goal
    <3>1. req' = [req EXCEPT ![w] = Idle] /\ UNCHANGED <<saleOf, pending, syncing, batch>>
      BY <2>9 DEF DialogAnswered
    <3>2. ASSUME NEW v \in Workers, req'[v].from = "sync"
          PROVE  req[v].from = "sync" /\ req'[v].press = req[v].press
      <4>1. v # w
        BY <2>a, <3>1, <3>2, AnsweredIsIdle
      <4> QED BY <2>a, <3>1, <3>2, <4>1, AnsweredIsIdle
    <3> QED BY <2>c, <3>1, <3>2
  <2>10. ASSUME NEW w \in Workers, LoseAnswer(w) PROVE Goal
    <3>1. GiveUp({w}) /\ UNCHANGED <<saleOf, pending>>
      BY <2>10 DEF LoseAnswer
    <3>2. \A v \in Workers : /\ v = w => req'[v].from = "nobody"
                             /\ v # w => req'[v] = req[v]
      <4> TAKE v \in Workers
      <4>1. {w} \in SUBSET Workers
        OBVIOUS
      <4> QED BY <2>a, <3>1, <4>1, GivenUpIsNobodys
    <3>3. CASE req[w].from = "sync"
      <4>1. batch' = {}
        BY <2>10, <3>3 DEF LoseAnswer, SyncFails
      <4>2. \A v \in Workers : req'[v].from # "sync"
        BY <2>a, <3>2, <3>3 DEF OneReplay, Waiting
      <4> QED BY <2>b, <3>1, <4>1, <4>2, ReplayEnds DEF Goal
    <3>4. CASE req[w].from # "sync"
      <4>1. UNCHANGED <<syncing, batch>>
        BY <2>10, <3>4 DEF LoseAnswer
      <4>2. \A v \in Workers : req'[v].from = "sync" =>
               req[v].from = "sync" /\ req'[v].press = req[v].press
        BY <3>2
      <4> QED BY <2>c, <3>1, <4>1, <4>2
    <3> QED BY <3>3, <3>4
  <2>11. CASE GoOnline
    BY <2>11, <2>d, <2>e DEF Goal, GoOnline
  <2>12. CASE CloseTab
    <3> DEFINE W == {w \in Workers : req[w].from # "nobody"}
    <3>1. GiveUp(W) /\ UNCHANGED <<saleOf, pending>> /\ batch' = {} /\ W \in SUBSET Workers
      BY <2>12 DEF CloseTab
    <3>2. \A v \in Workers : req'[v].from # "sync"
      <4> TAKE v \in Workers
      <4>1. /\ v \in W => req'[v].from = "nobody"
            /\ v \notin W => req'[v] = req[v]
        BY <2>a, <3>1, GivenUpIsNobodys
      <4> QED BY <4>1
    <3> HIDE DEF W
    <3> QED BY <2>b, <3>1, <3>2, ReplayEnds DEF Goal
  <2>13. ASSUME NEW s \in Sales, NEW k \in Presses, PayOffline(s, k) PROVE Goal
    <3>1. /\ Fresh(k) /\ saleOf' = [saleOf EXCEPT ![k] = s]
          /\ pending' = pending \cup {k} /\ UNCHANGED <<syncing, batch, req>>
      BY <2>13 DEF PayOffline
    <3>2. /\ \A j \in pending : j < k
          /\ IdsInOrder'
          /\ \A j \in pending \cup {k} : Minted(j)'
      BY <3>1, FreshIsNewest
    <3>3. OneReplay'
      BY <2>a, <3>1, ReplayUndisturbed
    <3>4. BatchIsOldest'
      BY <2>a, <3>1, <3>2 DEF BatchIsOldest
    <3> QED BY <3>1, <3>2, <3>3, <3>4 DEF Goal, StoredAreMinted
  <2>14. ASSUME NEW s \in Sales, NEW k \in Presses, NEW w \in Workers, PayOnline(s, k, w)
         PROVE  Goal
    <3>1. /\ Fresh(k) /\ saleOf' = [saleOf EXCEPT ![k] = s]
          /\ Call(w, k, "dialog") /\ UNCHANGED <<pending, syncing, batch>>
      BY <2>14 DEF PayOnline
    <3>2. /\ IdsInOrder'
          /\ \A j \in pending \cup {k} : Minted(j)'
      BY <3>1, FreshIsNewest
    <3>3. \A v \in Workers : req'[v] = IF v = w THEN [phase |-> "arrived", press |-> k, from |-> "dialog"]
                                       ELSE req[v]
      BY <2>a, <3>1 DEF Call, TypeOK
    <3>4. \A v \in Workers : req'[v].from = "sync" =>
             req[v].from = "sync" /\ req'[v].press = req[v].press
      BY <3>3
    <3>5. OneReplay'
      BY <2>a, <3>1, <3>4, ReplayUndisturbed
    <3> QED BY <2>a, <3>1, <3>2, <3>5 DEF Goal, StoredAreMinted, BatchIsOldest
  <2>15. CASE UNCHANGED vars
    BY <2>15, <2>d DEF Goal, vars
  <2> QED
    BY <2>1, <2>2, <2>3, <2>4, <2>5, <2>6, <2>7, <2>8, <2>9, <2>10, <2>11, <2>12, <2>13,
       <2>14, <2>15
    DEF Goal, Next, Browser, Server, Answers
<1>3. TypeOK' /\ (IdsInOrder' /\ StoredAreMinted' /\ BatchIsOldest' /\ OneReplay') => ReplayInv'
  BY DEF ReplayInv
<1>4. TypeOK /\ (IdsInOrder /\ StoredAreMinted /\ BatchIsOldest /\ OneReplay) => ReplayInv
  BY DEF ReplayInv
<1> QED BY <1>1, <1>2, <1>3, <1>4, OfflineTypes, PTL DEF Spec

\* The store is replayed in the order the sales were made: when the replay
\* takes a sale out, no older one is left in.
ReplayInOrder ==
    [][\A k \in Presses :
          k \in pending /\ k \notin pending' => \A j \in pending' : k < j]_vars

\* What leaves the store is older than all that stays in it.
LEMMA ReplayStep ==
    ASSUME ReplayInv, [Next]_vars, NEW k \in Presses, k \in pending, k \notin pending',
           NEW j \in pending'
    PROVE  k < j
<1>1. PICK w \in Workers : SyncAnswered(w)
  <2>1. pending' # pending /\ ~(pending \subseteq pending')
    OBVIOUS
  <2> QED
    BY <2>1 DEF Next, Browser, Server, Answers, vars, client, EndSync, SendFails, Retry,
       BackgroundSync, OpenTab, LoadBundle, SendNext, Read, Commit, DialogAnswered, GoOnline,
       GoOffline, CloseTab, LoseAnswer, Refuse, CancelInvoice, PayOffline, PayOnline
<1>2. k = req[w].press /\ pending' = pending \ {k}
  BY <1>1 DEF SyncAnswered
<1>3. w \in Waiting("sync")
  BY <1>1 DEF SyncAnswered, Waiting
<1>4. k \in batch /\ First(k)
  BY <1>2, <1>3 DEF ReplayInv, OneReplay
<1>5. j \in pending /\ j # k /\ j \in Presses
  BY <1>2 DEF ReplayInv, TypeOK
<1>6. CASE j \in batch
  BY <1>4, <1>5, <1>6 DEF First, Presses
<1>7. CASE j \notin batch
  BY <1>4, <1>5, <1>7 DEF ReplayInv, BatchIsOldest
<1> QED BY <1>6, <1>7

\* ReplayInOrder, for any number of sales, presses, workers and troubles.
THEOREM ReplaysInOrder == Spec => ReplayInOrder
<1>1. ReplayInv /\ [Next]_vars =>
        [\A k \in Presses : k \in pending /\ k \notin pending' => \A j \in pending' : k < j]_vars
  BY ReplayStep
<1> QED BY <1>1, ReplayIsOrdered, PTL DEF Spec, ReplayInOrder

-----------------------------------------------------------------------------
(* The store implements DurableQueue                                       *)

\* What the server works on, or has answered, is a press somebody made.
CallsAreMinted == \A w \in Workers : req[w].phase # "idle" => Minted(req[w].press)

\* Presses are not forgotten, and requests that are not new keep theirs.
LEMMA MintedStays ==
    ASSUME TypeOK, [Next]_vars, NEW k \in Presses, Minted(k)
    PROVE  Minted(k)'
<1>1. ASSUME NEW s \in Sales, NEW j \in Presses, saleOf' = [saleOf EXCEPT ![j] = s]
      PROVE  Minted(k)'
  BY <1>1, OfflineBillingAssumption DEF Minted, TypeOK
<1>2. ASSUME NEW s \in Sales, NEW j \in Presses,
             PayOffline(s, j) \/ \E w \in Workers : PayOnline(s, j, w)
      PROVE  Minted(k)'
  BY <1>1, <1>2 DEF PayOffline, PayOnline
<1>3. CASE UNCHANGED saleOf
  BY <1>3 DEF Minted
<1> QED
  BY <1>2, <1>3 DEF Next, Browser, Server, Answers, vars, client, EndSync, SendFails, Retry,
     BackgroundSync, OpenTab, LoadBundle, SendNext, Read, Commit, DialogAnswered, SyncAnswered,
     GoOnline, GoOffline, CloseTab, LoseAnswer, Refuse, CancelInvoice

LEMMA OldCallsAreMinted ==
    ASSUME TypeOK, AnswersAreTrue, CallsAreMinted, [Next]_vars,
           \A w \in Workers : \/ req'[w].phase = "idle"
                              \/ req[w].phase # "idle" /\ req'[w].press = req[w].press
    PROVE  CallsAreMinted'
<1> SUFFICES ASSUME NEW w \in Workers, req'[w].phase # "idle" PROVE Minted(req[w].press)'
  BY DEF CallsAreMinted
<1>1. req[w].phase # "idle" /\ req'[w].press = req[w].press
  OBVIOUS
<1>2. req[w].press \in Presses /\ Minted(req[w].press)
  BY <1>1 DEF AnswersAreTrue, CallsAreMinted
<1>3. Minted(req[w].press) => saleOf'[req[w].press] # NoSale
  BY <1>2, MintedStays DEF Minted
<1> QED BY <1>1, <1>2, <1>3 DEF Minted

\* A call that starts is about a press somebody made.
LEMMA NewCallIsMinted ==
    ASSUME TypeOK, AnswersAreTrue, CallsAreMinted, [Next]_vars,
           NEW w \in Workers, NEW k \in Presses, NEW from, Call(w, k, from), saleOf'[k] # NoSale
    PROVE  CallsAreMinted'
<1> SUFFICES ASSUME NEW v \in Workers, req'[v].phase # "idle" PROVE Minted(req[v].press)'
  BY DEF CallsAreMinted
<1>1. req'[v] = IF v = w THEN [phase |-> "arrived", press |-> k, from |-> from] ELSE req[v]
  BY DEF Call, TypeOK
<1>2. CASE v = w
  BY <1>1, <1>2 DEF Minted
<1>3. CASE v # w
  <2>1. req[v].press \in Presses /\ Minted(req[v].press)
    BY <1>1, <1>3 DEF AnswersAreTrue, CallsAreMinted
  <2> QED BY <1>1, <1>3, <2>1, MintedStays DEF Minted
<1> QED BY <1>2, <1>3

QueueInv == ReplayInv /\ AnswersAreTrue /\ CallsAreMinted

LEMMA CallsStayMinted == ASSUME QueueInv, [Next]_vars PROVE CallsAreMinted'
<1>a. /\ TypeOK /\ AnswersAreTrue /\ CallsAreMinted
      /\ \A w \in Workers : req[w] \in Requests
      /\ batch \subseteq pending /\ StoredAreMinted /\ pending \subseteq Presses
  BY DEF QueueInv, ReplayInv, BatchIsOldest, TypeOK
<1>b. ASSUME \A w \in Workers : \/ req'[w] = req[w]
                                \/ req'[w].phase = "idle"
                                \/ req[w].phase # "idle" /\ req'[w].press = req[w].press
      PROVE  CallsAreMinted'
  <2>1. ASSUME NEW w \in Workers
        PROVE  req'[w].phase = "idle" \/ (req[w].phase # "idle" /\ req'[w].press = req[w].press)
    BY <1>b
  <2> QED BY <1>a, <2>1, OldCallsAreMinted
<1>1. ASSUME NEW w \in Workers, SendNext(w) PROVE CallsAreMinted'
  <2>1. PICK k \in batch : Call(w, k, "sync")
    BY <1>1 DEF SendNext
  <2>2. k \in Presses /\ saleOf'[k] # NoSale
    BY <1>1, <1>a DEF SendNext, client, StoredAreMinted, Minted
  <2> QED BY <1>a, <2>1, <2>2, NewCallIsMinted
<1>2. ASSUME NEW s \in Sales, NEW k \in Presses, NEW w \in Workers, PayOnline(s, k, w)
      PROVE  CallsAreMinted'
  <2>1. Call(w, k, "dialog") /\ saleOf' = [saleOf EXCEPT ![k] = s]
    BY <1>2 DEF PayOnline
  <2>2. saleOf'[k] # NoSale
    BY <1>a, <2>1, OfflineBillingAssumption DEF TypeOK
  <2> QED BY <1>a, <2>1, <2>2, NewCallIsMinted
<1>3. ASSUME NEW w \in Workers, Read(w) \/ Commit(w) \/ Refuse(w) PROVE CallsAreMinted'
  <2>1. req[w].phase # "idle"
    BY <1>3 DEF Read, Commit, Refuse
  <2>2. \E p \in {"found", "new", "ok", "failed"} :
           \/ req' = [req EXCEPT ![w].phase = p]
           \/ req' = [req EXCEPT ![w] = Idle]
    BY <1>3, <1>a DEF Read, Commit, Refuse, Ended, TypeOK
  <2>3. ASSUME NEW v \in Workers
        PROVE  \/ req'[v] = req[v]
               \/ req'[v].phase = "idle"
               \/ req[v].phase # "idle" /\ req'[v].press = req[v].press
    BY <1>a, <2>1, <2>2 DEF Idle, Requests, TypeOK
  <2> QED BY <1>b, <2>3
<1>4. ASSUME NEW w \in Workers, SyncAnswered(w) \/ DialogAnswered(w) PROVE CallsAreMinted'
  <2>1. req' = [req EXCEPT ![w] = Idle]
    BY <1>4 DEF SyncAnswered, DialogAnswered
  <2>2. \A v \in Workers : req'[v] = req[v] \/ req'[v] = Idle
    BY <1>a, <2>1 DEF TypeOK
  <2> QED BY <1>b, <2>2, IdleIsRequest
<1>5. ASSUME NEW W \in SUBSET Workers, GiveUp(W) PROVE CallsAreMinted'
  <2>1. ASSUME NEW v \in Workers
        PROVE  \/ req'[v] = req[v]
               \/ req'[v].phase = "idle"
               \/ req[v].phase # "idle" /\ req'[v].press = req[v].press
    <3>1. req'[v] = IF v \in W THEN Abandoned(req[v]) ELSE req[v]
      BY <1>5 DEF GiveUp
    <3>2. Abandoned(req[v]) = Idle \/ Abandoned(req[v]).press = req[v].press
      BY <1>a DEF Abandoned, Requests
    <3>3. req[v].phase = "idle" => Abandoned(req[v]).phase = "idle"
      BY <1>a DEF Abandoned, Requests
    <3> QED BY <3>1, <3>2, <3>3, IdleIsRequest
  <2> QED BY <1>b, <2>1
<1>6. CASE UNCHANGED req
  BY <1>b, <1>6
<1>7. CASE (\E w \in Workers : LoseAnswer(w)) \/ CloseTab
  <2>1. \E W \in SUBSET Workers : GiveUp(W)
    BY <1>7 DEF LoseAnswer, CloseTab
  <2> QED BY <1>5, <2>1
<1>8. CASE \/ EndSync \/ SendFails \/ Retry \/ BackgroundSync \/ OpenTab \/ LoadBundle
           \/ GoOnline \/ GoOffline \/ UNCHANGED vars
           \/ \E k \in Presses : CancelInvoice(k)
           \/ \E s \in Sales, k \in Presses : PayOffline(s, k)
  BY <1>6, <1>8 DEF EndSync, SendFails, Retry, BackgroundSync, OpenTab, LoadBundle, GoOnline,
     GoOffline, vars, CancelInvoice, PayOffline, client
<1> QED
  BY <1>1, <1>2, <1>3, <1>4, <1>7, <1>8 DEF Next, Browser, Server, Answers

THEOREM QueueIsSound == Spec => []QueueInv
<1>1. Init => CallsAreMinted
  BY IdleIsRequest DEF Init, CallsAreMinted
<1>2. ReplayInv /\ AnswersAreTrue /\ CallsAreMinted /\ [Next]_vars => CallsAreMinted'
  BY CallsStayMinted DEF QueueInv
<1>3. KeptInv => AnswersAreTrue
  BY DEF KeptInv
<1> QED BY <1>1, <1>2, <1>3, SalesAreKept, ReplayIsOrdered, PTL DEF Spec, QueueInv

\* How a step maps: what is billed, and what is minted.
LEMMA CommitBills ==
    ASSUME QueueInv, NEW w \in Workers, Commit(w)
    PROVE  \/ DQ!Bill(req[w].press) /\ req[w].press \in Presses
           \/ UNCHANGED DQ!vars
<1> DEFINE k == req[w].press
<1>a. live \in [Presses -> Nat] /\ cancelled \in [Presses -> Nat]
  BY DEF QueueInv, ReplayInv, TypeOK
<1>1. k \in Presses /\ Minted(k)
  BY DEF Commit, QueueInv, AnswersAreTrue, CallsAreMinted
<1>2. UNCHANGED <<saleOf, pending, cancelled>>
  BY DEF Commit, client
<1>3. UNCHANGED {j \in Presses : Minted(j)}
  BY <1>2 DEF Minted
<1>4. CASE UNCHANGED live
  <2>1. UNCHANGED {j \in Presses : Billed(j)}
    BY <1>2, <1>4 DEF Billed
  <2> QED BY <1>2, <1>3, <2>1 DEF DQ!vars
<1>5. CASE live' = [live EXCEPT ![k] = @ + 1]
  <2>1. \A j \in Presses : Billed(j)' <=> Billed(j) \/ j = k
    BY <1>a, <1>1, <1>2, <1>5 DEF Billed
  <2>2. {j \in Presses : Billed(j)}' = {j \in Presses : Billed(j)} \cup {k}
    BY <1>1, <2>1
  <2> QED BY <1>1, <1>2, <1>3, <2>2 DEF DQ!Bill
<1> QED BY <1>4, <1>5 DEF Commit

LEMMA PressIsNewest ==
    ASSUME QueueInv, NEW k \in Presses, Fresh(k), NEW s \in Sales,
           saleOf' = [saleOf EXCEPT ![k] = s]
    PROVE  /\ k \notin {j \in Presses : Minted(j)}
           /\ \A j \in {i \in Presses : Minted(i)} : j < k
           /\ {j \in Presses : Minted(j)}' = {j \in Presses : Minted(j)} \cup {k}
<1>1. ASSUME NEW j \in Presses, Minted(j) PROVE j < k
  BY <1>1 DEF Fresh, IdsInOrder, Presses, QueueInv, ReplayInv
<1>2. \A j \in Presses : Minted(j)' <=> Minted(j) \/ j = k
  BY OfflineBillingAssumption DEF Minted, QueueInv, ReplayInv, TypeOK
<1> QED BY <1>1, <1>2 DEF Fresh

\* The answer that takes a sale out of the store is about its oldest, and true.
LEMMA AnswerTakes ==
    ASSUME QueueInv, NEW w \in Workers, SyncAnswered(w)
    PROVE  \/ DQ!Take(req[w].press) /\ req[w].press \in Presses
           \/ UNCHANGED DQ!vars
<1> DEFINE k == req[w].press
<1>1. UNCHANGED <<saleOf, live, cancelled>>
  BY DEF SyncAnswered, invoices
<1>2. UNCHANGED {j \in Presses : Minted(j)} /\ UNCHANGED {j \in Presses : Billed(j)}
  BY <1>1 DEF Minted, Billed
<1>3. CASE UNCHANGED pending
  BY <1>2, <1>3 DEF DQ!vars
<1>4. CASE Done(req[w].phase) /\ pending' = pending \ {k}
  <2>1. w \in Waiting("sync")
    BY DEF SyncAnswered, Waiting
  <2>2. k \in batch /\ First(k) /\ batch \subseteq pending /\ pending \subseteq Presses
    BY <2>1 DEF QueueInv, ReplayInv, OneReplay, BatchIsOldest, TypeOK
  <2>3. Billed(k)
    BY <1>4 DEF Done, QueueInv, AnswersAreTrue
  <2> HIDE DEF k
  <2>4. ASSUME NEW j \in pending \ {k} PROVE k < j
    <3>a. k \in Int /\ j \in Int /\ j # k
      BY <2>2, OfflineBillingAssumption DEF Presses
    <3>1. CASE j \in batch
      <4>1. k <= j
        BY <2>2, <3>1 DEF First
      <4> QED BY <3>a, <4>1
    <3>2. CASE j \notin batch
      BY <2>2, <2>4, <3>2 DEF QueueInv, ReplayInv, BatchIsOldest
    <3> QED BY <3>1, <3>2
  <2>5. DQ!Take(k) /\ k \in Presses
    BY <1>2, <1>4, <2>2, <2>3, <2>4 DEF DQ!Take, DQ!Oldest
  <2> QED BY <2>5 DEF k
<1> QED BY <1>3, <1>4 DEF SyncAnswered

LEMMA QueueStep == ASSUME QueueInv, [Next]_vars PROVE [DQ!Next]_(DQ!vars)
<1>1. ASSUME UNCHANGED <<saleOf, pending, invoices>> PROVE UNCHANGED DQ!vars
  BY <1>1 DEF DQ!vars, Minted, Billed, invoices
<1>2. ASSUME NEW k \in Presses, CancelInvoice(k) PROVE UNCHANGED DQ!vars
  <2>1. live \in [Presses -> Nat] /\ cancelled \in [Presses -> Nat]
    BY DEF QueueInv, ReplayInv, TypeOK
  <2>2. \A j \in Presses : Billed(j)' <=> Billed(j)
    BY <1>2, <2>1 DEF CancelInvoice, Billed
  <2>3. UNCHANGED <<saleOf, pending>>
    BY <1>2 DEF CancelInvoice, client
  <2> QED BY <2>2, <2>3 DEF DQ!vars, Minted
<1>3. ASSUME NEW w \in Workers, Commit(w) PROVE [DQ!Next]_(DQ!vars)
  BY <1>3, CommitBills DEF DQ!Next
<1>4. ASSUME NEW w \in Workers, SyncAnswered(w) PROVE [DQ!Next]_(DQ!vars)
  BY <1>4, AnswerTakes DEF DQ!Next
<1>5. ASSUME NEW s \in Sales, NEW k \in Presses, PayOffline(s, k) PROVE DQ!Put(k)
  <2>1. /\ Fresh(k) /\ saleOf' = [saleOf EXCEPT ![k] = s]
        /\ pending' = pending \cup {k} /\ UNCHANGED <<live, cancelled>>
    BY <1>5 DEF PayOffline, invoices
  <2>2. UNCHANGED {j \in Presses : Billed(j)}
    BY <2>1 DEF Billed
  <2> QED BY <2>1, <2>2, PressIsNewest DEF DQ!Put, DQ!Newest
<1>6. ASSUME NEW s \in Sales, NEW k \in Presses, NEW w \in Workers, PayOnline(s, k, w)
      PROVE  DQ!Mint(k)
  <2>1. /\ Fresh(k) /\ saleOf' = [saleOf EXCEPT ![k] = s]
        /\ UNCHANGED <<pending, live, cancelled>>
    BY <1>6 DEF PayOnline, invoices
  <2>2. UNCHANGED {j \in Presses : Billed(j)}
    BY <2>1 DEF Billed
  <2> QED BY <2>1, <2>2, PressIsNewest DEF DQ!Mint, DQ!Newest
<1>7. CASE \/ EndSync \/ SendFails \/ Retry \/ BackgroundSync \/ OpenTab \/ LoadBundle
           \/ GoOnline \/ GoOffline \/ CloseTab \/ UNCHANGED vars
           \/ \E w \in Workers : SendNext(w) \/ Read(w) \/ DialogAnswered(w) \/ LoseAnswer(w)
                                 \/ Refuse(w)
  <2>1. UNCHANGED <<saleOf, pending, invoices>>
    BY <1>7 DEF EndSync, SendFails, Retry, BackgroundSync, OpenTab, LoadBundle, GoOnline,
       GoOffline, CloseTab, vars, SendNext, Read, DialogAnswered, LoseAnswer, Refuse, client,
       invoices
  <2> QED BY <1>1, <2>1
<1> QED
  BY <1>2, <1>3, <1>4, <1>5, <1>6, <1>7 DEF Next, Browser, Server, Answers, DQ!Next

LEMMA InitQueue == ASSUME Init PROVE DQ!Init
  BY DEF Init, Minted, Billed, DQ!Init

\* The browser's store, the replay and the server together implement the
\* durable queue: oldest first, out only when billed, billed only when paid.
THEOREM StoreRefines == Spec => ImplementsDurableQueue
<1> QED
  BY QueueIsSound, QueueStep, InitQueue, PTL DEF Spec, ImplementsDurableQueue, DQ!Spec

=============================================================================
