--------------------------- MODULE OfflineBilling ---------------------------
(***************************************************************************)
(* Taking payment with and without a connection: the payment dialog, the   *)
(* pending_invoices store of the browser, SyncService which replays it,    *)
(* and the server's two ways to create an invoice.                         *)
(*                                                                         *)
(* Every press of "Confirm Payment" mints a request id (_gen_uuid), so a   *)
(* press is its id here, a number; the store keeps presses in their order. *)
(***************************************************************************)
EXTENDS Integers, FiniteSets

CONSTANTS
    Sales,        \* carts that are paid once
    NoSale,
    Refusable,    \* sales the server may refuse (stock is gone, till is stale)
    Workers,      \* web workers of the server
    MaxPresses,   \* bound on presses of "Confirm Payment"
    MaxTroubles   \* bound on lost connections and closed tabs

ASSUME OfflineBillingAssumption ==
    /\ NoSale \notin Sales /\ Refusable \subseteq Sales
    /\ IsFiniteSet(Workers)
    /\ MaxPresses \in Nat /\ MaxTroubles \in Nat

Presses == 1..MaxPresses

VARIABLES
    online,     \* navigator.onLine
    troubles,   \* times the connection was lost or the tab closed
    tab,        \* "closed", "loading" (page without cur_pos) or "ready"
    tag,        \* a background sync is registered with the service worker
    timer,      \* the retry of sync_pending is scheduled
    cart,       \* sale -> "open", "paying" (the dialog waits) or "done"
    saleOf,     \* press -> its sale, NoSale when there was no such press
    pending,    \* pending_invoices, a set of presses
    syncing,    \* SyncService._syncing
    batch,      \* what _sync_batch still has to send
    req,        \* worker -> the request it serves
    live,       \* press -> number of its invoices that are not cancelled
    cancelled,  \* press -> number of its cancelled invoices
    overtaken   \* press -> calls given up while the server still served them

vars == <<online, troubles, tab, tag, timer, cart, saleOf, pending, syncing, batch,
          req, live, cancelled, overtaken>>
client == <<tab, tag, timer, cart, saleOf, pending, syncing, batch>>
invoices == <<live, cancelled>>

\* from: who waits for the answer; "nobody" once the browser gave up.
Idle == [phase |-> "idle", press |-> 0, from |-> "nobody"]
Requests == [phase : {"idle", "arrived", "found", "new", "ok", "failed"},
             press : 0..MaxPresses, from : {"nobody", "sync", "dialog"}]

TypeOK ==
    /\ online \in BOOLEAN /\ troubles \in 0..MaxTroubles
    /\ tab \in {"closed", "loading", "ready"}
    /\ tag \in BOOLEAN /\ timer \in BOOLEAN /\ syncing \in BOOLEAN
    /\ cart \in [Sales -> {"open", "paying", "done"}]
    /\ saleOf \in [Presses -> Sales \cup {NoSale}]
    /\ pending \subseteq Presses /\ batch \subseteq Presses
    /\ req \in [Workers -> Requests]
    /\ \A w \in Workers : req[w].phase \in {"ok", "failed"} => req[w].from # "nobody"
    /\ live \in [Presses -> Nat] /\ cancelled \in [Presses -> Nat]
    /\ overtaken \in [Presses -> Nat]

Init ==
    /\ online = TRUE /\ troubles = 0
    /\ tab = "ready" /\ tag = FALSE /\ timer = FALSE
    /\ cart = [s \in Sales |-> "open"]
    /\ saleOf = [k \in Presses |-> NoSale]
    /\ pending = {} /\ syncing = FALSE /\ batch = {}
    /\ req = [w \in Workers |-> Idle]
    /\ live = [k \in Presses |-> 0] /\ cancelled = [k \in Presses |-> 0]
    /\ overtaken = [k \in Presses |-> 0]

Minted(k) == saleOf[k] # NoSale
\* The id the next press gets.
Fresh(k) == ~Minted(k) /\ \A j \in Presses : j < k => Minted(j)

Waiting(from) == {w \in Workers : req[w].from = from}
Call(w, k, from) ==
    req' = [req EXCEPT ![w] = [phase |-> "arrived", press |-> k, from |-> from]]

-----------------------------------------------------------------------------
(* SyncService                                                             *)

\* sync_pending: the flag is taken and the store is read, unless a replay
\* runs or there is no connection.
SyncPending(connected) ==
    IF syncing \/ ~connected THEN UNCHANGED <<syncing, batch>>
    ELSE syncing' = TRUE /\ batch' = pending

\* _sync_batch sends one invoice at a time, in the order they were queued.
Last(k) == \A j \in batch : j <= k
First(k) == \A j \in batch : k <= j
SendNext(w) ==
    /\ syncing /\ online /\ Waiting("sync") = {} /\ req[w] = Idle
    /\ \E k \in batch : First(k) /\ Call(w, k, "sync")
    /\ UNCHANGED <<online, troubles, client, invoices, overtaken>>

EndSync ==
    /\ syncing /\ batch = {} /\ Waiting("sync") = {}
    /\ syncing' = FALSE
    /\ UNCHANGED <<online, troubles, tab, tag, timer, cart, saleOf, pending, batch,
                   req, invoices, overtaken>>

\* The replay stops at the first error and is tried again in 30 seconds.
SyncFails == syncing' = FALSE /\ batch' = {} /\ timer' = TRUE

\* frappe.call without a connection fails at once.
SendFails ==
    /\ syncing /\ ~online /\ batch # {} /\ Waiting("sync") = {}
    /\ SyncFails
    /\ UNCHANGED <<online, troubles, tab, tag, cart, saleOf, pending, req, invoices, overtaken>>

Retry ==
    /\ timer /\ tab = "ready"
    /\ timer' = FALSE
    /\ SyncPending(online)
    /\ UNCHANGED <<online, troubles, tab, tag, cart, saleOf, pending, req, invoices, overtaken>>

\* The service worker's sync event: it tells the open pages, once, and a
\* page that is still loading does not listen.
BackgroundSync ==
    /\ tag /\ online
    /\ tag' = FALSE
    /\ IF tab = "ready" THEN SyncPending(TRUE) ELSE UNCHANGED <<syncing, batch>>
    /\ UNCHANGED <<online, troubles, tab, timer, cart, saleOf, pending, req, invoices, overtaken>>

-----------------------------------------------------------------------------
(* The payment dialog                                                      *)

\* queue_invoice: the sale is stored, and the till is ready for the next.
PayOffline(s, k) ==
    /\ tab = "ready" /\ ~online /\ cart[s] = "open" /\ Fresh(k)
    /\ Waiting("dialog") = {}
    /\ saleOf' = [saleOf EXCEPT ![k] = s]
    /\ pending' = pending \cup {k}
    /\ cart' = [cart EXCEPT ![s] = "done"]
    /\ tag' = TRUE
    /\ UNCHANGED <<online, troubles, tab, timer, syncing, batch, req, invoices, overtaken>>

PayOnline(s, k, w) ==
    /\ tab = "ready" /\ online /\ cart[s] = "open" /\ Fresh(k)
    /\ Waiting("dialog") = {} /\ req[w] = Idle
    /\ saleOf' = [saleOf EXCEPT ![k] = s]
    /\ cart' = [cart EXCEPT ![s] = "paying"]
    /\ Call(w, k, "dialog")
    /\ UNCHANGED <<online, troubles, tab, tag, timer, pending, syncing, batch, invoices, overtaken>>

-----------------------------------------------------------------------------
(* The server                                                              *)

\* The look-up of an invoice with the request's id that is not cancelled.
FindsNothing(k) == FALSE
Finds(k) == live[k] > 0

\* The request reads, on the snapshot of its transaction.
Read(w) ==
    /\ req[w].phase = "arrived"
    /\ req' = [req EXCEPT ![w].phase = IF Finds(req[w].press) THEN "found" ELSE "new"]
    /\ UNCHANGED <<online, troubles, client, invoices, overtaken>>

\* A request whose caller is gone ends without a trace.
Ended(w, phase) == IF req[w].from = "nobody" THEN Idle ELSE [req[w] EXCEPT !.phase = phase]

Commit(w) ==
    /\ req[w].phase \in {"found", "new"}
    /\ live' = IF req[w].phase = "found" THEN live ELSE [live EXCEPT ![req[w].press] = @ + 1]
    /\ req' = [req EXCEPT ![w] = Ended(w, "ok")]
    /\ UNCHANGED <<online, troubles, client, cancelled, overtaken>>

Refuse(w) ==
    /\ req[w].phase = "new" /\ saleOf[req[w].press] \in Refusable
    /\ req' = [req EXCEPT ![w] = Ended(w, "failed")]
    /\ UNCHANGED <<online, troubles, client, invoices, overtaken>>

\* An invoice is cancelled at the desk.
CancelInvoice(k) ==
    /\ live[k] > 0
    /\ live' = [live EXCEPT ![k] = @ - 1]
    /\ cancelled' = [cancelled EXCEPT ![k] = @ + 1]
    /\ UNCHANGED <<online, troubles, client, req, overtaken>>

-----------------------------------------------------------------------------
(* Answers                                                                 *)

DoneAnyway(phase) == phase \in {"ok", "failed"}
Done(phase) == phase = "ok"

\* The replay's answer: the invoice leaves the store when it was created or
\* found, and else the replay stops.
SyncAnswered(w) ==
    LET k == req[w].press
    IN  /\ req[w].from = "sync" /\ online /\ req[w].phase \in {"ok", "failed"}
        /\ req' = [req EXCEPT ![w] = Idle]
        /\ IF Done(req[w].phase)
           THEN pending' = pending \ {k} /\ batch' = batch \ {k} /\ UNCHANGED <<syncing, timer>>
           ELSE SyncFails /\ UNCHANGED pending
        /\ UNCHANGED <<online, troubles, tab, tag, cart, saleOf, invoices, overtaken>>

\* The dialog's answer: after an error the cashier may press again, which
\* mints another id.
DialogAnswered(w) ==
    LET s == saleOf[req[w].press]
    IN  /\ req[w].from = "dialog" /\ online /\ req[w].phase \in {"ok", "failed"}
        /\ req' = [req EXCEPT ![w] = Idle]
        /\ cart' = [cart EXCEPT ![s] = IF req[w].phase = "ok" THEN "done" ELSE "open"]
        /\ UNCHANGED <<online, troubles, tab, tag, timer, saleOf, pending, syncing, batch,
                       invoices, overtaken>>

\* What is left of a request the browser no longer waits for.
AbandonedKept(r) == [r EXCEPT !.from = "nobody"]
Abandoned(r) == IF r.phase \in {"ok", "failed"} THEN Idle ELSE [r EXCEPT !.from = "nobody"]
Busy(w) == req[w].phase \in {"arrived", "found", "new"}
GiveUp(W) ==
    /\ req' = [w \in Workers |-> IF w \in W THEN Abandoned(req[w]) ELSE req[w]]
    /\ overtaken' = [k \in Presses |->
                       overtaken[k] + Cardinality({w \in W : Busy(w) /\ req[w].press = k})]

\* A connection breaks before the answer: the browser sees an error, the
\* server, if it is still busy, does not notice.
LoseAnswer(w) ==
    /\ ~online /\ req[w].from # "nobody"
    /\ GiveUp({w})
    /\ IF req[w].from = "sync" THEN SyncFails /\ UNCHANGED cart
       ELSE /\ cart' = [cart EXCEPT ![saleOf[req[w].press]] = "open"]
            /\ UNCHANGED <<syncing, batch, timer>>
    /\ UNCHANGED <<online, troubles, tab, tag, saleOf, pending, invoices>>

-----------------------------------------------------------------------------
(* The connection and the page                                             *)

GoOffline ==
    /\ online /\ troubles < MaxTroubles
    /\ online' = FALSE /\ troubles' = troubles + 1
    /\ UNCHANGED <<client, req, invoices, overtaken>>

\* The "online" event starts a replay.
GoOnline ==
    /\ ~online
    /\ online' = TRUE
    /\ IF tab = "ready" THEN SyncPending(TRUE) ELSE UNCHANGED <<syncing, batch>>
    /\ UNCHANGED <<troubles, tab, tag, timer, cart, saleOf, pending, req, invoices, overtaken>>

\* The tab is closed or reloaded: only the store survives.  A cart that was
\* being paid is rung up again.
CloseTab ==
    /\ tab # "closed" /\ troubles < MaxTroubles
    /\ troubles' = troubles + 1
    /\ tab' = "closed" /\ timer' = FALSE /\ syncing' = FALSE /\ batch' = {}
    /\ cart' = [s \in Sales |-> IF cart[s] = "paying" THEN "open" ELSE cart[s]]
    /\ GiveUp({w \in Workers : req[w].from # "nobody"})
    /\ UNCHANGED <<online, tag, saleOf, pending, invoices>>

\* ch_pos_app.js registers the background sync, then loads the bundle.
OpenTab ==
    /\ tab = "closed"
    /\ tab' = "loading" /\ tag' = TRUE
    /\ UNCHANGED <<online, troubles, timer, cart, saleOf, pending, syncing, batch,
                   req, invoices, overtaken>>

LoadBundle ==
    /\ tab = "loading"
    /\ tab' = "ready"
    /\ UNCHANGED <<online, troubles, tag, timer, cart, saleOf, pending, syncing, batch,
                   req, invoices, overtaken>>

-----------------------------------------------------------------------------

Browser ==
    \/ EndSync \/ SendFails \/ Retry \/ BackgroundSync
    \/ OpenTab \/ LoadBundle
    \/ \E w \in Workers : SendNext(w)
Server == \E w \in Workers : Read(w) \/ Commit(w)
Answers == \E w \in Workers : SyncAnswered(w) \/ DialogAnswered(w)

Next ==
    \/ Browser \/ Server \/ Answers
    \/ GoOnline \/ GoOffline \/ CloseTab
    \/ \E w \in Workers : LoseAnswer(w) \/ Refuse(w)
    \/ \E k \in Presses : CancelInvoice(k)
    \/ \E s \in Sales, k \in Presses :
          \/ PayOffline(s, k)
          \/ \E w \in Workers : PayOnline(s, k, w)

Spec == Init /\ [][Next]_vars

\* The browser and the server go on, the connection comes back, and what the
\* server answers arrives while the connection holds.  Nobody has to pay,
\* to lose a connection or to close a tab.
FairSpec ==
    /\ Spec
    /\ WF_vars(EndSync) /\ WF_vars(SendFails) /\ WF_vars(Retry) /\ WF_vars(BackgroundSync)
    /\ WF_vars(OpenTab) /\ WF_vars(LoadBundle) /\ WF_vars(GoOnline)
    /\ \A w \in Workers :
          /\ WF_vars(SendNext(w))
          /\ WF_vars(Read(w))
          /\ WF_vars(Commit(w))
          /\ WF_vars(SyncAnswered(w))
          /\ WF_vars(DialogAnswered(w))

=============================================================================
