---------------------------- MODULE PreBookings -----------------------------
(***************************************************************************)
(* Pre-bookings of one serialized item at one store: Sales Orders that     *)
(* promise units by IMEI, the advances taken on them, and the bills that   *)
(* take units away, their own or a walk-in's.                              *)
(*                                                                         *)
(* One action is one committed request, except the edit of a promise       *)
(* (tagging or swapping an IMEI), which reads in one step and writes in    *)
(* another; the framework refuses the write when the order itself was      *)
(* changed in between, and only then.                                      *)
(*                                                                         *)
(* A definition directly before another one that it resembles is a mutant. *)
(***************************************************************************)
EXTENDS Integers, FiniteSets, FiniteSetsExt

CONSTANTS
    PreOrders,   \* pre-booking Sales Orders, each of its own customer
    Imeis,       \* serial numbers of the item
    PreSales,    \* bills
    OrderQty,    \* units on an order
    Advances     \* how an advance may start: "none", "draft" or "posted"

ASSUME PreBookingsAssumption ==
    /\ OrderQty \in Nat \ {0}
    /\ IsFiniteSet(Imeis) /\ IsFiniteSet(PreOrders) /\ IsFiniteSet(PreSales)
    /\ Advances \subseteq {"none", "draft", "posted"}
    /\ "walk-in" \notin PreOrders

VARIABLES
    preOrder,  \* order -> the Sales Order with its advance
    lifecycle, \* IMEI -> CH Serial Lifecycle status
    preSale,   \* bill -> order it bills, units, units returned
    editing,   \* order -> the edit of a promise being made
    revived    \* ghost: IMEIs claimed while another claim on them was asleep

preVars == <<preOrder, lifecycle, preSale, editing, revived>>

WalkIn == "walk-in"
NoImei == "none"
NoEdit == [old |-> NoImei, new |-> NoImei, heldBy |-> {}]
NoOrder == [status |-> "none", reserve |-> FALSE, tagged |-> {}, lapsed |-> FALSE,
            reserved |-> 0, billed |-> 0, advance |-> "none", afterwards |-> "none"]
NoSale == [status |-> "none", on |-> WalkIn, units |-> {}, returned |-> {}]

PreInit ==
    /\ preOrder = [o \in PreOrders |-> NoOrder]
    /\ lifecycle = [u \in Imeis |-> "InStock"]
    /\ preSale = [s \in PreSales |-> NoSale]
    /\ editing = [o \in PreOrders |-> NoEdit]
    /\ revived = {}

-----------------------------------------------------------------------------
(* What the orders promise                                                 *)

InStock == {u \in Imeis : lifecycle[u] = "InStock"}
OnTheBooks(o) == preOrder[o].status \in {"open", "OnHold"}
Completed(o) == preOrder[o].billed = OrderQty
Open(o) == preOrder[o].status = "open" /\ ~Completed(o)

\* _get_blocked_serials_for_sale: the orders that hold the IMEI.
Holds(o, u) ==
    /\ Open(o)
    /\ preOrder[o].reserve /\ ~preOrder[o].lapsed
    /\ u \in preOrder[o].tagged
HoldersOf(u) == {o \in PreOrders : Holds(o, u)}
HeldElsewhere(o, u) == HoldersOf(u) \ {o} # {}

\* Ghost: IMEIs of a new claim on which another order's claim is asleep, or
\* was not there yet when the new one was judged.
Asleep(o, u) == OnTheBooks(o) /\ u \in preOrder[o].tagged /\ ~Holds(o, u)
ClaimsOver(o, us, judged) ==
    revived \cup {u \in us : \E p \in PreOrders \ {o} :
                              Asleep(p, u) \/ (Holds(p, u) /\ p \notin judged)}

\* get_available_qty_to_reserve: stock less the reservations.
Available ==
    Cardinality(InStock) - MapThenSumSet(LAMBDA o : preOrder[o].reserved, PreOrders)

-----------------------------------------------------------------------------
(* Making a pre-booking                                                    *)

\* _pick_available_serials_for_prebooking
Picks(given) ==
    LET pool == {u \in InStock \ given : HoldersOf(u) = {}}
    IN  kSubset(Min({OrderQty - Cardinality(given), Cardinality(pool)}), pool)

\* No unit may be on another order that is submitted and not over.
NotTaggedTwice(us) ==
    \A u \in us, p \in PreOrders :
        ~(OnTheBooks(p) /\ ~Completed(p) /\ u \in preOrder[p].tagged)

\* The advance is taken on a submitted order; its Payment Entry stays a draft
\* when Accounts must approve it.
AdvanceFor(status, paid) == IF status = "open" THEN paid ELSE "none"

\* create_pre_booking.  An order short of units or of stock is kept without a
\* reservation; so is one whose reservation fails on submit ("relaxed").
CreatePreBooking(o, given, reserve, fate, paid) ==
    /\ preOrder[o].status = "none"
    /\ Cardinality(given) <= OrderQty /\ (fate = "relaxed" => reserve)
    /\ \E picked \in IF reserve THEN Picks(given) ELSE {{}} :
          LET tags == given \cup picked
              short == Cardinality(tags) < OrderQty \/ Available < OrderQty
              kept == reserve /\ ~short /\ fate # "relaxed"
              status == IF fate = "draft" THEN "draft" ELSE "open"
          IN  /\ NotTaggedTwice(tags)
              /\ preOrder' = [preOrder EXCEPT ![o] = [NoOrder EXCEPT
                    !.status = status, !.reserve = kept,
                    !.tagged = tags,
                    !.reserved = IF status = "open" /\ kept THEN OrderQty ELSE 0,
                    !.advance = AdvanceFor(status, paid)]]
              /\ revived' = IF status = "open" THEN ClaimsOver(o, tags, PreOrders) ELSE revived
    /\ UNCHANGED <<lifecycle, preSale, editing>>

\* Outside the source: Accounts submit the draft of an advance.
ApproveAdvance(o) ==
    /\ preOrder[o].advance = "draft"
    /\ preOrder' = [preOrder EXCEPT ![o].advance = "posted"]
    /\ UNCHANGED <<lifecycle, preSale, editing, revived>>

-----------------------------------------------------------------------------
(* Editing the promise                                                     *)

\* _open_prebook_for_serial_edit
Editable(o) == Open(o) /\ preOrder[o].billed = 0

\* tag_prebook_reserved_serial (no old IMEI) and reassign_prebook_reserved_serial,
\* up to the save.
EditUnheld(o, old, new) ==
    /\ new \in InStock \ preOrder[o].tagged
    /\ IF old = NoImei THEN Cardinality(preOrder[o].tagged) < OrderQty
       ELSE old \in preOrder[o].tagged
EditFits(o, old, new) ==
    /\ new \in InStock \ preOrder[o].tagged
    /\ ~HeldElsewhere(o, new)
    /\ IF old = NoImei THEN Cardinality(preOrder[o].tagged) < OrderQty
       ELSE old \in preOrder[o].tagged
CheckEdit(o, old, new) ==
    /\ Editable(o) /\ editing[o] = NoEdit
    /\ EditFits(o, old, new)
    /\ editing' = [editing EXCEPT ![o] =
          [old |-> old, new |-> new, heldBy |-> HoldersOf(new)]]
    /\ UNCHANGED <<preOrder, lifecycle, preSale, revived>>

\* The save.  An order that was changed since drops the edit (Changes).
SaveEdit(o) ==
    LET e == editing[o]
    IN  /\ e # NoEdit
        /\ preOrder' = [preOrder EXCEPT ![o].tagged = (@ \ {e.old}) \cup {e.new}]
        /\ editing' = [editing EXCEPT ![o] = NoEdit]
        /\ revived' = ClaimsOver(o, {e.new}, e.heldBy)
        /\ UNCHANGED <<lifecycle, preSale>>

\* An order written by another request loses the edit in progress.
Changes(os) == editing' = [o \in PreOrders |-> IF o \in os THEN NoEdit ELSE editing[o]]

\* release_prebook_reserved_serial
ReleaseImei(o, u) ==
    /\ Editable(o) /\ u \in preOrder[o].tagged
    /\ preOrder' = [preOrder EXCEPT ![o].tagged = @ \ {u}]
    /\ Changes({o})
    /\ UNCHANGED <<lifecycle, preSale, revived>>

\* Outside the source: the order is put on hold, or taken off it.
HoldOrder(o) ==
    /\ OnTheBooks(o) /\ ~Completed(o)
    /\ preOrder' = [preOrder EXCEPT ![o].status = IF @ = "open" THEN "OnHold" ELSE "open"]
    /\ Changes({o})
    /\ UNCHANGED <<lifecycle, preSale, revived>>

-----------------------------------------------------------------------------
(* The delivery date passes                                                *)

\* The day comes when delivery date and grace are over.
Lapse(o) ==
    /\ OnTheBooks(o) /\ ~preOrder[o].lapsed
    /\ preOrder' = [preOrder EXCEPT ![o].lapsed = TRUE]
    /\ UNCHANGED <<lifecycle, preSale, editing, revived>>

\* release_expired_prebook_reservations: the reservation goes, the tags stay.
ReleaseExpired(o) ==
    /\ Open(o) /\ preOrder[o].reserve /\ preOrder[o].lapsed
    /\ preOrder[o].tagged # {} /\ preOrder[o].reserved > 0
    /\ preOrder' = [preOrder EXCEPT ![o].reserved = 0]
    /\ UNCHANGED <<lifecycle, preSale, editing, revived>>

\* cancel_pre_booking: a draft advance is dropped, a posted one reversed and
\* entered anew, as a draft, as credit or (when a mode is given) as refund.
\* What a cancelled order had tagged is never read again.
AdvanceKeptDraft(o) ==
    IF preOrder[o].advance = "posted" THEN "reversed" ELSE preOrder[o].advance
AdvanceEnded(o) ==
    CASE preOrder[o].advance = "draft" -> "none"
      [] preOrder[o].advance = "posted" -> "reversed"
      [] OTHER -> preOrder[o].advance
CancelPreBooking(o, retain, refundMode) ==
    /\ OnTheBooks(o) /\ preOrder[o].billed = 0
    /\ preOrder' = [preOrder EXCEPT ![o] = [NoOrder EXCEPT
          !.status = "cancelled", !.advance = AdvanceEnded(o),
          !.afterwards = IF preOrder[o].advance # "posted" THEN "none"
                         ELSE IF retain THEN "creditDraft"
                         ELSE IF refundMode THEN "refundDraft" ELSE "none"]]
    /\ Changes({o})
    /\ UNCHANGED <<lifecycle, preSale, revived>>

-----------------------------------------------------------------------------
(* Bills                                                                   *)

\* The gates of create_pos_invoice on an IMEI.  Of several holders the query
\* names the one modified last.
Sellable(on, u) ==
    /\ lifecycle[u] = "InStock"
    /\ HoldersOf(u) = {} \/ (on # WalkIn /\ Holds(on, u))

\* The gate on the order.  Beyond the row, ERPNext refuses to bill too much.
BillableOpen(on, n) == on # WalkIn => Open(on)
Billable(on, n) == on # WalkIn => Open(on) /\ preOrder[on].billed + n <= OrderQty

\* External: what a delivery leaves of the order's reservation.
Remaining(o, n) == Max({0, preOrder[o].reserved - n})

SellLeavingStock(s, on, us) ==
    /\ preSale[s].status = "none" /\ us # {}
    /\ \A u \in us : Sellable(on, u)
    /\ Billable(on, Cardinality(us))
    /\ preSale' = [preSale EXCEPT ![s] = [NoSale EXCEPT !.status = "live", !.on = on, !.units = us]]
    /\ UNCHANGED <<lifecycle, preOrder, editing, revived>>
Sell(s, on, us) ==
    /\ preSale[s].status = "none" /\ us # {}
    /\ \A u \in us : Sellable(on, u)
    /\ Billable(on, Cardinality(us))
    /\ preSale' = [preSale EXCEPT ![s] = [NoSale EXCEPT !.status = "live", !.on = on, !.units = us]]
    /\ lifecycle' = [u \in Imeis |-> IF u \in us THEN "Sold" ELSE lifecycle[u]]
    /\ preOrder' = IF on = WalkIn THEN preOrder
                   ELSE [preOrder EXCEPT ![on].billed = @ + Cardinality(us),
                                         ![on].reserved = Remaining(on, Cardinality(us))]
    /\ Changes({on} \cap PreOrders)
    /\ UNCHANGED revived

\* A return of one unit (update_serial_lifecycle), and its cancellation
\* (_cancel_return_serial_lifecycle; stock refuses it once the unit left).
ReturnUnit(s, u) ==
    /\ preSale[s].status = "live" /\ u \in preSale[s].units \ preSale[s].returned
    /\ preSale' = [preSale EXCEPT ![s].returned = @ \cup {u}]
    /\ lifecycle' = [lifecycle EXCEPT ![u] = IF @ = "Sold" THEN "InStock" ELSE @]
    /\ UNCHANGED <<preOrder, editing, revived>>
CancelReturn(s, u) ==
    /\ u \in preSale[s].returned /\ u \in InStock
    /\ preSale' = [preSale EXCEPT ![s].returned = @ \ {u}]
    /\ lifecycle' = [lifecycle EXCEPT ![u] = "Sold"]
    /\ UNCHANGED <<preOrder, editing, revived>>

\* reverse_serial_lifecycle: the bill is cancelled; the order is owed again.
CancelSaleOnly(s) ==
    /\ preSale[s].status = "live" /\ preSale[s].returned = {}
    /\ preSale' = [preSale EXCEPT ![s] = [NoSale EXCEPT !.status = "cancelled"]]
    /\ lifecycle' = [u \in Imeis |-> IF u \in preSale[s].units THEN "InStock" ELSE lifecycle[u]]
    /\ UNCHANGED <<preOrder, editing, revived>>
CancelSale(s) ==
    LET on == preSale[s].on
        us == preSale[s].units
    IN  /\ preSale[s].status = "live" /\ preSale[s].returned = {}
        /\ preSale' = [preSale EXCEPT ![s] = [NoSale EXCEPT !.status = "cancelled"]]
        /\ lifecycle' = [u \in Imeis |-> IF u \in us THEN "InStock" ELSE lifecycle[u]]
        /\ preOrder' = IF on = WalkIn THEN preOrder
                       ELSE [preOrder EXCEPT ![on].billed = @ - Cardinality(us)]
        /\ Changes({on} \cap PreOrders)
        /\ UNCHANGED revived

-----------------------------------------------------------------------------

PreNext ==
    \/ \E o \in PreOrders :
          \/ \E given \in SUBSET Imeis, reserve \in BOOLEAN,
                fate \in {"submitted", "relaxed", "draft"},
                paid \in Advances :
                CreatePreBooking(o, given, reserve, fate, paid)
          \/ ApproveAdvance(o)
          \/ \E old \in Imeis \cup {NoImei}, new \in Imeis : CheckEdit(o, old, new)
          \/ SaveEdit(o)
          \/ \E u \in Imeis : ReleaseImei(o, u)
          \/ HoldOrder(o)
          \/ Lapse(o)
          \/ ReleaseExpired(o)
          \/ \E retain, refundMode \in BOOLEAN : CancelPreBooking(o, retain, refundMode)
    \/ \E s \in PreSales :
          \/ \E on \in PreOrders \cup {WalkIn}, us \in SUBSET Imeis : Sell(s, on, us)
          \/ \E u \in Imeis : ReturnUnit(s, u) \/ CancelReturn(s, u)
          \/ CancelSale(s)

PreSpec == PreInit /\ [][PreNext]_preVars

-----------------------------------------------------------------------------
(* Properties                                                             *)

PreOrderRows ==
    [status : {"none", "draft", "open", "OnHold", "cancelled"}, reserve : BOOLEAN,
     tagged : SUBSET Imeis, lapsed : BOOLEAN, reserved : 0..OrderQty, billed : 0..OrderQty,
     advance : {"none", "draft", "posted", "reversed"},
     afterwards : {"none", "creditDraft", "refundDraft"}]
PreSaleRows ==
    [status : {"none", "live", "cancelled"}, on : PreOrders \cup {WalkIn},
     units : SUBSET Imeis, returned : SUBSET Imeis]
Edits == [old : Imeis \cup {NoImei}, new : Imeis \cup {NoImei}, heldBy : SUBSET PreOrders]

\* Orders bill no more than was ordered, and every status is one of the code's.
PreTypeOK ==
    /\ preOrder \in [PreOrders -> PreOrderRows]
    /\ lifecycle \in [Imeis -> {"InStock", "Sold"}]
    /\ preSale \in [PreSales -> PreSaleRows]
    /\ \A s \in PreSales : preSale[s].returned \subseteq preSale[s].units
    /\ editing \in [PreOrders -> Edits]
    /\ revived \subseteq Imeis

LiveOn(o) == {s \in PreSales : preSale[s].status = "live" /\ preSale[s].on = o}
UnitsBilled(o) ==
    {x \in PreSales \X Imeis : x[1] \in LiveOn(o) /\ x[2] \in preSale[x[1]].units}
Out(u) == {s \in PreSales : preSale[s].status = "live"
                             /\ u \in preSale[s].units \ preSale[s].returned}

\* A unit is with one customer at most, and its lifecycle says so: Sold while
\* one live bill has it and no return gave it back, In Stock otherwise.
LifecycleFollowsBills ==
    \A u \in Imeis : Cardinality(Out(u)) = IF lifecycle[u] = "Sold" THEN 1 ELSE 0

\* The order counts what its live bills billed, and is never promised more
\* units than it asked for.
OrderCountsBills ==
    \A o \in PreOrders :
        /\ preOrder[o].billed = Cardinality(UnitsBilled(o))
        /\ Cardinality(preOrder[o].tagged) <= OrderQty

\* One IMEI is held for one order, unless a claim was laid on it while
\* another order's was asleep (on hold, lapsed, without reservation, billed)
\* or was being written at the same time.
OneHolder ==
    \A u \in Imeis \ revived : Cardinality(HoldersOf(u)) <= 1

\* A cancelled pre-booking keeps neither a reservation nor a receipt that
\* counts; what follows (credit or refund) is only for what had been posted.
CancelledIsSettled ==
    \A o \in PreOrders :
        preOrder[o].status = "cancelled" =>
            /\ preOrder[o].reserved = 0
            /\ preOrder[o].advance \notin {"draft", "posted"}
            /\ preOrder[o].afterwards # "none" => preOrder[o].advance = "reversed"

\* What was promised, sold, returned and paid in advance agrees on every unit
\* and every order.
PromisesHold ==
    /\ LifecycleFollowsBills
    /\ OrderCountsBills
    /\ OneHolder
    /\ CancelledIsSettled

-----------------------------------------------------------------------------
(* What the code's comments say and a run refutes                          *)

\* "The advance PE is left in place; cancelling the SO frees its allocation so
\* the amount becomes an unallocated customer advance." (pos_api.py:1222)
RetainedAdvanceIsCredit ==
    [][\A o \in PreOrders :
          preOrder[o].afterwards = "none" /\ preOrder'[o].afterwards = "creditDraft"
              => preOrder'[o].advance = "posted"]_preVars

=============================================================================
