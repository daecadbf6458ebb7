----------------------------- MODULE OrderTrail -----------------------------
(***************************************************************************)
(* From a proforma over a pre-booking to the bill, across the tills of one *)
(* store: what a cart remembers of the document it was loaded from, what a *)
(* refresh of the page or a held bill keeps of it, and what the server     *)
(* makes of it.  Goods are told apart by the document they come from.      *)
(*                                                                         *)
(* One action is one committed request, or one act of a till.              *)
(*                                                                         *)
(* A definition directly before another one that it resembles is a mutant. *)
(***************************************************************************)
EXTENDS Integers, FiniteSets, Sequences

CONSTANTS
    Proformas,   \* Quotations made at the till
    Promises,    \* pre-bookings, Sales Orders of one line
    Registers,   \* tills
    MaxTrailBills, \* bound: bills
    Buyers,      \* customers
    Nothing      \* no document, no customer

ASSUME OrderTrailAssumption ==
    /\ MaxTrailBills \in Nat
    /\ Nothing \notin Proformas
    /\ "accessory" \notin Promises

VARIABLES
    proforma,  \* proforma -> status and customer
    promise,   \* pre-booking -> the Sales Order, the proforma of its line, its advance
    tillCart,  \* till -> PosState
    heldCarts, \* till -> held bills
    bills      \* the submitted bills in their order, without accessories

trailVars == <<proforma, promise, tillCart, heldCarts, bills>>

Accessory == "accessory"
Goods == Proformas \cup Promises \cup {Accessory}
NoTillCart == [buyer |-> Nothing, goods |-> {}, source |-> Nothing, order |-> Nothing, advance |-> 0]

TrailInit ==
    /\ proforma = [q \in Proformas |-> [status |-> "none", buyer |-> Nothing]]
    /\ promise = [o \in Promises |-> [status |-> "none", buyer |-> Nothing, of |-> Nothing,
                                      advance |-> 0]]
    /\ tillCart = [t \in Registers |-> NoTillCart]
    /\ heldCarts = [t \in Registers |-> {}]
    /\ bills = <<>>

TrailBills == DOMAIN bills
Billed(o) == \E b \in TrailBills : o \in bills[b].goods
Put(t, new) == tillCart' = [tillCart EXCEPT ![t] = new]

-----------------------------------------------------------------------------
(* Documents                                                               *)

\* create_pos_quotation; nothing is held for it and no advance taken.
MakeProforma(q, buyer) ==
    /\ proforma[q].status = "none"
    /\ proforma' = [proforma EXCEPT ![q] = [status |-> "submitted", buyer |-> buyer]]
    /\ UNCHANGED <<promise, tillCart, heldCarts, bills>>

\* The back office sets a proforma lost unless an order refers to it.
LoseProforma(q) ==
    /\ proforma[q].status = "submitted"
    /\ \A o \in Promises : promise[o].of = q => promise[o].status = "cancelled"
    /\ proforma' = [proforma EXCEPT ![q].status = "lost"]
    /\ UNCHANGED <<promise, tillCart, heldCarts, bills>>

\* The server follows the name of a proforma only to the customer's own.
NamesAny(q, buyer) ==
    IF q # Nothing /\ proforma[q].status # "none" THEN q ELSE Nothing
Names(q, buyer) ==
    IF q # Nothing /\ proforma[q].status # "none" /\ proforma[q].buyer = buyer THEN q ELSE Nothing

\* create_pre_booking, of a proforma or of a cart; any row names the proforma.
\* Its advance is a draft until accounts approves it.
Prebook(o, q, buyer) ==
    /\ promise[o].status = "none"
    /\ promise' = [promise EXCEPT ![o] = [status |-> "open", buyer |-> buyer,
                                          of |-> Names(q, buyer), advance |-> 0]]

PostAdvance(o) ==
    /\ promise[o].status = "open" /\ promise[o].advance = 0 /\ ~Billed(o)
    /\ promise' = [promise EXCEPT ![o].advance = 1]
    /\ UNCHANGED <<proforma, tillCart, heldCarts, bills>>

\* load_quotation_to_cart, also when it has expired.
Loadable(q) == proforma[q].status = "submitted"

PrebookProforma(o, q) ==
    /\ Loadable(q)
    /\ Prebook(o, q, proforma[q].buyer)
    /\ UNCHANGED <<proforma, tillCart, heldCarts, bills>>

PrebookBasket(t, o) ==
    /\ tillCart[t].buyer # Nothing /\ tillCart[t].goods # {}
    /\ tillCart[t].goods \cap Promises = {}
    /\ \E q \in (tillCart[t].goods \cap Proformas) \cup {Nothing} :
         /\ q = Nothing => tillCart[t].goods \cap Proformas = {}
         /\ Prebook(o, q, tillCart[t].buyer)
    /\ Put(t, NoTillCart)
    /\ UNCHANGED <<proforma, heldCarts, bills>>

\* cancel_pre_booking; what becomes of the advance is not of interest here.
CancelPromise(o) ==
    /\ promise[o].status = "open" /\ ~Billed(o)
    /\ promise' = [promise EXCEPT ![o].status = "cancelled", ![o].advance = 0]
    /\ UNCHANGED <<proforma, tillCart, heldCarts, bills>>

-----------------------------------------------------------------------------
(* The till                                                                *)

\* Convert to sale: the cart is replaced and remembers the proforma.
LoadProforma(t, q) ==
    /\ Loadable(q)
    /\ Put(t, [NoTillCart EXCEPT !.buyer = proforma[q].buyer, !.goods = {q}, !.source = q])
    /\ UNCHANGED <<proforma, promise, heldCarts, bills>>

\* load_sales_order_to_cart: with the advance that is posted by now.
LoadPromise(t, o) ==
    /\ promise[o].status = "open" /\ ~Billed(o)
    /\ Put(t, [NoTillCart EXCEPT !.buyer = promise[o].buyer, !.goods = {o}, !.order = o,
                               !.advance = promise[o].advance])
    /\ UNCHANGED <<proforma, promise, heldCarts, bills>>

Ring(t) ==
    /\ Accessory \notin tillCart[t].goods
    /\ Put(t, [tillCart[t] EXCEPT !.goods = @ \cup {Accessory}])
    /\ UNCHANGED <<proforma, promise, heldCarts, bills>>

Unring(t, g) ==
    /\ g \in tillCart[t].goods
    /\ Put(t, [tillCart[t] EXCEPT !.goods = @ \ {g}])
    /\ UNCHANGED <<proforma, promise, heldCarts, bills>>

ChooseBuyer(t, buyer) ==
    /\ buyer # tillCart[t].buyer
    /\ Put(t, [tillCart[t] EXCEPT !.buyer = buyer])
    /\ UNCHANGED <<proforma, promise, heldCarts, bills>>

\* What the browser's store keeps of a cart.
Kept(cart) == [cart EXCEPT !.source = Nothing, !.order = Nothing, !.advance = 0]

\* The page is loaded again.
Refresh(t) ==
    /\ tillCart[t] # Kept(tillCart[t])
    /\ Put(t, Kept(tillCart[t]))
    /\ UNCHANGED <<proforma, promise, heldCarts, bills>>

HoldBill(t) ==
    /\ tillCart[t].goods # {} /\ heldCarts[t] = {}
    /\ heldCarts' = [heldCarts EXCEPT ![t] = {Kept(tillCart[t])}]
    /\ Put(t, NoTillCart)
    /\ UNCHANGED <<proforma, promise, bills>>

ResumeBill(t) ==
    /\ \E cart \in heldCarts[t] : Put(t, cart)
    /\ heldCarts' = [heldCarts EXCEPT ![t] = {}]
    /\ UNCHANGED <<proforma, promise, bills>>

ClearBasket(t) ==
    /\ tillCart[t] # NoTillCart
    /\ Put(t, NoTillCart)
    /\ UNCHANGED <<proforma, promise, heldCarts, bills>>

-----------------------------------------------------------------------------
(* The bill                                                                *)

\* A line without an order of its own is taken for one of the cart's order,
\* and has no row there (_get_sales_order_contract).
LinesHaveContracts(cart) == cart.order # Nothing => cart.goods \subseteq Promises

\* _get_sales_order_contract: open, the customer's own, not delivered.
ContractHolds(o, buyer) ==
    promise[o].status = "open" /\ promise[o].buyer = buyer /\ ~Billed(o)

\* _allocate_customer_advances: what was posted for the orders on the bill.
PostedFor(goods) == {o \in goods \cap Promises : promise[o].advance = 1}

Writes(buyer, goods, source, advance) ==
    /\ Len(bills) < MaxTrailBills
    /\ bills' = Append(bills, [buyer |-> buyer, goods |-> goods \ {Accessory},
                               source |-> source, advance |-> advance])

\* create_pos_invoice from the cart; the till starts afresh.
Pay(t) ==
    LET cart == tillCart[t]
    IN  /\ cart.buyer # Nothing /\ cart.goods # {}
        /\ LinesHaveContracts(cart)
        /\ \A o \in cart.goods \cap Promises : ContractHolds(o, cart.buyer)
        /\ cart.advance <= Cardinality(PostedFor(cart.goods))
        /\ Writes(cart.buyer, cart.goods, Names(cart.source, cart.buyer), cart.advance)
        /\ Put(t, NoTillCart)
        /\ UNCHANGED <<proforma, promise, heldCarts>>

\* convert_prebooking_to_invoice: ERPNext's mapper, and its advances unless
\* looking for them fails.
ConvertPromise(o, advance) ==
    /\ promise[o].status = "open" /\ ~Billed(o)
    /\ advance \in {0, promise[o].advance}
    /\ Writes(promise[o].buyer, {o}, Nothing, advance)
    /\ UNCHANGED <<proforma, promise, tillCart, heldCarts>>

TrailNext ==
    \/ \E q \in Proformas : LoseProforma(q) \/ \E buyer \in Buyers : MakeProforma(q, buyer)
    \/ \E o \in Promises :
         \/ \E q \in Proformas : PrebookProforma(o, q)
         \/ \E t \in Registers : PrebookBasket(t, o)
         \/ PostAdvance(o) \/ CancelPromise(o)
         \/ \E advance \in 0..1 : ConvertPromise(o, advance)
    \/ \E t \in Registers :
         \/ \E q \in Proformas : LoadProforma(t, q)
         \/ \E o \in Promises : LoadPromise(t, o)
         \/ \E buyer \in Buyers : ChooseBuyer(t, buyer)
         \/ \E g \in Goods : Unring(t, g)
         \/ Ring(t) \/ Refresh(t) \/ HoldBill(t) \/ ResumeBill(t) \/ ClearBasket(t)
         \/ Pay(t)

TrailSpec == TrailInit /\ [][TrailNext]_trailVars

-----------------------------------------------------------------------------
(* The list of proformas                                                   *)

OrdersOf(q) == {o \in Promises : promise[o].of = q /\ promise[o].status = "open"}
BillsOf(q) == {b \in TrailBills : bills[b].source = q}

\* list_my_proformas: its bill, or the bill of the one order that it keeps.
MayShow(q) ==
    IF BillsOf(q) # {} THEN BillsOf(q)
    ELSE {b \in TrailBills : bills[b].goods \cap OrdersOf(q) # {}}

-----------------------------------------------------------------------------
(* Properties                                                              *)

TrailCarts ==
    [buyer : Buyers \cup {Nothing}, goods : SUBSET Goods,
     source : Proformas \cup {Nothing}, order : Promises \cup {Nothing}, advance : 0..1]
ProformaRows == [status : {"none", "submitted", "lost"}, buyer : Buyers \cup {Nothing}]
PromiseRows ==
    [status : {"none", "open", "cancelled"}, buyer : Buyers \cup {Nothing},
     of : Proformas \cup {Nothing}, advance : 0..1]
TrailBillRows ==
    [buyer : Buyers, goods : SUBSET Goods, source : Proformas \cup {Nothing}, advance : 0..1]

\* Documents, carts and bills.
TrailTypeOK ==
    /\ proforma \in [Proformas -> ProformaRows]
    /\ promise \in [Promises -> PromiseRows]
    /\ tillCart \in [Registers -> TrailCarts]
    /\ heldCarts \in [Registers -> SUBSET TrailCarts]
    /\ bills \in Seq(TrailBillRows)

\* Whatever the cart went through - another customer chosen, lines dropped, a
\* page loaded again - a bill and a pre-booking name a proforma of their own
\* customer only, and so does the list (create_pos_invoice).
NamedByTheirOwn ==
    /\ \A b \in TrailBills : bills[b].source # Nothing =>
         proforma[bills[b].source].buyer = bills[b].buyer
    /\ \A q \in Proformas : \A b \in MayShow(q) : bills[b].buyer = proforma[q].buyer

\* A pre-booking is billed once, to its customer, and never after it was
\* cancelled, though carts of it wait on several tills and shelves.
PromiseIsBilledOnce ==
    \A o \in Promises :
        /\ Cardinality({b \in TrailBills : o \in bills[b].goods}) <= 1
        /\ \A b \in TrailBills : o \in bills[b].goods =>
             promise[o].status = "open" /\ promise[o].buyer = bills[b].buyer

\* No more advance is taken off a bill than was posted for the pre-bookings it
\* bills, so none is taken by the bill of another order.  That a posted one
\* does come off is not kept: AdvanceComesOff is refuted
\* (_allocate_customer_advances).
NoMoreThanPosted ==
    \A b \in TrailBills : bills[b].advance <= Cardinality(PostedFor(bills[b].goods))

\* Proforma, pre-booking and bill are of one customer, a pre-booking is billed
\* once, and only its own bill draws on its advance.
TrailHolds ==
    /\ NamedByTheirOwn
    /\ PromiseIsBilledOnce
    /\ NoMoreThanPosted

\* load_sales_order_to_cart, pos_api.py:18754: "per_billed / advance
\* allocation" of the cart "behave exactly like make_sales_invoice".  A cart that is loaded again, or
\* held and resumed, has forgotten its advance.
AdvanceComesOff ==
    \A b \in TrailBills : PostedFor(bills[b].goods) # {} => bills[b].advance > 0

\* create_pos_invoice, pos_api.py:3485: a bill of a proforma is "recorded so
\* the proforma reads Billed".
BilledIsShown ==
    \A q \in Proformas, b \in TrailBills :
        q \in bills[b].goods /\ bills[b].buyer = proforma[q].buyer => MayShow(q) # {}
ShownIsBilled ==
    \A q \in Proformas : \A b \in BillsOf(q) : q \in bills[b].goods
BilledOnceOnly == \A q \in Proformas : Cardinality(BillsOf(q)) <= 1

=============================================================================
