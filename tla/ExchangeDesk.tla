---------------------------- MODULE ExchangeDesk ----------------------------
(***************************************************************************)
(* A return and its replacement in one request: goods of one bill come     *)
(* back, others are sold against their value, and the difference is        *)
(* collected or paid out.  The bill has a serialized device with a         *)
(* protection plan, and spares sold several to a row.                      *)
(*                                                                         *)
(* One action is one committed request; a request that throws is rolled    *)
(* back with all of its legs.  Amounts are in half units of money, so that *)
(* Close is the tolerance the code writes 0.5.                             *)
(*                                                                         *)
(* A definition directly before another one that it resembles is a mutant. *)
(***************************************************************************)
EXTENDS Integers, FiniteSets, Functions

CONSTANTS
    Exchanges,   \* requests
    RowPrice,    \* row of the bill -> price of one piece
    SparesSold,  \* pieces on the row of spares
    Estimates,   \* bound: what replacements are estimated at
    Drifts       \* bound: how far a final price is from its estimate

BillRows == {"device", "plan", "spare"}

ASSUME ExchangeAssumption ==
    /\ IsFiniteSet(Exchanges) /\ SparesSold \in Nat /\ RowPrice \in [BillRows -> Nat]
    /\ Estimates \subseteq Nat /\ Drifts \subseteq Int

VARIABLES
    swap,      \* request -> the exchange
    planLive   \* the plan of the device is active

exchangeVars == <<swap, planLive>>

Close == 1
SoldOn(row) == IF row = "spare" THEN SparesSold ELSE 1
Baskets == {back \in [BillRows -> 0..(SparesSold + 1)] : \A row \in BillRows : back[row] <= SoldOn(row)}
Worth(back) == SumFunction([row \in BillRows |-> back[row] * RowPrice[row]])

NothingBack == [row \in BillRows |-> 0]
NoExchange == [at |-> "none", back |-> NothingBack, paid |-> 0, price |-> 0, payout |-> 0]

ExchangeInit ==
    /\ swap = [x \in Exchanges |-> NoExchange]
    /\ planLive \in BOOLEAN

-----------------------------------------------------------------------------
(* The return leg                                                          *)

\* What submitted credit notes have taken back.
CreditedOn(row) ==
    SumFunction([x \in Exchanges |->
        IF swap[x].at \in {"returned", "settled"} THEN swap[x].back[row] ELSE 0])

\* check_serial_returnable, and validate_returned_items of ERPNext: drafts do
\* not count.
StillOut(back) == \A row \in BillRows : CreditedOn(row) + back[row] <= SoldOn(row)

\* _auto_include_bound_vas_rows, after the exchange has valued what was asked.
WithPlan(asked) ==
    IF asked["device"] = 1 /\ planLive THEN [asked EXCEPT !["plan"] = 1] ELSE asked

\* _return_requires_approval: always for a device; else by value, share and age.
MayNeedChecker(back, needs) == back["device"] = 1 => needs

-----------------------------------------------------------------------------
(* The difference                                                          *)

Distance(a, b) == IF a > b THEN a - b ELSE b - a

\* The action that preview_return_with_replacement announces.
Way(delta) ==
    IF delta > Close THEN "collect" ELSE IF delta < -Close THEN "refund" ELSE "even"

SettlementFits(delta, paid) ==
    IF Way(delta) = "collect" THEN Distance(paid, delta) <= Close ELSE paid <= Close

\* What the payload of the replacement says was paid: the settlement and an
\* offset of the returned value, or a placeholder for the whole estimate.
Tendered(estimate, value, paid) ==
    IF Way(estimate - value) = "collect" THEN paid + value ELSE estimate

\* create_pos_invoice: payments within one unit of the total are made to fit.
TenderedFits(tendered, price) == Distance(tendered, price) <= 2 * Close

\* The settlement is compared once more with the two submitted bills.
SettledBeforehand(delta, actual) == TRUE
SameDifference(delta, actual) == Distance(delta, actual) <= Close

\* The Payment Entry of a refund.
PaidOut(actual) == IF actual < -Close THEN -actual ELSE 0

-----------------------------------------------------------------------------
(* Requests                                                                *)

Asks(x, asked, needs) ==
    /\ swap[x].at = "none"
    /\ asked # NothingBack
    /\ StillOut(WithPlan(asked))
    /\ MayNeedChecker(asked, needs)

\* process_return_with_replacement ends with a return that waits.
ExchangeWaits(x, asked, estimate, paid) ==
    /\ Asks(x, asked, TRUE)
    /\ SettlementFits(estimate - Worth(asked), paid)
    /\ swap' = [swap EXCEPT ![x] = [NoExchange EXCEPT !.at = "pending", !.back = WithPlan(asked)]]
    /\ UNCHANGED planLive

\* It goes through: the return, the replacement, the refund.  Whether the plan
\* could be cancelled does not matter to it.
Exchange(x, asked, estimate, paid, drift) ==
    LET back   == WithPlan(asked)
        value  == Worth(asked)
        price  == estimate + drift
        actual == price - Worth(back)
    IN  /\ \E needs, manager \in BOOLEAN : Asks(x, asked, needs) /\ (needs => manager)
        /\ SettlementFits(estimate - value, paid)
        /\ TenderedFits(Tendered(estimate, value, paid), price)
        /\ SameDifference(estimate - value, actual)
        /\ swap' = [swap EXCEPT ![x] =
                      [at |-> "settled", back |-> back, paid |-> paid, price |-> price,
                       payout |-> PaidOut(actual)]]
        /\ planLive' \in IF back["device"] + back["plan"] > 0 THEN {planLive, FALSE} ELSE {planLive}

\* approve_pos_return: the credit note alone; the replacement is not resumed.
ApproveExchange(x) ==
    /\ swap[x].at = "pending"
    /\ StillOut(swap[x].back)
    /\ swap' = [swap EXCEPT ![x].at = "returned"]
    /\ UNCHANGED planLive

\* Without a network the payment dialog queues the request as a sale: the rows
\* of the return are not in it.  The replay bills it at today's price.
QueueOffline(x, estimate, paid) ==
    /\ swap[x].at = "none"
    /\ swap' = [swap EXCEPT ![x] = [NoExchange EXCEPT !.at = "queued", !.paid = paid,
                                                     !.price = estimate]]
    /\ UNCHANGED planLive

Replay(x, drift) ==
    LET price == swap[x].price + drift
    IN  /\ swap[x].at = "queued"
        /\ TenderedFits(swap[x].paid, price)
        /\ swap' = [swap EXCEPT ![x].at = "settled", ![x].price = price]
        /\ UNCHANGED planLive

\* What the till may offer for a difference, exact or a little short.
Offers(delta) == {0} \cup {p \in {delta, delta - 1} : p > 0}

ExchangeNext ==
    \E x \in Exchanges :
        \/ \E asked \in Baskets, estimate \in Estimates :
             \E paid \in Offers(estimate - Worth(asked)) :
                \/ ExchangeWaits(x, asked, estimate, paid)
                \/ asked # NothingBack /\ QueueOffline(x, estimate, paid)
                \/ \E drift \in Drifts : Exchange(x, asked, estimate, paid, drift)
        \/ ApproveExchange(x)
        \/ \E drift \in Drifts : Replay(x, drift)

ExchangeSpec == ExchangeInit /\ [][ExchangeNext]_exchangeVars

-----------------------------------------------------------------------------
(* Properties                                                              *)

\* Statuses and amounts.
ExchangeTypeOK ==
    /\ swap \in [Exchanges -> [at : {"none", "queued", "pending", "returned", "settled"}, back : Baskets,
                               paid : Nat, price : Int, payout : Nat]]
    /\ planLive \in BOOLEAN

\* The till blocks a bill whose difference is not accounted for: what the
\* customer handed over less what was paid out is the replacement less all
\* that came back, the plan that was added included, within a unit of money
\* (process_return_with_replacement); nor is an exchange that was queued as a
\* sale billed for the difference alone.
CustomerIsSquare ==
    \A x \in Exchanges : swap[x].at = "settled" =>
        Distance(swap[x].paid - swap[x].payout, swap[x].price - Worth(swap[x].back)) <= 2 * Close

\* However many exchanges and waiting drafts there are, no row of the bill is
\* credited beyond what was sold, and no money or goods have moved for a
\* return that waited.
NothingReturnedTwice ==
    /\ \A row \in BillRows : CreditedOn(row) <= SoldOn(row)
    /\ \A x \in Exchanges : swap[x].at \in {"pending", "returned"} =>
         swap[x].paid = 0 /\ swap[x].price = 0 /\ swap[x].payout = 0

\* An exchange settles its difference and takes back what was sold.
ExchangesSettle ==
    /\ CustomerIsSquare
    /\ NothingReturnedTwice

\* process_return_with_replacement, pos_api.py:7650: the books show what the
\* customer was paid: the return's own payment row, the replacement's and the
\* Payment Entry.  The return has already booked its value out.
RefundIsBookedOnce ==
    \A x \in Exchanges : swap[x].at = "settled" =>
        LET booked == swap[x].price - Worth(swap[x].back) - swap[x].payout
        IN  Distance(booked, swap[x].paid - swap[x].payout) <= 2 * Close

=============================================================================
