----------------------------- MODULE SaleGates ------------------------------
(***************************************************************************)
(* What create_pos_invoice lets a bill charge, and the validate hooks that *)
(* judge it: the floor price, the commercial policy, header discount and   *)
(* bank offer, the store's discount budget, the customer's cash of a day,  *)
(* the cut-off time; and the window in which it is taken back.             *)
(*                                                                         *)
(* Bills of one store and one customer overlap: each judges by the sums    *)
(* its snapshot holds, and submits without validating again                *)
(* (flags.ignore_validate).  A bill sells one unit of one item.            *)
(*                                                                         *)
(* A definition directly before another one that it resembles is a mutant. *)
(***************************************************************************)
EXTENDS Integers, FiniteSets, FiniteSetsExt, Functions

CONSTANTS
    GateBills,   \* bills of one store and one customer
    GateLines,   \* what is asked for: [kind, rate, amount, leave, cut, offer]
    PriceRows,   \* CH Item Price of the item: [channel, selling, mop]
    ContractRate, \* the rate of the Sales Order
    FreeHand,    \* lowest rate a cashier may give alone (the commercial policy)
    OwnCut,      \* header discount the caller may give without a grant
    MaxCut,      \* the policy's max_discount_without_approval; 0 is none
    BankOffer,   \* [value, least, lastDay, mode, stackable]
    CashLimit,   \* Section 269ST
    BudgetMax,   \* CH Store Discount Budget of a day; 0 is none
    ReturnDays,  \* the policy's return window; 0 is none
    LastGateDay  \* days of the model

ASSUME GatesAssumption ==
    /\ {ContractRate, FreeHand, OwnCut, MaxCut, BudgetMax, ReturnDays} \subseteq Nat
    /\ {CashLimit, LastGateDay} \subseteq Nat \ {0}
    /\ IsFiniteSet(GateBills) /\ IsFiniteSet(PriceRows)
    /\ \A r \in PriceRows : r.selling \in Nat /\ r.mop \in Nat
    /\ \A l \in GateLines : {l.rate, l.amount, l.cut.amount} \subseteq Nat
    /\ BankOffer.value \in Nat

VARIABLES
    gateBills, \* bill -> [at, given, cash, day, back, freed]; ghosts: stale, lagging
    gateDay,     \* the calendar
    business,  \* the store's business date, the posting date of its bills
    waived     \* bills with an approved "Return Beyond Policy" exception

gateVars == <<gateBills, gateDay, business, waived>>

NoGateBill == [at |-> "none", given |-> 0, cash |-> 0, day |-> 0,
               stale |-> FALSE, lagging |-> FALSE, back |-> 0, freed |-> 0]

GateInit ==
    /\ gateBills = [b \in GateBills |-> NoGateBill]
    /\ gateDay = 1 /\ business = 1 /\ waived = {}

-----------------------------------------------------------------------------
(* The price of a row                                                      *)

\* _get_item_floor_price: the lowest approved price of the channel, of any
\* channel when this one has no row
FloorPrice(rows) ==
    LET own  == {r \in rows : r.channel = "POS"}
        used == IF own = {} THEN rows ELSE own
        least(r) == IF r.selling > 0 /\ r.mop > 0 THEN Min({r.selling, r.mop})
                    ELSE Max({r.selling, r.mop})
        prices == {least(r) : r \in used} \ {0}
    IN  IF prices = {} THEN 0 ELSE Min(prices)

ListPrice(rows) == Max({0} \cup {r.selling : r \in rows})
Mop(rows) == Max({0} \cup {r.mop : r \in rows})

\* The rate a row is billed at: an exception's, the order's, else the till's
EffectiveRate(l) ==
    IF l.kind = "bundle" THEN 0
    ELSE IF l.kind = "contract" /\ l.leave # "exception" THEN ContractRate
    ELSE IF l.leave = "exception" \/ l.amount = 0 THEN l.rate
    ELSE l.amount

\* "Below Minimum Selling Price"
AboveFloor(l) ==
    l.kind = "goods" /\ EffectiveRate(l) > 0 =>
        EffectiveRate(l) >= FloorPrice(PriceRows) \/ l.leave \in {"manager", "exception"}

\* The free gift guard: an item that may go at zero is not alone
GiftHasCompany(l) == l.kind = "gift" /\ EffectiveRate(l) = 0 => l.leave = "backed"

\* Additional discount: by the caller's own limit or a manager's grant
MayCut(l) ==
    /\ l.cut.amount <= EffectiveRate(l)
    /\ l.cut.amount > OwnCut => l.cut.granted

-----------------------------------------------------------------------------
(* Bank offers                                                             *)

\* _resolve_bank_offer_discount: what the offer takes off
OfferAmount(l) == IF l.offer THEN Min({BankOffer.value, EffectiveRate(l)}) ELSE 0

OfferIsGood(l, cash) ==
    l.offer =>
        /\ gateDay <= BankOffer.lastDay
        /\ EffectiveRate(l) > 0 /\ EffectiveRate(l) >= BankOffer.least
        /\ BankOffer.mode = "cash" <=> cash > 0
        /\ BankOffer.value > 0
        /\ l.cut.amount > 0 => BankOffer.stackable
        /\ l.cut.amount + OfferAmount(l) <= EffectiveRate(l)

\* The rate with the bill's discounts spread onto the row.
SoldAt(l) == EffectiveRate(l) - l.cut.amount - OfferAmount(l)

-----------------------------------------------------------------------------
(* The commercial policy                                                   *)

\* validate_pos_discount of the item master
Verdict(rate) ==
    IF rate < Mop(PriceRows) THEN "no" ELSE IF rate < FreeHand THEN "ask" ELSE "yes"

\* validate_pos_commercial_policy: a row is judged at its price before the
\* bill's discounts; not at zero, of an order, or with an exception
Judged(l) == EffectiveRate(l) > 0 /\ l.kind # "contract"
ByException(l) == l.leave = "exception"

RowAllowed(l) ==
    \/ ByException(l)
    \/ Verdict(EffectiveRate(l)) = "yes"
    \/ Verdict(EffectiveRate(l)) = "ask" /\ l.leave = "manager"

\* The free accessory gate
MayGoFree(l) == SoldAt(l) = 0 /\ l.kind # "bundle" => l.leave = "manager"
CutAllowed(l) == MaxCut > 0 /\ l.cut.asPercent => l.cut.amount <= MaxCut

PolicyAllows(l) == (Judged(l) => RowAllowed(l) /\ MayGoFree(l)) /\ CutAllowed(l)

\* _check_discount_budget: what this bill gives away
Given(l) ==
    LET list == ListPrice(PriceRows)
    IN  IF SoldAt(l) > 0 /\ list > SoldAt(l) THEN list - SoldAt(l) ELSE 0

-----------------------------------------------------------------------------
(* Sums over the bills of a day                                            *)

Booked(b) == gateBills[b].at \in {"booked", "returned"}

\* Discounts of the submitted bills and credit notes posted on a day.
Utilised(day) ==
    SumFunction([b \in GateBills |->
        (IF Booked(b) /\ gateBills[b].day = day THEN gateBills[b].given ELSE 0)
        - (IF gateBills[b].back = day THEN gateBills[b].freed ELSE 0)])

\* _check_discount_budget: the period is the calendar's, whatever the bill's date
BudgetFits(l) ==
    BudgetMax > 0 /\ Given(l) > 0 => Utilised(gateDay) + Given(l) <= BudgetMax

\* _same_day_existing_cash: bills less refunds
CashOf(day) ==
    SumFunction([b \in GateBills |->
        (IF Booked(b) /\ gateBills[b].day = day THEN gateBills[b].cash ELSE 0)
        - (IF gateBills[b].back = day THEN gateBills[b].cash ELSE 0)])

CashFitsToday(cash) == cash > 0 => CashOf(gateDay) + cash < CashLimit
\* validate_section_269st_cash_limit: the day is the bill's own
CashFits(cash) == cash > 0 => CashOf(business) + cash < CashLimit

\* validate_pos_cutoff_time: no bill of this day after the cut-off, but by a
\* role that may; a bill of another date is not held
BeforeCutoff(late, override) == business = gateDay /\ late => override

-----------------------------------------------------------------------------
(* Bills                                                                   *)

\* What the checks that read no sums let through.
Sellable == {l \in GateLines : AboveFloor(l) /\ GiftHasCompany(l) /\ MayCut(l) /\ PolicyAllows(l)}

\* create_pos_invoice up to the insert, by the snapshot of this moment.
AskBill(b, l, cash, late, override) ==
    /\ gateBills[b].at = "none"
    /\ l \in Sellable /\ OfferIsGood(l, cash) /\ cash <= SoldAt(l)
    /\ BudgetFits(l) /\ CashFits(cash) /\ BeforeCutoff(late, override)
    /\ gateBills' = [gateBills EXCEPT ![b] =
          [at |-> "asked", given |-> Given(l), cash |-> cash, day |-> business,
           stale |-> FALSE, lagging |-> business # gateDay /\ Given(l) > 0,
           back |-> 0, freed |-> 0]]
    /\ UNCHANGED <<gateDay, business, waived>>

\* Whoever is under way did not see this; only a bill that adds to a sum matters.
AddsToSums(v) == v.given > 0 \/ v.cash > 0
NowStale(bs) ==
    [o \in GateBills |-> IF bs[o].at = "asked" /\ AddsToSums(bs[o])
                         THEN [bs[o] EXCEPT !.stale = TRUE] ELSE bs[o]]

BookBill(b) ==
    /\ gateBills[b].at = "asked"
    /\ gateBills' = NowStale([gateBills EXCEPT ![b].at = "booked"])
    /\ UNCHANGED <<gateDay, business, waived>>

FailBill(b) ==
    /\ gateBills[b].at = "asked"
    /\ gateBills' = [gateBills EXCEPT ![b] = NoGateBill]
    /\ UNCHANGED <<gateDay, business, waived>>

VoidBill(b) ==
    /\ gateBills[b].at = "booked"
    /\ gateBills' = NowStale([gateBills EXCEPT ![b] = [NoGateBill EXCEPT !.at = "void"]])
    /\ UNCHANGED <<gateDay, business, waived>>

\* validate_return_policy, on the credit note of the whole bill
InWindow(b) ==
    ReturnDays = 0 \/ business - gateBills[b].day <= ReturnDays \/ b \in waived

\* ERPNext fills the list price of a credit note, or leaves it at the rate.
TakeBillBack(b, freed) ==
    /\ gateBills[b].at = "booked" /\ InWindow(b) /\ freed \in {0, gateBills[b].given}
    /\ gateBills' = NowStale([gateBills EXCEPT ![b] =
          [@ EXCEPT !.at = "returned", !.back = business, !.freed = freed]])
    /\ UNCHANGED <<gateDay, business, waived>>

\* An exception of the back office; the one a refused return logs goes with
\* its transaction.
WaiveWindow(b) ==
    /\ gateBills[b].at = "booked" /\ ~InWindow(b) /\ waived' = waived \cup {b}
    /\ UNCHANGED <<gateBills, gateDay, business>>

-----------------------------------------------------------------------------
(* Time                                                                    *)

Midnight ==
    /\ gateDay < LastGateDay /\ business = gateDay /\ gateDay' = gateDay + 1
    /\ UNCHANGED <<gateBills, business, waived>>

\* The store closes its day.
CatchUp ==
    /\ business < gateDay /\ business' = business + 1
    /\ UNCHANGED <<gateBills, gateDay, waived>>

GateNext ==
    \/ \E b \in GateBills :
          \/ \E l \in GateLines, cash \in 0..CashLimit, late, override \in BOOLEAN :
                AskBill(b, l, cash, late, override)
          \/ BookBill(b) \/ FailBill(b) \/ VoidBill(b) \/ WaiveWindow(b)
          \/ \E freed \in {0, gateBills[b].given} : TakeBillBack(b, freed)
    \/ Midnight \/ CatchUp

GateSpec == GateInit /\ [][GateNext]_gateVars

-----------------------------------------------------------------------------
(* Properties                                                              *)

\* Bills, days and what is remembered of them.
GateTypeOK ==
    /\ gateBills \in [GateBills ->
          [at : {"none", "asked", "booked", "void", "returned"}, given : Nat, cash : 0..CashLimit,
           day : 0..LastGateDay, stale : BOOLEAN, lagging : BOOLEAN, back : 0..LastGateDay, freed : Nat]]
    /\ gateDay \in 1..LastGateDay /\ business \in 1..gateDay /\ waived \subseteq GateBills

\* Another bill was committed between a bill's check and its own commit.
Overtaken(b) == Booked(b) /\ gateBills[b].stale
\* It was posted on the business date while that lagged: the budget was
\* checked against the calendar's day, on which the bill does not count.
Misdated(b) == Booked(b) /\ gateBills[b].lagging

UnguardedGiven(day) ==
    SumFunction([b \in GateBills |->
        IF (Overtaken(b) \/ Misdated(b)) /\ gateBills[b].day = day THEN gateBills[b].given ELSE 0])
UnguardedCash(day) ==
    SumFunction([b \in GateBills |->
        IF Overtaken(b) /\ gateBills[b].day = day THEN gateBills[b].cash ELSE 0])

\* The discounts of a day exceed the store's budget by no more than its bills
\* brought that another bill overtook, and its bills posted after midnight on
\* a business date that was behind.  For the latter the budget limits nothing:
\* BudgetHoldsOnEveryDate is refuted (_check_discount_budget).
BudgetHolds ==
    BudgetMax > 0 => \A day \in 1..LastGateDay :
        Utilised(day) - UnguardedGiven(day) <= BudgetMax

\* A customer's cash of a posting date stays below the limit but for the bills
\* that another one overtook, whether or not the date lags behind the
\* calendar (validate_section_269st_cash_limit).
CashStaysBelow ==
    \A day \in 1..LastGateDay : CashOf(day) - UnguardedCash(day) < CashLimit

\* Cash per posting date, and what bills of the calendar's day give away, are
\* limited by the day's sums, overlapping bills apart.
GatesHold ==
    /\ BudgetHolds
    /\ CashStaysBelow

-----------------------------------------------------------------------------
(* What the code's comments say and a run refutes                          *)

\* "Check store-level discount budget ... blocks at 100% unless manager
\* approved" (discount_control.py:268), also on a business date that lags
BudgetHoldsOnEveryDate ==
    BudgetMax > 0 => \A day \in 1..LastGateDay :
        Utilised(day) - SumFunction([b \in GateBills |->
            IF Overtaken(b) /\ gateBills[b].day = day THEN gateBills[b].given ELSE 0]) <= BudgetMax

\* "receiving an aggregate of 2,00,000 or more in cash from a single person
\* in a single day" (cash_receipt_limit.py:4), whether some went back or not
ReceiptsStayBelow ==
    \A day \in 1..LastGateDay :
        SumFunction([b \in GateBills |->
            IF Booked(b) /\ gateBills[b].day = day THEN gateBills[b].cash ELSE 0]) < CashLimit

\* "Free-accessory gate: detect ad-hoc free items", of every bill that is
\* not a gift's or a bundle's (discount_control.py:189)
FreeNeedsLeave == [][\A b \in GateBills, l \in GateLines, cash \in 0..CashLimit :
    AskBill(b, l, cash, FALSE, FALSE) /\ l.kind = "goods" /\ SoldAt(l) = 0 => l.leave = "manager"]_gateVars

=============================================================================
