------------------------------- MODULE FifoDesk -------------------------------
(***************************************************************************)
(* First in, first out for the serial-numbered units of one item at one    *)
(* store: the check when a unit is put into the cart, the same check over  *)
(* the whole bill when it is created, and the exceptions both let pass.    *)
(* A unit may come back over the buyback counter and be sold again.        *)
(*                                                                         *)
(* A definition directly before another one that it resembles is a mutant. *)
(***************************************************************************)
EXTENDS Integers, FiniteSets

CONSTANTS
    Units,      \* serial numbers, in the order of their names
    LastDay,    \* bound: the last day
    Window      \* rows the query reads beyond the excluded ones (10 in the code)

ASSUME FifoAssumption ==
    /\ Units \subseteq Nat /\ IsFiniteSet(Units)
    /\ {LastDay, Window} \subseteq Nat \ {0}

VARIABLES
    today,
    stock,      \* unit -> where it is, its first inward ever, and its last one here
    cart,       \* unit -> not in the cart, in it, or in it with an exception
    skips       \* ghost: of the last bill, per unit billed over an older one
                \* without an exception, why

fifoVars == <<today, stock, cart, skips>>

Places == {"new", "sellable", "reserved", "buyback", "sold"}

FifoInit ==
    /\ today = 1
    /\ stock = [u \in Units |-> [place |-> "new", first |-> 0, last |-> 0]]
    /\ cart = [u \in Units |-> "no"]
    /\ skips = {}

InCart == {u \in Units : cart[u] # "no"}
Pickable == {u \in Units : stock[u].place = "sellable"}
Before(v, u) == stock[v].last < stock[u].last \/ (stock[v].last = stock[u].last /\ v < u)

\* _get_oldest_fifo_serial: Active units in a Sellable bin; reserved ones are
\* read too, and dropped only after LIMIT.
Candidates == {u \in Units : stock[u].place \in {"sellable", "reserved"}}
RowsRead(exclude) ==
    {u \in Candidates :
        Cardinality({v \in Candidates : Before(v, u)}) < Window + Cardinality(exclude)}
Leader(exclude) ==
    {u \in RowsRead(exclude) \ exclude :
        /\ stock[u].place = "sellable"
        /\ \A v \in RowsRead(exclude) \ exclude :
               stock[v].place = "sellable" /\ v # u => Before(u, v)}

\* The comparison both checks make: first inward ever (_serial_received_date)
\* against the leader's last inward into this warehouse.
InOrderAnyway(u, exclude) == \A v \in Leader(exclude) : stock[u].first <= stock[v].last + 1
InOrder(u, exclude) == \A v \in Leader(exclude) : stock[u].first <= stock[v].last

\* validate_serial_for_sale, and authorize_fifo_override.
AddToCart(u) ==
    /\ cart[u] = "no" /\ u \in Pickable
    /\ InOrder(u, InCart)
    /\ cart' = [cart EXCEPT ![u] = "plain"]
    /\ UNCHANGED <<today, stock, skips>>
AddWithException(u) ==
    /\ cart[u] = "no" /\ u \in Pickable
    /\ ~ InOrder(u, InCart)
    /\ cart' = [cart EXCEPT ![u] = "exception"]
    /\ UNCHANGED <<today, stock, skips>>
RemoveFromCart(u) ==
    /\ cart[u] # "no"
    /\ cart' = [cart EXCEPT ![u] = "no"]
    /\ UNCHANGED <<today, stock, skips>>

\* Units billed over an older one that could have been picked, and the two ways
\* the check does not see it.
SkipsOf(plain, bill) ==
    LET Older(u) == {v \in Pickable \ bill : stock[v].last < stock[u].last}
        Ahead(u) == {w \in Units \ bill : /\ stock[w].place = "reserved"
                                          /\ \A v \in Older(u) : Before(w, v)}
    IN  {[unit |-> u, sinceFirst |-> stock[u].last - stock[u].first,
          crowd |-> Cardinality(Ahead(u))] :
             u \in {p \in plain : Older(p) # {}}}

\* create_pos_invoice: every unit is checked again, the bill by _assert_bill_fifo.
BillUnchecked ==
    /\ InCart # {} /\ InCart \subseteq Pickable
    /\ stock' = [u \in Units |-> IF u \in InCart THEN [stock[u] EXCEPT !.place = "sold"]
                                                 ELSE stock[u]]
    /\ skips' = SkipsOf({u \in Units : cart[u] = "plain"}, InCart)
    /\ cart' = [u \in Units |-> "no"]
    /\ UNCHANGED today
BillCart ==
    /\ InCart # {} /\ InCart \subseteq Pickable
    /\ \A u \in Units : cart[u] = "plain" => InOrder(u, InCart)
    /\ stock' = [u \in Units |-> IF u \in InCart THEN [stock[u] EXCEPT !.place = "sold"]
                                                 ELSE stock[u]]
    /\ skips' = SkipsOf({u \in Units : cart[u] = "plain"}, InCart)
    /\ cart' = [u \in Units |-> "no"]
    /\ UNCHANGED today

----------------------------------------------------------------------------
\* A pre-booking takes or releases the unit.
MoveUnit(u, from, to) ==
    /\ stock[u].place = from
    /\ stock' = [stock EXCEPT ![u].place = to]
    /\ UNCHANGED <<today, cart, skips>>
Reserve(u) == MoveUnit(u, "sellable", "reserved")
Unreserve(u) == MoveUnit(u, "reserved", "sellable")

\* A goods receipt, a buyback of a sold unit, and its return to the Sellable bin:
\* each is an inward entry of the day.
Receive(u) ==
    /\ stock[u].place = "new"
    /\ stock' = [stock EXCEPT ![u] = [place |-> "sellable", first |-> today, last |-> today]]
    /\ UNCHANGED <<today, cart, skips>>
TradeIn(u) == MoveUnit(u, "sold", "buyback")
OnboardAsNew(u) ==
    /\ stock[u].place = "buyback"
    /\ stock' = [stock EXCEPT ![u].place = "sellable", ![u].first = today]
    /\ UNCHANGED <<today, cart, skips>>
OnboardAgain(u) ==
    /\ stock[u].place = "buyback"
    /\ stock' = [stock EXCEPT ![u].place = "sellable", ![u].last = today]
    /\ UNCHANGED <<today, cart, skips>>

FifoNextDay ==
    /\ today < LastDay
    /\ today' = today + 1
    /\ UNCHANGED <<stock, cart, skips>>

FifoNext ==
    \/ FifoNextDay
    \/ BillCart
    \/ \E u \in Units :
        \/ AddToCart(u) \/ AddWithException(u) \/ RemoveFromCart(u)
        \/ Reserve(u) \/ Unreserve(u)
        \/ Receive(u) \/ TradeIn(u) \/ OnboardAgain(u)

FifoSpec == FifoInit /\ [][FifoNext]_fifoVars

-----------------------------------------------------------------------------
(* Properties                                                             *)

\* Types; a unit's first inward is no later than its last.
FifoTypeOK ==
    /\ today \in 1 .. LastDay
    /\ stock \in [Units -> [place : Places, first : 0 .. LastDay, last : 0 .. LastDay]]
    /\ \A u \in Units : stock[u].first <= stock[u].last /\ stock[u].last <= today
    /\ cart \in [Units -> {"no", "plain", "exception"}]
    /\ skips \subseteq [unit : Units, sinceFirst : 0 .. LastDay, crowd : 0 .. Cardinality(Units)]

\* Without an exception a unit passes an older one that could have been sold only
\* if it had been in stock before (its first inward is what is compared), or if
\* reserved units filled the rows the query reads (_assert_bill_fifo).
SkipsAreExplained ==
    \A s \in skips : s.sinceFirst > 0 \/ s.crowd >= Window

\* "every serial sold without a FIFO exception must not skip an older unit that
\* is NOT on this bill" (_assert_bill_fifo): false of a unit that came back.
OldestGoesFirst == skips = {}

=============================================================================
