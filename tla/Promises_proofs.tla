--------------------------- MODULE Promises_proofs --------------------------
(***************************************************************************)
(* What was promised: pre-bookings of serialized units (PreBookings) and   *)
(* the trail from a proforma to its bill (OrderTrail), for every number of *)
(* orders, units, bills, customers and tills.                              *)
(***************************************************************************)
EXTENDS PreBookings, OrderTrail, FiniteSetTheorems, TLAPS

-----------------------------------------------------------------------------
(* Pre-bookings: the inductive invariant                                   *)

\* An order that is not over and has the IMEI among its tags, awake or not.
Claims(o, u) == OnTheBooks(o) /\ u \in preOrder[o].tagged

\* Two claims on one IMEI were noted when the second was laid.
OneClaim ==
    \A u \in Imeis \ revived : \A o, p \in PreOrders : Claims(o, u) /\ Claims(p, u) => o = p

\* An edit that nobody dropped fits the promise it was checked against, and
\* saw no other holder.
EditsFit ==
    \A o \in PreOrders :
        editing[o] # NoEdit =>
            /\ editing[o].new \in Imeis
            /\ editing[o].heldBy \subseteq {o}
            /\ IF editing[o].old = NoImei THEN Cardinality(preOrder[o].tagged) < OrderQty
               ELSE editing[o].old \in preOrder[o].tagged
            /\ preOrder[o].status # "none"

TagsFit == \A o \in PreOrders : Cardinality(preOrder[o].tagged) <= OrderQty

BillsCounted ==
    \A o \in PreOrders : /\ preOrder[o].billed = Cardinality(UnitsBilled(o))
                         /\ preOrder[o].status = "none" => preOrder[o].billed = 0

\* A unit is Sold while a bill has it, and one bill has it.
UnitsFollowBills ==
    /\ \A u \in Imeis : lifecycle[u] = "Sold" <=> Out(u) # {}
    /\ \A u \in Imeis : \A s, t \in Out(u) : s = t
    /\ \A s \in PreSales : preSale[s].status # "live" =>
         preSale[s].units = {} /\ preSale[s].returned = {}

PreInv ==
    /\ PreTypeOK
    /\ OneClaim
    /\ EditsFit
    /\ TagsFit
    /\ BillsCounted
    /\ UnitsFollowBills
    /\ CancelledIsSettled

LEMMA PreFacts ==
    ASSUME PreInv
    PROVE  /\ preOrder \in [PreOrders -> PreOrderRows] /\ preSale \in [PreSales -> PreSaleRows]
           /\ lifecycle \in [Imeis -> {"InStock", "Sold"}] /\ editing \in [PreOrders -> Edits]
           /\ revived \subseteq Imeis
           /\ \A o \in PreOrders : preOrder[o] \in PreOrderRows /\ preOrder[o].tagged \subseteq Imeis
           /\ \A s \in PreSales : /\ preSale[s] \in PreSaleRows /\ preSale[s].units \subseteq Imeis
                                  /\ preSale[s].returned \subseteq preSale[s].units
           /\ NoEdit \in Edits
  BY DEF PreInv, PreTypeOK, PreOrderRows, PreSaleRows, Edits, NoEdit

-----------------------------------------------------------------------------
(* Orders change, bills and units do not                                   *)

\* One order is written: what its new row and its edit must satisfy.
LEMMA OrderKeeps ==
    ASSUME PreInv, NEW o \in PreOrders, NEW x \in PreOrderRows, NEW e \in Edits,
           preOrder' = [preOrder EXCEPT ![o] = x], editing' = [editing EXCEPT ![o] = e],
           UNCHANGED <<lifecycle, preSale>>, revived \subseteq revived', revived' \subseteq Imeis,
           x.billed = preOrder[o].billed, x.status # "none" \/ preOrder[o].status = "none",
           Cardinality(x.tagged) <= OrderQty,
           x.status = "cancelled" => /\ x.reserved = 0 /\ x.advance \notin {"draft", "posted"}
                                     /\ x.afterwards # "none" => x.advance = "reversed",
           e # NoEdit => /\ e.new \in Imeis /\ e.heldBy \subseteq {o}
                         /\ IF e.old = NoImei THEN Cardinality(x.tagged) < OrderQty
                            ELSE e.old \in x.tagged
                         /\ x.status # "none",
           \A u \in Imeis \ revived' : \A p \in PreOrders \ {o} :
               x.status \in {"open", "OnHold"} /\ u \in x.tagged => ~Claims(p, u)
    PROVE  PreInv'
<1>1. /\ \A p \in PreOrders : preOrder'[p] = IF p = o THEN x ELSE preOrder[p]
      /\ \A p \in PreOrders : editing'[p] = IF p = o THEN e ELSE editing[p]
      /\ preOrder' \in [PreOrders -> PreOrderRows] /\ editing' \in [PreOrders -> Edits]
  BY PreFacts
<1>2. PreTypeOK'
  BY <1>1, PreFacts DEF PreTypeOK
<1>3. OneClaim'
  <2> SUFFICES ASSUME NEW u \in Imeis \ revived', NEW p \in PreOrders, NEW q \in PreOrders,
                      Claims(p, u)', Claims(q, u)'
               PROVE  p = q
    BY DEF OneClaim
  <2>1. CASE p # o /\ q # o
    BY <1>1, <2>1 DEF PreInv, OneClaim, Claims, OnTheBooks
  <2>2. CASE p = o /\ q # o
    BY <1>1, <2>2 DEF Claims, OnTheBooks
  <2>3. CASE p # o /\ q = o
    BY <1>1, <2>3 DEF Claims, OnTheBooks
  <2> QED BY <2>1, <2>2, <2>3
<1>4. EditsFit'
  BY <1>1 DEF PreInv, EditsFit
<1>5. TagsFit' /\ CancelledIsSettled'
  BY <1>1 DEF PreInv, TagsFit, CancelledIsSettled
<1>6. BillsCounted'
  BY <1>1 DEF PreInv, BillsCounted, UnitsBilled, LiveOn
<1>7. UnitsFollowBills'
  BY DEF PreInv, UnitsFollowBills, Out
<1> QED BY <1>2, <1>3, <1>4, <1>5, <1>6, <1>7 DEF PreInv

LEMMA MinOfTwo ==
    ASSUME NEW a \in Int, NEW b \in Int
    PROVE  Min({a, b}) \in {a, b} /\ Min({a, b}) <= a /\ Min({a, b}) <= b
<1> DEFINE S == {a, b}
<1>1. \E x \in S : \A y \in S : x <= y
  OBVIOUS
<1>2. Min(S) \in S /\ \A y \in S : Min(S) <= y
  BY <1>1 DEF Min
<1> QED BY <1>2

LEMMA MaxOfTwo ==
    ASSUME NEW a \in Int, NEW b \in Int
    PROVE  Max({a, b}) \in {a, b} /\ Max({a, b}) >= a /\ Max({a, b}) >= b
<1> DEFINE S == {a, b}
<1>1. \E x \in S : \A y \in S : x >= y
  OBVIOUS
<1>2. Max(S) \in S /\ \A y \in S : Max(S) >= y
  BY <1>1 DEF Max
<1> QED BY <1>2

\* What is given and what is picked are no more than what is ordered.
LEMMA PicksFit ==
    ASSUME NEW given \in SUBSET Imeis, Cardinality(given) <= OrderQty, NEW picked \in Picks(given)
    PROVE  /\ given \cup picked \in SUBSET Imeis
           /\ Cardinality(given \cup picked) <= OrderQty
<1> DEFINE pool == {u \in InStock \ given : HoldersOf(u) = {}}
<1>1. picked \subseteq pool /\ Cardinality(picked) = Min({OrderQty - Cardinality(given), Cardinality(pool)})
  BY DEF Picks, kSubset
<1>2. pool \subseteq Imeis /\ pool \cap given = {}
  BY DEF InStock
<1> HIDE DEF pool
<1>3. IsFiniteSet(given) /\ IsFiniteSet(pool) /\ IsFiniteSet(picked)
  BY <1>1, <1>2, PreBookingsAssumption, FS_Subset
<1>4. Cardinality(given) \in Nat /\ Cardinality(pool) \in Nat /\ Cardinality(picked) \in Nat
  BY <1>3, FS_CardinalityType
<1>5. Cardinality(picked) <= OrderQty - Cardinality(given)
  BY <1>1, <1>4, MinOfTwo, PreBookingsAssumption
<1>6. Cardinality(given \cup picked) = Cardinality(given) + Cardinality(picked)
  <2>1. given \cap picked = {}
    BY <1>1, <1>2
  <2> QED BY <1>3, <1>4, <2>1, FS_Union, FS_EmptySet
<1> QED BY <1>1, <1>2, <1>4, <1>5, <1>6, PreBookingsAssumption

\* A new claim: whoever else claims the IMEI is asleep, or was judged.
LEMMA ClaimIsNoted ==
    ASSUME PreInv, NEW o \in PreOrders, NEW us \in SUBSET Imeis, NEW judged,
           \A u \in us : \A p \in PreOrders \ {o} : ~(Holds(p, u) /\ p \in judged)
    PROVE  /\ revived \subseteq ClaimsOver(o, us, judged) /\ ClaimsOver(o, us, judged) \subseteq Imeis
           /\ \A u \in us \ ClaimsOver(o, us, judged) : \A p \in PreOrders \ {o} : ~Claims(p, u)
  BY PreFacts DEF ClaimsOver, Asleep, Claims

LEMMA NoOrderFacts ==
    /\ NoOrder \in PreOrderRows /\ NoOrder.billed = 0 /\ NoOrder.reserved = 0
    /\ NoOrder.tagged = {} /\ NoOrder.afterwards = "none"
<1>1. 0 \in 0..OrderQty
  BY PreBookingsAssumption
<1> QED BY <1>1 DEF NoOrder, PreOrderRows

LEMMA CreateKeeps ==
    ASSUME PreInv, NEW o \in PreOrders, NEW given \in SUBSET Imeis, NEW reserve \in BOOLEAN,
           NEW fate \in {"submitted", "relaxed", "draft"}, NEW paid \in Advances,
           CreatePreBooking(o, given, reserve, fate, paid)
    PROVE  PreInv'
<1>1. PICK picked \in IF reserve THEN Picks(given) ELSE {{}} :
          LET tags == given \cup picked
              short == Cardinality(tags) < OrderQty \/ Available < OrderQty
              kept == reserve /\ ~short /\ fate # "relaxed"
              status == IF fate = "draft" THEN "draft" ELSE "open"
          IN  /\ NotTaggedTwice(tags)
              /\ preOrder' = [preOrder EXCEPT ![o] = [NoOrder EXCEPT
                    !.status = status, !.reserve = kept,
                    !.tagged = tags,
                    !.reserved = IF status = "open" /\ kept THEN OrderQty ELSE 0,
                    !.advance = AdvanceFor(status, paid)]]
              /\ revived' = IF status = "open" THEN ClaimsOver(o, tags, PreOrders) ELSE revived
  BY DEF CreatePreBooking
<1>2. /\ preOrder[o].status = "none" /\ Cardinality(given) <= OrderQty
      /\ UNCHANGED <<lifecycle, preSale, editing>>
  BY DEF CreatePreBooking
<1> DEFINE tags == given \cup picked
           kept == reserve /\ ~(Cardinality(tags) < OrderQty \/ Available < OrderQty) /\ fate # "relaxed"
           status == IF fate = "draft" THEN "draft" ELSE "open"
           reserved == IF status = "open" /\ kept THEN OrderQty ELSE 0
           advance == AdvanceFor(status, paid)
           x == [NoOrder EXCEPT !.status = status, !.reserve = kept, !.tagged = tags,
                                !.reserved = reserved, !.advance = advance]
<1>3. tags \in SUBSET Imeis /\ Cardinality(tags) <= OrderQty
  <2>1. CASE reserve
    BY <1>1, <1>2, <2>1, PicksFit
  <2>2. CASE ~reserve
    <3>1. tags = given
      BY <1>1, <2>2
    <3> QED BY <1>2, <3>1
  <2> QED BY <2>1, <2>2
<1>4. /\ status \in {"draft", "open"} /\ kept \in BOOLEAN /\ reserved \in 0..OrderQty
      /\ advance \in {"none", "draft", "posted"}
  BY PreBookingsAssumption DEF AdvanceFor
<1>5. /\ NotTaggedTwice(tags) /\ preOrder' = [preOrder EXCEPT ![o] = x]
      /\ revived' = IF status = "open" THEN ClaimsOver(o, tags, PreOrders) ELSE revived
  BY <1>1
<1> HIDE DEF tags, kept, status, reserved, advance
<1>6. /\ x \in PreOrderRows /\ x.status = status /\ x.tagged = tags /\ x.billed = 0
  BY <1>3, <1>4, NoOrderFacts DEF PreOrderRows
<1> HIDE DEF x
<1>7. \A u \in tags : \A p \in PreOrders \ {o} : ~Holds(p, u)
  BY <1>5 DEF NotTaggedTwice, Holds, Open, OnTheBooks
<1>8. /\ revived \subseteq revived' /\ revived' \subseteq Imeis
      /\ status = "open" => \A u \in tags \ revived' : \A p \in PreOrders \ {o} : ~Claims(p, u)
  <2>1. CASE status = "open"
    BY <1>3, <1>5, <1>7, <2>1, ClaimIsNoted
  <2>2. CASE status # "open"
    BY <1>5, <2>2, PreFacts
  <2> QED BY <2>1, <2>2
<1>9. preOrder[o].billed = 0 /\ editing[o] = NoEdit /\ NoEdit \in Edits
  BY <1>2, PreFacts DEF PreInv, BillsCounted, EditsFit
<1>10. editing' = [editing EXCEPT ![o] = NoEdit]
  BY <1>2, <1>9, PreFacts
<1>11. \A u \in Imeis \ revived' : \A p \in PreOrders \ {o} :
               x.status \in {"open", "OnHold"} /\ u \in x.tagged => ~Claims(p, u)
  BY <1>4, <1>6, <1>8
<1>12. /\ x.status # "cancelled" /\ x.billed = preOrder[o].billed
       /\ Cardinality(x.tagged) <= OrderQty
       /\ x.status # "none" \/ preOrder[o].status = "none"
  BY <1>2, <1>3, <1>4, <1>6, <1>9
<1>13. /\ x \in PreOrderRows /\ preOrder' = [preOrder EXCEPT ![o] = x] /\ NoEdit \in Edits
       /\ UNCHANGED <<lifecycle, preSale>> /\ revived \subseteq revived' /\ revived' \subseteq Imeis
  BY <1>2, <1>5, <1>6, <1>8, <1>9
<1> QED BY <1>10, <1>11, <1>12, <1>13, OrderKeeps

\* A row that keeps its tags or drops some, and stays or goes off the books,
\* lays no claim.
LEMMA QuietOrderKeeps ==
    ASSUME PreInv, NEW o \in PreOrders, NEW x \in PreOrderRows, NEW e \in {editing[o], NoEdit},
           preOrder' = [preOrder EXCEPT ![o] = x], editing' = [editing EXCEPT ![o] = e],
           UNCHANGED <<lifecycle, preSale, revived>>,
           x.billed = preOrder[o].billed, x.status # "none" \/ preOrder[o].status = "none",
           x.tagged \subseteq preOrder[o].tagged, e # NoEdit => x.tagged = preOrder[o].tagged,
           x.status \in {"open", "OnHold"} => OnTheBooks(o),
           x.status = "cancelled" => /\ x.reserved = 0 /\ x.advance \notin {"draft", "posted"}
                                     /\ x.afterwards # "none" => x.advance = "reversed"
    PROVE  PreInv'
<1>1. e \in Edits /\ NoEdit \in Edits /\ preOrder[o].tagged \subseteq Imeis /\ revived \subseteq Imeis
  BY PreFacts
<1>2. Cardinality(x.tagged) <= OrderQty
  <2>1. IsFiniteSet(preOrder[o].tagged)
    BY <1>1, PreBookingsAssumption, FS_Subset
  <2>2. Cardinality(x.tagged) <= Cardinality(preOrder[o].tagged) /\ IsFiniteSet(x.tagged)
    BY <2>1, FS_Subset
  <2>3. Cardinality(preOrder[o].tagged) <= OrderQty
    BY DEF PreInv, TagsFit
  <2>4. Cardinality(preOrder[o].tagged) \in Nat /\ Cardinality(x.tagged) \in Nat
    BY <2>1, <2>2, FS_CardinalityType
  <2> QED BY <2>2, <2>3, <2>4, PreBookingsAssumption
<1>3. e # NoEdit => /\ e.new \in Imeis /\ e.heldBy \subseteq {o}
                    /\ IF e.old = NoImei THEN Cardinality(x.tagged) < OrderQty
                       ELSE e.old \in x.tagged
                    /\ x.status # "none"
  BY DEF PreInv, EditsFit
<1>4. \A u \in Imeis \ revived' : \A p \in PreOrders \ {o} :
               x.status \in {"open", "OnHold"} /\ u \in x.tagged => ~Claims(p, u)
  BY DEF PreInv, OneClaim, Claims
<1> QED BY <1>1, <1>2, <1>3, <1>4, OrderKeeps

LEMMA ChangesOne ==
    ASSUME PreInv, NEW o \in PreOrders, Changes({o})
    PROVE  editing' = [editing EXCEPT ![o] = NoEdit]
  BY PreFacts DEF Changes

LEMMA SameEdit ==
    ASSUME PreInv, NEW o \in PreOrders, UNCHANGED editing
    PROVE  editing' = [editing EXCEPT ![o] = editing[o]]
  BY PreFacts

LEMMA CheckEditKeeps ==
    ASSUME PreInv, NEW o \in PreOrders, NEW old \in Imeis \cup {NoImei}, NEW new \in Imeis,
           CheckEdit(o, old, new)
    PROVE  PreInv'
<1> DEFINE e == [old |-> old, new |-> new, heldBy |-> HoldersOf(new)]
           x == preOrder[o]
<1>1. /\ editing' = [editing EXCEPT ![o] = e] /\ UNCHANGED <<preOrder, lifecycle, preSale, revived>>
      /\ preOrder[o].status = "open" /\ ~HeldElsewhere(o, new)
      /\ IF old = NoImei THEN Cardinality(preOrder[o].tagged) < OrderQty
         ELSE old \in preOrder[o].tagged
  BY DEF CheckEdit, Editable, Open, EditFits
<1>2. HoldersOf(new) \subseteq {o} /\ HoldersOf(new) \subseteq PreOrders
  BY <1>1 DEF HeldElsewhere, HoldersOf
<1>3. e \in Edits /\ e.old = old /\ e.new = new /\ e.heldBy = HoldersOf(new)
  BY <1>2 DEF Edits
<1> HIDE DEF e
<1>4. x \in PreOrderRows /\ preOrder' = [preOrder EXCEPT ![o] = x] /\ revived \subseteq Imeis
  BY <1>1, PreFacts
<1>5. /\ x.billed = preOrder[o].billed /\ x.status = "open" /\ x.tagged = preOrder[o].tagged
      /\ Cardinality(x.tagged) <= OrderQty
  BY <1>1 DEF PreInv, TagsFit
<1>6. \A u \in Imeis \ revived' : \A p \in PreOrders \ {o} :
               x.status \in {"open", "OnHold"} /\ u \in x.tagged => ~Claims(p, u)
  BY <1>1 DEF PreInv, OneClaim, Claims, OnTheBooks
<1> HIDE DEF x
<1>7. e # NoEdit => /\ e.new \in Imeis /\ e.heldBy \subseteq {o}
                    /\ IF e.old = NoImei THEN Cardinality(x.tagged) < OrderQty
                       ELSE e.old \in x.tagged
                    /\ x.status # "none"
  BY <1>1, <1>2, <1>3, <1>5
<1> QED BY <1>1, <1>3, <1>4, <1>5, <1>6, <1>7, OrderKeeps

LEMMA SwapFits ==
    ASSUME NEW T \in SUBSET Imeis, NEW old, NEW new \in Imeis, Cardinality(T) <= OrderQty,
           IF old = NoImei THEN Cardinality(T) < OrderQty ELSE old \in T
    PROVE  Cardinality((T \ {old}) \cup {new}) <= OrderQty
<1>1. IsFiniteSet(T) /\ Cardinality(T) \in Nat
  BY PreBookingsAssumption, FS_Subset, FS_CardinalityType
<1>2. /\ IsFiniteSet(T \ {old}) /\ Cardinality(T \ {old}) \in Nat
      /\ Cardinality(T \ {old}) = IF old \in T THEN Cardinality(T) - 1 ELSE Cardinality(T)
  BY <1>1, FS_RemoveElement, FS_CardinalityType
<1>3. Cardinality((T \ {old}) \cup {new}) <= Cardinality(T \ {old}) + 1
  <2>1. Cardinality((T \ {old}) \cup {new}) =
          IF new \in T \ {old} THEN Cardinality(T \ {old}) ELSE Cardinality(T \ {old}) + 1
    BY <1>2, FS_AddElement
  <2> QED BY <1>2, <2>1
<1>4. IsFiniteSet((T \ {old}) \cup {new}) /\ Cardinality((T \ {old}) \cup {new}) \in Nat
  BY <1>2, FS_AddElement, FS_CardinalityType
<1>5. Cardinality(T \ {old}) + 1 <= OrderQty
  BY <1>1, <1>2, PreBookingsAssumption
<1> QED BY <1>2, <1>3, <1>4, <1>5, PreBookingsAssumption

LEMMA SaveEditKeeps ==
    ASSUME PreInv, NEW o \in PreOrders, SaveEdit(o)
    PROVE  PreInv'
<1> DEFINE e == editing[o]
           tags == (preOrder[o].tagged \ {e.old}) \cup {e.new}
           x == [preOrder[o] EXCEPT !.tagged = tags]
<1>1. /\ e # NoEdit /\ preOrder' = [preOrder EXCEPT ![o] = x]
      /\ editing' = [editing EXCEPT ![o] = NoEdit]
      /\ revived' = ClaimsOver(o, {e.new}, e.heldBy) /\ UNCHANGED <<lifecycle, preSale>>
  BY DEF SaveEdit
<1>2. /\ e.new \in Imeis /\ e.heldBy \subseteq {o} /\ preOrder[o].status # "none"
      /\ Cardinality(tags) <= OrderQty
  BY <1>1, PreFacts, SwapFits DEF PreInv, EditsFit, TagsFit
<1> HIDE DEF e
<1>3. /\ x \in PreOrderRows /\ x.tagged = tags /\ x.billed = preOrder[o].billed
      /\ x.status = preOrder[o].status /\ x.reserved = preOrder[o].reserved
      /\ x.advance = preOrder[o].advance /\ x.afterwards = preOrder[o].afterwards
  BY <1>2, PreFacts DEF PreOrderRows
<1> HIDE DEF x
<1>4. /\ revived \subseteq revived' /\ revived' \subseteq Imeis
      /\ \A u \in {e.new} \ revived' : \A p \in PreOrders \ {o} : ~Claims(p, u)
  <2>1. \A u \in {e.new} : \A p \in PreOrders \ {o} : ~(Holds(p, u) /\ p \in e.heldBy)
    BY <1>2
  <2>2. {e.new} \in SUBSET Imeis
    BY <1>2
  <2> QED BY <1>1, <2>1, <2>2, ClaimIsNoted
<1>5. \A u \in Imeis \ revived' : \A p \in PreOrders \ {o} :
               x.status \in {"open", "OnHold"} /\ u \in x.tagged => ~Claims(p, u)
  <2> SUFFICES ASSUME NEW u \in Imeis \ revived', NEW p \in PreOrders \ {o},
                      x.status \in {"open", "OnHold"}, u \in x.tagged
               PROVE  ~Claims(p, u)
    OBVIOUS
  <2>1. CASE u = e.new
    BY <1>4, <2>1
  <2>2. CASE u # e.new
    <3>1. Claims(o, u) /\ u \in Imeis \ revived
      BY <1>3, <1>4, <2>2 DEF Claims, OnTheBooks
    <3> QED BY <3>1 DEF PreInv, OneClaim
  <2> QED BY <2>1, <2>2
<1>6. x.status = "cancelled" => /\ x.reserved = 0 /\ x.advance \notin {"draft", "posted"}
                                /\ x.afterwards # "none" => x.advance = "reversed"
  BY <1>3 DEF PreInv, CancelledIsSettled
<1>7. NoEdit \in Edits /\ Cardinality(x.tagged) <= OrderQty /\ x.status # "none"
  BY <1>2, <1>3, PreFacts
<1> QED BY <1>1, <1>3, <1>4, <1>5, <1>6, <1>7, OrderKeeps

LEMMA ApproveAdvanceKeeps ==
    ASSUME PreInv, NEW o \in PreOrders, ApproveAdvance(o)
    PROVE  PreInv'
<1> DEFINE x == [preOrder[o] EXCEPT !.advance = "posted"]
<1>1. /\ preOrder' = [preOrder EXCEPT ![o] = x] /\ preOrder[o].advance = "draft"
      /\ UNCHANGED <<lifecycle, preSale, editing, revived>>
  BY PreFacts DEF ApproveAdvance
<1>2. /\ x \in PreOrderRows /\ x.billed = preOrder[o].billed /\ x.tagged = preOrder[o].tagged
      /\ x.status = preOrder[o].status
  BY PreFacts DEF PreOrderRows
<1> HIDE DEF x
<1>3. x.status # "cancelled" /\ (x.status \in {"open", "OnHold"} => OnTheBooks(o))
  BY <1>1, <1>2 DEF PreInv, CancelledIsSettled, OnTheBooks
<1> QED BY <1>1, <1>2, <1>3, SameEdit, QuietOrderKeeps

LEMMA ReleaseImeiKeeps ==
    ASSUME PreInv, NEW o \in PreOrders, NEW u \in Imeis, ReleaseImei(o, u)
    PROVE  PreInv'
<1> DEFINE x == [preOrder[o] EXCEPT !.tagged = preOrder[o].tagged \ {u}]
<1>1. /\ preOrder' = [preOrder EXCEPT ![o] = x] /\ preOrder[o].status = "open" /\ Changes({o})
      /\ UNCHANGED <<lifecycle, preSale, revived>>
  BY DEF ReleaseImei, Editable, Open
<1>2. /\ x \in PreOrderRows /\ x.billed = preOrder[o].billed
      /\ x.tagged \subseteq preOrder[o].tagged /\ x.status = preOrder[o].status
  BY PreFacts DEF PreOrderRows
<1> HIDE DEF x
<1>3. x.status = "open" /\ OnTheBooks(o)
  BY <1>1, <1>2 DEF OnTheBooks
<1> QED BY <1>1, <1>2, <1>3, ChangesOne, QuietOrderKeeps

LEMMA HoldOrderKeeps ==
    ASSUME PreInv, NEW o \in PreOrders, HoldOrder(o)
    PROVE  PreInv'
<1> DEFINE status == IF preOrder[o].status = "open" THEN "OnHold" ELSE "open"
           x == [preOrder[o] EXCEPT !.status = status]
<1>1. /\ preOrder' = [preOrder EXCEPT ![o] = x] /\ OnTheBooks(o) /\ Changes({o})
      /\ UNCHANGED <<lifecycle, preSale, revived>>
  BY DEF HoldOrder
<1>2. status \in {"open", "OnHold"}
  OBVIOUS
<1> HIDE DEF status
<1>3. /\ x \in PreOrderRows /\ x.billed = preOrder[o].billed /\ x.tagged = preOrder[o].tagged
      /\ x.status = status
  BY <1>2, PreFacts DEF PreOrderRows
<1> HIDE DEF x
<1>4. x.status \notin {"none", "cancelled"}
  BY <1>2, <1>3
<1> QED BY <1>1, <1>3, <1>4, ChangesOne, QuietOrderKeeps

LEMMA LapseKeeps ==
    ASSUME PreInv, NEW o \in PreOrders, Lapse(o)
    PROVE  PreInv'
<1> DEFINE x == [preOrder[o] EXCEPT !.lapsed = TRUE]
<1>1. /\ preOrder' = [preOrder EXCEPT ![o] = x] /\ OnTheBooks(o)
      /\ UNCHANGED <<lifecycle, preSale, editing, revived>>
  BY DEF Lapse
<1>2. /\ x \in PreOrderRows /\ x.billed = preOrder[o].billed /\ x.tagged = preOrder[o].tagged
      /\ x.status = preOrder[o].status
  BY PreFacts DEF PreOrderRows
<1> HIDE DEF x
<1>3. x.status \notin {"none", "cancelled"}
  BY <1>1, <1>2 DEF OnTheBooks
<1> QED BY <1>1, <1>2, <1>3, SameEdit, QuietOrderKeeps

LEMMA ReleaseExpiredKeeps ==
    ASSUME PreInv, NEW o \in PreOrders, ReleaseExpired(o)
    PROVE  PreInv'
<1> DEFINE x == [preOrder[o] EXCEPT !.reserved = 0]
<1>1. /\ preOrder' = [preOrder EXCEPT ![o] = x] /\ preOrder[o].status = "open"
      /\ UNCHANGED <<lifecycle, preSale, editing, revived>>
  BY DEF ReleaseExpired, Open
<1>2. 0 \in 0..OrderQty
  BY PreBookingsAssumption
<1>3. /\ x \in PreOrderRows /\ x.billed = preOrder[o].billed /\ x.tagged = preOrder[o].tagged
      /\ x.status = preOrder[o].status
  BY <1>2, PreFacts DEF PreOrderRows
<1> HIDE DEF x
<1>4. x.status \notin {"none", "cancelled"} /\ OnTheBooks(o)
  BY <1>1, <1>3 DEF OnTheBooks
<1> QED BY <1>1, <1>3, <1>4, SameEdit, QuietOrderKeeps

LEMMA CancelPreBookingKeeps ==
    ASSUME PreInv, NEW o \in PreOrders, NEW retain \in BOOLEAN, NEW refundMode \in BOOLEAN,
           CancelPreBooking(o, retain, refundMode)
    PROVE  PreInv'
<1> DEFINE afterwards == IF preOrder[o].advance # "posted" THEN "none"
                         ELSE IF retain THEN "creditDraft"
                         ELSE IF refundMode THEN "refundDraft" ELSE "none"
           advance == AdvanceEnded(o)
           x == [NoOrder EXCEPT !.status = "cancelled", !.advance = advance, !.afterwards = afterwards]
<1>1. /\ preOrder' = [preOrder EXCEPT ![o] = x] /\ preOrder[o].billed = 0 /\ Changes({o})
      /\ UNCHANGED <<lifecycle, preSale, revived>>
  BY DEF CancelPreBooking
<1>2. preOrder[o].advance \in {"none", "draft", "posted", "reversed"}
  BY PreFacts DEF PreOrderRows
<1>3. advance \in {"none", "reversed"} /\ (preOrder[o].advance = "posted" => advance = "reversed")
  BY <1>2 DEF AdvanceEnded
<1>4. /\ afterwards \in {"none", "creditDraft", "refundDraft"}
      /\ afterwards # "none" => preOrder[o].advance = "posted"
  OBVIOUS
<1> HIDE DEF advance, afterwards
<1>5. x \in PreOrderRows
  BY <1>3, <1>4, NoOrderFacts DEF PreOrderRows
<1>6. x.status = "cancelled" /\ x.advance = advance /\ x.afterwards = afterwards
  BY NoOrderFacts DEF PreOrderRows
<1>7. x.billed = NoOrder.billed /\ x.reserved = NoOrder.reserved /\ x.tagged = NoOrder.tagged
  BY NoOrderFacts DEF PreOrderRows
<1> HIDE DEF x
<1>8. /\ x.billed = preOrder[o].billed /\ x.reserved = 0 /\ x.tagged \subseteq preOrder[o].tagged
  BY <1>1, <1>7, NoOrderFacts
<1>9. x.advance \notin {"draft", "posted"} /\ (x.afterwards # "none" => x.advance = "reversed")
  BY <1>3, <1>4, <1>6
<1> QED BY <1>1, <1>5, <1>6, <1>8, <1>9, ChangesOne, QuietOrderKeeps

-----------------------------------------------------------------------------
(* Bills                                                                   *)

\* The bill of one order changes what the order has billed and reserved; no
\* promise moves.
LEMMA RecountKeeps ==
    ASSUME PreInv, NEW on, UNCHANGED revived,
           \A o \in PreOrders : o # on => preOrder'[o] = preOrder[o],
           on \in PreOrders => /\ preOrder'[on].status = preOrder[on].status
                               /\ preOrder'[on].tagged = preOrder[on].tagged
                               /\ preOrder'[on].advance = preOrder[on].advance
                               /\ preOrder'[on].afterwards = preOrder[on].afterwards
                               /\ \/ preOrder[on].status # "cancelled"
                                  \/ preOrder'[on].reserved = preOrder[on].reserved,
           \A o \in PreOrders : editing'[o] \in {editing[o], NoEdit}
    PROVE  OneClaim' /\ EditsFit' /\ TagsFit' /\ CancelledIsSettled'
<1>1. \A o \in PreOrders : /\ preOrder'[o].status = preOrder[o].status
                           /\ preOrder'[o].tagged = preOrder[o].tagged
                           /\ preOrder'[o].advance = preOrder[o].advance
                           /\ preOrder'[o].afterwards = preOrder[o].afterwards
                           /\ \/ preOrder[o].status # "cancelled"
                              \/ preOrder'[o].reserved = preOrder[o].reserved
  OBVIOUS
<1>2. OneClaim'
  BY <1>1 DEF PreInv, OneClaim, Claims, OnTheBooks
<1>3. EditsFit'
  BY <1>1 DEF PreInv, EditsFit
<1>4. TagsFit' /\ CancelledIsSettled'
  BY <1>1 DEF PreInv, TagsFit, CancelledIsSettled
<1> QED BY <1>2, <1>3, <1>4

LEMMA UnitsBilledIsFinite ==
    ASSUME NEW o \in PreOrders
    PROVE  IsFiniteSet(UnitsBilled(o)) /\ Cardinality(UnitsBilled(o)) \in Nat
<1>1. IsFiniteSet(PreSales \X Imeis)
  BY PreBookingsAssumption, FS_Product
<1>2. UnitsBilled(o) \in SUBSET (PreSales \X Imeis)
  BY DEF UnitsBilled
<1>3. IsFiniteSet(UnitsBilled(o))
  BY <1>1, <1>2, FS_Subset
<1> QED BY <1>3, FS_CardinalityType

LEMMA RowOfUnits ==
    ASSUME NEW s, NEW us \in SUBSET Imeis
    PROVE  /\ IsFiniteSet({s} \X us) /\ Cardinality({s} \X us) = Cardinality(us)
           /\ Cardinality(us) \in Nat /\ IsFiniteSet(us)
<1>1. IsFiniteSet(us) /\ Cardinality(us) \in Nat
  BY PreBookingsAssumption, FS_Subset, FS_CardinalityType
<1>2. IsFiniteSet({s}) /\ Cardinality({s}) = 1
  BY FS_Singleton
<1>3. IsFiniteSet({s} \X us) /\ Cardinality({s} \X us) = 1 * Cardinality(us)
  BY <1>1, <1>2, FS_Product
<1> QED BY <1>1, <1>3

\* Adding a row of units to those billed adds their number, and back.
LEMMA RowAdds ==
    ASSUME NEW T, IsFiniteSet(T), NEW s, NEW us \in SUBSET Imeis,
           NEW R, R = {s} \X us, T \cap R = {}
    PROVE  Cardinality(T \cup R) = Cardinality(T) + Cardinality(us)
<1>1. IsFiniteSet(R) /\ Cardinality(R) = Cardinality(us) /\ Cardinality(us) \in Nat
  BY RowOfUnits
<1>2. Cardinality(T) \in Nat /\ Cardinality(T \cap R) = 0
  BY FS_CardinalityType, FS_EmptySet
<1>3. Cardinality(T \cup R) = Cardinality(T) + Cardinality(R) - Cardinality(T \cap R)
  BY <1>1, FS_Union
<1> QED BY <1>1, <1>2, <1>3

LEMMA BillsOfOthers ==
    ASSUME PreInv, NEW s \in PreSales, NEW y, preSale' = [preSale EXCEPT ![s] = y],
           NEW o \in PreOrders, preSale[s].status # "live" \/ preSale[s].on # o,
           y.status # "live" \/ y.on # o
    PROVE  UnitsBilled(o)' = UnitsBilled(o)
<1>1. \A t \in PreSales : preSale'[t] = IF t = s THEN y ELSE preSale[t]
  BY PreFacts
<1>2. LiveOn(o)' = LiveOn(o) /\ s \notin LiveOn(o)
  BY <1>1 DEF LiveOn
<1> QED BY <1>1, <1>2 DEF UnitsBilled

LEMMA NoSaleFacts ==
    /\ NoSale \in PreSaleRows /\ NoSale.units = {} /\ NoSale.returned = {} /\ NoSale.status # "live"
  BY DEF NoSale, PreSaleRows

LEMMA SellKeeps ==
    ASSUME PreInv, NEW s \in PreSales, NEW on \in PreOrders \cup {WalkIn}, NEW us \in SUBSET Imeis,
           Sell(s, on, us)
    PROVE  PreInv'
<1> DEFINE y == [NoSale EXCEPT !.status = "live", !.on = on, !.units = us]
<1>1. /\ preSale[s].status = "none" /\ us # {} /\ Billable(on, Cardinality(us))
      /\ \A u \in us : lifecycle[u] = "InStock"
      /\ preSale' = [preSale EXCEPT ![s] = y] /\ revived' = revived
      /\ lifecycle' = [u \in Imeis |-> IF u \in us THEN "Sold" ELSE lifecycle[u]]
      /\ preOrder' = IF on = WalkIn THEN preOrder
                     ELSE [preOrder EXCEPT ![on].billed = @ + Cardinality(us),
                                           ![on].reserved = Remaining(on, Cardinality(us))]
      /\ Changes({on} \cap PreOrders)
  BY DEF Sell, Sellable
<1>2. /\ y \in PreSaleRows /\ y.status = "live" /\ y.on = on /\ y.units = us /\ y.returned = {}
  BY NoSaleFacts DEF PreSaleRows
<1> HIDE DEF y
<1>3. /\ \A t \in PreSales : preSale'[t] = IF t = s THEN y ELSE preSale[t]
      /\ preSale' \in [PreSales -> PreSaleRows]
  BY <1>1, <1>2, PreFacts
<1>4. /\ editing' \in [PreOrders -> Edits]
      /\ \A o \in PreOrders : editing'[o] \in {editing[o], NoEdit}
  BY <1>1, PreFacts DEF Changes
<1>5. Cardinality(us) \in Nat
  BY RowOfUnits
<1>6. ASSUME on \in PreOrders
      PROVE  \E x \in PreOrderRows :
               /\ preOrder' = [preOrder EXCEPT ![on] = x]
               /\ x.status = preOrder[on].status /\ x.tagged = preOrder[on].tagged
               /\ x.advance = preOrder[on].advance /\ x.afterwards = preOrder[on].afterwards
               /\ x.billed = preOrder[on].billed + Cardinality(us)
  <2> DEFINE billed == preOrder[on].billed + Cardinality(us)
             reserved == Remaining(on, Cardinality(us))
             x == [preOrder[on] EXCEPT !.billed = billed, !.reserved = reserved]
  <2>1. on # WalkIn
    BY <1>6, PreBookingsAssumption DEF WalkIn
  <2>2. preOrder[on] \in PreOrderRows /\ preOrder[on].billed \in 0..OrderQty /\ preOrder[on].reserved \in 0..OrderQty
    BY <1>6, PreFacts DEF PreOrderRows
  <2>3. billed \in 0..OrderQty
    BY <1>1, <1>5, <2>1, <2>2, PreBookingsAssumption DEF Billable
  <2>4. reserved \in 0..OrderQty
    <3>1. preOrder[on].reserved - Cardinality(us) \in Int /\ 0 \in Int
      BY <1>5, <2>2
    <3>2. reserved \in {0, preOrder[on].reserved - Cardinality(us)} /\ reserved >= 0
      BY <3>1, MaxOfTwo DEF Remaining
    <3> HIDE DEF reserved
    <3> QED BY <1>5, <2>2, <3>2, PreBookingsAssumption
  <2>5. preOrder' = [preOrder EXCEPT ![on] = x]
    BY <1>1, <1>6, <2>1, PreFacts
  <2> HIDE DEF billed, reserved
  <2>6. /\ x \in PreOrderRows /\ x.billed = billed
        /\ x.status = preOrder[on].status /\ x.tagged = preOrder[on].tagged
        /\ x.advance = preOrder[on].advance /\ x.afterwards = preOrder[on].afterwards
    BY <2>2, <2>3, <2>4 DEF PreOrderRows
  <2> HIDE DEF x
  <2> QED BY <2>5, <2>6 DEF billed
<1>7. /\ preOrder' \in [PreOrders -> PreOrderRows]
      /\ \A o \in PreOrders : o # on => preOrder'[o] = preOrder[o]
      /\ on \in PreOrders => /\ preOrder'[on].status = preOrder[on].status
                             /\ preOrder'[on].tagged = preOrder[on].tagged
                             /\ preOrder'[on].advance = preOrder[on].advance
                             /\ preOrder'[on].afterwards = preOrder[on].afterwards
                             /\ preOrder'[on].billed = preOrder[on].billed + Cardinality(us)
                             /\ preOrder[on].status = "open"
  <2>1. CASE on \in PreOrders
    <3>1. preOrder[on].status = "open"
      BY <1>1, <2>1, PreBookingsAssumption DEF WalkIn, Billable, Open
    <3>2. PICK x \in PreOrderRows :
               /\ preOrder' = [preOrder EXCEPT ![on] = x]
               /\ x.status = preOrder[on].status /\ x.tagged = preOrder[on].tagged
               /\ x.advance = preOrder[on].advance /\ x.afterwards = preOrder[on].afterwards
               /\ x.billed = preOrder[on].billed + Cardinality(us)
      BY <1>6, <2>1
    <3>3. /\ preOrder' \in [PreOrders -> PreOrderRows]
          /\ \A o \in PreOrders : preOrder'[o] = IF o = on THEN x ELSE preOrder[o]
      BY <3>2, PreFacts
    <3> QED BY <2>1, <3>1, <3>2, <3>3
  <2>2. CASE on \notin PreOrders
    <3>1. preOrder' = preOrder
      BY <1>1, <2>2
    <3> QED BY <2>2, <3>1, PreFacts
  <2> QED BY <2>1, <2>2
<1>8. OneClaim' /\ EditsFit' /\ TagsFit' /\ CancelledIsSettled'
  BY <1>1, <1>4, <1>7, RecountKeeps
<1>9. PreTypeOK'
  <2>1. lifecycle' \in [Imeis -> {"InStock", "Sold"}]
    BY <1>1, PreFacts
  <2>2. \A t \in PreSales : preSale'[t].returned \subseteq preSale'[t].units
    BY <1>2, <1>3, PreFacts
  <2> QED BY <1>1, <1>3, <1>4, <1>7, <2>1, <2>2, PreFacts DEF PreTypeOK
<1>10. BillsCounted'
  <2> SUFFICES ASSUME NEW o \in PreOrders
               PROVE  /\ preOrder'[o].billed = Cardinality(UnitsBilled(o)')
                      /\ preOrder'[o].status = "none" => preOrder'[o].billed = 0
    BY DEF BillsCounted
  <2>1. CASE o # on
    <3>1. UnitsBilled(o)' = UnitsBilled(o)
      BY <1>1, <1>2, <2>1, BillsOfOthers
    <3> QED BY <1>7, <2>1, <3>1 DEF PreInv, BillsCounted
  <2>2. CASE o = on
    <3> DEFINE R == {s} \X us
    <3>1. UnitsBilled(o)' = UnitsBilled(o) \cup R
      BY <1>1, <1>2, <1>3, <2>2 DEF UnitsBilled, LiveOn
    <3>2. UnitsBilled(o) \cap R = {} /\ R = {s} \X us
      BY <1>1 DEF UnitsBilled, LiveOn
    <3> HIDE DEF R
    <3>3. Cardinality(UnitsBilled(o)') = Cardinality(UnitsBilled(o)) + Cardinality(us)
      <4>1. IsFiniteSet(UnitsBilled(o))
        BY UnitsBilledIsFinite
      <4>2. Cardinality(UnitsBilled(o) \cup R) = Cardinality(UnitsBilled(o)) + Cardinality(us)
        BY <3>2, <4>1, RowAdds
      <4> QED BY <3>1, <4>2
    <3> QED BY <1>7, <2>2, <3>3 DEF PreInv, BillsCounted
  <2> QED BY <2>1, <2>2
<1>11. UnitsFollowBills'
  <2>1. \A u \in Imeis : Out(u)' = IF u \in us THEN {s} ELSE Out(u)
    <3> SUFFICES ASSUME NEW u \in Imeis PROVE Out(u)' = IF u \in us THEN {s} ELSE Out(u)
      OBVIOUS
    <3>1. s \notin Out(u)
      BY <1>1 DEF Out
    <3>2. CASE u \in us
      <4>1. Out(u) = {}
        BY <1>1, <3>2 DEF PreInv, UnitsFollowBills
      <4> QED BY <1>2, <1>3, <3>2, <4>1 DEF Out
    <3>3. CASE u \notin us
      BY <1>2, <1>3, <3>1, <3>3 DEF Out
    <3> QED BY <3>2, <3>3
  <2>2. \A u \in Imeis : lifecycle'[u] = IF u \in us THEN "Sold" ELSE lifecycle[u]
    BY <1>1
  <2>3. \A t \in PreSales : preSale'[t].status # "live" => preSale'[t].units = {} /\ preSale'[t].returned = {}
    BY <1>2, <1>3 DEF PreInv, UnitsFollowBills
  <2> QED BY <2>1, <2>2, <2>3 DEF PreInv, UnitsFollowBills
<1> QED BY <1>8, <1>9, <1>10, <1>11 DEF PreInv

\* Units come back or go out again on one bill; what was billed stays billed.
LEMMA ReturnedOnly ==
    ASSUME PreInv, NEW s \in PreSales, NEW back \in SUBSET preSale[s].units,
           preSale' = [preSale EXCEPT ![s].returned = back],
           lifecycle' \in [Imeis -> {"InStock", "Sold"}], UNCHANGED <<preOrder, editing, revived>>
    PROVE  /\ PreTypeOK' /\ OneClaim' /\ EditsFit' /\ TagsFit' /\ BillsCounted' /\ CancelledIsSettled'
           /\ \A t \in PreSales : /\ preSale'[t].status = preSale[t].status
                                  /\ preSale'[t].units = preSale[t].units
                                  /\ preSale'[t].returned = IF t = s THEN back ELSE preSale[t].returned
<1> DEFINE y == [preSale[s] EXCEPT !.returned = back]
<1>1. /\ preSale' = [preSale EXCEPT ![s] = y] /\ y \in PreSaleRows /\ y.status = preSale[s].status
      /\ y.units = preSale[s].units /\ y.on = preSale[s].on /\ y.returned = back
  BY PreFacts DEF PreSaleRows
<1> HIDE DEF y
<1>2. /\ preSale' \in [PreSales -> PreSaleRows]
      /\ \A t \in PreSales : preSale'[t] = IF t = s THEN y ELSE preSale[t]
  BY <1>1, PreFacts
<1>3. PreTypeOK'
  <2>1. \A t \in PreSales : preSale'[t].returned \subseteq preSale'[t].units
    BY <1>1, <1>2, PreFacts
  <2> QED BY <1>2, <2>1, PreFacts DEF PreTypeOK
<1>4. OneClaim' /\ EditsFit' /\ TagsFit' /\ CancelledIsSettled'
  <2>1. WalkIn \notin PreOrders
    BY PreBookingsAssumption DEF WalkIn
  <2> QED BY <2>1, RecountKeeps
<1>5. BillsCounted'
  <2>1. \A o \in PreOrders : UnitsBilled(o)' = UnitsBilled(o)
    BY <1>1, <1>2 DEF UnitsBilled, LiveOn
  <2> QED BY <2>1 DEF PreInv, BillsCounted
<1> QED BY <1>1, <1>2, <1>3, <1>4, <1>5

LEMMA ReturnUnitKeeps ==
    ASSUME PreInv, NEW s \in PreSales, NEW u \in Imeis, ReturnUnit(s, u)
    PROVE  PreInv'
<1> DEFINE back == preSale[s].returned \cup {u}
<1>1. /\ preSale[s].status = "live" /\ u \in preSale[s].units \ preSale[s].returned
      /\ preSale' = [preSale EXCEPT ![s].returned = back]
      /\ lifecycle' = [lifecycle EXCEPT ![u] = IF @ = "Sold" THEN "InStock" ELSE @]
      /\ UNCHANGED <<preOrder, editing, revived>>
  BY DEF ReturnUnit
<1>2. back \in SUBSET preSale[s].units /\ lifecycle' \in [Imeis -> {"InStock", "Sold"}]
  BY <1>1, PreFacts
<1>3. Out(u) = {s} /\ lifecycle[u] = "Sold"
  BY <1>1 DEF PreInv, UnitsFollowBills, Out
<1>4. \A v \in Imeis : /\ lifecycle'[v] = IF v = u THEN "InStock" ELSE lifecycle[v]
                       /\ v \in back <=> v = u \/ v \in preSale[s].returned
  BY <1>1, <1>3, PreFacts
<1> HIDE DEF back
<1>5. /\ PreTypeOK' /\ OneClaim' /\ EditsFit' /\ TagsFit' /\ BillsCounted' /\ CancelledIsSettled'
      /\ \A t \in PreSales : /\ preSale'[t].status = preSale[t].status
                             /\ preSale'[t].units = preSale[t].units
                             /\ preSale'[t].returned = IF t = s THEN back ELSE preSale[t].returned
  BY <1>1, <1>2, ReturnedOnly
<1>6. UnitsFollowBills'
  <2>1. \A v \in Imeis : Out(v)' = IF v = u THEN {} ELSE Out(v)
    BY <1>3, <1>4, <1>5 DEF Out
  <2>2. \A t \in PreSales : preSale'[t].status # "live" => preSale'[t].units = {} /\ preSale'[t].returned = {}
    BY <1>1, <1>5 DEF PreInv, UnitsFollowBills
  <2> QED BY <1>4, <2>1, <2>2 DEF PreInv, UnitsFollowBills
<1> QED BY <1>5, <1>6 DEF PreInv

LEMMA CancelReturnKeeps ==
    ASSUME PreInv, NEW s \in PreSales, NEW u \in Imeis, CancelReturn(s, u)
    PROVE  PreInv'
<1> DEFINE back == preSale[s].returned \ {u}
<1>1. /\ u \in preSale[s].returned /\ lifecycle[u] = "InStock"
      /\ preSale' = [preSale EXCEPT ![s].returned = back]
      /\ lifecycle' = [lifecycle EXCEPT ![u] = "Sold"]
      /\ UNCHANGED <<preOrder, editing, revived>>
  BY DEF CancelReturn, InStock
<1>2. /\ back \in SUBSET preSale[s].units /\ lifecycle' \in [Imeis -> {"InStock", "Sold"}]
      /\ u \in preSale[s].units
  BY <1>1, PreFacts
<1>3. Out(u) = {} /\ preSale[s].status = "live"
  BY <1>1 DEF PreInv, UnitsFollowBills
<1>4. \A v \in Imeis : /\ lifecycle'[v] = IF v = u THEN "Sold" ELSE lifecycle[v]
                       /\ v \in back <=> v # u /\ v \in preSale[s].returned
  BY <1>1, PreFacts
<1> HIDE DEF back
<1>5. /\ PreTypeOK' /\ OneClaim' /\ EditsFit' /\ TagsFit' /\ BillsCounted' /\ CancelledIsSettled'
      /\ \A t \in PreSales : /\ preSale'[t].status = preSale[t].status
                             /\ preSale'[t].units = preSale[t].units
                             /\ preSale'[t].returned = IF t = s THEN back ELSE preSale[t].returned
  BY <1>1, <1>2, ReturnedOnly
<1>6. UnitsFollowBills'
  <2>1. \A v \in Imeis : Out(v)' = IF v = u THEN {s} ELSE Out(v)
    BY <1>2, <1>3, <1>4, <1>5 DEF Out
  <2>2. \A t \in PreSales : preSale'[t].status # "live" => preSale'[t].units = {} /\ preSale'[t].returned = {}
    BY <1>3, <1>5 DEF PreInv, UnitsFollowBills
  <2> QED BY <1>4, <2>1, <2>2 DEF PreInv, UnitsFollowBills
<1> QED BY <1>5, <1>6 DEF PreInv

LEMMA CancelSaleKeeps ==
    ASSUME PreInv, NEW s \in PreSales, CancelSale(s)
    PROVE  PreInv'
<1>0. PICK on, us : on = preSale[s].on /\ us = preSale[s].units
  OBVIOUS
<1> DEFINE y == [NoSale EXCEPT !.status = "cancelled"]
           R == {s} \X us
<1>1. /\ preSale[s].status = "live" /\ preSale[s].returned = {}
      /\ preSale' = [preSale EXCEPT ![s] = y] /\ revived' = revived
      /\ lifecycle' = [u \in Imeis |-> IF u \in us THEN "InStock" ELSE lifecycle[u]]
      /\ preOrder' = IF on = WalkIn THEN preOrder
                     ELSE [preOrder EXCEPT ![on].billed = @ - Cardinality(us)]
      /\ Changes({on} \cap PreOrders)
  BY <1>0 DEF CancelSale
<1>2. /\ y \in PreSaleRows /\ y.status = "cancelled" /\ y.units = {} /\ y.returned = {}
  BY NoSaleFacts DEF PreSaleRows
<1> HIDE DEF y
<1>3. /\ \A t \in PreSales : preSale'[t] = IF t = s THEN y ELSE preSale[t]
      /\ preSale' \in [PreSales -> PreSaleRows]
  BY <1>1, <1>2, PreFacts
<1>4. /\ editing' \in [PreOrders -> Edits]
      /\ \A o \in PreOrders : editing'[o] \in {editing[o], NoEdit}
  BY <1>1, PreFacts DEF Changes
<1>5. /\ us \in SUBSET Imeis /\ Cardinality(us) \in Nat /\ on \in PreOrders \cup {WalkIn}
      /\ R = {s} \X us
  <2>1. us \in SUBSET Imeis /\ on \in PreOrders \cup {WalkIn}
    BY <1>0, PreFacts DEF PreSaleRows
  <2> QED BY <2>1, RowOfUnits
<1> HIDE DEF R
<1>6. ASSUME on \in PreOrders
      PROVE  /\ UnitsBilled(on) = UnitsBilled(on)' \cup R /\ UnitsBilled(on)' \cap R = {}
             /\ IsFiniteSet(UnitsBilled(on)')
             /\ Cardinality(UnitsBilled(on)') \in Nat
             /\ Cardinality(UnitsBilled(on)) = Cardinality(UnitsBilled(on)') + Cardinality(us)
  <2>1. UnitsBilled(on) = UnitsBilled(on)' \cup R /\ UnitsBilled(on)' \cap R = {}
    <3>1. s \in LiveOn(on) /\ LiveOn(on)' = LiveOn(on) \ {s}
      BY <1>0, <1>1, <1>2, <1>3 DEF LiveOn
    <3>2. UnitsBilled(on)' = {x \in UnitsBilled(on) : x[1] # s}
      BY <1>2, <1>3, <3>1 DEF UnitsBilled
    <3>3. \A x \in PreSales \X Imeis : x[1] = s => (x \in UnitsBilled(on) <=> x \in R)
      BY <1>0, <1>5, <3>1 DEF UnitsBilled
    <3>4. R \subseteq PreSales \X Imeis /\ UnitsBilled(on) \subseteq PreSales \X Imeis /\ \A x \in R : x[1] = s
      BY <1>5 DEF UnitsBilled
    <3> QED BY <3>2, <3>3, <3>4
  <2>2. IsFiniteSet(UnitsBilled(on)') /\ Cardinality(UnitsBilled(on)') \in Nat
    <3>1. IsFiniteSet(UnitsBilled(on)) /\ UnitsBilled(on)' \subseteq UnitsBilled(on)
      BY <1>6, <2>1, UnitsBilledIsFinite
    <3> QED BY <3>1, FS_Subset, FS_CardinalityType
  <2>3. Cardinality(UnitsBilled(on)' \cup R) = Cardinality(UnitsBilled(on)') + Cardinality(us)
    BY <1>5, <2>1, <2>2, RowAdds
  <2> QED BY <2>1, <2>2, <2>3
<1>7. ASSUME on \in PreOrders
      PROVE  \E x \in PreOrderRows :
               /\ preOrder' = [preOrder EXCEPT ![on] = x]
               /\ x.status = preOrder[on].status /\ x.tagged = preOrder[on].tagged
               /\ x.advance = preOrder[on].advance /\ x.afterwards = preOrder[on].afterwards
               /\ x.reserved = preOrder[on].reserved
               /\ x.billed = Cardinality(UnitsBilled(on)')
  <2> DEFINE billed == preOrder[on].billed - Cardinality(us)
             x == [preOrder[on] EXCEPT !.billed = billed]
  <2>1. on # WalkIn
    BY <1>7, PreBookingsAssumption DEF WalkIn
  <2>2. preOrder[on] \in PreOrderRows /\ preOrder[on].billed \in 0..OrderQty
    BY <1>7, PreFacts DEF PreOrderRows
  <2>3. preOrder[on].billed = Cardinality(UnitsBilled(on))
    BY <1>7 DEF PreInv, BillsCounted
  <2>4. billed = Cardinality(UnitsBilled(on)') /\ billed \in 0..OrderQty
    BY <1>5, <1>6, <1>7, <2>2, <2>3, PreBookingsAssumption
  <2>5. preOrder' = [preOrder EXCEPT ![on] = x]
    BY <1>1, <1>7, <2>1, PreFacts
  <2> HIDE DEF billed
  <2>6. /\ x \in PreOrderRows /\ x.billed = billed /\ x.reserved = preOrder[on].reserved
        /\ x.status = preOrder[on].status /\ x.tagged = preOrder[on].tagged
        /\ x.advance = preOrder[on].advance /\ x.afterwards = preOrder[on].afterwards
    BY <2>2, <2>4 DEF PreOrderRows
  <2> HIDE DEF x
  <2> QED BY <2>4, <2>5, <2>6
<1>8. /\ preOrder' \in [PreOrders -> PreOrderRows]
      /\ \A o \in PreOrders : o # on => preOrder'[o] = preOrder[o]
      /\ on \in PreOrders => /\ preOrder'[on].status = preOrder[on].status
                             /\ preOrder'[on].tagged = preOrder[on].tagged
                             /\ preOrder'[on].advance = preOrder[on].advance
                             /\ preOrder'[on].afterwards = preOrder[on].afterwards
                             /\ preOrder'[on].reserved = preOrder[on].reserved
                             /\ preOrder'[on].billed = Cardinality(UnitsBilled(on)')
  <2>1. CASE on \in PreOrders
    <3>1. PICK x \in PreOrderRows :
               /\ preOrder' = [preOrder EXCEPT ![on] = x]
               /\ x.status = preOrder[on].status /\ x.tagged = preOrder[on].tagged
               /\ x.advance = preOrder[on].advance /\ x.afterwards = preOrder[on].afterwards
               /\ x.reserved = preOrder[on].reserved
               /\ x.billed = Cardinality(UnitsBilled(on)')
      BY <1>7, <2>1
    <3>2. /\ preOrder' \in [PreOrders -> PreOrderRows]
          /\ \A o \in PreOrders : preOrder'[o] = IF o = on THEN x ELSE preOrder[o]
      BY <3>1, PreFacts
    <3> QED BY <2>1, <3>1, <3>2
  <2>2. CASE on \notin PreOrders
    <3>1. preOrder' = preOrder
      BY <1>1, <1>5, <2>2
    <3> QED BY <2>2, <3>1, PreFacts
  <2> QED BY <2>1, <2>2
<1>9. OneClaim' /\ EditsFit' /\ TagsFit' /\ CancelledIsSettled'
  BY <1>1, <1>4, <1>8, RecountKeeps
<1>10. PreTypeOK'
  <2>1. lifecycle' \in [Imeis -> {"InStock", "Sold"}]
    BY <1>1, PreFacts
  <2>2. \A t \in PreSales : preSale'[t].returned \subseteq preSale'[t].units
    BY <1>2, <1>3, PreFacts
  <2> QED BY <1>1, <1>3, <1>4, <1>8, <2>1, <2>2, PreFacts DEF PreTypeOK
<1>11. BillsCounted'
  <2> SUFFICES ASSUME NEW o \in PreOrders
               PROVE  /\ preOrder'[o].billed = Cardinality(UnitsBilled(o)')
                      /\ preOrder'[o].status = "none" => preOrder'[o].billed = 0
    BY DEF BillsCounted
  <2>1. CASE o # on
    <3>1. UnitsBilled(o)' = UnitsBilled(o)
      BY <1>0, <1>1, <1>2, <2>1, BillsOfOthers
    <3> QED BY <1>8, <2>1, <3>1 DEF PreInv, BillsCounted
  <2>2. CASE o = on
    <3>1. preOrder'[on].billed = Cardinality(UnitsBilled(on)')
      BY <1>8, <2>2
    <3>2. ASSUME preOrder'[on].status = "none"
          PROVE  Cardinality(UnitsBilled(on)') = 0
      <4>1. Cardinality(UnitsBilled(on)) = 0
        BY <1>8, <2>2, <3>2 DEF PreInv, BillsCounted
      <4> QED BY <1>5, <1>6, <2>2, <4>1
    <3> QED BY <2>2, <3>1, <3>2
  <2> QED BY <2>1, <2>2
<1>12. UnitsFollowBills'
  <2>1. \A u \in Imeis : Out(u)' = IF u \in us THEN {} ELSE Out(u)
    <3> SUFFICES ASSUME NEW u \in Imeis PROVE Out(u)' = IF u \in us THEN {} ELSE Out(u)
      OBVIOUS
    <3>1. CASE u \in us
      <4>1. Out(u) = {s}
        BY <1>0, <1>1, <3>1 DEF PreInv, UnitsFollowBills, Out
      <4> QED BY <1>2, <1>3, <3>1, <4>1 DEF Out
    <3>2. CASE u \notin us
      <4>1. s \notin Out(u)
        BY <1>0, <3>2 DEF Out
      <4> QED BY <1>2, <1>3, <3>2, <4>1 DEF Out
    <3> QED BY <3>1, <3>2
  <2>2. \A u \in Imeis : lifecycle'[u] = IF u \in us THEN "InStock" ELSE lifecycle[u]
    BY <1>1
  <2>3. \A t \in PreSales : preSale'[t].status # "live" => preSale'[t].units = {} /\ preSale'[t].returned = {}
    BY <1>2, <1>3 DEF PreInv, UnitsFollowBills
  <2> QED BY <2>1, <2>2, <2>3 DEF PreInv, UnitsFollowBills
<1> QED BY <1>9, <1>10, <1>11, <1>12 DEF PreInv

-----------------------------------------------------------------------------
(* The invariant holds, and says what it should                            *)

LEMMA PreStarts == PreInit => PreInv
<1> SUFFICES ASSUME PreInit PROVE PreInv
  OBVIOUS
<1>1. /\ \A o \in PreOrders : preOrder[o] = NoOrder /\ editing[o] = NoEdit
      /\ \A s \in PreSales : preSale[s] = NoSale
      /\ \A u \in Imeis : lifecycle[u] = "InStock"
  BY DEF PreInit
<1>2. PreTypeOK
  BY NoOrderFacts, NoSaleFacts DEF PreInit, PreTypeOK, Edits, NoEdit
<1>3. \A o \in PreOrders : /\ preOrder[o].status = "none" /\ preOrder[o].billed = 0
                          /\ preOrder[o].tagged = {} /\ UnitsBilled(o) = {}
  BY <1>1, NoOrderFacts, NoSaleFacts DEF NoOrder, UnitsBilled, LiveOn
<1>4. Cardinality({}) = 0
  BY FS_EmptySet
<1>5. OneClaim /\ EditsFit /\ CancelledIsSettled
  BY <1>1, <1>3 DEF OneClaim, Claims, OnTheBooks, EditsFit, CancelledIsSettled
<1>6. TagsFit /\ BillsCounted
  <2>1. \A o \in PreOrders : Cardinality(preOrder[o].tagged) = 0 /\ Cardinality(UnitsBilled(o)) = 0
    BY <1>3, <1>4
  <2> QED BY <1>3, <2>1, PreBookingsAssumption DEF TagsFit, BillsCounted
<1>7. UnitsFollowBills
  BY <1>1, NoSaleFacts DEF UnitsFollowBills, Out
<1> QED BY <1>2, <1>5, <1>6, <1>7 DEF PreInv

LEMMA PreSteps == PreInv /\ [PreNext]_preVars => PreInv'
<1> SUFFICES ASSUME PreInv, [PreNext]_preVars PROVE PreInv'
  OBVIOUS
<1>1. ASSUME NEW o \in PreOrders, NEW given \in SUBSET Imeis, NEW reserve \in BOOLEAN,
             NEW fate \in {"submitted", "relaxed", "draft"}, NEW paid \in Advances,
             CreatePreBooking(o, given, reserve, fate, paid)
      PROVE  PreInv'
  BY <1>1, CreateKeeps
<1>2. ASSUME NEW o \in PreOrders, ApproveAdvance(o) PROVE PreInv'
  BY <1>2, ApproveAdvanceKeeps
<1>3. ASSUME NEW o \in PreOrders, NEW old \in Imeis \cup {NoImei}, NEW new \in Imeis, CheckEdit(o, old, new)
      PROVE  PreInv'
  BY <1>3, CheckEditKeeps
<1>4. ASSUME NEW o \in PreOrders, SaveEdit(o) PROVE PreInv'
  BY <1>4, SaveEditKeeps
<1>5. ASSUME NEW o \in PreOrders, NEW u \in Imeis, ReleaseImei(o, u) PROVE PreInv'
  BY <1>5, ReleaseImeiKeeps
<1>6. ASSUME NEW o \in PreOrders, HoldOrder(o) PROVE PreInv'
  BY <1>6, HoldOrderKeeps
<1>7. ASSUME NEW o \in PreOrders, Lapse(o) PROVE PreInv'
  BY <1>7, LapseKeeps
<1>8. ASSUME NEW o \in PreOrders, ReleaseExpired(o) PROVE PreInv'
  BY <1>8, ReleaseExpiredKeeps
<1>9. ASSUME NEW o \in PreOrders, NEW retain \in BOOLEAN, NEW refundMode \in BOOLEAN,
             CancelPreBooking(o, retain, refundMode)
      PROVE  PreInv'
  BY <1>9, CancelPreBookingKeeps
<1>10. ASSUME NEW s \in PreSales, NEW on \in PreOrders \cup {WalkIn}, NEW us \in SUBSET Imeis, Sell(s, on, us)
       PROVE  PreInv'
  BY <1>10, SellKeeps
<1>11. ASSUME NEW s \in PreSales, NEW u \in Imeis, ReturnUnit(s, u) PROVE PreInv'
  BY <1>11, ReturnUnitKeeps
<1>12. ASSUME NEW s \in PreSales, NEW u \in Imeis, CancelReturn(s, u) PROVE PreInv'
  BY <1>12, CancelReturnKeeps
<1>13. ASSUME NEW s \in PreSales, CancelSale(s) PROVE PreInv'
  BY <1>13, CancelSaleKeeps
<1>14. CASE UNCHANGED preVars
  <2>1. PreTypeOK' /\ OneClaim'
    BY <1>14 DEF preVars, PreInv, PreTypeOK, OneClaim, Claims, OnTheBooks
  <2>2. EditsFit' /\ TagsFit' /\ BillsCounted'
    BY <1>14 DEF preVars, PreInv, EditsFit, TagsFit, BillsCounted, UnitsBilled, LiveOn
  <2>3. UnitsFollowBills' /\ CancelledIsSettled'
    BY <1>14 DEF preVars, PreInv, UnitsFollowBills, Out, CancelledIsSettled
  <2> QED BY <2>1, <2>2, <2>3 DEF PreInv
<1> QED BY <1>1, <1>2, <1>3, <1>4, <1>5, <1>6, <1>7, <1>8, <1>9, <1>10, <1>11, <1>12, <1>13, <1>14
        DEF PreNext

\* A set whose members are all the same has at most one.
LEMMA NoneOrOne ==
    ASSUME NEW S, \A x, y \in S : x = y
    PROVE  /\ IsFiniteSet(S)
           /\ S = {} => Cardinality(S) = 0
           /\ S # {} => Cardinality(S) = 1
           /\ Cardinality(S) <= 1
<1>1. CASE S = {}
  BY <1>1, FS_EmptySet
<1>2. CASE S # {}
  <2>1. PICK x \in S : S = {x}
    BY <1>2
  <2> QED BY <2>1, FS_Singleton
<1> QED BY <1>1, <1>2

LEMMA PreInvSays == PreInv => PreTypeOK /\ PromisesHold
<1> SUFFICES ASSUME PreInv PROVE PromisesHold
  BY DEF PreInv
<1>1. LifecycleFollowsBills
  <2> SUFFICES ASSUME NEW u \in Imeis
               PROVE  Cardinality(Out(u)) = IF lifecycle[u] = "Sold" THEN 1 ELSE 0
    BY DEF LifecycleFollowsBills
  <2>1. /\ lifecycle[u] = "Sold" <=> Out(u) # {}
        /\ \A s, t \in Out(u) : s = t
    BY DEF PreInv, UnitsFollowBills
  <2> QED BY <2>1, NoneOrOne
<1>2. OrderCountsBills
  BY DEF PreInv, OrderCountsBills, BillsCounted, TagsFit
<1>3. OneHolder
  <2> SUFFICES ASSUME NEW u \in Imeis \ revived PROVE Cardinality(HoldersOf(u)) <= 1
    BY DEF OneHolder
  <2>1. \A o, p \in HoldersOf(u) : o = p
    BY DEF PreInv, OneClaim, HoldersOf, Holds, Claims, Open, OnTheBooks
  <2> QED BY <2>1, NoneOrOne
<1> QED BY <1>1, <1>2, <1>3 DEF PreInv, PromisesHold

\* An order counts what its bills billed, a unit is with one customer, an IMEI
\* is held for one order unless the overlap was noted, and a cancelled order is
\* settled (create_pre_booking, create_pos_invoice, cancel_pre_booking).
THEOREM PreBookingsSound == PreSpec => [](PreTypeOK /\ PromisesHold)
<1> QED BY PreStarts, PreSteps, PreInvSays, PTL DEF PreSpec

-----------------------------------------------------------------------------
(* The trail: the inductive invariant                                      *)

OwnedBy(q, buyer) == proforma[q].status # "none" /\ proforma[q].buyer = buyer

\* Documents that exist are some customer's, and an order of a proforma is of
\* the customer whose proforma it is.
DocumentsAreOwned ==
    /\ \A q \in Proformas : proforma[q].status # "none" => proforma[q].buyer \in Buyers
    /\ \A o \in Promises :
         /\ promise[o].status # "none" => promise[o].buyer \in Buyers
         /\ promise[o].of # Nothing => OwnedBy(promise[o].of, promise[o].buyer)

BillsNameTheirOwn ==
    \A b \in TrailBills :
        bills[b].source # Nothing => OwnedBy(bills[b].source, bills[b].buyer)

\* What was billed stands as it was billed, once.
BilledStands ==
    /\ \A b \in TrailBills : \A o \in Promises : o \in bills[b].goods =>
         promise[o].status = "open" /\ promise[o].buyer = bills[b].buyer
    /\ \A b, c \in TrailBills : \A o \in Promises :
         o \in bills[b].goods /\ o \in bills[c].goods => b = c

TrailInv ==
    /\ TrailTypeOK
    /\ DocumentsAreOwned
    /\ BillsNameTheirOwn
    /\ BilledStands
    /\ NoMoreThanPosted

LEMMA TrailFacts ==
    ASSUME TrailInv
    PROVE  /\ proforma \in [Proformas -> ProformaRows] /\ promise \in [Promises -> PromiseRows]
           /\ tillCart \in [Registers -> TrailCarts] /\ heldCarts \in [Registers -> SUBSET TrailCarts]
           /\ bills \in Seq(TrailBillRows) /\ TrailBills = 1..Len(bills) /\ Len(bills) \in Nat
           /\ \A b \in TrailBills : bills[b] \in TrailBillRows
           /\ NoTillCart \in TrailCarts
  BY DEF TrailInv, TrailTypeOK, TrailBills, NoTillCart, TrailCarts

\* No bill is written and no billed order touched: bills stay explained.
LEMMA DocumentsKeep ==
    ASSUME TrailInv, UNCHANGED bills,
           proforma' \in [Proformas -> ProformaRows], promise' \in [Promises -> PromiseRows],
           tillCart' \in [Registers -> TrailCarts], heldCarts' \in [Registers -> SUBSET TrailCarts],
           \A q \in Proformas :
               \/ proforma'[q] = proforma[q]
               \/ /\ proforma'[q].status # "none" /\ proforma'[q].buyer \in Buyers
                  /\ proforma[q].status = "none" \/ proforma'[q].buyer = proforma[q].buyer,
           \A o \in Promises : Billed(o) => promise'[o] = promise[o],
           \A o \in Promises :
               \/ promise'[o] = promise[o]
               \/ /\ promise'[o].buyer = promise[o].buyer /\ promise'[o].of = promise[o].of
                  /\ promise[o].status # "none"
               \/ /\ promise'[o].buyer \in Buyers
                  /\ promise'[o].of # Nothing => OwnedBy(promise'[o].of, promise'[o].buyer)
    PROVE  TrailInv'
<1>1. TrailTypeOK'
  BY TrailFacts DEF TrailTypeOK
<1>2. DocumentsAreOwned'
  BY TrailFacts DEF TrailInv, DocumentsAreOwned, OwnedBy, PromiseRows
<1>3. TrailBills' = TrailBills
  BY DEF TrailBills
<1>4. BillsNameTheirOwn'
  BY <1>3, TrailFacts DEF TrailInv, BillsNameTheirOwn, OwnedBy, TrailBillRows
<1>5. BilledStands'
  BY <1>3 DEF TrailInv, BilledStands, Billed
<1>6. NoMoreThanPosted'
  <2>1. \A b \in TrailBills : PostedFor(bills[b].goods)' = PostedFor(bills[b].goods)
    BY DEF PostedFor, Billed
  <2> QED BY <1>3, <2>1 DEF TrailInv, NoMoreThanPosted
<1> QED BY <1>1, <1>2, <1>4, <1>5, <1>6 DEF TrailInv

\* Only a till's cart or shelf changes.
LEMMA CartsKeep ==
    ASSUME TrailInv, UNCHANGED <<proforma, promise, bills>>,
           tillCart' \in [Registers -> TrailCarts], heldCarts' \in [Registers -> SUBSET TrailCarts]
    PROVE  TrailInv'
  BY TrailFacts, DocumentsKeep

\* One bill is written, of orders none of which was billed yet.
LEMMA BillKeeps ==
    ASSUME TrailInv, NEW buyer \in Buyers, NEW goods \in SUBSET Goods,
           NEW source \in Proformas \cup {Nothing}, NEW advance \in 0..1,
           Writes(buyer, goods, source, advance), UNCHANGED <<proforma, promise, heldCarts>>,
           tillCart' \in [Registers -> TrailCarts],
           source # Nothing => OwnedBy(source, buyer),
           \A o \in goods \cap Promises : ContractHolds(o, buyer),
           advance <= Cardinality(PostedFor(goods))
    PROVE  TrailInv'
<1> DEFINE new == [buyer |-> buyer, goods |-> goods \ {Accessory}, source |-> source, advance |-> advance]
<1>1. bills' = Append(bills, new)
  BY DEF Writes
<1>2. /\ new \in TrailBillRows /\ new.buyer = buyer /\ new.goods = goods \ {Accessory}
      /\ new.source = source /\ new.advance = advance
  BY DEF TrailBillRows
<1> HIDE DEF new
<1>0. PICK n : n = Len(bills) + 1
  OBVIOUS
<1>3. /\ bills' \in Seq(TrailBillRows) /\ TrailBills' = 1..n /\ n \in TrailBills'
      /\ n \notin TrailBills /\ TrailBills' = TrailBills \cup {n}
      /\ \A b \in TrailBills' : bills'[b] = IF b = n THEN new ELSE bills[b]
  BY <1>0, <1>1, <1>2, TrailFacts DEF TrailBills
<1>4. TrailTypeOK'
  BY <1>3, TrailFacts DEF TrailTypeOK
<1>5. DocumentsAreOwned'
  BY DEF TrailInv, DocumentsAreOwned, OwnedBy
<1>6. BillsNameTheirOwn'
  BY <1>2, <1>3 DEF TrailInv, BillsNameTheirOwn, OwnedBy
<1>7. BilledStands'
  <2>1. \A o \in new.goods \cap Promises :
           promise[o].status = "open" /\ promise[o].buyer = buyer /\ ~Billed(o)
    BY <1>2 DEF ContractHolds
  <2>2. \A o \in new.goods \cap Promises, b \in TrailBills : o \notin bills[b].goods
    BY <2>1 DEF Billed
  <2>3. ASSUME NEW b \in TrailBills', NEW o \in Promises, o \in bills'[b].goods
        PROVE  promise'[o].status = "open" /\ promise'[o].buyer = bills'[b].buyer
    <3>1. promise' = promise
      OBVIOUS
    <3>2. CASE b = n
      BY <1>2, <1>3, <2>1, <2>3, <3>1, <3>2
    <3>3. CASE b # n
      <4>1. b \in TrailBills /\ bills'[b] = bills[b]
        BY <1>3, <2>3, <3>3
      <4> QED BY <2>3, <3>1, <4>1 DEF TrailInv, BilledStands
    <3> QED BY <3>2, <3>3
  <2>4. ASSUME NEW b \in TrailBills', NEW c \in TrailBills', NEW o \in Promises,
               o \in bills'[b].goods, o \in bills'[c].goods
        PROVE  b = c
    <3>1. \A d \in TrailBills' : d # n => d \in TrailBills /\ bills'[d] = bills[d]
      BY <1>3
    <3>2. bills'[n] = new
      BY <1>3
    <3>3. CASE b = n \/ c = n
      BY <2>2, <2>4, <3>1, <3>2, <3>3
    <3>4. CASE b # n /\ c # n
      <4>1. /\ b \in TrailBills /\ c \in TrailBills
            /\ o \in bills[b].goods /\ o \in bills[c].goods
        BY <2>4, <3>1, <3>4
      <4> QED BY <4>1 DEF TrailInv, BilledStands
    <3> QED BY <3>3, <3>4
  <2> QED BY <2>3, <2>4 DEF BilledStands
<1>8. NoMoreThanPosted'
  <2>1. PostedFor(new.goods) = PostedFor(goods)
    BY <1>2, OrderTrailAssumption DEF PostedFor, Accessory
  <2>2. \A b \in TrailBills : PostedFor(bills[b].goods)' = PostedFor(bills[b].goods)
    BY <1>3 DEF PostedFor
  <2>3. PostedFor(bills[n].goods)' = PostedFor(goods)
    BY <1>3, <2>1 DEF PostedFor
  <2> QED BY <1>2, <1>3, <2>2, <2>3 DEF TrailInv, NoMoreThanPosted
<1> QED BY <1>4, <1>5, <1>6, <1>7, <1>8 DEF TrailInv

-----------------------------------------------------------------------------
(* Step by step                                                            *)

LEMMA MakeProformaKeeps ==
    ASSUME TrailInv, NEW q \in Proformas, NEW buyer \in Buyers, MakeProforma(q, buyer)
    PROVE  TrailInv'
<1> DEFINE x == [status |-> "submitted", buyer |-> buyer]
<1>1. /\ proforma[q].status = "none" /\ proforma' = [proforma EXCEPT ![q] = x]
      /\ UNCHANGED <<promise, tillCart, heldCarts, bills>>
  BY DEF MakeProforma
<1>2. x \in ProformaRows /\ x.status = "submitted" /\ x.buyer \in Buyers
  BY DEF ProformaRows
<1> HIDE DEF x
<1>3. /\ proforma' \in [Proformas -> ProformaRows]
      /\ \A p \in Proformas : proforma'[p] = IF p = q THEN x ELSE proforma[p]
  BY <1>1, <1>2, TrailFacts
<1> QED BY <1>1, <1>2, <1>3, TrailFacts, DocumentsKeep

LEMMA LoseProformaKeeps ==
    ASSUME TrailInv, NEW q \in Proformas, LoseProforma(q)
    PROVE  TrailInv'
<1> DEFINE x == [proforma[q] EXCEPT !.status = "lost"]
<1>1. /\ proforma[q].status = "submitted" /\ proforma' = [proforma EXCEPT ![q] = x]
      /\ UNCHANGED <<promise, tillCart, heldCarts, bills>>
  BY DEF LoseProforma
<1>2. /\ x \in ProformaRows /\ x.status = "lost" /\ x.buyer = proforma[q].buyer
      /\ proforma[q].buyer \in Buyers
  BY <1>1, TrailFacts DEF ProformaRows, TrailInv, DocumentsAreOwned
<1> HIDE DEF x
<1>3. /\ proforma' \in [Proformas -> ProformaRows]
      /\ \A p \in Proformas : proforma'[p] = IF p = q THEN x ELSE proforma[p]
  BY <1>1, <1>2, TrailFacts
<1> QED BY <1>1, <1>2, <1>3, TrailFacts, DocumentsKeep

\* An order is made of a proforma of its customer, or of none.
LEMMA PrebookKeeps ==
    ASSUME TrailInv, NEW o \in Promises, NEW q \in Proformas \cup {Nothing}, NEW buyer \in Buyers,
           Prebook(o, q, buyer), UNCHANGED <<proforma, heldCarts, bills>>,
           tillCart' \in [Registers -> TrailCarts]
    PROVE  TrailInv'
<1> DEFINE of == Names(q, buyer)
           x == [status |-> "open", buyer |-> buyer, of |-> of, advance |-> 0]
<1>1. promise[o].status = "none" /\ promise' = [promise EXCEPT ![o] = x]
  BY DEF Prebook
<1>2. /\ of \in Proformas \cup {Nothing}
      /\ of # Nothing => OwnedBy(of, buyer)
  BY DEF Names, OwnedBy
<1> HIDE DEF of
<1>3. x \in PromiseRows /\ x.buyer = buyer /\ x.of = of
  BY <1>2 DEF PromiseRows
<1> HIDE DEF x
<1>4. /\ promise' \in [Promises -> PromiseRows]
      /\ \A p \in Promises : promise'[p] = IF p = o THEN x ELSE promise[p]
  BY <1>1, <1>3, TrailFacts
<1>5. ~Billed(o)
  BY <1>1 DEF Billed, TrailInv, BilledStands
<1>6. \A p \in Promises : \/ promise'[p] = promise[p]
                         \/ /\ promise'[p].buyer \in Buyers
                            /\ promise'[p].of # Nothing => OwnedBy(promise'[p].of, promise'[p].buyer)
  BY <1>2, <1>3, <1>4
<1>7. \A p \in Promises : Billed(p) => promise'[p] = promise[p]
  BY <1>4, <1>5
<1> QED BY <1>4, <1>6, <1>7, TrailFacts, DocumentsKeep

LEMMA PrebookProformaKeeps ==
    ASSUME TrailInv, NEW o \in Promises, NEW q \in Proformas, PrebookProforma(o, q)
    PROVE  TrailInv'
<1>1. proforma[q].buyer \in Buyers
  BY DEF PrebookProforma, Loadable, TrailInv, DocumentsAreOwned
<1> QED BY <1>1, TrailFacts, PrebookKeeps DEF PrebookProforma

LEMMA PrebookBasketKeeps ==
    ASSUME TrailInv, NEW t \in Registers, NEW o \in Promises, PrebookBasket(t, o)
    PROVE  TrailInv'
<1>1. PICK q \in (tillCart[t].goods \cap Proformas) \cup {Nothing} : Prebook(o, q, tillCart[t].buyer)
  BY DEF PrebookBasket
<1>2. tillCart[t].buyer \in Buyers
  BY TrailFacts DEF PrebookBasket, TrailCarts
<1>3. tillCart' \in [Registers -> TrailCarts] /\ UNCHANGED <<proforma, heldCarts, bills>>
  BY TrailFacts DEF PrebookBasket, Put
<1> QED BY <1>1, <1>2, <1>3, PrebookKeeps

\* An order that is not billed changes its status or its advance.
LEMMA UnbilledKeeps ==
    ASSUME TrailInv, NEW o \in Promises, ~Billed(o), promise[o].status = "open", NEW x \in PromiseRows,
           x.buyer = promise[o].buyer, x.of = promise[o].of, promise' = [promise EXCEPT ![o] = x],
           UNCHANGED <<proforma, tillCart, heldCarts, bills>>
    PROVE  TrailInv'
<1>1. /\ promise' \in [Promises -> PromiseRows]
      /\ \A p \in Promises : promise'[p] = IF p = o THEN x ELSE promise[p]
  BY TrailFacts
<1> QED BY <1>1, TrailFacts, DocumentsKeep

LEMMA PostAdvanceKeeps ==
    ASSUME TrailInv, NEW o \in Promises, PostAdvance(o)
    PROVE  TrailInv'
<1> DEFINE x == [promise[o] EXCEPT !.advance = 1]
<1>1. /\ promise[o].status = "open" /\ ~Billed(o) /\ promise' = [promise EXCEPT ![o] = x]
      /\ UNCHANGED <<proforma, tillCart, heldCarts, bills>>
  BY DEF PostAdvance
<1>2. x \in PromiseRows /\ x.buyer = promise[o].buyer /\ x.of = promise[o].of
  BY TrailFacts DEF PromiseRows
<1> HIDE DEF x
<1> QED BY <1>1, <1>2, UnbilledKeeps

LEMMA CancelPromiseKeeps ==
    ASSUME TrailInv, NEW o \in Promises, CancelPromise(o)
    PROVE  TrailInv'
<1> DEFINE x == [promise[o] EXCEPT !.status = "cancelled", !.advance = 0]
<1>1. /\ promise[o].status = "open" /\ ~Billed(o)
      /\ promise' = [promise EXCEPT ![o].status = "cancelled", ![o].advance = 0]
      /\ UNCHANGED <<proforma, tillCart, heldCarts, bills>>
  BY DEF CancelPromise
<1>2. x \in PromiseRows /\ x.buyer = promise[o].buyer /\ x.of = promise[o].of
  <2>1. promise[o] \in PromiseRows /\ 0 \in 0..1
    BY TrailFacts
  <2>2. x \in PromiseRows
    BY <2>1 DEF PromiseRows
  <2> QED BY <2>1, <2>2 DEF PromiseRows
<1>3. promise' = [promise EXCEPT ![o] = x]
  BY <1>1, TrailFacts
<1> HIDE DEF x
<1> QED BY <1>1, <1>2, <1>3, UnbilledKeeps

LEMMA KeptIsACart ==
    ASSUME NEW cart \in TrailCarts
    PROVE  Kept(cart) \in TrailCarts
<1>1. 0 \in 0..1
  OBVIOUS
<1> QED BY <1>1 DEF Kept, TrailCarts

LEMMA LoadProformaKeeps ==
    ASSUME TrailInv, NEW t \in Registers, NEW q \in Proformas, LoadProforma(t, q)
    PROVE  TrailInv'
<1> DEFINE x == [NoTillCart EXCEPT !.buyer = proforma[q].buyer, !.goods = {q}, !.source = q]
<1>1. tillCart' = [tillCart EXCEPT ![t] = x] /\ UNCHANGED <<proforma, promise, heldCarts, bills>>
  BY DEF LoadProforma, Put
<1>2. proforma[q].buyer \in Buyers \cup {Nothing} /\ {q} \in SUBSET Goods
  BY TrailFacts DEF ProformaRows, Goods
<1>3. x \in TrailCarts
  BY <1>2, TrailFacts DEF TrailCarts
<1> HIDE DEF x
<1> QED BY <1>1, <1>3, TrailFacts, CartsKeep

LEMMA LoadPromiseKeeps ==
    ASSUME TrailInv, NEW t \in Registers, NEW o \in Promises, LoadPromise(t, o)
    PROVE  TrailInv'
<1> DEFINE x == [NoTillCart EXCEPT !.buyer = promise[o].buyer, !.goods = {o}, !.order = o,
                               !.advance = promise[o].advance]
<1>1. tillCart' = [tillCart EXCEPT ![t] = x] /\ UNCHANGED <<proforma, promise, heldCarts, bills>>
  BY DEF LoadPromise, Put
<1>2. promise[o].buyer \in Buyers \cup {Nothing} /\ {o} \in SUBSET Goods /\ promise[o].advance \in 0..1
  BY TrailFacts DEF PromiseRows, Goods
<1>3. x \in TrailCarts
  BY <1>2 DEF NoTillCart, TrailCarts
<1> HIDE DEF x
<1> QED BY <1>1, <1>3, TrailFacts, CartsKeep

\* Lines, customers, page loads and shelves.
LEMMA TillKeeps ==
    ASSUME TrailInv, NEW t \in Registers,
           \/ \E buyer \in Buyers : ChooseBuyer(t, buyer)
           \/ \E g \in Goods : Unring(t, g)
           \/ Ring(t) \/ Refresh(t) \/ ClearBasket(t)
    PROVE  TrailInv'
<1>1. tillCart[t] \in TrailCarts /\ NoTillCart \in TrailCarts
  BY TrailFacts
<1>2. \E x \in TrailCarts : tillCart' = [tillCart EXCEPT ![t] = x]
  <2>1. ASSUME NEW buyer \in Buyers, ChooseBuyer(t, buyer)
        PROVE  \E x \in TrailCarts : tillCart' = [tillCart EXCEPT ![t] = x]
    <3>1. [tillCart[t] EXCEPT !.buyer = buyer] \in TrailCarts
      BY <1>1 DEF TrailCarts
    <3> QED BY <2>1, <3>1 DEF ChooseBuyer, Put
  <2>2. ASSUME NEW g \in Goods, Unring(t, g)
        PROVE  \E x \in TrailCarts : tillCart' = [tillCart EXCEPT ![t] = x]
    <3>1. [tillCart[t] EXCEPT !.goods = @ \ {g}] \in TrailCarts
      BY <1>1 DEF TrailCarts
    <3> QED BY <2>2, <3>1 DEF Unring, Put
  <2>3. ASSUME Ring(t)
        PROVE  \E x \in TrailCarts : tillCart' = [tillCart EXCEPT ![t] = x]
    <3>1. Accessory \in Goods
      BY DEF Goods
    <3>2. [tillCart[t] EXCEPT !.goods = @ \cup {Accessory}] \in TrailCarts
      BY <1>1, <3>1 DEF TrailCarts
    <3> QED BY <2>3, <3>2 DEF Ring, Put
  <2>4. ASSUME Refresh(t)
        PROVE  \E x \in TrailCarts : tillCart' = [tillCart EXCEPT ![t] = x]
    BY <1>1, <2>4, KeptIsACart DEF Refresh, Put
  <2>5. ASSUME ClearBasket(t)
        PROVE  \E x \in TrailCarts : tillCart' = [tillCart EXCEPT ![t] = x]
    BY <1>1, <2>5 DEF ClearBasket, Put
  <2> QED BY <2>1, <2>2, <2>3, <2>4, <2>5
<1>3. UNCHANGED <<proforma, promise, heldCarts, bills>>
  BY DEF ChooseBuyer, Unring, Ring, Refresh, ClearBasket
<1> QED BY <1>2, <1>3, TrailFacts, CartsKeep

LEMMA HoldBillKeeps ==
    ASSUME TrailInv, NEW t \in Registers, HoldBill(t)
    PROVE  TrailInv'
<1>1. Kept(tillCart[t]) \in TrailCarts
  BY TrailFacts, KeptIsACart
<1>2. tillCart' \in [Registers -> TrailCarts] /\ heldCarts' \in [Registers -> SUBSET TrailCarts]
  BY <1>1, TrailFacts DEF HoldBill, Put
<1> QED BY <1>2, CartsKeep DEF HoldBill

LEMMA ResumeBillKeeps ==
    ASSUME TrailInv, NEW t \in Registers, ResumeBill(t)
    PROVE  TrailInv'
<1>1. PICK cart \in heldCarts[t] : tillCart' = [tillCart EXCEPT ![t] = cart]
  BY DEF ResumeBill, Put
<1>2. cart \in TrailCarts
  BY <1>1, TrailFacts
<1>3. tillCart' \in [Registers -> TrailCarts] /\ heldCarts' \in [Registers -> SUBSET TrailCarts]
  BY <1>1, <1>2, TrailFacts DEF ResumeBill
<1> QED BY <1>3, CartsKeep DEF ResumeBill

LEMMA PayKeeps ==
    ASSUME TrailInv, NEW t \in Registers, Pay(t)
    PROVE  TrailInv'
<1>0. PICK buyer, goods, source, advance :
        /\ buyer = tillCart[t].buyer /\ goods = tillCart[t].goods
        /\ source = Names(tillCart[t].source, tillCart[t].buyer) /\ advance = tillCart[t].advance
  OBVIOUS
<1>1. /\ buyer # Nothing /\ \A o \in goods \cap Promises : ContractHolds(o, buyer)
      /\ advance <= Cardinality(PostedFor(goods)) /\ Writes(buyer, goods, source, advance)
      /\ tillCart' = [tillCart EXCEPT ![t] = NoTillCart]
      /\ UNCHANGED <<proforma, promise, heldCarts>>
  BY <1>0 DEF Pay, Put
<1>2. buyer \in Buyers /\ goods \in SUBSET Goods /\ advance \in 0..1
  BY <1>0, <1>1, TrailFacts DEF TrailCarts
<1>3. /\ source \in Proformas \cup {Nothing}
      /\ source # Nothing => OwnedBy(source, buyer)
  BY <1>0, TrailFacts DEF Names, OwnedBy, TrailCarts
<1>4. tillCart' \in [Registers -> TrailCarts]
  BY <1>1, TrailFacts
<1> QED BY <1>1, <1>2, <1>3, <1>4, BillKeeps

LEMMA ConvertPromiseKeeps ==
    ASSUME TrailInv, NEW o \in Promises, NEW advance \in 0..1, ConvertPromise(o, advance)
    PROVE  TrailInv'
<1>0. PICK buyer, goods : buyer = promise[o].buyer /\ goods = {o}
  OBVIOUS
<1>1. /\ promise[o].status = "open" /\ ~Billed(o) /\ advance \in {0, promise[o].advance}
      /\ Writes(buyer, goods, Nothing, advance) /\ UNCHANGED <<proforma, promise, tillCart, heldCarts>>
  BY <1>0 DEF ConvertPromise
<1>2. buyer \in Buyers /\ goods \in SUBSET Goods /\ Nothing \in Proformas \cup {Nothing}
  BY <1>0, <1>1 DEF TrailInv, DocumentsAreOwned, Goods
<1>3. \A p \in goods \cap Promises : ContractHolds(p, buyer)
  BY <1>0, <1>1 DEF ContractHolds
<1>4. advance <= Cardinality(PostedFor(goods))
  <2>1. PostedFor(goods) = {p \in {o} : promise[p].advance = 1}
    BY <1>0 DEF PostedFor
  <2>2. CASE promise[o].advance = 1
    <3>1. PostedFor(goods) = {o} /\ Cardinality({o}) = 1
      BY <2>1, <2>2, FS_Singleton
    <3> QED BY <3>1
  <2>3. CASE promise[o].advance # 1
    <3>1. PostedFor(goods) = {} /\ advance = 0
      BY <1>1, <2>1, <2>3
    <3> QED BY <3>1, FS_EmptySet
  <2> QED BY <2>2, <2>3
<1>5. tillCart' \in [Registers -> TrailCarts]
  BY <1>1, TrailFacts
<1> QED BY <1>1, <1>2, <1>3, <1>4, <1>5, BillKeeps

LEMMA TrailStarts == TrailInit => TrailInv
<1> SUFFICES ASSUME TrailInit PROVE TrailInv
  OBVIOUS
<1>1. TrailTypeOK
  BY DEF TrailInit, TrailTypeOK, ProformaRows, PromiseRows, TrailCarts, NoTillCart
<1>2. TrailBills = {}
  BY DEF TrailInit, TrailBills
<1>3. DocumentsAreOwned
  BY DEF TrailInit, DocumentsAreOwned
<1> QED BY <1>1, <1>2, <1>3 DEF TrailInv, BillsNameTheirOwn, BilledStands, NoMoreThanPosted

LEMMA TrailSteps == TrailInv /\ [TrailNext]_trailVars => TrailInv'
<1> SUFFICES ASSUME TrailInv, [TrailNext]_trailVars PROVE TrailInv'
  OBVIOUS
<1>1. ASSUME NEW q \in Proformas, LoseProforma(q) \/ \E buyer \in Buyers : MakeProforma(q, buyer)
      PROVE  TrailInv'
  BY <1>1, LoseProformaKeeps, MakeProformaKeeps
<1>2. ASSUME NEW o \in Promises,
             \/ \E q \in Proformas : PrebookProforma(o, q)
             \/ \E t \in Registers : PrebookBasket(t, o)
             \/ PostAdvance(o) \/ CancelPromise(o)
             \/ \E advance \in 0..1 : ConvertPromise(o, advance)
      PROVE  TrailInv'
  BY <1>2, PrebookProformaKeeps, PrebookBasketKeeps, PostAdvanceKeeps, CancelPromiseKeeps, ConvertPromiseKeeps
<1>3. ASSUME NEW t \in Registers,
             \/ \E q \in Proformas : LoadProforma(t, q)
             \/ \E o \in Promises : LoadPromise(t, o)
             \/ \E buyer \in Buyers : ChooseBuyer(t, buyer)
             \/ \E g \in Goods : Unring(t, g)
             \/ Ring(t) \/ Refresh(t) \/ HoldBill(t) \/ ResumeBill(t) \/ ClearBasket(t)
             \/ Pay(t)
      PROVE  TrailInv'
  BY <1>3, LoadProformaKeeps, LoadPromiseKeeps, TillKeeps, HoldBillKeeps, ResumeBillKeeps, PayKeeps
<1>4. CASE UNCHANGED trailVars
  BY <1>4, TrailFacts, CartsKeep DEF trailVars
<1> QED BY <1>1, <1>2, <1>3, <1>4 DEF TrailNext

LEMMA TrailInvSays == TrailInv => TrailTypeOK /\ TrailHolds
<1> SUFFICES ASSUME TrailInv PROVE TrailHolds
  BY DEF TrailInv
<1>1. NamedByTheirOwn
  <2>1. \A b \in TrailBills : bills[b].source # Nothing => proforma[bills[b].source].buyer = bills[b].buyer
    BY DEF TrailInv, BillsNameTheirOwn, OwnedBy
  <2>2. ASSUME NEW q \in Proformas, NEW b \in MayShow(q) PROVE bills[b].buyer = proforma[q].buyer
    <3>1. CASE b \in BillsOf(q)
      BY <2>1, <3>1, OrderTrailAssumption DEF BillsOf
    <3>2. CASE b \in TrailBills /\ bills[b].goods \cap OrdersOf(q) # {}
      <4>1. PICK o \in Promises : o \in bills[b].goods /\ promise[o].of = q
        BY <3>2 DEF OrdersOf
      <4>2. promise[o].buyer = bills[b].buyer
        BY <3>2, <4>1 DEF TrailInv, BilledStands
      <4>3. proforma[q].buyer = promise[o].buyer
        BY <4>1, OrderTrailAssumption DEF TrailInv, DocumentsAreOwned, OwnedBy
      <4> QED BY <4>2, <4>3
    <3> QED BY <2>2, <3>1, <3>2 DEF MayShow
  <2> QED BY <2>1, <2>2 DEF NamedByTheirOwn
<1>2. PromiseIsBilledOnce
  <2> SUFFICES ASSUME NEW o \in Promises
               PROVE  Cardinality({b \in TrailBills : o \in bills[b].goods}) <= 1
    BY DEF PromiseIsBilledOnce, TrailInv, BilledStands
  <2> DEFINE S == {b \in TrailBills : o \in bills[b].goods}
  <2>1. \A b, c \in S : b = c
    BY DEF TrailInv, BilledStands
  <2> HIDE DEF S
  <2>2. Cardinality(S) <= 1
    BY <2>1, NoneOrOne
  <2> QED BY <2>2 DEF S
<1> QED BY <1>1, <1>2 DEF TrailInv, TrailHolds

\* A bill and a pre-booking name a proforma of their own customer, a
\* pre-booking is billed once and never after it was cancelled, and no more
\* advance comes off a bill than was posted for its pre-bookings (create_pos_invoice, _get_sales_order_contract).
THEOREM TrailSound == TrailSpec => [](TrailTypeOK /\ TrailHolds)
<1> QED BY TrailStarts, TrailSteps, TrailInvSays, PTL DEF TrailSpec

=============================================================================
