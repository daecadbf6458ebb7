---------------------------- MODULE Till_proofs ----------------------------
(***************************************************************************)
(* The till: its cash (CashDrawer) and its overlapping requests            *)
(* (TillRaces), for every number of sessions, bills, slips and requests.   *)
(***************************************************************************)
EXTENDS CashDrawer, TillRaces, FiniteSetTheorems, TLAPS

-----------------------------------------------------------------------------
(* Sums of equal amounts                                                   *)

\* A finite set of documents of one amount is worth a natural number.
LEMMA TimesIsNat ==
    ASSUME NEW S, IsFiniteSet(S), NEW a \in Nat
    PROVE  Times(S, a) \in Nat
  <1>1. Cardinality(S) \in Nat  BY FS_CardinalityType
  <1>. QED  BY <1>1, SMT DEF Times

LEMMA TimesOfNone == ASSUME NEW a \in Nat PROVE Times({}, a) = 0
  <1>1. Cardinality({}) = 0  BY FS_EmptySet
  <1>. QED  BY <1>1, SMT DEF Times

\* One more document adds its amount, one less takes it away.
LEMMA TimesOfOneMore ==
    ASSUME NEW S, IsFiniteSet(S), NEW x, x \notin S, NEW a \in Nat
    PROVE  Times(S \cup {x}, a) = Times(S, a) + a
  <1>1. Cardinality(S \cup {x}) = Cardinality(S) + 1  BY FS_AddElement
  <1>2. Cardinality(S) \in Nat  BY FS_CardinalityType
  <1>3. \A n \in Nat : (n + 1) * a = n * a + a  BY SMT
  <1>. QED  BY <1>1, <1>2, <1>3 DEF Times

LEMMA TimesOfOneLess ==
    ASSUME NEW S, IsFiniteSet(S), NEW x \in S, NEW a \in Nat
    PROVE  Times(S \ {x}, a) = Times(S, a) - a
  <1>1. IsFiniteSet(S \ {x})  BY FS_RemoveElement
  <1>2. (S \ {x}) \cup {x} = S  OBVIOUS
  <1>3. Times(S, a) = Times(S \ {x}, a) + a  BY <1>1, <1>2, TimesOfOneMore
  <1>. QED  BY <1>1, <1>3, TimesIsNat, SMT

LEMMA TimesGrows ==
    ASSUME NEW T, IsFiniteSet(T), NEW S \in SUBSET T, NEW a \in Nat
    PROVE  Times(S, a) <= Times(T, a)
  <1>1. Cardinality(S) \in Nat /\ Cardinality(T) \in Nat /\ Cardinality(S) <= Cardinality(T)
    BY FS_Subset, FS_CardinalityType
  <1>2. \A m, n \in Nat : m <= n => m * a <= n * a  BY SMT
  <1>. QED  BY <1>1, <1>2 DEF Times

-----------------------------------------------------------------------------
(* The inductive invariant of the cash                                     *)

InvoicesOf(s, state, way) ==
    {b \in Bills : bill[b].shift = s /\ bill[b].state = state
                   /\ bill[b].refund = (way = "out")}

\* What the bills of a shift brought into the drawer, booked or on the way.
TakenBy(s) ==
    Times(InvoicesOf(s, "posted", "in"), BillCash) - Times(InvoicesOf(s, "posted", "out"), BillCash)
    + Times(InvoicesOf(s, "sent", "in"), BillCash) - Times(InvoicesOf(s, "sent", "out"), BillCash)
PaidOut(s) == Times(Movements(s), SlipCash)

\* The books in the form that the steps preserve.
DrawerIsExplained ==
    \A s \in Shifts :
        Opened(s) => drawer = shift[s].opening + TakenBy(s) - PaidOut(s) + elsewhere[s]

\* Documents belong to a session that was opened, and only then count.
PapersHaveAShift ==
    /\ \A b \in Bills : bill[b].state # "none" => bill[b].shift \in Shifts /\ Opened(bill[b].shift)
    /\ \A c \in Slips : slip[c].docstatus # 0 => slip[c].shift # 0
    /\ \A c \in Slips : slip[c].shift # 0 => Opened(slip[c].shift)
    /\ \A s \in Shifts : ~Opened(s) => elsewhere[s] = 0

\* What approved itself is a petty expense in the books, never a draft; a
\* slip in the books is not rejected.
AutoIsBooked ==
    \A c \in Slips :
        /\ slip[c].auto => slip[c].kind = "PettyExpense" /\ slip[c].docstatus # 0
        /\ slip[c].docstatus = 1 => ~slip[c].rejected

\* Sessions open in their order, and an earlier one runs only past its day.
ShiftsInOrder ==
    /\ \A s \in Shifts : Opened(s) => \A t \in 1..(s - 1) : Opened(t)
    /\ \A s \in Shifts : IsRunning(s) /\ Later(s) # {} => overnight

\* A settlement stands only while its session waits for a close, or after.
SettledIsStopped ==
    \A s \in Shifts : settlement[s].live => shift[s].status \in {"PendingClose", "Closed"}

\* What documents and the drawer hold, and what sessions and settlements do.
BooksInv ==
    /\ drawer \in Nat /\ elsewhere \in [Shifts -> Int]
    /\ bill \in [Bills -> Invoices] /\ slip \in [Slips -> Papers]
    /\ DrawerIsExplained
    /\ PapersHaveAShift
    /\ AutoIsBooked
    /\ AutoSpendWithinFloat
SessionsInv ==
    /\ overnight \in BOOLEAN /\ reworks \in Nat
    /\ shift \in [Shifts -> Sessions] /\ settlement \in [Shifts -> Counted]
    /\ ShiftsInOrder
    /\ SettledIsStopped
    /\ SessionMirrorsSettlement
    /\ ShortfallsAreSigned
CashInv == BooksInv /\ SessionsInv

-----------------------------------------------------------------------------
(* How one document moves the sums                                         *)

\* What the document r adds to the sum of shift s.
Brings(r, s) == IF r.shift = s /\ r.state \in {"sent", "posted"} THEN Worth(r.refund) ELSE 0
Takes(r, s) == IF r.shift = s /\ r.docstatus = 1 THEN SlipCash ELSE 0

LEMMA ConstantsAreNumbers ==
    /\ NShifts \in Nat /\ DefaultFloat \in Nat /\ BillCash \in Nat /\ SlipCash \in Nat
    /\ PettyLimit \in Nat /\ ApprovalLimit \in Nat
    /\ IsFiniteSet(Bills) /\ IsFiniteSet(Slips)
  BY CashAssumption

\* A set of equal documents gains or loses the one that is replaced.
LEMMA TimesOfReplaced ==
    ASSUME NEW S, IsFiniteSet(S), NEW T, NEW x, NEW a \in Nat,
           T \ {x} = S \ {x}
    PROVE  Times(T, a) = Times(S, a) + (IF x \in T THEN a ELSE 0) - (IF x \in S THEN a ELSE 0)
<1>1. IsFiniteSet(S \ {x})
  BY FS_RemoveElement
<1>2. x \notin S \ {x}
  OBVIOUS
<1>3. Times((S \ {x}) \cup {x}, a) = Times(S \ {x}, a) + a
  BY <1>1, <1>2, TimesOfOneMore
<1>4. S = IF x \in S THEN (S \ {x}) \cup {x} ELSE S \ {x}
  OBVIOUS
<1>5. T = IF x \in T THEN (S \ {x}) \cup {x} ELSE S \ {x}
  OBVIOUS
<1>6. Times(S \ {x}, a) \in Nat
  BY <1>1, TimesIsNat
<1>7. Times(S, a) = IF x \in S THEN Times(S \ {x}, a) + a ELSE Times(S \ {x}, a)
  BY <1>3, <1>4
<1>8. Times(T, a) = IF x \in T THEN Times(S \ {x}, a) + a ELSE Times(S \ {x}, a)
  BY <1>3, <1>5
<1> QED BY <1>6, <1>7, <1>8, SMT

LEMMA SumsAreNumbers ==
    ASSUME NEW s
    PROVE  /\ \A state, way : IsFiniteSet(InvoicesOf(s, state, way))
                                 /\ Times(InvoicesOf(s, state, way), BillCash) \in Nat
           /\ IsFiniteSet(Movements(s)) /\ PaidOut(s) \in Nat
           /\ TakenBy(s) \in Int
<1>1. \A state, way : IsFiniteSet(InvoicesOf(s, state, way))
                         /\ Times(InvoicesOf(s, state, way), BillCash) \in Nat
  <2> TAKE state, way
  <2>1. InvoicesOf(s, state, way) \in SUBSET Bills
    BY DEF InvoicesOf
  <2>2. IsFiniteSet(InvoicesOf(s, state, way))
    BY <2>1, ConstantsAreNumbers, FS_Subset
  <2> QED BY <2>2, ConstantsAreNumbers, TimesIsNat
<1>2. IsFiniteSet(Movements(s)) /\ PaidOut(s) \in Nat
  <2>1. Movements(s) \in SUBSET Slips
    BY DEF Movements
  <2>2. IsFiniteSet(Movements(s))
    BY <2>1, ConstantsAreNumbers, FS_Subset
  <2> QED BY <2>2, ConstantsAreNumbers, TimesIsNat DEF PaidOut
<1>3. TakenBy(s) \in Int
  BY <1>1, SMT DEF TakenBy
<1> QED BY <1>1, <1>2, <1>3

\* A bill that becomes r takes what it brought with it, and brings what r does.
LEMMA BillMovesSum ==
    ASSUME NEW b \in Bills, NEW r \in Invoices, bill \in [Bills -> Invoices],
           bill' = [bill EXCEPT ![b] = r], NEW s
    PROVE  TakenBy(s)' = TakenBy(s) + Brings(r, s) - Brings(bill[b], s)
<1> DEFINE In(q, state, way) ==
             IF q.shift = s /\ q.state = state /\ q.refund = (way = "out") THEN BillCash ELSE 0
<1>1. \A state, way :
        Times(InvoicesOf(s, state, way), BillCash)' =
            Times(InvoicesOf(s, state, way), BillCash)
            + In(r, state, way) - In(bill[b], state, way)
  <2> TAKE state, way
  <2>1. InvoicesOf(s, state, way)' \ {b} = InvoicesOf(s, state, way) \ {b}
    BY DEF InvoicesOf
  <2>2. b \in InvoicesOf(s, state, way)' <=> r.shift = s /\ r.state = state /\ r.refund = (way = "out")
    BY DEF InvoicesOf
  <2>3. b \in InvoicesOf(s, state, way) <=>
            bill[b].shift = s /\ bill[b].state = state /\ bill[b].refund = (way = "out")
    BY DEF InvoicesOf
  <2>4. Times(InvoicesOf(s, state, way)', BillCash) =
            Times(InvoicesOf(s, state, way), BillCash)
            + (IF b \in InvoicesOf(s, state, way)' THEN BillCash ELSE 0)
            - (IF b \in InvoicesOf(s, state, way) THEN BillCash ELSE 0)
    <3> DEFINE S == InvoicesOf(s, state, way)
               T == InvoicesOf(s, state, way)'
    <3>1. IsFiniteSet(S) /\ T \ {b} = S \ {b} /\ BillCash \in Nat
      BY <2>1, SumsAreNumbers, ConstantsAreNumbers
    <3> HIDE DEF S, T
    <3>2. Times(T, BillCash) = Times(S, BillCash) + (IF b \in T THEN BillCash ELSE 0)
                               - (IF b \in S THEN BillCash ELSE 0)
      BY <3>1, TimesOfReplaced
    <3> QED BY <3>2 DEF S, T
  <2>5. Times(InvoicesOf(s, state, way), BillCash)' = Times(InvoicesOf(s, state, way)', BillCash)
    BY DEF Times
  <2> QED BY <2>2, <2>3, <2>4, <2>5
<1>2. \A q \in Invoices :
        Brings(q, s) = In(q, "posted", "in") - In(q, "posted", "out")
                       + In(q, "sent", "in") - In(q, "sent", "out")
  BY ConstantsAreNumbers DEF Brings, Worth, Invoices
<1>3. bill[b] \in Invoices
  OBVIOUS
<1>4. \A q, state, way : In(q, state, way) \in Int
  BY ConstantsAreNumbers
<1>5. \A state, way : Times(InvoicesOf(s, state, way), BillCash) \in Int
  BY SumsAreNumbers
<1> DEFINE Sum(state, way) == Times(InvoicesOf(s, state, way), BillCash)
<1>6. /\ TakenBy(s) = Sum("posted", "in") - Sum("posted", "out") + Sum("sent", "in") - Sum("sent", "out")
      /\ TakenBy(s)' = Sum("posted", "in")' - Sum("posted", "out")' + Sum("sent", "in")' - Sum("sent", "out")'
  BY DEF TakenBy
<1> DEFINE Next1(state, way) == Sum(state, way)'
<1>7. \A state, way : Next1(state, way) = Sum(state, way) + In(r, state, way) - In(bill[b], state, way)
  BY <1>1
<1>8. \A state, way : Sum(state, way) \in Int
  BY <1>5
<1>9. TakenBy(s)' = Next1("posted", "in") - Next1("posted", "out") + Next1("sent", "in") - Next1("sent", "out")
  BY <1>6
<1> HIDE DEF In, Sum, Next1
<1> QED BY <1>2, <1>3, <1>4, <1>6, <1>7, <1>8, <1>9

LEMMA SlipMovesSum ==
    ASSUME NEW c \in Slips, NEW r \in Papers, slip \in [Slips -> Papers],
           slip' = [slip EXCEPT ![c] = r], NEW s
    PROVE  PaidOut(s)' = PaidOut(s) + Takes(r, s) - Takes(slip[c], s)
<1>1. Movements(s)' \ {c} = Movements(s) \ {c}
  BY DEF Movements
<1>2. c \in Movements(s)' <=> r.shift = s /\ r.docstatus = 1
  BY DEF Movements
<1>3. c \in Movements(s) <=> slip[c].shift = s /\ slip[c].docstatus = 1
  BY DEF Movements
<1>4. Times(Movements(s)', SlipCash) =
        Times(Movements(s), SlipCash) + (IF c \in Movements(s)' THEN SlipCash ELSE 0)
        - (IF c \in Movements(s) THEN SlipCash ELSE 0)
  BY <1>1, SumsAreNumbers, ConstantsAreNumbers, TimesOfReplaced
<1>5. PaidOut(s)' = Times(Movements(s)', SlipCash)
  BY DEF PaidOut, Times
<1> QED BY <1>2, <1>3, <1>4, <1>5 DEF Takes, PaidOut

LEMMA ExpectedIsNumber ==
    ASSUME CashTypeOK, NEW s \in Shifts
    PROVE  /\ Expected(s) = shift[s].opening + Times(InvoicesOf(s, "posted", "in"), BillCash)
                            - Times(InvoicesOf(s, "posted", "out"), BillCash) - PaidOut(s)
           /\ Expected(s) \in Int
<1>1. Posted(s, FALSE) = InvoicesOf(s, "posted", "in") /\ Posted(s, TRUE) = InvoicesOf(s, "posted", "out")
  BY DEF Posted, InvoicesOf
<1>2. Expected(s) = shift[s].opening + Times(InvoicesOf(s, "posted", "in"), BillCash)
                    - Times(InvoicesOf(s, "posted", "out"), BillCash) - PaidOut(s)
  BY <1>1, Zenon DEF Expected, PaidOut
<1>3. shift[s].opening \in Nat
  BY DEF CashTypeOK, Sessions
<1>4. /\ Times(InvoicesOf(s, "posted", "in"), BillCash) \in Nat
      /\ Times(InvoicesOf(s, "posted", "out"), BillCash) \in Nat
      /\ PaidOut(s) \in Nat
  BY SumsAreNumbers
<1> QED BY <1>2, <1>3, <1>4

\* The books the runs check are the ones the steps preserve.
LEMMA BooksAreExplained ==
    ASSUME CashTypeOK
    PROVE  DrawerIsExplained <=> BooksMatchDrawer
<1> SUFFICES ASSUME NEW s \in Shifts
             PROVE  shift[s].opening + TakenBy(s) - PaidOut(s) + elsewhere[s]
                        = Expected(s) + elsewhere[s] + OnItsWay(s)
  BY DEF DrawerIsExplained, BooksMatchDrawer
<1>1. Expected(s) = shift[s].opening + Times(InvoicesOf(s, "posted", "in"), BillCash)
                    - Times(InvoicesOf(s, "posted", "out"), BillCash) - PaidOut(s)
  BY ExpectedIsNumber
<1>2. OnItsWay(s) = Times(InvoicesOf(s, "sent", "in"), BillCash) - Times(InvoicesOf(s, "sent", "out"), BillCash)
  BY DEF OnItsWay, InvoicesOf
<1>3. shift[s].opening \in Nat /\ elsewhere[s] \in Int
  BY DEF CashTypeOK, Sessions
<1>4. /\ \A state, way : Times(InvoicesOf(s, state, way), BillCash) \in Int
      /\ PaidOut(s) \in Int
  BY SumsAreNumbers
<1> QED BY <1>1, <1>2, <1>3, <1>4 DEF TakenBy

-----------------------------------------------------------------------------
(* Steps of the documents                                                  *)

\* The step leaves sessions as open, and opened with, as they were.
SameOpenings ==
    \A t \in Shifts : (Opened(t)' <=> Opened(t)) /\ shift'[t].opening = shift[t].opening

\* The drawer and the other open books move by what a document brings.
LEMMA MovedCash ==
    ASSUME drawer \in Nat, elsewhere \in [Shifts -> Int], NEW s \in Shifts, NEW amount \in Int,
           MoveCash(s, amount)
    PROVE  /\ drawer' = drawer + amount
           /\ elsewhere' \in [Shifts -> Int]
           /\ elsewhere'[s] = elsewhere[s]
           /\ \A t \in Shifts : ~Opened(t) => elsewhere'[t] = elsewhere[t]
           /\ \A t \in Shifts \ {s} : Opened(t) => elsewhere'[t] = elsewhere[t] + amount
  BY DEF MoveCash

\* Invoice b becomes r, of the same session, and its cash changes hands.
LEMMA BillKeepsBooks ==
    ASSUME BooksInv, shift \in [Shifts -> Sessions], SameOpenings,
           NEW b \in Bills, NEW r \in Invoices,
           bill' = [bill EXCEPT ![b] = r], r.shift \in Shifts, Opened(r.shift),
           bill[b].state # "none" => bill[b].shift = r.shift,
           MoveCash(r.shift, Brings(r, r.shift) - Brings(bill[b], r.shift)),
           drawer' >= 0, UNCHANGED slip
    PROVE  BooksInv'
<1> DEFINE amount == Brings(r, r.shift) - Brings(bill[b], r.shift)
<1>1. \A q, t : Brings(q, t) \in Int
  BY ConstantsAreNumbers DEF Brings, Worth
<1>2. /\ drawer' = drawer + amount
      /\ elsewhere' \in [Shifts -> Int]
      /\ elsewhere'[r.shift] = elsewhere[r.shift]
      /\ \A t \in Shifts : ~Opened(t) => elsewhere'[t] = elsewhere[t]
      /\ \A t \in Shifts \ {r.shift} : Opened(t) => elsewhere'[t] = elsewhere[t] + amount
  <2>1. amount \in Int
    BY <1>1
  <2> QED BY <2>1, MovedCash DEF BooksInv
<1>3. drawer' \in Nat /\ bill' \in [Bills -> Invoices] /\ slip' \in [Slips -> Papers]
  BY <1>1, <1>2 DEF BooksInv
<1>4. \A t : Movements(t)' = Movements(t) /\ PaidOut(t)' = PaidOut(t)
  BY DEF Movements, PaidOut
<1>5. DrawerIsExplained'
  <2> SUFFICES ASSUME NEW t \in Shifts, Opened(t)'
               PROVE  drawer' = shift'[t].opening + TakenBy(t)' - PaidOut(t)' + elsewhere'[t]
    BY DEF DrawerIsExplained
  <2>1. drawer = shift[t].opening + TakenBy(t) - PaidOut(t) + elsewhere[t]
    BY DEF DrawerIsExplained, BooksInv, SameOpenings
  <2>2. TakenBy(t)' = TakenBy(t) + Brings(r, t) - Brings(bill[b], t)
    BY BillMovesSum DEF BooksInv
  <2>3. t # r.shift => Brings(r, t) = 0 /\ Brings(bill[b], t) = 0
    BY DEF Brings
  <2>4. /\ shift'[t].opening = shift[t].opening /\ shift[t].opening \in Nat
        /\ TakenBy(t) \in Int /\ PaidOut(t) \in Nat /\ elsewhere[t] \in Int
    BY SumsAreNumbers DEF SameOpenings, BooksInv, Sessions
  <2>5. elsewhere'[t] = IF t = r.shift THEN elsewhere[t] ELSE elsewhere[t] + amount
    BY <1>2 DEF SameOpenings
  <2>6. CASE t = r.shift
    BY <2>6, <1>1, <1>2, <1>4, <2>1, <2>2, <2>4, <2>5
  <2>7. CASE t # r.shift
    BY <2>7, <1>1, <1>2, <1>4, <2>1, <2>2, <2>3, <2>4, <2>5
  <2> QED BY <2>6, <2>7
<1>6. PapersHaveAShift'
  BY <1>2 DEF PapersHaveAShift, BooksInv, SameOpenings, Invoices, Papers
<1>7. AutoIsBooked' /\ AutoSpendWithinFloat'
  BY <1>4 DEF AutoIsBooked, AutoSpendWithinFloat, BooksInv
<1> QED BY <1>2, <1>3, <1>5, <1>6, <1>7 DEF BooksInv

Autos(s) == {c \in Movements(s) : slip[c].auto}
FloatAllows(s) == SlipCash + Times(Autos(s), SlipCash) <= PettyLimit
AutoFits(r) ==
    /\ r.auto => r.kind = "PettyExpense" /\ r.docstatus # 0
    /\ r.docstatus = 1 => ~r.rejected
    /\ r.auto /\ r.docstatus = 1 => FloatAllows(r.shift)

\* Slip c becomes r, of the same session, and its cash moves; a slip that
\* approves itself is within the float.
LEMMA SlipKeepsBooks ==
    ASSUME BooksInv, shift \in [Shifts -> Sessions], SameOpenings,
           NEW c \in Slips, NEW r \in Papers,
           slip' = [slip EXCEPT ![c] = r], r.shift \in Shifts, Opened(r.shift),
           slip[c].shift # 0 => slip[c].shift = r.shift,
           MoveCash(r.shift, Takes(slip[c], r.shift) - Takes(r, r.shift)),
           drawer' >= 0, UNCHANGED bill,
           AutoFits(r)
    PROVE  BooksInv'
<1> DEFINE amount == Takes(slip[c], r.shift) - Takes(r, r.shift)
<1>1. \A q, t : Takes(q, t) \in Int
  BY ConstantsAreNumbers DEF Takes
<1>2. /\ drawer' = drawer + amount
      /\ elsewhere' \in [Shifts -> Int]
      /\ elsewhere'[r.shift] = elsewhere[r.shift]
      /\ \A t \in Shifts : ~Opened(t) => elsewhere'[t] = elsewhere[t]
      /\ \A t \in Shifts \ {r.shift} : Opened(t) => elsewhere'[t] = elsewhere[t] + amount
  <2>1. amount \in Int
    BY <1>1
  <2> QED BY <2>1, MovedCash DEF BooksInv
<1>3. drawer' \in Nat /\ bill' \in [Bills -> Invoices] /\ slip' \in [Slips -> Papers]
  BY <1>1, <1>2 DEF BooksInv
<1>4. \A t : TakenBy(t)' = TakenBy(t)
  BY DEF TakenBy, InvoicesOf
<1>5. DrawerIsExplained'
  <2> SUFFICES ASSUME NEW t \in Shifts, Opened(t)'
               PROVE  drawer' = shift'[t].opening + TakenBy(t)' - PaidOut(t)' + elsewhere'[t]
    BY DEF DrawerIsExplained
  <2>1. drawer = shift[t].opening + TakenBy(t) - PaidOut(t) + elsewhere[t]
    BY DEF DrawerIsExplained, BooksInv, SameOpenings
  <2>2. PaidOut(t)' = PaidOut(t) + Takes(r, t) - Takes(slip[c], t)
    BY SlipMovesSum DEF BooksInv
  <2>3. t # r.shift => Takes(r, t) = 0 /\ Takes(slip[c], t) = 0
    BY DEF Takes, Shifts
  <2>4. /\ shift'[t].opening = shift[t].opening /\ shift[t].opening \in Nat
        /\ TakenBy(t) \in Int /\ PaidOut(t) \in Nat /\ elsewhere[t] \in Int
    BY SumsAreNumbers DEF SameOpenings, BooksInv, Sessions
  <2>5. elsewhere'[t] = IF t = r.shift THEN elsewhere[t] ELSE elsewhere[t] + amount
    BY <1>2 DEF SameOpenings
  <2>6. CASE t = r.shift
    BY <2>6, <1>1, <1>2, <1>4, <2>1, <2>2, <2>4, <2>5
  <2>7. CASE t # r.shift
    BY <2>7, <1>1, <1>2, <1>4, <2>1, <2>2, <2>3, <2>4, <2>5
  <2> QED BY <2>6, <2>7
<1>6. PapersHaveAShift'
  <2>1. r.shift # 0
    BY DEF Shifts
  <2>2. \A d \in Slips : slip'[d] = IF d = c THEN r ELSE slip[d]
    BY DEF BooksInv
  <2>3. \A d \in Slips : slip[d].shift # 0 => slip[d].shift \in Shifts /\ Opened(slip[d].shift)
    BY DEF BooksInv, PapersHaveAShift, Papers
  <2>4. \A t \in Shifts : Opened(t)' <=> Opened(t)
    BY DEF SameOpenings
  <2>5. \A d \in Slips : /\ slip'[d].docstatus # 0 => slip'[d].shift # 0
                         /\ slip'[d].shift # 0 => Opened(slip[d].shift)'
    BY <2>1, <2>2, <2>3, <2>4 DEF BooksInv, PapersHaveAShift
  <2>6. /\ \A b \in Bills : bill'[b].state # "none" => bill'[b].shift \in Shifts
                                                       /\ Opened(bill[b].shift)'
        /\ \A t \in Shifts : ~Opened(t)' => elsewhere'[t] = 0
    BY <1>2, <2>4 DEF BooksInv, PapersHaveAShift
  <2> QED BY <2>5, <2>6 DEF PapersHaveAShift
<1>7. AutoIsBooked'
  BY DEF AutoIsBooked, BooksInv, AutoFits
<1>8. AutoSpendWithinFloat'
  <2> SUFFICES ASSUME NEW t \in Shifts
               PROVE  Times(Autos(t)', SlipCash) <= PettyLimit
    BY DEF AutoSpendWithinFloat, Autos, Times
  <2>1. Times(Autos(t), SlipCash) <= PettyLimit
    BY DEF AutoSpendWithinFloat, Autos, BooksInv
  <2>2. IsFiniteSet(Autos(t)) /\ Times(Autos(t), SlipCash) \in Nat
    <3>1. IsFiniteSet(Autos(t))
      BY SumsAreNumbers, FS_Subset DEF Autos
    <3> QED BY <3>1, ConstantsAreNumbers, TimesIsNat
  <2>3. CASE t = r.shift /\ r.auto /\ r.docstatus = 1 /\ c \notin Autos(t)
    <3>1. Autos(t)' = Autos(t) \cup {c}
      BY <2>3 DEF Autos, Movements, BooksInv, Papers
    <3>2. Times(Autos(t) \cup {c}, SlipCash) = Times(Autos(t), SlipCash) + SlipCash
      BY <2>2, <2>3, ConstantsAreNumbers, TimesOfOneMore
    <3>3. SlipCash + Times(Autos(t), SlipCash) <= PettyLimit
      BY <2>3 DEF AutoFits, FloatAllows
    <3> QED BY <2>2, <3>1, <3>2, <3>3, ConstantsAreNumbers
  <2>4. CASE ~(t = r.shift /\ r.auto /\ r.docstatus = 1 /\ c \notin Autos(t))
    <3>1. Autos(t)' \in SUBSET Autos(t)
      BY <2>4 DEF Autos, Movements, BooksInv, Papers
    <3>2. Times(Autos(t)', SlipCash) <= Times(Autos(t), SlipCash) /\ IsFiniteSet(Autos(t)')
      BY <2>2, <3>1, ConstantsAreNumbers, TimesGrows, FS_Subset
    <3>3. Times(Autos(t)', SlipCash) \in Nat
      BY <3>2, ConstantsAreNumbers, TimesIsNat
    <3> QED BY <2>1, <2>2, <3>2, <3>3, ConstantsAreNumbers
  <2> QED BY <2>3, <2>4
<1> QED BY <1>2, <1>3, <1>5, <1>6, <1>7, <1>8 DEF BooksInv

\* A step of sessions alone.
LEMMA SessionsKeepBooks ==
    ASSUME BooksInv, SameOpenings, UNCHANGED <<drawer, bill, slip, elsewhere>>
    PROVE  BooksInv'
<1>1. \A t : Movements(t)' = Movements(t) /\ PaidOut(t)' = PaidOut(t) /\ TakenBy(t)' = TakenBy(t)
  BY DEF Movements, PaidOut, TakenBy, InvoicesOf
<1>2. DrawerIsExplained'
  BY <1>1 DEF DrawerIsExplained, BooksInv, SameOpenings
<1>3. PapersHaveAShift'
  BY DEF PapersHaveAShift, BooksInv, SameOpenings, Invoices, Papers
<1>4. AutoIsBooked' /\ AutoSpendWithinFloat'
  BY <1>1 DEF AutoIsBooked, AutoSpendWithinFloat, BooksInv
<1> QED BY <1>2, <1>3, <1>4 DEF BooksInv

\* A session that was never opened has no document, so its books are the count.
LEMMA NoPaperYet ==
    ASSUME BooksInv, NEW s \in Shifts, ~Opened(s)
    PROVE  TakenBy(s) = 0 /\ PaidOut(s) = 0 /\ elsewhere[s] = 0
<1>1. \A way : InvoicesOf(s, "posted", way) = {} /\ InvoicesOf(s, "sent", way) = {}
  BY DEF InvoicesOf, PapersHaveAShift, BooksInv
<1>2. Movements(s) = {}
  BY DEF Movements, PapersHaveAShift, BooksInv, Shifts
<1>3. Times({}, BillCash) = 0 /\ Times({}, SlipCash) = 0
  BY ConstantsAreNumbers, TimesOfNone
<1>4. TakenBy(s) = 0 - 0 + 0 - 0
  BY <1>1, <1>3 DEF TakenBy
<1>5. PaidOut(s) = 0
  BY <1>2, <1>3 DEF PaidOut
<1>6. elsewhere[s] = 0
  BY DEF PapersHaveAShift, BooksInv
<1> QED BY <1>4, <1>5, <1>6

-----------------------------------------------------------------------------
(* Every step preserves the books                                          *)

SameSessions == UNCHANGED <<overnight, shift, settlement, reworks>>

LEMMA SameSessionsKeep ==
    ASSUME SessionsInv, SameSessions
    PROVE  SessionsInv' /\ SameOpenings
  BY DEF SessionsInv, SameSessions, SameOpenings, Opened, ShiftsInOrder, IsRunning, Later,
         SettledIsStopped, SessionMirrorsSettlement, ShortfallsAreSigned

LEMMA BillSteps ==
    ASSUME CashInv, NEW b \in Bills,
           \/ \E s \in Shifts, refund \in BOOLEAN : RingUp(b, s, refund)
           \/ PostBill(b)
           \/ \E override \in BOOLEAN : UndoBill(b, override)
    PROVE  CashInv'
<1>1. /\ bill[b] \in Invoices /\ bill[b].state # "none" => bill[b].shift \in Shifts /\ Opened(bill[b].shift)
      /\ shift \in [Shifts -> Sessions] /\ BooksInv /\ SessionsInv
      /\ elsewhere \in [Shifts -> Int] /\ drawer \in Nat /\ bill \in [Bills -> Invoices]
  BY DEF CashInv, BooksInv, SessionsInv, PapersHaveAShift
<1>2. CASE \E s \in Shifts, refund \in BOOLEAN : RingUp(b, s, refund)
  <2> PICK s \in Shifts, refund \in BOOLEAN : RingUp(b, s, refund)
    BY <1>2
  <2> DEFINE r == [shift |-> s, state |-> "sent", refund |-> refund]
  <2>1. r \in Invoices /\ r.shift = s
    BY DEF Invoices
  <2>2. Opened(s) /\ bill[b].state = "none"
    BY DEF RingUp, Opened
  <2>3. Brings(r, s) - Brings(bill[b], s) = Worth(refund)
    BY <2>2, ConstantsAreNumbers DEF Brings, Worth
  <2>4. /\ bill' = [bill EXCEPT ![b] = r] /\ MoveCash(s, Brings(r, s) - Brings(bill[b], s))
        /\ UNCHANGED slip /\ SameSessions
    BY <2>3 DEF RingUp, SameSessions
  <2>5. drawer' >= 0
    BY DEF RingUp, MoveCash
  <2> HIDE DEF r
  <2> QED BY <1>1, <2>1, <2>2, <2>4, <2>5, BillKeepsBooks, SameSessionsKeep DEF CashInv
<1>3. CASE PostBill(b)
  <2> DEFINE r == [bill[b] EXCEPT !.state = "posted"]
  <2>1. r \in Invoices /\ r.shift = bill[b].shift
    BY <1>1 DEF Invoices
  <2>2. Opened(r.shift) /\ r.shift \in Shifts
    BY <1>1, <1>3, <2>1 DEF PostBill
  <2>3. Brings(r, r.shift) - Brings(bill[b], r.shift) = 0
    BY <1>1, <1>3, <2>1, ConstantsAreNumbers DEF Brings, Worth, PostBill, Invoices
  <2>4. MoveCash(r.shift, 0)
    BY <1>1, <1>3 DEF PostBill, MoveCash
  <2>5. /\ bill' = [bill EXCEPT ![b] = r] /\ UNCHANGED slip /\ SameSessions /\ drawer' >= 0
    BY <1>1, <1>3 DEF PostBill, SameSessions
  <2> HIDE DEF r
  <2> QED BY <1>1, <2>1, <2>2, <2>3, <2>4, <2>5, BillKeepsBooks, SameSessionsKeep DEF CashInv
<1>4. CASE \E override \in BOOLEAN : UndoBill(b, override)
  <2> PICK override \in BOOLEAN : UndoBill(b, override)
    BY <1>4
  <2> DEFINE r == [bill[b] EXCEPT !.state = "cancelled"]
  <2>1. r \in Invoices /\ r.shift = bill[b].shift
    BY <1>1 DEF Invoices
  <2>2. Opened(r.shift) /\ r.shift \in Shifts
    BY <1>1, <2>1 DEF UndoBill
  <2>3. Brings(r, r.shift) - Brings(bill[b], r.shift) = -Worth(bill[b].refund)
    BY <1>1, <2>1, ConstantsAreNumbers DEF Brings, Worth, UndoBill, Invoices
  <2>4. MoveCash(r.shift, -Worth(bill[b].refund))
    BY <2>1 DEF UndoBill
  <2>5. /\ bill' = [bill EXCEPT ![b] = r] /\ UNCHANGED slip /\ SameSessions
    BY DEF UndoBill, SameSessions
  <2>6. drawer' >= 0
    BY <1>1, ConstantsAreNumbers DEF UndoBill, MoveCash, Worth
  <2> HIDE DEF r
  <2> QED BY <1>1, <2>1, <2>2, <2>3, <2>4, <2>5, <2>6, BillKeepsBooks, SameSessionsKeep DEF CashInv
<1> QED BY <1>2, <1>3, <1>4

\* What SpentToday counts of a running session of today holds all that was
\* booked without a manager in it.
LEMMA AutosAreSpentToday ==
    ASSUME CashInv, NEW s \in Shifts, shift[s].status = "Open", ~overnight
    PROVE  Times(Autos(s), SlipCash) <= Times(SpentToday, SlipCash)
<1>1. Later(s) = {} /\ s # 0
  <2>1. ShiftsInOrder /\ IsRunning(s)
    BY DEF CashInv, SessionsInv, IsRunning, Running
  <2> QED BY <2>1, SMT DEF ShiftsInOrder, Shifts
<1>2. Autos(s) \in SUBSET SpentToday
  <2>1. \A c \in Autos(s) : /\ c \in Slips /\ slip[c].shift = s /\ slip[c].docstatus = 1
                            /\ slip[c].auto
    BY DEF Autos, Movements
  <2>2. \A c \in Autos(s) : slip[c].kind = "PettyExpense" /\ ~slip[c].rejected
    BY <2>1 DEF CashInv, BooksInv, AutoIsBooked
  <2> QED BY <1>1, <2>1, <2>2 DEF SpentToday
<1>3. IsFiniteSet(SpentToday)
  <2>1. SpentToday \in SUBSET Slips
    BY DEF SpentToday
  <2> QED BY <2>1, ConstantsAreNumbers, FS_Subset
<1> QED BY <1>2, <1>3, ConstantsAreNumbers, TimesGrows

\* A slip that is booked at once, approved by itself only within the float.
LEMMA RecordKeeps ==
    ASSUME CashInv, NEW c \in Slips, NEW s \in Shifts, Opened(s), NEW kind \in MovementTypes,
           NEW auto \in BOOLEAN, slip[c].shift = 0, InDrawer,
           auto => kind = "PettyExpense" /\ FloatAllows(s),
           Record(c, s, kind, auto), MoveCash(s, -SlipCash), SameOpenings, UNCHANGED bill
    PROVE  BooksInv'
<1> DEFINE r == [shift |-> s, kind |-> kind, docstatus |-> 1, rejected |-> FALSE, auto |-> auto]
<1>1. r \in Papers /\ r.shift = s
  BY DEF Papers
<1>2. Takes(slip[c], s) - Takes(r, s) = -SlipCash
  BY ConstantsAreNumbers DEF Takes, Shifts
<1>3. slip' = [slip EXCEPT ![c] = r]
  BY DEF Record
<1>4. AutoFits(r)
  BY DEF AutoFits
<1>5. drawer' >= 0
  BY ConstantsAreNumbers DEF InDrawer, MoveCash, CashInv, BooksInv
<1>6. BooksInv /\ shift \in [Shifts -> Sessions]
  BY DEF CashInv, SessionsInv
<1> HIDE DEF r
<1> QED BY <1>1, <1>2, <1>3, <1>4, <1>5, <1>6, SlipKeepsBooks

LEMMA SlipSteps ==
    ASSUME CashInv, NEW c \in Slips,
           \/ \E s \in Shifts :
                 \/ CreateCashDrop(c, s)
                 \/ \E kind \in MovementTypes \ {"CashDrop"} : CreateCashMovement(c, s, kind)
                 \/ \E category \in {"auto", "other"} : RequestPettyExpense(c, s, category)
           \/ ApprovePettyExpense(c)
           \/ RejectPettyExpense(c)
           \/ CancelCashDrop(c)
    PROVE  CashInv'
<1>1. /\ slip[c] \in Papers /\ slip[c].shift # 0 => slip[c].shift \in Shifts /\ Opened(slip[c].shift)
      /\ slip[c].docstatus # 0 => slip[c].shift # 0
      /\ slip[c].auto => slip[c].kind = "PettyExpense" /\ slip[c].docstatus # 0
      /\ shift \in [Shifts -> Sessions] /\ BooksInv /\ SessionsInv
      /\ elsewhere \in [Shifts -> Int] /\ drawer \in Nat /\ slip \in [Slips -> Papers]
  BY DEF CashInv, BooksInv, SessionsInv, PapersHaveAShift, AutoIsBooked, Papers
<1>2. ASSUME NEW s \in Shifts, CreateCashDrop(c, s)
      PROVE  CashInv'
  <2>1. /\ Opened(s) /\ slip[c].shift = 0 /\ InDrawer /\ Record(c, s, "CashDrop", FALSE)
        /\ MoveCash(s, -SlipCash) /\ UNCHANGED bill /\ SameSessions
    BY <1>2 DEF CreateCashDrop, Fresh, Opened, SameSessions
  <2>2. SessionsInv' /\ SameOpenings
    BY <1>1, <2>1, SameSessionsKeep
  <2>3. "CashDrop" \in MovementTypes
    BY DEF MovementTypes
  <2>4. BooksInv'
    BY <2>1, <2>2, <2>3, RecordKeeps
  <2> QED BY <2>2, <2>4 DEF CashInv
<1>3. ASSUME NEW s \in Shifts, NEW kind \in MovementTypes, CreateCashMovement(c, s, kind)
      PROVE  CashInv'
  <2>1. /\ Opened(s) /\ slip[c].shift = 0 /\ InDrawer /\ Record(c, s, kind, FALSE)
        /\ MoveCash(s, -SlipCash) /\ UNCHANGED bill /\ SameSessions
    BY <1>3 DEF CreateCashMovement, Fresh, Opened, Active, SameSessions
  <2>2. SessionsInv' /\ SameOpenings
    BY <1>1, <2>1, SameSessionsKeep
  <2>4. BooksInv'
    BY <2>1, <2>2, RecordKeeps
  <2> QED BY <2>2, <2>4 DEF CashInv
<1>4. ASSUME NEW s \in Shifts, NEW category \in {"auto", "other"}, RequestPettyExpense(c, s, category)
      PROVE  CashInv'
  <2>1. /\ Opened(s) /\ slip[c].shift = 0 /\ UNCHANGED bill /\ SameSessions
        /\ shift[s].status = "Open" /\ ~overnight
    BY <1>4 DEF RequestPettyExpense, Fresh, Opened, SameSessions
  <2>2. SessionsInv' /\ SameOpenings
    BY <1>1, <2>1, SameSessionsKeep
  <2> DEFINE auto == category = "auto" /\ SlipCash + Times(SpentToday, SlipCash) <= PettyLimit
  <2>3. CASE auto
    <3>1. InDrawer /\ Record(c, s, "PettyExpense", TRUE) /\ MoveCash(s, -SlipCash)
      BY <1>4, <2>3 DEF RequestPettyExpense
    <3>2. FloatAllows(s)
      <4>1. Times(Autos(s), SlipCash) <= Times(SpentToday, SlipCash)
        BY <2>1, AutosAreSpentToday
      <4>2. Times(Autos(s), SlipCash) \in Nat /\ Times(SpentToday, SlipCash) \in Nat
        <5>1. Autos(s) \in SUBSET Slips /\ SpentToday \in SUBSET Slips
          BY DEF Autos, Movements, SpentToday
        <5> QED BY <5>1, ConstantsAreNumbers, FS_Subset, TimesIsNat
      <4> QED BY <2>3, <4>1, <4>2, ConstantsAreNumbers DEF FloatAllows
    <3>3. "PettyExpense" \in MovementTypes
      BY DEF MovementTypes
    <3> HIDE DEF auto
    <3>4. BooksInv'
      BY <2>1, <2>2, <3>1, <3>2, <3>3, RecordKeeps
    <3> QED BY <2>2, <3>4 DEF CashInv
  <2>4. CASE ~auto
    <3> DEFINE r == [slip[c] EXCEPT !.shift = s, !.kind = "PettyExpense"]
    <3>1. slip' = [slip EXCEPT ![c] = r] /\ UNCHANGED <<drawer, elsewhere>>
      BY <1>4, <2>4 DEF RequestPettyExpense
    <3>2. slip[c].docstatus = 0
      BY <1>1, <2>1
    <3>3. r \in Papers /\ r.shift = s /\ r.docstatus = 0 /\ ~r.auto
      BY <1>1, <3>2 DEF Papers, MovementTypes
    <3> HIDE DEF r, auto
    <3>4. MoveCash(s, 0)
      BY <1>1, <3>1 DEF MoveCash
    <3>5. Takes(slip[c], s) - Takes(r, s) = 0
      BY <3>2, <3>3 DEF Takes
    <3>6. AutoFits(r) /\ drawer' >= 0
      BY <1>1, <3>1, <3>3 DEF AutoFits
    <3>7. BooksInv'
      BY <1>1, <2>1, <2>2, <3>1, <3>3, <3>4, <3>5, <3>6, SlipKeepsBooks
    <3> QED BY <2>2, <3>7 DEF CashInv
  <2> QED BY <2>3, <2>4
<1>5. CASE ApprovePettyExpense(c)
  <2> DEFINE r == [slip[c] EXCEPT !.docstatus = 1, !.rejected = FALSE]
  <2>1. /\ slip[c].shift # 0 /\ slip[c].docstatus = 0 /\ InDrawer /\ UNCHANGED bill /\ SameSessions
        /\ MoveCash(slip[c].shift, -SlipCash) /\ slip' = [slip EXCEPT ![c] = r]
    BY <1>5, <1>1 DEF ApprovePettyExpense, Draft, SameSessions
  <2>2. SessionsInv' /\ SameOpenings
    BY <1>1, <2>1, SameSessionsKeep
  <2>3. r \in Papers /\ r.shift = slip[c].shift /\ r.docstatus = 1 /\ ~r.auto /\ ~r.rejected
    <3>1. slip[c] \in Papers /\ ~slip[c].auto
      BY <1>1, <2>1
    <3> DEFINE q == [slip[c] EXCEPT !.docstatus = 1]
    <3>2. q \in Papers /\ q.shift = slip[c].shift /\ q.docstatus = 1 /\ ~q.auto
      BY <3>1 DEF Papers
    <3>3. r = [q EXCEPT !.rejected = FALSE]
      OBVIOUS
    <3> HIDE DEF q, r
    <3> QED BY <3>2, <3>3 DEF Papers
  <2> HIDE DEF r
  <2>4. Takes(slip[c], r.shift) - Takes(r, r.shift) = -SlipCash
    BY <2>1, <2>3, ConstantsAreNumbers DEF Takes
  <2>5. AutoFits(r)
    BY <2>3 DEF AutoFits
  <2>6. drawer' >= 0
    BY <1>1, <2>1, ConstantsAreNumbers DEF InDrawer, MoveCash
  <2>7. BooksInv'
    BY <1>1, <2>1, <2>2, <2>3, <2>4, <2>5, <2>6, SlipKeepsBooks
  <2> QED BY <2>2, <2>7 DEF CashInv
<1>6. CASE RejectPettyExpense(c)
  <2> DEFINE r == [slip[c] EXCEPT !.rejected = TRUE]
  <2>1. /\ slip[c].shift # 0 /\ slip[c].docstatus = 0 /\ UNCHANGED <<drawer, elsewhere, bill>>
        /\ SameSessions /\ slip' = [slip EXCEPT ![c] = r]
    BY <1>6, <1>1 DEF RejectPettyExpense, Draft, SameSessions
  <2>2. SessionsInv' /\ SameOpenings
    BY <1>1, <2>1, SameSessionsKeep
  <2>3. r \in Papers /\ r.shift = slip[c].shift /\ r.docstatus = 0 /\ ~r.auto
    BY <1>1, <2>1 DEF Papers
  <2> HIDE DEF r
  <2>4. Takes(slip[c], r.shift) - Takes(r, r.shift) = 0
    BY <2>1, <2>3 DEF Takes
  <2>5. AutoFits(r) /\ drawer' >= 0
    BY <1>1, <2>1, <2>3 DEF AutoFits
  <2>6. MoveCash(r.shift, 0)
    BY <1>1, <2>1 DEF MoveCash
  <2>7. BooksInv'
    BY <1>1, <2>1, <2>2, <2>3, <2>4, <2>5, <2>6, SlipKeepsBooks
  <2> QED BY <2>2, <2>7 DEF CashInv
<1>7. CASE CancelCashDrop(c)
  <2> DEFINE r == [slip[c] EXCEPT !.docstatus = 2]
  <2>1. /\ slip[c].docstatus = 1 /\ slip[c].shift # 0 /\ UNCHANGED bill /\ SameSessions
        /\ MoveCash(slip[c].shift, SlipCash) /\ slip' = [slip EXCEPT ![c] = r]
    BY <1>7, <1>1 DEF CancelCashDrop, SameSessions
  <2>2. SessionsInv' /\ SameOpenings
    BY <1>1, <2>1, SameSessionsKeep
  <2>3. /\ r \in Papers /\ r.shift = slip[c].shift /\ r.docstatus = 2
        /\ r.auto => r.kind = "PettyExpense"
    BY <1>1, <2>1 DEF Papers
  <2> HIDE DEF r
  <2>4. Takes(slip[c], r.shift) - Takes(r, r.shift) = SlipCash
    BY <2>1, <2>3, ConstantsAreNumbers DEF Takes
  <2>5. AutoFits(r)
    BY <2>3 DEF AutoFits
  <2>6. drawer' >= 0
    BY <1>1, <2>1, ConstantsAreNumbers DEF MoveCash
  <2>7. r.shift \in Shifts /\ Opened(r.shift) /\ slip[c].shift = r.shift
    BY <1>1, <2>1, <2>3
  <2>8. BooksInv'
    BY <1>1, <2>1, <2>2, <2>3, <2>4, <2>5, <2>6, <2>7, SlipKeepsBooks
  <2> QED BY <2>2, <2>8 DEF CashInv
<1> QED BY <1>2, <1>3, <1>4, <1>5, <1>6, <1>7

-----------------------------------------------------------------------------
(* Steps of the sessions                                                   *)

SignedOff(x, y) ==
    x.status = "Closed" /\ x.variance \notin -ApprovalLimit .. ApprovalLimit =>
        x.approved \/ x.auto \/ (x.actual = 0 /\ ~y.live)
Mirrors(x, y) ==
    /\ y.live => x.status \in {"PendingClose", "Closed"}
    /\ x.status = "Closed" /\ y.live => x.actual = y.actual

\* An opened session becomes r and its settlement q.
LEMMA SessionMoves ==
    ASSUME SessionsInv, NEW s \in Shifts, NEW r \in Sessions, NEW q \in Counted,
           shift' = [shift EXCEPT ![s] = r], settlement' = [settlement EXCEPT ![s] = q],
           Opened(s), r.status # "None", r.opening = shift[s].opening,
           r.status \in Running /\ Later(s) # {} => overnight',
           overnight => overnight', overnight' \in BOOLEAN, reworks' \in Nat,
           Mirrors(r, q), SignedOff(r, q)
    PROVE  SessionsInv' /\ SameOpenings
<1>1. /\ shift' \in [Shifts -> Sessions] /\ settlement' \in [Shifts -> Counted]
      /\ \A t \in Shifts : /\ shift'[t] = IF t = s THEN r ELSE shift[t]
                           /\ settlement'[t] = IF t = s THEN q ELSE settlement[t]
  BY DEF SessionsInv
<1>2. SameOpenings
  BY <1>1 DEF SameOpenings, Opened
<1>3. \A t \in Shifts : Later(t)' = Later(t)
  BY <1>2 DEF Later, SameOpenings
<1>4. ShiftsInOrder'
  <2>1. \A t \in Shifts : Opened(t)' => \A u \in 1..(t - 1) : Opened(u)'
    <3> SUFFICES ASSUME NEW t \in Shifts, Opened(t)', NEW u \in 1..(t - 1)
                 PROVE  Opened(u)'
      OBVIOUS
    <3>1. u \in Shifts
      BY ConstantsAreNumbers, SMT DEF Shifts
    <3>2. Opened(u)
      BY <1>2 DEF SessionsInv, ShiftsInOrder, SameOpenings
    <3> QED BY <1>2, <3>1, <3>2 DEF SameOpenings
  <2>2. \A t \in Shifts : IsRunning(t)' /\ Later(t)' # {} => overnight'
    <3> SUFFICES ASSUME NEW t \in Shifts, IsRunning(t)', Later(t)' # {}
                 PROVE  overnight'
      OBVIOUS
    <3>1. CASE t = s
      BY <1>1, <1>3, <3>1 DEF IsRunning
    <3>2. CASE t # s
      BY <1>1, <1>3, <3>2 DEF IsRunning, SessionsInv, ShiftsInOrder
    <3> QED BY <3>1, <3>2
  <2> QED BY <2>1, <2>2 DEF ShiftsInOrder
<1>5. SettledIsStopped' /\ SessionMirrorsSettlement'
  BY <1>1 DEF SettledIsStopped, SessionMirrorsSettlement, Mirrors, SessionsInv
<1>6. ShortfallsAreSigned'
  BY <1>1 DEF ShortfallsAreSigned, SignedOff, SessionsInv
<1> QED BY <1>1, <1>2, <1>4, <1>5, <1>6 DEF SessionsInv

LEMMA SessionFacts ==
    ASSUME CashInv, NEW s \in Shifts
    PROVE  /\ BooksInv /\ SessionsInv /\ shift \in [Shifts -> Sessions]
           /\ settlement \in [Shifts -> Counted]
           /\ shift[s] \in Sessions /\ settlement[s] \in Counted
           /\ shift' = shift => shift' = [shift EXCEPT ![s] = shift[s]]
           /\ settlement' = settlement => settlement' = [settlement EXCEPT ![s] = settlement[s]]
           /\ NoSettlement \in Counted /\ ~NoSettlement.live
           /\ Mirrors(shift[s], settlement[s]) /\ SignedOff(shift[s], settlement[s])
           /\ IsRunning(s) /\ Later(s) # {} => overnight
           /\ overnight \in BOOLEAN /\ reworks \in Nat /\ drawer \in Nat
           /\ Expected(s) \in Int
<1>1. CashTypeOK
  BY DEF CashInv, BooksInv, SessionsInv, CashTypeOK
<1>2. Expected(s) \in Int
  BY <1>1, ExpectedIsNumber
<1>3. BooksInv /\ SessionsInv /\ drawer \in Nat
  BY DEF CashInv, BooksInv
<1>4. NoSettlement \in Counted /\ ~NoSettlement.live
  BY DEF NoSettlement, Counted
<1>5. /\ shift \in [Shifts -> Sessions] /\ settlement \in [Shifts -> Counted]
      /\ overnight \in BOOLEAN /\ reworks \in Nat
  BY <1>3 DEF SessionsInv
<1>6. Mirrors(shift[s], settlement[s])
  BY <1>3 DEF SessionsInv, Mirrors, SettledIsStopped, SessionMirrorsSettlement
<1>7. SignedOff(shift[s], settlement[s])
  BY <1>3 DEF SessionsInv, SignedOff, ShortfallsAreSigned
<1>8. IsRunning(s) /\ Later(s) # {} => overnight
  BY <1>3 DEF SessionsInv, ShiftsInOrder
<1>9. /\ shift' = shift => shift' = [shift EXCEPT ![s] = shift[s]]
      /\ settlement' = settlement => settlement' = [settlement EXCEPT ![s] = settlement[s]]
  BY <1>5
<1> QED BY <1>2, <1>3, <1>4, <1>5, <1>6, <1>7, <1>8, <1>9

LEMMA ToggleLockKeeps ==
    ASSUME CashInv, NEW s \in Shifts, ToggleLock(s)
    PROVE  CashInv'
<1> DEFINE r(x) == [shift[s] EXCEPT !.status = x]
<1>1. PICK x \in {"Open", "Locked"} : shift' = [shift EXCEPT ![s] = r(x)]
  BY SessionFacts DEF ToggleLock
<1>2. shift[s].status \in {"Open", "Locked"} /\ UNCHANGED <<drawer, overnight, bill, slip, settlement, elsewhere, reworks>>
  BY DEF ToggleLock
<1>3. r(x) \in Sessions /\ r(x).status = x /\ r(x).opening = shift[s].opening
  BY SessionFacts DEF Sessions, Running
<1> HIDE DEF r
<1>4. /\ Opened(s) /\ r(x).status # "None" /\ ~settlement[s].live
      /\ r(x).status \in Running /\ Later(s) # {} => overnight'
  BY <1>2, <1>3, SessionFacts DEF Opened, Mirrors, IsRunning, Running
<1>5. Mirrors(r(x), settlement[s]) /\ SignedOff(r(x), settlement[s])
  BY <1>3, <1>4 DEF Mirrors, SignedOff
<1>6. SessionsInv' /\ SameOpenings
  BY <1>1, <1>2, <1>3, <1>4, <1>5, SessionFacts, SessionMoves
<1> QED BY <1>2, <1>6, SessionFacts, SessionsKeepBooks DEF CashInv

LEMMA NightFallsKeeps ==
    ASSUME CashInv, NightFalls
    PROVE  CashInv'
<1>1. SameOpenings /\ UNCHANGED <<drawer, bill, slip, elsewhere>>
  BY DEF NightFalls, SameOpenings, Opened
<1>2. BooksInv'
  BY <1>1, SessionsKeepBooks DEF CashInv
<1>3. SessionsInv'
  BY DEF NightFalls, CashInv, SessionsInv, ShiftsInOrder, IsRunning, Later, Opened,
         SettledIsStopped, SessionMirrorsSettlement, ShortfallsAreSigned
<1> QED BY <1>2, <1>3 DEF CashInv

LEMMA ReworkCounts ==
    ASSUME CashInv, reworks' = reworks + 1
    PROVE  reworks' \in Nat
<1>1. reworks \in Nat
  BY DEF CashInv, SessionsInv
<1> QED BY <1>1

LEMMA ReopenSettlementKeeps ==
    ASSUME CashInv, NEW s \in Shifts, ReopenSettlement(s)
    PROVE  CashInv'
<1> DEFINE r == [shift[s] EXCEPT !.status = "Open"]
<1>1. /\ shift[s].status = "PendingClose" /\ shift' = [shift EXCEPT ![s] = r]
      /\ settlement' = [settlement EXCEPT ![s] = NoSettlement]
      /\ UNCHANGED <<drawer, overnight, bill, slip, elsewhere>>
      /\ reworks' = reworks + 1
  BY SessionFacts DEF ReopenSettlement
<1>2. r \in Sessions /\ r.status = "Open" /\ r.opening = shift[s].opening
  BY SessionFacts DEF Sessions, Running
<1> HIDE DEF r
<1>3. /\ Opened(s) /\ r.status # "None" /\ reworks' \in Nat /\ overnight' \in BOOLEAN
      /\ r.status \in Running /\ Later(s) # {} => overnight'
  <2>1. Opened(s) /\ r.status # "None" /\ IsRunning(s) /\ overnight' = overnight
    BY <1>1, <1>2 DEF Opened, IsRunning, Running
  <2>2. reworks' \in Nat
    BY <1>1, ReworkCounts
  <2> QED BY <2>1, <2>2, SessionFacts
<1>4. Mirrors(r, NoSettlement) /\ SignedOff(r, NoSettlement)
  BY <1>2, SessionFacts DEF Mirrors, SignedOff
<1>5. SessionsInv' /\ SameOpenings
  BY <1>1, <1>2, <1>3, <1>4, SessionFacts, SessionMoves
<1> QED BY <1>1, <1>5, SessionFacts, SessionsKeepBooks DEF CashInv

\* A session that is closed as x says, with books that expect what they do.
LEMMA ClosedRecord ==
    ASSUME CashInv, NEW s \in Shifts, NEW cash \in Nat, NEW manager \in BOOLEAN,
           NEW auto \in BOOLEAN, Close(s, cash, manager, auto)
    PROVE  \E r \in Sessions :
              /\ shift' = [shift EXCEPT ![s] = r]
              /\ r.status = "Closed" /\ r.opening = shift[s].opening /\ r.actual = cash
              /\ r.variance = cash - Expected(s) /\ r.approved = manager /\ r.auto = auto
<1> DEFINE r == [shift[s] EXCEPT !.status = "Closed", !.actual = cash, !.expected = Expected(s),
                    !.variance = cash - Expected(s), !.auto = auto, !.approved = manager,
                    !.drops = Times(Movements(s), SlipCash)]
<1>1. shift' = [shift EXCEPT ![s] = r]
  BY DEF Close
<1>2. shift[s] \in Sessions /\ Expected(s) \in Int /\ Times(Movements(s), SlipCash) \in Nat
  BY SessionFacts, SumsAreNumbers DEF PaidOut
<1>3. cash - Expected(s) \in Int
  BY <1>2
<1>4. r \in Sessions /\ r.status = "Closed" /\ r.opening = shift[s].opening /\ r.actual = cash
      /\ r.variance = cash - Expected(s) /\ r.approved = manager /\ r.auto = auto
  BY <1>2, <1>3 DEF Sessions
<1> HIDE DEF r
<1> QED BY <1>1, <1>4

LEMMA CloseShiftKeeps ==
    ASSUME CashInv, NEW s \in Shifts, NEW count \in Nat, NEW manager \in BOOLEAN,
           CloseShift(s, count, manager)
    PROVE  CashInv'
<1> DEFINE cash == IF settlement[s].live THEN settlement[s].actual ELSE count
           signed == manager \/ (settlement[s].live /\ settlement[s].manager)
<1>1. /\ shift[s].status \in Running /\ Close(s, cash, signed, shift[s].auto)
      /\ NeedsManager(cash - Expected(s)) => signed \/ shift[s].auto
      /\ UNCHANGED <<drawer, overnight, bill, slip, settlement, elsewhere, reworks>>
  BY DEF CloseShift
<1>2. cash \in Nat /\ signed \in BOOLEAN /\ shift[s].auto \in BOOLEAN
  BY SessionFacts DEF Counted, Sessions
<1>3. settlement[s].live => cash = settlement[s].actual
  OBVIOUS
<1> HIDE DEF cash, signed
<1>4. PICK r \in Sessions :
         /\ shift' = [shift EXCEPT ![s] = r]
         /\ r.status = "Closed" /\ r.opening = shift[s].opening /\ r.actual = cash
         /\ r.variance = cash - Expected(s) /\ r.approved = signed /\ r.auto = shift[s].auto
  BY <1>1, <1>2, ClosedRecord
<1>5. Mirrors(r, settlement[s])
  BY <1>3, <1>4 DEF Mirrors
<1>6. SignedOff(r, settlement[s])
  <2>1. cash - Expected(s) \in Int
    BY <1>2, SessionFacts
  <2>2. cash - Expected(s) \notin -ApprovalLimit .. ApprovalLimit => NeedsManager(cash - Expected(s))
    BY <2>1, ConstantsAreNumbers DEF NeedsManager
  <2> QED BY <1>1, <1>4, <2>2 DEF SignedOff
<1>7. Opened(s) /\ r.status # "None" /\ r.status \notin Running
  BY <1>1, <1>4 DEF Opened, Running
<1>8. SessionsInv' /\ SameOpenings
  BY <1>1, <1>4, <1>5, <1>6, <1>7, SessionFacts, SessionMoves
<1> QED BY <1>1, <1>8, SessionFacts, SessionsKeepBooks DEF CashInv

LEMMA SweepShiftKeeps ==
    ASSUME CashInv, NEW s \in Shifts, NEW hourly \in BOOLEAN, SweepShift(s, hourly)
    PROVE  CashInv'
<1>1. /\ Active(s) /\ Close(s, 0, FALSE, shift[s].auto \/ hourly)
      /\ UNCHANGED <<drawer, overnight, bill, slip, settlement, elsewhere, reworks>>
  BY DEF SweepShift
<1>2. PICK r \in Sessions :
         /\ shift' = [shift EXCEPT ![s] = r]
         /\ r.status = "Closed" /\ r.opening = shift[s].opening /\ r.actual = 0
  <2>1. \E manager, auto \in BOOLEAN : Close(s, 0, manager, auto)
    <3>1. (shift[s].auto \/ hourly) \in BOOLEAN /\ FALSE \in BOOLEAN
      OBVIOUS
    <3> QED BY <1>1, <3>1, Zenon
  <2>2. PICK manager, auto \in BOOLEAN : Close(s, 0, manager, auto)
    BY <2>1
  <2> QED BY <2>2, ClosedRecord
<1>3. /\ ~settlement[s].live /\ Opened(s) /\ r.status # "None" /\ r.status \notin Running
      /\ Mirrors(r, settlement[s]) /\ SignedOff(r, settlement[s])
  BY <1>1, <1>2, SessionFacts DEF Active, Mirrors, SignedOff, Opened, Running
<1>4. SessionsInv' /\ SameOpenings
  BY <1>1, <1>2, <1>3, SessionFacts, SessionMoves
<1> QED BY <1>1, <1>4, SessionFacts, SessionsKeepBooks DEF CashInv

LEMMA AdminReopenKeeps ==
    ASSUME CashInv, NEW s \in Shifts, AdminReopen(s)
    PROVE  CashInv'
<1> DEFINE r == [shift[s] EXCEPT !.status = "Open", !.actual = 0,
                    !.expected = 0, !.variance = 0, !.approved = FALSE]
<1>1. /\ shift[s].status = "Closed" /\ shift' = [shift EXCEPT ![s] = r]
      /\ settlement' = [settlement EXCEPT ![s] = NoSettlement]
      /\ UNCHANGED <<drawer, bill, slip, elsewhere>>
      /\ reworks' = reworks + 1 /\ overnight' = (overnight \/ Later(s) # {})
  BY SessionFacts DEF AdminReopen
<1>2. r \in Sessions /\ r.status = "Open" /\ r.opening = shift[s].opening
  <2>1. shift[s] \in Sessions
    BY SessionFacts
  <2>2. \A n \in Nat, i \in Int, x \in BOOLEAN :
           LET z == [shift[s] EXCEPT !.status = "Open", !.actual = n, !.expected = i,
                                     !.variance = i, !.approved = x]
           IN  z \in Sessions /\ z.status = "Open" /\ z.opening = shift[s].opening
    BY <2>1 DEF Sessions, Running
  <2>3. 0 \in Nat /\ 0 \in Int /\ FALSE \in BOOLEAN
    OBVIOUS
  <2> QED BY <2>2, <2>3, Zenon
<1> HIDE DEF r
<1>3. /\ Opened(s) /\ r.status # "None" /\ reworks' \in Nat
      /\ r.status \in Running /\ Later(s) # {} => overnight'
      /\ overnight => overnight' /\ overnight' \in BOOLEAN
  <2>1. reworks' \in Nat
    BY <1>1, ReworkCounts
  <2>2. Opened(s) /\ r.status # "None"
    BY <1>1, <1>2 DEF Opened
  <2>3. overnight \in BOOLEAN
    BY SessionFacts
  <2> QED BY <1>1, <2>1, <2>2, <2>3
<1>4. Mirrors(r, NoSettlement) /\ SignedOff(r, NoSettlement)
  BY <1>2, SessionFacts DEF Mirrors, SignedOff
<1>5. SessionsInv' /\ SameOpenings
  BY <1>1, <1>2, <1>3, <1>4, SessionFacts, SessionMoves
<1> QED BY <1>1, <1>5, SessionFacts, SessionsKeepBooks DEF CashInv

LEMMA CorrectClosedSettlementKeeps ==
    ASSUME CashInv, NEW s \in Shifts, NEW count \in Nat, CorrectClosedSettlement(s, count)
    PROVE  CashInv'
<1> DEFINE q == [settlement[s] EXCEPT !.actual = count]
           r == [shift[s] EXCEPT !.actual = count, !.variance = count - settlement[s].expected,
                                 !.approved = TRUE]
<1>1. /\ shift[s].status = "Closed" /\ shift' = [shift EXCEPT ![s] = r]
      /\ settlement' = [settlement EXCEPT ![s] = q]
      /\ UNCHANGED <<drawer, overnight, bill, slip, elsewhere>> /\ reworks' = reworks + 1
  BY SessionFacts DEF CorrectClosedSettlement
<1>2. q \in Counted /\ q.actual = count
  BY SessionFacts DEF Counted
<1>3. settlement[s].expected \in Int /\ shift[s] \in Sessions
  BY SessionFacts DEF Counted
<1>4. count - settlement[s].expected \in Int
  BY <1>3
<1>5. /\ r \in Sessions /\ r.status = "Closed" /\ r.opening = shift[s].opening
      /\ r.actual = count /\ r.approved
  BY <1>1, <1>3, <1>4 DEF Sessions
<1> HIDE DEF q, r
<1>6. Mirrors(r, q) /\ SignedOff(r, q)
  BY <1>2, <1>5 DEF Mirrors, SignedOff
<1>7. Opened(s) /\ r.status # "None" /\ r.status \notin Running /\ reworks' \in Nat
  BY <1>1, <1>5, ReworkCounts DEF Opened, Running
<1>8. SessionsInv' /\ SameOpenings
  BY <1>1, <1>2, <1>5, <1>6, <1>7, SessionFacts, SessionMoves
<1> QED BY <1>1, <1>8, SessionFacts, SessionsKeepBooks DEF CashInv

\* The new session's books are the count it opens with, and the others' stand.
LEMMA OpenShiftKeeps ==
    ASSUME CashInv, NEW s \in Shifts, OpenShift(s)
    PROVE  CashInv'
<1> DEFINE r == [NoShift EXCEPT !.status = "Open", !.opening = drawer]
<1>1. /\ ~Opened(s) /\ shift' = [shift EXCEPT ![s] = r] /\ overnight' = FALSE
      /\ \A t \in Shifts : ~IsRunning(t)
      /\ \A t \in 1..(s - 1) : Opened(t)
      /\ UNCHANGED <<drawer, bill, slip, settlement, elsewhere, reworks>>
  BY DEF OpenShift
<1>2. r \in Sessions /\ r.status = "Open" /\ r.opening = drawer
  <2>1. drawer \in Nat
    BY SessionFacts
  <2>2. NoShift \in Sessions
    BY DEF Sessions, NoShift
  <2> QED BY <2>1, <2>2 DEF Sessions, Running
<1> HIDE DEF r
<1>3. /\ shift' \in [Shifts -> Sessions]
      /\ \A t \in Shifts : shift'[t] = IF t = s THEN r ELSE shift[t]
  BY <1>1, <1>2, SessionFacts
<1>4. Opened(s)' /\ \A t \in Shifts \ {s} : Opened(t)' <=> Opened(t)
  BY <1>2, <1>3 DEF Opened
<1>5. BooksInv /\ SessionsInv
  BY DEF CashInv
<1>6. \A t : Movements(t)' = Movements(t) /\ PaidOut(t)' = PaidOut(t) /\ TakenBy(t)' = TakenBy(t)
  BY <1>1 DEF Movements, PaidOut, TakenBy, InvoicesOf
<1>7. DrawerIsExplained'
  <2> SUFFICES ASSUME NEW t \in Shifts, Opened(t)'
               PROVE  drawer = shift'[t].opening + TakenBy(t) - PaidOut(t) + elsewhere[t]
    BY <1>1, <1>6 DEF DrawerIsExplained
  <2>1. CASE t = s
    <3>1. TakenBy(s) = 0 /\ PaidOut(s) = 0 /\ elsewhere[s] = 0
      BY <1>1, <1>5, NoPaperYet
    <3>2. drawer \in Nat
      BY SessionFacts
    <3> QED BY <1>2, <1>3, <2>1, <3>1, <3>2
  <2>2. CASE t # s
    BY <1>3, <1>4, <1>5, <2>2 DEF BooksInv, DrawerIsExplained
  <2> QED BY <2>1, <2>2
<1>8. PapersHaveAShift'
  BY <1>1, <1>4, <1>5 DEF BooksInv, PapersHaveAShift, Papers
<1>9. BooksInv'
  BY <1>1, <1>5, <1>6, <1>7, <1>8 DEF BooksInv, AutoIsBooked, AutoSpendWithinFloat
<1>10. \A t \in Shifts : t > s => ~Opened(t)
  <2> SUFFICES ASSUME NEW t \in Shifts, t > s, Opened(t)
               PROVE  FALSE
    OBVIOUS
  <2>1. s \in 1..(t - 1)
    BY ConstantsAreNumbers DEF Shifts
  <2> QED BY <1>1, <1>5, <2>1 DEF SessionsInv, ShiftsInOrder
<1>11. ShiftsInOrder'
  <2>1. \A t \in Shifts : Opened(t)' => \A u \in 1..(t - 1) : Opened(u)'
    <3> SUFFICES ASSUME NEW t \in Shifts, Opened(t)', NEW u \in 1..(t - 1)
                 PROVE  Opened(u)'
      OBVIOUS
    <3>1. u \in Shifts
      BY ConstantsAreNumbers, SMT DEF Shifts
    <3>2. Opened(u)
      BY <1>1, <1>4, <1>5 DEF SessionsInv, ShiftsInOrder
    <3> QED BY <1>4, <3>1, <3>2
  <2>2. \A t \in Shifts : IsRunning(t)' /\ Later(t)' # {} => overnight'
    <3> SUFFICES ASSUME NEW t \in Shifts, IsRunning(t)', Later(t)' # {}
                 PROVE  FALSE
      OBVIOUS
    <3>1. t = s
      BY <1>1, <1>3 DEF IsRunning
    <3>2. Later(s)' = {}
      BY <1>4, <1>10 DEF Later, Shifts
    <3> QED BY <3>1, <3>2
  <2> QED BY <2>1, <2>2 DEF ShiftsInOrder
<1>12. ~settlement[s].live
  BY <1>1, SessionFacts DEF Opened, Mirrors
<1>13. SettledIsStopped' /\ SessionMirrorsSettlement' /\ ShortfallsAreSigned'
  BY <1>1, <1>2, <1>3, <1>5, <1>12 DEF SessionsInv, SettledIsStopped, SessionMirrorsSettlement, ShortfallsAreSigned
<1>14. SessionsInv'
  BY <1>1, <1>3, <1>5, <1>11, <1>13 DEF SessionsInv
<1> QED BY <1>9, <1>14 DEF CashInv

\* Petty expenses declared at the counter are booked, and the session waits.
LEMMA CreateSettlementKeeps ==
    ASSUME CashInv, NEW s \in Shifts, NEW count \in Nat, NEW petty \in SUBSET Slips,
           Cardinality(petty) <= 1, NEW manager \in BOOLEAN,
           CreateSettlement(s, count, petty, manager)
    PROVE  CashInv'
<1> DEFINE spent == Times(petty, SlipCash)
           expected == Expected(s) - spent
           r == [shift[s] EXCEPT !.status = "PendingClose"]
           q == [live |-> TRUE, expected |-> expected, actual |-> count, manager |-> manager]
<1>1. /\ shift[s].status \in Running /\ UNCHANGED <<overnight, bill, reworks>>
      /\ shift' = [shift EXCEPT ![s] = r] /\ settlement' = [settlement EXCEPT ![s] = q]
      /\ MoveCash(s, -spent)
  BY DEF CreateSettlement
<1>2. IsFiniteSet(petty) /\ spent \in Nat
  BY ConstantsAreNumbers, FS_Subset, TimesIsNat
<1>3. q \in Counted /\ q.live
  <2>1. expected \in Int
    BY <1>2, SessionFacts
  <2> QED BY <2>1 DEF Counted
<1>4. r \in Sessions /\ r.status = "PendingClose" /\ r.opening = shift[s].opening
  BY SessionFacts DEF Sessions, Running
<1> HIDE DEF r, q
<1>5. /\ Opened(s) /\ r.status # "None" /\ IsRunning(s)
      /\ Mirrors(r, q) /\ SignedOff(r, q)
  BY <1>1, <1>3, <1>4 DEF Opened, IsRunning, Running, Mirrors, SignedOff
<1>6. SessionsInv' /\ SameOpenings
  BY <1>1, <1>3, <1>4, <1>5, SessionFacts, SessionMoves
<1>7. CASE petty = {}
  <2>1. slip' = slip /\ UNCHANGED <<drawer, elsewhere>>
    <3>1. spent = 0
      BY <1>7, ConstantsAreNumbers, TimesOfNone
    <3>2. MoveCash(s, 0)
      BY <1>1, <3>1
    <3>3. drawer \in Nat /\ elsewhere \in [Shifts -> Int] /\ slip \in [Slips -> Papers]
      BY DEF CashInv, BooksInv
    <3>4. UNCHANGED <<drawer, elsewhere>>
      BY <3>2, <3>3 DEF MoveCash
    <3>5. slip' = slip
      BY <1>7, <3>3 DEF CreateSettlement
    <3> QED BY <3>4, <3>5
  <2> QED BY <1>1, <1>6, <2>1, SessionsKeepBooks DEF CashInv
<1>8. CASE petty # {}
  <2>1. PICK c \in petty : TRUE
    BY <1>8
  <2>2. petty = {c}
    <3>1. IsFiniteSet(petty \ {c}) /\ Cardinality(petty \ {c}) = Cardinality(petty) - 1
      BY <1>2, <2>1, FS_RemoveElement
    <3>2. Cardinality(petty \ {c}) \in Nat /\ Cardinality(petty) \in Nat
      BY <1>2, <3>1, FS_CardinalityType
    <3>3. petty \ {c} = {}
      BY <3>1, <3>2, FS_EmptySet
    <3> QED BY <2>1, <3>3
  <2>3. spent = SlipCash
    <3>1. Cardinality({c}) = 1
      BY FS_Singleton
    <3> QED BY <2>2, <3>1, ConstantsAreNumbers DEF Times
  <2>4. c \in Slips /\ slip[c].shift = 0 /\ drawer >= SlipCash
    BY <1>8, <2>1, <2>2, <2>3 DEF CreateSettlement, Fresh
  <2>5. Record(c, s, "PettyExpense", FALSE)
    <3>1. slip \in [Slips -> Papers]
      BY DEF CashInv, BooksInv
    <3>2. slip' = [d \in Slips |-> IF d \in petty
                       THEN [shift |-> s, kind |-> "PettyExpense", docstatus |-> 1,
                             rejected |-> FALSE, auto |-> FALSE]
                       ELSE slip[d]]
      BY DEF CreateSettlement
    <3> QED BY <2>2, <2>4, <3>1, <3>2 DEF Record
  <2>6. InDrawer /\ MoveCash(s, -SlipCash) /\ "PettyExpense" \in MovementTypes
    BY <1>1, <2>3, <2>4 DEF InDrawer, MovementTypes
  <2>7. BooksInv'
    BY <1>1, <1>5, <1>6, <2>4, <2>5, <2>6, RecordKeeps
  <2> QED BY <1>6, <2>7 DEF CashInv
<1> QED BY <1>7, <1>8

-----------------------------------------------------------------------------
(* The cash of the till                                                    *)

LEMMA CashStarts == CashInit => CashInv
<1> SUFFICES ASSUME CashInit
             PROVE  CashInv
  OBVIOUS
<1>1. \A s \in Shifts : ~Opened(s)
  BY DEF CashInit, NoShift, Opened
<1>2. BooksInv
  <2>1. /\ drawer \in Nat /\ elsewhere \in [Shifts -> Int]
        /\ bill \in [Bills -> Invoices] /\ slip \in [Slips -> Papers]
    BY ConstantsAreNumbers DEF CashInit, Invoices, Papers, MovementTypes
  <2>2. DrawerIsExplained /\ PapersHaveAShift /\ AutoIsBooked
    BY <1>1 DEF DrawerIsExplained, PapersHaveAShift, AutoIsBooked, CashInit
  <2>3. \A s \in Shifts : {c \in Movements(s) : slip[c].auto} = {}
    BY DEF CashInit, Movements
  <2>4. AutoSpendWithinFloat
    BY <2>3, ConstantsAreNumbers, TimesOfNone DEF AutoSpendWithinFloat
  <2> QED BY <2>1, <2>2, <2>4 DEF BooksInv
<1>3. SessionsInv
  <2>1. /\ overnight \in BOOLEAN /\ reworks \in Nat
        /\ shift \in [Shifts -> Sessions] /\ settlement \in [Shifts -> Counted]
    <3>1. NoShift \in Sessions
      BY DEF Sessions, NoShift
    <3>2. NoSettlement \in Counted
      BY DEF Counted, NoSettlement
    <3> QED BY <3>1, <3>2 DEF CashInit
  <2>2. ShiftsInOrder
    BY <1>1 DEF ShiftsInOrder, IsRunning, Running, CashInit, NoShift
  <2>3. SettledIsStopped /\ SessionMirrorsSettlement /\ ShortfallsAreSigned
    BY DEF SettledIsStopped, SessionMirrorsSettlement, ShortfallsAreSigned, CashInit, NoShift, NoSettlement
  <2> QED BY <2>1, <2>2, <2>3 DEF SessionsInv
<1> QED BY <1>2, <1>3 DEF CashInv

LEMMA CashSteps == CashInv /\ [CashNext]_cashVars => CashInv'
<1> SUFFICES ASSUME CashInv, [CashNext]_cashVars
             PROVE  CashInv'
  OBVIOUS
<1>1. \A count \in Counts : count \in Nat
  BY DEF Counts
<1>2. CASE NightFalls
  BY <1>2, NightFallsKeeps
<1>3. ASSUME NEW s \in Shifts, OpenShift(s) \/ ToggleLock(s)
      PROVE  CashInv'
  BY <1>3, OpenShiftKeeps, ToggleLockKeeps
<1>4. ASSUME NEW s \in Shifts, NEW count \in Counts, NEW manager \in BOOLEAN,
             \/ \E petty \in SUBSET Slips :
                   Cardinality(petty) <= 1 /\ CreateSettlement(s, count, petty, manager)
             \/ CloseShift(s, count, manager)
      PROVE  CashInv'
  BY <1>1, <1>4, CreateSettlementKeeps, CloseShiftKeeps
<1>5. ASSUME NEW s \in Shifts,
             \/ ReopenSettlement(s)
             \/ \E hourly \in BOOLEAN : SweepShift(s, hourly)
             \/ AdminReopen(s)
             \/ \E count \in Counts : CorrectClosedSettlement(s, count)
      PROVE  CashInv'
  BY <1>1, <1>5, ReopenSettlementKeeps, SweepShiftKeeps, AdminReopenKeeps, CorrectClosedSettlementKeeps
<1>6. ASSUME NEW b \in Bills,
             \/ \E s \in Shifts, refund \in BOOLEAN : RingUp(b, s, refund)
             \/ PostBill(b)
             \/ \E override \in BOOLEAN : UndoBill(b, override)
      PROVE  CashInv'
  BY <1>6, BillSteps
<1>7. ASSUME NEW c \in Slips,
             \/ \E s \in Shifts :
                   \/ CreateCashDrop(c, s)
                   \/ \E kind \in MovementTypes \ {"CashDrop"} : CreateCashMovement(c, s, kind)
                   \/ \E category \in {"auto", "other"} : RequestPettyExpense(c, s, category)
             \/ ApprovePettyExpense(c)
             \/ RejectPettyExpense(c)
             \/ CancelCashDrop(c)
      PROVE  CashInv'
  BY <1>7, SlipSteps
<1>8. CASE UNCHANGED cashVars
  <2>1. /\ SameOpenings /\ SameSessions /\ UNCHANGED <<drawer, bill, slip, elsewhere>>
    BY <1>8 DEF cashVars, SameSessions, SameOpenings, Opened
  <2> QED BY <2>1, SessionsKeepBooks, SameSessionsKeep DEF CashInv
<1> QED BY <1>2, <1>3, <1>4, <1>5, <1>6, <1>7, <1>8 DEF CashNext

\* What the inductive invariant says in the words of the runs.
LEMMA CashInvSays == CashInv => CashTypeOK /\ CashIsAccounted
<1> SUFFICES ASSUME CashInv
             PROVE  CashTypeOK /\ CashIsAccounted
  OBVIOUS
<1>1. CashTypeOK
  BY DEF CashInv, BooksInv, SessionsInv, CashTypeOK
<1>2. BooksMatchDrawer
  BY <1>1, BooksAreExplained DEF CashInv, BooksInv
<1> QED BY <1>1, <1>2 DEF CashInv, BooksInv, SessionsInv, CashIsAccounted

\* The documents of a till are whole, and amounts of cash in hand are never
\* negative, for any number of sessions, bills and slips.
THEOREM CashTypeCorrect == CashSpec => []CashTypeOK
<1>1. CashSpec => []CashInv
  BY CashStarts, CashSteps, PTL DEF CashSpec
<1> QED BY <1>1, CashInvSays, PTL

\* Every rupee of the drawer is accounted for: the expected-cash calculation,
\* late bills and other sessions' documents add up to it, a closed session
\* shows its settlement's cash, unapproved petty cash stays in the float, and
\* a large variance is signed or swept.
THEOREM CashAccounted == CashSpec => []CashIsAccounted
<1>1. CashSpec => []CashInv
  BY CashStarts, CashSteps, PTL DEF CashSpec
<1> QED BY <1>1, CashInvSays, PTL

-----------------------------------------------------------------------------
(* The inductive invariant of overlapping requests                         *)

\* What a session was that a request of some kind found fit to start on.
FitFor(kind, x) ==
    /\ kind = "open" => x.status = "None"
    /\ kind = "lock" => x.status = "Open"
    /\ kind = "unlock" => x.status = "Locked"
    /\ kind = "settle" => x.status \in MayBeClosed /\ x.settlements = {}
    /\ kind = "reopenSettlement" => x.status = "PendingClose"
    /\ kind \in {"close", "sweep"} => x.status \in MayBeClosed
    /\ kind = "adminReopen" => x.status = "Closed"

\* A request that runs read a state its kind may start in.
ReadWhatItNeeds ==
    \A r \in Requests : request[r].phase = "running" =>
        /\ request[r].kind \in Kinds /\ request[r].on \in Tills
        /\ FitFor(request[r].kind, request[r].saw)
        /\ request[r].kind = "open" => request[r].running = {}

\* entryBy is the version of the closing entries: it names the request that
\* wrote them last, which is over, and who read it knows what they are.
EntryIsVersion ==
    /\ \A s \in Tills : till[s].entryBy \in Requests => request[till[s].entryBy].phase = "done"
    /\ \A r \in Requests : request[r].phase = "running" =>
          LET saw == request[r].saw
          IN  /\ saw.entryBy \in Requests => request[saw.entryBy].phase = "done"
              /\ saw.entryBy = till[request[r].on].entryBy =>
                    saw.closings = till[request[r].on].closings

OneClosing == \A s \in Tills : \A x, y \in till[s].closings : x = y

NoTwo(S) == \A x, y \in S : x = y
Coherent(x) ==
    /\ x.closings # {} <=> x.status = "Closed"
    /\ NoTwo(x.settlements)
    /\ x.settlements # {} => x.status \in {"PendingClose", "Closed"}
    /\ x.status = "PendingClose" => x.settlements # {}

TillInv ==
    /\ TillTypeOK
    /\ ReadWhatItNeeds
    /\ EntryIsVersion
    /\ OneClosing
    /\ \A s \in Tills \ raced : Coherent(till[s])
    /\ SecondTillIsExplained

\* A set without two different elements has one at most.
LEMMA NoTwoCounted ==
    ASSUME NEW S
    PROVE  NoTwo(S) => Cardinality(S) <= 1
<1> SUFFICES ASSUME NoTwo(S)
             PROVE  Cardinality(S) <= 1
  OBVIOUS
<1>1. CASE S = {}
  BY <1>1, FS_EmptySet
<1>2. CASE S # {}
  <2>1. PICK x \in S : S = {x}
    BY <1>2 DEF NoTwo
  <2>2. Cardinality({x}) = 1
    BY FS_Singleton
  <2> QED BY <2>1, <2>2
<1> QED BY <1>1, <1>2

\* What each kind of request makes of a session, field by field.
Keeps(now, w) == w.closings = now.closings /\ w.entryBy = now.entryBy
Becomes(r, kind, now, saw, w) ==
    /\ w \in Vouchers
    /\ kind = "open" => w.status = "Open" /\ w.settlements = {} /\ w.closings = {} /\ w.entryBy = r
    /\ kind = "lock" => w.status = "Locked" /\ w.settlements = now.settlements /\ Keeps(now, w)
    /\ kind = "unlock" => w.status = "Open" /\ w.settlements = now.settlements /\ Keeps(now, w)
    /\ kind = "settle" =>
          w.status = "PendingClose" /\ w.settlements = now.settlements \cup {r} /\ Keeps(now, w)
    /\ kind = "reopenSettlement" =>
          w.status = "Open" /\ w.settlements = now.settlements \ saw.settlements /\ Keeps(now, w)
    /\ kind \in {"close", "sweep"} =>
          /\ w.status = "Closed" /\ w.settlements = now.settlements
          /\ saw.closings # {} => Keeps(now, w)
          /\ saw.closings = {} => w.closings = now.closings \cup {r} /\ w.entryBy = r
    /\ kind = "adminReopen" =>
          w.status = "Open" /\ w.settlements = now.settlements \ saw.settlements
          /\ w.closings = {} /\ w.entryBy = r

LEMMA WhatIsWritten ==
    ASSUME NEW r \in Requests, NEW kind \in Kinds, NEW now \in Vouchers, NEW saw \in Vouchers
    PROVE  Becomes(r, kind, now, saw, Written(r, kind, now, saw))
<1> DEFINE w == Written(r, kind, now, saw)
<1> SUFFICES Becomes(r, kind, now, saw, w)
  OBVIOUS
<1>1. CASE kind = "open"
  <2>1. w = [NoTill EXCEPT !.status = "Open", !.entryBy = r]
    BY <1>1 DEF Written
  <2> HIDE DEF w
  <2> QED BY <1>1, <2>1 DEF Becomes, NoTill, Vouchers, MayBeClosed
<1>2. CASE kind = "lock"
  <2>1. w = [now EXCEPT !.status = "Locked"]
    BY <1>2 DEF Written
  <2> HIDE DEF w
  <2> QED BY <1>2, <2>1 DEF Becomes, Keeps, Vouchers, MayBeClosed
<1>3. CASE kind = "unlock"
  <2>1. w = [now EXCEPT !.status = "Open"]
    BY <1>3 DEF Written
  <2> HIDE DEF w
  <2> QED BY <1>3, <2>1 DEF Becomes, Keeps, Vouchers, MayBeClosed
<1>4. CASE kind = "settle"
  <2>1. w = [now EXCEPT !.status = "PendingClose", !.settlements = now.settlements \cup {r}]
    BY <1>4 DEF Written
  <2> HIDE DEF w
  <2> QED BY <1>4, <2>1 DEF Becomes, Keeps, Vouchers, MayBeClosed
<1>5. CASE kind = "reopenSettlement"
  <2>1. w = [now EXCEPT !.status = "Open", !.settlements = now.settlements \ saw.settlements]
    BY <1>5 DEF Written
  <2> HIDE DEF w
  <2> QED BY <1>5, <2>1 DEF Becomes, Keeps, Vouchers, MayBeClosed
<1>6. CASE kind \in {"close", "sweep"}
  <2>1. w = Closes(r, now, saw)
    BY <1>6 DEF Written
  <2>2. CASE saw.closings # {}
    <3>1. w = [now EXCEPT !.status = "Closed"]
      BY <2>1, <2>2 DEF Closes
    <3> HIDE DEF w
    <3> QED BY <1>6, <2>2, <3>1 DEF Becomes, Keeps, Vouchers, MayBeClosed
  <2>3. CASE saw.closings = {}
    <3>1. w = [now EXCEPT !.status = "Closed", !.closings = now.closings \cup {r}, !.entryBy = r]
      BY <2>1, <2>3 DEF Closes
    <3> HIDE DEF w
    <3> QED BY <1>6, <2>3, <3>1 DEF Becomes, Keeps, Vouchers, MayBeClosed
  <2> QED BY <2>2, <2>3
<1>7. CASE kind = "adminReopen"
  <2>1. w = [now EXCEPT !.status = "Open", !.settlements = now.settlements \ saw.settlements,
                        !.closings = {}, !.entryBy = r]
    BY <1>7 DEF Written
  <2> HIDE DEF w
  <2> QED BY <1>7, <2>1 DEF Becomes, Keeps, Vouchers, MayBeClosed
<1> QED BY <1>1, <1>2, <1>3, <1>4, <1>5, <1>6, <1>7 DEF Kinds

Deals == [phase : {"new", "running", "done"}, kind : Kinds \cup {"none"},
          on : Tills \cup {Nobody}, saw : Vouchers, running : SUBSET Tills]

LEMMA TillFacts ==
    ASSUME TillInv
    PROVE  /\ till \in [Tills -> Vouchers] /\ request \in [Requests -> Deals]
           /\ raced \in SUBSET Tills /\ readmitted \in SUBSET Tills
           /\ NewRequest \in Deals /\ NoTill \in Vouchers
<1>1. NoTill \in Vouchers
  BY DEF NoTill, Vouchers
<1>2. NewRequest \in Deals
  BY <1>1 DEF NewRequest, Deals
<1> QED BY <1>1, <1>2 DEF TillInv, TillTypeOK, Deals

LEMMA TillStarts == TillInit => TillInv
<1> SUFFICES ASSUME TillInit
             PROVE  TillInv
  OBVIOUS
<1>1. NoTill \in Vouchers /\ NoTill.status = "None" /\ NoTill.entryBy = Nobody
      /\ NoTill.closings = {} /\ NoTill.settlements = {}
  BY DEF NoTill, Vouchers
<1>2. NewRequest \in Deals /\ NewRequest.phase = "new"
  BY <1>1 DEF NewRequest, Deals
<1>3. TillTypeOK
  BY <1>1, <1>2 DEF TillInit, TillTypeOK, Deals
<1>4. ReadWhatItNeeds /\ EntryIsVersion
  BY <1>1, <1>2, TillAssumption DEF ReadWhatItNeeds, EntryIsVersion, TillInit
<1>5. OneClosing /\ \A s \in Tills \ raced : Coherent(till[s])
  BY <1>1 DEF OneClosing, Coherent, NoTwo, TillInit
<1>6. SecondTillIsExplained
  BY <1>1 DEF SecondTillIsExplained, RunningTills, MayBeClosed, TillInit
<1> QED BY <1>3, <1>4, <1>5, <1>6 DEF TillInv

\* A request that is over leaves the others, and what they read, alone.
LEMMA RollBackKeeps ==
    ASSUME TillInv, NEW r \in Requests, RollBack(r)
    PROVE  TillInv'
<1> DEFINE d == [NewRequest EXCEPT !.phase = "done"]
<1>1. d \in Deals /\ d.phase = "done"
  BY TillFacts DEF Deals
<1>2. request' = [request EXCEPT ![r] = d] /\ UNCHANGED <<till, raced, readmitted>>
  BY DEF RollBack
<1> HIDE DEF d
<1>3. /\ request' \in [Requests -> Deals]
      /\ \A q \in Requests : request'[q] = IF q = r THEN d ELSE request[q]
  BY <1>1, <1>2, TillFacts
<1>4. TillTypeOK'
  BY <1>2, <1>3 DEF TillInv, TillTypeOK, Deals
<1>5. ReadWhatItNeeds'
  BY <1>1, <1>3 DEF TillInv, ReadWhatItNeeds
<1>6. EntryIsVersion'
  BY <1>1, <1>2, <1>3 DEF TillInv, EntryIsVersion
<1>7. OneClosing' /\ (\A s \in Tills \ raced : Coherent(till[s]))' /\ SecondTillIsExplained'
  BY <1>2 DEF TillInv, OneClosing, SecondTillIsExplained, RunningTills
<1> QED BY <1>4, <1>5, <1>6, <1>7 DEF TillInv

LEMMA MayStartFits ==
    ASSUME NEW kind \in Kinds, NEW x, MayStart(kind, x)
    PROVE  FitFor(kind, x)
<1>1. CASE kind = "open"
  BY <1>1 DEF MayStart, MayOpen, FitFor
<1>2. CASE kind = "lock"
  BY <1>2 DEF MayStart, FitFor
<1>3. CASE kind = "unlock"
  BY <1>3 DEF MayStart, FitFor
<1>4. CASE kind = "settle"
  BY <1>4 DEF MayStart, MaySettle, FitFor
<1>5. CASE kind = "reopenSettlement"
  BY <1>5 DEF MayStart, MayReopenSettlement, FitFor
<1>6. CASE kind = "close"
  BY <1>6 DEF MayStart, MayClose, FitFor
<1>7. CASE kind = "sweep"
  BY <1>7 DEF MayStart, MaySweep, FitFor, MayBeClosed
<1>8. CASE kind = "adminReopen"
  BY <1>8 DEF MayStart, MayAdminReopen, FitFor
<1> QED BY <1>1, <1>2, <1>3, <1>4, <1>5, <1>6, <1>7, <1>8 DEF Kinds

LEMMA StartKeeps ==
    ASSUME TillInv, NEW r \in Requests, NEW kind \in Kinds, NEW s \in Tills, Start(r, kind, s)
    PROVE  TillInv'
<1> DEFINE d == [phase |-> "running", kind |-> kind, on |-> s,
                 saw |-> till[s], running |-> RunningTills]
<1>1. /\ d \in Deals /\ d.phase = "running" /\ d.kind = kind /\ d.on = s
      /\ d.saw = till[s] /\ d.running = RunningTills
  BY TillFacts DEF Deals, RunningTills
<1>2. /\ request[r].phase = "new" /\ MayStart(kind, till[s])
      /\ request' = [request EXCEPT ![r] = d] /\ UNCHANGED <<till, raced, readmitted>>
  BY DEF Start
<1> HIDE DEF d
<1>3. /\ request' \in [Requests -> Deals]
      /\ \A q \in Requests : request'[q] = IF q = r THEN d ELSE request[q]
  BY <1>1, <1>2, TillFacts
<1>4. TillTypeOK'
  BY <1>2, <1>3 DEF TillInv, TillTypeOK, Deals
<1>5. kind = "open" => till[s].status = "None" /\ RunningTills = {}
  BY <1>2 DEF MayStart, MayOpen
<1>6. FitFor(kind, till[s])
  BY <1>2, MayStartFits
<1>7. ReadWhatItNeeds'
  <2> SUFFICES ASSUME NEW q \in Requests, request'[q].phase = "running"
               PROVE  /\ request'[q].kind \in Kinds /\ request'[q].on \in Tills
                      /\ FitFor(request'[q].kind, request'[q].saw)
                      /\ request'[q].kind = "open" => request'[q].running = {}
    BY DEF ReadWhatItNeeds
  <2>1. CASE q = r
    BY <1>1, <1>2, <1>3, <1>5, <1>6, <2>1
  <2>2. CASE q # r
    BY <1>3, <2>2 DEF TillInv, ReadWhatItNeeds
  <2> QED BY <2>1, <2>2
<1>8. EntryIsVersion'
  BY <1>1, <1>2, <1>3 DEF TillInv, EntryIsVersion
<1>9. OneClosing' /\ (\A t \in Tills \ raced : Coherent(till[t]))' /\ SecondTillIsExplained'
  BY <1>2 DEF TillInv, OneClosing, SecondTillIsExplained, RunningTills
<1> QED BY <1>4, <1>7, <1>8, <1>9 DEF TillInv

\* A committing request writes what its kind does; it is marked as racing
\* unless the session is still what it read.
LEMMA CommitKeeps ==
    ASSUME TillInv, NEW r \in Requests, Commit(r)
    PROVE  TillInv'
<1> DEFINE kind == request[r].kind
           s == request[r].on
           saw == request[r].saw
           now == till[s]
           w == Written(r, kind, now, saw)
           d == [NewRequest EXCEPT !.phase = "done"]
           fresh == now = saw /\ (kind = "open" => RunningTills = request[r].running)
<1>1. /\ request[r].phase = "running" /\ FreshEnough(kind, now, saw)
      /\ till' = [till EXCEPT ![s] = w] /\ raced' = Marks(s, fresh)
      /\ readmitted' = IF kind = "adminReopen" THEN readmitted \cup {s} ELSE readmitted
      /\ request' = [request EXCEPT ![r] = d]
  BY Zenon DEF Commit
<1>2. /\ kind \in Kinds /\ s \in Tills /\ saw \in Vouchers /\ FitFor(kind, saw)
      /\ kind = "open" => request[r].running = {}
      /\ now \in Vouchers
  <2>1. request[r] \in Deals /\ till \in [Tills -> Vouchers]
    BY TillFacts
  <2> QED BY <1>1, <2>1 DEF TillInv, ReadWhatItNeeds, Deals
<1>3. Becomes(r, kind, now, saw, w)
  BY <1>2, WhatIsWritten
<1>4. /\ w \in Vouchers /\ till' \in [Tills -> Vouchers]
      /\ \A t \in Tills : till'[t] = IF t = s THEN w ELSE till[t]
  BY <1>1, <1>2, <1>3, TillFacts DEF Becomes
<1>5. /\ d \in Deals /\ d.phase = "done" /\ request' \in [Requests -> Deals]
      /\ \A q \in Requests : request'[q] = IF q = r THEN d ELSE request[q]
  <2>1. NewRequest \in Deals
    BY TillFacts
  <2>2. d \in Deals /\ d.phase = "done"
    BY <2>1 DEF Deals
  <2> HIDE DEF d
  <2> QED BY <1>1, <2>2, TillFacts
<1>6. raced' = (IF fresh THEN raced ELSE raced \cup {s})
  BY <1>1 DEF Marks
<1>7. saw.closings = {} /\ kind \in {"close", "sweep"} => now.closings = {}
  BY <1>1, <1>2 DEF FreshEnough, TillInv, EntryIsVersion
<1> HIDE DEF w, d
<1>8. TillTypeOK'
  <2>1. readmitted' \in SUBSET Tills
    BY <1>1, <1>2, TillFacts
  <2>2. raced' \in SUBSET Tills
    BY <1>2, <1>6, TillFacts
  <2> QED BY <1>4, <1>5, <2>1, <2>2 DEF TillTypeOK, Deals
<1>9. ReadWhatItNeeds'
  BY <1>5 DEF TillInv, ReadWhatItNeeds
<1>10. EntryIsVersion'
  <2>1. w.entryBy = r \/ Keeps(now, w)
    BY <1>2, <1>3 DEF Becomes, Kinds
  <2>2. \A q \in Requests : request[q].phase = "done" => request'[q].phase = "done"
    BY <1>5
  <2>3. \A t \in Tills : till'[t].entryBy \in Requests => request'[till'[t].entryBy].phase = "done"
    <3> SUFFICES ASSUME NEW t \in Tills, till'[t].entryBy \in Requests
                 PROVE  request'[till'[t].entryBy].phase = "done"
      OBVIOUS
    <3>1. CASE till'[t].entryBy = r
      BY <1>5, <3>1
    <3>2. CASE till'[t].entryBy = till[t].entryBy
      BY <2>2, <3>2 DEF TillInv, EntryIsVersion
    <3> QED BY <1>4, <2>1, <3>1, <3>2 DEF Keeps
  <2>4. ASSUME NEW q \in Requests, request'[q].phase = "running"
        PROVE  /\ request'[q].saw.entryBy \in Requests => request'[request'[q].saw.entryBy].phase = "done"
               /\ request'[q].saw.entryBy = till'[request'[q].on].entryBy =>
                     request'[q].saw.closings = till'[request'[q].on].closings
    <3>1. request'[q] = request[q] /\ request[q].phase = "running" /\ request[q].on \in Tills
      BY <1>5, <2>4 DEF TillInv, ReadWhatItNeeds
    <3>2. request[q].saw.entryBy \in Requests => request[request[q].saw.entryBy].phase = "done"
      BY <3>1 DEF TillInv, EntryIsVersion
    <3>3. request[q].saw.entryBy # r
      BY <1>1, <3>2
    <3>4. request[q].saw.entryBy = till[request[q].on].entryBy =>
             request[q].saw.closings = till[request[q].on].closings
      BY <3>1 DEF TillInv, EntryIsVersion
    <3> QED BY <1>4, <2>1, <2>2, <3>1, <3>2, <3>3, <3>4 DEF Keeps
  <2> QED BY <2>3, <2>4 DEF EntryIsVersion
<1>11. OneClosing'
  <2>1. w.closings \in {now.closings, {}, {r}}
    BY <1>2, <1>3, <1>7 DEF Becomes, Keeps, Kinds
  <2>2. \A x, y \in now.closings : x = y
    BY <1>2 DEF TillInv, OneClosing
  <2> QED BY <1>4, <2>1, <2>2 DEF TillInv, OneClosing
<1>12. (\A t \in Tills \ raced : Coherent(till[t]))'
  <2> SUFFICES ASSUME NEW t \in Tills, t \notin raced'
               PROVE  Coherent(till'[t])
    BY DEF Coherent, NoTwo
  <2>1. CASE t # s
    BY <1>4, <1>6, <2>1 DEF TillInv
  <2>2. CASE t = s
    <3>1. fresh /\ s \notin raced
      BY <1>6, <2>2
    <3>2. Coherent(now) /\ now = saw
      BY <1>2, <3>1 DEF TillInv
    <3> HIDE DEF now, saw, kind, s, fresh
    <3>3. Coherent(w)
      <4>1. CASE kind = "open"
        BY <1>3, <4>1 DEF Becomes, Coherent, NoTwo
      <4>2. CASE kind \in {"lock", "unlock"}
        BY <1>2, <1>3, <3>2, <4>2 DEF Becomes, Coherent, NoTwo, FitFor, Keeps
      <4>3. CASE kind = "settle"
        BY <1>2, <1>3, <3>2, <4>3 DEF Becomes, Coherent, NoTwo, FitFor, Keeps, MayBeClosed
      <4>4. CASE kind = "reopenSettlement"
        BY <1>2, <1>3, <3>2, <4>4 DEF Becomes, Coherent, NoTwo, FitFor, Keeps
      <4>5. CASE kind \in {"close", "sweep"}
        BY <1>2, <1>3, <3>2, <4>5 DEF Becomes, Coherent, NoTwo, FitFor, Keeps, MayBeClosed
      <4>6. CASE kind = "adminReopen"
        BY <1>2, <1>3, <3>2, <4>6 DEF Becomes, Coherent, NoTwo, FitFor
      <4> QED BY <1>2, <4>1, <4>2, <4>3, <4>4, <4>5, <4>6 DEF Kinds
    <3> QED BY <1>2, <1>4, <2>2, <3>3
  <2> QED BY <2>1, <2>2
<1>13. SecondTillIsExplained'
  <2>1. raced \subseteq raced' /\ readmitted \subseteq readmitted'
    BY <1>1, <1>6
  <2>2. fresh /\ kind # "adminReopen" /\ w.status \in MayBeClosed =>
           \/ kind = "open" /\ RunningTills = {}
           \/ now.status \in MayBeClosed
    BY <1>2, <1>3 DEF FitFor, Becomes, Kinds, MayBeClosed
  <2>3. ~fresh => s \in raced'
    BY <1>6
  <2>4. kind = "adminReopen" => s \in readmitted'
    BY <1>1
  <2>5. \A t \in RunningTills' : t \in RunningTills \/ t = s
    BY <1>4 DEF RunningTills
  <2>6. s \in RunningTills' => w.status \in MayBeClosed
    BY <1>4 DEF RunningTills
  <2>7. s \in RunningTills' => \/ s \in raced' \cup readmitted'
                               \/ RunningTills = {}
                               \/ s \in RunningTills
    BY <1>2, <2>2, <2>3, <2>4, <2>6 DEF RunningTills
  <2> HIDE DEF fresh, s, now, saw, kind
  <2> QED BY <2>1, <2>5, <2>7 DEF TillInv, SecondTillIsExplained
<1> QED BY <1>8, <1>9, <1>10, <1>11, <1>12, <1>13 DEF TillInv

LEMMA TillSteps == TillInv /\ [TillNext]_raceVars => TillInv'
<1> SUFFICES ASSUME TillInv, [TillNext]_raceVars
             PROVE  TillInv'
  OBVIOUS
<1>1. CASE UNCHANGED raceVars
  BY <1>1 DEF raceVars, TillInv, TillTypeOK, ReadWhatItNeeds, EntryIsVersion, OneClosing,
     SecondTillIsExplained, RunningTills
<1> QED BY <1>1, StartKeeps, CommitKeeps, RollBackKeeps DEF TillNext

LEMMA TillInvSays == TillInv => TillTypeOK /\ TillsStayCoherent
<1> SUFFICES ASSUME TillInv
             PROVE  TillTypeOK /\ TillsStayCoherent
  OBVIOUS
<1>1. ClosedOnce
  <2> SUFFICES ASSUME NEW s \in Tills
               PROVE  Cardinality(till[s].closings) <= 1
    BY DEF ClosedOnce
  <2>1. NoTwo(till[s].closings)
    BY DEF TillInv, OneClosing, NoTwo
  <2> QED BY <2>1, NoTwoCounted
<1>2. CoherentUnlessRaced
  <2> SUFFICES ASSUME NEW s \in Tills \ raced
               PROVE  /\ till[s].closings # {} <=> till[s].status = "Closed"
                      /\ Cardinality(till[s].settlements) <= 1
                      /\ till[s].settlements # {} => till[s].status \in {"PendingClose", "Closed"}
                      /\ till[s].status = "PendingClose" => till[s].settlements # {}
    BY DEF CoherentUnlessRaced
  <2>1. Coherent(till[s])
    BY DEF TillInv
  <2>2. Cardinality(till[s].settlements) <= 1
    BY <2>1, NoTwoCounted DEF Coherent
  <2> QED BY <2>1, <2>2 DEF Coherent
<1> QED BY <1>1, <1>2 DEF TillInv, TillsStayCoherent

\* Sessions, vouchers and requests are what the code can make of them.
THEOREM TillTypeCorrect == TillSpec => []TillTypeOK
<1>1. TillSpec => []TillInv
  BY TillStarts, TillSteps, PTL DEF TillSpec
<1> QED BY <1>1, TillInvSays, PTL

\* However many requests overlap on however many tills: one closing entry
\* stands at most, a till that was not overtaken is coherent, and a second
\* running till comes from an overtaken request or a reopening.
THEOREM TillsCoherent == TillSpec => []TillsStayCoherent
<1>1. TillSpec => []TillInv
  BY TillStarts, TillSteps, PTL DEF TillSpec
<1> QED BY <1>1, TillInvSays, PTL

=============================================================================
