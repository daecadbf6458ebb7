----------------------------- MODULE CashDrawer -----------------------------
(***************************************************************************)
(* The cash of one till: what the drawer holds, and what the sessions      *)
(* (CH POS Session), bills, cash movements (CH Cash Drop) and settlements  *)
(* (CH POS Settlement) of that till say it should hold.                    *)
(*                                                                         *)
(* A till works one session per business date (StoreDay), so a session is  *)
(* its day's shift here, numbered in the order they open.  One action is   *)
(* one committed request; a bill is two, since its cash is in the drawer   *)
(* before the request that books it commits.  Documents keep the session   *)
(* they were made in: cash may move today by a document of an earlier one. *)
(*                                                                         *)
(* A definition directly before another one that it resembles is a mutant. *)
(***************************************************************************)
EXTENDS Integers, FiniteSets

CONSTANTS
    NShifts,        \* bound on the sessions of the till
    Bills,          \* cash bills and cash refunds of the till
    Slips,          \* CH Cash Drop documents
    DefaultFloat,   \* POS Profile Extension.default_float
    BillCash,       \* the cash of one bill or refund
    SlipCash,       \* the amount of one cash movement
    PettyLimit,     \* POS Profile.ch_petty_cash_daily_limit
    ApprovalLimit,  \* variance_approval_threshold
    NeedSettlement, \* require_settlement_before_session_close
    MaxReworks,     \* bound on reopenings and corrections
    MaxPapers       \* bound on sessions and cash movements together

ASSUME CashAssumption ==
    /\ NShifts \in Nat
    /\ {DefaultFloat, BillCash, SlipCash, PettyLimit, ApprovalLimit, MaxReworks,
        MaxPapers} \subseteq Nat
    /\ NeedSettlement \in BOOLEAN
    /\ IsFiniteSet(Bills) /\ IsFiniteSet(Slips)

VARIABLES
    drawer,     \* the notes and coins in the drawer
    overnight,  \* the last shift's business date is over
    shift,      \* shift -> its session document
    bill,       \* bill -> its invoice
    slip,       \* cash movement -> its document
    settlement, \* shift -> its CH POS Settlement
    reworks,    \* reopenings and corrections so far
    elsewhere   \* ghost: shift -> cash moved by other shifts' documents since it opened

Shifts == 1..NShifts
cashVars == <<drawer, overnight, shift, bill, slip, settlement, reworks, elsewhere>>

MovementTypes == {"CashDrop", "PettyExpense", "Other"}
Running == {"Open", "Locked", "PendingClose"}
NoShift == [status |-> "None", opening |-> 0, actual |-> 0, expected |-> 0,
            variance |-> 0, drops |-> 0, approved |-> FALSE, auto |-> FALSE]
NoSettlement == [live |-> FALSE, expected |-> 0, actual |-> 0, manager |-> FALSE]

CashInit ==
    /\ drawer = DefaultFloat
    /\ overnight = FALSE
    /\ shift = [s \in Shifts |-> NoShift]
    /\ bill = [b \in Bills |-> [shift |-> 0, state |-> "none", refund |-> FALSE]]
    /\ slip = [c \in Slips |-> [shift |-> 0, kind |-> "CashDrop", docstatus |-> 0,
                                rejected |-> FALSE, auto |-> FALSE]]
    /\ settlement = [s \in Shifts |-> NoSettlement]
    /\ reworks = 0
    /\ elsewhere = [s \in Shifts |-> 0]

-----------------------------------------------------------------------------
(* The one expected-cash calculation                                       *)

Times(S, amount) == Cardinality(S) * amount
Opened(s) == shift[s].status # "None"
Posted(s, refund) == {b \in Bills : bill[b].shift = s /\ bill[b].state = "posted"
                                    /\ bill[b].refund = refund}
Movements(s) == {c \in Slips : slip[c].shift = s /\ slip[c].docstatus = 1}

\* build_settlement_snapshot
ExpectedOfKnownTypes(s) ==
    shift[s].opening + Times(Posted(s, FALSE), BillCash) - Times(Posted(s, TRUE), BillCash)
    - Times({c \in Movements(s) : slip[c].kind # "Other"}, SlipCash)
Expected(s) ==
    shift[s].opening + Times(Posted(s, FALSE), BillCash) - Times(Posted(s, TRUE), BillCash)
    - Times(Movements(s), SlipCash)

\* variance_policy.classify_variance: a reason is always to be had, the
\* manager is what the third band asks for.
NeedsManagerIfOver(v) == v > ApprovalLimit
NeedsManager(v) == v > ApprovalLimit \/ -v > ApprovalLimit

\* Cash moves through a document of shift s: the drawer changes, and every
\* other open book is off by as much.
MoveCash(s, amount) ==
    /\ drawer' = drawer + amount
    /\ elsewhere' = [t \in Shifts |-> IF Opened(t) /\ t # s THEN elsewhere[t] + amount
                                      ELSE elsewhere[t]]

-----------------------------------------------------------------------------
(* Opening                                                                 *)

IsRunning(s) == shift[s].status \in Running
Active(s) == shift[s].status \in {"Open", "Locked"}
Later(s) == {t \in Shifts : t > s /\ Opened(t)}

MorePaper ==
    Cardinality({t \in Shifts : Opened(t)}) + Cardinality({c \in Slips : slip[c].shift # 0})
        < MaxPapers

\* open_session: the cashier counts the drawer.  No request of yesterday is
\* still being served.
OpenShift(s) ==
    /\ \A t \in Shifts : ~IsRunning(t)
    /\ ~Opened(s) /\ \A t \in 1..(s - 1) : Opened(t)
    /\ MorePaper
    /\ s > 1 => overnight
    /\ \A b \in Bills : bill[b].state # "sent"
    /\ shift' = [shift EXCEPT ![s] = [NoShift EXCEPT !.status = "Open", !.opening = drawer]]
    /\ overnight' = FALSE
    /\ UNCHANGED <<drawer, bill, slip, settlement, elsewhere, reworks>>

ToggleLock(s) ==
    /\ \/ shift[s].status = "Open" /\ shift' = [shift EXCEPT ![s].status = "Locked"]
       \/ shift[s].status = "Locked" /\ shift' = [shift EXCEPT ![s].status = "Open"]
    /\ UNCHANGED <<drawer, overnight, bill, slip, settlement, elsewhere, reworks>>

NightFalls ==
    /\ ~overnight /\ \E s \in Shifts : Opened(s)
    /\ overnight' = TRUE
    /\ UNCHANGED <<drawer, shift, bill, slip, settlement, elsewhere, reworks>>

-----------------------------------------------------------------------------
(* Bills                                                                   *)

Worth(refund) == IF refund THEN -BillCash ELSE BillCash

\* A bill or a refund is asked for: the request reads the session (active,
\* Open, of today) and the cash changes hands.
RingUp(b, s, refund) ==
    /\ bill[b].state = "none"
    /\ shift[s].status = "Open" /\ ~overnight
    /\ drawer + Worth(refund) >= 0
    /\ bill' = [bill EXCEPT ![b] = [shift |-> s, state |-> "sent", refund |-> refund]]
    /\ MoveCash(s, Worth(refund))
    /\ UNCHANGED <<overnight, shift, slip, settlement, reworks>>

\* The request commits, whatever has become of its session meanwhile.
PostBill(b) ==
    /\ bill[b].state = "sent"
    /\ bill' = [bill EXCEPT ![b].state = "posted"]
    /\ UNCHANGED <<drawer, overnight, shift, slip, settlement, elsewhere, reworks>>

\* _enforce_cancel_policy: of today and while the till's session is Open,
\* unless the user holds one of cancellation_override_roles.
MayCancel(b, override) ==
    \/ override
    \/ /\ \E s \in Shifts : shift[s].status = "Open"
       /\ ~overnight /\ Later(bill[b].shift) = {}

\* The bill is refused or cancelled and the cash changes hands again.
UndoBill(b, override) ==
    /\ \/ bill[b].state = "sent"
       \/ bill[b].state = "posted" /\ MayCancel(b, override)
    /\ drawer - Worth(bill[b].refund) >= 0
    /\ bill' = [bill EXCEPT ![b].state = "cancelled"]
    /\ MoveCash(bill[b].shift, -Worth(bill[b].refund))
    /\ UNCHANGED <<overnight, shift, slip, settlement, reworks>>

-----------------------------------------------------------------------------
(* Cash movements                                                          *)

\* A document that moves cash out as it is submitted; Record makes a new one.
Record(c, s, kind, auto) ==
    slip' = [slip EXCEPT ![c] = [shift |-> s, kind |-> kind, docstatus |-> 1,
                                 rejected |-> FALSE, auto |-> auto]]
Fresh(c) == slip[c].shift = 0 /\ MorePaper
InDrawer == drawer >= SlipCash

\* session_api.create_cash_drop: the cap is what was in the drawer at the
\* opening, less the drops an earlier close of this session added up.
CreateCashDrop(c, s) ==
    LET estimated == shift[s].opening - shift[s].drops
    IN  /\ Fresh(c) /\ InDrawer
        /\ shift[s].status = "Open"
        /\ estimated > 0 => SlipCash <= estimated
        /\ Record(c, s, "CashDrop", FALSE)
        /\ MoveCash(s, -SlipCash)
        /\ UNCHANGED <<overnight, shift, bill, settlement, reworks>>

\* isolation_api.create_cash_movement, with the manager's PIN
CreateCashMovement(c, s, kind) ==
    /\ Fresh(c) /\ InDrawer
    /\ Active(s)
    /\ Record(c, s, kind, FALSE)
    /\ MoveCash(s, -SlipCash)
    /\ UNCHANGED <<overnight, shift, bill, settlement, reworks>>

\* get_spent_today: petty slips of today, drafts included
SpentInDraft ==
    {c \in Slips : /\ slip[c].kind = "PettyExpense" /\ slip[c].docstatus = 0
                   /\ slip[c].shift # 0 /\ ~overnight /\ Later(slip[c].shift) = {}}
SpentToday ==
    {c \in Slips : /\ slip[c].kind = "PettyExpense" /\ slip[c].docstatus # 2
                   /\ ~slip[c].rejected
                   /\ slip[c].shift # 0 /\ ~overnight /\ Later(slip[c].shift) = {}}

\* petty_cash.request_petty_expense: booked at once when the category is
\* pre-authorised and the float allows it, else kept as a draft.  (Of a stale
\* session it is refused by get_petty_cash_status, at the end.)
RequestPettyExpense(c, s, category) ==
    LET spent == Times(SpentToday, SlipCash)
        auto == category = "auto" /\ SlipCash + spent <= PettyLimit
    IN  /\ Fresh(c)
        /\ shift[s].status = "Open" /\ ~overnight
        /\ IF auto
           THEN /\ InDrawer
                /\ Record(c, s, "PettyExpense", TRUE)
                /\ MoveCash(s, -SlipCash)
           ELSE /\ slip' = [slip EXCEPT ![c] = [@ EXCEPT !.shift = s,
                                                         !.kind = "PettyExpense"]]
                /\ UNCHANGED <<drawer, elsewhere>>
        /\ UNCHANGED <<overnight, shift, bill, settlement, reworks>>

\* petty_cash.approve_petty_expense on a draft
Draft(c) == slip[c].shift # 0 /\ slip[c].docstatus = 0
ApprovePettyExpense(c) ==
    /\ Draft(c) /\ InDrawer
    /\ Active(slip[c].shift)
    /\ slip' = [slip EXCEPT ![c].docstatus = 1, ![c].rejected = FALSE]
    /\ MoveCash(slip[c].shift, -SlipCash)
    /\ UNCHANGED <<overnight, shift, bill, settlement, reworks>>
RejectPettyExpense(c) ==
    /\ Draft(c)
    /\ slip' = [slip EXCEPT ![c].rejected = TRUE]
    /\ UNCHANGED <<drawer, overnight, shift, bill, settlement, elsewhere, reworks>>

\* CHCashDrop.on_cancel asks nothing of the session; the money goes back.
CancelCashDrop(c) ==
    /\ slip[c].docstatus = 1
    /\ slip' = [slip EXCEPT ![c].docstatus = 2]
    /\ MoveCash(slip[c].shift, SlipCash)
    /\ UNCHANGED <<overnight, shift, bill, settlement, reworks>>

-----------------------------------------------------------------------------
(* Settlement and close                                                    *)

\* CHPOSSettlement.validate: one live settlement of a session, and a manager
\* when the policy asks for one.
SettlementFits(s, variance, manager) ==
    /\ ~settlement[s].live
    /\ NeedsManager(variance) = manager

\* isolation_api.create_settlement of a count c, with the petty expenses of
\* the day, if any, declared at the counter and booked first.
CreateSettlement(s, count, petty, manager) ==
    LET expected == Expected(s) - Times(petty, SlipCash)
    IN  /\ shift[s].status \in Running
        /\ SettlementFits(s, count - expected, manager)
        /\ petty # {} => Active(s) /\ drawer >= Times(petty, SlipCash)
        /\ \A c \in petty : Fresh(c)
        /\ slip' = [c \in Slips |-> IF c \in petty
                       THEN [shift |-> s, kind |-> "PettyExpense", docstatus |-> 1,
                             rejected |-> FALSE, auto |-> FALSE]
                       ELSE slip[c]]
        /\ MoveCash(s, -Times(petty, SlipCash))
        /\ settlement' = [settlement EXCEPT ![s] =
              [live |-> TRUE, expected |-> expected, actual |-> count,
               manager |-> manager]]
        /\ shift' = [shift EXCEPT ![s].status = "PendingClose"]
        /\ UNCHANGED <<overnight, bill, reworks>>

\* isolation_api.reopen_settlement
ReopenAsReopened(s) ==
    /\ reworks < MaxReworks /\ reworks' = reworks + 1
    /\ shift[s].status = "PendingClose" /\ settlement[s].live
    /\ settlement' = [settlement EXCEPT ![s] = NoSettlement]
    /\ shift' = [shift EXCEPT ![s].status = "Reopened"]
    /\ UNCHANGED <<drawer, overnight, bill, slip, elsewhere>>
ReopenSettlement(s) ==
    /\ reworks < MaxReworks /\ reworks' = reworks + 1
    /\ shift[s].status = "PendingClose" /\ settlement[s].live
    /\ settlement' = [settlement EXCEPT ![s] = NoSettlement]
    /\ shift' = [shift EXCEPT ![s].status = "Open"]
    /\ UNCHANGED <<drawer, overnight, bill, slip, elsewhere>>

\* CHPOSSession.close_session: expected cash is calculated anew
Close(s, cash, manager, auto) ==
    /\ shift' = [shift EXCEPT ![s] =
          [@ EXCEPT !.status = "Closed", !.actual = cash, !.expected = Expected(s),
                    !.variance = cash - Expected(s), !.auto = auto, !.approved = manager,
                    !.drops = Times(Movements(s), SlipCash)]]

\* session_api.close_session: the settlement's cash, when there is one, and
\* its manager's signature with it; _validate_variance lets a session pass
\* that a sweep has closed before.
CloseShift(s, count, manager) ==
    LET cash == IF settlement[s].live THEN settlement[s].actual ELSE count
        signed == manager \/ (settlement[s].live /\ settlement[s].manager)
    IN  /\ shift[s].status \in Running
        /\ NeedSettlement => settlement[s].live
        /\ manager => NeedsManager(cash - Expected(s))   \* a PIN is typed when asked for
        /\ NeedsManager(cash - Expected(s)) => signed \/ shift[s].auto
        /\ Close(s, cash, signed, shift[s].auto)
        /\ UNCHANGED <<drawer, overnight, bill, slip, settlement, elsewhere, reworks>>

\* auto_close_stale_sessions, auto_close_overnight_sessions: nobody counts
SweepShift(s, hourly) ==
    /\ Active(s) /\ overnight
    /\ Close(s, 0, FALSE, shift[s].auto \/ hourly)
    /\ UNCHANGED <<drawer, overnight, bill, slip, settlement, elsewhere, reworks>>

\* session_api.admin_reopen_session: total_cash_drops and auto_closed stay
AdminReopen(s) ==
    /\ reworks < MaxReworks /\ reworks' = reworks + 1
    /\ shift[s].status = "Closed"
    /\ \A t \in Shifts : ~IsRunning(t)
    /\ settlement' = [settlement EXCEPT ![s] = NoSettlement]
    /\ shift' = [shift EXCEPT ![s] = [@ EXCEPT !.status = "Open", !.actual = 0,
                    !.expected = 0, !.variance = 0, !.approved = FALSE]]
    /\ overnight' = (overnight \/ Later(s) # {})
    /\ UNCHANGED <<drawer, bill, slip, elsewhere>>

\* isolation_api.correct_closed_settlement: both records take the new count,
\* and the variance against what the settlement expected
CorrectSettlementOnly(s, count) ==
    /\ reworks < MaxReworks /\ reworks' = reworks + 1
    /\ shift[s].status = "Closed" /\ settlement[s].live
    /\ settlement' = [settlement EXCEPT ![s].actual = count]
    /\ UNCHANGED <<drawer, overnight, shift, bill, slip, elsewhere>>
CorrectClosedSettlement(s, count) ==
    /\ reworks < MaxReworks /\ reworks' = reworks + 1
    /\ shift[s].status = "Closed" /\ settlement[s].live
    /\ settlement' = [settlement EXCEPT ![s].actual = count]
    /\ shift' = [shift EXCEPT ![s].actual = count,
                              ![s].variance = count - settlement[s].expected,
                              ![s].approved = TRUE]
    /\ UNCHANGED <<drawer, overnight, bill, slip, elsewhere>>

-----------------------------------------------------------------------------

Counts == {drawer, drawer - 1} \cap Nat   \* a right and a short count

CashNext ==
    \/ NightFalls
    \/ \E s \in Shifts :
          \/ OpenShift(s)
          \/ ToggleLock(s)
          \/ \E count \in Counts, manager \in BOOLEAN :
                \/ \E petty \in SUBSET Slips :
                      Cardinality(petty) <= 1 /\ CreateSettlement(s, count, petty, manager)
                \/ CloseShift(s, count, manager)
          \/ ReopenSettlement(s)
          \/ \E hourly \in BOOLEAN : SweepShift(s, hourly)
          \/ AdminReopen(s)
          \/ \E count \in Counts : CorrectClosedSettlement(s, count)
          \/ \E b \in Bills, refund \in BOOLEAN : RingUp(b, s, refund)
          \/ \E c \in Slips :
                \/ CreateCashDrop(c, s)
                \/ \E kind \in MovementTypes \ {"CashDrop"} : CreateCashMovement(c, s, kind)
                \/ \E category \in {"auto", "other"} : RequestPettyExpense(c, s, category)
    \/ \E b \in Bills :
          \/ PostBill(b)
          \/ \E override \in BOOLEAN : UndoBill(b, override)
    \/ \E c \in Slips :
          \/ ApprovePettyExpense(c)
          \/ RejectPettyExpense(c)
          \/ CancelCashDrop(c)

CashSpec == CashInit /\ [][CashNext]_cashVars

-----------------------------------------------------------------------------
(* Properties                                                             *)

Sessions == [status : {"None", "Closed"} \cup Running, opening : Nat, actual : Nat,
             expected : Int, variance : Int, drops : Nat, approved : BOOLEAN, auto : BOOLEAN]
Invoices == [shift : {0} \cup Shifts, state : {"none", "sent", "posted", "cancelled"},
             refund : BOOLEAN]
Papers == [shift : {0} \cup Shifts, kind : MovementTypes, docstatus : 0..2,
           rejected : BOOLEAN, auto : BOOLEAN]
Counted == [live : BOOLEAN, expected : Int, actual : Nat, manager : BOOLEAN]

\* Amounts of cash in hand never fall below zero, and the documents are whole.
CashTypeOK ==
    /\ drawer \in Nat /\ overnight \in BOOLEAN /\ reworks \in Nat
    /\ shift \in [Shifts -> Sessions] /\ elsewhere \in [Shifts -> Int]
    /\ bill \in [Bills -> Invoices] /\ slip \in [Slips -> Papers]
    /\ settlement \in [Shifts -> Counted]

\* Cash that is in the drawer, or out of it, for a bill still being written.
OnItsWay(s) ==
    LET unbooked(refund) == {b \in Bills : bill[b].shift = s /\ bill[b].state = "sent"
                                           /\ bill[b].refund = refund}
    IN  Times(unbooked(FALSE), BillCash) - Times(unbooked(TRUE), BillCash)

\* The expected cash of a session accounts for every rupee of the drawer, at
\* any moment after it opened and whatever was cancelled, refunded, approved
\* late or reopened, but for bills still being written and for documents of
\* the till's other sessions ("Any movement type added later must still
\* leave the till").
BooksMatchDrawer ==
    \A s \in Shifts :
        Opened(s) => drawer = Expected(s) + elsewhere[s] + OnItsWay(s)

\* A closed session and the settlement it was closed on show the same cash,
\* after any corrections.
SessionMirrorsSettlement ==
    \A s \in Shifts :
        shift[s].status = "Closed" /\ settlement[s].live =>
            shift[s].actual = settlement[s].actual

\* Petty cash nobody approved stays within the day's float, whatever
\* requests wait, are rejected or are cancelled in between.
AutoSpendWithinFloat ==
    \A s \in Shifts :
        Times({c \in Movements(s) : slip[c].auto}, SlipCash) <= PettyLimit

\* A session closed by a person with a variance beyond the approval limit
\* has a manager's signature, unless a sweep closed it once before.
ShortfallsAreSigned ==
    \A s \in Shifts :
        shift[s].status = "Closed" /\ shift[s].variance \notin -ApprovalLimit .. ApprovalLimit =>
            shift[s].approved \/ shift[s].auto \/ (shift[s].actual = 0 /\ ~settlement[s].live)

\* The drawer's cash is accounted for: by the books, in both records of a
\* count, within the float, and with a signature where it falls short.
CashIsAccounted ==
    /\ BooksMatchDrawer
    /\ SessionMirrorsSettlement
    /\ AutoSpendWithinFloat
    /\ ShortfallsAreSigned

-----------------------------------------------------------------------------
(* What the code or its comments say and a run refutes                     *)

\* "This petty cash request has already been decided." (petty_cash.py:265)
RejectedStaysRejected ==
    [][\A c \in Slips : slip[c].rejected => slip'[c].docstatus = 0]_cashVars

\* "There is now exactly one calculation" (ch_pos_session.py:392): the
\* variance that was settled is the variance of the close.
OneVariance ==
    [][\A s \in Shifts : settlement[s].live /\ IsRunning(s) /\ shift'[s].status = "Closed" =>
          shift'[s].variance = settlement[s].actual - settlement[s].expected]_cashVars

=============================================================================
