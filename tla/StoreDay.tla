------------------------------ MODULE StoreDay ------------------------------
(***************************************************************************)
(* The trading day of a store: its tills (CH POS Session), the ERPNext     *)
(* POS Opening / Closing Entries behind them, the settlement that precedes *)
(* a close, and the store's business date (CH Business Date).              *)
(*                                                                         *)
(* One action is one committed request or one committed scheduler job.     *)
(* A refusal (frappe.throw) rolls the request back, so it is the absence   *)
(* of a step.  Requests are not interleaved here: each one is atomic.      *)
(*                                                                         *)
(* A definition that directly precedes another one and differs from it by  *)
(* a slip (a dropped check, a forgotten update) is a mutant of it: no      *)
(* action uses it, the properties must reject it.                          *)
(***************************************************************************)
EXTENDS Integers, FiniteSets

CONSTANTS
    Stores,              \* CH Store
    Profiles,            \* POS Profile, one counter of a store
    StoreOf,             \* POS Profile Extension.store
    Users,               \* cashiers
    Sessions,            \* names of CH POS Session documents
    MaxDay,              \* bound on the calendar
    SettlementRequired,  \* require_settlement_before_session_close
    BlockOnEdcMismatch   \* block_business_date_on_edc_mismatch

ASSUME StoreDayAssumption ==
    /\ Profiles # {} /\ Users # {}
    /\ StoreOf \in [Profiles -> Stores]
    /\ MaxDay \in Nat \ {0}
    /\ SettlementRequired \in BOOLEAN
    /\ BlockOnEdcMismatch \in BOOLEAN

VARIABLES
    today,      \* calendar day of the server (nowdate)
    bizDate,    \* store -> CH Business Date.business_date, NoRow if no document
    bizStatus,  \* store -> CH Business Date.status
    status,     \* session -> CH POS Session.status, "None" before it exists
    profile,    \* session -> CH POS Session.pos_profile
    date,       \* session -> CH POS Session.business_date
    cashier,    \* session -> user of its POS Opening Entry
    entry,      \* session -> status of its POS Opening Entry
    closing,    \* session -> the entry has a submitted POS Closing Entry
    settled     \* session -> it has a submitted CH POS Settlement

sessionVars == <<status, profile, date, cashier, entry, closing, settled>>
vars == <<today, bizDate, bizStatus, sessionVars>>

NoRow == 0
Days == Nat \ {0}

Billable   == {"Open", "Locked"}                  \* get_active_session
Closable   == {"Open", "Locked", "Pending Close"} \* close_session, create_settlement

TypeOK ==
    /\ today \in Days
    /\ bizDate \in [Stores -> Nat]
    /\ bizStatus \in [Stores -> {"Open", "Closing Pending", "Closed"}]
    /\ status \in [Sessions -> {"None", "Closed"} \cup Closable]
    /\ profile \in [Sessions -> Profiles]
    /\ date \in [Sessions -> Nat]
    /\ cashier \in [Sessions -> Users]
    /\ entry \in [Sessions -> {"None", "Open", "Closed"}]
    /\ closing \in [Sessions -> BOOLEAN]
    /\ settled \in [Sessions -> BOOLEAN]

-----------------------------------------------------------------------------

\* The store of a session.
Store(s) == StoreOf[profile[s]]

\* Submitted sessions of a store, and those of them that are not Closed.
SessionsAt(st) == {s \in Sessions : status[s] # "None" /\ Store(s) = st}
ActiveAt(st) == {s \in SessionsAt(st) : status[s] # "Closed"}

\* get_store_business_date: a store without a row trades on the calendar day.
StoreDate(st) == IF bizDate[st] = NoRow THEN today ELSE bizDate[st]

\* is_session_stale
Stale(s) == date[s] < today

Init ==
    /\ today = 1
    /\ bizDate \in [Stores -> {NoRow, 1}]
    /\ bizStatus = [st \in Stores |-> "Open"]
    /\ status = [s \in Sessions |-> "None"]
    /\ profile \in {[s \in Sessions |-> p] : p \in {CHOOSE p \in Profiles : TRUE}}
    /\ date = [s \in Sessions |-> 0]
    /\ cashier \in {[s \in Sessions |-> u] : u \in {CHOOSE u \in Users : TRUE}}
    /\ entry = [s \in Sessions |-> "None"]
    /\ closing = [s \in Sessions |-> FALSE]
    /\ settled = [s \in Sessions |-> FALSE]

-----------------------------------------------------------------------------
(* Opening                                                                 *)

\* Open entries of this profile or this cashier that no running session
\* owns: open_session closes them before it creates its own.  The cashier's
\* other running tills are parked while ERPNext creates the new entry and
\* set back to Open in the same transaction, which leaves them as they were.
OrphansOrNot(u, p) ==
    {t \in Sessions : entry[t] = "Open" /\ (profile[t] = p \/ cashier[t] = u)}
Orphans(u, p) ==
    {t \in Sessions : /\ entry[t] = "Open" /\ ~closing[t]
                      /\ profile[t] = p \/ cashier[t] = u
                      /\ status[t] = "Closed"}

\* _validate_no_duplicate_open_for_store: no session of the store runs.
\* (The check in the API itself looks for Open only.)
StoreIsQuietApiCheckOnly(st) == \A s \in SessionsAt(st) : status[s] # "Open"
StoreIsQuiet(st) == ActiveAt(st) = {}

\* closed_for_day: the store has not closed this date yet.
DateNotClosedUnchecked(st, d) == TRUE
DateNotClosed(st, d) ==
    \A t \in SessionsAt(st) : ~(status[t] = "Closed" /\ date[t] = d)

OpenSession(s, u, p) ==
    LET st == StoreOf[p]
        d  == StoreDate(st)
    IN  /\ status[s] = "None"
        /\ StoreIsQuiet(st)
        /\ DateNotClosed(st, d)
        /\ status' = [status EXCEPT ![s] = "Open"]
        /\ profile' = [profile EXCEPT ![s] = p]
        /\ date' = [date EXCEPT ![s] = d]
        /\ cashier' = [cashier EXCEPT ![s] = u]
        /\ entry' = [t \in Sessions |->
                        IF t = s THEN "Open"
                        ELSE IF t \in Orphans(u, p) THEN "Closed"
                        ELSE entry[t]]
        /\ bizStatus' = IF bizDate[st] # NoRow /\ bizStatus[st] = "Closed"
                        THEN [bizStatus EXCEPT ![st] = "Open"]
                        ELSE bizStatus
        /\ UNCHANGED <<today, bizDate, closing, settled>>

-----------------------------------------------------------------------------
(* During the shift                                                        *)

LockSession(s) ==
    /\ status[s] = "Open"
    /\ status' = [status EXCEPT ![s] = "Locked"]
    /\ UNCHANGED <<today, bizDate, bizStatus, profile, date, cashier, entry, closing, settled>>

UnlockSession(s) ==
    /\ status[s] = "Locked"
    /\ status' = [status EXCEPT ![s] = "Open"]
    /\ UNCHANGED <<today, bizDate, bizStatus, profile, date, cashier, entry, closing, settled>>

\* A supervisor frees a cashier: every open entry of that user, wherever it
\* is, is closed; the sessions stay as they are.
ReleaseCashierAssignment(u) ==
    /\ \E t \in Sessions : entry[t] = "Open" /\ cashier[t] = u
    /\ entry' = [t \in Sessions |->
                    IF entry[t] = "Open" /\ cashier[t] = u THEN "Closed" ELSE entry[t]]
    /\ UNCHANGED <<today, bizDate, bizStatus, status, profile, date, cashier, closing, settled>>

\* Settlement.cancel(), by a manager (ReopenSettlement) or by the reopening
\* of the closed session (AdminReopenSession).
KeepSettlement(s) == UNCHANGED settled
CancelSettlement(s) == settled' = [settled EXCEPT ![s] = FALSE]

CreateSettlement(s) ==
    /\ status[s] \in Closable
    /\ ~settled[s]
    /\ settled' = [settled EXCEPT ![s] = TRUE]
    /\ status' = [status EXCEPT ![s] = "Pending Close"]
    /\ UNCHANGED <<today, bizDate, bizStatus, profile, date, cashier, entry, closing>>

ReopenSettlement(s) ==
    /\ status[s] = "Pending Close"
    /\ settled[s]
    /\ CancelSettlement(s)
    /\ status' = [status EXCEPT ![s] = "Open"]
    /\ UNCHANGED <<today, bizDate, bizStatus, profile, date, cashier, entry, closing>>

-----------------------------------------------------------------------------
(* Closing                                                                 *)

\* CHPOSSession.close_session on every session of S: Closed, with a POS
\* Closing Entry submitted on its opening entry (which ERPNext closes).  An
\* entry a supervisor released is set back to Open first, so it is no bar.
CloseTillsHalfWay(S) ==
    /\ status' = [s \in Sessions |-> IF s \in S THEN "Closing" ELSE status[s]]
    /\ entry' = [s \in Sessions |-> IF s \in S THEN "Closed" ELSE entry[s]]
    /\ closing' = [s \in Sessions |-> closing[s] \/ s \in S]
CloseTills(S) ==
    /\ status' = [s \in Sessions |-> IF s \in S THEN "Closed" ELSE status[s]]
    /\ entry' = [s \in Sessions |-> IF s \in S THEN "Closed" ELSE entry[s]]
    /\ closing' = [s \in Sessions |-> closing[s] \/ s \in S]

\* _update_business_date_status_after_close
StatusAfterClose(s) ==
    LET st == Store(s)
    IN  IF bizDate[st] # date[s] THEN bizStatus[st]
        ELSE IF \E t \in ActiveAt(st) \ {s} : date[t] = date[s]
             THEN "Closing Pending"
             ELSE "Closed"

\* _auto_advance_business_date_after_eod: may the store date roll to today?
DayCompleteOneTill(s, edcMatched) ==
    /\ edcMatched \/ ~BlockOnEdcMismatch
    /\ StoreDate(Store(s)) = date[s]
    /\ date[s] + 1 <= today
DayComplete(s, edcMatched) ==
    /\ ActiveAt(Store(s)) \subseteq {s}
    /\ edcMatched \/ ~BlockOnEdcMismatch
    /\ StoreDate(Store(s)) = date[s]
    /\ date[s] + 1 <= today

\* session_api.close_session
CloseSession(s) ==
    LET st == Store(s)
    IN  /\ status[s] \in Closable
        /\ SettlementRequired => settled[s]
        /\ CloseTills({s})
        /\ \E edcMatched \in BOOLEAN :
              IF DayComplete(s, edcMatched)
              THEN /\ bizDate' = [bizDate EXCEPT ![st] = today]
                   /\ bizStatus' = [bizStatus EXCEPT ![st] = "Open"]
              ELSE /\ bizStatus' = [bizStatus EXCEPT ![st] = StatusAfterClose(s)]
                   /\ UNCHANGED bizDate
        /\ UNCHANGED <<today, profile, date, cashier, settled>>

\* What the two sweeps look for: running sessions of an earlier day.
SweepableOpenOnly == {s \in Sessions : status[s] = "Open" /\ Stale(s)}
Sweepable == {s \in Sessions : status[s] \in Billable /\ Stale(s)}

\* auto_close_stale_sessions (hourly) and auto_close_overnight_sessions
\* (06:00): one savepoint per session, so any of the closes may fail alone.
SweepSessions(failed) ==
    /\ Sweepable \ failed # {}
    /\ CloseTills(Sweepable \ failed)
    /\ UNCHANGED <<today, bizDate, bizStatus, profile, date, cashier, settled>>

-----------------------------------------------------------------------------
(* Corrections                                                             *)

\* The POS Closing Entry is cancelled and the opening entry set to Open.
ReopenEntryOnly(s) ==
    /\ entry' = [entry EXCEPT ![s] = "Open"]
    /\ UNCHANGED closing
ReopenVoucher(s) ==
    /\ entry' = [entry EXCEPT ![s] = "Open"]
    /\ closing' = [closing EXCEPT ![s] = FALSE]

\* The store is working again: a Closed day is demoted.
DayStatusUntouched(st) == bizStatus[st]
DayStatusAfterReopen(st) ==
    IF bizDate[st] # NoRow /\ bizStatus[st] = "Closed"
    THEN "Closing Pending" ELSE bizStatus[st]

\* session_api.admin_reopen_session
AdminReopenSession(s) ==
    LET st == Store(s)
    IN  /\ status[s] = "Closed"
        /\ status' = [status EXCEPT ![s] = "Open"]
        /\ ReopenVoucher(s)
        /\ CancelSettlement(s)
        /\ IF bizDate[st] > date[s]
           THEN /\ bizDate' = [bizDate EXCEPT ![st] = date[s]]
                /\ bizStatus' = [bizStatus EXCEPT ![st] = "Open"]
           ELSE /\ UNCHANGED bizDate
                /\ bizStatus' = [bizStatus EXCEPT ![st] = DayStatusAfterReopen(st)]
        /\ UNCHANGED <<today, profile, date, cashier>>

\* advance_business_date: not into the future, and not back (allow_rewind is
\* for AdminReopenSession alone).
NotBack(st, d) == d >= bizDate[st]
NotAhead(st, d) == d <= today
MayMoveTo(st, d) == d <= today /\ d >= bizDate[st]

\* session_api.override_business_date
OverrideBusinessDate(st, d) ==
    /\ MayMoveTo(st, d)
    /\ bizDate' = [bizDate EXCEPT ![st] = d]
    /\ bizStatus' = [bizStatus EXCEPT ![st] = "Open"]
    /\ UNCHANGED <<today, sessionVars>>

Midnight ==
    /\ today < MaxDay
    /\ today' = today + 1
    /\ UNCHANGED <<bizDate, bizStatus, sessionVars>>

-----------------------------------------------------------------------------

Next ==
    \/ Midnight
    \/ \E s \in Sessions, u \in Users, p \in Profiles : OpenSession(s, u, p)
    \/ \E s \in Sessions :
          \/ LockSession(s)
          \/ UnlockSession(s)
          \/ CreateSettlement(s)
          \/ ReopenSettlement(s)
          \/ CloseSession(s)
          \/ AdminReopenSession(s)
    \/ \E u \in Users : ReleaseCashierAssignment(u)
    \/ \E failed \in SUBSET Sessions : SweepSessions(failed)
    \/ \E st \in Stores : \E d \in 1..MaxDay : OverrideBusinessDate(st, d)

Spec == Init /\ [][Next]_vars

\* The scheduler keeps running, and a session it cannot close this hour is
\* tried again in the next: for each session, a sweep that does not fail on
\* it is not put off for ever.  Nothing is assumed of the people at the till.
SweepOf(s) ==
    \E failed \in SUBSET Sessions :
        s \in Sweepable \ failed /\ SweepSessions(failed)
FairSpec == Spec /\ \A s \in Sessions : WF_vars(SweepOf(s))

=============================================================================
