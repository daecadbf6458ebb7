--------------------------- MODULE StoreDayProps ---------------------------
(***************************************************************************)
(* Properties of StoreDay.                                                 *)
(***************************************************************************)
EXTENDS StoreDay

-----------------------------------------------------------------------------
(* Safety                                                                  *)

\* A store works a business date in one session, ever: a second one cannot
\* be opened while the first runs, locked and settled ones included, nor
\* after it closed, and neither an administrator's reopen nor a rewound
\* store date makes room for one.
OneSessionPerStoreDay ==
    \A s, t \in Sessions :
        /\ s # t
        /\ status[s] # "None" /\ status[t] # "None"
        /\ Store(s) = Store(t)
        => date[s] # date[t]

\* The accounting voucher follows the session: a session is Closed exactly
\* while its opening entry has a submitted POS Closing Entry, and an entry
\* that is Open belongs to a session that runs.
VoucherFollowsSession ==
    \A s \in Sessions :
        /\ status[s] = "Closed" <=> closing[s]
        /\ entry[s] = "Open" => status[s] \notin {"None", "Closed"}

\* A till that may still take money (Open, Locked) has no submitted
\* settlement, and one that is Pending Close has its settlement: the counted
\* cash and the running till never coexist.
SettledMeansStopped ==
    \A s \in Sessions :
        /\ status[s] \in Billable => ~settled[s]
        /\ status[s] = "Pending Close" => settled[s]

\* What a session, its voucher and its settlement say of one till agrees.
RecordsAgree ==
    /\ VoucherFollowsSession
    /\ SettledMeansStopped

\* When the store's day reads Closed, no session of that date is running,
\* through closes, sweeps, reopens and date changes in any order.
ClosedDayIsQuiet ==
    \A st \in Stores :
        bizStatus[st] = "Closed" =>
            \A s \in ActiveAt(st) : date[s] # bizDate[st]

\* Neither a store nor a session is ever dated after the calendar day.
NoFutureDate ==
    /\ \A st \in Stores : bizDate[st] <= today
    /\ \A s \in Sessions : date[s] <= today

\* What the date rows say of the day is so.
DatesAreHonest ==
    /\ ClosedDayIsQuiet
    /\ NoFutureDate

-----------------------------------------------------------------------------
(* What a step may never do                                                *)

\* The store's date goes back only together with the reopening of a closed
\* session of exactly the date it goes back to.
RewindsOnlyToReopened ==
    [][\A st \in Stores :
          bizDate'[st] < bizDate[st] =>
              \E s \in Sessions :
                  /\ Store(s) = st /\ date[s] = bizDate'[st]
                  /\ status[s] = "Closed" /\ status'[s] = "Open"]_vars

\* Opening a till takes no other running till's opening entry away, whoever
\* its cashier is: those tills can go on billing.
OpeningSparesOtherTills ==
    [][\A s \in Sessions :
          status[s] = "None" /\ status'[s] = "Open" =>
              \A t \in Sessions \ {s} :
                  entry[t] = "Open" => entry'[t] = "Open"]_vars

\* When a close rolls the store's date forward, nothing at the store is left
\* running, and no session of a skipped date was left unclosed.
AdvanceLeavesNothingRunning ==
    [][\A st \in Stores :
          (/\ bizDate'[st] # bizDate[st]
           /\ \E s \in ActiveAt(st) : status'[s] = "Closed")
          => ActiveAt(st)' = {}]_vars

-----------------------------------------------------------------------------
(* The abstract specification                                              *)

\* A day of a store, as the accounts see it.
DayState(st, d) ==
    IF \E s \in SessionsAt(st) : date[s] = d /\ status[s] # "Closed" THEN "trading"
    ELSE IF \E s \in SessionsAt(st) : date[s] = d THEN "counted"
    ELSE "unopened"

DaySet == 1..MaxDay
TD == INSTANCE TradingDays
    WITH day <- [st \in Stores |-> [d \in DaySet |-> DayState(st, d)]],
         current <- bizDate

\* The session lifecycle implements TradingDays.
ImplementsTradingDays == TD!Spec

-----------------------------------------------------------------------------
(* Liveness                                                                *)

\* A till left Open or Locked past its day does not stay so: the scheduler
\* closes it unless somebody settles it first.  (A Pending Close till is not
\* swept: it waits for a person.)
StaleTillsAreSwept ==
    \A s \in Sessions :
        status[s] \in Billable /\ Stale(s)
            ~> status[s] \in {"Pending Close", "Closed"}

-----------------------------------------------------------------------------
(* Statements of the documentation that the code does not keep             *)

\* "never two concurrent open sessions for the SAME store/till"
\* (ch_pos_session.py:226).  admin_reopen_session does not look at the
\* store's other sessions.
OneActivePerStore ==
    \A st \in Stores : \A s, t \in ActiveAt(st) : s = t

\* "so cashiers are forced to open a fresh session when the store opens"
\* (ch_pos_session.py:822): once the sweep has closed a store's last running
\* session, open_session accepts a new one.
DayIsFree(st) ==
    /\ ActiveAt(st) = {}
    /\ \A t \in SessionsAt(st) : date[t] # StoreDate(st)
SweptStoreCanOpen ==
    [][\A st \in Stores :
          (/\ \E failed \in SUBSET Sessions : SweepSessions(failed)
           /\ ActiveAt(st) # {} /\ ActiveAt(st)' = {})
          => DayIsFree(st)']_vars

=============================================================================
