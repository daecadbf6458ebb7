-------------------------- MODULE StoreDay_proofs --------------------------
(***************************************************************************)
(* For every number of stores, counters, cashiers, sessions and days: the  *)
(* invariants of StoreDay, what its steps never do, and that it implements *)
(* TradingDays.                                                            *)
(***************************************************************************)
EXTENDS StoreDayProps, TLAPS

\* A session document that does not exist yet has nothing attached to it,
\* and a session is always dated on a real day.
BlankUntilOpened ==
    \A s \in Sessions :
        IF status[s] = "None" THEN ~settled[s] /\ entry[s] = "None"
                              ELSE date[s] \in Days

\* The inductive invariant.
IInv ==
    /\ TypeOK
    /\ BlankUntilOpened
    /\ OneSessionPerStoreDay
    /\ VoucherFollowsSession
    /\ SettledMeansStopped
    /\ ClosedDayIsQuiet
    /\ NoFutureDate

LEMMA StoreType ==
    ASSUME TypeOK
    PROVE  \A s \in Sessions : Store(s) \in Stores
  BY StoreDayAssumption DEF TypeOK, Store

\* The store date is a real day that is not in the future.
LEMMA StoreDateBounds ==
    ASSUME TypeOK, NoFutureDate, NEW st \in Stores
    PROVE  StoreDate(st) \in Days /\ StoreDate(st) <= today
<1>1. today \in Nat /\ today # 0 /\ bizDate[st] \in Nat /\ bizDate[st] <= today
  BY DEF TypeOK, NoFutureDate, Days
<1>2. StoreDate(st) = IF bizDate[st] = 0 THEN today ELSE bizDate[st]
  BY DEF StoreDate, NoRow
<1>3. StoreDate(st) \in Nat /\ StoreDate(st) # 0 /\ StoreDate(st) <= today
  BY <1>1, <1>2
<1> QED
  BY <1>3 DEF Days

LEMMA InitInv == Init => IInv
<1> SUFFICES ASSUME Init PROVE IInv
  OBVIOUS
<1>1. TypeOK
  <2>1. (CHOOSE p \in Profiles : TRUE) \in Profiles
    BY StoreDayAssumption
  <2>2. (CHOOSE u \in Users : TRUE) \in Users
    BY StoreDayAssumption
  <2>3. profile \in [Sessions -> Profiles]
    BY <2>1 DEF Init
  <2>4. cashier \in [Sessions -> Users]
    BY <2>2 DEF Init
  <2>5. bizDate \in [Stores -> Nat]
    BY DEF Init, NoRow
  <2> QED
    BY <2>3, <2>4, <2>5 DEF Init, TypeOK, Days, Closable
<1>2. BlankUntilOpened /\ OneSessionPerStoreDay /\ VoucherFollowsSession /\ SettledMeansStopped
  BY DEF Init, BlankUntilOpened, OneSessionPerStoreDay, VoucherFollowsSession,
         SettledMeansStopped, Billable
<1>3. ClosedDayIsQuiet
  BY DEF Init, ClosedDayIsQuiet
<1>4. NoFutureDate
  BY DEF Init, NoFutureDate, NoRow
<1> QED
  BY <1>1, <1>2, <1>3, <1>4 DEF IInv

-----------------------------------------------------------------------------

LEMMA OpenSessionInv ==
    ASSUME IInv, NEW s \in Sessions, NEW u \in Users, NEW p \in Profiles, OpenSession(s, u, p)
    PROVE  IInv'
<1> DEFINE st == StoreOf[p]
           d  == StoreDate(st)
<1> USE DEF IInv
<1>1. st \in Stores
  BY StoreDayAssumption
<1>2. d \in Days /\ d <= today
  BY <1>1, StoreDateBounds
<1>3. /\ status[s] = "None"
      /\ status' = [status EXCEPT ![s] = "Open"]
      /\ profile' = [profile EXCEPT ![s] = p]
      /\ date' = [date EXCEPT ![s] = d]
      /\ cashier' = [cashier EXCEPT ![s] = u]
      /\ UNCHANGED <<today, bizDate, closing, settled>>
  BY DEF OpenSession
<1>4. \A t \in Sessions : entry'[t] = IF t = s THEN "Open"
                                      ELSE IF t \in Orphans(u, p) THEN "Closed" ELSE entry[t]
  BY DEF OpenSession
<1> HIDE DEF d, st
<1>5. TypeOK'
  <2>1. entry' \in [Sessions -> {"None", "Open", "Closed"}]
    BY DEF OpenSession, TypeOK
  <2>2. bizStatus' \in [Stores -> {"Open", "Closing Pending", "Closed"}]
    BY <1>1 DEF OpenSession, TypeOK
  <2> QED
    BY <1>2, <1>3, <2>1, <2>2 DEF TypeOK, Closable, Days
<1>6. BlankUntilOpened'
  BY <1>2, <1>3, <1>4 DEF BlankUntilOpened, TypeOK, Orphans
<1>7. OneSessionPerStoreDay'
  <2>1. ASSUME NEW t \in Sessions, t # s, status[t] # "None", Store(t) = st
        PROVE  date[t] # d
    BY <2>1 DEF OpenSession, StoreIsQuiet, DateNotClosed, ActiveAt, SessionsAt, st, d
  <2>2. Store(s)' = st /\ date'[s] = d
    BY <1>3 DEF TypeOK, Store, st
  <2>3. ASSUME NEW t \in Sessions \ {s}
        PROVE  status'[t] = status[t] /\ date'[t] = date[t] /\ Store(t)' = Store(t)
    BY <1>3 DEF TypeOK, Store
  <2> SUFFICES ASSUME NEW x \in Sessions, NEW y \in Sessions, x # y,
                      status'[x] # "None", status'[y] # "None", Store(x)' = Store(y)'
               PROVE  date'[x] # date'[y]
    BY DEF OneSessionPerStoreDay
  <2>4. CASE x = s
    BY <2>1, <2>2, <2>3, <2>4
  <2>5. CASE y = s
    BY <2>1, <2>2, <2>3, <2>5
  <2>6. CASE x # s /\ y # s
    BY <2>3, <2>6 DEF OneSessionPerStoreDay
  <2> QED
    BY <2>4, <2>5, <2>6
<1>8. VoucherFollowsSession'
  BY <1>3, <1>4 DEF VoucherFollowsSession, TypeOK, Orphans
<1>9. SettledMeansStopped'
  BY <1>3 DEF SettledMeansStopped, BlankUntilOpened, TypeOK, Billable
<1>10. ClosedDayIsQuiet'
  <2> SUFFICES ASSUME NEW x \in Stores, bizStatus'[x] = "Closed", NEW t \in ActiveAt(x)'
               PROVE  date'[t] # bizDate[x]
    BY <1>3 DEF ClosedDayIsQuiet
  <2>1. t \in Sessions
    BY DEF ActiveAt, SessionsAt
  <2>2. CASE t = s
    <3>1. x = st
      BY <2>2, <1>3 DEF ActiveAt, SessionsAt, Store, TypeOK, st
    <3>2. bizDate[x] = NoRow
      BY <3>1, <1>1 DEF OpenSession, TypeOK, st
    <3> QED
      BY <3>2, <2>2, <1>2, <1>3 DEF TypeOK, NoRow, Days
  <2>3. CASE t # s
    <3>1. t \in ActiveAt(x) /\ date'[t] = date[t]
      BY <2>1, <2>3, <1>3 DEF ActiveAt, SessionsAt, Store, TypeOK
    <3>2. bizStatus[x] = "Closed"
      BY <1>1 DEF OpenSession, TypeOK, st
    <3> QED
      BY <3>1, <3>2 DEF ClosedDayIsQuiet
  <2> QED
    BY <2>2, <2>3
<1>11. NoFutureDate'
  BY <1>2, <1>3 DEF NoFutureDate, TypeOK
<1> QED
  BY <1>5, <1>6, <1>7, <1>8, <1>9, <1>10, <1>11

\* The four steps that only move a session between its running states keep
\* it at its store and date.
LEMMA RunningStepInv ==
    ASSUME IInv, NEW s \in Sessions,
           LockSession(s) \/ UnlockSession(s) \/ CreateSettlement(s) \/ ReopenSettlement(s)
    PROVE  IInv'
<1> USE DEF IInv
<1>1. /\ status[s] \in Closable
      /\ status'[s] \in Closable
      /\ \A t \in Sessions \ {s} : status'[t] = status[t] /\ settled'[t] = settled[t]
      /\ UNCHANGED <<today, bizDate, bizStatus, profile, date, cashier, entry, closing>>
  BY DEF LockSession, UnlockSession, CreateSettlement, ReopenSettlement, CancelSettlement,
         Closable, TypeOK
<1>2. TypeOK'
  BY <1>1 DEF LockSession, UnlockSession, CreateSettlement, ReopenSettlement, CancelSettlement,
         Closable, TypeOK
<1>3. \A t \in Sessions : Store(t)' = Store(t)
  BY <1>1 DEF Store
<1>4. \A t \in Sessions : status'[t] = "None" <=> status[t] = "None"
  BY <1>1 DEF Closable
<1>5. \A t \in Sessions : status'[t] = "Closed" <=> status[t] = "Closed"
  BY <1>1 DEF Closable
<1>6. BlankUntilOpened' /\ OneSessionPerStoreDay'
  <2>1. BlankUntilOpened'
    BY <1>1, <1>4 DEF BlankUntilOpened, Closable
  <2>2. OneSessionPerStoreDay'
    BY <1>1, <1>3, <1>4 DEF OneSessionPerStoreDay
  <2> QED
    BY <2>1, <2>2
<1>7. VoucherFollowsSession'
  BY <1>1, <1>4, <1>5 DEF VoucherFollowsSession
<1>8. SettledMeansStopped'
  BY DEF LockSession, UnlockSession, CreateSettlement, ReopenSettlement, CancelSettlement,
         SettledMeansStopped, Billable, TypeOK
<1>9. \A st \in Stores : ActiveAt(st)' = ActiveAt(st)
  BY <1>3, <1>4, <1>5 DEF ActiveAt, SessionsAt
<1>10. ClosedDayIsQuiet' /\ NoFutureDate'
  BY <1>1, <1>9 DEF ClosedDayIsQuiet, NoFutureDate
<1> QED
  BY <1>2, <1>6, <1>7, <1>8, <1>10

LEMMA ReleaseInv ==
    ASSUME IInv, NEW u \in Users, ReleaseCashierAssignment(u)
    PROVE  IInv'
<1> USE DEF IInv
<1>1. /\ UNCHANGED <<today, bizDate, bizStatus, status, profile, date, cashier, closing, settled>>
      /\ \A t \in Sessions : entry'[t] = entry[t] \/ (entry[t] = "Open" /\ entry'[t] = "Closed")
      /\ entry' \in [Sessions -> {"None", "Open", "Closed"}]
  BY DEF ReleaseCashierAssignment, TypeOK
<1>2. TypeOK' /\ BlankUntilOpened'
  BY <1>1 DEF TypeOK, BlankUntilOpened
<1>3. OneSessionPerStoreDay' /\ VoucherFollowsSession' /\ SettledMeansStopped'
  BY <1>1 DEF OneSessionPerStoreDay, VoucherFollowsSession, SettledMeansStopped, Store
<1>4. \A st \in Stores : ActiveAt(st)' = ActiveAt(st)
  BY <1>1 DEF ActiveAt, SessionsAt, Store
<1>5. ClosedDayIsQuiet' /\ NoFutureDate'
  BY <1>1, <1>4 DEF ClosedDayIsQuiet, NoFutureDate
<1> QED
  BY <1>2, <1>3, <1>5

\* Closing any set of running sessions keeps everything but what is said of
\* the store's own date and status.
LEMMA CloseTillsInv ==
    ASSUME IInv, NEW S \in SUBSET Sessions, \A s \in S : status[s] \in Closable,
           CloseTills(S), UNCHANGED <<today, profile, date, cashier, settled>>
    PROVE  /\ status' \in [Sessions -> {"None", "Closed"} \cup Closable]
           /\ entry' \in [Sessions -> {"None", "Open", "Closed"}]
           /\ closing' \in [Sessions -> BOOLEAN]
           /\ BlankUntilOpened' /\ OneSessionPerStoreDay'
           /\ VoucherFollowsSession' /\ SettledMeansStopped'
           /\ \A st \in Stores : ActiveAt(st)' = ActiveAt(st) \ S
<1> USE DEF IInv
<1>1. \A t \in Sessions :
         /\ status'[t] = IF t \in S THEN "Closed" ELSE status[t]
         /\ entry'[t] = IF t \in S THEN "Closed" ELSE entry[t]
         /\ closing'[t] = (closing[t] \/ t \in S)
  BY DEF CloseTills
<1>2. /\ status' \in [Sessions -> {"None", "Closed"} \cup Closable]
      /\ entry' \in [Sessions -> {"None", "Open", "Closed"}]
      /\ closing' \in [Sessions -> BOOLEAN]
  BY DEF CloseTills, TypeOK
<1>3. \A t \in Sessions : status'[t] = "None" <=> status[t] = "None"
  BY <1>1 DEF Closable
<1>4. \A t \in Sessions : Store(t)' = Store(t)
  BY DEF Store
<1>5. BlankUntilOpened'
  BY <1>1, <1>3 DEF BlankUntilOpened, Closable
<1>6. OneSessionPerStoreDay'
  BY <1>3, <1>4 DEF OneSessionPerStoreDay
<1>7. VoucherFollowsSession'
  BY <1>1 DEF VoucherFollowsSession, Closable
<1>8. SettledMeansStopped'
  BY <1>1 DEF SettledMeansStopped, Billable
<1>9. \A st \in Stores : ActiveAt(st)' = ActiveAt(st) \ S
  BY <1>1, <1>3, <1>4 DEF ActiveAt, SessionsAt
<1> QED
  BY <1>2, <1>5, <1>6, <1>7, <1>8, <1>9

LEMMA CloseSessionInv ==
    ASSUME IInv, NEW s \in Sessions, CloseSession(s)
    PROVE  IInv'
<1> DEFINE st == Store(s)
<1> USE DEF IInv
<1>1. st \in Stores
  BY StoreType
<1>2. /\ status[s] \in Closable
      /\ CloseTills({s})
      /\ UNCHANGED <<today, profile, date, cashier, settled>>
  BY DEF CloseSession
<1>3. \A x \in Stores : ActiveAt(x)' = ActiveAt(x) \ {s}
  BY <1>2, CloseTillsInv
<1>4. \/ /\ bizDate' = [bizDate EXCEPT ![st] = today]
         /\ bizStatus' = [bizStatus EXCEPT ![st] = "Open"]
      \/ /\ bizStatus' = [bizStatus EXCEPT ![st] = StatusAfterClose(s)]
         /\ UNCHANGED bizDate
  BY DEF CloseSession
<1>5. StatusAfterClose(s) \in {"Open", "Closing Pending", "Closed"}
  BY <1>1 DEF StatusAfterClose, TypeOK
<1> HIDE DEF st
<1>6. TypeOK'
  <2>1. bizDate' \in [Stores -> Nat]
    BY <1>4 DEF TypeOK, Days
  <2>2. bizStatus' \in [Stores -> {"Open", "Closing Pending", "Closed"}]
    BY <1>4, <1>5 DEF TypeOK
  <2> QED
    BY <2>1, <2>2, <1>2, CloseTillsInv DEF TypeOK
<1>7. BlankUntilOpened' /\ OneSessionPerStoreDay' /\ VoucherFollowsSession' /\ SettledMeansStopped'
  BY <1>2, CloseTillsInv
<1>8. ClosedDayIsQuiet'
  <2> SUFFICES ASSUME NEW x \in Stores, bizStatus'[x] = "Closed", NEW t \in ActiveAt(x)'
               PROVE  date[t] # bizDate'[x]
    BY <1>2 DEF ClosedDayIsQuiet
  <2>1. t \in ActiveAt(x) /\ t # s
    BY <1>3
  <2>2. bizDate'[x] = bizDate[x]
    BY <1>4 DEF TypeOK
  <2>3. CASE bizStatus[x] = "Closed"
    BY <2>1, <2>2, <2>3 DEF ClosedDayIsQuiet
  <2>4. CASE bizStatus[x] # "Closed"
    <3>1. x = st /\ StatusAfterClose(s) = "Closed"
      BY <2>4, <1>4 DEF TypeOK
    <3>2. bizDate[x] = date[s] /\ ~ \E y \in ActiveAt(x) \ {s} : date[y] = date[s]
      BY <3>1, <2>4 DEF StatusAfterClose, st
    <3> QED
      BY <3>2, <2>1, <2>2
  <2> QED
    BY <2>3, <2>4
<1>9. NoFutureDate'
  <2>1. today \in Nat
    BY DEF TypeOK, Days
  <2>2. ASSUME NEW x \in Stores
        PROVE  bizDate'[x] = bizDate[x] \/ bizDate'[x] = today
    BY <1>4 DEF TypeOK
  <2>3. ASSUME NEW x \in Stores
        PROVE  bizDate'[x] <= today
    BY <2>1, <2>2 DEF NoFutureDate
  <2> QED
    BY <1>2, <2>3 DEF NoFutureDate
<1> QED
  BY <1>6, <1>7, <1>8, <1>9

LEMMA SweepInv ==
    ASSUME IInv, NEW failed \in SUBSET Sessions, SweepSessions(failed)
    PROVE  IInv'
<1> DEFINE S == Sweepable \ failed
<1> USE DEF IInv
<1>1. /\ S \in SUBSET Sessions
      /\ \A s \in S : status[s] \in Closable
      /\ CloseTills(S)
      /\ UNCHANGED <<today, bizDate, bizStatus, profile, date, cashier, settled>>
  BY DEF SweepSessions, Sweepable, Billable, Closable
<1> HIDE DEF S
<1>2. TypeOK' /\ BlankUntilOpened' /\ OneSessionPerStoreDay' /\ VoucherFollowsSession'
      /\ SettledMeansStopped'
  BY <1>1, CloseTillsInv DEF TypeOK
<1>3. \A x \in Stores : ActiveAt(x)' \subseteq ActiveAt(x)
  BY <1>1, CloseTillsInv
<1>4. ClosedDayIsQuiet' /\ NoFutureDate'
  BY <1>1, <1>3 DEF ClosedDayIsQuiet, NoFutureDate
<1> QED
  BY <1>2, <1>4

LEMMA AdminReopenInv ==
    ASSUME IInv, NEW s \in Sessions, AdminReopenSession(s)
    PROVE  IInv'
<1> DEFINE st == Store(s)
<1> USE DEF IInv
<1>1. st \in Stores
  BY StoreType
<1>2. /\ status[s] = "Closed"
      /\ status' = [status EXCEPT ![s] = "Open"]
      /\ entry' = [entry EXCEPT ![s] = "Open"]
      /\ closing' = [closing EXCEPT ![s] = FALSE]
      /\ settled' = [settled EXCEPT ![s] = FALSE]
      /\ UNCHANGED <<today, profile, date, cashier>>
  BY DEF AdminReopenSession, ReopenVoucher, CancelSettlement
<1>3. \/ /\ bizDate[st] > date[s]
         /\ bizDate' = [bizDate EXCEPT ![st] = date[s]]
         /\ bizStatus' = [bizStatus EXCEPT ![st] = "Open"]
      \/ /\ UNCHANGED bizDate
         /\ bizStatus' = [bizStatus EXCEPT ![st] = DayStatusAfterReopen(st)]
  BY DEF AdminReopenSession
<1>4. /\ DayStatusAfterReopen(st) \in {"Open", "Closing Pending", "Closed"}
      /\ DayStatusAfterReopen(st) = "Closed" => bizStatus[st] = "Closed" /\ bizDate[st] = NoRow
  BY <1>1 DEF DayStatusAfterReopen, TypeOK
<1>5. \A t \in Sessions : Store(t)' = Store(t)
  BY <1>2 DEF Store
<1> HIDE DEF st
<1>6. TypeOK'
  <2>1. bizDate' \in [Stores -> Nat]
    BY <1>3 DEF TypeOK
  <2>2. bizStatus' \in [Stores -> {"Open", "Closing Pending", "Closed"}]
    BY <1>3, <1>4 DEF TypeOK
  <2> QED
    BY <2>1, <2>2, <1>2 DEF TypeOK, Closable
<1>7. BlankUntilOpened' /\ VoucherFollowsSession' /\ SettledMeansStopped'
  BY <1>2 DEF BlankUntilOpened, VoucherFollowsSession, SettledMeansStopped, TypeOK, Billable
<1>8. OneSessionPerStoreDay'
  <2>1. \A t \in Sessions : status'[t] # "None" => status[t] # "None"
    BY <1>2 DEF TypeOK
  <2> QED
    BY <2>1, <1>2, <1>5 DEF OneSessionPerStoreDay
<1>9. ClosedDayIsQuiet'
  <2> SUFFICES ASSUME NEW x \in Stores, bizStatus'[x] = "Closed", NEW t \in ActiveAt(x)'
               PROVE  date[t] # bizDate'[x]
    BY <1>2 DEF ClosedDayIsQuiet
  <2>1. bizStatus[x] = "Closed" /\ bizDate'[x] = bizDate[x] /\ (x = st => bizDate[x] = NoRow)
    BY <1>3, <1>4 DEF TypeOK
  <2>2. t \in Sessions /\ status'[t] # "None" /\ Store(t) = x
    BY <1>5 DEF ActiveAt, SessionsAt
  <2>3. CASE t = s
    BY <2>1, <2>2, <2>3, <1>2 DEF BlankUntilOpened, NoRow, Days, st
  <2>4. CASE t # s
    <3>1. t \in ActiveAt(x)
      BY <2>2, <2>4, <1>2, <1>5 DEF ActiveAt, SessionsAt, TypeOK
    <3> QED
      BY <3>1, <2>1 DEF ClosedDayIsQuiet
  <2> QED
    BY <2>3, <2>4
<1>10. NoFutureDate'
  BY <1>1, <1>2, <1>3 DEF NoFutureDate, TypeOK
<1> QED
  BY <1>6, <1>7, <1>8, <1>9, <1>10

LEMMA DateStepInv ==
    ASSUME IInv,
           Midnight \/ \E st \in Stores : \E d \in 1..MaxDay : OverrideBusinessDate(st, d)
    PROVE  IInv'
<1> USE DEF IInv
<1>1. UNCHANGED sessionVars
  BY DEF Midnight, OverrideBusinessDate
<1>2. \A x \in Stores : ActiveAt(x)' = ActiveAt(x)
  BY <1>1 DEF sessionVars, ActiveAt, SessionsAt, Store
<1>3. BlankUntilOpened' /\ OneSessionPerStoreDay' /\ VoucherFollowsSession' /\ SettledMeansStopped'
  BY <1>1 DEF sessionVars, BlankUntilOpened, OneSessionPerStoreDay, VoucherFollowsSession,
              SettledMeansStopped, Store
<1>4. CASE Midnight
  <2>1. today \in Nat /\ today # 0 /\ today' = today + 1
    BY <1>4 DEF Midnight, TypeOK, Days
  <2>2. today' \in Days
    BY <2>1 DEF Days
  <2>3. TypeOK'
    BY <1>4, <2>2 DEF Midnight, sessionVars, TypeOK
  <2>4. NoFutureDate'
    <3>1. ASSUME NEW n \in Nat, n <= today PROVE n <= today'
      BY <2>1, <3>1
    <3> QED
      BY <1>4, <3>1 DEF Midnight, sessionVars, NoFutureDate, TypeOK
  <2>5. ClosedDayIsQuiet'
    BY <1>4, <1>2 DEF Midnight, sessionVars, ClosedDayIsQuiet
  <2> QED
    BY <2>3, <2>4, <2>5, <1>3
<1>5. ASSUME NEW st \in Stores, NEW d \in 1..MaxDay, OverrideBusinessDate(st, d)
      PROVE  IInv'
  <2>1. d \in Nat /\ d <= today /\ bizDate' = [bizDate EXCEPT ![st] = d]
    BY <1>5, StoreDayAssumption DEF OverrideBusinessDate, MayMoveTo
  <2>2. TypeOK'
    <3>1. today' = today /\ UNCHANGED sessionVars
      BY <1>5 DEF OverrideBusinessDate
    <3>2. bizDate' \in [Stores -> Nat]
      BY <2>1 DEF TypeOK
    <3>3. bizStatus' \in [Stores -> {"Open", "Closing Pending", "Closed"}]
      BY <1>5 DEF OverrideBusinessDate, TypeOK
    <3> QED
      BY <3>1, <3>2, <3>3 DEF sessionVars, TypeOK
  <2>3. NoFutureDate'
    <3>1. today' = today /\ date' = date
      BY <1>5 DEF OverrideBusinessDate, sessionVars
    <3>2. \A x \in Stores : bizDate'[x] = IF x = st THEN d ELSE bizDate[x]
      BY <2>1 DEF TypeOK
    <3> QED
      BY <2>1, <3>1, <3>2 DEF NoFutureDate
  <2>4. ClosedDayIsQuiet'
    <3> SUFFICES ASSUME NEW x \in Stores, bizStatus'[x] = "Closed", NEW t \in ActiveAt(x)'
                 PROVE  date'[t] # bizDate'[x]
      BY DEF ClosedDayIsQuiet
    <3>1. x # st /\ bizStatus[x] = "Closed" /\ bizDate'[x] = bizDate[x]
      BY <1>5 DEF OverrideBusinessDate, TypeOK
    <3> QED
      BY <3>1, <1>1, <1>2 DEF ClosedDayIsQuiet, sessionVars
  <2> QED
    BY <2>2, <2>3, <2>4, <1>3
<1> QED
  BY <1>4, <1>5

LEMMA NextInv == IInv /\ [Next]_vars => IInv'
<1> SUFFICES ASSUME IInv, [Next]_vars PROVE IInv'
  OBVIOUS
<1>1. CASE UNCHANGED vars
  BY <1>1 DEF vars, sessionVars, IInv, TypeOK, BlankUntilOpened, OneSessionPerStoreDay,
     VoucherFollowsSession, SettledMeansStopped, ClosedDayIsQuiet, NoFutureDate,
     ActiveAt, SessionsAt, Store
<1>2. CASE Next
  BY <1>2, OpenSessionInv, RunningStepInv, ReleaseInv, CloseSessionInv, SweepInv,
     AdminReopenInv, DateStepInv DEF Next
<1> QED
  BY <1>1, <1>2

-----------------------------------------------------------------------------

\* Every reachable state of the session lifecycle satisfies the inductive
\* invariant.
THEOREM Invariance == Spec => []IInv
  BY InitInv, NextInv, PTL DEF Spec

\* The variables keep their types.
THEOREM TypeCorrect == Spec => []TypeOK
<1>1. IInv => TypeOK
  BY DEF IInv
<1> QED
  BY Invariance, <1>1, PTL

\* No store ever works one business date in two sessions (open_session and
\* admin_reopen_session).
THEOREM OneSessionPerDay == Spec => []OneSessionPerStoreDay
<1>1. IInv => OneSessionPerStoreDay
  BY DEF IInv
<1> QED
  BY Invariance, <1>1, PTL

\* The session and its vouchers never disagree: Closed means a submitted POS
\* Closing Entry, and settled cash means a till that no longer bills.
THEOREM VouchersAgree == Spec => []RecordsAgree
<1>1. IInv => RecordsAgree
  BY DEF IInv, RecordsAgree
<1> QED
  BY Invariance, <1>1, PTL

\* A store whose day reads Closed has no session of that day running, and no
\* date is ever in the future.
THEOREM DayCloses == Spec => []DatesAreHonest
<1>1. IInv => DatesAreHonest
  BY DEF IInv, DatesAreHonest
<1> QED
  BY Invariance, <1>1, PTL

-----------------------------------------------------------------------------

\* One step never moves a store back, except to a session it reopens.
LEMMA RewindStep ==
    ASSUME IInv, [Next]_vars, NEW st \in Stores, bizDate'[st] < bizDate[st]
    PROVE  \E s \in Sessions : /\ Store(s) = st /\ date[s] = bizDate'[st]
                               /\ status[s] = "Closed" /\ status'[s] = "Open"
<1> USE DEF IInv
<1>1. bizDate[st] \in Nat /\ today \in Nat /\ bizDate[st] <= today
  BY DEF TypeOK, Days, NoFutureDate
<1>2. bizDate' # bizDate /\ bizDate'[st] # bizDate[st]
  BY <1>1
<1>3. CASE \E s \in Sessions : CloseSession(s)
  <2> PICK s \in Sessions : CloseSession(s)
    BY <1>3
  <2>1. bizDate' = bizDate \/ bizDate' = [bizDate EXCEPT ![Store(s)] = today]
    BY DEF CloseSession
  <2>2. bizDate'[st] = bizDate[st] \/ bizDate'[st] = today
    BY <2>1 DEF TypeOK
  <2> QED
    BY <1>1, <2>2
<1>4. CASE \E s \in Sessions : AdminReopenSession(s)
  <2> PICK s \in Sessions : AdminReopenSession(s)
    BY <1>4
  <2>1. /\ status[s] = "Closed" /\ status' = [status EXCEPT ![s] = "Open"]
        /\ bizDate' = [bizDate EXCEPT ![Store(s)] = date[s]]
    BY <1>2 DEF AdminReopenSession
  <2>2. Store(s) = st
    BY <2>1, <1>2 DEF TypeOK
  <2> QED
    BY <2>1, <2>2 DEF TypeOK
<1>5. CASE \E x \in Stores : \E d \in 1..MaxDay : OverrideBusinessDate(x, d)
  <2> PICK x \in Stores, d \in 1..MaxDay : OverrideBusinessDate(x, d)
    BY <1>5
  <2>1. d \in Nat /\ d >= bizDate[x] /\ bizDate' = [bizDate EXCEPT ![x] = d]
    BY StoreDayAssumption DEF OverrideBusinessDate, MayMoveTo
  <2>2. x = st
    BY <2>1, <1>2 DEF TypeOK
  <2>3. bizDate'[st] = d
    BY <2>1, <2>2 DEF TypeOK
  <2> QED
    BY <2>1, <2>2, <2>3, <1>1
<1>6. Next
  BY <1>2 DEF vars
<1> QED
  BY <1>2, <1>3, <1>4, <1>5, <1>6
  DEF Next, Midnight, OpenSession, LockSession, UnlockSession, CreateSettlement,
      ReopenSettlement, ReleaseCashierAssignment, SweepSessions

\* The date of a store goes back only for a reopened session of that date.
THEOREM RewindsAreReopens == Spec => RewindsOnlyToReopened
<1>1. IInv /\ [Next]_vars =>
        [\A st \in Stores :
            bizDate'[st] < bizDate[st] =>
              \E s \in Sessions :
                  /\ Store(s) = st /\ date[s] = bizDate'[st]
                  /\ status[s] = "Closed" /\ status'[s] = "Open"]_vars
  BY RewindStep
<1> QED
  BY Invariance, <1>1, PTL DEF Spec, RewindsOnlyToReopened

\* A session that comes into being comes from open_session, which only takes
\* entries of sessions that are over.
LEMMA OpeningStep ==
    ASSUME IInv, [Next]_vars, NEW s \in Sessions, status[s] = "None", status'[s] = "Open",
           NEW t \in Sessions \ {s}, entry[t] = "Open"
    PROVE  entry'[t] = "Open"
<1> USE DEF IInv
<1>1. Next
  BY DEF vars, sessionVars
<1>2. CASE \E x \in Sessions, u \in Users, p \in Profiles : OpenSession(x, u, p)
  <2> PICK x \in Sessions, u \in Users, p \in Profiles : OpenSession(x, u, p)
    BY <1>2
  <2>1. status[t] # "Closed"
    BY DEF VoucherFollowsSession
  <2>2. entry'[t] = IF t = x THEN "Open" ELSE IF t \in Orphans(u, p) THEN "Closed" ELSE entry[t]
    BY DEF OpenSession
  <2> QED
    BY <2>1, <2>2 DEF Orphans
<1>3. CASE \E x \in Sessions : \/ LockSession(x) \/ UnlockSession(x)
                               \/ CreateSettlement(x) \/ ReopenSettlement(x)
  BY <1>3 DEF LockSession, UnlockSession, CreateSettlement, ReopenSettlement
<1>4. CASE \E x \in Sessions : CloseSession(x) \/ AdminReopenSession(x)
  <2>1. ASSUME NEW x \in Sessions, CloseSession(x) PROVE FALSE
    <3>1. status'[s] = IF s \in {x} THEN "Closed" ELSE status[s]
      BY <2>1 DEF CloseSession, CloseTills
    <3> QED
      BY <3>1
  <2>2. ASSUME NEW x \in Sessions, AdminReopenSession(x) PROVE FALSE
    <3>1. status[x] = "Closed" /\ status' = [status EXCEPT ![x] = "Open"]
      BY <2>2 DEF AdminReopenSession
    <3> QED
      BY <3>1 DEF TypeOK
  <2> QED
    BY <1>4, <2>1, <2>2
<1>5. CASE \E failed \in SUBSET Sessions : SweepSessions(failed)
  BY <1>5 DEF SweepSessions, CloseTills
<1>6. CASE \/ Midnight
           \/ \E u \in Users : ReleaseCashierAssignment(u)
           \/ \E x \in Stores : \E d \in 1..MaxDay : OverrideBusinessDate(x, d)
  BY <1>6 DEF Midnight, ReleaseCashierAssignment, OverrideBusinessDate, sessionVars
<1> QED
  BY <1>1, <1>2, <1>3, <1>4, <1>5, <1>6 DEF Next

\* Opening one till never takes the opening entry of another that runs.
THEOREM OpeningIsLocal == Spec => OpeningSparesOtherTills
<1>1. IInv /\ [Next]_vars =>
        [\A s \in Sessions :
            status[s] = "None" /\ status'[s] = "Open" =>
              \A t \in Sessions \ {s} : entry[t] = "Open" => entry'[t] = "Open"]_vars
  BY OpeningStep
<1> QED
  BY Invariance, <1>1, PTL DEF Spec, OpeningSparesOtherTills

\* A close that rolls the date forward finds no other till running; no other
\* step both moves a store's date and closes a session of it.
LEMMA AdvanceStep ==
    ASSUME IInv, [Next]_vars, NEW st \in Stores, bizDate'[st] # bizDate[st],
           NEW s \in ActiveAt(st), status'[s] = "Closed"
    PROVE  ActiveAt(st)' = {}
<1> USE DEF IInv
<1>0. s \in Sessions /\ status[s] # "Closed" /\ status[s] # "None" /\ Store(s) = st
  BY DEF ActiveAt, SessionsAt
<1>1. Next
  BY DEF vars
<1>2. CASE \E x \in Sessions : CloseSession(x)
  <2> PICK x \in Sessions : CloseSession(x)
    BY <1>2
  <2>1. PICK edcMatched \in BOOLEAN :
           IF DayComplete(x, edcMatched)
           THEN bizDate' = [bizDate EXCEPT ![Store(x)] = today]
           ELSE bizDate' = bizDate
    BY DEF CloseSession
  <2>2. DayComplete(x, edcMatched) /\ Store(x) = st
    BY <2>1 DEF TypeOK
  <2>3. ActiveAt(st) \subseteq {x}
    BY <2>2 DEF DayComplete
  <2>4. /\ \A t \in Sessions : status'[t] = IF t \in {x} THEN "Closed" ELSE status[t]
        /\ profile' = profile
    BY DEF CloseSession, CloseTills
  <2>5. ASSUME NEW t \in ActiveAt(st)' PROVE FALSE
    <3>1. /\ t \in Sessions /\ status'[t] # "None" /\ status'[t] # "Closed"
          /\ StoreOf[profile'[t]] = st
      BY <2>5 DEF ActiveAt, SessionsAt, Store
    <3>2. t # x /\ status[t] = status'[t]
      BY <3>1, <2>4
    <3>3. t \in ActiveAt(st)
      BY <3>1, <3>2, <2>4 DEF ActiveAt, SessionsAt, Store
    <3> QED
      BY <3>2, <3>3, <2>3
  <2> QED
    BY <2>5
<1>3. CASE \E x \in Sessions : AdminReopenSession(x)
  <2> PICK x \in Sessions : AdminReopenSession(x)
    BY <1>3
  <2>1. status[x] = "Closed" /\ status' = [status EXCEPT ![x] = "Open"]
    BY DEF AdminReopenSession
  <2> QED
    BY <2>1, <1>0 DEF TypeOK
<1>4. CASE \E x \in Stores : \E d \in 1..MaxDay : OverrideBusinessDate(x, d)
  BY <1>4, <1>0 DEF OverrideBusinessDate, sessionVars
<1>5. CASE \/ Midnight
           \/ \E x \in Sessions, u \in Users, p \in Profiles : OpenSession(x, u, p)
           \/ \E x \in Sessions : \/ LockSession(x) \/ UnlockSession(x)
                                  \/ CreateSettlement(x) \/ ReopenSettlement(x)
           \/ \E u \in Users : ReleaseCashierAssignment(u)
           \/ \E failed \in SUBSET Sessions : SweepSessions(failed)
  BY <1>5 DEF Midnight, OpenSession, LockSession, UnlockSession, CreateSettlement,
              ReopenSettlement, ReleaseCashierAssignment, SweepSessions
<1> QED
  BY <1>1, <1>2, <1>3, <1>4, <1>5 DEF Next

\* When a close rolls the store's date forward nothing at the store is left
\* running: AdvanceLeavesNothingRunning of StoreDayProps.
THEOREM AdvancingIsQuiet == Spec => AdvanceLeavesNothingRunning
<1>1. IInv /\ [Next]_vars =>
        [\A st \in Stores :
            (/\ bizDate'[st] # bizDate[st]
             /\ \E s \in ActiveAt(st) : status'[s] = "Closed")
            => ActiveAt(st)' = {}]_vars
  BY AdvanceStep
<1> QED
  BY Invariance, <1>1, PTL DEF Spec, AdvanceLeavesNothingRunning

-----------------------------------------------------------------------------
(* One running till at a store                                             *)

\* Nobody reopens a session while another one of its store runs: what
\* admin_reopen_session does not ask.
ReopensAlone ==
    [][\A s \in Sessions : AdminReopenSession(s) => ActiveAt(Store(s)) = {}]_vars

\* A step after which only s runs that did not run before, at a store where
\* nothing ran.
LEMMA LoneNewcomer ==
    ASSUME OneActivePerStore, NEW s \in Sessions, ActiveAt(Store(s)') = {},
           \A t \in Sessions \ {s} : /\ Store(t)' = Store(t)
                                     /\ status'[t] \notin {"None", "Closed"} =>
                                           status[t] \notin {"None", "Closed"}
    PROVE  OneActivePerStore'
<1> SUFFICES ASSUME NEW st \in Stores, NEW x \in ActiveAt(st)', NEW y \in ActiveAt(st)'
             PROVE  x = y
  BY DEF OneActivePerStore
<1>1. \A t \in ActiveAt(st)' : t \in Sessions /\ Store(t)' = st /\ status'[t] \notin {"None", "Closed"}
  BY DEF ActiveAt, SessionsAt
<1>2. \A t \in ActiveAt(st)' \ {s} : t \in ActiveAt(st)
  BY <1>1 DEF ActiveAt, SessionsAt
<1>3. CASE s \in ActiveAt(st)'
  <2>1. ActiveAt(st) = {}
    BY <1>1, <1>3
  <2> QED
    BY <1>2, <2>1
<1>4. CASE s \notin ActiveAt(st)'
  BY <1>2, <1>4 DEF OneActivePerStore
<1> QED
  BY <1>3, <1>4

\* A step after which nothing runs that did not run before.
LEMMA NoNewcomer ==
    ASSUME OneActivePerStore,
           \A t \in Sessions : /\ Store(t)' = Store(t)
                               /\ status'[t] \notin {"None", "Closed"} =>
                                     status[t] \notin {"None", "Closed"}
    PROVE  OneActivePerStore'
<1>1. \A st \in Stores : ActiveAt(st)' \subseteq ActiveAt(st)
  BY DEF ActiveAt, SessionsAt
<1> QED
  BY <1>1 DEF OneActivePerStore

LEMMA OneActiveStep ==
    ASSUME IInv, OneActivePerStore, [Next]_vars,
           \A s \in Sessions : AdminReopenSession(s) => ActiveAt(Store(s)) = {}
    PROVE  OneActivePerStore'
<1> TypeOK
  BY DEF IInv
<1>1. ASSUME NEW s \in Sessions, NEW u \in Users, NEW p \in Profiles, OpenSession(s, u, p)
      PROVE  OneActivePerStore'
  <2>1. status' = [status EXCEPT ![s] = "Open"] /\ profile' = [profile EXCEPT ![s] = p]
    BY <1>1 DEF OpenSession
  <2>2. Store(s)' = StoreOf[p]
    BY <2>1 DEF Store, TypeOK
  <2>3. ActiveAt(Store(s)') = {}
    BY <1>1, <2>2 DEF OpenSession, StoreIsQuiet
  <2>4. \A t \in Sessions \ {s} : Store(t)' = Store(t) /\ status'[t] = status[t]
    BY <2>1 DEF Store, TypeOK
  <2> QED
    BY <2>3, <2>4, LoneNewcomer
<1>2. ASSUME NEW s \in Sessions, AdminReopenSession(s) PROVE OneActivePerStore'
  <2>1. status' = [status EXCEPT ![s] = "Open"] /\ profile' = profile
    BY <1>2 DEF AdminReopenSession
  <2>2. \A t \in Sessions : Store(t)' = Store(t)
    BY <2>1 DEF Store
  <2>3. ActiveAt(Store(s)') = {}
    BY <1>2, <2>2
  <2>4. \A t \in Sessions \ {s} : status'[t] = status[t]
    BY <2>1 DEF TypeOK
  <2> QED
    BY <2>2, <2>3, <2>4, LoneNewcomer
<1>3. ASSUME NEW s \in Sessions,
             LockSession(s) \/ UnlockSession(s) \/ CreateSettlement(s) \/ ReopenSettlement(s)
      PROVE  OneActivePerStore'
  <2>1. /\ profile' = profile /\ status[s] \in Closable
        /\ \A t \in Sessions : t # s => status'[t] = status[t]
    BY <1>3 DEF LockSession, UnlockSession, CreateSettlement, ReopenSettlement, Closable, TypeOK
  <2>2. \A t \in Sessions : /\ Store(t)' = Store(t)
                            /\ status'[t] \notin {"None", "Closed"} => status[t] \notin {"None", "Closed"}
    BY <2>1 DEF Store, Closable
  <2> QED
    BY <2>2, NoNewcomer
<1>4. ASSUME NEW S \in SUBSET Sessions, CloseTills(S), profile' = profile PROVE OneActivePerStore'
  <2>1. \A t \in Sessions : status'[t] = IF t \in S THEN "Closed" ELSE status[t]
    BY <1>4 DEF CloseTills
  <2>2. \A t \in Sessions : /\ Store(t)' = Store(t)
                            /\ status'[t] \notin {"None", "Closed"} => status[t] \notin {"None", "Closed"}
    BY <1>4, <2>1 DEF Store
  <2> QED
    BY <2>2, NoNewcomer
<1>5. ASSUME NEW s \in Sessions, CloseSession(s) PROVE OneActivePerStore'
  BY <1>4, <1>5 DEF CloseSession
<1>6. ASSUME NEW failed \in SUBSET Sessions, SweepSessions(failed) PROVE OneActivePerStore'
  <2>1. Sweepable \ failed \in SUBSET Sessions
    BY DEF Sweepable
  <2> QED
    BY <1>4, <1>6, <2>1 DEF SweepSessions
<1>7. CASE \/ UNCHANGED vars \/ Midnight
           \/ \E u \in Users : ReleaseCashierAssignment(u)
           \/ \E st \in Stores : \E d \in 1..MaxDay : OverrideBusinessDate(st, d)
  <2>1. status' = status /\ profile' = profile
    BY <1>7 DEF vars, sessionVars, Midnight, ReleaseCashierAssignment, OverrideBusinessDate
  <2>2. \A t \in Sessions : Store(t)' = Store(t) /\ status'[t] = status[t]
    BY <2>1 DEF Store
  <2> QED
    BY <2>2, NoNewcomer
<1> QED
  BY <1>1, <1>2, <1>3, <1>5, <1>6, <1>7 DEF Next

\* A store has one running session at a time as long as nobody reopens a
\* session beside a running one: the reopening is the one step that breaks
\* "never two concurrent open sessions for the SAME store/till"
\* (ch_pos_session.py:226), and the check it leaves out is all that is missing.
THEOREM OneActiveIfReopenedAlone == Spec /\ ReopensAlone => []OneActivePerStore
<1>1. Init => OneActivePerStore
  BY DEF Init, OneActivePerStore, ActiveAt, SessionsAt
<1>2. IInv /\ OneActivePerStore /\ [Next]_vars
        /\ [\A s \in Sessions : AdminReopenSession(s) => ActiveAt(Store(s)) = {}]_vars
        => OneActivePerStore'
  <2> SUFFICES ASSUME IInv, OneActivePerStore, [Next]_vars,
                      [\A s \in Sessions : AdminReopenSession(s) => ActiveAt(Store(s)) = {}]_vars
               PROVE  OneActivePerStore'
    OBVIOUS
  <2>1. CASE UNCHANGED vars
    <3>1. status' = status /\ profile' = profile
      BY <2>1 DEF vars, sessionVars
    <3>2. \A t \in Sessions : Store(t)' = Store(t) /\ status'[t] = status[t]
      BY <3>1 DEF Store
    <3> QED
      BY <3>2, NoNewcomer
  <2>2. CASE \A s \in Sessions : AdminReopenSession(s) => ActiveAt(Store(s)) = {}
    BY <2>2, OneActiveStep
  <2> QED
    BY <2>1, <2>2
<1> QED
  BY <1>1, <1>2, Invariance, PTL DEF Spec, ReopensAlone

-----------------------------------------------------------------------------
(* The refinement of TradingDays                                           *)

\* The calendar of the model is long enough for every date.
LEMMA CalendarHolds == Spec => [](today <= MaxDay)
<1>1. Init => today <= MaxDay
  BY StoreDayAssumption DEF Init
<1>2. IInv /\ today <= MaxDay /\ [Next]_vars => (today <= MaxDay)'
  <2> SUFFICES ASSUME IInv, today <= MaxDay, [Next]_vars PROVE today' <= MaxDay
    OBVIOUS
  <2>1. today \in Nat
    BY DEF IInv, TypeOK, Days
  <2>2. today' = today \/ (today < MaxDay /\ today' = today + 1)
    BY DEF Next, vars, Midnight, OpenSession, LockSession, UnlockSession, CreateSettlement,
           ReopenSettlement, CloseSession, AdminReopenSession, ReleaseCashierAssignment,
           SweepSessions, OverrideBusinessDate
  <2> QED
    BY <2>1, <2>2, StoreDayAssumption
<1> QED
  BY <1>1, <1>2, Invariance, PTL DEF Spec

\* How far a day has come, from the sessions that run at the store.
LEMMA DayIs ==
    ASSUME NEW st, NEW d
    PROVE  /\ DayState(st, d) \in {"unopened", "trading", "counted"}
           /\ DayState(st, d) = "trading" <=> \E s \in ActiveAt(st) : date[s] = d
           /\ DayState(st, d) = "unopened" <=> ~ \E s \in SessionsAt(st) : date[s] = d
  BY DEF DayState, ActiveAt

\* The same in the next state.
LEMMA DayIsNext ==
    ASSUME NEW st, NEW d
    PROVE  /\ DayState(st, d)' \in {"unopened", "trading", "counted"}
           /\ DayState(st, d)' = "trading" <=> \E s \in ActiveAt(st)' : date'[s] = d
           /\ DayState(st, d)' = "unopened" <=> ~ \E s \in SessionsAt(st)' : date'[s] = d
  BY DEF DayState, ActiveAt

\* A step that changes neither the sessions that exist nor those that run, nor
\* any date, is no step of the days.
LEMMA DaysStand ==
    ASSUME \A st \in Stores : SessionsAt(st)' = SessionsAt(st) /\ ActiveAt(st)' = ActiveAt(st),
           date' = date, bizDate' = bizDate
    PROVE  UNCHANGED TD!vars
<1>1. \A st \in Stores : \A d \in DaySet : DayState(st, d)' = DayState(st, d)
  BY DayIs, DayIsNext
<1> QED
  BY <1>1 DEF TD!vars

\* open_session starts a day that was never worked, while no other runs.
LEMMA OpeningStarts ==
    ASSUME IInv, today <= MaxDay,
           NEW s \in Sessions, NEW u \in Users, NEW p \in Profiles, OpenSession(s, u, p)
    PROVE  TD!Next
<1>1. PICK st : st = StoreOf[p]
  OBVIOUS
<1>2. PICK d : d = StoreDate(st)
  OBVIOUS
<1>3. st \in Stores /\ d \in DaySet
  <2>1. st \in Stores
    BY <1>1, StoreDayAssumption
  <2>2. d \in Days /\ d <= today
    BY <1>2, <2>1, StoreDateBounds DEF IInv
  <2>3. today \in Nat /\ d \in Nat /\ d # 0
    BY <2>2 DEF Days, IInv, TypeOK
  <2> QED
    BY <2>1, <2>2, <2>3, StoreDayAssumption DEF DaySet
<1>4. /\ status[s] = "None" /\ ActiveAt(st) = {}
      /\ \A t \in SessionsAt(st) : ~(status[t] = "Closed" /\ date[t] = d)
      /\ status' = [status EXCEPT ![s] = "Open"] /\ profile' = [profile EXCEPT ![s] = p]
      /\ date' = [date EXCEPT ![s] = d] /\ bizDate' = bizDate
  BY <1>1, <1>2 DEF OpenSession, StoreIsQuiet, DateNotClosed
<1>5. \A x \in Stores : /\ SessionsAt(x)' = IF x = st THEN SessionsAt(x) \cup {s} ELSE SessionsAt(x)
                        /\ ActiveAt(x)' = IF x = st THEN {s} ELSE ActiveAt(x)
                        /\ s \notin SessionsAt(x) /\ ActiveAt(x) \subseteq SessionsAt(x)
                        /\ SessionsAt(x) \subseteq Sessions
  BY <1>1, <1>4 DEF IInv, TypeOK, SessionsAt, ActiveAt, Store
<1>6. \A t \in Sessions : date'[t] = IF t = s THEN d ELSE date[t]
  BY <1>4 DEF IInv, TypeOK
<1>7. \A e \in DaySet : DayState(st, e) # "trading"
  BY <1>4, DayIs
<1>8. DayState(st, d) = "unopened"
  <2>1. ~ \E t \in SessionsAt(st) : date[t] = d
    BY <1>4 DEF ActiveAt
  <2> QED
    BY <2>1, DayIs
<1>9. \A x \in Stores : \A e \in DaySet :
         DayState(x, e)' = IF x = st /\ e = d THEN "trading" ELSE DayState(x, e)
  <2> SUFFICES ASSUME NEW x \in Stores, NEW e \in DaySet
               PROVE  DayState(x, e)' = IF x = st /\ e = d THEN "trading" ELSE DayState(x, e)
    OBVIOUS
  <2>1. CASE x = st /\ e = d
    BY <1>5, <1>6, <2>1, DayIsNext
  <2>2. CASE x # st
    BY <1>5, <1>6, <2>2, DayIs, DayIsNext
  <2>3. CASE x = st /\ e # d
    <3>1. DayState(x, e)' # "trading" /\ DayState(x, e) # "trading"
      BY <1>5, <1>6, <1>7, <2>3, DayIsNext
    <3>2. DayState(x, e)' = "unopened" <=> DayState(x, e) = "unopened"
      BY <1>5, <1>6, <2>3, DayIs, DayIsNext
    <3>3. /\ DayState(x, e)' \in {"unopened", "trading", "counted"}
          /\ DayState(x, e) \in {"unopened", "trading", "counted"}
      BY DayIs, DayIsNext
    <3> QED
      BY <2>3, <3>1, <3>2, <3>3
  <2> QED
    BY <2>1, <2>2, <2>3
<1>10. TD!StartDay(st, d)
  BY <1>3, <1>4, <1>7, <1>8, <1>9 DEF TD!StartDay
<1> QED
  BY <1>3, <1>10 DEF TD!Next

\* Closing tills counts days that run.
LEMMA ClosingCounts ==
    ASSUME IInv, NEW S \in SUBSET Sessions, \A s \in S : status[s] \in Closable,
           CloseTills(S), UNCHANGED <<today, profile, date, cashier, settled>>
    PROVE  /\ \A st \in Stores : SessionsAt(st)' = SessionsAt(st) /\ ActiveAt(st)' = ActiveAt(st) \ S
           /\ \A st \in Stores : \A d \in DaySet :
                 /\ DayState(st, d)' # DayState(st, d) =>
                       DayState(st, d) = "trading" /\ DayState(st, d)' = "counted"
                 /\ (\A s \in S : Store(s) # st \/ date[s] # d) => DayState(st, d)' = DayState(st, d)
<1>1. \A st \in Stores : ActiveAt(st)' = ActiveAt(st) \ S
  BY CloseTillsInv
<1>2. \A st \in Stores : SessionsAt(st)' = SessionsAt(st)
  BY DEF CloseTills, SessionsAt, Store, Closable
<1>3. ASSUME NEW st \in Stores, NEW d \in DaySet
      PROVE  /\ DayState(st, d)' # DayState(st, d) =>
                   DayState(st, d) = "trading" /\ DayState(st, d)' = "counted"
             /\ (\A s \in S : Store(s) # st \/ date[s] # d) => DayState(st, d)' = DayState(st, d)
  <2>1. DayState(st, d)' = "unopened" <=> DayState(st, d) = "unopened"
    BY <1>2, DayIs, DayIsNext
  <2>2. DayState(st, d)' = "trading" => DayState(st, d) = "trading"
    BY <1>1, DayIs, DayIsNext
  <2>3. (\A s \in S : Store(s) # st \/ date[s] # d) /\ DayState(st, d) = "trading"
           => DayState(st, d)' = "trading"
    <3> SUFFICES ASSUME \A s \in S : Store(s) # st \/ date[s] # d, DayState(st, d) = "trading"
                 PROVE  DayState(st, d)' = "trading"
      OBVIOUS
    <3>1. PICK t \in ActiveAt(st) : date[t] = d
      BY DayIs
    <3>2. Store(t) = st
      BY DEF ActiveAt, SessionsAt
    <3>3. t \in ActiveAt(st)'
      BY <1>1, <3>1, <3>2
    <3> QED
      BY <3>1, <3>3, DayIsNext
  <2>4. /\ DayState(st, d)' \in {"unopened", "trading", "counted"}
        /\ DayState(st, d) \in {"unopened", "trading", "counted"}
    BY DayIs, DayIsNext
  <2> QED
    BY <2>1, <2>2, <2>3, <2>4
<1> QED
  BY <1>1, <1>2, <1>3

\* ... which is a step of the days when the date of the store stays.
LEMMA CountingSteps ==
    ASSUME bizDate' = bizDate,
           \A st \in Stores : \A d \in DaySet :
              DayState(st, d)' # DayState(st, d) =>
                 DayState(st, d) = "trading" /\ DayState(st, d)' = "counted"
    PROVE  TD!Next
<1>1. \A st \in Stores : \A d \in DaySet : DayState(st, d)' \in {"unopened", "trading", "counted"}
  BY DayIsNext
<1>2. TD!CountDays
  BY <1>1 DEF TD!CountDays, TD!DayStates
<1> QED
  BY <1>2 DEF TD!Next

LEMMA SweepCounts ==
    ASSUME IInv, NEW failed \in SUBSET Sessions, SweepSessions(failed)
    PROVE  TD!Next
<1>1. PICK S : S = Sweepable \ failed
  OBVIOUS
<1>2. /\ S \in SUBSET Sessions /\ \A s \in S : status[s] \in Closable
      /\ CloseTills(S) /\ UNCHANGED <<today, profile, date, cashier, settled>>
      /\ bizDate' = bizDate
  BY <1>1 DEF SweepSessions, Sweepable, Billable, Closable
<1> QED
  BY <1>2, ClosingCounts, CountingSteps

\* close_session counts its day, and is the last of the store to do so when
\* the date rolls.
LEMMA CloseCounts ==
    ASSUME IInv, today <= MaxDay, NEW s \in Sessions, CloseSession(s)
    PROVE  TD!Next
<1>1. PICK st : st = Store(s)
  OBVIOUS
<1>2. PICK d : d = date[s]
  OBVIOUS
<1>3. /\ status[s] \in Closable /\ CloseTills({s})
      /\ UNCHANGED <<today, profile, date, cashier, settled>>
  BY DEF CloseSession
<1>4. \/ bizDate' = bizDate
      \/ /\ bizDate' = [bizDate EXCEPT ![st] = today]
         /\ ActiveAt(st) \subseteq {s} /\ StoreDate(st) = d /\ d + 1 <= today
  BY <1>1, <1>2 DEF CloseSession, DayComplete
<1>5. {s} \in SUBSET Sessions /\ \A x \in {s} : status[x] \in Closable
  BY <1>3
<1>6. /\ \A x \in Stores : SessionsAt(x)' = SessionsAt(x) /\ ActiveAt(x)' = ActiveAt(x) \ {s}
      /\ \A x \in Stores : \A e \in DaySet :
            /\ DayState(x, e)' # DayState(x, e) =>
                  DayState(x, e) = "trading" /\ DayState(x, e)' = "counted"
            /\ (\A y \in {s} : Store(y) # x \/ date[y] # e) => DayState(x, e)' = DayState(x, e)
  BY <1>3, <1>5, ClosingCounts
<1>7. CASE bizDate' = bizDate
  BY <1>6, <1>7, CountingSteps
<1>8. CASE /\ bizDate' = [bizDate EXCEPT ![st] = today]
           /\ ActiveAt(st) \subseteq {s} /\ StoreDate(st) = d /\ d + 1 <= today
  <2>1. st \in Stores /\ s \in ActiveAt(st)
    BY <1>1, <1>3, StoreType DEF IInv, ActiveAt, SessionsAt, Closable
  <2>2. today \in Nat /\ d \in Nat /\ d # 0
    BY <1>2, <1>3 DEF IInv, TypeOK, BlankUntilOpened, Days, Closable
  <2>3. d \in DaySet /\ today \in DaySet /\ today > d
    BY <1>8, <2>2, StoreDayAssumption DEF DaySet
  <2>4. bizDate[st] = d
    BY <1>8, <2>2 DEF StoreDate
  <2>5. DayState(st, d) = "trading"
    BY <1>2, <2>1, DayIs
  <2>6. \A x \in DaySet \ {d} : DayState(st, x) # "trading"
    BY <1>2, <1>8, DayIs
  <2>7. DayState(st, d)' = "counted"
    <3>1. ActiveAt(st)' = {}
      BY <1>6, <1>8, <2>1
    <3>2. DayState(st, d)' # "trading"
      BY <3>1, DayIsNext
    <3> QED
      BY <1>6, <2>1, <2>3, <2>5, <3>2
  <2>8. \A x \in Stores : \A e \in DaySet :
           DayState(x, e)' = IF x = st /\ e = d THEN "counted" ELSE DayState(x, e)
    BY <1>1, <1>2, <1>6, <2>7
  <2>9. TD!CountAndAdvance(st, d, today)
    BY <1>8, <2>1, <2>3, <2>4, <2>5, <2>6, <2>8 DEF TD!CountAndAdvance
  <2> QED
    BY <2>1, <2>3, <2>9 DEF TD!Next
<1> QED
  BY <1>4, <1>7, <1>8

\* admin_reopen_session takes up a day that was counted.
LEMMA ReopeningTakesUp ==
    ASSUME IInv, today <= MaxDay, NEW s \in Sessions, AdminReopenSession(s)
    PROVE  TD!Next
<1>1. PICK st : st = Store(s)
  OBVIOUS
<1>2. PICK d : d = date[s]
  OBVIOUS
<1>3. /\ status[s] = "Closed" /\ status' = [status EXCEPT ![s] = "Open"]
      /\ profile' = profile /\ date' = date
  BY DEF AdminReopenSession
<1>4. bizDate' = [bizDate EXCEPT ![st] = IF bizDate[st] > d THEN d ELSE bizDate[st]]
  <2>1. bizDate \in [Stores -> Nat]
    BY DEF IInv, TypeOK
  <2> QED
    BY <1>1, <1>2, <2>1 DEF AdminReopenSession
<1>5. st \in Stores /\ s \in SessionsAt(st) /\ s \notin ActiveAt(st)
  BY <1>1, <1>3, StoreType DEF IInv, SessionsAt, ActiveAt
<1>6. d \in DaySet
  <2>1. d \in Nat /\ d # 0 /\ d <= today /\ today \in Nat
    BY <1>2, <1>3 DEF IInv, TypeOK, BlankUntilOpened, NoFutureDate, Days
  <2> QED
    BY <2>1, StoreDayAssumption DEF DaySet
<1>7. \A x \in Stores : /\ SessionsAt(x)' = SessionsAt(x)
                        /\ ActiveAt(x)' = IF x = st THEN ActiveAt(x) \cup {s} ELSE ActiveAt(x)
  BY <1>1, <1>3 DEF IInv, TypeOK, SessionsAt, ActiveAt, Store
<1>8. \A t \in SessionsAt(st) : date[t] = d => t = s
  BY <1>1, <1>2, <1>3, <1>5 DEF IInv, OneSessionPerStoreDay, SessionsAt
<1>9. DayState(st, d) = "counted"
  <2>1. DayState(st, d) # "trading"
    BY <1>5, <1>8, DayIs DEF ActiveAt
  <2>2. DayState(st, d) # "unopened"
    BY <1>2, <1>5, DayIs
  <2> QED
    BY <2>1, <2>2, DayIs
<1>10. \A x \in Stores : \A e \in DaySet :
          DayState(x, e)' = IF x = st /\ e = d THEN "trading" ELSE DayState(x, e)
  <2> SUFFICES ASSUME NEW x \in Stores, NEW e \in DaySet
               PROVE  DayState(x, e)' = IF x = st /\ e = d THEN "trading" ELSE DayState(x, e)
    OBVIOUS
  <2>1. CASE x = st /\ e = d
    BY <1>2, <1>3, <1>7, <2>1, DayIsNext
  <2>2. CASE ~(x = st /\ e = d)
    <3>1. DayState(x, e)' = "trading" <=> DayState(x, e) = "trading"
      BY <1>2, <1>3, <1>7, <2>2, DayIs, DayIsNext
    <3>2. DayState(x, e)' = "unopened" <=> DayState(x, e) = "unopened"
      BY <1>3, <1>7, DayIs, DayIsNext
    <3>3. /\ DayState(x, e)' \in {"unopened", "trading", "counted"}
          /\ DayState(x, e) \in {"unopened", "trading", "counted"}
      BY DayIs, DayIsNext
    <3> QED
      BY <2>2, <3>1, <3>2, <3>3
  <2> QED
    BY <2>1, <2>2
<1>11. TD!TakeUpAgain(st, d)
  BY <1>4, <1>5, <1>6, <1>9, <1>10 DEF TD!TakeUpAgain
<1> QED
  BY <1>5, <1>6, <1>11 DEF TD!Next

\* Every step of the session lifecycle is a step of the days, or none.
LEMMA StepsImplement == IInv /\ today <= MaxDay /\ [Next]_vars => [TD!Next]_(TD!vars)
<1> SUFFICES ASSUME IInv, today <= MaxDay, [Next]_vars PROVE TD!Next \/ UNCHANGED TD!vars
  OBVIOUS
<1>1. ASSUME NEW s \in Sessions,
             LockSession(s) \/ UnlockSession(s) \/ CreateSettlement(s) \/ ReopenSettlement(s)
      PROVE  UNCHANGED TD!vars
  <2>1. /\ status[s] \in Closable /\ status'[s] \in Closable
        /\ \A t \in Sessions \ {s} : status'[t] = status[t]
        /\ profile' = profile /\ date' = date /\ bizDate' = bizDate
    BY <1>1 DEF LockSession, UnlockSession, CreateSettlement, ReopenSettlement, Closable, IInv, TypeOK
  <2>2. \A st \in Stores : SessionsAt(st)' = SessionsAt(st) /\ ActiveAt(st)' = ActiveAt(st)
    BY <2>1 DEF SessionsAt, ActiveAt, Store, Closable
  <2> QED
    BY <2>1, <2>2, DaysStand
<1>2. ASSUME status' = status, profile' = profile, date' = date, bizDate' = bizDate
      PROVE  UNCHANGED TD!vars
  <2>1. \A st \in Stores : SessionsAt(st)' = SessionsAt(st) /\ ActiveAt(st)' = ActiveAt(st)
    BY <1>2 DEF SessionsAt, ActiveAt, Store
  <2> QED
    BY <1>2, <2>1, DaysStand
<1>3. ASSUME NEW st \in Stores, NEW e \in 1..MaxDay, OverrideBusinessDate(st, e)
      PROVE  TD!Next
  <2>1. /\ e >= bizDate[st] /\ bizDate' = [bizDate EXCEPT ![st] = e] /\ e \in DaySet
        /\ status' = status /\ profile' = profile /\ date' = date
    BY <1>3 DEF OverrideBusinessDate, MayMoveTo, sessionVars, DaySet
  <2>2. \A x \in Stores : SessionsAt(x)' = SessionsAt(x) /\ ActiveAt(x)' = ActiveAt(x)
    BY <2>1 DEF SessionsAt, ActiveAt, Store
  <2>3. \A x \in Stores : \A d \in DaySet : DayState(x, d)' = DayState(x, d)
    BY <2>1, <2>2, DayIs, DayIsNext
  <2>4. TD!MoveOn(st, e)
    BY <2>1, <2>3 DEF TD!MoveOn
  <2> QED
    BY <2>1, <2>4 DEF TD!Next
<1>4. CASE Midnight \/ \E u \in Users : ReleaseCashierAssignment(u)
  BY <1>2, <1>4 DEF Midnight, ReleaseCashierAssignment, sessionVars
<1>5. CASE UNCHANGED vars
  BY <1>2, <1>5 DEF vars, sessionVars
<1> QED
  BY <1>1, <1>3, <1>4, <1>5, OpeningStarts, CloseCounts, ReopeningTakesUp, SweepCounts DEF Next

\* The session lifecycle keeps what it promises the accounts: a day is worked
\* in one run of one till, is counted when that run ends, is taken up again
\* only for a correction and never started twice, and the date of a store
\* goes back only to a day taken up again (open_session, close_session,
\* auto_close_stale_sessions, admin_reopen_session, override_business_date).
THEOREM LifecycleKeepsDays == Spec => ImplementsTradingDays
<1>1. Init => TD!Init
  <2> SUFFICES ASSUME Init PROVE TD!Init
    OBVIOUS
  <2>1. \A st \in Stores : \A d \in DaySet : DayState(st, d) = "unopened"
    BY DayIs DEF Init, SessionsAt
  <2>2. bizDate \in [Stores -> {0, 1}]
    BY DEF Init, NoRow
  <2> QED
    BY <2>1, <2>2 DEF TD!Init
<1> QED
  BY <1>1, StepsImplement, Invariance, CalendarHolds, PTL DEF Spec, ImplementsTradingDays, TD!Spec

=============================================================================
