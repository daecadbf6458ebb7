---------------------------- MODULE TradingDays ----------------------------
(***************************************************************************)
(* What the session lifecycle promises the accounts of a store: a trading  *)
(* day is worked in one run of one till, is counted when that run ends,    *)
(* may be taken up again for a correction, and is never started twice.     *)
(* The store's date only moves back to take a counted day up again.        *)
(***************************************************************************)
EXTENDS Naturals

CONSTANTS Stores, DaySet

VARIABLES
    day,      \* store -> day -> how far the day has come
    current   \* store -> the date its row shows (0: no row)

vars == <<day, current>>

DayStates == {"unopened", "trading", "counted"}

Init ==
    /\ day = [st \in Stores |-> [d \in DaySet |-> "unopened"]]
    /\ current \in [Stores -> {0, 1}]

\* A day that was never worked starts, while no other day of the store runs.
StartDay(st, d) ==
    /\ \A e \in DaySet : day[st][e] # "trading"
    /\ day[st][d] = "unopened"
    /\ day' = [day EXCEPT ![st][d] = "trading"]
    /\ UNCHANGED current

\* Some of the days that run are counted.
CountDays ==
    /\ day' \in [Stores -> [DaySet -> DayStates]]
    /\ \A st \in Stores : \A d \in DaySet :
          day'[st][d] # day[st][d] => day[st][d] = "trading" /\ day'[st][d] = "counted"
    /\ UNCHANGED current

\* The last running day is counted and the store moves on.
CountAndAdvance(st, d, e) ==
    /\ day[st][d] = "trading"
    /\ \A x \in DaySet \ {d} : day[st][x] # "trading"
    /\ current[st] = d
    /\ e > d
    /\ day' = [day EXCEPT ![st][d] = "counted"]
    /\ current' = [current EXCEPT ![st] = e]

\* A counted day is taken up again; the store goes back to it if it had
\* moved past it.
TakeUpAgain(st, d) ==
    /\ day[st][d] = "counted"
    /\ day' = [day EXCEPT ![st][d] = "trading"]
    /\ current' = [current EXCEPT ![st] = IF current[st] > d THEN d ELSE current[st]]

\* A manager moves the date on.
MoveOn(st, e) ==
    /\ e >= current[st]
    /\ current' = [current EXCEPT ![st] = e]
    /\ UNCHANGED day

Next ==
    \/ \E st \in Stores : \E d \in DaySet : StartDay(st, d) \/ TakeUpAgain(st, d)
    \/ \E st \in Stores : \E d, e \in DaySet : CountAndAdvance(st, d, e)
    \/ \E st \in Stores : \E e \in DaySet : MoveOn(st, e)
    \/ CountDays

Spec == Init /\ [][Next]_vars

=============================================================================
