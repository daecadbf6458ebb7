------------------------------ MODULE TillRaces ------------------------------
(***************************************************************************)
(* Overlapping requests on the tills of one store.  A request reads in one *)
(* step (Start) and commits in another (Commit); in between it works on    *)
(* the snapshot of its first read.  The named locks of open_session,       *)
(* close_session, admin_reopen_session and of the sweeps are taken after   *)
(* that read and given back before the commit, so they do not keep two     *)
(* requests apart; they are not modelled.  What does refuse a request is   *)
(* the framework: a document that is saved or cancelled must be as it was  *)
(* read.  A status is written blindly (db_set).                            *)
(*                                                                         *)
(* StoreDay models the same operations, dates included, one at a time.     *)
(*                                                                         *)
(* A definition directly before another one that it resembles is a mutant. *)
(***************************************************************************)
EXTENDS Naturals, FiniteSets

CONSTANTS
    Tills,     \* names of CH POS Session documents of the store
    Requests,  \* requests and scheduler jobs, each run once
    Nobody     \* not a request

ASSUME TillAssumption == Nobody \notin Requests

VARIABLES
    till,      \* session -> the session with its vouchers
    request,   \* request -> what it does and what it read
    raced,     \* ghost: sessions written by a request that had read another state
    readmitted \* ghost: sessions an administrator reopened

raceVars == <<till, request, raced, readmitted>>

Kinds == {"open", "lock", "unlock", "settle", "reopenSettlement",
          "close", "sweep", "adminReopen"}

NoTill == [status |-> "None", settlements |-> {}, closings |-> {}, entryBy |-> Nobody]
NewRequest == [phase |-> "new", kind |-> "none", on |-> Nobody,
               saw |-> NoTill, running |-> {}]

TillInit ==
    /\ till = [s \in Tills |-> NoTill]
    /\ request = [r \in Requests |-> NewRequest]
    /\ raced = {}
    /\ readmitted = {}

MayBeClosed == {"Open", "Locked", "PendingClose"}
RunningTills == {s \in Tills : till[s].status \in MayBeClosed}

-----------------------------------------------------------------------------
(* What a request checks on what it read                                   *)

\* open_session: no session of the store runs (dates are left to StoreDay).
MayOpenLoosely(s) == s.status = "None"
MayOpen(s) == s.status = "None" /\ RunningTills = {}

\* CreateSettlement; the session waits for its close afterwards.
MaySettle(s) == s.status \in MayBeClosed /\ s.settlements = {}

\* reopen_settlement
MayReopenSettlement(s) == s.status = "PendingClose" /\ s.settlements # {}

\* session_api.close_session, with require_settlement_before_session_close.
MayClose(s) == s.status \in MayBeClosed /\ s.settlements # {}

\* The sweeps close a stale session that is open or locked.
MaySweep(s) == s.status \in {"Open", "Locked"}

MayAdminReopen(s) == s.status = "Closed"

MayStart(kind, s) ==
    CASE kind = "open"              -> MayOpen(s)
      [] kind = "lock"              -> s.status = "Open"
      [] kind = "unlock"            -> s.status = "Locked"
      [] kind = "settle"            -> MaySettle(s)
      [] kind = "reopenSettlement" -> MayReopenSettlement(s)
      [] kind = "close"             -> MayClose(s)
      [] kind = "sweep"             -> MaySweep(s)
      [] kind = "adminReopen"      -> MayAdminReopen(s)

Start(r, kind, s) ==
    /\ request[r].phase = "new"
    /\ MayStart(kind, till[s])
    /\ request' = [request EXCEPT ![r] =
                     [phase |-> "running", kind |-> kind, on |-> s,
                      saw |-> till[s], running |-> RunningTills]]
    /\ UNCHANGED <<till, raced, readmitted>>

-----------------------------------------------------------------------------
(* What it writes                                                          *)

\* CHPOSSession.close_session: a closing entry unless one is linked.
ClosesHalfWay(r, now, saw) ==
    IF saw.closings # {} THEN [now EXCEPT !.status = "Closed"]
    ELSE [now EXCEPT !.status = "Closing", !.closings = @ \cup {r}, !.entryBy = r]
ClosesSilently(r, now, saw) == [now EXCEPT !.status = "Closed"]
Closes(r, now, saw) ==
    IF saw.closings # {} THEN [now EXCEPT !.status = "Closed"]
    ELSE [now EXCEPT !.status = "Closed", !.closings = @ \cup {r}, !.entryBy = r]

Written(r, kind, now, saw) ==
    CASE kind = "open"   -> [NoTill EXCEPT !.status = "Open", !.entryBy = r]
      [] kind = "lock"   -> [now EXCEPT !.status = "Locked"]
      [] kind = "unlock" -> [now EXCEPT !.status = "Open"]
      [] kind = "settle" -> [now EXCEPT !.status = "PendingClose", !.settlements = @ \cup {r}]
      [] kind = "reopenSettlement" ->
             [now EXCEPT !.status = "Open", !.settlements = @ \ saw.settlements]
      [] kind \in {"close", "sweep"} -> Closes(r, now, saw)
      [] kind = "adminReopen" ->
             [now EXCEPT !.status = "Open", !.settlements = @ \ saw.settlements,
                         !.closings = {}, !.entryBy = r]

\* check_if_latest, on the documents that are saved or cancelled: the opening
\* entry by a close that makes a closing entry and by an administrator, and
\* the settlement by those who cancel it.  Session names are made anew.
FreshEnoughUnchecked(kind, now, saw) == kind = "open" => now.status = "None"
FreshEnough(kind, now, saw) ==
    /\ kind = "open" => now.status = "None"
    /\ kind \in {"close", "sweep"} /\ saw.closings = {} => now.entryBy = saw.entryBy
    /\ kind = "adminReopen" => now.entryBy = saw.entryBy
    /\ kind \in {"reopenSettlement", "adminReopen"} => saw.settlements \subseteq now.settlements

Marks(s, unchanged) == IF unchanged THEN raced ELSE raced \cup {s}

Commit(r) ==
    LET q   == request[r]
        now == till[q.on]
    IN  /\ q.phase = "running"
        /\ FreshEnough(q.kind, now, q.saw)
        /\ till' = [till EXCEPT ![q.on] = Written(r, q.kind, now, q.saw)]
        /\ raced' = Marks(q.on,
                          now = q.saw /\ (q.kind = "open" => RunningTills = q.running))
        /\ readmitted' = IF q.kind = "adminReopen" THEN readmitted \cup {q.on} ELSE readmitted
        /\ request' = [request EXCEPT ![r] = [NewRequest EXCEPT !.phase = "done"]]

\* Refused by the framework, by a check after the read, or lost.
RollBack(r) ==
    /\ request[r].phase = "running"
    /\ request' = [request EXCEPT ![r] = [NewRequest EXCEPT !.phase = "done"]]
    /\ UNCHANGED <<till, raced, readmitted>>

TillNext ==
    \E r \in Requests :
      \/ \E kind \in Kinds, s \in Tills : Start(r, kind, s)
      \/ Commit(r)
      \/ RollBack(r)

TillSpec == TillInit /\ [][TillNext]_raceVars

-----------------------------------------------------------------------------
(* Properties                                                             *)

Vouchers == [status : {"None", "Closed"} \cup MayBeClosed, settlements : SUBSET Requests,
             closings : SUBSET Requests, entryBy : Requests \cup {Nobody}]

\* The statuses of sessions, vouchers and requests.
TillTypeOK ==
    /\ till \in [Tills -> Vouchers]
    /\ request \in [Requests -> [phase : {"new", "running", "done"}, kind : Kinds \cup {"none"},
                                 on : Tills \cup {Nobody}, saw : Vouchers, running : SUBSET Tills]]
    /\ raced \in SUBSET Tills /\ readmitted \in SUBSET Tills

\* A till is counted out once: whatever overlaps, one POS Closing Entry at
\* most stands on its opening entry (_mirror_close_to_opening_entry and the
\* framework's conflict check).
ClosedOnce == \A s \in Tills : Cardinality(till[s].closings) <= 1

\* A till whose requests never overtook each other is coherent: it has its
\* closing entry exactly while Closed, one settlement at most, and that one
\* stops it; it waits for a close only with a settlement.  (A till outside
\* this guarantee had a status written over one that came after the read.)
CoherentUnlessRaced == \A s \in Tills \ raced :
    /\ till[s].closings # {} <=> till[s].status = "Closed"
    /\ Cardinality(till[s].settlements) <= 1
    /\ till[s].settlements # {} => till[s].status \in {"PendingClose", "Closed"}
    /\ till[s].status = "PendingClose" => till[s].settlements # {}

\* Two tills of the store run at once only after overlapping requests on one
\* of them or an administrator's reopening.
SecondTillIsExplained == \A s, t \in RunningTills :
    s # t => {s, t} \cap (raced \cup readmitted) # {}

\* However the requests of a till overlap, its session is closed once and its
\* records agree, except where the code's own gaps explain otherwise.
TillsStayCoherent ==
    /\ ClosedOnce
    /\ CoherentUnlessRaced
    /\ SecondTillIsExplained

\* session_api.py:746, "Closed is a terminal state by design": only an
\* administrator leaves it.
ClosedIsTerminal == [][\A s \in Tills :
    till[s].status = "Closed" /\ till'[s].status # "Closed" => s \in readmitted']_raceVars

=============================================================================
