----------------------------- MODULE TokenQueue -----------------------------
(***************************************************************************)
(* The queue of walk-in customers: POS Kiosk Token documents, the billing  *)
(* slot of each counter, the bills a visit ends in, and the three          *)
(* scheduler jobs that close what people left open.                        *)
(*                                                                         *)
(* What an endpoint does to the status column is an operator of the rows   *)
(* it READ (argument r): the set of writes it may choose, empty when it    *)
(* refuses.  Here a request reads the committed rows and commits in one    *)
(* step; TokenRaces lets it read an older snapshot.                        *)
(***************************************************************************)
EXTENDS Integers, FiniteSets

CONSTANTS
    Tokens,     \* names of POS Kiosk Token documents
    Counters,   \* POS Profile
    Bills,      \* names of Sales Invoice documents
    None,       \* no token, no bill
    TTL,        \* lifetime of a token: expires_at is one day after creation
    MaxTime,    \* bound on the clock
    Batch       \* scheduler_batch_limit

ASSUME TokenQueueAssumption ==
    /\ Counters # {}
    /\ None \notin Tokens \cup Bills
    /\ TTL \in Nat \ {0} /\ MaxTime \in Nat /\ Batch \in Nat \ {0}

VARIABLES
    now,        \* clock, one unit is longer than stale_billing_timeout_minutes
    tok,        \* token -> its row
    billState,  \* bill -> "None", "Submitted", "Cancelled"
    billToken   \* bill -> custom_kiosk_token

billVars == <<billState, billToken>>
vars == <<now, tok, billVars>>

QUEUE_STATUSES      == {"Waiting", "Hold"}
OPEN_STATUSES       == {"Waiting", "Hold", "Engaged", "In Progress"}
EXPIRABLE_STATUSESNotHeld == {"Waiting", "Engaged"}
EXPIRABLE_STATUSES  == {"Waiting", "Hold", "Engaged"}
TERMINAL_STATUSES   == {"Completed", "Cancelled", "Converted", "Dropped", "Expired"}
Statuses == OPEN_STATUSES \cup TERMINAL_STATUSES \cup {"None"}

\* inPerson: visit_source is Kiosk or Counter.  idle: In Progress and not
\* modified for stale_billing_timeout_minutes.
Rows == [status : Statuses, docstatus : 0..2, counter : Counters, inPerson : BOOLEAN,
         due : Nat, idle : BOOLEAN, bill : Bills \cup {None}]

TypeOK ==
    /\ now \in Nat
    /\ tok \in [Tokens -> Rows]
    /\ billState \in [Bills -> {"None", "Submitted", "Cancelled"}]
    /\ billToken \in [Bills -> Tokens \cup {None}]

Unused == [status |-> "None", docstatus |-> 0, counter |-> CHOOSE c \in Counters : TRUE,
           inPerson |-> TRUE, due |-> 0, idle |-> FALSE, bill |-> None]

Init ==
    /\ now = 0
    /\ tok = [t \in Tokens |-> Unused]
    /\ billState = [b \in Bills |-> "None"]
    /\ billToken = [b \in Bills |-> None]

Exists(t) == tok[t].status # "None"

-----------------------------------------------------------------------------
(* Writes: functions from some tokens to the status they get               *)

Only(t, s) == [x \in {t} |-> s]
AllTo(S, s) == [x \in S |-> s]
NoWrite == AllTo({}, "None")

\* The left writes win.
Then(w, v) == [x \in DOMAIN w \cup DOMAIN v |-> IF x \in DOMAIN w THEN w[x] ELSE v[x]]

\* The row after a write of its status.
Written(row, s) == [row EXCEPT !.status = s, !.idle = FALSE]
After(w) == [t \in Tokens |-> IF t \in DOMAIN w THEN Written(tok[t], w[t]) ELSE tok[t]]

\* frappe.get_all with limit_page_length: any Batch of the rows it selects
\* (which ones the order by prefers is abstracted).
Batches(S) ==
    {X \in SUBSET S : IF Cardinality(S) <= Batch THEN X = S ELSE Cardinality(X) = Batch}

\* Submitted tokens of a counter in a status.
Queued(r, c, s) == {t \in Tokens : r[t].counter = c /\ r[t].status = s /\ r[t].docstatus = 1}

\* _release_held_tokens, after the request wrote the status of t.
ReleaseNobody(r, c, t) == {NoWrite}
ReleaseHeld(r, c, t) == {AllTo(X, "Waiting") : X \in Batches(Queued(r, c, "Hold") \ {t})}
\* The release after the end of a visit: when it fails that is logged, the
\* visit is over all the same and the held tokens stay held.
TryToReleaseHeld(r, c, t) == ReleaseHeld(r, c, t) \cup {NoWrite}

-----------------------------------------------------------------------------
(* The counter                                                             *)

\* start_pos_billing: the slot if it is free, else Hold.
ClaimAlways(r, t) ==
    IF r[t].status \in TERMINAL_STATUSES THEN {} ELSE {Only(t, "In Progress")}
ClaimEnded(r, t) ==
    IF Queued(r, r[t].counter, "In Progress") \ {t} = {} THEN {Only(t, "In Progress")}
    ELSE {Only(t, "Hold")}
Claim(r, t) ==
    IF r[t].status \in TERMINAL_STATUSES THEN {}
    ELSE IF Queued(r, r[t].counter, "In Progress") \ {t} = {} THEN {Only(t, "In Progress")}
    ELSE {Only(t, "Hold")}

\* release_pos_billing: t goes back to Waiting when it is being billed and
\* revert_current is set; the counter's held tokens always do.
Release(r, c, t, revert) ==
    {Then(IF revert /\ t # None /\ r[t].status = "In Progress"
          THEN Only(t, "Waiting") ELSE NoWrite, w) : w \in ReleaseHeld(r, c, None)}

\* update_kiosk_token_status, revert_kiosk_token_status,
\* _convert_token_to_prebooking: the visit ends in s, and the held come back
\* if their release succeeds.
EndVisit(r, t, s) ==
    {Then(Only(t, s), w) : w \in TryToReleaseHeld(r, r[t].counter, t)}

\* quick_walkin, create_token, create_tablet_token, log_counter_walkin.
Enter(t, c, s, inPerson) ==
    /\ ~Exists(t)
    /\ now + TTL < MaxTime
    /\ tok' = [tok EXCEPT ![t] = [status |-> s, docstatus |-> 1, counter |-> c,
                                  inPerson |-> inPerson, due |-> now + TTL,
                                  idle |-> FALSE, bill |-> None]]
    /\ UNCHANGED <<now, billVars>>

TakeToken(t, c) == Enter(t, c, "Waiting", TRUE)
QuickWalkin(t, c) == Enter(t, c, "Engaged", TRUE)
LogCounterWalkin(t, c, inPerson) ==
    Enter(t, c, IF inPerson THEN "In Progress" ELSE "Waiting", inPerson)

\* A request on one existing token that writes its status.
Request(t, writes) ==
    /\ Exists(t)
    /\ \E w \in writes : tok' = After(w)
    /\ UNCHANGED <<now, billVars>>

StartPosBilling(t) == Request(t, Claim(tok, t))
ReleasePosBilling(t, revert) == Request(t, Release(tok, tok[t].counter, t, revert))
ConvertToPrebooking(t) ==
    Request(t, IF tok[t].status \in TERMINAL_STATUSES THEN {} ELSE EndVisit(tok, t, "Converted"))

\* A Sales Invoice of the token is submitted at the token's counter,
\* whatever the token's status.
SubmitBill(b, t) ==
    /\ billState[b] = "None" /\ Exists(t)
    /\ \E w \in EndVisit(tok, t, "Converted") :
          tok' = [After(w) EXCEPT ![t].bill = b]
    /\ billState' = [billState EXCEPT ![b] = "Submitted"]
    /\ billToken' = [billToken EXCEPT ![b] = t]
    /\ UNCHANGED now

\* _auto_create_token_for_invoice: a bill without a token gets a new one,
\* which stays a draft document.
SubmitBillWithoutToken(b, t, c) ==
    /\ billState[b] = "None" /\ ~Exists(t)
    /\ \E w \in TryToReleaseHeld(tok, c, t) :
          tok' = [After(w) EXCEPT ![t] =
                    [status |-> "Converted", docstatus |-> 0, counter |-> c, inPerson |-> TRUE,
                     due |-> now, idle |-> FALSE, bill |-> b]]
    /\ billState' = [billState EXCEPT ![b] = "Submitted"]
    /\ billToken' = [billToken EXCEPT ![b] = t]
    /\ UNCHANGED now

\* The row of the token when its bill is cancelled.
KeepLink(row) == row
DropLink(row) == [row EXCEPT !.bill = None]

CancelBill(b) ==
    LET t == billToken[b]
    IN  /\ billState[b] = "Submitted"
        /\ \E w \in EndVisit(tok, t, "Expired") :
              tok' = [After(w) EXCEPT ![t] = DropLink(@)]
        /\ billState' = [billState EXCEPT ![b] = "Cancelled"]
        /\ UNCHANGED <<now, billToken>>

-----------------------------------------------------------------------------
(* The queue board                                                         *)

Unless(r, t, S, s) == IF r[t].status \in S THEN {} ELSE {Only(t, s)}

EngageToken(t) == Request(t, Unless(tok, t, Statuses \ {"Waiting"}, "Engaged"))
\* assign_token: only a Waiting token changes its status.
AssignToken(t) ==
    Request(t, {Only(t, IF tok[t].status = "Waiting" THEN "In Progress" ELSE tok[t].status)})
StartToken(t) == Request(t, {Only(t, "In Progress")})
CompleteToken(t) == Request(t, {Only(t, "Completed")})
CancelToken(t) == Request(t, Unless(tok, t, {"Completed", "Cancelled", "Converted"}, "Cancelled"))
DropToken(t) ==
    Request(t, Unless(tok, t, {"Completed", "Cancelled", "Converted", "Dropped"}, "Dropped"))
LinkServiceRequest(t) ==
    Request(t, Unless(tok, t, {"Converted", "Cancelled", "Expired"}, "Converted"))
ConvertToGofix(t) == Request(t, Unless(tok, t, {"Converted"}, "Converted"))

\* The document is cancelled from the desk, which Frappe refuses while a
\* submitted bill links to it.
CancelDocument(t) ==
    /\ Exists(t) /\ tok[t].docstatus = 1
    /\ \A b \in Bills : billToken[b] = t => billState[b] # "Submitted"
    /\ \E w \in {IF tok[t].status \in TERMINAL_STATUSES THEN NoWrite ELSE Only(t, "Cancelled")} :
          tok' = [After(w) EXCEPT ![t].docstatus = 2]
    /\ UNCHANGED <<now, billVars>>

-----------------------------------------------------------------------------
(* The scheduler                                                           *)

\* expire_old_tokens, hourly
Expire(r) ==
    {AllTo(X, "Expired") :
        X \in Batches({t \in Tokens : /\ r[t].status \in EXPIRABLE_STATUSES
                                      /\ r[t].docstatus = 1 /\ r[t].due < now})}

\* recover_stale_pos_billing, every ten minutes, per counter with an
\* abandoned bill
Abandoned(r) == {t \in Tokens : r[t].status = "In Progress" /\ r[t].docstatus = 1 /\ r[t].idle}
Recover(r, c) ==
    {Then(AllTo(X, "Waiting"), w) :
        X \in {{t \in B : r[t].counter = c} : B \in Batches(Abandoned(r))} \ {{}},
        w \in ReleaseHeld(r, c, None)}

\* auto_close_pending_tokens_at_eod: who waited is Cancelled, who was being
\* served is Dropped.
EodStatusRejected(s) == IF s \in QUEUE_STATUSES THEN "Rejected" ELSE "Dropped"
EodStatus(s) == IF s \in QUEUE_STATUSES THEN "Cancelled" ELSE "Dropped"
PENDING_STATUSESNotServing == {"Waiting", "Hold", "Engaged"}
PENDING_STATUSES == {"Waiting", "Hold", "Engaged", "In Progress"}
AtEod(r) ==
    {t \in Tokens : /\ r[t].docstatus > 0 /\ r[t].status \in PENDING_STATUSES
                    /\ r[t].inPerson /\ r[t].due <= now}
EndOfDay(r) ==
    {[t \in X |-> EodStatus(r[t].status)] : X \in Batches(AtEod(r)) \ {{}}}

Job(writes) ==
    /\ \E w \in writes : tok' = After(w) /\ DOMAIN w # {}
    /\ UNCHANGED <<now, billVars>>

ExpireOldTokens == Job(Expire(tok))
RecoverStaleBilling(c) == Job(Recover(tok, c))
AutoCloseAtEod == Job(EndOfDay(tok))

\* Time passes; a bill nobody touched becomes idle.
Tick ==
    /\ now < MaxTime
    /\ now' = now + 1
    /\ tok' = [t \in Tokens |-> [tok[t] EXCEPT !.idle = tok[t].status = "In Progress"]]
    /\ UNCHANGED billVars

-----------------------------------------------------------------------------

\* What the till screens and the scheduler do, but for log_counter_walkin.
TillNext ==
    \/ Tick
    \/ ExpireOldTokens
    \/ AutoCloseAtEod
    \/ \E c \in Counters : RecoverStaleBilling(c)
    \/ \E t \in Tokens, c \in Counters : TakeToken(t, c) \/ QuickWalkin(t, c)
    \/ \E t \in Tokens :
          \/ StartPosBilling(t)
          \/ \E revert \in BOOLEAN : ReleasePosBilling(t, revert)
          \/ ConvertToPrebooking(t)
          \/ EngageToken(t)
          \/ CancelToken(t)
          \/ DropToken(t)
          \/ LinkServiceRequest(t)
          \/ CancelDocument(t)
    \/ \E b \in Bills, t \in Tokens : SubmitBill(b, t)
    \/ \E b \in Bills, t \in Tokens, c \in Counters : SubmitBillWithoutToken(b, t, c)
    \/ \E b \in Bills : CancelBill(b)

Next ==
    \/ TillNext
    \/ \E t \in Tokens, c \in Counters : \E inPerson \in BOOLEAN : LogCounterWalkin(t, c, inPerson)
    \/ \E t \in Tokens :
          \/ AssignToken(t)
          \/ StartToken(t)
          \/ CompleteToken(t)
          \/ ConvertToGofix(t)

TillSpec == Init /\ [][TillNext]_vars
Spec == Init /\ [][Next]_vars

\* The clock runs and the end-of-day job is scheduled for ever; nothing is
\* assumed of people.
FairSpec == Spec /\ WF_vars(Tick) /\ WF_vars(AutoCloseAtEod)

=============================================================================
