----------------------------- MODULE TokenRaces -----------------------------
(***************************************************************************)
(* The queue of TokenQueue when requests overlap.  A request decides what  *)
(* to write on the snapshot its transaction reads (MariaDB's default,      *)
(* REPEATABLE READ) and the write, an UPDATE by token name that does not   *)
(* test the status again, takes effect when it commits.  The named lock    *)
(* of _with_pos_profile_lock orders nothing here: the transaction has read *)
(* before it asks for the lock, and the lock is given back before the      *)
(* commit.                                                                 *)
(***************************************************************************)
EXTENDS TokenQueueProps

CONSTANTS Requests, ExpireJob, RecoverJob   \* web workers, the two jobs

Workers == Requests \cup {ExpireJob, RecoverJob}

VARIABLES
    plan,    \* worker -> the writes it decided on, NoWrite when it is free
    planned  \* worker -> the bill it submits or cancels with them

raceVars == <<vars, plan, planned>>

Free(p) == plan[p] = NoWrite

RaceTypeOK ==
    /\ TypeOK
    /\ \A p \in Workers : /\ DOMAIN plan[p] \subseteq Tokens
                          /\ \A t \in DOMAIN plan[p] : plan[p][t] \in Statuses
    /\ planned \in [Workers -> Bills \cup {None}]

RaceInit ==
    /\ Init
    /\ plan = [p \in Workers |-> NoWrite]
    /\ planned = [p \in Workers |-> None]

\* The request reads and decides.
Decide(p, writes, b) ==
    /\ Free(p)
    /\ \E w \in writes \ {NoWrite} : plan' = [plan EXCEPT ![p] = w]
    /\ planned' = [planned EXCEPT ![p] = b]
    /\ UNCHANGED vars

DecideClaim(p, t) == Exists(t) /\ Decide(p, Claim(tok, t), None)
DecideRelease(p, t) == Exists(t) /\ Decide(p, Release(tok, tok[t].counter, t, TRUE), None)
DecideDrop(p, t) ==
    Exists(t) /\ Decide(p, Unless(tok, t, {"Completed", "Cancelled", "Converted", "Dropped"}, "Dropped"), None)

\* A bill is in one request at a time: its document is locked by its save.
BillIsFree(b) == \A p \in Workers : planned[p] # b
DecideBill(p, b, t) ==
    /\ Exists(t) /\ billState[b] = "None" /\ BillIsFree(b)
    /\ Decide(p, EndVisit(tok, t, "Converted"), b)
DecideCancelBill(p, b) ==
    /\ billState[b] = "Submitted" /\ BillIsFree(b)
    /\ Decide(p, EndVisit(tok, billToken[b], "Expired"), b)

DecideExpire == Decide(ExpireJob, Expire(tok), None)
DecideRecover(c) == Decide(RecoverJob, Recover(tok, c), None)

\* The token whose visit a bill plan ends.
BilledToken(p) == CHOOSE t \in DOMAIN plan[p] : plan[p][t] \in {"Converted", "Expired"}

Commit(p) ==
    LET b == planned[p]
        t == BilledToken(p)
    IN  /\ ~Free(p)
        /\ \/ b = None /\ tok' = After(plan[p]) /\ UNCHANGED billVars
           \/ /\ b # None /\ billState[b] = "None"
              /\ tok' = [After(plan[p]) EXCEPT ![t].bill = b]
              /\ billState' = [billState EXCEPT ![b] = "Submitted"]
              /\ billToken' = [billToken EXCEPT ![b] = t]
           \/ /\ b # None /\ billState[b] = "Submitted"
              /\ tok' = [After(plan[p]) EXCEPT ![t] = DropLink(@)]
              /\ billState' = [billState EXCEPT ![b] = "Cancelled"]
              /\ UNCHANGED billToken
        /\ plan' = [plan EXCEPT ![p] = NoWrite]
        /\ planned' = [planned EXCEPT ![p] = None]
        /\ UNCHANGED now

\* Inserts read no other row, and the end-of-day job locks what it reads.
Atomic ==
    /\ \/ Tick
       \/ AutoCloseAtEod
       \/ \E t \in Tokens, c \in Counters : TakeToken(t, c)
    /\ UNCHANGED <<plan, planned>>

RaceNext ==
    \/ Atomic
    \/ \E p \in Workers : Commit(p)
    \/ DecideExpire
    \/ \E c \in Counters : DecideRecover(c)
    \/ \E p \in Requests, t \in Tokens :
          \/ DecideClaim(p, t)
          \/ DecideRelease(p, t)
          \/ DecideDrop(p, t)
          \/ \E b \in Bills : DecideBill(p, b, t)
    \/ \E p \in Requests, b \in Bills : DecideCancelBill(p, b)

RaceSpec == RaceInit /\ [][RaceNext]_raceVars

\* Requests finish, the clock runs, and the hourly job is run for ever.
RaceFairSpec ==
    /\ RaceSpec
    /\ WF_raceVars(Tick /\ UNCHANGED <<plan, planned>>)
    /\ \A p \in Workers : WF_raceVars(Commit(p))
    /\ WF_raceVars(DecideExpire)

-----------------------------------------------------------------------------
(* Properties                                                              *)

\* A request that parks a customer on Hold while the open bill is being
\* finished misses the release, and the release itself may fail; the customer
\* does not stay parked for ever, because the hourly job expires the token.
HeldDoesNotStick ==
    \A t \in Tokens :
        tok[t].status = "Hold" ~> tok[t].status # "Hold"

=============================================================================
