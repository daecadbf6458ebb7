------------------------- MODULE TokenQueue_proofs -------------------------
(***************************************************************************)
(* What the queue guarantees for every number of visits, counters and      *)
(* bills, every lifetime of a token and every batch size; at the end, with *)
(* any number of requests that overlap.                                    *)
(***************************************************************************)
EXTENDS TokenRaces, TLAPS

\* A write of statuses to some tokens, and one that starts no billing.
IsWrite(w) == DOMAIN w \subseteq Tokens /\ \A t \in DOMAIN w : w[t] \in Statuses
StartsNoBilling(w) == \A t \in DOMAIN w : w[t] # "In Progress"

\* A submitted bill belongs to a token.
BilledTokens == \A b \in Bills : billState[b] = "Submitted" => billToken[b] \in Tokens

\* The inductive invariants of all endpoints and of the till's own.
LinkInv == TypeOK /\ LinkedBillIsLive /\ BilledTokens
SlotInv == LinkInv /\ OneBillingSlot

-----------------------------------------------------------------------------
(* The write sets                                                          *)

LEMMA OnlyIs == ASSUME NEW t, NEW s
                PROVE  DOMAIN Only(t, s) = {t} /\ Only(t, s)[t] = s
  BY DEF Only

LEMMA ThenWrites ==
    ASSUME NEW w, NEW v, IsWrite(w), IsWrite(v)
    PROVE  /\ IsWrite(Then(w, v))
           /\ StartsNoBilling(w) /\ StartsNoBilling(v) => StartsNoBilling(Then(w, v))
  BY DEF IsWrite, StartsNoBilling, Then

LEMMA SimpleWrites ==
    ASSUME NEW t \in Tokens, NEW s \in Statuses, NEW S \in SUBSET Tokens
    PROVE  /\ IsWrite(Only(t, s)) /\ IsWrite(AllTo(S, s)) /\ IsWrite(NoWrite)
           /\ StartsNoBilling(NoWrite)
           /\ s # "In Progress" => StartsNoBilling(Only(t, s)) /\ StartsNoBilling(AllTo(S, s))
  BY DEF IsWrite, StartsNoBilling, Only, AllTo, NoWrite

\* Releasing held tokens writes only Waiting.
LEMMA ReleaseWrites ==
    ASSUME NEW r, NEW c, NEW t, NEW w \in ReleaseHeld(r, c, t)
    PROVE  IsWrite(w) /\ StartsNoBilling(w)
<1> PICK X \in Batches(Queued(r, c, "Hold") \ {t}) : w = AllTo(X, "Waiting")
  BY DEF ReleaseHeld
<1>1. X \in SUBSET Tokens
  BY DEF Batches, Queued
<1> QED
  BY <1>1 DEF IsWrite, StartsNoBilling, AllTo, Statuses, OPEN_STATUSES

\* A release that fails writes nothing.
LEMMA TriedReleaseWrites ==
    ASSUME NEW r, NEW c, NEW t, NEW w \in TryToReleaseHeld(r, c, t)
    PROVE  IsWrite(w) /\ StartsNoBilling(w)
  BY ReleaseWrites, SimpleWrites DEF TryToReleaseHeld, IsWrite, NoWrite, AllTo, StartsNoBilling

LEMMA EndVisitWrites ==
    ASSUME NEW t \in Tokens, NEW s \in TERMINAL_STATUSES, NEW w \in EndVisit(tok, t, s)
    PROVE  IsWrite(w) /\ StartsNoBilling(w)
<1> PICK v \in TryToReleaseHeld(tok, tok[t].counter, t) : w = Then(Only(t, s), v)
  BY DEF EndVisit
<1>1. s \in Statuses /\ s # "In Progress"
  BY DEF Statuses, TERMINAL_STATUSES
<1> QED
  BY <1>1, TriedReleaseWrites, SimpleWrites, ThenWrites

LEMMA ReleasePosWrites ==
    ASSUME NEW t \in Tokens, NEW revert \in BOOLEAN, NEW c, NEW w \in Release(tok, c, t, revert)
    PROVE  IsWrite(w) /\ StartsNoBilling(w)
<1> DEFINE first == IF revert /\ t # None /\ tok[t].status = "In Progress"
                    THEN Only(t, "Waiting") ELSE NoWrite
<1> PICK v \in ReleaseHeld(tok, c, None) : w = Then(first, v)
  BY DEF Release
<1>1. IsWrite(first) /\ StartsNoBilling(first)
  BY SimpleWrites DEF Statuses, OPEN_STATUSES
<1> QED
  BY <1>1, ReleaseWrites, ThenWrites

LEMMA UnlessWrites ==
    ASSUME NEW t \in Tokens, NEW S, NEW s \in Statuses, s # "In Progress",
           NEW w \in Unless(tok, t, S, s)
    PROVE  IsWrite(w) /\ StartsNoBilling(w)
  BY SimpleWrites DEF Unless

LEMMA JobWrites ==
    ASSUME NEW w,
           w \in Expire(tok) \/ w \in EndOfDay(tok) \/ \E c \in Counters : w \in Recover(tok, c)
    PROVE  IsWrite(w) /\ StartsNoBilling(w)
<1>1. CASE w \in Expire(tok)
  BY <1>1 DEF Expire, Batches, IsWrite, StartsNoBilling, AllTo, Statuses, TERMINAL_STATUSES
<1>2. CASE w \in EndOfDay(tok)
  <2>1. \A s : EodStatus(s) \in {"Cancelled", "Dropped"}
    BY DEF EodStatus
  <2>2. PICK X \in Batches(AtEod(tok)) : w = [t \in X |-> EodStatus(tok[t].status)]
    BY <1>2 DEF EndOfDay
  <2>3. X \subseteq Tokens
    BY DEF Batches, AtEod
  <2>4. DOMAIN w = X /\ \A t \in X : w[t] \in {"Cancelled", "Dropped"}
    BY <2>1, <2>2
  <2> QED
    BY <2>3, <2>4 DEF IsWrite, StartsNoBilling, Statuses, TERMINAL_STATUSES
<1>3. ASSUME NEW c \in Counters, w \in Recover(tok, c) PROVE IsWrite(w) /\ StartsNoBilling(w)
  <2>1. PICK X \in {{t \in B : tok[t].counter = c} : B \in Batches(Abandoned(tok))} \ {{}},
             v \in ReleaseHeld(tok, c, None) : w = Then(AllTo(X, "Waiting"), v)
    BY <1>3 DEF Recover
  <2>2. X \in SUBSET Tokens
    BY DEF Batches, Abandoned
  <2>3. IsWrite(AllTo(X, "Waiting")) /\ StartsNoBilling(AllTo(X, "Waiting"))
    BY <2>2 DEF IsWrite, StartsNoBilling, AllTo, Statuses, OPEN_STATUSES
  <2> QED
    BY <2>1, <2>3, ReleaseWrites, ThenWrites
<1> QED
  BY <1>1, <1>2, <1>3

-----------------------------------------------------------------------------
(* What a write does to the rows                                           *)

LEMMA AfterRows ==
    ASSUME TypeOK, NEW w, IsWrite(w)
    PROVE  /\ After(w) \in [Tokens -> Rows]
           /\ \A t \in Tokens :
                /\ After(w)[t].status = IF t \in DOMAIN w THEN w[t] ELSE tok[t].status
                /\ After(w)[t].docstatus = tok[t].docstatus
                /\ After(w)[t].counter = tok[t].counter
                /\ After(w)[t].bill = tok[t].bill
<1>1. ASSUME NEW row \in Rows, NEW s \in Statuses
      PROVE  /\ Written(row, s) \in Rows
             /\ Written(row, s).status = s
             /\ Written(row, s).docstatus = row.docstatus
             /\ Written(row, s).counter = row.counter
             /\ Written(row, s).bill = row.bill
  BY DEF Written, Rows
<1>2. ASSUME NEW t \in Tokens
      PROVE  /\ tok[t] \in Rows
             /\ After(w)[t] = IF t \in DOMAIN w THEN Written(tok[t], w[t]) ELSE tok[t]
             /\ t \in DOMAIN w => w[t] \in Statuses
  BY DEF TypeOK, After, IsWrite
<1>3. After(w) \in [Tokens -> Rows]
  BY <1>1, <1>2 DEF After
<1> QED
  BY <1>1, <1>2, <1>3

\* A step that only writes statuses keeps types and links.
LEMMA WriteKeepsLinks ==
    ASSUME LinkInv, NEW w, IsWrite(w), tok' = After(w), UNCHANGED <<now, billVars>>
    PROVE  LinkInv'
<1>1. TypeOK'
  BY AfterRows DEF LinkInv, TypeOK, billVars
<1>2. LinkedBillIsLive'
  BY AfterRows DEF LinkInv, LinkedBillIsLive, billVars
<1>3. BilledTokens'
  BY DEF LinkInv, BilledTokens, billVars
<1> QED
  BY <1>1, <1>2, <1>3 DEF LinkInv

-----------------------------------------------------------------------------
(* Links between tokens and bills                                          *)

LEMMA InitLinks == Init => LinkInv
<1> SUFFICES ASSUME Init PROVE LinkInv
  OBVIOUS
<1>1. (CHOOSE c \in Counters : TRUE) \in Counters
  BY TokenQueueAssumption
<1>2. Unused \in Rows
  BY <1>1 DEF Unused, Rows, Statuses
<1>3. TypeOK
  BY <1>2 DEF Init, TypeOK
<1>4. LinkedBillIsLive
  BY DEF Init, Unused, LinkedBillIsLive
<1>5. BilledTokens
  BY DEF Init, BilledTokens
<1> QED
  BY <1>3, <1>4, <1>5 DEF LinkInv

\* The bill-changing endpoints.
LEMMA SubmitLinks ==
    ASSUME LinkInv, NEW b \in Bills, NEW t \in Tokens, SubmitBill(b, t)
    PROVE  LinkInv'
<1> PICK w \in EndVisit(tok, t, "Converted") : tok' = [After(w) EXCEPT ![t].bill = b]
  BY DEF SubmitBill
<1>1. IsWrite(w)
  BY EndVisitWrites DEF TERMINAL_STATUSES
<1>2. /\ billState[b] = "None" /\ b # None
      /\ billState' = [billState EXCEPT ![b] = "Submitted"]
      /\ billToken' = [billToken EXCEPT ![b] = t]
      /\ now' = now
  BY TokenQueueAssumption DEF SubmitBill
<1>3. TypeOK /\ After(w) \in [Tokens -> Rows]
  BY <1>1, AfterRows DEF LinkInv
<1>4. tok' \in [Tokens -> Rows]
  BY <1>3 DEF Rows
<1>5. TypeOK'
  BY <1>2, <1>3, <1>4 DEF TypeOK
<1>6. ASSUME NEW x \in Tokens
      PROVE  tok'[x].bill = IF x = t THEN b ELSE tok[x].bill
  BY <1>1, <1>3, AfterRows DEF Rows
<1>7. LinkedBillIsLive'
  BY <1>2, <1>3, <1>6 DEF LinkInv, LinkedBillIsLive, TypeOK
<1>8. BilledTokens'
  BY <1>2, <1>3 DEF LinkInv, BilledTokens, TypeOK
<1> QED
  BY <1>5, <1>7, <1>8 DEF LinkInv

LEMMA SubmitNewLinks ==
    ASSUME LinkInv, NEW b \in Bills, NEW t \in Tokens, NEW c \in Counters,
           SubmitBillWithoutToken(b, t, c)
    PROVE  LinkInv'
<1> DEFINE row == [status |-> "Converted", docstatus |-> 0, counter |-> c, inPerson |-> TRUE,
                   due |-> now, idle |-> FALSE, bill |-> b]
<1> PICK w \in TryToReleaseHeld(tok, c, t) : tok' = [After(w) EXCEPT ![t] = row]
  BY DEF SubmitBillWithoutToken
<1>1. IsWrite(w)
  BY TriedReleaseWrites
<1>2. /\ billState[b] = "None" /\ b # None
      /\ billState' = [billState EXCEPT ![b] = "Submitted"]
      /\ billToken' = [billToken EXCEPT ![b] = t]
      /\ now' = now
  BY TokenQueueAssumption DEF SubmitBillWithoutToken
<1>3. TypeOK /\ After(w) \in [Tokens -> Rows]
  BY <1>1, AfterRows DEF LinkInv
<1>4. row \in Rows /\ row.bill = b
  BY <1>3 DEF Rows, TypeOK, Statuses, TERMINAL_STATUSES
<1> HIDE DEF row
<1>5. TypeOK'
  BY <1>2, <1>3, <1>4 DEF TypeOK
<1>6. ASSUME NEW x \in Tokens
      PROVE  tok'[x].bill = IF x = t THEN b ELSE tok[x].bill
  BY <1>1, <1>3, <1>4, AfterRows
<1>7. LinkedBillIsLive'
  BY <1>2, <1>3, <1>6 DEF LinkInv, LinkedBillIsLive, TypeOK
<1>8. BilledTokens'
  BY <1>2, <1>3 DEF LinkInv, BilledTokens, TypeOK
<1> QED
  BY <1>5, <1>7, <1>8 DEF LinkInv

LEMMA CancelLinks ==
    ASSUME LinkInv, NEW b \in Bills, CancelBill(b)
    PROVE  LinkInv'
<1> DEFINE t == billToken[b]
<1>0. t \in Tokens
  BY DEF LinkInv, BilledTokens, CancelBill
<1> PICK w \in EndVisit(tok, t, "Expired") : tok' = [After(w) EXCEPT ![t] = DropLink(@)]
  BY DEF CancelBill
<1>1. IsWrite(w)
  BY <1>0, EndVisitWrites DEF TERMINAL_STATUSES
<1>2. /\ billState' = [billState EXCEPT ![b] = "Cancelled"]
      /\ UNCHANGED <<now, billToken>>
  BY DEF CancelBill
<1>3. TypeOK /\ After(w) \in [Tokens -> Rows]
  BY <1>1, AfterRows DEF LinkInv
<1>4. ASSUME NEW row \in Rows PROVE DropLink(row) \in Rows /\ DropLink(row).bill = None
  BY DEF DropLink, Rows
<1>5. /\ tok' \in [Tokens -> Rows]
      /\ \A x \in Tokens : tok'[x].bill = IF x = t THEN None ELSE tok[x].bill
  <2>1. After(w)[t] \in Rows
    BY <1>0, <1>3
  <2>2. DropLink(After(w)[t]) \in Rows /\ DropLink(After(w)[t]).bill = None
    BY <1>4, <2>1
  <2>3. tok' = [After(w) EXCEPT ![t] = DropLink(After(w)[t])]
    OBVIOUS
  <2> QED
    BY <1>0, <1>1, <1>3, <2>2, <2>3, AfterRows
<1>6. TypeOK'
  BY <1>2, <1>3, <1>5 DEF TypeOK
<1>7. LinkedBillIsLive'
  BY <1>2, <1>3, <1>5 DEF LinkInv, LinkedBillIsLive, TypeOK
<1>8. BilledTokens'
  BY <1>2, <1>3 DEF LinkInv, BilledTokens, TypeOK
<1> QED
  BY <1>6, <1>7, <1>8 DEF LinkInv

\* A new visit has no bill.
LEMMA EnterLinks ==
    ASSUME LinkInv, NEW t \in Tokens, NEW c \in Counters, NEW s \in Statuses,
           NEW inPerson \in BOOLEAN, Enter(t, c, s, inPerson)
    PROVE  LinkInv'
<1> DEFINE row == [status |-> s, docstatus |-> 1, counter |-> c, inPerson |-> inPerson,
                   due |-> now + TTL, idle |-> FALSE, bill |-> None]
<1>1. tok' = [tok EXCEPT ![t] = row] /\ UNCHANGED <<now, billVars>>
  BY DEF Enter
<1>2. row \in Rows /\ row.bill = None
  BY TokenQueueAssumption DEF LinkInv, TypeOK, Rows
<1> HIDE DEF row
<1>3. TypeOK'
  BY <1>1, <1>2 DEF LinkInv, TypeOK, billVars
<1>4. LinkedBillIsLive'
  BY <1>1, <1>2 DEF LinkInv, TypeOK, LinkedBillIsLive, billVars
<1>5. BilledTokens'
  BY <1>1 DEF LinkInv, BilledTokens, billVars
<1> QED
  BY <1>3, <1>4, <1>5 DEF LinkInv

\* A request that writes statuses, and the document's own cancellation.
LEMMA RequestLinks ==
    ASSUME LinkInv, NEW t \in Tokens, NEW writes, Request(t, writes),
           \A w \in writes : IsWrite(w)
    PROVE  LinkInv'
<1> PICK w \in writes : tok' = After(w)
  BY DEF Request
<1> QED
  BY WriteKeepsLinks DEF Request

LEMMA CancelDocumentLinks ==
    ASSUME LinkInv, NEW t \in Tokens, CancelDocument(t)
    PROVE  LinkInv'
<1> PICK w \in {IF tok[t].status \in TERMINAL_STATUSES THEN NoWrite ELSE Only(t, "Cancelled")} :
       tok' = [After(w) EXCEPT ![t].docstatus = 2]
  BY DEF CancelDocument
<1>1. IsWrite(w)
  BY SimpleWrites DEF Statuses, TERMINAL_STATUSES
<1>2. TypeOK /\ After(w) \in [Tokens -> Rows] /\ UNCHANGED <<now, billVars>>
  BY <1>1, AfterRows DEF LinkInv, CancelDocument
<1>3. tok' \in [Tokens -> Rows]
  BY <1>2 DEF Rows
<1>4. ASSUME NEW x \in Tokens PROVE tok'[x].bill = tok[x].bill
  <2>1. tok'[x].bill = After(w)[x].bill
    BY <1>2 DEF Rows
  <2> QED
    BY <1>1, <1>2, <2>1, AfterRows
<1>5. TypeOK'
  BY <1>2, <1>3 DEF TypeOK, billVars
<1>6. LinkedBillIsLive'
  BY <1>2, <1>4 DEF LinkInv, LinkedBillIsLive, billVars
<1>7. BilledTokens'
  BY <1>2 DEF LinkInv, BilledTokens, billVars
<1> QED
  BY <1>5, <1>6, <1>7 DEF LinkInv

\* Time only marks idle bills.
LEMMA TickRows ==
    ASSUME TypeOK, Tick
    PROVE  /\ TypeOK'
           /\ \A t \in Tokens : /\ tok'[t].status = tok[t].status
                               /\ tok'[t].docstatus = tok[t].docstatus
                               /\ tok'[t].counter = tok[t].counter
                               /\ tok'[t].bill = tok[t].bill
<1>1. ASSUME NEW row \in Rows
      PROVE  LET later == [row EXCEPT !.idle = row.status = "In Progress"]
             IN  /\ later \in Rows
                 /\ later.status = row.status /\ later.docstatus = row.docstatus
                 /\ later.counter = row.counter /\ later.bill = row.bill
  BY DEF Rows
<1>2. ASSUME NEW t \in Tokens
      PROVE  /\ tok[t] \in Rows
             /\ tok'[t] = [tok[t] EXCEPT !.idle = tok[t].status = "In Progress"]
  BY DEF TypeOK, Tick
<1>3. tok' \in [Tokens -> Rows]
  BY <1>1, <1>2 DEF Tick
<1>4. now' \in Nat
  <2>1. now \in Nat
    BY DEF TypeOK
  <2>2. now' = now + 1
    BY DEF Tick
  <2> QED
    BY <2>1, <2>2
<1>5. UNCHANGED billVars
  BY DEF Tick
<1> QED
  BY <1>1, <1>2, <1>3, <1>4, <1>5 DEF TypeOK, billVars

LEMMA TickLinks == ASSUME LinkInv, Tick PROVE LinkInv'
<1>1. UNCHANGED billVars
  BY DEF Tick
<1>2. LinkedBillIsLive' /\ BilledTokens'
  BY <1>1, TickRows DEF LinkInv, LinkedBillIsLive, BilledTokens, billVars
<1> QED
  BY <1>2, TickRows DEF LinkInv

LEMMA JobLinks ==
    ASSUME LinkInv, ExpireOldTokens \/ AutoCloseAtEod \/ \E c \in Counters : RecoverStaleBilling(c)
    PROVE  LinkInv'
<1> PICK w : /\ \/ w \in Expire(tok) \/ w \in EndOfDay(tok)
                \/ \E c \in Counters : w \in Recover(tok, c)
             /\ tok' = After(w) /\ UNCHANGED <<now, billVars>>
  BY DEF ExpireOldTokens, AutoCloseAtEod, RecoverStaleBilling, Job
<1> QED
  BY JobWrites, WriteKeepsLinks

\* Every step of every endpoint and job keeps the links.
LEMMA NextLinks == ASSUME LinkInv, [Next]_vars PROVE LinkInv'
<1>1. CASE Tick
  BY <1>1, TickLinks
<1>2. CASE ExpireOldTokens \/ AutoCloseAtEod \/ \E c \in Counters : RecoverStaleBilling(c)
  BY <1>2, JobLinks
<1>3. ASSUME NEW t \in Tokens, NEW c \in Counters, TakeToken(t, c) \/ QuickWalkin(t, c)
      PROVE  LinkInv'
  <2>1. PICK s \in {"Waiting", "Engaged"} : Enter(t, c, s, TRUE)
    BY <1>3 DEF TakeToken, QuickWalkin
  <2> QED
    BY <2>1, EnterLinks DEF Statuses, OPEN_STATUSES
<1>4. ASSUME NEW t \in Tokens, NEW c \in Counters, NEW inPerson \in BOOLEAN,
             LogCounterWalkin(t, c, inPerson)
      PROVE  LinkInv'
  <2>1. PICK s \in {"Waiting", "In Progress"} : Enter(t, c, s, inPerson)
    BY <1>4 DEF LogCounterWalkin
  <2> QED
    BY <2>1, EnterLinks DEF Statuses, OPEN_STATUSES
<1>5. ASSUME NEW t \in Tokens,
             \/ StartPosBilling(t)
             \/ \E revert \in BOOLEAN : ReleasePosBilling(t, revert)
             \/ ConvertToPrebooking(t)
             \/ EngageToken(t) \/ CancelToken(t) \/ DropToken(t)
             \/ LinkServiceRequest(t) \/ AssignToken(t) \/ StartToken(t)
             \/ CompleteToken(t) \/ ConvertToGofix(t)
      PROVE  LinkInv'
  <2> DEFINE Writes(W) == \A w \in W : IsWrite(w)
  <2>1. Writes(Claim(tok, t))
    BY SimpleWrites DEF Claim, Statuses, OPEN_STATUSES
  <2>2. \A revert \in BOOLEAN : Writes(Release(tok, tok[t].counter, t, revert))
    BY ReleasePosWrites
  <2>3. Writes(IF tok[t].status \in TERMINAL_STATUSES THEN {} ELSE EndVisit(tok, t, "Converted"))
    BY EndVisitWrites DEF TERMINAL_STATUSES
  <2>4. \A S : \A s \in Statuses : Writes(Unless(tok, t, S, s))
    BY SimpleWrites DEF Unless
  <2>5. \A s \in Statuses : Writes({Only(t, s)})
    BY SimpleWrites
  <2>6. tok[t].status \in Statuses
    BY DEF LinkInv, TypeOK, Rows
  <2>7. \A W : Request(t, W) /\ Writes(W) => LinkInv'
    BY RequestLinks
  <2>8. {"Engaged", "Cancelled", "Dropped", "Converted", "In Progress", "Completed"}
           \subseteq Statuses
    BY DEF Statuses, OPEN_STATUSES, TERMINAL_STATUSES
  <2> HIDE DEF Writes
  <2>9. CASE StartPosBilling(t)
    BY <2>9, <2>1, <2>7 DEF StartPosBilling
  <2>10. CASE \E revert \in BOOLEAN : ReleasePosBilling(t, revert)
    BY <2>10, <2>2, <2>7 DEF ReleasePosBilling
  <2>11. CASE ConvertToPrebooking(t)
    BY <2>11, <2>3, <2>7 DEF ConvertToPrebooking
  <2>12. CASE EngageToken(t) \/ CancelToken(t) \/ DropToken(t)
              \/ LinkServiceRequest(t) \/ ConvertToGofix(t)
    BY <2>12, <2>4, <2>7, <2>8
       DEF EngageToken, CancelToken, DropToken, LinkServiceRequest, ConvertToGofix
  <2>13. CASE StartToken(t) \/ CompleteToken(t)
    BY <2>13, <2>5, <2>7, <2>8 DEF StartToken, CompleteToken
  <2>14. CASE AssignToken(t)
    BY <2>14, <2>5, <2>6, <2>7, <2>8 DEF AssignToken
  <2> QED
    BY <1>5, <2>9, <2>10, <2>11, <2>12, <2>13, <2>14
<1>6. ASSUME NEW t \in Tokens, CancelDocument(t) PROVE LinkInv'
  BY <1>6, CancelDocumentLinks
<1>7. ASSUME NEW b \in Bills, NEW t \in Tokens, SubmitBill(b, t) PROVE LinkInv'
  BY <1>7, SubmitLinks
<1>8. ASSUME NEW b \in Bills, NEW t \in Tokens, NEW c \in Counters, SubmitBillWithoutToken(b, t, c)
      PROVE  LinkInv'
  BY <1>8, SubmitNewLinks
<1>9. ASSUME NEW b \in Bills, CancelBill(b) PROVE LinkInv'
  BY <1>9, CancelLinks
<1>10. CASE UNCHANGED vars
  BY <1>10 DEF vars, billVars, LinkInv, TypeOK, LinkedBillIsLive, BilledTokens
<1> QED
  BY <1>1, <1>2, <1>3, <1>4, <1>5, <1>6, <1>7, <1>8, <1>9, <1>10 DEF Next, TillNext

\* The types of the queue, and that the bill a visit shows is a submitted
\* bill of that visit, whatever endpoints and jobs did before.
THEOREM Links == Spec => []LinkInv
  BY InitLinks, NextLinks, PTL DEF Spec

\* Visits and bills are what the endpoints, hooks and jobs can make of them.
THEOREM TokenTypes == Spec => []TypeOK
<1>1. LinkInv => TypeOK
  BY DEF LinkInv
<1> QED
  BY <1>1, Links, PTL

\* A visit never shows a cancelled bill or the bill of another visit.
THEOREM BillsAreLive == Spec => []LinkedBillIsLive
<1>1. LinkInv => LinkedBillIsLive
  BY DEF LinkInv
<1> QED
  BY <1>1, Links, PTL

-----------------------------------------------------------------------------
(* The billing slot of a counter, with the till's own endpoints            *)

Billing(row) == row.status = "In Progress" /\ row.docstatus = 1

\* A step after which only tokens are billed that were billed at the same
\* counter before.
NobodyStarts ==
    \A t \in Tokens : Billing(tok'[t]) => Billing(tok[t]) /\ tok'[t].counter = tok[t].counter

LEMMA NobodyStartsSlot == ASSUME OneBillingSlot, NobodyStarts PROVE OneBillingSlot'
<1> SUFFICES ASSUME NEW c \in Counters,
                    NEW s \in Queued(tok', c, "In Progress"), NEW t \in Queued(tok', c, "In Progress")
             PROVE  s = t
  BY DEF OneBillingSlot
<1>1. s \in Queued(tok, c, "In Progress") /\ t \in Queued(tok, c, "In Progress")
  BY DEF Queued, NobodyStarts, Billing
<1> QED
  BY <1>1 DEF OneBillingSlot

LEMMA WriteStartsNobody ==
    ASSUME TypeOK, NEW w, IsWrite(w), StartsNoBilling(w)
    PROVE  \A t \in Tokens : Billing(After(w)[t]) =>
              Billing(tok[t]) /\ After(w)[t].counter = tok[t].counter
<1> SUFFICES ASSUME NEW t \in Tokens, Billing(After(w)[t])
             PROVE  Billing(tok[t]) /\ After(w)[t].counter = tok[t].counter
  OBVIOUS
<1>1. CASE t \in DOMAIN w
  <2>1. After(w)[t].status = w[t]
    BY <1>1, AfterRows
  <2>2. w[t] # "In Progress"
    BY <1>1 DEF StartsNoBilling
  <2> QED
    BY <2>1, <2>2 DEF Billing
<1>2. CASE t \notin DOMAIN w
  <2>1. After(w)[t] = tok[t]
    BY <1>2 DEF After
  <2> QED
    BY <2>1
<1> QED
  BY <1>1, <1>2

LEMMA EnterStartsNobody ==
    ASSUME TypeOK, NEW t \in Tokens, NEW c \in Counters, TakeToken(t, c) \/ QuickWalkin(t, c)
    PROVE  NobodyStarts
<1>1. PICK s \in {"Waiting", "Engaged"} : Enter(t, c, s, TRUE)
  BY DEF TakeToken, QuickWalkin
<1>2. tok' = [tok EXCEPT ![t] = [status |-> s, docstatus |-> 1, counter |-> c, inPerson |-> TRUE,
                                 due |-> now + TTL, idle |-> FALSE, bill |-> None]]
  BY <1>1 DEF Enter
<1> QED
  BY <1>2 DEF NobodyStarts, Billing, TypeOK

\* start_pos_billing: the only endpoint of the till that starts a billing
\* does it when nobody else is billed there.
LEMMA ClaimSlot ==
    ASSUME TypeOK, OneBillingSlot, NEW t \in Tokens, StartPosBilling(t)
    PROVE  OneBillingSlot'
<1>1. PICK w \in Claim(tok, t) : tok' = After(w)
  BY DEF StartPosBilling, Request
<1>2. CASE w = Only(t, "Hold")
  <2>1. IsWrite(w) /\ StartsNoBilling(w)
    BY <1>2, SimpleWrites DEF Statuses, OPEN_STATUSES
  <2>2. NobodyStarts
    BY <1>1, <2>1, WriteStartsNobody DEF NobodyStarts
  <2> QED
    BY <2>2, NobodyStartsSlot
<1>3. CASE /\ w = Only(t, "In Progress")
           /\ Queued(tok, tok[t].counter, "In Progress") \ {t} = {}
  <2>1. IsWrite(w) /\ DOMAIN w = {t}
    BY <1>3, SimpleWrites, OnlyIs DEF Statuses, OPEN_STATUSES
  <2>2. \A x \in Tokens \ {t} : tok'[x] = tok[x]
    BY <1>1, <2>1 DEF After
  <2>3. tok'[t].counter = tok[t].counter
    BY <1>1, <2>1, AfterRows
  <2> SUFFICES ASSUME NEW c \in Counters, NEW x \in Queued(tok', c, "In Progress"),
                      NEW y \in Queued(tok', c, "In Progress")
               PROVE  x = y
    BY DEF OneBillingSlot
  <2>4. \A z \in Queued(tok', c, "In Progress") \ {t} : z \in Queued(tok, c, "In Progress")
    BY <2>2 DEF Queued
  <2>5. CASE c = tok[t].counter
    <3>1. Queued(tok, c, "In Progress") \ {t} = {}
      BY <1>3, <2>5
    <3>2. \A z \in Queued(tok', c, "In Progress") : z = t
      BY <2>4, <3>1
    <3> QED
      BY <3>2
  <2>6. CASE c # tok[t].counter
    <3>1. t \notin Queued(tok', c, "In Progress")
      BY <2>3, <2>6 DEF Queued
    <3> QED
      BY <2>4, <3>1 DEF OneBillingSlot
  <2> QED
    BY <2>5, <2>6
<1> QED
  BY <1>1, <1>2, <1>3 DEF Claim

\* What every other endpoint writes starts no billing.
LEMMA RequestStartsNobody ==
    ASSUME TypeOK, NEW t \in Tokens, NEW writes, Request(t, writes),
           \A w \in writes : IsWrite(w) /\ StartsNoBilling(w)
    PROVE  NobodyStarts
<1> PICK w \in writes : tok' = After(w)
  BY DEF Request
<1> QED
  BY WriteStartsNobody DEF NobodyStarts

LEMMA EndpointStartsNobody ==
    ASSUME TypeOK, NEW t \in Tokens,
           \/ \E revert \in BOOLEAN : ReleasePosBilling(t, revert)
           \/ ConvertToPrebooking(t)
           \/ EngageToken(t) \/ CancelToken(t) \/ DropToken(t) \/ LinkServiceRequest(t)
    PROVE  NobodyStarts
<1> DEFINE Writes(W) == \A w \in W : IsWrite(w) /\ StartsNoBilling(w)
<1>1. \A revert \in BOOLEAN : Writes(Release(tok, tok[t].counter, t, revert))
  BY ReleasePosWrites
<1>2. Writes(IF tok[t].status \in TERMINAL_STATUSES THEN {} ELSE EndVisit(tok, t, "Converted"))
  BY EndVisitWrites DEF TERMINAL_STATUSES
<1>3. \A S : \A s \in {"Engaged", "Cancelled", "Dropped", "Converted"} : Writes(Unless(tok, t, S, s))
  BY UnlessWrites DEF Statuses, OPEN_STATUSES, TERMINAL_STATUSES
<1>4. \A W : Request(t, W) /\ Writes(W) => NobodyStarts
  BY RequestStartsNobody
<1> HIDE DEF Writes
<1>5. CASE \E revert \in BOOLEAN : ReleasePosBilling(t, revert)
  BY <1>5, <1>1, <1>4 DEF ReleasePosBilling
<1>6. CASE ConvertToPrebooking(t)
  BY <1>6, <1>2, <1>4 DEF ConvertToPrebooking
<1>7. CASE EngageToken(t) \/ CancelToken(t) \/ DropToken(t) \/ LinkServiceRequest(t)
  BY <1>7, <1>3, <1>4 DEF EngageToken, CancelToken, DropToken, LinkServiceRequest
<1> QED
  BY <1>5, <1>6, <1>7

LEMMA CancelDocumentStartsNobody ==
    ASSUME TypeOK, NEW t \in Tokens, CancelDocument(t)
    PROVE  NobodyStarts
<1> PICK w \in {IF tok[t].status \in TERMINAL_STATUSES THEN NoWrite ELSE Only(t, "Cancelled")} :
       tok' = [After(w) EXCEPT ![t].docstatus = 2]
  BY DEF CancelDocument
<1>1. IsWrite(w) /\ StartsNoBilling(w)
  BY SimpleWrites DEF Statuses, TERMINAL_STATUSES
<1>2. After(w) \in [Tokens -> Rows]
  BY <1>1, AfterRows
<1>3. ~Billing(tok'[t])
  BY <1>2 DEF Billing, Rows
<1>4. \A x \in Tokens \ {t} : tok'[x] = After(w)[x]
  BY <1>2
<1> QED
  BY <1>1, <1>3, <1>4, WriteStartsNobody DEF NobodyStarts

\* A bill ends one visit and starts none.
LEMMA BillStartsNobody ==
    ASSUME LinkInv, NEW b \in Bills,
           \/ \E t \in Tokens : SubmitBill(b, t)
           \/ \E t \in Tokens, c \in Counters : SubmitBillWithoutToken(b, t, c)
           \/ CancelBill(b)
    PROVE  NobodyStarts
<1> TypeOK
  BY DEF LinkInv
<1>1. ASSUME NEW t \in Tokens, SubmitBill(b, t) PROVE NobodyStarts
  <2> PICK w \in EndVisit(tok, t, "Converted") : tok' = [After(w) EXCEPT ![t].bill = b]
    BY <1>1 DEF SubmitBill
  <2>1. IsWrite(w) /\ StartsNoBilling(w)
    BY EndVisitWrites DEF TERMINAL_STATUSES
  <2>2. After(w) \in [Tokens -> Rows]
    BY <2>1, AfterRows
  <2>3. \A x \in Tokens : /\ Billing(tok'[x]) => Billing(After(w)[x])
                          /\ tok'[x].counter = After(w)[x].counter
    BY <2>2 DEF Billing, Rows
  <2> QED
    BY <2>1, <2>3, WriteStartsNobody DEF NobodyStarts
<1>2. ASSUME NEW t \in Tokens, NEW c \in Counters, SubmitBillWithoutToken(b, t, c)
      PROVE  NobodyStarts
  <2> PICK w \in TryToReleaseHeld(tok, c, t) :
         tok' = [After(w) EXCEPT ![t] =
                   [status |-> "Converted", docstatus |-> 0, counter |-> c, inPerson |-> TRUE,
                    due |-> now, idle |-> FALSE, bill |-> b]]
    BY <1>2 DEF SubmitBillWithoutToken
  <2>1. IsWrite(w) /\ StartsNoBilling(w)
    BY TriedReleaseWrites
  <2>2. After(w) \in [Tokens -> Rows]
    BY <2>1, AfterRows
  <2>3. ~Billing(tok'[t]) /\ \A x \in Tokens \ {t} : tok'[x] = After(w)[x]
    BY <2>2 DEF Billing
  <2> QED
    BY <2>1, <2>3, WriteStartsNobody DEF NobodyStarts
<1>3. CASE CancelBill(b)
  <2> DEFINE t == billToken[b]
  <2>1. t \in Tokens
    BY <1>3 DEF CancelBill, LinkInv, BilledTokens
  <2> PICK w \in EndVisit(tok, t, "Expired") :
         tok' = [After(w) EXCEPT ![t] = DropLink(After(w)[t])]
    BY <1>3 DEF CancelBill
  <2>2. IsWrite(w) /\ StartsNoBilling(w)
    BY <2>1, EndVisitWrites DEF TERMINAL_STATUSES
  <2>3. After(w) \in [Tokens -> Rows]
    BY <2>2, AfterRows
  <2>4. ASSUME NEW row \in Rows
        PROVE  /\ Billing(DropLink(row)) => Billing(row)
               /\ DropLink(row).counter = row.counter
    BY DEF DropLink, Rows, Billing
  <2>5. \A x \in Tokens : After(w)[x] \in Rows
    BY <2>3
  <2>6. \A x \in Tokens : tok'[x] = IF x = t THEN DropLink(After(w)[x]) ELSE After(w)[x]
    BY <2>3
  <2>7. \A x \in Tokens : /\ Billing(tok'[x]) => Billing(After(w)[x])
                          /\ tok'[x].counter = After(w)[x].counter
    BY <2>4, <2>5, <2>6
  <2> QED
    BY <2>2, <2>7, WriteStartsNobody DEF NobodyStarts
<1> QED
  BY <1>1, <1>2, <1>3

LEMMA TimeStartsNobody ==
    ASSUME TypeOK,
           \/ Tick \/ ExpireOldTokens \/ AutoCloseAtEod
           \/ \E c \in Counters : RecoverStaleBilling(c)
    PROVE  NobodyStarts
<1>1. CASE Tick
  BY <1>1, TickRows DEF NobodyStarts, Billing
<1>2. CASE ExpireOldTokens \/ AutoCloseAtEod \/ \E c \in Counters : RecoverStaleBilling(c)
  <2> PICK w : /\ \/ w \in Expire(tok) \/ w \in EndOfDay(tok)
                  \/ \E c \in Counters : w \in Recover(tok, c)
               /\ tok' = After(w)
    BY <1>2 DEF ExpireOldTokens, AutoCloseAtEod, RecoverStaleBilling, Job
  <2> QED
    BY JobWrites, WriteStartsNobody DEF NobodyStarts
<1> QED
  BY <1>1, <1>2

LEMMA InitSlot == Init => SlotInv
<1> SUFFICES ASSUME Init PROVE OneBillingSlot
  BY InitLinks DEF SlotInv
<1> QED
  BY DEF Init, Unused, OneBillingSlot, Queued

\* What the till and the jobs do, but for a claim, starts nobody's billing.
LEMMA OnlyClaimsStart ==
    ASSUME LinkInv, [TillNext]_vars, \A t \in Tokens : ~StartPosBilling(t)
    PROVE  NobodyStarts
<1> TypeOK
  BY DEF LinkInv
<1>1. CASE UNCHANGED vars
  <2>1. tok' = tok
    BY <1>1 DEF vars
  <2> QED
    BY <2>1 DEF NobodyStarts
<1>2. CASE Tick \/ ExpireOldTokens \/ AutoCloseAtEod \/ \E c \in Counters : RecoverStaleBilling(c)
  BY <1>2, TimeStartsNobody
<1>3. CASE \E t \in Tokens, c \in Counters : TakeToken(t, c) \/ QuickWalkin(t, c)
  BY <1>3, EnterStartsNobody
<1>4. ASSUME NEW t \in Tokens,
             \/ \E revert \in BOOLEAN : ReleasePosBilling(t, revert)
             \/ ConvertToPrebooking(t) \/ EngageToken(t) \/ CancelToken(t) \/ DropToken(t)
             \/ LinkServiceRequest(t)
      PROVE  NobodyStarts
  BY <1>4, EndpointStartsNobody
<1>5. ASSUME NEW t \in Tokens, CancelDocument(t) PROVE NobodyStarts
  BY <1>5, CancelDocumentStartsNobody
<1>6. ASSUME NEW b \in Bills,
             \/ \E t \in Tokens : SubmitBill(b, t)
             \/ \E t \in Tokens, c \in Counters : SubmitBillWithoutToken(b, t, c)
             \/ CancelBill(b)
      PROVE  NobodyStarts
  BY <1>6, BillStartsNobody
<1> QED
  BY <1>1, <1>2, <1>3, <1>4, <1>5, <1>6 DEF TillNext

LEMMA TillNextSlot == ASSUME SlotInv, [TillNext]_vars PROVE SlotInv'
<1>1. LinkInv'
  BY NextLinks DEF SlotInv, Next
<1> TypeOK /\ LinkInv /\ OneBillingSlot
  BY DEF SlotInv, LinkInv
<1>2. CASE \E t \in Tokens : StartPosBilling(t)
  BY <1>1, <1>2, ClaimSlot DEF SlotInv
<1>3. CASE \A t \in Tokens : ~StartPosBilling(t)
  BY <1>1, <1>3, OnlyClaimsStart, NobodyStartsSlot DEF SlotInv
<1> QED
  BY <1>2, <1>3

\* One customer at a time is billed at a counter as long as its staff use the
\* till's endpoints (and not log_counter_walkin or the queue board, which
\* take the slot without asking).
THEOREM SlotIsExclusive == TillSpec => []OneBillingSlot
<1>1. SlotInv => OneBillingSlot
  BY DEF SlotInv
<1> QED
  BY <1>1, InitSlot, TillNextSlot, PTL DEF TillSpec

-----------------------------------------------------------------------------
(* The swap of the till                                                    *)

\* What a write leaves in the fields of which the counters speak.
LEMMA AfterFields ==
    ASSUME TypeOK, NEW w, IsWrite(w)
    PROVE  \A x \in Tokens : /\ After(w)[x].status = IF x \in DOMAIN w THEN w[x] ELSE tok[x].status
                             /\ After(w)[x].docstatus = tok[x].docstatus
                             /\ After(w)[x].counter = tok[x].counter
  BY AfterRows

\* One query of the release reads all that are on Hold at a counter.
HeldFitOneBatch ==
    \A c \in Counters :
        /\ IsFiniteSet(Queued(tok, c, "Hold"))
        /\ Cardinality(Queued(tok, c, "Hold")) <= Batch

\* The release of a billed token empties the slot and the Hold of its counter.
LEMMA SwapStep ==
    ASSUME SlotInv, HeldFitOneBatch, NEW t \in Tokens,
           tok[t].status = "In Progress", tok[t].docstatus = 1, ReleasePosBilling(t, TRUE),
           NEW s \in {"In Progress", "Hold"}
    PROVE  Queued(tok', tok[t].counter, s) = {}
<1> DEFINE c == tok[t].counter
<1> TypeOK /\ OneBillingSlot
  BY DEF SlotInv, LinkInv
<1>1. c \in Counters /\ t # None
  BY TokenQueueAssumption DEF TypeOK, Rows
<1>2. PICK w \in Release(tok, c, t, TRUE) : tok' = After(w)
  BY DEF ReleasePosBilling, Request
<1>3. PICK X \in Batches(Queued(tok, c, "Hold") \ {None}) :
         w = Then(Only(t, "Waiting"), AllTo(X, "Waiting"))
  BY <1>1, <1>2 DEF Release, ReleaseHeld
<1>4. X = Queued(tok, c, "Hold")
  <2>1. Queued(tok, c, "Hold") \ {None} = Queued(tok, c, "Hold")
    BY TokenQueueAssumption DEF Queued
  <2>2. Cardinality(Queued(tok, c, "Hold")) <= Batch
    BY <1>1 DEF HeldFitOneBatch
  <2> QED
    BY <1>3, <2>1, <2>2 DEF Batches
<1>5. DOMAIN w = {t} \cup X /\ \A x \in DOMAIN w : w[x] = "Waiting"
  BY <1>3 DEF Then, Only, AllTo
<1>6. IsWrite(w)
  BY <1>2, ReleasePosWrites
<1>7. \A x \in Tokens : /\ tok'[x].status = IF x \in DOMAIN w THEN w[x] ELSE tok[x].status
                        /\ tok'[x].docstatus = tok[x].docstatus
                        /\ tok'[x].counter = tok[x].counter
  <2>1. \A x \in Tokens : /\ After(w)[x].status = IF x \in DOMAIN w THEN w[x] ELSE tok[x].status
                          /\ After(w)[x].docstatus = tok[x].docstatus
                          /\ After(w)[x].counter = tok[x].counter
    BY <1>6, AfterFields
  <2> QED
    BY <1>2, <2>1
<1>8. ASSUME NEW x \in Queued(tok', c, s) PROVE FALSE
  <2>1. x \in Tokens /\ x \notin DOMAIN w
    BY <1>5, <1>7, <1>8 DEF Queued
  <2>2. x \in Queued(tok, c, s)
    BY <1>7, <1>8, <2>1 DEF Queued
  <2>3. t \in Queued(tok, c, "In Progress")
    BY DEF Queued
  <2> QED
    BY <1>1, <1>4, <1>5, <2>1, <2>2, <2>3 DEF OneBillingSlot
<1> QED
  BY <1>8

\* Releasing the open bill finds the counter free for the next claim,
\* SwapFreesTheCounter, as long as no more tokens are on Hold at a counter
\* than the release reads at once (scheduler_batch_limit, 500 by default).
THEOREM SwapsFreeTheCounter == TillSpec /\ []HeldFitOneBatch => SwapFreesTheCounter
<1>1. SlotInv /\ HeldFitOneBatch =>
        [\A t \in Tokens :
            (/\ tok[t].status = "In Progress" /\ tok[t].docstatus = 1
             /\ ReleasePosBilling(t, TRUE))
            => \A s \in {"In Progress", "Hold"} : Queued(tok', tok[t].counter, s) = {}]_vars
  BY SwapStep
<1> QED
  BY <1>1, InitSlot, TillNextSlot, PTL DEF TillSpec, SwapFreesTheCounter

-----------------------------------------------------------------------------
(* The till implements CounterSlot                                         *)

Ended(row) == row.status \in TERMINAL_STATUSES

\* No visit that is over moves on, in a write and in a step.
KeepsEnded(w) == \A t \in DOMAIN w : Ended(tok[t]) => w[t] \in TERMINAL_STATUSES
EndedStays == \A t \in Tokens : Ended(tok[t]) => Ended(tok'[t])

LEMMA OpenIsNotOver == /\ \A s \in OPEN_STATUSES : s \notin TERMINAL_STATUSES
                       /\ "None" \notin TERMINAL_STATUSES
  BY DEF OPEN_STATUSES, TERMINAL_STATUSES

LEMMA ThenKeepsEnded ==
    ASSUME NEW w, NEW v, KeepsEnded(w), KeepsEnded(v)
    PROVE  KeepsEnded(Then(w, v))
  BY DEF KeepsEnded, Then

LEMMA WriteKeepsEnded ==
    ASSUME TypeOK, NEW w, IsWrite(w), KeepsEnded(w)
    PROVE  \A t \in Tokens : Ended(tok[t]) => Ended(After(w)[t])
  BY AfterRows DEF KeepsEnded, Ended

\* What is written to one token that is open, or that ends it.
LEMMA OnlyKeepsEnded ==
    ASSUME NEW t, NEW s, ~Ended(tok[t]) \/ s \in TERMINAL_STATUSES
    PROVE  KeepsEnded(Only(t, s)) /\ KeepsEnded(NoWrite)
  BY DEF KeepsEnded, Only, NoWrite, AllTo

LEMMA ReleaseKeepsEnded ==
    ASSUME NEW c, NEW t, NEW w \in ReleaseHeld(tok, c, t)
    PROVE  KeepsEnded(w)
<1> PICK X \in Batches(Queued(tok, c, "Hold") \ {t}) : w = AllTo(X, "Waiting")
  BY DEF ReleaseHeld
<1>1. \A x \in X : tok[x].status = "Hold"
  BY DEF Batches, Queued
<1>2. \A x \in X : ~Ended(tok[x])
  BY <1>1, OpenIsNotOver DEF Ended, OPEN_STATUSES
<1> QED
  BY <1>2 DEF KeepsEnded, AllTo

LEMMA TriedReleaseKeepsEnded ==
    ASSUME NEW c, NEW t, NEW w \in TryToReleaseHeld(tok, c, t)
    PROVE  KeepsEnded(w)
<1>1. KeepsEnded(NoWrite)
  BY DEF KeepsEnded, NoWrite, AllTo
<1> QED
  BY <1>1, ReleaseKeepsEnded DEF TryToReleaseHeld

LEMMA EndVisitKeepsEnded ==
    ASSUME NEW t \in Tokens, NEW s \in TERMINAL_STATUSES, NEW w \in EndVisit(tok, t, s)
    PROVE  KeepsEnded(w)
<1> PICK v \in TryToReleaseHeld(tok, tok[t].counter, t) : w = Then(Only(t, s), v)
  BY DEF EndVisit
<1> QED
  BY OnlyKeepsEnded, TriedReleaseKeepsEnded, ThenKeepsEnded

LEMMA ReleasePosKeepsEnded ==
    ASSUME NEW t \in Tokens, NEW revert \in BOOLEAN, NEW c, NEW w \in Release(tok, c, t, revert)
    PROVE  KeepsEnded(w)
<1> DEFINE first == IF revert /\ t # None /\ tok[t].status = "In Progress"
                    THEN Only(t, "Waiting") ELSE NoWrite
<1> PICK v \in ReleaseHeld(tok, c, None) : w = Then(first, v)
  BY DEF Release
<1>1. tok[t].status = "In Progress" => ~Ended(tok[t])
  BY OpenIsNotOver DEF Ended, OPEN_STATUSES
<1>2. KeepsEnded(NoWrite)
  BY DEF KeepsEnded, NoWrite, AllTo
<1>3. KeepsEnded(first)
  BY <1>1, <1>2, OnlyKeepsEnded
<1> QED
  BY <1>3, ReleaseKeepsEnded, ThenKeepsEnded

LEMMA ClaimKeepsEnded ==
    ASSUME NEW t \in Tokens, NEW w \in Claim(tok, t)
    PROVE  /\ ~Ended(tok[t]) /\ IsWrite(w) /\ KeepsEnded(w)
           /\ \/ w = Only(t, "Hold")
              \/ w = Only(t, "In Progress") /\ Queued(tok, tok[t].counter, "In Progress") \ {t} = {}
<1>1. ~Ended(tok[t])
  BY DEF Claim, Ended
<1>2. \/ w = Only(t, "Hold")
      \/ w = Only(t, "In Progress") /\ Queued(tok, tok[t].counter, "In Progress") \ {t} = {}
  BY DEF Claim
<1>3. IsWrite(w)
  BY <1>2, SimpleWrites DEF Statuses, OPEN_STATUSES
<1> QED
  BY <1>1, <1>2, <1>3, OnlyKeepsEnded

LEMMA JobKeepsEnded ==
    ASSUME NEW w,
           w \in Expire(tok) \/ w \in EndOfDay(tok) \/ \E c \in Counters : w \in Recover(tok, c)
    PROVE  KeepsEnded(w)
<1>1. CASE w \in Expire(tok)
  <2>1. PICK X : w = AllTo(X, "Expired")
    BY <1>1 DEF Expire
  <2> QED
    BY <2>1 DEF KeepsEnded, AllTo, TERMINAL_STATUSES
<1>2. CASE w \in EndOfDay(tok)
  <2>1. \A s : EodStatus(s) \in TERMINAL_STATUSES
    BY DEF EodStatus, TERMINAL_STATUSES
  <2>2. PICK X : w = [t \in X |-> EodStatus(tok[t].status)]
    BY <1>2 DEF EndOfDay
  <2> QED
    BY <2>1, <2>2 DEF KeepsEnded
<1>3. ASSUME NEW c \in Counters, w \in Recover(tok, c) PROVE KeepsEnded(w)
  <2>1. PICK X \in {{t \in B : tok[t].counter = c} : B \in Batches(Abandoned(tok))} \ {{}},
             v \in ReleaseHeld(tok, c, None) : w = Then(AllTo(X, "Waiting"), v)
    BY <1>3 DEF Recover
  <2>2. X \subseteq Abandoned(tok)
    BY <2>1 DEF Batches
  <2>3. \A x \in X : tok[x].status = "In Progress"
    BY <2>2 DEF Abandoned
  <2>4. \A x \in X : ~Ended(tok[x])
    BY <2>3, OpenIsNotOver DEF Ended, OPEN_STATUSES
  <2>5. KeepsEnded(AllTo(X, "Waiting"))
    BY <2>4 DEF KeepsEnded, AllTo
  <2> QED
    BY <2>1, <2>5, ReleaseKeepsEnded, ThenKeepsEnded
<1> QED
  BY <1>1, <1>2, <1>3

LEMMA RequestKeepsEnded ==
    ASSUME TypeOK, NEW t \in Tokens, NEW writes, Request(t, writes),
           \A w \in writes : IsWrite(w) /\ KeepsEnded(w)
    PROVE  EndedStays
<1> PICK w \in writes : tok' = After(w)
  BY DEF Request
<1> QED
  BY WriteKeepsEnded DEF EndedStays

\* The board's writes: it refuses who is over, or ends the visit.
LEMMA UnlessKeepsEnded ==
    ASSUME NEW t \in Tokens, NEW S, NEW s,
           s \in TERMINAL_STATUSES \/ TERMINAL_STATUSES \subseteq S,
           NEW w \in Unless(tok, t, S, s)
    PROVE  KeepsEnded(w)
<1>1. w = Only(t, s) /\ tok[t].status \notin S
  BY DEF Unless
<1>2. ~Ended(tok[t]) \/ s \in TERMINAL_STATUSES
  BY <1>1 DEF Ended
<1> QED
  BY <1>1, <1>2, OnlyKeepsEnded

LEMMA BoardKeepsEnded ==
    ASSUME NEW t \in Tokens, NEW S, NEW s,
           \/ s \in {"Cancelled", "Dropped", "Converted"}
           \/ s = "Engaged" /\ S = Statuses \ {"Waiting"},
           NEW w \in Unless(tok, t, S, s)
    PROVE  IsWrite(w) /\ KeepsEnded(w)
<1>1. CASE s \in {"Cancelled", "Dropped", "Converted"}
  <2>1. s \in TERMINAL_STATUSES
    BY <1>1 DEF TERMINAL_STATUSES
  <2>2. s \in Statuses /\ s # "In Progress"
    BY <1>1 DEF Statuses, TERMINAL_STATUSES
  <2> QED
    BY <2>1, <2>2, UnlessKeepsEnded, UnlessWrites
<1>2. CASE s = "Engaged" /\ S = Statuses \ {"Waiting"}
  <2>1. TERMINAL_STATUSES \subseteq S
    BY <1>2 DEF Statuses, TERMINAL_STATUSES
  <2>2. s \in Statuses /\ s # "In Progress"
    BY <1>2 DEF Statuses, OPEN_STATUSES
  <2> QED
    BY <2>1, <2>2, UnlessKeepsEnded, UnlessWrites
<1> QED
  BY <1>1, <1>2

LEMMA EndpointKeepsEnded ==
    ASSUME TypeOK, NEW t \in Tokens,
           \/ StartPosBilling(t)
           \/ \E revert \in BOOLEAN : ReleasePosBilling(t, revert)
           \/ ConvertToPrebooking(t)
           \/ EngageToken(t) \/ CancelToken(t) \/ DropToken(t) \/ LinkServiceRequest(t)
    PROVE  EndedStays
<1> DEFINE Keeps(W) == \A w \in W : IsWrite(w) /\ KeepsEnded(w)
<1>1. Keeps(Claim(tok, t))
  BY ClaimKeepsEnded
<1>2. \A revert \in BOOLEAN : Keeps(Release(tok, tok[t].counter, t, revert))
  BY ReleasePosWrites, ReleasePosKeepsEnded
<1>3. Keeps(IF tok[t].status \in TERMINAL_STATUSES THEN {} ELSE EndVisit(tok, t, "Converted"))
  <2>1. "Converted" \in TERMINAL_STATUSES
    BY DEF TERMINAL_STATUSES
  <2> QED
    BY <2>1, EndVisitWrites, EndVisitKeepsEnded
<1>4. \A S : \A s \in {"Cancelled", "Dropped", "Converted"} : Keeps(Unless(tok, t, S, s))
  BY BoardKeepsEnded
<1>5. Keeps(Unless(tok, t, Statuses \ {"Waiting"}, "Engaged"))
  BY BoardKeepsEnded
<1>6. \A W : Request(t, W) /\ Keeps(W) => EndedStays
  BY RequestKeepsEnded
<1> HIDE DEF Keeps
<1>7. CASE StartPosBilling(t)
  BY <1>7, <1>1, <1>6 DEF StartPosBilling
<1>8. CASE \E revert \in BOOLEAN : ReleasePosBilling(t, revert)
  BY <1>8, <1>2, <1>6 DEF ReleasePosBilling
<1>9. CASE ConvertToPrebooking(t)
  BY <1>9, <1>3, <1>6 DEF ConvertToPrebooking
<1>10. CASE EngageToken(t)
  BY <1>10, <1>5, <1>6 DEF EngageToken
<1>11. CASE CancelToken(t) \/ DropToken(t) \/ LinkServiceRequest(t)
  BY <1>11, <1>4, <1>6 DEF CancelToken, DropToken, LinkServiceRequest
<1> QED
  BY <1>7, <1>8, <1>9, <1>10, <1>11

\* A document that is cancelled keeps its status or gets Cancelled.
LEMMA CancelDocumentKeepsEnded ==
    ASSUME TypeOK, NEW t \in Tokens, CancelDocument(t)
    PROVE  EndedStays
<1> PICK w \in {IF tok[t].status \in TERMINAL_STATUSES THEN NoWrite ELSE Only(t, "Cancelled")} :
       tok' = [After(w) EXCEPT ![t].docstatus = 2]
  BY DEF CancelDocument
<1>1. "Cancelled" \in TERMINAL_STATUSES
  BY DEF TERMINAL_STATUSES
<1>2. IsWrite(w) /\ KeepsEnded(w)
  BY <1>1, SimpleWrites, OnlyKeepsEnded DEF Statuses
<1>3. After(w) \in [Tokens -> Rows]
  BY <1>2, AfterRows
<1>4. \A x \in Tokens : tok'[x].status = After(w)[x].status
  BY <1>3 DEF Rows
<1> QED
  BY <1>2, <1>4, WriteKeepsEnded DEF EndedStays, Ended

LEMMA BillKeepsEnded ==
    ASSUME LinkInv, NEW b \in Bills,
           \/ \E t \in Tokens : SubmitBill(b, t)
           \/ \E t \in Tokens, c \in Counters : SubmitBillWithoutToken(b, t, c)
           \/ CancelBill(b)
    PROVE  EndedStays
<1> TypeOK
  BY DEF LinkInv
<1>1. ASSUME NEW t \in Tokens, SubmitBill(b, t) PROVE EndedStays
  <2> PICK w \in EndVisit(tok, t, "Converted") : tok' = [After(w) EXCEPT ![t].bill = b]
    BY <1>1 DEF SubmitBill
  <2>1. "Converted" \in TERMINAL_STATUSES
    BY DEF TERMINAL_STATUSES
  <2>2. IsWrite(w) /\ KeepsEnded(w)
    BY <2>1, EndVisitWrites, EndVisitKeepsEnded
  <2>3. After(w) \in [Tokens -> Rows]
    BY <2>2, AfterRows
  <2>4. \A x \in Tokens : tok'[x].status = After(w)[x].status
    BY <2>3 DEF Rows
  <2> QED
    BY <2>2, <2>4, WriteKeepsEnded DEF EndedStays, Ended
<1>2. ASSUME NEW t \in Tokens, NEW c \in Counters, SubmitBillWithoutToken(b, t, c)
      PROVE  EndedStays
  <2> PICK w \in TryToReleaseHeld(tok, c, t) :
         tok' = [After(w) EXCEPT ![t] =
                   [status |-> "Converted", docstatus |-> 0, counter |-> c, inPerson |-> TRUE,
                    due |-> now, idle |-> FALSE, bill |-> b]]
    BY <1>2 DEF SubmitBillWithoutToken
  <2>1. IsWrite(w) /\ KeepsEnded(w)
    BY TriedReleaseWrites, TriedReleaseKeepsEnded
  <2>2. After(w) \in [Tokens -> Rows]
    BY <2>1, AfterRows
  <2>3. tok'[t].status = "Converted" /\ \A x \in Tokens \ {t} : tok'[x] = After(w)[x]
    BY <2>2
  <2>4. Ended(tok'[t])
    BY <2>3 DEF Ended, TERMINAL_STATUSES
  <2> QED
    BY <2>1, <2>3, <2>4, WriteKeepsEnded DEF EndedStays
<1>3. CASE CancelBill(b)
  <2> DEFINE t == billToken[b]
  <2>1. t \in Tokens
    BY <1>3 DEF CancelBill, LinkInv, BilledTokens
  <2> PICK w \in EndVisit(tok, t, "Expired") :
         tok' = [After(w) EXCEPT ![t] = DropLink(After(w)[t])]
    BY <1>3 DEF CancelBill
  <2>2. "Expired" \in TERMINAL_STATUSES
    BY DEF TERMINAL_STATUSES
  <2>3. IsWrite(w) /\ KeepsEnded(w)
    BY <2>1, <2>2, EndVisitWrites, EndVisitKeepsEnded
  <2>4. After(w) \in [Tokens -> Rows]
    BY <2>3, AfterRows
  <2>5. \A row \in Rows : Ended(row) => Ended(DropLink(row))
    BY DEF DropLink, Rows, Ended
  <2>6. \A x \in Tokens : tok'[x] = IF x = t THEN DropLink(After(w)[x]) ELSE After(w)[x]
    BY <2>4
  <2>7. \A x \in Tokens : Ended(After(w)[x]) => Ended(tok'[x])
    BY <2>4, <2>5, <2>6
  <2> QED
    BY <2>3, <2>7, WriteKeepsEnded DEF EndedStays
<1> QED
  BY <1>1, <1>2, <1>3

\* Time, the jobs and new visits.
LEMMA TimeKeepsEnded ==
    ASSUME TypeOK,
           \/ Tick \/ ExpireOldTokens \/ AutoCloseAtEod
           \/ \E c \in Counters : RecoverStaleBilling(c)
    PROVE  EndedStays
<1>1. CASE Tick
  BY <1>1, TickRows DEF EndedStays, Ended
<1>2. CASE ExpireOldTokens \/ AutoCloseAtEod \/ \E c \in Counters : RecoverStaleBilling(c)
  <2> PICK w : /\ \/ w \in Expire(tok) \/ w \in EndOfDay(tok)
                  \/ \E c \in Counters : w \in Recover(tok, c)
               /\ tok' = After(w)
    BY <1>2 DEF ExpireOldTokens, AutoCloseAtEod, RecoverStaleBilling, Job
  <2> QED
    BY JobWrites, JobKeepsEnded, WriteKeepsEnded DEF EndedStays
<1> QED
  BY <1>1, <1>2

LEMMA EnterKeepsEnded ==
    ASSUME TypeOK, NEW t \in Tokens, NEW c \in Counters, TakeToken(t, c) \/ QuickWalkin(t, c)
    PROVE  EndedStays
<1>1. PICK s \in {"Waiting", "Engaged"} : Enter(t, c, s, TRUE)
  BY DEF TakeToken, QuickWalkin
<1>2. tok[t].status = "None" /\ \A x \in Tokens \ {t} : tok'[x] = tok[x]
  BY <1>1 DEF Enter, Exists, TypeOK
<1>3. ~Ended(tok[t])
  BY <1>2, OpenIsNotOver DEF Ended
<1> QED
  BY <1>2, <1>3 DEF EndedStays

LEMMA VisitsStayEnded == ASSUME LinkInv, [TillNext]_vars PROVE EndedStays
<1> TypeOK
  BY DEF LinkInv
<1>1. CASE UNCHANGED vars
  <2>1. tok' = tok
    BY <1>1 DEF vars
  <2> QED
    BY <2>1 DEF EndedStays
<1>2. CASE Tick \/ ExpireOldTokens \/ AutoCloseAtEod \/ \E c \in Counters : RecoverStaleBilling(c)
  BY <1>2, TimeKeepsEnded
<1>3. CASE \E t \in Tokens, c \in Counters : TakeToken(t, c) \/ QuickWalkin(t, c)
  BY <1>3, EnterKeepsEnded
<1>4. ASSUME NEW t \in Tokens,
             \/ StartPosBilling(t)
             \/ \E revert \in BOOLEAN : ReleasePosBilling(t, revert)
             \/ ConvertToPrebooking(t) \/ EngageToken(t) \/ CancelToken(t) \/ DropToken(t)
             \/ LinkServiceRequest(t)
      PROVE  EndedStays
  BY <1>4, EndpointKeepsEnded
<1>5. ASSUME NEW t \in Tokens, CancelDocument(t) PROVE EndedStays
  BY <1>5, CancelDocumentKeepsEnded
<1>6. ASSUME NEW b \in Bills,
             \/ \E t \in Tokens : SubmitBill(b, t)
             \/ \E t \in Tokens, c \in Counters : SubmitBillWithoutToken(b, t, c)
             \/ CancelBill(b)
      PROVE  EndedStays
  BY <1>6, BillKeepsEnded
<1> QED
  BY <1>1, <1>2, <1>3, <1>4, <1>5, <1>6 DEF TillNext

\* Who holds a slot that at most one visit is in.
LEMMA HolderIs ==
    ASSUME NEW Q, None \notin Q, \A s, t \in Q : s = t
    PROVE  \/ Q = {} /\ Holder(Q) = None
           \/ Q = {Holder(Q)} /\ Holder(Q) # None
  BY DEF Holder

LEMMA InSlot ==
    ASSUME NEW r, NEW c, NEW t
    PROVE  t \in Queued(r, c, "In Progress") <=>
              t \in Tokens /\ Billing(r[t]) /\ r[t].counter = c
  BY DEF Queued, Billing

LEMMA BilledIsNotEnded == ASSUME NEW row, Billing(row) PROVE ~Ended(row)
<1>1. row.status \in OPEN_STATUSES
  BY DEF Billing, OPEN_STATUSES
<1> QED
  BY <1>1, OpenIsNotOver DEF Ended

\* A step that starts nobody's billing frees the slots it empties.
LEMMA NobodyStartsFrees ==
    ASSUME OneBillingSlot, OneBillingSlot', NobodyStarts, EndedStays
    PROVE  \E S \in SUBSET Counters : CS!Free(S)
<1> DEFINE Slot(c) == Queued(tok, c, "In Progress")
           Slot2(c) == Queued(tok', c, "In Progress")
           S == {c \in Counters : Slot2(c) = {}}
<1>1. \A c \in Counters : \A s, t \in Slot(c) : s = t
  BY DEF OneBillingSlot
<1>2. \A c \in Counters : \A s, t \in Slot2(c) : s = t
  BY DEF OneBillingSlot
<1>3. \A c : None \notin Slot(c) /\ None \notin Slot2(c)
  BY TokenQueueAssumption DEF Queued
<1>4. ASSUME NEW c, NEW t \in Slot2(c) PROVE t \in Slot(c)
  <2>1. t \in Tokens /\ Billing(tok'[t]) /\ tok'[t].counter = c
    BY <1>4, InSlot
  <2>2. Billing(tok[t]) /\ tok[t].counter = c
    BY <2>1 DEF NobodyStarts
  <2> QED
    BY <2>1, <2>2, InSlot
<1>5. \A c : \A t \in Slot2(c) : t \in Tokens /\ ~Ended(tok'[t])
  BY InSlot, BilledIsNotEnded
<1> HIDE DEF Slot, Slot2
<1>6. ASSUME NEW c \in Counters
      PROVE  /\ Holder(Slot2(c)) = IF c \in S THEN None ELSE Holder(Slot(c))
             /\ Holder(Slot2(c)) \notin {t \in Tokens : Ended(tok'[t])}
  <2>1. \/ Slot2(c) = {} /\ Holder(Slot2(c)) = None
        \/ Slot2(c) = {Holder(Slot2(c))} /\ Holder(Slot2(c)) # None
    BY <1>2, <1>3, HolderIs
  <2>2. \/ Slot(c) = {} /\ Holder(Slot(c)) = None
        \/ Slot(c) = {Holder(Slot(c))} /\ Holder(Slot(c)) # None
    BY <1>1, <1>3, HolderIs
  <2>3. None \notin Tokens
    BY TokenQueueAssumption
  <2> QED
    BY <1>4, <1>5, <2>1, <2>2, <2>3
<1>7. {t \in Tokens : Ended(tok[t])} \subseteq {t \in Tokens : Ended(tok'[t])}
  BY DEF EndedStays
<1>8. CS!Free(S)
  BY <1>6, <1>7 DEF CS!Free, Over, Ended, Slot, Slot2
<1> QED
  BY <1>8

\* A claim that gets the slot takes a free one, or had it.
LEMMA ClaimServes ==
    ASSUME TypeOK, OneBillingSlot, OneBillingSlot', NEW t \in Tokens, StartPosBilling(t)
    PROVE  CS!Next
<1> DEFINE Slot(d) == Queued(tok, d, "In Progress")
           Slot2(d) == Queued(tok', d, "In Progress")
           c == tok[t].counter
<1>1. PICK w \in Claim(tok, t) : tok' = After(w)
  BY DEF StartPosBilling, Request
<1>2. /\ ~Ended(tok[t]) /\ IsWrite(w) /\ KeepsEnded(w)
      /\ \/ w = Only(t, "Hold")
         \/ w = Only(t, "In Progress") /\ Queued(tok, c, "In Progress") \ {t} = {}
  BY ClaimKeepsEnded
<1>3. DOMAIN w = {t} /\ EndedStays /\ c \in Counters
  <2>1. DOMAIN w = {t}
    BY <1>2, OnlyIs
  <2>2. c \in Counters
    BY DEF TypeOK, Rows
  <2> QED
    BY <1>1, <1>2, <2>1, <2>2, WriteKeepsEnded DEF EndedStays
<1>4. tok'[t].counter = c /\ \A x \in Tokens \ {t} : tok'[x] = tok[x]
  BY <1>1, <1>2, <1>3, AfterRows DEF After
<1>5. Billing(tok'[t]) => Slot(c) \ {t} = {} /\ ~Ended(tok'[t])
  <2>1. Billing(tok'[t]) => w # Only(t, "Hold")
    <3>1. tok'[t].status = w[t]
      BY <1>1, <1>2, <1>3, AfterRows
    <3>2. Only(t, "Hold")[t] = "Hold"
      BY OnlyIs
    <3>3. "Hold" # "In Progress"
      OBVIOUS
    <3> QED
      BY <3>1, <3>2, <3>3 DEF Billing
  <2> QED
    BY <1>2, <2>1, BilledIsNotEnded
<1>6. CASE Billing(tok[t]) \/ ~Billing(tok'[t])
  <2>1. NobodyStarts
    BY <1>4, <1>6 DEF NobodyStarts
  <2> QED
    BY <1>3, <2>1, NobodyStartsFrees DEF CS!Next
<1>7. CASE ~Billing(tok[t]) /\ Billing(tok'[t])
  <2>1. t \notin Slot(c) /\ \A d : t \notin Slot(d)
    BY <1>7, InSlot
  <2>2. Slot(c) = {}
    BY <1>5, <1>7, <2>1
  <2>3. Slot2(c) = {t}
    <3>1. t \in Slot2(c)
      BY <1>4, <1>7, InSlot
    <3>2. \A x, y \in Slot2(c) : x = y
      BY <1>3 DEF OneBillingSlot
    <3> HIDE DEF Slot2
    <3> QED
      BY <3>1, <3>2
  <2>4. ASSUME NEW d, d # c PROVE Slot2(d) = Slot(d)
    <3>1. t \notin Slot2(d)
      <4>1. t \in Slot2(d) => tok'[t].counter = d
        BY InSlot
      <4> QED
        BY <1>4, <2>4, <4>1
    <3>2. \A x : x # t => (x \in Slot2(d) <=> x \in Slot(d))
      BY <1>4 DEF Queued
    <3> HIDE DEF Slot, Slot2
    <3> QED
      BY <2>1, <3>1, <3>2
  <2>5. Holder({}) = None /\ Holder({t}) = t
    BY DEF Holder
  <2>6. \A d \in Counters : Holder(Slot(d)) # t
    <3>1. t # None
      BY TokenQueueAssumption
    <3>2. \A d \in Counters : \/ Slot(d) = {} /\ Holder(Slot(d)) = None
                              \/ Slot(d) = {Holder(Slot(d))} /\ Holder(Slot(d)) # None
      <4>1. \A d : None \notin Slot(d)
        BY TokenQueueAssumption DEF Queued
      <4>2. \A d \in Counters : \A x, y \in Slot(d) : x = y
        BY DEF OneBillingSlot
      <4> QED
        BY <4>1, <4>2, HolderIs
    <3> QED
      BY <2>1, <3>1, <3>2
  <2>7. {x \in Tokens : Ended(tok'[x])} = {x \in Tokens : Ended(tok[x])}
    BY <1>2, <1>4, <1>5, <1>7
  <2> HIDE DEF Slot, Slot2, c
  <2>8. [d \in Counters |-> Holder(Slot2(d))]
           = [[d \in Counters |-> Holder(Slot(d))] EXCEPT ![c] = t]
    BY <1>3, <2>2, <2>3, <2>4, <2>5
  <2>9. /\ [d \in Counters |-> Holder(Slot(d))][c] = None
        /\ t \notin {x \in Tokens : Ended(tok[x])}
        /\ \A d \in Counters : [e \in Counters |-> Holder(Slot(e))][d] # t
    BY <1>2, <1>3, <2>2, <2>5, <2>6
  <2>10. CS!Serve(c, t)
    BY <2>7, <2>8, <2>9 DEF CS!Serve, Over, Ended, Slot, Slot2
  <2> QED
    BY <1>3, <2>10 DEF CS!Next
<1> QED
  BY <1>6, <1>7

LEMMA InitServesNobody == ASSUME Init PROVE CS!Init
<1>1. \A c : Queued(tok, c, "In Progress") = {}
  BY DEF Init, Unused, Queued
<1>2. Over = {}
  <2>1. \A t \in Tokens : tok[t].status = "None"
    BY DEF Init, Unused
  <2> QED
    BY <2>1, OpenIsNotOver DEF Over
<1>3. Holder({}) = None
  BY DEF Holder
<1> QED
  BY <1>1, <1>2, <1>3 DEF CS!Init

LEMMA TillStepServes == ASSUME SlotInv, [TillNext]_vars PROVE [CS!Next]_(CS!vars)
<1> LinkInv /\ TypeOK /\ OneBillingSlot
  BY DEF SlotInv, LinkInv
<1>1. OneBillingSlot'
  BY TillNextSlot DEF SlotInv
<1>2. EndedStays
  BY VisitsStayEnded
<1>3. CASE \E t \in Tokens : StartPosBilling(t)
  BY <1>1, <1>3, ClaimServes
<1>4. CASE \A t \in Tokens : ~StartPosBilling(t)
  <2>1. NobodyStarts
    BY <1>4, OnlyClaimsStart
  <2> QED
    BY <1>1, <1>2, <2>1, NobodyStartsFrees DEF CS!Next
<1> QED
  BY <1>3, <1>4

\* Under the till's own endpoints and the jobs, the queue implements the slot
\* of CounterSlot: who is billed changes only by becoming free or by a claim
\* of a free counter, and nobody whose visit ended is billed again.
THEOREM SlotRefines == TillSpec => ImplementsCounterSlot
<1> QED
  BY InitSlot, InitServesNobody, TillNextSlot, TillStepServes, PTL
     DEF TillSpec, ImplementsCounterSlot, CS!Spec

-----------------------------------------------------------------------------
(* Links between tokens and bills when requests overlap                    *)

\* The status a bill leaves its visit in, and the one visit a plan ends so.
Ends(s) == s \in {"Converted", "Expired"}
EndsVisit(w, t) ==
    /\ t \in DOMAIN w /\ Ends(w[t])
    /\ \A x \in DOMAIN w \ {t} : ~Ends(w[x])

\* A plan made on an old snapshot writes statuses to tokens.  A plan of a
\* bill ends one visit, and a bill that is to be cancelled is that visit's.
PlanSound(p) ==
    /\ IsWrite(plan[p])
    /\ planned[p] # None =>
          \E t \in Tokens :
              /\ EndsVisit(plan[p], t)
              /\ \/ billState[planned[p]] = "None"
                 \/ billState[planned[p]] = "Submitted" /\ billToken[planned[p]] = t

\* A bill is in one request at a time.
PlannedOnce ==
    \A p, q \in Workers : p # q /\ planned[p] # None => planned[q] # planned[p]

RaceInv ==
    /\ LinkInv
    /\ plan = [p \in Workers |-> plan[p]]
    /\ planned \in [Workers -> Bills \cup {None}]
    /\ \A p \in Workers : PlanSound(p)
    /\ PlannedOnce

\* The end of a visit is the only such status among the writes of EndVisit.
LEMMA EndVisitEnds ==
    ASSUME NEW t \in Tokens, NEW s, Ends(s), NEW w \in EndVisit(tok, t, s)
    PROVE  EndsVisit(w, t)
<1> PICK v \in TryToReleaseHeld(tok, tok[t].counter, t) : w = Then(Only(t, s), v)
  BY DEF EndVisit
<1>0. NoWrite = AllTo({}, "Waiting")
  BY DEF NoWrite, AllTo
<1> PICK X : v = AllTo(X, "Waiting")
  BY <1>0 DEF TryToReleaseHeld, ReleaseHeld
<1>1. DOMAIN w = {t} \cup X
  BY DEF Then, Only, AllTo
<1>2. w[t] = s /\ \A x \in X \ {t} : w[x] = "Waiting"
  BY DEF Then, Only, AllTo
<1> QED
  BY <1>1, <1>2 DEF EndsVisit, Ends

LEMMA BilledTokenIs ==
    ASSUME NEW p \in Workers, NEW t \in Tokens, EndsVisit(plan[p], t)
    PROVE  BilledToken(p) = t
  BY DEF BilledToken, EndsVisit, Ends

\* A step that changes no plan and no bill keeps the plans sound.
LEMMA PlansStay ==
    ASSUME RaceInv, UNCHANGED <<plan, planned, billVars>>, LinkInv'
    PROVE  RaceInv'
  BY DEF RaceInv, PlanSound, PlannedOnce, billVars

\* A request that decides on a sound plan, for a bill no other request has.
LEMMA DecideKeeps ==
    ASSUME RaceInv, NEW p \in Workers, NEW writes, NEW b \in Bills \cup {None},
           Decide(p, writes, b),
           \A w \in writes : IsWrite(w),
           b # None =>
              /\ BillIsFree(b)
              /\ \E t \in Tokens :
                    /\ \A w \in writes : EndsVisit(w, t)
                    /\ \/ billState[b] = "None"
                       \/ billState[b] = "Submitted" /\ billToken[b] = t
    PROVE  RaceInv'
<1> PICK w \in writes : plan' = [plan EXCEPT ![p] = w]
  BY DEF Decide
<1>1. planned' = [planned EXCEPT ![p] = b] /\ UNCHANGED vars
  BY DEF Decide
<1>2. LinkInv'
  BY <1>1 DEF RaceInv, vars, billVars, LinkInv, TypeOK, LinkedBillIsLive, BilledTokens
<1>3. planned' \in [Workers -> Bills \cup {None}]
  BY <1>1 DEF RaceInv
<1>4. \A q \in Workers : /\ plan'[q] = IF q = p THEN w ELSE plan[q]
                         /\ planned'[q] = IF q = p THEN b ELSE planned[q]
  BY <1>1 DEF RaceInv
<1>5. plan' = [q \in Workers |-> plan'[q]]
  BY DEF RaceInv
<1>6. ASSUME NEW q \in Workers PROVE PlanSound(q)'
  <2>1. CASE q = p
    BY <1>1, <1>4, <2>1 DEF PlanSound, vars, billVars
  <2>2. CASE q # p
    BY <1>1, <1>4, <2>2 DEF RaceInv, PlanSound, vars, billVars
  <2> QED
    BY <2>1, <2>2
<1>7. PlannedOnce'
  BY <1>4 DEF RaceInv, PlannedOnce, BillIsFree
<1> QED
  BY <1>2, <1>3, <1>5, <1>6, <1>7 DEF RaceInv

\* What a commit does to plans other than its own.
LEMMA CommitFrees ==
    ASSUME RaceInv, NEW p \in Workers,
           plan' = [plan EXCEPT ![p] = NoWrite], planned' = [planned EXCEPT ![p] = None],
           \A q \in Workers \ {p} : planned[q] # None =>
              /\ billState'[planned[q]] = billState[planned[q]]
              /\ billToken'[planned[q]] = billToken[planned[q]],
           LinkInv'
    PROVE  RaceInv'
<1>1. planned' \in [Workers -> Bills \cup {None}]
  BY DEF RaceInv
<1>2. \A q \in Workers : /\ plan'[q] = IF q = p THEN NoWrite ELSE plan[q]
                         /\ planned'[q] = IF q = p THEN None ELSE planned[q]
  BY DEF RaceInv
<1>3. plan' = [q \in Workers |-> plan'[q]]
  BY DEF RaceInv
<1>4. ASSUME NEW q \in Workers PROVE PlanSound(q)'
  <2>1. CASE q = p
    BY <1>2, <2>1 DEF PlanSound, IsWrite, NoWrite, AllTo
  <2>2. CASE q # p
    BY <1>2, <2>2 DEF RaceInv, PlanSound
  <2> QED
    BY <2>1, <2>2
<1>5. PlannedOnce'
  BY <1>2 DEF RaceInv, PlannedOnce
<1> QED
  BY <1>1, <1>3, <1>4, <1>5 DEF RaceInv

\* The writes of a plan arrive, with the bill they belong to.
LEMMA CommitLinks ==
    ASSUME RaceInv, NEW p \in Workers, Commit(p)
    PROVE  RaceInv'
<1> DEFINE b == planned[p]
<1>1. LinkInv /\ TypeOK /\ IsWrite(plan[p]) /\ b \in Bills \cup {None}
  BY DEF RaceInv, LinkInv, PlanSound
<1>2. /\ plan' = [plan EXCEPT ![p] = NoWrite] /\ planned' = [planned EXCEPT ![p] = None]
      /\ now' = now
  BY DEF Commit
<1>3. After(plan[p]) \in [Tokens -> Rows]
  BY <1>1, AfterRows
<1>4. \A q \in Workers \ {p} : planned[q] # None => planned[q] # b
  BY DEF RaceInv, PlannedOnce
<1>5. \A q \in Workers : planned[q] # None => planned[q] \in Bills
  BY DEF RaceInv
<1>6. CASE b = None
  <2>1. tok' = After(plan[p]) /\ UNCHANGED billVars
    BY <1>6 DEF Commit
  <2>2. LinkInv'
    BY <1>1, <1>2, <2>1, WriteKeepsLinks
  <2> QED
    BY <1>2, <2>1, <2>2, CommitFrees DEF billVars
<1>7. CASE b # None
  <2>1. PICK t \in Tokens : /\ EndsVisit(plan[p], t)
                            /\ \/ billState[b] = "None"
                               \/ billState[b] = "Submitted" /\ billToken[b] = t
    BY <1>7 DEF RaceInv, PlanSound
  <2>2. BilledToken(p) = t
    BY <2>1, BilledTokenIs
  <2>3. b \in Bills
    BY <1>1, <1>7
  <2>4. CASE billState[b] = "None"
    <3>1. /\ tok' = [After(plan[p]) EXCEPT ![t].bill = b]
          /\ billState' = [billState EXCEPT ![b] = "Submitted"]
          /\ billToken' = [billToken EXCEPT ![b] = t]
      BY <1>7, <2>2, <2>4 DEF Commit
    <3>2. \A x \in Tokens : tok'[x].bill = IF x = t THEN b ELSE tok[x].bill
      BY <1>1, <1>3, <3>1, AfterRows DEF Rows
    <3>3. TypeOK'
      <4>1. tok' \in [Tokens -> Rows]
        BY <1>3, <2>3, <3>1 DEF Rows
      <4> QED
        BY <1>1, <1>2, <3>1, <4>1 DEF TypeOK
    <3>4. LinkedBillIsLive'
      BY <1>1, <1>7, <2>3, <2>4, <3>1, <3>2 DEF LinkInv, LinkedBillIsLive, TypeOK
    <3>5. BilledTokens'
      BY <1>1, <3>1 DEF LinkInv, BilledTokens, TypeOK
    <3>6. LinkInv'
      BY <3>3, <3>4, <3>5 DEF LinkInv
    <3>7. \A q \in Workers \ {p} : planned[q] # None =>
             /\ billState'[planned[q]] = billState[planned[q]]
             /\ billToken'[planned[q]] = billToken[planned[q]]
      BY <1>1, <1>4, <1>5, <3>1 DEF TypeOK
    <3> HIDE DEF b
    <3> QED
      BY <1>2, <3>6, <3>7, CommitFrees
  <2>5. CASE billState[b] = "Submitted" /\ billToken[b] = t
    <3>1. /\ tok' = [After(plan[p]) EXCEPT ![t] = DropLink(@)]
          /\ billState' = [billState EXCEPT ![b] = "Cancelled"]
          /\ billToken' = billToken
      BY <1>7, <2>2, <2>5 DEF Commit
    <3>2. ASSUME NEW row \in Rows PROVE DropLink(row) \in Rows /\ DropLink(row).bill = None
      BY DEF DropLink, Rows
    <3>3. After(plan[p])[t] \in Rows
      BY <1>3
    <3>4. tok' = [After(plan[p]) EXCEPT ![t] = DropLink(After(plan[p])[t])]
      BY <3>1
    <3>5. /\ tok' \in [Tokens -> Rows]
          /\ \A x \in Tokens : tok'[x].bill = IF x = t THEN None ELSE tok[x].bill
      BY <1>1, <1>3, <3>2, <3>3, <3>4, AfterRows
    <3>6. TypeOK'
      BY <1>1, <1>2, <3>1, <3>5 DEF TypeOK
    <3>7. LinkedBillIsLive'
      BY <1>1, <2>5, <3>1, <3>5 DEF LinkInv, LinkedBillIsLive, TypeOK
    <3>8. BilledTokens'
      BY <1>1, <3>1 DEF LinkInv, BilledTokens, TypeOK
    <3>9. LinkInv'
      BY <3>6, <3>7, <3>8 DEF LinkInv
    <3>10. \A q \in Workers \ {p} : planned[q] # None =>
             /\ billState'[planned[q]] = billState[planned[q]]
             /\ billToken'[planned[q]] = billToken[planned[q]]
      BY <1>1, <1>4, <1>5, <3>1 DEF TypeOK
    <3> HIDE DEF b
    <3> QED
      BY <1>2, <3>9, <3>10, CommitFrees
  <2> QED
    BY <2>1, <2>4, <2>5
<1> QED
  BY <1>6, <1>7

\* What the requests and the two jobs decide.
LEMMA DecisionsKeep ==
    ASSUME RaceInv,
           \/ DecideExpire
           \/ \E c \in Counters : DecideRecover(c)
           \/ \E p \in Requests, t \in Tokens :
                 DecideClaim(p, t) \/ DecideRelease(p, t) \/ DecideDrop(p, t)
    PROVE  RaceInv'
<1> DEFINE Writes(W) == \A w \in W : IsWrite(w)
<1>1. \A p \in Workers : \A W : Decide(p, W, None) /\ Writes(W) => RaceInv'
  BY DecideKeeps
<1>2. \A p \in Requests : p \in Workers
  BY DEF Workers
<1>3. ExpireJob \in Workers /\ RecoverJob \in Workers
  BY DEF Workers
<1>4. Writes(Expire(tok)) /\ \A c \in Counters : Writes(Recover(tok, c))
  BY JobWrites
<1>5. ASSUME NEW t \in Tokens
      PROVE  /\ Writes(Claim(tok, t))
             /\ Writes(Release(tok, tok[t].counter, t, TRUE))
             /\ \A S : Writes(Unless(tok, t, S, "Dropped"))
  BY ReleasePosWrites, SimpleWrites DEF Claim, Unless, Statuses, OPEN_STATUSES, TERMINAL_STATUSES
<1> HIDE DEF Writes
<1>6. CASE DecideExpire
  BY <1>1, <1>3, <1>4, <1>6 DEF DecideExpire
<1>7. CASE \E c \in Counters : DecideRecover(c)
  BY <1>1, <1>3, <1>4, <1>7 DEF DecideRecover
<1>8. CASE \E p \in Requests, t \in Tokens :
              DecideClaim(p, t) \/ DecideRelease(p, t) \/ DecideDrop(p, t)
  BY <1>1, <1>2, <1>5, <1>8 DEF DecideClaim, DecideRelease, DecideDrop
<1> QED
  BY <1>6, <1>7, <1>8

LEMMA BillDecisionsKeep ==
    ASSUME RaceInv, NEW p \in Requests, NEW b \in Bills,
           DecideCancelBill(p, b) \/ \E t \in Tokens : DecideBill(p, b, t)
    PROVE  RaceInv'
<1>1. p \in Workers /\ b \in Bills \cup {None}
  BY DEF Workers
<1>2. ASSUME NEW t \in Tokens, NEW s \in {"Converted", "Expired"}
      PROVE  \A w \in EndVisit(tok, t, s) : IsWrite(w) /\ EndsVisit(w, t)
  BY EndVisitWrites, EndVisitEnds DEF TERMINAL_STATUSES, Ends
<1>3. ASSUME NEW t \in Tokens, DecideBill(p, b, t) PROVE RaceInv'
  <2>1. /\ Decide(p, EndVisit(tok, t, "Converted"), b)
        /\ BillIsFree(b) /\ billState[b] = "None"
    BY <1>3 DEF DecideBill
  <2> QED
    BY <1>1, <1>2, <2>1, DecideKeeps
<1>4. CASE DecideCancelBill(p, b)
  <2>1. /\ Decide(p, EndVisit(tok, billToken[b], "Expired"), b)
        /\ BillIsFree(b) /\ billState[b] = "Submitted"
    BY <1>4 DEF DecideCancelBill
  <2>2. billToken[b] \in Tokens
    BY <2>1 DEF RaceInv, LinkInv, BilledTokens
  <2> QED
    BY <1>1, <1>2, <2>1, <2>2, DecideKeeps
<1> QED
  BY <1>3, <1>4

LEMMA InitRaces == RaceInit => RaceInv
<1> SUFFICES ASSUME RaceInit PROVE RaceInv
  OBVIOUS
<1>1. LinkInv
  BY InitLinks DEF RaceInit
<1>2. plan = [p \in Workers |-> NoWrite] /\ planned = [p \in Workers |-> None]
  BY DEF RaceInit
<1>3. \A p \in Workers : PlanSound(p)
  BY <1>2 DEF PlanSound, IsWrite, NoWrite, AllTo
<1> QED
  BY <1>1, <1>2, <1>3 DEF RaceInv, PlannedOnce

LEMMA RacesKeepLinks == ASSUME RaceInv, [RaceNext]_raceVars PROVE RaceInv'
<1>1. LinkInv
  BY DEF RaceInv
<1>2. CASE Atomic
  <2>1. Next
    BY <1>2 DEF Atomic, Next, TillNext
  <2>2. LinkInv'
    BY <1>1, <2>1, NextLinks
  <2>3. UNCHANGED <<plan, planned, billVars>>
    BY <1>2 DEF Atomic, Tick, AutoCloseAtEod, Job, TakeToken, Enter
  <2> QED
    BY <2>2, <2>3, PlansStay
<1>3. CASE UNCHANGED raceVars
  <2>1. UNCHANGED vars /\ UNCHANGED <<plan, planned, billVars>>
    BY <1>3 DEF raceVars, vars
  <2>2. LinkInv'
    BY <1>1, <2>1, NextLinks
  <2> QED
    BY <2>1, <2>2, PlansStay
<1>4. CASE \E p \in Workers : Commit(p)
  BY <1>4, CommitLinks
<1>5. CASE \/ DecideExpire
           \/ \E c \in Counters : DecideRecover(c)
           \/ \E p \in Requests, t \in Tokens :
                 DecideClaim(p, t) \/ DecideRelease(p, t) \/ DecideDrop(p, t)
  BY <1>5, DecisionsKeep
<1>6. CASE \E p \in Requests, b \in Bills :
              DecideCancelBill(p, b) \/ \E t \in Tokens : DecideBill(p, b, t)
  BY <1>6, BillDecisionsKeep
<1> QED
  BY <1>2, <1>3, <1>4, <1>5, <1>6 DEF RaceNext

\* However requests and jobs overlap, and however old what they read: a visit
\* never shows a cancelled bill or the bill of another visit.
THEOREM BillsAreLiveInRaces == RaceSpec => []LinkedBillIsLive
<1>1. RaceInv => LinkedBillIsLive
  BY DEF RaceInv, LinkInv
<1> QED
  BY <1>1, InitRaces, RacesKeepLinks, PTL DEF RaceSpec

\* What requests and jobs decide, however they overlap, are statuses of tokens
\* that are there, and a bill or none.
THEOREM RaceTypes == RaceSpec => []RaceTypeOK
<1>1. RaceInv => RaceTypeOK
  BY DEF RaceInv, LinkInv, PlanSound, IsWrite, RaceTypeOK
<1> QED
  BY <1>1, InitRaces, RacesKeepLinks, PTL DEF RaceSpec

-----------------------------------------------------------------------------
(* The billing slot when requests overlap                                  *)

\* The visits a request has decided to bill and not yet committed.
Claimed(p) == {t \in DOMAIN plan[p] : plan[p][t] = "In Progress"}

\* No two requests hold an uncommitted claim of the same counter.
ClaimsAlone ==
    \A p, q \in Workers : p # q =>
        \A s \in Claimed(p), t \in Claimed(q) : tok[s].counter # tok[t].counter

\* No endpoint writes the status that stands for a row that is not there.
NeverNone(w) == \A t \in DOMAIN w : w[t] # "None"

\* A claim was decided for one visit, and nobody else is billed there since.
ClaimFits(p) ==
    \A t \in Claimed(p) :
        /\ t \in Tokens /\ Exists(t) /\ Claimed(p) = {t}
        /\ Queued(tok, tok[t].counter, "In Progress") \subseteq {t}

RaceSlotInv ==
    /\ RaceInv /\ OneBillingSlot
    /\ \A p \in Workers : NeverNone(plan[p]) /\ ClaimFits(p)

\* A row that is there stays, at its counter.
RowsStay == \A t \in Tokens : Exists(t) => Exists(t)' /\ tok'[t].counter = tok[t].counter

LEMMA ThenNeverNone ==
    ASSUME NEW w, NEW v, NeverNone(w), NeverNone(v)
    PROVE  NeverNone(Then(w, v))
  BY DEF NeverNone, Then

LEMMA SimpleNeverNone ==
    ASSUME NEW s, s # "None", NEW t, NEW S
    PROVE  NeverNone(Only(t, s)) /\ NeverNone(AllTo(S, s)) /\ NeverNone(NoWrite)
  BY DEF NeverNone, Only, AllTo, NoWrite

LEMMA ReleaseNeverNone ==
    ASSUME NEW r, NEW c, NEW t, NEW w \in ReleaseHeld(r, c, t)
    PROVE  NeverNone(w)
  BY SimpleNeverNone DEF ReleaseHeld

LEMMA TriedReleaseNeverNone ==
    ASSUME NEW r, NEW c, NEW t, NEW w \in TryToReleaseHeld(r, c, t)
    PROVE  NeverNone(w)
<1>1. NeverNone(NoWrite)
  BY DEF NeverNone, NoWrite, AllTo
<1> QED
  BY <1>1, ReleaseNeverNone DEF TryToReleaseHeld

\* What overlapping requests decide to write.
LEMMA DecisionsNeverNone ==
    ASSUME NEW t \in Tokens, NEW w,
           \/ w \in Claim(tok, t)
           \/ w \in Release(tok, tok[t].counter, t, TRUE)
           \/ \E S : w \in Unless(tok, t, S, "Dropped")
           \/ \E s \in {"Converted", "Expired"} : w \in EndVisit(tok, t, s)
    PROVE  NeverNone(w)
<1>1. CASE w \in Claim(tok, t)
  <2>1. w = Only(t, "In Progress") \/ w = Only(t, "Hold")
    BY <1>1 DEF Claim
  <2> QED
    BY <2>1, SimpleNeverNone
<1>2. CASE w \in Release(tok, tok[t].counter, t, TRUE)
  <2> DEFINE first == IF TRUE /\ t # None /\ tok[t].status = "In Progress"
                      THEN Only(t, "Waiting") ELSE NoWrite
  <2>1. PICK v \in ReleaseHeld(tok, tok[t].counter, None) : w = Then(first, v)
    BY <1>2 DEF Release
  <2>2. first = Only(t, "Waiting") \/ first = NoWrite
    OBVIOUS
  <2> HIDE DEF first
  <2>3. NeverNone(Only(t, "Waiting")) /\ NeverNone(NoWrite)
    BY SimpleNeverNone
  <2> QED
    BY <2>1, <2>2, <2>3, ReleaseNeverNone, ThenNeverNone
<1>3. CASE \E S : w \in Unless(tok, t, S, "Dropped")
  <2>1. w = Only(t, "Dropped")
    BY <1>3 DEF Unless
  <2> QED
    BY <2>1, SimpleNeverNone
<1>4. CASE \E s \in {"Converted", "Expired"} : w \in EndVisit(tok, t, s)
  <2>1. PICK s \in {"Converted", "Expired"}, v \in TryToReleaseHeld(tok, tok[t].counter, t) :
           w = Then(Only(t, s), v)
    BY <1>4 DEF EndVisit
  <2>2. NeverNone(Only(t, s))
    BY SimpleNeverNone
  <2> QED
    BY <2>1, <2>2, TriedReleaseNeverNone, ThenNeverNone
<1> QED
  BY <1>1, <1>2, <1>3, <1>4

LEMMA JobsNeverNone ==
    ASSUME NEW w,
           w \in Expire(tok) \/ w \in EndOfDay(tok) \/ \E c \in Counters : w \in Recover(tok, c)
    PROVE  NeverNone(w)
<1>1. CASE w \in Expire(tok)
  BY <1>1, SimpleNeverNone DEF Expire
<1>2. CASE w \in EndOfDay(tok)
  <2>1. \A s : EodStatus(s) # "None"
    BY DEF EodStatus
  <2> QED
    BY <1>2, <2>1 DEF EndOfDay, NeverNone
<1>3. ASSUME NEW c \in Counters, w \in Recover(tok, c) PROVE NeverNone(w)
  <2>1. PICK X \in {{t \in B : tok[t].counter = c} : B \in Batches(Abandoned(tok))} \ {{}},
             v \in ReleaseHeld(tok, c, None) : w = Then(AllTo(X, "Waiting"), v)
    BY <1>3 DEF Recover
  <2>2. NeverNone(AllTo(X, "Waiting"))
    BY SimpleNeverNone
  <2> QED
    BY <2>1, <2>2, ReleaseNeverNone, ThenNeverNone
<1> QED
  BY <1>1, <1>2, <1>3

LEMMA WriteKeepsRows ==
    ASSUME TypeOK, NEW w, IsWrite(w), NeverNone(w), tok' = After(w)
    PROVE  RowsStay
<1>1. \A t \in Tokens : /\ tok'[t].status = IF t \in DOMAIN w THEN w[t] ELSE tok[t].status
                        /\ tok'[t].counter = tok[t].counter
  BY AfterRows
<1> QED
  BY <1>1 DEF RowsStay, Exists, NeverNone

\* What is done in one step neither starts a billing nor moves a row.
LEMMA AtomicStays ==
    ASSUME TypeOK, Atomic
    PROVE  NobodyStarts /\ RowsStay /\ UNCHANGED plan
<1>1. CASE Tick
  BY <1>1, TimeStartsNobody, TickRows DEF RowsStay, Exists, Atomic
<1>2. CASE AutoCloseAtEod
  <2>1. PICK w \in EndOfDay(tok) : tok' = After(w)
    BY <1>2 DEF AutoCloseAtEod, Job
  <2>2. IsWrite(w) /\ NeverNone(w)
    BY JobWrites, JobsNeverNone
  <2>3. RowsStay
    BY <2>1, <2>2, WriteKeepsRows
  <2> QED
    BY <1>2, <2>3, TimeStartsNobody DEF Atomic
<1>3. ASSUME NEW t \in Tokens, NEW c \in Counters, TakeToken(t, c)
      PROVE  NobodyStarts /\ RowsStay /\ UNCHANGED plan
  <2>1. ~Exists(t) /\ \A x \in Tokens \ {t} : tok'[x] = tok[x]
    BY <1>3 DEF TakeToken, Enter, TypeOK
  <2>2. RowsStay
    BY <2>1 DEF RowsStay, Exists
  <2> QED
    BY <1>3, <2>2, EnterStartsNobody DEF Atomic
<1> QED
  BY <1>1, <1>2, <1>3 DEF Atomic

LEMMA QueueShrinks ==
    ASSUME NobodyStarts, NEW c
    PROVE  Queued(tok', c, "In Progress") \subseteq Queued(tok, c, "In Progress")
  BY DEF NobodyStarts, Billing, Queued

\* A step that changes no plan, starts no billing and moves no row.
LEMMA OthersKeepSlot ==
    ASSUME RaceSlotInv, RaceInv', NobodyStarts, RowsStay, UNCHANGED plan
    PROVE  RaceSlotInv'
<1>1. OneBillingSlot'
  BY NobodyStartsSlot DEF RaceSlotInv
<1>2. ASSUME NEW p \in Workers PROVE ClaimFits(p)' /\ NeverNone(plan[p])'
  <2>1. NeverNone(plan[p]) /\ ClaimFits(p) /\ Claimed(p)' = Claimed(p)
    BY DEF RaceSlotInv, Claimed
  <2>2. ASSUME NEW t \in Claimed(p)
        PROVE  /\ t \in Tokens /\ Exists(t)' /\ Claimed(p) = {t}
               /\ Queued(tok', tok'[t].counter, "In Progress") \subseteq {t}
    <3>1. /\ t \in Tokens /\ Exists(t) /\ Claimed(p) = {t}
          /\ Queued(tok, tok[t].counter, "In Progress") \subseteq {t}
      BY <2>1 DEF ClaimFits
    <3>2. Exists(t)' /\ tok'[t].counter = tok[t].counter
      BY <3>1 DEF RowsStay
    <3>3. Queued(tok', tok[t].counter, "In Progress") \subseteq {t}
      BY <3>1, QueueShrinks
    <3> QED
      BY <3>1, <3>2, <3>3
  <2> QED
    BY <2>1, <2>2 DEF ClaimFits, NeverNone
<1> QED
  BY <1>1, <1>2 DEF RaceSlotInv

\* A request decides: a claim of one free counter, or writes that bill nobody.
LEMMA DecideKeepsSlot ==
    ASSUME RaceSlotInv, RaceInv', NEW p \in Workers, NEW writes, NEW b, Decide(p, writes, b),
           \A w \in writes :
              /\ NeverNone(w)
              /\ \/ StartsNoBilling(w)
                 \/ \E t \in Tokens :
                       /\ w = Only(t, "In Progress") /\ Exists(t)
                       /\ Queued(tok, tok[t].counter, "In Progress") \ {t} = {}
    PROVE  RaceSlotInv'
<1> PICK w \in writes : plan' = [plan EXCEPT ![p] = w]
  BY DEF Decide
<1>1. tok' = tok
  BY DEF Decide, vars
<1>2. OneBillingSlot'
  BY <1>1, NobodyStartsSlot DEF RaceSlotInv, NobodyStarts
<1>3. \A q \in Workers : plan'[q] = IF q = p THEN w ELSE plan[q]
  BY DEF RaceSlotInv, RaceInv
<1>4. ASSUME NEW q \in Workers PROVE NeverNone(plan[q])'
  <2>1. NeverNone(plan[q]) /\ NeverNone(w)
    BY DEF RaceSlotInv
  <2>2. plan'[q] = w \/ plan'[q] = plan[q]
    BY <1>3
  <2> QED
    BY <2>1, <2>2 DEF NeverNone
<1>5. ASSUME NEW q \in Workers, q # p PROVE ClaimFits(q)'
  <2>1. Claimed(q)' = Claimed(q) /\ ClaimFits(q)
    BY <1>3, <1>5 DEF Claimed, RaceSlotInv
  <2> QED
    BY <1>1, <2>1 DEF ClaimFits, Exists, Queued
<1>6. ClaimFits(p)'
  <2>1. plan'[p] = w
    BY <1>3
  <2>2. CASE StartsNoBilling(w)
    <3>1. Claimed(p)' = {}
      BY <2>1, <2>2 DEF Claimed, StartsNoBilling
    <3> QED
      BY <3>1 DEF ClaimFits
  <2>3. ASSUME NEW t \in Tokens, w = Only(t, "In Progress"), Exists(t),
               Queued(tok, tok[t].counter, "In Progress") \ {t} = {}
        PROVE  ClaimFits(p)'
    <3>1. DOMAIN w = {t} /\ w[t] = "In Progress"
      BY <2>3, OnlyIs
    <3>2. Claimed(p)' = {t}
      BY <2>1, <3>1 DEF Claimed
    <3>3. Exists(t)' /\ Queued(tok', tok'[t].counter, "In Progress") \subseteq {t}
      BY <1>1, <2>3 DEF Exists, Queued
    <3> QED
      BY <3>2, <3>3 DEF ClaimFits
  <2> QED
    BY <2>2, <2>3
<1> QED
  BY <1>2, <1>4, <1>5, <1>6 DEF RaceSlotInv

\* What a commit leaves in the fields of which the counters speak.
LEMMA CommitRows ==
    ASSUME RaceInv, NEW p \in Workers, Commit(p), NEW x \in Tokens
    PROVE  /\ tok'[x].status = IF x \in DOMAIN plan[p] THEN plan[p][x] ELSE tok[x].status
           /\ tok'[x].docstatus = tok[x].docstatus
           /\ tok'[x].counter = tok[x].counter
<1> DEFINE W == After(plan[p])
           t == BilledToken(p)
           Same(r) == /\ r[x].status = W[x].status
                      /\ r[x].docstatus = W[x].docstatus
                      /\ r[x].counter = W[x].counter
<1>1. TypeOK /\ IsWrite(plan[p])
  BY DEF RaceInv, LinkInv, PlanSound
<1>2. W \in [Tokens -> Rows]
  BY <1>1, AfterRows
<1>3. /\ W[x].status = IF x \in DOMAIN plan[p] THEN plan[p][x] ELSE tok[x].status
      /\ W[x].docstatus = tok[x].docstatus
      /\ W[x].counter = tok[x].counter
  BY <1>1, AfterRows
<1>4. \/ tok' = W
      \/ \E b : tok' = [W EXCEPT ![t].bill = b]
      \/ tok' = [W EXCEPT ![t] = DropLink(W[t])]
  BY DEF Commit
<1>5. ASSUME NEW b PROVE Same([W EXCEPT ![t].bill = b])
  BY <1>2 DEF Rows
<1>6. Same([W EXCEPT ![t] = DropLink(W[t])])
  BY <1>2 DEF Rows, DropLink
<1>7. Same(tok')
  BY <1>4, <1>5, <1>6
<1> QED
  BY <1>3, <1>7

\* A commit bills at most the one visit it claimed, at a counter nobody else
\* has a claim of, and moves no row.
LEMMA CommitStarts ==
    ASSUME RaceSlotInv, NEW p \in Workers, Commit(p)
    PROVE  /\ \A x \in Tokens : Billing(tok'[x]) => Billing(tok[x]) \/ x \in Claimed(p)
           /\ RowsStay
<1>1. RaceInv /\ NeverNone(plan[p])
  BY DEF RaceSlotInv
<1>2. ASSUME NEW x \in Tokens
      PROVE  /\ Billing(tok'[x]) => Billing(tok[x]) \/ x \in Claimed(p)
             /\ Exists(x) => Exists(x)' /\ tok'[x].counter = tok[x].counter
  <2>1. /\ tok'[x].status = IF x \in DOMAIN plan[p] THEN plan[p][x] ELSE tok[x].status
        /\ tok'[x].docstatus = tok[x].docstatus
        /\ tok'[x].counter = tok[x].counter
    BY <1>1, CommitRows
  <2>2. x \in DOMAIN plan[p] => plan[p][x] # "None"
    BY <1>1 DEF NeverNone
  <2>3. Exists(x) => Exists(x)'
    BY <2>1, <2>2 DEF Exists
  <2>4. Billing(tok'[x]) => Billing(tok[x]) \/ x \in Claimed(p)
    BY <2>1 DEF Billing, Claimed
  <2> QED
    BY <2>1, <2>3, <2>4
<1> QED
  BY <1>2 DEF RowsStay

LEMMA CommitKeepsSlot ==
    ASSUME RaceSlotInv, RaceInv', ClaimsAlone, NEW p \in Workers, Commit(p)
    PROVE  RaceSlotInv'
<1>1. /\ RaceInv /\ OneBillingSlot
      /\ \A q \in Workers : NeverNone(plan[q]) /\ ClaimFits(q)
  BY DEF RaceSlotInv
<1>2. /\ \A x \in Tokens : Billing(tok'[x]) => Billing(tok[x]) \/ x \in Claimed(p)
      /\ RowsStay
  BY CommitStarts
<1>3. \A x \in Tokens : tok'[x].counter = tok[x].counter
  BY <1>1, CommitRows
<1>4. \A q \in Workers : plan'[q] = IF q = p THEN NoWrite ELSE plan[q]
  BY <1>1 DEF Commit, RaceInv
<1>5. DOMAIN NoWrite = {}
  BY DEF NoWrite, AllTo
<1>6. ASSUME NEW q \in Workers PROVE NeverNone(plan[q])'
  BY <1>1, <1>4, <1>5 DEF NeverNone
<1>7. \A c : Queued(tok', c, "In Progress") \subseteq
             Queued(tok, c, "In Progress") \cup {t \in Claimed(p) : tok[t].counter = c}
  BY <1>2, <1>3 DEF Queued, Billing
<1>8. OneBillingSlot'
  <2> SUFFICES ASSUME NEW c \in Counters, NEW x \in Queued(tok', c, "In Progress"),
                      NEW y \in Queued(tok', c, "In Progress")
               PROVE  x = y
    BY DEF OneBillingSlot
  <2>1. CASE {t \in Claimed(p) : tok[t].counter = c} = {}
    BY <1>1, <1>7, <2>1 DEF OneBillingSlot
  <2>2. ASSUME NEW t \in Claimed(p), tok[t].counter = c PROVE x = y
    <3>1. Claimed(p) = {t} /\ Queued(tok, c, "In Progress") \subseteq {t}
      BY <1>1, <2>2 DEF ClaimFits
    <3>2. Queued(tok', c, "In Progress") \subseteq {t}
      BY <1>7, <3>1
    <3> QED
      BY <3>2
  <2> QED
    BY <2>1, <2>2
<1>9. ASSUME NEW q \in Workers PROVE ClaimFits(q)'
  <2>1. CASE q = p
    <3>1. Claimed(q)' = {}
      BY <1>4, <1>5, <2>1 DEF Claimed
    <3> QED
      BY <3>1 DEF ClaimFits
  <2>2. CASE q # p
    <3>1. Claimed(q)' = Claimed(q)
      BY <1>4, <2>2 DEF Claimed
    <3>2. ASSUME NEW t \in Claimed(q)
          PROVE  /\ t \in Tokens /\ Exists(t)' /\ Claimed(q) = {t}
                 /\ Queued(tok', tok'[t].counter, "In Progress") \subseteq {t}
      <4>1. /\ t \in Tokens /\ Exists(t) /\ Claimed(q) = {t}
            /\ Queued(tok, tok[t].counter, "In Progress") \subseteq {t}
        BY <1>1 DEF ClaimFits
      <4>2. \A s \in Claimed(p) : tok[s].counter # tok[t].counter
        BY <2>2 DEF ClaimsAlone
      <4>3. Queued(tok', tok[t].counter, "In Progress") \subseteq {t}
        BY <1>7, <4>1, <4>2
      <4>4. Exists(t)' /\ tok'[t].counter = tok[t].counter
        BY <1>2, <4>1 DEF RowsStay
      <4> QED
        BY <4>1, <4>3, <4>4
    <3> QED
      BY <3>1, <3>2 DEF ClaimFits
  <2> QED
    BY <2>1, <2>2
<1> QED
  BY <1>6, <1>8, <1>9 DEF RaceSlotInv

LEMMA DecisionsKeepSlot ==
    ASSUME RaceSlotInv, RaceInv', NEW p \in Requests, NEW t \in Tokens,
           DecideClaim(p, t) \/ DecideRelease(p, t) \/ DecideDrop(p, t)
    PROVE  RaceSlotInv'
<1> DEFINE Quiet(W) == \A w \in W : NeverNone(w) /\ StartsNoBilling(w)
<1>1. p \in Workers
  BY DEF Workers
<1>2. \A W : Decide(p, W, None) /\ Quiet(W) => RaceSlotInv'
  BY <1>1, DecideKeepsSlot
<1>3. Quiet(Release(tok, tok[t].counter, t, TRUE)) /\ \A S : Quiet(Unless(tok, t, S, "Dropped"))
  <2>1. \A w \in Release(tok, tok[t].counter, t, TRUE) : StartsNoBilling(w)
    BY ReleasePosWrites
  <2>2. \A S : \A w \in Unless(tok, t, S, "Dropped") : StartsNoBilling(w)
    BY UnlessWrites DEF Statuses, TERMINAL_STATUSES
  <2> QED
    BY <2>1, <2>2, DecisionsNeverNone
<1> HIDE DEF Quiet
<1>4. CASE DecideRelease(p, t) \/ DecideDrop(p, t)
  BY <1>2, <1>3, <1>4 DEF DecideRelease, DecideDrop
<1>5. CASE DecideClaim(p, t)
  <2>1. Exists(t) /\ Decide(p, Claim(tok, t), None)
    BY <1>5 DEF DecideClaim
  <2>2. ASSUME NEW w \in Claim(tok, t)
        PROVE  /\ NeverNone(w)
               /\ \/ StartsNoBilling(w)
                  \/ /\ w = Only(t, "In Progress") /\ Exists(t)
                     /\ Queued(tok, tok[t].counter, "In Progress") \ {t} = {}
    <3>1. \/ w = Only(t, "Hold")
          \/ /\ w = Only(t, "In Progress")
             /\ Queued(tok, tok[t].counter, "In Progress") \ {t} = {}
      BY DEF Claim
    <3>2. StartsNoBilling(Only(t, "Hold"))
      BY SimpleWrites DEF Statuses, OPEN_STATUSES
    <3> QED
      BY <2>1, <3>1, <3>2, DecisionsNeverNone
  <2> QED
    BY <1>1, <2>1, <2>2, DecideKeepsSlot
<1> QED
  BY <1>4, <1>5

LEMMA BillDecisionsKeepSlot ==
    ASSUME RaceSlotInv, RaceInv', NEW p \in Requests, NEW b \in Bills,
           DecideCancelBill(p, b) \/ \E t \in Tokens : DecideBill(p, b, t)
    PROVE  RaceSlotInv'
<1>1. p \in Workers
  BY DEF Workers
<1>2. ASSUME NEW t \in Tokens, NEW s \in {"Converted", "Expired"}
      PROVE  \A w \in EndVisit(tok, t, s) : NeverNone(w) /\ StartsNoBilling(w)
  BY EndVisitWrites, DecisionsNeverNone DEF TERMINAL_STATUSES
<1>3. ASSUME NEW t \in Tokens, DecideBill(p, b, t) PROVE RaceSlotInv'
  <2>1. Decide(p, EndVisit(tok, t, "Converted"), b)
    BY <1>3 DEF DecideBill
  <2> QED
    BY <1>1, <1>2, <2>1, DecideKeepsSlot
<1>4. CASE DecideCancelBill(p, b)
  <2>1. Decide(p, EndVisit(tok, billToken[b], "Expired"), b) /\ billState[b] = "Submitted"
    BY <1>4 DEF DecideCancelBill
  <2>2. billToken[b] \in Tokens
    BY <2>1 DEF RaceSlotInv, RaceInv, LinkInv, BilledTokens
  <2> QED
    BY <1>1, <1>2, <2>1, <2>2, DecideKeepsSlot
<1> QED
  BY <1>3, <1>4

LEMMA JobDecisionsKeepSlot ==
    ASSUME RaceSlotInv, RaceInv', DecideExpire \/ \E c \in Counters : DecideRecover(c)
    PROVE  RaceSlotInv'
<1>1. ExpireJob \in Workers /\ RecoverJob \in Workers
  BY DEF Workers
<1>2. ASSUME NEW w, w \in Expire(tok) \/ \E c \in Counters : w \in Recover(tok, c)
      PROVE  NeverNone(w) /\ StartsNoBilling(w)
  BY <1>2, JobWrites, JobsNeverNone
<1>3. CASE DecideExpire
  BY <1>1, <1>2, <1>3, DecideKeepsSlot DEF DecideExpire
<1>4. ASSUME NEW c \in Counters, DecideRecover(c) PROVE RaceSlotInv'
  BY <1>1, <1>2, <1>4, DecideKeepsSlot DEF DecideRecover
<1> QED
  BY <1>3, <1>4

LEMMA InitRaceSlot == RaceInit => RaceSlotInv
<1> SUFFICES ASSUME RaceInit PROVE RaceSlotInv
  OBVIOUS
<1>1. RaceInv /\ OneBillingSlot
  BY InitRaces, InitSlot DEF RaceInit, SlotInv
<1>2. \A p \in Workers : plan[p] = NoWrite
  BY DEF RaceInit
<1>3. DOMAIN NoWrite = {}
  BY DEF NoWrite, AllTo
<1> QED
  BY <1>1, <1>2, <1>3 DEF RaceSlotInv, NeverNone, ClaimFits, Claimed

LEMMA RacesKeepSlot ==
    ASSUME RaceSlotInv, ClaimsAlone, [RaceNext]_raceVars
    PROVE  RaceSlotInv'
<1>1. RaceInv /\ RaceInv'
  BY RacesKeepLinks DEF RaceSlotInv
<1>2. CASE Atomic
  BY <1>1, <1>2, AtomicStays, OthersKeepSlot DEF RaceInv, LinkInv
<1>3. CASE UNCHANGED raceVars
  <2>1. tok' = tok /\ plan' = plan
    BY <1>3 DEF raceVars, vars
  <2> QED
    BY <1>1, <2>1, OthersKeepSlot DEF NobodyStarts, RowsStay, Exists
<1>4. ASSUME NEW p \in Workers, Commit(p) PROVE RaceSlotInv'
  BY <1>1, <1>4, CommitKeepsSlot
<1>5. CASE DecideExpire \/ \E c \in Counters : DecideRecover(c)
  BY <1>1, <1>5, JobDecisionsKeepSlot
<1>6. ASSUME NEW p \in Requests, NEW t \in Tokens,
             DecideClaim(p, t) \/ DecideRelease(p, t) \/ DecideDrop(p, t)
      PROVE  RaceSlotInv'
  BY <1>1, <1>6, DecisionsKeepSlot
<1>7. ASSUME NEW p \in Requests, NEW b \in Bills,
             DecideCancelBill(p, b) \/ \E t \in Tokens : DecideBill(p, b, t)
      PROVE  RaceSlotInv'
  BY <1>1, <1>7, BillDecisionsKeepSlot
<1> QED
  BY <1>2, <1>3, <1>4, <1>5, <1>6, <1>7 DEF RaceNext

\* Overlapping requests put two customers into the billing slot of a counter in
\* one way only: two claims of that counter that are both decided before either
\* is committed.  An overlapping release, bill, withdrawal, expiry or recovery
\* never does it, however old what it read.
THEOREM OnlyClaimsCollide == RaceSpec /\ []ClaimsAlone => []OneBillingSlot
<1>1. RaceSlotInv => OneBillingSlot
  BY DEF RaceSlotInv
<1> QED
  BY <1>1, InitRaceSlot, RacesKeepSlot, PTL DEF RaceSpec

=============================================================================
