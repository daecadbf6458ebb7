------------------------------ MODULE GiftDesk ------------------------------
(***************************************************************************)
(* Spin-wheel gifts (CH Gift Redemption): a sale earns a gift, the         *)
(* customer spins for its code, a cashier bills it free of charge, and an  *)
(* hourly job expires what is overdue.                                     *)
(*                                                                         *)
(* A request's first read fixes what it sees of the database (InnoDB,      *)
(* REPEATABLE READ); then it locks the gift's row (SELECT ... FOR UPDATE), *)
(* reads the gift as of that first read, and commits.                      *)
(*                                                                         *)
(* A definition directly before another one that it resembles is a mutant. *)
(***************************************************************************)
EXTENDS Integers, FiniteSets

CONSTANTS
    GiftSales,     \* invoices, each with the one gift it may earn
    GiftRequests   \* requests of customers and cashiers

VARIABLES
    sale,      \* invoice -> "none", "submitted" or "cancelled"
    gift,      \* invoice -> its gift
    giftReq,   \* request -> what it asks for, and what it saw
    overdue    \* gifts the job has selected and not yet written

giftVars == <<sale, gift, giftReq, overdue>>

GiftStatuses == {"none", "Issued", "Revealed", "Redeemed", "Expired", "Cancelled"}
NoGift == [status |-> "none", spun |-> FALSE, due |-> FALSE, known |-> FALSE,
           invoices |-> 0, stale |-> 0]
NoRequest == [at |-> "idle", act |-> "spin", i |-> "none", status |-> "none",
              spun |-> FALSE, submitted |-> FALSE]

GiftInit ==
    /\ sale = [i \in GiftSales |-> "none"]
    /\ gift = [i \in GiftSales |-> NoGift]
    /\ giftReq = [r \in GiftRequests |-> NoRequest]
    /\ overdue = {}

-----------------------------------------------------------------------------
(* The sale                                                                *)

\* CHGiftRedemption.before_insert; an invoice has one gift that is active.
IssuedGift == [NoGift EXCEPT !.status = "Issued"]

\* issue_gift_for_invoice_hook: an offer matches, or not, or issuing fails;
\* the sale goes through in any case.
SubmitSale(i, earns) ==
    /\ sale[i] = "none"
    /\ sale' = [sale EXCEPT ![i] = "submitted"]
    /\ gift' = IF earns THEN [gift EXCEPT ![i] = IssuedGift] ELSE gift
    /\ UNCHANGED <<giftReq, overdue>>

\* No hook of a cancelled invoice touches its gift.
CancelSale(i) ==
    /\ sale[i] = "submitted"
    /\ sale' = [sale EXCEPT ![i] = "cancelled"]
    /\ UNCHANGED <<gift, giftReq, overdue>>

Locked(i) == \E r \in GiftRequests : giftReq[r].at = "locked" /\ giftReq[r].i = i

\* A privileged user cancels the gift at the desk.
CancelGift(i) ==
    /\ gift[i].status \in {"Issued", "Revealed"} /\ ~Locked(i)
    /\ gift' = [gift EXCEPT ![i].status = "Cancelled"]
    /\ UNCHANGED <<sale, giftReq, overdue>>

\* expires_at passes.
GiftFallsDue(i) ==
    /\ gift[i].status # "none" /\ ~gift[i].due
    /\ gift' = [gift EXCEPT ![i].due = TRUE]
    /\ UNCHANGED <<sale, giftReq, overdue>>

-----------------------------------------------------------------------------
(* Requests                                                                *)

\* spin_wheel and redeem_gift_code up to their first read.  The link of a
\* used spin token does not resolve; a cashier needs the code.
Ask(r, act, i) ==
    /\ giftReq[r] = NoRequest
    /\ gift[i].status # "none"
    /\ IF act = "spin" THEN ~gift[i].spun ELSE gift[i].known
    /\ giftReq' = [giftReq EXCEPT ![r] =
          [at |-> "asked", act |-> act, i |-> i, status |-> gift[i].status,
           spun |-> gift[i].spun, submitted |-> sale[i] = "submitted"]]
    /\ UNCHANGED <<sale, gift, overdue>>

\* _mark_expired_if_due is by the clock; what it writes, the refusal rolls back.
PastDue(r) == gift[giftReq[r].i].due

\* What the gift must be, as the request saw it.
MayPastDue(r) ==
    LET q == giftReq[r]
    IN  \/ q.act = "spin"   /\ ~q.spun /\ q.status \in {"Issued", "Revealed"}
        \/ q.act = "redeem" /\ q.status = "Revealed" /\ q.submitted
May(r) ==
    LET q == giftReq[r]
    IN  /\ ~PastDue(r)
        /\ \/ q.act = "spin"   /\ ~q.spun /\ q.status \in {"Issued", "Revealed"}
           \/ q.act = "redeem" /\ q.status = "Revealed" /\ q.submitted

\* The row is locked, and the gift judged.
LockAndCheck(r) ==
    /\ giftReq[r].at = "asked" /\ ~Locked(giftReq[r].i)
    /\ giftReq' = [giftReq EXCEPT ![r] = IF May(r) THEN [@ EXCEPT !.at = "locked"]
                                         ELSE NoRequest]
    /\ UNCHANGED <<sale, gift, overdue>>

\* Ghost: the request worked on a gift that was no longer as it saw it.
SawOldGift(r) ==
    LET q == giftReq[r] IN <<q.status, q.spun>> # <<gift[q.i].status, gift[q.i].spun>>
Stales(r) == IF SawOldGift(r) THEN 1 ELSE 0

\* The code is revealed; the answer may be lost on its way.
SpinKeepingCode(r, answered) ==
    LET q == giftReq[r]
    IN  /\ q.at = "locked" /\ q.act = "spin"
        /\ gift' = [gift EXCEPT ![q.i] = [@ EXCEPT !.status = "Spun", !.spun = TRUE]]
        /\ giftReq' = [giftReq EXCEPT ![r] = NoRequest]
        /\ UNCHANGED <<sale, overdue>>
SpinWheel(r, answered) ==
    LET q == giftReq[r]
        g == gift[q.i]
    IN  /\ q.at = "locked" /\ q.act = "spin"
        /\ gift' = [gift EXCEPT ![q.i] =
              [g EXCEPT !.status = IF q.status = "Issued" THEN "Revealed" ELSE g.status,
                        !.spun = TRUE, !.known = g.known \/ answered,
                        !.stale = g.stale + Stales(r)]]
        /\ giftReq' = [giftReq EXCEPT ![r] = NoRequest]
        /\ UNCHANGED <<sale, overdue>>

\* A free invoice, and the gift Redeemed.
RedeemLeavingRevealed(r) ==
    LET q == giftReq[r]
    IN  /\ q.at = "locked" /\ q.act = "redeem"
        /\ gift' = [gift EXCEPT ![q.i] = [@ EXCEPT !.invoices = @ + 1]]
        /\ giftReq' = [giftReq EXCEPT ![r] = NoRequest]
        /\ UNCHANGED <<sale, overdue>>
RedeemGiftCode(r) ==
    LET q == giftReq[r]
        g == gift[q.i]
    IN  /\ q.at = "locked" /\ q.act = "redeem"
        /\ gift' = [gift EXCEPT ![q.i] =
              [g EXCEPT !.status = "Redeemed", !.invoices = g.invoices + 1,
                        !.stale = g.stale + Stales(r)]]
        /\ giftReq' = [giftReq EXCEPT ![r] = NoRequest]
        /\ UNCHANGED <<sale, overdue>>

\* The invoice fails (no stock, no payment mode) and everything rolls back.
GiftRequestFails(r) ==
    /\ giftReq[r].at = "locked"
    /\ giftReq' = [giftReq EXCEPT ![r] = NoRequest]
    /\ UNCHANGED <<sale, gift, overdue>>

-----------------------------------------------------------------------------
(* expire_stale_gift_redemptions                                           *)

SelectOverdue ==
    /\ overdue = {}
    /\ overdue' = {i \in GiftSales : gift[i].status \in {"Issued", "Revealed"} /\ gift[i].due}
    /\ overdue' # {}
    /\ UNCHANGED <<sale, gift, giftReq>>

\* UPDATE ... WHERE name IN (...), once the rows are free
ExpireOverdue ==
    /\ overdue # {} /\ \A i \in overdue : ~Locked(i)
    /\ gift' = [i \in GiftSales |-> IF i \in overdue THEN [gift[i] EXCEPT !.status = "Expired"]
                                    ELSE gift[i]]
    /\ overdue' = {}
    /\ UNCHANGED <<sale, giftReq>>

-----------------------------------------------------------------------------

GiftNext ==
    \/ \E i \in GiftSales :
          \/ \E earns \in BOOLEAN : SubmitSale(i, earns)
          \/ CancelSale(i)
          \/ CancelGift(i)
          \/ GiftFallsDue(i)
          \/ \E r \in GiftRequests, act \in {"spin", "redeem"} : Ask(r, act, i)
    \/ \E r \in GiftRequests :
          \/ LockAndCheck(r)
          \/ \E answered \in BOOLEAN : SpinWheel(r, answered)
          \/ RedeemGiftCode(r)
          \/ GiftRequestFails(r)
    \/ SelectOverdue
    \/ ExpireOverdue

GiftSpec == GiftInit /\ [][GiftNext]_giftVars

-----------------------------------------------------------------------------
(* Properties                                                             *)

\* Statuses of sales and gifts, and what a request may hold.
GiftTypeOK ==
    /\ sale \in [GiftSales -> {"none", "submitted", "cancelled"}]
    /\ gift \in [GiftSales -> [status : GiftStatuses, spun : BOOLEAN, due : BOOLEAN,
                               known : BOOLEAN, invoices : Nat, stale : Nat]]
    /\ giftReq \in [GiftRequests ->
          [at : {"idle", "asked", "locked"}, act : {"spin", "redeem"},
           i : GiftSales \cup {"none"}, status : GiftStatuses, spun : BOOLEAN,
           submitted : BOOLEAN]]
    /\ overdue \subseteq GiftSales

\* A gift is billed free once, and once more at most for each request that
\* worked on what the gift had been before another one committed: whatever
\* is spun twice, retried, cancelled or expired in between.
ExtraGiftsSawOldGift == \A i \in GiftSales : gift[i].invoices <= 1 + gift[i].stale

\* A gift that was billed cannot be had again, unless such a request put it
\* back: the job may write Expired over Redeemed, but nothing reopens it.
BilledGiftIsOver ==
    \A i \in GiftSales :
        gift[i].invoices > 0 /\ gift[i].stale = 0 =>
            gift[i].status \in {"Redeemed", "Expired"}

\* A gift is billed once, as far as the requests read it fresh.
GiftIsBilledOnce ==
    /\ ExtraGiftsSawOldGift
    /\ BilledGiftIsOver

\* A gift is billed free only while it is valid: once the job has expired it,
\* no further invoice comes of it.
ExpiredStaysUnbilled ==
    [][\A i \in GiftSales :
          gift[i].status = "Expired" => gift'[i].invoices = gift[i].invoices]_giftVars

-----------------------------------------------------------------------------
(* What the code's docstrings say and a run refutes                        *)

\* "All state transitions take row-level locks (SELECT ... FOR UPDATE) so
\* concurrent spins/redemptions cannot double-issue." (gift_redemption.py:34)
OneFreeInvoicePerGift == \A i \in GiftSales : gift[i].invoices <= 1

\* "Idempotent: repeated calls return the same code as long as the gift has
\* not been redeemed / expired." (gift_redemption.py:446): a customer who has
\* not got the code may spin again.
CodeCanBeHad ==
    \A i \in GiftSales : gift[i].status = "Revealed" => gift[i].known \/ ~gift[i].spun

=============================================================================
