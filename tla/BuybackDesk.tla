----------------------------- MODULE BuybackDesk -----------------------------
(***************************************************************************)
(* One traded-in device at the buyback desk: its assessment, its           *)
(* inspection, its Buyback Order, and the two ways its value leaves the    *)
(* store: paid out at the desk, or taken off a sale as exchange credit.    *)
(*                                                                         *)
(* A request reads (Begin) and later commits; what it read is its view.    *)
(* An order that is saved must not have been modified since (`version`);   *)
(* a field that is set in the database is written whatever it has become.  *)
(* The status machine of the order is the buyback app's, modelled from how *)
(* the POS calls it.                                                       *)
(*                                                                         *)
(* A definition directly before another one that it resembles is a mutant. *)
(***************************************************************************)
EXTENDS Integers

CONSTANTS
    BuyRequests,  \* requests of tills, each served once
    DevicePrice,  \* the final price of the device
    MaxVersion    \* bound: how often the order is saved

ASSUME BuybackAssumption == {DevicePrice, MaxVersion} \subseteq Nat \ {0}

VARIABLES
    traded,     \* the assessment: still open to a deal, and the sale it is linked to
    inspection, \* "none" or the status of the Buyback Inspection
    order,      \* the Buyback Order
    deal,       \* request -> what it does and what it read
    credits,    \* submitted bills that took the exchange credit off
    outread     \* ghost: what was written over without having been read

buyVars == <<traded, inspection, order, deal, credits, outread>>

Settled == {"Paid", "Closed"}
Refused == {"Cancelled", "Rejected"}
OrderStatuses == {"none", "AwaitingApproval", "Approved", "AwaitingCustomerApproval",
                  "CustomerApproved", "OtpVerified", "ReadyToPay"} \cup Settled \cup Refused
NoOrderYet == [status |-> "none", approved |-> FALSE, paid |-> 0, sold |-> FALSE,
               evidence |-> 0, version |-> 0]
NoDeal == [at |-> "new", act |-> "none", order |-> NoOrderYet, linked |-> FALSE]

BuyInit ==
    /\ traded = [open |-> TRUE, linked |-> FALSE]
    /\ inspection = "none"
    /\ order = NoOrderYet
    /\ deal = [r \in BuyRequests |-> NoDeal]
    /\ credits = 0
    /\ outread = {}

-----------------------------------------------------------------------------
(* Up to the order                                                         *)

\* pos_create_inspection: an inspection there is returned as it is.
CreateInspection ==
    /\ inspection = "none" /\ traded.open
    /\ inspection' = "Draft"
    /\ UNCHANGED <<traded, order, deal, credits, outread>>

\* pos_update_inspector_finding
MayRecordFinding == inspection \in {"Draft", "InProgress"}

\* order.insert and submit: the app approves it at once or asks for approval.
Raised(new) ==
    \E s \in {"Approved", "AwaitingApproval"} :
        new = [NoOrderYet EXCEPT !.status = s, !.version = 1]

\* pos_start_buyback_order: an order of the assessment is returned as it is,
\* also when a request in between has made it (the unique constraint).
StartOrder ==
    /\ order.status = "none" /\ Raised(order')
    /\ UNCHANGED <<traded, inspection, deal, credits, outread>>

\* pos_complete_inspection: completes, and raises the order unless there is one.
CompleteInspection ==
    /\ MayRecordFinding
    /\ inspection' = "Completed"
    /\ IF order.status = "none" THEN Raised(order') ELSE UNCHANGED order
    /\ UNCHANGED <<traded, deal, credits, outread>>

\* External: the manager's answer, the customer's own approval by its link,
\* a payment captured in the portal, the bank's confirmation, a cancellation,
\* the close by finance, and the assessment's end.
Saved(new) == [new EXCEPT !.version = @ + 1]
Elsewhere ==
    /\ order.version < MaxVersion
    /\ order.status # "none"
    /\ \/ order.status = "AwaitingApproval"
          /\ \E s \in {"Approved", "Rejected"} : order' = Saved([order EXCEPT !.status = s])
       \/ order.status = "AwaitingCustomerApproval"
          /\ order' = Saved([order EXCEPT !.status = "CustomerApproved", !.approved = TRUE])
       \/ order.status \notin Settled \cup Refused /\ order.paid = 0
          /\ order' = Saved([order EXCEPT !.paid = 1])
       \/ order.status = "ReadyToPay"
          /\ order' = Saved([order EXCEPT !.status = "Paid", !.paid = DevicePrice])
       \/ order.status = "Paid" /\ order' = Saved([order EXCEPT !.status = "Closed"])
       \/ order.status \notin Settled \cup Refused /\ order.paid = 0
          /\ order' = Saved([order EXCEPT !.status = "Cancelled"])
    /\ UNCHANGED <<traded, inspection, deal, credits, outread>>

Expire ==
    /\ traded.open /\ traded' = [traded EXCEPT !.open = FALSE]
    /\ UNCHANGED <<inspection, order, deal, credits, outread>>

-----------------------------------------------------------------------------
(* What a request checks on its view                                       *)

\* pos_approve_customer_buyback
MayApprove(o) == o.status \notin Settled \cup Refused

\* pos_settle_buyback_cashback
MayPay(o) == o.status \notin Settled \cup Refused /\ o.approved

\* _resolve_exchange_credit, with the order of the assessment or on the
\* assessment alone.  The locked read is of the row; what is checked is the
\* snapshot.
UsesOrder(o) == o.status \notin {"none", "Cancelled"}
MayCreditAgain(o, linked) ==
    traded.open /\ (UsesOrder(o) => o.status \notin {"AwaitingApproval", "Rejected"})
MayCredit(o, linked) ==
    /\ traded.open /\ ~linked
    /\ UsesOrder(o) => o.status \notin {"AwaitingApproval", "Rejected", "Closed"} /\ ~o.sold

DealActs == {"sign", "otp", "link", "pay", "bank", "credit"}
Begin(r, act) ==
    /\ deal[r].at = "new"
    /\ CASE act \in {"sign", "otp"} -> order.status # "none" /\ MayApprove(order)
         [] act = "link"   -> order.status # "none"
         [] act \in {"pay", "bank"} -> order.status # "none" /\ MayPay(order)
         [] act = "credit" -> MayCredit(order, traded.linked)
    /\ deal' = [deal EXCEPT ![r] = [at |-> "running", act |-> act, order |-> order,
                                    linked |-> traded.linked]]
    /\ UNCHANGED <<traded, inspection, order, credits, outread>>

-----------------------------------------------------------------------------
(* What it writes                                                          *)

Ends(r) == deal' = [deal EXCEPT ![r] = [NoDeal EXCEPT !.at = "done"]]

\* Document.save: check_if_latest, then every field of the view.
CurrentOrNot(o) == order.version < MaxVersion
Current(o) == o.version = order.version /\ order.version < MaxVersion
Save(r, new) ==
    /\ Current(deal[r].order)
    /\ order' = Saved(new)
    /\ outread' = IF deal[r].order = order THEN outread ELSE outread \cup {"order"}

\* A signature is for an order that waits for the customer, or is a retry; an
\* OTP is the approval itself.  KYC and payout account are written with it.
Approve(r, act) ==
    LET o == deal[r].order
    IN  /\ deal[r].at = "running" /\ deal[r].act = act
        /\ \/ act = "otp"
              /\ Save(r, [o EXCEPT !.status = "OtpVerified", !.approved = TRUE, !.evidence = 1])
           \/ act = "sign" /\ o.status \in {"Approved", "AwaitingCustomerApproval"}
              /\ Save(r, [o EXCEPT !.status = "CustomerApproved", !.approved = TRUE,
                                   !.evidence = 1])
           \/ act = "sign" /\ o.status \notin {"Approved", "AwaitingCustomerApproval"}
              /\ o.approved /\ Save(r, [o EXCEPT !.evidence = 1 - @])
        /\ Ends(r)
        /\ UNCHANGED <<traded, inspection, credits>>

\* pos_send_approval_link: messages first, then the status, written blindly.
SendLinkAlways(r) ==
    /\ deal[r].at = "running" /\ deal[r].act = "link"
    /\ order.version < MaxVersion
    /\ order' = Saved([order EXCEPT !.status = "AwaitingCustomerApproval"])
    /\ Ends(r)
    /\ UNCHANGED <<traded, inspection, credits, outread>>
SendLink(r) ==
    LET o == deal[r].order
    IN  /\ deal[r].at = "running" /\ deal[r].act = "link"
        /\ IF o.status = "Approved"
           THEN /\ order.version < MaxVersion
                /\ order' = Saved([order EXCEPT !.status = "AwaitingCustomerApproval"])
                /\ outread' = IF o.status = order.status THEN outread ELSE outread \cup {"status"}
           ELSE UNCHANGED <<order, outread>>
        /\ Ends(r)
        /\ UNCHANGED <<traded, inspection, credits>>

\* mark_ready_to_pay, the payment of what remains, mark_paid; closing is best
\* effort.  A bank transfer waits for the bank.
RemainingPrice(o) == DevicePrice
StillToPay(o) == DevicePrice - o.paid

PayOut(r) ==
    LET o == deal[r].order
    IN  /\ deal[r].at = "running" /\ deal[r].act = "pay"
        /\ \E s \in Settled :
              Save(r, [o EXCEPT !.status = s, !.paid = @ + StillToPay(o), !.evidence = 1])
        /\ Ends(r)
        /\ UNCHANGED <<traded, inspection, credits>>

PayByBank(r) ==
    LET o == deal[r].order
    IN  /\ deal[r].at = "running" /\ deal[r].act = "bank"
        /\ Save(r, [o EXCEPT !.status = "ReadyToPay", !.evidence = 1])
        /\ Ends(r)
        /\ UNCHANGED <<traded, inspection, credits>>

\* create_pos_invoice: the bill, the assessment's link, and the order closed
\* without a change of its version.
LinkOrderHalf(o) == [order EXCEPT !.sold = TRUE, !.status = "Sold"]
LinkOrder(o) == IF UsesOrder(o) THEN [order EXCEPT !.sold = TRUE, !.status = "Closed"]
                ELSE order
TakeCredit(r) ==
    LET d == deal[r]
    IN  /\ d.at = "running" /\ d.act = "credit"
        /\ credits' = credits + 1
        /\ traded' = [traded EXCEPT !.linked = TRUE]
        /\ order' = LinkOrder(d.order)
        /\ outread' = outread \cup (IF d.linked = traded.linked THEN {} ELSE {"link"})
                              \cup (IF d.order = order THEN {} ELSE {"order"})
        /\ Ends(r)
        /\ UNCHANGED inspection

\* A refusal after the read, or a lost request.
Drop(r) ==
    /\ deal[r].at = "running" /\ Ends(r)
    /\ UNCHANGED <<traded, inspection, order, credits, outread>>

BuyNext ==
    \/ CreateInspection \/ StartOrder \/ CompleteInspection
    \/ Elsewhere \/ Expire
    \/ \E r \in BuyRequests :
          \/ \E act \in DealActs : Begin(r, act)
          \/ \E act \in {"sign", "otp"} : Approve(r, act)
          \/ SendLink(r) \/ PayOut(r) \/ PayByBank(r) \/ TakeCredit(r) \/ Drop(r)

BuySpec == BuyInit /\ [][BuyNext]_buyVars

-----------------------------------------------------------------------------
(* Properties                                                             *)

\* Types and bounds.
OrderRows == [status : OrderStatuses, approved : BOOLEAN, paid : 0..DevicePrice,
              sold : BOOLEAN, evidence : {0, 1}, version : 0..MaxVersion]
DealRows == [at : {"new", "running", "done"}, act : DealActs \cup {"none"},
             order : OrderRows, linked : BOOLEAN]
BuyTypeOK ==
    /\ traded \in [open : BOOLEAN, linked : BOOLEAN]
    /\ inspection \in {"none", "Draft", "InProgress", "Completed"}
    /\ order \in OrderRows
    /\ deal \in [BuyRequests -> DealRows]
    /\ credits \in Nat
    /\ outread \subseteq {"order", "status", "link"}

\* A customer is never paid more than the final price, whatever payments a
\* portal, a retry or an overlapping till has put on the order before
\* (pos_settle_buyback_cashback pays what remains, on an order nobody saved
\* in between).
NeverOverpaid == order.paid <= DevicePrice

\* The credit of one assessment is on two bills only if the second one was
\* judged before the first one was linked (_resolve_exchange_credit).
CreditedOnce == credits > 1 => "link" \in outread

\* An order paid in full stays settled, unless a link sent to the customer or a
\* sale overtook it with what it had read before (the idempotent returns of
\* the settlement rest on the status).
PaidIsSettled ==
    order.paid = DevicePrice /\ outread = {} /\ DevicePrice > 1 => order.status \in Settled

\* Each of the two ways a device's value leaves the store gives it once: the
\* payout stops at the price, the credit is on one bill, as far as nothing was
\* overtaken.  That only one of the two is taken is not kept: ValueGivenOnce
\* is refuted, without any overlap.
CreditAndPayoutEachOnce ==
    /\ NeverOverpaid
    /\ CreditedOnce
    /\ PaidIsSettled

\* Once an order is paid, a till does not rewrite the identity and the account
\* the payment was authorised against (pos_approve_customer_buyback).
EvidenceIsFinal == [][order.status = "Paid" => order'.evidence = order.evidence]_buyVars

-----------------------------------------------------------------------------
(* What the till's own text says and a run refutes                         *)

\* The customer chooses one of two settlements, "Buyback = cash/UPI/bank payout
\* / Exchange = trade-in for a new device" (buyback_workspace.js:3007).
\* _resolve_exchange_credit reads neither the order's settlement nor its
\* payments: a paid order that is not closed yet, or an assessment whose order
\* is raised later, gives both.
ValueGivenOnce == order.paid > 0 => credits = 0

=============================================================================
