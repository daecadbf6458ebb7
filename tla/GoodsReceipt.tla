----------------------------- MODULE GoodsReceipt -----------------------------
(***************************************************************************)
(* Receiving one purchase order at the store: Purchase Receipts (GRNs) are *)
(* drafted from it, filled with scanned or generated serial numbers, and   *)
(* submitted.  Two tills may draft at once: the look for an existing GRN   *)
(* (BeginReceipt) and the insert (InsertReceipt) are apart.                *)
(*                                                                         *)
(* A definition directly before another one that it resembles is a mutant. *)
(***************************************************************************)
EXTENDS Integers, FiniteSets

CONSTANTS
    Receipts,   \* Purchase Receipts of the order
    ImeiUnits,  \* serial numbers
    Ordered     \* units on the order's one line

ASSUME ReceiptAssumption == Ordered \in Nat \ {0}

VARIABLES
    receipt,    \* receipt -> its state, serial numbers, custom_serial_generated,
                \* and, while its request runs, the GRNs that one saw
    onBooks,    \* serial numbers whose Serial No is not Delivered
    overlapped  \* ghost: a draft was inserted over a GRN it had not seen

grnVars == <<receipt, onBooks, overlapped>>

ReceiptStates == {"none", "reading", "draft", "submitted", "cancelled"}
NoReceipt == [state |-> "none", serials |-> {}, generated |-> FALSE, seen |-> {}]

GrnInit ==
    /\ receipt = [r \in Receipts |-> NoReceipt]
    /\ onBooks = {}
    /\ overlapped = FALSE

\* _grns_by_po: drafts and submitted GRNs.
Grns == {r \in Receipts : receipt[r].state \in {"draft", "submitted"}}

\* create_pr_from_po: one GRN per order from the POS.
BeginReceiptOverDraft(r) ==
    /\ receipt[r].state = "none" /\ \A q \in Receipts : receipt[q].state # "submitted"
    /\ receipt' = [receipt EXCEPT ![r].state = "reading", ![r].seen = Grns]
    /\ UNCHANGED <<onBooks, overlapped>>
BeginReceipt(r) ==
    /\ receipt[r].state = "none" /\ Grns = {}
    /\ receipt' = [receipt EXCEPT ![r].state = "reading", ![r].seen = Grns]
    /\ UNCHANGED <<onBooks, overlapped>>

InsertReceiptSeen(r) ==
    /\ receipt[r].state = "reading"
    /\ receipt' = [receipt EXCEPT ![r].state = "open"]
    /\ UNCHANGED <<onBooks, overlapped>>
InsertReceipt(r) ==
    /\ receipt[r].state = "reading"
    /\ receipt' = [receipt EXCEPT ![r].state = "draft", ![r].seen = {}]
    /\ overlapped' = (overlapped \/ ~ (Grns \subseteq receipt[r].seen))
    /\ UNCHANGED onBooks

\* _row_generate_state: what a row counts as generated.
Generated(S) == Cardinality(S) = Ordered

Fill(r, S, generated) ==
    /\ receipt[r].state = "draft"
    /\ receipt' = [receipt EXCEPT ![r].serials = S, ![r].generated = generated]
    /\ UNCHANGED <<onBooks, overlapped>>

\* pos_pr_set_imei_serials: the scan replaces the row, complete or not.
SetImeisKeepingFlag(r, S) ==
    /\ Cardinality(S) <= Ordered /\ S \cap onBooks = {}
    /\ Fill(r, S, receipt[r].generated \/ Generated(S))
SetImeis(r, S) ==
    /\ Cardinality(S) <= Ordered /\ S \cap onBooks = {}
    /\ Fill(r, S, Generated(S))

\* pos_pr_generate_barcode_serials: numbers nobody has used.
GenerateBarcodes(r, S) ==
    /\ Generated(S) /\ S \cap (onBooks \cup UNION {receipt[q].serials : q \in Receipts}) = {}
    /\ Fill(r, S, TRUE)

\* CustomPurchaseReceipt.validate and the limit of the order, on submit.
Receivable(r) ==
    /\ receipt[r].serials \cap onBooks = {}
    /\ ~ \E q \in Receipts : receipt[q].state = "submitted"

\* pos_pr_submit
SubmitUnchecked(r) ==
    /\ receipt[r].state = "draft" /\ receipt[r].generated
    /\ receipt' = [receipt EXCEPT ![r].state = "submitted"]
    /\ onBooks' = onBooks \cup receipt[r].serials
    /\ UNCHANGED overlapped
SubmitReceipt(r) ==
    /\ receipt[r].state = "draft" /\ receipt[r].generated /\ Receivable(r)
    /\ receipt' = [receipt EXCEPT ![r].state = "submitted"]
    /\ onBooks' = onBooks \cup receipt[r].serials
    /\ UNCHANGED overlapped

\* From elsewhere: a receipt cancelled or a draft deleted, a unit on the books
\* by another receipt, and a unit delivered.
CancelReceipt(r) ==
    /\ receipt[r].state = "submitted" /\ receipt[r].serials \subseteq onBooks
    /\ receipt' = [receipt EXCEPT ![r].state = "cancelled"]
    /\ onBooks' = onBooks \ receipt[r].serials
    /\ UNCHANGED overlapped

DeleteDraft(r) ==
    /\ receipt[r].state = "draft"
    /\ receipt' = [receipt EXCEPT ![r] = NoReceipt]
    /\ UNCHANGED <<onBooks, overlapped>>

Arrive(u) ==
    /\ u \notin onBooks \cup UNION {receipt[q].serials : q \in Receipts}
    /\ onBooks' = onBooks \cup {u} /\ UNCHANGED <<receipt, overlapped>>

Deliver(u) == u \in onBooks /\ onBooks' = onBooks \ {u} /\ UNCHANGED <<receipt, overlapped>>

GrnNext ==
    \/ \E r \in Receipts :
          \/ BeginReceipt(r) \/ InsertReceipt(r) \/ SubmitReceipt(r)
          \/ CancelReceipt(r) \/ DeleteDraft(r)
          \/ \E S \in SUBSET ImeiUnits : SetImeis(r, S) \/ GenerateBarcodes(r, S)
    \/ \E u \in ImeiUnits : Arrive(u) \/ Deliver(u)

GrnSpec == GrnInit /\ [][GrnNext]_grnVars

-----------------------------------------------------------------------------
(* Properties                                                             *)

ReceiptRows == [state : ReceiptStates, serials : SUBSET ImeiUnits, generated : BOOLEAN,
                seen : SUBSET Receipts]

\* Types.
GrnTypeOK ==
    /\ receipt \in [Receipts -> ReceiptRows]
    /\ onBooks \subseteq ImeiUnits
    /\ overlapped \in BOOLEAN

\* An order has two GRNs only if two tills drafted them at once
\* ("One GRN per PO from the POS", create_pr_from_po).
OneReceiptUnlessOverlapped == Cardinality(Grns) > 1 => overlapped

\* What is submitted has a serial number for every unit, whatever was scanned,
\* generated, and scanned again before (pos_pr_submit trusts a flag).
SubmittedIsComplete ==
    \A r \in Receipts : receipt[r].state = "submitted" =>
        Cardinality(receipt[r].serials) = Ordered

\* The goods of an order come onto the books once, also from two drafts.
ReceivedOnce == Cardinality({r \in Receipts : receipt[r].state = "submitted"}) <= 1

\* An order is received once, whole, and with its serials.
ReceivedAsOrdered ==
    /\ OneReceiptUnlessOverlapped
    /\ SubmittedIsComplete
    /\ ReceivedOnce

=============================================================================
