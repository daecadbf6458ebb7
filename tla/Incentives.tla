------------------------------ MODULE Incentives ------------------------------
(***************************************************************************)
(* The incentive ledger of one sales executive: an entry per line of a     *)
(* bill, negative ones for the lines of each credit note, the back-fill of *)
(* bills that have none, and the approval and payment of entries.          *)
(*                                                                         *)
(* One action is one committed request, except the back-fill, which reads  *)
(* its bills and their entries in one step and writes in another: its      *)
(* later look at the ledger is served from the snapshot of the first.      *)
(*                                                                         *)
(* A definition directly before another one that it resembles is a mutant. *)
(***************************************************************************)
EXTENDS Integers, FiniteSets

CONSTANTS
    EarnSales,   \* bills billed by the executive
    SaleLines,   \* 1..SaleLines are the lines of a bill that a slab matches
    LineUnits,   \* line -> units sold on it, which may come back one at a time
    EarnReturns, \* credit notes against these bills
    Backfills    \* back-fill requests

ASSUME EarnAssumption ==
    /\ SaleLines \in Nat /\ LineUnits \in [1..SaleLines -> Nat \ {0}]
    /\ "sale" \notin EarnReturns \cup Backfills /\ EarnReturns \cap Backfills = {}

VARIABLES
    billed,   \* bills submitted
    returned, \* rows of submitted credit notes: [note, sale, line]
    entries,  \* POS Incentive Ledger
    fill      \* back-fill -> the bills it examines, those it found entries of

earnVars == <<billed, returned, entries, fill>>

NoFill == [phase |-> "new", bills |-> {}, paired |-> {}]
LinesOf == 1..SaleLines
Sale == "sale"

EarnInit ==
    /\ billed = {}
    /\ returned = {}
    /\ entries = {}
    /\ fill = [f \in Backfills |-> NoFill]

-----------------------------------------------------------------------------
(* Entries *)

Entry(writer, s, line) == [writer |-> writer, sale |-> s, line |-> line, status |-> "Pending"]
EntriesOf(s) == {e \in entries : e.sale = s}

\* _create_incentive_entries: line by line; a failure leaves the lines before
\* it, because the callers catch it without a savepoint.
EarnedFromZero(writer, s, upTo) == {Entry(writer, s, line) : line \in 0..upTo}
Earned(writer, s, upTo) == {Entry(writer, s, line) : line \in 1..upTo}

\* create_pos_invoice submits the bill whether the entries succeed or not.
Bill(s) ==
    /\ s \notin billed
    /\ \E upTo \in 0..SaleLines :
         /\ billed' = billed \cup {s}
         /\ entries' = entries \cup Earned(Sale, s, upTo)
    /\ UNCHANGED <<returned, fill>>

\* One credit note brings one unit of some lines back, while the line has any
\* left (ERPNext): several partial returns of one line are several notes.
BringsBack(n, s, lines) ==
    /\ s \in billed /\ lines # {}
    /\ \A r \in returned : r.note # n
    /\ \A line \in lines :
         Cardinality({r \in returned : r.sale = s /\ r.line = line}) < LineUnits[line]
    /\ returned' = returned \cup {[note |-> n, sale |-> s, line |-> line] : line \in lines}

\* create_pos_return to the end: an entry for each of its rows, or no return
\* (_create_return_incentive_entries).
ClawBack(n, s, lines) ==
    /\ BringsBack(n, s, lines)
    /\ entries' = entries \cup {Entry(n, s, line) : line \in lines}
    /\ UNCHANGED <<billed, fill>>

\* approve_pos_return submits a draft and leaves the ledger alone.
ReleaseDraft(n, s, lines) ==
    /\ BringsBack(n, s, lines)
    /\ UNCHANGED <<billed, entries, fill>>

-----------------------------------------------------------------------------
(* backfill_missing_incentive_ledger *)

Paired == {s \in billed : EntriesOf(s) # {}}

BackfillReads(f) ==
    /\ fill[f].phase = "new"
    /\ fill' = [fill EXCEPT ![f] = [phase |-> "read", bills |-> billed, paired |-> Paired]]
    /\ UNCHANGED <<billed, returned, entries>>

MissingIgnoringPairs(f) == fill[f].bills
Missing(f) == fill[f].bills \ fill[f].paired

BackfillWrites(f) ==
    /\ fill[f].phase = "read"
    /\ \E upTo \in [Missing(f) -> 0..SaleLines] :
         entries' = entries \cup UNION {Earned(f, s, upTo[s]) : s \in Missing(f)}
    /\ fill' = [fill EXCEPT ![f].phase = "done"]
    /\ UNCHANGED <<billed, returned>>

-----------------------------------------------------------------------------
(* Approval and payment of an entry *)

Allowed(old) ==
    CASE old = "Pending"  -> {"Approved", "Cancelled"}
      [] old = "Approved" -> {"Paid", "Cancelled"}
      [] OTHER            -> {}

\* approve_incentive, mark_incentive_paid, cancel_incentive
Move(e, new) ==
    /\ new \in Allowed(e.status)
    /\ entries' = (entries \ {e}) \cup {[e EXCEPT !.status = new]}
    /\ UNCHANGED <<billed, returned, fill>>

EarnNext ==
    \/ \E s \in EarnSales :
          \/ Bill(s)
          \/ \E n \in EarnReturns, lines \in SUBSET LinesOf :
                ClawBack(n, s, lines) \/ ReleaseDraft(n, s, lines)
    \/ \E f \in Backfills : BackfillReads(f) \/ BackfillWrites(f)
    \/ \E e \in entries, new \in {"Approved", "Paid", "Cancelled", "Pending"} : Move(e, new)

EarnSpec == EarnInit /\ [][EarnNext]_earnVars

-----------------------------------------------------------------------------
(* Properties                                                             *)

Entries == [writer : {Sale} \cup EarnReturns \cup Backfills, sale : EarnSales, line : LinesOf,
            status : {"Pending", "Approved", "Paid", "Cancelled"}]
Fills == [phase : {"new", "read", "done"}, bills : SUBSET EarnSales, paired : SUBSET EarnSales]

\* Every entry is of a line of its sale, with a status of the ledger.
EarnTypeOK ==
    /\ billed \in SUBSET EarnSales
    /\ returned \in SUBSET [note : EarnReturns, sale : EarnSales, line : LinesOf]
    /\ entries \in SUBSET Entries
    /\ fill \in [Backfills -> Fills]

EarnedBy(w, s) == {e \in entries : e.writer = w /\ e.sale = s}

\* A line has one entry of the sale, one of each credit note that brought it
\* back and one of a back-fill each, whatever became of them; it earns twice
\* only through two overlapping back-fills that both read the ledger before
\* either wrote: a back-fill never adds to a bill that earned at the sale, in
\* part or in full, nor to one that had an entry when it read, be it only of a
\* return.
EarnedOnce ==
    /\ \A s \in EarnSales, f \in Backfills : EarnedBy(f, s) # {} =>
         EarnedBy(Sale, s) = {} /\ s \in billed /\ s \in fill[f].bills \ fill[f].paired
    /\ \A e, n \in entries :
         e.writer = n.writer /\ e.sale = n.sale /\ e.line = n.line => e = n
    /\ \A e \in entries : e.writer \in EarnReturns =>
         [note |-> e.writer, sale |-> e.sale, line |-> e.line] \in returned

-----------------------------------------------------------------------------
(* What the code's comments say and a run refutes                          *)

\* "a return without incentive recovery is a financial integrity failure"
\* (pos_api.py:7153): a draft that a manager releases recovers nothing.
ReturnsAreRecovered ==
    \A r \in returned : \E e \in entries :
        e.writer = r.note /\ e.sale = r.sale /\ e.line = r.line

=============================================================================
