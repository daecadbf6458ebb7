------------------------------ MODULE RepairDesk ------------------------------
(***************************************************************************)
(* Repairs at the counter: a device is taken in as a Service Request, for  *)
(* a walk-in token or not; GoFix works on it; and the till bills it, by    *)
(* the repair closure, by a plain collection, or in the cart of a sale.    *)
(* A billing request reads (BeginBill) and commits later, and marks the    *)
(* Service Request blindly.                                                *)
(*                                                                         *)
(* A definition directly before another one that it resembles is a mutant. *)
(***************************************************************************)
EXTENDS Integers, FiniteSets

CONSTANTS
    Jobs,        \* Service Requests
    BillRequests,\* billing requests of tills, each served once
    MaxSpares    \* bound: spare parts consumed by a job

ASSUME RepairAssumption == MaxSpares \in Nat

VARIABLES
    job,        \* Service Request -> its decision, bill link, spares and order
    walkin,     \* the walk-in token the requests are raised against
    billReq,    \* request -> what it does, for which job, and what it read
    repairBills,\* submitted bills
    overtaken   \* ghost: jobs billed by a request that had read another state

repairVars == <<job, walkin, billReq, repairBills, overtaken>>

NoJob == [stage |-> "none", linked |-> FALSE, spares |-> 0, order |-> "none"]
NoBillReq == [at |-> "new", act |-> "none", job |-> NoJob, on |-> "none"]

RepairInit ==
    /\ job = [j \in Jobs |-> NoJob]
    /\ walkin = [converted |-> FALSE, to |-> {}]
    /\ billReq = [r \in BillRequests |-> NoBillReq]
    /\ repairBills = {}
    /\ overtaken = {}

-----------------------------------------------------------------------------
(* Taking the device in                                                    *)

\* link_token_to_service_request: refused for a token that is over.
LinkTokenAgain(j) == [converted |-> TRUE, to |-> walkin.to \cup {j}]
LinkToken(j) == IF walkin.converted THEN walkin
                ELSE [converted |-> TRUE, to |-> {j}]

\* create_service_intake_from_pos: linking the token and opening the job are
\* best effort; the request stands in any case.
Intake(j) ==
    /\ job[j].stage = "none"
    /\ \E stage \in {"Draft", "Accepted"} :
          job' = [job EXCEPT ![j] = [NoJob EXCEPT !.stage = stage]]
    /\ walkin' \in {walkin, LinkToken(j)}
    /\ UNCHANGED <<billReq, repairBills, overtaken>>

\* convert_token_to_gofix, from the queue.
ConvertWalkin(j) ==
    /\ job[j].stage = "none" /\ ~walkin.converted
    /\ job' = [job EXCEPT ![j] = [NoJob EXCEPT !.stage = "Accepted"]]
    /\ walkin' = LinkToken(j)
    /\ UNCHANGED <<billReq, repairBills, overtaken>>

\* create_quick_job_card: nothing is kept unless accepting yields an order.
QuickJobCard(j) ==
    /\ job[j].stage = "none"
    /\ job' = [job EXCEPT ![j] = [NoJob EXCEPT !.stage = "Accepted", !.order = "open"]]
    /\ UNCHANGED <<walkin, billReq, repairBills, overtaken>>

\* create_repair_job_from_pos, likewise.
AcceptJob(j) ==
    /\ job[j].stage = "Draft"
    /\ job' = [job EXCEPT ![j].stage = "Accepted", ![j].order = "open"]
    /\ UNCHANGED <<walkin, billReq, repairBills, overtaken>>

\* External: GoFix accepts, consumes a spare, confirms the estimate, completes.
Bench(j) ==
    /\ \/ job[j].stage = "Draft" /\ job' = [job EXCEPT ![j].stage = "Accepted"]
       \/ job[j].stage = "Accepted" /\ job[j].spares < MaxSpares
          /\ job' = [job EXCEPT ![j].spares = @ + 1]
       \/ job[j].stage = "Accepted" /\ job[j].order = "none"
          /\ job' = [job EXCEPT ![j].order = "open"]
       \/ job[j].stage = "Accepted" /\ job' = [job EXCEPT ![j].stage = "Completed"]
    /\ UNCHANGED <<walkin, billReq, repairBills, overtaken>>

-----------------------------------------------------------------------------
(* Billing it                                                              *)

Acts == {"close", "collect", "cart"}

\* close_repair_order guards against a double bill; _validate_service_cart_rows
\* wants a completed, unbilled job; collect_repair_payment asks for neither.
MayCart(v) == v.stage = "Completed" /\ ~v.linked
MayCloseAgain(v) == v.stage # "none"
MayClose(v) == v.stage # "none" /\ ~v.linked
MayCollect(v) == v.stage # "none"
MayBill(act, v) ==
    \/ act = "cart" /\ MayCart(v)
    \/ act = "close" /\ MayClose(v)
    \/ act = "collect" /\ MayCollect(v)

BeginBill(r, act, j) ==
    /\ billReq[r].at = "new" /\ MayBill(act, job[j])
    /\ billReq' = [billReq EXCEPT ![r] = [at |-> "running", act |-> act, job |-> job[j], on |-> j]]
    /\ UNCHANGED <<job, walkin, repairBills, overtaken>>

BilledSparesNone(v) == 0
\* _normalize_repair_spare_parts: every consumed spare as read, once.
BilledSpares(v) == v.spares

\* The cart and the collection bill one line for everything.
ClosureBill(r) ==
    [by |-> r, act |-> "close", on |-> billReq[r].on, spares |-> BilledSpares(billReq[r].job)]
OneLineBill(r) ==
    [by |-> r, act |-> billReq[r].act, on |-> billReq[r].on, spares |-> 0]

InvoicedVaguely(act, now) == {[now EXCEPT !.linked = TRUE, !.stage = "Billed"]}
InvoicedUnlinked(act, now) ==
    {[now EXCEPT !.stage = "Invoiced", !.order = IF @ = "open" THEN "closed" ELSE @]}

\* collect_repair_payment links the request and closes its order, and leaves
\* the decision.
Collected(now) ==
    [now EXCEPT !.linked = TRUE, !.order = IF @ = "open" THEN "closed" ELSE @]

\* A closure or a cart: the link, the decision, and the Service Order (the
\* closure closes it only when the quality check passed).
Invoiced(act, now) ==
    {[now EXCEPT !.linked = TRUE, !.stage = "Invoiced", !.order = o] :
        o \in IF now.order # "open" THEN {now.order}
              ELSE IF act = "close" THEN {"open", "closed"} ELSE {"closed"}}
Marked(act, now) == IF act = "collect" THEN {Collected(now)} ELSE Invoiced(act, now)

CommitBill(r) ==
    LET q == billReq[r]
    IN  /\ q.at = "running"
        /\ repairBills' = repairBills \cup
               {IF q.act = "close" THEN ClosureBill(r) ELSE OneLineBill(r)}
        /\ overtaken' = IF job[q.on] = q.job THEN overtaken ELSE overtaken \cup {q.on}
        /\ \E v \in Marked(q.act, job[q.on]) : job' = [job EXCEPT ![q.on] = v]
        /\ billReq' = [billReq EXCEPT ![r] = [NoBillReq EXCEPT !.at = "done"]]
        /\ UNCHANGED walkin

\* Refused later on, or lost.
DropBill(r) ==
    /\ billReq[r].at = "running"
    /\ billReq' = [billReq EXCEPT ![r] = [NoBillReq EXCEPT !.at = "done"]]
    /\ UNCHANGED <<job, walkin, repairBills, overtaken>>

RepairNext ==
    \/ \E j \in Jobs :
          \/ Intake(j) \/ ConvertWalkin(j) \/ QuickJobCard(j) \/ AcceptJob(j) \/ Bench(j)
          \/ \E r \in BillRequests, act \in Acts : BeginBill(r, act, j)
    \/ \E r \in BillRequests : CommitBill(r) \/ DropBill(r)

RepairSpec == RepairInit /\ [][RepairNext]_repairVars

-----------------------------------------------------------------------------
(* Properties                                                             *)

BillsOf(j) == {b \in repairBills : b.on = j}
Guarded(b) == b.act \in {"close", "cart"}

\* Types.
JobRows == [stage : {"none", "Draft", "Accepted", "Completed", "Invoiced"}, linked : BOOLEAN,
            spares : 0..MaxSpares, order : {"none", "open", "closed"}]
RepairTypeOK ==
    /\ job \in [Jobs -> JobRows]
    /\ walkin \in [converted : BOOLEAN, to : SUBSET Jobs]
    /\ billReq \in [BillRequests -> [at : {"new", "running", "done"}, act : Acts \cup {"none"},
                                     job : JobRows, on : Jobs \cup {"none"}]]
    /\ repairBills \subseteq [by : BillRequests, act : Acts, on : Jobs, spares : 0..MaxSpares]
    /\ overtaken \subseteq Jobs

\* The closures and carts of a job bill it once, unless one of them had read
\* it before another committed (close_repair_order, "Guard: don't double-bill").
GuardedBillsOnce ==
    \A j \in Jobs \ overtaken : Cardinality({b \in BillsOf(j) : Guarded(b)}) <= 1

\* A job that one closure billed, as it had read it, leaves no spare unbilled
\* (_normalize_repair_spare_parts, "Every consumed spare must be billed
\* exactly once").
SparesAreBilled ==
    \A j \in Jobs \ overtaken : \A b \in BillsOf(j) :
        BillsOf(j) = {b} /\ b.act = "close" => b.spares = job[j].spares

\* A job's link, its decision and its order tell of a bill that is there.
InvoicedIsBilled ==
    \A j \in Jobs :
        job[j].linked \/ job[j].stage = "Invoiced" \/ job[j].order = "closed"
            => BillsOf(j) # {} /\ job[j].linked

\* A token is converted to one request, however many the counter raises for it.
TokenNamesOneRequest ==
    /\ walkin.converted <=> walkin.to # {}
    /\ Cardinality(walkin.to) <= 1
    /\ \A j \in walkin.to : job[j].stage # "none"

\* A repair is billed once by the guarded ways, with its spares, and what says
\* it was billed names a bill that is there.
RepairsAreBilled ==
    /\ GuardedBillsOnce
    /\ SparesAreBilled
    /\ InvoicedIsBilled
    /\ TokenNamesOneRequest

\* Refuted: a repair is billed once, when its bills do not overlap.
\* collect_repair_payment looks for no earlier bill.
RepairBilledOnce == \A j \in Jobs \ overtaken : Cardinality(BillsOf(j)) <= 1

=============================================================================
