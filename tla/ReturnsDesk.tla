----------------------------- MODULE ReturnsDesk -----------------------------
(***************************************************************************)
(* Returns against one submitted bill of serialized devices, each sold     *)
(* with a protection plan on a row of its own; the plan has issued the     *)
(* customer a voucher.  A credit note is submitted at once by a manager or *)
(* waits as a draft for one.                                               *)
(*                                                                         *)
(* One action is one committed request.                                    *)
(*                                                                         *)
(* A definition directly before another one that it resembles is a mutant. *)
(***************************************************************************)
EXTENDS Integers, FiniteSets

CONSTANTS
    ReturnDevices,  \* devices on the original bill
    Notes           \* credit notes

VARIABLES
    note,      \* note -> the Sales Invoice with is_return set
    serial,    \* device -> CH Serial Lifecycle status
    plan,      \* device -> Active VAS Plans status of its plan
    planVoucher, \* device -> voucher the plan issued: "whole", "drawn", "void"
    claimOpen, \* devices whose plan has a warranty claim in progress
    wallet     \* note -> refund instruments issued for it

returnVars == <<note, serial, plan, planVoucher, claimOpen, wallet>>

Rows == {"device", "plan"} \X ReturnDevices
DevicesIn(rows) == {d \in ReturnDevices : <<"device", d>> \in rows}
PlanRowsIn(rows) == {d \in ReturnDevices : <<"plan", d>> \in rows}

NoNote == [status |-> "none", rows |-> {}, toCancel |-> {}, creditOnly |-> FALSE,
           method |-> "OriginalTender", direct |-> FALSE, warned |-> FALSE]

ReturnInit ==
    /\ note = [n \in Notes |-> NoNote]
    /\ serial = [d \in ReturnDevices |-> "Sold"]
    /\ plan = [d \in ReturnDevices |-> "Active"]
    /\ planVoucher = [d \in ReturnDevices |-> "whole"]
    /\ claimOpen = {}
    /\ wallet = [n \in Notes |-> 0]

Submitted(n) == note[n].status = "submitted"
Returned == UNION {note[n].rows : n \in {m \in Notes : Submitted(m)}}

-----------------------------------------------------------------------------
(* The steps of a return                                                   *)

\* check_serial_returnable
SerialReturnable(d) == <<"device", d>> \notin Returned /\ serial[d] = "Sold"

\* validate_returned_items of ERPNext, at every save: drafts do not count.
NotReturnedYet(rows) == rows \cap Returned = {}

\* _auto_include_bound_vas_rows: active plans go back with their devices.
WithBoundPlans(rows) ==
    rows \cup {<<"plan", d>> : d \in {e \in DevicesIn(rows) : plan[e] = "Active"}}

\* _collect_plans_to_cancel
PlansToCancel(rows) ==
    {d \in DevicesIn(rows) \cup PlanRowsIn(rows) : plan[d] = "Active"}

\* _cancel_linked_sold_plans and _void_vouchers_for_sold_plan for one plan; a
\* claim in progress makes the plan itself refuse.
CanCancelPlan(d) == planVoucher[d] # "drawn" /\ d \notin claimOpen

\* The savepoint around the cancellations: all of them or none.
CancelPlansOneByOne(ds, all) ==
    /\ plan' = [d \in ReturnDevices |->
                  IF d \in ds /\ CanCancelPlan(d) THEN "Cancelled" ELSE plan[d]]
    /\ planVoucher' = [d \in ReturnDevices |-> IF all /\ d \in ds THEN "void" ELSE planVoucher[d]]
CancelPlans(ds, all) ==
    /\ plan' = [d \in ReturnDevices |-> IF all /\ d \in ds THEN "Cancelled" ELSE plan[d]]
    /\ planVoucher' = [d \in ReturnDevices |-> IF all /\ d \in ds THEN "void" ELSE planVoucher[d]]

\* _return_serial_lifecycle, whatever update_stock says: Returned, then In Stock.
TakeBackHalf(rows) ==
    serial' = [d \in ReturnDevices |->
                 IF d \in DevicesIn(rows) /\ serial[d] = "Sold" THEN "Returned" ELSE serial[d]]
TakeBack(rows) ==
    serial' = [d \in ReturnDevices |->
                 IF d \in DevicesIn(rows) /\ serial[d] = "Sold" THEN "InStock" ELSE serial[d]]

\* _apply_phase4_return_side_effects: an instrument unless one is there.
IssueForEvery(n, method) == wallet' = [wallet EXCEPT ![n] = 1]
IssueInstrument(n, method) ==
    wallet' = [wallet EXCEPT ![n] = IF method = "OriginalTender" THEN @ ELSE 1]

\* _return_requires_approval: a device always does; another row does or not,
\* by its value, its share of the bill and the bill's age.
NeedsChecker(rows) == DevicesIn(rows) # {}

-----------------------------------------------------------------------------
(* Requests                                                                *)

Makes(n, asked) ==
    /\ note[n].status = "none"
    /\ asked # {}
    /\ \A d \in DevicesIn(asked) : SerialReturnable(d)
    /\ NotReturnedYet(WithBoundPlans(asked))

\* create_pos_return without a manager, when the return needs one.
SaveReturn(n, asked, method) ==
    /\ Makes(n, asked)
    /\ note' = [note EXCEPT ![n] =
                  [NoNote EXCEPT !.status = "pending", !.rows = WithBoundPlans(asked),
                                 !.toCancel = PlansToCancel(WithBoundPlans(asked)), !.method = method]]
    /\ UNCHANGED <<serial, plan, planVoucher, claimOpen, wallet>>

\* create_pos_return to the end: a manager, a PIN, or a return small enough.
SubmitReturn(n, asked, method, creditOnly, manager) ==
    /\ Makes(n, asked)
    /\ creditOnly => manager
    /\ manager \/ ~NeedsChecker(asked)
    /\ LET rows == WithBoundPlans(asked)
           ds   == PlansToCancel(rows)
           all  == \A d \in ds : CanCancelPlan(d)
       IN /\ note' = [note EXCEPT ![n] =
                        [status |-> "submitted", rows |-> rows, toCancel |-> ds,
                         creditOnly |-> creditOnly, method |-> method,
                         direct |-> TRUE, warned |-> ~all]]
          /\ TakeBack(rows)
          /\ CancelPlans(ds, all)
    /\ IssueInstrument(n, method)
    /\ UNCHANGED claimOpen

\* approve_pos_return by another user, who is a manager or has a PIN.
ApproveUnchecked(n) ==
    /\ note[n].status = "pending"
    /\ note' = [note EXCEPT ![n].status = "submitted"]
    /\ TakeBack(note[n].rows)
    /\ IssueInstrument(n, note[n].method)
    /\ UNCHANGED <<plan, planVoucher, claimOpen>>
ApproveReturn(n) ==
    /\ note[n].status = "pending"
    /\ NotReturnedYet(note[n].rows)
    /\ note' = [note EXCEPT ![n].status = "submitted"]
    /\ TakeBack(note[n].rows)
    /\ IssueInstrument(n, note[n].method)
    /\ UNCHANGED <<plan, planVoucher, claimOpen>>

\* A pending draft is deleted.
DiscardReturn(n) ==
    /\ note[n].status = "pending"
    /\ note' = [note EXCEPT ![n] = NoNote]
    /\ UNCHANGED <<serial, plan, planVoucher, claimOpen, wallet>>

\* The customer uses the plan.
DrawVoucher(d) ==
    /\ planVoucher[d] = "whole"
    /\ planVoucher' = [planVoucher EXCEPT ![d] = "drawn"]
    /\ UNCHANGED <<note, serial, plan, claimOpen, wallet>>

OpenClaim(d) ==
    /\ plan[d] = "Active" /\ d \notin claimOpen
    /\ claimOpen' = claimOpen \cup {d}
    /\ UNCHANGED <<note, serial, plan, planVoucher, wallet>>

CloseClaim(d) ==
    /\ d \in claimOpen
    /\ claimOpen' = claimOpen \ {d}
    /\ UNCHANGED <<note, serial, plan, planVoucher, wallet>>

ReturnNext ==
    \/ \E n \in Notes : \E asked \in {rows \in SUBSET Rows : Makes(n, rows)},
                         method \in {"OriginalTender", "StoreCredit"} :
         \/ SaveReturn(n, asked, method)
         \/ \E creditOnly, manager \in BOOLEAN : SubmitReturn(n, asked, method, creditOnly, manager)
    \/ \E n \in Notes : ApproveReturn(n) \/ DiscardReturn(n)
    \/ \E d \in ReturnDevices : DrawVoucher(d) \/ OpenClaim(d) \/ CloseClaim(d)

ReturnSpec == ReturnInit /\ [][ReturnNext]_returnVars

-----------------------------------------------------------------------------
(* Properties                                                             *)

\* Statuses of devices, credit notes and plans.
ReturnTypeOK ==
    /\ note \in [Notes -> [status : {"none", "pending", "submitted"}, rows : SUBSET Rows,
                           toCancel : SUBSET ReturnDevices, creditOnly : BOOLEAN,
                           method : {"OriginalTender", "StoreCredit"},
                           direct : BOOLEAN, warned : BOOLEAN]]
    /\ serial \in [ReturnDevices -> {"Sold", "InStock"}]
    /\ plan \in [ReturnDevices -> {"Active", "Cancelled"}]
    /\ planVoucher \in [ReturnDevices -> {"whole", "drawn", "void"}]
    /\ claimOpen \in SUBSET ReturnDevices
    /\ wallet \in [Notes -> Nat]

\* A row of the bill is credited by one submitted note at most, however many
\* drafts of it wait for a manager.  The device of a note that takes goods back
\* can be sold again, and none can be that no note has; a credit-only note
\* should leave it sold, which the code does not (CreditOnlyKeepsGoods is
\* refuted) and nothing here says (check_serial_returnable, approve_pos_return).
ReturnedOnce ==
    /\ \A m, n \in Notes : m # n /\ Submitted(m) /\ Submitted(n) =>
         note[m].rows \cap note[n].rows = {}
    /\ \A n \in Notes : Submitted(n) /\ ~note[n].creditOnly =>
         \A d \in DevicesIn(note[n].rows) : serial[d] = "InStock"
    /\ \A d \in ReturnDevices : serial[d] = "InStock" => <<"device", d>> \in Returned

\* Cancelling the plans of a return is all or nothing: a return submitted by
\* create_pos_return either warned the cashier or cancelled every plan it
\* found, and a plan is cancelled exactly when its voucher is void and a
\* submitted return accounts for it.
PlansGoTogether ==
    /\ \A n \in Notes : Submitted(n) /\ note[n].direct /\ ~note[n].warned =>
         \A d \in note[n].toCancel : plan[d] = "Cancelled"
    /\ \A d \in ReturnDevices : plan[d] = "Cancelled" =>
         /\ planVoucher[d] = "void"
         /\ \E n \in Notes : Submitted(n) /\ ~note[n].warned /\ d \in note[n].toCancel
    /\ \A d \in ReturnDevices : planVoucher[d] = "void" => plan[d] = "Cancelled"

\* A customer who gave a device back keeps its plan only if the cashier was
\* warned or a manager released a draft; store credit is issued once for a
\* submitted note and never for a draft (_apply_phase4_return_side_effects).
CreditFollowsReturn ==
    /\ \A n \in Notes : wallet[n] = IF Submitted(n) /\ note[n].method = "StoreCredit" THEN 1 ELSE 0
    /\ \A n \in Notes : \A d \in DevicesIn(note[n].rows) : Submitted(n) /\ plan[d] = "Active" =>
         note[n].warned \/ ~note[n].direct

\* A row comes back once and for one credit.  Its plans are cancelled together
\* with it or not at all: not when the cashier was warned, and not when a manager
\* released a draft, of which the code promises more (NoOrphanPlans is refuted).
ReturnsAddUp ==
    /\ ReturnedOnce
    /\ PlansGoTogether
    /\ CreditFollowsReturn

\* _auto_include_bound_vas_rows, pos_api.py:6474: a return does not leave "an
\* 'orphan' warranty active for a device the customer no longer owns".
NoOrphanPlans == \A d \in ReturnDevices : <<"device", d>> \in Returned => plan[d] = "Cancelled"

\* create_pos_return, pos_api.py:6817: "the customer keeps the physical goods";
\* nothing is restocked.  The note posts no stock (update_stock = 0), but
\* _return_serial_lifecycle puts the device in stock whatever that says.
CreditOnlyKeepsGoods == \A n \in Notes : Submitted(n) /\ note[n].creditOnly =>
    \A d \in DevicesIn(note[n].rows) : serial[d] = "Sold"

=============================================================================
