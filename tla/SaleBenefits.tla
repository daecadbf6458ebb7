---------------------------- MODULE SaleBenefits ----------------------------
(***************************************************************************)
(* What a sale may use up besides stock: a coupon, a voucher, the          *)
(* customer's advances, and papers that are good for one sale (CH          *)
(* Exception Requests and the processing fees of CH Warranty Claims).      *)
(*                                                                         *)
(* create_pos_invoice is one transaction.  Its first read fixes what it    *)
(* sees (InnoDB, REPEATABLE READ); it locks coupon, voucher and papers     *)
(* (SELECT ... FOR UPDATE) before it judges them, but judges them as seen. *)
(*                                                                         *)
(* A definition directly before another one that it resembles is a mutant. *)
(***************************************************************************)
EXTENDS Integers, FiniteSets, FiniteSetsExt, Functions

CONSTANTS
    BenefitSales,  \* sales of one customer
    OneTimePapers, \* exception requests and warranty claims (stamped by another app)
    CouponMax,     \* Coupon Code.maximum_use, 0 is no limit
    VoucherValue,  \* the voucher's balance at first
    AdvancePaid,   \* the customer's unallocated advances at first
    CartTotal      \* the value of one cart

Unused == "noSale"
Coupon == "coupon"

ASSUME BenefitsAssumption ==
    /\ {CouponMax, VoucherValue, AdvancePaid} \subseteq Nat /\ CartTotal \in Nat \ {0}
    /\ IsFiniteSet(BenefitSales) /\ Unused \notin BenefitSales /\ Coupon \notin OneTimePapers

VARIABLES
    bills,    \* sale -> progress, what it wants and what it saw
    paperOf,  \* paper -> the last invoice stamped on it
    coupon,   \* Coupon Code: times used, writes to the document
    voucher,  \* CH Voucher: balance
    advance,  \* unallocated advances, writes to the Payment Entries
    outdated  \* ghost: uses by bills whose view was older than an earlier use

benefitVars == <<bills, paperOf, coupon, voucher, advance, outdated>>

NoWants == [papers |-> {}, coupon |-> FALSE, voucher |-> FALSE, advance |-> 0]
NoView == [papers |-> {}, coupon |-> [used |-> 0, version |-> 0], voucher |-> 0,
           advance |-> [balance |-> 0, version |-> 0]]
NoBill == [at |-> "none", wants |-> NoWants, saw |-> NoView, voucher |-> 0]

BenefitsInit ==
    /\ bills = [s \in BenefitSales |-> NoBill]
    /\ paperOf = [x \in OneTimePapers |-> Unused]
    /\ coupon = [used |-> 0, version |-> 0]
    /\ voucher = VoucherValue
    /\ advance = [balance |-> AdvancePaid, version |-> 0]
    /\ outdated = [x \in OneTimePapers \cup {Coupon} |-> 0]

-----------------------------------------------------------------------------

\* The database as a sale sees it from its first read on.
View == [papers |-> {x \in OneTimePapers : paperOf[x] # Unused},
         coupon |-> coupon, voucher |-> voucher, advance |-> advance]

\* create_pos_invoice up to its first read.
AskForBill(s, wants) ==
    /\ bills[s].at = "none"
    /\ bills' = [bills EXCEPT ![s] = [at |-> "asked", wants |-> wants, saw |-> View,
                                      voucher |-> 0]]
    /\ UNCHANGED <<paperOf, coupon, voucher, advance, outdated>>

HoldsLock(s) == bills[s].at = "locked"
Clashes(s, t) ==
    LET a == bills[s].wants  b == bills[t].wants
    IN  a.papers \cap b.papers # {} \/ (a.coupon /\ b.coupon) \/ (a.voucher /\ b.voucher)

\* _validate_exception; the gates of a warranty claim
PapersUnchecked(s) == s \in BenefitSales
PapersAreFree(s) == bills[s].wants.papers \cap bills[s].saw.papers = {}

\* _resolve_coupon_discount
CouponIsGood(s) ==
    bills[s].wants.coupon =>
        CouponMax = 0 \/ bills[s].saw.coupon.used < CouponMax

\* _resolve_voucher_discount: the amount, all of the cart at most
VoucherAmount(s) == Min({bills[s].saw.voucher, CartTotal})
VoucherIsGood(s) == bills[s].wants.voucher => VoucherAmount(s) > 0

\* _allocate_customer_advances
AdvanceUnchecked(s) == s \in BenefitSales
AdvanceIsGood(s) == bills[s].wants.advance <= bills[s].saw.advance.balance

\* One promotion to a bill.
OnePromotion(s) == ~(bills[s].wants.coupon /\ bills[s].wants.voucher)

\* The rows are locked, then judged.
LockAndJudge(s) ==
    /\ bills[s].at = "asked"
    /\ \A t \in BenefitSales : HoldsLock(t) => ~Clashes(s, t)
    /\ bills' = [bills EXCEPT ![s] =
          IF /\ PapersAreFree(s) /\ CouponIsGood(s) /\ VoucherIsGood(s)
             /\ AdvanceIsGood(s) /\ OnePromotion(s)
          THEN [@ EXCEPT !.at = "locked",
                         !.voucher = IF bills[s].wants.voucher THEN VoucherAmount(s) ELSE 0]
          ELSE [NoBill EXCEPT !.at = "refused"]]
    /\ UNCHANGED <<paperOf, coupon, voucher, advance, outdated>>

\* increment_coupon_usage: a failure of the count is logged, the bill stays.
\* The document is saved on the version that was seen.
CountsCoupon(s) ==
    /\ bills[s].wants.coupon
    /\ bills[s].saw.coupon = coupon
    /\ coupon.used < CouponMax

\* redeem_voucher must take what the bill was reduced by.
RedeemsSomething(s) == bills[s].voucher > 0 => voucher > 0
RedeemsExactly(s) == bills[s].voucher <= voucher
\* update_against_document_in_jv: on the entries that were seen.
AdvanceStands(s) == bills[s].wants.advance > 0 => bills[s].saw.advance = advance

CountIf(b) == IF b THEN 1 ELSE 0

\* Submitted, redeemed, reconciled and stamped, in one commit.
SubmitForgettingPapers(s) ==
    LET w == bills[s].wants
    IN  /\ HoldsLock(s)
        /\ RedeemsExactly(s) /\ AdvanceStands(s)
        /\ bills' = [bills EXCEPT ![s].at = "submitted"]
        /\ coupon' = IF CountsCoupon(s)
                     THEN [used |-> coupon.used + 1, version |-> coupon.version + 1] ELSE coupon
        /\ voucher' = voucher - bills[s].voucher
        /\ advance' = IF w.advance > 0
                      THEN [balance |-> advance.balance - w.advance, version |-> advance.version + 1]
                      ELSE advance
        /\ UNCHANGED <<paperOf, outdated>>
SubmitBill(s) ==
    LET w == bills[s].wants
    IN  /\ HoldsLock(s)
        /\ RedeemsExactly(s) /\ AdvanceStands(s)
        /\ bills' = [bills EXCEPT ![s].at = "submitted"]
        /\ coupon' = IF CountsCoupon(s)
                     THEN [used |-> coupon.used + 1, version |-> coupon.version + 1] ELSE coupon
        /\ voucher' = voucher - bills[s].voucher
        /\ advance' = IF w.advance > 0
                      THEN [balance |-> advance.balance - w.advance, version |-> advance.version + 1]
                      ELSE advance
        /\ paperOf' = [x \in OneTimePapers |-> IF x \in w.papers THEN s ELSE paperOf[x]]
        /\ outdated' = [x \in OneTimePapers \cup {Coupon} |->
              outdated[x] + CountIf(IF x = Coupon THEN w.coupon /\ bills[s].saw.coupon # coupon
                                    ELSE /\ x \in w.papers /\ paperOf[x] # Unused
                                         /\ x \notin bills[s].saw.papers)]

\* Anything fails: the transaction rolls back.
BillFails(s) ==
    /\ HoldsLock(s)
    /\ bills' = [bills EXCEPT ![s] = [NoBill EXCEPT !.at = "refused"]]
    /\ UNCHANGED <<paperOf, coupon, voucher, advance, outdated>>

\* The invoice is cancelled: decrement_coupon_usage, and the advances are
\* free again; neither voucher nor papers are given back.
CancelKeepingCoupon(s) ==
    /\ bills[s].at = "submitted"
    /\ bills' = [bills EXCEPT ![s].at = "cancelled"]
    /\ advance' = IF bills[s].wants.advance = 0 THEN advance
                  ELSE [balance |-> advance.balance + bills[s].wants.advance,
                        version |-> advance.version + 1]
    /\ UNCHANGED <<paperOf, coupon, voucher, outdated>>
CancelBill(s) ==
    /\ bills[s].at = "submitted"
    /\ bills[s].wants.coupon => \A t \in BenefitSales : HoldsLock(t) => ~bills[t].wants.coupon
    /\ bills' = [bills EXCEPT ![s].at = "cancelled"]
    /\ coupon' = IF bills[s].wants.coupon /\ coupon.used > 0
                 THEN [used |-> coupon.used - 1, version |-> coupon.version + 1] ELSE coupon
    /\ advance' = IF bills[s].wants.advance = 0 THEN advance
                  ELSE [balance |-> advance.balance + bills[s].wants.advance,
                        version |-> advance.version + 1]
    /\ UNCHANGED <<paperOf, voucher, outdated>>

-----------------------------------------------------------------------------

Wants == [papers : SUBSET OneTimePapers, coupon : BOOLEAN, voucher : BOOLEAN,
          advance : {0, AdvancePaid}]

BenefitsNext ==
    \E s \in BenefitSales :
        \/ \E wants \in Wants : AskForBill(s, wants)
        \/ LockAndJudge(s)
        \/ SubmitBill(s)
        \/ BillFails(s)
        \/ CancelBill(s)

BenefitsSpec == BenefitsInit /\ [][BenefitsNext]_benefitVars

-----------------------------------------------------------------------------
(* Properties                                                             *)

Counts == [used : Nat, version : Nat]
Balances == [balance : 0..AdvancePaid, version : Nat]
Views == [papers : SUBSET OneTimePapers, coupon : Counts, voucher : 0..VoucherValue,
          advance : Balances]

\* Balances are never negative, and a bill carries the record it was given.
BenefitsTypeOK ==
    /\ bills \in [BenefitSales ->
          [at : {"none", "asked", "locked", "refused", "submitted", "cancelled"},
           wants : Wants, saw : Views, voucher : 0..CartTotal]]
    /\ paperOf \in [OneTimePapers -> BenefitSales \cup {Unused}]
    /\ coupon \in Counts /\ voucher \in 0..VoucherValue /\ advance \in Balances
    /\ outdated \in [OneTimePapers \cup {Coupon} -> Nat]

Billed == {s \in BenefitSales : bills[s].at \in {"submitted", "cancelled"}}
Live == {s \in BenefitSales : bills[s].at = "submitted"}

\* A paper good for one sale is on one bill, and on one more for each bill
\* whose first read came before another bill's use of the paper.  A bill that
\* could see the paper used never carries it.
PapersServeOnce ==
    \A x \in OneTimePapers :
        Cardinality({s \in Billed : x \in bills[s].wants.papers}) <= 1 + outdated[x]

\* The coupon's count is the bills that carry it, after any cancellations,
\* and stays under them only when a bill was not counted (its failure to
\* count is logged, and the bill kept).
CouponCountsBills ==
    LET carrying == Cardinality({s \in Live : bills[s].wants.coupon})
    IN  coupon.used <= carrying /\ (outdated[Coupon] = 0 /\ CouponMax > 0 => coupon.used = carrying)

VoucherBilled == [s \in BenefitSales |-> IF s \in Billed THEN bills[s].voucher ELSE 0]
AdvanceBilled == [s \in BenefitSales |-> IF s \in Live THEN bills[s].wants.advance ELSE 0]

\* What live and cancelled bills were reduced by is what the voucher lost,
\* and what the bills settled by advances is what the advances lost.
NothingSpentTwice ==
    /\ voucher >= 0 /\ advance.balance >= 0
    /\ SumFunction(VoucherBilled) = VoucherValue - voucher
    /\ SumFunction(AdvanceBilled) = AdvancePaid - advance.balance

\* However bills overlap, fail and are cancelled: no part of a voucher or of
\* an advance serves twice; a paper or a coupon serves a further bill, or goes
\* uncounted, only for a bill whose view is older than the last change to it.
BenefitsServeOnce ==
    /\ PapersServeOnce
    /\ CouponCountsBills
    /\ NothingSpentTwice

-----------------------------------------------------------------------------
(* What the code's comments say and a run refutes                          *)

\* "preserving the original max-use validation semantics" (pos_invoice.py:735)
CouponWithinMaximum ==
    CouponMax > 0 => Cardinality({s \in Live : bills[s].wants.coupon}) <= CouponMax

\* "FOR UPDATE prevents two cashiers racing on the same exception request and
\* double-spending the approval" (pos_api.py:3574): the second one waits for
\* the row, and then judges it as its first read saw it.
NoPaperServesTwice ==
    \A x \in OneTimePapers : Cardinality({s \in Billed : x \in bills[s].wants.papers}) <= 1

=============================================================================
