-------------------------- MODULE SaleDesks_proofs --------------------------
(***************************************************************************)
(* The desks that sell, return and repair, for every number of bills,      *)
(* gifts, credit notes, exchanges, orders, units and requests: one section *)
(* per desk, with the inductive invariant its properties rest on, and at   *)
(* the end what holds of all of them, whichever runs.                      *)
(***************************************************************************)
EXTENDS MCSaleDesks, Sums

-----------------------------------------------------------------------------
(* Benefits                                                                *)

BillRowsOf == [at : {"none", "asked", "locked", "refused", "submitted", "cancelled"},
               wants : Wants, saw : Views, voucher : 0..CartTotal]
\* What a sale that holds its locks was let past with.
LetThrough(b) ==
    b.at = "locked" =>
        /\ b.wants.papers \cap b.saw.papers = {}
        /\ b.wants.coupon => CouponMax = 0 \/ b.saw.coupon.used < CouponMax
        /\ b.wants.advance <= b.saw.advance.balance
PaperIsFreeUntilBilled ==
    \A x \in OneTimePapers : paperOf[x] = Unused => \A s \in Billed : x \notin bills[s].wants.papers
BenefitsInv ==
    /\ BenefitsTypeOK
    /\ \A s \in BenefitSales : LetThrough(bills[s])
    /\ PaperIsFreeUntilBilled
    /\ BenefitsServeOnce

LEMMA BenefitConstants ==
    /\ CouponMax \in Nat /\ VoucherValue \in Nat /\ AdvancePaid \in Nat
    /\ CartTotal \in Nat /\ CartTotal > 0 /\ IsFiniteSet(BenefitSales)
    /\ Unused \notin BenefitSales /\ Coupon \notin OneTimePapers
  BY BenefitsAssumption

LEMMA BenefitRowsAre ==
    /\ NoWants \in Wants /\ NoView \in Views /\ NoBill \in BillRowsOf
    /\ [NoBill EXCEPT !.at = "refused"] \in BillRowsOf
    /\ [NoBill EXCEPT !.at = "refused"].at = "refused" /\ NoBill.at = "none"
<1>1. 0 \in 0..VoucherValue /\ 0 \in 0..AdvancePaid /\ 0 \in 0..CartTotal
  BY BenefitConstants
<1>2. NoWants \in Wants
  BY DEF NoWants, Wants
<1>3. [used |-> 0, version |-> 0] \in Counts /\ [balance |-> 0, version |-> 0] \in Balances
  BY <1>1 DEF Counts, Balances
<1>4. NoView \in Views
  BY <1>1, <1>3 DEF NoView, Views
<1>5. NoBill \in BillRowsOf
  BY <1>1, <1>2, <1>4 DEF NoBill, BillRowsOf
<1>6. [NoBill EXCEPT !.at = "refused"] \in BillRowsOf
  BY <1>5 DEF BillRowsOf
<1>7. [NoBill EXCEPT !.at = "refused"].at = "refused" /\ NoBill.at = "none"
  BY DEF NoBill
<1> QED BY <1>2, <1>4, <1>5, <1>6, <1>7

LEMMA BenefitTypes ==
    ASSUME BenefitsInv
    PROVE  /\ bills \in [BenefitSales -> BillRowsOf] /\ \A s \in BenefitSales : bills[s] \in BillRowsOf
           /\ paperOf \in [OneTimePapers -> BenefitSales \cup {Unused}]
           /\ coupon \in Counts /\ voucher \in 0..VoucherValue /\ advance \in Balances
           /\ outdated \in [OneTimePapers \cup {Coupon} -> Nat]
  BY DEF BenefitsInv, BenefitsTypeOK, BillRowsOf

\* The bills that carry a paper, and the live ones that carry the coupon.
CarriersOf(x) == {s \in Billed : x \in bills[s].wants.papers}
CouponCarriers == {s \in Live : bills[s].wants.coupon}

LEMMA CarriersAreFinite ==
    /\ \A x : IsFiniteSet(CarriersOf(x)) /\ Cardinality(CarriersOf(x)) \in Nat
    /\ IsFiniteSet(CouponCarriers) /\ Cardinality(CouponCarriers) \in Nat
<1>1. ASSUME NEW T \in SUBSET BenefitSales PROVE IsFiniteSet(T) /\ Cardinality(T) \in Nat
  BY BenefitConstants, FS_Subset, FS_CardinalityType
<1>2. CouponCarriers \in SUBSET BenefitSales
  BY DEF CouponCarriers, Live
<1>3. ASSUME NEW x PROVE CarriersOf(x) \in SUBSET BenefitSales
  BY DEF CarriersOf, Billed
<1> QED BY <1>1, <1>2, <1>3

LEMMA SumTypes ==
    ASSUME BenefitsInv
    PROVE  /\ VoucherBilled \in [BenefitSales -> Int] /\ AdvanceBilled \in [BenefitSales -> Int]
           /\ \A s \in BenefitSales : bills[s].voucher \in Nat /\ bills[s].wants.advance \in {0, AdvancePaid}
<1>1. \A s \in BenefitSales : bills[s].voucher \in Nat /\ bills[s].wants.advance \in {0, AdvancePaid}
  BY BenefitTypes, BenefitConstants DEF BillRowsOf, Wants
<1>2. 0 \in Int /\ AdvancePaid \in Int
  BY BenefitConstants
<1>3. VoucherBilled \in [BenefitSales -> Int]
  BY <1>1, <1>2 DEF VoucherBilled
<1>4. AdvanceBilled \in [BenefitSales -> Int]
  <2>1. \A s \in BenefitSales : bills[s].wants.advance \in Int
    BY <1>1, <1>2
  <2> QED BY <1>2, <2>1 DEF AdvanceBilled
<1> QED BY <1>1, <1>3, <1>4

LEMMA BenefitsStart == BenefitsInit => BenefitsInv
<1> SUFFICES ASSUME BenefitsInit PROVE BenefitsInv
  OBVIOUS
<1>1. /\ VoucherValue \in 0..VoucherValue /\ AdvancePaid \in 0..AdvancePaid /\ 0 \in Nat
      /\ VoucherValue \in Nat /\ AdvancePaid \in Nat
  BY BenefitConstants
<1>2. coupon \in Counts /\ advance \in Balances
  BY <1>1 DEF BenefitsInit, Counts, Balances
<1>3. BenefitsTypeOK
  BY <1>1, <1>2, BenefitRowsAre DEF BenefitsInit, BenefitsTypeOK, BillRowsOf
<1>4. \A s \in BenefitSales : bills[s].at = "none"
  BY BenefitRowsAre DEF BenefitsInit
<1>5. Billed = {} /\ Live = {}
  BY <1>4 DEF Billed, Live
<1>6. Cardinality({}) = 0
  BY FS_EmptySet
<1>7. PapersServeOnce
  <2> SUFFICES ASSUME NEW x \in OneTimePapers
               PROVE  Cardinality({s \in Billed : x \in bills[s].wants.papers}) <= 1 + outdated[x]
    BY DEF PapersServeOnce
  <2>1. PICK C : C = {s \in Billed : x \in bills[s].wants.papers}
    OBVIOUS
  <2>2. Cardinality(C) = 0
    BY <1>5, <1>6, <2>1
  <2>3. outdated[x] = 0
    BY DEF BenefitsInit
  <2>4. Cardinality(C) <= 1 + outdated[x]
    BY <2>2, <2>3
  <2> QED BY <2>1, <2>4
<1>8. CouponCountsBills
  <2>1. {s \in Live : bills[s].wants.coupon} = {} /\ coupon.used = 0
    BY <1>5 DEF BenefitsInit
  <2> QED BY <1>6, <2>1 DEF CouponCountsBills
<1>9. NothingSpentTwice
  <2>1. \A s \in BenefitSales : VoucherBilled[s] = 0 /\ AdvanceBilled[s] = 0
    BY <1>5 DEF VoucherBilled, AdvanceBilled
  <2>2. VoucherBilled \in [BenefitSales -> Int] /\ AdvanceBilled \in [BenefitSales -> Int]
    BY <1>5 DEF VoucherBilled, AdvanceBilled
  <2>3. SumFunction(VoucherBilled) = 0 /\ SumFunction(AdvanceBilled) = 0
    BY <2>1, <2>2, BenefitConstants, SumOfZeros
  <2>4. voucher = VoucherValue /\ advance.balance = AdvancePaid
    BY DEF BenefitsInit
  <2> QED BY <1>1, <2>3, <2>4 DEF NothingSpentTwice
<1> QED BY <1>3, <1>4, <1>5, <1>7, <1>8, <1>9 DEF BenefitsInv, LetThrough, PaperIsFreeUntilBilled, BenefitsServeOnce

\* A sale that has not been billed, before or after, uses nothing up.
LEMMA UnbilledKeeps ==
    ASSUME BenefitsInv, NEW s \in BenefitSales, NEW b \in BillRowsOf, bills' = [bills EXCEPT ![s] = b],
           bills[s].at \notin {"submitted", "cancelled"}, b.at \notin {"submitted", "cancelled"},
           LetThrough(b), UNCHANGED <<paperOf, coupon, voucher, advance, outdated>>
    PROVE  BenefitsInv'
<1>1. bills' \in [BenefitSales -> BillRowsOf] /\ \A t \in BenefitSales : bills'[t] = IF t = s THEN b ELSE bills[t]
  BY BenefitTypes
<1>2. BenefitsTypeOK'
  BY <1>1 DEF BenefitsInv, BenefitsTypeOK, BillRowsOf
<1>3. Billed' = Billed /\ Live' = Live
  BY <1>1 DEF Billed, Live
<1>4. \A t \in Billed \cup Live : t \in BenefitSales /\ bills'[t] = bills[t]
  BY <1>1 DEF Billed, Live
<1>5. VoucherBilled' = VoucherBilled /\ AdvanceBilled' = AdvanceBilled
  BY <1>3, <1>4 DEF VoucherBilled, AdvanceBilled
<1>6. PapersServeOnce'
  <2>1. \A x \in OneTimePapers :
           {t \in Billed' : x \in bills'[t].wants.papers} = {t \in Billed : x \in bills[t].wants.papers}
    BY <1>3, <1>4
  <2> QED BY <2>1 DEF BenefitsInv, BenefitsServeOnce, PapersServeOnce
<1>7. CouponCountsBills'
  <2>1. {t \in Live' : bills'[t].wants.coupon} = {t \in Live : bills[t].wants.coupon}
    BY <1>3, <1>4
  <2> QED BY <2>1 DEF BenefitsInv, BenefitsServeOnce, CouponCountsBills
<1>8. NothingSpentTwice'
  BY <1>5 DEF BenefitsInv, BenefitsServeOnce, NothingSpentTwice
<1>9. \A t \in BenefitSales : LetThrough(bills'[t])
  BY <1>1 DEF BenefitsInv
<1>10. PaperIsFreeUntilBilled'
  BY <1>3, <1>4 DEF BenefitsInv, PaperIsFreeUntilBilled
<1> QED BY <1>2, <1>6, <1>7, <1>8, <1>9, <1>10 DEF BenefitsInv, BenefitsServeOnce

LEMMA AskForBillKeeps ==
    ASSUME BenefitsInv, NEW s \in BenefitSales, NEW wants \in Wants, AskForBill(s, wants) PROVE BenefitsInv'
<1>1. PICK v : v = View
  OBVIOUS
<1>2. v \in Views
  BY <1>1, BenefitTypes DEF View, Views
<1>3. PICK b : b = [at |-> "asked", wants |-> wants, saw |-> v, voucher |-> 0]
  OBVIOUS
<1>4. 0 \in 0..CartTotal
  BY BenefitConstants
<1>5. b \in BillRowsOf /\ b.at = "asked"
  BY <1>2, <1>3, <1>4 DEF BillRowsOf
<1> QED BY <1>1, <1>3, <1>5, UnbilledKeeps DEF AskForBill, LetThrough

LEMMA LeastOfTwo ==
    ASSUME NEW a \in Nat, NEW b \in Nat PROVE Min({a, b}) \in Nat /\ Min({a, b}) <= a /\ Min({a, b}) <= b
<1>1. \E x \in {a, b} : \A y \in {a, b} : x <= y
  <2>1. CASE a <= b
    BY <2>1
  <2>2. CASE ~(a <= b)
    BY <2>2
  <2> QED BY <2>1, <2>2
<1>2. Min({a, b}) \in {a, b} /\ \A y \in {a, b} : Min({a, b}) <= y
  BY <1>1 DEF Min
<1> QED BY <1>2

LEMMA LockAndJudgeKeeps == ASSUME BenefitsInv, NEW s \in BenefitSales, LockAndJudge(s) PROVE BenefitsInv'
<1>1. PICK b : b = bills'[s]
  OBVIOUS
<1>2. bills[s] \in BillRowsOf /\ bills[s].at = "asked" /\ bills' = [bills EXCEPT ![s] = b]
  BY <1>1, BenefitTypes DEF LockAndJudge
<1>3. CASE b = [NoBill EXCEPT !.at = "refused"]
  BY <1>2, <1>3, BenefitRowsAre, UnbilledKeeps DEF LockAndJudge, LetThrough
<1>4. CASE b # [NoBill EXCEPT !.at = "refused"]
  <2>1. PapersAreFree(s) /\ CouponIsGood(s) /\ AdvanceIsGood(s)
        /\ b = [bills[s] EXCEPT !.at = "locked", !.voucher = IF bills[s].wants.voucher THEN VoucherAmount(s) ELSE 0]
    BY <1>1, <1>4, BenefitTypes DEF LockAndJudge
  <2>2. VoucherAmount(s) \in 0..CartTotal /\ 0 \in 0..CartTotal
    <3>1. bills[s].saw.voucher \in Nat
      BY <1>2, BenefitConstants DEF BillRowsOf, Views
    <3>2. CartTotal \in Nat
      BY BenefitConstants
    <3>3. VoucherAmount(s) \in Nat /\ VoucherAmount(s) <= CartTotal
      BY <3>1, <3>2, LeastOfTwo DEF VoucherAmount
    <3> QED BY <3>2, <3>3
  <2>3. PICK a \in 0..CartTotal : a = IF bills[s].wants.voucher THEN VoucherAmount(s) ELSE 0
    BY <2>2
  <2>4. b = [bills[s] EXCEPT !.at = "locked", !.voucher = a]
    BY <2>1, <2>3
  <2>5. b \in BillRowsOf
    BY <1>2, <2>4 DEF BillRowsOf
  <2>6. b.at = "locked" /\ b.wants = bills[s].wants /\ b.saw = bills[s].saw
    BY <1>2, <2>4 DEF BillRowsOf
  <2>7. LetThrough(b)
    BY <2>1, <2>6 DEF LetThrough, PapersAreFree, CouponIsGood, AdvanceIsGood
  <2> QED BY <1>2, <2>5, <2>6, <2>7, UnbilledKeeps DEF LockAndJudge
<1> QED BY <1>3, <1>4

LEMMA BillFailsKeeps == ASSUME BenefitsInv, NEW s \in BenefitSales, BillFails(s) PROVE BenefitsInv'
  BY BenefitRowsAre, UnbilledKeeps DEF BillFails, HoldsLock, LetThrough

-----------------------------------------------------------------------------

\* The sale s is submitted.
LEMMA SubmitBillKeeps == ASSUME BenefitsInv, NEW s \in BenefitSales, SubmitBill(s) PROVE BenefitsInv'
<1>1. PICK w : w = bills[s].wants
  OBVIOUS
<1>2. PICK b : b = [bills[s] EXCEPT !.at = "submitted"]
  OBVIOUS
<1>3. /\ bills[s] \in BillRowsOf /\ bills[s].at = "locked" /\ w \in Wants
      /\ bills[s].voucher \in Nat /\ bills[s].voucher <= voucher /\ voucher \in Nat /\ voucher <= VoucherValue
      /\ w.advance \in Nat /\ coupon.used \in Nat /\ coupon.version \in Nat
      /\ advance.balance \in Nat /\ advance.balance <= AdvancePaid /\ advance.version \in Nat
      /\ VoucherValue \in Nat /\ AdvancePaid \in Nat
  <2>1. bills[s] \in BillRowsOf /\ bills[s].at = "locked" /\ bills[s].voucher <= voucher
    BY BenefitTypes DEF SubmitBill, HoldsLock, RedeemsExactly
  <2>2. w \in Wants /\ bills[s].voucher \in 0..CartTotal
    BY <1>1, <2>1 DEF BillRowsOf
  <2>3. w.advance \in {0, AdvancePaid}
    BY <2>2 DEF Wants
  <2>4. coupon \in Counts /\ advance \in Balances /\ voucher \in 0..VoucherValue
    BY BenefitTypes
  <2>5. coupon.used \in Nat /\ coupon.version \in Nat /\ advance.balance \in 0..AdvancePaid /\ advance.version \in Nat
    BY <2>4 DEF Counts, Balances
  <2> QED BY <2>1, <2>2, <2>3, <2>4, <2>5, BenefitConstants
<1>4. b \in BillRowsOf
  BY <1>2, <1>3 DEF BillRowsOf
<1>5. b.at = "submitted" /\ b.wants = w /\ b.voucher = bills[s].voucher
  BY <1>1, <1>2, <1>3 DEF BillRowsOf
<1>6. bills' \in [BenefitSales -> BillRowsOf] /\ \A t \in BenefitSales : bills'[t] = IF t = s THEN b ELSE bills[t]
  <2>1. bills' = [bills EXCEPT ![s] = b]
    BY <1>2, BenefitTypes DEF SubmitBill
  <2> QED BY <1>4, <2>1, BenefitTypes
<1>7. s \notin Billed /\ s \notin Live /\ Billed' = Billed \cup {s} /\ Live' = Live \cup {s}
  BY <1>3, <1>5, <1>6 DEF Billed, Live
<1>8. \A t \in Billed \cup Live : t \in BenefitSales /\ t # s /\ bills'[t] = bills[t]
  BY <1>6, <1>7 DEF Billed, Live
<1>9. bills'[s] = b
  BY <1>6
\* the papers
<1>10. \A x \in OneTimePapers : paperOf'[x] = IF x \in w.papers THEN s ELSE paperOf[x]
  BY <1>1 DEF SubmitBill
<1>11. paperOf' \in [OneTimePapers -> BenefitSales \cup {Unused}]
  <2>1. \A x \in OneTimePapers : paperOf'[x] \in BenefitSales \cup {Unused}
    BY <1>10, BenefitTypes
  <2>2. paperOf' = [x \in OneTimePapers |-> paperOf'[x]]
    BY DEF SubmitBill
  <2> QED BY <2>1, <2>2
<1>12. /\ \A x \in OneTimePapers : outdated'[x] = IF x \in w.papers /\ paperOf[x] # Unused THEN outdated[x] + 1
                                                  ELSE outdated[x]   \* a locked sale saw none of its papers used
       /\ outdated'[Coupon] = IF w.coupon /\ bills[s].saw.coupon # coupon THEN outdated[Coupon] + 1
                              ELSE outdated[Coupon]
  <2>1. \A x \in OneTimePapers \cup {Coupon} : outdated[x] \in Nat
    BY BenefitTypes
  <2>2. ASSUME NEW x \in OneTimePapers
        PROVE  outdated'[x] = outdated[x] + CountIf(x \in w.papers /\ paperOf[x] # Unused)
    <3>1. x \in w.papers => x \notin bills[s].saw.papers
      BY <1>1, <1>3 DEF BenefitsInv, LetThrough
    <3>2. outdated'[x] = outdated[x] + CountIf(/\ x \in w.papers /\ paperOf[x] # Unused
                                               /\ x \notin bills[s].saw.papers)
      BY <1>1, BenefitConstants DEF SubmitBill
    <3>3. (/\ x \in w.papers /\ paperOf[x] # Unused /\ x \notin bills[s].saw.papers)
          <=> (x \in w.papers /\ paperOf[x] # Unused)
      BY <3>1
    <3> QED BY <3>2, <3>3 DEF CountIf
  <2>3. outdated'[Coupon] = outdated[Coupon] + CountIf(w.coupon /\ bills[s].saw.coupon # coupon)
    BY <1>1 DEF SubmitBill
  <2>4. ASSUME NEW n \in Nat PROVE n + 0 = n
    OBVIOUS
  <2> QED BY <2>1, <2>2, <2>3, <2>4 DEF CountIf
<1>13. outdated' \in [OneTimePapers \cup {Coupon} -> Nat]
  <2>1. \A x \in OneTimePapers \cup {Coupon} : outdated'[x] \in Nat
    BY <1>12, BenefitTypes
  <2>2. outdated' = [x \in OneTimePapers \cup {Coupon} |-> outdated'[x]]
    BY DEF SubmitBill
  <2> QED BY <2>1, <2>2
<1>14. PapersServeOnce'
  <2> SUFFICES ASSUME NEW x \in OneTimePapers PROVE Cardinality(CarriersOf(x)') <= 1 + outdated'[x]
    BY DEF PapersServeOnce, CarriersOf
  <2>1. Cardinality(CarriersOf(x)) <= 1 + outdated[x]
    BY DEF BenefitsInv, BenefitsServeOnce, PapersServeOnce, CarriersOf
  <2>2. IsFiniteSet(CarriersOf(x)) /\ Cardinality(CarriersOf(x)) \in Nat /\ outdated[x] \in Nat
    BY CarriersAreFinite, BenefitTypes
  <2>3. CASE x \in w.papers
    <3>1. PICK C : C = CarriersOf(x)
      OBVIOUS
    <3>2. CarriersOf(x)' = C \cup {s} /\ s \notin C
      BY <1>5, <1>7, <1>8, <1>9, <2>3, <3>1 DEF CarriersOf
    <3>3. Cardinality(C \cup {s}) = Cardinality(C) + 1
      BY <2>2, <3>1, <3>2, FS_AddElement
    <3>4. CASE paperOf[x] = Unused
      <4>1. C = {}
        BY <3>1, <3>4 DEF BenefitsInv, PaperIsFreeUntilBilled, CarriersOf
      <4>2. Cardinality(C) = 0
        BY <4>1, FS_EmptySet
      <4>3. outdated'[x] = outdated[x]
        BY <1>12, <3>4
      <4> QED BY <2>2, <3>2, <3>3, <4>2, <4>3
    <3>5. CASE paperOf[x] # Unused
      <4>1. outdated'[x] = outdated[x] + 1
        BY <1>12, <2>3, <3>5
      <4> QED BY <2>1, <2>2, <3>1, <3>2, <3>3, <4>1
    <3> QED BY <3>4, <3>5
  <2>4. CASE x \notin w.papers
    <3>1. CarriersOf(x)' = CarriersOf(x)
      BY <1>5, <1>7, <1>8, <1>9, <2>4 DEF CarriersOf
    <3>2. outdated'[x] = outdated[x]
      BY <1>12, <2>4
    <3> QED BY <2>1, <3>1, <3>2
  <2> QED BY <2>3, <2>4
<1>15. PaperIsFreeUntilBilled'
  <2> SUFFICES ASSUME NEW x \in OneTimePapers, paperOf'[x] = Unused, NEW t \in Billed'
               PROVE  x \notin bills'[t].wants.papers
    BY DEF PaperIsFreeUntilBilled
  <2>1. x \notin w.papers /\ paperOf[x] = Unused
    BY <1>10, BenefitConstants
  <2>2. CASE t = s
    BY <1>5, <1>9, <2>1, <2>2
  <2>3. CASE t # s
    BY <1>7, <1>8, <2>1, <2>3 DEF BenefitsInv, PaperIsFreeUntilBilled
  <2> QED BY <2>2, <2>3
\* the coupon
<1>16. coupon' = IF CountsCoupon(s) THEN [used |-> coupon.used + 1, version |-> coupon.version + 1] ELSE coupon
  BY DEF SubmitBill
<1>17. coupon' \in Counts /\ coupon'.used = IF CountsCoupon(s) THEN coupon.used + 1 ELSE coupon.used
  <2>1. CASE CountsCoupon(s)
    <3>1. coupon' = [used |-> coupon.used + 1, version |-> coupon.version + 1]
      BY <1>16, <2>1
    <3>2. coupon.used + 1 \in Nat /\ coupon.version + 1 \in Nat
      BY <1>3
    <3> QED BY <2>1, <3>1, <3>2 DEF Counts
  <2>2. CASE ~CountsCoupon(s)
    BY <1>16, <2>2, BenefitTypes
  <2> QED BY <2>1, <2>2
<1>18. CouponCountsBills'
  <2> SUFFICES /\ coupon'.used <= Cardinality(CouponCarriers')
               /\ outdated'[Coupon] = 0 /\ CouponMax > 0 => coupon'.used = Cardinality(CouponCarriers')
    BY DEF CouponCountsBills, CouponCarriers
  <2>1. PICK C : C = CouponCarriers
    OBVIOUS
  <2>2. /\ coupon.used <= Cardinality(C)
        /\ outdated[Coupon] = 0 /\ CouponMax > 0 => coupon.used = Cardinality(C)
    BY <2>1 DEF BenefitsInv, BenefitsServeOnce, CouponCountsBills, CouponCarriers
  <2>3. IsFiniteSet(C) /\ Cardinality(C) \in Nat /\ outdated[Coupon] \in Nat /\ CouponMax \in Nat
    BY <2>1, CarriersAreFinite, BenefitTypes, BenefitConstants
  <2>4. CASE w.coupon
    <3>1. CouponCarriers' = C \cup {s} /\ s \notin C
      BY <1>5, <1>7, <1>8, <1>9, <2>1, <2>4 DEF CouponCarriers
    <3>2. Cardinality(CouponCarriers') = Cardinality(C) + 1
      BY <2>3, <3>1, FS_AddElement
    <3>3. CASE CountsCoupon(s)
      <4>1. coupon'.used = coupon.used + 1
        BY <1>17, <3>3
      <4>2. outdated'[Coupon] = 0 => outdated[Coupon] = 0
        BY <1>12, <2>3
      <4> QED BY <1>3, <2>2, <2>3, <3>2, <4>1, <4>2
    <3>4. CASE ~CountsCoupon(s)
      <4>1. coupon'.used = coupon.used
        BY <1>17, <3>4
      <4>2. CASE bills[s].saw.coupon # coupon
        <5>1. outdated'[Coupon] # 0
          BY <1>12, <2>3, <2>4, <4>2
        <5> QED BY <1>3, <2>2, <2>3, <3>2, <4>1, <5>1
      <4>3. CASE bills[s].saw.coupon = coupon
        <5>1. CouponMax = 0 \/ coupon.used < CouponMax
          BY <1>1, <1>3, <2>4, <4>3 DEF BenefitsInv, LetThrough
        <5>2. CouponMax = 0
          BY <1>1, <2>4, <3>4, <4>3, <5>1 DEF CountsCoupon
        <5> QED BY <1>3, <2>2, <2>3, <3>2, <4>1, <5>2
      <4> QED BY <4>2, <4>3
    <3> QED BY <3>3, <3>4
  <2>5. CASE ~w.coupon
    <3>1. CouponCarriers' = C
      BY <1>5, <1>7, <1>8, <1>9, <2>1, <2>5 DEF CouponCarriers
    <3>2. coupon'.used = coupon.used /\ outdated'[Coupon] = outdated[Coupon]
      BY <1>1, <1>12, <1>17, <2>5 DEF CountsCoupon
    <3> QED BY <2>2, <3>1, <3>2
  <2> QED BY <2>4, <2>5
\* the voucher
<1>19. voucher' = voucher - bills[s].voucher
  BY DEF SubmitBill
<1>20. voucher' \in 0..VoucherValue
  BY <1>3, <1>19
<1>21. VoucherBilled' \in [BenefitSales -> Int] /\ VoucherBilled'[s] = bills[s].voucher /\ VoucherBilled[s] = 0
       /\ \A t \in BenefitSales : t # s => VoucherBilled'[t] = VoucherBilled[t]
  <2>1. \A t \in BenefitSales : bills'[t].voucher \in Int
    BY <1>6, BenefitConstants DEF BillRowsOf
  <2>2. VoucherBilled' \in [BenefitSales -> Int]
    BY <2>1 DEF VoucherBilled
  <2>3. VoucherBilled'[s] = bills[s].voucher /\ VoucherBilled[s] = 0
    BY <1>5, <1>7, <1>9 DEF VoucherBilled
  <2>4. \A t \in BenefitSales : t # s => VoucherBilled'[t] = VoucherBilled[t]
    BY <1>6, <1>7 DEF VoucherBilled
  <2> QED BY <2>2, <2>3, <2>4
<1>22. SumFunction(VoucherBilled') = VoucherValue - voucher'
  <2>1. VoucherBilled \in [BenefitSales -> Int] /\ SumFunction(VoucherBilled) = VoucherValue - voucher
    BY SumTypes DEF BenefitsInv, BenefitsServeOnce, NothingSpentTwice
  <2>2. SumFunction(VoucherBilled') = SumFunction(VoucherBilled) + VoucherBilled'[s] - VoucherBilled[s]
    <3>1. PICK f \in [BenefitSales -> Int] : f = VoucherBilled
      BY <2>1
    <3>2. PICK k \in [BenefitSales -> Int] : k = VoucherBilled'
      BY <1>21
    <3>3. SumFunction(k) = SumFunction(f) + k[s] - f[s]
      BY <1>21, <3>1, <3>2, BenefitConstants, SumChanges
    <3> QED BY <3>1, <3>2, <3>3
  <2> QED BY <1>3, <1>19, <1>21, <2>1, <2>2
\* the advances
<1>23. advance' \in Balances /\ advance'.balance = advance.balance - w.advance
  <2>1. CASE w.advance > 0
    <3>1. bills[s].saw.advance = advance /\ w.advance <= advance.balance
      BY <1>1, <1>3, <2>1 DEF SubmitBill, AdvanceStands, BenefitsInv, LetThrough
    <3>2. advance' = [balance |-> advance.balance - w.advance, version |-> advance.version + 1]
      BY <1>1, <2>1 DEF SubmitBill
    <3>3. advance.balance - w.advance \in 0..AdvancePaid /\ advance.version + 1 \in Nat
      BY <1>3, <3>1
    <3> QED BY <3>2, <3>3 DEF Balances
  <2>2. CASE ~(w.advance > 0)
    <3>1. advance' = advance
      BY <1>1, <2>2 DEF SubmitBill
    <3>2. w.advance = 0
      BY <1>3, <2>2
    <3> QED BY <1>3, <3>1, <3>2, BenefitTypes
  <2> QED BY <2>1, <2>2
<1>24. AdvanceBilled' \in [BenefitSales -> Int] /\ AdvanceBilled'[s] = w.advance /\ AdvanceBilled[s] = 0
       /\ \A t \in BenefitSales : t # s => AdvanceBilled'[t] = AdvanceBilled[t]
  <2>1. \A t \in BenefitSales : bills'[t].wants.advance \in Int
    BY <1>6, BenefitConstants DEF BillRowsOf, Wants
  <2>2. AdvanceBilled' \in [BenefitSales -> Int]
    BY <2>1 DEF AdvanceBilled
  <2>3. AdvanceBilled'[s] = w.advance /\ AdvanceBilled[s] = 0
    BY <1>5, <1>7, <1>9 DEF AdvanceBilled
  <2>4. \A t \in BenefitSales : t # s => AdvanceBilled'[t] = AdvanceBilled[t]
    BY <1>6, <1>7 DEF AdvanceBilled
  <2> QED BY <2>2, <2>3, <2>4
<1>25. SumFunction(AdvanceBilled') = AdvancePaid - advance'.balance
  <2>1. AdvanceBilled \in [BenefitSales -> Int] /\ SumFunction(AdvanceBilled) = AdvancePaid - advance.balance
    BY SumTypes DEF BenefitsInv, BenefitsServeOnce, NothingSpentTwice
  <2>2. SumFunction(AdvanceBilled') = SumFunction(AdvanceBilled) + AdvanceBilled'[s] - AdvanceBilled[s]
    <3>1. PICK f \in [BenefitSales -> Int] : f = AdvanceBilled
      BY <2>1
    <3>2. PICK k \in [BenefitSales -> Int] : k = AdvanceBilled'
      BY <1>24
    <3>3. SumFunction(k) = SumFunction(f) + k[s] - f[s]
      BY <1>24, <3>1, <3>2, BenefitConstants, SumChanges
    <3> QED BY <3>1, <3>2, <3>3
  <2> QED BY <1>3, <1>23, <1>24, <2>1, <2>2
<1>26. NothingSpentTwice'
  <2>1. voucher' >= 0 /\ advance'.balance >= 0
    BY <1>3, <1>20, <1>23 DEF Balances
  <2> QED BY <1>22, <1>25, <2>1 DEF NothingSpentTwice
<1>27. BenefitsTypeOK'
  BY <1>6, <1>11, <1>13, <1>17, <1>20, <1>23 DEF BenefitsTypeOK, BillRowsOf
<1>28. \A t \in BenefitSales : LetThrough(bills'[t])
  BY <1>5, <1>6 DEF BenefitsInv, LetThrough
<1> QED BY <1>14, <1>15, <1>18, <1>26, <1>27, <1>28 DEF BenefitsInv, BenefitsServeOnce

\* The sale s is cancelled: its coupon and its advances come back.
LEMMA CancelBillKeeps == ASSUME BenefitsInv, NEW s \in BenefitSales, CancelBill(s) PROVE BenefitsInv'
<1>1. PICK w : w = bills[s].wants
  OBVIOUS
<1>2. PICK b : b = [bills[s] EXCEPT !.at = "cancelled"]
  OBVIOUS
<1>3. /\ bills[s] \in BillRowsOf /\ bills[s].at = "submitted" /\ w \in Wants
      /\ w.advance \in Nat /\ coupon.used \in Nat /\ coupon.version \in Nat
      /\ advance.balance \in Nat /\ advance.version \in Nat /\ AdvancePaid \in Nat
  <2>1. bills[s] \in BillRowsOf /\ bills[s].at = "submitted"
    BY BenefitTypes DEF CancelBill
  <2>2. w \in Wants
    BY <1>1, <2>1 DEF BillRowsOf
  <2>3. w.advance \in {0, AdvancePaid}
    BY <2>2 DEF Wants
  <2>4. coupon \in Counts /\ advance \in Balances
    BY BenefitTypes
  <2>5. coupon.used \in Nat /\ coupon.version \in Nat /\ advance.balance \in 0..AdvancePaid /\ advance.version \in Nat
    BY <2>4 DEF Counts, Balances
  <2> QED BY <2>1, <2>2, <2>3, <2>5, BenefitConstants
<1>4. b \in BillRowsOf
  BY <1>2, <1>3 DEF BillRowsOf
<1>5. b.at = "cancelled" /\ b.wants = w /\ b.voucher = bills[s].voucher
  BY <1>1, <1>2, <1>3 DEF BillRowsOf
<1>6. bills' \in [BenefitSales -> BillRowsOf] /\ \A t \in BenefitSales : bills'[t] = IF t = s THEN b ELSE bills[t]
  <2>1. bills' = [bills EXCEPT ![s] = b]
    BY <1>2, BenefitTypes DEF CancelBill
  <2> QED BY <1>4, <2>1, BenefitTypes
<1>7. UNCHANGED <<paperOf, voucher, outdated>>
  BY DEF CancelBill
<1>8. s \in Billed /\ s \in Live /\ Billed' = Billed /\ Live' = Live \ {s}
  BY <1>3, <1>5, <1>6 DEF Billed, Live
<1>9. \A t \in BenefitSales : bills'[t].wants = bills[t].wants /\ bills'[t].voucher = bills[t].voucher
  BY <1>1, <1>5, <1>6
<1>10. Billed \subseteq BenefitSales /\ Live \subseteq BenefitSales
  BY DEF Billed, Live
<1>11. PapersServeOnce'
  <2>1. \A x \in OneTimePapers :
           {t \in Billed' : x \in bills'[t].wants.papers} = {t \in Billed : x \in bills[t].wants.papers}
    BY <1>8, <1>9, <1>10
  <2> QED BY <1>7, <2>1 DEF BenefitsInv, BenefitsServeOnce, PapersServeOnce
<1>12. PaperIsFreeUntilBilled'
  BY <1>7, <1>8, <1>9, <1>10 DEF BenefitsInv, PaperIsFreeUntilBilled
\* the coupon
<1>13. coupon' = IF w.coupon /\ coupon.used > 0
                 THEN [used |-> coupon.used - 1, version |-> coupon.version + 1] ELSE coupon
  BY <1>1 DEF CancelBill
<1>14. coupon' \in Counts
       /\ coupon'.used = IF w.coupon /\ coupon.used > 0 THEN coupon.used - 1 ELSE coupon.used
  <2>1. CASE w.coupon /\ coupon.used > 0
    <3>1. coupon' = [used |-> coupon.used - 1, version |-> coupon.version + 1]
      BY <1>13, <2>1
    <3>2. coupon.used - 1 \in Nat /\ coupon.version + 1 \in Nat
      BY <1>3, <2>1
    <3> QED BY <2>1, <3>1, <3>2 DEF Counts
  <2>2. CASE ~(w.coupon /\ coupon.used > 0)
    BY <1>13, <2>2, BenefitTypes
  <2> QED BY <2>1, <2>2
<1>15. CouponCountsBills'
  <2> SUFFICES /\ coupon'.used <= Cardinality(CouponCarriers')
               /\ outdated'[Coupon] = 0 /\ CouponMax > 0 => coupon'.used = Cardinality(CouponCarriers')
    BY DEF CouponCountsBills, CouponCarriers
  <2>1. PICK C : C = CouponCarriers
    OBVIOUS
  <2>2. /\ coupon.used <= Cardinality(C)
        /\ outdated[Coupon] = 0 /\ CouponMax > 0 => coupon.used = Cardinality(C)
    BY <2>1 DEF BenefitsInv, BenefitsServeOnce, CouponCountsBills, CouponCarriers
  <2>3. IsFiniteSet(C) /\ Cardinality(C) \in Nat
    BY <2>1, CarriersAreFinite
  <2>4. CASE w.coupon
    <3>1. CouponCarriers' = C \ {s} /\ s \in C
      BY <1>1, <1>8, <1>9, <1>10, <2>1, <2>4 DEF CouponCarriers
    <3>2. Cardinality(CouponCarriers') = Cardinality(C) - 1 /\ Cardinality(CouponCarriers') \in Nat
      <4>1. Cardinality(C \ {s}) = Cardinality(C) - 1
        BY <2>3, <3>1, FS_RemoveElement
      <4>2. IsFiniteSet(C \ {s})
        BY <2>3, FS_RemoveElement
      <4> QED BY <3>1, <4>1, <4>2, FS_CardinalityType
    <3>3. CASE coupon.used > 0
      <4>1. coupon'.used = coupon.used - 1
        BY <1>14, <2>4, <3>3
      <4> QED BY <1>3, <1>7, <2>2, <2>3, <3>2, <4>1
    <3>4. CASE ~(coupon.used > 0)
      <4>1. coupon'.used = coupon.used /\ coupon.used = 0
        BY <1>3, <1>14, <3>4
      <4> QED BY <1>7, <2>2, <2>3, <3>2, <4>1
    <3> QED BY <3>3, <3>4
  <2>5. CASE ~w.coupon
    <3>1. CouponCarriers' = C
      BY <1>1, <1>8, <1>9, <1>10, <2>1, <2>5 DEF CouponCarriers
    <3>2. coupon'.used = coupon.used
      BY <1>14, <2>5
    <3> QED BY <1>7, <2>2, <3>1, <3>2
  <2> QED BY <2>4, <2>5
\* the advances
<1>16. /\ advance'.balance = advance.balance + w.advance /\ advance'.version \in Nat
       /\ advance' = [balance |-> advance'.balance, version |-> advance'.version]
  <2>1. CASE w.advance = 0
    <3>1. advance' = advance /\ advance \in Balances
      BY <1>1, <2>1, BenefitTypes DEF CancelBill
    <3>2. advance = [balance |-> advance.balance, version |-> advance.version]
      BY <3>1 DEF Balances
    <3> QED BY <1>3, <2>1, <3>1, <3>2
  <2>2. CASE w.advance # 0
    <3>1. advance' = [balance |-> advance.balance + w.advance, version |-> advance.version + 1]
      BY <1>1, <2>2 DEF CancelBill
    <3>2. advance.version + 1 \in Nat
      BY <1>3
    <3> QED BY <3>1, <3>2
  <2> QED BY <2>1, <2>2
<1>17. AdvanceBilled' \in [BenefitSales -> Nat] /\ AdvanceBilled'[s] = 0 /\ AdvanceBilled[s] = w.advance
       /\ \A t \in BenefitSales : t # s => AdvanceBilled'[t] = AdvanceBilled[t]
  <2>1. \A t \in BenefitSales : bills'[t].wants.advance \in Nat
    BY <1>6, BenefitConstants DEF BillRowsOf, Wants
  <2>2. AdvanceBilled' \in [BenefitSales -> Nat]
    BY <2>1 DEF AdvanceBilled
  <2>3. AdvanceBilled'[s] = 0 /\ AdvanceBilled[s] = w.advance
    BY <1>1, <1>8 DEF AdvanceBilled
  <2>4. \A t \in BenefitSales : t # s => AdvanceBilled'[t] = AdvanceBilled[t]
    BY <1>8, <1>9 DEF AdvanceBilled
  <2> QED BY <2>2, <2>3, <2>4
<1>18. SumFunction(AdvanceBilled') = AdvancePaid - advance'.balance /\ SumFunction(AdvanceBilled') \in Nat
  <2>1. AdvanceBilled \in [BenefitSales -> Int] /\ SumFunction(AdvanceBilled) = AdvancePaid - advance.balance
    BY SumTypes DEF BenefitsInv, BenefitsServeOnce, NothingSpentTwice
  <2>2. SumFunction(AdvanceBilled') = SumFunction(AdvanceBilled) + AdvanceBilled'[s] - AdvanceBilled[s]
    <3>1. PICK f \in [BenefitSales -> Int] : f = AdvanceBilled
      BY <2>1
    <3>2. PICK k \in [BenefitSales -> Int] : k = AdvanceBilled'
      BY <1>17
    <3>3. SumFunction(k) = SumFunction(f) + k[s] - f[s]
      BY <1>17, <3>1, <3>2, BenefitConstants, SumChanges
    <3> QED BY <3>1, <3>2, <3>3
  <2>3. SumFunction(AdvanceBilled') \in Nat
    <3>1. PICK k \in [BenefitSales -> Nat] : k = AdvanceBilled'
      BY <1>17
    <3> QED BY <3>1, BenefitConstants, SumInNat
  <2> QED BY <1>3, <1>16, <1>17, <2>1, <2>2, <2>3
<1>19. advance' \in Balances
  <2>1. advance'.balance \in 0..AdvancePaid
    BY <1>3, <1>16, <1>18
  <2> QED BY <1>16, <2>1 DEF Balances
<1>20. VoucherBilled' = VoucherBilled
  BY <1>8, <1>9 DEF VoucherBilled
<1>21. NothingSpentTwice'
  <2>1. voucher >= 0 /\ SumFunction(VoucherBilled) = VoucherValue - voucher
    BY DEF BenefitsInv, BenefitsServeOnce, NothingSpentTwice
  <2>2. advance'.balance >= 0
    BY <1>3, <1>16
  <2> QED BY <1>7, <1>18, <1>20, <2>1, <2>2 DEF NothingSpentTwice
<1>22. BenefitsTypeOK'
  BY <1>6, <1>7, <1>14, <1>19, BenefitTypes DEF BenefitsTypeOK, BillRowsOf
<1>23. \A t \in BenefitSales : LetThrough(bills'[t])
  BY <1>5, <1>6 DEF BenefitsInv, LetThrough
<1> QED BY <1>11, <1>12, <1>15, <1>21, <1>22, <1>23 DEF BenefitsInv, BenefitsServeOnce

LEMMA BenefitsSteps == ASSUME BenefitsInv, BenefitsNext PROVE BenefitsInv'
  BY AskForBillKeeps, LockAndJudgeKeeps, SubmitBillKeeps, BillFailsKeeps, CancelBillKeeps DEF BenefitsNext

LEMMA BenefitsInvSays == ASSUME BenefitsInv PROVE BenefitsTypeOK /\ BenefitsServeOnce
  BY DEF BenefitsInv

-----------------------------------------------------------------------------
(* Gifts                                                                   *)

GiftRows == [status : GiftStatuses, spun : BOOLEAN, due : BOOLEAN,
             known : BOOLEAN, invoices : Nat, stale : Nat]
GiftReqRows == [at : {"idle", "asked", "locked"}, act : {"spin", "redeem"},
                i : GiftSales \cup {"none"}, status : GiftStatuses, spun : BOOLEAN,
                submitted : BOOLEAN]

\* What a request that holds the row was let past with.
MayRedeem(q) == IF q.act = "spin" THEN q.status \in {"Issued", "Revealed"} ELSE q.status = "Revealed"

\* A gift that can still be had was billed only over stale requests, and only
\* what is overdue expires, never under a request that was let past.
GiftIsSound(i) ==
    /\ sale[i] = "none" => gift[i] = NoGift
    /\ gift[i].status = "none" => gift[i].invoices = 0
    /\ gift[i].status \notin {"Redeemed", "Expired"} => gift[i].invoices <= gift[i].stale
    /\ gift[i].invoices <= 1 + gift[i].stale
    /\ gift[i].status = "Expired" => gift[i].due
    /\ i \in overdue => gift[i].due
RequestIsSound(r) ==
    /\ giftReq[r].at # "idle" => giftReq[r].i \in GiftSales /\ gift[giftReq[r].i].status # "none"
    /\ giftReq[r].at = "locked" => MayRedeem(giftReq[r]) /\ gift[giftReq[r].i].status # "Expired"
GiftInv ==
    /\ GiftTypeOK
    /\ \A i \in GiftSales : GiftIsSound(i)
    /\ \A r \in GiftRequests : RequestIsSound(r)

LEMMA GiftStarts == GiftInit => GiftInv
<1> SUFFICES ASSUME GiftInit PROVE GiftInv
  OBVIOUS
<1>1. NoGift \in GiftRows /\ NoRequest \in GiftReqRows
  BY DEF NoGift, GiftRows, NoRequest, GiftReqRows, GiftStatuses
<1>2. GiftTypeOK
  BY <1>1 DEF GiftInit, GiftTypeOK, GiftRows, GiftReqRows
<1>3. ASSUME NEW i \in GiftSales PROVE GiftIsSound(i)
  BY DEF GiftInit, GiftIsSound, NoGift
<1>4. ASSUME NEW r \in GiftRequests PROVE RequestIsSound(r)
  BY DEF GiftInit, RequestIsSound, NoRequest
<1> QED BY <1>2, <1>3, <1>4 DEF GiftInv

\* A request's end leaves the others and the gifts as they were.
LEMMA GiftRequestEnds ==
    ASSUME GiftInv, NEW r \in GiftRequests, NEW q \in GiftReqRows,
           giftReq' = [giftReq EXCEPT ![r] = q], UNCHANGED <<sale, gift, overdue>>,
           q.at # "idle" => q.i \in GiftSales /\ gift[q.i].status # "none",
           q.at = "locked" => MayRedeem(q) /\ gift[q.i].status # "Expired"
    PROVE  GiftInv'
<1>1. GiftTypeOK'
  BY DEF GiftInv, GiftTypeOK, GiftReqRows
<1>2. ASSUME NEW i \in GiftSales PROVE GiftIsSound(i)'
  BY DEF GiftInv, GiftIsSound
<1>3. ASSUME NEW p \in GiftRequests PROVE RequestIsSound(p)'
  <2>1. CASE p = r
    BY <2>1 DEF GiftInv, GiftTypeOK, RequestIsSound
  <2>2. CASE p # r
    BY <2>2 DEF GiftInv, GiftTypeOK, RequestIsSound
  <2> QED BY <2>1, <2>2
<1> QED BY <1>1, <1>2, <1>3 DEF GiftInv

\* One gift changes; the requests on it stay judged.
LEMMA GiftChanges ==
    ASSUME GiftInv, NEW i \in GiftSales, NEW g \in GiftRows, NEW sold \in {"none", "submitted", "cancelled"},
           gift' = [gift EXCEPT ![i] = g], sale' = [sale EXCEPT ![i] = sold],
           UNCHANGED overdue, giftReq' \in [GiftRequests -> GiftReqRows],
           \A r \in GiftRequests : giftReq'[r] \in {giftReq[r], NoRequest},
           sold = "none" => g = NoGift,
           g.status = "none" => g.invoices = 0,
           g.status \notin {"Redeemed", "Expired"} => g.invoices <= g.stale,
           g.invoices <= 1 + g.stale,
           g.status = "Expired" => g.due,
           i \in overdue => g.due,
           g.status = "none" => gift[i].status = "none",
           g.status = "Expired" => gift[i].status = "Expired"
    PROVE  GiftInv'
<1>1. GiftTypeOK'
  BY DEF GiftInv, GiftTypeOK, GiftRows, GiftReqRows
<1>2. ASSUME NEW j \in GiftSales PROVE GiftIsSound(j)'
  <2>1. CASE j = i
    BY <2>1 DEF GiftInv, GiftTypeOK, GiftIsSound
  <2>2. CASE j # i
    <3>1. gift'[j] = gift[j] /\ sale'[j] = sale[j]
      BY <2>2 DEF GiftInv, GiftTypeOK
    <3> QED BY <3>1 DEF GiftInv, GiftIsSound
  <2> QED BY <2>1, <2>2
<1>3. ASSUME NEW p \in GiftRequests PROVE RequestIsSound(p)'
  <2>1. CASE giftReq'[p] = NoRequest
    BY <2>1 DEF RequestIsSound, NoRequest
  <2>2. CASE giftReq'[p] = giftReq[p]
    <3>1. RequestIsSound(p)
      BY DEF GiftInv
    <3>2. giftReq[p].i \in GiftSales =>
            gift'[giftReq[p].i] = IF giftReq[p].i = i THEN g ELSE gift[giftReq[p].i]
      BY DEF GiftInv, GiftTypeOK
    <3> QED BY <2>2, <3>1, <3>2 DEF RequestIsSound
  <2> QED BY <2>1, <2>2
<1> QED BY <1>1, <1>2, <1>3 DEF GiftInv

LEMMA GiftRowsAre ==
    ASSUME GiftInv
    PROVE  /\ \A i \in GiftSales : gift[i] \in GiftRows
           /\ \A r \in GiftRequests : giftReq[r] \in GiftReqRows
           /\ NoGift \in GiftRows /\ NoRequest \in GiftReqRows
<1>1. NoGift \in GiftRows /\ NoRequest \in GiftReqRows
  BY DEF NoGift, GiftRows, NoRequest, GiftReqRows, GiftStatuses
<1> QED BY <1>1 DEF GiftInv, GiftTypeOK, GiftRows, GiftReqRows

LEMMA SubmitSaleKeeps ==
    ASSUME GiftInv, NEW i \in GiftSales, NEW earns \in BOOLEAN, SubmitSale(i, earns) PROVE GiftInv'
<1>1. PICK g : g = IF earns THEN IssuedGift ELSE gift[i]
  OBVIOUS
<1>2. gift[i] = NoGift /\ NoGift \in GiftRows
  BY GiftRowsAre DEF GiftInv, GiftIsSound, SubmitSale
<1>3. IssuedGift \in GiftRows
  BY <1>2 DEF IssuedGift, GiftRows, GiftStatuses
<1>4. g \in GiftRows
  BY <1>1, <1>2, <1>3
<1>5. gift' = [gift EXCEPT ![i] = g]
  BY <1>1 DEF SubmitSale, GiftInv, GiftTypeOK
<1>6. sale' = [sale EXCEPT ![i] = "submitted"] /\ UNCHANGED <<giftReq, overdue>>
  BY DEF SubmitSale
<1>7. /\ g.invoices = 0 /\ g.stale = 0 /\ ~g.due /\ g.status \in {"none", "Issued"}
      /\ g.status = "none" => gift[i].status = "none"
      /\ gift[i].due = FALSE
  BY <1>1, <1>2 DEF IssuedGift, NoGift
<1>8. i \notin overdue
  BY <1>7 DEF GiftInv, GiftIsSound
<1>9. giftReq' \in [GiftRequests -> GiftReqRows] /\ \A r \in GiftRequests : giftReq'[r] \in {giftReq[r], NoRequest}
  BY <1>6 DEF GiftInv, GiftTypeOK, GiftReqRows
<1>10. /\ g.status # "Expired" /\ g.status = "none" => g.invoices = 0
       /\ g.status \notin {"Redeemed", "Expired"} => g.invoices <= g.stale
       /\ g.invoices <= 1 + g.stale
  BY <1>7
<1> QED BY <1>4, <1>5, <1>6, <1>7, <1>8, <1>9, <1>10, GiftChanges

LEMMA CancelSaleKeeps ==
    ASSUME GiftInv, NEW i \in GiftSales, CancelSale(i) PROVE GiftInv'
<1>1. GiftTypeOK'
  BY DEF CancelSale, GiftInv, GiftTypeOK
<1>2. ASSUME NEW j \in GiftSales PROVE GiftIsSound(j)'
  BY DEF CancelSale, GiftInv, GiftTypeOK, GiftIsSound
<1>3. ASSUME NEW r \in GiftRequests PROVE RequestIsSound(r)'
  BY DEF CancelSale, GiftInv, RequestIsSound
<1> QED BY <1>1, <1>2, <1>3 DEF GiftInv

LEMMA CancelGiftKeeps ==
    ASSUME GiftInv, NEW i \in GiftSales, CancelGift(i) PROVE GiftInv'
<1>1. PICK g : g = [gift[i] EXCEPT !.status = "Cancelled"]
  OBVIOUS
<1>2. gift[i] \in GiftRows
  BY GiftRowsAre
<1>3. g \in GiftRows
  BY <1>1, <1>2 DEF GiftRows, GiftStatuses
<1>4. gift' = [gift EXCEPT ![i] = g] /\ UNCHANGED <<giftReq, overdue>> /\ sale' = [sale EXCEPT ![i] = sale[i]]
  BY <1>1 DEF CancelGift, GiftInv, GiftTypeOK
<1>5. /\ g.status = "Cancelled" /\ g.invoices = gift[i].invoices /\ g.stale = gift[i].stale
      /\ g.due = gift[i].due
  BY <1>1, <1>2 DEF GiftRows
<1>6. gift[i].status \in {"Issued", "Revealed"} /\ GiftIsSound(i)
  BY DEF CancelGift, GiftInv
<1>7. sale[i] # "none"
  BY <1>6 DEF GiftIsSound, NoGift
<1>8. giftReq' \in [GiftRequests -> GiftReqRows] /\ sale[i] \in {"none", "submitted", "cancelled"}
  BY <1>4 DEF GiftInv, GiftTypeOK, GiftReqRows
<1>9. g.invoices <= g.stale /\ g.invoices <= 1 + g.stale /\ (i \in overdue => g.due)
  BY <1>2, <1>5, <1>6 DEF GiftIsSound, GiftRows
<1> QED BY <1>3, <1>4, <1>5, <1>7, <1>8, <1>9, GiftChanges

LEMMA GiftFallsDueKeeps ==
    ASSUME GiftInv, NEW i \in GiftSales, GiftFallsDue(i) PROVE GiftInv'
<1>1. PICK g : g = [gift[i] EXCEPT !.due = TRUE]
  OBVIOUS
<1>2. gift[i] \in GiftRows
  BY GiftRowsAre
<1>3. g \in GiftRows
  BY <1>1, <1>2 DEF GiftRows
<1>4. gift' = [gift EXCEPT ![i] = g] /\ UNCHANGED <<giftReq, overdue>> /\ sale' = [sale EXCEPT ![i] = sale[i]]
  BY <1>1 DEF GiftFallsDue, GiftInv, GiftTypeOK
<1>5. /\ g.status = gift[i].status /\ g.invoices = gift[i].invoices /\ g.stale = gift[i].stale
      /\ g.due
  BY <1>1, <1>2 DEF GiftRows
<1>6. gift[i].status # "none" /\ GiftIsSound(i)
  BY DEF GiftFallsDue, GiftInv
<1>7. sale[i] # "none"
  BY <1>6 DEF GiftIsSound, NoGift
<1>8. giftReq' \in [GiftRequests -> GiftReqRows] /\ sale[i] \in {"none", "submitted", "cancelled"}
  BY <1>4 DEF GiftInv, GiftTypeOK, GiftReqRows
<1>9. /\ g.status \notin {"Redeemed", "Expired"} => g.invoices <= g.stale
      /\ g.invoices <= 1 + g.stale
  BY <1>5, <1>6 DEF GiftIsSound
<1> QED BY <1>3, <1>4, <1>5, <1>6, <1>7, <1>8, <1>9, GiftChanges

LEMMA AskKeeps ==
    ASSUME GiftInv, NEW i \in GiftSales, NEW r \in GiftRequests, NEW act \in {"spin", "redeem"},
           Ask(r, act, i)
    PROVE  GiftInv'
<1>1. PICK q : q = [at |-> "asked", act |-> act, i |-> i, status |-> gift[i].status,
                    spun |-> gift[i].spun, submitted |-> sale[i] = "submitted"]
  OBVIOUS
<1>2. gift[i] \in GiftRows
  BY GiftRowsAre
<1>3. q \in GiftReqRows
  BY <1>1, <1>2 DEF GiftRows, GiftReqRows
<1>4. giftReq' = [giftReq EXCEPT ![r] = q] /\ UNCHANGED <<sale, gift, overdue>> /\ gift[i].status # "none"
  BY <1>1 DEF Ask
<1> QED BY <1>1, <1>3, <1>4, GiftRequestEnds

LEMMA LockAndCheckKeeps ==
    ASSUME GiftInv, NEW r \in GiftRequests, LockAndCheck(r) PROVE GiftInv'
<1>1. giftReq[r] \in GiftReqRows /\ NoRequest \in GiftReqRows
  BY GiftRowsAre
<1>2. giftReq[r].i \in GiftSales /\ gift[giftReq[r].i].status # "none"
  BY DEF GiftInv, RequestIsSound, LockAndCheck
<1>3. UNCHANGED <<sale, gift, overdue>>
  BY DEF LockAndCheck
<1>4. CASE May(r)
  <2>1. PICK q : q = [giftReq[r] EXCEPT !.at = "locked"]
    OBVIOUS
  <2>2. giftReq' = [giftReq EXCEPT ![r] = q]
    BY <1>4, <2>1 DEF LockAndCheck
  <2>3. q \in GiftReqRows
    BY <1>1, <2>1 DEF GiftReqRows
  <2>4. q.i = giftReq[r].i /\ q.act = giftReq[r].act /\ q.status = giftReq[r].status
    BY <1>1, <2>1 DEF GiftReqRows
  <2>5. MayRedeem(q)
    BY <1>4, <2>4 DEF May, MayRedeem
  <2>6. gift[q.i].status # "Expired"
    BY <1>2, <1>4, <2>4 DEF May, PastDue, GiftInv, GiftIsSound
  <2> QED BY <1>2, <1>3, <2>2, <2>3, <2>4, <2>5, <2>6, GiftRequestEnds
<1>5. CASE ~May(r)
  <2>1. giftReq' = [giftReq EXCEPT ![r] = NoRequest]
    BY <1>5 DEF LockAndCheck
  <2>2. NoRequest.at = "idle"
    BY DEF NoRequest
  <2> QED BY <1>1, <1>3, <2>1, <2>2, GiftRequestEnds
<1> QED BY <1>4, <1>5

LEMMA StalesAre ==
    ASSUME GiftInv, NEW r \in GiftRequests, giftReq[r].at = "locked"
    PROVE  /\ Stales(r) \in {0, 1}
           /\ Stales(r) = 0 => gift[giftReq[r].i].status = giftReq[r].status
  BY DEF Stales, SawOldGift

LEMMA SpinWheelKeeps ==
    ASSUME GiftInv, NEW r \in GiftRequests, NEW answered \in BOOLEAN, SpinWheel(r, answered) PROVE GiftInv'
<1>1. PICK i : i = giftReq[r].i
  OBVIOUS
<1>2. /\ giftReq[r] \in GiftReqRows /\ NoRequest \in GiftReqRows
      /\ giftReq[r].at = "locked" /\ giftReq[r].act = "spin"
  BY GiftRowsAre DEF SpinWheel
<1>3. RequestIsSound(r)
  BY DEF GiftInv
<1>4. /\ i \in GiftSales /\ gift[i].status \notin {"none", "Expired"} /\ gift[i] \in GiftRows
      /\ giftReq[r].status \in {"Issued", "Revealed"}
  BY <1>1, <1>2, <1>3, GiftRowsAre DEF RequestIsSound, MayRedeem
<1>5. GiftIsSound(i)
  BY <1>4 DEF GiftInv
<1>6. PICK s : s = IF giftReq[r].status = "Issued" THEN "Revealed" ELSE gift[i].status
  OBVIOUS
<1>7. PICK k : k \in BOOLEAN /\ k = (gift[i].known \/ answered)
  OBVIOUS
<1>8. PICK n : n = gift[i].stale + Stales(r)
  OBVIOUS
<1>9. PICK g : g = [gift[i] EXCEPT !.status = s, !.spun = TRUE, !.known = k, !.stale = n]
  OBVIOUS
<1>10. gift' = [gift EXCEPT ![i] = g] /\ giftReq' = [giftReq EXCEPT ![r] = NoRequest]
       /\ UNCHANGED overdue /\ sale' = [sale EXCEPT ![i] = sale[i]]
  BY <1>1, <1>6, <1>7, <1>8, <1>9 DEF SpinWheel, GiftInv, GiftTypeOK
<1>11. n \in Nat /\ n >= gift[i].stale /\ (n = gift[i].stale => gift[i].status = giftReq[r].status)
       /\ (n # gift[i].stale => n = gift[i].stale + 1)
  BY <1>1, <1>2, <1>4, <1>8, StalesAre DEF GiftRows
<1>12. s \in GiftStatuses \ {"none", "Expired"}
  BY <1>4, <1>6 DEF GiftRows, GiftStatuses
<1>13. g \in GiftRows
  BY <1>4, <1>7, <1>9, <1>11, <1>12 DEF GiftRows
<1>14. /\ g.status = s /\ g.invoices = gift[i].invoices /\ g.stale = n /\ g.due = gift[i].due
  BY <1>4, <1>9 DEF GiftRows
<1>15. g.invoices <= 1 + g.stale /\ (i \in overdue => g.due)
  BY <1>4, <1>5, <1>11, <1>14 DEF GiftIsSound, GiftRows
<1>16. s # "Redeemed" => g.invoices <= g.stale
  <2>1. CASE n = gift[i].stale
    <3>1. gift[i].status \in {"Issued", "Revealed"}
      BY <1>4, <1>11, <2>1
    <3> QED BY <1>5, <1>14, <2>1, <3>1 DEF GiftIsSound
  <2>2. CASE n = gift[i].stale + 1
    BY <1>4, <1>5, <1>14, <2>2 DEF GiftIsSound, GiftRows
  <2> QED BY <1>11, <2>1, <2>2
<1>17. sale[i] # "none" /\ sale[i] \in {"none", "submitted", "cancelled"}
  BY <1>4, <1>5 DEF GiftIsSound, NoGift, GiftInv, GiftTypeOK
<1>18. giftReq' \in [GiftRequests -> GiftReqRows] /\ \A p \in GiftRequests : giftReq'[p] \in {giftReq[p], NoRequest}
  BY <1>2, <1>10 DEF GiftInv, GiftTypeOK, GiftReqRows
<1> QED BY <1>4, <1>10, <1>12, <1>13, <1>14, <1>15, <1>16, <1>17, <1>18, GiftChanges

LEMMA RedeemKeeps ==
    ASSUME GiftInv, NEW r \in GiftRequests, RedeemGiftCode(r) PROVE GiftInv'
<1>1. PICK i : i = giftReq[r].i
  OBVIOUS
<1>2. /\ giftReq[r] \in GiftReqRows /\ NoRequest \in GiftReqRows
      /\ giftReq[r].at = "locked" /\ giftReq[r].act = "redeem"
  BY GiftRowsAre DEF RedeemGiftCode
<1>3. RequestIsSound(r)
  BY DEF GiftInv
<1>4. /\ i \in GiftSales /\ gift[i].status # "none" /\ gift[i] \in GiftRows
      /\ giftReq[r].status = "Revealed"
  BY <1>1, <1>2, <1>3, GiftRowsAre DEF RequestIsSound, MayRedeem
<1>5. GiftIsSound(i)
  BY <1>4 DEF GiftInv
<1>6. PICK n : n = gift[i].stale + Stales(r)
  OBVIOUS
<1>7. PICK g : g = [gift[i] EXCEPT !.status = "Redeemed", !.invoices = gift[i].invoices + 1, !.stale = n]
  OBVIOUS
<1>8. gift' = [gift EXCEPT ![i] = g] /\ giftReq' = [giftReq EXCEPT ![r] = NoRequest]
      /\ UNCHANGED overdue /\ sale' = [sale EXCEPT ![i] = sale[i]]
  BY <1>1, <1>6, <1>7 DEF RedeemGiftCode, GiftInv, GiftTypeOK
<1>9. n \in Nat /\ n >= gift[i].stale /\ (n = gift[i].stale => gift[i].status = giftReq[r].status)
       /\ (n # gift[i].stale => n = gift[i].stale + 1)
  BY <1>1, <1>2, <1>4, <1>6, StalesAre DEF GiftRows
<1>10. g \in GiftRows
  <2>1. gift[i].invoices \in Nat
    BY <1>4 DEF GiftRows
  <2>2. PICK m \in Nat : m = gift[i].invoices + 1
    BY <2>1
  <2>3. g = [gift[i] EXCEPT !.status = "Redeemed", !.invoices = m, !.stale = n]
    BY <1>7, <2>2
  <2>4. n \in Nat
    BY <1>9
  <2> QED BY <1>4, <2>2, <2>3, <2>4 DEF GiftRows, GiftStatuses
<1>11. g.status = "Redeemed" /\ g.invoices = gift[i].invoices + 1 /\ g.stale = n /\ g.due = gift[i].due
  BY <1>4, <1>7 DEF GiftRows
<1>12. g.invoices <= 1 + g.stale
  <2>1. CASE n = gift[i].stale
    <3>1. gift[i].invoices <= gift[i].stale
      BY <1>4, <1>5, <1>9, <2>1 DEF GiftIsSound
    <3> QED BY <1>4, <1>11, <2>1, <3>1 DEF GiftRows
  <2>2. CASE n = gift[i].stale + 1
    BY <1>4, <1>5, <1>11, <2>2 DEF GiftIsSound, GiftRows
  <2> QED BY <1>9, <2>1, <2>2
<1>13. i \in overdue => g.due
  BY <1>5, <1>11 DEF GiftIsSound
<1>14. sale[i] # "none" /\ sale[i] \in {"none", "submitted", "cancelled"}
  BY <1>4, <1>5 DEF GiftIsSound, NoGift, GiftInv, GiftTypeOK
<1>15. giftReq' \in [GiftRequests -> GiftReqRows] /\ \A p \in GiftRequests : giftReq'[p] \in {giftReq[p], NoRequest}
  BY <1>2, <1>8 DEF GiftInv, GiftTypeOK, GiftReqRows
<1> QED BY <1>4, <1>8, <1>10, <1>11, <1>12, <1>13, <1>14, <1>15, GiftChanges

LEMMA ExpireOverdueKeeps ==
    ASSUME GiftInv, ExpireOverdue PROVE GiftInv'
<1>1. ASSUME NEW i \in GiftSales, i \in overdue
      PROVE  /\ gift'[i].status = "Expired" /\ gift'[i].invoices = gift[i].invoices
             /\ gift'[i].stale = gift[i].stale /\ gift'[i].due = gift[i].due /\ gift'[i] \in GiftRows
  <2>1. gift'[i] = [gift[i] EXCEPT !.status = "Expired"] /\ gift[i] \in GiftRows
    BY <1>1, GiftRowsAre DEF ExpireOverdue
  <2> QED BY <2>1 DEF GiftRows, GiftStatuses
<1>2. ASSUME NEW i \in GiftSales, i \notin overdue PROVE gift'[i] = gift[i] /\ gift'[i] \in GiftRows
  BY <1>2, GiftRowsAre DEF ExpireOverdue
<1>3. gift' \in [GiftSales -> GiftRows]
  <2>1. DOMAIN gift' = GiftSales /\ gift' = [i \in GiftSales |-> gift'[i]]
    BY DEF ExpireOverdue
  <2> QED BY <1>1, <1>2, <2>1
<1>4. GiftTypeOK'
  BY <1>3 DEF GiftRows, ExpireOverdue, GiftInv, GiftTypeOK
<1>5. ASSUME NEW i \in GiftSales PROVE GiftIsSound(i)'
  <2>1. GiftIsSound(i) /\ overdue' = {} /\ sale' = sale
    BY DEF GiftInv, ExpireOverdue
  <2>2. i \in overdue => gift[i].status # "none" \/ gift[i].due
    BY <2>1 DEF GiftIsSound
  <2>3. sale[i] = "none" => i \notin overdue
    BY <2>1 DEF GiftIsSound, NoGift
  <2> QED BY <1>1, <1>2, <2>1, <2>3 DEF GiftIsSound
<1>6. ASSUME NEW r \in GiftRequests PROVE RequestIsSound(r)'
  <2>1. RequestIsSound(r) /\ giftReq' = giftReq
    BY DEF GiftInv, ExpireOverdue
  <2>2. giftReq[r].at = "locked" => giftReq[r].i \notin overdue
    BY DEF ExpireOverdue, Locked
  <2> QED BY <1>1, <1>2, <2>1, <2>2 DEF RequestIsSound
<1> QED BY <1>4, <1>5, <1>6 DEF GiftInv

LEMMA GiftSteps == GiftInv /\ [GiftNext]_giftVars => GiftInv'
<1> SUFFICES ASSUME GiftInv, [GiftNext]_giftVars PROVE GiftInv'
  OBVIOUS
<1>1. CASE UNCHANGED giftVars
  BY <1>1 DEF giftVars, GiftInv, GiftTypeOK, GiftIsSound, RequestIsSound
<1>2. ASSUME NEW r \in GiftRequests, GiftRequestFails(r) PROVE GiftInv'
  <2>1. giftReq' = [giftReq EXCEPT ![r] = NoRequest] /\ UNCHANGED <<sale, gift, overdue>> /\ NoRequest.at = "idle"
    BY <1>2 DEF GiftRequestFails, NoRequest
  <2> QED BY <2>1, GiftRowsAre, GiftRequestEnds
<1>3. ASSUME SelectOverdue PROVE GiftInv'
  <2>1. GiftTypeOK'
    BY <1>3 DEF SelectOverdue, GiftInv, GiftTypeOK
  <2>2. ASSUME NEW i \in GiftSales PROVE GiftIsSound(i)'
    BY <1>3 DEF SelectOverdue, GiftInv, GiftIsSound
  <2>3. ASSUME NEW r \in GiftRequests PROVE RequestIsSound(r)'
    BY <1>3 DEF SelectOverdue, GiftInv, RequestIsSound
  <2> QED BY <2>1, <2>2, <2>3 DEF GiftInv
<1> QED BY <1>1, <1>2, <1>3, SubmitSaleKeeps, CancelSaleKeeps, CancelGiftKeeps, GiftFallsDueKeeps,
           AskKeeps, LockAndCheckKeeps, SpinWheelKeeps, RedeemKeeps, ExpireOverdueKeeps DEF GiftNext

LEMMA GiftInvSays == GiftInv => GiftTypeOK /\ GiftIsBilledOnce
<1> SUFFICES ASSUME GiftInv PROVE GiftTypeOK /\ GiftIsBilledOnce
  OBVIOUS
<1>1. ASSUME NEW i \in GiftSales, gift[i].invoices > 0, gift[i].stale = 0
      PROVE  gift[i].status \in {"Redeemed", "Expired"}
  BY <1>1, GiftRowsAre DEF GiftInv, GiftIsSound, GiftRows
<1> QED BY <1>1 DEF GiftInv, GiftIsSound, GiftIsBilledOnce, ExtraGiftsSawOldGift, BilledGiftIsOver

\* What has expired is held by no request that was let past, so no step bills it.
LEMMA GiftStepsBillNothingExpired ==
    GiftInv /\ [GiftNext]_giftVars =>
        \A i \in GiftSales : gift[i].status = "Expired" => gift'[i].invoices = gift[i].invoices
<1> SUFFICES ASSUME GiftInv, [GiftNext]_giftVars, NEW i \in GiftSales, gift[i].status = "Expired"
             PROVE  gift'[i].invoices = gift[i].invoices
  OBVIOUS
<1>1. gift[i] \in GiftRows /\ gift[i].status # "none" /\ GiftIsSound(i)
  BY GiftRowsAre DEF GiftInv
<1>2. CASE UNCHANGED gift
  BY <1>2
<1>3. ASSUME NEW j \in GiftSales, NEW earns \in BOOLEAN, SubmitSale(j, earns)
      PROVE  gift'[i] = gift[i]
  BY <1>1, <1>3 DEF SubmitSale, GiftInv, GiftTypeOK, GiftIsSound, NoGift
<1>4. ASSUME NEW j \in GiftSales, CancelGift(j) PROVE gift'[i] = gift[i]
  BY <1>1, <1>4 DEF CancelGift, GiftInv, GiftTypeOK
<1>5. ASSUME NEW j \in GiftSales, GiftFallsDue(j) PROVE gift'[i].invoices = gift[i].invoices
  BY <1>1, <1>5 DEF GiftFallsDue, GiftInv, GiftTypeOK
<1>6. ASSUME NEW r \in GiftRequests, giftReq[r].at = "locked" PROVE giftReq[r].i # i
  BY <1>6 DEF GiftInv, RequestIsSound
<1>7. ASSUME NEW r \in GiftRequests, NEW answered \in BOOLEAN, SpinWheel(r, answered)
      PROVE  gift'[i] = gift[i]
  BY <1>6, <1>7 DEF SpinWheel, GiftInv, GiftTypeOK
<1>8. ASSUME NEW r \in GiftRequests, RedeemGiftCode(r) PROVE gift'[i] = gift[i]
  BY <1>6, <1>8 DEF RedeemGiftCode, GiftInv, GiftTypeOK
<1>9. CASE ExpireOverdue
  BY <1>1, <1>9 DEF ExpireOverdue, GiftRows
<1> QED BY <1>2, <1>3, <1>4, <1>5, <1>7, <1>8, <1>9
        DEF GiftNext, giftVars, CancelSale, Ask, LockAndCheck, GiftRequestFails, SelectOverdue

-----------------------------------------------------------------------------
(* Gates                                                                   *)

GateRows == [at : {"none", "asked", "booked", "void", "returned"}, given : Nat, cash : 0..CashLimit,
             day : 0..LastGateDay, stale : BOOLEAN, lagging : BOOLEAN, back : 0..LastGateDay, freed : Nat]
\* The two sums a bill is judged by, in one form: what a bill adds to the sum
\* of a day, and the part of it that was not judged by that sum.
Kinds == {"given", "cash"}
Brought(v, kind) == IF kind = "given" THEN v.given ELSE v.cash
TookBack(v, kind) == IF kind = "given" THEN v.freed ELSE v.cash
Adding(v, day, kind) ==
    (IF v.at \in {"booked", "returned"} /\ v.day = day THEN Brought(v, kind) ELSE 0)
    - (IF v.back = day THEN TookBack(v, kind) ELSE 0)
\* The budget's sum is that of the calendar's day, the cash's that of the bill.
Unjudged(v, kind) == v.stale \/ (kind = "given" /\ v.lagging)
Loose(v, day, kind) ==
    IF v.at \in {"booked", "returned"} /\ Unjudged(v, kind) /\ v.day = day THEN Brought(v, kind) ELSE 0
Judging(v, day, kind) == Adding(v, day, kind) - Loose(v, day, kind)
SumOf(day, kind) == SumFunction([b \in GateBills |-> Adding(gateBills[b], day, kind)])
LooseSum(day, kind) == SumFunction([b \in GateBills |-> Loose(gateBills[b], day, kind)])
JudgedSum(day, kind) == SumFunction([b \in GateBills |-> Judging(gateBills[b], day, kind)])
Cap(kind) == IF kind = "given" THEN BudgetMax ELSE CashLimit - 1
Capped(kind) == kind = "given" => BudgetMax > 0

GateRowIsSound(v) ==
    /\ v.at = "none" => v = NoGateBill
    /\ v.at = "asked" => v.day \in 1..LastGateDay
    /\ v.at # "returned" => v.back = 0 /\ v.freed = 0
\* A bill that is under way and saw every other one fits under the day's limit.
Fits(v, sum, kind) ==
    v.at = "asked" /\ ~Unjudged(v, kind) /\ Capped(kind) /\ Brought(v, kind) > 0 =>
        sum + Brought(v, kind) <= Cap(kind)
GateInv ==
    /\ GateTypeOK
    /\ \A b \in GateBills : GateRowIsSound(gateBills[b])
    /\ \A day \in 1..LastGateDay, kind \in Kinds : Capped(kind) => JudgedSum(day, kind) <= Cap(kind)
    /\ \A b \in GateBills, day \in 1..LastGateDay, kind \in Kinds :
          gateBills[b].day = day => Fits(gateBills[b], SumOf(day, kind), kind)

LEMMA GateConstants ==
    /\ ContractRate \in Nat /\ FreeHand \in Nat /\ OwnCut \in Nat /\ MaxCut \in Nat /\ BudgetMax \in Nat
    /\ ReturnDays \in Nat /\ CashLimit \in Nat /\ CashLimit > 0 /\ LastGateDay \in Nat /\ LastGateDay > 0
    /\ IsFiniteSet(GateBills) /\ IsFiniteSet(PriceRows) /\ BankOffer.value \in Nat
    /\ \A r \in PriceRows : r.selling \in Nat /\ r.mop \in Nat
    /\ \A l \in GateLines : l.rate \in Nat /\ l.amount \in Nat /\ l.cut.amount \in Nat
  BY GatesAssumption

LEMMA GateTypes ==
    ASSUME GateInv
    PROVE  /\ gateBills \in [GateBills -> GateRows] /\ \A b \in GateBills : gateBills[b] \in GateRows
           /\ gateDay \in 1..LastGateDay /\ business \in 1..gateDay /\ waived \subseteq GateBills
           /\ business \in 1..LastGateDay /\ business \in 0..LastGateDay
<1>1. gateDay \in 1..LastGateDay /\ business \in 1..gateDay
  BY DEF GateInv, GateTypeOK
<1>2. business \in 1..LastGateDay /\ business \in 0..LastGateDay
  BY <1>1, GateConstants
<1> QED BY <1>1, <1>2 DEF GateInv, GateTypeOK, GateRows

LEMMA GateTermsAre ==
    ASSUME NEW v \in GateRows, NEW day, NEW kind \in Kinds
    PROVE  /\ Brought(v, kind) \in Nat /\ TookBack(v, kind) \in Nat
           /\ Adding(v, day, kind) \in Int /\ Loose(v, day, kind) \in Nat /\ Judging(v, day, kind) \in Int
<1>1. v.given \in Nat /\ v.cash \in Nat /\ v.freed \in Nat
  BY GateConstants DEF GateRows
<1>2. Brought(v, kind) \in Nat /\ TookBack(v, kind) \in Nat
  BY <1>1 DEF Brought, TookBack
<1>3. Adding(v, day, kind) \in Int /\ Loose(v, day, kind) \in Nat
  BY <1>2 DEF Adding, Loose
<1> QED BY <1>2, <1>3 DEF Judging

\* What is not booked adds nothing to a day's sum.
LEMMA UnbookedAddsNothing ==
    ASSUME NEW v \in GateRows, v.at \in {"none", "asked", "void"}, v.back = 0,
           NEW day \in 1..LastGateDay, NEW kind \in Kinds
    PROVE  Adding(v, day, kind) = 0 /\ Loose(v, day, kind) = 0 /\ Judging(v, day, kind) = 0
<1>1. day # 0
  BY GateConstants
<1>2. Adding(v, day, kind) = 0 /\ Loose(v, day, kind) = 0
  BY <1>1 DEF Adding, Loose
<1> QED BY <1>2 DEF Judging

\* The judged part is the sum less what was loose, and so no more than the sum.
LEMMA JudgedIsSumLessLoose ==
    ASSUME gateBills \in [GateBills -> GateRows], NEW day, NEW kind \in Kinds
    PROVE  /\ JudgedSum(day, kind) = SumOf(day, kind) - LooseSum(day, kind)
           /\ LooseSum(day, kind) \in Nat /\ SumOf(day, kind) \in Int /\ JudgedSum(day, kind) \in Int
           /\ JudgedSum(day, kind) <= SumOf(day, kind)
<1>1. PICK f : f = [b \in GateBills |-> Adding(gateBills[b], day, kind)]
  OBVIOUS
<1>2. PICK k : k = [b \in GateBills |-> Loose(gateBills[b], day, kind)]
  OBVIOUS
<1>3. \A b \in GateBills : gateBills[b] \in GateRows
  OBVIOUS
<1>4. f \in [GateBills -> Int] /\ k \in [GateBills -> Nat] /\ k \in [GateBills -> Int]
  BY <1>1, <1>2, <1>3, GateTermsAre
<1>5. [b \in GateBills |-> f[b] - k[b]] = [b \in GateBills |-> Judging(gateBills[b], day, kind)]
  BY <1>1, <1>2 DEF Judging
<1>6. SumFunction([b \in GateBills |-> f[b] - k[b]]) = SumFunction(f) - SumFunction(k)
  BY <1>4, GateConstants, SumOfDifference
<1>7. SumFunction(k) \in Nat /\ SumFunction(f) \in Int
  BY <1>4, GateConstants, SumInNat, SumInInt
<1>8. JudgedSum(day, kind) = SumFunction(f) - SumFunction(k)
  BY <1>5, <1>6 DEF JudgedSum
<1>9. SumOf(day, kind) = SumFunction(f) /\ LooseSum(day, kind) = SumFunction(k)
  BY <1>1, <1>2 DEF SumOf, LooseSum
<1> QED BY <1>7, <1>8, <1>9

\* One bill changes; marking those under way stale changes no sum.
LEMMA SumsMove ==
    ASSUME GateInv, NEW b \in GateBills, NEW u \in GateRows, gateBills' \in [GateBills -> GateRows],
           gateBills'[b] = u,
           \A o \in GateBills : o # b =>
               \/ gateBills'[o] = gateBills[o]
               \/ gateBills[o].at = "asked" /\ gateBills'[o].at = "asked" /\ gateBills'[o].back = 0,
           NEW day \in 1..LastGateDay, NEW kind \in Kinds
    PROVE  /\ SumOf(day, kind)' = SumOf(day, kind) + Adding(u, day, kind) - Adding(gateBills[b], day, kind)
           /\ JudgedSum(day, kind)' = JudgedSum(day, kind) + Judging(u, day, kind) - Judging(gateBills[b], day, kind)
<1>1. \A o \in GateBills : gateBills[o] \in GateRows /\ gateBills'[o] \in GateRows
  BY GateTypes
<1>2. ASSUME NEW o \in GateBills, o # b
      PROVE  /\ Adding(gateBills'[o], day, kind) = Adding(gateBills[o], day, kind)
             /\ Judging(gateBills'[o], day, kind) = Judging(gateBills[o], day, kind)
  <2>1. CASE gateBills'[o] = gateBills[o]
    BY <2>1
  <2>2. CASE gateBills[o].at = "asked" /\ gateBills'[o].at = "asked" /\ gateBills'[o].back = 0
    <3>1. gateBills[o].back = 0
      BY <2>2 DEF GateInv, GateRowIsSound
    <3> QED BY <1>1, <2>2, <3>1, UnbookedAddsNothing
  <2> QED BY <1>2, <2>1, <2>2
<1>3. SumOf(day, kind)' = SumOf(day, kind) + Adding(u, day, kind) - Adding(gateBills[b], day, kind)
  <2>1. PICK f : f = [o \in GateBills |-> Adding(gateBills[o], day, kind)]
    OBVIOUS
  <2>2. PICK k : k = [o \in GateBills |-> Adding(gateBills'[o], day, kind)]
    OBVIOUS
  <2>3. f \in [GateBills -> Int] /\ k \in [GateBills -> Int]
    BY <1>1, <2>1, <2>2, GateTermsAre
  <2>4. \A o \in GateBills : o # b => k[o] = f[o]
    BY <1>2, <2>1, <2>2
  <2>5. SumFunction(k) = SumFunction(f) + k[b] - f[b]
    BY <2>3, <2>4, GateConstants, SumChanges
  <2> QED BY <2>1, <2>2, <2>5 DEF SumOf
<1>4. JudgedSum(day, kind)' = JudgedSum(day, kind) + Judging(u, day, kind) - Judging(gateBills[b], day, kind)
  <2>1. PICK f : f = [o \in GateBills |-> Judging(gateBills[o], day, kind)]
    OBVIOUS
  <2>2. PICK k : k = [o \in GateBills |-> Judging(gateBills'[o], day, kind)]
    OBVIOUS
  <2>3. f \in [GateBills -> Int] /\ k \in [GateBills -> Int]
    BY <1>1, <2>1, <2>2, GateTermsAre
  <2>4. \A o \in GateBills : o # b => k[o] = f[o]
    BY <1>2, <2>1, <2>2
  <2>5. SumFunction(k) = SumFunction(f) + k[b] - f[b]
    BY <2>3, <2>4, GateConstants, SumChanges
  <2> QED BY <2>1, <2>2, <2>5 DEF JudgedSum
<1> QED BY <1>3, <1>4

LEMMA GateRowsAre ==
    /\ NoGateBill \in GateRows /\ NoGateBill.at = "none" /\ NoGateBill.back = 0 /\ NoGateBill.freed = 0
    /\ [NoGateBill EXCEPT !.at = "void"] \in GateRows
    /\ [NoGateBill EXCEPT !.at = "void"].at = "void"
    /\ [NoGateBill EXCEPT !.at = "void"].back = 0 /\ [NoGateBill EXCEPT !.at = "void"].freed = 0
<1>1. 0 \in 0..CashLimit /\ 0 \in 0..LastGateDay
  BY GateConstants
<1>2. NoGateBill \in GateRows
  BY <1>1 DEF NoGateBill, GateRows
<1>3. [NoGateBill EXCEPT !.at = "void"] \in GateRows
  BY <1>2 DEF GateRows
<1>4. /\ NoGateBill.at = "none" /\ NoGateBill.back = 0 /\ NoGateBill.freed = 0
      /\ [NoGateBill EXCEPT !.at = "void"].at = "void"
      /\ [NoGateBill EXCEPT !.at = "void"].back = 0 /\ [NoGateBill EXCEPT !.at = "void"].freed = 0
  BY DEF NoGateBill
<1> QED BY <1>2, <1>3, <1>4

LEMMA GatesStart == GateInit => GateInv
<1> SUFFICES ASSUME GateInit PROVE GateInv
  OBVIOUS
<1>1. gateBills \in [GateBills -> GateRows] /\ \A b \in GateBills : gateBills[b] = NoGateBill
  BY GateRowsAre DEF GateInit
<1>2. GateTypeOK
  <2>1. 1 \in 1..LastGateDay /\ 1 \in 1..1
    BY GateConstants
  <2> QED BY <1>1, <2>1 DEF GateInit, GateTypeOK, GateRows
<1>3. ASSUME NEW b \in GateBills PROVE GateRowIsSound(gateBills[b])
  BY <1>1, GateRowsAre DEF GateRowIsSound
<1>4. ASSUME NEW day \in 1..LastGateDay, NEW kind \in Kinds, Capped(kind) PROVE JudgedSum(day, kind) <= Cap(kind)
  <2>1. PICK f : f = [b \in GateBills |-> Judging(gateBills[b], day, kind)]
    OBVIOUS
  <2>2. \A b \in GateBills : f[b] = 0
    BY <1>1, <2>1, GateRowsAre, UnbookedAddsNothing
  <2>3. f \in [GateBills -> Int]
    BY <1>1, <2>1, GateTermsAre
  <2>4. SumFunction(f) = 0
    BY <2>2, <2>3, GateConstants, SumOfZeros
  <2>5. 0 <= Cap(kind)
    BY GateConstants DEF Cap
  <2> QED BY <2>1, <2>4, <2>5 DEF JudgedSum
<1>5. ASSUME NEW b \in GateBills, NEW day \in 1..LastGateDay, NEW kind \in Kinds
      PROVE  Fits(gateBills[b], SumOf(day, kind), kind)
  BY <1>1, GateRowsAre DEF Fits
<1> QED BY <1>2, <1>3, <1>4, <1>5 DEF GateInv

-----------------------------------------------------------------------------
(* What a bill gives away is a number.                                     *)

LEMMA GreatestPrice ==
    \E m \in {0} \cup {r.selling : r \in PriceRows} : \A n \in {0} \cup {r.selling : r \in PriceRows} : n <= m
<1> DEFINE T(s) == {0} \cup {r.selling : r \in s}
           good == {s \in SUBSET PriceRows : \E m \in T(s) : \A n \in T(s) : n <= m}
<1>1. \A r \in PriceRows : r.selling \in Nat
  BY GateConstants
<1>2. ASSUME NEW s \in SUBSET PriceRows, s # {}, s \ {Chosen(s)} \in good PROVE s \in good
  <2>1. PICK c : c = Chosen(s)
    OBVIOUS
  <2>2. c \in s /\ c.selling \in Nat
    BY <1>1, <1>2, <2>1, ChosenIsIn
  <2>3. PICK m \in T(s \ {c}) : \A n \in T(s \ {c}) : n <= m
    BY <1>2, <2>1
  <2>4. m \in Nat /\ \A n \in T(s) : n \in Nat
    BY <1>1, <1>2, <2>3
  <2>5. T(s) = T(s \ {c}) \cup {c.selling}
    BY <2>2
  <2>6. PICK k : k = IF m >= c.selling THEN m ELSE c.selling
    OBVIOUS
  <2>7. k \in T(s)
    BY <2>3, <2>5, <2>6
  <2>8. ASSUME NEW n \in T(s) PROVE n <= k
    <3>1. n \in Nat
      BY <2>4
    <3>2. CASE n = c.selling
      BY <2>2, <2>4, <2>6, <3>2
    <3>3. CASE n # c.selling
      <4>1. n <= m
        BY <2>3, <2>5, <3>3
      <4> QED BY <2>2, <2>4, <2>6, <3>1, <4>1
    <3> QED BY <3>2, <3>3
  <2> QED BY <2>7, <2>8
<1>3. {} \in good /\ good \in SUBSET SUBSET PriceRows
  OBVIOUS
<1>4. good = SUBSET PriceRows
  <2>1. \A s \in SUBSET PriceRows : s # {} /\ s \ {Chosen(s)} \in good => s \in good
    BY <1>2
  <2> HIDE DEF good
  <2> QED BY <1>3, <2>1, GateConstants, SubsetsBySteps
<1>5. PriceRows \in good
  BY <1>4
<1> QED BY <1>5

LEMMA ListPriceIsNat == ListPrice(PriceRows) \in Nat
<1>1. PICK T : T = {0} \cup {r.selling : r \in PriceRows}
  OBVIOUS
<1>2. \A n \in T : n \in Nat
  BY <1>1, GateConstants
<1>3. PICK m \in T : \A n \in T : n <= m
  BY <1>1, GreatestPrice
<1>4. \A n \in T : m >= n
  BY <1>2, <1>3
<1>5. Max(T) \in T
  BY <1>3, <1>4 DEF Max
<1> QED BY <1>1, <1>2, <1>5 DEF ListPrice

LEMMA GivenIsNat == ASSUME NEW l \in GateLines PROVE Given(l) \in Nat
<1>1. EffectiveRate(l) \in Nat
  BY GateConstants DEF EffectiveRate
<1>2. OfferAmount(l) \in Nat
  <2>1. Min({BankOffer.value, EffectiveRate(l)}) \in Nat
    BY <1>1, GateConstants, LeastOfTwo
  <2> QED BY <2>1 DEF OfferAmount
<1>3. l.cut.amount \in Nat
  BY GateConstants
<1>4. SoldAt(l) \in Int
  BY <1>1, <1>2, <1>3 DEF SoldAt
<1> QED BY <1>4, ListPriceIsNat DEF Given

-----------------------------------------------------------------------------

\* A bill that begins or fails moves no sum.
LEMMA UnbookedKeeps ==
    ASSUME GateInv, NEW b \in GateBills, NEW u \in GateRows, gateBills' = [gateBills EXCEPT ![b] = u],
           gateBills[b].at \in {"none", "asked"}, u.at \in {"none", "asked"}, GateRowIsSound(u),
           \A day \in 1..LastGateDay, kind \in Kinds : u.day = day => Fits(u, SumOf(day, kind), kind),
           UNCHANGED <<gateDay, business, waived>>
    PROVE  GateInv'
<1>1. /\ gateBills' \in [GateBills -> GateRows] /\ gateBills'[b] = u
      /\ \A o \in GateBills : gateBills'[o] = IF o = b THEN u ELSE gateBills[o]
  BY GateTypes
<1>2. GateTypeOK'
  BY <1>1, GateTypes DEF GateTypeOK, GateRows
<1>3. gateBills[b] \in GateRows /\ gateBills[b].back = 0 /\ u.back = 0
  BY GateTypes DEF GateInv, GateRowIsSound
<1>4. ASSUME NEW day \in 1..LastGateDay, NEW kind \in Kinds
      PROVE  SumOf(day, kind)' = SumOf(day, kind) /\ JudgedSum(day, kind)' = JudgedSum(day, kind)
  <2>1. /\ SumOf(day, kind)' = SumOf(day, kind) + Adding(u, day, kind) - Adding(gateBills[b], day, kind)
        /\ JudgedSum(day, kind)' = JudgedSum(day, kind) + Judging(u, day, kind) - Judging(gateBills[b], day, kind)
    <3>1. \A o \in GateBills : o # b => gateBills'[o] = gateBills[o]
      BY <1>1
    <3> QED BY <1>1, <3>1, SumsMove
  <2>2. /\ Adding(u, day, kind) = 0 /\ Adding(gateBills[b], day, kind) = 0
        /\ Judging(u, day, kind) = 0 /\ Judging(gateBills[b], day, kind) = 0
    BY <1>3, UnbookedAddsNothing
  <2>3. SumOf(day, kind) \in Int /\ JudgedSum(day, kind) \in Int
    BY GateTypes, JudgedIsSumLessLoose
  <2> QED BY <2>1, <2>2, <2>3
<1>5. \A o \in GateBills : GateRowIsSound(gateBills'[o])
  BY <1>1 DEF GateInv
<1>6. \A day \in 1..LastGateDay, kind \in Kinds : Capped(kind) => JudgedSum(day, kind)' <= Cap(kind)
  BY <1>4 DEF GateInv
<1>7. ASSUME NEW o \in GateBills, NEW day \in 1..LastGateDay, NEW kind \in Kinds, gateBills'[o].day = day
      PROVE  Fits(gateBills'[o], SumOf(day, kind)', kind)
  <2>1. Fits(gateBills'[o], SumOf(day, kind), kind)
    BY <1>1, <1>7 DEF GateInv
  <2>2. SumOf(day, kind)' = SumOf(day, kind)
    BY <1>4
  <2> QED BY <2>1, <2>2
<1> QED BY <1>2, <1>5, <1>6, <1>7 DEF GateInv

\* A commit makes those under way stale; what it adds must fit.
LEMMA CommitKeeps ==
    ASSUME GateInv, NEW b \in GateBills, NEW u \in GateRows, u.at \in {"booked", "void", "returned"},
           gateBills' = NowStale([gateBills EXCEPT ![b] = u]), GateRowIsSound(u),
           \A day \in 1..LastGateDay, kind \in Kinds :
               Capped(kind) => JudgedSum(day, kind) + Judging(u, day, kind) - Judging(gateBills[b], day, kind) <= Cap(kind),
           UNCHANGED <<gateDay, business, waived>>
    PROVE  GateInv'
<1>1. /\ gateBills'[b] = u
      /\ \A o \in GateBills : o # b =>
            gateBills'[o] = IF gateBills[o].at = "asked" /\ AddsToSums(gateBills[o])
                            THEN [gateBills[o] EXCEPT !.stale = TRUE] ELSE gateBills[o]
      /\ gateBills' = [o \in GateBills |-> gateBills'[o]]
  BY GateTypes DEF NowStale
<1>2. ASSUME NEW o \in GateBills, o # b
      PROVE  /\ gateBills'[o] \in GateRows /\ GateRowIsSound(gateBills'[o])
             /\ gateBills'[o].at = "asked" => gateBills'[o].stale \/ ~AddsToSums(gateBills'[o])
             /\ \/ gateBills'[o] = gateBills[o]
                \/ gateBills[o].at = "asked" /\ gateBills'[o].at = "asked" /\ gateBills'[o].back = 0
  <2>1. gateBills[o] \in GateRows /\ GateRowIsSound(gateBills[o])
    BY GateTypes DEF GateInv
  <2>2. CASE gateBills[o].at = "asked" /\ AddsToSums(gateBills[o])
    <3>1. PICK v : v = [gateBills[o] EXCEPT !.stale = TRUE]
      OBVIOUS
    <3>2. v \in GateRows
      BY <2>1, <3>1 DEF GateRows
    <3>3. /\ v.at = "asked" /\ v.stale = TRUE /\ v.day = gateBills[o].day
          /\ v.back = gateBills[o].back /\ v.freed = gateBills[o].freed
      BY <2>1, <2>2, <3>1 DEF GateRows
    <3>4. gateBills'[o] = v
      BY <1>1, <1>2, <2>2, <3>1
    <3> QED BY <2>1, <2>2, <3>2, <3>3, <3>4 DEF GateRowIsSound
  <2>3. CASE ~(gateBills[o].at = "asked" /\ AddsToSums(gateBills[o]))
    BY <1>1, <1>2, <2>1, <2>3
  <2> QED BY <2>2, <2>3
<1>3. gateBills' \in [GateBills -> GateRows]
  <2>1. \A o \in GateBills : gateBills'[o] \in GateRows
    BY <1>1, <1>2
  <2> QED BY <1>1, <2>1
<1>4. GateTypeOK'
  BY <1>3, GateTypes DEF GateTypeOK, GateRows
<1>5. \A o \in GateBills : GateRowIsSound(gateBills'[o])
  <2>1. ASSUME NEW o \in GateBills PROVE GateRowIsSound(gateBills'[o])
    <3>1. CASE o = b
      BY <1>1, <3>1
    <3>2. CASE o # b
      BY <1>2, <3>2
    <3> QED BY <3>1, <3>2
  <2> QED BY <2>1
<1>6. ASSUME NEW day \in 1..LastGateDay, NEW kind \in Kinds, Capped(kind) PROVE JudgedSum(day, kind)' <= Cap(kind)
  <2>1. gateBills'[b] = u
    BY <1>1
  <2>2. \A o \in GateBills : o # b =>
            \/ gateBills'[o] = gateBills[o]
            \/ gateBills[o].at = "asked" /\ gateBills'[o].at = "asked" /\ gateBills'[o].back = 0
    BY <1>2
  <2>3. JudgedSum(day, kind)' = JudgedSum(day, kind) + Judging(u, day, kind) - Judging(gateBills[b], day, kind)
    BY <1>3, <2>1, <2>2, SumsMove
  <2> QED BY <1>6, <2>3
<1>7. \A o \in GateBills, day \in 1..LastGateDay, kind \in Kinds :
          gateBills'[o].day = day => Fits(gateBills'[o], SumOf(day, kind)', kind)
  BY <1>1, <1>2 DEF Fits, Unjudged, AddsToSums, Brought, Kinds
<1> QED BY <1>4, <1>5, <1>6, <1>7 DEF GateInv

LEMMA SumsAre ==
    ASSUME NEW day
    PROVE  /\ Utilised(day) = SumOf(day, "given") /\ CashOf(day) = SumOf(day, "cash")
           /\ UnguardedGiven(day) = LooseSum(day, "given") /\ UnguardedCash(day) = LooseSum(day, "cash")
<1>1. [b \in GateBills |-> Adding(gateBills[b], day, "given")] =
      [b \in GateBills |-> (IF Booked(b) /\ gateBills[b].day = day THEN gateBills[b].given ELSE 0)
                           - (IF gateBills[b].back = day THEN gateBills[b].freed ELSE 0)]
  BY DEF Adding, Brought, TookBack, Booked
<1>2. [b \in GateBills |-> Adding(gateBills[b], day, "cash")] =
      [b \in GateBills |-> (IF Booked(b) /\ gateBills[b].day = day THEN gateBills[b].cash ELSE 0)
                           - (IF gateBills[b].back = day THEN gateBills[b].cash ELSE 0)]
  BY DEF Adding, Brought, TookBack, Booked
<1>3. [b \in GateBills |-> Loose(gateBills[b], day, "given")] =
      [b \in GateBills |-> IF (Overtaken(b) \/ Misdated(b)) /\ gateBills[b].day = day THEN gateBills[b].given ELSE 0]
  BY DEF Loose, Unjudged, Brought, Overtaken, Misdated, Booked
<1>4. [b \in GateBills |-> Loose(gateBills[b], day, "cash")] =
      [b \in GateBills |-> IF Overtaken(b) /\ gateBills[b].day = day THEN gateBills[b].cash ELSE 0]
  BY DEF Loose, Unjudged, Brought, Overtaken, Booked
<1> QED BY <1>1, <1>2, <1>3, <1>4 DEF Utilised, CashOf, UnguardedGiven, UnguardedCash, SumOf, LooseSum

LEMMA AskBillKeeps ==
    ASSUME GateInv, NEW b \in GateBills, NEW l \in GateLines, NEW cash \in 0..CashLimit,
           NEW late \in BOOLEAN, NEW override \in BOOLEAN, AskBill(b, l, cash, late, override)
    PROVE  GateInv'
<1>1. gateBills[b] \in GateRows /\ gateBills[b] = NoGateBill /\ gateBills[b].at = "none"
  BY GateTypes DEF GateInv, GateRowIsSound, AskBill
<1>2. PICK g \in Nat : g = Given(l)
  BY GivenIsNat
<1>3. PICK st \in BOOLEAN : st <=> (business # gateDay /\ g > 0)
  OBVIOUS
<1>4. PICK u : u = [at |-> "asked", given |-> g, cash |-> cash, day |-> business, stale |-> FALSE,
                    lagging |-> st, back |-> 0, freed |-> 0]
  OBVIOUS
<1>5. gateBills' = [gateBills EXCEPT ![b] = u] /\ UNCHANGED <<gateDay, business, waived>>
  <2>1. PICK n : n = (business # gateDay /\ Given(l) > 0)
    OBVIOUS
  <2>2. n = st
    BY <1>2, <1>3, <2>1
  <2> QED BY <1>2, <1>4, <2>1, <2>2 DEF AskBill
<1>6. 0 \in 0..LastGateDay /\ business \in 0..LastGateDay /\ business \in 1..LastGateDay
  BY GateConstants, GateTypes
<1>7. u \in GateRows
  BY <1>4, <1>6 DEF GateRows
<1>8. u.at = "asked" /\ u.back = 0 /\ u.freed = 0 /\ u.day = business /\ u.given = g /\ u.cash = cash
      /\ (~Unjudged(u, "given") /\ g > 0 => business = gateDay)
  <2>1. u.lagging = st
    BY <1>4
  <2> QED BY <1>3, <1>4, <2>1 DEF Unjudged
<1>9. GateRowIsSound(u)
  BY <1>6, <1>8 DEF GateRowIsSound
<1>10. ASSUME NEW kind \in Kinds PROVE Fits(u, SumOf(business, kind), kind)
  <2>1. CASE kind = "given"
    <3>1. ASSUME ~Unjudged(u, kind), BudgetMax > 0, g > 0 PROVE Utilised(business) + g <= BudgetMax
      BY <1>2, <1>8, <2>1, <3>1 DEF AskBill, BudgetFits
    <3>2. Utilised(business) = SumOf(business, kind)
      BY <2>1, SumsAre
    <3>3. Brought(u, kind) = g /\ Cap(kind) = BudgetMax /\ (Capped(kind) <=> BudgetMax > 0)
      BY <1>8, <2>1 DEF Brought, Cap, Capped
    <3> QED BY <1>8, <3>1, <3>2, <3>3 DEF Fits
  <2>2. CASE kind = "cash"
    <3>1. cash > 0 => CashOf(business) + cash < CashLimit
      BY DEF AskBill, CashFits
    <3>2. CashOf(business) = SumOf(business, kind)
      BY <2>2, SumsAre
    <3>3. Brought(u, kind) = cash /\ Cap(kind) = CashLimit - 1
      BY <1>8, <2>2 DEF Brought, Cap
    <3>4. SumOf(business, kind) \in Int /\ CashLimit \in Nat /\ cash \in Nat
      BY GateConstants, GateTypes, JudgedIsSumLessLoose
    <3>5. cash > 0 => SumOf(business, kind) + cash <= CashLimit - 1
      BY <3>1, <3>2, <3>4
    <3> QED BY <1>8, <3>3, <3>5 DEF Fits
  <2> QED BY <2>1, <2>2 DEF Kinds
<1>11. \A day \in 1..LastGateDay, kind \in Kinds : u.day = day => Fits(u, SumOf(day, kind), kind)
  BY <1>8, <1>10
<1> QED BY <1>1, <1>5, <1>7, <1>8, <1>9, <1>11, UnbookedKeeps

LEMMA FailBillKeeps == ASSUME GateInv, NEW b \in GateBills, FailBill(b) PROVE GateInv'
<1>1. GateRowIsSound(NoGateBill)
  BY GateRowsAre DEF GateRowIsSound
<1>2. \A day \in 1..LastGateDay, kind \in Kinds : Fits(NoGateBill, SumOf(day, kind), kind)
  BY GateRowsAre DEF Fits
<1> QED BY <1>1, <1>2, GateRowsAre, UnbookedKeeps DEF FailBill

LEMMA BookBillKeeps == ASSUME GateInv, NEW b \in GateBills, BookBill(b) PROVE GateInv'
<1>1. PICK v : v = gateBills[b]
  OBVIOUS
<1>2. PICK u : u = [v EXCEPT !.at = "booked"]
  OBVIOUS
<1>3. v \in GateRows /\ v.at = "asked" /\ GateRowIsSound(v) /\ v.back = 0 /\ v.freed = 0
  BY <1>1, GateTypes DEF GateInv, GateRowIsSound, BookBill
<1>4. u \in GateRows
  BY <1>2, <1>3 DEF GateRows
<1>5. /\ u.at = "booked" /\ u.given = v.given /\ u.cash = v.cash /\ u.day = v.day /\ u.stale = v.stale /\ u.lagging = v.lagging
      /\ u.back = 0 /\ u.freed = 0
  BY <1>2, <1>3 DEF GateRows
<1>6. GateRowIsSound(u)
  BY <1>5 DEF GateRowIsSound
<1>7. gateBills' = NowStale([gateBills EXCEPT ![b] = u]) /\ UNCHANGED <<gateDay, business, waived>>
  <2>1. [gateBills EXCEPT ![b].at = "booked"] = [gateBills EXCEPT ![b] = u]
    BY <1>1, <1>2, GateTypes
  <2> QED BY <2>1 DEF BookBill
<1>8. ASSUME NEW day \in 1..LastGateDay, NEW kind \in Kinds, Capped(kind)
      PROVE  JudgedSum(day, kind) + Judging(u, day, kind) - Judging(v, day, kind) <= Cap(kind)
  <2> Unjudged(u, kind) <=> Unjudged(v, kind)
    BY <1>5 DEF Unjudged
  <2>1. Judging(v, day, kind) = 0
    BY <1>3, UnbookedAddsNothing
  <2>2. JudgedSum(day, kind) \in Int /\ SumOf(day, kind) \in Int /\ JudgedSum(day, kind) <= SumOf(day, kind)
    BY GateTypes, JudgedIsSumLessLoose
  <2>3. JudgedSum(day, kind) <= Cap(kind) /\ Cap(kind) \in Int
    BY <1>8, GateConstants DEF GateInv, Cap
  <2>4. Brought(u, kind) = Brought(v, kind) /\ Brought(v, kind) \in Nat
    BY <1>3, <1>5, GateTermsAre DEF Brought
  <2>5. day # 0
    BY GateConstants
  <2>6. CASE ~Unjudged(v, kind) /\ v.day = day /\ Brought(v, kind) > 0
    <3>1. SumOf(day, kind) + Brought(v, kind) <= Cap(kind)
      BY <1>1, <1>3, <1>8, <2>6 DEF GateInv, Fits
    <3>2. Judging(u, day, kind) = Brought(v, kind)
      BY <1>5, <2>4, <2>5, <2>6 DEF Judging, Adding, Loose
    <3> QED BY <2>1, <2>2, <2>3, <2>4, <3>1, <3>2
  <2>7. CASE ~(~Unjudged(v, kind) /\ v.day = day /\ Brought(v, kind) > 0)
    <3>1. Judging(u, day, kind) = 0
      BY <1>5, <2>4, <2>5, <2>7 DEF Judging, Adding, Loose
    <3> QED BY <2>1, <2>2, <2>3, <3>1
  <2> QED BY <2>6, <2>7
<1> QED BY <1>1, <1>4, <1>5, <1>6, <1>7, <1>8, CommitKeeps

\* A bill that goes adds no more than before.
LEMMA VoidBillKeeps == ASSUME GateInv, NEW b \in GateBills, VoidBill(b) PROVE GateInv'
<1>1. PICK u : u = [NoGateBill EXCEPT !.at = "void"]
  OBVIOUS
<1>2. PICK v : v = gateBills[b]
  OBVIOUS
<1>3. v \in GateRows /\ v.at = "booked" /\ v.back = 0
  BY <1>2, GateTypes DEF GateInv, GateRowIsSound, VoidBill
<1>4. u \in GateRows /\ u.at = "void" /\ u.back = 0 /\ u.freed = 0
  BY <1>1, GateRowsAre
<1>5. GateRowIsSound(u)
  BY <1>4 DEF GateRowIsSound
<1>6. ASSUME NEW day \in 1..LastGateDay, NEW kind \in Kinds, Capped(kind)
      PROVE  JudgedSum(day, kind) + Judging(u, day, kind) - Judging(v, day, kind) <= Cap(kind)
  <2>1. Judging(u, day, kind) = 0
    BY <1>4, UnbookedAddsNothing
  <2>2. Judging(v, day, kind) \in Nat
    <3>1. Brought(v, kind) \in Nat /\ day # 0
      BY <1>3, GateTermsAre, GateConstants
    <3> QED BY <1>3, <3>1 DEF Judging, Adding, Loose
  <2>3. JudgedSum(day, kind) <= Cap(kind) /\ Cap(kind) \in Int /\ JudgedSum(day, kind) \in Int
    BY <1>6, GateConstants, GateTypes, JudgedIsSumLessLoose DEF GateInv, Cap
  <2> QED BY <2>1, <2>2, <2>3
<1> QED BY <1>1, <1>2, <1>4, <1>5, <1>6, CommitKeeps DEF VoidBill

LEMMA TakeBillBackKeeps ==
    ASSUME GateInv, NEW b \in GateBills, NEW freed \in {0, gateBills[b].given}, TakeBillBack(b, freed)
    PROVE  GateInv'
<1>1. PICK v : v = gateBills[b]
  OBVIOUS
<1>2. PICK u : u = [v EXCEPT !.at = "returned", !.back = business, !.freed = freed]
  OBVIOUS
<1>3. v \in GateRows /\ v.at = "booked" /\ v.back = 0
  BY <1>1, GateTypes DEF GateInv, GateRowIsSound, TakeBillBack
<1>4. freed \in Nat /\ business \in 0..LastGateDay
  BY <1>1, <1>3, GateTypes DEF GateRows
<1>5. u \in GateRows
  BY <1>2, <1>3, <1>4 DEF GateRows
<1>6. /\ u.at = "returned" /\ u.given = v.given /\ u.cash = v.cash /\ u.day = v.day /\ u.stale = v.stale /\ u.lagging = v.lagging
      /\ u.back = business
  BY <1>2, <1>3 DEF GateRows
<1>7. GateRowIsSound(u)
  BY <1>6 DEF GateRowIsSound
<1>8. ASSUME NEW day \in 1..LastGateDay, NEW kind \in Kinds, Capped(kind)
      PROVE  JudgedSum(day, kind) + Judging(u, day, kind) - Judging(v, day, kind) <= Cap(kind)
  <2>1. Brought(v, kind) \in Nat /\ TookBack(u, kind) \in Nat /\ day # 0 /\ Brought(u, kind) = Brought(v, kind)
    BY <1>3, <1>5, <1>6, GateTermsAre, GateConstants DEF Brought
  <2>2. PICK n \in Nat : n = IF business = day THEN TookBack(u, kind) ELSE 0
    BY <2>1
  <2>3. PICK m \in Nat : m = IF v.day = day THEN Brought(v, kind) ELSE 0
    BY <2>1
  <2>4. Adding(u, day, kind) = m - n /\ Adding(v, day, kind) = m
    BY <1>3, <1>6, <2>1, <2>2, <2>3 DEF Adding
  <2>5. Loose(u, day, kind) = Loose(v, day, kind) /\ Loose(v, day, kind) \in Nat
    <3>1. Loose(u, day, kind) = Loose(v, day, kind)
      BY <1>3, <1>6, <2>1 DEF Loose, Unjudged
    <3> QED BY <1>3, <3>1, GateTermsAre
  <2>6. JudgedSum(day, kind) <= Cap(kind) /\ Cap(kind) \in Int /\ JudgedSum(day, kind) \in Int
    BY <1>8, GateConstants, GateTypes, JudgedIsSumLessLoose DEF GateInv, Cap
  <2> QED BY <2>4, <2>5, <2>6 DEF Judging
<1>9. gateBills' = NowStale([gateBills EXCEPT ![b] = u]) /\ UNCHANGED <<gateDay, business, waived>>
  BY <1>1, <1>2 DEF TakeBillBack
<1> QED BY <1>1, <1>5, <1>6, <1>7, <1>8, <1>9, CommitKeeps

\* Time and exceptions change no bill.
LEMMA TimeKeeps ==
    ASSUME GateInv, UNCHANGED gateBills, gateDay' \in 1..LastGateDay, business' \in 1..gateDay',
           waived' \subseteq GateBills
    PROVE  GateInv'
<1>1. GateTypeOK'
  BY DEF GateInv, GateTypeOK
<1>2. \A day, kind : SumOf(day, kind)' = SumOf(day, kind) /\ JudgedSum(day, kind)' = JudgedSum(day, kind)
  BY DEF SumOf, JudgedSum
<1> QED BY <1>1, <1>2 DEF GateInv

LEMMA GateSteps == ASSUME GateInv, GateNext PROVE GateInv'
<1>1. gateDay \in 1..LastGateDay /\ business \in 1..gateDay /\ waived \subseteq GateBills /\ LastGateDay \in Nat
  BY GateTypes, GateConstants
<1>2. ASSUME NEW b \in GateBills, WaiveWindow(b) PROVE GateInv'
  BY <1>1, <1>2, TimeKeeps DEF WaiveWindow
<1>3. CASE Midnight
  <2>1. gateDay' \in 1..LastGateDay /\ business' \in 1..gateDay'
    BY <1>1, <1>3 DEF Midnight
  <2> QED BY <1>1, <1>3, <2>1, TimeKeeps DEF Midnight
<1>4. CASE CatchUp
  <2>1. business' \in 1..gateDay'
    BY <1>1, <1>4 DEF CatchUp
  <2> QED BY <1>1, <1>4, <2>1, TimeKeeps DEF CatchUp
<1> QED BY <1>2, <1>3, <1>4, AskBillKeeps, BookBillKeeps, FailBillKeeps, VoidBillKeeps, TakeBillBackKeeps
        DEF GateNext

LEMMA GateInvSays == ASSUME GateInv PROVE GateTypeOK /\ GatesHold
<1>1. ASSUME NEW day \in 1..LastGateDay, NEW kind \in Kinds, Capped(kind)
      PROVE  SumOf(day, kind) - LooseSum(day, kind) <= Cap(kind)
  BY <1>1, GateTypes, JudgedIsSumLessLoose DEF GateInv
<1>2. BudgetHolds
  <2> SUFFICES ASSUME BudgetMax > 0, NEW day \in 1..LastGateDay
               PROVE  Utilised(day) - UnguardedGiven(day) <= BudgetMax
    BY DEF BudgetHolds
  <2>1. "given" \in Kinds /\ Capped("given") /\ Cap("given") = BudgetMax
    BY DEF Kinds, Capped, Cap
  <2> QED BY <1>1, <2>1, SumsAre
<1>3. CashStaysBelow
  <2> SUFFICES ASSUME NEW day \in 1..LastGateDay PROVE CashOf(day) - UnguardedCash(day) < CashLimit
    BY DEF CashStaysBelow
  <2>1. "cash" \in Kinds /\ Capped("cash") /\ Cap("cash") = CashLimit - 1
    BY DEF Kinds, Capped, Cap
  <2>2. SumOf(day, "cash") \in Int /\ LooseSum(day, "cash") \in Int /\ CashLimit \in Int
    BY <2>1, GateTypes, GateConstants, JudgedIsSumLessLoose
  <2>3. SumOf(day, "cash") - LooseSum(day, "cash") <= CashLimit - 1
    BY <1>1, <2>1
  <2>4. SumOf(day, "cash") - LooseSum(day, "cash") < CashLimit
    BY <2>2, <2>3
  <2> QED BY <2>4, SumsAre
<1> QED BY <1>2, <1>3 DEF GateInv, GatesHold

-----------------------------------------------------------------------------
(* Returns                                                                 *)

NoteRows == [status : {"none", "pending", "submitted"}, rows : SUBSET Rows,
             toCancel : SUBSET ReturnDevices, creditOnly : BOOLEAN,
             method : {"OriginalTender", "StoreCredit"}, direct : BOOLEAN, warned : BOOLEAN]
\* No row returns twice, and the register puts in stock what a note names,
\* credit-only notes included.
RowsReturnOnce ==
    /\ \A m, n \in Notes : m # n /\ Submitted(m) /\ Submitted(n) =>
         note[m].rows \cap note[n].rows = {}
    /\ \A d \in ReturnDevices : serial[d] = "InStock" <=> <<"device", d>> \in Returned
\* What a credit note says, against the plans and its refund as they are.
NoteIsSquare(v, plans, issued) ==
    /\ v.status = "submitted" /\ v.direct /\ ~v.warned => \A d \in v.toCancel : plans[d] = "Cancelled"
    /\ issued = IF v.status = "submitted" /\ v.method = "StoreCredit" THEN 1 ELSE 0
    /\ \A d \in DevicesIn(v.rows) :
          v.status = "submitted" /\ plans[d] = "Active" => v.warned \/ ~v.direct
    /\ v.status = "pending" => ~v.direct
\* A cancelled plan's voucher is void, and a submitted note accounts for both.
PlanIsSquare(d) ==
    /\ plan[d] = "Cancelled" <=> planVoucher[d] = "void"
    /\ plan[d] = "Cancelled" =>
          \E n \in Notes : note[n].status = "submitted" /\ ~note[n].warned /\ d \in note[n].toCancel
ReturnInv ==
    /\ ReturnTypeOK
    /\ RowsReturnOnce
    /\ \A n \in Notes : NoteIsSquare(note[n], plan, wallet[n])
    /\ \A d \in ReturnDevices : PlanIsSquare(d)

LEMMA ReturnTypes ==
    ASSUME ReturnInv
    PROVE  /\ note \in [Notes -> NoteRows] /\ \A n \in Notes : note[n] \in NoteRows
           /\ serial \in [ReturnDevices -> {"Sold", "InStock"}]
           /\ plan \in [ReturnDevices -> {"Active", "Cancelled"}]
           /\ planVoucher \in [ReturnDevices -> {"whole", "drawn", "void"}]
           /\ claimOpen \in SUBSET ReturnDevices /\ wallet \in [Notes -> Nat]
           /\ NoNote \in NoteRows
<1>1. NoNote \in NoteRows
  BY DEF NoNote, NoteRows
<1> QED BY <1>1 DEF ReturnInv, ReturnTypeOK, NoteRows

LEMMA ReturnedIs ==
    \A x : x \in Returned <=> \E n \in Notes : note[n].status = "submitted" /\ x \in note[n].rows
  BY DEF Returned, Submitted

LEMMA ReturnsStart == ReturnInit => ReturnInv
<1> SUFFICES ASSUME ReturnInit PROVE ReturnInv
  OBVIOUS
<1>1. ReturnTypeOK
  BY DEF ReturnInit, ReturnTypeOK, NoNote
<1>2. \A n \in Notes : note[n].status = "none" /\ wallet[n] = 0
  BY DEF ReturnInit, NoNote
<1>3. RowsReturnOnce
  BY <1>2, ReturnedIs DEF ReturnInit, RowsReturnOnce, Submitted
<1>4. \A n \in Notes : NoteIsSquare(note[n], plan, wallet[n])
  BY <1>2 DEF NoteIsSquare
<1>5. \A d \in ReturnDevices : PlanIsSquare(d)
  BY DEF ReturnInit, PlanIsSquare
<1> QED BY <1>1, <1>3, <1>4, <1>5 DEF ReturnInv

\* A note that is written without being submitted.
LEMMA DraftKeeps ==
    ASSUME ReturnInv, NEW n \in Notes, NEW v \in NoteRows, note' = [note EXCEPT ![n] = v],
           note[n].status # "submitted", v.status # "submitted", v.status = "pending" => ~v.direct,
           UNCHANGED <<serial, plan, planVoucher, claimOpen, wallet>>
    PROVE  ReturnInv'
<1>1. ReturnTypeOK'
  BY ReturnTypes DEF ReturnTypeOK, NoteRows
<1>2. \A m \in Notes : note'[m] = IF m = n THEN v ELSE note[m]
  BY ReturnTypes
<1>3. \A m \in Notes : Submitted(m)' => Submitted(m) /\ note'[m] = note[m]
  BY <1>2 DEF Submitted
<1>4. \A x : x \in Returned' <=> x \in Returned
  BY <1>2 DEF Returned, Submitted
<1>5. RowsReturnOnce'
  <2>1. \A m, k \in Notes : m # k /\ Submitted(m)' /\ Submitted(k)' => note'[m].rows \cap note'[k].rows = {}
    BY <1>3 DEF ReturnInv, RowsReturnOnce
  <2>2. \A d \in ReturnDevices : serial'[d] = "InStock" <=> <<"device", d>> \in Returned'
    BY <1>4 DEF ReturnInv, RowsReturnOnce
  <2> QED BY <2>1, <2>2 DEF RowsReturnOnce
<1>6. ASSUME NEW m \in Notes PROVE NoteIsSquare(note'[m], plan', wallet'[m])
  <2>1. NoteIsSquare(note[m], plan, wallet[m])
    BY DEF ReturnInv
  <2> QED BY <1>2, <2>1 DEF NoteIsSquare
<1>7. ASSUME NEW d \in ReturnDevices PROVE PlanIsSquare(d)'
  <2>1. PlanIsSquare(d)
    BY DEF ReturnInv
  <2> QED BY <1>2, <2>1 DEF PlanIsSquare
<1> QED BY <1>1, <1>5, <1>6, <1>7 DEF ReturnInv

\* A note that is submitted: its rows are not back yet, and its devices are taken in.
LEMMA SubmittedOnce ==
    ASSUME ReturnInv, NEW n \in Notes, NEW v \in NoteRows, note' = [note EXCEPT ![n] = v],
           note[n].status # "submitted", v.status = "submitted", NotReturnedYet(v.rows), TakeBack(v.rows)
    PROVE  RowsReturnOnce' /\ serial' \in [ReturnDevices -> {"Sold", "InStock"}]
<1>1. \A m \in Notes : note'[m] = IF m = n THEN v ELSE note[m]
  BY ReturnTypes
<1>2. ASSUME NEW m \in Notes, note[m].status = "submitted" PROVE v.rows \cap note[m].rows = {}
  BY <1>2, ReturnedIs DEF NotReturnedYet
<1>3. \A x : x \in Returned' <=> x \in Returned \/ x \in v.rows
  BY <1>1 DEF Returned, Submitted
<1>4. \A m, k \in Notes : m # k /\ Submitted(m)' /\ Submitted(k)' => note'[m].rows \cap note'[k].rows = {}
  <2> SUFFICES ASSUME NEW m \in Notes, NEW k \in Notes, m # k, Submitted(m)', Submitted(k)'
               PROVE  note'[m].rows \cap note'[k].rows = {}
    OBVIOUS
  <2>1. CASE m = n
    BY <1>1, <1>2, <2>1 DEF Submitted
  <2>2. CASE k = n
    BY <1>1, <1>2, <2>2 DEF Submitted
  <2>3. CASE m # n /\ k # n
    BY <1>1, <2>3 DEF Submitted, ReturnInv, RowsReturnOnce
  <2> QED BY <2>1, <2>2, <2>3
<1>5. \A d \in ReturnDevices : serial'[d] \in {"Sold", "InStock"}
           /\ (serial'[d] = "InStock" <=> serial[d] = "InStock" \/ <<"device", d>> \in v.rows)
  BY ReturnTypes DEF TakeBack, DevicesIn
<1>6. \A d \in ReturnDevices : serial'[d] = "InStock" <=> <<"device", d>> \in Returned'
  BY <1>3, <1>5 DEF ReturnInv, RowsReturnOnce
<1>7. serial' \in [ReturnDevices -> {"Sold", "InStock"}]
  BY <1>5 DEF TakeBack
<1> QED BY <1>4, <1>6, <1>7 DEF RowsReturnOnce

LEMMA InstrumentIs ==
    ASSUME ReturnInv, NEW n \in Notes, NEW method \in {"OriginalTender", "StoreCredit"},
           note[n].status # "submitted", IssueInstrument(n, method)
    PROVE  /\ wallet' \in [Notes -> Nat]
           /\ wallet'[n] = IF method = "StoreCredit" THEN 1 ELSE 0
           /\ \A m \in Notes : m # n => wallet'[m] = wallet[m]
<1>1. wallet[n] = 0
  BY DEF ReturnInv, NoteIsSquare
<1> QED BY <1>1, ReturnTypes DEF IssueInstrument

LEMMA BoundPlansAre ==
    ASSUME NEW asked \in SUBSET Rows PROVE WithBoundPlans(asked) \in SUBSET Rows
<1> SUFFICES ASSUME NEW x \in WithBoundPlans(asked) PROVE x \in Rows
  OBVIOUS
<1>1. CASE x \in asked
  BY <1>1
<1>2. CASE x \notin asked
  <2>1. PICK d \in ReturnDevices : x = <<"plan", d>>
    BY <1>2 DEF WithBoundPlans, DevicesIn
  <2> QED BY <2>1 DEF Rows
<1> QED BY <1>1, <1>2

LEMMA SaveReturnKeeps ==
    ASSUME ReturnInv, NEW n \in Notes, NEW asked \in SUBSET Rows, NEW method \in {"OriginalTender", "StoreCredit"},
           SaveReturn(n, asked, method)
    PROVE  ReturnInv'
<1>1. PICK v : v = [NoNote EXCEPT !.status = "pending", !.rows = WithBoundPlans(asked),
                                  !.toCancel = PlansToCancel(WithBoundPlans(asked)), !.method = method]
  OBVIOUS
<1>2. WithBoundPlans(asked) \in SUBSET Rows
  BY BoundPlansAre
<1>3. PlansToCancel(WithBoundPlans(asked)) \in SUBSET ReturnDevices
  BY DEF PlansToCancel, DevicesIn, PlanRowsIn
<1>4. v \in NoteRows
  BY <1>1, <1>2, <1>3, ReturnTypes DEF NoteRows
<1>5. v.status = "pending" /\ ~v.direct
  BY <1>1 DEF NoNote
<1> QED BY <1>1, <1>4, <1>5, DraftKeeps DEF SaveReturn, Makes

LEMMA DiscardReturnKeeps == ASSUME ReturnInv, NEW n \in Notes, DiscardReturn(n) PROVE ReturnInv'
<1>1. NoNote.status = "none"
  BY DEF NoNote
<1> QED BY <1>1, ReturnTypes, DraftKeeps DEF DiscardReturn

LEMMA SubmitReturnKeeps ==
    ASSUME ReturnInv, NEW n \in Notes, NEW asked \in SUBSET Rows, NEW method \in {"OriginalTender", "StoreCredit"},
           NEW creditOnly \in BOOLEAN, NEW manager \in BOOLEAN,
           SubmitReturn(n, asked, method, creditOnly, manager)
    PROVE  ReturnInv'
<1>1. PICK rows : rows = WithBoundPlans(asked)
  OBVIOUS
<1>2. PICK ds : ds = PlansToCancel(rows)
  OBVIOUS
<1>3. PICK all \in BOOLEAN : all <=> \A d \in ds : CanCancelPlan(d)
  OBVIOUS
<1>4. PICK v : v = [status |-> "submitted", rows |-> rows, toCancel |-> ds, creditOnly |-> creditOnly,
                    method |-> method, direct |-> TRUE, warned |-> ~all]
  OBVIOUS
<1>5. /\ note' = [note EXCEPT ![n] = v] /\ TakeBack(rows) /\ IssueInstrument(n, method)
      /\ claimOpen' = claimOpen /\ note[n].status = "none" /\ NotReturnedYet(rows)
  <2>1. all = \A d \in ds : CanCancelPlan(d)
    BY <1>3
  <2> QED BY <1>1, <1>2, <1>4, <2>1 DEF SubmitReturn, Makes
<1>6. /\ rows \in SUBSET Rows /\ ds \in SUBSET ReturnDevices
      /\ \A d \in DevicesIn(rows) : plan[d] = "Active" => d \in ds
  <2>1. rows \in SUBSET Rows
    BY <1>1, BoundPlansAre
  <2>2. ds \in SUBSET ReturnDevices
    BY <1>2 DEF PlansToCancel, DevicesIn, PlanRowsIn
  <2>3. \A d \in DevicesIn(rows) : plan[d] = "Active" => d \in ds
    BY <1>2 DEF PlansToCancel
  <2> QED BY <2>1, <2>2, <2>3
<1>7. v \in NoteRows /\ v.status = "submitted" /\ v.rows = rows
  BY <1>4, <1>6 DEF NoteRows
<1>8. RowsReturnOnce' /\ serial' \in [ReturnDevices -> {"Sold", "InStock"}]
  BY <1>5, <1>7, SubmittedOnce
<1>9. ASSUME NEW d \in ReturnDevices
      PROVE  /\ plan'[d] = IF all /\ d \in ds THEN "Cancelled" ELSE plan[d]
             /\ planVoucher'[d] = IF all /\ d \in ds THEN "void" ELSE planVoucher[d]
  BY <1>1, <1>2, <1>3 DEF SubmitReturn, CancelPlans
<1>10. plan' \in [ReturnDevices -> {"Active", "Cancelled"}] /\ planVoucher' \in [ReturnDevices -> {"whole", "drawn", "void"}]
  <2>1. plan' = [d \in ReturnDevices |-> plan'[d]] /\ planVoucher' = [d \in ReturnDevices |-> planVoucher'[d]]
    BY DEF SubmitReturn, CancelPlans
  <2>2. \A d \in ReturnDevices : plan'[d] \in {"Active", "Cancelled"} /\ planVoucher'[d] \in {"whole", "drawn", "void"}
    BY <1>9, ReturnTypes
  <2> QED BY <2>1, <2>2
<1>11. \A m \in Notes : note'[m] = IF m = n THEN v ELSE note[m]
  BY <1>5, ReturnTypes
<1>12. /\ wallet' \in [Notes -> Nat] /\ wallet'[n] = IF method = "StoreCredit" THEN 1 ELSE 0
       /\ \A m \in Notes : m # n => wallet'[m] = wallet[m]
  BY <1>5, InstrumentIs
<1>13. ReturnTypeOK'
  <2>1. note' \in [Notes -> NoteRows]
    BY <1>5, <1>7, ReturnTypes
  <2> QED BY <1>5, <1>8, <1>10, <1>12, <2>1, ReturnTypes DEF ReturnTypeOK, NoteRows
<1>14. ASSUME NEW m \in Notes PROVE NoteIsSquare(note'[m], plan', wallet'[m])
  <2>1. CASE m = n
    <3>1. v.method = method /\ v.direct = TRUE /\ v.warned = ~all /\ v.toCancel = ds
      BY <1>4
    <3>2. all => \A d \in ds : plan'[d] = "Cancelled"
      BY <1>6, <1>9
    <3>3. \A d \in DevicesIn(rows) : plan'[d] = "Active" => ~all
      BY <1>6, <1>9 DEF DevicesIn
    <3>4. note'[m] = v
      BY <1>11, <2>1
    <3> QED BY <1>7, <1>12, <2>1, <3>1, <3>2, <3>3, <3>4 DEF NoteIsSquare
  <2>2. CASE m # n
    <3>1. NoteIsSquare(note[m], plan, wallet[m]) /\ note[m] \in NoteRows
      BY ReturnTypes DEF ReturnInv
    <3>2. note'[m] = note[m] /\ wallet'[m] = wallet[m]
      BY <1>11, <1>12, <2>2
    <3>3. \A d \in ReturnDevices : (plan[d] = "Cancelled" => plan'[d] = "Cancelled")
                                   /\ (plan'[d] = "Active" => plan[d] = "Active")
      BY <1>9
    <3> QED BY <3>1, <3>2, <3>3 DEF NoteIsSquare, NoteRows, DevicesIn
  <2> QED BY <2>1, <2>2
<1>15. ASSUME NEW d \in ReturnDevices PROVE PlanIsSquare(d)'
  <2>1. PlanIsSquare(d)
    BY DEF ReturnInv
  <2>2. CASE all /\ d \in ds
    <3>1. plan'[d] = "Cancelled" /\ planVoucher'[d] = "void"
      BY <1>9, <2>2
    <3>2. note'[n].status = "submitted" /\ ~note'[n].warned /\ d \in note'[n].toCancel
      <4>1. note'[n] = v /\ v.toCancel = ds
        BY <1>4, <1>11
      <4>2. v.warned = ~all
        BY <1>4
      <4>3. v.status = "submitted"
        BY <1>7
      <4> QED BY <2>2, <4>1, <4>2, <4>3
    <3> QED BY <3>1, <3>2 DEF PlanIsSquare
  <2>3. CASE ~(all /\ d \in ds)
    <3>1. plan'[d] = plan[d] /\ planVoucher'[d] = planVoucher[d]
      BY <1>9, <2>3
    <3>2. \A m \in Notes : note[m].status = "submitted" => note'[m] = note[m]
      BY <1>5, <1>11
    <3> QED BY <2>1, <3>1, <3>2 DEF PlanIsSquare
  <2> QED BY <2>2, <2>3
<1> QED BY <1>8, <1>13, <1>14, <1>15 DEF ReturnInv

LEMMA ApproveReturnKeeps == ASSUME ReturnInv, NEW n \in Notes, ApproveReturn(n) PROVE ReturnInv'
<1>1. PICK v : v = [note[n] EXCEPT !.status = "submitted"]
  OBVIOUS
<1>2. note[n] \in NoteRows /\ note[n].status = "pending"
  BY ReturnTypes DEF ApproveReturn
<1>3. v \in NoteRows
  BY <1>1, <1>2 DEF NoteRows
<1>4. /\ v.status = "submitted" /\ v.rows = note[n].rows /\ v.method = note[n].method
      /\ v.direct = note[n].direct
  BY <1>1, <1>2 DEF NoteRows
<1>5. note' = [note EXCEPT ![n] = v] /\ UNCHANGED <<plan, planVoucher, claimOpen>>
  BY <1>1, ReturnTypes DEF ApproveReturn
<1>6. RowsReturnOnce' /\ serial' \in [ReturnDevices -> {"Sold", "InStock"}]
  BY <1>2, <1>3, <1>4, <1>5, SubmittedOnce DEF ApproveReturn
<1>7. /\ wallet' \in [Notes -> Nat] /\ wallet'[n] = IF v.method = "StoreCredit" THEN 1 ELSE 0
      /\ \A m \in Notes : m # n => wallet'[m] = wallet[m]
  <2>1. IssueInstrument(n, note[n].method) /\ note[n].method \in {"OriginalTender", "StoreCredit"}
    BY <1>2 DEF ApproveReturn, NoteRows
  <2> QED BY <1>2, <1>4, <2>1, InstrumentIs
<1>8. ReturnTypeOK'
  BY <1>3, <1>5, <1>6, <1>7, ReturnTypes DEF ReturnTypeOK, NoteRows
<1>9. \A m \in Notes : note'[m] = IF m = n THEN v ELSE note[m]
  BY <1>5, ReturnTypes
<1>10. ASSUME NEW m \in Notes PROVE NoteIsSquare(note'[m], plan', wallet'[m])
  <2>1. NoteIsSquare(note[m], plan, wallet[m])
    BY DEF ReturnInv
  <2>2. CASE m = n
    <3>1. ~v.direct
      BY <1>2, <1>4, <2>1, <2>2 DEF NoteIsSquare
    <3> QED BY <1>4, <1>7, <1>9, <2>2, <3>1 DEF NoteIsSquare
  <2>3. CASE m # n
    BY <1>5, <1>7, <1>9, <2>1, <2>3
  <2> QED BY <2>2, <2>3
<1>11. ASSUME NEW d \in ReturnDevices PROVE PlanIsSquare(d)'
  <2>1. PlanIsSquare(d)
    BY DEF ReturnInv
  <2>2. \A m \in Notes : note[m].status = "submitted" => note'[m] = note[m]
    BY <1>2, <1>9
  <2> QED BY <1>5, <2>1, <2>2 DEF PlanIsSquare
<1> QED BY <1>6, <1>8, <1>10, <1>11 DEF ReturnInv

LEMMA PlanUseKeeps ==
    ASSUME ReturnInv, NEW d \in ReturnDevices, DrawVoucher(d) \/ OpenClaim(d) \/ CloseClaim(d)
    PROVE  ReturnInv'
<1>1. UNCHANGED <<note, serial, plan, wallet>>
  BY DEF DrawVoucher, OpenClaim, CloseClaim
<1>2. claimOpen' \in SUBSET ReturnDevices /\ planVoucher' \in [ReturnDevices -> {"whole", "drawn", "void"}]
  BY ReturnTypes DEF DrawVoucher, OpenClaim, CloseClaim
<1>3. \A e \in ReturnDevices : planVoucher'[e] = "void" <=> planVoucher[e] = "void"
  BY ReturnTypes DEF DrawVoucher, OpenClaim, CloseClaim
<1>4. ReturnTypeOK'
  BY <1>1, <1>2 DEF ReturnInv, ReturnTypeOK
<1>5. RowsReturnOnce'
  BY <1>1 DEF ReturnInv, RowsReturnOnce, Returned, Submitted
<1>6. \A n \in Notes : NoteIsSquare(note'[n], plan', wallet'[n])
  BY <1>1 DEF ReturnInv
<1>7. \A e \in ReturnDevices : PlanIsSquare(e)'
  BY <1>1, <1>3 DEF ReturnInv, PlanIsSquare
<1> QED BY <1>4, <1>5, <1>6, <1>7 DEF ReturnInv

LEMMA ReturnSteps == ASSUME ReturnInv, ReturnNext PROVE ReturnInv'
  BY SaveReturnKeeps, SubmitReturnKeeps, ApproveReturnKeeps, DiscardReturnKeeps, PlanUseKeeps DEF ReturnNext

LEMMA ReturnInvSays == ASSUME ReturnInv PROVE ReturnTypeOK /\ ReturnsAddUp
<1>1. PlansGoTogether
  BY DEF ReturnInv, NoteIsSquare, PlanIsSquare, PlansGoTogether, Submitted
<1>2. CreditFollowsReturn
  BY DEF ReturnInv, NoteIsSquare, CreditFollowsReturn, Submitted
<1>3. ASSUME NEW n \in Notes, Submitted(n), NEW d \in DevicesIn(note[n].rows) PROVE serial[d] = "InStock"
  BY <1>3, ReturnedIs DEF ReturnInv, RowsReturnOnce, DevicesIn, Submitted
<1>4. ReturnedOnce
  BY <1>3 DEF ReturnInv, RowsReturnOnce, ReturnedOnce
<1> QED BY <1>1, <1>2, <1>4 DEF ReturnInv, ReturnsAddUp

-----------------------------------------------------------------------------
(* Exchanges                                                               *)

ExchangeRows == [at : {"none", "queued", "pending", "returned", "settled"}, back : Baskets,
                 paid : Nat, price : Int, payout : Nat]
Credited(v, row) == IF v.at \in {"returned", "settled"} THEN v.back[row] ELSE 0
ExchangeRowIsSound(v) ==
    /\ v.at = "none" => v = NoExchange
    /\ v.at = "queued" => v.back = NothingBack /\ v.payout = 0
    /\ v.at \in {"pending", "returned"} => v.paid = 0 /\ v.price = 0 /\ v.payout = 0
    /\ v.at = "settled" => Distance(v.paid - v.payout, v.price - Worth(v.back)) <= 2 * Close
ExchangeInv ==
    /\ ExchangeTypeOK
    /\ \A x \in Exchanges : ExchangeRowIsSound(swap[x])
    /\ \A row \in BillRows : CreditedOn(row) <= SoldOn(row)

LEMMA ExchangeConstants ==
    /\ IsFiniteSet(Exchanges) /\ IsFiniteSet(BillRows) /\ SparesSold \in Nat
    /\ RowPrice \in [BillRows -> Nat] /\ Estimates \subseteq Nat /\ Drifts \subseteq Int
<1>1. BillRows = (({} \cup {"device"}) \cup {"plan"}) \cup {"spare"}
  BY DEF BillRows
<1>2. IsFiniteSet((({} \cup {"device"}) \cup {"plan"}) \cup {"spare"})
  BY FS_EmptySet, FS_AddElement
<1> QED BY <1>1, <1>2, ExchangeAssumption

LEMMA ExchangeTypes ==
    ASSUME ExchangeInv
    PROVE  /\ swap \in [Exchanges -> ExchangeRows] /\ planLive \in BOOLEAN
           /\ \A x \in Exchanges : swap[x] \in ExchangeRows /\ ExchangeRowIsSound(swap[x])
  BY DEF ExchangeInv, ExchangeTypeOK, ExchangeRows

LEMMA BasketsAre ==
    /\ NothingBack \in Baskets
    /\ \A back \in Baskets : back \in [BillRows -> Nat]
    /\ \A back \in Baskets : WithPlan(back) \in Baskets
<1>1. NothingBack \in Baskets
  BY ExchangeConstants DEF NothingBack, Baskets, SoldOn
<1>2. ASSUME NEW back \in Baskets PROVE back \in [BillRows -> Nat]
  BY ExchangeConstants DEF Baskets
<1>3. ASSUME NEW back \in Baskets PROVE WithPlan(back) \in Baskets
  <2>1. PICK more : more = [back EXCEPT !["plan"] = 1]
    OBVIOUS
  <2>2. back \in [BillRows -> 0..(SparesSold + 1)] /\ 1 \in 0..(SparesSold + 1)
    BY ExchangeConstants DEF Baskets
  <2>3. more \in [BillRows -> 0..(SparesSold + 1)]
    BY <2>1, <2>2
  <2>4. \A row \in BillRows : more[row] = IF row = "plan" THEN 1 ELSE back[row]
    BY <2>1, <2>2
  <2>5. SoldOn("plan") = 1 /\ \A row \in BillRows : back[row] <= SoldOn(row)
    BY DEF SoldOn, Baskets
  <2>6. \A row \in BillRows : more[row] <= SoldOn(row)
    BY <2>4, <2>5
  <2>7. more \in Baskets
    BY <2>3, <2>6 DEF Baskets
  <2> QED BY <2>1, <2>7 DEF WithPlan
<1> QED BY <1>1, <1>2, <1>3

LEMMA WorthIs ==
    /\ Worth(NothingBack) = 0
    /\ \A back \in Baskets : Worth(back) \in Nat
<1>1. ASSUME NEW back \in Baskets
      PROVE  [row \in BillRows |-> back[row] * RowPrice[row]] \in [BillRows -> Nat]
  <2>1. \A row \in BillRows : back[row] \in Nat /\ RowPrice[row] \in Nat
    BY ExchangeConstants, BasketsAre
  <2>2. \A m, n \in Nat : m * n \in Nat
    OBVIOUS
  <2>3. \A row \in BillRows : back[row] * RowPrice[row] \in Nat
    BY <2>1, <2>2
  <2> QED BY <2>3
<1>2. ASSUME NEW back \in Baskets PROVE Worth(back) \in Nat
  <2>1. PICK f : f = [row \in BillRows |-> back[row] * RowPrice[row]]
    OBVIOUS
  <2>2. SumFunction(f) \in Nat
    BY <1>1, <2>1, ExchangeConstants, SumInNat
  <2> QED BY <2>1, <2>2 DEF Worth
<1>3. Worth(NothingBack) = 0
  <2>1. PICK f : f = [row \in BillRows |-> NothingBack[row] * RowPrice[row]]
    OBVIOUS
  <2>2. \A row \in BillRows : NothingBack[row] = 0 /\ RowPrice[row] \in Nat
    BY ExchangeConstants DEF NothingBack
  <2>3. \A n \in Nat : 0 * n = 0
    OBVIOUS
  <2>4. \A row \in BillRows : f[row] = 0
    BY <2>1, <2>2, <2>3
  <2>5. f \in [BillRows -> Int]
    BY <2>1, <2>4
  <2>6. SumFunction(f) = 0
    BY <2>4, <2>5, ExchangeConstants, SumOfZeros
  <2> QED BY <2>1, <2>6 DEF Worth
<1> QED BY <1>2, <1>3

LEMMA NoExchangeIs ==
    /\ NoExchange \in ExchangeRows /\ NoExchange.at = "none" /\ NoExchange.back = NothingBack
    /\ NoExchange.paid = 0 /\ NoExchange.price = 0 /\ NoExchange.payout = 0
    /\ ExchangeRowIsSound(NoExchange)
<1>1. NoExchange \in ExchangeRows
  BY BasketsAre DEF NoExchange, ExchangeRows
<1>2. /\ NoExchange.at = "none" /\ NoExchange.back = NothingBack
      /\ NoExchange.paid = 0 /\ NoExchange.price = 0 /\ NoExchange.payout = 0
  BY DEF NoExchange
<1> QED BY <1>1, <1>2 DEF ExchangeRowIsSound

LEMMA ExchangeStarts == ExchangeInit => ExchangeInv
<1> SUFFICES ASSUME ExchangeInit PROVE ExchangeInv
  OBVIOUS
<1>1. /\ swap \in [Exchanges -> ExchangeRows] /\ planLive \in BOOLEAN
      /\ \A x \in Exchanges : swap[x] = NoExchange
  BY NoExchangeIs DEF ExchangeInit
<1>2. ExchangeTypeOK
  BY <1>1 DEF ExchangeTypeOK, ExchangeRows
<1>3. ASSUME NEW row \in BillRows PROVE CreditedOn(row) <= SoldOn(row)
  <2>1. PICK f : f = [x \in Exchanges |-> IF swap[x].at \in {"returned", "settled"} THEN swap[x].back[row] ELSE 0]
    OBVIOUS
  <2>2. \A x \in Exchanges : f[x] = 0
    BY <1>1, <2>1, NoExchangeIs
  <2>3. f \in [Exchanges -> Int]
    BY <2>1, <2>2
  <2>4. CreditedOn(row) = 0
    BY <2>1, <2>2, <2>3, ExchangeConstants, SumOfZeros DEF CreditedOn
  <2>5. 0 <= SoldOn(row)
    BY ExchangeConstants DEF SoldOn
  <2> QED BY <2>4, <2>5
<1> QED BY <1>1, <1>2, <1>3, NoExchangeIs DEF ExchangeInv

-----------------------------------------------------------------------------

\* One exchange changes, and with it what was credited on a row.
LEMMA CreditMoves ==
    ASSUME ExchangeInv, NEW x \in Exchanges, NEW u \in ExchangeRows,
           swap' = [swap EXCEPT ![x] = u], NEW row \in BillRows
    PROVE  /\ CreditedOn(row)' = CreditedOn(row) + Credited(u, row) - Credited(swap[x], row)
           /\ CreditedOn(row) \in Int /\ Credited(u, row) \in Int /\ Credited(swap[x], row) \in Int
<1>1. PICK f : f = [o \in Exchanges |-> Credited(swap[o], row)]
  OBVIOUS
<1>2. PICK k : k = [o \in Exchanges |-> Credited(swap'[o], row)]
  OBVIOUS
<1>3. \A v \in ExchangeRows : Credited(v, row) \in Int
  BY BasketsAre DEF ExchangeRows, Credited
<1>4. /\ swap' \in [Exchanges -> ExchangeRows] /\ swap'[x] = u
      /\ \A o \in Exchanges : o # x => swap'[o] = swap[o]
  BY ExchangeTypes
<1>5. f \in [Exchanges -> Int] /\ k \in [Exchanges -> Int]
  BY <1>1, <1>2, <1>3, <1>4, ExchangeTypes
<1>6. \A o \in Exchanges : o # x => k[o] = f[o]
  BY <1>1, <1>2, <1>4
<1>7. SumFunction(k) = SumFunction(f) + k[x] - f[x]
  BY <1>5, <1>6, ExchangeConstants, SumChanges
<1>8. k[x] = Credited(u, row) /\ f[x] = Credited(swap[x], row)
  BY <1>1, <1>2, <1>4
<1>9. CreditedOn(row) = SumFunction(f) /\ CreditedOn(row)' = SumFunction(k)
  BY <1>1, <1>2 DEF CreditedOn, Credited
<1>10. SumFunction(f) \in Int
  BY <1>5, ExchangeConstants, SumInInt
<1> QED BY <1>3, <1>7, <1>8, <1>9, <1>10, ExchangeTypes

LEMMA ExchangeKeeps ==
    ASSUME ExchangeInv, NEW x \in Exchanges, NEW u \in ExchangeRows,
           swap' = [swap EXCEPT ![x] = u], ExchangeRowIsSound(u), planLive' \in BOOLEAN,
           \A row \in BillRows : CreditedOn(row) + Credited(u, row) - Credited(swap[x], row) <= SoldOn(row)
    PROVE  ExchangeInv'
<1>1. /\ swap' \in [Exchanges -> ExchangeRows] /\ swap'[x] = u
      /\ \A o \in Exchanges : o # x => swap'[o] = swap[o]
  BY ExchangeTypes
<1>2. ExchangeTypeOK'
  BY <1>1 DEF ExchangeTypeOK, ExchangeRows
<1>3. \A o \in Exchanges : ExchangeRowIsSound(swap'[o])
  BY <1>1, ExchangeTypes
<1>4. ASSUME NEW row \in BillRows PROVE CreditedOn(row)' <= SoldOn(row)
  <2>1. CreditedOn(row)' = CreditedOn(row) + Credited(u, row) - Credited(swap[x], row)
    BY CreditMoves
  <2> QED BY <2>1
<1> QED BY <1>2, <1>3, <1>4 DEF ExchangeInv

\* Whatever the way the money goes, the customer is square within one unit.
LEMMA SquaresUp ==
    ASSUME NEW delta \in Int, NEW actual \in Int, NEW paid \in Nat,
           SettlementFits(delta, paid), SameDifference(delta, actual)
    PROVE  PaidOut(actual) \in Nat /\ Distance(paid - PaidOut(actual), actual) <= 2 * Close
<1>1. PICK out : out = PaidOut(actual)
  OBVIOUS
<1>2. out = IF actual < -1 THEN -actual ELSE 0
  BY <1>1 DEF PaidOut, Close
<1>3. out \in Nat
  BY <1>2
<1>4. delta - actual <= 1 /\ actual - delta <= 1
  BY DEF SameDifference, Distance, Close
<1>5. CASE delta > 1
  <2>1. paid - delta <= 1 /\ delta - paid <= 1
    BY <1>5 DEF SettlementFits, Way, Distance, Close
  <2>2. out = 0
    BY <1>2, <1>4, <1>5
  <2> QED BY <1>1, <1>3, <1>4, <2>1, <2>2 DEF Distance, Close
<1>6. CASE ~(delta > 1)
  <2>1. paid <= 1
    BY <1>6 DEF SettlementFits, Way, Close
  <2>2. paid - out - actual <= 2 /\ actual - (paid - out) <= 2
    BY <1>2, <1>4, <1>6, <2>1
  <2> QED BY <1>1, <1>3, <2>2 DEF Distance, Close
<1> QED BY <1>5, <1>6

LEMMA WaitsKeeps ==
    ASSUME ExchangeInv, NEW x \in Exchanges, NEW asked \in Baskets, NEW estimate, NEW paid,
           ExchangeWaits(x, asked, estimate, paid)
    PROVE  ExchangeInv'
<1>1. PICK back \in Baskets : back = WithPlan(asked)
  BY BasketsAre
<1>2. PICK u : u = [NoExchange EXCEPT !.at = "pending", !.back = back]
  OBVIOUS
<1>3. /\ u \in ExchangeRows /\ u.at = "pending" /\ u.paid = 0 /\ u.price = 0 /\ u.payout = 0
  BY <1>2, NoExchangeIs DEF ExchangeRows
<1>4. swap' = [swap EXCEPT ![x] = u] /\ swap[x].at = "none" /\ planLive' \in BOOLEAN
  BY <1>1, <1>2, ExchangeTypes DEF ExchangeWaits, Asks
<1>5. ExchangeRowIsSound(u)
  BY <1>3 DEF ExchangeRowIsSound
<1>6. ASSUME NEW row \in BillRows
      PROVE  CreditedOn(row) + Credited(u, row) - Credited(swap[x], row) <= SoldOn(row)
  <2>1. Credited(u, row) = 0 /\ Credited(swap[x], row) = 0
    BY <1>3, <1>4 DEF Credited
  <2>2. CreditedOn(row) \in Int /\ CreditedOn(row) <= SoldOn(row)
    BY <1>3, <1>4, CreditMoves DEF ExchangeInv
  <2> QED BY <2>1, <2>2
<1> QED BY <1>3, <1>4, <1>5, <1>6, ExchangeKeeps

LEMMA ExchangeGoesThrough ==
    ASSUME ExchangeInv, NEW x \in Exchanges, NEW asked \in Baskets, NEW estimate \in Estimates,
           NEW paid \in Nat, NEW drift \in Drifts, Exchange(x, asked, estimate, paid, drift)
    PROVE  ExchangeInv'
<1>1. PICK back \in Baskets : back = WithPlan(asked)
  BY BasketsAre
<1>2. PICK price \in Int : price = estimate + drift
  BY ExchangeConstants
<1>3. PICK actual \in Int : actual = price - Worth(back)
  BY WorthIs
<1>4. PICK delta \in Int : delta = estimate - Worth(asked)
  BY WorthIs, ExchangeConstants
<1>5. SettlementFits(delta, paid) /\ SameDifference(delta, actual)
  BY <1>1, <1>2, <1>3, <1>4 DEF Exchange
<1>6. PICK out \in Nat : out = PaidOut(actual) /\ Distance(paid - out, actual) <= 2 * Close
  BY <1>5, SquaresUp
<1>7. PICK u : u = [at |-> "settled", back |-> back, paid |-> paid, price |-> price, payout |-> out]
  OBVIOUS
<1>8. u \in ExchangeRows
  BY <1>7 DEF ExchangeRows
<1>9. u.at = "settled" /\ u.back = back /\ u.paid = paid /\ u.price = price /\ u.payout = out
  BY <1>7
<1>10. ExchangeRowIsSound(u)
  BY <1>3, <1>6, <1>9 DEF ExchangeRowIsSound
<1>11. swap' = [swap EXCEPT ![x] = u] /\ swap[x].at = "none" /\ StillOut(back)
  BY <1>1, <1>2, <1>3, <1>6, <1>7 DEF Exchange, Asks
<1>12. planLive' \in BOOLEAN
  BY ExchangeTypes DEF Exchange
<1>13. ASSUME NEW row \in BillRows
       PROVE  CreditedOn(row) + Credited(u, row) - Credited(swap[x], row) <= SoldOn(row)
  <2>1. Credited(u, row) = back[row] /\ Credited(swap[x], row) = 0
    BY <1>9, <1>11 DEF Credited
  <2>2. CreditedOn(row) + back[row] <= SoldOn(row)
    BY <1>11 DEF StillOut
  <2>3. PICK n \in Nat : n = back[row]
    BY BasketsAre
  <2>4. CreditedOn(row) \in Int
    BY <1>8, <1>11, CreditMoves
  <2> QED BY <2>1, <2>2, <2>3, <2>4
<1> QED BY <1>8, <1>10, <1>11, <1>12, <1>13, ExchangeKeeps

LEMMA ApprovedKeeps == ASSUME ExchangeInv, NEW x \in Exchanges, ApproveExchange(x) PROVE ExchangeInv'
<1>1. PICK v : v = swap[x]
  OBVIOUS
<1>2. v \in ExchangeRows /\ v.at = "pending" /\ v.paid = 0 /\ v.price = 0 /\ v.payout = 0
  BY <1>1, ExchangeTypes DEF ApproveExchange, ExchangeRowIsSound
<1>3. PICK u : u = [v EXCEPT !.at = "returned"]
  OBVIOUS
<1>4. u \in ExchangeRows
  BY <1>2, <1>3 DEF ExchangeRows
<1>5. u.at = "returned" /\ u.back = v.back /\ u.paid = 0 /\ u.price = 0 /\ u.payout = 0
  BY <1>2, <1>3 DEF ExchangeRows
<1>6. ExchangeRowIsSound(u)
  BY <1>5 DEF ExchangeRowIsSound
<1>7. swap' = [swap EXCEPT ![x] = u]
  <2>1. [swap EXCEPT ![x].at = "returned"] = [swap EXCEPT ![x] = u]
    BY <1>1, <1>3, ExchangeTypes
  <2> QED BY <2>1 DEF ApproveExchange
<1>8. planLive' \in BOOLEAN /\ StillOut(v.back)
  BY <1>1, ExchangeTypes DEF ApproveExchange
<1>9. ASSUME NEW row \in BillRows
       PROVE  CreditedOn(row) + Credited(u, row) - Credited(swap[x], row) <= SoldOn(row)
  <2>1. PICK n \in Nat : n = v.back[row]
    BY <1>2, BasketsAre DEF ExchangeRows
  <2>2. Credited(u, row) = n /\ Credited(swap[x], row) = 0
    BY <1>1, <1>2, <1>5, <2>1 DEF Credited
  <2>3. CreditedOn(row) + n <= SoldOn(row)
    BY <1>8, <2>1 DEF StillOut
  <2>4. CreditedOn(row) \in Int
    BY <1>4, <1>7, CreditMoves
  <2> QED BY <2>2, <2>3, <2>4
<1> QED BY <1>4, <1>6, <1>7, <1>8, <1>9, ExchangeKeeps

LEMMA QueuedKeeps ==
    ASSUME ExchangeInv, NEW x \in Exchanges, NEW estimate \in Estimates, NEW paid \in Nat,
           QueueOffline(x, estimate, paid)
    PROVE  ExchangeInv'
<1>1. PICK u : u = [NoExchange EXCEPT !.at = "queued", !.paid = paid, !.price = estimate]
  OBVIOUS
<1>2. estimate \in Int
  BY ExchangeConstants
<1>3. u \in ExchangeRows
  BY <1>1, <1>2, NoExchangeIs DEF ExchangeRows
<1>4. u.at = "queued" /\ u.back = NothingBack /\ u.payout = 0
  BY <1>1, NoExchangeIs DEF ExchangeRows
<1>5. ExchangeRowIsSound(u)
  BY <1>4 DEF ExchangeRowIsSound
<1>6. swap' = [swap EXCEPT ![x] = u] /\ swap[x].at = "none" /\ planLive' \in BOOLEAN
  BY <1>1, ExchangeTypes DEF QueueOffline
<1>7. ASSUME NEW row \in BillRows
      PROVE  CreditedOn(row) + Credited(u, row) - Credited(swap[x], row) <= SoldOn(row)
  <2>1. Credited(u, row) = 0 /\ Credited(swap[x], row) = 0
    BY <1>4, <1>6 DEF Credited
  <2>2. CreditedOn(row) \in Int /\ CreditedOn(row) <= SoldOn(row)
    BY <1>3, <1>6, CreditMoves DEF ExchangeInv
  <2> QED BY <2>1, <2>2
<1> QED BY <1>3, <1>5, <1>6, <1>7, ExchangeKeeps

LEMMA ReplayedKeeps ==
    ASSUME ExchangeInv, NEW x \in Exchanges, NEW drift \in Drifts, Replay(x, drift)
    PROVE  ExchangeInv'
<1>1. PICK v : v = swap[x]
  OBVIOUS
<1>2. v \in ExchangeRows /\ v.at = "queued" /\ v.back = NothingBack /\ v.payout = 0
  BY <1>1, ExchangeTypes DEF Replay, ExchangeRowIsSound
<1>3. PICK price \in Int : price = v.price + drift
  BY <1>2, ExchangeConstants DEF ExchangeRows
<1>4. PICK u : u = [v EXCEPT !.at = "settled", !.price = price]
  OBVIOUS
<1>5. u \in ExchangeRows
  BY <1>2, <1>4 DEF ExchangeRows
<1>6. u.at = "settled" /\ u.back = NothingBack /\ u.payout = 0 /\ u.price = price /\ u.paid = v.paid
  BY <1>2, <1>4 DEF ExchangeRows
<1>7. PICK paid \in Nat : paid = v.paid
  BY <1>2 DEF ExchangeRows
<1>8. Distance(paid, price) <= 2 * Close
  BY <1>1, <1>3, <1>7 DEF Replay, TenderedFits
<1>9. paid - 0 = paid /\ price - 0 = price
  OBVIOUS
<1>10. ExchangeRowIsSound(u)
  BY <1>6, <1>7, <1>8, <1>9, WorthIs DEF ExchangeRowIsSound
<1>11. swap' = [swap EXCEPT ![x] = u] /\ planLive' \in BOOLEAN
  <2>1. [swap EXCEPT ![x].at = "settled", ![x].price = price] = [swap EXCEPT ![x] = u]
    BY <1>1, <1>2, <1>4, ExchangeTypes
  <2> QED BY <1>1, <1>3, <2>1, ExchangeTypes DEF Replay
<1>12. ASSUME NEW row \in BillRows
       PROVE  CreditedOn(row) + Credited(u, row) - Credited(swap[x], row) <= SoldOn(row)
  <2>1. Credited(u, row) = 0 /\ Credited(swap[x], row) = 0
    BY <1>1, <1>2, <1>6 DEF Credited, NothingBack
  <2>2. CreditedOn(row) \in Int /\ CreditedOn(row) <= SoldOn(row)
    BY <1>5, <1>11, CreditMoves DEF ExchangeInv
  <2> QED BY <2>1, <2>2
<1> QED BY <1>5, <1>10, <1>11, <1>12, ExchangeKeeps

LEMMA OffersAre == ASSUME NEW delta \in Int, NEW paid \in Offers(delta) PROVE paid \in Nat
  BY DEF Offers

LEMMA ExchangeSteps == ASSUME ExchangeInv, ExchangeNext PROVE ExchangeInv'
<1>1. ASSUME NEW asked \in Baskets, NEW estimate \in Estimates, NEW paid \in Offers(estimate - Worth(asked))
      PROVE  paid \in Nat
  <2>1. PICK delta \in Int : delta = estimate - Worth(asked)
    BY WorthIs, ExchangeConstants
  <2> QED BY <1>1, <2>1, OffersAre
<1>2. PICK x \in Exchanges :
        \/ \E asked \in Baskets, estimate \in Estimates : \E paid \in Offers(estimate - Worth(asked)) :
              \/ ExchangeWaits(x, asked, estimate, paid)
              \/ QueueOffline(x, estimate, paid)
              \/ \E drift \in Drifts : Exchange(x, asked, estimate, paid, drift)
        \/ ApproveExchange(x)
        \/ \E drift \in Drifts : Replay(x, drift)
  BY DEF ExchangeNext
<1>3. CASE \E asked \in Baskets, estimate \in Estimates : \E paid \in Offers(estimate - Worth(asked)) :
              \/ ExchangeWaits(x, asked, estimate, paid)
              \/ QueueOffline(x, estimate, paid)
              \/ \E drift \in Drifts : Exchange(x, asked, estimate, paid, drift)
  BY <1>1, <1>3, WaitsKeeps, QueuedKeeps, ExchangeGoesThrough
<1> QED BY <1>2, <1>3, ApprovedKeeps, ReplayedKeeps

LEMMA ExchangeInvSays == ASSUME ExchangeInv PROVE ExchangeTypeOK /\ ExchangesSettle
<1>1. CustomerIsSquare
  BY DEF ExchangeInv, ExchangeRowIsSound, CustomerIsSquare
<1>2. NothingReturnedTwice
  BY DEF ExchangeInv, ExchangeRowIsSound, NothingReturnedTwice
<1> QED BY <1>1, <1>2 DEF ExchangeInv, ExchangesSettle

-----------------------------------------------------------------------------
(* Buybacks                                                                *)

\* What a save may make of an order: a later version, or the close without one.
OrderMoves(old, new) ==
    \/ new = old
    \/ new.version > old.version /\ new.status # "none"
    \/ new.version = old.version /\ new.status = "Closed"
\* What a running request read, against the order as it is.
ViewIsSound(d, o) ==
    /\ d.order.version <= o.version
    /\ d.order.status # "none" => o.status # "none"
    /\ d.order.version = o.version => o = d.order \/ o.status = "Closed"
LetPast(d) ==
    /\ d.act \in {"sign", "otp"} => MayApprove(d.order)
    /\ d.act \in {"pay", "bank"} => MayPay(d.order)
    /\ d.act \in {"sign", "otp", "pay", "bank"} => d.order.status # "none"
    /\ d.act = "credit" => ~d.linked
FullIsSettled(o, out) ==
    o.paid = DevicePrice /\ out = {} /\ DevicePrice > 1 => o.status \in Settled
CreditIsLinked(n, linked, out) ==
    /\ n \in Nat
    /\ n > 0 => linked
    /\ n > 1 => "link" \in out
BuyInv ==
    /\ BuyTypeOK
    /\ CreditIsLinked(credits, traded.linked, outread)
    /\ order.status = "none" => order = NoOrderYet
    /\ FullIsSettled(order, outread)
    /\ \A r \in BuyRequests : deal[r].at = "running" => ViewIsSound(deal[r], order) /\ LetPast(deal[r])

LEMMA BuyRowsAre ==
    /\ NoOrderYet \in OrderRows
    /\ NoDeal \in DealRows
    /\ [NoDeal EXCEPT !.at = "done"] \in DealRows
    /\ [NoDeal EXCEPT !.at = "done"].at = "done"
    /\ NoDeal.at = "new"
    /\ NoOrderYet.version = 0 /\ NoOrderYet.status = "none" /\ NoOrderYet.paid = 0
    /\ DevicePrice \in Nat /\ DevicePrice > 0 /\ MaxVersion \in Nat /\ MaxVersion > 0
<1>1. DevicePrice \in Nat /\ DevicePrice > 0 /\ MaxVersion \in Nat /\ MaxVersion > 0
  BY BuybackAssumption
<1>2. 0 \in 0..DevicePrice /\ 0 \in 0..MaxVersion
  BY <1>1
<1>3. NoOrderYet \in OrderRows
  BY <1>2 DEF NoOrderYet, OrderRows, OrderStatuses
<1>4. NoDeal \in DealRows
  BY <1>3 DEF NoDeal, DealRows
<1>5. [NoDeal EXCEPT !.at = "done"] \in DealRows
  BY <1>4 DEF DealRows
<1>6. [NoDeal EXCEPT !.at = "done"].at = "done"
  BY DEF NoDeal
<1> QED BY <1>1, <1>3, <1>4, <1>5, <1>6 DEF NoOrderYet, NoDeal

LEMMA BuyStarts == BuyInit => BuyInv
<1> SUFFICES ASSUME BuyInit PROVE BuyInv
  OBVIOUS
<1>1. BuyTypeOK
  BY BuyRowsAre DEF BuyInit, BuyTypeOK
<1>2. CreditIsLinked(credits, traded.linked, outread)
  BY DEF BuyInit, CreditIsLinked
<1>3. FullIsSettled(order, outread)
  BY BuyRowsAre DEF BuyInit, FullIsSettled
<1>4. \A r \in BuyRequests : deal[r].at = "new"
  BY BuyRowsAre DEF BuyInit
<1> QED BY <1>1, <1>2, <1>3, <1>4 DEF BuyInv, BuyInit

\* A save, as the requests that run see it.
LEMMA ViewStaysSound ==
    ASSUME NEW d \in DealRows, NEW old \in OrderRows, NEW new \in OrderRows,
           OrderMoves(old, new), ViewIsSound(d, old)
    PROVE  ViewIsSound(d, new)
<1>1. d.order.version \in Nat /\ old.version \in Nat /\ new.version \in Nat
  BY BuyRowsAre DEF DealRows, OrderRows
<1>2. CASE new = old
  BY <1>2
<1>3. CASE new.version > old.version /\ new.status # "none"
  BY <1>1, <1>3 DEF ViewIsSound
<1>4. CASE new.version = old.version /\ new.status = "Closed"
  BY <1>1, <1>4 DEF ViewIsSound
<1> QED BY <1>2, <1>3, <1>4 DEF OrderMoves

\* What every step but a first read has to show.
LEMMA BuyMoves ==
    ASSUME BuyInv,
           traded' \in [open : BOOLEAN, linked : BOOLEAN],
           inspection' \in {"none", "Draft", "InProgress", "Completed"},
           order' \in OrderRows, OrderMoves(order, order'),
           order'.status = "none" => order' = NoOrderYet,
           deal' \in [BuyRequests -> DealRows],
           \A r \in BuyRequests : deal'[r] = deal[r] \/ deal'[r].at # "running",
           outread' \subseteq {"order", "status", "link"},
           CreditIsLinked(credits', traded'.linked, outread'),
           FullIsSettled(order', outread')
    PROVE  BuyInv'
<1>1. BuyTypeOK'
  BY DEF BuyTypeOK, CreditIsLinked
<1>2. ASSUME NEW r \in BuyRequests, deal'[r].at = "running"
      PROVE  ViewIsSound(deal'[r], order') /\ LetPast(deal'[r])
  <2>1. deal'[r] = deal[r] /\ deal[r] \in DealRows /\ order \in OrderRows
    BY <1>2 DEF BuyInv, BuyTypeOK
  <2>2. ViewIsSound(deal[r], order) /\ LetPast(deal[r])
    BY <1>2, <2>1 DEF BuyInv
  <2> QED BY <2>1, <2>2, ViewStaysSound
<1> QED BY <1>1, <1>2 DEF BuyInv

LEMMA SavedIs ==
    ASSUME NEW o \in OrderRows, o.version < MaxVersion
    PROVE  /\ Saved(o) \in OrderRows
           /\ Saved(o).version = o.version + 1
           /\ Saved(o).status = o.status
           /\ Saved(o).paid = o.paid
           /\ Saved(o).evidence = o.evidence
<1>1. o.version + 1 \in 0..MaxVersion
  BY BuyRowsAre DEF OrderRows
<1>2. PICK m \in 0..MaxVersion : m = o.version + 1
  BY <1>1
<1>3. Saved(o) = [o EXCEPT !.version = m]
  BY <1>2 DEF Saved
<1> QED BY <1>2, <1>3 DEF OrderRows

LEMMA RaisedIs ==
    ASSUME NEW new, Raised(new)
    PROVE  /\ new \in OrderRows /\ new.version = 1 /\ new.paid = 0
           /\ new.status \in {"Approved", "AwaitingApproval"}
<1>1. PICK s \in {"Approved", "AwaitingApproval"} : new = [NoOrderYet EXCEPT !.status = s, !.version = 1]
  BY DEF Raised
<1>2. new = [status |-> s, approved |-> FALSE, paid |-> 0, sold |-> FALSE, evidence |-> 0, version |-> 1]
  BY <1>1 DEF NoOrderYet
<1>3. 1 \in 0..MaxVersion /\ 0 \in 0..DevicePrice
  BY BuyRowsAre
<1>4. s \in OrderStatuses
  BY DEF OrderStatuses
<1> QED BY <1>2, <1>3, <1>4 DEF OrderRows

\* An order raised, on whichever way.
LEMMA RaisedKeeps ==
    ASSUME BuyInv, order.status = "none", Raised(order'), UNCHANGED <<traded, deal, credits, outread>>,
           inspection' \in {"none", "Draft", "InProgress", "Completed"}
    PROVE  BuyInv'
<1>1. order' \in OrderRows /\ order'.version = 1 /\ order'.paid = 0 /\ order'.status # "none"
  BY RaisedIs
<1>2. OrderMoves(order, order')
  BY <1>1, BuyRowsAre DEF BuyInv, OrderMoves
<1>3. FullIsSettled(order', outread')
  BY <1>1, BuyRowsAre DEF FullIsSettled
<1> QED BY <1>1, <1>2, <1>3, BuyMoves DEF BuyInv, BuyTypeOK

LEMMA BuyUntilOrderKeeps ==
    ASSUME BuyInv, CreateInspection \/ StartOrder \/ CompleteInspection \/ Expire PROVE BuyInv'
<1>1. OrderMoves(order, order)
  BY DEF OrderMoves
<1>2. CASE CreateInspection
  BY <1>1, <1>2, BuyMoves DEF CreateInspection, BuyInv, BuyTypeOK
<1>3. CASE StartOrder
  BY <1>3, RaisedKeeps DEF StartOrder, BuyInv, BuyTypeOK
<1>4. CASE CompleteInspection /\ order.status = "none"
  BY <1>4, RaisedKeeps DEF CompleteInspection
<1>5. CASE CompleteInspection /\ order.status # "none"
  BY <1>1, <1>5, BuyMoves DEF CompleteInspection, BuyInv, BuyTypeOK
<1>6. CASE Expire
  <2>1. traded' = [open |-> FALSE, linked |-> traded.linked] /\ traded.linked \in BOOLEAN
    BY <1>6 DEF Expire, BuyInv, BuyTypeOK
  <2> QED BY <1>1, <1>6, <2>1, BuyMoves DEF Expire, BuyInv, BuyTypeOK
<1> QED BY <1>2, <1>3, <1>4, <1>5, <1>6

\* A save of a row that is in order.
LEMMA SavedKeeps ==
    ASSUME BuyInv, NEW new \in OrderRows, new.version = order.version, order.version < MaxVersion,
           new.status # "none", order' = Saved(new), FullIsSettled(new, outread'),
           outread \subseteq outread', outread' \subseteq {"order", "status", "link"},
           UNCHANGED <<traded, inspection, credits>>,
           deal' \in [BuyRequests -> DealRows],
           \A r \in BuyRequests : deal'[r] = deal[r] \/ deal'[r].at # "running"
    PROVE  BuyInv'
<1>1. /\ order' \in OrderRows /\ order'.version = new.version + 1 /\ order'.status = new.status
      /\ order'.paid = new.paid
  BY SavedIs
<1>2. OrderMoves(order, order')
  <2>1. order.version \in Nat
    BY DEF BuyInv, BuyTypeOK, OrderRows
  <2>2. order'.version > order.version
    BY <1>1, <2>1
  <2> QED BY <1>1, <2>2 DEF OrderMoves
<1>3. FullIsSettled(order', outread')
  BY <1>1 DEF FullIsSettled
<1>4. CreditIsLinked(credits', traded'.linked, outread')
  BY DEF BuyInv, CreditIsLinked
<1> QED BY <1>1, <1>2, <1>3, <1>4, BuyMoves DEF BuyInv, BuyTypeOK

LEMMA ElsewhereKeeps == ASSUME BuyInv, Elsewhere PROVE BuyInv'
<1>1. /\ order \in OrderRows /\ FullIsSettled(order, outread) /\ order.version < MaxVersion
      /\ order.status # "none" /\ outread' = outread
      /\ UNCHANGED <<traded, inspection, deal, credits, outread>>
  BY DEF BuyInv, BuyTypeOK, Elsewhere
<1>2. ASSUME NEW new \in OrderRows, new.version = order.version, new.status # "none",
             order' = Saved(new), FullIsSettled(new, outread)
      PROVE  BuyInv'
  BY <1>1, <1>2, SavedKeeps DEF BuyInv, BuyTypeOK
<1>3. CASE order.status = "AwaitingApproval"
           /\ \E s \in {"Approved", "Rejected"} : order' = Saved([order EXCEPT !.status = s])
  <2>1. PICK s \in {"Approved", "Rejected"} : order' = Saved([order EXCEPT !.status = s])
    BY <1>3
  <2>2. PICK new : new = [order EXCEPT !.status = s]
    OBVIOUS
  <2>3. new \in OrderRows /\ new.version = order.version /\ new.status # "none" /\ new.paid = order.paid
    BY <1>1, <2>2 DEF OrderRows, OrderStatuses, Refused
  <2>4. FullIsSettled(new, outread)
    BY <1>1, <1>3, <2>3 DEF FullIsSettled, Settled
  <2> QED BY <1>2, <2>1, <2>2, <2>3, <2>4
<1>4. CASE /\ order.status = "AwaitingCustomerApproval"
           /\ order' = Saved([order EXCEPT !.status = "CustomerApproved", !.approved = TRUE])
  <2>1. PICK new : new = [order EXCEPT !.status = "CustomerApproved", !.approved = TRUE]
    OBVIOUS
  <2>2. new \in OrderRows /\ new.version = order.version /\ new.status # "none" /\ new.paid = order.paid
    BY <1>1, <2>1 DEF OrderRows, OrderStatuses
  <2>3. FullIsSettled(new, outread)
    BY <1>1, <1>4, <2>2 DEF FullIsSettled, Settled
  <2> QED BY <1>2, <1>4, <2>1, <2>2, <2>3
<1>5. CASE /\ order.status \notin Settled \cup Refused /\ order.paid = 0
           /\ order' = Saved([order EXCEPT !.paid = 1])
  <2>1. PICK new : new = [order EXCEPT !.paid = 1]
    OBVIOUS
  <2>2. 1 \in 0..DevicePrice
    BY BuyRowsAre
  <2>3. new \in OrderRows /\ new.version = order.version /\ new.status # "none" /\ new.paid = 1
    BY <1>1, <2>1, <2>2 DEF OrderRows
  <2>4. FullIsSettled(new, outread)
    BY <2>3 DEF FullIsSettled
  <2> QED BY <1>2, <1>5, <2>1, <2>3, <2>4
<1>6. CASE /\ order.status = "ReadyToPay"
           /\ order' = Saved([order EXCEPT !.status = "Paid", !.paid = DevicePrice])
  <2>1. PICK new : new = [order EXCEPT !.status = "Paid", !.paid = DevicePrice]
    OBVIOUS
  <2>2. DevicePrice \in 0..DevicePrice
    BY BuyRowsAre
  <2>3. new \in OrderRows /\ new.version = order.version /\ new.status = "Paid"
    BY <1>1, <2>1, <2>2 DEF OrderRows, OrderStatuses, Settled
  <2>4. FullIsSettled(new, outread)
    BY <2>3 DEF FullIsSettled, Settled
  <2> QED BY <1>2, <1>6, <2>1, <2>3, <2>4
<1>7. CASE order.status = "Paid" /\ order' = Saved([order EXCEPT !.status = "Closed"])
  <2>1. PICK new : new = [order EXCEPT !.status = "Closed"]
    OBVIOUS
  <2>2. new \in OrderRows /\ new.version = order.version /\ new.status = "Closed"
    BY <1>1, <2>1 DEF OrderRows, OrderStatuses, Settled
  <2>3. FullIsSettled(new, outread)
    BY <2>2 DEF FullIsSettled, Settled
  <2> QED BY <1>2, <1>7, <2>1, <2>2, <2>3
<1>8. CASE /\ order.status \notin Settled \cup Refused /\ order.paid = 0
           /\ order' = Saved([order EXCEPT !.status = "Cancelled"])
  <2>1. PICK new : new = [order EXCEPT !.status = "Cancelled"]
    OBVIOUS
  <2>2. new \in OrderRows /\ new.version = order.version /\ new.status # "none" /\ new.paid = 0
    BY <1>1, <1>8, <2>1 DEF OrderRows, OrderStatuses, Refused
  <2>3. FullIsSettled(new, outread)
    BY <2>2, BuyRowsAre DEF FullIsSettled
  <2> QED BY <1>2, <1>8, <2>1, <2>2, <2>3
<1> QED BY <1>3, <1>4, <1>5, <1>6, <1>7, <1>8 DEF Elsewhere

-----------------------------------------------------------------------------

LEMMA BeginKeeps ==
    ASSUME BuyInv, NEW r \in BuyRequests, NEW act \in DealActs, Begin(r, act) PROVE BuyInv'
<1>1. PICK d : d = [at |-> "running", act |-> act, order |-> order, linked |-> traded.linked]
  OBVIOUS
<1>2. d \in DealRows
  BY <1>1 DEF BuyInv, BuyTypeOK, DealRows
<1>3. deal' = [deal EXCEPT ![r] = d] /\ UNCHANGED <<traded, inspection, order, credits, outread>>
  BY <1>1 DEF Begin
<1>4. ViewIsSound(d, order)
  <2>1. order.version \in Nat
    BY DEF BuyInv, BuyTypeOK, OrderRows
  <2> QED BY <1>1, <2>1 DEF ViewIsSound
<1>5. LetPast(d)
  <2>1. d.act = act /\ d.order = order /\ d.linked = traded.linked
    BY <1>1
  <2>2. act \in {"sign", "otp"} => MayApprove(order)
    BY DEF Begin
  <2>3. act \in {"pay", "bank"} => MayPay(order)
    BY DEF Begin
  <2>4. act = "credit" => ~traded.linked
    BY DEF Begin, MayCredit
  <2>5. act \in {"sign", "otp", "pay", "bank"} => order.status # "none"
    BY DEF Begin
  <2> QED BY <2>1, <2>2, <2>3, <2>4, <2>5 DEF LetPast
<1>6. BuyTypeOK'
  BY <1>2, <1>3 DEF BuyInv, BuyTypeOK
<1>7. ASSUME NEW p \in BuyRequests, deal'[p].at = "running"
      PROVE  ViewIsSound(deal'[p], order) /\ LetPast(deal'[p])
  <2>1. CASE p = r
    BY <1>3, <1>4, <1>5, <2>1 DEF BuyInv, BuyTypeOK
  <2>2. CASE p # r
    BY <1>3, <1>7, <2>2 DEF BuyInv, BuyTypeOK
  <2> QED BY <2>1, <2>2
<1> QED BY <1>3, <1>6, <1>7 DEF BuyInv

\* A request's end.
LEMMA EndsIs ==
    ASSUME BuyInv, NEW r \in BuyRequests, Ends(r)
    PROVE  /\ deal' \in [BuyRequests -> DealRows]
           /\ \A p \in BuyRequests : deal'[p] = deal[p] \/ deal'[p].at # "running"
  BY BuyRowsAre DEF Ends, BuyInv, BuyTypeOK

\* A request that runs and finds its order current saved no one's work over.
LEMMA ViewIsOrder ==
    ASSUME BuyInv, NEW r \in BuyRequests, deal[r].at = "running", Current(deal[r].order)
    PROVE  /\ deal[r].order \in OrderRows /\ deal[r].order.version = order.version
           /\ order.version < MaxVersion
           /\ order = deal[r].order \/ order.status = "Closed"
           /\ LetPast(deal[r])
  BY DEF BuyInv, BuyTypeOK, DealRows, Current, ViewIsSound

\* A save by a request whose view was not settled, or that settles.
LEMMA SaveKeeps ==
    ASSUME BuyInv, NEW r \in BuyRequests, deal[r].at = "running", NEW new, Save(r, new), Ends(r),
           UNCHANGED <<traded, inspection, credits>>,
           new \in OrderRows, new.version = deal[r].order.version,
           new.status # "none",
           \/ new.status \in Settled
           \/ new.paid = deal[r].order.paid /\ deal[r].order.status \notin Settled
    PROVE  BuyInv'
<1>1. /\ deal[r].order \in OrderRows /\ new.version = order.version /\ order.version < MaxVersion
      /\ order' = Saved(new)
  BY ViewIsOrder DEF Save
<1>2. outread \subseteq outread' /\ outread' \subseteq {"order", "status", "link"}
  BY DEF Save, BuyInv, BuyTypeOK
<1>3. FullIsSettled(new, outread')
  <2>1. CASE new.status \in Settled
    BY <2>1 DEF FullIsSettled
  <2>2. CASE new.paid = deal[r].order.paid /\ deal[r].order.status \notin Settled
    <3>1. outread' = {} => outread = {} /\ order = deal[r].order
      BY DEF Save
    <3>2. FullIsSettled(order, outread)
      BY DEF BuyInv
    <3> QED BY <2>2, <3>1, <3>2 DEF FullIsSettled
  <2> QED BY <2>1, <2>2
<1> QED BY <1>1, <1>2, <1>3, EndsIs, SavedKeeps

LEMMA ApproveKeeps ==
    ASSUME BuyInv, NEW r \in BuyRequests, NEW act \in {"sign", "otp"}, Approve(r, act) PROVE BuyInv'
<1>1. PICK o : o = deal[r].order
  OBVIOUS
<1>2. o \in OrderRows /\ deal[r].at = "running" /\ deal[r].act = act /\ Ends(r)
      /\ UNCHANGED <<traded, inspection, credits>> /\ Current(o)
  BY <1>1 DEF Approve, Save, BuyInv, BuyTypeOK, DealRows
<1>3. o.status \notin Settled
  BY <1>1, <1>2 DEF BuyInv, LetPast, MayApprove
<1>4. ASSUME NEW new \in OrderRows, Save(r, new), new.version = o.version, new.paid = o.paid,
             new.status # "none"
      PROVE  BuyInv'
  BY <1>1, <1>2, <1>3, <1>4, SaveKeeps
<1>5. CASE Save(r, [o EXCEPT !.status = "OtpVerified", !.approved = TRUE, !.evidence = 1])
  <2>1. PICK new : new = [o EXCEPT !.status = "OtpVerified", !.approved = TRUE, !.evidence = 1]
    OBVIOUS
  <2>2. new \in OrderRows
    BY <1>2, <2>1 DEF OrderRows, OrderStatuses
  <2>3. new.version = o.version /\ new.paid = o.paid /\ new.status # "none"
    BY <1>2, <2>1 DEF OrderRows
  <2> QED BY <1>4, <1>5, <2>1, <2>2, <2>3
<1>6. CASE Save(r, [o EXCEPT !.status = "CustomerApproved", !.approved = TRUE, !.evidence = 1])
  <2>1. PICK new : new = [o EXCEPT !.status = "CustomerApproved", !.approved = TRUE, !.evidence = 1]
    OBVIOUS
  <2>2. new \in OrderRows
    BY <1>2, <2>1 DEF OrderRows, OrderStatuses
  <2>3. new.version = o.version /\ new.paid = o.paid /\ new.status # "none"
    BY <1>2, <2>1 DEF OrderRows
  <2> QED BY <1>4, <1>6, <2>1, <2>2, <2>3
<1>7. CASE o.approved /\ Save(r, [o EXCEPT !.evidence = 1 - o.evidence])
  <2>1. PICK e \in {0, 1} : e = 1 - o.evidence
    BY <1>2 DEF OrderRows
  <2>2. PICK new : new = [o EXCEPT !.evidence = e]
    OBVIOUS
  <2>3. new \in OrderRows
    BY <1>2, <2>2 DEF OrderRows
  <2>4. new.version = o.version /\ new.paid = o.paid /\ new.status = o.status
    BY <1>2, <2>2 DEF OrderRows
  <2>5. o.status # "none"
    BY <1>1, <1>2 DEF BuyInv, LetPast
  <2> QED BY <1>4, <1>7, <2>1, <2>2, <2>3, <2>4, <2>5
<1> QED BY <1>1, <1>5, <1>6, <1>7 DEF Approve

LEMMA PayOutKeeps == ASSUME BuyInv, NEW r \in BuyRequests, PayOut(r) PROVE BuyInv'
<1>1. PICK o : o = deal[r].order
  OBVIOUS
<1>2. o \in OrderRows /\ deal[r].at = "running" /\ Ends(r)
      /\ UNCHANGED <<traded, inspection, credits>>
  BY <1>1 DEF PayOut, BuyInv, BuyTypeOK, DealRows
<1>3. o.paid + StillToPay(o) = DevicePrice
  BY <1>2, BuyRowsAre DEF StillToPay, OrderRows
<1>4. PICK s \in Settled : Save(r, [o EXCEPT !.status = s, !.paid = o.paid + StillToPay(o), !.evidence = 1])
  BY <1>1 DEF PayOut
<1>5. PICK new : new = [o EXCEPT !.status = s, !.paid = DevicePrice, !.evidence = 1]
  OBVIOUS
<1>6. Save(r, new)
  BY <1>3, <1>4, <1>5
<1>7. DevicePrice \in 0..DevicePrice
  BY BuyRowsAre
<1>8. s \in OrderStatuses /\ s # "none"
  BY DEF OrderStatuses, Settled
<1>9. new \in OrderRows
  BY <1>2, <1>5, <1>7, <1>8 DEF OrderRows
<1>10. new.version = o.version /\ new.status = s
  BY <1>2, <1>5 DEF OrderRows
<1> QED BY <1>1, <1>2, <1>6, <1>8, <1>9, <1>10, SaveKeeps

LEMMA PayByBankKeeps == ASSUME BuyInv, NEW r \in BuyRequests, PayByBank(r) PROVE BuyInv'
<1>1. PICK o : o = deal[r].order
  OBVIOUS
<1>2. o \in OrderRows /\ deal[r].at = "running" /\ Ends(r)
      /\ UNCHANGED <<traded, inspection, credits>>
  BY <1>1 DEF PayByBank, BuyInv, BuyTypeOK, DealRows
<1>3. PICK new : new = [o EXCEPT !.status = "ReadyToPay", !.evidence = 1]
  OBVIOUS
<1>4. Save(r, new)
  BY <1>1, <1>3 DEF PayByBank
<1>5. new \in OrderRows
  BY <1>2, <1>3 DEF OrderRows, OrderStatuses
<1>6. new.version = o.version /\ new.paid = o.paid /\ new.status # "none"
  BY <1>2, <1>3 DEF OrderRows
<1>7. o.status \notin Settled
  BY <1>1, <1>2 DEF BuyInv, LetPast, MayPay, PayByBank
<1> QED BY <1>1, <1>2, <1>4, <1>5, <1>6, <1>7, SaveKeeps

LEMMA SendLinkKeeps == ASSUME BuyInv, NEW r \in BuyRequests, SendLink(r) PROVE BuyInv'
<1>1. /\ order \in OrderRows /\ deal[r].at = "running" /\ Ends(r)
      /\ UNCHANGED <<traded, inspection, credits>> /\ FullIsSettled(order, outread)
  BY DEF SendLink, BuyInv, BuyTypeOK
<1>2. CASE deal[r].order.status = "Approved"
  <2>1. PICK new : new = [order EXCEPT !.status = "AwaitingCustomerApproval"]
    OBVIOUS
  <2>2. new \in OrderRows
    BY <1>1, <2>1 DEF OrderRows, OrderStatuses
  <2>3. new.version = order.version /\ new.paid = order.paid /\ new.status # "none"
    BY <1>1, <2>1 DEF OrderRows
  <2>4. order.version < MaxVersion /\ order' = Saved(new)
    BY <1>2, <2>1 DEF SendLink
  <2>5. outread \subseteq outread' /\ outread' \subseteq {"order", "status", "link"}
        /\ (outread' = {} => outread = {} /\ order.status = "Approved")
    BY <1>2 DEF SendLink, BuyInv, BuyTypeOK
  <2>6. FullIsSettled(new, outread')
    BY <1>1, <2>3, <2>5 DEF FullIsSettled, Settled
  <2> QED BY <1>1, <2>2, <2>3, <2>4, <2>5, <2>6, EndsIs, SavedKeeps
<1>3. CASE deal[r].order.status # "Approved"
  <2>1. UNCHANGED <<order, outread>>
    BY <1>3 DEF SendLink
  <2>2. OrderMoves(order, order')
    BY <2>1 DEF OrderMoves
  <2> QED BY <1>1, <2>1, <2>2, EndsIs, BuyMoves DEF BuyInv, BuyTypeOK
<1> QED BY <1>2, <1>3

LEMMA TakeCreditKeeps == ASSUME BuyInv, NEW r \in BuyRequests, TakeCredit(r) PROVE BuyInv'
<1>1. PICK d : d = deal[r]
  OBVIOUS
<1>2. /\ d \in DealRows /\ d.at = "running" /\ ~d.linked /\ Ends(r) /\ UNCHANGED inspection
      /\ credits' = credits + 1 /\ credits \in Nat
      /\ order \in OrderRows /\ FullIsSettled(order, outread) /\ ViewIsSound(d, order)
      /\ (order.status = "none" => order = NoOrderYet)
  BY <1>1 DEF TakeCredit, BuyInv, BuyTypeOK, LetPast
<1>3. traded' = [open |-> traded.open, linked |-> TRUE] /\ traded.open \in BOOLEAN /\ traded.linked \in BOOLEAN
  BY DEF TakeCredit, BuyInv, BuyTypeOK
<1>4. outread \subseteq outread' /\ outread' \subseteq {"order", "status", "link"}
  BY DEF TakeCredit, BuyInv, BuyTypeOK
<1>5. traded.linked => "link" \in outread'
  BY <1>1, <1>2 DEF TakeCredit, DealRows
<1>6. CreditIsLinked(credits', traded'.linked, outread')
  <2>1. credits > 0 => traded.linked
    BY DEF BuyInv, CreditIsLinked
  <2>2. credits + 1 \in Nat /\ (credits + 1 > 1 => credits > 0)
    BY <1>2
  <2>3. traded'.linked = TRUE
    BY <1>3
  <2>4. credits' > 1 => "link" \in outread'
    BY <1>2, <1>5, <2>1, <2>2
  <2> QED BY <1>2, <2>2, <2>3, <2>4 DEF CreditIsLinked
<1>7. order' \in OrderRows /\ OrderMoves(order, order') /\ FullIsSettled(order', outread')
      /\ (order'.status = "none" => order' = NoOrderYet)
  <2>1. CASE UsesOrder(d.order)
    <3>1. order' = [order EXCEPT !.sold = TRUE, !.status = "Closed"]
      BY <1>1, <2>1 DEF TakeCredit, LinkOrder
    <3>2. order' \in OrderRows
      BY <1>2, <3>1 DEF OrderRows, OrderStatuses, Settled
    <3>3. order'.status = "Closed" /\ order'.version = order.version
      BY <1>2, <3>1 DEF OrderRows
    <3> QED BY <3>2, <3>3 DEF OrderMoves, FullIsSettled, Settled
  <2>2. CASE ~UsesOrder(d.order)
    <3>1. order' = order
      BY <1>1, <2>2 DEF TakeCredit, LinkOrder
    <3> QED BY <1>2, <1>4, <3>1 DEF OrderMoves, FullIsSettled
  <2> QED BY <2>1, <2>2
<1>8. /\ deal' \in [BuyRequests -> DealRows]
      /\ \A p \in BuyRequests : deal'[p] = deal[p] \/ deal'[p].at # "running"
  BY <1>2, EndsIs
<1>9. traded' \in [open : BOOLEAN, linked : BOOLEAN]
  BY <1>3
<1>10. inspection' \in {"none", "Draft", "InProgress", "Completed"}
  BY <1>2 DEF BuyInv, BuyTypeOK
<1> QED BY <1>4, <1>6, <1>7, <1>8, <1>9, <1>10, BuyMoves

LEMMA DropKeeps == ASSUME BuyInv, NEW r \in BuyRequests, Drop(r) PROVE BuyInv'
<1>1. OrderMoves(order, order')
  BY DEF Drop, OrderMoves
<1>2. Ends(r) /\ UNCHANGED <<traded, inspection, order, credits, outread>>
  BY DEF Drop
<1> QED BY <1>1, <1>2, EndsIs, BuyMoves DEF BuyInv, BuyTypeOK

LEMMA BuySteps == ASSUME BuyInv, BuyNext PROVE BuyInv'
  BY BuyUntilOrderKeeps, ElsewhereKeeps, BeginKeeps, ApproveKeeps, SendLinkKeeps, PayOutKeeps,
     PayByBankKeeps, TakeCreditKeeps, DropKeeps DEF BuyNext

LEMMA BuyInvSays == ASSUME BuyInv PROVE BuyTypeOK /\ CreditAndPayoutEachOnce
<1>1. order.paid <= DevicePrice
  BY BuyRowsAre DEF BuyInv, BuyTypeOK, OrderRows
<1> QED BY <1>1 DEF BuyInv, CreditIsLinked, FullIsSettled,
           CreditAndPayoutEachOnce, NeverOverpaid, CreditedOnce, PaidIsSettled

\* A till that saves an order it had read before the payment is stale, and refused.
LEMMA BuyStepsKeepEvidence ==
    ASSUME BuyInv, [BuyNext]_buyVars PROVE order.status = "Paid" => order'.evidence = order.evidence
<1> SUFFICES ASSUME order.status = "Paid" PROVE order'.evidence = order.evidence
  OBVIOUS
<1>1. order \in OrderRows
  BY DEF BuyInv, BuyTypeOK
<1>2. ASSUME NEW r \in BuyRequests, NEW act \in {"sign", "otp"}, Approve(r, act) PROVE FALSE
  <2>1. deal[r].at = "running" /\ Current(deal[r].order) /\ deal[r].act = act
    BY <1>2 DEF Approve, Save
  <2> QED BY <2>1, ViewIsOrder DEF LetPast, MayApprove, Settled
<1>3. ASSUME NEW r \in BuyRequests, PayOut(r) \/ PayByBank(r) PROVE FALSE
  <2>1. deal[r].at = "running" /\ Current(deal[r].order) /\ deal[r].act \in {"pay", "bank"}
    BY <1>3 DEF PayOut, PayByBank, Save
  <2> QED BY <2>1, ViewIsOrder DEF LetPast, MayPay, Settled
<1>4. ASSUME NEW r \in BuyRequests, SendLink(r) PROVE order'.evidence = order.evidence
  <2>1. PICK new : new = [order EXCEPT !.status = "AwaitingCustomerApproval"]
    OBVIOUS
  <2>2. new \in OrderRows
    BY <1>1, <2>1 DEF OrderRows, OrderStatuses
  <2>3. new.version = order.version /\ new.evidence = order.evidence
    BY <1>1, <2>1 DEF OrderRows
  <2>4. order' = order \/ (order.version < MaxVersion /\ order' = Saved(new))
    BY <1>4, <2>1 DEF SendLink
  <2> QED BY <2>2, <2>3, <2>4, SavedIs
<1>5. ASSUME NEW r \in BuyRequests, TakeCredit(r) PROVE order'.evidence = order.evidence
  <2>1. order' = order \/ order' = [order EXCEPT !.sold = TRUE, !.status = "Closed"]
    BY <1>5 DEF TakeCredit, LinkOrder
  <2> QED BY <1>1, <2>1 DEF OrderRows
<1>6. ASSUME Elsewhere PROVE order'.evidence = order.evidence
  <2>1. order.version < MaxVersion /\ order' = Saved([order EXCEPT !.status = "Closed"])
    BY <1>6 DEF Elsewhere, Settled
  <2>2. PICK new : new = [order EXCEPT !.status = "Closed"]
    OBVIOUS
  <2>3. new \in OrderRows
    BY <1>1, <2>2 DEF OrderRows, OrderStatuses, Settled
  <2>4. new.version = order.version /\ new.evidence = order.evidence
    BY <1>1, <2>2 DEF OrderRows
  <2> QED BY <2>1, <2>2, <2>3, <2>4, SavedIs
<1>7. ASSUME CreateInspection \/ StartOrder \/ CompleteInspection \/ Expire
      PROVE  order' = order
  BY <1>7 DEF CreateInspection, StartOrder, CompleteInspection, Expire
<1>8. ASSUME NEW r \in BuyRequests, Drop(r) \/ \E act \in DealActs : Begin(r, act)
      PROVE  order' = order
  BY <1>8 DEF Drop, Begin
<1>9. CASE UNCHANGED buyVars
  BY <1>9 DEF buyVars
<1>10. CASE BuyNext
  BY <1>2, <1>3, <1>4, <1>5, <1>6, <1>7, <1>8, <1>10 DEF BuyNext
<1> QED BY <1>9, <1>10

-----------------------------------------------------------------------------
(* Repairs                                                                 *)

LEMMA NoneOrOne ==
    ASSUME NEW S, \A a, b \in S : a = b PROVE Cardinality(S) <= 1
<1>1. CASE S = {}
  BY <1>1, FS_EmptySet
<1>2. CASE S # {}
  <2>1. PICK a : S = {a}
    BY <1>2
  <2>2. Cardinality({a}) = 1
    BY FS_Singleton
  <2> QED BY <2>1, <2>2
<1> QED BY <1>1, <1>2

BillReqRows == [at : {"new", "running", "done"}, act : Acts \cup {"none"},
                job : JobRows, on : Jobs \cup {"none"}]
RepairBills == [by : BillRequests, act : Acts, on : Jobs, spares : 0..MaxSpares]
\* What the row v of a job says of its bills: that there are some, and of which
\* way; and, unless over, that one at most was guarded and billed every spare.
JobIsSound(j, v, made, over) ==
    /\ made # {} <=> v.linked
    /\ v.stage = "none" => made = {}
    /\ v.stage = "Invoiced" \/ v.order = "closed" => made # {}
    /\ \A b \in made : Guarded(b) => v.stage = "Invoiced"
    /\ j \notin over =>
          /\ \A a, b \in made : Guarded(a) /\ Guarded(b) => a = b
          /\ \A b \in made : b.act = "close" => b.spares = v.spares
WalkinIsSound(w, jobs) ==
    /\ w.converted <=> w.to # {}
    /\ \A i, j \in w.to : i = j
    /\ \A j \in w.to : jobs[j].stage # "none"
BillReqIsSound(q, jobs) ==
    q.at = "running" =>
        /\ q.on \in Jobs /\ q.act \in Acts
        /\ jobs[q.on].stage # "none" /\ MayBill(q.act, q.job)
RepairInv ==
    /\ RepairTypeOK
    /\ \A j \in Jobs : JobIsSound(j, job[j], BillsOf(j), overtaken)
    /\ WalkinIsSound(walkin, job)
    /\ \A r \in BillRequests : BillReqIsSound(billReq[r], job)

LEMMA RepairRowsAre ==
    /\ NoJob \in JobRows /\ NoBillReq \in BillReqRows
    /\ [NoBillReq EXCEPT !.at = "done"] \in BillReqRows
    /\ [NoBillReq EXCEPT !.at = "done"].at = "done"
    /\ NoBillReq.at = "new"
    /\ NoJob.stage = "none" /\ NoJob.linked = FALSE /\ NoJob.order = "none" /\ NoJob.spares = 0
<1>1. 0 \in 0..MaxSpares
  BY RepairAssumption
<1>2. NoJob \in JobRows
  BY <1>1 DEF NoJob, JobRows
<1>3. NoBillReq \in BillReqRows
  BY <1>2 DEF NoBillReq, BillReqRows
<1>4. [NoBillReq EXCEPT !.at = "done"] \in BillReqRows
  BY <1>3 DEF BillReqRows
<1>5. [NoBillReq EXCEPT !.at = "done"].at = "done"
  BY DEF NoBillReq
<1> QED BY <1>2, <1>3, <1>4, <1>5 DEF NoBillReq, NoJob

LEMMA RepairTypes ==
    ASSUME RepairInv
    PROVE  /\ job \in [Jobs -> JobRows] /\ \A j \in Jobs : job[j] \in JobRows
           /\ billReq \in [BillRequests -> BillReqRows] /\ \A r \in BillRequests : billReq[r] \in BillReqRows
           /\ repairBills \subseteq RepairBills /\ overtaken \subseteq Jobs
           /\ walkin \in [converted : BOOLEAN, to : SUBSET Jobs]
  BY DEF RepairInv, RepairTypeOK, BillReqRows, RepairBills

LEMMA RepairStarts == RepairInit => RepairInv
<1> SUFFICES ASSUME RepairInit PROVE RepairInv
  OBVIOUS
<1>1. RepairTypeOK
  BY RepairRowsAre DEF RepairInit, RepairTypeOK, BillReqRows
<1>2. ASSUME NEW j \in Jobs PROVE JobIsSound(j, job[j], BillsOf(j), overtaken)
  BY RepairRowsAre DEF RepairInit, JobIsSound, BillsOf
<1>3. WalkinIsSound(walkin, job)
  BY DEF RepairInit, WalkinIsSound
<1>4. ASSUME NEW r \in BillRequests PROVE BillReqIsSound(billReq[r], job)
  BY RepairRowsAre DEF RepairInit, BillReqIsSound
<1> QED BY <1>1, <1>2, <1>3, <1>4 DEF RepairInv

\* One job changes; its bills and the others' stay.
LEMMA JobChanges ==
    ASSUME RepairInv, NEW j \in Jobs, NEW v \in JobRows, job' = [job EXCEPT ![j] = v],
           v.stage # "none", JobIsSound(j, v, BillsOf(j), overtaken),
           walkin' \in [converted : BOOLEAN, to : SUBSET Jobs], WalkinIsSound(walkin', job'),
           UNCHANGED <<billReq, repairBills, overtaken>>
    PROVE  RepairInv'
<1>1. RepairTypeOK'
  BY RepairTypes DEF RepairInv, RepairTypeOK
<1>2. ASSUME NEW i \in Jobs PROVE JobIsSound(i, job'[i], BillsOf(i)', overtaken')
  <2>1. BillsOf(i)' = BillsOf(i)
    BY DEF BillsOf
  <2>2. job'[i] = IF i = j THEN v ELSE job[i]
    BY RepairTypes
  <2> QED BY <2>1, <2>2 DEF RepairInv
<1>3. ASSUME NEW r \in BillRequests PROVE BillReqIsSound(billReq'[r], job')
  <2>1. billReq[r] \in BillReqRows /\ BillReqIsSound(billReq[r], job)
    BY RepairTypes DEF RepairInv
  <2>2. \A i \in Jobs : job[i].stage # "none" => job'[i].stage # "none"
    BY RepairTypes
  <2> QED BY <2>1, <2>2 DEF BillReqIsSound
<1> QED BY <1>1, <1>2, <1>3 DEF RepairInv

LEMMA TokenStays ==
    ASSUME RepairInv, NEW j \in Jobs, NEW v \in JobRows, job' = [job EXCEPT ![j] = v], v.stage # "none"
    PROVE  /\ walkin' = walkin => WalkinIsSound(walkin', job')
           /\ walkin' = LinkToken(j) => WalkinIsSound(walkin', job')
           /\ LinkToken(j) \in [converted : BOOLEAN, to : SUBSET Jobs]
<1>1. WalkinIsSound(walkin, job) /\ walkin \in [converted : BOOLEAN, to : SUBSET Jobs]
  BY RepairTypes DEF RepairInv
<1>2. \A i \in Jobs : job[i].stage # "none" => job'[i].stage # "none"
  BY RepairTypes
<1>3. job'[j].stage # "none"
  BY RepairTypes
<1>4. WalkinIsSound(walkin, job')
  BY <1>1, <1>2 DEF WalkinIsSound
<1>5. WalkinIsSound(LinkToken(j), job')
  <2>1. CASE walkin.converted
    BY <1>4, <2>1 DEF LinkToken
  <2>2. CASE ~walkin.converted
    BY <1>3, <2>2 DEF LinkToken, WalkinIsSound
  <2> QED BY <2>1, <2>2
<1>6. LinkToken(j) \in [converted : BOOLEAN, to : SUBSET Jobs]
  BY <1>1 DEF LinkToken
<1> QED BY <1>4, <1>5, <1>6

\* A job taken in has no bill.
LEMMA TakenIn ==
    ASSUME RepairInv, NEW j \in Jobs, job[j].stage = "none", NEW v \in JobRows,
           v.stage \in {"Draft", "Accepted"}, v.linked = FALSE, v.order \in {"none", "open"},
           job' = [job EXCEPT ![j] = v], walkin' \in {walkin, LinkToken(j)},
           UNCHANGED <<billReq, repairBills, overtaken>>
    PROVE  RepairInv'
<1>1. JobIsSound(j, v, BillsOf(j), overtaken)
  <2>1. BillsOf(j) = {}
    BY DEF RepairInv, JobIsSound
  <2> QED BY <2>1 DEF JobIsSound
<1>2. walkin' \in [converted : BOOLEAN, to : SUBSET Jobs] /\ WalkinIsSound(walkin', job')
  BY TokenStays, RepairTypes
<1> QED BY <1>1, <1>2, JobChanges

LEMMA IntakeKeeps == ASSUME RepairInv, NEW j \in Jobs, Intake(j) PROVE RepairInv'
<1>1. PICK stage \in {"Draft", "Accepted"} : job' = [job EXCEPT ![j] = [NoJob EXCEPT !.stage = stage]]
  BY DEF Intake
<1>2. PICK v : v = [NoJob EXCEPT !.stage = stage]
  OBVIOUS
<1>3. v \in JobRows
  BY <1>2, RepairRowsAre DEF JobRows
<1>4. v.stage = stage /\ v.linked = FALSE /\ v.order = "none"
  BY <1>2 DEF NoJob
<1> QED BY <1>1, <1>2, <1>3, <1>4, TakenIn DEF Intake

LEMMA ConvertWalkinKeeps == ASSUME RepairInv, NEW j \in Jobs, ConvertWalkin(j) PROVE RepairInv'
<1>1. PICK v : v = [NoJob EXCEPT !.stage = "Accepted"]
  OBVIOUS
<1>2. v \in JobRows
  BY <1>1, RepairRowsAre DEF JobRows
<1>3. v.stage = "Accepted" /\ v.linked = FALSE /\ v.order = "none"
  BY <1>1 DEF NoJob
<1> QED BY <1>1, <1>2, <1>3, TakenIn DEF ConvertWalkin

LEMMA QuickJobCardKeeps == ASSUME RepairInv, NEW j \in Jobs, QuickJobCard(j) PROVE RepairInv'
<1>1. PICK v : v = [NoJob EXCEPT !.stage = "Accepted", !.order = "open"]
  OBVIOUS
<1>2. v \in JobRows
  BY <1>1, RepairRowsAre DEF JobRows
<1>3. v.stage = "Accepted" /\ v.linked = FALSE /\ v.order = "open"
  BY <1>1 DEF NoJob
<1> QED BY <1>1, <1>2, <1>3, TakenIn DEF QuickJobCard

\* GoFix moves a job on that is not invoiced.
LEMMA MovedOn ==
    ASSUME RepairInv, NEW j \in Jobs, NEW v \in JobRows,
           job[j].stage \in {"Draft", "Accepted"},
           v.stage \in {"Draft", "Accepted", "Completed"}, v.linked = job[j].linked,
           v.order = job[j].order \/ v.order = "open",
           job' = [job EXCEPT ![j] = v], UNCHANGED <<walkin, billReq, repairBills, overtaken>>
    PROVE  RepairInv'
<1>1. JobIsSound(j, v, BillsOf(j), overtaken)
  <2>1. JobIsSound(j, job[j], BillsOf(j), overtaken)
    BY DEF RepairInv
  <2>2. \A b \in BillsOf(j) : ~Guarded(b) /\ b.act # "close"
    BY <2>1 DEF JobIsSound, Guarded
  <2> QED BY <2>1, <2>2 DEF JobIsSound
<1>2. walkin' \in [converted : BOOLEAN, to : SUBSET Jobs] /\ WalkinIsSound(walkin', job')
  BY TokenStays, RepairTypes
<1> QED BY <1>1, <1>2, JobChanges

LEMMA AcceptJobKeeps == ASSUME RepairInv, NEW j \in Jobs, AcceptJob(j) PROVE RepairInv'
<1>1. PICK v : v = [job[j] EXCEPT !.stage = "Accepted", !.order = "open"]
  OBVIOUS
<1>2. job[j] \in JobRows
  BY RepairTypes
<1>3. v \in JobRows
  BY <1>1, <1>2 DEF JobRows
<1>4. v.stage = "Accepted" /\ v.linked = job[j].linked /\ v.order = "open"
  BY <1>1, <1>2 DEF JobRows
<1>5. job' = [job EXCEPT ![j] = v]
  BY <1>1, RepairTypes DEF AcceptJob
<1> QED BY <1>3, <1>4, <1>5, MovedOn DEF AcceptJob

LEMMA BenchKeeps == ASSUME RepairInv, NEW j \in Jobs, Bench(j) PROVE RepairInv'
<1>1. job[j] \in JobRows /\ UNCHANGED <<walkin, billReq, repairBills, overtaken>>
  BY RepairTypes DEF Bench
<1>2. CASE job[j].stage \in {"Draft", "Accepted"} /\ \E s \in {"Accepted", "Completed"} : job' = [job EXCEPT ![j].stage = s]
  <2>1. PICK s \in {"Accepted", "Completed"} : job' = [job EXCEPT ![j].stage = s]
    BY <1>2
  <2>2. PICK v : v = [job[j] EXCEPT !.stage = s]
    OBVIOUS
  <2>3. v \in JobRows
    BY <1>1, <2>2 DEF JobRows
  <2>4. v.stage = s /\ v.linked = job[j].linked /\ v.order = job[j].order
    BY <1>1, <2>2 DEF JobRows
  <2>5. job' = [job EXCEPT ![j] = v]
    BY <2>1, <2>2, RepairTypes
  <2> QED BY <1>1, <1>2, <2>3, <2>4, <2>5, MovedOn
<1>3. CASE job[j].stage = "Accepted" /\ job[j].spares < MaxSpares
           /\ job' = [job EXCEPT ![j].spares = job[j].spares + 1]
  <2>1. job[j].spares + 1 \in 0..MaxSpares
    BY <1>1, <1>3, RepairAssumption DEF JobRows
  <2>2. PICK m \in 0..MaxSpares : m = job[j].spares + 1
    BY <2>1
  <2>3. PICK v : v = [job[j] EXCEPT !.spares = m]
    OBVIOUS
  <2>4. v \in JobRows
    BY <1>1, <2>3 DEF JobRows
  <2>5. v.stage = job[j].stage /\ v.linked = job[j].linked /\ v.order = job[j].order
    BY <1>1, <2>3 DEF JobRows
  <2>6. job' = [job EXCEPT ![j] = v]
    BY <1>3, <2>2, <2>3, RepairTypes
  <2> QED BY <1>1, <1>3, <2>4, <2>5, <2>6, MovedOn
<1>4. CASE job[j].stage = "Accepted" /\ job' = [job EXCEPT ![j].order = "open"]
  <2>1. PICK v : v = [job[j] EXCEPT !.order = "open"]
    OBVIOUS
  <2>2. v \in JobRows
    BY <1>1, <2>1 DEF JobRows
  <2>3. v.stage = job[j].stage /\ v.linked = job[j].linked /\ v.order = "open"
    BY <1>1, <2>1 DEF JobRows
  <2>4. job' = [job EXCEPT ![j] = v]
    BY <1>4, <2>1, RepairTypes
  <2> QED BY <1>1, <1>4, <2>2, <2>3, <2>4, MovedOn
<1> QED BY <1>2, <1>3, <1>4 DEF Bench

-----------------------------------------------------------------------------

\* A billing request begins or ends.
LEMMA BillReqChanges ==
    ASSUME RepairInv, NEW r \in BillRequests, NEW q \in BillReqRows, billReq' = [billReq EXCEPT ![r] = q],
           BillReqIsSound(q, job), UNCHANGED <<job, walkin, repairBills, overtaken>>
    PROVE  RepairInv'
<1>1. RepairTypeOK'
  BY RepairTypes DEF RepairInv, RepairTypeOK, BillReqRows
<1>2. ASSUME NEW j \in Jobs PROVE JobIsSound(j, job'[j], BillsOf(j)', overtaken')
  BY DEF RepairInv, BillsOf
<1>3. ASSUME NEW p \in BillRequests PROVE BillReqIsSound(billReq'[p], job')
  BY RepairTypes DEF RepairInv
<1> QED BY <1>1, <1>2, <1>3 DEF RepairInv

LEMMA BeginBillKeeps ==
    ASSUME RepairInv, NEW r \in BillRequests, NEW act \in Acts, NEW j \in Jobs, BeginBill(r, act, j)
    PROVE  RepairInv'
<1>1. PICK q : q = [at |-> "running", act |-> act, job |-> job[j], on |-> j]
  OBVIOUS
<1>2. q \in BillReqRows
  BY <1>1, RepairTypes DEF BillReqRows
<1>3. job[j].stage # "none"
  BY DEF BeginBill, MayBill, MayCart, MayClose, MayCollect
<1>4. BillReqIsSound(q, job)
  BY <1>1, <1>3 DEF BillReqIsSound, BeginBill
<1> QED BY <1>1, <1>2, <1>4, BillReqChanges DEF BeginBill

LEMMA DropBillKeeps == ASSUME RepairInv, NEW r \in BillRequests, DropBill(r) PROVE RepairInv'
<1>1. PICK q : q = [NoBillReq EXCEPT !.at = "done"]
  OBVIOUS
<1>2. q \in BillReqRows /\ BillReqIsSound(q, job)
  BY <1>1, RepairRowsAre DEF BillReqIsSound
<1> QED BY <1>1, <1>2, BillReqChanges DEF DropBill

\* What a billing request makes of the job's row.
LEMMA MarkedIs ==
    ASSUME NEW act \in Acts, NEW now \in JobRows, NEW v \in Marked(act, now)
    PROVE  /\ v \in JobRows /\ v.linked = TRUE /\ v.spares = now.spares
           /\ act = "collect" => v.stage = now.stage
           /\ act # "collect" => v.stage = "Invoiced"
<1>1. CASE act = "collect"
  <2>1. PICK o \in {"none", "open", "closed"} : o = IF now.order = "open" THEN "closed" ELSE now.order
    BY DEF JobRows
  <2>2. v = [now EXCEPT !.linked = TRUE, !.order = o]
    BY <1>1, <2>1 DEF Marked, Collected
  <2>3. v \in JobRows
    BY <2>2 DEF JobRows
  <2>4. v.linked = TRUE /\ v.spares = now.spares /\ v.stage = now.stage
    BY <2>2 DEF JobRows
  <2> QED BY <1>1, <2>3, <2>4
<1>2. CASE act # "collect"
  <2>1. PICK o \in {"none", "open", "closed"} : v = [now EXCEPT !.linked = TRUE, !.stage = "Invoiced", !.order = o]
    <3>1. v \in Invoiced(act, now)
      BY <1>2 DEF Marked
    <3>2. now.order \in {"none", "open", "closed"}
      BY DEF JobRows
    <3> QED BY <3>1, <3>2 DEF Invoiced
  <2>2. v \in JobRows
    BY <2>1 DEF JobRows
  <2>3. v.linked = TRUE /\ v.spares = now.spares /\ v.stage = "Invoiced"
    BY <2>1 DEF JobRows
  <2> QED BY <1>2, <2>2, <2>3
<1> QED BY <1>1, <1>2

LEMMA CommitBillKeeps == ASSUME RepairInv, NEW r \in BillRequests, CommitBill(r) PROVE RepairInv'
<1>1. PICK q : q = billReq[r]
  OBVIOUS
<1>2. PICK j : j = q.on
  OBVIOUS
<1>3. /\ q \in BillReqRows /\ q.at = "running" /\ q.act \in Acts /\ j \in Jobs /\ job[j] \in JobRows
      /\ job[j].stage # "none" /\ MayBill(q.act, q.job) /\ q.job \in JobRows
  <2>1. q \in BillReqRows /\ q.at = "running" /\ BillReqIsSound(q, job)
    BY <1>1, RepairTypes DEF RepairInv, CommitBill
  <2>2. q.job \in JobRows
    BY <2>1 DEF BillReqRows
  <2> QED BY <1>2, <2>1, <2>2, RepairTypes DEF BillReqIsSound
<1>4. PICK v \in Marked(q.act, job[j]) : job' = [job EXCEPT ![j] = v]
  BY <1>1, <1>2 DEF CommitBill
<1>5. /\ v \in JobRows /\ v.linked = TRUE /\ v.spares = job[j].spares
      /\ q.act = "collect" => v.stage = job[j].stage
      /\ q.act # "collect" => v.stage = "Invoiced"
  BY <1>3, MarkedIs
<1>6. PICK b : b = IF q.act = "close" THEN ClosureBill(r) ELSE OneLineBill(r)
  OBVIOUS
<1>7. b \in RepairBills /\ b.on = j /\ b.act = q.act /\ (q.act = "close" => b.spares = q.job.spares)
  <2>1. CASE q.act = "close"
    <3>1. b = [by |-> r, act |-> "close", on |-> j, spares |-> q.job.spares]
      BY <1>1, <1>2, <1>6, <2>1 DEF ClosureBill, BilledSpares
    <3>2. q.job.spares \in 0..MaxSpares
      BY <1>3 DEF JobRows
    <3>3. "close" \in Acts
      BY DEF Acts
    <3> QED BY <1>3, <2>1, <3>1, <3>2, <3>3 DEF RepairBills
  <2>2. CASE q.act # "close"
    <3>1. b = [by |-> r, act |-> q.act, on |-> j, spares |-> 0]
      BY <1>1, <1>2, <1>6, <2>2 DEF OneLineBill
    <3>2. 0 \in 0..MaxSpares
      BY RepairAssumption
    <3> QED BY <1>3, <2>2, <3>1, <3>2 DEF RepairBills
  <2> QED BY <2>1, <2>2
<1>8. repairBills' = repairBills \cup {b}
  BY <1>1, <1>6 DEF CommitBill
<1>9. overtaken' = IF job[j] = q.job THEN overtaken ELSE overtaken \cup {j}
  BY <1>1, <1>2 DEF CommitBill
<1>10. PICK done : done = [NoBillReq EXCEPT !.at = "done"]
  OBVIOUS
<1>11. done \in BillReqRows /\ done.at = "done"
  BY <1>10, RepairRowsAre
<1>12. billReq' = [billReq EXCEPT ![r] = done] /\ walkin' = walkin
  BY <1>10 DEF CommitBill
<1>13. RepairTypeOK'
  <2>1. job' \in [Jobs -> JobRows]
    BY <1>4, <1>5, RepairTypes
  <2>2. billReq' \in [BillRequests -> BillReqRows]
    BY <1>11, <1>12, RepairTypes
  <2>3. repairBills' \subseteq RepairBills /\ overtaken' \subseteq Jobs
    BY <1>3, <1>7, <1>8, <1>9, RepairTypes
  <2>4. walkin' \in [converted : BOOLEAN, to : SUBSET Jobs]
    BY <1>12, RepairTypes
  <2> QED BY <2>1, <2>2, <2>3, <2>4 DEF RepairTypeOK, BillReqRows, RepairBills
<1>14. JobIsSound(j, job[j], BillsOf(j), overtaken)
  BY <1>3 DEF RepairInv
<1>15. BillsOf(j)' = BillsOf(j) \cup {b}
  BY <1>7, <1>8 DEF BillsOf
<1>16. JobIsSound(j, v, BillsOf(j) \cup {b}, overtaken')
  <2>1. ASSUME NEW a \in BillsOf(j) \cup {b}, Guarded(a) PROVE v.stage = "Invoiced"
    BY <1>5, <1>7, <1>14, <2>1 DEF JobIsSound, Guarded
  <2>2. ASSUME j \notin overtaken', Guarded(b) PROVE BillsOf(j) = {}
    <3>1. job[j] = q.job
      BY <1>9, <2>2
    <3>2. ~q.job.linked
      BY <1>3, <1>7, <2>2 DEF Guarded, MayBill, MayClose, MayCart
    <3> QED BY <1>14, <3>1, <3>2 DEF JobIsSound
  <2>3. ASSUME j \notin overtaken', NEW a \in BillsOf(j) \cup {b}, NEW c \in BillsOf(j) \cup {b},
               Guarded(a), Guarded(c)
        PROVE  a = c
    <3>1. j \notin overtaken
      BY <1>9, <2>3
    <3>2. CASE Guarded(b)
      BY <2>2, <2>3, <3>2
    <3>3. CASE ~Guarded(b)
      BY <1>14, <2>3, <3>1, <3>3 DEF JobIsSound
    <3> QED BY <3>2, <3>3
  <2>4. ASSUME j \notin overtaken', NEW a \in BillsOf(j) \cup {b}, a.act = "close"
        PROVE  a.spares = v.spares
    <3>1. j \notin overtaken /\ job[j] = q.job
      BY <1>9, <2>4
    <3>2. CASE a \in BillsOf(j)
      BY <1>5, <1>14, <2>4, <3>1, <3>2 DEF JobIsSound
    <3>3. CASE a = b
      BY <1>5, <1>7, <2>4, <3>1, <3>3
    <3> QED BY <3>2, <3>3
  <2>5. v.stage # "none"
    BY <1>3, <1>5
  <2> QED BY <1>5, <2>1, <2>3, <2>4, <2>5 DEF JobIsSound
<1>17. ASSUME NEW i \in Jobs PROVE JobIsSound(i, job'[i], BillsOf(i)', overtaken')
  <2>1. CASE i = j
    <3>1. job'[i] = v
      BY <1>4, <2>1, RepairTypes
    <3> QED BY <1>15, <1>16, <2>1, <3>1
  <2>2. CASE i # j
    <3>1. job'[i] = job[i] /\ BillsOf(i)' = BillsOf(i) /\ (i \in overtaken' <=> i \in overtaken)
      BY <1>4, <1>7, <1>8, <1>9, <2>2, RepairTypes DEF BillsOf
    <3>2. JobIsSound(i, job[i], BillsOf(i), overtaken)
      BY DEF RepairInv
    <3> QED BY <3>1, <3>2 DEF JobIsSound
  <2> QED BY <2>1, <2>2
<1>18. \A i \in Jobs : job[i].stage # "none" => job'[i].stage # "none"
  BY <1>3, <1>4, <1>5, RepairTypes
<1>19. WalkinIsSound(walkin', job')
  BY <1>12, <1>18, RepairTypes DEF RepairInv, WalkinIsSound
<1>20. ASSUME NEW p \in BillRequests PROVE BillReqIsSound(billReq'[p], job')
  <2>1. billReq'[p] = IF p = r THEN done ELSE billReq[p]
    BY <1>12, RepairTypes
  <2>2. BillReqIsSound(billReq[p], job)
    BY DEF RepairInv
  <2> QED BY <1>11, <1>18, <2>1, <2>2 DEF BillReqIsSound
<1> QED BY <1>13, <1>17, <1>19, <1>20 DEF RepairInv

LEMMA RepairSteps == ASSUME RepairInv, RepairNext PROVE RepairInv'
  BY IntakeKeeps, ConvertWalkinKeeps, QuickJobCardKeeps, AcceptJobKeeps, BenchKeeps,
     BeginBillKeeps, CommitBillKeeps, DropBillKeeps DEF RepairNext

LEMMA RepairInvSays == ASSUME RepairInv PROVE RepairTypeOK /\ RepairsAreBilled
<1>1. GuardedBillsOnce
  <2> SUFFICES ASSUME NEW j \in Jobs \ overtaken
               PROVE  Cardinality({b \in BillsOf(j) : Guarded(b)}) <= 1
    BY DEF GuardedBillsOnce
  <2>1. PICK S : S = {b \in BillsOf(j) : Guarded(b)}
    OBVIOUS
  <2>2. \A a, b \in S : a = b
    BY <2>1 DEF RepairInv, JobIsSound
  <2> QED BY <2>1, <2>2, NoneOrOne
<1>2. SparesAreBilled
  BY DEF RepairInv, JobIsSound, SparesAreBilled
<1>3. InvoicedIsBilled
  BY DEF RepairInv, JobIsSound, InvoicedIsBilled
<1>4. TokenNamesOneRequest
  <2>1. Cardinality(walkin.to) <= 1
    BY NoneOrOne DEF RepairInv, WalkinIsSound
  <2> QED BY <2>1 DEF RepairInv, WalkinIsSound, TokenNamesOneRequest
<1> QED BY <1>1, <1>2, <1>3, <1>4 DEF RepairInv, RepairsAreBilled

-----------------------------------------------------------------------------
(* First in, first out                                                     *)

LEMMA LeastNumber ==
    ASSUME NEW S \in SUBSET Nat, S # {} PROVE \E m \in S : \A n \in S : m <= n
<1>1. PICK m \in S : \A n \in S : ~ (<<n, m>> \in OpToRel(<, Nat))
  <2>1. IsWellFoundedOn(OpToRel(<, Nat), Nat)
    BY NatLessThanWellFounded
  <2> QED BY <2>1, WFMin
<1>2. ASSUME NEW n \in S PROVE m <= n
  <2>1. ~(n < m)
    BY <1>1 DEF OpToRel
  <2> QED BY <2>1
<1> QED BY <1>2

StockRows == [place : Places, first : 0..LastDay, last : 0..LastDay]
SkipRows == [unit : Units, sinceFirst : 0..LastDay, crowd : 0..Cardinality(Units)]
FifoInv ==
    /\ FifoTypeOK
    /\ SkipsAreExplained

LEMMA FifoRowsAre ==
    ASSUME FifoInv
    PROVE  /\ stock \in [Units -> StockRows] /\ \A u \in Units : stock[u] \in StockRows
           /\ \A u \in Units : stock[u].first \in Nat /\ stock[u].last \in Nat /\ u \in Nat
           /\ \A u \in Units : stock[u].first <= stock[u].last /\ stock[u].last <= today
           /\ skips \subseteq SkipRows /\ today \in 1..LastDay /\ today \in 0..LastDay
           /\ LastDay \in Nat /\ Window \in Nat /\ Window > 0
  BY FifoAssumption DEF FifoInv, FifoTypeOK, StockRows, SkipRows

LEMMA FifoStarts == FifoInit => FifoInv
<1> SUFFICES ASSUME FifoInit PROVE FifoInv
  OBVIOUS
<1>1. 1 \in 1..LastDay /\ 0 \in 0..LastDay
  BY FifoAssumption
<1>2. stock \in [Units -> StockRows]
  BY <1>1 DEF FifoInit, StockRows, Places
<1>3. \A u \in Units : stock[u].first <= stock[u].last /\ stock[u].last <= today
  BY <1>1 DEF FifoInit
<1> QED BY <1>1, <1>2, <1>3 DEF FifoInit, FifoInv, FifoTypeOK, StockRows, SkipsAreExplained

\* A step that bills nothing.
LEMMA StockChanges ==
    ASSUME FifoInv, NEW u \in Units, NEW row \in StockRows, row.first <= row.last, row.last <= today,
           stock' = [stock EXCEPT ![u] = row], UNCHANGED <<today, cart, skips>>
    PROVE  FifoInv'
<1>1. stock' \in [Units -> StockRows]
  BY FifoRowsAre
<1>2. ASSUME NEW v \in Units PROVE stock'[v].first <= stock'[v].last /\ stock'[v].last <= today'
  <2>1. stock'[v] = IF v = u THEN row ELSE stock[v]
    BY FifoRowsAre
  <2> QED BY <2>1, FifoRowsAre
<1> QED BY <1>1, <1>2 DEF FifoInv, FifoTypeOK, StockRows, SkipsAreExplained

LEMMA MoveUnitKeeps ==
    ASSUME FifoInv, NEW u \in Units, NEW from \in Places, NEW to \in Places, MoveUnit(u, from, to)
    PROVE  FifoInv'
<1>1. PICK row : row = [stock[u] EXCEPT !.place = to]
  OBVIOUS
<1>2. stock[u] \in StockRows /\ stock[u].first <= stock[u].last /\ stock[u].last <= today
  BY FifoRowsAre
<1>3. row \in StockRows
  BY <1>1, <1>2 DEF StockRows
<1>4. row.first = stock[u].first /\ row.last = stock[u].last
  BY <1>1, <1>2 DEF StockRows
<1>5. stock' = [stock EXCEPT ![u] = row]
  BY <1>1, FifoRowsAre DEF MoveUnit
<1> QED BY <1>2, <1>3, <1>4, <1>5, StockChanges DEF MoveUnit

LEMMA ReceiveKeeps == ASSUME FifoInv, NEW u \in Units, Receive(u) PROVE FifoInv'
<1>1. PICK row : row = [place |-> "sellable", first |-> today, last |-> today]
  OBVIOUS
<1>2. today \in 0..LastDay
  BY FifoRowsAre
<1>3. row \in StockRows
  BY <1>1, <1>2 DEF StockRows, Places
<1>4. row.first <= row.last /\ row.last <= today
  BY <1>1, <1>2
<1> QED BY <1>1, <1>3, <1>4, StockChanges DEF Receive

LEMMA OnboardAgainKeeps == ASSUME FifoInv, NEW u \in Units, OnboardAgain(u) PROVE FifoInv'
<1>1. PICK row : row = [stock[u] EXCEPT !.place = "sellable", !.last = today]
  OBVIOUS
<1>2. /\ stock[u] \in StockRows /\ stock[u].first <= stock[u].last /\ stock[u].last <= today
      /\ stock[u].first \in Nat /\ stock[u].last \in Nat /\ today \in 0..LastDay
  BY FifoRowsAre
<1>3. row \in StockRows
  BY <1>1, <1>2 DEF StockRows, Places
<1>4. row.first = stock[u].first /\ row.last = today
  BY <1>1, <1>2 DEF StockRows
<1>5. row.first <= row.last /\ row.last <= today
  BY <1>2, <1>4
<1>6. stock' = [stock EXCEPT ![u] = row]
  BY <1>1, FifoRowsAre DEF OnboardAgain
<1> QED BY <1>3, <1>5, <1>6, StockChanges DEF OnboardAgain

LEMMA CartKeeps ==
    ASSUME FifoInv, NEW u \in Units, AddToCart(u) \/ AddWithException(u) \/ RemoveFromCart(u)
    PROVE  FifoInv'
<1>1. UNCHANGED <<today, stock, skips>>
  BY DEF AddToCart, AddWithException, RemoveFromCart
<1>2. cart' \in [Units -> {"no", "plain", "exception"}]
  BY DEF AddToCart, AddWithException, RemoveFromCart, FifoInv, FifoTypeOK
<1> QED BY <1>1, <1>2 DEF FifoInv, FifoTypeOK, SkipsAreExplained

LEMMA FifoNextDayKeeps == ASSUME FifoInv, FifoNextDay PROVE FifoInv'
<1>1. today' \in 1..LastDay
  BY FifoRowsAre DEF FifoNextDay
<1>2. \A u \in Units : stock[u].last <= today'
  BY FifoRowsAre DEF FifoNextDay
<1> QED BY <1>1, <1>2 DEF FifoNextDay, FifoInv, FifoTypeOK, SkipsAreExplained

-----------------------------------------------------------------------------
(* The oldest of the older ones leads, unless a crowd hides it.            *)

\* Any units have a first one in the order the query reads them.
LEMMA FirstUnit ==
    ASSUME FifoInv, NEW S \in SUBSET Units, S # {}
    PROVE  \E v \in S : \A w \in S : w # v => Before(v, w)
<1>1. PICK v \in S : \A w \in S : stock[v].last <= stock[w].last
  <2>1. PICK days : days = {stock[w].last : w \in S}
    OBVIOUS
  <2>2. days \in SUBSET Nat /\ days # {}
    BY <2>1, FifoRowsAre
  <2>3. PICK m \in days : \A n \in days : m <= n
    BY <2>2, LeastNumber
  <2> QED BY <2>1, <2>3
<1>2. PICK same : same = {w \in S : stock[w].last = stock[v].last}
  OBVIOUS
<1>3. same \in SUBSET Nat /\ same # {}
  BY <1>2, FifoRowsAre
<1>4. PICK u \in same : \A w \in same : u <= w
  BY <1>3, LeastNumber
<1>5. ASSUME NEW w \in S, w # u PROVE Before(u, w)
  <2>1. /\ u \in S /\ stock[u].last = stock[v].last /\ stock[v].last <= stock[w].last
        /\ u \in Nat /\ w \in Nat /\ stock[u].last \in Nat /\ stock[w].last \in Nat
    BY <1>1, <1>2, FifoRowsAre
  <2>2. CASE w \in same
    <3>1. u <= w /\ stock[w].last = stock[u].last
      BY <1>2, <1>4, <2>1, <2>2
    <3> QED BY <1>5, <2>1, <3>1 DEF Before
  <2>3. CASE w \notin same
    <3>1. stock[w].last # stock[u].last
      BY <1>2, <2>1, <2>3
    <3> QED BY <2>1, <3>1 DEF Before
  <2> QED BY <2>2, <2>3
<1> QED BY <1>2, <1>5

OlderThan(u, bill) == {v \in Pickable \ bill : stock[v].last < stock[u].last}
AheadOf(u, bill) ==
    {w \in Units \ bill : /\ stock[w].place = "reserved"
                          /\ \A v \in OlderThan(u, bill) : Before(w, v)}

LEMMA BeforeOrders ==
    ASSUME FifoInv, NEW u \in Units, NEW v \in Units
    PROVE  /\ Before(u, v) => ~Before(v, u) /\ u # v /\ stock[u].last <= stock[v].last
           /\ \A w \in Units : Before(u, v) /\ Before(v, w) => Before(u, w)
<1>1. /\ stock[u].last \in Nat /\ stock[v].last \in Nat /\ u \in Nat /\ v \in Nat
      /\ \A w \in Units : stock[w].last \in Nat /\ w \in Nat
  BY FifoRowsAre
<1> QED BY <1>1 DEF Before

LEMMA OldestLeads ==
    ASSUME FifoInv, NEW u \in Units, NEW bill \in SUBSET Units, OlderThan(u, bill) # {},
           Cardinality(AheadOf(u, bill)) < Window
    PROVE  \E v \in Leader(bill) : stock[v].last < stock[u].last
<1>1. OlderThan(u, bill) \in SUBSET Units
  BY DEF OlderThan, Pickable
<1>2. PICK v \in OlderThan(u, bill) : \A w \in OlderThan(u, bill) : w # v => Before(v, w)
  BY <1>1, FirstUnit
<1>3. /\ v \in Units /\ v \notin bill /\ stock[v].place = "sellable" /\ stock[v].last < stock[u].last
      /\ stock[v].last \in Nat /\ stock[u].last \in Nat
  BY <1>2, FifoRowsAre DEF OlderThan, Pickable
<1>4. ASSUME NEW w \in Units, w \notin bill, stock[w].place = "sellable", w # v PROVE Before(v, w)
  <2>1. stock[w].last \in Nat /\ w \in Nat /\ v \in Nat
    BY <1>3, FifoRowsAre
  <2>2. CASE stock[w].last < stock[u].last
    <3>1. w \in OlderThan(u, bill)
      BY <1>4, <2>2 DEF OlderThan, Pickable
    <3> QED BY <1>2, <1>4, <3>1
  <2>3. CASE ~(stock[w].last < stock[u].last)
    BY <1>3, <2>1, <2>3 DEF Before
  <2> QED BY <2>2, <2>3
<1>5. PICK rows : rows = {w \in Candidates : Before(w, v)}
  OBVIOUS
<1>6. rows \subseteq AheadOf(u, bill) \cup bill
  <2> SUFFICES ASSUME NEW w \in Candidates, Before(w, v), w \notin bill PROVE w \in AheadOf(u, bill)
    BY <1>5
  <2>1. w \in Units /\ ~Before(v, w) /\ w # v
    BY <1>3, BeforeOrders DEF Candidates
  <2>2. stock[w].place = "reserved"
    BY <1>4, <2>1 DEF Candidates
  <2>3. ASSUME NEW x \in OlderThan(u, bill) PROVE Before(w, x)
    <3>1. x \in Units
      BY <1>1
    <3>2. x = v \/ Before(v, x)
      BY <1>2
    <3> QED BY <1>3, <2>1, <3>1, <3>2, BeforeOrders
  <2> QED BY <2>1, <2>2, <2>3 DEF AheadOf
<1>7. Cardinality(rows) < Window + Cardinality(bill)
  <2> DEFINE ahead == AheadOf(u, bill)
  <2>1. IsFiniteSet(bill) /\ Cardinality(bill) \in Nat
    BY FifoAssumption, FS_Subset, FS_CardinalityType
  <2>2. ahead \in SUBSET Units
    BY DEF AheadOf
  <2>3. IsFiniteSet(ahead) /\ Cardinality(ahead) \in Nat /\ Cardinality(ahead) < Window
    BY <2>2, FifoAssumption, FS_Subset, FS_CardinalityType
  <2>4. rows \in SUBSET (ahead \cup bill)
    BY <1>6
  <2> HIDE DEF ahead
  <2>5. IsFiniteSet(ahead \cup bill)
        /\ Cardinality(ahead \cup bill) = Cardinality(ahead) + Cardinality(bill) - Cardinality(ahead \cap bill)
    BY <2>1, <2>3, FS_Union
  <2>6. Cardinality(ahead \cap bill) \in Nat
    <3>1. ahead \cap bill \in SUBSET bill
      OBVIOUS
    <3> QED BY <2>1, <3>1, FS_Subset, FS_CardinalityType
  <2>7. Cardinality(rows) \in Nat /\ Cardinality(rows) <= Cardinality(ahead \cup bill)
    BY <2>4, <2>5, FS_Subset, FS_CardinalityType
  <2>8. Window \in Nat
    BY FifoAssumption
  <2> QED BY <2>1, <2>3, <2>5, <2>6, <2>7, <2>8
<1>8. v \in RowsRead(bill) \ bill
  BY <1>3, <1>5, <1>7 DEF RowsRead, Candidates
<1>9. v \in Leader(bill)
  <2>1. \A w \in RowsRead(bill) \ bill : stock[w].place = "sellable" /\ w # v => Before(v, w)
    BY <1>4 DEF RowsRead, Candidates
  <2> QED BY <1>3, <1>8, <2>1 DEF Leader
<1> QED BY <1>3, <1>9

-----------------------------------------------------------------------------

\* What the bill of a cart leaves in the record.
LEMMA SkipIsExplained ==
    ASSUME FifoInv, NEW u \in Units, NEW bill \in SUBSET Units, OlderThan(u, bill) # {}, InOrder(u, bill),
           NEW s, s = [unit |-> u, sinceFirst |-> stock[u].last - stock[u].first,
                       crowd |-> Cardinality(AheadOf(u, bill))]
    PROVE  s \in SkipRows /\ (s.sinceFirst > 0 \/ s.crowd >= Window)
<1>1. /\ stock[u].first \in Nat /\ stock[u].last \in Nat /\ stock[u].first <= stock[u].last
      /\ stock[u].last <= LastDay /\ LastDay \in Nat /\ Window \in Nat
  BY FifoRowsAre DEF StockRows
<1>2. PICK c : c = Cardinality(AheadOf(u, bill))
  OBVIOUS
<1>3. c \in 0..Cardinality(Units) /\ c \in Nat
  <2>1. AheadOf(u, bill) \in SUBSET Units
    BY DEF AheadOf
  <2>2. Cardinality(Units) \in Nat
    BY FifoAssumption, FS_CardinalityType
  <2>3. c \in Nat /\ c <= Cardinality(Units)
    BY <1>2, <2>1, FifoAssumption, FS_Subset, FS_CardinalityType
  <2> QED BY <2>2, <2>3
<1>4. PICK d \in 0..LastDay : d = stock[u].last - stock[u].first
  BY <1>1
<1>5. s = [unit |-> u, sinceFirst |-> d, crowd |-> c]
  BY <1>2, <1>4
<1>6. CASE c >= Window
  BY <1>3, <1>5, <1>6 DEF SkipRows
<1>7. CASE ~(c >= Window)
  <2>1. PICK v \in Leader(bill) : stock[v].last < stock[u].last
    BY <1>1, <1>2, <1>3, <1>7, OldestLeads
  <2>2. stock[u].first <= stock[v].last
    BY <2>1 DEF InOrder
  <2>3. stock[v].last \in Nat
    BY <2>1, FifoRowsAre DEF Leader, RowsRead, Candidates
  <2>4. d > 0
    BY <1>1, <1>4, <2>1, <2>2, <2>3
  <2> QED BY <1>3, <1>5, <2>4 DEF SkipRows
<1> QED BY <1>6, <1>7

LEMMA BillCartKeeps == ASSUME FifoInv, BillCart PROVE FifoInv'
<1>1. PICK bill : bill = InCart
  OBVIOUS
<1>2. bill \in SUBSET Units
  BY <1>1 DEF InCart
<1>3. ASSUME NEW s \in skips' PROVE s \in SkipRows /\ (s.sinceFirst > 0 \/ s.crowd >= Window)
  <2>1. s \in SkipsOf({u \in Units : cart[u] = "plain"}, bill)
    BY <1>1, <1>3 DEF BillCart
  <2>2. PICK u \in Units : /\ cart[u] = "plain" /\ OlderThan(u, bill) # {}
                           /\ s = [unit |-> u, sinceFirst |-> stock[u].last - stock[u].first,
                                   crowd |-> Cardinality(AheadOf(u, bill))]
    BY <2>1 DEF SkipsOf, OlderThan, AheadOf
  <2>3. InOrder(u, bill)
    BY <1>1, <2>2 DEF BillCart
  <2> QED BY <1>2, <2>2, <2>3, SkipIsExplained
<1>4. ASSUME NEW u \in Units
      PROVE  /\ stock'[u] \in StockRows
             /\ stock'[u].first <= stock'[u].last /\ stock'[u].last <= today
  <2>1. stock[u] \in StockRows /\ stock[u].first <= stock[u].last /\ stock[u].last <= today
    BY FifoRowsAre
  <2>2. CASE u \in InCart
    <3>1. stock'[u] = [stock[u] EXCEPT !.place = "sold"]
      BY <2>2 DEF BillCart
    <3>2. stock'[u] \in StockRows
      BY <2>1, <3>1 DEF StockRows, Places
    <3>3. stock'[u].first = stock[u].first /\ stock'[u].last = stock[u].last
      BY <2>1, <3>1 DEF StockRows
    <3> QED BY <2>1, <3>2, <3>3
  <2>3. CASE u \notin InCart
    BY <2>1, <2>3 DEF BillCart
  <2> QED BY <2>2, <2>3
<1>5. stock' \in [Units -> StockRows]
  <2>1. stock' = [u \in Units |-> stock'[u]]
    BY DEF BillCart
  <2> QED BY <1>4, <2>1
<1>6. cart' \in [Units -> {"no", "plain", "exception"}] /\ today' = today
  BY DEF BillCart
<1>7. FifoTypeOK'
  BY <1>3, <1>4, <1>5, <1>6, FifoRowsAre DEF FifoTypeOK, StockRows, SkipRows
<1> QED BY <1>3, <1>7 DEF FifoInv, SkipsAreExplained

LEMMA FifoSteps == ASSUME FifoInv, FifoNext PROVE FifoInv'
<1>1. ASSUME NEW u \in Units, Reserve(u) \/ Unreserve(u) \/ TradeIn(u) PROVE FifoInv'
  BY <1>1, MoveUnitKeeps DEF Reserve, Unreserve, TradeIn, Places
<1> QED BY <1>1, CartKeeps, FifoNextDayKeeps, BillCartKeeps, ReceiveKeeps, OnboardAgainKeeps DEF FifoNext

LEMMA FifoInvSays == ASSUME FifoInv PROVE FifoTypeOK /\ SkipsAreExplained
  BY DEF FifoInv

-----------------------------------------------------------------------------
(* All desks under one roof: a step is a step of the desk that runs, and a *)
(* stutter of every other one.                                             *)

LEMMA DeskSteps ==
    ASSUME [Next]_Vars
    PROVE  /\ [BenefitsNext]_benefitVars /\ [GiftNext]_giftVars /\ [ReturnNext]_returnVars
           /\ [BuyNext]_buyVars /\ [RepairNext]_repairVars /\ [FifoNext]_fifoVars
           /\ [GateNext]_gateVars /\ [ExchangeNext]_exchangeVars
<1>1. [BenefitsNext]_benefitVars
  BY DEF Next, At, Vars
<1>2. [GiftNext]_giftVars
  BY DEF Next, At, Vars
<1>3. [ReturnNext]_returnVars
  BY DEF Next, At, Vars
<1>4. [BuyNext]_buyVars
  BY DEF Next, At, Vars
<1>5. [RepairNext]_repairVars
  BY DEF Next, At, Vars
<1>6. [FifoNext]_fifoVars
  BY DEF Next, At, Vars
<1>7. [GateNext]_gateVars
  BY DEF Next, At, Vars
<1>8. [ExchangeNext]_exchangeVars
  BY DEF Next, At, Vars
<1> QED BY <1>1, <1>2, <1>3, <1>4, <1>5, <1>6, <1>7, <1>8

LEMMA BenefitsRest == ASSUME BenefitsInv, UNCHANGED benefitVars PROVE BenefitsInv'
<1>1. UNCHANGED <<bills, paperOf, coupon, voucher, advance, outdated>>
  BY DEF benefitVars
<1>2. BenefitsTypeOK' /\ PaperIsFreeUntilBilled' /\ Billed' = Billed /\ Live' = Live
  BY <1>1 DEF BenefitsInv, BenefitsTypeOK, PaperIsFreeUntilBilled, Billed, Live
<1>3. PapersServeOnce' /\ CouponCountsBills'
  BY <1>1, <1>2 DEF BenefitsInv, BenefitsServeOnce, PapersServeOnce, CouponCountsBills
<1>4. NothingSpentTwice'
  BY <1>1, <1>2 DEF BenefitsInv, BenefitsServeOnce, NothingSpentTwice, VoucherBilled, AdvanceBilled
<1> QED BY <1>1, <1>2, <1>3, <1>4 DEF BenefitsInv, BenefitsServeOnce

LEMMA ReturnsRest == ASSUME ReturnInv, UNCHANGED returnVars PROVE ReturnInv'
<1>1. UNCHANGED <<note, serial, plan, planVoucher, claimOpen, wallet>>
  BY DEF returnVars
<1>2. ReturnTypeOK' /\ RowsReturnOnce'
  BY <1>1 DEF ReturnInv, ReturnTypeOK, RowsReturnOnce, Submitted, Returned
<1> QED BY <1>1, <1>2 DEF ReturnInv, PlanIsSquare

LEMMA BuyRest == ASSUME BuyInv, UNCHANGED buyVars PROVE BuyInv'
  BY DEF buyVars, BuyInv, BuyTypeOK

LEMMA RepairRest == ASSUME RepairInv, UNCHANGED repairVars PROVE RepairInv'
  BY DEF repairVars, RepairInv, RepairTypeOK, BillsOf

LEMMA FifoRest == ASSUME FifoInv, UNCHANGED fifoVars PROVE FifoInv'
  BY DEF fifoVars, FifoInv, FifoTypeOK, SkipsAreExplained

LEMMA GatesRest == ASSUME GateInv, UNCHANGED gateVars PROVE GateInv'
  BY GateTypes, TimeKeeps DEF gateVars

LEMMA ExchangeRest == ASSUME ExchangeInv, UNCHANGED exchangeVars PROVE ExchangeInv'
  BY DEF exchangeVars, ExchangeInv, ExchangeTypeOK, CreditedOn

SaleDesksInv ==
    /\ BenefitsInv
    /\ GiftInv
    /\ ReturnInv
    /\ BuyInv
    /\ RepairInv
    /\ FifoInv
    /\ GateInv
    /\ ExchangeInv

LEMMA SaleDesksStart == Init => SaleDesksInv
<1> SUFFICES ASSUME Init PROVE SaleDesksInv
  OBVIOUS
<1>1. BenefitsInit /\ GiftInit /\ ReturnInit /\ BuyInit /\ RepairInit /\ FifoInit /\ GateInit /\ ExchangeInit
  BY DEF Init
<1> QED BY <1>1, BenefitsStart, GiftStarts, ReturnsStart, BuyStarts, RepairStarts, FifoStarts,
           GatesStart, ExchangeStarts DEF SaleDesksInv

LEMMA SaleDesksStep == SaleDesksInv /\ [Next]_Vars => SaleDesksInv'
<1> SUFFICES ASSUME SaleDesksInv, [Next]_Vars PROVE SaleDesksInv'
  OBVIOUS
<1>1. BenefitsInv'
  BY DeskSteps, BenefitsSteps, BenefitsRest DEF SaleDesksInv
<1>2. GiftInv'
  BY DeskSteps, GiftSteps DEF SaleDesksInv
<1>3. ReturnInv'
  BY DeskSteps, ReturnSteps, ReturnsRest DEF SaleDesksInv
<1>4. BuyInv'
  BY DeskSteps, BuySteps, BuyRest DEF SaleDesksInv
<1>5. RepairInv'
  BY DeskSteps, RepairSteps, RepairRest DEF SaleDesksInv
<1>6. FifoInv'
  BY DeskSteps, FifoSteps, FifoRest DEF SaleDesksInv
<1>7. GateInv'
  BY DeskSteps, GateSteps, GatesRest DEF SaleDesksInv
<1>8. ExchangeInv'
  BY DeskSteps, ExchangeSteps, ExchangeRest DEF SaleDesksInv
<1> QED BY <1>1, <1>2, <1>3, <1>4, <1>5, <1>6, <1>7, <1>8 DEF SaleDesksInv

LEMMA SaleDesksInvariant == Spec => []SaleDesksInv
  BY SaleDesksStart, SaleDesksStep, PTL DEF Spec

\* Rows, statuses and amounts are what the code can make of them.
THEOREM SaleDesksTypeCorrect == Spec => []SaleDesksTypeOK
<1>1. SaleDesksInv => SaleDesksTypeOK
  BY BenefitsInvSays, GiftInvSays, ReturnInvSays, BuyInvSays, RepairInvSays, FifoInvSays, GateInvSays,
     ExchangeInvSays DEF SaleDesksInv, SaleDesksTypeOK
<1> QED BY <1>1, SaleDesksInvariant, PTL

\* However the bills of a customer overlap, fail and are cancelled, a paper
\* serves again only a bill that had looked before it was used, no part of a
\* voucher or an advance serves twice, and a coupon's count misses at most the
\* bills that were overtaken (apply_pos_voucher_redemption, create_pos_invoice).
THEOREM BenefitsServedOnce == Spec => []BenefitsServeOnce
<1>1. SaleDesksInv => BenefitsServeOnce
  BY BenefitsInvSays DEF SaleDesksInv
<1> QED BY <1>1, SaleDesksInvariant, PTL

\* A gift is billed once, and a second time only by a request that saw an
\* older gift; what was billed is over (spin_wheel, redeem_gift_code).
THEOREM GiftsBilledOnce == Spec => []GiftIsBilledOnce
<1>1. SaleDesksInv => GiftIsBilledOnce
  BY GiftInvSays DEF SaleDesksInv
<1> QED BY <1>1, SaleDesksInvariant, PTL

\* The payout of a traded-in device stops at its price, its credit is on one
\* bill unless a link was overtaken, and what is paid in full is settled; that
\* only one of the two ways is taken is not said (pos_settle_buyback_cashback, _resolve_exchange_credit).
THEOREM CreditAndPayoutOnce == Spec => []CreditAndPayoutEachOnce
<1>1. SaleDesksInv => CreditAndPayoutEachOnce
  BY BuyInvSays DEF SaleDesksInv
<1> QED BY <1>1, SaleDesksInvariant, PTL

\* A repair is billed once by the guarded ways, with every spare, and what
\* says that it was billed names a bill (close_repair_order).
THEOREM RepairsBilled == Spec => []RepairsAreBilled
<1>1. SaleDesksInv => RepairsAreBilled
  BY RepairInvSays DEF SaleDesksInv
<1> QED BY <1>1, SaleDesksInvariant, PTL

\* A unit passes an older one only for one of the two known reasons
\* (_assert_bill_fifo).
THEOREM SkipsExplained == Spec => []SkipsAreExplained
<1>1. SaleDesksInv => SkipsAreExplained
  BY FifoInvSays DEF SaleDesksInv
<1> QED BY <1>1, SaleDesksInvariant, PTL

\* A customer's cash of a posting date passes the limit by no more than bills
\* brought that another one overtook; the day's discounts pass the budget by no
\* more than those and the bills posted while the business date lagged, of which
\* the budget sums the wrong day (_check_discount_budget,
\* validate_section_269st_cash_limit).
THEOREM GatesAreHeld == Spec => []GatesHold
<1>1. SaleDesksInv => GatesHold
  BY GateInvSays DEF SaleDesksInv
<1> QED BY <1>1, SaleDesksInvariant, PTL

\* A row comes back once and for one credit, and its plans are cancelled all
\* together or not at all; they stay when the cashier was warned or a manager
\* released a draft.  An exchange leaves the customer square within a unit of
\* money (create_pos_return, approve_pos_return, process_return_with_replacement).
THEOREM ReturnsSquare == Spec => []ReturnsAreSquare
<1>1. SaleDesksInv => ReturnsAreSquare
  BY ReturnInvSays, ExchangeInvSays DEF SaleDesksInv, ReturnsAreSquare
<1> QED BY <1>1, SaleDesksInvariant, PTL

\* No step bills a gift that has expired, or rewrites the evidence of an order
\* that is paid (expire_overdue_gifts, pos_approve_customer_buyback).
THEOREM FinalStates == Spec => FinalStatesStand
<1>1. SaleDesksInv /\ [Next]_Vars =>
        [\A i \in GiftSales : gift[i].status = "Expired" => gift'[i].invoices = gift[i].invoices]_giftVars
  BY DeskSteps, GiftStepsBillNothingExpired DEF SaleDesksInv
<1>2. SaleDesksInv /\ [Next]_Vars => [order.status = "Paid" => order'.evidence = order.evidence]_buyVars
  BY DeskSteps, BuyStepsKeepEvidence DEF SaleDesksInv
<1> QED BY <1>1, <1>2, SaleDesksInvariant, PTL DEF Spec, FinalStatesStand, ExpiredStaysUnbilled, EvidenceIsFinal

=============================================================================
