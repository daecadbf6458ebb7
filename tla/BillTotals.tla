----------------------------- MODULE BillTotals -----------------------------
(***************************************************************************)
(* The money of one bill on its way through create_pos_invoice: the header *)
(* discount is spread over the lines, the lines are split into exempted    *)
(* value, taxable value and GST, the payments are rounded, and after the   *)
(* submit the tax rows, the header and the ledger are written anew.        *)
(*                                                                         *)
(* Amounts are integers, in paise (rates kept to six decimals in           *)
(* millionths of a rupee), rounded to even at a tie, as frappe's flt does. *)
(* Several writes log their failure and go on: LostRow, LostLine.          *)
(*                                                                         *)
(* A definition directly before another one that it resembles is a mutant. *)
(***************************************************************************)
EXTENDS Integers, Sequences, FiniteSets, FiniteSetsExt, Functions

CONSTANTS
    CartLines,   \* lines a cart is made of: [price, qty, tiers, gst], a free one of price 0
    MaxLines,    \* lines of a cart
    BillDiscounts, \* header discounts asked for
    Templates,   \* rows of a tax template: sequences of [head, rate]
    Tenders      \* what the till's payments differ from the amount due

ASSUME TotalsAssumption ==
    /\ MaxLines \in Nat /\ BillDiscounts \subseteq Nat /\ Tenders \subseteq Int
    /\ \A l \in CartLines : /\ l.price \in Nat /\ l.qty \in Nat \ {0} /\ l.gst \in Nat
                            /\ l.tiers \in Seq(Nat)
    /\ \A t \in Templates : /\ t \in Seq(Range(t))
                            /\ \A n \in DOMAIN t : t[n].rate \in Nat

VARIABLES
    due,   \* the request: [stage, cart, discount, template, kind, prepaid], the
           \* last two drawn when they are first used
    lines, \* Sales Invoice Item: [price, amount, exempt, taxable, net, tax, parts]
    taxes, \* Sales Taxes and Charges: row of the template -> [head, rate, amount]
    head   \* Sales Invoice: [grand, net, tax, paid, rows, owed, rounding, margin, breakup]

totalVars == <<due, lines, taxes, head>>

SaleKinds == {"cash", "credit", "supplier"}
GstHeads == {"CGST", "SGST", "IGST", "CESS"}
PartOrder == <<"IGST", "SGST", "CESS", "CGST">>
NoHead == [grand |-> 0, net |-> 0, tax |-> 0, paid |-> 0, rows |-> 0, owed |-> 0,
           rounding |-> 0, margin |-> <<0, 0, 0>>, breakup |-> 0]

TotalsInit ==
    /\ due = [stage |-> "none", cart |-> <<>>, discount |-> 0, template |-> <<>>,
              kind |-> "cash", prepaid |-> 0]
    /\ lines = <<>> /\ taxes = <<>> /\ head = NoHead

-----------------------------------------------------------------------------
(* Arithmetic                                                              *)

\* flt(n / d): to the nearest, a tie to even
Rounded(n, d) ==
    LET q == n \div d  r == n % d
    IN  IF 2 * r > d \/ (2 * r = d /\ q % 2 = 1) THEN q + 1 ELSE q

SumBy(op(_), s) == SumFunction([i \in DOMAIN s |-> op(s[i])])
Magnitude(n) == IF n < 0 THEN -n ELSE n

SplitEach(amount, weights) ==
    LET all == SumBy(LAMBDA w : w, weights)
    IN  [i \in DOMAIN weights |->
            IF weights[i] = 0 THEN 0 ELSE Rounded(amount * weights[i], all)]
\* amount by weight, each share rounded, the last one taking what is left
Split(amount, weights) ==
    LET all  == SumBy(LAMBDA w : w, weights)
        live == {i \in DOMAIN weights : weights[i] > 0}
        part(i) == Rounded(amount * weights[i], all)
    IN  [i \in DOMAIN weights |->
            IF i \notin live THEN 0
            ELSE IF i # Max(live) THEN part(i)
            ELSE amount - SumFunction([j \in live \ {i} |-> part(j)])]

-----------------------------------------------------------------------------
(* The cart and its discount                                               *)

Value(l) == l.price * l.qty
CartValue(cart) == SumBy(Value, cart)

FillCart(cart, discount, template) ==
    /\ due.stage = "none" /\ discount <= CartValue(cart)
    /\ due' = [due EXCEPT !.stage = "asked", !.cart = cart, !.discount = discount,
                          !.template = template]
    /\ UNCHANGED <<lines, taxes, head>>

\* The price of line i once its share of the discount is off.
SpreadPrice(cart, discount, i) ==
    LET payers == {j \in DOMAIN cart : cart[j].price > 0}
        value  == CartValue(cart)
        capped == Min({discount, value})
        part(j) == Min({Rounded(capped * Value(cart[j]), value), Value(cart[j])})
        share  == IF i = Max(payers)
                  THEN Min({capped - SumFunction([j \in payers \ {i} |-> part(j)]), Value(cart[i])})
                  ELSE part(i)
    IN  IF i \notin payers THEN cart[i].price
        ELSE Rounded(Value(cart[i]) - share, cart[i].qty)

\* A line as ERPNext inserts it, before the tax rows are there.
Inserted(price, qty) ==
    [price |-> price, amount |-> price * qty, exempt |-> 0, taxable |-> 0, net |-> price * qty,
     tax |-> 0, parts |-> <<0, 0, 0, 0>>]

-----------------------------------------------------------------------------
(* Tax rates                                                               *)

RateOf(rows, h) == SumBy(LAMBDA r : IF r.head = h THEN r.rate ELSE 0, rows)
\* _effective_gst_rate of the header's components
EffectiveRate(rows) ==
    Max({RateOf(rows, "IGST"), RateOf(rows, "CGST") + RateOf(rows, "SGST")}) + RateOf(rows, "CESS")
\* _get_item_total_gst_rate: the item's own rate, else the header's
GstRate(l, rows) == IF l.gst > 0 THEN l.gst ELSE EffectiveRate(rows)

\* India Compliance: the rates of a line, by the heads of the template.
LineRates(l, template) ==
    LET interstate == RateOf(template, "IGST") > 0
    IN  [k \in 1..4 |->
            IF l.gst = 0 THEN RateOf(template, PartOrder[k])
            ELSE IF PartOrder[k] = "IGST" THEN (IF interstate THEN l.gst ELSE 0)
            ELSE IF PartOrder[k] = "CESS" \/ interstate \/ template = <<>> THEN 0
            ELSE l.gst \div 2]

\* _get_purchase_exempted_value_for_serial: the first source that has a value
ExemptedValue(tiers) ==
    LET found == {i \in DOMAIN tiers : tiers[i] > 0} IN IF found = {} THEN 0 ELSE tiers[Min(found)]

\* _apply_margin_scheme, of the lines with an exempted value: taxable value,
\* GST and exempted value of the header
MarginOf(cart, priced, template) ==
    LET ofMargin == {i \in DOMAIN cart : cart[i].tiers # <<>> /\ priced[i].price > 0}
        rate(i) == LET r == GstRate(cart[i], template) IN IF r = 0 THEN 18 ELSE r
        base(i) == Max({priced[i].price - ExemptedValue(cart[i].tiers), 0}) * cart[i].qty
        taxable(i) == Rounded(base(i) * 100, 100 + rate(i))
        charged == SumBy(LAMBDA r : r.rate, template)
        gst(i) == Rounded(taxable(i) * charged, 100)
        exempt(i) == Max({0, priced[i].amount - taxable(i) - gst(i)})
        over(term(_)) == SumFunction([i \in ofMargin |-> term(i)])
    IN  <<over(taxable), over(gst), over(exempt)>>

-----------------------------------------------------------------------------
(* The pipeline                                                            *)

\* _spread_header_discount, and the insert with ERPNext's validation
SpreadAndInsert ==
    /\ due.stage = "asked"
    /\ lines' = [i \in DOMAIN due.cart |->
                    Inserted(SpreadPrice(due.cart, due.discount, i), due.cart[i].qty)]
    /\ head' = [head EXCEPT !.margin = MarginOf(due.cart, lines', due.template)]
    /\ due' = [due EXCEPT !.stage = "inserted"]
    /\ UNCHANGED taxes

\* _force_insert_tax_rows: each row on its own, a failure is logged
ForceInsertTaxRows(written) ==
    /\ due.stage = "inserted"
    /\ taxes' = [n \in written |->
                    [head |-> due.template[n].head, rate |-> due.template[n].rate, amount |-> 0]]
    /\ due' = [due EXCEPT !.stage = "taxed"]
    /\ UNCHANGED <<lines, head>>

\* The values of one line of _write_item_calculations.
Calculated(l, stored, rows, template) ==
    LET exempt  == Min({ExemptedValue(l.tiers), stored.price})
        base    == stored.price - exempt
        unit    == Rounded(base * 1000000, 100 + GstRate(l, rows))
        taxable == Rounded(unit * l.qty, 10000)
        tax     == base * l.qty - taxable
    IN  [stored EXCEPT !.exempt = exempt * l.qty, !.taxable = taxable,
                       !.net = exempt * l.qty + taxable, !.tax = tax,
                       !.parts = Split(tax, LineRates(l, template))]

\* The sums over all lines, whether their update was stored or not.
CalculatedTotals(values) ==
    [grand |-> SumBy(LAMBDA v : v.amount, values), net |-> SumBy(LAMBDA v : v.net, values)]

WriteItemCalculations(lost) ==
    /\ due.stage = "taxed"
    /\ LET values == [i \in DOMAIN lines |-> Calculated(due.cart[i], lines[i], taxes, due.template)]
           sums   == CalculatedTotals(values)
       IN  /\ lines' = [i \in DOMAIN lines |-> IF i \in lost THEN lines[i] ELSE values[i]]
           /\ head' = [head EXCEPT !.grand = sums.grand, !.net = sums.net,
                                   !.tax = sums.grand - sums.net]
    /\ due' = [due EXCEPT !.stage = "valued"]
    /\ UNCHANGED taxes

\* The till's payments against round(grand) less what was paid in advance.
RoundPayment(kind, prepaid, off) ==
    LET expected == 100 * Rounded(head.grand, 100) - prepaid
        tendered == Max({0, expected + off})
        gap      == expected - tendered
        asGiven  == kind = "credit" \/ (kind = "supplier" /\ gap > 100)
        mismatch == ~asGiven /\ Magnitude(gap) > 100
    IN  /\ due.stage = "valued"
        /\ due' = [due EXCEPT !.stage = IF mismatch THEN "failed" ELSE "settled",
                              !.kind = kind, !.prepaid = prepaid]
        /\ head' = [head EXCEPT !.paid = IF asGiven THEN tendered ELSE expected,
                                !.rows = IF asGiven \/ tendered = 0 THEN tendered ELSE expected]
        /\ UNCHANGED <<lines, taxes>>

\* _sync_header_totals_pre_submit, submit: net of tax on both sides
SubmitTransitional ==
    /\ due.stage = "settled"
    /\ head' = [head EXCEPT !.owed = head.net - head.paid]
    /\ due' = [due EXCEPT !.stage = "submitted"]
    /\ UNCHANGED <<lines, taxes>>

\* The weights of _write_tax_rows_and_header: GST rows, else any with a rate.
SplitWeights(rows) ==
    LET gst == {i \in DOMAIN rows : rows[i].head \in GstHeads /\ rows[i].rate > 0}
    IN  [i \in DOMAIN rows |-> IF gst = {} \/ i \in gst THEN rows[i].rate ELSE 0]

\* _update_gst_breakup, all lines under one HSN code
GstBreakup(stored, rows) ==
    LET taxable == SumBy(LAMBDA v : v.taxable, stored)
        outside == RateOf(rows, "IGST") > 0
    IN  IF outside THEN Rounded(taxable * RateOf(rows, "IGST"), 100)
        ELSE Rounded(taxable * RateOf(rows, "CGST"), 100) + Rounded(taxable * RateOf(rows, "SGST"), 100)

OwedIgnoringAdvance(grand) == grand - head.paid
\* What the bill leaves open.
Owed(grand) == grand - head.paid - due.prepaid

WriteTaxRowsAndHeader ==
    /\ due.stage = "submitted"
    /\ LET amounts == Split(head.tax, SplitWeights(taxes))
       IN  taxes' = [i \in DOMAIN taxes |-> [taxes[i] EXCEPT !.amount = amounts[i]]]
    /\ head' = [head EXCEPT !.owed = Owed(head.grand),
                            !.rounding = 100 * Rounded(head.grand, 100) - head.grand,
                            !.breakup = GstBreakup(lines, taxes)]
    /\ due' = [due EXCEPT !.stage = "written"]
    /\ UNCHANGED lines

BalancesAnyway == TRUE
\* _rewrite_gl_entries: ERPNext debits the bill and credits lines and taxes
Balances ==
    LET credit == SumBy(LAMBDA v : v.net, lines) + SumBy(LAMBDA r : r.amount, taxes)
    IN  head.net = 0 \/ Magnitude(head.grand - credit) <= 2

\* assert_pos_ledger_integrity: a paid bill has both receivable legs
PaymentIsBooked == head.paid = 0 \/ (head.grand > 0 /\ head.rows # 0)

RewriteGlEntries ==
    /\ due.stage = "written"
    /\ due' = [due EXCEPT !.stage = IF Balances /\ PaymentIsBooked THEN "done" ELSE "failed"]
    /\ UNCHANGED <<lines, taxes, head>>

TotalsNext ==
    \/ \E n \in 1..MaxLines : \E cart \in [1..n -> CartLines],
          discount \in BillDiscounts, template \in Templates : FillCart(cart, discount, template)
    \/ SpreadAndInsert
    \/ \E written \in SUBSET DOMAIN due.template : ForceInsertTaxRows(written)
    \/ \E lost \in SUBSET DOMAIN lines : WriteItemCalculations(lost)
    \/ \E kind \in SaleKinds, prepaid \in {0, 100}, off \in Tenders : RoundPayment(kind, prepaid, off)
    \/ SubmitTransitional \/ WriteTaxRowsAndHeader \/ RewriteGlEntries

TotalsSpec == TotalsInit /\ [][TotalsNext]_totalVars

-----------------------------------------------------------------------------
(* Properties                                                              *)

BillLines == [price : Nat, amount : Nat, exempt : Int, taxable : Int, net : Int, tax : Int,
              parts : [1..4 -> Int]]

Stages == {"none", "asked", "inserted", "taxed", "valued", "settled", "submitted", "written",
           "done", "failed"}

\* The bill's stages, its amounts and the width of its tables.
TotalsTypeOK ==
    /\ due \in [stage : Stages, cart : {due.cart}, discount : Nat, template : {due.template},
               kind : SaleKinds, prepaid : Nat]
    /\ lines \in [DOMAIN lines -> BillLines] /\ DOMAIN lines \in {{}, DOMAIN due.cart}
    /\ DOMAIN taxes \subseteq DOMAIN due.template
    /\ \A n \in DOMAIN taxes : taxes[n] \in [head : {taxes[n].head}, rate : Nat, amount : Int]
    /\ head \in [grand : Int, net : Int, tax : Int, paid : Int, rows : Int, owed : Int,
                rounding : Int, margin : {head.margin}, breakup : {head.breakup}]

\* A bill that stands balances to the 2 paise its ledger check allows: its
\* lines and its tax rows are what the header says, although the write of a
\* row or a line may have failed unnoticed.  Only the loss of every tax row with
\* a rate and of the lines' values together passes the check (_rewrite_gl_entries).
BillBalances ==
    due.stage = "done" /\ head.net # 0 =>
        LET inLines == SumBy(LAMBDA v : v.net, lines)
            inRows  == SumBy(LAMBDA r : r.amount, taxes)
        IN  /\ head.net + head.tax = head.grand
            /\ Magnitude(head.grand - inLines - inRows) <= 2
            /\ SumBy(LAMBDA r : r.rate, taxes) > 0 \/ inLines = head.net =>
                  Magnitude(head.tax - inRows) <= 2 /\ Magnitude(head.net - inLines) <= 4

\* The parts into which a line's tax is split are its tax, whatever was
\* rounded; so are the tax rows, where there are any with a rate.
NoPaisaIsLost ==
    /\ \A i \in DOMAIN lines :
          SumBy(LAMBDA p : p, lines[i].parts) \in {lines[i].tax, 0}
    /\ due.stage \in {"written", "done"} /\ SumBy(LAMBDA r : r.rate, taxes) > 0 =>
          SumBy(LAMBDA r : r.amount, taxes) = head.tax

\* A header discount reaches the total, within half a paisa for each line and
\* for each of its units.
DiscountReachesTotal ==
    due.stage \notin {"none", "asked"} =>
        LET total  == SumBy(LAMBDA v : v.amount, lines)
            halves == SumBy(LAMBDA l : l.qty + 1, due.cart)
        IN  2 * Magnitude(CartValue(due.cart) - due.discount - total) <= halves

\* A bill paid at the till leaves nothing open but the rounding to a rupee.
CashBillIsSettled ==
    due.stage \in {"written", "done"} /\ due.kind = "cash" =>
        head.owed = -head.rounding /\ Magnitude(head.owed) <= 50

\* What a bill says of its money agrees: lines, tax, discount and payment.
BillAddsUp ==
    /\ BillBalances
    /\ NoPaisaIsLost
    /\ DiscountReachesTotal
    /\ CashBillIsSettled

-----------------------------------------------------------------------------
(* What the code's comments say and a run refutes                          *)

\* "the same split the tax rows get, so the lines add up to them exactly"
\* (_write_item_calculations, pos_api.py:2268)
LinesAddUpToTaxRows ==
    due.stage = "done" =>
        \A i \in DOMAIN taxes : taxes[i].amount =
            SumBy(LAMBDA v : SumBy(LAMBDA k : IF PartOrder[k] = taxes[i].head THEN v.parts[k] ELSE 0,
                                   <<1, 2, 3, 4>>), lines)

\* _update_gst_breakup: "using configured transaction tax rates", whatever
\* the item's own rate is
BreakupIsTheTax == due.stage = "done" => Magnitude(head.breakup - head.tax) <= Len(lines)

=============================================================================
