--------------------------- MODULE MCBackOffice ----------------------------
\* The desks behind the counter: independent components, one of which runs,
\* each on a small instance.
EXTENDS CashDrawer, TillRaces, ManagerApprovals, PreBookings, Incentives,
        AttachBonus, GoodsReceipt, StockTransfer, BillTotals, PlanDesk,
        OrderTrail, ManagerPin, CustomerBook, TLC

CONSTANTS p1, p2   \* interchangeable

\* Constants of Incentives.
LineUnitsDef == <<2, 1>>

\* Constants of BillTotals.
CartLinesDef ==
    LET L(p, q, t, g) == [price |-> p, qty |-> q, tiers |-> t, gst |-> g]
    IN  {L(999, 1, <<>>, 0), L(333, 2, <<>>, 0), L(800, 1, <<0, 500>>, 0),
         L(55, 1, <<>>, 12), L(0, 1, <<>>, 0)}
TemplatesDef == {<<[head |-> "CGST", rate |-> 9], [head |-> "SGST", rate |-> 9]>>,
                 <<[head |-> "IGST", rate |-> 18]>>}
TendersDef == {-120, -40}

\* Constants of PlanDesk.
HandsetItemDef ==
    [h \in {"u1", "u2"} |->
        [item |-> "phone", price |-> IF h = "u1" THEN 200 ELSE 100, category |-> "mobile",
         group |-> "g", brand |-> "b", base |-> 1]]
PlansDef ==
    LET ext == [name |-> "ext", type |-> "Extended", place |-> "InStore",
                price |-> 5, percent |-> 0, outside |-> 0, least |-> 150, most |-> 0,
                window |-> 1, days |-> 1, external |-> FALSE, stacks |-> TRUE,
                sellable |-> TRUE, from |-> 2, upto |-> 3, categories |-> {},
                groups |-> {}, brand |-> "any"]
    IN  {ext, [ext EXCEPT !.name = "prot", !.type = "Protection", !.place = "Both",
               !.percent = 10, !.outside = 7, !.least = 0, !.external = TRUE,
               !.stacks = FALSE, !.window = 0, !.upto = 0, !.categories = {"mobile"}]}

\* Constants of ManagerPin.
PinOwnerDef == [r \in {"r1", "r2", "r3"} |-> IF r = "r1" THEN "m" ELSE "n"]
RowSettingsDef ==
    LET R(place, code, readable, may) ==
            [place |-> place, code |-> code, readable |-> readable, may |-> may]
    IN  {R("away", 1, TRUE, TRUE), R("here", 1, TRUE, TRUE), R("here", 2, TRUE, FALSE),
         R("floating", 1, TRUE, TRUE), R("floating", 2, TRUE, TRUE), R("floating", 1, FALSE, TRUE)}

VARIABLE desk   \* the component that runs

Desks == {"cash", "till", "approvals", "prebook", "earnings", "bonus",
          "goods", "transfer", "totals", "plans", "trail", "pins", "book"}

Init ==
    /\ desk \in Desks
    /\ CashInit
    /\ TillInit
    /\ ApprovalsInit
    /\ PreInit
    /\ EarnInit
    /\ BonusInit
    /\ GrnInit
    /\ TransferInit
    /\ TotalsInit
    /\ PlanInit
    /\ TrailInit
    /\ PinInit
    /\ BookInit
    /\ desk # "transfer" => held = {}

At(name, others) == desk = name /\ UNCHANGED <<desk, others>>

Next ==
    \/ /\ At("cash", <<raceVars, approvalVars, preVars, earnVars,
                     bonusVars, grnVars, transferVars, totalVars,
                     planVars, trailVars, pinVars, bookVars>>)
       /\ CashNext
    \/ /\ At("till", <<cashVars, approvalVars, preVars, earnVars,
                     bonusVars, grnVars, transferVars, totalVars,
                     planVars, trailVars, pinVars, bookVars>>)
       /\ TillNext
    \/ /\ At("approvals", <<cashVars, raceVars, preVars, earnVars, bonusVars,
                          grnVars, transferVars, totalVars, planVars,
                          trailVars, pinVars, bookVars>>)
       /\ ApprovalsNext
    \/ /\ At("prebook", <<cashVars, raceVars, approvalVars, earnVars,
                        bonusVars, grnVars, transferVars, totalVars,
                        planVars, trailVars, pinVars, bookVars>>)
       /\ PreNext
    \/ /\ At("earnings", <<cashVars, raceVars, approvalVars, preVars,
                         bonusVars, grnVars, transferVars, totalVars,
                         planVars, trailVars, pinVars, bookVars>>)
       /\ EarnNext
    \/ /\ At("bonus", <<cashVars, raceVars, approvalVars, preVars, earnVars,
                      grnVars, transferVars, totalVars, planVars,
                      trailVars, pinVars, bookVars>>)
       /\ BonusNext
    \/ /\ At("goods", <<cashVars, raceVars, approvalVars, preVars, earnVars,
                      bonusVars, transferVars, totalVars, planVars,
                      trailVars, pinVars, bookVars>>)
       /\ GrnNext
    \/ /\ At("transfer", <<cashVars, raceVars, approvalVars, preVars, earnVars,
                         bonusVars, grnVars, totalVars, planVars, trailVars,
                         pinVars, bookVars>>)
       /\ TransferNext
    \/ /\ At("totals", <<cashVars, raceVars, approvalVars, preVars, earnVars,
                       bonusVars, grnVars, transferVars, planVars,
                       trailVars, pinVars, bookVars>>)
       /\ TotalsNext
    \/ /\ At("plans", <<cashVars, raceVars, approvalVars, preVars, earnVars,
                      bonusVars, grnVars, transferVars, totalVars,
                      trailVars, pinVars, bookVars>>)
       /\ PlanNext
    \/ /\ At("trail", <<cashVars, raceVars, approvalVars, preVars, earnVars,
                      bonusVars, grnVars, transferVars, totalVars,
                      planVars, pinVars, bookVars>>)
       /\ TrailNext
    \/ /\ At("pins", <<cashVars, raceVars, approvalVars, preVars, earnVars,
                     bonusVars, grnVars, transferVars, totalVars,
                     planVars, trailVars, bookVars>>)
       /\ PinNext
    \/ /\ At("book", <<cashVars, raceVars, approvalVars, preVars, earnVars,
                     bonusVars, grnVars, transferVars, totalVars,
                     planVars, trailVars, pinVars>>)
       /\ BookNext

Vars == <<desk, cashVars, raceVars, approvalVars, preVars, earnVars, bonusVars,
        grnVars, transferVars, totalVars, planVars, trailVars, pinVars,
        bookVars>>
Spec == Init /\ [][Next]_Vars

Interchangeable ==
    Permutations({p1, p2})
----------------------------------------------------------------------------
\* The variables of the component that runs keep their types.
BackOfficeTypeOK ==
    /\ desk = "cash" => CashTypeOK
    /\ desk = "till" => TillTypeOK
    /\ desk = "approvals" => ApprovalsTypeOK
    /\ desk = "prebook" => PreTypeOK
    /\ desk = "earnings" => EarnTypeOK
    /\ desk = "bonus" => BonusTypeOK
    /\ desk = "goods" => GrnTypeOK
    /\ desk = "transfer" => TransferTypeOK
    /\ desk = "totals" => TotalsTypeOK
    /\ desk = "plans" => PlanTypeOK
    /\ desk = "trail" => TrailTypeOK
    /\ desk = "pins" => PinTypeOK
    /\ desk = "book" => BookTypeOK

\* A line of a bill and a month's attach rate are rewarded once, overlapping
\* back-fills apart, and a line is reversed once by each credit note.
RewardedOnce ==
    /\ desk = "earnings" => EarnedOnce
    /\ desk = "bonus" => OneBonusAMonth

\* An approval was given by one who may, for this, and is used once.
ApprovalsAreSound ==
    /\ desk = "approvals" => ApprovalsAreEarned
    /\ desk = "pins" => PinsAreSound

\* What was promised in a pre-booking is held and billed once, and no other
\* bill draws on its advance.
PromisesAreKept ==
    /\ desk = "prebook" => PromisesHold
    /\ desk = "trail" => TrailHolds

============================================================================
