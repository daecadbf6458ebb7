---------------------------- MODULE MCSaleDesks ----------------------------
\* The desks that sell, return and repair: independent components, one of which runs,
\* each on a small instance.
EXTENDS SaleBenefits, GiftDesk, ReturnsDesk, BuybackDesk, RepairDesk,
        FifoDesk, SaleGates, ExchangeDesk, TLC

CONSTANTS d1, d2, d3   \* interchangeable

\* Constants of SaleGates.
GateLinesDef ==
    LET C(amount, asPercent, granted) ==
            [amount |-> amount, asPercent |-> asPercent, granted |-> granted]
        L(kind, rate, amount, leave) ==
            [kind |-> kind, rate |-> rate, amount |-> amount, leave |-> leave,
             cut |-> C(0, FALSE, FALSE), offer |-> FALSE]
    IN  {L("goods", 4, 3, "none"), L("goods", 2, 4, "exception"), L("goods", 0, 0, "none"),
         L("contract", 3, 3, "none"), L("bundle", 3, 3, "none"), L("gift", 0, 0, "backed"),
         [L("goods", 3, 0, "manager") EXCEPT !.cut = C(1, TRUE, TRUE)],
         [L("goods", 4, 0, "none") EXCEPT !.cut = C(1, FALSE, TRUE), !.offer = TRUE]}
PriceRowsDef == {[channel |-> "POS", selling |-> 4, mop |-> 3], [channel |-> "App", selling |-> 2, mop |-> 0]}
BankOfferDef == [value |-> 1, least |-> 2, lastDay |-> 1, mode |-> "card", stackable |-> TRUE]

\* Constants of ExchangeDesk.
RowPriceDef == [device |-> 6, plan |-> 3, spare |-> 2]
DriftsDef == {-1, 0, 3}

VARIABLE desk   \* the component that runs

Desks == {"benefits", "gifts", "returns", "buyback", "repair", "fifo",
          "gates", "exchange"}

Init ==
    /\ desk \in Desks
    /\ BenefitsInit
    /\ GiftInit
    /\ ReturnInit
    /\ BuyInit
    /\ RepairInit
    /\ FifoInit
    /\ GateInit
    /\ ExchangeInit
    /\ desk # "exchange" => planLive

At(name, others) == desk = name /\ UNCHANGED <<desk, others>>

Next ==
    \/ /\ At("benefits", <<giftVars, returnVars, buyVars, repairVars, fifoVars,
                         gateVars, exchangeVars>>)
       /\ BenefitsNext
    \/ /\ At("gifts", <<benefitVars, returnVars, buyVars, repairVars,
                      fifoVars, gateVars, exchangeVars>>)
       /\ GiftNext
    \/ /\ At("returns", <<benefitVars, giftVars, buyVars, repairVars,
                        fifoVars, gateVars, exchangeVars>>)
       /\ ReturnNext
    \/ /\ At("buyback", <<benefitVars, giftVars, returnVars, repairVars,
                        fifoVars, gateVars, exchangeVars>>)
       /\ BuyNext
    \/ /\ At("repair", <<benefitVars, giftVars, returnVars, buyVars,
                       fifoVars, gateVars, exchangeVars>>)
       /\ RepairNext
    \/ /\ At("fifo", <<benefitVars, giftVars, returnVars, buyVars,
                     repairVars, gateVars, exchangeVars>>)
       /\ FifoNext
    \/ /\ At("gates", <<benefitVars, giftVars, returnVars, buyVars,
                      repairVars, fifoVars, exchangeVars>>)
       /\ GateNext
    \/ /\ At("exchange", <<benefitVars, giftVars, returnVars, buyVars,
                         repairVars, fifoVars, gateVars>>)
       /\ ExchangeNext

Vars == <<desk, benefitVars, giftVars, returnVars, buyVars, repairVars, fifoVars,
        gateVars, exchangeVars>>
Spec == Init /\ [][Next]_Vars

Interchangeable ==
    Permutations({d1, d2, d3})
----------------------------------------------------------------------------
\* The variables of the component that runs keep their types.
SaleDesksTypeOK ==
    /\ desk = "benefits" => BenefitsTypeOK
    /\ desk = "gifts" => GiftTypeOK
    /\ desk = "returns" => ReturnTypeOK
    /\ desk = "buyback" => BuyTypeOK
    /\ desk = "repair" => RepairTypeOK
    /\ desk = "fifo" => FifoTypeOK
    /\ desk = "gates" => GateTypeOK
    /\ desk = "exchange" => ExchangeTypeOK

\* What comes back comes once and for one credit; an exchange adds up.
ReturnsAreSquare ==
    /\ desk = "returns" => ReturnsAddUp
    /\ desk = "exchange" => ExchangesSettle

\* What a gift's expiry and an order's payment settled is not undone.
FinalStatesStand ==
    /\ ExpiredStaysUnbilled
    /\ EvidenceIsFinal

============================================================================
