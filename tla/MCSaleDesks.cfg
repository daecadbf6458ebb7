\* The constants of each component in turn; see README.
CONSTANTS
    d1 = d1
    d2 = d2
    d3 = d3
    \* SaleBenefits
    BenefitSales = {d1, d2, d3}
    OneTimePapers = {x1}
    CouponMax = 1
    VoucherValue = 3
    AdvancePaid = 1
    CartTotal = 2
    \* GiftDesk
    GiftSales = {f1}
    GiftRequests = {d1, d2, d3}
    \* ReturnsDesk
    ReturnDevices = {u1, u2}
    Notes = {d1, d2, d3}
    \* BuybackDesk
    BuyRequests = {d1, d2, d3}
    DevicePrice = 2
    MaxVersion = 6
    \* RepairDesk
    Jobs = {p1, p2}
    BillRequests = {u1, u2}
    MaxSpares = 1
    \* FifoDesk
    Units = {1, 2, 3}
    LastDay = 3
    Window = 1
    \* SaleGates
    GateBills = {d1, d2, d3}
    GateLines <- GateLinesDef
    PriceRows <- PriceRowsDef
    ContractRate = 2
    FreeHand = 4
    OwnCut = 0
    MaxCut = 1
    BankOffer <- BankOfferDef
    CashLimit = 2
    BudgetMax = 2
    ReturnDays = 1
    LastGateDay = 3
    \* ExchangeDesk
    Exchanges = {"e1", "e2"}
    RowPrice <- RowPriceDef
    SparesSold = 2
    Estimates = {2, 6, 9}
    Drifts <- DriftsDef
SPECIFICATION Spec
SYMMETRY Interchangeable
CHECK_DEADLOCK FALSE
INVARIANTS
    SaleDesksTypeOK
    BenefitsServeOnce
    GiftIsBilledOnce
    CreditAndPayoutEachOnce
    RepairsAreBilled
    SkipsAreExplained
    GatesHold
    ReturnsAreSquare
PROPERTIES
    FinalStatesStand
