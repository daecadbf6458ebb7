\* The constants of each component in turn; see README.
CONSTANTS
    p1 = p1
    p2 = p2
    \* CashDrawer
    NShifts = 2
    Bills = {b1}
    Slips = {p1, p2}
    DefaultFloat = 1
    BillCash = 1
    SlipCash = 1
    PettyLimit = 1
    ApprovalLimit = 0
    NeedSettlement = FALSE
    MaxReworks = 1
    MaxPapers = 3
    \* TillRaces
    Tills = {p1, p2}
    Requests = {r1, r2, r3, r4}
    Nobody = Nobody
    \* ManagerApprovals
    Grants = {g1}
    FreeSales = {f1}
    Deeds = {p1, p2}
    Carts = {u1, u2}
    Managers = {m1, m2}
    NoCart = NoCart
    \* PreBookings
    PreOrders = {p1, p2}
    Imeis = {u1, u2}
    PreSales = {s1}
    OrderQty = 1
    Advances = {"draft"}
    \* Incentives
    EarnSales = {f1}
    Backfills = {p1, p2}
    EarnReturns = {r1, r2}
    SaleLines = 2
    LineUnits <- LineUnitsDef
    \* AttachBonus
    LastMonth = 3
    MaxOffers = 3
    \* GoodsReceipt
    Receipts = {r1, r2, r3}
    ImeiUnits = {u1, u2}
    Ordered = 2
    \* StockTransfer
    Articles = {p1, p2}
    Devices = {u1, u2}
    MaxLineQty = 2
    MaxTransferLines = 2
    \* BillTotals
    CartLines <- CartLinesDef
    MaxLines = 2
    BillDiscounts = {0, 101}
    Templates <- TemplatesDef
    Tenders <- TendersDef
    \* PlanDesk
    Handsets = {"u1", "u2"}
    HandsetItem <- HandsetItemDef
    OwnImeis = {"x1"}
    Plans <- PlansDef
    GenericItem = "device"
    LastPlanDay = 3
    MaxCovers = 1
    \* OrderTrail
    Proformas = {"q1"}
    Promises = {"o1"}
    Registers = {"t1"}
    MaxTrailBills = 2
    Buyers = {p1, p2}
    Nothing = Nothing
    \* ManagerPin
    PinRows = {"r1", "r2", "r3"}
    PinOwner <- PinOwnerDef
    RowSettings <- RowSettingsDef
    PinUsers = {"m"}
    Codes = {1, 2}
    AttemptLimit = 2
    CandidateLimit = 2
    \* CustomerBook
    Clients = {"c1", "c2"}
    Linked = {"c1"}
    OfThisStore = {"c1"}
    BookRequests = {p1, p2}
    Numbers = {"n1", "n2"}
    Emails = {"e1"}
    Blank = Blank
    MaxAsked = 3
SPECIFICATION Spec
SYMMETRY Interchangeable
CHECK_DEADLOCK FALSE
INVARIANTS
    BackOfficeTypeOK
    CashIsAccounted
    TillsStayCoherent
    ReceivedAsOrdered
    TransferIsCounted
    BillAddsUp
    PlansCover
    CustomersAreKept
    RewardedOnce
    ApprovalsAreSound
    PromisesAreKept
