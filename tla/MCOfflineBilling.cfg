\* Two sales, one of which may be refused, two workers, three presses and troubles.
CONSTANTS
    Sales = {s1, s2}
    NoSale = NoSale
    Refusable = {s2}
    Workers = {w1, w2}
    MaxPresses = 3
    MaxTroubles = 3
SPECIFICATION Spec
SYMMETRY Interchangeable
CHECK_DEADLOCK FALSE
INVARIANTS
    TypeOK
    SaleIsKept
    ExtraBillsWereOvertaken
PROPERTIES
    ImplementsDurableQueue
