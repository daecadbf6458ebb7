CONSTANTS
    north = north
    south = south
    counter1 = counter1
    counter2 = counter2
    kiosk = kiosk
    asha = asha
    s1 = s1
    s2 = s2
    s3 = s3
    Users <- OneUser
    SettlementRequired = TRUE
    BlockOnEdcMismatch = TRUE
    MaxDay = 3
    Sessions <- ThreeSessions
    Stores <- OneStore
    Profiles <- OneStoreProfiles
    StoreOf <- OneStoreOf
SPECIFICATION Spec
INVARIANTS
    TypeOK
    OneSessionPerStoreDay
    RecordsAgree
    DatesAreHonest
PROPERTIES
    RewindsOnlyToReopened
    AdvanceLeavesNothingRunning
    ImplementsTradingDays
