CONSTANTS
    north = north
    south = south
    counter1 = counter1
    counter2 = counter2
    kiosk = kiosk
    asha = asha
    s1 = s1
    s2 = s2
    s3 = s3
    Users <- OneUser
    SettlementRequired = FALSE
    BlockOnEdcMismatch = TRUE
    MaxDay = 3
    Sessions <- TwoSessions
    Stores <- TwoStores
    Profiles <- TwoStoreProfiles
    StoreOf <- TwoStoreOf
SPECIFICATION FairSpec
PROPERTIES
    OpeningSparesOtherTills
    StaleTillsAreSwept
