SPECIFICATION TrailSpec
CONSTANTS
    Kinds <- MCKinds
    RotateBytes <- MCRotateBytes
    RotateKeep <- MCRotateKeep
    PageLimit = 2
    RecentLines = 2
    Dates <- MCDates
    MaxRecords = 5
INVARIANTS TrailTypeOK TrailContiguous RetentionFloor ViewIsNewest
