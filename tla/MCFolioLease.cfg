SPECIFICATION FairSpec
CONSTANTS
    Hosts = {h1, h2}
    BlockSizes = {1, 2}
    MaxLeases = 2
INVARIANTS
    TypeOK
    NoFolioIssuedTwice
    FoliosIncrease
PROPERTIES
    LeasesOnlyAdvance
    ZombieIsFenced
CHECK_DEADLOCK FALSE
