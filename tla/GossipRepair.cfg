SPECIFICATION FairSpec
CONSTANTS
    LanPrefixes = {"lan"}
    Peers <- Pair
    Links <- PairLinks
    Publishable <- PairRecords
    Setups <- FairSetups
PROPERTIES
    NoEcho
    Converges
CHECK_DEADLOCK FALSE
