CONSTANTS
    Jobs = {j1}
    NoJob = NoJob
    Sizes <- MCSizes
    Ticks = {t1, t2}
    Mount = t1
    Links = {"prompt", "slow"}
SPECIFICATION FairSpec
INVARIANTS
    TypeOK
    FinalScreenIsWhole
PROPERTIES
    ScreenNeverGoesBack
    EventuallySettles
CHECK_DEADLOCK FALSE
