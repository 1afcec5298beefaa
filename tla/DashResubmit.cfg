CONSTANTS
    Jobs = {j1, j2}
    NoJob = NoJob
    Sizes <- MCSizes
    Ticks = {t1}
    Mount = t1
    Links = {"prompt"}
SPECIFICATION Spec
PROPERTIES
    NewestJobIsShown
CHECK_DEADLOCK FALSE
