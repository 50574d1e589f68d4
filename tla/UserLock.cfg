SPECIFICATION FairSpec
CONSTANTS
    Threads = {t1, t2, t3}
    Phones = {p1, p2}
    MaxCalls = 2
    MaxKills = 1
INVARIANTS
    NoLostWakeup
    ResponderEntryIsHolders
PROPERTIES
    ImplementsMutex
    EveryWaiterEnters
\* every call has been made, or the numbers left wait for a killed holder
CHECK_DEADLOCK FALSE
