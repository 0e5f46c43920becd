\* One trouble: a restart of the app, a 500 or a fault without a pod; the
\* controller may be away for 10 s, and 30 s may pass between two scrapes.
SPECIFICATION Spec
CHECK_DEADLOCK FALSE
CONSTANTS
    AppPods = {"a1", "a2"}
    Exposed <- OnePod
    Leftovers = {}
    Slow = {}
    Troubles = {"restart", "500", "noFault"}
    MaxTroubles = 1
    MaxLag = 1
    Scrape = 3
    MaxSweep = 0
    MaxScoring = 0
    MaxKubectl = 0
    Horizon = 120
INVARIANTS
    TypeOK
    NoBlindSpot
    OutagesAreReal
