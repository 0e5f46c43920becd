\* One fault finds no pod.
SPECIFICATION Spec
CHECK_DEADLOCK FALSE
CONSTANTS
    AppPods = {"a1"}
    Exposed = {}
    Leftovers = {}
    Slow = {}
    Troubles = {"noFault"}
    MaxTroubles = 1
    MaxLag = 0
    Scrape = 1
    MaxSweep = 0
    MaxScoring = 0
    MaxKubectl = 0
    Horizon = 120
INVARIANTS
    AllKilled
