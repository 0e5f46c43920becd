\* A previous run may have left the signer failed, and the check of Redis may
\* time out for nothing.  One trouble: a fault without a pod or one that
\* outlasts its node, no generator, no Workflow, a blackout of Prometheus or an
\* abort.  The controller may be away for 280 s, so that the limit of the
\* Workflow is reached.
SPECIFICATION Spec
CHECK_DEADLOCK FALSE
CONSTANTS
    AppPods = {"a1"}
    Exposed = {}
    Leftovers = {"signer"}
    Slow = {"redis"}
    Troubles = {"noFault", "stuck", "noLoad", "noWorkflow", "blackout",
                "abort"}
    MaxTroubles = 1
    MaxLag = 28
    Scrape = 1
    MaxSweep = 1
    MaxScoring = 1
    MaxKubectl = 1
    Horizon = 120
INVARIANTS
    
    RecoveryIsReal
    ScoredWhenOver
PROPERTIES
    PassIsDelivered
