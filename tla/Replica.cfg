\* A call of /ready and the monitor on a pool of one connection; three outages,
\* restarts or late answers of Redis.
SPECIFICATION FairSpec
CONSTANTS
    Probes = {r1}
    NoTask = NoTask
    PoolMax = 1
    FailureThreshold = 2
    MaxFaults = 3
INVARIANTS
    TypeOK
    BuiltOnce
PROPERTIES
    ReadinessFollowsPostgres
    GaugesFollow
