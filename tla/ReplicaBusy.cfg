\* No fault; paid writes may hold the whole pool.
SPECIFICATION Spec
CONSTANTS
    Probes = {r1, r2}
    NoTask = NoTask
    PoolMax = 1
    FailureThreshold = 2
    MaxFaults = 0
PROPERTIES
    PulledOnlyByFaults
