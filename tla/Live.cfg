\* A persistent client and two visitors compete for the one connection of a replica.
SPECIFICATION RedirectFairSpec
CONSTANTS
    Clients = {c1}
    Visitors = {v1, v2}
    Pods = {p1}
    Urls = {u1}
    Codes = {k1}
    Payments = {s1}
    NoPayment = NoPayment
    BadHeader = BadHeader
    NoCode = NoCode
    NoUrl = NoUrl
    PaymentEnabled = TRUE
    SettledVerdicts = {TRUE, FALSE}
    DeadlinesPass = FALSE
    PoolMax = 1
    PgErrors = {"TimeoutError"}
    Persistent = {c1}
    MaxFaults = 1
PROPERTIES
    EveryVisitEnds
    EveryRequestEnds
    PendingIsResolved
