\* Two payments race for one URL.
SPECIFICATION Spec
CONSTANTS
    Clients = {c1, c2}
    Pods = {p1, p2}
    Urls = {u1, u2}
    Codes = {k1, k2}
    Payments = {s1, s2}
    NoPayment = NoPayment
    BadHeader = BadHeader
    NoCode = NoCode
    NoUrl = NoUrl
    PaymentEnabled = TRUE
    SettledVerdicts = {TRUE, FALSE}
    DeadlinesPass = FALSE
    PoolMax = 1
    PgErrors <- MCPgErrors
    Persistent = {}
    MaxFaults = 0
INVARIANTS
    EveryPaymentRecorded
