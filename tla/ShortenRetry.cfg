\* One client, one replica; /verify checks that the nonce is unused.
SPECIFICATION Spec
CONSTANTS
    Clients = {c1}
    Pods = {p1}
    Urls = {u1}
    Codes = {k1}
    Payments = {s1}
    NoPayment = NoPayment
    BadHeader = BadHeader
    NoCode = NoCode
    NoUrl = NoUrl
    PaymentEnabled = TRUE
    SettledVerdicts = {FALSE}
    DeadlinesPass = FALSE
    PoolMax = 1
    PgErrors <- MCPgErrors
    Persistent = {c1}
    MaxFaults = 1
PROPERTIES
    SettledIsNotRefused
