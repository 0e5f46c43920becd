\* Two requests at a time on two replicas with a pool of one connection each; deadlines
\* may pass, and Postgres or a replica may crash once.
SPECIFICATION Spec
CONSTANTS
    Clients = {c1, c2}
    Pods = {p1, p2}
    Urls = {u1, u2}
    Codes = {k1, k2}
    Payments = {s1, s2}
    NoPayment = NoPayment
    BadHeader = BadHeader
    NoCode = NoCode
    NoUrl = NoUrl
    PaymentEnabled = TRUE
    SettledVerdicts = {TRUE, FALSE}
    DeadlinesPass = TRUE
    PoolMax = 1
    PgErrors <- MCPgErrors
    Persistent = {}
    MaxFaults = 1
SYMMETRY Symmetry
INVARIANTS
    TypeOK
    RowsArePaid
    RowsAreUnique
    AnsweredIsStored
    OneCreator
    CacheAgrees
PROPERTIES
    ImplementsRegistry
    SettledIsKept
