\* Payments disabled: two clients on the upsert path and one visitor compete
\* for two connections; Postgres or the replica may crash once.
SPECIFICATION RedirectSpec
CONSTANTS
    Clients = {c1, c2}
    Visitors = {v1}
    Pods = {p1}
    Urls = {u1, u2}
    Codes = {k1, k2}
    Payments = {s1}
    NoPayment = NoPayment
    BadHeader = BadHeader
    NoCode = NoCode
    NoUrl = NoUrl
    PaymentEnabled = FALSE
    SettledVerdicts = {TRUE, FALSE}
    DeadlinesPass = FALSE
    PoolMax = 2
    PgErrors <- MCPgErrors
    Persistent = {}
    MaxFaults = 1
SYMMETRY Symmetry
INVARIANTS
    VisitsTypeOK
    RedirectsFollowTable
    KnownCodesAreFound
    CacheAgrees
    AnsweredIsStored
PROPERTIES
    ImplementsRegistry
