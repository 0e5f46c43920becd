------------------------------- MODULE Shorten -------------------------------
(***************************************************************************)
(* POST /shorten (app/main.py) with settle_payment (app/payment.py), served *)
(* concurrently by the replicas of the app over one Postgres table and one *)
(* Redis cache.  A handler is a coroutine: it can be interleaved with the  *)
(* others wherever it awaits, so it takes one action per await.            *)
(*                                                                         *)
(* One client stands for one open connection; its record holds the local   *)
(* variables of the handler while pc # "idle", and afterwards what the     *)
(* client was answered.                                                    *)
(***************************************************************************)
EXTENDS Facilitator, FiniteSets, Naturals

CONSTANTS
    Clients, Pods, Urls, Codes,
    NoPayment,       \* no PAYMENT-SIGNATURE header; a NULL settlement_tx_hash
    BadHeader,       \* a PAYMENT-SIGNATURE header that does not decode
    NoCode, NoUrl,
    PaymentEnabled,  \* PAYMENT_ENABLED
    PoolMax,         \* max_size of the asyncpg pool of a replica
    PgErrors,        \* exceptions a statement may raise while Postgres is away
    Persistent,      \* clients fair to the requests nothing was decided about
    MaxFaults        \* bound on the crashes of Postgres and of replicas

ASSUME ShortenAssumption ==
    /\ PaymentEnabled \in BOOLEAN
    /\ NoPayment \notin Payments
    /\ BadHeader \notin Payments \cup {NoPayment}
    /\ NoCode \notin Codes
    /\ NoUrl \notin Urls
    /\ PoolMax \in Nat \ {0}
    /\ MaxFaults \in Nat
    /\ Persistent \subseteq Clients

VARIABLES
    req,      \* handler state and last answer of each client
    rows,     \* the table urls: [code, url, tx]
    cache,    \* Redis: url:<code> -> url
    pgUp,     \* Postgres accepts connections
    pooled,   \* replicas whose db_pool is published
    faults    \* crashes so far

vars == <<facilitatorVars, req, rows, cache, pgUp, pooled, faults>>
storeVars == <<rows, cache>>
worldVars == <<pgUp, pooled, faults>>

Row == [code : Codes, url : Urls, tx : Payments \cup {NoPayment}]

\* Points of the handler between two awaits at which it holds a connection.
Holding == {"select", "verify", "settle", "insert", "reselect", "setex"}

\* Answers that decide nothing: the client may send the same request again.
Undecided == {"500", "503", "lost"}

Statuses == {"none", "200", "201", "402", "409"} \cup Undecided

Points == Holding \cup {"idle", "acquire"}

Request ==
    [pc     : Points,
     pod    : Pods,
     url    : Urls,
     sig    : Payments \cup {NoPayment, BadHeader},
     tx     : Payments \cup {NoPayment},  \* settlement_tx_hash
     code   : Codes \cup {NoCode},        \* the code of the row / the answer
     alive  : BOOLEAN,                    \* the acquired connection is usable
     status : Statuses]

TypeOK ==
    /\ FacilitatorTypeOK
    /\ req \in [Clients -> Request]
    /\ rows \subseteq Row
    /\ cache \in [Codes -> Urls \cup {NoUrl}]
    /\ pgUp \in BOOLEAN
    /\ pooled \subseteq Pods
    /\ faults \in 0 .. MaxFaults

Init ==
    /\ FacilitatorInit
    /\ req \in [Clients -> [pc : {"idle"}, pod : Pods, url : Urls,
                            sig : {NoPayment}, tx : {NoPayment},
                            code : {NoCode}, alive : {TRUE},
                            status : {"none"}]]
    /\ rows = {}
    /\ cache = [k \in Codes |-> NoUrl]
    /\ pgUp = TRUE
    /\ pooled = {}
    /\ faults = 0

-----------------------------------------------------------------------------
(* The table.  SCHEMA_SQL: code is the primary key, url and               *)
(* settlement_tx_hash are UNIQUE (NULLs never collide).                    *)

UrlTaken(u) == \E r \in rows : r.url = u

\* Mutated Violates: settlement_tx_hash without UNIQUE.
ViolatesCodeOnly(k, t) == \E r \in rows : r.code = k

Violates(k, t) ==
    \E r \in rows : r.code = k \/ (t # NoPayment /\ r.tx = t)

AddRow(k, u, t) == rows' = rows \cup {[code |-> k, url |-> u, tx |-> t]}

-----------------------------------------------------------------------------
(* Steps of a handler.                                                     *)

At(c, pc) == req[c].pc = pc

Goto(c, pc) == req' = [req EXCEPT ![c].pc = pc]

\* The URL has a row with code k: on to SETEX and 201.
Created(c, k) ==
    req' = [req EXCEPT ![c] = [@ EXCEPT !.pc = "setex", !.code = k]]

\* Answer the client and leave the `async with`, releasing the connection.
Answer(c, status, code) ==
    req' = [req EXCEPT ![c] =
               [@ EXCEPT !.pc = "idle", !.status = status, !.code = code,
                         !.alive = TRUE]]

Connected(c) == pgUp /\ req[c].alive

InUse(p) == Cardinality({c \in Clients : req[c].pod = p
                                         /\ req[c].pc \in Holding})

\* A request for u with header s reaches replica p.
Arrive(c, p, u, s) ==
    /\ At(c, "idle")
    /\ req' = [req EXCEPT ![c] =
                  [pc     |-> IF p \in pooled THEN "acquire" ELSE "idle",
                   pod    |-> p,
                   url    |-> u,
                   sig    |-> s,
                   tx     |-> NoPayment,
                   code   |-> NoCode,
                   alive  |-> TRUE,
                   status |-> IF p \in pooled THEN "none" ELSE "503"]]
    /\ UNCHANGED <<facilitatorVars, storeVars, worldVars>>

Ask(c) ==
    \E p \in Pods, u \in Urls, s \in Payments \cup {NoPayment, BadHeader} :
        Arrive(c, p, u, s)

\* The same signed request again, possibly to another replica.
Retry(c) ==
    /\ req[c].status \in Undecided
    /\ \E p \in Pods : Arrive(c, p, req[c].url, req[c].sig)

\* async with db_pool.acquire(): wait, without bound, while the pool is
\* exhausted.
SlotFree(c) == InUse(req[c].pod) < PoolMax

Acquire(c) ==
    /\ At(c, "acquire")
    /\ pgUp
    /\ SlotFree(c)
    /\ Goto(c, "select")
    /\ UNCHANGED <<facilitatorVars, storeVars, worldVars>>

\* 200 with the code of the row of the URL.
AnswerExisting(c) ==
    \E r \in rows : r.url = req[c].url /\ Answer(c, "200", r.code)

\* Mutated Select: a missing signature is not refused.
SelectWithoutHeaderCheck(c) ==
    /\ At(c, "select")
    /\ Connected(c)
    /\ IF UrlTaken(req[c].url) THEN AnswerExisting(c) ELSE Goto(c, "verify")
    /\ UNCHANGED <<facilitatorVars, storeVars, worldVars>>

\* The URL exists: answer its code.  Otherwise, with payments on, a request
\* without a signature, or with one that does not decode, is refused.
Select(c) ==
    /\ At(c, "select")
    /\ Connected(c)
    /\ IF UrlTaken(req[c].url)
       THEN AnswerExisting(c)
       ELSE IF ~PaymentEnabled
       THEN Goto(c, "insert")
       ELSE IF req[c].sig \in {NoPayment, BadHeader}
       THEN Answer(c, "402", NoCode)
       ELSE Goto(c, "verify")
    /\ UNCHANGED <<facilitatorVars, storeVars, worldVars>>

\* Mutated VerifyAccepts: a verified payment is taken for a settled one.
VerifyAcceptsAsSettled(c) ==
    /\ At(c, "verify")
    /\ MayVerify(req[c].sig)
    /\ req' = [req EXCEPT ![c] =
                  [@ EXCEPT !.pc = "insert", !.tx = req[c].sig]]
    /\ UNCHANGED <<facilitatorVars, storeVars, worldVars>>

VerifyAccepts(c) ==
    /\ At(c, "verify")
    /\ MayVerify(req[c].sig)
    /\ Goto(c, "settle")
    /\ UNCHANGED <<facilitatorVars, storeVars, worldVars>>

VerifyRejects(c) ==
    /\ At(c, "verify")
    /\ MayRejectVerify(req[c].sig)
    /\ Answer(c, "402", NoCode)
    /\ UNCHANGED <<facilitatorVars, storeVars, worldVars>>

\* Mutated FacilitatorUnreachable: every result but SETTLED is a 402.
FacilitatorUnreachableRefused(c) ==
    /\ req[c].pc \in {"verify", "settle"}
    /\ Answer(c, "402", NoCode)
    /\ \/ UNCHANGED facilitatorVars
       \/ At(c, "settle") /\ MaySettle(req[c].sig) /\ Transfer(req[c].sig)
    /\ UNCHANGED <<storeVars, worldVars>>

\* Transport error, timeout or HTTP >= 400 from either endpoint.  A lost
\* answer to /settle may be the answer to a transfer that was made.
FacilitatorUnreachable(c) ==
    /\ req[c].pc \in {"verify", "settle"}
    /\ Answer(c, "503", NoCode)
    /\ \/ UNCHANGED facilitatorVars
       \/ At(c, "settle") /\ MaySettle(req[c].sig) /\ Transfer(req[c].sig)
    /\ UNCHANGED <<storeVars, worldVars>>

SettleSucceeds(c) ==
    /\ At(c, "settle")
    /\ MaySettle(req[c].sig)
    /\ Transfer(req[c].sig)
    /\ req' = [req EXCEPT ![c] =
                  [@ EXCEPT !.pc = "insert", !.tx = req[c].sig]]
    /\ UNCHANGED <<storeVars, worldVars>>

\* success = false: the transfer was not made.
SettleFails(c) ==
    /\ At(c, "settle")
    /\ req[c].sig \notin settled
    /\ Answer(c, "402", NoCode)
    /\ UNCHANGED <<facilitatorVars, storeVars, worldVars>>

\* Mutated InsertPaid: the generated code is answered even on a conflict.
InsertPaidIgnoringConflict(c, k) ==
    /\ IF UrlTaken(req[c].url) \/ Violates(k, req[c].tx)
       THEN UNCHANGED rows
       ELSE AddRow(k, req[c].url, req[c].tx)
    /\ Created(c, k)

\* Mutated InsertPaid: ON CONFLICT (url) DO UPDATE takes the row over.
InsertPaidReplacing(c, k) ==
    LET others == {r \in rows : r.url # req[c].url}
    IN  IF \E r \in others : r.code = k \/ r.tx = req[c].tx
        THEN Answer(c, "409", NoCode) /\ UNCHANGED rows
        ELSE /\ rows' = others \cup {[code |-> k, url |-> req[c].url,
                                      tx |-> req[c].tx]}
             /\ Created(c, k)

\* INSERT ... ON CONFLICT (url) DO NOTHING RETURNING code, under the code k
\* just generated: the row goes in; or the URL has one already and no code
\* is returned; or UniqueViolationError on one of the other two keys.
InsertPaid(c, k) ==
    IF UrlTaken(req[c].url)
    THEN Goto(c, "reselect") /\ UNCHANGED rows
    ELSE IF Violates(k, req[c].tx)
    THEN Answer(c, "409", NoCode) /\ UNCHANGED rows
    ELSE /\ AddRow(k, req[c].url, req[c].tx)
         /\ Created(c, k)

\* Mutated InsertFree: the generated code is answered, not the row's.
InsertFreeOwnCode(c, k) ==
    /\ IF UrlTaken(req[c].url) \/ Violates(k, NoPayment)
       THEN UNCHANGED rows
       ELSE AddRow(k, req[c].url, NoPayment)
    /\ Created(c, k)

\* Mutated InsertFree: DO UPDATE SET code = EXCLUDED.code.
InsertFreeReplacing(c, k) ==
    LET others == {r \in rows : r.url # req[c].url}
    IN  /\ \A r \in others : r.code # k
        /\ rows' = others \cup {[code |-> k, url |-> req[c].url,
                                 tx |-> NoPayment]}
        /\ Created(c, k)

\* INSERT ... ON CONFLICT (url) DO UPDATE SET url = EXCLUDED.url RETURNING
\* code; nothing catches a UniqueViolationError here.
InsertFree(c, k) ==
    IF UrlTaken(req[c].url)
    THEN /\ \E r \in rows : r.url = req[c].url /\ Created(c, r.code)
         /\ UNCHANGED rows
    ELSE IF Violates(k, NoPayment)
    THEN Answer(c, "500", NoCode) /\ UNCHANGED rows
    ELSE /\ AddRow(k, req[c].url, NoPayment)
         /\ Created(c, k)

Insert(c) ==
    /\ At(c, "insert")
    /\ Connected(c)
    /\ \E k \in Codes :
          IF PaymentEnabled THEN InsertPaid(c, k) ELSE InsertFree(c, k)
    /\ UNCHANGED <<facilitatorVars, cache, worldVars>>

\* Mutated Reselect: the loser of the race is told it created the URL.
ReselectAsCreated(c) ==
    /\ At(c, "reselect")
    /\ Connected(c)
    /\ \E r \in rows : r.url = req[c].url /\ Answer(c, "201", r.code)
    /\ UNCHANGED <<facilitatorVars, storeVars, worldVars>>

\* row is None: somebody else's INSERT won; answer with that row.
Reselect(c) ==
    /\ At(c, "reselect")
    /\ Connected(c)
    /\ IF UrlTaken(req[c].url)
       THEN AnswerExisting(c)
       ELSE Answer(c, "500", NoCode)
    /\ UNCHANGED <<facilitatorVars, storeVars, worldVars>>

\* Best-effort SETEX, then 201.
CacheAndAnswer(c) ==
    /\ At(c, "setex")
    /\ \/ cache' = [cache EXCEPT ![req[c].code] = req[c].url]
       \/ UNCHANGED cache
    /\ Answer(c, "201", req[c].code)
    /\ UNCHANGED <<facilitatorVars, rows, worldVars>>

\* The exceptions the handler turns into 503; any other becomes 500.
CaughtErrors == {"PostgresConnectionError", "InterfaceError",
                 "ConnectionError", "OSError", "TimeoutError"}

ErrorStatus(e) == IF e \in CaughtErrors THEN "503" ELSE "500"

\* Mutated DatabaseFails: without command_timeout, a statement on a
\* connection that broke before the restart of Postgres waits for ever.
DatabaseFailsOnlyWhileDown(c) ==
    /\ req[c].pc \in {"acquire", "select", "insert", "reselect"}
    /\ ~pgUp
    /\ \E e \in PgErrors : Answer(c, ErrorStatus(e), NoCode)
    /\ UNCHANGED <<facilitatorVars, storeVars, worldVars>>

\* A connection or a statement fails without effect: Postgres or the
\* connection is gone, or the 10 s command_timeout fires.
DatabaseFails(c) ==
    /\ req[c].pc \in {"acquire", "select", "insert", "reselect"}
    /\ At(c, "acquire") => SlotFree(c)
    /\ \E e \in PgErrors : Answer(c, ErrorStatus(e), NoCode)
    /\ UNCHANGED <<facilitatorVars, storeVars, worldVars>>

\* The INSERT commits, but the connection drops or command_timeout fires
\* before the app learns of it.
InsertUnacknowledged(c) ==
    /\ At(c, "insert")
    /\ Connected(c)
    /\ ~UrlTaken(req[c].url)
    /\ \E k \in Codes : /\ ~Violates(k, req[c].tx)
                        /\ AddRow(k, req[c].url, req[c].tx)
    /\ \E e \in PgErrors : Answer(c, ErrorStatus(e), NoCode)
    /\ UNCHANGED <<facilitatorVars, cache, worldVars>>

Handler(c) ==
    \/ Acquire(c)
    \/ Select(c)
    \/ VerifyAccepts(c)
    \/ VerifyRejects(c)
    \/ FacilitatorUnreachable(c)
    \/ SettleSucceeds(c)
    \/ SettleFails(c)
    \/ Insert(c)
    \/ InsertUnacknowledged(c)
    \/ Reselect(c)
    \/ CacheAndAnswer(c)
    \/ DatabaseFails(c)

-----------------------------------------------------------------------------
(* The world around the handlers.                                          *)

\* Mutated Connect: the pool is built at boot only.
ConnectAtBoot(p) ==
    /\ pgUp
    /\ p \notin pooled
    /\ faults = 0
    /\ pooled' = pooled \cup {p}
    /\ UNCHANGED <<facilitatorVars, req, storeVars, pgUp, faults>>

\* A replica publishes its pool (ensure_db_pool); it is never withdrawn.
Connect(p) ==
    /\ pgUp
    /\ p \notin pooled
    /\ pooled' = pooled \cup {p}
    /\ UNCHANGED <<facilitatorVars, req, storeVars, pgUp, faults>>

\* Postgres dies: every connection breaks, committed rows are durable.
PostgresCrash ==
    /\ pgUp
    /\ faults < MaxFaults
    /\ pgUp' = FALSE
    /\ faults' = faults + 1
    /\ req' = [c \in Clients |->
                  [req[c] EXCEPT !.alive = @ /\ req[c].pc \notin Holding]]
    /\ UNCHANGED <<facilitatorVars, storeVars, pooled>>

PostgresRestart ==
    /\ ~pgUp
    /\ pgUp' = TRUE
    /\ UNCHANGED <<facilitatorVars, req, storeVars, pooled, faults>>

\* A replica dies with its handlers; their clients get no answer.
PodCrash(p) ==
    /\ faults < MaxFaults
    /\ faults' = faults + 1
    /\ pooled' = pooled \ {p}
    /\ req' = [c \in Clients |->
                  IF req[c].pod = p /\ req[c].pc # "idle"
                  THEN [req[c] EXCEPT !.pc = "idle", !.status = "lost",
                                      !.code = NoCode, !.alive = TRUE]
                  ELSE req[c]]
    /\ UNCHANGED <<facilitatorVars, storeVars, pgUp>>

\* A cached URL expires, is evicted, or goes with a restart of Redis.
Forget(k) ==
    /\ cache[k] # NoUrl
    /\ cache' = [cache EXCEPT ![k] = NoUrl]
    /\ UNCHANGED <<facilitatorVars, req, rows, worldVars>>

DeadlinePasses(p) ==
    /\ Expire(p)
    /\ UNCHANGED <<req, storeVars, worldVars>>

Environment ==
    \/ PostgresCrash
    \/ PostgresRestart
    \/ \E p \in Pods : Connect(p) \/ PodCrash(p)
    \/ \E k \in Codes : Forget(k)
    \/ \E p \in Payments : DeadlinePasses(p)

Next ==
    \/ \E c \in Clients : Ask(c) \/ Retry(c) \/ Handler(c)
    \/ Environment

Spec == Init /\ [][Next]_vars

-----------------------------------------------------------------------------
(* Properties.                                                             *)

\* A row of the table names a payment that was settled before it.
RowsArePaid ==
    PaymentEnabled => \A r \in rows : r.tx \in settled

\* No two rows share a URL, a code or a settlement.
RowsAreUnique ==
    \A r, s \in rows :
        r # s => /\ r.url # s.url
                 /\ r.code # s.code
                 /\ r.tx = s.tx => r.tx = NoPayment

\* What a client was told is in the table, whatever crashed since: 200 and
\* 201 name the row of the URL, and a 201 whose PAYMENT-RESPONSE names a
\* settlement names the one recorded with the row.
AnsweredIsStored ==
    \A c \in Clients :
        At(c, "idle") /\ req[c].status \in {"200", "201"} =>
            \E r \in rows :
                /\ r.url = req[c].url
                /\ r.code = req[c].code
                /\ (req[c].status = "201" /\ PaymentEnabled) => r.tx = req[c].tx

\* With payments on, one request at most is told that it created a URL,
\* however many raced or were retried.
OneCreator ==
    PaymentEnabled =>
        \A c, d \in Clients :
            (/\ c # d
             /\ At(c, "idle") /\ req[c].status = "201"
             /\ At(d, "idle") /\ req[d].status = "201") =>
                req[c].url # req[d].url

\* The cache never contradicts the table.
CacheAgrees ==
    \A k \in Codes :
        cache[k] # NoUrl => \E r \in rows : r.code = k /\ r.url = cache[k]

\* What may come of an attempt whose payment has been settled and is not
\* recorded yet: nothing was decided and it can be sent again; its URL has a
\* row; the code generated for it was taken (the 409 of main.py:442, which
\* blames the payment); or /verify refused it before anything else was tried,
\* its deadline having passed or its nonce having been used.
SettledOutcome(c) ==
    \/ req'[c].status \in Undecided
    \/ /\ req'[c].status \in {"200", "201"}
       /\ \E r \in rows' : r.url = req[c].url /\ r.code = req'[c].code
    \/ /\ req'[c].status = "409"
       /\ At(c, "insert") /\ \E k \in Codes : Violates(k, NoPayment)
    \/ /\ req'[c].status = "402"
       /\ At(c, "verify")
       /\ req[c].sig \in expired \/ FALSE \in SettledVerdicts

\* A client whose money has moved is not told otherwise: in particular no lost
\* answer of /settle and no outage after it is reported as a refusal.
SettledIsKept ==
    [][\A c \in Clients :
          (/\ req[c].pc # "idle" /\ req'[c].pc = "idle"
           /\ req[c].sig \in settled'
           /\ \A r \in rows : r.tx # req[c].sig) => SettledOutcome(c)]_vars

\* main.py:386: after settle_payment the client retries the same signed
\* request safely, the payment is pending and not lost.  So no request is
\* refused (402) on account of a payment that is settled and not recorded.
SettledIsNotRefused ==
    [][\A c \in Clients :
          (/\ req[c].pc # "idle" /\ req'[c].pc = "idle"
           /\ req[c].sig \in settled
           /\ \A r \in rows : r.tx # req[c].sig)
              => req'[c].status # "402"]_vars

\* The table implements the registry of paid URLs.
Registry == INSTANCE PaidUrls WITH paid <- settled, registry <- rows
ImplementsRegistry == Registry!Spec

\* (The fairness under which the next two hold is RedirectFairSpec.)
\* Every request is answered or its replica dies: no handler waits for ever
\* for a connection, for the facilitator or for Postgres.
EveryRequestEnds ==
    \A c \in Clients : req[c].pc # "idle" ~> req[c].pc = "idle"

\* A settled payment does not stay pending for ever: unless it turns to
\* another request, a client that goes on sending the signed one gets the URL
\* into the table or is told that the payment or the code is used (409) or no
\* longer accepted (402), through crashes, lost answers and pools that have to
\* be built again.
Pending(c, u, p) ==
    /\ req[c].url = u /\ req[c].sig = p /\ p \in settled
    /\ req[c].pc # "idle" \/ req[c].status \in Undecided
    /\ ~UrlTaken(u)

PendingIsResolved ==
    \A c \in Persistent, u \in Urls, p \in Payments :
        Pending(c, u, p) ~> ~Pending(c, u, p)

\* README: every payment leaves an audit trail.  A request that settled its
\* payment and was answered successfully has the settlement recorded.
EveryPaymentRecorded ==
    \A c \in Clients :
        (/\ At(c, "idle")
         /\ req[c].status \in {"200", "201"}
         /\ req[c].tx # NoPayment) => \E r \in rows : r.tx = req[c].tx

=============================================================================
