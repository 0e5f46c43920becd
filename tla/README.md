# Verification of k8s-chaos-promotion

TLA+ models of the programs in this repository, TLC runs that check them on
small instances, and TLAPS proofs of what matters most for every instance.
Paths are relative to the root of the repository.

## 1. Inventory

The repository is a URL shortener whose writes are paid for, and the delivery
pipeline that only promotes a version to production after killing its
dependencies in staging.

| Component | Code | State | Operations |
|---|---|---|---|
| Paid writes | `app/main.py` `shorten_url`, `app/payment.py` | table `urls`, the handler's locals, a pooled connection | `POST /shorten`: SELECT, verify, settle, INSERT, SETEX |
| Redirects | `app/main.py` `redirect_url` | Redis `url:<code>`, table `urls` | `GET /<code>`: GET, SELECT, SETEX |
| Health of a replica | `app/main.py` `ensure_db_pool`, `ensure_redis`, `_monitor_dependencies`, `lifespan`, `ready`, `health`, `livez`; probes in `helm/url-shortener/templates/deployment.yaml` | `db_pool`, `redis_client`, two locks, `_started`, the gauges `dependency_up` | boot, `/ready`, `/livez`, `/health`, the monitor loop, the kubelet's probes |
| Facilitator (external) | called by `app/payment.py` | settled permits, deadlines | `/verify`, `/settle` |
| Signer | `signer/main.py`, `signer/permit2.py` | `wallets` with `bootstrapped`; allowances on the chain | boot-time approvals, `/sign-permit2`, `/wallets`, `/health` |
| Load generator | `kubernetes/jobs/scripts/loadgen.js` | per-VU wallet, counters | sign, shorten, redirect in a loop, no retries |
| Chaos gate | `kubernetes/chaos-experiments/orchestrate.sh`, `workflow.yaml`, the three PodChaos files | leftovers of the previous run, the Workflow, the loadgen Job, start times | prune, sweep, start load and chaos, wait, score, annotate, exit |
| Scorer | `kubernetes/chaos-experiments/score_experiment.py` | none | aggregate samples of a window, compare with thresholds |
| Promotion | `kubernetes/kargo/*.yaml` | freight, what each stage runs and has verified | warehouse discovery, promotion of a stage, verification |
| Platform bootstrap | `platform_setup_scripts/bootstrap.sh`, `lib.sh`, `00`..`07` | the cluster and the current kubectl context | phases in order, `--from`, `--phase`, waits with timeouts |
| Cluster resources | `helm/`, `gke_terraform/`, `kubernetes/apps`, `argocd`, `bootstrap`, `jobs` | declarative | none of their own |
| Build and contract tools | `.github/workflows`, `Makefile`, `docker/`, `scripts/` | none kept | build, push, smoke tests |

How they interact. A client obtains a signed Permit2 authorisation from the
signer and sends it with `POST /shorten`. The handler holds one connection of
its replica's asyncpg pool from the first SELECT to the answer, and in between
calls the facilitator twice. The replicas share nothing but Postgres and
Redis. `/ready`, the monitor and the redirects draw on the same pool. The gate
starts the load and a serial workflow of pod failures, then reads Prometheus
(which scrapes the app's counters and gauges) and exits; Kargo turns the exit
code into the verification of the staging freight, without which production
cannot be promoted.

What is hard, by component:

- **Paid writes**: two awaits lie between reading the table and writing it, two
  HTTPS calls with money behind them lie in between; Postgres, the replica or
  the answer of the facilitator can be lost at any of them; retries and
  replays arrive at other replicas; the pool is bounded and waits have no
  timeout. Correct means: a row is paid and unique, an answer given is in the
  table for ever, a URL has one creator, a payment that moved money is not
  reported as refused or left pending for ever.
- **Redirects**: read through a cache written by two kinds of handlers without
  transactions, and fall back on Postgres. Correct means: a redirect is the
  table's, a stored code is never 404.
- **Health**: double-checked locks around awaits, with three kinds of callers;
  a readiness latch read before an await and written after it; pool slots
  shared with the paid writes. Correct means: a published pool is never
  replaced, a ready replica survives outages of Redis, outages show in the
  gauges, the replica becomes ready when its dependencies are back.
- **Signer**: the boot loop sends transactions and may be killed by its
  liveness probe half way; a wallet reports an index that is not its position;
  which wallets are usable changes with every restart. Correct means: who is
  signed for is approved, the users of a checked test are served, no two of them
  by one wallet, restarts heal.
- **Chaos gate and scorer**: windows are computed from start times reported by
  another controller, counters are seen only between the scrapes of each pod's
  series, samples may be missing, faults may outlast their nodes or be left by a
  previous run, the whole has a deadline. Correct means: no pass without
  traffic, without the dips and the recovery it must have seen, or with an event
  in a window that the counters could show.
- **Promotion**: a promotion pushes before it waits for the sync, ArgoCD syncs
  whether it is asked or not, any step may fail in between, and newer freight
  may overtake. Correct means: production runs only what staging has verified,
  a verdict is about what runs, a promotion ends.
- **Platform bootstrap**: each phase needs what earlier ones made, what is
  applied takes effect later, several ways out of a phase count as success, and
  re-runs start again from the top. Correct means: nothing is set going without
  what it needs, and a re-run completes.

## 2. Plan

| Order | Modules | Status |
|---|---|---|
| 1 | `Facilitator`, `Shorten`, `PaidUrls`, `MCShorten`, `ShortenProofs` | done |
| 2 | `Redirect` (extends `Shorten`), `MCRedirect`, `RedirectProofs` | done |
| 3 | `Replica` (pool, Redis client, probes, monitor, kubelet), `MCReplica`, `ReplicaProofs` | done |
| 4 | `ChaosGate` (orchestrator, Workflow, generator, Prometheus, scorer), `MCChaosGate`, `ChaosGateProofs` | done, without the latency check |
| 5 | `Signer` (boot loop, liveness probe, `/sign-permit2`, the generator's `setup()`), `MCSigner`, `SignerProofs` | done, balances as a check that may fail |
| 6 | `Promotion` (freight through the three Stages), `GatedDelivery`, `PromotionProofs` | done |
| 7 | `Bootstrap` (extends `Promotion`: phase 06 beside the pipeline it sets going), `MCBootstrap`, `BootstrapProofs` | done for phase 06 |
| 8 | `ScoredWhenOver` and `NoBlindSpot` of `ChaosGate` as theorems, with the delays they need | done |
| 9 | Theorems beyond the runs: what becomes of settled payments, pools and locks, `Redirect` as a refinement of `PaidUrls`, the round trip of a short code, the permanence of rows, the order of the Stages | done |
| 10 | What the environment may do less kindly: a `/verify` that refuses what is settled, faults that outlast their nodes, series per pod and label between scrapes, late Redis answers, a namespace that is late | done |

Composition: `Redirect` runs the handlers of `Shorten` beside its own, over one
table, cache and pool. `Replica` sees the paid writes as the number of
connections they hold. `ChaosGate` sees the app as the requests it counts and
the gauges, which follow the dependencies (`GaugesFollow` of `Replica`). `Signer`
has the generator's virtual users beside the signer. `Bootstrap` runs the
installation beside the steps of `Promotion`, for which the verdict of the
gate is open. Abstract specifications: `PaidUrls` for the table,
`GatedDelivery` for the pipeline.

## 3. Paid writes

`Shorten` models `shorten_url` with `settle_payment`, run concurrently by all
replicas. A handler is a coroutine, interleaved with the others at its awaits:
each await is one point `pc` of the record `req[c]`, whose other fields are the
handler's locals.

| `pc` | the handler is about to | actions |
|---|---|---|
| `acquire` | `async with db_pool.acquire()` (393) | `Acquire`, `DatabaseFails` |
| `select` | look for the URL, then for the header (394-411) | `Select`, `DatabaseFails` |
| `verify` | POST `/verify` (`payment.py:149`) | `VerifyAccepts`, `VerifyRejects`, `FacilitatorUnreachable` |
| `settle` | POST `/settle` (`payment.py:166`) | `SettleSucceeds`, `SettleFails`, `FacilitatorUnreachable` |
| `insert` | INSERT with or without payment (427-463) | `Insert`, `InsertUnacknowledged`, `DatabaseFails` |
| `reselect` | read the winner's row (449-453) | `Reselect`, `DatabaseFails` |
| `setex` | fill the cache and answer 201 (465-480) | `CacheAndAnswer` |

`Ask` is a new request, `Retry` the same signed request again, by a client of
`Persistent` whose last answer decided nothing (500, 503 or none at all). A
request to a replica without a pool is answered 503 at once (383-384). The
table is a set of rows; its keys are `Violates` and `UrlTaken`. `Connected`
says that the connection the handler holds still works: a crash of Postgres
breaks it for good, also when Postgres is back. `DatabaseFails` is every way a
statement fails without effect; the constant `PgErrors` holds the exceptions
it may raise and `CaughtErrors` those the handler turns into 503.

The environment: `PostgresCrash` and `PostgresRestart`, `Connect` (a replica
publishes its pool), `PodCrash` (a replica dies with its handlers), `Forget` (a
cache entry expires), `DeadlinePasses`.

`Facilitator` is external: what `/verify` and `/settle` may answer. A payment
transfers at most once, so it stands for its transaction hash. Two constants
say what the repository leaves open. `SettledVerdicts` holds the answers that
`/verify` may give on a payment that is settled: the comment at `app/main.py:386`
needs TRUE, `docs/design/x402-migration.md:79` says FALSE, and with both in the
set either may come, each time anew. `DeadlinesPass` says whether the 300 s of a
permit run out.

`PaidUrls` is the promise: a registry that only grows, by entries whose URL,
code and payment are new and whose payment was settled before. `Shorten`
implements it with `registry <- rows`, `paid <- settled`.

### Runs

| Run | Instance | Shows |
|---|---|---|
| `shorten` | 2 clients, 2 replicas, 2 URLs, 2 codes, 2 payments, pools of 1, 1 crash, deadlines pass, both verdicts | the type invariant, `RowsArePaid`, `RowsAreUnique`, `AnsweredIsStored`, `OneCreator`, `CacheAgrees`, the refinement `ImplementsRegistry`, and `SettledIsKept` |
| `live` (`MCRedirect`) | a client that retries and 2 visitors, 1 replica with a pool of 1, 1 payment, 1 crash, both verdicts, fair | `EveryRequestEnds`, `PendingIsResolved`; of section 4 `EveryVisitEnds` |
| `shorten_audit` | no crash | violation of `EveryPaymentRecorded` |
| `shorten_retry` | 1 client, 1 crash, `SettledVerdicts` = {FALSE} | violation of `SettledIsNotRefused` |

The upsert path, with payments disabled, is checked by the run `redirect`.

The violations are disagreements between the code and what the repository says
of it.

- `shorten_audit`: README.md:49 promises an audit trail of every payment. When
  two payments race for one URL both are settled; the loser is answered 200 with
  the winner's code (`app/main.py:449`) and its settlement is in no row.
- `shorten_retry`: the comment at `app/main.py:386` says that the retry of a
  settled request is safe because `/settle` answers a replay from its cache. Each
  attempt calls `/verify` first (`app/payment.py:149`), which ends in a 402 when
  it answers that the payment is not valid, and
  `docs/design/x402-migration.md:79` says that `/verify` checks that the nonce is
  unused. The replay that the document records at line 484 is one of `/settle`
  alone. The run takes the document at its word: the money moves, nothing is
  stored, and the retry is refused. (If `/verify` accepts what is settled and the
  deadline has not passed, the comment is right: `SettledIsKept` then leaves no
  402.)

What is promised whatever `/verify` says are two weaker properties.
`SettledIsKept`: the attempt of a settled and unrecorded payment ends undecided
(500, 503 or no answer: it can be sent again), with a row for its URL, in a 409
because the generated code was taken, or in a 402 of `/verify` for the deadline or
the used nonce; so no lost answer of `/settle` and no outage after it is ever
reported as a refusal. `PendingIsResolved`: a client that goes on sending such a
payment gets one of these answers in the end.

One more that the model shows by its actions: the comment at `app/main.py:443`
takes every `UniqueViolationError` for a replay. A collision of the generated
code raises it too (`InsertPaid`): a fresh settlement is answered 409 and counted
as a replay attempt.

### Bounds

Two clients are enough for every race the handler has: each conflict is
between one handler and one other row, settlement or slot, and the second
client can be the new request or the retry of the first as well as a stranger.
Two URLs, codes and payments allow replay for another URL, code collision and
the race for one URL. In the run `live` deadlines do not pass: a passed deadline
is a 402, which resolves what is pending. A pool of one connection makes
`acquire` wait. One crash separates any two steps of a handler; `MaxFaults` bounds the crashes only, not
the failures of single calls. The clients, replicas, URLs, codes and payments
are interchangeable (`Symmetry`), except in the runs with liveness properties.

### Fairness

`RedirectFairSpec` (section 4), under which both endpoints are checked for
liveness, assumes: the event loop runs a coroutine that can continue
(`WF Handler`: every call has a timeout — 10 s `command_timeout`,
`FACILITATOR_TIMEOUT_S`); waiters of the pool are served in turn
(`SF Acquire`: asyncpg queues them); Postgres comes back and `ensure_db_pool`
is called again by the probe and the monitor until a pool is published
(`WF PostgresRestart`, `WF Connect`); and, for a persistent client only, that
it does retry and that each service it calls over and over does at some point
answer (`SF` of its statements and calls). Nothing is assumed of crashes,
evictions, deadlines or other clients.

### Proofs

`ShortenProofs` proves, for any number of clients, replicas, URLs, codes and
payments, any pool size and any bound on crashes, from `ShortenAssumption` and
`FacilitatorAssumption` (and `PoolIsNeverExceeded` from the finiteness of
`Clients`, without which nothing can be counted):

- `Inductive`: `Spec => []IInv`, where `IInv` is the type invariant with the
  invariants of the runs and four strengthenings. `OwnSettlement`: the
  settlement a handler knows of is that of its own request. `HandlersOK`: past the
  header check a handler has a real payment, and from the INSERT on its
  settlement is in `settled`; without it nothing says that the row about to be
  inserted is paid for. `ToldHasRow`: also a handler that is still at SETEX has
  its row, since that is what it is about to tell its client. `DistinctCreators`:
  of two clients that were told, or are about to be told, that they created a
  URL, the URLs differ; it is kept because creating a URL requires that no row
  has it, and every creator has a row.
- `TypeCorrect`, `EveryRowIsPaid`, `UniqueRows`, `AnswersAreDurable`,
  `CreatedOnce`, `CacheIsRight`: the invariants of the runs.
- `TableIsRegistry`: `Spec => ImplementsRegistry`. `StoreStep` shows that a
  step changes the table or the settlements by one transfer, one new row, or
  not at all.
- `SettledPaymentsAreKept` (`SettledIsKept`): `EndingStep` goes through every way
  a handler can end. Nothing is assumed of `/verify`, of deadlines or of retries.
- `UrlsArePermanent`: a row, once inserted, neither changes nor goes, so no race,
  replay or crash rewrites a short code.
- `CreatorsPayThemselves`: the row a 201 speaks of holds the settlement its
  creator signed. `NoUrlIsFree`: there are no more rows than settlements; the
  map from rows to settlements is an injection, by `RowsArePaid` and
  `RowsAreUnique`.
- `PoolIsNeverExceeded`: handlers, crashes and lost answers included, no pool
  lends more than `PoolMax` connections.
- `RequestsGoForward`: a handler stays on its replica and only moves to a later
  point, so it calls `/verify` and `/settle` and inserts at most once.

`EveryRequestEnds` and `PendingIsResolved` are liveness properties and are
model-checked only; `RequestsGoForward` is the variant behind the first.

### What is left out

Wording of answers and headers, metrics, the payer's address (stored beside the
hash, never read), the value of the fee. An answer of the facilitator that
breaks its interface (2xx that is not JSON, `success` without `transaction`).
The order in which Postgres checks its unique indexes: an INSERT is one step. The
503 for a missing HTTP client (`app/main.py:413`): it is there for the whole
lifespan.

## 4. Redirects

`Redirect` extends `Shorten` with the handlers of `GET /<code>`, one record
`visit[v]` per open connection.

| `pc` | the handler is about to | actions |
|---|---|---|
| `idle` | read the cache (505-518): a hit is answered 302, a replica without a pool answers 503 | `Get` |
| `acquire` | `async with db_pool.acquire()` (520) | `Borrow`, `FetchFails` |
| `select` | read the row and leave the connection (520-526): 404 without one | `Fetch`, `FetchFails` |
| `setex` | fill the cache and answer 302 (526-533) | `Fill` |

Both kinds of handlers count against the pool (`Borrowed`), so a paid write is
a step of `Redirect` only with `ConnectionFree` (`PaidStep`), and both lose
their connection or their process in a crash (`PostgresCrashes`, `PodCrashes`).
`url` of a visit is where the answer leads or will lead; `known`, a history
field, says that the code had a row when the visit began.

| Run | Instance | Shows |
|---|---|---|
| `redirect` | payments disabled: 2 clients and a visitor on a pool of 2, 2 URLs and codes, 1 crash | `RedirectsFollowTable`, `KnownCodesAreFound`, `CacheAgrees`, types; of the upsert path `AnsweredIsStored` and `ImplementsRegistry` |
| `live` | 2 visitors and a paid client on a pool of 1, 1 crash, fair | `EveryVisitEnds` (and the liveness of section 3) |

Nothing catches what `acquire()` or `fetchrow` raise at `app/main.py:520`, so an
outage under a visit is a 500 (`FetchFails`), where
`01-postgres-pod-failure.yaml:2` says "the app should fail fast with 503".

Two writers and one reader are all the parties a cache entry has; two codes and
URLs let an entry be wrong. The proofs cover both kinds of writes, for a visit
sees only the rows they add. Fairness is that of section 3, with the same reasons:
handlers are scheduled, waiters of the pool are served in turn.

`RedirectProofs` proves `VisitsAreTyped`, `RedirectsAgree`,
`StoredCodesAreServed` and `CacheStaysRight` for any number of visitors, clients
and replicas. A step of
the paid writes preserves the invariant of `ShortenProofs` and adds rows only
(`ShortenPart`), which is all that a visit needs of them; a visit's own write
to the cache is `FillStep`. The strengthening `KnownHasRow` says that a known
code keeps its row until the visit reads the table.

About both endpoints together it proves:

- `AnswersStayDurable` and `TableStaysRegistry`: the invariants of the paid
  writes and the refinement of `PaidUrls`, beside visits that write to the same
  cache and draw on the same pools.
- `RoundTrip`, what the service is for: a code that `POST /shorten` answered for
  a URL leads every visitor it redirects to that URL, and no two visitors of one
  code are sent to different URLs.
- `SharedPoolIsNeverExceeded`, for finitely many clients and visitors.
- `VisitsEndTruly`: a visit keeps its replica and code, moves to later points
  only, and is answered 302 or 404 only if the table says so at that moment. It
  needs the invariant `TargetIsRead`: at SETEX the target has been read.

`EveryVisitEnds` is model-checked only; `VisitsEndTruly` is its variant.

## 5. Health of a replica

`Replica` models one replica: the lazily built pool and Redis client, the
readiness latch `_started`, the gauges, and the kubelet that probes `/ready`.
A task is a coroutine that checks the dependencies: the lifespan at boot, the
monitor, and the calls of `/ready`, of which several may be open because the
kubelet gives up after a second while the handler goes on.

| `pc` | the task is about to | actions |
|---|---|---|
| `poolLock` | take `_db_lock` and look again (137-139) | `TakePoolLock` |
| `poolBuild` | `asyncpg.create_pool` (140-149) | `BuildPool`, `BuildFails` |
| `poolSchema` | run `SCHEMA_SQL` and publish (150-157) | `PublishPool`, `BuildFails` |
| `acquire` | take a connection of the pool (343, 204) | `Acquire`, `PingFails` |
| `select1` | `SELECT 1` (343, 204) | `PingAnswers`, `PingFails` |
| `redisLock` | take `_redis_lock` and look again (170-172) | `TakeRedisLock` |
| `redisBuild` | connect and publish (173-187) | `PublishRedis`, `RedisBuildFails` |
| `redisPing` | PING (355-357, 213-215) | `RedisAnswers`, `RedisPingFails` |

`Answer` is the end of a check: `/ready` answers the kubelet, which counts
(`Count`: `failureThreshold` failures in a row take the pod out of the Service,
one success puts it back); the monitor sets the gauges and sleeps
(`MonitorWakes`). `Hold` and `Release` are paid writes, which keep a connection
while they wait for the facilitator. `Outage`, `Recover` and `Restart` are the
environment; a restart loses every global, `_started` too. A check of Redis fails
when Redis is away or when it is up and slower than the timeouts of 0.1 s
(`NoAnswerFromRedis`); such a late answer is counted among the faults.

| Run | Instance | Shows |
|---|---|---|
| `replica` | a probe, the monitor and the lifespan, a pool of 1, 3 outages, restarts or late answers of Redis, fair | `BuiltOnce`, `ReadinessFollowsPostgres`, `GaugesFollow`, types |
| `replica_busy` | no fault at all | violation of `PulledOnlyByFaults`: `/ready` draws on the pool that paid writes hold for as long as the facilitator takes, so a slow facilitator takes a healthy pod out of service, where `docs/design/x402-migration.md` (experiment 4) says the pod stays healthy |

The probe, the monitor and the lifespan give every lock a holder and two
waiters. A `failureThreshold` of 2 instead of 6 keeps the count and its reset.
Two probes open at a time, with the liveness properties, exceed the memory of a
small machine; for any number of them the safety properties are theorems
(below). With a pool of one connection every task waits behind every other.

Fairness: the event loop runs what can run (`WF Step`); `asyncio.Lock` and the
pool serve their waiters in turn (`SF Wait`); a Postgres that answers lets a
pool be built in the end (`SF` of `BuildPool` and `PublishPool`); the kubelet,
the monitor and the paid writes go on. Outages are not fair, and the liveness
properties are stated for outages and recoveries that last.

One assumption is about time: `Slow` says which points may outlast the probe's
second (building a pool, an absent Postgres or dead connection, a pool held by
paid writes). The two Redis timeouts of 0.1 s and a healthy `SELECT 1` stay
below it.

`ReplicaProofs` proves for any number of concurrent probes, any pool and any
threshold, from the inductive invariant `TypeOK`, `LocksHeld` (a lock is held by
the task that builds and by no other, and nothing is published meanwhile),
`Published` (a pool or client in use, in a gauge or behind `_started` is
published) and `Service` (a pod in service has `_started` set, fewer failures
than the threshold, and its counted probe at the check of Postgres, so the read
of `_started` that precedes the answer cannot be stale):

- `TypeCorrect` and `OnePoolOneClient` (`BuiltOnce`, by `LocksHeld`).
- `RedisIsOptional` (`ServedWithoutRedis`, by `Service`): once a pod is in service
  no probe that counts waits for Redis, however many probes overlap and whichever
  of them sets `_started` while another has read it. A run with one probe would
  not meet the overlap, so this property is proved only.
- `LocksCannotDeadlock`: whoever holds a lock is building, and waits for neither
  the other lock nor a connection.
- `LiveClientsAreKept`: a published pool or client stays until the process ends.
  `ServiceHasAPool`: a pod in service has both. The first is why `Shorten` may
  treat `pooled` as lost in a crash of the replica only; by the second the 503
  of `main.py:383` and `517` comes only from pods that are not in service.
- `WhatTakesAPodOut`: in service, a probe counts as failed only because of a
  restart, of Postgres (away, or a connection it took along), or of paid writes
  that hold the whole pool, and the pod goes with the last of
  `failureThreshold` failures. The third reason is the one that `replica_busy`
  shows; there is no fourth.
- `PoolIsNeverExceeded`: paid writes and `SELECT 1`s stay within the pool.

`ReadinessFollowsPostgres` and `GaugesFollow` are liveness properties and are
model-checked only.

Left out: `/health` and `/livez`, which keep no state, and the shutdown half of
the lifespan.

## 6. The chaos gate

`ChaosGate` models `orchestrate.sh` command by command, the Workflow it
creates, the generator's Job, what Prometheus has of each window, and
`score_experiment.py`. Time is counted in units of 10 s, of which all numbers
in the scripts are multiples.

| Action | Code |
|---|---|
| `Sweep` | prior Workflows and stuck PodChaos objects are removed (`orchestrate.sh:22-36`); a fault whose finalizer was cleared by force may stay (`stale`) |
| `Launch`, `Create` | the generator's Job and the Workflow (38-44); without `set -e` the script goes on when they fail |
| `Poll` | the Workflow is Accomplished or 180 polls with their sleeps have passed; the start times are collected (46-68) |
| `Score` | one experiment after the other; a missing start time, a failed query or a failed check fails the gate (70-85) |
| `Exit` | the bounded wait for the generator, then the verdict (87-114) |
| `Kill` | `activeDeadlineSeconds` of the Job, or an aborted verification (`analysistemplate.yaml:34-40`) |
| `NextNode`, `HardCap` | the Workflow: the deadline of a node ends it and starts the next; 720 s end the whole (`workflow.yaml`). With the node its fault is lifted, or, if its PodChaos object hangs on its finalizer, stays as one of `stale` (`Lift`; `orchestrate.sh:27-29`) |
| `LoadEnds` | the generator's 10 minutes (`loadgen-job.yaml`) |
| `Tick` | 10 s pass: requests, readings of the gauges, perhaps a scrape of the counters |
| `Event(k, a)` | pod `a` of the app restarts, or answers 500, 503 or a replay |
| `Blackout`, `StaleRecovers` | Prometheus away and back; Chaos Mesh recovers a stuck fault after all |

`seen[e]` holds what Prometheus would answer for the window of `e`: whether
there are samples, whether a gauge was 0 (`low`), its last value, whether the
requests exceeded the floor of TRAFFIC_GUARD, and the events that `increase()`
counts. `Lowest` and `Latest` are `aggregate`, in which a series without samples
counts as 0; `Passes` are the checks. `Readings` lets a gauge follow its
dependency sooner or later, as the monitor does (section 5), and those of `Slow`
be 0 although it is there, as the 0.1 s timeouts of the Redis client allow
(`app/main.py:178-179`). A generator without signatures sends no request that
counts (`Requests`).

Counters are kept as Prometheus keeps them: one series for each pod of
`AppPods`, and for 500 and 503 one for each label set of it, which begins with its
first event (`series`; `Exposed` are those that have begun before the campaign).
`increase()` takes the first sample of a series in the window for its base and
counts what later scrapes add. So an event waits in `fresh` for the next scrape
(`Counted`), the first event of a series is not heard (`Heard`, `Known`), a
restart of the pod begins its counters anew and wipes what has not been scraped
(`Restarted`, `Unscraped`, noted in `lost`), and what happens in a window before
its first scrape or after its last is not counted. At most `Scrape` units pass
between two scrapes (`due`); the interval of 15 s
(`servicemonitor.yaml:21`) is more than one unit, so `Scrape` is 2, or
3 where one scrape is missed. The targets are scraped together.

The constant `Troubles` says what goes wrong in a run, at most `MaxTroubles`
times: `noFault` (the selector of a fault finds no pod), `stuck` (a fault that
outlasts its node), `noLoad`, `noWorkflow`, `blackout`, `abort`, and the kinds of
events. `Leftovers` may be down from an earlier run. `MaxLag` is how long the
Workflow's controller may be away, once a run; `MaxSweep`, `MaxScoring` and
`MaxKubectl` are what the clean-up, the scoring, and the kubectl calls of each
loop take beside its sleeps.

| Run | Instance | Shows |
|---|---|---|
| `gate` | two pods, one of which has answered 500 before; one restart, 500 or missing fault; scrapes up to 30 s apart, a controller away for 10 s | `NoBlindSpot`, `OutagesAreReal`, types |
| `gate_late` | a controller away for 280 s, so that the hard cap fires; a leftover fault of the signer; late checks of Redis; one missing, stuck or aborted thing (all of `Troubles` but the events); clean-up, scoring and the kubectl calls of each loop take up to 10 s | `OutagesAreReal`, `RecoveryIsReal`, `ScoredWhenOver`, `PassIsDelivered` |
| `gate_signer` | one missing fault | violation of `AllKilled` |

`OutagesAreReal`: a gate that passes has had Postgres and Redis fail, so no
missing sample passed for an outage; excepted are a dependency that was left
failed before (`Leftovers`) and one whose checks time out while it is there
(`Slow`), which the scorer cannot tell from an outage. `RecoveryIsReal`: a gate
that passes has had Postgres back in its window, also when the fault outlasts its
node. `docs/kubernetes-architecture.md:271` tells of a stuck fault of the signer
that lasted 44 minutes; the scorer has no check for the recovery of the signer or
of Redis, so such a fault passes, and no property is stated of them.
`NoBlindSpot`: nothing an experiment has no tolerance for happened in its window,
and no restart between the first window and the last. It speaks of the events
that the counters can show: the series was there before (`Known`), a scrape
precedes the event in the window and one follows (`Where`), no restart wiped it
before it was scraped (`lost`), and Prometheus was not away.

The violation: README.md:36 says that each dependency is killed and that
traffic and the killed dependency's dip are scored after each window. The
checks of the signer (`score_experiment.py:127-143`) are four counters that
must be 0, and they are when the signer was never failed.

Three more that the model shows by its definitions:

- The same sentence says that `dependency_up` "dipped and recovered"; for Redis
  only the dip is checked (`Passes`, `score_experiment.py:122-124`).
- The check "/shorten 500 == 0" and the comment at `score_experiment.py:86`
  speak of less than one event. A series of `http_requests_total` begins with
  its first event, which `increase()` does not see (`Heard`): one 500 of each pod
  passes.
- The comment at `score_experiment.py:158-160` says that events of one
  experiment cannot bleed into another. Each window reaches 60 or 40 s into the
  next fault (`Window` against `NodeTime`), so a restart there is blamed on
  both. The overlap is also what `NoBlindSpot` rests on: an event that comes
  after the last scrape of one window, or before the first of the next, is
  counted by the other.

Bounds. `Horizon` = 120 units is the Job's deadline, after which the
orchestrator is gone; a Workflow started at the latest ends before. A run is
followed up to its verdict. `CHECK_DEADLOCK` is off because a run of the gate
ends. One trouble at a time shows what each one does; combinations, such as a
blackout that hides a missing fault, are covered by the theorems. The other
numbers are the limits of the properties. `NoBlindSpot` needs the controller's
delay and the time between two scrapes to stay within the 40 s that two windows
overlap at least: the run has 10 s and 30 s, and with 10 s more of either a
restart escapes. `ScoredWhenOver` holds up to a delay of 290 s and fails at
300 s, where the hard cap ends the Workflow while the window of the signer is
open. No document speaks of such delays. `PollLimit` and `LoadWait` are the sleeps
of the two loops alone, 900 s and 240 s; their 228 calls of kubectl, the clean-up
and the scoring share the 60 s that the Job's 1200 s leave beside them
(`MaxKubectl`, `MaxSweep`, `MaxScoring`).

`ChaosGateProofs` proves, for any pods, any troubles, any number of them and any
delay not named:

- `TypeCorrect`; `RealOutages` (`OutagesAreReal`); `RealRecovery`
  (`RecoveryIsReal`).
- `PassesAreDelivered` (`PassIsDelivered`), if clean-up, scoring and the kubectl
  calls of both loops take less than those 60 s together.
- `ScoresWhenOver` (`ScoredWhenOver`), if the controller is away for at most
  290 s.
- `NothingEscapes` (`NoBlindSpot`), if `MaxLag + Scrape` is at most 40 s.
- `PassesHaveRun`: a gate that exits 0 has scored the start times of three nodes
  of its own Workflow, in order and at least as far apart as the durations say.

The invariant `IInv`: `InOrder` (what the script has done at each point),
`SamplesAreTrue` (a gauge or a sample is 0 only if its dependency is `Blamed`:
failed in this run, left failed, or slow; requests were counted only where there
are samples), `ScoredAreReal` (what has passed so far has failed before),
`Timely` (how long the running node has lasted) and `InBudget` (how much of its
time the script may have used at each point). The heart of `RealOutages` is
`PassingIsBlamed`: a window with enough requests has samples, so its lowest value
is 0 because a sample was, and not because there is none. `RealRecovery` adds
`Recovering`: the gauge of Postgres is 1 when its window opens (`StartsHigh`), so
after a low reading it is 1 again only when Postgres is back.

The theorems about windows rest on the schedule of the Workflow. `OnSchedule`: a
node starts no later than `Begin`, its planned time, plus the delay of the
controller, and two nodes are at least as far apart as planned.
`PolledToTheEnd`: because the limit of the Workflow is below the limit of the
polls, scoring finds it over or never begun, and all its windows closed
(`EndsAfterWindows`: by the settle node, or by the hard cap if the delay is
small enough). That gives `ScoresWhenOver`. For `NothingEscapes`,
`SomeWindowHears` shows that from the first scrape of the campaign to the last
some window has its base and another scrape to come: that of the running node,
or, until that has its base, the one before. An event in such a window is
`Noted`: counted, or waiting for a scrape before the window ends
(`HeardIsNoted`, `NotedStays`). `Watched` says so of everything in `happened`, and
`Unmarred` that windows which have passed hold nothing that is not tolerated,
since they do not change once they are scored (`NoneOpen`).

`PassesHaveRun` needs no bound on any delay. `InTurn` says of the nodes what it
says of the start times, from `OnSchedule`; `ScoredHaveStarted` says that what has
passed so far had a start time, and that a node which starts late does not change
a time once collected. With `RealOutages` and `RealRecovery` this is what a pass
does say of the three experiments; `gate_signer` shows what it does not.

Left out: `annotate.py`, which cannot change the verdict, the log capture, the
check of the redirects' 95th percentile (`score_experiment.py:116-118`), and how
many requests TRAFFIC_GUARD counts: `traffic` says whether they are more than its
50.

## 7. The signer

`Signer` models the process that signs permits for the load generator, from
its import on, with the RPC node and the chain it depends on, the kubelet, the
operator and the virtual users of a test.

| Action | Code |
|---|---|
| `Connect` | `_build_web3`, `_build_wallets`: without a node or a key the import raises (`signer/main.py:98-130`) |
| `CheckAllowance` | balance and allowance of the current wallet (147-158); a failed call skips the wallet (189) |
| `SendApproval` | gas, nonce, signature, `send_raw_transaction` (160-178); the node may fail just after it took the transaction |
| `AwaitReceipt` | `wait_for_transaction_receipt` for up to 60 s (179-191) |
| `EndBootstrap` | the server starts with at least one wallet, or the import raises (193-199) |
| `Terminate`, `Kill` | the liveness probe fails three times, 10 + 2 * 20 s after the start at the earliest; SIGTERM does not stop the import, SIGKILL 30 s later does (`radius-signer.yaml:72-77`) |
| `Sign` | `/sign-permit2` (252-286), `sign_permit_witness_transfer` (`permit2.py:60-108`) |
| `CheckHealth`, `CheckWallets` | `setup()` of `loadgen.js:103-151` on the answers of `/health` of the app and of the signer, and of `/wallets`; either check may fail for what is not modelled, the app or a balance |
| `Pay` | the permit goes to `/shorten` and is settled or lost (`loadgen.js:217-238`) |

External: `RpcFails`, `RpcReturns`, `Mine` (an approval is mined and may
revert), `TopUp`, `Enqueue`, `Crash`. An approval survives the
boot that sent it, so `queue` and `approved` are not reset by `StartAgain`, and a
receipt that is awaited may come behind those of earlier boots. `Tick` is 10 s,
which pass only while the boot waits.

`_build_wallets` skips keys that are not set but numbers the wallets by their
keys; `/sign-permit2` looks the wallet up by position. `Position`, `Addressed`
and `Selected` keep the two apart.

| Run | Instance | Shows |
|---|---|---|
| `signer` | keys 1 and 3, two virtual users, the timeouts of the code in units of 10 s, 2 faults, fair | `BootstrappedIsApproved`, `CheckedUsersAreSigned`, `UsersShareNothing`, `RestartsHeal`, types |

`UsersShareNothing` is the sentence "each VU maps to one signer wallet" of
`loadgen.js:58`: no two users ever hold permits of one wallet, also when the
signer restarts between their signatures and other wallets are usable then. A
signer that counted its positions among the usable wallets would break it.

Bounds. With the second key missing the last wallet's number differs from its
position. Two faults let an RPC failure or a lost answer meet a revert or a
crash. Queues longer than two are not told apart: what matters is whether the
approval sent last has others before it. There are as many keys as users in the
run, so `setup()` selects them all; that it selects the right ones of more keys is
the theorem `ChecksHold`.
The phase of the probe is free within its period (`ProbePeriod`).

Fairness: the process goes on, time passes, the kubelet kills what it must, an
approval is mined in the end, and the operator does restart a signer that
refuses a wallet which has gas money, as its answer tells him to
(`main.py:266`). Nobody has to fund a wallet, run a test or bring the node
back: `RestartsHeal` is stated for a node that stays.

`RestartsHeal` is the reason why a boot that needs 180 s for three wallets under
a probe that allows about 50 s is no loop: an approval that a killed boot left
behind is found by a later one. That it is mined is needed. One that never is
(`nonce` at `"pending"` queues the next one behind it) restarts the pod for
ever, other approved wallets or not, for each boot waits 60 s for its receipt;
`main.py:143` says that "the pod only refuses to start if every wallet fails".

`docs/design/x402-migration.md:202` says that a 503 of the signer "should be
impossible after boot". A wallet whose approval failed is refused with 503
(`WalletFails`, `SignAnswer`) until a restart; `setup()` keeps a test from
starting with it.

`SignerProofs` proves, for any keys, number of users, timeouts and faults:
`TypeCorrect`; `SignsForApprovedWallets` (`BootstrappedIsApproved`), whose
strengthening says that a wallet with an "ok" receipt is approved;
`ChecksHold` (`CheckedUsersAreSigned`), by counting: the first VUS keys
are those at the positions 0 to VUS - 1; and `OneWalletPerUser`
(`UsersShareNothing`), since a user holds permits of the wallet it addresses
(`OwnWallet`) and two positions are two keys. `RestartsHeal` is model-checked
only.

Left out: the arithmetic of the SBC balances (`loadgen.js:88-101`); its check is on
the average that a wallet pays, so with the arrival-rate profile, where idle users
take the iterations of slow ones, a checked wallet may still run dry. The nonce
of a permit: 256 random bits (`permit2.py:80`), taken never to repeat, of which
nothing is stated. The deadline of a permit (300 s against an immediate payment;
`DeadlinesPass` in section 3 is about it), `normalize_v`, the EIP-712 encoding,
metrics, a `/wallets` that fails half way (it is a failed check).

## 8. Promotion and its installation

`Promotion` models what `kubernetes/kargo` and `applicationset.yaml` make of
Kargo and ArgoCD. Freight is a number, in the order of its discovery.

| Action | Code |
|---|---|
| `Discover` | `warehouse.yaml`: a new image or commit of the chart |
| `Promote` | `requestedFreight` and `promotionPolicies`: what is `Offered` may be promoted, also older freight |
| `Render` | git-clone to git-commit, in the promotion's own copy (`stage-dev.yaml:26-63`) |
| `Push` | git-push to `env/<stage>` (65-67) |
| `Update` | argocd-update ends when the environment runs the branch (69-76); then the verification starts, or, in prod, the freight is the Stage's at once |
| `FailStep` | a step fails; what was pushed stays |
| `Sync` | the automated sync of `applicationset.yaml:38-41`, asked for or not |
| `EndVerification` | the AnalysisRun passes or does not (`analysistemplate.yaml`); what the gate's verdict means is section 6 |

What is taken from Kargo: a Stage runs one promotion at a time and none while it
verifies. Verifications that are repeated by hand and approvals of freight that
skip a Stage, which its UI offers, are not modelled: they are no part of what
the repository configures.

`GatedDelivery` is the promise: an environment receives freight that passed in
the one before it, and only what runs passes. `Promotion` implements it with
`passed <- verified`.

`Bootstrap` extends it with phase 06 of the platform setup, which installs all
this while Kargo already works on what is there. `at` is the next command of
`Commands`, the script of `06-gitops-and-kargo.sh:16-71`: `Apply` is `k8s_apply`
and `Await` is `wait_for` of `lib.sh`, whose timeout may end the script. `Abort`
is a command that fails, before or after the cluster took it, or an operator
who interrupts; `Begin` runs the script again from its first command, passing
over what is there already. `Reconcile` is a controller that creates an object
from one that was applied, in its own time. One of these objects is the
namespace of the Kargo project: the script applies `project.yaml` and at once
objects that live in its namespace (44-50), without a wait; if Kargo has not
created it by then the apply fails and ends the script (`Accepted`), and a re-run
finds it. A step of the pipeline needs its
objects (`Promoting`, `Syncing`, `Elsewhere`).

| Run | Instance | Shows |
|---|---|---|
| `promotion` | 2 freights, the installation, 1 failed step of a promotion, 1 failed command, fair | `ProdPassedTheGates`, `VerdictIsAboutWhatRuns`, `ImplementsGatedDelivery`, `PromotionsEnd`; `DevFindsItsApplication`, `RerunsComplete`; types |

`DevFindsItsApplication` is the constraint of `06-gitops-and-kargo.sh:3`, whose
breach needed manual recovery once
(`docs/migrations/2026-05-27-ajprojectplatform.md:219`), under re-runs and late
controllers. It is stated for dev only, as the code ensures it: the script waits
for the Application of dev alone (62-65) and then logs that all three are there;
staging and prod are promoted by hand, later.

Bounds. Two freights let one overtake or follow the other in any Stage; a third
would be as the second. A failed step and a failed command divide any promotion
and any run of the script.

Fairness: Kargo goes on with a promotion it has begun, ArgoCD syncs, controllers
get round to what was applied, and the operator runs the script until it is
complete. Nobody has to promote, new freight need not appear, verifications may
take for ever.

`PromotionProofs` proves for any amount of freight and any number of failures:
`GatesHold` (`ProdPassedTheGates`), `VerdictsAreTrue` (`VerdictIsAboutWhatRuns`)
and `PipelineIsGated` (`ImplementsGatedDelivery`). The strengthening follows the
freight of a promotion from the offer to the branch: what is being promoted,
pushed or run in a Stage was verified upstream, and while a Stage verifies its
branch is what runs, so that a late sync changes nothing. `NoStageIsSkipped`
follows from the refinement: staging and prod never run, and are never said to
have verified, freight that has not passed in the Stage before. `BootstrapProofs` proves `BootTypeCorrect`; `InstallsThePipeline`, that
every step of the installation is a step of `Promotion` or leaves it alone, so
that its theorems hold here (`GatesHoldWhileInstalling`, `InstallationIsGated`);
and, from the invariant that the script is past a command only if what the
command applies or waits for is there, and that nothing removes it,
`PromotionsFindTheirApplication` and `CompletionIsReal`: the line "Phase 06
complete" is reached only with every such object in place. `PromotionsEnd` and `RerunsComplete` are
model-checked only.

Left out: the forced sync of chaos-jobs and the restart of a Grafana pod, the
phases before 06, which are taken as done, and a kubectl context that is
switched while the script runs.

## 9. Not modelled, and why

- **The other phases of the platform setup** (`00`-`05`, `07`) are gcloud,
  terraform, helm and kubectl commands in a row, each against a cloud service; a
  model of them would say what they say. Met while reading them:
  `bootstrap.sh:83` exports `SECRETS`, which is a bash array and is not passed on
  by `export`, so that `02-secrets.sh:15` does not see it; phase 03 exits 0 when
  its plan is declined (`03-terraform.sh:75`), and the later phases then run
  against whatever cluster kubectl points at, about which phase 07 only warns.
- **`annotate.py`** writes the verdict to Grafana after it is decided and cannot
  change it.
- **Helm charts, Terraform, Argo CD and CI files** are declarative: they keep no
  state and have no operations of their own. Their probes, limits and deadlines
  are in the modules they matter to.
- **Dashboards, the diagram generator, build and contract tools** are layout or
  one-shot commands.
- Hazards that no property covers are in `PROJECT.json` with the reason.

## 10. Running the checks

Each run of `PROJECT.json` is `tlc -config <cfg> <module>`; each `*Proofs.tla`
is checked by `tlapm <module>.tla`. Out of the prover's reach, and therefore
model-checked only: liveness under fairness and what rests on `ENABLED`. These
are `EveryRequestEnds`, `PendingIsResolved`, `EveryVisitEnds`,
`ReadinessFollowsPostgres`, `GaugesFollow`, `RestartsHeal`, `PromotionsEnd` and
`RerunsComplete`. Every other property of a passing run is a theorem.
