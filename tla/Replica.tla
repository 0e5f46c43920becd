------------------------------- MODULE Replica -------------------------------
(***************************************************************************)
(* The health of one replica of the app (app/main.py): the lazily built    *)
(* asyncpg pool and Redis client, the readiness endpoint, the monitor that *)
(* publishes dependency_up, and the kubelet that probes /ready.            *)
(*                                                                         *)
(* A task is a coroutine that checks the dependencies: the lifespan at     *)
(* boot, the monitor loop, and the calls of /ready.  Each await is a point *)
(* of pc.  POST /shorten appears as the number of connections it holds     *)
(* while it waits for the facilitator (see Shorten).                       *)
(***************************************************************************)
EXTENDS FiniteSets, Naturals

CONSTANTS
    Probes,            \* calls of /ready that may be in progress together
    NoTask,
    PoolMax,           \* max_size of the pool
    FailureThreshold,  \* failureThreshold of the readinessProbe
    MaxFaults          \* bound on outages, restarts, late answers of Redis

Boot == "boot"
Monitor == "monitor"
Tasks == Probes \cup {Boot, Monitor}

ASSUME ReplicaAssumption ==
    /\ IsFiniteSet(Probes)
    /\ Probes \cap {Boot, Monitor} = {}
    /\ NoTask \notin Tasks
    /\ PoolMax \in Nat \ {0}
    /\ FailureThreshold \in Nat \ {0}
    /\ MaxFaults \in Nat

Dependencies == {"postgres", "redis"}

VARIABLES
    up,            \* which dependencies answer
    faults,        \* outages, restarts, late answers of Redis
    db_pool,       \* the pool is published
    redis_client,  \* the client is published
    db_lock,       \* the task that holds _db_lock
    redis_lock,    \* the task that holds _redis_lock
    started,       \* _started
    gauge,         \* dependency_up
    pc,            \* the await each task is at
    alive,         \* the connection a task holds is usable
    held,          \* connections held by POST /shorten
    waiting,       \* the call of /ready the kubelet waits for
    failures,      \* failed probes in a row
    inService      \* the pod is in the endpoints of the Service

world == <<up, faults>>
globals == <<db_pool, redis_client, db_lock, redis_lock, started>>
kubelet == <<waiting, failures, inService>>
vars == <<world, globals, gauge, pc, alive, held, kubelet>>

PoolPoints == {"poolLock", "poolBuild", "poolSchema"}
RedisPoints == {"redisLock", "redisBuild", "redisPing"}
Points == PoolPoints \cup RedisPoints \cup {"idle", "acquire", "select1", "done"}

TypeOK ==
    /\ up \in [Dependencies -> BOOLEAN]
    /\ faults \in 0 .. MaxFaults
    /\ db_pool \in BOOLEAN
    /\ redis_client \in BOOLEAN
    /\ db_lock \in Tasks \cup {NoTask}
    /\ redis_lock \in Tasks \cup {NoTask}
    /\ started \in BOOLEAN
    /\ gauge \in [Dependencies -> BOOLEAN]
    /\ pc \in [Tasks -> Points]
    /\ alive \in [Tasks -> BOOLEAN]
    /\ held \in 0 .. PoolMax
    /\ waiting \in Probes \cup {NoTask}
    /\ failures \in 0 .. FailureThreshold
    /\ inService \in BOOLEAN

\* A process that has just started: the lifespan calls ensure_db_pool.
BootPoints == [t \in Tasks |-> IF t = Boot THEN "poolLock" ELSE "idle"]

Init ==
    /\ up \in [Dependencies -> BOOLEAN]
    /\ faults = 0
    /\ db_pool = FALSE
    /\ redis_client = FALSE
    /\ db_lock = NoTask
    /\ redis_lock = NoTask
    /\ started = FALSE
    /\ gauge = [d \in Dependencies |-> FALSE]
    /\ pc = BootPoints
    /\ alive = [t \in Tasks |-> TRUE]
    /\ held = 0
    /\ waiting = NoTask
    /\ failures = 0
    /\ inService = FALSE

At(t, point) == pc[t] = point

Goto(t, point) == pc' = [pc EXCEPT ![t] = point]

\* The lifespan has yielded: requests are served and the monitor runs.
Serving == At(Boot, "done")

-----------------------------------------------------------------------------
(* Where a task goes on: with a pool or without, with a client or without. *)

PoolPoint == IF db_pool THEN "acquire" ELSE "poolLock"

WithRedis(t) == IF t = Boot THEN "done" ELSE "redisPing"

RedisPoint(t) == IF redis_client THEN WithRedis(t) ELSE "redisLock"

WithPool(t) == IF t = Boot THEN RedisPoint(t) ELSE "acquire"

\* The kubelet counts the outcome of a probe.
Count(ok) ==
    /\ failures' = IF ok THEN 0
                   ELSE IF failures < FailureThreshold THEN failures + 1
                   ELSE failures
    /\ inService' = (ok \/ (inService /\ failures + 1 < FailureThreshold))

\* /ready answers 200 or 503.  The kubelet no longer listens to a call that
\* it has given up.
Answer(t, ok) ==
    /\ Goto(t, "idle")
    /\ IF waiting = t
       THEN waiting' = NoTask /\ Count(ok)
       ELSE UNCHANGED kubelet

SetGauge(d, value) == gauge' = [gauge EXCEPT ![d] = value]

\* Mutated PostgresDown: the monitor skips the gauge when the check raises.
PostgresDownKeepingGauge(t) ==
    \/ t \in Probes /\ Answer(t, FALSE) /\ UNCHANGED gauge
    \/ /\ t \in {Boot, Monitor}
       /\ Goto(t, RedisPoint(t))
       /\ UNCHANGED <<gauge, kubelet>>

\* No pool, or SELECT 1 failed.
PostgresDown(t) ==
    \/ t \in Probes /\ Answer(t, FALSE) /\ UNCHANGED gauge
    \/ t = Boot /\ Goto(t, RedisPoint(t)) /\ UNCHANGED <<gauge, kubelet>>
    \/ /\ t = Monitor
       /\ SetGauge("postgres", FALSE)
       /\ Goto(t, RedisPoint(t))
       /\ UNCHANGED kubelet

RedisDown(t) ==
    \/ t \in Probes /\ Answer(t, FALSE) /\ UNCHANGED gauge
    \/ t = Boot /\ Goto(t, "done") /\ UNCHANGED <<gauge, kubelet>>
    \/ /\ t = Monitor
       /\ SetGauge("redis", FALSE)
       /\ Goto(t, "idle")
       /\ UNCHANGED kubelet

-----------------------------------------------------------------------------
(* ensure_db_pool.                                                         *)

\* Mutated TakePoolLock: the pool is not looked at again under the lock.
TakePoolLockUnchecked(t) ==
    /\ At(t, "poolLock")
    /\ db_lock = NoTask
    /\ db_lock' = t /\ Goto(t, "poolBuild")
    /\ UNCHANGED <<world, db_pool, redis_client, redis_lock, started, gauge,
                   alive, held, kubelet>>

\* async with _db_lock, and the second look at db_pool.
TakePoolLock(t) ==
    /\ At(t, "poolLock")
    /\ db_lock = NoTask
    /\ \/ db_pool /\ Goto(t, WithPool(t)) /\ UNCHANGED db_lock
       \/ ~db_pool /\ db_lock' = t /\ Goto(t, "poolBuild")
    /\ UNCHANGED <<world, db_pool, redis_client, redis_lock, started, gauge,
                   alive, held, kubelet>>

\* create_pool connects.
BuildPool(t) ==
    /\ At(t, "poolBuild")
    /\ up["postgres"]
    /\ Goto(t, "poolSchema")
    /\ alive' = [alive EXCEPT ![t] = TRUE]
    /\ UNCHANGED <<world, globals, gauge, held, kubelet>>

\* SCHEMA_SQL is executed, the pool is published, the lock released.
PublishPool(t) ==
    /\ At(t, "poolSchema")
    /\ up["postgres"] /\ alive[t]
    /\ db_pool' = TRUE
    /\ db_lock' = NoTask
    /\ Goto(t, WithPool(t))
    /\ UNCHANGED <<world, redis_client, redis_lock, started, gauge, alive,
                   held, kubelet>>

\* Either of them raises: no pool this time.
BuildFails(t) ==
    /\ pc[t] \in {"poolBuild", "poolSchema"}
    /\ db_lock' = NoTask
    /\ db_pool' = FALSE
    /\ PostgresDown(t)
    /\ UNCHANGED <<world, redis_client, redis_lock, started, alive, held>>

-----------------------------------------------------------------------------
(* SELECT 1 on a connection of the pool.                                   *)

SlotFree == held + Cardinality({t \in Tasks : At(t, "select1")}) < PoolMax

Acquire(t) ==
    /\ At(t, "acquire")
    /\ SlotFree
    /\ up["postgres"]
    /\ Goto(t, "select1")
    /\ alive' = [alive EXCEPT ![t] = TRUE]
    /\ UNCHANGED <<world, globals, gauge, held, kubelet>>

PingFails(t) ==
    /\ \/ At(t, "acquire") /\ SlotFree /\ ~up["postgres"]
       \/ At(t, "select1") /\ ~(up["postgres"] /\ alive[t])
    /\ PostgresDown(t)
    /\ UNCHANGED <<world, globals, alive, held>>

\* Mutated PingAnswers: Redis is required on every call.
PingAnswersWithoutLatch(t) ==
    /\ At(t, "select1")
    /\ up["postgres"] /\ alive[t]
    /\ \/ t \in Probes /\ UNCHANGED gauge
       \/ t = Monitor /\ SetGauge("postgres", TRUE)
    /\ Goto(t, RedisPoint(t))
    /\ UNCHANGED <<world, globals, alive, held, kubelet>>

\* A probe of a replica that has started is done; before that, and in the
\* monitor, Redis is next.
PingAnswers(t) ==
    /\ At(t, "select1")
    /\ up["postgres"] /\ alive[t]
    /\ \/ t \in Probes /\ started /\ Answer(t, TRUE) /\ UNCHANGED gauge
       \/ /\ t \in Probes /\ ~started
          /\ Goto(t, RedisPoint(t))
          /\ UNCHANGED <<gauge, kubelet>>
       \/ /\ t = Monitor
          /\ SetGauge("postgres", TRUE)
          /\ Goto(t, RedisPoint(t))
          /\ UNCHANGED kubelet
    /\ UNCHANGED <<world, globals, alive, held>>

-----------------------------------------------------------------------------
(* ensure_redis and the PING.                                              *)

TakeRedisLock(t) ==
    /\ At(t, "redisLock")
    /\ redis_lock = NoTask
    /\ \/ redis_client /\ Goto(t, WithRedis(t)) /\ UNCHANGED redis_lock
       \/ ~redis_client /\ redis_lock' = t /\ Goto(t, "redisBuild")
    /\ UNCHANGED <<world, db_pool, redis_client, db_lock, started, gauge,
                   alive, held, kubelet>>

PublishRedis(t) ==
    /\ At(t, "redisBuild")
    /\ up["redis"]
    /\ redis_client' = TRUE
    /\ redis_lock' = NoTask
    /\ Goto(t, WithRedis(t))
    /\ UNCHANGED <<world, db_pool, db_lock, started, gauge, alive, held,
                   kubelet>>

\* Redis is away, or up and slower than the 0.1 s timeouts of its client; an
\* answer that comes too late is counted among the faults.
NoAnswerFromRedis ==
    \/ ~up["redis"] /\ UNCHANGED world
    \/ /\ up["redis"]
       /\ faults < MaxFaults
       /\ faults' = faults + 1
       /\ UNCHANGED up

RedisBuildFails(t) ==
    /\ At(t, "redisBuild")
    /\ NoAnswerFromRedis
    /\ redis_client' = FALSE
    /\ redis_lock' = NoTask
    /\ RedisDown(t)
    /\ UNCHANGED <<db_pool, db_lock, started, alive, held>>

\* _started is set by the first probe that reaches both dependencies.
RedisAnswers(t) ==
    /\ At(t, "redisPing")
    /\ up["redis"]
    /\ \/ t \in Probes /\ started' = TRUE /\ Answer(t, TRUE) /\ UNCHANGED gauge
       \/ /\ t = Monitor
          /\ SetGauge("redis", TRUE)
          /\ Goto(t, "idle")
          /\ UNCHANGED <<started, kubelet>>
    /\ UNCHANGED <<world, db_pool, redis_client, db_lock, redis_lock, alive,
                   held>>

RedisPingFails(t) ==
    /\ At(t, "redisPing")
    /\ NoAnswerFromRedis
    /\ RedisDown(t)
    /\ UNCHANGED <<globals, alive, held>>

Step(t) ==
    \/ TakePoolLock(t) \/ BuildPool(t) \/ PublishPool(t) \/ BuildFails(t)
    \/ Acquire(t) \/ PingFails(t) \/ PingAnswers(t)
    \/ TakeRedisLock(t) \/ PublishRedis(t) \/ RedisBuildFails(t)
    \/ RedisAnswers(t) \/ RedisPingFails(t)

-----------------------------------------------------------------------------
(* Who starts the tasks, and who else uses the pool.                       *)

\* The kubelet sends the next probe; one it still listens to at a time.
SendProbe(t) ==
    /\ Serving
    /\ waiting = NoTask
    /\ At(t, "idle")
    /\ waiting' = t
    /\ Goto(t, PoolPoint)
    /\ UNCHANGED <<world, globals, gauge, alive, held, failures, inService>>

\* What may take longer than the second a probe is given: building the pool,
\* a Postgres or a connection that is gone, a pool held by paid writes.
Slow(t) ==
    \/ pc[t] \in PoolPoints
    \/ ~up["postgres"]
    \/ ~alive[t]
    \/ held = PoolMax

\* The kubelet gives a probe up; the call goes on in the replica.
ProbeTimesOut ==
    /\ waiting # NoTask
    /\ Slow(waiting)
    /\ waiting' = NoTask
    /\ Count(FALSE)
    /\ UNCHANGED <<world, globals, gauge, pc, alive, held>>

\* The monitor wakes up from its sleep.
MonitorWakes ==
    /\ Serving
    /\ At(Monitor, "idle")
    /\ Goto(Monitor, PoolPoint)
    /\ UNCHANGED <<world, globals, gauge, alive, held, kubelet>>

\* Mutated Hold: the pool has no max_size.
HoldUnbounded ==
    /\ Serving
    /\ db_pool
    /\ up["postgres"]
    /\ held' = held + 1
    /\ UNCHANGED <<world, globals, gauge, pc, alive, kubelet>>

\* POST /shorten takes a connection and keeps it across its two calls of the
\* facilitator, however long they take.
Hold ==
    /\ Serving
    /\ db_pool
    /\ up["postgres"]
    /\ SlotFree
    /\ held' = held + 1
    /\ UNCHANGED <<world, globals, gauge, pc, alive, kubelet>>

Release ==
    /\ held > 0
    /\ held' = held - 1
    /\ UNCHANGED <<world, globals, gauge, pc, alive, kubelet>>

\* Postgres takes the connections to it along.
Outage(d) ==
    /\ up[d]
    /\ faults < MaxFaults
    /\ faults' = faults + 1
    /\ up' = [up EXCEPT ![d] = FALSE]
    /\ alive' = IF d = "postgres" THEN [t \in Tasks |-> FALSE] ELSE alive
    /\ UNCHANGED <<globals, gauge, pc, held, kubelet>>

Recover(d) ==
    /\ ~up[d]
    /\ up' = [up EXCEPT ![d] = TRUE]
    /\ UNCHANGED <<faults, globals, gauge, pc, alive, held, kubelet>>

\* The container is started again: all of its memory is lost, _started too,
\* and the pod leaves the endpoints until it is ready again.
Restart ==
    /\ faults < MaxFaults
    /\ faults' = faults + 1
    /\ db_pool' = FALSE
    /\ redis_client' = FALSE
    /\ db_lock' = NoTask
    /\ redis_lock' = NoTask
    /\ started' = FALSE
    /\ gauge' = [d \in Dependencies |-> FALSE]
    /\ pc' = BootPoints
    /\ alive' = [t \in Tasks |-> TRUE]
    /\ held' = 0
    /\ waiting' = NoTask
    /\ failures' = 0
    /\ inService' = FALSE
    /\ UNCHANGED up

\* The steps at which a task waits for others.
Wait(t) == TakePoolLock(t) \/ Acquire(t) \/ TakeRedisLock(t)

Next ==
    \/ \E t \in Tasks : Step(t)
    \/ \E t \in Probes : SendProbe(t)
    \/ ProbeTimesOut
    \/ MonitorWakes
    \/ Hold
    \/ Release
    \/ \E d \in Dependencies : Outage(d) \/ Recover(d)
    \/ Restart

Spec == Init /\ [][Next]_vars

\* The event loop is fair, asyncio locks and the pool serve their waiters in
\* turn, a Postgres that is up does in the end let a pool be built, the
\* kubelet and the monitor go on, and paid writes end.  Outages need not.
FairSpec ==
    /\ Spec
    /\ \A t \in Tasks : WF_vars(Step(t)) /\ SF_vars(Wait(t))
    /\ SF_vars(\E t \in Tasks : BuildPool(t))
    /\ SF_vars(\E t \in Tasks : PublishPool(t))
    /\ WF_vars(\E t \in Probes : SendProbe(t))
    /\ WF_vars(MonitorWakes)
    /\ WF_vars(Release)

-----------------------------------------------------------------------------
(* Properties.                                                             *)

\* However many callers find no pool, no task ever builds one beside another
\* task or beside the published pool, and likewise for the Redis client.
BuiltOnce ==
    \A t \in Tasks :
        /\ pc[t] \in {"poolBuild", "poolSchema"} =>
              /\ ~db_pool
              /\ \A s \in Tasks \ {t} : pc[s] \notin {"poolBuild", "poolSchema"}
        /\ At(t, "redisBuild") =>
              /\ ~redis_client
              /\ \A s \in Tasks \ {t} : ~At(s, "redisBuild")

\* After the first success Redis is out of the way of readiness: no probe
\* that counts for a pod in service waits for Redis, so none can fail on it.
ServedWithoutRedis ==
    inService => \A t \in Probes : waiting = t => pc[t] \notin RedisPoints

\* Readiness follows Postgres: a lasting outage takes the pod out of service;
\* when Postgres stays, paid writes leave a connection, and Redis answers or
\* has answered once, the pod is in service, for good, without a restart.
ReadinessFollowsPostgres ==
    /\ <>[]~up["postgres"] => <>[]~inService
    /\ <>[](/\ up["postgres"]
            /\ held < PoolMax
            /\ started \/ up["redis"]) => <>[]inService

\* The gauges show a lasting outage and a lasting recovery of each dependency,
\* also while nothing else asks for them and while the other one is away.
GaugesFollow ==
    \A d \in Dependencies :
        /\ <>[]~up[d] => <>[]~gauge[d]
        /\ <>[]up[d] => <>[]gauge[d]

\* x402-migration.md, experiment 4: when the facilitator is slow or away the
\* pod itself stays healthy.  No outage, no restart, yet out of service?
PulledOnlyByFaults == [][inService /\ ~inService' => faults' > 0]_vars

=============================================================================
