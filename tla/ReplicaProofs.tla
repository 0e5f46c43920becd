---------------------------- MODULE ReplicaProofs ----------------------------
(***************************************************************************)
(* The safety of a replica, for any number of concurrent probes, any pool  *)
(* size, any failureThreshold and any number of outages and restarts.      *)
(***************************************************************************)
EXTENDS Replica, FiniteSetTheorems, TLAPS

-----------------------------------------------------------------------------
(* Type correctness.                                                       *)

\* Where a task goes on is a point.
LEMMA PointsAreTyped ==
    ASSUME NEW t
    PROVE  /\ PoolPoint \in Points
           /\ WithRedis(t) \in Points
           /\ RedisPoint(t) \in Points
           /\ WithPool(t) \in Points
BY DEF PoolPoint, WithRedis, RedisPoint, WithPool, Points, PoolPoints,
       RedisPoints

\* A move to a point keeps the type.
LEMMA GotoType ==
    ASSUME TypeOK, NEW t \in Tasks, NEW point \in Points, Goto(t, point)
    PROVE  pc' \in [Tasks -> Points]
BY DEF TypeOK, Goto

\* The kubelet's count stays within failureThreshold.
LEMMA CountType ==
    ASSUME TypeOK, NEW ok \in BOOLEAN, Count(ok)
    PROVE  failures' \in 0 .. FailureThreshold /\ inService' \in BOOLEAN
<1>1. failures' \in 0 .. FailureThreshold
  BY ReplicaAssumption DEF TypeOK, Count
<1>2. inService' \in BOOLEAN
  BY DEF Count
<1>. QED
  BY <1>1, <1>2

\* An answer of /ready keeps the types of the points and of the kubelet.
LEMMA AnswerType ==
    ASSUME TypeOK, NEW t \in Tasks, NEW ok \in BOOLEAN, Answer(t, ok)
    PROVE  /\ pc' \in [Tasks -> Points]
           /\ waiting' \in Probes \cup {NoTask}
           /\ failures' \in 0 .. FailureThreshold
           /\ inService' \in BOOLEAN
<1>1. pc' \in [Tasks -> Points]
  BY GotoType DEF Answer, Points
<1>2. CASE waiting = t
  BY <1>1, <1>2, CountType DEF Answer
<1>3. CASE waiting # t
  BY <1>1, <1>3 DEF Answer, kubelet, TypeOK
<1>. QED
  BY <1>2, <1>3

\* So does the outcome of a check that failed, and it keeps the gauges' type.
LEMMA DownType ==
    ASSUME TypeOK, NEW t \in Tasks, PostgresDown(t) \/ RedisDown(t)
    PROVE  /\ pc' \in [Tasks -> Points]
           /\ gauge' \in [Dependencies -> BOOLEAN]
           /\ waiting' \in Probes \cup {NoTask}
           /\ failures' \in 0 .. FailureThreshold
           /\ inService' \in BOOLEAN
<1>1. CASE t \in Probes /\ Answer(t, FALSE) /\ UNCHANGED gauge
  BY <1>1, AnswerType DEF TypeOK
<1>2. CASE UNCHANGED <<gauge, kubelet>> /\ \E point \in Points : Goto(t, point)
  BY <1>2, GotoType DEF TypeOK, kubelet
<1>3. CASE /\ UNCHANGED kubelet
           /\ \E point \in Points : Goto(t, point)
           /\ \E d \in Dependencies : SetGauge(d, FALSE)
  BY <1>3, GotoType DEF TypeOK, kubelet, SetGauge
<1>. QED
  BY <1>1, <1>2, <1>3, PointsAreTyped
     DEF PostgresDown, RedisDown, Dependencies, Points

\* A free slot is a slot: paid writes hold fewer connections than there are.
LEMMA SlotFreeBound ==
    ASSUME TypeOK, SlotFree PROVE held + 1 \in 0 .. PoolMax
<1>. DEFINE busy == {t \in Tasks : At(t, "select1")}
<1>1. IsFiniteSet({Boot, Monitor})
  <2>1. {Boot, Monitor} = ({} \cup {Boot}) \cup {Monitor}
    OBVIOUS
  <2>. QED
    BY <2>1, FS_EmptySet, FS_AddElement
<1>2. IsFiniteSet(Tasks)
  BY <1>1, FS_Union, ReplicaAssumption DEF Tasks
<1>3. IsFiniteSet(busy)
  BY <1>2, FS_Subset
<1>4. Cardinality(busy) \in Nat
  BY <1>3, FS_CardinalityType
<1>. QED
  BY <1>4, ReplicaAssumption DEF TypeOK, SlotFree

\* A Redis that does not answer changes nothing but the count of faults.
LEMMA NoAnswerType ==
    ASSUME TypeOK, NoAnswerFromRedis
    PROVE  up' \in [Dependencies -> BOOLEAN] /\ faults' \in 0 .. MaxFaults
<1>1. MaxFaults \in Nat
  BY ReplicaAssumption
<1>. QED
  BY <1>1 DEF TypeOK, NoAnswerFromRedis, world

\* Every step of a task, of the kubelet and of the world keeps every type.
LEMMA TypeStep == TypeOK /\ [Next]_vars => TypeOK'
<1>. SUFFICES ASSUME TypeOK, [Next]_vars PROVE TypeOK'
  OBVIOUS
<1>. USE DEF world, globals, kubelet
<1>1. ASSUME NEW t \in Tasks, TakePoolLock(t) PROVE TypeOK'
  BY <1>1, GotoType, PointsAreTyped DEF TypeOK, TakePoolLock, Points, PoolPoints
<1>2. ASSUME NEW t \in Tasks, BuildPool(t) PROVE TypeOK'
  BY <1>2, GotoType DEF TypeOK, BuildPool, Points, PoolPoints
<1>3. ASSUME NEW t \in Tasks, PublishPool(t) PROVE TypeOK'
  BY <1>3, GotoType, PointsAreTyped DEF TypeOK, PublishPool
<1>4. ASSUME NEW t \in Tasks, BuildFails(t) PROVE TypeOK'
  BY <1>4, DownType DEF TypeOK, BuildFails
<1>5. ASSUME NEW t \in Tasks, Acquire(t) PROVE TypeOK'
  BY <1>5, GotoType DEF TypeOK, Acquire, Points
<1>6. ASSUME NEW t \in Tasks, PingFails(t) PROVE TypeOK'
  BY <1>6, DownType DEF TypeOK, PingFails
<1>7. ASSUME NEW t \in Tasks, PingAnswers(t) PROVE TypeOK'
  <2>1. CASE t \in Probes /\ Answer(t, TRUE) /\ UNCHANGED gauge
    BY <1>7, <2>1, AnswerType DEF TypeOK, PingAnswers
  <2>2. CASE /\ Goto(t, RedisPoint(t))
             /\ UNCHANGED kubelet
             /\ UNCHANGED gauge \/ SetGauge("postgres", TRUE)
    BY <1>7, <2>2, GotoType, PointsAreTyped DEF TypeOK, PingAnswers, SetGauge
  <2>. QED
    BY <1>7, <2>1, <2>2 DEF PingAnswers
<1>8. ASSUME NEW t \in Tasks, TakeRedisLock(t) PROVE TypeOK'
  BY <1>8, GotoType, PointsAreTyped
     DEF TypeOK, TakeRedisLock, Points, RedisPoints
<1>9. ASSUME NEW t \in Tasks, PublishRedis(t) PROVE TypeOK'
  BY <1>9, GotoType, PointsAreTyped DEF TypeOK, PublishRedis
<1>10. ASSUME NEW t \in Tasks, RedisBuildFails(t) PROVE TypeOK'
  <2>1. up' \in [Dependencies -> BOOLEAN] /\ faults' \in 0 .. MaxFaults
    BY <1>10, NoAnswerType DEF RedisBuildFails
  <2>. QED
    BY <1>10, <2>1, DownType DEF TypeOK, RedisBuildFails
<1>11. ASSUME NEW t \in Tasks, RedisAnswers(t) PROVE TypeOK'
  <2>1. CASE t \in Probes /\ started' = TRUE /\ Answer(t, TRUE) /\ UNCHANGED gauge
    BY <1>11, <2>1, AnswerType DEF TypeOK, RedisAnswers
  <2>2. CASE /\ Goto(t, "idle")
             /\ UNCHANGED <<started, kubelet>>
             /\ SetGauge("redis", TRUE)
    BY <1>11, <2>2, GotoType DEF TypeOK, RedisAnswers, SetGauge, Points
  <2>. QED
    BY <1>11, <2>1, <2>2 DEF RedisAnswers
<1>12. ASSUME NEW t \in Tasks, RedisPingFails(t) PROVE TypeOK'
  <2>1. up' \in [Dependencies -> BOOLEAN] /\ faults' \in 0 .. MaxFaults
    BY <1>12, NoAnswerType DEF RedisPingFails
  <2>. QED
    BY <1>12, <2>1, DownType DEF TypeOK, RedisPingFails
<1>13. ASSUME NEW t \in Probes, SendProbe(t) PROVE TypeOK'
  BY <1>13, GotoType, PointsAreTyped DEF TypeOK, SendProbe, Tasks
<1>14. CASE ProbeTimesOut
  BY <1>14, CountType DEF TypeOK, ProbeTimesOut
<1>15. CASE MonitorWakes
  BY <1>15, GotoType, PointsAreTyped DEF TypeOK, MonitorWakes, Tasks
<1>16. CASE Hold
  BY <1>16, SlotFreeBound DEF TypeOK, Hold
<1>17. CASE Release
  BY <1>17, ReplicaAssumption DEF TypeOK, Release
<1>18. ASSUME NEW d \in Dependencies, Outage(d) PROVE TypeOK'
  <2>1. faults' \in 0 .. MaxFaults
    BY <1>18, ReplicaAssumption DEF TypeOK, Outage
  <2>. QED
    BY <1>18, <2>1 DEF TypeOK, Outage
<1>19. ASSUME NEW d \in Dependencies, Recover(d) PROVE TypeOK'
  BY <1>19 DEF TypeOK, Recover
<1>20. CASE Restart
  <2>1. faults' \in 0 .. MaxFaults
    BY <1>20, ReplicaAssumption DEF TypeOK, Restart
  <2>2. BootPoints \in [Tasks -> Points]
    BY DEF BootPoints, Points, PoolPoints
  <2>3. pc' \in [Tasks -> Points]
    BY <1>20, <2>2 DEF Restart
  <2>4. held' \in 0 .. PoolMax /\ failures' \in 0 .. FailureThreshold
    BY <1>20, ReplicaAssumption DEF Restart
  <2>5. alive' \in [Tasks -> BOOLEAN] /\ gauge' \in [Dependencies -> BOOLEAN]
    BY <1>20 DEF Restart
  <2>6. /\ db_lock' = NoTask /\ redis_lock' = NoTask /\ waiting' = NoTask
        /\ db_pool' = FALSE /\ redis_client' = FALSE /\ started' = FALSE
        /\ inService' = FALSE /\ up' = up
    BY <1>20 DEF Restart
  <2>. QED
    BY <2>1, <2>3, <2>4, <2>5, <2>6 DEF TypeOK
<1>21. CASE UNCHANGED vars
  BY <1>21 DEF TypeOK, vars
<1>. QED
  BY <1>1, <1>2, <1>3, <1>4, <1>5, <1>6, <1>7, <1>8, <1>9, <1>10, <1>11, <1>12,
     <1>13, <1>14, <1>15, <1>16, <1>17, <1>18, <1>19, <1>20, <1>21
     DEF Next, Step

-----------------------------------------------------------------------------
(* The locks.                                                              *)

Building(t) == pc[t] \in {"poolBuild", "poolSchema"}

\* A lock is held by the task that builds and by no other, and a task builds
\* only what is not published.
LocksHeld ==
    \A t \in Tasks :
        /\ db_lock = t <=> Building(t)
        /\ redis_lock = t <=> At(t, "redisBuild")
        /\ Building(t) => ~db_pool
        /\ At(t, "redisBuild") => ~redis_client

\* A task that does not go on to build leaves the points of the others alone.
LEMMA MovesOn ==
    ASSUME TypeOK, NEW t \in Tasks, NEW point, Goto(t, point)
    PROVE  pc'[t] = point /\ \A s \in Tasks \ {t} : pc'[s] = pc[s]
BY DEF TypeOK, Goto

\* A check that failed goes on to Redis or is over, and sets no gauge.
LEMMA DownMoves ==
    ASSUME TypeOK, NEW t \in Tasks, PostgresDown(t) \/ RedisDown(t)
    PROVE  /\ pc'[t] \in {"idle", "done", "redisPing", "redisLock"}
           /\ pc'[t] = "redisPing" => redis_client
           /\ t \in Probes => pc'[t] = "idle"
           /\ \A s \in Tasks \ {t} : pc'[s] = pc[s]
           /\ \A d \in Dependencies : gauge'[d] => gauge[d]
<1>1. /\ pc'[t] \in {"idle", "done", "redisPing", "redisLock"}
      /\ pc'[t] = "redisPing" => redis_client
      /\ t \in Probes => pc'[t] = "idle"
      /\ \A s \in Tasks \ {t} : pc'[s] = pc[s]
  <2>1. PICK point \in {"idle", "done", RedisPoint(t)} :
                 Goto(t, point) /\ (t \in Probes => point = "idle")
    BY ReplicaAssumption DEF PostgresDown, RedisDown, Answer
  <2>2. /\ point \in {"idle", "done", "redisPing", "redisLock"}
        /\ point = "redisPing" => redis_client
    BY <2>1 DEF RedisPoint, WithRedis
  <2>. QED
    BY <2>1, <2>2, MovesOn
<1>2. \A d \in Dependencies : gauge'[d] => gauge[d]
  BY DEF PostgresDown, RedisDown, SetGauge, TypeOK
<1>. QED
  BY <1>1, <1>2

\* Only the task that takes a free lock begins to build, and it has looked.
LEMMA LocksStep == TypeOK /\ LocksHeld /\ [Next]_vars => LocksHeld'
<1>. SUFFICES ASSUME TypeOK, LocksHeld, [Next]_vars PROVE LocksHeld'
  OBVIOUS
<1>. USE ReplicaAssumption DEF LocksHeld, Building, At, globals
<1>1. ASSUME NEW t \in Tasks, TakePoolLock(t) PROVE LocksHeld'
  <2>1. PICK point : Goto(t, point) /\ point \in Points \ {"poolSchema", "redisBuild"}
                     /\ (point = "poolBuild" => db_lock' = t /\ ~db_pool)
    BY <1>1 DEF TakePoolLock, WithPool, RedisPoint, WithRedis, Points,
                PoolPoints, RedisPoints
  <2>. QED
    BY <1>1, <2>1, MovesOn, ReplicaAssumption DEF TakePoolLock
<1>2. ASSUME NEW t \in Tasks, BuildPool(t) PROVE LocksHeld'
  BY <1>2, MovesOn DEF BuildPool
<1>3. ASSUME NEW t \in Tasks, PublishPool(t) PROVE LocksHeld'
  <2>1. WithPool(t) \in {"done", "redisPing", "redisLock", "acquire"}
    BY DEF WithPool, RedisPoint, WithRedis
  <2>. QED
    BY <1>3, <2>1, MovesOn DEF PublishPool
<1>4. ASSUME NEW t \in Tasks, BuildFails(t) PROVE LocksHeld'
  BY <1>4, DownMoves DEF BuildFails
<1>5. ASSUME NEW t \in Tasks, Acquire(t) PROVE LocksHeld'
  BY <1>5, MovesOn DEF Acquire
<1>6. ASSUME NEW t \in Tasks, PingFails(t) PROVE LocksHeld'
  BY <1>6, DownMoves DEF PingFails
<1>7. ASSUME NEW t \in Tasks, PingAnswers(t) PROVE LocksHeld'
  BY <1>7, MovesOn DEF PingAnswers, Answer, RedisPoint, WithRedis
<1>8. ASSUME NEW t \in Tasks, TakeRedisLock(t) PROVE LocksHeld'
  <2>1. PICK point : /\ Goto(t, point)
                     /\ point \in {"done", "redisPing", "redisBuild"}
                     /\ point = "redisBuild" => redis_lock' = t /\ ~redis_client
    BY <1>8 DEF TakeRedisLock, WithRedis
  <2>. QED
    BY <1>8, <2>1, MovesOn, ReplicaAssumption DEF TakeRedisLock
<1>9. ASSUME NEW t \in Tasks, PublishRedis(t) PROVE LocksHeld'
  BY <1>9, MovesOn DEF PublishRedis, WithRedis
<1>10. ASSUME NEW t \in Tasks, RedisBuildFails(t) PROVE LocksHeld'
  BY <1>10, DownMoves DEF RedisBuildFails
<1>11. ASSUME NEW t \in Tasks, RedisAnswers(t) PROVE LocksHeld'
  BY <1>11, MovesOn DEF RedisAnswers, Answer
<1>12. ASSUME NEW t \in Tasks, RedisPingFails(t) PROVE LocksHeld'
  BY <1>12, DownMoves DEF RedisPingFails
<1>13. ASSUME NEW t \in Tasks, SendProbe(t) \/ (t = Monitor /\ MonitorWakes)
       PROVE  LocksHeld'
  BY <1>13, MovesOn DEF SendProbe, MonitorWakes, PoolPoint
<1>14. CASE Restart
  BY <1>14 DEF Restart, BootPoints
<1>15. CASE UNCHANGED <<globals, pc>>
  BY <1>15
<1>. QED
  BY <1>1, <1>2, <1>3, <1>4, <1>5, <1>6, <1>7, <1>8, <1>9, <1>10, <1>11, <1>12,
     <1>13, <1>14, <1>15
     DEF Next, Step, Tasks, ProbeTimesOut, Hold, Release, Outage, Recover, vars

-----------------------------------------------------------------------------
(* What is published.                                                      *)

\* Only a published pool or client is used, shown by a gauge, or behind a
\* replica that has started.
Published ==
    /\ \A t \in Tasks :
          /\ pc[t] \in {"acquire", "select1"} => db_pool
          /\ At(t, "redisPing") => redis_client
          /\ t \in Probes /\ pc[t] \in RedisPoints => db_pool
    /\ held > 0 => db_pool
    /\ gauge["postgres"] => db_pool
    /\ gauge["redis"] => redis_client
    /\ started => db_pool /\ redis_client

\* A failed build or check of a task that has the lock, or waits for nothing
\* more, takes away nothing that is published.
LEMMA DownPublishes ==
    ASSUME TypeOK, Published, NEW t \in Tasks,
           PostgresDown(t) \/ RedisDown(t),
           db_pool' = db_pool, redis_client' = redis_client,
           UNCHANGED <<held, started>>
    PROVE  Published'
BY DownMoves DEF Published, At, Dependencies, RedisPoints

\* No step uses, shows or counts on what is not published; only a restart
\* takes a published pool or client away.
LEMMA PublishedStep ==
    TypeOK /\ LocksHeld /\ Published /\ [Next]_vars
        => /\ Published'
           /\ ((db_pool => db_pool') /\ (redis_client => redis_client')) \/ Restart
<1>. DEFINE Stays == /\ db_pool => db_pool'
                     /\ redis_client => redis_client'
<1>. SUFFICES ASSUME TypeOK, LocksHeld, Published, [Next]_vars
              PROVE  Published' /\ (Stays \/ Restart)
  BY Zenon
<1>. USE DEF Published, At, RedisPoints
<1>1. ASSUME NEW t \in Tasks, NEW point, Goto(t, point),
             point \in {"acquire", "select1"} => db_pool',
             point = "redisPing" => redis_client',
             t \in Probes /\ point \in RedisPoints => db_pool',
             Stays, UNCHANGED <<held, gauge, started>>
      PROVE  Published'
  BY <1>1, MovesOn
<1>2. ASSUME NEW t \in Tasks, TakePoolLock(t) PROVE Published' /\ Stays
  BY <1>1, <1>2 DEF TakePoolLock, WithPool, RedisPoint, WithRedis
<1>3. ASSUME NEW t \in Tasks, BuildPool(t) PROVE Published' /\ Stays
  BY <1>1, <1>3 DEF BuildPool, globals
<1>4. ASSUME NEW t \in Tasks, PublishPool(t) PROVE Published' /\ Stays
  BY <1>1, <1>4 DEF PublishPool, WithPool, RedisPoint, WithRedis
<1>5. ASSUME NEW t \in Tasks, BuildFails(t) PROVE Published' /\ Stays
  <2>1. ~db_pool /\ db_pool' = db_pool
    BY <1>5 DEF BuildFails, LocksHeld, Building, TypeOK
  <2>. QED
    BY <1>5, <2>1, DownPublishes DEF BuildFails
<1>6. ASSUME NEW t \in Tasks, Acquire(t) PROVE Published' /\ Stays
  BY <1>1, <1>6 DEF Acquire, globals
<1>7. ASSUME NEW t \in Tasks, PingFails(t) PROVE Published' /\ Stays
  BY <1>7, DownPublishes DEF PingFails, globals
<1>8. ASSUME NEW t \in Tasks, PingAnswers(t) PROVE Published' /\ Stays
  <2>1. db_pool /\ Stays /\ UNCHANGED <<db_pool, redis_client, held, started>>
    BY <1>8 DEF PingAnswers, globals
  <2>2. PICK point \in {"idle", RedisPoint(t)} : Goto(t, point)
    BY <1>8 DEF PingAnswers, Answer
  <2>3. point # "acquire" /\ point # "select1"
        /\ (point = "redisPing" => redis_client)
    BY <2>2 DEF RedisPoint, WithRedis
  <2>4. gauge'["redis"] = gauge["redis"]
    BY <1>8 DEF PingAnswers, SetGauge, TypeOK, Dependencies
  <2>. QED
    BY <2>1, <2>2, <2>3, <2>4, MovesOn
<1>9. ASSUME NEW t \in Tasks, TakeRedisLock(t) PROVE Published' /\ Stays
  BY <1>1, <1>9 DEF TakeRedisLock, WithRedis
<1>10. ASSUME NEW t \in Tasks, PublishRedis(t) PROVE Published' /\ Stays
  BY <1>1, <1>10 DEF PublishRedis, WithRedis
<1>11. ASSUME NEW t \in Tasks, RedisBuildFails(t) PROVE Published' /\ Stays
  <2>1. ~redis_client /\ redis_client' = redis_client
    BY <1>11 DEF RedisBuildFails, LocksHeld, TypeOK
  <2>. QED
    BY <1>11, <2>1, DownPublishes DEF RedisBuildFails
<1>12. ASSUME NEW t \in Tasks, RedisAnswers(t) PROVE Published' /\ Stays
  <2>1. redis_client /\ Goto(t, "idle")
        /\ UNCHANGED <<db_pool, redis_client, held>>
    BY <1>12 DEF RedisAnswers, Answer
  <2>2. gauge'["postgres"] = gauge["postgres"]
    BY <1>12 DEF RedisAnswers, SetGauge, TypeOK, Dependencies
  <2>3. started' => db_pool
    BY <1>12 DEF RedisAnswers, RedisPoints
  <2>. QED
    BY <2>1, <2>2, <2>3, MovesOn
<1>13. ASSUME NEW t \in Tasks, RedisPingFails(t) PROVE Published' /\ Stays
  BY <1>13, DownPublishes DEF RedisPingFails, globals
<1>14. ASSUME NEW t \in Tasks, SendProbe(t) \/ (t = Monitor /\ MonitorWakes)
       PROVE  Published' /\ Stays
  BY <1>1, <1>14 DEF SendProbe, MonitorWakes, PoolPoint, globals
<1>15. CASE Hold
  BY <1>15 DEF Hold, globals
<1>16. CASE Release
  BY <1>16 DEF Release, globals, TypeOK
<1>17. CASE Restart
  BY <1>17 DEF Restart, BootPoints, Dependencies
<1>18. CASE UNCHANGED <<globals, gauge, pc, held>>
  BY <1>18 DEF globals
<1>. QED
  BY <1>2, <1>3, <1>4, <1>5, <1>6, <1>7, <1>8, <1>9, <1>10, <1>11, <1>12,
     <1>13, <1>14, <1>15, <1>16, <1>17, <1>18
     DEF Next, Step, Tasks, ProbeTimesOut, Outage, Recover, vars

-----------------------------------------------------------------------------
(* Readiness.                                                              *)

\* A pod in service has started and has not failed too often, and the probe
\* that counts is at its check of Postgres: it neither builds a pool nor has
\* any business with Redis.
Service ==
    inService =>
        /\ started
        /\ failures < FailureThreshold
        /\ \A t \in Probes : waiting = t => pc[t] \in {"acquire", "select1"}

\* A pod in service has failed fewer probes in a row than failureThreshold.
LEMMA CountIs ==
    ASSUME TypeOK, NEW ok \in BOOLEAN, Count(ok), inService',
           inService => failures < FailureThreshold
    PROVE  failures' < FailureThreshold
<1>1. CASE ok
  BY <1>1, ReplicaAssumption DEF Count
<1>2. CASE ~ok
  BY <1>2, ReplicaAssumption DEF Count, TypeOK
<1>. QED
  BY <1>1, <1>2

\* The kubelet's view of a call that ends.
LEMMA AnswerIs ==
    ASSUME TypeOK, NEW t \in Tasks, NEW ok \in BOOLEAN, Answer(t, ok)
    PROVE  /\ pc'[t] = "idle"
           /\ \A s \in Tasks \ {t} : pc'[s] = pc[s]
           /\ waiting' # NoTask => waiting' = waiting /\ waiting # t
           /\ inService' => inService \/ ok
           /\ inService' /\ ~inService => waiting' = NoTask
           /\ inService' /\ (inService => failures < FailureThreshold)
                => failures' < FailureThreshold
<1>1. pc'[t] = "idle" /\ \A s \in Tasks \ {t} : pc'[s] = pc[s]
  BY MovesOn DEF Answer
<1>2. CASE waiting = t
  BY <1>1, <1>2, CountIs DEF Answer, Count
<1>3. CASE waiting # t
  BY <1>1, <1>3, ReplicaAssumption DEF Answer, kubelet, Count, TypeOK
<1>. QED
  BY <1>2, <1>3

\* A check that failed takes a probe away from Redis and nobody into service.
LEMMA DownServes ==
    ASSUME TypeOK, Service, NEW t \in Tasks,
           PostgresDown(t) \/ RedisDown(t), started' = started
    PROVE  Service'
<1>1. CASE t \in Probes /\ Answer(t, FALSE)
  BY <1>1, AnswerIs, ReplicaAssumption
     DEF Service, Tasks
<1>2. CASE t \in {Boot, Monitor} /\ \E point : Goto(t, point) /\ UNCHANGED kubelet
  BY <1>2, MovesOn, ReplicaAssumption
     DEF Service, kubelet, Tasks
<1>. QED
  BY <1>1, <1>2 DEF PostgresDown, RedisDown

\* A probe goes to Redis or builds a pool only before the first success, and
\* only a success brings a pod into service.
LEMMA ServiceStep ==
    TypeOK /\ Published /\ Service /\ [Next]_vars => Service'
<1>. SUFFICES ASSUME TypeOK, Published, Service, [Next]_vars PROVE Service'
  OBVIOUS
<1>. USE ReplicaAssumption DEF Service, At
<1>1. ASSUME NEW t \in Tasks, NEW point, Goto(t, point),
             \/ t \notin Probes
             \/ point \in {"acquire", "select1"}
             \/ pc[t] \notin {"acquire", "select1"}
             \/ ~inService,
             UNCHANGED <<started, kubelet>>
      PROVE  Service'
  BY <1>1, MovesOn DEF kubelet, Tasks
<1>2. ASSUME NEW t \in Tasks, TakePoolLock(t) PROVE Service'
  BY <1>1, <1>2 DEF TakePoolLock
<1>3. ASSUME NEW t \in Tasks, BuildPool(t) PROVE Service'
  BY <1>1, <1>3 DEF BuildPool, globals
<1>4. ASSUME NEW t \in Tasks, PublishPool(t) PROVE Service'
  BY <1>1, <1>4 DEF PublishPool
<1>5. ASSUME NEW t \in Tasks, BuildFails(t) PROVE Service'
  BY <1>5, DownServes DEF BuildFails
<1>6. ASSUME NEW t \in Tasks, Acquire(t) PROVE Service'
  BY <1>1, <1>6 DEF Acquire, globals
<1>7. ASSUME NEW t \in Tasks, PingFails(t) PROVE Service'
  BY <1>7, DownServes DEF PingFails, globals
<1>8. ASSUME NEW t \in Tasks, PingAnswers(t) PROVE Service'
  <2>1. CASE t \in Probes /\ started /\ Answer(t, TRUE)
    BY <1>8, <2>1, AnswerIs DEF PingAnswers, globals, Tasks
  <2>2. CASE Goto(t, RedisPoint(t)) /\ (t \in Probes => ~started) /\ UNCHANGED kubelet
    BY <1>1, <1>8, <2>2 DEF PingAnswers, globals
  <2>. QED
    BY <1>8, <2>1, <2>2 DEF PingAnswers
<1>9. ASSUME NEW t \in Tasks, TakeRedisLock(t) PROVE Service'
  BY <1>1, <1>9 DEF TakeRedisLock
<1>10. ASSUME NEW t \in Tasks, PublishRedis(t) PROVE Service'
  BY <1>1, <1>10 DEF PublishRedis
<1>11. ASSUME NEW t \in Tasks, RedisBuildFails(t) PROVE Service'
  BY <1>11, DownServes DEF RedisBuildFails
<1>12. ASSUME NEW t \in Tasks, RedisAnswers(t) PROVE Service'
  <2>1. CASE t \in Probes /\ started' = TRUE /\ Answer(t, TRUE)
    BY <2>1, AnswerIs DEF Tasks
  <2>2. CASE t = Monitor /\ Goto(t, "idle") /\ UNCHANGED <<started, kubelet>>
    BY <1>1, <2>2
  <2>. QED
    BY <1>12, <2>1, <2>2 DEF RedisAnswers
<1>13. ASSUME NEW t \in Tasks, RedisPingFails(t) PROVE Service'
  BY <1>13, DownServes DEF RedisPingFails, globals
<1>14. ASSUME NEW t \in Probes, SendProbe(t) PROVE Service'
  <2>1. inService => PoolPoint = "acquire"
    BY DEF PoolPoint, Published
  <2>. QED
    BY <1>14, <2>1, MovesOn DEF SendProbe, globals, Tasks
<1>15. CASE ProbeTimesOut
  BY <1>15, CountIs DEF ProbeTimesOut, globals, Count, Tasks
<1>16. CASE MonitorWakes
  <2>1. Monitor \in Tasks \ Probes
    BY DEF Tasks
  <2>. QED
    BY <1>16, <2>1, MovesOn DEF MonitorWakes, globals, kubelet, Tasks
<1>17. CASE Restart
  BY <1>17 DEF Restart
<1>18. CASE UNCHANGED <<started, pc, kubelet>>
  BY <1>18 DEF kubelet
<1>. QED
  BY <1>2, <1>3, <1>4, <1>5, <1>6, <1>7, <1>8, <1>9, <1>10, <1>11, <1>12,
     <1>13, <1>14, <1>15, <1>16, <1>17, <1>18
     DEF Next, Step, Hold, Release, Outage, Recover, vars, globals

-----------------------------------------------------------------------------
(* Theorems.                                                               *)

IInv == TypeOK /\ LocksHeld /\ Published /\ Service

\* The invariant holds when the process starts.
LEMMA IInvInit == Init => IInv
<1>. SUFFICES ASSUME Init PROVE IInv
  OBVIOUS
<1>1. BootPoints \in [Tasks -> Points]
  BY DEF BootPoints, Points, PoolPoints
<1>2. held \in 0 .. PoolMax /\ failures \in 0 .. FailureThreshold
      /\ faults \in 0 .. MaxFaults
  BY ReplicaAssumption DEF Init
<1>3. TypeOK
  BY <1>1, <1>2 DEF Init, TypeOK
<1>4. LocksHeld
  BY ReplicaAssumption DEF Init, BootPoints, LocksHeld, Building, At
<1>5. Published /\ Service
  BY DEF Init, BootPoints, Dependencies, Tasks, RedisPoints, Published, Service, At
<1>. QED
  BY <1>3, <1>4, <1>5 DEF IInv

\* The invariant from which the theorems below follow holds in every state.
THEOREM Inductive == Spec => []IInv
<1>1. IInv /\ [Next]_vars => IInv'
  BY TypeStep, LocksStep, PublishedStep, ServiceStep DEF IInv
<1>. QED
  BY <1>1, IInvInit, PTL DEF Spec

\* Every variable keeps its type; in particular the connections of a pool
\* never number more than max_size.
THEOREM TypeCorrect == Spec => []TypeOK
<1>1. IInv => TypeOK
  BY DEF IInv
<1>. QED
  BY <1>1, Inductive, PTL

\* The double-checked locks of ensure_db_pool and ensure_redis build one pool
\* and one client at a time, and none beside a published one.
THEOREM OnePoolOneClient == Spec => []BuiltOnce
<1>1. IInv => BuiltOnce
  BY DEF IInv, LocksHeld, Building, BuiltOnce, At
<1>. QED
  BY <1>1, Inductive, PTL

\* Once the pod is in service, no probe that counts depends on Redis.
THEOREM RedisIsOptional == Spec => []ServedWithoutRedis
<1>1. IInv => ServedWithoutRedis
  BY DEF IInv, Service, ServedWithoutRedis, RedisPoints
<1>. QED
  BY <1>1, Inductive, PTL

\* Whoever holds one of the two locks is in create_pool, in the schema or in
\* the ping under it, and waits neither for the other lock nor for a connection
\* of the published pool: no two tasks wait for each other, and no lock
\* outlives its build.
NobodyWaitsWithALock ==
    /\ \A t \in Tasks :
          /\ t = db_lock => pc[t] \in {"poolBuild", "poolSchema"}
          /\ t = redis_lock => pc[t] = "redisBuild"
          /\ ~(t = db_lock /\ t = redis_lock)

\* ensure_db_pool and ensure_redis leave their lock on every path, raised
\* exceptions included, and neither is called under the lock of the other.
THEOREM LocksCannotDeadlock == Spec => []NobodyWaitsWithALock
<1>1. IInv => NobodyWaitsWithALock
  BY DEF IInv, LocksHeld, Building, NobodyWaitsWithALock, At
<1>. QED
  BY <1>1, Inductive, PTL

\* What a request of a pod in service finds.
InServiceIsConnected == inService => db_pool /\ redis_client

\* A pod that the Service sends requests to has its pool and its client: the
\* 503 with which POST /shorten and GET /<code> answer while db_pool is None
\* can only come from a pod that is not in service.
THEOREM ServiceHasAPool == Spec => []InServiceIsConnected
<1>1. IInv => InServiceIsConnected
  BY DEF IInv, Published, Service, InServiceIsConnected
<1>. QED
  BY <1>1, Inductive, PTL

\* "A live client is never rebuilt" (ensure_redis), nor is a live pool: once
\* published, either stays until the process ends, whatever fails.
PublishedForGood ==
    [][((db_pool => db_pool') /\ (redis_client => redis_client')) \/ Restart]_vars

\* Failed builds reset the globals, but never ones that were published.
THEOREM LiveClientsAreKept == Spec => PublishedForGood
<1>1. IInv /\ [Next]_vars
        => ((db_pool => db_pool') /\ (redis_client => redis_client')) \/ Restart
  BY PublishedStep DEF IInv
<1>. QED
  BY <1>1, Inductive, PTL DEF Spec, PublishedForGood

-----------------------------------------------------------------------------
(* What can take a pod out of service.                                     *)

\* A failure that counts against a pod in service: Postgres is away, it has
\* taken the connection of the probe along, or paid writes hold every
\* connection; and the pod goes with the last of failureThreshold in a row.
Justified ==
    /\ \/ ~up["postgres"]
       \/ ~alive[waiting]
       \/ held = PoolMax
    /\ ~inService' => failures + 1 = FailureThreshold

\* A failed check of a task counts against a pod in service only if the task
\* is the call the kubelet waits for.
LEMMA DownCounts ==
    ASSUME TypeOK, Service, inService, NEW t \in Tasks,
           PostgresDown(t) \/ RedisDown(t),
           failures' # failures \/ ~inService'
    PROVE  /\ waiting = t
           /\ pc[t] \in {"acquire", "select1"}
           /\ ~inService' => failures + 1 = FailureThreshold
<1>1. t \in Probes /\ Answer(t, FALSE) /\ waiting = t
  BY DEF PostgresDown, RedisDown, Answer, kubelet
<1>2. Count(FALSE)
  BY <1>1 DEF Answer
<1>3. ~inService' => ~(failures + 1 < FailureThreshold)
  BY <1>2 DEF Count
<1>. QED
  BY <1>1, <1>3, ReplicaAssumption DEF Service, TypeOK

\* Whatever a task does, readiness is lost only for reasons of Postgres.
LEMMA StepJustified ==
    ASSUME TypeOK, LocksHeld, Published, Service, inService,
           NEW t \in Tasks, Step(t), failures' > failures \/ ~inService'
    PROVE  Justified
<1>. USE DEF At, kubelet, globals
<1>1. failures' # failures \/ ~inService'
  BY ReplicaAssumption DEF TypeOK
<1>2. CASE BuildFails(t)
  BY <1>1, <1>2, DownCounts DEF BuildFails
<1>3. CASE PingFails(t)
  <2>1. /\ waiting = t
        /\ ~inService' => failures + 1 = FailureThreshold
    BY <1>1, <1>3, DownCounts DEF PingFails
  <2>. QED
    BY <1>3, <2>1 DEF PingFails, Justified
<1>4. CASE RedisBuildFails(t)
  BY <1>1, <1>4, DownCounts DEF RedisBuildFails
<1>5. CASE RedisPingFails(t)
  BY <1>1, <1>5, DownCounts DEF RedisPingFails
<1>6. ASSUME Answer(t, TRUE) PROVE FALSE
  <2>1. CASE waiting = t
    <3>1. failures' = 0 /\ inService'
      BY <1>6, <2>1 DEF Answer, Count
    <3>. QED
      BY <3>1, ReplicaAssumption DEF TypeOK
  <2>2. CASE waiting # t
    BY <1>1, <1>6, <2>2 DEF Answer
  <2>. QED
    BY <2>1, <2>2
<1>. QED
  BY <1>1, <1>2, <1>3, <1>4, <1>5, <1>6
     DEF Step, TakePoolLock, BuildPool, PublishPool, Acquire, PingAnswers,
         TakeRedisLock, PublishRedis, RedisAnswers

\* No Redis, no lock, no build and no other task fails the probe of a pod in
\* service.
OnlyPostgresOrPaidWrites ==
    [][inService /\ (failures' > failures \/ ~inService') => Justified \/ Restart]_vars

\* Readiness is lost to a restart, to Postgres or to paid writes that hold the
\* whole pool, never to Redis.  That the last of the three can happen without
\* any fault is what the run replica_busy shows.
THEOREM WhatTakesAPodOut == Spec => OnlyPostgresOrPaidWrites
<1>1. ASSUME IInv, [Next]_vars, inService, failures' > failures \/ ~inService'
      PROVE  Justified \/ Restart
  <2>. USE DEF IInv
  <2>1. ASSUME NEW t \in Tasks, Step(t) PROVE Justified
    BY <1>1, <2>1, StepJustified
  <2>2. CASE ProbeTimesOut
    <3>1. /\ waiting \in Probes
          /\ pc[waiting] \in {"acquire", "select1"}
      BY <1>1, <2>2 DEF ProbeTimesOut, Service, TypeOK
    <3>2. ~up["postgres"] \/ ~alive[waiting] \/ held = PoolMax
      BY <2>2, <3>1 DEF ProbeTimesOut, Slow, PoolPoints
    <3>3. ~inService' => failures + 1 = FailureThreshold
      <4>1. ~inService' => ~(failures + 1 < FailureThreshold)
        BY <1>1, <2>2 DEF ProbeTimesOut, Count
      <4>. QED
        BY <1>1, <4>1, ReplicaAssumption DEF Service, TypeOK
    <3>. QED
      BY <3>2, <3>3 DEF Justified
  <2>3. ASSUME UNCHANGED <<failures, inService>> PROVE FALSE
    BY <1>1, <2>3, ReplicaAssumption DEF TypeOK
  <2>. QED
    BY <1>1, <2>1, <2>2, <2>3
       DEF Next, SendProbe, MonitorWakes, Hold, Release, Outage, Recover, vars,
           kubelet
<1>2. IInv /\ [Next]_vars
        => (inService /\ (failures' > failures \/ ~inService')
              => Justified \/ Restart)
  BY <1>1
<1>. QED
  BY <1>2, Inductive, PTL DEF Spec, OnlyPostgresOrPaidWrites

-----------------------------------------------------------------------------
(* The pool.                                                               *)

Selecting == {t \in Tasks : At(t, "select1")}

\* max_size, over paid writes and the checks of Postgres together.
PoolIsBounded == held + Cardinality(Selecting) <= PoolMax

LEMMA SelectingIsFinite ==
    /\ IsFiniteSet(Tasks)
    /\ IsFiniteSet(Selecting) /\ Cardinality(Selecting) \in Nat
<1>1. IsFiniteSet(Probes \cup {Boot})
  BY ReplicaAssumption, FS_AddElement
<1>2. Tasks = (Probes \cup {Boot}) \cup {Monitor}
  BY DEF Tasks
<1>3. IsFiniteSet(Tasks)
  BY <1>1, <1>2, FS_AddElement
<1>. QED
  BY <1>3, FS_Subset, FS_CardinalityType DEF Selecting

\* A finite set grown by one element stays below a bound it was below.
LEMMA OneMore ==
    ASSUME NEW S, IsFiniteSet(S), NEW x, NEW T, T \subseteq S \cup {x},
           NEW n \in Nat, Cardinality(S) < n
    PROVE  Cardinality(T) <= n
<1>1. /\ IsFiniteSet(S \cup {x})
      /\ Cardinality(S) \in Nat
      /\ Cardinality(S \cup {x}) <= Cardinality(S) + 1
  BY FS_AddElement, FS_CardinalityType
<1>2. /\ Cardinality(T) <= Cardinality(S \cup {x})
      /\ Cardinality(T) \in Nat /\ Cardinality(S \cup {x}) \in Nat
  BY <1>1, FS_Subset, FS_CardinalityType
<1>. QED
  BY <1>1, <1>2

\* No step but Acquire puts a task on a connection, and it only its own task.
LEMMA SelectingStep ==
    ASSUME TypeOK, [Next]_vars
    PROVE  \/ Selecting' \subseteq Selecting
           \/ \E t \in Tasks : Acquire(t) /\ Selecting' \subseteq Selecting \cup {t}
<1>. USE DEF Selecting, At
<1>1. ASSUME NEW t \in Tasks, NEW point, Goto(t, point)
      PROVE  /\ Selecting' \subseteq Selecting \cup {t}
             /\ point # "select1" => Selecting' \subseteq Selecting
  BY <1>1, MovesOn
<1>2. ASSUME NEW t \in Tasks, PostgresDown(t) \/ RedisDown(t)
      PROVE  Selecting' \subseteq Selecting
  BY <1>2, DownMoves
<1>3. ASSUME NEW t
      PROVE  "select1" \notin {PoolPoint, WithRedis(t), RedisPoint(t), WithPool(t)}
  BY DEF PoolPoint, WithRedis, RedisPoint, WithPool
<1>4. ASSUME NEW t \in Tasks, Step(t), ~Acquire(t)
      PROVE  Selecting' \subseteq Selecting
  <2>1. CASE TakePoolLock(t) \/ BuildPool(t) \/ PublishPool(t)
    BY <1>1, <1>3, <2>1 DEF TakePoolLock, BuildPool, PublishPool
  <2>2. CASE BuildFails(t) \/ PingFails(t) \/ RedisBuildFails(t) \/ RedisPingFails(t)
    BY <1>2, <2>2 DEF BuildFails, PingFails, RedisBuildFails, RedisPingFails
  <2>3. CASE PingAnswers(t) \/ RedisAnswers(t)
    <3>1. PICK point \in {"idle", RedisPoint(t)} : Goto(t, point)
      BY <2>3 DEF PingAnswers, RedisAnswers, Answer
    <3>2. point # "select1"
      BY <3>1, <1>3
    <3>. QED
      BY <1>1, <3>1, <3>2
  <2>4. CASE TakeRedisLock(t) \/ PublishRedis(t)
    BY <1>1, <1>3, <2>4 DEF TakeRedisLock, PublishRedis
  <2>. QED
    BY <1>4, <2>1, <2>2, <2>3, <2>4 DEF Step
<1>5. ASSUME NEW t \in Tasks, Acquire(t)
      PROVE  Selecting' \subseteq Selecting \cup {t}
  BY <1>1, <1>5 DEF Acquire
<1>6. ASSUME NEW t \in Tasks, SendProbe(t) \/ (t = Monitor /\ MonitorWakes)
      PROVE  Selecting' \subseteq Selecting
  <2>1. PICK point : point # "select1" /\ Goto(t, point)
    BY <1>6 DEF SendProbe, MonitorWakes, PoolPoint
  <2>. QED
    BY <1>1, <2>1
<1>7. CASE Restart
  BY <1>7 DEF Restart, BootPoints
<1>8. CASE UNCHANGED pc
  BY <1>8
<1>. QED
  BY <1>4, <1>5, <1>6, <1>7, <1>8
     DEF Next, Tasks, ProbeTimesOut, Hold, Release, Outage, Recover, vars

\* Paid writes and checks that run together never borrow more connections
\* than the pool has.
THEOREM PoolIsNeverExceeded == Spec => []PoolIsBounded
<1>. DEFINE N == Cardinality(Selecting)
<1>1. Init => PoolIsBounded
  <2>. SUFFICES ASSUME Init PROVE held + N <= PoolMax
    BY DEF PoolIsBounded
  <2>1. Selecting = {}
    BY DEF Init, BootPoints, Selecting, At
  <2>2. N = 0 /\ held = 0
    BY <2>1, FS_EmptySet DEF Init
  <2>. QED
    BY <2>2, ReplicaAssumption
<1>2. TypeOK /\ PoolIsBounded /\ [Next]_vars => PoolIsBounded'
  <2>. SUFFICES ASSUME TypeOK, PoolIsBounded, [Next]_vars
                PROVE  held' + N' <= PoolMax
    BY DEF PoolIsBounded
  <2>1. /\ N \in Nat /\ N' \in Nat /\ held \in Nat /\ held' \in Nat
        /\ held + N <= PoolMax
    <3>1. IsFiniteSet(Selecting') /\ N' \in Nat
      BY SelectingIsFinite, FS_Subset, FS_CardinalityType DEF Selecting
    <3>2. TypeOK'
      BY TypeStep
    <3>. QED
      BY <3>1, <3>2, SelectingIsFinite, ReplicaAssumption DEF TypeOK, PoolIsBounded
  <2>2. ASSUME Selecting' \subseteq Selecting PROVE N' <= N
    BY <2>2, SelectingIsFinite, FS_Subset
  <2>3. ASSUME NEW t \in Tasks, Acquire(t), Selecting' \subseteq Selecting \cup {t}
        PROVE  held' + N' <= PoolMax
    <3>1. held' = held /\ held + N < PoolMax
      BY <2>3 DEF Acquire, SlotFree, Selecting
    <3>2. N' <= N + 1
      <4>1. N < N + 1 /\ N + 1 \in Nat
        BY <2>1
      <4>. QED
        BY <2>3, <4>1, SelectingIsFinite, OneMore
    <3>. QED
      BY <2>1, <3>1, <3>2, ReplicaAssumption
  <2>4. CASE Hold
    <3>1. held' = held + 1 /\ held + N < PoolMax /\ Selecting' = Selecting
      BY <2>4 DEF Hold, SlotFree, Selecting, At
    <3>. QED
      BY <2>1, <2>2, <3>1, ReplicaAssumption
  <2>5. ASSUME held' <= held, Selecting' \subseteq Selecting
        PROVE  held' + N' <= PoolMax
    BY <2>1, <2>2, <2>5, ReplicaAssumption
  <2>6. Hold \/ held' <= held
    <3>1. CASE Release
      BY <2>1, <3>1 DEF Release
    <3>2. CASE Restart
      BY <2>1, <3>2 DEF Restart
    <3>3. CASE held' = held
      BY <2>1, <3>3
    <3>. QED
      BY <3>1, <3>2, <3>3
         DEF Next, Step, TakePoolLock, BuildPool, PublishPool, BuildFails,
             Acquire, PingFails, PingAnswers, TakeRedisLock, PublishRedis,
             RedisBuildFails, RedisAnswers, RedisPingFails, SendProbe,
             ProbeTimesOut, MonitorWakes, Outage, Recover, vars
  <2>. QED
    BY <2>3, <2>4, <2>5, <2>6, SelectingStep
<1>. QED
  BY <1>1, <1>2, TypeCorrect, PTL DEF Spec

=============================================================================
