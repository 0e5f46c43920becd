----------------------------- MODULE ChaosGate -----------------------------
(***************************************************************************)
(* The chaos gate of staging: the orchestrator that Kargo runs as a Job    *)
(* (kubernetes/chaos-experiments/orchestrate.sh), the Workflow of pod      *)
(* failures it creates (workflow.yaml), the load generator it starts, the  *)
(* samples Prometheus collects meanwhile, and the scorer whose exit code   *)
(* decides about promotion (score_experiment.py).                          *)
(*                                                                         *)
(* Time is counted in units of 10 seconds.  A command of the orchestrator  *)
(* takes no time, except where a Tick may pass beside it.  What Prometheus *)
(* would answer for the window of an experiment is kept in seen[e] and     *)
(* completed by the scrapes and the readings that fall into it.  A run is  *)
(* followed up to its verdict.                                             *)
(***************************************************************************)
EXTENDS Integers

CONSTANTS
    AppPods,      \* the pods of the app
    Exposed,      \* the labelled series of theirs that Prometheus has already
    Leftovers,    \* experiments whose faults a previous run may have left
    Slow,         \* dependencies that are at times too slow for their check
    Troubles,     \* what may go wrong
    MaxTroubles,  \* bound on how often
    MaxLag,       \* how long the Workflow controller may be away, once a run
    Scrape,       \* the longest time between two scrapes of a target
    MaxSweep,     \* bound on the time the clean-up takes
    MaxScoring,   \* bound on the time the scoring takes
    MaxKubectl,   \* bound on what the kubectl calls of a loop take
    Horizon       \* end of the time considered

Experiments == {"postgres", "redis", "signer"}
Dependencies == {"postgres", "redis"}   \* those with a gauge dependency_up

\* What a check with zero tolerance counts: app restarts, answers 500 and
\* 503 of /shorten, replays.
Kinds == {"restart", "500", "503", "replay"}

\* The counters that each pod of the app keeps, and those of them that begin
\* with their first event: a label set of http_requests_total.
AppCounters == Kinds \ {"restart"}
Labelled == {"500", "503"}

ASSUME ChaosGateAssumption ==
    /\ Leftovers \subseteq Experiments
    /\ Troubles \subseteq Kinds \cup {"noLoad", "noWorkflow", "noFault",
                                      "stuck", "blackout", "abort"}
    /\ Exposed \subseteq Labelled \X AppPods
    /\ Slow \subseteq Dependencies
    /\ Scrape \in Nat \ {0}
    /\ {MaxTroubles, MaxLag, MaxSweep, MaxScoring, MaxKubectl, Horizon}
          \subseteq Nat

-----------------------------------------------------------------------------
(* The numbers of the scripts.                                             *)

\* Mutated NodeTime: the redis node is prolonged, the orchestrator's table not.
NodeTimeAlone == [warmup |-> 9, postgres |-> 12, redis |-> 15, signer |-> 9,
                  settle |-> 6]

\* How long each node of the Workflow lasts, and which one follows.
NodeTime == [warmup |-> 9, postgres |-> 12, redis |-> 9, signer |-> 9,
             settle |-> 6]

Following == [warmup |-> "postgres", postgres |-> "redis",
              redis |-> "signer", signer |-> "settle", settle |-> "done"]
WorkflowLimit == 72

Duration == [postgres |-> 12, redis |-> 9, signer |-> 9]
Settle == [postgres |-> 6, redis |-> 4, signer |-> 4]

Window(e) == Duration[e] + Settle[e]

Lead == 2           \* the range query starts 20 s before the injection
PollLimit == 90
LoadTime == 60
LoadWait == 24

\* Mutated GateDeadline: ten minutes instead of twenty.
GateDeadlineTooShort == 60

GateDeadline == 120

NoTime == -1

Order == <<"postgres", "redis", "signer">>

-----------------------------------------------------------------------------
VARIABLES
    now,
    pc,         \* what the orchestrator does next
    since,      \* when it began to poll, to score or to wait
    T,          \* the start times it has collected
    rc,         \* TRUE once an experiment has failed
    scored,     \* how many experiments are scored
    wf,         \* the running node of the Workflow
    wfStart, nodeStart,
    started,    \* when the node of each experiment started
    fault,      \* the pods that PodChaos objects of this run keep failed
    landed,     \* history: the experiments whose fault took effect
    stale,      \* the pods that an older PodChaos object keeps failed
    lag,        \* how long the controller has been away
    load,       \* "none", "running", "over"
    loadStart,
    up,         \* how long dependency_up has been 1, up to Lead
    prom,       \* Prometheus is up
    due,        \* the next scrape comes before more than due units pass
    series,     \* what Prometheus has of each counter of each pod
    seen,       \* what Prometheus has of each window
    happened,   \* history: the events of each window, and of the whole
                \* campaign, that a scrape before and one after them frame
    lost,       \* history: what scrapes were missed, or came too late, for
    back,       \* history: Postgres was up again in the window of its failure
    troubles

gateVars == <<pc, since, T, rc, scored>>
flowVars == <<wf, wfStart, nodeStart, started, fault, landed, lag>>
loadVars == <<load, loadStart>>
promVars == <<up, prom, due, series, seen, happened, lost, back>>
vars == <<now, gateVars, flowVars, stale, loadVars, promVars, troubles>>

\* Of a window: the readings of its gauge, the requests, whether a scrape has
\* fallen into it, the events since the last one, and those it has counted.
Nothing == [samples |-> FALSE, low |-> FALSE, last |-> FALSE, traffic |-> FALSE,
            base |-> FALSE, fresh |-> {}, events |-> {}]

Init ==
    /\ now = 0
    /\ pc = "sweep" /\ since = 0
    /\ T = [e \in Experiments |-> NoTime]
    /\ rc = FALSE /\ scored = 0
    /\ wf = "none" /\ wfStart = 0 /\ nodeStart = 0
    /\ started = [e \in Experiments |-> NoTime]
    /\ fault = {} /\ landed = {}
    /\ stale \in SUBSET Leftovers
    /\ lag = 0
    /\ load = "none" /\ loadStart = 0
    /\ up = [d \in Dependencies |-> IF d \in stale THEN 0 ELSE Lead]
    /\ prom = TRUE
    /\ due \in 0..Scrape - 1
    /\ series = [x \in AppCounters \X AppPods |->
                   IF x[1] \in Labelled /\ x \notin Exposed THEN "none"
                   ELSE "live"]
    /\ seen = [e \in Experiments |-> Nothing]
    /\ happened = {} /\ lost = {} /\ back = FALSE
    /\ troubles = 0

Trouble(k) ==
    /\ k \in Troubles
    /\ troubles < MaxTroubles
    /\ troubles' = troubles + 1

Open(e) == started[e] # NoTime /\ now < started[e] + Window(e)

-----------------------------------------------------------------------------
(* The orchestrator.                                                       *)

\* Prior workflows are deleted and terminating PodChaos objects are cleared,
\* which need not end the faults they stand for.
Sweep ==
    /\ pc = "sweep"
    /\ pc' = "launch"
    /\ stale' \in SUBSET stale
    /\ UNCHANGED <<now, since, T, rc, scored, flowVars, loadVars, promVars,
                   troubles>>

\* kubectl create job: the generator runs, or fails at once.
Launch ==
    /\ pc = "launch"
    /\ pc' = "create"
    /\ \/ load' = "running" /\ loadStart' = now /\ UNCHANGED troubles
       \/ Trouble("noLoad") /\ load' \in {"none", "over"} /\ loadStart' = now
    /\ UNCHANGED <<now, since, T, rc, scored, flowVars, stale, promVars>>

\* kubectl create -f workflow.yaml; without -e the script goes on if it fails.
Create ==
    /\ pc = "create"
    /\ pc' = "poll" /\ since' = now
    /\ \/ /\ wf' = "warmup" /\ wfStart' = now /\ nodeStart' = now
          /\ UNCHANGED troubles
       \/ Trouble("noWorkflow") /\ UNCHANGED <<wf, wfStart, nodeStart>>
    /\ UNCHANGED <<now, T, rc, scored, started, fault, landed, lag, stale,
                   loadVars, promVars>>

\* Mutated Poll: the first answer of the API server ends the loop.
PollOnce ==
    /\ pc = "poll"
    /\ wf # "warmup"
    /\ T' = started
    /\ pc' = "score" /\ since' = now
    /\ UNCHANGED <<now, rc, scored, flowVars, stale, loadVars, promVars,
                   troubles>>

\* The Workflow is Accomplished, or 180 polls and their sleeps have passed.
\* Either way the start times are collected and scored.
Poll ==
    /\ pc = "poll"
    /\ wf = "done" \/ now - since >= PollLimit
    /\ T' = started
    /\ pc' = "score" /\ since' = now
    /\ UNCHANGED <<now, rc, scored, flowVars, stale, loadVars, promVars,
                   troubles>>

\* aggregate: a series without samples counts as 0.
Lowest(e) == IF seen[e].samples /\ ~seen[e].low THEN 1 ELSE 0
Latest(e) == IF seen[e].samples /\ seen[e].last THEN 1 ELSE 0

\* TRAFFIC_GUARD: more than 50 requests.
TrafficFlowed(e) == seen[e].traffic

ZeroTolerance == [postgres |-> {"restart", "500"}, redis |-> {"restart"},
                  signer |-> {"restart", "500", "503", "replay"}]

\* Mutated Passes: whether Postgres has come back is not looked for.
PassesWithoutRecovery(e) ==
    /\ seen[e].events \cap ZeroTolerance[e] = {}
    /\ e \in Dependencies => TrafficFlowed(e) /\ Lowest(e) = 0

\* Mutated Passes: the outage of Postgres is not looked for.
PassesWithoutDip(e) ==
    /\ seen[e].events \cap ZeroTolerance[e] = {}
    /\ e \in Dependencies => TrafficFlowed(e)
    /\ e = "redis" => Lowest(e) = 0
    /\ e = "postgres" => Latest(e) = 1

\* The checks of an experiment.
Passes(e) ==
    /\ seen[e].events \cap ZeroTolerance[e] = {}
    /\ e \in Dependencies => TrafficFlowed(e) /\ Lowest(e) = 0
    /\ e = "postgres" => Latest(e) = 1

\* score_experiment.py exits 1 on a failed check and on a failed query; an
\* experiment without a start time fails too.
Score ==
    /\ pc = "score"
    /\ LET e == Order[scored + 1] IN
       rc' = (rc \/ T[e] = NoTime \/ ~prom \/ ~Passes(e))
    /\ scored' = scored + 1
    /\ IF scored' = 3 THEN pc' = "await" /\ since' = now
                      ELSE UNCHANGED <<pc, since>>
    /\ UNCHANGED <<now, T, flowVars, stale, loadVars, promVars, troubles>>

\* The log of the generator is fetched and the run annotated.
Exit ==
    /\ pc = "await"
    /\ load = "over" \/ now - since >= LoadWait
    /\ pc' = "exit"
    /\ UNCHANGED <<now, since, T, rc, scored, flowVars, stale, loadVars,
                   promVars, troubles>>

Orchestrate == Sweep \/ Launch \/ Create \/ Poll \/ Score \/ Exit

\* The Job reaches activeDeadlineSeconds, or its verification is aborted.
Kill ==
    /\ pc \notin {"exit", "killed"}
    /\ \/ now >= GateDeadline /\ UNCHANGED troubles
       \/ Trouble("abort")
    /\ pc' = "killed"
    /\ UNCHANGED <<now, since, T, rc, scored, flowVars, stale, loadVars,
                   promVars>>

Passed == pc = "exit" /\ ~rc

-----------------------------------------------------------------------------
(* The Workflow controller.                                                *)

Running == wf \notin {"none", "done"}
AtLimit == Running /\ now - wfStart >= WorkflowLimit
NodeIsOver == Running /\ now - nodeStart >= NodeTime[wf]

\* The range query for an experiment that starts now already has the lead.
FirstSamples(e) ==
    [samples |-> prom,
     low |-> prom /\ e \in Dependencies /\ up[e] < Lead,
     last |-> e \in Dependencies /\ up[e] > 0,
     traffic |-> FALSE,
     base |-> FALSE,
     fresh |-> {},
     events |-> {}]

\* The fault of a node is lifted when the node is over, unless its PodChaos
\* object hangs on its finalizer: the pods stay failed.
Lift ==
    \/ UNCHANGED <<stale, troubles>>
    \/ fault # {} /\ Trouble("stuck") /\ stale' = stale \cup fault

\* Mutated FaultOf: the PodChaos object of the node before stays.
FaultOfBoth(n) == fault \cup ({n} \cap Experiments)

\* The PodChaos node of an experiment has a fault, a Suspend node none.
FaultOf(n) == {n} \cap Experiments

\* The node after the one that is over starts; its fault may select no pod.
NextNode ==
    /\ NodeIsOver /\ ~AtLimit /\ lag \in {0, MaxLag}
    /\ wf' = Following[wf] /\ nodeStart' = now
    /\ \/ fault' = FaultOf(wf') /\ Lift
       \/ /\ wf' \in Experiments /\ Trouble("noFault") /\ fault' = {}
          /\ UNCHANGED stale
    /\ landed' = landed \cup fault'
    /\ started' = [e \in Experiments |-> IF e = wf' THEN now ELSE started[e]]
    /\ seen' = [e \in Experiments |->
                   IF e = wf' THEN FirstSamples(e) ELSE seen[e]]
    /\ UNCHANGED <<now, gateVars, wfStart, lag, loadVars, up, prom, due, series,
                   happened, lost, back>>

\* The deadline of the whole run.
HardCap ==
    /\ AtLimit
    /\ wf' = "done" /\ fault' = {} /\ Lift
    /\ UNCHANGED <<now, gateVars, wfStart, nodeStart, started, landed, lag,
                   loadVars, promVars>>

\* The pods of a stuck PodChaos object are recovered after all.
StaleRecovers ==
    /\ \E d \in stale : stale' = stale \ {d}
    /\ UNCHANGED <<now, gateVars, flowVars, loadVars, promVars, troubles>>

LoadIsOver == load = "running" /\ now - loadStart >= LoadTime

LoadEnds ==
    /\ LoadIsOver
    /\ load' = "over"
    /\ UNCHANGED <<now, gateVars, flowVars, stale, loadStart, promVars,
                   troubles>>

Controllers == NextNode \/ HardCap \/ LoadEnds

-----------------------------------------------------------------------------
(* The application and Prometheus.                                         *)

Down(e) == e \in fault \cup stale

\* The gauge follows the dependency sooner or later; the check behind it may
\* time out although the dependency is there.
Readings(d) == {up[d] > 0, ~Down(d)} \cup (IF d \in Slow THEN {FALSE} ELSE {})

\* Whether the requests of a window exceed the floor of TRAFFIC_GUARD from now
\* on: the generator makes none without a signature.
Requests == IF load # "running" \/ Down("signer") THEN {FALSE} ELSE BOOLEAN

\* The window of the signer has no gauge and no TRAFFIC_GUARD.
Sample(e, enough, reads) ==
    IF e = "signer" THEN [seen[e] EXCEPT !.samples = TRUE]
    ELSE [seen[e] EXCEPT
             !.samples = TRUE, !.low = @ \/ ~reads[e], !.last = reads[e],
             !.traffic = @ \/ enough]

\* A scrape in a window counts what has happened since the one before it.
Counted(s) ==
    [s EXCEPT !.base = TRUE, !.fresh = {},
              !.events = @ \cup {x[1] : x \in s.fresh}]

\* After it the series that have begun are there.
Scraped(ss) ==
    [x \in DOMAIN ss |->
        IF \/ ss[x] \in {"begun", "again"}
           \/ ss[x] = "gone" /\ x[1] \notin Labelled THEN "live"
        ELSE ss[x]]

\* Nothing is due that takes no time.
MayPass ==
    /\ now < Horizon
    /\ pc \notin {"launch", "create"}
    /\ pc \notin {"exit", "killed"} /\ now < GateDeadline
    /\ pc = "sweep" => now < MaxSweep
    /\ pc = "poll" => wf # "done" /\ now - since < PollLimit + MaxKubectl
    /\ pc = "score" => now - since < MaxScoring
    /\ pc = "await" => load # "over" /\ now - since < LoadWait + MaxKubectl
    /\ NodeIsOver => lag < MaxLag
    /\ ~AtLimit /\ ~LoadIsOver

Tick ==
    /\ MayPass
    /\ now' = now + 1
    /\ lag' = IF NodeIsOver THEN lag + 1 ELSE lag
    /\ \E enough \in Requests, reads \in [Dependencies -> BOOLEAN],
          scrape \in {prom /\ due = 0, prom} :
          /\ \A d \in Dependencies : reads[d] \in Readings(d)
          /\ up' = [d \in Dependencies |->
                      IF ~reads[d] THEN 0
                      ELSE IF up[d] < Lead THEN up[d] + 1 ELSE Lead]
          /\ due' = IF scrape THEN Scrape - 1
                    ELSE IF due > 0 THEN due - 1 ELSE 0
          /\ series' = IF scrape THEN Scraped(series) ELSE series
          /\ seen' = [e \in Experiments |->
                        IF ~(Open(e) /\ prom) THEN seen[e]
                        ELSE IF scrape THEN Counted(Sample(e, enough, reads))
                        ELSE Sample(e, enough, reads)]
    /\ back' = (back \/ (/\ Open("postgres") /\ "postgres" \in landed
                         /\ ~Down("postgres")))
    /\ UNCHANGED <<gateVars, wf, wfStart, nodeStart, started, fault, landed,
                   stale, loadVars, prom, happened, lost, troubles>>

\* The windows in which an event now has a scrape before it and one after it,
\* and the campaign from the first of them to the last.
Where ==
    {e \in Experiments : /\ started[e] # NoTime
                         /\ now >= started[e] + Scrape
                         /\ now + Scrape <= started[e] + Window(e)}
       \cup {x \in {"campaign"} :
               /\ started["postgres"] # NoTime
               /\ now >= started["postgres"] + Scrape
               /\ started["signer"] # NoTime =>
                     now + Scrape <= started["signer"] + Window("signer")}

\* Prometheus knows the value the event adds to.
Known(k, a) == k = "restart" \/ series[<<k, a>>] = "live"

\* increase() takes the first sample of a series for its base and does not
\* count what led to it; when the pod has restarted the new value counts only
\* if there is an old one, and it differs.
Heard(k, a) ==
    IF Known(k, a) THEN {TRUE}
    ELSE IF series[<<k, a>>] \in {"gone", "again"} THEN BOOLEAN ELSE {FALSE}

\* The counters of a pod whose container restarts are gone, and with them what
\* has not been scraped.
Restarted(a) ==
    [x \in DOMAIN series |->
        IF x[2] = a /\ series[x] # "none" THEN "gone" ELSE series[x]]
Unscraped(a) ==
    UNION {{x \in seen[e].fresh : x[1] # "restart" /\ x[2] = a} : e \in Experiments}

\* The first event of a label set begins its series.
Begun(k, a) ==
    [series EXCEPT ![<<k, a>>] = CASE @ = "none" -> "begun"
                                   [] @ = "gone" -> "again"
                                   [] OTHER -> @]

\* The container of the app in pod a restarts, or the app in it answers 500,
\* 503, or refuses a replay.
Event(k, a) ==
    /\ Trouble(k)
    /\ k \in Labelled => load = "running"
    /\ LET wiped == IF k = "restart" THEN Unscraped(a) ELSE {} IN
       /\ \E heard \in Heard(k, a) :
             seen' = [e \in Experiments |->
                        [seen[e] EXCEPT !.fresh =
                           (@ \ wiped) \cup
                             (IF Open(e) /\ seen[e].base /\ heard
                              THEN {<<k, a>>} ELSE {})]]
       /\ lost' = lost \cup {x[1] : x \in wiped}
    /\ series' = IF k = "restart" THEN Restarted(a) ELSE Begun(k, a)
    /\ happened' = happened \cup (IF Known(k, a) THEN {k} \X Where ELSE {})
    /\ UNCHANGED <<now, gateVars, flowVars, stale, loadVars, up, prom, due, back>>

\* Prometheus goes away and comes back.
Blackout ==
    /\ \/ prom /\ Trouble("blackout") /\ lost' = lost \cup {"blackout"}
       \/ ~prom /\ UNCHANGED <<troubles, lost>>
    /\ prom' = ~prom
    /\ due' = Scrape - 1
    /\ UNCHANGED <<now, gateVars, flowVars, stale, loadVars, up, series, seen,
                   happened, back>>

Next ==
    \/ Orchestrate \/ Kill
    \/ Controllers \/ StaleRecovers
    \/ Tick \/ Blackout
    \/ \E k \in Kinds, a \in AppPods : Event(k, a)

Spec == Init /\ [][Next]_vars

-----------------------------------------------------------------------------
(* Properties.                                                             *)

Observations ==
    [samples : BOOLEAN, low : BOOLEAN, last : BOOLEAN,
     traffic : BOOLEAN, base : BOOLEAN,
     fresh : SUBSET (Kinds \X AppPods), events : SUBSET Kinds]

\* Every variable keeps its type; with it the fault that the Workflow answers
\* for is that of its running node, and what is collected are start times.
TypeOK ==
    /\ now \in 0..Horizon
    /\ pc \in {"sweep", "launch", "create", "poll", "score", "await", "exit",
               "killed"}
    /\ since \in 0..Horizon
    /\ T \in [Experiments -> {NoTime} \cup 0..Horizon]
    /\ rc \in BOOLEAN /\ scored \in 0..3
    /\ wf \in {"none", "done"} \cup DOMAIN NodeTime
    /\ wfStart \in 0..Horizon /\ nodeStart \in 0..Horizon
    /\ started \in [Experiments -> {NoTime} \cup 0..Horizon]
    /\ fault \subseteq Experiments \cap {wf}
    /\ landed \subseteq Experiments /\ stale \subseteq Experiments
    /\ lag \in 0..MaxLag
    /\ load \in {"none", "running", "over"} /\ loadStart \in 0..Horizon
    /\ up \in [Dependencies -> 0..Lead]
    /\ prom \in BOOLEAN /\ due \in 0..Scrape - 1
    /\ series \in [AppCounters \X AppPods ->
                     {"none", "begun", "live", "gone", "again"}]
    /\ seen \in [Experiments -> Observations]
    /\ happened \subseteq Kinds \X (Experiments \cup {"campaign"})
    /\ lost \subseteq Kinds \cup {"blackout"} /\ back \in BOOLEAN
    /\ troubles \in 0..MaxTroubles

\* A gate that passes has really had Postgres and Redis fail, unless a
\* previous run left them failed or their check times out for nothing: an empty
\* series, which counts as 0, is no outage (the checks "outage actually landed"
\* with TRAFFIC_GUARD).
OutagesAreReal == Passed => Dependencies \ (Leftovers \cup Slow) \subseteq landed

\* A gate that passes has had Postgres back in the window of its failure, also
\* when the PodChaos object hangs on its finalizer and the fault outlasts its
\* node (the check "app recovered after PG returned").  There is no such check
\* for Redis and the signer.
RecoveryIsReal ==
    Passed /\ "postgres" \notin Leftovers \cup Slow => back

\* Nothing an experiment has no tolerance for happened in its window if the
\* gate passes, and no restart of the app in the whole campaign: two windows
\* overlap for longer than the time between two scrapes, so that no event
\* falls between what the one and what the other counts, although they are
\* computed from durations kept in another file than the Workflow's (the checks
\* with threshold 0.5).  An event counts if its series was there before it, and
\* if a scrape precedes it in the window and another follows: those before the
\* first and after the last scrape of a window are not seen, nor is what a
\* restart wipes before it is scraped, or what a blackout hides.
NoBlindSpot ==
    Passed /\ "blackout" \notin lost =>
       /\ <<"restart", "campaign">> \notin happened
       /\ \A e \in Experiments : \A k \in ZeroTolerance[e] \ lost :
             <<k, e>> \notin happened

\* When scoring begins every window is over (the settle node of the Workflow
\* against the settle times of the scorer).
ScoredWhenOver ==
    pc = "score" =>
       \A e \in Experiments : T[e] # NoTime => now >= T[e] + Window(e)

\* A pass that is decided is delivered: the wait for the generator never runs
\* into the deadline of the Job ("Diagnostic only - the verdict is already
\* decided above").
PassIsDelivered ==
    [][pc' = "killed" /\ scored = 3 /\ ~rc => now < GateDeadline]_pc

\* README.md:36: the gate passes only if each of the three dependencies was
\* killed.
AllKilled == Passed => landed = Experiments

=============================================================================
