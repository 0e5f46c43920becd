-------------------------- MODULE ChaosGateProofs --------------------------
(***************************************************************************)
(* Proofs about ChaosGate, for any troubles, any number of them and any    *)
(* delays of the controllers.                                              *)
(***************************************************************************)
EXTENDS ChaosGate, TLAPS

\* The orchestrator polls the Workflow it has created, then scores, and waits
\* once it has scored all three.
InOrder ==
    /\ pc \in {"sweep", "launch", "create"} => wf = "none" /\ fault = {}
    /\ pc \in {"sweep", "launch", "create", "poll"} => scored = 0
    /\ pc = "score" => scored < 3
    /\ pc \in {"await", "exit"} => scored = 3

\* A dependency that failed, or of which it may have been said.
Blamed(d) == d \in landed \cup Leftovers \cup Slow

\* The gauge and the samples of a window read 0 only after a fault, and
\* requests were counted only with samples.
SamplesAreTrue ==
    /\ fault \subseteq landed
    /\ stale \subseteq landed \cup Leftovers
    /\ \A d \in Dependencies :
          /\ up[d] < Lead => Blamed(d)
          /\ seen[d].low => Blamed(d)
          /\ seen[d].traffic => seen[d].samples

\* What has passed so far has failed before.
ScoredAreReal ==
    \A i \in 1..3 : i <= scored /\ ~rc /\ Order[i] \in Dependencies
                       => Blamed(Order[i])

\* A node lasts as long as it should and as the controller is away.
Timely == Running => now - nodeStart <= NodeTime[wf] + lag

\* What the orchestrator may have used of its time at each point.
InBudget ==
    /\ pc \in {"sweep", "launch", "create"} => now <= MaxSweep
    /\ pc = "poll" =>
          since <= MaxSweep /\ now <= since + PollLimit + MaxKubectl
    /\ pc = "score" => /\ since <= MaxSweep + PollLimit + MaxKubectl
                       /\ now <= since + MaxScoring
    /\ pc = "await" =>
          /\ since <= MaxSweep + PollLimit + MaxKubectl + MaxScoring
          /\ now <= since + LoadWait + MaxKubectl

IInv ==
    TypeOK /\ InOrder /\ SamplesAreTrue /\ ScoredAreReal /\ Timely /\ InBudget

\* The nodes of the Workflow.
LEMMA Nodes ==
    DOMAIN NodeTime = {"warmup", "postgres", "redis", "signer", "settle"}
BY DEF NodeTime

LEMMA NextIsNode ==
    ASSUME TypeOK, NextNode
    PROVE  wf' \in {"none", "done"} \cup DOMAIN NodeTime
<1>1. wf \in DOMAIN NodeTime
  BY DEF TypeOK, NextNode, NodeIsOver, Running
<1>. QED
  BY <1>1, Nodes DEF NextNode, Following

-----------------------------------------------------------------------------
(* The initial states.                                                     *)

LEMMA Initially == Init => IInv
<1>. SUFFICES ASSUME Init PROVE IInv
  OBVIOUS
<1>1. TypeOK
  <2>1. Nothing \in Observations
    BY DEF Nothing, Observations
  <2>2. seen \in [Experiments -> Observations]
    BY <2>1 DEF Init
  <2>3. up \in [Dependencies -> 0..Lead]
    BY DEF Init, Lead
  <2>4. {now, since, wfStart, nodeStart, loadStart} \subseteq 0..Horizon
    BY ChaosGateAssumption DEF Init
  <2>5. lag \in 0..MaxLag /\ troubles \in 0..MaxTroubles
    BY ChaosGateAssumption DEF Init
  <2>6. {T, started} \subseteq [Experiments -> {NoTime} \cup 0..Horizon]
    BY DEF Init
  <2>7. /\ series \in [AppCounters \X AppPods ->
                         {"none", "begun", "live", "gone", "again"}]
        /\ due \in 0..Scrape - 1
    BY DEF Init
  <2>8. /\ pc \in {"sweep", "launch", "create", "poll", "score", "await",
                   "exit", "killed"}
        /\ rc \in BOOLEAN /\ scored \in 0..3
        /\ wf \in {"none", "done"} \cup DOMAIN NodeTime
        /\ load \in {"none", "running", "over"} /\ prom \in BOOLEAN
        /\ back \in BOOLEAN
    <3>1. /\ pc = "sweep" /\ rc = FALSE /\ scored = 0
          /\ wf = "none" /\ load = "none" /\ prom = TRUE /\ back = FALSE
      BY DEF Init
    <3>2. rc \in BOOLEAN /\ prom \in BOOLEAN /\ back \in BOOLEAN
      BY <3>1, Zenon
    <3>3. /\ pc \in {"sweep", "launch", "create", "poll", "score", "await",
                      "exit", "killed"}
          /\ scored \in 0..3 /\ load \in {"none", "running", "over"}
      BY <3>1
    <3>. QED
      BY <3>1, <3>2, <3>3
  <2>9. /\ fault \subseteq Experiments \cap {wf}
        /\ landed \subseteq Experiments /\ stale \subseteq Experiments
    BY ChaosGateAssumption DEF Init
  <2>10. /\ happened \subseteq Kinds \X (Experiments \cup {"campaign"})
         /\ lost \subseteq Kinds \cup {"blackout"}
    BY DEF Init
  <2>. QED
    BY <2>2, <2>3, <2>4, <2>5, <2>6, <2>7, <2>8, <2>9, <2>10 DEF TypeOK
<1>2. InOrder
  BY DEF Init, InOrder
<1>3. SamplesAreTrue
  BY DEF Init, SamplesAreTrue, Nothing, Blamed, Dependencies, Experiments,
         Lead
<1>4. ScoredAreReal
  BY DEF Init, ScoredAreReal
<1>5. Timely /\ InBudget
  BY ChaosGateAssumption DEF Init, Timely, InBudget, Running
<1>. QED
  BY <1>1, <1>2, <1>3, <1>4, <1>5 DEF IInv

-----------------------------------------------------------------------------
(* The type invariant.                                                     *)

\* What a unit of time does to the gauges and the samples.
Passing(enough, reads, scrape) ==
    /\ \A d \in Dependencies : reads[d] \in Readings(d)
    /\ up' = [d \in Dependencies |->
                IF ~reads[d] THEN 0
                ELSE IF up[d] < Lead THEN up[d] + 1 ELSE Lead]
    /\ due' = IF scrape THEN Scrape - 1 ELSE IF due > 0 THEN due - 1 ELSE 0
    /\ series' = IF scrape THEN Scraped(series) ELSE series
    /\ seen' = [e \in Experiments |->
                  IF ~(Open(e) /\ prom) THEN seen[e]
                  ELSE IF scrape THEN Counted(Sample(e, enough, reads))
                  ELSE Sample(e, enough, reads)]

LEMMA TickPasses ==
    ASSUME Tick
    PROVE  \E enough \in Requests, reads \in [Dependencies -> BOOLEAN],
              scrape \in {prom /\ due = 0, prom} :
              Passing(enough, reads, scrape)
BY DEF Tick, Passing

LEMMA SampleType ==
    ASSUME TypeOK, NEW e \in Experiments, NEW enough \in BOOLEAN,
           NEW reads \in [Dependencies -> BOOLEAN]
    PROVE  /\ Sample(e, enough, reads) \in Observations
           /\ Sample(e, enough, reads).samples
           /\ e # "signer" =>
                 /\ Sample(e, enough, reads).low = (seen[e].low \/ ~reads[e])
                 /\ Sample(e, enough, reads).last = reads[e]
           /\ Sample(e, enough, reads).base = seen[e].base
           /\ Sample(e, enough, reads).fresh = seen[e].fresh
           /\ Sample(e, enough, reads).events = seen[e].events
<1>1. seen[e] \in Observations
  BY DEF TypeOK
<1>2. CASE e = "signer"
  BY <1>1, <1>2 DEF Sample, Observations
<1>3. CASE e # "signer"
  <2>1. reads[e] \in BOOLEAN
    BY <1>3 DEF Experiments, Dependencies
  <2>. DEFINE low == seen[e].low \/ ~reads[e]
              traffic == seen[e].traffic \/ enough
  <2>2. Sample(e, enough, reads)
          = [samples |-> TRUE, low |-> low, last |-> reads[e],
             traffic |-> traffic, base |-> seen[e].base,
             fresh |-> seen[e].fresh, events |-> seen[e].events]
    BY <1>1, <1>3 DEF Sample, Observations
  <2>3. low \in BOOLEAN /\ traffic \in BOOLEAN
    OBVIOUS
  <2>4. low = (seen[e].low \/ ~reads[e])
    OBVIOUS
  <2>. HIDE DEF low, traffic
  <2>. QED
    BY <1>1, <2>1, <2>2, <2>3, <2>4 DEF Observations
<1>. QED
  BY <1>2, <1>3

LEMMA CountedType ==
    ASSUME NEW s \in Observations
    PROVE  /\ Counted(s) \in Observations
           /\ Counted(s).samples = s.samples /\ Counted(s).low = s.low
           /\ Counted(s).last = s.last /\ Counted(s).traffic = s.traffic
           /\ Counted(s).base = TRUE /\ Counted(s).fresh = {}
           /\ Counted(s).events = s.events \cup {x[1] : x \in s.fresh}
<1>1. {x[1] : x \in s.fresh} \subseteq Kinds
  BY DEF Observations
<1>. DEFINE counts == s.events \cup {x[1] : x \in s.fresh}
<1>2. counts \subseteq Kinds
  BY <1>1 DEF Observations
<1>3. Counted(s) = [s EXCEPT !.base = TRUE, !.fresh = {}, !.events = counts]
  BY DEF Counted
<1>. HIDE DEF counts
<1>4. /\ Counted(s) \in Observations
      /\ Counted(s).events = counts
      /\ Counted(s).samples = s.samples /\ Counted(s).low = s.low
      /\ Counted(s).last = s.last /\ Counted(s).traffic = s.traffic
      /\ Counted(s).base = TRUE /\ Counted(s).fresh = {}
  BY <1>2, <1>3 DEF Observations
<1>. QED
  BY <1>4 DEF counts

\* What an event does to the samples: those of its pod may be wiped, and it is
\* noted where a scrape has fallen into the window, if it is heard.
LEMMA EventSees ==
    ASSUME TypeOK, NEW k \in Kinds, NEW a \in AppPods, Event(k, a)
    PROVE  \A e \in Experiments :
              /\ seen'[e] \in Observations
              /\ seen'[e].samples = seen[e].samples
              /\ seen'[e].low = seen[e].low
              /\ seen'[e].last = seen[e].last
              /\ seen'[e].traffic = seen[e].traffic
              /\ seen'[e].base = seen[e].base
              /\ seen'[e].events = seen[e].events
              /\ \A x \in seen[e].fresh :
                    x \in seen'[e].fresh \/ x[1] \in lost' \ {"restart"}
              /\ Open(e) /\ seen[e].base /\ Known(k, a)
                    => <<k, a>> \in seen'[e].fresh
<1>. DEFINE wiped == IF k = "restart" THEN Unscraped(a) ELSE {}
            noted(e, heard) == IF Open(e) /\ seen[e].base /\ heard
                               THEN {<<k, a>>} ELSE {}
<1>1. PICK heard \in Heard(k, a) :
         /\ seen' = [e \in Experiments |->
                       [seen[e] EXCEPT !.fresh =
                          (@ \ wiped) \cup noted(e, heard)]]
         /\ lost' = lost \cup {x[1] : x \in wiped}
  BY DEF Event
<1>2. Known(k, a) => heard = TRUE
  BY DEF Heard
<1>3. \A x \in wiped : x[1] # "restart"
  BY DEF Unscraped
<1>. HIDE DEF wiped
<1>. SUFFICES ASSUME NEW e \in Experiments
              PROVE  /\ seen'[e] \in Observations
                     /\ seen'[e].samples = seen[e].samples
                     /\ seen'[e].low = seen[e].low
                     /\ seen'[e].last = seen[e].last
                     /\ seen'[e].traffic = seen[e].traffic
                     /\ seen'[e].base = seen[e].base
                     /\ seen'[e].events = seen[e].events
                     /\ \A x \in seen[e].fresh :
                           x \in seen'[e].fresh \/ x[1] \in lost' \ {"restart"}
                     /\ Open(e) /\ seen[e].base /\ Known(k, a)
                           => <<k, a>> \in seen'[e].fresh
  OBVIOUS
<1>4. noted(e, heard) \subseteq Kinds \X AppPods
  OBVIOUS
<1>5. Open(e) /\ seen[e].base /\ Known(k, a) => <<k, a>> \in noted(e, heard)
  BY <1>2
<1>. HIDE DEF noted
<1>6. seen[e] \in Observations
  BY DEF TypeOK
<1>7. /\ seen'[e] = [seen[e] EXCEPT !.fresh =
                        (seen[e].fresh \ wiped) \cup noted(e, heard)]
      /\ (seen[e].fresh \ wiped) \cup noted(e, heard)
            \in SUBSET (Kinds \X AppPods)
  BY <1>1, <1>4, <1>6 DEF Observations
<1>8. seen'[e].fresh = (seen[e].fresh \ wiped) \cup noted(e, heard)
  BY <1>6, <1>7 DEF Observations
<1>9. /\ seen'[e] \in Observations
      /\ seen'[e].samples = seen[e].samples
      /\ seen'[e].low = seen[e].low
      /\ seen'[e].last = seen[e].last
      /\ seen'[e].traffic = seen[e].traffic
      /\ seen'[e].base = seen[e].base
      /\ seen'[e].events = seen[e].events
  BY <1>6, <1>7 DEF Observations
<1>. QED
  BY <1>1, <1>3, <1>5, <1>8, <1>9

LEMMA TypeStep == IInv /\ [Next]_vars => TypeOK'
<1>. SUFFICES ASSUME TypeOK, InOrder, [Next]_vars PROVE TypeOK'
  BY DEF IInv
<1>. USE ChaosGateAssumption
<1>1. CASE Sweep
  BY <1>1 DEF TypeOK, Sweep, flowVars, loadVars, promVars
<1>2. CASE Launch
  BY <1>2 DEF TypeOK, Launch, Trouble, flowVars, promVars
<1>3. CASE Create
  <2>1. wf' \in {"none", "done"} \cup DOMAIN NodeTime
    BY <1>3, Nodes DEF TypeOK, Create
  <2>2. troubles' \in 0..MaxTroubles
    BY <1>3 DEF TypeOK, Create, Trouble
  <2>3. fault' \subseteq Experiments \cap {wf'}
    BY <1>3 DEF InOrder, Create
  <2>. QED
    BY <1>3, <2>1, <2>2, <2>3 DEF TypeOK, Create, loadVars, promVars
<1>4. CASE Poll
  BY <1>4 DEF TypeOK, Poll, flowVars, loadVars, promVars
<1>5. CASE Score
  BY <1>5 DEF TypeOK, InOrder, Score, flowVars, loadVars, promVars
<1>6. CASE Exit
  BY <1>6 DEF TypeOK, Exit, flowVars, loadVars, promVars
<1>7. CASE Kill
  BY <1>7 DEF TypeOK, Kill, Trouble, flowVars, loadVars, promVars
<1>8. CASE NextNode
  <2>2. wf' \in {"none", "done"} \cup DOMAIN NodeTime
    BY <1>8, NextIsNode
  <2>3. /\ fault' \subseteq Experiments \cap {wf'}
        /\ stale' \subseteq Experiments
        /\ troubles' \in 0..MaxTroubles
    BY <1>8 DEF NextNode, FaultOf, Lift, Trouble, TypeOK
  <2>4. ASSUME NEW e \in Experiments PROVE FirstSamples(e) \in Observations
    <3>. DEFINE low == prom /\ e \in Dependencies /\ up[e] < Lead
                last == e \in Dependencies /\ up[e] > 0
    <3>1. low \in BOOLEAN /\ last \in BOOLEAN
      OBVIOUS
    <3>2. FirstSamples(e)
            = [samples |-> prom, low |-> low, last |-> last,
               traffic |-> FALSE, base |-> FALSE, fresh |-> {}, events |-> {}]
      BY DEF FirstSamples
    <3>3. prom \in BOOLEAN
      BY DEF TypeOK
    <3>. HIDE DEF low, last
    <3>. QED
      BY <3>1, <3>2, <3>3 DEF Observations
  <2>5. seen' \in [Experiments -> Observations]
    BY <1>8, <2>4 DEF NextNode, TypeOK
  <2>6. started' \in [Experiments -> {NoTime} \cup 0..Horizon]
    BY <1>8 DEF NextNode, TypeOK
  <2>7. landed' \subseteq Experiments
    BY <1>8, <2>3 DEF NextNode, TypeOK
  <2>. QED
    BY <1>8, <2>2, <2>3, <2>5, <2>6, <2>7
       DEF NextNode, TypeOK, gateVars, loadVars
<1>9. CASE HardCap
  <2>1. stale' \subseteq Experiments /\ troubles' \in 0..MaxTroubles
    BY <1>9 DEF TypeOK, HardCap, Lift, Trouble
  <2>. QED
    BY <1>9, <2>1 DEF TypeOK, HardCap, gateVars, loadVars, promVars
<1>10. CASE LoadEnds
  BY <1>10 DEF TypeOK, LoadEnds, gateVars, flowVars, promVars
<1>11. CASE StaleRecovers
  BY <1>11 DEF TypeOK, StaleRecovers, gateVars, flowVars, loadVars, promVars
<1>12. CASE Tick
  <2>1. PICK enough \in Requests, reads \in [Dependencies -> BOOLEAN],
             scrape \in {prom /\ due = 0, prom} : Passing(enough, reads, scrape)
    BY <1>12, TickPasses
  <2>2. up' \in [Dependencies -> 0..Lead]
    BY <2>1 DEF Passing, TypeOK, Lead
  <2>3. enough \in BOOLEAN /\ scrape \in BOOLEAN
    BY DEF Requests, TypeOK
  <2>4. ASSUME NEW e \in Experiments
        PROVE  /\ Sample(e, enough, reads) \in Observations
               /\ Counted(Sample(e, enough, reads)) \in Observations
    BY <2>3, SampleType, CountedType
  <2>5. seen' \in [Experiments -> Observations]
    BY <2>1, <2>4 DEF Passing, TypeOK
  <2>6. now' \in 0..Horizon /\ lag' \in 0..MaxLag
    BY <1>12 DEF Tick, MayPass, TypeOK
  <2>7. due' \in 0..Scrape - 1
    BY <2>1 DEF Passing, TypeOK
  <2>8. series' \in [AppCounters \X AppPods ->
                        {"none", "begun", "live", "gone", "again"}]
    BY <2>1 DEF Passing, Scraped, TypeOK
  <2>9. back' \in BOOLEAN
    BY <1>12 DEF Tick, TypeOK
  <2>. QED
    BY <1>12, <2>2, <2>5, <2>6, <2>7, <2>8, <2>9
       DEF Tick, TypeOK, gateVars, loadVars
<1>13. CASE Blackout
  <2>1. /\ prom' \in BOOLEAN /\ due' \in 0..Scrape - 1
        /\ troubles' \in 0..MaxTroubles
        /\ lost' \subseteq Kinds \cup {"blackout"}
    BY <1>13 DEF TypeOK, Blackout, Trouble
  <2>. QED
    BY <1>13, <2>1 DEF TypeOK, Blackout, gateVars, flowVars, loadVars
<1>14. ASSUME NEW k \in Kinds, NEW a \in AppPods, Event(k, a) PROVE TypeOK'
  <2>1. seen' \in [Experiments -> Observations]
    <3>1. seen' = [e \in Experiments |-> seen'[e]]
      BY <1>14, Zenon DEF Event
    <3>. QED
      BY <1>14, <3>1, EventSees
  <2>2. happened' \subseteq Kinds \X (Experiments \cup {"campaign"})
    BY <1>14 DEF Event, TypeOK, Where
  <2>3. series' \in [AppCounters \X AppPods ->
                        {"none", "begun", "live", "gone", "again"}]
    <3>1. Restarted(a) \in [AppCounters \X AppPods ->
                               {"none", "begun", "live", "gone", "again"}]
      BY DEF Restarted, TypeOK
    <3>2. ASSUME k # "restart"
          PROVE  Begun(k, a) \in [AppCounters \X AppPods ->
                                    {"none", "begun", "live", "gone", "again"}]
      <4>1. <<k, a>> \in AppCounters \X AppPods
        BY <3>2 DEF AppCounters
      <4>2. Begun(k, a) = [series EXCEPT ![<<k, a>>] =
                             Begun(k, a)[<<k, a>>]]
        BY <4>1 DEF Begun, TypeOK
      <4>3. Begun(k, a)[<<k, a>>] \in {"none", "begun", "live", "gone", "again"}
        BY <4>1 DEF Begun, TypeOK
      <4>. QED
        BY <4>1, <4>2, <4>3 DEF TypeOK
    <3>. QED
      BY <1>14, <3>1, <3>2 DEF Event
  <2>4. lost' \subseteq Kinds \cup {"blackout"}
    <3>1. Unscraped(a) \subseteq Kinds \X AppPods
      BY DEF Unscraped, TypeOK, Observations
    <3>. QED
      BY <1>14, <3>1 DEF Event, TypeOK
  <2>5. troubles' \in 0..MaxTroubles
    BY <1>14 DEF Event, Trouble, TypeOK
  <2>. QED
    BY <1>14, <2>1, <2>2, <2>3, <2>4, <2>5
       DEF Event, TypeOK, gateVars, flowVars, loadVars
<1>15. CASE UNCHANGED vars
  BY <1>15 DEF TypeOK, vars, gateVars, flowVars, loadVars, promVars
<1>. QED
  BY <1>1, <1>2, <1>3, <1>4, <1>5, <1>6, <1>7, <1>8, <1>9, <1>10, <1>11,
     <1>12, <1>13, <1>14, <1>15 DEF Next, Orchestrate, Controllers

-----------------------------------------------------------------------------
(* The order of the orchestrator's steps.                                  *)

LEMMA OrderStep == IInv /\ [Next]_vars => InOrder'
<1>. SUFFICES ASSUME TypeOK, InOrder, [Next]_vars PROVE InOrder'
  BY DEF IInv
<1>1. CASE Sweep \/ Launch \/ Create \/ Poll \/ Exit \/ Kill
  BY <1>1 DEF InOrder, Sweep, Launch, Create, Poll, Exit, Kill, flowVars
<1>2. CASE Score
  BY <1>2 DEF TypeOK, InOrder, Score, flowVars
<1>3. CASE NextNode \/ HardCap
  BY <1>3 DEF InOrder, NextNode, HardCap, NodeIsOver, AtLimit, Running,
              gateVars
<1>4. CASE LoadEnds \/ StaleRecovers \/ Blackout
  BY <1>4 DEF InOrder, LoadEnds, StaleRecovers, Blackout, gateVars, flowVars
<1>5. CASE Tick
  BY <1>5 DEF InOrder, Tick, gateVars
<1>6. ASSUME NEW k \in Kinds, NEW a \in AppPods, Event(k, a) PROVE InOrder'
  BY <1>6 DEF InOrder, Event, gateVars, flowVars
<1>7. CASE UNCHANGED vars
  BY <1>7 DEF InOrder, vars, gateVars, flowVars
<1>. QED
  BY <1>1, <1>2, <1>3, <1>4, <1>5, <1>6, <1>7
     DEF Next, Orchestrate, Controllers

-----------------------------------------------------------------------------
(* What the samples say of the faults.                                     *)

\* Whoever is to blame for a fault stays so.
LEMMA BlameStays == [Next]_vars => landed \subseteq landed'
BY DEF Next, Orchestrate, Controllers, Sweep, Launch, Create, Poll, Score,
       Exit, Kill, NextNode, HardCap, LoadEnds, StaleRecovers, Tick, Blackout,
       Event, vars, flowVars

LEMMA SamplesStep == IInv /\ [Next]_vars => SamplesAreTrue'
<1>. SUFFICES ASSUME TypeOK, SamplesAreTrue, [Next]_vars PROVE SamplesAreTrue'
  BY DEF IInv
<1>0. Dependencies \subseteq Experiments /\ "signer" \notin Dependencies
  BY DEF Dependencies, Experiments
<1>1. CASE UNCHANGED <<fault, landed, up, seen>> /\ stale' \subseteq stale
  BY <1>1 DEF SamplesAreTrue, Blamed
<1>2. CASE NextNode
  <2>1. /\ fault' \subseteq landed' /\ landed \subseteq landed' /\ up' = up
        /\ stale' \subseteq landed' \cup Leftovers
    BY <1>2 DEF NextNode, Lift, SamplesAreTrue
  <2>2. ASSUME NEW d \in Dependencies
        PROVE  /\ seen'[d].low => Blamed(d)'
               /\ seen'[d].traffic => seen'[d].samples
    <3>1. CASE d = wf'
      <4>1. seen'[d] = FirstSamples(d)
        BY <1>0, <1>2, <3>1 DEF NextNode
      <4>. DEFINE low == prom /\ d \in Dependencies /\ up[d] < Lead
                  last == d \in Dependencies /\ up[d] > 0
      <4>2. FirstSamples(d)
              = [samples |-> prom, low |-> low, last |-> last,
                 traffic |-> FALSE, base |-> FALSE, fresh |-> {},
                 events |-> {}]
        BY DEF FirstSamples
      <4>3. low => up[d] < Lead
        OBVIOUS
      <4>. HIDE DEF low, last
      <4>4. seen'[d].low = low /\ seen'[d].traffic = FALSE
        BY <4>1, <4>2
      <4>. QED
        BY <2>1, <4>3, <4>4 DEF SamplesAreTrue, Blamed
    <3>2. CASE d # wf'
      BY <1>0, <1>2, <2>1, <3>2 DEF NextNode, SamplesAreTrue, Blamed
    <3>. QED
      BY <3>1, <3>2
  <2>. QED
    BY <2>1, <2>2 DEF SamplesAreTrue, Blamed
<1>3. CASE HardCap
  BY <1>3 DEF HardCap, Lift, SamplesAreTrue, Blamed, promVars
<1>4. CASE Tick
  <2>1. PICK enough \in Requests, reads \in [Dependencies -> BOOLEAN],
             scrape \in {prom /\ due = 0, prom} : Passing(enough, reads, scrape)
    BY <1>4, TickPasses
  <2>2. UNCHANGED <<fault, landed, stale>> /\ enough \in BOOLEAN
    BY <1>4 DEF Tick, Requests
  <2>3. ASSUME NEW d \in Dependencies, ~reads[d] PROVE Blamed(d)
    <3>1. up[d] = 0 \/ Down(d) \/ d \in Slow
      <4>1. \/ reads[d] = (up[d] > 0) \/ reads[d] = ~Down(d) \/ d \in Slow
        BY <2>1 DEF Passing, Readings
      <4>2. ~(up[d] > 0) \/ Down(d) \/ d \in Slow
        BY <2>3, <4>1, Zenon
      <4>. QED
        BY <4>2 DEF TypeOK, Lead
    <3>. QED
      BY <3>1 DEF Down, SamplesAreTrue, Blamed, TypeOK, Lead
  <2>4. ASSUME NEW d \in Dependencies
        PROVE  /\ up'[d] < Lead => Blamed(d)
               /\ seen'[d].low => Blamed(d)
               /\ seen'[d].traffic => seen'[d].samples
    <3>1. up'[d] < Lead => ~reads[d] \/ up[d] < Lead
      BY <2>1 DEF Passing, Lead
    <3>2. CASE seen'[d] = seen[d]
      BY <2>3, <3>1, <3>2 DEF SamplesAreTrue
    <3>3. CASE seen'[d] # seen[d]
      <4>1. seen'[d].samples /\ seen'[d].low = (seen[d].low \/ ~reads[d])
        <5>1. \/ seen'[d] = Counted(Sample(d, enough, reads))
              \/ seen'[d] = Sample(d, enough, reads)
          BY <1>0, <2>1, <3>3 DEF Passing
        <5>2. /\ Sample(d, enough, reads) \in Observations
              /\ Sample(d, enough, reads).samples
              /\ Sample(d, enough, reads).low = (seen[d].low \/ ~reads[d])
          BY <1>0, <2>2, SampleType
        <5>3. /\ Counted(Sample(d, enough, reads)).samples
                   = Sample(d, enough, reads).samples
              /\ Counted(Sample(d, enough, reads)).low
                   = Sample(d, enough, reads).low
          BY <5>2, CountedType
        <5>. QED
          BY <5>1, <5>2, <5>3, Zenon
      <4>. QED
        BY <2>3, <3>1, <4>1 DEF SamplesAreTrue
    <3>. QED
      BY <3>2, <3>3
  <2>. QED
    BY <2>2, <2>4 DEF SamplesAreTrue, Blamed
<1>5. ASSUME NEW k \in Kinds, NEW a \in AppPods, Event(k, a)
      PROVE  SamplesAreTrue'
  <2>1. UNCHANGED <<fault, landed, up, stale>>
    BY <1>5 DEF Event, flowVars
  <2>2. ASSUME NEW d \in Dependencies
        PROVE  /\ seen'[d].low = seen[d].low
               /\ seen'[d].traffic = seen[d].traffic
               /\ seen'[d].samples = seen[d].samples
    BY <1>0, <1>5, EventSees
  <2>. QED
    BY <2>1, <2>2 DEF SamplesAreTrue, Blamed
<1>6. CASE Sweep \/ StaleRecovers
  BY <1>1, <1>6 DEF Sweep, StaleRecovers, flowVars, promVars
<1>. QED
  BY <1>1, <1>2, <1>3, <1>4, <1>5, <1>6
     DEF Next, Orchestrate, Controllers, Launch, Create, Poll, Score,
         Exit, Kill, LoadEnds, Blackout, vars, flowVars, promVars

-----------------------------------------------------------------------------
(* What a verdict says of the faults.                                      *)

\* A dependency whose checks pass has been seen failing.
LEMMA PassingIsBlamed ==
    ASSUME TypeOK, SamplesAreTrue, NEW d \in Dependencies, Passes(d)
    PROVE  Blamed(d)
<1>1. seen[d].traffic
  BY DEF Passes, TrafficFlowed
<1>2. seen[d].samples /\ Lowest(d) = 0
  BY <1>1 DEF Passes, SamplesAreTrue
<1>. QED
  BY <1>2 DEF Lowest, SamplesAreTrue

LEMMA ScoredStep == IInv /\ [Next]_vars => ScoredAreReal'
<1>. SUFFICES ASSUME IInv, [Next]_vars PROVE ScoredAreReal'
  OBVIOUS
<1>1. \A d : Blamed(d) => Blamed(d)'
  BY BlameStays DEF Blamed
<1>2. CASE UNCHANGED <<rc, scored>>
  BY <1>1, <1>2 DEF IInv, ScoredAreReal
<1>3. CASE Score
  <2>. SUFFICES ASSUME NEW i \in 1..3, i <= scored', ~rc',
                       Order[i] \in Dependencies
                PROVE  Blamed(Order[i])'
    BY DEF ScoredAreReal
  <2>1. CASE i = scored + 1
    BY <1>1, <1>3, <2>1, PassingIsBlamed DEF Score, IInv
  <2>2. CASE i <= scored
    BY <1>1, <1>3, <2>2 DEF Score, IInv, ScoredAreReal
  <2>. QED
    BY <1>3, <2>1, <2>2 DEF Score, IInv, TypeOK
<1>. QED
  BY <1>2, <1>3
     DEF Next, Orchestrate, Controllers, Sweep, Launch, Create, Poll, Exit,
         Kill, NextNode, HardCap, LoadEnds, StaleRecovers, Tick, Blackout,
         Event, vars, gateVars

-----------------------------------------------------------------------------
(* Time.                                                                   *)

LEMMA TimelyStep == IInv /\ [Next]_vars => Timely'
<1>. SUFFICES ASSUME TypeOK, InOrder, Timely, [Next]_vars PROVE Timely'
  BY DEF IInv
<1>. USE ChaosGateAssumption DEF Timely, Running
<1>0. Running => NodeTime[wf] \in Nat
  BY Nodes DEF TypeOK, NodeTime
<1>1. CASE Tick
  <2>1. lag' = IF NodeIsOver THEN lag + 1 ELSE lag
    BY <1>1 DEF Tick
  <2>. QED
    BY <1>0, <1>1, <2>1 DEF Tick, NodeIsOver, TypeOK
<1>2. CASE NextNode
  <2>1. wf' \in {"none", "done"} \cup DOMAIN NodeTime
    BY <1>2, NextIsNode
  <2>. QED
    BY <1>2, <2>1, Nodes DEF NextNode, NodeTime, TypeOK
<1>3. CASE Create
  BY <1>3 DEF Create, InOrder, NodeTime, TypeOK
<1>4. CASE HardCap
  BY <1>4 DEF HardCap
<1>5. CASE UNCHANGED <<now, flowVars>>
  BY <1>5 DEF flowVars
<1>. QED
  BY <1>1, <1>2, <1>3, <1>4, <1>5
     DEF Next, Orchestrate, Controllers, Sweep, Launch, Poll, Score, Exit,
         Kill, LoadEnds, StaleRecovers, Blackout, Event, vars, flowVars

LEMMA BudgetStep == IInv /\ [Next]_vars => InBudget'
<1>. SUFFICES ASSUME TypeOK, InBudget, [Next]_vars PROVE InBudget'
  BY DEF IInv
<1>. USE ChaosGateAssumption DEF InBudget, PollLimit, LoadWait
<1>1. CASE Sweep \/ Launch \/ Create \/ Exit \/ Kill
  BY <1>1 DEF Sweep, Launch, Create, Exit, Kill, TypeOK
<1>2. CASE Poll
  BY <1>2 DEF Poll, TypeOK
<1>3. CASE Score
  BY <1>3 DEF Score, TypeOK
<1>4. CASE Tick
  BY <1>4 DEF Tick, MayPass, gateVars, TypeOK
<1>5. CASE UNCHANGED <<now, gateVars>>
  BY <1>5 DEF gateVars
<1>. QED
  BY <1>1, <1>2, <1>3, <1>4, <1>5
     DEF Next, Orchestrate, Controllers, NextNode, HardCap, LoadEnds,
         StaleRecovers, Blackout, Event, vars, gateVars

-----------------------------------------------------------------------------
(* The theorems.                                                           *)

\* The invariant holds in every reachable state.
THEOREM Inductive == Spec => []IInv
<1>1. IInv /\ [Next]_vars => IInv'
  BY TypeStep, OrderStep, SamplesStep, ScoredStep, TimelyStep, BudgetStep
     DEF IInv
<1>. QED
  BY Initially, <1>1, PTL DEF Spec

\* The types of the gate, its Workflow and its samples (orchestrate.sh,
\* workflow.yaml, score_experiment.py).
THEOREM TypeCorrect == Spec => []TypeOK
<1>1. IInv => TypeOK
  BY DEF IInv
<1>. QED
  BY Inductive, <1>1, PTL

\* A gate that exits 0 has had Postgres and Redis fail, unless a previous run
\* left them failed or their check times out while they are there: the checks
\* for the outage cannot be passed by missing samples, however often
\* Prometheus, the load or the Workflow are away (score_experiment.py:60 and
\* 72-125).
THEOREM RealOutages == Spec => []OutagesAreReal
<1>1. IInv => OutagesAreReal
  <2>. SUFFICES ASSUME IInv, Passed, NEW d \in Dependencies \ (Leftovers \cup Slow)
                PROVE  d \in landed
    BY DEF OutagesAreReal
  <2>1. PICK i \in 1..3 : Order[i] = d
    BY DEF Order, Dependencies
  <2>2. i <= scored /\ ~rc
    BY DEF IInv, InOrder, Passed
  <2>. QED
    BY <2>1, <2>2 DEF IInv, ScoredAreReal, Blamed
<1>. QED
  BY Inductive, <1>1, PTL

\* If the clean-up, the scoring and the kubectl calls of the two loops take less
\* than what the deadline of the Job leaves beside the sleeps - 60 s together -
\* a decided pass is delivered (orchestrate.sh:51 and 90,
\* analysistemplate.yaml:39).
THEOREM PassesAreDelivered ==
    ASSUME MaxSweep + MaxScoring + 2 * MaxKubectl
               < GateDeadline - PollLimit - LoadWait
    PROVE  Spec => PassIsDelivered
<1>1. IInv /\ [Next]_vars
         => [pc' = "killed" /\ scored = 3 /\ ~rc => now < GateDeadline]_pc
  <2>. SUFFICES ASSUME IInv, [Next]_vars, pc' = "killed", pc # "killed",
                       scored = 3
                PROVE  now < GateDeadline
    OBVIOUS
  <2>1. Kill
    BY DEF Next, Orchestrate, Controllers, Sweep, Launch, Create, Poll, Score,
           Exit, NextNode, HardCap, LoadEnds, StaleRecovers, Tick, Blackout,
           Event, vars, gateVars
  <2>2. pc = "await"
    BY <2>1 DEF Kill, IInv, InOrder, TypeOK
  <2>. QED
    BY <2>2, ChaosGateAssumption
       DEF IInv, InBudget, TypeOK, GateDeadline, PollLimit, LoadWait
<1>. QED
  BY Inductive, <1>1, PTL DEF PassIsDelivered, Spec

-----------------------------------------------------------------------------
(* The schedule of the Workflow, and that scoring begins after it.         *)

\* When a node starts after the Workflow has, if nothing is delayed.
Begin == [warmup |-> 0, postgres |-> 9, redis |-> 21, signer |-> 30,
          settle |-> 39]

\* A node starts no sooner than planned, no later but for the delay of the
\* controller, and no sooner after an earlier node than planned.
OnSchedule ==
    /\ wf = "none" => \A e \in Experiments : started[e] = NoTime
    /\ Running =>
          /\ now <= wfStart + WorkflowLimit
          /\ wfStart + Begin[wf] <= nodeStart
          /\ nodeStart <= wfStart + Begin[wf] + lag
          /\ now <= wfStart + Begin[wf] + NodeTime[wf] + lag
    /\ \A e \in Experiments : started[e] # NoTime =>
          /\ wfStart + Begin[e] <= started[e] /\ started[e] <= now
          /\ started[e] <= wfStart + Begin[e] + lag
          /\ Running => started[e] + Begin[wf] <= nodeStart + Begin[e]

\* The orchestrator polls from the creation of the Workflow on, and goes on
\* when it is over, if there is one.
PolledToTheEnd ==
    /\ pc = "poll" /\ wf # "none" => since = wfStart
    /\ pc \in {"score", "await", "exit"} =>
          wf \in {"none", "done"} /\ T = started
    /\ wf = "done" =>
          \A e \in Experiments :
              started[e] # NoTime => now >= started[e] + Window(e)

Schedule == OnSchedule /\ PolledToTheEnd

LEMMA BeginNodes ==
    ASSUME NEW n \in DOMAIN NodeTime
    PROVE  /\ Begin[n] \in Nat /\ NodeTime[n] \in Nat
           /\ n = "settle" => Following[n] = "done"
           /\ n # "settle" => /\ Following[n] \in DOMAIN NodeTime \ {"warmup"}
                              /\ Begin[Following[n]] = Begin[n] + NodeTime[n]
BY Nodes DEF Begin, NodeTime, Following

LEMMA Windows ==
    ASSUME NEW e \in Experiments
    PROVE  /\ e \in DOMAIN NodeTime
           /\ Window(e) \in Nat
           /\ Begin[e] + Window(e) <= 43
BY Nodes DEF Experiments, Window, Duration, Settle, Begin

\* The next node starts on schedule when the last one was.
LEMMA NextNodeOnSchedule ==
    ASSUME IInv, OnSchedule, NextNode
    PROVE  OnSchedule'
<1>. USE ChaosGateAssumption
<1>1. wf \in DOMAIN NodeTime /\ Running
  BY DEF IInv, TypeOK, NextNode, NodeIsOver, Running
<1>2. /\ UNCHANGED <<now, wfStart, lag>>
      /\ nodeStart' = now
      /\ wf' = Following[wf]
      /\ now >= nodeStart + NodeTime[wf]
      /\ ~AtLimit
  <2>1. now - nodeStart >= NodeTime[wf]
    BY DEF NextNode, NodeIsOver
  <2>. QED
    BY <1>1, <2>1, BeginNodes DEF NextNode, IInv, TypeOK
<1>3. now < wfStart + WorkflowLimit
  BY <1>1, <1>2 DEF AtLimit, IInv, TypeOK, WorkflowLimit
<1>4. /\ now <= wfStart + Begin[wf] + NodeTime[wf] + lag
      /\ wfStart + Begin[wf] <= nodeStart
  BY <1>1 DEF OnSchedule
<1>5. wf' # "none"
  BY <1>1, <1>2, BeginNodes, Nodes
<1>6. Running' => /\ wf # "settle" /\ wf' \in DOMAIN NodeTime
                  /\ Begin[wf'] = Begin[wf] + NodeTime[wf]
                  /\ NodeTime[wf'] \in Nat /\ Begin[wf'] \in Nat
  BY <1>1, <1>2, BeginNodes DEF Running
<1>7. {now, wfStart, nodeStart, lag, Begin[wf], NodeTime[wf]} \subseteq Nat
  BY <1>1, BeginNodes DEF IInv, TypeOK
<1>8. Running' =>
          /\ now' <= wfStart' + WorkflowLimit
          /\ wfStart' + Begin[wf'] <= nodeStart'
          /\ nodeStart' <= wfStart' + Begin[wf'] + lag'
          /\ now' <= wfStart' + Begin[wf'] + NodeTime[wf'] + lag'
  BY <1>2, <1>3, <1>4, <1>6, <1>7 DEF WorkflowLimit
<1>9. ASSUME NEW e \in Experiments, started'[e] # NoTime
      PROVE  /\ wfStart' + Begin[e] <= started'[e] /\ started'[e] <= now'
             /\ started'[e] <= wfStart' + Begin[e] + lag'
             /\ Running' => started'[e] + Begin[wf'] <= nodeStart' + Begin[e]
  <2>1. CASE e = wf'
    <3>1. started'[e] = now
      BY <2>1 DEF NextNode
    <3>2. Running'
      BY <2>1 DEF Running, Experiments
    <3>. QED
      BY <2>1, <3>1, <3>2, <1>2, <1>4, <1>6, <1>7
  <2>2. CASE e # wf'
    <3>1. started'[e] = started[e]
      BY <2>2 DEF NextNode
    <3>2. /\ wfStart + Begin[e] <= started[e] /\ started[e] <= now
          /\ started[e] <= wfStart + Begin[e] + lag
          /\ started[e] + Begin[wf] <= nodeStart + Begin[e]
      BY <1>1, <1>9, <3>1 DEF OnSchedule
    <3>3. started[e] \in Nat /\ Begin[e] \in Nat
      BY <1>9, <3>1, Windows, BeginNodes DEF IInv, TypeOK
    <3>. QED
      BY <1>2, <1>6, <1>7, <3>1, <3>2, <3>3
  <2>. QED
    BY <2>1, <2>2
<1>. QED
  BY <1>5, <1>8, <1>9 DEF OnSchedule

LEMMA OnScheduleStep == IInv /\ OnSchedule /\ [Next]_vars => OnSchedule'
<1>. SUFFICES ASSUME IInv, OnSchedule, [Next]_vars PROVE OnSchedule'
  OBVIOUS
<1>. USE ChaosGateAssumption
<1>1. CASE NextNode
  BY <1>1, NextNodeOnSchedule
<1>2. CASE Tick
  <2>1. /\ UNCHANGED <<wf, wfStart, nodeStart, started>>
        /\ now' = now + 1
        /\ lag' = IF NodeIsOver THEN lag + 1 ELSE lag
        /\ ~AtLimit
    BY <1>2 DEF Tick, MayPass
  <2>2. ASSUME Running
        PROVE  /\ now' <= wfStart + WorkflowLimit
               /\ wfStart + Begin[wf] <= nodeStart
               /\ nodeStart <= wfStart + Begin[wf] + lag'
               /\ now' <= wfStart + Begin[wf] + NodeTime[wf] + lag'
    <3>1. {now, wfStart, nodeStart, lag, Begin[wf], NodeTime[wf]}
             \subseteq Nat
      BY <2>2, BeginNodes DEF IInv, TypeOK, Running
    <3>2. now < wfStart + WorkflowLimit
      BY <2>1, <2>2, <3>1 DEF AtLimit, WorkflowLimit
    <3>3. /\ wfStart + Begin[wf] <= nodeStart
          /\ nodeStart <= wfStart + Begin[wf] + lag
          /\ now <= wfStart + Begin[wf] + NodeTime[wf] + lag
      BY <2>2 DEF OnSchedule
    <3>4. CASE NodeIsOver
      BY <2>1, <3>1, <3>2, <3>3, <3>4 DEF WorkflowLimit
    <3>5. CASE ~NodeIsOver
      <4>1. now < nodeStart + NodeTime[wf]
        BY <2>2, <3>1, <3>5 DEF NodeIsOver
      <4>. QED
        BY <2>1, <3>1, <3>2, <3>3, <3>5, <4>1 DEF WorkflowLimit
    <3>. QED
      BY <3>4, <3>5
  <2>3. lag' \in Nat /\ lag \in Nat /\ lag <= lag'
    BY <2>1 DEF IInv, TypeOK
  <2>4. ASSUME NEW e \in Experiments, started[e] # NoTime
        PROVE  /\ wfStart + Begin[e] <= started[e] /\ started[e] <= now'
               /\ started[e] <= wfStart + Begin[e] + lag'
    <3>1. /\ started[e] \in Nat /\ wfStart \in Nat /\ Begin[e] \in Nat
          /\ now \in Nat
          /\ wfStart + Begin[e] <= started[e] /\ started[e] <= now
          /\ started[e] <= wfStart + Begin[e] + lag
      BY <2>4, Windows, BeginNodes DEF IInv, TypeOK, OnSchedule
    <3>. QED
      BY <2>1, <2>3, <3>1
  <2>5. Running' <=> Running
    BY <2>1 DEF Running
  <2>6. \A e \in Experiments : started[e] # NoTime =>
           (Running => started[e] + Begin[wf] <= nodeStart + Begin[e])
    BY DEF OnSchedule
  <2>7. wf = "none" => \A e \in Experiments : started[e] = NoTime
    BY DEF OnSchedule
  <2>. QED
    BY <2>1, <2>2, <2>4, <2>5, <2>6, <2>7 DEF OnSchedule
<1>3. CASE Create
  <2>1. \A e \in Experiments : started'[e] = NoTime
    BY <1>3 DEF Create, IInv, InOrder, OnSchedule
  <2>2. CASE wf' = "warmup" /\ wfStart' = now /\ nodeStart' = now
    BY <1>3, <2>1, <2>2
       DEF Create, OnSchedule, Begin, NodeTime, WorkflowLimit, IInv, TypeOK
  <2>3. CASE wf' = wf
    BY <1>3, <2>1, <2>3 DEF Create, OnSchedule, IInv, InOrder, Running
  <2>. QED
    BY <1>3, <2>2, <2>3 DEF Create
<1>4. CASE HardCap
  BY <1>4 DEF HardCap, OnSchedule, Running
<1>5. CASE UNCHANGED <<now, flowVars>>
  BY <1>5 DEF flowVars, OnSchedule, Running
<1>. QED
  BY <1>1, <1>2, <1>3, <1>4, <1>5
     DEF Next, Orchestrate, Controllers, Sweep, Launch, Poll, Score, Exit,
         Kill, LoadEnds, StaleRecovers, Blackout, Event, vars, flowVars

\* The Workflow ends after every window it has opened, by its last node or,
\* if the controller is not away for too long, by its deadline.
LEMMA EndsAfterWindows ==
    ASSUME IInv, OnSchedule, NextNode \/ HardCap, wf' = "done",
           MaxLag <= WorkflowLimit - Begin["signer"] - Window("signer"),
           NEW e \in Experiments, started'[e] # NoTime
    PROVE  now >= started'[e] + Window(e)
<1>. USE ChaosGateAssumption
<1>1. wf \in DOMAIN NodeTime /\ Running
  BY DEF IInv, TypeOK, NextNode, HardCap, AtLimit, NodeIsOver, Running
<1>2. started'[e] = started[e]
  BY DEF NextNode, HardCap, IInv, TypeOK, Experiments
<1>3. started[e] \in Nat /\ Window(e) \in Nat /\ Begin[e] \in Nat
  BY <1>2, Windows, BeginNodes DEF IInv, TypeOK
<1>4. {now, wfStart, nodeStart, lag} \subseteq Nat
  BY DEF IInv, TypeOK
<1>5. Begin[e] + Window(e) <= 43
  BY Windows
<1>6. CASE NextNode
  <2>1. wf = "settle"
    BY <1>1, <1>6, BeginNodes, Nodes DEF NextNode
  <2>2. now >= nodeStart + 6
    BY <1>4, <1>6, <2>1 DEF NextNode, NodeIsOver, NodeTime
  <2>3. started[e] + 39 <= nodeStart + Begin[e]
    BY <1>1, <1>2, <2>1 DEF OnSchedule, Begin
  <2>4. 45 - Begin[e] >= Window(e)
    BY DEF Experiments, Begin, Window, Duration, Settle
  <2>. QED
    BY <1>2, <1>3, <1>4, <2>2, <2>3, <2>4
<1>7. CASE HardCap
  <2>1. now >= wfStart + 72
    BY <1>4, <1>7 DEF HardCap, AtLimit, WorkflowLimit
  <2>2. started[e] <= wfStart + Begin[e] + lag
    BY <1>2 DEF OnSchedule
  <2>3. lag <= 29
    BY DEF IInv, TypeOK, WorkflowLimit, Begin, Window, Duration, Settle
  <2>. QED
    BY <1>2, <1>3, <1>4, <1>5, <2>1, <2>2, <2>3
<1>. QED
  BY <1>6, <1>7

LEMMA PolledStep ==
    ASSUME MaxLag <= WorkflowLimit - Begin["signer"] - Window("signer")
    PROVE  IInv /\ Schedule /\ [Next]_vars => PolledToTheEnd'
<1>. SUFFICES ASSUME IInv, OnSchedule, PolledToTheEnd, [Next]_vars
              PROVE  PolledToTheEnd'
  BY DEF Schedule
<1>. USE ChaosGateAssumption
<1>1. CASE Sweep \/ Launch \/ Kill
  BY <1>1 DEF Sweep, Launch, Kill, flowVars, PolledToTheEnd, IInv, InOrder
<1>2. CASE Create
  BY <1>2 DEF Create, PolledToTheEnd, IInv, InOrder
<1>3. CASE Poll
  <2>1. wf \in {"none", "done"}
    <3>. SUFFICES ASSUME Running, now - since >= PollLimit PROVE FALSE
      BY <1>3 DEF Poll, Running
    <3>1. since = wfStart /\ now <= wfStart + WorkflowLimit
      BY <1>3 DEF Poll, PolledToTheEnd, OnSchedule, Running
    <3>. QED
      BY <3>1 DEF PollLimit, WorkflowLimit, IInv, TypeOK
  <2>. QED
    BY <1>3, <2>1 DEF Poll, PolledToTheEnd, flowVars
<1>4. CASE Score \/ Exit
  BY <1>4 DEF Score, Exit, PolledToTheEnd, flowVars
<1>5. CASE NextNode \/ HardCap
  <2>1. Running /\ wf' # "none"
    BY <1>5, NextIsNode, BeginNodes, Nodes
       DEF NextNode, HardCap, NodeIsOver, AtLimit, Running, IInv, TypeOK
  <2>2. UNCHANGED <<now, pc, since, wfStart>>
    BY <1>5 DEF NextNode, HardCap, gateVars
  <2>3. wf # "none" /\ pc \notin {"score", "await", "exit"}
    BY <2>1 DEF PolledToTheEnd, Running
  <2>. QED
    BY <1>5, <2>1, <2>2, <2>3, EndsAfterWindows DEF PolledToTheEnd
<1>6. CASE Tick
  <2>1. /\ UNCHANGED <<gateVars, wf, wfStart, started>>
        /\ now' = now + 1
    BY <1>6 DEF Tick
  <2>2. \A e \in Experiments : started[e] # NoTime =>
            /\ started[e] + Window(e) \in Nat
            /\ now \in Nat
    BY Windows DEF IInv, TypeOK
  <2>. QED
    BY <2>1, <2>2 DEF PolledToTheEnd, gateVars
<1>7. CASE UNCHANGED <<now, gateVars, flowVars>>
  BY <1>7 DEF gateVars, flowVars, PolledToTheEnd
<1>. QED
  BY <1>1, <1>2, <1>3, <1>4, <1>5, <1>6, <1>7
     DEF Next, Orchestrate, Controllers, LoadEnds, StaleRecovers, Blackout,
         Event, vars

\* If the controller is not away for more than 290 s, the schedule is kept.
THEOREM ScheduleKept ==
    ASSUME MaxLag <= WorkflowLimit - Begin["signer"] - Window("signer")
    PROVE  Spec => [](IInv /\ Schedule)
<1>1. Init => Schedule
  BY DEF Init, Schedule, OnSchedule, PolledToTheEnd, Running
<1>2. IInv /\ Schedule /\ [Next]_vars => Schedule'
  BY OnScheduleStep, PolledStep DEF Schedule
<1>. QED
  BY Inductive, <1>1, <1>2, PTL DEF Spec

\* Scoring begins when every window is over, unless the Workflow's controller is
\* away for more than 290 s of its 720 s (orchestrate.sh:46-68,
\* workflow.yaml:16).
THEOREM ScoresWhenOver ==
    ASSUME MaxLag <= WorkflowLimit - Begin["signer"] - Window("signer")
    PROVE  Spec => []ScoredWhenOver
<1>1. IInv /\ Schedule => ScoredWhenOver
  BY DEF ScoredWhenOver, Schedule, OnSchedule, PolledToTheEnd
<1>. QED
  BY ScheduleKept, <1>1, PTL

-----------------------------------------------------------------------------
(* What a pass says of the Workflow.                                       *)

\* The Workflow starts the experiments one after another, each when those
\* before it have had the time of their nodes.
InTurn ==
    /\ Running => \A e \in Experiments :
                      started[e] # NoTime => Begin[e] <= Begin[wf]
    /\ \A d, e \in Experiments :
          started[d] # NoTime /\ started[e] # NoTime /\ Begin[d] <= Begin[e]
             => started[d] + Begin[e] <= started[e] + Begin[d]

\* A start time that was collected is that of a node of this run, and what has
\* passed so far has one.
ScoredHaveStarted ==
    /\ \A e \in Experiments : T[e] # NoTime => T[e] = started[e]
    /\ \A i \in 1..3 : i <= scored /\ ~rc => T[Order[i]] # NoTime

\* The nodes are started in the order of their planned times.
LEMMA NextIsLater ==
    ASSUME TypeOK, NextNode, InTurn, NEW e \in Experiments,
           started[e] # NoTime
    PROVE  /\ e # wf' /\ started'[e] = started[e]
           /\ wf' \in DOMAIN NodeTime => Begin[e] < Begin[wf']
<1>1. /\ wf \in DOMAIN NodeTime /\ wf' = Following[wf]
      /\ Begin[e] <= Begin[wf]
  BY DEF TypeOK, NextNode, NodeIsOver, Running, InTurn
<1>2. wf' \in DOMAIN NodeTime => Begin[wf] < Begin[wf']
  BY <1>1, Nodes DEF Begin, Following
<1>3. e \in DOMAIN NodeTime /\ Begin[e] \in Nat /\ Begin[wf] \in Nat
  BY <1>1, Windows, BeginNodes
<1>4. wf' \in DOMAIN NodeTime => Begin[e] < Begin[wf'] /\ e # wf'
  BY <1>1, <1>2, <1>3, BeginNodes
<1>5. e # wf'
  BY <1>3, <1>4
<1>. QED
  BY <1>4, <1>5 DEF NextNode

LEMMA InTurnStep == IInv /\ OnSchedule /\ InTurn /\ [Next]_vars => InTurn'
<1>. SUFFICES ASSUME IInv, OnSchedule, InTurn, [Next]_vars PROVE InTurn'
  OBVIOUS
<1>0. TypeOK
  BY DEF IInv
<1>1. CASE NextNode
  <2>1. wf' \in {"none", "done"} \cup DOMAIN NodeTime
    BY <1>0, <1>1, NextIsNode
  <2>2. OnSchedule'
    BY <1>1, NextNodeOnSchedule
  <2>3. wf' \in Experiments =>
            started'[wf'] = now /\ nodeStart' = now /\ Running'
    BY <1>1 DEF NextNode, Running, Experiments
  <2>4. \A e \in Experiments : e # wf' => started'[e] = started[e]
    BY <1>1 DEF NextNode
  <2>5. Running' => \A e \in Experiments :
                        started'[e] # NoTime => Begin[e] <= Begin[wf']
    <3>. SUFFICES ASSUME Running', NEW e \in Experiments, started'[e] # NoTime
                  PROVE  Begin[e] <= Begin[wf']
      OBVIOUS
    <3>1. wf' \in DOMAIN NodeTime /\ e \in DOMAIN NodeTime
      BY <2>1, Windows DEF Running
    <3>. QED
      BY <1>0, <1>1, <2>4, <3>1, NextIsLater, BeginNodes
  <2>6. ASSUME NEW d \in Experiments, NEW e \in Experiments,
               started'[d] # NoTime, started'[e] # NoTime, Begin[d] <= Begin[e]
        PROVE  started'[d] + Begin[e] <= started'[e] + Begin[d]
    <3>1. CASE e = wf'
      BY <2>2, <2>3, <2>6, <3>1 DEF OnSchedule
    <3>2. CASE e # wf' /\ d # wf'
      BY <2>4, <2>6, <3>2 DEF InTurn
    <3>3. CASE e # wf' /\ d = wf'
      <4>1. Begin[e] < Begin[d]
        BY <1>0, <1>1, <2>4, <2>6, <3>3, NextIsLater, Windows
      <4>2. Begin[d] \in Nat /\ Begin[e] \in Nat
        BY Windows, BeginNodes
      <4>. QED
        BY <2>6, <4>1, <4>2
    <3>. QED
      BY <3>1, <3>2, <3>3
  <2>. QED
    BY <2>5, <2>6 DEF InTurn
<1>2. CASE Create
  BY <1>2 DEF Create, IInv, InOrder, OnSchedule, InTurn
<1>3. CASE HardCap
  BY <1>3 DEF HardCap, InTurn, Running
<1>4. CASE UNCHANGED <<wf, started>>
  BY <1>4 DEF InTurn, Running
<1>. QED
  BY <1>1, <1>2, <1>3, <1>4
     DEF Next, Orchestrate, Controllers, Sweep, Launch, Poll, Score, Exit,
         Kill, LoadEnds, StaleRecovers, Tick, Blackout, Event, vars, flowVars

LEMMA StartedStep ==
    IInv /\ InTurn /\ ScoredHaveStarted /\ [Next]_vars => ScoredHaveStarted'
<1>. SUFFICES ASSUME IInv, InTurn, ScoredHaveStarted, [Next]_vars
              PROVE  ScoredHaveStarted'
  OBVIOUS
<1>0. TypeOK
  BY DEF IInv
<1>1. CASE Poll
  BY <1>0, <1>1 DEF Poll, flowVars, ScoredHaveStarted, IInv, InOrder
<1>2. CASE Score
  <2>1. /\ rc' = (rc \/ T[Order[scored + 1]] = NoTime \/ ~prom
                     \/ ~Passes(Order[scored + 1]))
        /\ scored' = scored + 1 /\ UNCHANGED <<T, started>>
    BY <1>2 DEF Score, flowVars
  <2>2. ASSUME NEW i \in 1..3, i <= scored', ~rc'
        PROVE  T[Order[i]] # NoTime
    <3>1. CASE i = scored + 1
      BY <2>1, <2>2, <3>1
    <3>2. CASE i <= scored
      BY <2>1, <2>2, <3>2 DEF ScoredHaveStarted
    <3>. QED
      BY <1>0, <2>1, <2>2, <3>1, <3>2 DEF TypeOK
  <2>. QED
    BY <2>1, <2>2 DEF ScoredHaveStarted
<1>3. CASE NextNode
  <2>1. UNCHANGED gateVars
    BY <1>3 DEF NextNode
  <2>2. \A e \in Experiments : T[e] # NoTime => started'[e] = started[e]
    BY <1>0, <1>3, NextIsLater DEF ScoredHaveStarted
  <2>. QED
    BY <2>1, <2>2 DEF ScoredHaveStarted, gateVars
<1>4. CASE UNCHANGED <<T, rc, scored, started>>
  BY <1>4 DEF ScoredHaveStarted
<1>. QED
  BY <1>1, <1>2, <1>3, <1>4
     DEF Next, Orchestrate, Controllers, Sweep, Launch, Create, Exit, Kill,
         HardCap, LoadEnds, StaleRecovers, Tick, Blackout, Event, vars,
         gateVars, flowVars

\* In a gate that passes, the Workflow of this very run has started all three
\* experiments, at the times that were scored and each after the whole
\* duration of the one before.
PassIsOfThisRun ==
    Passed =>
       /\ \A e \in Experiments : T[e] # NoTime /\ T[e] = started[e]
       /\ T["redis"] >= T["postgres"] + Duration["postgres"]
       /\ T["signer"] >= T["redis"] + Duration["redis"]

\* A gate that exits 0 has run: however often the Workflow is not created, its
\* controller is away or the API does not answer, a pass has the start times
\* of three nodes of its own Workflow, in the order of workflow.yaml and at
\* least as far apart as the durations of orchestrate.sh:16-18 say.  That the
\* fault of the signer took effect is not among what it says (AllKilled).
THEOREM PassesHaveRun == Spec => []PassIsOfThisRun
<1>1. Init => OnSchedule /\ InTurn /\ ScoredHaveStarted
  BY DEF Init, OnSchedule, InTurn, ScoredHaveStarted, Running
<1>2. IInv /\ OnSchedule /\ InTurn /\ ScoredHaveStarted /\ [Next]_vars
         => OnSchedule' /\ InTurn' /\ ScoredHaveStarted'
  BY OnScheduleStep, InTurnStep, StartedStep
<1>3. IInv /\ InTurn /\ ScoredHaveStarted => PassIsOfThisRun
  <2>. SUFFICES ASSUME IInv, InTurn, ScoredHaveStarted, Passed
                PROVE  PassIsOfThisRun
    BY DEF PassIsOfThisRun
  <2>1. scored = 3 /\ ~rc
    BY DEF IInv, InOrder, Passed
  <2>2. \A e \in Experiments : \E i \in 1..3 : Order[i] = e
    BY DEF Order, Experiments
  <2>3. \A e \in Experiments : T[e] # NoTime /\ T[e] = started[e]
    BY <2>1, <2>2 DEF ScoredHaveStarted
  <2>4. /\ {"postgres", "redis", "signer"} \subseteq Experiments
        /\ \A e \in Experiments : T[e] \in Nat
    BY <2>3 DEF Experiments, IInv, TypeOK, NoTime
  <2>5. /\ started["postgres"] + Begin["redis"]
             <= started["redis"] + Begin["postgres"]
        /\ started["redis"] + Begin["signer"]
             <= started["signer"] + Begin["redis"]
    <3>1. Begin["postgres"] <= Begin["redis"] /\ Begin["redis"] <= Begin["signer"]
      BY DEF Begin
    <3>. QED
      BY <2>3, <2>4, <3>1 DEF InTurn
  <2>6. /\ T["redis"] >= T["postgres"] + Duration["postgres"]
        /\ T["signer"] >= T["redis"] + Duration["redis"]
    BY <2>3, <2>4, <2>5 DEF Begin, Duration
  <2>. QED
    BY <2>3, <2>6 DEF PassIsOfThisRun
<1>. QED
  BY Inductive, <1>1, <1>2, <1>3, PTL DEF Spec

-----------------------------------------------------------------------------
(* What a pass says of the recovery of Postgres.                           *)

\* A fault has taken effect only in an experiment that has started.  Once the
\* gauge of Postgres has been low in the window of its failure, it is 1 only
\* after Postgres has come back; and so is the last reading of the window.
Recovering ==
    /\ \A e \in Experiments : started[e] = NoTime => e \notin landed
    /\ "postgres" \notin Leftovers \cup Slow =>
          /\ Open("postgres") /\ seen["postgres"].low /\ up["postgres"] > 0
                => back
          /\ seen["postgres"].samples /\ seen["postgres"].low
             /\ seen["postgres"].last => back
          /\ scored >= 1 /\ ~rc => back

\* When the node of Postgres starts, its gauge has been 1 for the lead.
LEMMA StartsHigh ==
    ASSUME IInv, InTurn, Recovering, NextNode, wf' = "postgres",
           "postgres" \notin Leftovers \cup Slow
    PROVE  ~seen'["postgres"].low
<1>0. "postgres" \in Experiments /\ "postgres" \in Dependencies
  BY DEF Experiments, Dependencies
<1>1. started["postgres"] = NoTime
  BY <1>0, NextIsLater DEF IInv
<1>2. ~(up["postgres"] < Lead)
  BY <1>0, <1>1 DEF Recovering, IInv, SamplesAreTrue, Blamed
<1>. DEFINE low == prom /\ "postgres" \in Dependencies /\ up["postgres"] < Lead
            last == "postgres" \in Dependencies /\ up["postgres"] > 0
<1>3. seen'["postgres"]
        = [samples |-> prom, low |-> low, last |-> last, traffic |-> FALSE,
           base |-> FALSE, fresh |-> {}, events |-> {}]
  BY <1>0 DEF NextNode, FirstSamples
<1>4. ~low
  BY <1>2
<1>. HIDE DEF low, last
<1>. QED
  BY <1>3, <1>4

LEMMA RecoveringTick ==
    ASSUME IInv, Recovering, Tick, "postgres" \notin Leftovers \cup Slow
    PROVE  /\ Open("postgres")' /\ seen'["postgres"].low
              /\ up'["postgres"] > 0 => back'
           /\ seen'["postgres"].samples /\ seen'["postgres"].low
              /\ seen'["postgres"].last => back'
<1>0. /\ "postgres" \in Experiments /\ "postgres" \in Dependencies
      /\ "postgres" # "signer" /\ TypeOK /\ SamplesAreTrue
  BY DEF Experiments, Dependencies, IInv
<1>1. PICK enough \in Requests, reads \in [Dependencies -> BOOLEAN],
           scrape \in {prom /\ due = 0, prom} : Passing(enough, reads, scrape)
  BY TickPasses
<1>2. /\ back => back'
      /\ Open("postgres") /\ "postgres" \in landed /\ ~Down("postgres")
            => back'
      /\ UNCHANGED <<started, scored, rc>> /\ now' = now + 1
  BY DEF Tick, gateVars
<1>3. Open("postgres")' => Open("postgres")
  BY <1>0, <1>2, Windows DEF Open, TypeOK
<1>4. reads["postgres"] \in BOOLEAN /\ enough \in BOOLEAN
  BY <1>0, <1>1 DEF Requests
<1>5. up'["postgres"] > 0 <=> reads["postgres"]
  BY <1>0, <1>1, <1>4 DEF Passing, TypeOK, Lead
<1>6. reads["postgres"] => up["postgres"] > 0 \/ ~Down("postgres")
  <2>1. \/ reads["postgres"] = (up["postgres"] > 0)
        \/ reads["postgres"] = ~Down("postgres")
    BY <1>0, <1>1 DEF Passing, Readings
  <2>. QED
    BY <2>1, Zenon
<1>7. seen["postgres"].low => "postgres" \in landed
  BY <1>0 DEF SamplesAreTrue, Blamed
<1>8. Open("postgres") /\ seen["postgres"].low /\ reads["postgres"] => back'
  BY <1>2, <1>6, <1>7 DEF Recovering
<1>9. \/ seen'["postgres"] = seen["postgres"]
      \/ /\ Open("postgres")
         /\ seen'["postgres"].low = (seen["postgres"].low \/ ~reads["postgres"])
         /\ seen'["postgres"].last = reads["postgres"]
  <2>. DEFINE s == Sample("postgres", enough, reads)
  <2>1. /\ s \in Observations
        /\ s.low = (seen["postgres"].low \/ ~reads["postgres"])
        /\ s.last = reads["postgres"]
    BY <1>0, <1>4, SampleType
  <2>2. \/ seen'["postgres"] = seen["postgres"]
        \/ Open("postgres") /\ seen'["postgres"] = Counted(s)
        \/ Open("postgres") /\ seen'["postgres"] = s
    BY <1>0, <1>1 DEF Passing
  <2>. HIDE DEF s
  <2>3. Counted(s).low = s.low /\ Counted(s).last = s.last
    BY <2>1, CountedType
  <2>. QED
    BY <2>1, <2>2, <2>3, Zenon
<1>10. ASSUME Open("postgres")', seen'["postgres"].low, up'["postgres"] > 0
       PROVE  back'
  BY <1>3, <1>4, <1>5, <1>8, <1>9, <1>10
<1>11. ASSUME seen'["postgres"].samples, seen'["postgres"].low,
              seen'["postgres"].last
       PROVE  back'
  BY <1>2, <1>4, <1>8, <1>9, <1>11 DEF Recovering
<1>. QED
  BY <1>10, <1>11

LEMMA RecoveringStep == IInv /\ InTurn /\ Recovering /\ [Next]_vars => Recovering'
<1>. SUFFICES ASSUME IInv, InTurn, Recovering, [Next]_vars PROVE Recovering'
  OBVIOUS
<1>0. "postgres" \in Experiments /\ TypeOK
  BY DEF Experiments, IInv
<1>1. CASE UNCHANGED <<now, rc, scored, started, landed, up, seen, back>>
  BY <1>1 DEF Recovering, Open
<1>2. CASE Score
  <2>1. /\ UNCHANGED <<now, started, landed, up, seen, back>>
        /\ scored' = scored + 1
        /\ rc' = (rc \/ T[Order[scored + 1]] = NoTime \/ ~prom
                     \/ ~Passes(Order[scored + 1]))
    BY <1>2 DEF Score, flowVars, promVars
  <2>2. ASSUME "postgres" \notin Leftovers \cup Slow, ~rc' PROVE back
    <3>1. CASE scored = 0
      <4>1. Passes("postgres")
        <5>1. Order[scored + 1] = "postgres"
          BY <3>1 DEF Order
        <5>. QED
          BY <2>1, <2>2, <5>1, Zenon
      <4>2. seen["postgres"].traffic /\ Lowest("postgres") = 0
            /\ Latest("postgres") = 1
        BY <4>1 DEF Passes, TrafficFlowed, Dependencies
      <4>3. seen["postgres"].samples
        BY <4>2 DEF IInv, SamplesAreTrue, Dependencies
      <4>. QED
        BY <2>2, <4>2, <4>3 DEF Lowest, Latest, Recovering
    <3>2. CASE scored # 0
      BY <1>0, <2>1, <2>2, <3>2 DEF Recovering, TypeOK
    <3>. QED
      BY <3>1, <3>2
  <2>. QED
    BY <2>1, <2>2 DEF Recovering, Open
<1>3. CASE NextNode
  <2>1. /\ UNCHANGED <<now, rc, scored, up, back>>
        /\ started' = [e \in Experiments |->
                         IF e = wf' THEN now ELSE started[e]]
        /\ seen' = [e \in Experiments |->
                      IF e = wf' THEN FirstSamples(e) ELSE seen[e]]
        /\ landed' = landed \cup fault' /\ fault' \subseteq {wf'}
    BY <1>3 DEF NextNode, FaultOf, gateVars
  <2>2. ASSUME NEW e \in Experiments, started'[e] = NoTime PROVE e \notin landed'
    <3>1. e # wf'
      BY <1>0, <2>1, <2>2 DEF TypeOK, NoTime
    <3>. QED
      BY <2>1, <2>2, <3>1 DEF Recovering
  <2>3. CASE wf' = "postgres"
    <3>1. "postgres" \notin Leftovers \cup Slow => ~seen'["postgres"].low
      BY <1>3, <2>3, StartsHigh
    <3>. QED
      BY <2>1, <2>2, <3>1 DEF Recovering
  <2>4. CASE wf' # "postgres"
    <3>1. /\ seen'["postgres"] = seen["postgres"]
          /\ started'["postgres"] = started["postgres"]
      BY <1>0, <2>1, <2>4
    <3>. QED
      BY <2>1, <2>2, <3>1 DEF Recovering, Open
  <2>. QED
    BY <2>3, <2>4
<1>4. CASE Tick
  <2>1. /\ UNCHANGED <<started, landed, scored, rc>>
        /\ back => back'
    BY <1>4 DEF Tick, gateVars
  <2>2. \A e \in Experiments : started'[e] = NoTime => e \notin landed'
    BY <2>1 DEF Recovering
  <2>3. ASSUME "postgres" \notin Leftovers \cup Slow, scored' >= 1, ~rc'
        PROVE  back'
    BY <2>1, <2>3 DEF Recovering
  <2>4. ASSUME "postgres" \notin Leftovers \cup Slow
        PROVE  /\ Open("postgres")' /\ seen'["postgres"].low
                  /\ up'["postgres"] > 0 => back'
               /\ seen'["postgres"].samples /\ seen'["postgres"].low
                  /\ seen'["postgres"].last => back'
    BY <1>4, <2>4, RecoveringTick
  <2>. QED
    BY <2>2, <2>3, <2>4, Zenon DEF Recovering
<1>5. ASSUME NEW k \in Kinds, NEW a \in AppPods, Event(k, a) PROVE Recovering'
  <2>1. /\ UNCHANGED <<now, started, landed, scored, rc, up, back>>
    BY <1>5 DEF Event, flowVars, gateVars
  <2>2. /\ seen'["postgres"].samples = seen["postgres"].samples
        /\ seen'["postgres"].low = seen["postgres"].low
        /\ seen'["postgres"].last = seen["postgres"].last
    BY <1>0, <1>5, EventSees
  <2>. QED
    BY <2>1, <2>2 DEF Recovering, Open
<1>6. CASE Poll \/ Kill \/ Exit \/ Sweep \/ Launch \/ Create
  <2>1. UNCHANGED <<now, rc, scored, started, landed, up, seen, back>>
    BY <1>6 DEF Poll, Kill, Exit, Sweep, Launch, Create, flowVars, promVars
  <2>. QED
    BY <1>1, <2>1
<1>7. CASE HardCap \/ LoadEnds \/ StaleRecovers \/ Blackout
  <2>1. UNCHANGED <<now, rc, scored, started, landed, up, seen, back>>
    BY <1>7 DEF HardCap, LoadEnds, StaleRecovers, Blackout, gateVars, flowVars,
                promVars
  <2>. QED
    BY <1>1, <2>1
<1>8. CASE UNCHANGED vars
  BY <1>1, <1>8 DEF vars, gateVars, flowVars, promVars
<1>. QED
  BY <1>2, <1>3, <1>4, <1>5, <1>6, <1>7, <1>8
     DEF Next, Orchestrate, Controllers

\* A gate that exits 0 has had Postgres back in the window of its failure,
\* whatever fault outlasts its node and whenever Prometheus is away: a gauge that
\* lags behind cannot show it at 1 again before it is there
\* (score_experiment.py:102-104).
THEOREM RealRecovery == Spec => []RecoveryIsReal
<1>1. Init => OnSchedule /\ InTurn /\ Recovering
  BY DEF Init, OnSchedule, InTurn, Recovering, Running, Open, Nothing,
         Experiments
<1>2. IInv /\ OnSchedule /\ InTurn /\ Recovering /\ [Next]_vars
         => OnSchedule' /\ InTurn' /\ Recovering'
  BY OnScheduleStep, InTurnStep, RecoveringStep
<1>3. IInv /\ Recovering => RecoveryIsReal
  BY DEF RecoveryIsReal, Recovering, Passed, IInv, InOrder
<1>. QED
  BY Inductive, <1>1, <1>2, <1>3, PTL DEF Spec

-----------------------------------------------------------------------------
(* Nothing escapes a pass.                                                 *)

\* The experiments whose node has been reached have started, all three when
\* the Workflow is over.
Marked ==
    /\ Running => \A e \in Experiments :
                      started[e] # NoTime <=> Begin[e] <= Begin[wf]
    /\ wf \in Experiments => started[wf] = nodeStart
    /\ wf = "done" => \A e \in Experiments : started[e] # NoTime

\* A counted event of a window, or one that the next scrape counts before the
\* window is over.
Noted(k, e) ==
    \/ k \in seen[e].events
    \/ /\ now + due < started[e] + Window(e)
       /\ \E a \in AppPods : <<k, a>> \in seen[e].fresh

\* Without a blackout a window has its base as soon as it may, what happened in
\* it is noted, and a restart in the campaign is noted in some window.
Watched ==
    "blackout" \notin lost =>
       /\ prom
       /\ \A e \in Experiments :
             started[e] # NoTime /\ ~seen[e].base
                => now + due < started[e] + Scrape
       /\ \A e \in Experiments : \A k \in Kinds \ lost :
             <<k, e>> \in happened => started[e] # NoTime /\ Noted(k, e)
       /\ <<"restart", "campaign">> \in happened =>
             \E e \in Experiments : started[e] # NoTime /\ Noted("restart", e)

\* Two windows overlap for longer than a scrape may be late.
SoonBack == MaxLag + Scrape <= Settle["redis"]

LEMMA MarkedStep ==
    ASSUME SoonBack
    PROVE  IInv /\ Schedule /\ Marked /\ [Next]_vars => Marked'
<1>. SUFFICES ASSUME IInv, OnSchedule, Marked, [Next]_vars PROVE Marked'
  BY DEF Schedule
<1>. USE ChaosGateAssumption
<1>1. CASE NextNode
  <2>1. wf \in DOMAIN NodeTime /\ Running /\ wf' = Following[wf]
    BY <1>1 DEF IInv, TypeOK, NextNode, NodeIsOver, Running
  <2>2. /\ nodeStart' = now /\ now # NoTime
        /\ \A e \in Experiments :
              started'[e] = IF e = wf' THEN now ELSE started[e]
    BY <1>1 DEF NextNode, IInv, TypeOK, NoTime
  <2>3. wf' = "done" => \A e \in Experiments : started'[e] # NoTime
    BY <2>1, <2>2, Nodes DEF Marked, Following, Begin, Experiments
  <2>4. wf' \in Experiments => started'[wf'] = nodeStart'
    BY <2>2
  <2>5. Running' => \A e \in Experiments :
                       started'[e] # NoTime <=> Begin[e] <= Begin[wf']
    BY <2>1, <2>2, Nodes DEF Marked, Following, Begin, Experiments, Running
  <2>. QED
    BY <2>3, <2>4, <2>5 DEF Marked
<1>2. CASE HardCap
  <2>1. wf \in DOMAIN NodeTime /\ Running /\ wf' = "done"
    BY <1>2 DEF IInv, TypeOK, HardCap, AtLimit, Running
  <2>2. now >= wfStart + 72 /\ now <= wfStart + Begin[wf] + NodeTime[wf] + lag
    BY <1>2, <2>1 DEF HardCap, AtLimit, WorkflowLimit, OnSchedule, IInv, TypeOK
  <2>3. lag < 4
    BY DEF SoonBack, Settle, IInv, TypeOK
  <2>4. Begin[wf] >= Begin["signer"]
    BY <2>1, <2>2, <2>3, Nodes DEF IInv, TypeOK, Begin, NodeTime
  <2>5. \A e \in Experiments : started[e] # NoTime
    BY <2>1, <2>4, Nodes DEF Marked, Experiments, Begin
  <2>. QED
    BY <1>2, <2>5 DEF HardCap, Marked, Running, Experiments
<1>3. CASE Create
  <2>1. \A e \in Experiments : started'[e] = NoTime
    BY <1>3 DEF Create, IInv, InOrder, OnSchedule
  <2>. QED
    BY <1>3, <2>1 DEF Create, Marked, Begin, Experiments, IInv, InOrder, Running
<1>4. CASE UNCHANGED <<wf, nodeStart, started>>
  BY <1>4 DEF Marked, Running
<1>. QED
  BY <1>1, <1>2, <1>3, <1>4
     DEF Next, Orchestrate, Controllers, Sweep, Launch, Poll, Score, Exit,
         Kill, LoadEnds, StaleRecovers, Tick, Blackout, Event, vars, flowVars

\* A scrape that is due falls into every window that is still open then.
LEMMA TickScrapes ==
    ASSUME IInv, Tick, prom, NEW e \in Experiments, started[e] # NoTime
    PROVE  /\ started'[e] = started[e] /\ now' = now + 1
           /\ \/ now' + due' = now + due
              \/ now >= started[e] + Window(e)
              \/ seen'[e].base
           /\ \A k \in Kinds : k \in seen[e].events => k \in seen'[e].events
           /\ seen[e].base => seen'[e].base
           /\ \A k \in Kinds, a \in AppPods :
                 /\ <<k, a>> \in seen[e].fresh
                 /\ now + due < started[e] + Window(e)
                 => \/ k \in seen'[e].events
                    \/ <<k, a>> \in seen'[e].fresh /\ now' + due' = now + due
<1>0. TypeOK /\ Window(e) \in Nat
  BY Windows DEF IInv
<1>1. PICK enough \in Requests, reads \in [Dependencies -> BOOLEAN],
           scrape \in {prom /\ due = 0, prom} : Passing(enough, reads, scrape)
  BY TickPasses
<1>2. started'[e] = started[e] /\ now' = now + 1
  BY DEF Tick
<1>. DEFINE s == Sample(e, enough, reads)
<1>3. /\ s \in Observations /\ s.base = seen[e].base
      /\ s.fresh = seen[e].fresh /\ s.events = seen[e].events
  <2>1. enough \in BOOLEAN
    BY DEF Requests
  <2>. QED
    BY <1>0, <2>1, SampleType
<1>4. seen'[e] = IF ~Open(e) THEN seen[e]
                 ELSE IF scrape THEN Counted(s) ELSE s
  BY <1>1 DEF Passing
<1>5. Open(e) <=> now < started[e] + Window(e)
  BY DEF Open
<1>6. now \in Nat /\ due \in Nat /\ started[e] \in Nat
  BY <1>0, ChaosGateAssumption DEF TypeOK, NoTime
<1>. HIDE DEF s
<1>7. CASE ~scrape
  <2>1. now' + due' = now + due
    <3>1. scrape \/ due # 0
      BY Zenon
    <3>2. due' = due - 1
      BY <1>1, <1>6, <1>7, <3>1 DEF Passing
    <3>. QED
      BY <1>2, <1>6, <3>2
  <2>2. seen'[e].events = seen[e].events /\ seen'[e].fresh = seen[e].fresh
        /\ seen'[e].base = seen[e].base
    BY <1>3, <1>4, <1>7
  <2>. QED
    BY <1>2, <2>1, <2>2
<1>8. CASE scrape /\ Open(e)
  <2>1. /\ seen'[e].base = TRUE
        /\ seen'[e].events = s.events \cup {x[1] : x \in s.fresh}
    BY <1>3, <1>4, <1>8, CountedType
  <2>2. \A k \in Kinds, a \in AppPods : <<k, a>> \in seen[e].fresh
            => k \in {x[1] : x \in s.fresh}
    BY <1>3
  <2>. QED
    BY <1>2, <1>3, <2>1, <2>2
<1>9. CASE ~Open(e)
  <2>1. seen'[e] = seen[e] /\ ~(now < started[e] + Window(e))
    BY <1>4, <1>5, <1>9
  <2>2. ~(now + due < started[e] + Window(e)) /\ now >= started[e] + Window(e)
    BY <1>0, <1>6, <2>1
  <2>. QED
    BY <1>2, <2>1, <2>2
<1>. QED
  BY <1>7, <1>8, <1>9

\* What is noted stays noted, but for what a restart wipes.
LEMMA NotedStays ==
    ASSUME IInv, Marked, Watched, [Next]_vars, "blackout" \notin lost',
           NEW e \in Experiments, started[e] # NoTime,
           NEW k \in Kinds, k = "restart" \/ k \notin lost', Noted(k, e)
    PROVE  started'[e] # NoTime /\ Noted(k, e)'
<1>0. TypeOK
  BY DEF IInv
<1>1. CASE UNCHANGED <<now, due, started, seen>>
  BY <1>1 DEF Noted
<1>2. CASE Tick
  <2>1. prom
    BY <1>2 DEF Tick, Watched
  <2>2. CASE k \in seen[e].events
    BY <1>2, <2>1, <2>2, TickScrapes DEF Noted
  <2>3. CASE k \notin seen[e].events
    <3>1. PICK a \in AppPods : /\ now + due < started[e] + Window(e)
                              /\ <<k, a>> \in seen[e].fresh
      BY <2>3 DEF Noted
    <3>2. /\ started'[e] = started[e]
          /\ \/ k \in seen'[e].events
             \/ <<k, a>> \in seen'[e].fresh /\ now' + due' = now + due
      BY <1>2, <2>1, <3>1, TickScrapes
    <3>. QED
      BY <3>1, <3>2 DEF Noted
  <2>. QED
    BY <2>2, <2>3
<1>3. CASE NextNode
  <2>1. e # wf'
    BY <1>3, Nodes
       DEF Marked, Following, Begin, Experiments, NextNode, NodeIsOver, Running,
           TypeOK, IInv
  <2>2. /\ started'[e] = started[e] /\ seen'[e] = seen[e]
        /\ UNCHANGED <<now, due>>
    BY <1>3, <2>1 DEF NextNode
  <2>. QED
    BY <2>2 DEF Noted
<1>4. ASSUME NEW j \in Kinds, NEW b \in AppPods, Event(j, b)
      PROVE  started'[e] # NoTime /\ Noted(k, e)'
  <2>1. UNCHANGED <<now, due, started>>
    BY <1>4 DEF Event, flowVars
  <2>2. /\ seen'[e].events = seen[e].events
        /\ \A x \in seen[e].fresh :
              x \in seen'[e].fresh \/ x[1] \in lost' \ {"restart"}
    BY <1>0, <1>4, EventSees
  <2>3. \A a \in AppPods : <<k, a>> \in seen[e].fresh
                              => <<k, a>> \in seen'[e].fresh
    BY <2>2
  <2>. QED
    BY <2>1, <2>2, <2>3 DEF Noted
<1>5. CASE Blackout
  BY <1>5 DEF Blackout, Watched
<1>6. CASE Sweep \/ Launch \/ Create \/ Poll \/ Score \/ Exit \/ Kill
  <2>1. UNCHANGED <<now, due, started, seen>>
    BY <1>6 DEF Sweep, Launch, Create, Poll, Score, Exit, Kill, flowVars,
                promVars
  <2>. QED
    BY <1>1, <2>1
<1>7. CASE HardCap \/ LoadEnds \/ StaleRecovers
  <2>1. UNCHANGED <<now, due, started, seen>>
    BY <1>7 DEF HardCap, LoadEnds, StaleRecovers, flowVars, promVars
  <2>. QED
    BY <1>1, <2>1
<1>8. CASE UNCHANGED vars
  BY <1>1, <1>8 DEF vars, flowVars, promVars
<1>. QED
  BY <1>2, <1>3, <1>4, <1>5, <1>6, <1>7, <1>8
     DEF Next, Orchestrate, Controllers

\* Once scoring has begun no window is open.
LEMMA NoneOpen ==
    ASSUME IInv, Schedule, pc \in {"score", "await", "exit"},
           NEW e \in Experiments
    PROVE  ~Open(e)
<1>. SUFFICES ASSUME started[e] # NoTime PROVE ~(now < started[e] + Window(e))
  BY DEF Open
<1>1. wf = "done"
  BY DEF Schedule, OnSchedule, PolledToTheEnd
<1>2. now >= started[e] + Window(e)
  BY <1>1 DEF Schedule, PolledToTheEnd
<1>. QED
  BY <1>2, Windows DEF IInv, TypeOK

\* An event is noted in a window that has its base and another scrape to come.
LEMMA HeardIsNoted ==
    ASSUME IInv, NEW k \in Kinds, NEW a \in AppPods, Event(k, a), Known(k, a),
           NEW e \in Experiments, started[e] # NoTime, seen[e].base,
           now + due < started[e] + Window(e)
    PROVE  Noted(k, e)'
<1>1. UNCHANGED <<now, due, started>>
  BY DEF Event, flowVars
<1>2. Open(e)
  <2>1. /\ now \in Nat /\ due \in Nat /\ started[e] \in Nat
        /\ Window(e) \in Nat
    BY Windows, ChaosGateAssumption DEF IInv, TypeOK, NoTime
  <2>. QED
    BY <2>1 DEF Open
<1>3. <<k, a>> \in seen'[e].fresh
  BY <1>2, EventSees DEF IInv
<1>. QED
  BY <1>1, <1>3 DEF Noted

\* From the first scrape of the campaign to the last there is such a window:
\* that of the running node, or, until that has its base, the one before.
LEMMA SomeWindowHears ==
    ASSUME SoonBack, IInv, Schedule, Marked, Watched, "blackout" \notin lost,
           "campaign" \in Where
    PROVE  \E e \in Experiments : /\ started[e] # NoTime /\ seen[e].base
                                  /\ now + due < started[e] + Window(e)
<1>. USE ChaosGateAssumption
<1>0. /\ TypeOK /\ Timely /\ OnSchedule
      /\ MaxLag + Scrape <= 4 /\ MaxLag \in Nat /\ Scrape \in Nat /\ Scrape >= 1
      /\ lag \in Nat /\ lag <= MaxLag
      /\ now \in Nat /\ due \in Nat /\ due <= Scrape - 1
      /\ wfStart \in Nat /\ nodeStart \in Nat
      /\ \A e \in Experiments : started[e] # NoTime => started[e] \in Nat
  BY DEF IInv, Schedule, TypeOK, SoonBack, Settle
<1>1. /\ started["postgres"] # NoTime
      /\ now >= started["postgres"] + Scrape
      /\ started["signer"] # NoTime => now + Scrape <= started["signer"] + 13
  BY DEF Where, Experiments, Window, Duration, Settle
<1>2. /\ Window("postgres") = 18 /\ Window("redis") = 13
      /\ Window("signer") = 13
      /\ {"postgres", "redis", "signer"} = Experiments
  BY DEF Window, Duration, Settle, Experiments
<1>3. \A e \in Experiments : started[e] # NoTime /\ ~seen[e].base
                                => now + due < started[e] + Scrape
  BY DEF Watched
<1>4. \A e \in Experiments : started[e] # NoTime =>
          /\ wfStart + Begin[e] <= started[e] /\ started[e] <= now
          /\ started[e] <= wfStart + Begin[e] + lag
  BY <1>0 DEF OnSchedule
<1>5. Begin["postgres"] = 9 /\ Begin["redis"] = 21 /\ Begin["signer"] = 30
  BY DEF Begin
<1>6. seen["postgres"].base
  BY <1>0, <1>1, <1>2, <1>3
<1>7. wf # "none" /\ wf \in {"none", "done"} \cup DOMAIN NodeTime
  BY <1>0, <1>1, <1>2 DEF OnSchedule, TypeOK
<1>8. CASE started["redis"] = NoTime
  <2>1. wf = "postgres" /\ Running
    BY <1>1, <1>2, <1>7, <1>8, Nodes DEF Marked, Begin, Running
  <2>2. now - nodeStart <= 12 + lag /\ started["postgres"] = nodeStart
    BY <1>0, <1>2, <2>1 DEF Timely, Marked, NodeTime
  <2>3. now + due < started["postgres"] + 18
    BY <1>0, <2>2
  <2>. QED
    BY <1>1, <1>2, <1>6, <2>3
<1>9. CASE started["redis"] # NoTime /\ started["signer"] = NoTime
  <2>1. wf = "redis" /\ Running
    BY <1>2, <1>7, <1>9, Nodes DEF Marked, Begin, Running
  <2>2. now - nodeStart <= 9 + lag /\ started["redis"] = nodeStart
    BY <1>0, <1>2, <2>1 DEF Timely, Marked, NodeTime
  <2>3. CASE seen["redis"].base
    <3>1. now + due < started["redis"] + 13
      BY <1>0, <2>2
    <3>. QED
      BY <1>2, <1>9, <2>3, <3>1
  <2>4. CASE ~seen["redis"].base
    <3>1. now + due < started["redis"] + Scrape
      BY <1>2, <1>3, <1>9, <2>4
    <3>2. /\ wfStart + 9 <= started["postgres"]
          /\ started["redis"] <= wfStart + 21 + lag
          /\ started["postgres"] \in Nat /\ started["redis"] \in Nat
      BY <1>0, <1>1, <1>2, <1>4, <1>5, <1>9
    <3>3. now + due < started["postgres"] + 18
      BY <1>0, <3>1, <3>2
    <3>. QED
      BY <1>1, <1>2, <1>6, <3>3
  <2>. QED
    BY <2>3, <2>4
<1>10. CASE started["redis"] # NoTime /\ started["signer"] # NoTime
  <2>1. /\ wfStart + 21 <= started["redis"]
        /\ started["redis"] <= wfStart + 21 + lag
        /\ wfStart + 30 <= started["signer"] /\ started["signer"] <= now
        /\ started["signer"] <= wfStart + 30 + lag
        /\ started["redis"] \in Nat /\ started["signer"] \in Nat
    BY <1>0, <1>2, <1>4, <1>5, <1>10
  <2>2. seen["redis"].base
    <3>. SUFFICES ASSUME now + due < started["redis"] + Scrape PROVE FALSE
      BY <1>2, <1>3, <1>10
    <3>. QED
      BY <1>0, <2>1
  <2>3. CASE seen["signer"].base
    <3>1. now + due < started["signer"] + 13
      BY <1>0, <1>1, <1>10, <2>1
    <3>. QED
      BY <1>2, <1>10, <2>3, <3>1
  <2>4. CASE ~seen["signer"].base
    <3>1. now + due < started["signer"] + Scrape
      BY <1>2, <1>3, <1>10, <2>4
    <3>2. now + due < started["redis"] + 13
      BY <1>0, <2>1, <3>1
    <3>. QED
      BY <1>2, <1>10, <2>2, <3>2
  <2>. QED
    BY <2>3, <2>4
<1>. QED
  BY <1>8, <1>9, <1>10

\* A window that opens has the next scrape before its base is late.
LEMMA BasedStep ==
    ASSUME SoonBack, IInv, Marked, Watched, [Next]_vars,
           "blackout" \notin lost', "blackout" \notin lost,
           NEW e \in Experiments, started'[e] # NoTime, ~seen'[e].base
    PROVE  now' + due' < started'[e] + Scrape
<1>. USE ChaosGateAssumption
<1>0. /\ TypeOK /\ prom
      /\ Scrape \in Nat /\ now \in Nat /\ due \in Nat /\ due <= Scrape - 1
      /\ started[e] # NoTime => started[e] \in Nat
      /\ started[e] # NoTime /\ ~seen[e].base => now + due < started[e] + Scrape
      /\ Window(e) \in Nat /\ Scrape <= Window(e)
  <2>1. Scrape <= 4
    BY DEF SoonBack, Settle
  <2>2. Window(e) >= 4
    BY DEF Experiments, Window, Duration, Settle
  <2>. QED
    BY <2>1, <2>2, Windows DEF IInv, TypeOK, Watched
<1>1. CASE UNCHANGED <<now, due, started>> /\ seen'[e].base = seen[e].base
  BY <1>0, <1>1
<1>2. CASE Tick
  <2>1. started'[e] = started[e]
    BY <1>2 DEF Tick
  <2>2. /\ now' = now + 1
        /\ \/ now' + due' = now + due
           \/ now >= started[e] + Window(e)
           \/ seen'[e].base
        /\ seen[e].base => seen'[e].base
    BY <1>0, <1>2, <2>1, TickScrapes
  <2>3. ~(now >= started[e] + Window(e)) /\ now + due < started[e] + Scrape
    BY <1>0, <2>1, <2>2
  <2>. QED
    BY <2>1, <2>2, <2>3
<1>3. CASE NextNode
  <2>1. UNCHANGED <<now, due>>
    BY <1>3 DEF NextNode
  <2>2. CASE e = wf'
    <3>1. started'[e] = now
      BY <1>3, <2>2 DEF NextNode
    <3>. QED
      BY <1>0, <2>1, <3>1
  <2>3. CASE e # wf'
    BY <1>0, <1>3, <2>1, <2>3 DEF NextNode
  <2>. QED
    BY <2>2, <2>3
<1>4. ASSUME NEW k \in Kinds, NEW a \in AppPods, Event(k, a)
      PROVE  now' + due' < started'[e] + Scrape
  <2>1. UNCHANGED <<now, due, started>>
    BY <1>4 DEF Event, flowVars
  <2>2. seen'[e].base = seen[e].base
    BY <1>0, <1>4, EventSees
  <2>. QED
    BY <1>1, <2>1, <2>2
<1>5. CASE Blackout
  BY <1>0, <1>5 DEF Blackout
<1>6. CASE Sweep \/ Launch \/ Create \/ Poll \/ Score \/ Exit \/ Kill
  <2>1. UNCHANGED <<now, due, started, seen>>
    BY <1>6 DEF Sweep, Launch, Create, Poll, Score, Exit, Kill, flowVars,
                promVars
  <2>. QED
    BY <1>1, <2>1
<1>7. CASE HardCap \/ LoadEnds \/ StaleRecovers
  <2>1. UNCHANGED <<now, due, started, seen>>
    BY <1>7 DEF HardCap, LoadEnds, StaleRecovers, flowVars, promVars
  <2>. QED
    BY <1>1, <2>1
<1>8. CASE UNCHANGED vars
  BY <1>1, <1>8 DEF vars, flowVars, promVars
<1>. QED
  BY <1>2, <1>3, <1>4, <1>5, <1>6, <1>7, <1>8
     DEF Next, Orchestrate, Controllers

\* What has passed so far has passed for good: the windows are over.
Unmarred ==
    pc \in {"score", "await", "exit"} =>
       \A i \in 1..3 : i <= scored /\ ~rc =>
           /\ T[Order[i]] # NoTime
           /\ seen[Order[i]].events \cap ZeroTolerance[Order[i]] = {}

LEMMA UnmarredStep == IInv /\ Schedule /\ Unmarred /\ [Next]_vars => Unmarred'
<1>. SUFFICES ASSUME IInv, Schedule, Unmarred, [Next]_vars PROVE Unmarred'
  OBVIOUS
<1>0. TypeOK /\ \A i \in 1..3 : Order[i] \in Experiments
  BY DEF IInv, Order, Experiments
<1>1. CASE UNCHANGED <<pc, T, rc, scored, seen>>
  BY <1>1 DEF Unmarred
<1>2. CASE Sweep \/ Launch \/ Create \/ Exit \/ Kill
  <2>1. /\ UNCHANGED <<seen, T, rc, scored>>
        /\ pc' \in {"score", "await", "exit"} =>
              pc \in {"score", "await", "exit"}
    BY <1>2 DEF Sweep, Launch, Create, Exit, Kill, promVars
  <2>. QED
    BY <2>1 DEF Unmarred
<1>3. CASE Poll
  <2>1. UNCHANGED <<seen, rc, scored>> /\ scored = 0
    BY <1>3 DEF Poll, promVars, IInv, InOrder
  <2>. QED
    BY <2>1 DEF Unmarred
<1>4. CASE Score
  <2>1. /\ UNCHANGED <<seen, T>> /\ pc = "score" /\ scored' = scored + 1
        /\ rc' = (rc \/ T[Order[scored + 1]] = NoTime \/ ~prom
                     \/ ~Passes(Order[scored + 1]))
    BY <1>4 DEF Score, promVars
  <2>2. ASSUME NEW i \in 1..3, i <= scored', ~rc'
        PROVE  /\ T[Order[i]] # NoTime
               /\ seen[Order[i]].events \cap ZeroTolerance[Order[i]] = {}
    <3>1. CASE i = scored + 1
      <4>1. T[Order[i]] # NoTime /\ Passes(Order[i])
        BY <2>1, <2>2, <3>1, Zenon
      <4>. QED
        BY <4>1 DEF Passes
    <3>2. CASE i <= scored
      BY <2>1, <2>2, <3>2 DEF Unmarred
    <3>. QED
      BY <1>0, <2>1, <2>2, <3>1, <3>2 DEF TypeOK
  <2>. QED
    BY <2>1, <2>2 DEF Unmarred
<1>5. CASE NextNode
  <2>1. pc \notin {"score", "await", "exit"} /\ pc' = pc
    BY <1>5 DEF NextNode, NodeIsOver, Running, Schedule, PolledToTheEnd,
                gateVars
  <2>. QED
    BY <2>1 DEF Unmarred
<1>6. CASE Tick
  <2>1. UNCHANGED <<pc, T, rc, scored>>
    BY <1>6 DEF Tick, gateVars
  <2>2. PICK enough \in Requests, reads \in [Dependencies -> BOOLEAN],
             scrape \in {prom /\ due = 0, prom} : Passing(enough, reads, scrape)
    BY <1>6, TickPasses
  <2>3. pc \in {"score", "await", "exit"} =>
           \A e \in Experiments : seen'[e] = seen[e]
    BY <2>2, NoneOpen DEF Passing
  <2>. QED
    BY <1>0, <2>1, <2>3 DEF Unmarred
<1>7. ASSUME NEW k \in Kinds, NEW a \in AppPods, Event(k, a) PROVE Unmarred'
  <2>1. UNCHANGED <<pc, T, rc, scored>>
    BY <1>7 DEF Event, gateVars
  <2>2. \A e \in Experiments : seen'[e].events = seen[e].events
    BY <1>0, <1>7, EventSees
  <2>. QED
    BY <1>0, <2>1, <2>2 DEF Unmarred
<1>8. CASE HardCap \/ LoadEnds \/ StaleRecovers \/ Blackout
  <2>1. UNCHANGED <<pc, T, rc, scored, seen>>
    BY <1>8 DEF HardCap, LoadEnds, StaleRecovers, Blackout, gateVars, promVars
  <2>. QED
    BY <1>1, <2>1
<1>9. CASE UNCHANGED vars
  BY <1>1, <1>9 DEF vars, gateVars, promVars
<1>. QED
  BY <1>2, <1>3, <1>4, <1>5, <1>6, <1>7, <1>8, <1>9
     DEF Next, Orchestrate, Controllers

LEMMA WatchedStep ==
    ASSUME SoonBack
    PROVE  IInv /\ Schedule /\ Marked /\ Watched /\ [Next]_vars => Watched'
<1>. SUFFICES ASSUME IInv, Schedule, Marked, Watched, [Next]_vars,
                     "blackout" \notin lost'
              PROVE  Watched'
  BY DEF Watched
<1>. USE ChaosGateAssumption
<1>0. "blackout" \notin lost /\ lost \subseteq lost' /\ prom' = prom
  <2>1. CASE Blackout
    BY <2>1 DEF Blackout, Watched
  <2>2. ASSUME NEW k \in Kinds, NEW a \in AppPods, Event(k, a)
        PROVE  lost \subseteq lost' /\ prom' = prom
    BY <2>2 DEF Event
  <2>3. CASE ~Blackout /\ ~\E k \in Kinds, a \in AppPods : Event(k, a)
    BY <2>3 DEF Next, Orchestrate, Controllers, Sweep, Launch, Create, Poll,
                Score, Exit, Kill, NextNode, HardCap, LoadEnds, StaleRecovers,
                Tick, vars, promVars
  <2>. QED
    BY <2>1, <2>2, <2>3
<1>1. prom'
  BY <1>0 DEF Watched
<1>2. \A e \in Experiments : started'[e] # NoTime /\ ~seen'[e].base
                                => now' + due' < started'[e] + Scrape
  BY <1>0, BasedStep
<1>3. ASSUME NEW e \in Experiments, NEW k \in Kinds \ lost',
             <<k, e>> \in happened'
      PROVE  started'[e] # NoTime /\ Noted(k, e)'
  <2>1. CASE <<k, e>> \in happened
    BY <1>0, <1>3, <2>1, NotedStays DEF Watched
  <2>2. CASE <<k, e>> \notin happened
    <3>1. PICK j \in Kinds, a \in AppPods : Event(j, a)
      BY <1>3, <2>2
         DEF Next, Orchestrate, Controllers, Sweep, Launch, Create, Poll, Score,
             Exit, Kill, NextNode, HardCap, LoadEnds, StaleRecovers, Tick,
             Blackout, vars, promVars
    <3>2. j = k /\ Known(k, a) /\ e \in Where
      BY <1>3, <2>2, <3>1 DEF Event
    <3>3. /\ started[e] # NoTime /\ now >= started[e] + Scrape
          /\ now + Scrape <= started[e] + Window(e)
      BY <3>2 DEF Where, Experiments
    <3>4. /\ now \in Nat /\ due \in Nat /\ due <= Scrape - 1 /\ Scrape \in Nat
          /\ started[e] \in Nat /\ Window(e) \in Nat
      BY <3>3, Windows DEF IInv, TypeOK
    <3>5. seen[e].base
      BY <1>0, <3>3, <3>4 DEF Watched
    <3>6. now + due < started[e] + Window(e)
      BY <3>3, <3>4
    <3>7. started'[e] = started[e]
      BY <3>1 DEF Event, flowVars
    <3>. QED
      BY <3>1, <3>2, <3>3, <3>5, <3>6, <3>7, HeardIsNoted
  <2>. QED
    BY <2>1, <2>2
<1>4. ASSUME <<"restart", "campaign">> \in happened'
      PROVE  \E e \in Experiments : started'[e] # NoTime /\ Noted("restart", e)'
  <2>0. "restart" \in Kinds
    BY DEF Kinds
  <2>1. CASE <<"restart", "campaign">> \in happened
    <3>1. PICK e \in Experiments : started[e] # NoTime /\ Noted("restart", e)
      BY <1>0, <2>1 DEF Watched
    <3>. QED
      BY <2>0, <3>1, NotedStays
  <2>2. CASE <<"restart", "campaign">> \notin happened
    <3>1. PICK j \in Kinds, a \in AppPods : Event(j, a)
      BY <1>4, <2>2
         DEF Next, Orchestrate, Controllers, Sweep, Launch, Create, Poll, Score,
             Exit, Kill, NextNode, HardCap, LoadEnds, StaleRecovers, Tick,
             Blackout, vars, promVars
    <3>2. j = "restart" /\ Known(j, a) /\ "campaign" \in Where
      BY <1>4, <2>2, <3>1 DEF Event
    <3>3. PICK e \in Experiments :
             /\ started[e] # NoTime /\ seen[e].base
             /\ now + due < started[e] + Window(e)
      BY <1>0, <3>2, SomeWindowHears
    <3>4. started'[e] = started[e]
      BY <3>1 DEF Event, flowVars
    <3>5. Noted("restart", e)'
      BY <2>0, <3>1, <3>2, <3>3, HeardIsNoted
    <3>. QED
      BY <3>3, <3>4, <3>5
  <2>. QED
    BY <2>1, <2>2
<1>. QED
  BY <1>1, <1>2, <1>3, <1>4 DEF Watched

\* If the controller is back before what two windows overlap is less than the
\* time between two scrapes, nothing that is not tolerated escapes a pass,
\* whatever else goes wrong and however often: every restart of the campaign is
\* in some window that has its base and another scrape to come, every event of
\* a window is counted by the scrapes around it, and each window is scored
\* after it has ended (orchestrate.sh:16-20, score_experiment.py:158-162,
\* servicemonitor.yaml:21).
THEOREM NothingEscapes ==
    ASSUME SoonBack
    PROVE  Spec => []NoBlindSpot
<1>1. MaxLag <= WorkflowLimit - Begin["signer"] - Window("signer")
  BY ChaosGateAssumption
     DEF SoonBack, Settle, WorkflowLimit, Begin, Window, Duration
<1>2. Spec => [](IInv /\ Schedule)
  BY <1>1, ScheduleKept
<1>3. Init => Marked /\ Watched /\ Unmarred
  BY DEF Init, Marked, Watched, Unmarred, Running, Experiments
<1>4. IInv /\ Schedule /\ Marked /\ Watched /\ Unmarred /\ [Next]_vars
         => Marked' /\ Watched' /\ Unmarred'
  BY MarkedStep, WatchedStep, UnmarredStep
<1>5. IInv /\ Schedule /\ Watched /\ Unmarred => NoBlindSpot
  <2>. SUFFICES ASSUME IInv, Schedule, Watched, Unmarred, Passed,
                       "blackout" \notin lost
                PROVE  NoBlindSpot
    BY DEF NoBlindSpot
  <2>1. pc = "exit" /\ scored = 3 /\ ~rc
    BY DEF IInv, InOrder, Passed
  <2>2. \A e \in Experiments : \E i \in 1..3 : Order[i] = e
    BY DEF Order, Experiments
  <2>3. \A e \in Experiments : seen[e].events \cap ZeroTolerance[e] = {}
    BY <2>1, <2>2 DEF Unmarred
  <2>4. ASSUME NEW e \in Experiments, NEW k \in ZeroTolerance[e],
               started[e] # NoTime
        PROVE  ~Noted(k, e)
    <3>1. ~Open(e)
      BY <2>1, NoneOpen
    <3>2. ~(now + due < started[e] + Window(e))
      <4>1. /\ now \in Nat /\ due \in Nat /\ started[e] \in Nat
            /\ Window(e) \in Nat
        BY <2>4, Windows, ChaosGateAssumption DEF IInv, TypeOK
      <4>. QED
        BY <2>4, <3>1, <4>1 DEF Open
    <3>. QED
      BY <2>3, <3>2 DEF Noted
  <2>5. \A e \in Experiments : /\ ZeroTolerance[e] \subseteq Kinds
                               /\ "restart" \in ZeroTolerance[e]
    BY DEF Experiments, ZeroTolerance, Kinds
  <2>6. \A e \in Experiments : \A k \in ZeroTolerance[e] \ lost :
            <<k, e>> \notin happened
    BY <2>4, <2>5 DEF Watched
  <2>7. <<"restart", "campaign">> \notin happened
    BY <2>4, <2>5 DEF Watched
  <2>. QED
    BY <2>6, <2>7 DEF NoBlindSpot
<1>. QED
  BY <1>2, <1>3, <1>4, <1>5, PTL DEF Spec

=============================================================================
