----------------------------- MODULE Promotion -----------------------------
(***************************************************************************)
(* The promotion of freight through dev, staging and prod: the Stages,     *)
(* Warehouse and ProjectConfig of kubernetes/kargo and the Applications of *)
(* kubernetes/apps/applicationset.yaml.  Kargo runs the promotions and the *)
(* verifications, ArgoCD syncs each environment to its env/<stage> branch  *)
(* by itself, whether Kargo asks for it or not; both are external.  The    *)
(* verdict of a verification is ChaosGate's business; here it is open.     *)
(***************************************************************************)
EXTENDS Naturals

CONSTANTS
    MaxFreight,  \* bound on the freight the Warehouse discovers
    MaxFaults    \* bound on the steps of promotions that fail

ASSUME PromotionAssumption == MaxFreight \in Nat /\ MaxFaults \in Nat

Freights == 1 .. MaxFreight
NoFreight == 0
Stages == {"dev", "staging", "prod"}

VARIABLES
    discovered,  \* how much freight the Warehouse has created
    promotion,   \* the freight a Stage's promotion is about
    step,        \* where the promotion is
    branch,      \* what is rendered on env/<stage>
    live,        \* what the environment runs
    current,     \* the freight Kargo takes the Stage to hold
    verifying,   \* the freight under verification
    verified,    \* the freight verified in the Stage
    faults       \* failed steps so far

vars == <<discovered, promotion, step, branch, live, current, verifying,
          verified, faults>>

Steps == {"idle", "render", "push", "update"}

TypeOK ==
    /\ discovered \in 0 .. MaxFreight
    /\ promotion \in [Stages -> Freights \cup {NoFreight}]
    /\ step \in [Stages -> Steps]
    /\ \A s \in Stages : step[s] # "idle" => promotion[s] # NoFreight
    /\ branch \in [Stages -> Freights \cup {NoFreight}]
    /\ live \in [Stages -> Freights \cup {NoFreight}]
    /\ current \in [Stages -> Freights \cup {NoFreight}]
    /\ verifying \in [Stages -> Freights \cup {NoFreight}]
    /\ verified \in [Stages -> SUBSET Freights]
    /\ faults \in 0 .. MaxFaults

Init ==
    /\ discovered = 0
    /\ promotion = [s \in Stages |-> NoFreight]
    /\ step = [s \in Stages |-> "idle"]
    /\ branch = [s \in Stages |-> NoFreight]
    /\ live = [s \in Stages |-> NoFreight]
    /\ current = [s \in Stages |-> NoFreight]
    /\ verifying = [s \in Stages |-> NoFreight]
    /\ verified = [s \in Stages |-> {}]
    /\ faults = 0

Goto(s, point) == step' = [step EXCEPT ![s] = point]

-----------------------------------------------------------------------------
(* Freight and what is offered to a Stage.                                 *)

\* A new image or a new commit of the chart.
Discover ==
    /\ discovered < MaxFreight
    /\ discovered' = discovered + 1
    /\ UNCHANGED <<promotion, step, branch, live, current, verifying,
                   verified, faults>>

\* Mutated Offered: prod takes what is verified in dev.
OfferedToProdFromDev(s) ==
    CASE s = "dev" -> 1 .. discovered
      [] s = "staging" -> verified["dev"]
      [] s = "prod" -> verified["dev"]

\* requestedFreight: dev takes it from the Warehouse, staging what is
\* verified in dev, prod what is verified in staging.
Offered(s) ==
    CASE s = "dev" -> 1 .. discovered
      [] s = "staging" -> verified["dev"]
      [] s = "prod" -> verified["staging"]

\* dev promotes new freight by itself, the others by hand; any freight on
\* offer may be chosen, an older one too.  A Stage runs one promotion at a
\* time, and none while it verifies.
Promote(s) ==
    /\ step[s] = "idle"
    /\ verifying[s] = NoFreight
    /\ \E f \in Offered(s) : promotion' = [promotion EXCEPT ![s] = f]
    /\ Goto(s, "render")
    /\ UNCHANGED <<discovered, branch, live, current, verifying, verified,
                   faults>>

-----------------------------------------------------------------------------
(* The steps of the promotionTemplate.                                     *)

\* git-clone, yaml-update, git-clear, helm-template and git-commit work on
\* the promotion's own copy.
Render(s) ==
    /\ step[s] = "render"
    /\ Goto(s, "push")
    /\ UNCHANGED <<discovered, promotion, branch, live, current, verifying,
                   verified, faults>>

\* git-push to env/<stage>.
Push(s) ==
    /\ step[s] = "push"
    /\ branch' = [branch EXCEPT ![s] = promotion[s]]
    /\ Goto(s, "update")
    /\ UNCHANGED <<discovered, promotion, live, current, verifying, verified,
                   faults>>

\* The Stages with a verification; prod's gate is the approval by hand.
Verifies(s) == s \in {"dev", "staging"}

\* The promotion has succeeded: its freight is the Stage's.
Succeed(s) ==
    /\ Goto(s, "idle")
    /\ current' = [current EXCEPT ![s] = promotion[s]]
    /\ IF Verifies(s)
       THEN /\ verifying' = [verifying EXCEPT ![s] = promotion[s]]
            /\ UNCHANGED verified
       ELSE /\ verified' = [verified EXCEPT ![s] = @ \cup {promotion[s]}]
            /\ UNCHANGED verifying
    /\ UNCHANGED <<discovered, promotion, branch, live, faults>>

\* Mutated Update: the promotion ends without waiting for the sync.
UpdateUnsynced(s) == step[s] = "update" /\ Succeed(s)

\* argocd-update ends when ArgoCD has synced the pushed branch.
Update(s) == step[s] = "update" /\ live[s] = branch[s] /\ Succeed(s)

\* Mutated FailStep: failures are not bounded.
FailStepUncounted(s) ==
    /\ step[s] # "idle"
    /\ faults' = faults + 1
    /\ Goto(s, "idle")
    /\ UNCHANGED <<discovered, promotion, branch, live, current, verifying,
                   verified>>

\* A step fails.  What was pushed stays on the branch.
FailStep(s) ==
    /\ step[s] # "idle"
    /\ faults < MaxFaults
    /\ faults' = faults + 1
    /\ Goto(s, "idle")
    /\ UNCHANGED <<discovered, promotion, branch, live, current, verifying,
                   verified>>

\* Mutated Sync: only dev is synced by itself.
SyncDevOnly(s) ==
    /\ s = "dev"
    /\ live[s] # branch[s]
    /\ live' = [live EXCEPT ![s] = branch[s]]
    /\ UNCHANGED <<discovered, promotion, step, branch, current, verifying,
                   verified, faults>>

\* ArgoCD's automated sync.
Sync(s) ==
    /\ live[s] # branch[s]
    /\ live' = [live EXCEPT ![s] = branch[s]]
    /\ UNCHANGED <<discovered, promotion, step, branch, current, verifying,
                   verified, faults>>

\* The AnalysisRun ends: the freight has passed or it has not.
EndVerification(s) ==
    /\ verifying[s] # NoFreight
    /\ verifying' = [verifying EXCEPT ![s] = NoFreight]
    /\ \/ verified' = [verified EXCEPT ![s] = @ \cup {verifying[s]}]
       \/ UNCHANGED verified
    /\ UNCHANGED <<discovered, promotion, step, branch, live, current, faults>>

-----------------------------------------------------------------------------

Next ==
    \/ Discover
    \/ \E s \in Stages :
          \/ Promote(s) \/ Render(s) \/ Push(s) \/ Update(s) \/ FailStep(s)
          \/ Sync(s) \/ EndVerification(s)

Spec == Init /\ [][Next]_vars

\* Kargo takes the steps of a promotion it has begun and ArgoCD syncs.
\* Nobody has to promote, and verifications may take any time.
FairSpec ==
    /\ Spec
    /\ \A s \in Stages :
          WF_vars(Render(s)) /\ WF_vars(Push(s)) /\ WF_vars(Update(s))
          /\ WF_vars(Sync(s))

-----------------------------------------------------------------------------
(* Properties.                                                             *)

\* stage-prod.yaml:13 and stage-staging.yaml:13: what prod runs, and what its
\* branch would make it run, has passed in staging and in dev, also after a
\* promotion that failed between its push and its sync.
ProdPassedTheGates ==
    \A f \in {live["prod"], branch["prod"]} \ {NoFreight} :
        f \in verified["staging"] \cap verified["dev"]

\* A verification tests the environment, not the freight: as long as it runs
\* the environment runs the freight its verdict is put down to.
VerdictIsAboutWhatRuns ==
    \A s \in Stages : verifying[s] # NoFreight => live[s] = verifying[s]

\* The pipeline delivers as GatedDelivery says.
Gated == INSTANCE GatedDelivery WITH passed <- verified

ImplementsGatedDelivery == Gated!Spec

\* A promotion that has begun ends: argocd-update does not wait for ever.
PromotionsEnd == \A s \in Stages : step[s] # "idle" ~> step[s] = "idle"

=============================================================================
