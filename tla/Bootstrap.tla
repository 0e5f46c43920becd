------------------------------ MODULE Bootstrap ------------------------------
(***************************************************************************)
(* The installation of the pipeline beside the pipeline it sets going:     *)
(* phase 06 of the platform setup (platform_setup_scripts/                 *)
(* 06-gitops-and-kargo.sh), the controllers that turn what it applies into *)
(* further objects, and Promotion, whose steps need those objects.         *)
(*                                                                         *)
(* The script stops at the first command that fails or waits too long, and *)
(* the operator runs it again (bootstrap.sh --phase 6).  The phases before *)
(* it are assumed done: the controllers are there.                         *)
(***************************************************************************)
EXTENDS Promotion, Sequences

CONSTANT MaxAborts  \* bound on commands that fail and scripts that are killed

ASSUME BootstrapAssumption == MaxAborts \in Nat

VARIABLES
    at,        \* the command of the script that is next, 0 if none runs
    objects,   \* what exists in the cluster
    aborts     \* commands that failed so far

scriptVars == <<at, aborts>>
bootVars == <<vars, scriptVars, objects>>

AppOf == [dev |-> "url-shortener-dev", staging |-> "url-shortener-staging",
          prod |-> "url-shortener-prod"]

\* Mutated Commands: the Warehouse is applied with the other Kargo resources.
CommandsWarehouseFirst ==
    << <<"apply", "root-app">>,        <<"await", "monitoring">>,
       <<"apply", "grafana-admin">>,   <<"await", "grafana-admin-secret">>,
       <<"apply", "project">>,         <<"apply", "credentials-git">>,
       <<"apply", "stages">>,          <<"apply", "warehouse">>,
       <<"await", "kargo-git-credentials">>,
       <<"apply", "applicationset">>,  <<"await", AppOf["dev"]>> >>

\* The script.  "stages" stands for the three Stages, "credentials-git" for
\* what is applied between the Project and them.  The sync of chaos-jobs that ends the script
\* changes nothing here and is left out.
Commands ==
    << <<"apply", "root-app">>,        <<"await", "monitoring">>,
       <<"apply", "grafana-admin">>,   <<"await", "grafana-admin-secret">>,
       <<"apply", "project">>,         <<"apply", "credentials-git">>,
       <<"apply", "stages">>,          <<"await", "kargo-git-credentials">>,
       <<"apply", "applicationset">>,  <<"await", AppOf["dev"]>>,
       <<"apply", "warehouse">> >>

\* What is applied into the namespace of the Kargo Project.
InProject == {"credentials-git", "stages", "warehouse"}

Last == Len(Commands)
Complete == at = Last + 1

\* What ArgoCD, External Secrets, Kargo and the ApplicationSet controller make
\* of what is applied.
Derived ==
    {<<"root-app", "monitoring">>,
     <<"grafana-admin", "grafana-admin-secret">>,
     <<"project", "namespace">>,
     <<"credentials-git", "kargo-git-credentials">>}
       \cup {<<"applicationset", AppOf[s]>> : s \in Stages}

Objects == {Commands[n][2] : n \in 1 .. Last} \cup {d[2] : d \in Derived}

BootTypeOK ==
    /\ TypeOK
    /\ at \in 0 .. Last + 1
    /\ objects \subseteq Objects
    /\ aborts \in 0 .. MaxAborts

BootInit == Init /\ at = 0 /\ objects = {} /\ aborts = 0

-----------------------------------------------------------------------------
(* The script and its operator.                                            *)

\* Mutated Begin: kubectl create, which fails on what is there already.
BeginOnce ==
    /\ at = 0
    /\ at' = IF "root-app" \in objects THEN 0 ELSE 1
    /\ UNCHANGED <<vars, aborts, objects>>

\* The script is run, or run again after a failure, from its first command.
\* Applying what is there already changes nothing and waiting for it ends at
\* once: those commands are passed over.
Begin ==
    /\ at = 0
    /\ \E n \in 1 .. Last + 1 :
          /\ \A m \in 1 .. n - 1 : Commands[m][2] \in objects
          /\ n <= Last => Commands[n][2] \notin objects
          /\ at' = n
    /\ UNCHANGED <<vars, aborts, objects>>

NextIs(kind) == at \in 1 .. Last /\ Commands[at][1] = kind

\* The cluster takes what is applied, if its namespace is there.
Accepted == Commands[at][2] \in InProject => "namespace" \in objects

\* kubectl apply.  The script does not wait for the namespace of the Project
\* that it has just applied, and ends where an apply fails.
Apply ==
    /\ NextIs("apply")
    /\ IF Accepted
       THEN objects' = objects \cup {Commands[at][2]} /\ at' = at + 1
       ELSE at' = 0 /\ UNCHANGED objects
    /\ UNCHANGED <<vars, aborts>>

\* wait_for: the object is there, or the time runs out and the script ends.
Await ==
    /\ NextIs("await")
    /\ IF Commands[at][2] \in objects THEN at' = at + 1 ELSE at' = 0
    /\ UNCHANGED <<vars, aborts, objects>>

\* A command fails, before or after the cluster took it, or the script is
\* interrupted.
Abort ==
    /\ at \in 1 .. Last
    /\ aborts < MaxAborts
    /\ aborts' = aborts + 1
    /\ at' = 0
    /\ objects' \in {objects} \cup
          (IF NextIs("apply") /\ Accepted
           THEN {objects \cup {Commands[at][2]}} ELSE {})
    /\ UNCHANGED vars

Run == Apply \/ Await

-----------------------------------------------------------------------------
(* The cluster.                                                            *)

\* A controller gets round to what was applied.
Reconcile(d) ==
    /\ d[1] \in objects /\ d[2] \notin objects
    /\ objects' = objects \cup {d[2]}
    /\ UNCHANGED <<vars, scriptVars>>

\* What a step of the pipeline needs; one that lacks it can only fail.
Promoting(s) ==
    /\ \/ "kargo-git-credentials" \in objects /\ (Render(s) \/ Push(s))
       \/ AppOf[s] \in objects /\ Update(s)
    /\ UNCHANGED <<scriptVars, objects>>

Syncing(s) ==
    /\ AppOf[s] \in objects
    /\ Sync(s)
    /\ UNCHANGED <<scriptVars, objects>>

Elsewhere ==
    /\ \/ "warehouse" \in objects /\ Discover
       \/ \E s \in Stages :
             \/ "stages" \in objects /\ (Promote(s) \/ EndVerification(s))
             \/ FailStep(s)
    /\ UNCHANGED <<scriptVars, objects>>

BootNext ==
    \/ Begin \/ Run \/ Abort
    \/ \E d \in Derived : Reconcile(d)
    \/ \E s \in Stages : Promoting(s) \/ Syncing(s)
    \/ Elsewhere

BootSpec == BootInit /\ [][BootNext]_bootVars

\* The operator does not give up, the controllers get round to everything,
\* and Kargo and ArgoCD go on with what they can do.
BootFairSpec ==
    /\ BootSpec
    /\ WF_bootVars(Begin \/ Run)
    /\ WF_bootVars(\E d \in Derived : Reconcile(d))
    /\ \A s \in Stages : WF_bootVars(Promoting(s)) /\ WF_bootVars(Syncing(s))

-----------------------------------------------------------------------------
(* Properties.                                                             *)

\* "Apply the ApplicationSet before the Kargo Warehouse, or the argocd-update
\* promotion step fails": however often the script fails and is run again,
\* and however late the controllers are, the first promotion that Kargo
\* starts by itself finds the Application and the credentials it needs.
DevFindsItsApplication ==
    step["dev"] # "idle" =>
        {AppOf["dev"], "kargo-git-credentials", "stages"} \subseteq objects

\* "Re-running the orchestrator after a failure picks up where it left off":
\* the phase is completed in the end, also beside a pipeline that is already
\* running.
RerunsComplete == <>Complete

=============================================================================
