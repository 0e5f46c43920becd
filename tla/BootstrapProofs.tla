-------------------------- MODULE BootstrapProofs --------------------------
(***************************************************************************)
(* The installation keeps its order, however often it fails, and the       *)
(* pipeline it installs is the one of Promotion.                           *)
(***************************************************************************)
EXTENDS Bootstrap, PromotionProofs

-----------------------------------------------------------------------------
(* Facts about the script.                                                 *)

Needed == {AppOf["dev"], "kargo-git-credentials", "stages"}

LEMMA LastIs == Last = 11
BY DEF Last, Commands

LEMMA CommandsAreTyped ==
    ASSUME NEW n \in 1 .. Last
    PROVE  Commands[n][2] \in Objects
BY DEF Objects

\* Whatever is needed stands before the Warehouse in the script.
LEMMA WarehouseIsLate ==
    ASSUME NEW n \in 1 .. Last, Commands[n][2] = "warehouse", NEW x \in Needed
    PROVE  \E m \in 1 .. Last : m < n /\ Commands[m][2] = x
<1>1. n \in 1 .. 11
  BY LastIs
<1>2. n = 11
  BY <1>1 DEF Commands, AppOf
<1>3. /\ Commands[10][2] = AppOf["dev"]
      /\ Commands[8][2] = "kargo-git-credentials"
      /\ Commands[7][2] = "stages"
  BY DEF Commands
<1>. QED
  BY <1>2, <1>3, LastIs DEF Needed

LEMMA DerivedAreTyped ==
    ASSUME NEW d \in Derived
    PROVE  d[2] \in Objects /\ d[2] # "warehouse"
BY DEF Objects, Derived, AppOf, Stages

-----------------------------------------------------------------------------
(* Every step of the composition is a step of Promotion, or none.          *)

LEMMA PromotionStep == [BootNext]_bootVars => [Next]_vars
<1>. SUFFICES ASSUME [BootNext]_bootVars PROVE Next \/ UNCHANGED vars
  OBVIOUS
<1>1. CASE Begin \/ Run \/ Abort \/ \E d \in Derived : Reconcile(d)
  BY <1>1 DEF Begin, Run, Apply, Await, Abort, Reconcile
<1>2. ASSUME NEW s \in Stages, Promoting(s) \/ Syncing(s) PROVE Next
  BY <1>2 DEF Promoting, Syncing, Next
<1>3. CASE Elsewhere
  BY <1>3 DEF Elsewhere, Next
<1>4. CASE UNCHANGED bootVars
  BY <1>4 DEF bootVars
<1>. QED
  BY <1>1, <1>2, <1>3, <1>4 DEF BootNext

\* What Promotion promises holds while the pipeline is being installed too.
THEOREM InstallsThePipeline == BootSpec => Spec
<1>1. BootInit => Init
  BY DEF BootInit
<1>. QED
  BY <1>1, PromotionStep, PTL DEF BootSpec, Spec

\* Failed scripts, missing objects and late controllers let nothing into prod
\* that did not pass in staging and in dev, and no verdict is put down to
\* freight that does not run.
THEOREM GatesHoldWhileInstalling ==
    BootSpec => [](ProdPassedTheGates /\ VerdictIsAboutWhatRuns)
BY InstallsThePipeline, GatesHold, VerdictsAreTrue, PTL

\* From the first command of phase 06 on, what happens to the environments is
\* gated delivery.
THEOREM InstallationIsGated == BootSpec => ImplementsGatedDelivery
BY InstallsThePipeline, PipelineIsGated, PTL

-----------------------------------------------------------------------------
(* Type correctness.                                                       *)

LEMMA BootTypeStep ==
    BootTypeOK /\ [BootNext]_bootVars => BootTypeOK'
<1>. SUFFICES ASSUME BootTypeOK, [BootNext]_bootVars PROVE BootTypeOK'
  OBVIOUS
<1>1. TypeOK'
  BY PromotionStep, TypeStep DEF BootTypeOK
<1>. USE BootstrapAssumption, LastIs, CommandsAreTyped, <1>1 DEF BootTypeOK
<1>2. CASE Begin
  BY <1>2 DEF Begin
<1>3. CASE Run
  BY <1>3 DEF Run, Apply, Await, NextIs
<1>4. CASE Abort
  BY <1>4 DEF Abort, NextIs
<1>5. ASSUME NEW d \in Derived, Reconcile(d) PROVE BootTypeOK'
  BY <1>5, DerivedAreTyped DEF Reconcile, scriptVars
<1>6. CASE UNCHANGED <<scriptVars, objects>>
  BY <1>6 DEF scriptVars
<1>. QED
  BY <1>2, <1>3, <1>4, <1>5, <1>6
  DEF BootNext, Promoting, Syncing, Elsewhere, bootVars

\* No run of the script, no abort and no controller leaves its types.
THEOREM BootTypeCorrect == BootSpec => []BootTypeOK
<1>1. BootInit => BootTypeOK
  BY InitInv, BootstrapAssumption, LastIs DEF BootInit, BootTypeOK, IInv
<1>. QED
  BY <1>1, BootTypeStep, PTL DEF BootSpec

-----------------------------------------------------------------------------
(* The order of the installation.                                          *)

\* The commands behind the script have had their effect; the Warehouse came
\* after what it needs, and freight after the Warehouse.
InOrder ==
    /\ BootTypeOK
    /\ \A m \in 1 .. Last : m < at => Commands[m][2] \in objects
    /\ "warehouse" \in objects => Needed \subseteq objects
    /\ discovered # 0 => "warehouse" \in objects

LEMMA OrderStep == InOrder /\ [BootNext]_bootVars => InOrder'
<1>. SUFFICES ASSUME InOrder, [BootNext]_bootVars PROVE InOrder'
  OBVIOUS
<1>1. BootTypeOK /\ BootTypeOK'
  BY BootTypeStep DEF InOrder
<1>2. CASE Begin
  <2>1. UNCHANGED <<objects, discovered, step>>
    BY <1>2 DEF Begin, vars
  <2>2. \A m \in 1 .. Last : m < at' => Commands[m][2] \in objects
    BY <1>2, LastIs DEF Begin
  <2>. QED
    BY <1>1, <2>1, <2>2 DEF InOrder
<1>3. ASSUME Run \/ Abort PROVE InOrder'
  <2>1. UNCHANGED <<discovered, step>>
    BY <1>3 DEF Run, Apply, Await, Abort, vars
  <2>2. objects \subseteq objects'
    BY <1>3 DEF Run, Apply, Await, Abort
  <2>3. \A m \in 1 .. Last : m < at' => Commands[m][2] \in objects'
    BY <1>1, <1>3, LastIs
    DEF InOrder, Run, Apply, Await, Abort, NextIs, BootTypeOK
  <2>4. ASSUME "warehouse" \in objects', "warehouse" \notin objects
        PROVE  Needed \subseteq objects'
    <3>1. at \in 1 .. Last /\ Commands[at][2] = "warehouse"
      BY <1>3, <2>4 DEF Run, Apply, Await, Abort, NextIs
    <3>2. \A x \in Needed : \E m \in 1 .. Last : m < at /\ Commands[m][2] = x
      BY <3>1, WarehouseIsLate
    <3>. QED
      BY <2>2, <3>2 DEF InOrder
  <2>. QED
    BY <1>1, <2>1, <2>2, <2>3, <2>4 DEF InOrder
<1>4. ASSUME NEW d \in Derived, Reconcile(d) PROVE InOrder'
  BY <1>1, <1>4, DerivedAreTyped DEF InOrder, Reconcile, scriptVars, vars
<1>5. CASE UNCHANGED <<scriptVars, objects>>
  <2>1. ASSUME discovered' # 0 PROVE "warehouse" \in objects
    <3>1. CASE Elsewhere
      BY <2>1, <3>1
      DEF Elsewhere, InOrder, Promote, EndVerification, FailStep
    <3>2. ASSUME NEW s \in Stages, Promoting(s) \/ Syncing(s)
          PROVE  discovered' = discovered
      BY <3>2 DEF Promoting, Syncing, Render, Push, Update, Succeed, Sync
    <3>3. CASE discovered' = discovered
      BY <2>1, <3>3 DEF InOrder
    <3>. QED
      BY <3>1, <3>2, <3>3
      DEF BootNext, Begin, Run, Apply, Await, Abort, Reconcile, bootVars, vars
  <2>. QED
    BY <1>1, <1>5, <2>1 DEF InOrder, scriptVars
<1>. QED
  BY <1>2, <1>3, <1>4, <1>5
  DEF BootNext, Promoting, Syncing, Elsewhere, bootVars

\* "Phase 06 complete" is printed only when every object that the script
\* applies or waits for exists, in whichever of its runs each was created, and
\* whatever the runs before it left half done.
CompleteIsInstalled ==
    Complete => {Commands[n][2] : n \in 1 .. Last} \subseteq objects

\* No command is taken for done because another run got past it.
THEOREM CompletionIsReal == BootSpec => []CompleteIsInstalled
<1>1. BootInit => InOrder
  BY InitInv, BootstrapAssumption, LastIs
  DEF BootInit, Init, IInv, InOrder, BootTypeOK
<1>2. InOrder => CompleteIsInstalled
  <2>. SUFFICES ASSUME InOrder, Complete, NEW n \in 1 .. Last
                PROVE  Commands[n][2] \in objects
    BY DEF CompleteIsInstalled
  <2>1. n < at
    BY LastIs DEF Complete
  <2>. QED
    BY <2>1 DEF InOrder
<1>. QED
  BY <1>1, <1>2, OrderStep, PTL DEF BootSpec

\* The first promotion finds what it needs, after any number of failures.
THEOREM PromotionsFindTheirApplication ==
    BootSpec => []DevFindsItsApplication
<1>1. BootInit => InOrder
  BY InitInv, BootstrapAssumption, LastIs
  DEF BootInit, Init, IInv, InOrder, BootTypeOK
<1>2. BootSpec => []InOrder
  BY <1>1, OrderStep, PTL DEF BootSpec
<1>3. IInv /\ InOrder => DevFindsItsApplication
  <2>. SUFFICES ASSUME IInv, InOrder, step["dev"] # "idle" PROVE Needed \subseteq objects
    BY DEF DevFindsItsApplication, Needed
  <2>1. promotion["dev"] \in 1 .. discovered
    BY DEF IInv, FromOffer, Offered, Stages
  <2>. QED
    BY <2>1 DEF InOrder, BootTypeOK, TypeOK
<1>. QED
  BY <1>2, <1>3, InstallsThePipeline, Inductive, PTL

=============================================================================
