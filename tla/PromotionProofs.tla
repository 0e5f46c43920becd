-------------------------- MODULE PromotionProofs --------------------------
(***************************************************************************)
(* The pipeline keeps its gates, for any amount of freight and any number  *)
(* of failed promotions, and implements GatedDelivery.                     *)
(***************************************************************************)
EXTENDS Promotion, TLAPS

-----------------------------------------------------------------------------
(* The inductive invariant.                                                *)

\* What a Stage is promoting, renders, runs and verifies was on offer to it;
\* between the push and the sync the branch is the promotion's.
FromOffer ==
    \A s \in Stages :
        /\ step[s] # "idle" => promotion[s] \in Offered(s)
        /\ branch[s] # NoFreight => branch[s] \in Offered(s)
        /\ live[s] # NoFreight => live[s] \in Offered(s) /\ branch[s] # NoFreight

UpdatesItsPush ==
    \A s \in Stages : step[s] = "update" => branch[s] = promotion[s]

VerifiesAlone ==
    \A s \in Stages : verifying[s] # NoFreight =>
        /\ step[s] = "idle"
        /\ verifying[s] = branch[s]
        /\ verifying[s] = live[s]

GatesNest == verified["staging"] \subseteq verified["dev"]

IInv ==
    /\ TypeOK
    /\ FromOffer
    /\ UpdatesItsPush
    /\ VerifiesAlone
    /\ GatesNest

LEMMA FreightIsNotNone == NoFreight \notin Freights
BY DEF NoFreight, Freights

LEMMA InitInv == Init => IInv
BY PromotionAssumption
DEF Init, IInv, TypeOK, FromOffer, UpdatesItsPush, VerifiesAlone, GatesNest,
    Steps, Stages

\* What is on offer stays on offer.
LEMMA OfferGrows ==
    ASSUME TypeOK, TypeOK', discovered <= discovered',
           \A s \in Stages : verified[s] \subseteq verified'[s]
    PROVE  \A s \in Stages : Offered(s) \subseteq Offered(s)'
BY PromotionAssumption DEF TypeOK, Offered, Stages

-----------------------------------------------------------------------------
(* Type correctness.                                                       *)

LEMMA OfferedIsFreight ==
    ASSUME TypeOK, NEW s \in Stages PROVE Offered(s) \subseteq Freights
BY PromotionAssumption DEF TypeOK, Offered, Freights, Stages

LEMMA TypeStep == TypeOK /\ [Next]_vars => TypeOK'
<1>. SUFFICES ASSUME TypeOK, [Next]_vars PROVE TypeOK'
  OBVIOUS
<1>. USE PromotionAssumption, FreightIsNotNone DEF TypeOK, Steps, Goto
<1>1. CASE Discover
  BY <1>1 DEF Discover
<1>2. ASSUME NEW s \in Stages, Promote(s) PROVE TypeOK'
  <2>1. PICK f \in Offered(s) : promotion' = [promotion EXCEPT ![s] = f]
    BY <1>2 DEF Promote
  <2>2. f \in Freights
    BY <2>1, OfferedIsFreight
  <2>. QED
    BY <1>2, <2>1, <2>2 DEF Promote
<1>3. ASSUME NEW s \in Stages, Render(s) \/ Push(s) PROVE TypeOK'
  BY <1>3 DEF Render, Push
<1>4. ASSUME NEW s \in Stages, Update(s) PROVE TypeOK'
  <2>1. promotion[s] \in Freights
    BY <1>4 DEF Update
  <2>. QED
    BY <1>4, <2>1 DEF Update, Succeed
<1>5. ASSUME NEW s \in Stages, FailStep(s) PROVE TypeOK'
  BY <1>5 DEF FailStep
<1>6. ASSUME NEW s \in Stages, Sync(s) PROVE TypeOK'
  BY <1>6 DEF Sync
<1>7. ASSUME NEW s \in Stages, EndVerification(s) PROVE TypeOK'
  BY <1>7 DEF EndVerification
<1>8. CASE UNCHANGED vars
  BY <1>8 DEF vars
<1>. QED
  BY <1>1, <1>2, <1>3, <1>4, <1>5, <1>6, <1>7, <1>8 DEF Next

-----------------------------------------------------------------------------
(* Every step keeps the invariant.                                         *)

LEMMA InvStep == IInv /\ [Next]_vars => IInv'
<1>. SUFFICES ASSUME IInv, [Next]_vars PROVE IInv'
  OBVIOUS
<1>1. TypeOK /\ TypeOK'
  BY TypeStep DEF IInv
<1>. USE DEF IInv, FromOffer, UpdatesItsPush, VerifiesAlone, GatesNest
<1>2. CASE Discover
  <2>1. \A s \in Stages : Offered(s) \subseteq Offered(s)'
    BY <1>1, <1>2, OfferGrows, PromotionAssumption DEF Discover, TypeOK
  <2>. QED
    BY <1>1, <1>2, <2>1 DEF Discover
<1>3. CASE UNCHANGED <<discovered, verified>>
  <2>1. \A s \in Stages : Offered(s) = Offered(s)'
    BY <1>3 DEF Offered
  <2>2. ASSUME NEW s \in Stages, Promote(s) PROVE IInv'
    BY <1>1, <2>1, <2>2 DEF Promote, Goto, TypeOK
  <2>3. ASSUME NEW s \in Stages, Render(s) \/ FailStep(s) PROVE IInv'
    BY <1>1, <2>1, <2>3 DEF Render, FailStep, Goto, TypeOK
  <2>4. ASSUME NEW s \in Stages, Push(s) PROVE IInv'
    BY <1>1, <2>1, <2>4 DEF Push, Goto, TypeOK
  <2>5. ASSUME NEW s \in Stages, Sync(s) PROVE IInv'
    BY <1>1, <2>1, <2>5 DEF Sync, TypeOK
  <2>6. ASSUME NEW s \in Stages, Update(s) PROVE IInv'
    BY <1>1, <1>3, <2>1, <2>6 DEF Update, Succeed, Goto, TypeOK
  <2>7. ASSUME NEW s \in Stages, EndVerification(s) PROVE IInv'
    BY <1>1, <1>3, <2>1, <2>7 DEF EndVerification, TypeOK
  <2>8. CASE UNCHANGED vars
    BY <1>1, <2>1, <2>8 DEF vars
  <2>. QED
    BY <1>2, <2>2, <2>3, <2>4, <2>5, <2>6, <2>7, <2>8 DEF Next
<1>4. ASSUME NEW s \in Stages, Update(s) \/ EndVerification(s) PROVE IInv'
  <2>1. discovered' = discovered
        /\ \A t \in Stages : verified[t] \subseteq verified'[t]
    BY <1>1, <1>4 DEF Update, Succeed, EndVerification, TypeOK
  <2>2. \A t \in Stages : Offered(t) \subseteq Offered(t)'
    BY <1>1, <2>1, OfferGrows, PromotionAssumption DEF TypeOK
  <2>3. FromOffer'
    BY <1>1, <1>4, <2>2 DEF Update, Succeed, EndVerification, Goto, TypeOK
  <2>4. UpdatesItsPush' /\ VerifiesAlone'
    BY <1>1, <1>4 DEF Update, Succeed, EndVerification, Goto, TypeOK
  <2>5. GatesNest'
    <3>1. CASE Update(s)
      BY <1>1, <3>1 DEF Update, Succeed, Verifies, TypeOK, Stages
    <3>2. CASE EndVerification(s)
      <4>1. s = "staging" => verifying[s] \in verified["dev"]
        BY <3>2 DEF EndVerification, Offered
      <4>. QED
        BY <1>1, <3>2, <4>1 DEF EndVerification, TypeOK, Stages
    <3>. QED
      BY <1>4, <3>1, <3>2
  <2>. QED
    BY <1>1, <2>3, <2>4, <2>5
<1>5. CASE UNCHANGED vars
  BY <1>3, <1>5 DEF vars
<1>6. ASSUME NEW s \in Stages,
             Promote(s) \/ Render(s) \/ Push(s) \/ FailStep(s) \/ Sync(s)
      PROVE  IInv'
  BY <1>3, <1>6 DEF Promote, Render, Push, FailStep, Sync
<1>. QED
  BY <1>2, <1>4, <1>5, <1>6 DEF Next

LEMMA Inductive == Spec => []IInv
BY InitInv, InvStep, PTL DEF Spec

-----------------------------------------------------------------------------
(* The theorems.                                                           *)

\* No promotion, failed step, sync or verification leaves its types.
THEOREM TypeCorrect == Spec => []TypeOK
<1>1. IInv => TypeOK
  BY DEF IInv
<1>. QED
  BY <1>1, Inductive, PTL

\* Prod runs and will run only what passed in staging and in dev.
THEOREM GatesHold == Spec => []ProdPassedTheGates
<1>1. IInv => ProdPassedTheGates
  BY DEF IInv, FromOffer, GatesNest, ProdPassedTheGates, Offered, Stages
<1>. QED
  BY <1>1, Inductive, PTL

\* A verdict is about the freight that ran while it was reached.
THEOREM VerdictsAreTrue == Spec => []VerdictIsAboutWhatRuns
<1>1. IInv => VerdictIsAboutWhatRuns
  BY DEF IInv, VerifiesAlone, VerdictIsAboutWhatRuns
<1>. QED
  BY <1>1, Inductive, PTL

\* Every step of the pipeline is a step of GatedDelivery, or none.
LEMMA GatedStep ==
    IInv /\ [Next]_vars => [Gated!Next]_<<live, verified>>
<1>. SUFFICES ASSUME IInv, [Next]_vars
              PROVE  Gated!Next \/ UNCHANGED <<live, verified>>
  OBVIOUS
<1>1. TypeOK
  BY DEF IInv
<1>2. ASSUME NEW s \in Stages, Sync(s) PROVE Gated!Deliver(s)
  <2>1. live' = [live EXCEPT ![s] = branch[s]] /\ verified' = verified
    BY <1>2 DEF Sync
  <2>2. branch[s] \in Freights /\ branch[s] \in Offered(s)
    BY <1>1, <1>2 DEF IInv, FromOffer, TypeOK, Sync
  <2>3. s \in DOMAIN Gated!Upstream => branch[s] \in verified[Gated!Upstream[s]]
    BY <2>2 DEF Offered, Gated!Upstream, Stages
  <2>. QED
    BY <2>1, <2>2, <2>3 DEF Gated!Deliver
<1>3. ASSUME NEW s \in Stages, verified' = [verified EXCEPT ![s] = @ \cup {live[s]}],
             live[s] # NoFreight, UNCHANGED live
      PROVE  Gated!Pass(s)
  BY <1>3 DEF Gated!Pass
<1>4. ASSUME NEW s \in Stages, Update(s) PROVE Gated!Pass(s) \/ UNCHANGED <<live, verified>>
  <2>1. live[s] = promotion[s] /\ live[s] # NoFreight
    BY <1>1, <1>4, FreightIsNotNone DEF IInv, UpdatesItsPush, TypeOK, Update
  <2>. QED
    BY <1>3, <1>4, <2>1 DEF Update, Succeed
<1>5. ASSUME NEW s \in Stages, EndVerification(s)
      PROVE  Gated!Pass(s) \/ UNCHANGED <<live, verified>>
  <2>1. live[s] = verifying[s] /\ live[s] # NoFreight
    BY <1>5 DEF IInv, VerifiesAlone, EndVerification
  <2>. QED
    BY <1>3, <1>5, <2>1 DEF EndVerification
<1>6. CASE Discover \/ UNCHANGED vars
  BY <1>6 DEF Discover, vars
<1>7. ASSUME NEW s \in Stages, Promote(s) \/ Render(s) \/ Push(s) \/ FailStep(s)
      PROVE  UNCHANGED <<live, verified>>
  BY <1>7 DEF Promote, Render, Push, FailStep
<1>8. Stages = Gated!Stages
  BY DEF Stages, Gated!Stages
<1>. QED
  BY <1>2, <1>4, <1>5, <1>6, <1>7, <1>8 DEF Next, Gated!Next

\* Promotions that fail half-way, syncs that nobody asked for and verdicts
\* that come late are deliveries and passes of GatedDelivery.
THEOREM PipelineIsGated == Spec => ImplementsGatedDelivery
<1>1. Init => Gated!Init
  BY DEF Init, Gated!Init, Stages, Gated!Stages
<1>. QED
  BY <1>1, GatedStep, Inductive, PTL DEF Spec, ImplementsGatedDelivery, Gated!Spec

\* What gated delivery is there for: an environment runs, and passes, only
\* what has passed in the environment before it.
NothingSkipsAStage ==
    \A s \in {"staging", "prod"} :
        LET before == verified[Gated!Upstream[s]] IN
        /\ live[s] # NoFreight => live[s] \in before
        /\ verified[s] \subseteq before

LEMMA GatedDeliveryGates == ImplementsGatedDelivery => []NothingSkipsAStage
<1>. DEFINE Typed == /\ live \in [Stages -> Freights \cup {NoFreight}]
                     /\ verified \in [Stages -> SUBSET Freights]
            Inv == Typed /\ NothingSkipsAStage
<1>. USE DEF Stages, Gated!Stages, Gated!Upstream
<1>1. Gated!Init => Inv
  BY DEF Gated!Init, NothingSkipsAStage
<1>2. ASSUME Inv, NEW s \in Stages, Gated!Deliver(s) PROVE Inv'
  BY <1>2 DEF Gated!Deliver, NothingSkipsAStage
<1>3. ASSUME Inv, NEW s \in Stages, Gated!Pass(s) PROVE Inv'
  BY <1>3 DEF Gated!Pass, NothingSkipsAStage
<1>4. Inv /\ [Gated!Next]_<<live, verified>> => Inv'
  <2>1. ASSUME Inv, UNCHANGED <<live, verified>> PROVE Inv'
    BY <2>1 DEF NothingSkipsAStage
  <2>. QED
    BY <1>2, <1>3, <2>1 DEF Gated!Next
<1>. QED
  BY <1>1, <1>4, PTL DEF ImplementsGatedDelivery, Gated!Spec

\* Staging and prod run and verify only freight that passed in the stage
\* before, through failed promotions and syncs that nobody asked for: the
\* pipeline of the Stages and Applications has it from GatedDelivery.
THEOREM NoStageIsSkipped == Spec => []NothingSkipsAStage
BY PipelineIsGated, GatedDeliveryGates, PTL

=============================================================================
