---------------------------- MODULE SignerProofs ----------------------------
(***************************************************************************)
(* The safety of the signer and of the test that pays with its wallets,    *)
(* for any set of keys, any number of virtual users and of faults, and     *)
(* whatever the timeouts are.                                              *)
(***************************************************************************)
EXTENDS Signer, FiniteSetTheorems, TLAPS

-----------------------------------------------------------------------------
(* Positions.                                                              *)

LEMMA KeysAreNumbers == \A k \in Keys : k \in Int /\ 1 <= k /\ k <= 3
BY SignerAssumption

LEMMA KeysFinite == IsFiniteSet(Keys) /\ Cardinality(Keys) \in Nat
<1>1. IsFiniteSet(1 .. 3)
  BY FS_Interval, 1 \in Int, 3 \in Int
<1>. QED
  BY <1>1, FS_Subset, FS_CardinalityType, SignerAssumption

\* The keys below a key, and the keys, as explicit sets.
LEMMA Below ==
    /\ Position(1) = 0
    /\ Position(2) = IF 1 \in Keys THEN 1 ELSE 0
    /\ Position(3) = (IF 1 \in Keys THEN 1 ELSE 0) + (IF 2 \in Keys THEN 1 ELSE 0)
    /\ Cardinality(Keys) = Position(3) + (IF 3 \in Keys THEN 1 ELSE 0)
<1>. DEFINE Count(S, k) == Cardinality(S) + (IF k \in Keys THEN 1 ELSE 0)
<1>1. ASSUME NEW S, IsFiniteSet(S), NEW k, k \notin S
      PROVE  /\ IsFiniteSet(S \cup (Keys \cap {k}))
             /\ Cardinality(S \cup (Keys \cap {k})) = Count(S, k)
  <2>1. CASE k \in Keys
    <3>1. S \cup (Keys \cap {k}) = S \cup {k}
      BY <2>1
    <3>. QED
      BY <3>1, <2>1, <1>1, FS_AddElement, FS_CardinalityType
  <2>2. CASE k \notin Keys
    <3>1. S \cup (Keys \cap {k}) = S
      BY <2>2
    <3>2. Count(S, k) = Cardinality(S)
      BY <1>1, <2>2, FS_CardinalityType
    <3>. QED
      BY <3>1, <3>2, <1>1
  <2>. QED
    BY <2>1, <2>2
<1>. DEFINE B1 == {j \in Keys : j < 1}
            B2 == {j \in Keys : j < 2}
            B3 == {j \in Keys : j < 3}
<1>2. /\ B1 = {}
      /\ B2 = B1 \cup (Keys \cap {1})
      /\ B3 = B2 \cup (Keys \cap {2})
      /\ Keys = B3 \cup (Keys \cap {3})
  <2>1. \A j \in Keys : j = 1 \/ j = 2 \/ j = 3
    BY KeysAreNumbers
  <2>. QED
    BY <2>1
<1>3. IsFiniteSet(B1) /\ Cardinality(B1) = 0
  BY <1>2, FS_EmptySet
<1>4. IsFiniteSet(B2) /\ Cardinality(B2) = Count(B1, 1)
  BY <1>1, <1>2, <1>3
<1>5. IsFiniteSet(B3) /\ Cardinality(B3) = Count(B2, 2)
  BY <1>1, <1>2, <1>4, SignerAssumption
<1>6. Cardinality(Keys) = Count(B3, 3)
  BY <1>1, <1>2, <1>5, SignerAssumption
<1>. QED
  BY <1>3, <1>4, <1>5, <1>6 DEF Position

\* Every position below the number of wallets is the position of a wallet.
LEMMA PositionsAreTaken ==
    ASSUME NEW p \in Nat, p < Cardinality(Keys)
    PROVE  \E k \in Keys : Position(k) = p
<1>1. Keys \subseteq {1, 2, 3}
  BY SignerAssumption
<1>2. CASE p = 0
  <2>1. CASE 1 \in Keys
    BY <1>2, <2>1, Below
  <2>2. CASE 1 \notin Keys /\ 2 \in Keys
    BY <1>2, <2>2, Below
  <2>3. CASE 1 \notin Keys /\ 2 \notin Keys
    BY <1>2, <2>3, Below
  <2>. QED
    BY <2>1, <2>2, <2>3
<1>3. CASE p = 1
  <2>1. CASE 1 \in Keys /\ 2 \in Keys
    BY <1>3, <2>1, Below
  <2>2. CASE 1 \in Keys /\ 2 \notin Keys
    BY <1>3, <2>2, Below
  <2>3. CASE 1 \notin Keys
    BY <1>3, <2>3, Below
  <2>. QED
    BY <2>1, <2>2, <2>3
<1>4. CASE p = 2
  BY <1>4, Below
<1>5. CASE p > 2
  BY <1>5, Below
<1>. QED
  BY <1>2, <1>3, <1>4, <1>5

\* The order of wallet_index is the order of the positions: setup() selects
\* the wallets that the virtual users address.
LEMMA SelectedIsAddressed ==
    ASSUME NEW k \in Keys
    PROVE  k \in Selected <=> Position(k) < VUS
<1>1. {j \in Keys : j - 1 < k - 1} = {j \in Keys : j < k}
  BY KeysAreNumbers
<1>. QED
  BY <1>1 DEF Selected, Position

-----------------------------------------------------------------------------
(* Type correctness.                                                       *)

LEMMA Bounds ==
    /\ 0 \in 0 .. MaxFaults
    /\ 0 \in 0 .. MaxQueue
    /\ 0 \in 0 .. ReceiptTimeout
    /\ 0 \in 0 .. MaxAge
    /\ 0 <= LivenessAge + ProbePeriod
BY SignerAssumption DEF MaxAge

LEMMA TypeInit == Init => TypeOK
BY Bounds DEF Init, TypeOK

\* A process that starts again is typed.
LEMMA StartAgainType ==
    ASSUME TypeOK, StartAgain,
           UNCHANGED <<up, chain, run, permit>>, faults' \in 0 .. MaxFaults
    PROVE  TypeOK'
BY Bounds DEF TypeOK, StartAgain, chain

\* So is one that has come to the next wallet.
LEMMA NextWalletType ==
    ASSUME TypeOK, NEW k \in Keys, WalletFails(k) \/ WalletReady(k)
    PROVE  /\ pc' = "loop"
           /\ todo' \subseteq Keys
           /\ bootstrapped' \subseteq Keys
           /\ waited' \in 0 .. ReceiptTimeout
BY Bounds DEF TypeOK, WalletFails, WalletReady, NextWallet

LEMMA FaultType ==
    ASSUME TypeOK, Fault PROVE faults' \in 0 .. MaxFaults
BY SignerAssumption DEF TypeOK, Fault

LEMMA TypeStep == TypeOK /\ [Next]_vars => TypeOK'
<1>. SUFFICES ASSUME TypeOK, [Next]_vars PROVE TypeOK'
  OBVIOUS
<1>. USE SignerAssumption
<1>1. CASE RpcFails \/ RpcReturns
  BY <1>1, FaultType
  DEF TypeOK, RpcFails, RpcReturns, chain, boot, container
<1>2. ASSUME NEW k \in Keys, TopUp(k) PROVE TypeOK'
  BY <1>2 DEF TypeOK, TopUp, boot, container
<1>3. ASSUME NEW k \in Keys, Mine(k) PROVE TypeOK'
  <2>1. queue' \in [Keys -> 0 .. MaxQueue]
    BY <1>3 DEF TypeOK, Mine
  <2>2. receipt' \in [Keys -> {"none", "ok", "reverted"}] /\ approved' \subseteq Keys
    BY <1>3 DEF TypeOK, Mine
  <2>3. faults' \in 0 .. MaxFaults
    BY <1>3, FaultType DEF TypeOK, Mine
  <2>. QED
    BY <1>3, <2>1, <2>2, <2>3 DEF TypeOK, Mine, boot, container
<1>4. ASSUME NEW k \in Keys, CheckAllowance(k) PROVE TypeOK'
  <2>1. CASE pc' = "send" /\ UNCHANGED boot
    BY <1>4, <2>1 DEF TypeOK, CheckAllowance, Current, chain, boot, container
  <2>2. CASE WalletFails(k) \/ WalletReady(k)
    BY <1>4, <2>2, NextWalletType DEF TypeOK, CheckAllowance, chain, container
  <2>. QED
    BY <1>4, <2>1, <2>2 DEF CheckAllowance
<1>5. ASSUME NEW k \in Keys, SendApproval(k) PROVE TypeOK'
  <2>1. queue' \in [Keys -> 0 .. MaxQueue]
    BY <1>5 DEF TypeOK, SendApproval, Enqueue
  <2>2. faults' \in 0 .. MaxFaults
    BY <1>5, FaultType DEF TypeOK, SendApproval
  <2>3. CASE pc' = "wait" /\ UNCHANGED boot
    BY <1>5, <2>1, <2>2, <2>3 DEF TypeOK, SendApproval, Current, boot, container
  <2>4. CASE WalletFails(k)
    BY <1>5, <2>1, <2>2, <2>4, NextWalletType DEF TypeOK, SendApproval, container
  <2>. QED
    BY <1>5, <2>3, <2>4 DEF SendApproval
<1>6. ASSUME NEW k \in Keys, AwaitReceipt(k) PROVE TypeOK'
  BY <1>6, NextWalletType DEF TypeOK, AwaitReceipt, chain, container
<1>7. CASE Connect
  <2>1. CASE StartAgain
    BY <1>7, <2>1, StartAgainType DEF Connect, TypeOK
  <2>2. CASE pc' = "loop" /\ todo' = Keys /\ UNCHANGED <<bootstrapped, waited, container, checked>>
    BY <1>7, <2>2 DEF TypeOK, Connect, chain, container
  <2>. QED
    BY <1>7, <2>1, <2>2 DEF Connect
<1>8. CASE EndBootstrap
  <2>1. CASE StartAgain
    BY <1>8, <2>1, StartAgainType DEF EndBootstrap, TypeOK
  <2>2. CASE pc' = "serving" /\ age' = 0 /\ UNCHANGED <<boot, killAt, checked>>
    BY <1>8, <2>2 DEF TypeOK, EndBootstrap, chain, boot, MaxAge
  <2>. QED
    BY <1>8, <2>1, <2>2 DEF EndBootstrap
<1>9. CASE Tick
  <2>1. age' \in 0 .. MaxAge
    BY <1>9 DEF TypeOK, Tick, MaxAge
  <2>2. waited' \in 0 .. ReceiptTimeout
    BY <1>9 DEF TypeOK, Tick
  <2>. QED
    BY <1>9, <2>1, <2>2 DEF TypeOK, Tick, chain
<1>10. CASE Terminate
  <2>1. killAt' \in 0 .. MaxAge /\ killAt' # 0
    BY <1>10 DEF TypeOK, Terminate, MaxAge
  <2>. QED
    BY <1>10, <2>1 DEF TypeOK, Terminate, chain, boot
<1>11. CASE Kill \/ Crash \/ OperatorRestarts
  BY <1>11, StartAgainType, FaultType DEF Kill, Crash, OperatorRestarts, TypeOK
<1>12. CASE StartTest \/ CheckHealth \/ CheckWallets \/ EndTest
  BY <1>12 DEF TypeOK, StartTest, CheckHealth, CheckWallets, EndTest, chain,
               boot, container
<1>13. ASSUME NEW v \in Users, Sign(v) PROVE TypeOK'
  BY <1>13 DEF TypeOK, Sign, chain, boot, container
<1>14. ASSUME NEW v \in Users, Pay(v) PROVE TypeOK'
  BY <1>14 DEF TypeOK, Pay, chain, boot, container
<1>15. CASE UNCHANGED vars
  BY <1>15 DEF TypeOK, vars, chain, boot, container
<1>. QED
  BY <1>1, <1>2, <1>3, <1>4, <1>5, <1>6, <1>7, <1>8, <1>9, <1>10, <1>11,
     <1>12, <1>13, <1>14, <1>15 DEF Next, Boot

\* No process, chain or test leaves its types, whatever the faults.
THEOREM TypeCorrect == Spec => []TypeOK
<1>1. Init => TypeOK
  BY TypeInit
<1>2. TypeOK /\ [Next]_vars => TypeOK'
  BY TypeStep
<1>. QED
  BY <1>1, <1>2, PTL DEF Spec

-----------------------------------------------------------------------------
(* What the signer signs for is approved.                                  *)

ReceiptIsTrue == \A k \in Keys : receipt[k] = "ok" => k \in approved

ApprovedInv ==
    /\ TypeOK
    /\ BootstrappedIsApproved
    /\ ReceiptIsTrue

LEMMA ApprovedStep == ApprovedInv /\ [Next]_vars => ApprovedInv'
<1>. SUFFICES ASSUME ApprovedInv, [Next]_vars PROVE ApprovedInv'
  OBVIOUS
<1>. USE DEF ApprovedInv, BootstrappedIsApproved, ReceiptIsTrue
<1>1. TypeOK /\ TypeOK'
  BY TypeStep
<1>2. CASE UNCHANGED <<approved, receipt, bootstrapped>>
  BY <1>1, <1>2
<1>3. CASE StartAgain /\ UNCHANGED <<approved, receipt>>
  BY <1>1, <1>3 DEF StartAgain
<1>4. ASSUME NEW k \in Keys, Mine(k) PROVE ApprovedInv'
  <2>1. CASE approved' = approved \cup {k} /\ receipt' = [receipt EXCEPT ![k] = "ok"]
    BY <1>1, <1>4, <2>1 DEF Mine, boot, TypeOK
  <2>2. CASE UNCHANGED approved /\ receipt' = [receipt EXCEPT ![k] = "reverted"]
    BY <1>1, <1>4, <2>2 DEF Mine, boot, TypeOK
  <2>. QED
    BY <1>4, <2>1, <2>2 DEF Mine
<1>5. ASSUME NEW k \in Keys, CheckAllowance(k) PROVE ApprovedInv'
  BY <1>1, <1>5 DEF CheckAllowance, WalletReady, WalletFails, boot, chain
<1>6. ASSUME NEW k \in Keys, SendApproval(k) PROVE ApprovedInv'
  BY <1>1, <1>6 DEF SendApproval, WalletFails, boot
<1>7. ASSUME NEW k \in Keys, AwaitReceipt(k) PROVE ApprovedInv'
  BY <1>1, <1>7 DEF AwaitReceipt, WalletReady, WalletFails, chain
<1>8. CASE RpcFails \/ RpcReturns \/ Tick \/ Terminate
  BY <1>2, <1>8 DEF RpcFails, RpcReturns, Tick, Terminate, chain, boot
<1>9. CASE Connect \/ EndBootstrap
  BY <1>2, <1>3, <1>9 DEF Connect, EndBootstrap, chain, boot
<1>10. CASE Kill \/ Crash \/ OperatorRestarts
  BY <1>3, <1>10 DEF Kill, Crash, OperatorRestarts, chain
<1>11. CASE StartTest \/ CheckHealth \/ CheckWallets \/ EndTest
  BY <1>2, <1>11 DEF StartTest, CheckHealth, CheckWallets, EndTest, chain, boot
<1>12. ASSUME NEW v \in Users, Sign(v) \/ Pay(v) PROVE ApprovedInv'
  BY <1>2, <1>12 DEF Sign, Pay, chain, boot
<1>13. ASSUME NEW k \in Keys, TopUp(k) PROVE ApprovedInv'
  BY <1>2, <1>13 DEF TopUp, boot
<1>14. CASE UNCHANGED vars
  BY <1>2, <1>14 DEF vars, chain, boot
<1>. QED
  BY <1>4, <1>5, <1>6, <1>7, <1>8, <1>9, <1>10, <1>11, <1>12, <1>13, <1>14
  DEF Next, Boot

\* Every wallet the signer signs for has its allowance on the chain, through
\* lost receipts, reverts, crashes and restarts.
THEOREM SignsForApprovedWallets == Spec => []BootstrappedIsApproved
<1>1. Init => ApprovedInv
  BY TypeInit DEF Init, ApprovedInv, BootstrappedIsApproved, ReceiptIsTrue
<1>2. ApprovedInv => BootstrappedIsApproved
  BY DEF ApprovedInv
<1>. QED
  BY <1>1, <1>2, ApprovedStep, PTL DEF Spec

-----------------------------------------------------------------------------
(* What setup() looked at is what the users get.                           *)

CheckedInv ==
    /\ TypeOK
    /\ run \in {"wallets", "running"} => VUS <= Cardinality(Keys)
    /\ checked => Serving /\ Selected \subseteq bootstrapped

LEMMA CheckedStep == CheckedInv /\ [Next]_vars => CheckedInv'
<1>. SUFFICES ASSUME CheckedInv, [Next]_vars PROVE CheckedInv'
  OBVIOUS
<1>. USE DEF CheckedInv, Serving, Selected
<1>1. TypeOK /\ TypeOK'
  BY TypeStep
<1>2. CASE UNCHANGED <<run, checked, pc, bootstrapped>>
  BY <1>1, <1>2
<1>3. CASE StartAgain /\ UNCHANGED run
  BY <1>1, <1>3 DEF StartAgain
<1>4. CASE pc # "serving" /\ UNCHANGED <<run, checked>>
  BY <1>1, <1>4
<1>5. ASSUME NEW k \in Keys, Boot(k) PROVE CheckedInv'
  BY <1>4, <1>5 DEF Boot, CheckAllowance, SendApproval, AwaitReceipt
<1>6. CASE Connect \/ EndBootstrap
  BY <1>3, <1>4, <1>6 DEF Connect, EndBootstrap
<1>7. CASE Kill \/ Crash \/ OperatorRestarts
  BY <1>3, <1>7 DEF Kill, Crash, OperatorRestarts
<1>8. CASE CheckHealth
  <2>1. Cardinality(bootstrapped) <= Cardinality(Keys) /\ Cardinality(bootstrapped) \in Nat
    BY <1>1, KeysFinite, FS_Subset, FS_CardinalityType DEF TypeOK
  <2>2. run' = "wallets" => VUS <= Cardinality(Keys)
    BY <1>8, <2>1, KeysFinite, SignerAssumption DEF CheckHealth
  <2>. QED
    BY <1>1, <1>8, <2>2 DEF CheckHealth, boot
<1>9. CASE CheckWallets
  BY <1>1, <1>9 DEF CheckWallets, boot
<1>10. CASE StartTest \/ EndTest
  BY <1>1, <1>10 DEF StartTest, EndTest, boot
<1>11. CASE RpcFails \/ RpcReturns \/ Tick \/ Terminate
  BY <1>2, <1>11 DEF RpcFails, RpcReturns, Tick, Terminate, boot
<1>12. ASSUME NEW k \in Keys, TopUp(k) \/ Mine(k) PROVE CheckedInv'
  BY <1>2, <1>12 DEF TopUp, Mine, boot
<1>13. ASSUME NEW v \in Users, Sign(v) \/ Pay(v) PROVE CheckedInv'
  BY <1>2, <1>13 DEF Sign, Pay, boot
<1>14. CASE UNCHANGED vars
  BY <1>2, <1>14 DEF vars, boot
<1>. QED
  BY <1>5, <1>6, <1>7, <1>8, <1>9, <1>10, <1>11, <1>12, <1>13, <1>14
  DEF Next

LEMMA CheckedIsSigned == CheckedInv => CheckedUsersAreSigned
<1>. SUFFICES ASSUME CheckedInv, run = "running", checked, NEW v \in Users
              PROVE  SignAnswer(v) = "signed"
  BY DEF CheckedUsersAreSigned
<1>1. v \in Nat /\ v - 1 \in Nat /\ v - 1 < VUS /\ VUS <= Cardinality(Keys)
  BY SignerAssumption DEF CheckedInv, Users
<1>2. v - 1 < Cardinality(Keys)
  BY <1>1, KeysFinite, SignerAssumption
<1>3. PICK k \in Keys : Position(k) = v - 1
  BY <1>1, <1>2, PositionsAreTaken
<1>4. k \in bootstrapped
  BY <1>1, <1>3, SelectedIsAddressed DEF CheckedInv
<1>5. ~(v - 1 >= Cardinality(Keys))
  BY <1>1, <1>2, KeysFinite
<1>. QED
  BY <1>3, <1>4, <1>5 DEF SignAnswer, Addressed, CheckedInv

\* While the process that setup() looked at lives, every virtual user of the
\* test is signed for, whichever keys are set.
THEOREM ChecksHold == Spec => []CheckedUsersAreSigned
<1>1. Init => CheckedInv
  BY TypeInit DEF Init, CheckedInv
<1>. QED
  BY <1>1, CheckedStep, CheckedIsSigned, PTL DEF Spec

-----------------------------------------------------------------------------
(* Wallets.                                                                *)

\* A user holds permits of the wallet that is addressed to it.
OwnWallet ==
    TypeOK /\ \A v \in Users : permit[v] # NoPermit => Addressed(v, permit[v])

\* Only /sign-permit2 gives a user a permit.
LEMMA PermitsAreSigned ==
    ASSUME TypeOK, [Next]_vars, NEW v \in Users, permit'[v] # NoPermit
    PROVE  permit'[v] = permit[v] \/ Addressed(v, permit'[v])
<1>1. CASE UNCHANGED permit
  BY <1>1
<1>2. ASSUME NEW w \in Users, Sign(w)
      PROVE  permit'[v] = permit[v] \/ Addressed(v, permit'[v])
  <2>1. PICK k \in bootstrapped :
            Addressed(w, k) /\ permit' = [permit EXCEPT ![w] = k]
    BY <1>2 DEF Sign
  <2>2. CASE v = w
    BY <2>1, <2>2 DEF TypeOK
  <2>3. CASE v # w
    BY <2>1, <2>3 DEF TypeOK
  <2>. QED
    BY <2>2, <2>3
<1>3. ASSUME NEW w \in Users, Pay(w) PROVE permit'[v] = permit[v]
  BY <1>3 DEF Pay, TypeOK
<1>4. ~EndTest
  BY DEF EndTest
<1>5. ASSUME NEW k \in Keys, TopUp(k) \/ Mine(k) \/ Boot(k)
      PROVE  UNCHANGED permit
  BY <1>5 DEF TopUp, Mine, Boot, CheckAllowance, SendApproval, AwaitReceipt
<1>. QED
  BY <1>1, <1>2, <1>3, <1>4, <1>5
     DEF Next, RpcFails, RpcReturns, Connect, EndBootstrap, Tick, Terminate,
         Kill, Crash, OperatorRestarts, StartTest, CheckHealth, CheckWallets,
         vars

\* Each virtual user pays from a wallet of its own, whichever keys are set,
\* however many users there are, and whatever wallets the restarts of the
\* signer between two signatures leave usable.
THEOREM OneWalletPerUser == Spec => []UsersShareNothing
<1>1. Init => OwnWallet
  BY TypeInit DEF Init, OwnWallet
<1>2. OwnWallet /\ [Next]_vars => OwnWallet'
  BY TypeStep, PermitsAreSigned DEF OwnWallet, Addressed, Position
<1>3. OwnWallet => UsersShareNothing
  <2>. SUFFICES ASSUME OwnWallet, NEW v \in Users, NEW w \in Users,
                       v # w, permit[v] # NoPermit, permit[v] = permit[w]
                PROVE  FALSE
    BY DEF UsersShareNothing
  <2>1. v \in Nat /\ w \in Nat
    BY SignerAssumption DEF Users
  <2>2. /\ Position(permit[v]) = v - 1
        /\ Position(permit[w]) = w - 1
    BY DEF OwnWallet, Addressed
  <2>. QED
    BY <2>1, <2>2
<1>. QED
  BY <1>1, <1>2, <1>3, PTL DEF Spec

=============================================================================
