------------------------------- MODULE Signer -------------------------------
(***************************************************************************)
(* The signer (signer/main.py, permit2.py) and the load test that pays     *)
(* with its wallets (kubernetes/jobs/scripts/loadgen.js).                  *)
(*                                                                         *)
(* The approvals run while the module is imported, before the server       *)
(* listens, so the liveness probe counts against them.  Time passes in     *)
(* units of 10 seconds, and only while the boot waits: for a receipt, or   *)
(* for an RPC node that does not answer.                                   *)
(***************************************************************************)
EXTENDS FiniteSets, Integers

CONSTANTS
    Keys,            \* the i for which WALLET_KEY_i is set
    VUS,             \* virtual users of the load test
    ReceiptTimeout,  \* APPROVAL_TX_TIMEOUT_S, 60 s
    LivenessAge,     \* the third liveness probe that fails: 10 + 2 * 20 s
    ProbePeriod,     \* its phase is free: it may fall one period later
    Grace,           \* from SIGTERM to SIGKILL, 30 s
    MaxQueue,        \* pending approvals of a wallet that are told apart
    MaxFaults        \* bound on outages, crashes, reverts and lost answers

ASSUME SignerAssumption ==
    /\ Keys \subseteq 1 .. 3
    /\ VUS \in Nat \ {0}
    /\ ReceiptTimeout \in Nat \ {0}
    /\ LivenessAge \in Nat \ {0}
    /\ ProbePeriod \in Nat
    /\ Grace \in Nat
    /\ MaxQueue \in Nat \ {0}
    /\ MaxFaults \in Nat

VARIABLES
    up,            \* the RPC node answers
    faults,        \* faults so far
    funded,        \* wallets that can pay the gas of an approval
    approved,      \* wallets whose allowance for Permit2 is on the chain
    queue,         \* approvals of a wallet that are not mined yet
    receipt,       \* status of the approval of a wallet mined last
    pc,            \* where the signer's process is
    todo,          \* wallets _bootstrap has not come to
    bootstrapped,  \* slot.bootstrapped
    waited,        \* how long the receipt has been waited for
    age,           \* how long the container has been booting
    killAt,        \* the age at which it is killed; 0 before the SIGTERM
    run,           \* where the load test is
    checked,       \* the process is the one the test's setup() looked at
    permit         \* whose wallet signed the permit a virtual user holds

chain == <<funded, approved, queue, receipt>>
boot == <<todo, bootstrapped, waited>>
container == <<age, killAt>>
vars == <<up, faults, chain, pc, boot, container, run, checked, permit>>

Users == 1 .. VUS
NoPermit == 0
MaxAge == LivenessAge + ProbePeriod + Grace

TypeOK ==
    /\ up \in BOOLEAN
    /\ faults \in 0 .. MaxFaults
    /\ funded \subseteq Keys
    /\ approved \subseteq Keys
    /\ queue \in [Keys -> 0 .. MaxQueue]
    /\ receipt \in [Keys -> {"none", "ok", "reverted"}]
    /\ pc \in {"connect", "loop", "send", "wait", "serving"}
    /\ todo \subseteq Keys
    /\ pc \in {"send", "wait"} => todo # {}
    /\ bootstrapped \subseteq Keys
    /\ waited \in 0 .. ReceiptTimeout
    /\ age \in 0 .. MaxAge
    /\ killAt \in 0 .. MaxAge
    /\ killAt = 0 => age <= LivenessAge + ProbePeriod
    /\ run \in {"idle", "health", "wallets", "running", "failed"}
    /\ checked \in BOOLEAN
    /\ permit \in [Users -> Keys \cup {NoPermit}]

Init ==
    /\ up \in BOOLEAN
    /\ faults = 0
    /\ funded \in SUBSET Keys
    /\ approved \in SUBSET Keys
    /\ queue = [k \in Keys |-> 0]
    /\ receipt = [k \in Keys |-> "none"]
    /\ pc = "connect"
    /\ todo = {}
    /\ bootstrapped = {}
    /\ waited = 0
    /\ age = 0
    /\ killAt = 0
    /\ run = "idle"
    /\ checked = FALSE
    /\ permit = [v \in Users |-> NoPermit]

Serving == pc = "serving"

Fault == faults < MaxFaults /\ faults' = faults + 1

\* The process ends and the kubelet starts the container again.
StartAgain ==
    /\ pc' = "connect"
    /\ todo' = {}
    /\ bootstrapped' = {}
    /\ waited' = 0
    /\ age' = 0
    /\ killAt' = 0
    /\ checked' = FALSE

-----------------------------------------------------------------------------
(* The RPC node and the chain (external).                                  *)

RpcFails ==
    /\ up /\ Fault
    /\ up' = FALSE
    /\ UNCHANGED <<chain, pc, boot, container, run, checked, permit>>

RpcReturns ==
    /\ ~up
    /\ up' = TRUE
    /\ UNCHANGED <<faults, chain, pc, boot, container, run, checked, permit>>

\* Somebody sends gas money to the wallet.
TopUp(k) ==
    /\ k \notin funded
    /\ funded' = funded \cup {k}
    /\ UNCHANGED <<up, faults, approved, queue, receipt, pc, boot, container,
                   run, checked, permit>>

\* The oldest approval of the wallet is mined; it may revert.
Mine(k) ==
    /\ queue[k] > 0
    /\ queue' = [queue EXCEPT ![k] = @ - 1]
    /\ \/ /\ approved' = approved \cup {k}
          /\ receipt' = [receipt EXCEPT ![k] = "ok"]
          /\ UNCHANGED faults
       \/ /\ Fault
          /\ receipt' = [receipt EXCEPT ![k] = "reverted"]
          /\ UNCHANGED approved
    /\ UNCHANGED <<up, funded, pc, boot, container, run, checked, permit>>

\* Mutated Enqueue: the queue has no bound.
EnqueueUnbounded(k) == queue' = [queue EXCEPT ![k] = @ + 1]

\* The node queues another approval of the wallet.
Enqueue(k) ==
    queue' = [queue EXCEPT ![k] = IF @ < MaxQueue THEN @ + 1 ELSE @]

-----------------------------------------------------------------------------
(* The boot: _build_web3, _build_wallets, _bootstrap.                      *)

\* The wallet the loop is at: the list is built in the order of the keys.
Current(k) == k \in todo /\ \A j \in todo : k <= j

NextWallet(k) ==
    /\ todo' = todo \ {k}
    /\ pc' = "loop"
    /\ waited' = 0

\* The exception is logged and the loop goes on.
WalletFails(k) == NextWallet(k) /\ UNCHANGED bootstrapped

WalletReady(k) == NextWallet(k) /\ bootstrapped' = bootstrapped \cup {k}

\* Without a node or without a key the import raises.
Connect ==
    /\ pc = "connect"
    /\ IF up /\ Keys # {}
       THEN /\ pc' = "loop" /\ todo' = Keys
            /\ UNCHANGED <<bootstrapped, waited, container, checked>>
       ELSE StartAgain
    /\ UNCHANGED <<up, faults, chain, run, permit>>

\* Mutated CheckAllowance: the approval is sent at every boot.
CheckAllowanceAlwaysApproving(k) ==
    /\ pc = "loop" /\ Current(k)
    /\ \/ ~up /\ WalletFails(k)
       \/ up /\ pc' = "send" /\ UNCHANGED boot
    /\ UNCHANGED <<up, faults, chain, container, run, checked, permit>>

\* The balance and the allowance are read.
CheckAllowance(k) ==
    /\ pc = "loop" /\ Current(k)
    /\ \/ ~up /\ WalletFails(k)
       \/ up /\ k \in approved /\ WalletReady(k)
       \/ up /\ k \notin approved /\ pc' = "send" /\ UNCHANGED boot
    /\ UNCHANGED <<up, faults, chain, container, run, checked, permit>>

\* A node that fails just after it took the transaction leaves it queued.
SendApproval(k) ==
    /\ pc = "send" /\ Current(k)
    /\ \/ /\ ~up \/ k \notin funded
          /\ WalletFails(k)
          /\ UNCHANGED <<faults, queue>>
       \/ /\ up /\ k \in funded
          /\ Enqueue(k)
          /\ \/ pc' = "wait" /\ UNCHANGED <<faults, boot>>
             \/ Fault /\ WalletFails(k)
    /\ UNCHANGED <<up, funded, approved, receipt, container, run, checked,
                   permit>>

\* Mutated AwaitReceipt: the status of the receipt is not looked at.
AwaitReceiptOfAnyStatus(k) ==
    /\ pc = "wait" /\ Current(k)
    /\ \/ ~up /\ WalletFails(k)
       \/ waited = ReceiptTimeout /\ queue[k] > 0 /\ WalletFails(k)
       \/ up /\ queue[k] = 0 /\ WalletReady(k)
    /\ UNCHANGED <<up, faults, chain, container, run, checked, permit>>

\* The approval sent last is mined when the wallet's queue is empty.
AwaitReceipt(k) ==
    /\ pc = "wait" /\ Current(k)
    /\ \/ ~up /\ WalletFails(k)
       \/ waited = ReceiptTimeout /\ queue[k] > 0 /\ WalletFails(k)
       \/ up /\ queue[k] = 0 /\ receipt[k] = "ok" /\ WalletReady(k)
       \/ up /\ queue[k] = 0 /\ receipt[k] = "reverted" /\ WalletFails(k)
    /\ UNCHANGED <<up, faults, chain, container, run, checked, permit>>

\* Without a usable wallet the import raises.  A server that was told to end
\* during the import ends as soon as it has started.
EndBootstrap ==
    /\ pc = "loop" /\ todo = {}
    /\ IF bootstrapped # {} /\ killAt = 0
       THEN /\ pc' = "serving" /\ age' = 0
            /\ UNCHANGED <<boot, killAt, checked>>
       ELSE StartAgain
    /\ UNCHANGED <<up, faults, chain, run, permit>>

-----------------------------------------------------------------------------
(* The kubelet, crashes and the operator.                                  *)

\* The boot waits: for a receipt, or for a node that does not answer.
Waiting ==
    \/ pc = "wait" /\ waited < ReceiptTimeout
                   /\ \E k \in Keys : Current(k) /\ queue[k] > 0
    \/ ~Serving /\ ~up

Tick ==
    /\ Waiting
    /\ IF killAt = 0 THEN age < LivenessAge + ProbePeriod ELSE age < killAt
    /\ age' = age + 1
    /\ waited' = IF pc = "wait" /\ waited < ReceiptTimeout THEN waited + 1
                 ELSE waited
    /\ UNCHANGED <<up, faults, chain, pc, todo, bootstrapped, killAt, run,
                   checked, permit>>

\* The third liveness probe in a row finds nobody listening: SIGTERM.  The
\* import goes on.
Terminate ==
    /\ ~Serving
    /\ killAt = 0
    /\ age >= LivenessAge
    /\ killAt' = age + Grace
    /\ UNCHANGED <<up, faults, chain, pc, boot, age, run, checked, permit>>

\* SIGKILL at the end of the grace period.
Kill ==
    /\ killAt > 0
    /\ age = killAt
    /\ StartAgain
    /\ UNCHANGED <<up, faults, chain, run, permit>>

Crash ==
    /\ Fault
    /\ StartAgain
    /\ UNCHANGED <<up, chain, run, permit>>

\* "restart pod to retry approval": the operator does, once the wallet that
\* is refused has gas money.
OperatorRestarts ==
    /\ Serving
    /\ funded \ bootstrapped # {}
    /\ StartAgain
    /\ UNCHANGED <<up, faults, chain, run, permit>>

-----------------------------------------------------------------------------
(* /sign-permit2.                                                          *)

\* Mutated Position: the list holds the wallets that can sign.
PositionAmongUsable(k) == Cardinality({j \in bootstrapped : j < k})

\* _build_wallets skips the keys that are not set: where a key's wallet is in
\* the list.
Position(k) == Cardinality({j \in Keys : j < k})

\* Mutated Addressed: the wallet is found by the number of its key.
AddressedByKey(v, k) == k - 1 = v - 1

\* A virtual user sends its own number less one, and the signer takes it for
\* a position in its list.
Addressed(v, k) == Position(k) = v - 1

\* What /sign-permit2 answers a virtual user.
SignAnswer(v) ==
    IF ~Serving THEN "unreachable"
    ELSE IF v - 1 >= Cardinality(Keys) THEN "out of range"
    ELSE IF \E k \in bootstrapped : Addressed(v, k) THEN "signed"
    ELSE "not bootstrapped"

\* The permit's nonce is 256 random bits, so permits are told apart by their
\* wallets only.
Sign(v) ==
    /\ run = "running"
    /\ permit[v] = NoPermit
    /\ SignAnswer(v) = "signed"
    /\ \E k \in bootstrapped :
          Addressed(v, k) /\ permit' = [permit EXCEPT ![v] = k]
    /\ UNCHANGED <<up, faults, chain, pc, boot, container, run, checked>>

-----------------------------------------------------------------------------
(* The load test: setup() and the virtual users.                           *)

StartTest ==
    /\ run = "idle"
    /\ run' = "health"
    /\ UNCHANGED <<up, faults, chain, pc, boot, container, checked, permit>>

\* /health of the signer counts the wallets.  The test also fails if the
\* app's /health, which is asked first, is not 200.
CheckHealth ==
    /\ run = "health"
    /\ \/ /\ Serving /\ Cardinality(bootstrapped) >= VUS
          /\ run' = "wallets"
       \/ run' = "failed"
    /\ UNCHANGED <<up, faults, chain, pc, boot, container, checked, permit>>

\* Of the wallets in the order of their wallet_index, the first VUS.
Selected == {k \in Keys : Cardinality({j \in Keys : j - 1 < k - 1}) < VUS}

\* /wallets reads every allowance and balance from the node; setup() looks
\* at the wallets it selects.  The test also fails if one of them has too
\* little of the token.
CheckWallets ==
    /\ run = "wallets"
    /\ \/ /\ Serving /\ up /\ Selected \subseteq bootstrapped \cap approved
          /\ run' = "running" /\ checked' = TRUE
       \/ run' = "failed" /\ UNCHANGED checked
    /\ UNCHANGED <<up, faults, chain, pc, boot, container, permit>>

\* POST /shorten with the permit, which is settled or lost.
Pay(v) ==
    /\ permit[v] # NoPermit
    /\ permit' = [permit EXCEPT ![v] = NoPermit]
    /\ UNCHANGED <<up, faults, chain, pc, boot, container, run, checked>>

EndTest ==
    /\ run \in {"running", "failed"}
    /\ run' = "idle"
    /\ checked' = FALSE
    /\ permit' = [v \in Users |-> NoPermit]
    /\ UNCHANGED <<up, faults, chain, pc, boot, container>>

-----------------------------------------------------------------------------

Boot(k) == CheckAllowance(k) \/ SendApproval(k) \/ AwaitReceipt(k)

Next ==
    \/ RpcFails \/ RpcReturns
    \/ \E k \in Keys : TopUp(k) \/ Mine(k) \/ Boot(k)
    \/ Connect \/ EndBootstrap
    \/ Tick \/ Terminate \/ Kill \/ Crash \/ OperatorRestarts
    \/ StartTest \/ CheckHealth \/ CheckWallets \/ EndTest
    \/ \E v \in Users : Sign(v) \/ Pay(v)

Spec == Init /\ [][Next]_vars

\* The process goes on, the kubelet does its work, the chain mines
\* approvals in the end, and the operator does restart.  Nobody has to fund
\* a wallet, to run a test or to bring the node back.
FairSpec ==
    /\ Spec
    /\ WF_vars(Connect) /\ WF_vars(EndBootstrap)
    /\ WF_vars(Tick) /\ WF_vars(Terminate) /\ WF_vars(Kill)
    /\ WF_vars(OperatorRestarts)
    /\ \A k \in Keys : WF_vars(Mine(k)) /\ WF_vars(Boot(k))

-----------------------------------------------------------------------------
(* Properties.                                                             *)

\* signer/main.py:140: whatever happened to the approvals of earlier boots,
\* to their receipts and to the node, a wallet the signer signs for has its
\* allowance on the chain.
BootstrappedIsApproved == bootstrapped \subseteq approved

\* loadgen.js:103 and main.py:252: setup() sorts the wallets by wallet_index
\* and the virtual users address them by position.  Also with a gap in the
\* keys each user of a test that has started is signed for, as long as the
\* process that setup() looked at lives.
CheckedUsersAreSigned ==
    run = "running" /\ checked => \A v \in Users : SignAnswer(v) = "signed"

\* "maxVUs == VUS so each VU maps to one signer wallet" (loadgen.js:58): no
\* two users ever hold permits of one wallet, so the payments of one never
\* use up what another one counts on, also when the signer restarts between
\* two signatures and other wallets are usable then.
UsersShareNothing ==
    \A v, w \in Users :
        v # w /\ permit[v] # NoPermit => permit[v] # permit[w]

\* A refused wallet is healed by restarts (main.py:266): once the node stays,
\* the boots that the liveness probe cuts short leave approvals behind, and in
\* the end the signer serves with every wallet that has gas money.
RestartsHeal ==
    <>[](up /\ funded # {}) => <>[](Serving /\ funded \subseteq bootstrapped)

=============================================================================
