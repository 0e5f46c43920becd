---------------------------- MODULE Facilitator ----------------------------
(***************************************************************************)
(* The x402 facilitator and the chain behind it, as app/payment.py and     *)
(* app/main.py see them: two HTTPS endpoints, /verify and /settle.  None   *)
(* of it is code of this repository; every definition is external and     *)
(* states what the app may be answered.                                    *)
(*                                                                         *)
(* A payment is one signed Permit2 authorisation (payload + signature).    *)
(* The permit carries a nonce, so a payment moves money at most once and   *)
(* its settlement has one transaction hash: the payment itself stands for  *)
(* that hash.                                                              *)
(***************************************************************************)
CONSTANTS
    Payments,          \* signed payments a client may attach to a request
    SettledVerdicts,   \* what isValid may be for a payment that is settled
    DeadlinesPass      \* the 300 s deadline of a permit may pass

\* The repository says two things of SettledVerdicts: TRUE, or the retry of
\* main.py:386 and the replay signal of main.py:442 would not be reached;
\* FALSE, since /verify checks that the nonce is unused (x402-migration.md:79).
ASSUME FacilitatorAssumption ==
    /\ SettledVerdicts \in (SUBSET BOOLEAN) \ {{}}
    /\ DeadlinesPass \in BOOLEAN

VARIABLES
    settled,   \* payments whose transfer is on the chain
    expired    \* payments whose deadline has passed

facilitatorVars == <<settled, expired>>

FacilitatorTypeOK ==
    /\ settled \subseteq Payments
    /\ expired \subseteq Payments

FacilitatorInit ==
    /\ settled = {}
    /\ expired = {}

\* /verify answers isValid = true: the deadline is in the future and the
\* nonce unused, unless the endpoint recognises a settled payment.
MayVerify(p) ==
    /\ p \notin expired
    /\ p \in settled => TRUE \in SettledVerdicts

\* /verify answers isValid = false: one of the above fails, or the payer's
\* balance or allowance does not cover a transfer still to be made.
MayRejectVerify(p) ==
    \/ p \notin settled
    \/ p \in expired
    \/ FALSE \in SettledVerdicts

\* /settle answers success: a settled payment is answered from the
\* idempotency cache, any other is transferred on the chain now.
MaySettle(p) == p \in settled \/ p \notin expired

\* The transfer of p.
Transfer(p) ==
    /\ settled' = settled \cup {p}
    /\ UNCHANGED expired

\* The deadline of a permit passes.
Expire(p) ==
    /\ DeadlinesPass
    /\ p \notin expired
    /\ expired' = expired \cup {p}
    /\ UNCHANGED settled

=============================================================================
