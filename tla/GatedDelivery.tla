--------------------------- MODULE GatedDelivery ---------------------------
(***************************************************************************)
(* What the promotion pipeline promises: an environment only ever runs     *)
(* freight that passed in the environment before it, and only what runs in *)
(* an environment can pass there.                                          *)
(***************************************************************************)
EXTENDS Naturals

CONSTANTS Freights, NoFreight

VARIABLES
    live,    \* what each environment runs
    passed   \* what has passed each environment's verification

Stages == {"dev", "staging", "prod"}

Upstream == [s \in {"staging", "prod"} |-> IF s = "staging" THEN "dev" ELSE "staging"]

Init ==
    /\ live = [s \in Stages |-> NoFreight]
    /\ passed = [s \in Stages |-> {}]

\* Freight arrives in an environment.
Deliver(s) ==
    /\ \E f \in Freights :
          /\ s \in DOMAIN Upstream => f \in passed[Upstream[s]]
          /\ live' = [live EXCEPT ![s] = f]
    /\ UNCHANGED passed

\* What runs in an environment passes there.
Pass(s) ==
    /\ live[s] # NoFreight
    /\ passed' = [passed EXCEPT ![s] = @ \cup {live[s]}]
    /\ UNCHANGED live

Next == \E s \in Stages : Deliver(s) \/ Pass(s)

Spec == Init /\ [][Next]_<<live, passed>>

=============================================================================
