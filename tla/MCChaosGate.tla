---------------------------- MODULE MCChaosGate ----------------------------
(* Instances of ChaosGate for TLC. *)
EXTENDS ChaosGate

\* One of two pods has answered 500 before.
OnePod == {<<"500", "a1">>}
=============================================================================
