------------------------------ MODULE MCSigner ------------------------------
(* Instances of Signer for TLC. *)
EXTENDS Signer

=============================================================================
