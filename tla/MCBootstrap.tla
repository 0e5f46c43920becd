---------------------------- MODULE MCBootstrap ----------------------------
(* Instances of Bootstrap and Promotion for TLC. *)
EXTENDS Bootstrap

=============================================================================
