----------------------------- MODULE MCRedirect -----------------------------
(* Instances of Redirect for TLC. *)
EXTENDS Redirect, TLC

\* Exceptions asyncpg raises while Postgres is killed, absent or starting.
MCPgErrors == {"PostgresConnectionError", "OperatorInterventionError"}

Symmetry ==
    Permutations(Pods) \cup Permutations(Urls) \cup Permutations(Codes)
        \cup Permutations(Payments)

=============================================================================
