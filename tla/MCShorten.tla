----------------------------- MODULE MCShorten -----------------------------
(* Instances of Shorten for TLC. *)
EXTENDS Shorten, TLC

\* Exceptions asyncpg raises while Postgres is killed, absent or starting:
\* the last one is not in the except tuple of the handler.
MCPgErrors == {"PostgresConnectionError", "OperatorInterventionError"}

Symmetry ==
    Permutations(Clients) \cup Permutations(Pods) \cup Permutations(Urls)
        \cup Permutations(Codes) \cup Permutations(Payments)

=============================================================================
