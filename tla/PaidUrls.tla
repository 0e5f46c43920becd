------------------------------ MODULE PaidUrls ------------------------------
(***************************************************************************)
(* What POST /shorten promises, with no handlers, replicas or outages:     *)
(* a registry of short URLs in which every entry, once made, is permanent, *)
(* its URL, its code and its payment belong to no other entry, and the     *)
(* payment was settled before the entry was made.                          *)
(***************************************************************************)
CONSTANTS Urls, Codes, Payments, NoPayment, PaymentEnabled

VARIABLES
    paid,      \* payments that have been settled
    registry   \* entries [code, url, tx]

vars == <<paid, registry>>

Init ==
    /\ paid = {}
    /\ registry = {}

Pay(p) ==
    /\ paid' = paid \cup {p}
    /\ UNCHANGED registry

\* Enter url u under code k for payment t (none when payments are off).
Register(k, u, t) ==
    /\ IF PaymentEnabled THEN t \in paid ELSE t = NoPayment
    /\ \A e \in registry : e.url # u /\ e.code # k
    /\ t # NoPayment => \A e \in registry : e.tx # t
    /\ registry' = registry \cup {[code |-> k, url |-> u, tx |-> t]}
    /\ UNCHANGED paid

Next ==
    \/ \E p \in Payments : Pay(p)
    \/ \E k \in Codes, u \in Urls, t \in Payments \cup {NoPayment} :
          Register(k, u, t)

Spec == Init /\ [][Next]_vars

=============================================================================
