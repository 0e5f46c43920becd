------------------------------ MODULE Redirect ------------------------------
(***************************************************************************)
(* GET /<code> (app/main.py, redirect_url), served beside POST /shorten by *)
(* the same replicas, over the same table, cache and pools.  Shorten is    *)
(* extended: its steps are steps here too, and the crashes and the bound   *)
(* of the pool concern the handlers of both.                               *)
(*                                                                         *)
(* One visitor stands for one open connection.                             *)
(***************************************************************************)
EXTENDS Shorten

CONSTANTS Visitors

VARIABLES visit   \* handler state and last answer of each visitor

redirectVars == <<vars, visit>>

Visit ==
    [pc     : {"idle", "acquire", "select", "setex"},
     pod    : Pods,
     code   : Codes,
     url    : Urls \cup {NoUrl},   \* where the answer leads
     alive  : BOOLEAN,             \* the acquired connection is usable
     known  : BOOLEAN,             \* the code had a row when the visit began
     status : {"none", "302", "404", "500", "503", "lost"}]

VisitsTypeOK == visit \in [Visitors -> Visit]

RedirectInit ==
    /\ Init
    /\ visit \in [Visitors -> [pc : {"idle"}, pod : Pods, code : Codes,
                               url : {NoUrl}, alive : {TRUE},
                               known : {FALSE}, status : {"none"}]]

-----------------------------------------------------------------------------
(* The pool, shared by both kinds of handlers.                             *)

Borrowed(p) ==
    InUse(p) + Cardinality({v \in Visitors : visit[v].pod = p
                                             /\ visit[v].pc = "select"})

ConnectionFree(p) == Borrowed(p) < PoolMax

\* A step of POST /shorten.
PaidStep(c) ==
    /\ At(c, "acquire") => ConnectionFree(req[c].pod)
    /\ Ask(c) \/ Retry(c) \/ Handler(c)
    /\ UNCHANGED visit

-----------------------------------------------------------------------------
(* GET /<code>.                                                            *)

AtVisit(v, pc) == visit[v].pc = pc

\* Answer the visitor; the connection, if any, is back in the pool.
Reply(v, status, url) ==
    visit' = [visit EXCEPT ![v] =
                 [@ EXCEPT !.pc = "idle", !.status = status, !.url = url,
                           !.alive = TRUE]]

\* Redis is asked first: a hit is the answer.  On a miss, an error or no
\* client at all, Postgres is next, if this replica has a pool.
Arrives(v, p, k, pc, status, url) ==
    visit' = [visit EXCEPT ![v] =
                 [pc |-> pc, pod |-> p, code |-> k, url |-> url,
                  alive |-> TRUE, known |-> \E r \in rows : r.code = k,
                  status |-> status]]

Get(v, p, k) ==
    /\ AtVisit(v, "idle")
    /\ \/ cache[k] # NoUrl /\ Arrives(v, p, k, "idle", "302", cache[k])
       \/ p \in pooled /\ Arrives(v, p, k, "acquire", "none", NoUrl)
       \/ p \notin pooled /\ Arrives(v, p, k, "idle", "503", NoUrl)
    /\ UNCHANGED vars

Borrow(v) ==
    /\ AtVisit(v, "acquire")
    /\ pgUp
    /\ ConnectionFree(visit[v].pod)
    /\ visit' = [visit EXCEPT ![v].pc = "select"]
    /\ UNCHANGED vars

\* Mutated Fetch: the row is looked up by something else than the code.
FetchAnyRow(v) ==
    /\ AtVisit(v, "select")
    /\ pgUp /\ visit[v].alive
    /\ IF rows # {}
       THEN \E r \in rows : visit' = [visit EXCEPT ![v] =
               [@ EXCEPT !.pc = "setex", !.url = r.url, !.alive = TRUE]]
       ELSE Reply(v, "404", NoUrl)
    /\ UNCHANGED vars

\* Mutated Fetch: the code itself is taken for the target.
FetchCode(v) ==
    /\ AtVisit(v, "select")
    /\ pgUp /\ visit[v].alive
    /\ \E r \in rows : visit' = [visit EXCEPT ![v] =
          [@ EXCEPT !.pc = "setex", !.url = r.code, !.alive = TRUE]]
    /\ UNCHANGED vars

\* SELECT url FROM urls WHERE code = $1; the connection is released before
\* the cache is filled.
Fetch(v) ==
    /\ AtVisit(v, "select")
    /\ pgUp /\ visit[v].alive
    /\ \/ \E r \in rows :
             /\ r.code = visit[v].code
             /\ visit' = [visit EXCEPT ![v] =
                   [@ EXCEPT !.pc = "setex", !.url = r.url, !.alive = TRUE]]
       \/ /\ \A r \in rows : r.code # visit[v].code
          /\ Reply(v, "404", NoUrl)
    /\ UNCHANGED vars

\* Best-effort SETEX, then 302.
Fill(v) ==
    /\ AtVisit(v, "setex")
    /\ \/ cache' = [cache EXCEPT ![visit[v].code] = visit[v].url]
       \/ UNCHANGED cache
    /\ Reply(v, "302", visit[v].url)
    /\ UNCHANGED <<facilitatorVars, req, rows, worldVars>>

\* Mutated FetchFails: an error is noticed only while Postgres is away.
FetchFailsOnlyWhileDown(v) ==
    /\ visit[v].pc \in {"acquire", "select"}
    /\ ~pgUp
    /\ Reply(v, "500", NoUrl)
    /\ UNCHANGED vars

\* Mutated FetchFails: an error is taken for a missing row.
FetchFailsAsMissing(v) ==
    /\ visit[v].pc \in {"acquire", "select"}
    /\ AtVisit(v, "acquire") => ConnectionFree(visit[v].pod)
    /\ Reply(v, "404", NoUrl)
    /\ UNCHANGED vars

\* acquire() or the SELECT raises; nothing catches it.
FetchFails(v) ==
    /\ visit[v].pc \in {"acquire", "select"}
    /\ AtVisit(v, "acquire") => ConnectionFree(visit[v].pod)
    /\ Reply(v, "500", NoUrl)
    /\ UNCHANGED vars

VisitStep(v) == Borrow(v) \/ Fetch(v) \/ Fill(v) \/ FetchFails(v)

-----------------------------------------------------------------------------
(* Crashes reach the handlers of both endpoints.                           *)

PostgresCrashes ==
    /\ PostgresCrash
    /\ visit' = [v \in Visitors |->
                    [visit[v] EXCEPT !.alive = @ /\ ~AtVisit(v, "select")]]

PodCrashes(p) ==
    /\ PodCrash(p)
    /\ visit' = [v \in Visitors |->
                    IF visit[v].pod = p /\ visit[v].pc # "idle"
                    THEN [visit[v] EXCEPT !.pc = "idle", !.status = "lost",
                                          !.url = NoUrl, !.alive = TRUE]
                    ELSE visit[v]]

Elsewhere ==
    /\ \/ PostgresRestart
       \/ \E p \in Pods : Connect(p)
       \/ \E k \in Codes : Forget(k)
       \/ \E p \in Payments : DeadlinePasses(p)
    /\ UNCHANGED visit

RedirectNext ==
    \/ \E c \in Clients : PaidStep(c)
    \/ \E v \in Visitors :
          \/ \E p \in Pods, k \in Codes : Get(v, p, k)
          \/ VisitStep(v)
    \/ PostgresCrashes
    \/ \E p \in Pods : PodCrashes(p)
    \/ Elsewhere

RedirectSpec == RedirectInit /\ [][RedirectNext]_redirectVars

\* A coroutine that can continue does (the event loop is fair); waiters of
\* the pool are served in turn; Postgres comes back and a replica without a
\* pool rebuilds it; a persistent client does send its request again; Postgres
\* and the facilitator, called again and again, do at some point answer it.
RedirectFairSpec ==
    /\ RedirectSpec
    /\ WF_redirectVars(Elsewhere /\ PostgresRestart)
    /\ \A p \in Pods : WF_redirectVars(Elsewhere /\ Connect(p))
    /\ \A c \in Clients :
          /\ WF_redirectVars(PaidStep(c) /\ Handler(c))
          /\ SF_redirectVars(PaidStep(c) /\ Acquire(c))
    /\ \A c \in Persistent :
          /\ WF_redirectVars(PaidStep(c) /\ Retry(c))
          /\ SF_redirectVars(PaidStep(c) /\ Select(c))
          /\ SF_redirectVars(PaidStep(c)
                                /\ (VerifyAccepts(c) \/ VerifyRejects(c)))
          /\ SF_redirectVars(PaidStep(c)
                                /\ (SettleSucceeds(c) \/ SettleFails(c)))
          /\ SF_redirectVars(PaidStep(c) /\ Insert(c))
    /\ \A v \in Visitors :
          /\ WF_redirectVars(VisitStep(v))
          /\ SF_redirectVars(Borrow(v))

-----------------------------------------------------------------------------
(* Properties.                                                             *)

\* A redirect leads where the table says, and so does the URL about to be
\* cached, whichever of Redis and Postgres it was read from and whatever was
\* stored, evicted or refilled meanwhile.
RedirectsFollowTable ==
    \A v \in Visitors :
        visit[v].url # NoUrl =>
            \E r \in rows : r.code = visit[v].code /\ r.url = visit[v].url

\* A code that had a row when the visit began is not answered 404: in
\* particular no code that a client was given by POST /shorten before.
KnownCodesAreFound ==
    \A v \in Visitors : visit[v].status = "404" => ~visit[v].known

\* Every visit is answered or its replica dies, although paid writes hold
\* connections of the same pool while they wait for the facilitator.
EveryVisitEnds ==
    \A v \in Visitors : visit[v].pc # "idle" ~> visit[v].pc = "idle"

=============================================================================
