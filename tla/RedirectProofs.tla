--------------------------- MODULE RedirectProofs ---------------------------
(***************************************************************************)
(* Redirects agree with the table, for any number of visitors, clients,    *)
(* replicas, URLs, codes and payments.  A step of Redirect is a step of    *)
(* Shorten, leaves the state of Shorten alone, or fills the cache from a   *)
(* row: the invariant of Shorten is preserved by all three.                *)
(***************************************************************************)
EXTENDS Redirect, ShortenProofs

HasCode(k, u) == \E r \in rows : r.code = k /\ r.url = u

\* What a visit knows of its code stays true.
KnownHasRow ==
    \A v \in Visitors :
        visit[v].known => \E r \in rows : r.code = visit[v].code

RedirectInv ==
    /\ IInv
    /\ VisitsTypeOK
    /\ RedirectsFollowTable
    /\ KnownHasRow
    /\ KnownCodesAreFound

\* The invariant holds before the first visit.
LEMMA RedirectInvInit == RedirectInit => RedirectInv
<1>. SUFFICES ASSUME RedirectInit PROVE RedirectInv
  OBVIOUS
<1>1. IInv
  BY IInvInit DEF RedirectInit
<1>2. VisitsTypeOK
  BY DEF RedirectInit, VisitsTypeOK, Visit
<1>3. \A v \in Visitors : /\ visit[v].url = NoUrl
                         /\ visit[v].known = FALSE
                         /\ visit[v].status = "none"
  BY DEF RedirectInit
<1>. QED
  BY <1>1, <1>2, <1>3
     DEF RedirectInv, RedirectsFollowTable, KnownHasRow, KnownCodesAreFound

\* The fields of visits after an answer.
LEMMA ReplyFields ==
    ASSUME VisitsTypeOK, NEW v \in Visitors, NEW s, NEW u, Reply(v, s, u)
    PROVE  /\ \A w \in Visitors : w # v => visit'[w] = visit[w]
           /\ visit'[v].pc = "idle"
           /\ visit'[v].pod = visit[v].pod
           /\ visit'[v].status = s
           /\ visit'[v].url = u
           /\ visit'[v].code = visit[v].code
           /\ visit'[v].known = visit[v].known
BY DEF VisitsTypeOK, Visit, Reply

\* An answer keeps the type when its status and URL do.
LEMMA ReplyType ==
    ASSUME VisitsTypeOK, NEW v \in Visitors,
           NEW s \in {"none", "302", "404", "500", "503", "lost"},
           NEW u \in Urls \cup {NoUrl}, Reply(v, s, u)
    PROVE  VisitsTypeOK'
<1>. DEFINE answered == [visit[v] EXCEPT !.pc = "idle", !.status = s,
                                         !.url = u, !.alive = TRUE]
<1>1. visit[v] \in Visit
  BY DEF VisitsTypeOK
<1>2. answered \in Visit
  BY <1>1 DEF Visit
<1>3. visit' = [visit EXCEPT ![v] = answered]
  BY DEF Reply
<1>. QED
  BY <1>2, <1>3 DEF VisitsTypeOK

-----------------------------------------------------------------------------
(* Visits.                                                                 *)

VisitGood(v) ==
    /\ visit[v].url # NoUrl => HasCode(visit[v].code, visit[v].url)
    /\ visit[v].known => \E r \in rows : r.code = visit[v].code
    /\ visit[v].status = "404" => ~visit[v].known

VisitsGood == \A v \in Visitors : VisitGood(v)

\* VisitGood collects what the invariant says of one visit.
LEMMA VisitsGoodIs ==
    VisitsGood <=> RedirectsFollowTable /\ KnownHasRow /\ KnownCodesAreFound
BY DEF VisitsGood, VisitGood, HasCode, RedirectsFollowTable, KnownHasRow,
       KnownCodesAreFound

\* A visit that keeps its code, or gives up its URL, stays good while the
\* table grows.
LEMMA VisitKeeps ==
    ASSUME VisitsGood, NEW v \in Visitors, rows \subseteq rows',
           visit'[v].code = visit[v].code,
           visit'[v].known = visit[v].known,
           visit'[v].url = visit[v].url \/ visit'[v].url = NoUrl,
           visit'[v].status = "404" => visit[v].status = "404"
    PROVE  VisitGood(v)'
BY DEF VisitsGood, VisitGood, HasCode

\* A redirect that arrives takes its answer from the cache or has none yet.
LEMMA GetGood ==
    ASSUME TypeOK, VisitsTypeOK, CacheAgrees, VisitsGood,
           NEW v \in Visitors, NEW p \in Pods, NEW k \in Codes, Get(v, p, k)
    PROVE  VisitsTypeOK' /\ VisitsGood'
<1>1. PICK pc \in {"idle", "acquire"}, u \in Urls \cup {NoUrl},
           s \in {"none", "302", "503"} :
        /\ Arrives(v, p, k, pc, s, u)
        /\ u # NoUrl => u = cache[k]
  BY DEF Get, TypeOK
<1>2. rows' = rows
  BY DEF Get, vars
<1>. DEFINE known == \E r \in rows : r.code = k
<1>. DEFINE new == [pc |-> pc, pod |-> p, code |-> k, url |-> u, alive |-> TRUE,
                    known |-> known, status |-> s]
<1>3. visit' = [visit EXCEPT ![v] = new]
  BY <1>1 DEF Arrives
<1>4. known \in BOOLEAN
  OBVIOUS
<1>5. new \in Visit
  BY <1>4 DEF Visit
<1>6. VisitsTypeOK'
  BY <1>3, <1>5 DEF VisitsTypeOK
<1>7. ASSUME NEW w \in Visitors PROVE VisitGood(w)'
  <2>1. CASE w # v
    BY <2>1, <1>2, <1>3, VisitKeeps DEF VisitsTypeOK
  <2>2. CASE w = v
    <3>1. /\ visit'[w].url = u /\ visit'[w].code = k
          /\ visit'[w].known = known /\ visit'[w].status = s
      BY <2>2, <1>3 DEF VisitsTypeOK
    <3>2. u # NoUrl => HasCode(k, u)
      BY <1>1 DEF CacheAgrees, HasCode
    <3>. QED
      BY <3>1, <3>2, <1>2 DEF VisitGood, HasCode
  <2>. QED
    BY <2>1, <2>2
<1>. QED
  BY <1>6, <1>7 DEF VisitsGood

\* A redirect in progress reads the table, gives up, or answers the URL it
\* read.
LEMMA VisitStepGood ==
    ASSUME VisitsTypeOK, VisitsGood, NEW v \in Visitors, VisitStep(v),
           rows \subseteq Row
    PROVE  VisitsTypeOK' /\ VisitsGood'
<1>1. rows' = rows
  BY DEF VisitStep, Borrow, Fetch, Fill, FetchFails, vars
<1>2. CASE Borrow(v)
  <2>1. VisitsTypeOK'
    BY <1>2 DEF VisitsTypeOK, Visit, Borrow
  <2>2. \A w \in Visitors : VisitGood(w)'
    BY <1>1, <1>2, VisitKeeps DEF VisitsTypeOK, Visit, Borrow
  <2>. QED
    BY <2>1, <2>2 DEF VisitsGood
<1>3. CASE Fetch(v)
  <2>1. CASE \A r \in rows : r.code # visit[v].code
    <3>1. Reply(v, "404", NoUrl)
      BY <1>3, <2>1 DEF Fetch
    <3>2. ~visit[v].known
      BY <2>1 DEF VisitsGood, VisitGood
    <3>3. ASSUME NEW w \in Visitors PROVE VisitGood(w)'
      <4>1. CASE w # v
        BY <4>1, <1>1, <3>1, ReplyFields, VisitKeeps
      <4>2. CASE w = v
        BY <4>2, <3>1, <3>2, ReplyFields DEF VisitGood
      <4>. QED
        BY <4>1, <4>2
    <3>. QED
      BY <3>1, <3>3, ReplyType DEF VisitsGood
  <2>2. CASE \E r \in rows : r.code = visit[v].code
    <3>1. PICK r \in rows :
            /\ r.code = visit[v].code
            /\ visit' = [visit EXCEPT ![v] =
                  [@ EXCEPT !.pc = "setex", !.url = r.url, !.alive = TRUE]]
      BY <1>3, <2>2 DEF Fetch
    <3>. DEFINE new == [visit[v] EXCEPT !.pc = "setex", !.url = r.url,
                                        !.alive = TRUE]
    <3>2. r.url \in Urls
      BY DEF Row
    <3>3. visit[v] \in Visit
      BY DEF VisitsTypeOK
    <3>4. new \in Visit
      BY <3>2, <3>3 DEF Visit
    <3>5. visit' = [visit EXCEPT ![v] = new]
      BY <3>1
    <3>6. VisitsTypeOK'
      BY <3>4, <3>5 DEF VisitsTypeOK
    <3>7. /\ new.url = r.url
          /\ new.code = visit[v].code
          /\ new.known = visit[v].known
          /\ new.status = visit[v].status
      BY <3>3 DEF Visit
    <3>8. ASSUME NEW w \in Visitors PROVE VisitGood(w)'
      <4>1. CASE w # v
        BY <4>1, <1>1, <3>5, VisitKeeps DEF VisitsTypeOK
      <4>2. CASE w = v
        BY <4>2, <1>1, <3>1, <3>5, <3>7
           DEF VisitGood, VisitsGood, HasCode, VisitsTypeOK
      <4>. QED
        BY <4>1, <4>2
    <3>. QED
      BY <3>6, <3>8 DEF VisitsGood
  <2>. QED
    BY <2>1, <2>2
<1>4. CASE Fill(v)
  <2>1. Reply(v, "302", visit[v].url) /\ visit[v].url \in Urls \cup {NoUrl}
    BY <1>4 DEF Fill, VisitsTypeOK, Visit
  <2>2. \A w \in Visitors : VisitGood(w)'
    BY <2>1, <1>1, ReplyFields, VisitKeeps
  <2>. QED
    BY <2>1, <2>2, ReplyType DEF VisitsGood
<1>5. CASE FetchFails(v)
  <2>1. Reply(v, "500", NoUrl)
    BY <1>5 DEF FetchFails
  <2>2. \A w \in Visitors : VisitGood(w)'
    BY <2>1, <1>1, ReplyFields, VisitKeeps
  <2>. QED
    BY <2>1, <2>2, ReplyType DEF VisitsGood
<1>. QED
  BY <1>2, <1>3, <1>4, <1>5 DEF VisitStep

\* A crash takes answers away and changes none.
LEMMA CrashGood ==
    ASSUME VisitsTypeOK, VisitsGood,
           PostgresCrashes \/ \E p \in Pods : PodCrashes(p)
    PROVE  VisitsTypeOK' /\ VisitsGood'
<1>1. rows' = rows
  BY DEF PostgresCrashes, PodCrashes, PostgresCrash, PodCrash, storeVars
<1>2. ASSUME NEW w \in Visitors
      PROVE  /\ visit'[w] \in Visit
             /\ visit'[w].code = visit[w].code
             /\ visit'[w].known = visit[w].known
             /\ visit'[w].url = visit[w].url \/ visit'[w].url = NoUrl
             /\ visit'[w].status = "404" => visit[w].status = "404"
  <2>1. visit[w] \in Visit
    BY DEF VisitsTypeOK
  <2>2. CASE PostgresCrashes
    <3>1. visit'[w] = [visit[w] EXCEPT
                         !.alive = @ /\ ~AtVisit(w, "select")]
      BY <2>2 DEF PostgresCrashes
    <3>2. (visit[w].alive /\ ~AtVisit(w, "select")) \in BOOLEAN
      OBVIOUS
    <3>. QED
      BY <2>1, <3>1, <3>2 DEF Visit
  <2>3. ASSUME NEW p \in Pods, PodCrashes(p)
        PROVE  \/ visit'[w] = visit[w]
               \/ visit'[w] = [visit[w] EXCEPT !.pc = "idle", !.url = NoUrl,
                                  !.status = "lost", !.alive = TRUE]
    BY <2>3 DEF PodCrashes
  <2>. QED
    BY <2>1, <2>2, <2>3 DEF Visit
<1>3. VisitsTypeOK'
  <2>1. \E f : visit' = [w \in Visitors |-> f[w]]
    BY DEF PostgresCrashes, PodCrashes
  <2>. QED
    BY <1>2, <2>1 DEF VisitsTypeOK
<1>. QED
  BY <1>1, <1>2, <1>3, VisitKeeps DEF VisitsGood

-----------------------------------------------------------------------------
(* Theorems.                                                               *)

\* A step is one of Shorten, leaves its state alone, or fills the cache with
\* the URL a visit has read.
LEMMA ShortenPart ==
    ASSUME [RedirectNext]_redirectVars
    PROVE  [Next]_vars \/ \E v \in Visitors : Fill(v)
BY DEF RedirectNext, redirectVars, PaidStep, Get, VisitStep, Borrow, Fetch,
       FetchFails, PostgresCrashes, PodCrashes, Elsewhere, Next, Environment

\* Filling the cache from a row preserves the invariant of Shorten.
LEMMA FillStep ==
    ASSUME IInv, VisitsTypeOK, VisitsGood, NEW v \in Visitors, Fill(v)
    PROVE  IInv'
<1>1. /\ visit[v].code \in Codes /\ visit[v].url \in Urls \cup {NoUrl}
  BY DEF VisitsTypeOK, Visit
<1>2. UNCHANGED <<facilitatorVars, req, rows, worldVars>>
  BY DEF Fill
<1>3. \/ cache' = cache
      \/ cache' = [cache EXCEPT ![visit[v].code] = visit[v].url]
  BY DEF Fill
<1>4. TypeOK'
  BY <1>1, <1>2, <1>3
     DEF IInv, TypeOK, FacilitatorTypeOK, facilitatorVars, worldVars
<1>5. CacheAgrees'
  BY <1>1, <1>2, <1>3
     DEF IInv, TypeOK, CacheAgrees, VisitsGood, VisitGood, HasCode
<1>6. (HandlersOK /\ OwnSettlement /\ RowsArePaid /\ RowsAreUnique
         /\ ToldHasRow /\ DistinctCreators)'
  BY <1>2
     DEF IInv, HandlersOK, HandlerOK, OwnSettlement, RowsArePaid,
         RowsAreUnique, ToldHasRow, Told, Creates, HasRow, DistinctCreators,
         At, facilitatorVars
<1>. QED
  BY <1>4, <1>5, <1>6 DEF IInv

\* Every step of either endpoint preserves the invariant of both.
LEMMA RedirectInvStep ==
    RedirectInv /\ [RedirectNext]_redirectVars => RedirectInv'
<1>. SUFFICES ASSUME RedirectInv, [RedirectNext]_redirectVars
              PROVE  RedirectInv'
  OBVIOUS
<1>1. IInv /\ VisitsTypeOK /\ VisitsGood
  BY VisitsGoodIs DEF RedirectInv
<1>2. TypeOK /\ CacheAgrees /\ rows \subseteq Row
  BY <1>1 DEF IInv, TypeOK
<1>3. IInv'
  BY <1>1, ShortenPart, IInvStep, FillStep
<1>4. VisitsTypeOK' /\ VisitsGood' => RedirectInv'
  BY <1>3 DEF VisitsGood, VisitGood, HasCode, RedirectsFollowTable,
              KnownHasRow, KnownCodesAreFound, RedirectInv
<1>5. CASE UNCHANGED visit
  <2>1. rows \subseteq rows'
    BY ShortenPart, Growth DEF Fill
  <2>2. VisitsTypeOK' /\ \A w \in Visitors : VisitGood(w)'
    BY <1>1, <1>5, <2>1, VisitKeeps DEF VisitsTypeOK
  <2>. QED
    BY <1>4, <2>2 DEF VisitsGood
<1>6. CASE \E v \in Visitors, p \in Pods, k \in Codes : Get(v, p, k)
  BY <1>1, <1>2, <1>4, <1>6, GetGood
<1>7. CASE \E v \in Visitors : VisitStep(v)
  BY <1>1, <1>2, <1>4, <1>7, VisitStepGood
<1>8. CASE PostgresCrashes \/ \E p \in Pods : PodCrashes(p)
  BY <1>1, <1>4, <1>8, CrashGood
<1>. QED
  BY <1>5, <1>6, <1>7, <1>8
     DEF RedirectNext, redirectVars, PaidStep, Elsewhere

\* The invariant of both endpoints holds in every state.
THEOREM RedirectInductive == RedirectSpec => []RedirectInv
BY RedirectInvInit, RedirectInvStep, PTL DEF RedirectSpec

\* The records of the visits keep their type (redirect_url).
THEOREM VisitsAreTyped == RedirectSpec => []VisitsTypeOK
<1>1. RedirectInv => VisitsTypeOK
  BY DEF RedirectInv
<1>. QED
  BY <1>1, RedirectInductive, PTL

\* A redirect, cached or read, leads where the table says.
THEOREM RedirectsAgree == RedirectSpec => []RedirectsFollowTable
<1>1. RedirectInv => RedirectsFollowTable
  BY DEF RedirectInv
<1>. QED
  BY <1>1, RedirectInductive, PTL

\* A code that was in the table when a visit began is not answered 404.
THEOREM StoredCodesAreServed == RedirectSpec => []KnownCodesAreFound
<1>1. RedirectInv => KnownCodesAreFound
  BY DEF RedirectInv
<1>. QED
  BY <1>1, RedirectInductive, PTL

\* The cache agrees with the table although visits fill it too.
THEOREM CacheStaysRight == RedirectSpec => []CacheAgrees
<1>1. RedirectInv => CacheAgrees
  BY DEF RedirectInv, IInv
<1>. QED
  BY <1>1, RedirectInductive, PTL

-----------------------------------------------------------------------------
(* Paid writes beside visits.                                              *)

\* The table and the answers of POST /shorten are as sound beside visits, which
\* share its cache and its pools: paid rows, unique keys, durable answers and
\* one creator.
THEOREM AnswersStayDurable ==
    RedirectSpec => [](RowsArePaid /\ RowsAreUnique /\ AnsweredIsStored
                                   /\ OneCreator)
<1>1. IInv => RowsArePaid /\ RowsAreUnique
  BY DEF IInv
<1>2. IInv => AnsweredIsStored
  BY DEF IInv, AnsweredIsStored, ToldHasRow, Told, Creates, HasRow, At
<1>3. IInv => OneCreator
  BY DEF IInv, OneCreator, DistinctCreators, Creates, At
<1>4. RedirectInv => IInv
  BY DEF RedirectInv
<1>. QED
  BY <1>1, <1>2, <1>3, <1>4, RedirectInductive, PTL

\* Neither a visit nor its refill of the cache touches the table or the chain:
\* both endpoints together still implement the registry.
THEOREM TableStaysRegistry == RedirectSpec => ImplementsRegistry
<1>1. RedirectInit => Registry!Init
  BY RegistryInit DEF RedirectInit
<1>2. RedirectInv /\ [RedirectNext]_redirectVars
         => [Registry!Next]_(Registry!vars)
  <2>. SUFFICES ASSUME RedirectInv, [RedirectNext]_redirectVars
                PROVE  [Registry!Next]_(Registry!vars)
    OBVIOUS
  <2>1. TypeOK /\ HandlersOK
    BY DEF RedirectInv, IInv
  <2>2. ASSUME NEW v \in Visitors, Fill(v) PROVE UNCHANGED Registry!vars
    BY <2>2 DEF Fill, facilitatorVars, Registry!vars
  <2>. QED
    BY <2>1, <2>2, ShortenPart, RegistryStep
<1>. QED
  BY <1>1, <1>2, RedirectInductive, PTL
     DEF RedirectSpec, ImplementsRegistry, Registry!Spec

\* What the service is for: a short code that POST /shorten answered for a URL
\* leads every visitor it redirects to that URL, from whichever replica, from
\* the table or from the cache, before or after any crash.
ShortUrlsLeadBack ==
    \A c \in Clients, v \in Visitors :
        (/\ At(c, "idle") /\ req[c].status \in {"200", "201"}
         /\ visit[v].code = req[c].code /\ visit[v].url # NoUrl)
            => visit[v].url = req[c].url

\* A code leads wherever it has ever led: no two visitors of one code are sent
\* to different URLs.
OneTargetPerCode ==
    \A v, w \in Visitors :
        (/\ visit[v].code = visit[w].code
         /\ visit[v].url # NoUrl /\ visit[w].url # NoUrl)
            => visit[v].url = visit[w].url

\* POST and GET agree: answers are durable, redirects follow the table, and
\* the table has one URL per code.
THEOREM RoundTrip == RedirectSpec => [](ShortUrlsLeadBack /\ OneTargetPerCode)
<1>1. ASSUME RowsAreUnique, NEW r \in rows, NEW t \in rows, r.code = t.code
      PROVE  r.url = t.url
  BY <1>1 DEF RowsAreUnique
<1>2. RowsAreUnique /\ AnsweredIsStored /\ RedirectsFollowTable
         => ShortUrlsLeadBack
  <2>. SUFFICES ASSUME RowsAreUnique, AnsweredIsStored, RedirectsFollowTable,
                       NEW c \in Clients, NEW v \in Visitors,
                       At(c, "idle"), req[c].status \in {"200", "201"},
                       visit[v].code = req[c].code, visit[v].url # NoUrl
                PROVE  visit[v].url = req[c].url
    BY DEF ShortUrlsLeadBack
  <2>1. PICK r \in rows : r.url = req[c].url /\ r.code = req[c].code
    BY DEF AnsweredIsStored
  <2>2. PICK t \in rows : t.code = visit[v].code /\ t.url = visit[v].url
    BY DEF RedirectsFollowTable
  <2>. QED
    BY <1>1, <2>1, <2>2
<1>3. RowsAreUnique /\ RedirectsFollowTable => OneTargetPerCode
  <2>. SUFFICES ASSUME RowsAreUnique, RedirectsFollowTable,
                       NEW v \in Visitors, NEW w \in Visitors,
                       visit[v].code = visit[w].code,
                       visit[v].url # NoUrl, visit[w].url # NoUrl
                PROVE  visit[v].url = visit[w].url
    BY DEF OneTargetPerCode
  <2>1. PICK r \in rows : r.code = visit[v].code /\ r.url = visit[v].url
    BY DEF RedirectsFollowTable
  <2>2. PICK t \in rows : t.code = visit[w].code /\ t.url = visit[w].url
    BY DEF RedirectsFollowTable
  <2>. QED
    BY <1>1, <2>1, <2>2
<1>. QED
  BY <1>2, <1>3, AnswersStayDurable, RedirectsAgree, PTL

-----------------------------------------------------------------------------
(* The pool both endpoints share.                                          *)

Readers(p) == {v \in Visitors : visit[v].pod = p /\ visit[v].pc = "select"}

\* One more reader on a replica than before is a visit that was waiting while
\* a connection was free; no paid write gets one in that step.
LEMMA ReadersStep ==
    ASSUME VisitsTypeOK, NEW v \in Visitors,
           VisitStep(v) \/ \E q \in Pods, k \in Codes : Get(v, q, k),
           NEW p \in Pods
    PROVE  /\ req' = req
           /\ \/ Readers(p)' \subseteq Readers(p)
              \/ /\ ConnectionFree(p)
                 /\ Readers(p)' \subseteq Readers(p) \cup {v}
<1>1. req' = req
  BY DEF VisitStep, Get, Borrow, Fetch, Fill, FetchFails, vars
<1>2. CASE Borrow(v)
  BY <1>1, <1>2 DEF Borrow, Readers, VisitsTypeOK, Visit
<1>3. CASE \/ Fetch(v) \/ Fill(v) \/ FetchFails(v)
           \/ \E q \in Pods, k \in Codes : Get(v, q, k)
  <2>1. /\ \A w \in Visitors : w # v => visit'[w] = visit[w]
        /\ visit'[v].pc # "select"
    <3>1. ASSUME NEW new, visit' = [visit EXCEPT ![v] = new],
                 new.pc # "select"
          PROVE  /\ \A w \in Visitors : w # v => visit'[w] = visit[w]
                 /\ visit'[v].pc # "select"
      BY <3>1 DEF VisitsTypeOK
    <3>2. ASSUME NEW s, NEW u, Reply(v, s, u)
          PROVE  /\ \A w \in Visitors : w # v => visit'[w] = visit[w]
                 /\ visit'[v].pc # "select"
      BY <3>2 DEF Reply, VisitsTypeOK, Visit
    <3>3. CASE Fetch(v)
      <4>1. ASSUME NEW r \in rows,
                   visit' = [visit EXCEPT ![v] =
                      [@ EXCEPT !.pc = "setex", !.url = r.url, !.alive = TRUE]]
            PROVE  /\ \A w \in Visitors : w # v => visit'[w] = visit[w]
                   /\ visit'[v].pc # "select"
        <5>. DEFINE found == [visit[v] EXCEPT !.pc = "setex", !.url = r.url,
                                              !.alive = TRUE]
        <5>1. found.pc # "select"
          BY DEF VisitsTypeOK, Visit
        <5>2. visit' = [visit EXCEPT ![v] = found]
          BY <4>1
        <5>. QED
          BY ONLY <3>1, <5>1, <5>2
      <4>. QED
        BY <3>2, <3>3, <4>1 DEF Fetch
    <3>4. ASSUME NEW q \in Pods, NEW k \in Codes, Get(v, q, k)
          PROVE  /\ \A w \in Visitors : w # v => visit'[w] = visit[w]
                 /\ visit'[v].pc # "select"
      <4>1. ASSUME NEW pc, pc # "select", NEW s, NEW u,
                   Arrives(v, q, k, pc, s, u)
            PROVE  /\ \A w \in Visitors : w # v => visit'[w] = visit[w]
                   /\ visit'[v].pc # "select"
        <5>. DEFINE asked == [pc |-> pc, pod |-> q, code |-> k, url |-> u,
                              alive |-> TRUE,
                              known |-> \E r \in rows : r.code = k,
                              status |-> s]
        <5>1. asked.pc # "select"
          BY <4>1
        <5>2. visit' = [visit EXCEPT ![v] = asked]
          BY <4>1 DEF Arrives
        <5>. QED
          BY ONLY <3>1, <5>1, <5>2
      <4>. QED
        BY <3>4, <4>1 DEF Get
    <3>. QED
      BY <1>3, <3>2, <3>3, <3>4 DEF Fill, FetchFails
  <2>. QED
    BY <1>1, <2>1 DEF Readers
<1>. QED
  BY <1>2, <1>3 DEF VisitStep

\* Crashes give the connections of visits back.
LEMMA ReadersCrash ==
    ASSUME VisitsTypeOK, NEW p \in Pods,
           PostgresCrashes \/ \E q \in Pods : PodCrashes(q)
    PROVE  Readers(p)' \subseteq Readers(p)
<1>1. ASSUME NEW w \in Visitors
      PROVE  /\ visit'[w].pod = visit[w].pod
             /\ visit'[w].pc \in {visit[w].pc, "idle"}
  <2>1. visit[w] \in Visit
    BY DEF VisitsTypeOK
  <2>2. CASE PostgresCrashes
    BY <2>1, <2>2 DEF PostgresCrashes, Visit
  <2>3. ASSUME NEW q \in Pods, PodCrashes(q)
        PROVE  /\ visit'[w].pod = visit[w].pod
               /\ visit'[w].pc \in {visit[w].pc, "idle"}
    BY <2>1, <2>3 DEF PodCrashes, Visit
  <2>. QED
    BY <2>2, <2>3
<1>. QED
  BY <1>1 DEF Readers

\* max_size of the pool of each replica, for both endpoints together.
SharedPoolIsBounded == \A p \in Pods : Borrowed(p) <= PoolMax

\* A replica never lends more connections than its pool has, whichever of the
\* two endpoints asks and whatever crashes while it waits.
THEOREM SharedPoolIsNeverExceeded ==
    ASSUME IsFiniteSet(Clients), IsFiniteSet(Visitors)
    PROVE  RedirectSpec => []SharedPoolIsBounded
<1>. DEFINE H(p) == Cardinality(Holders(p))
            R(p) == Cardinality(Readers(p))
<1>1. \A p : /\ IsFiniteSet(Holders(p)) /\ H(p) \in Nat
             /\ IsFiniteSet(Readers(p)) /\ R(p) \in Nat
  BY FS_Subset, FS_CardinalityType DEF Holders, Readers
<1>2. \A p : Borrowed(p) = H(p) + R(p)
  BY DEF Borrowed, InUse, Holders, Readers
<1>3. RedirectInit => SharedPoolIsBounded
  <2>. SUFFICES ASSUME RedirectInit, NEW p \in Pods PROVE Borrowed(p) <= PoolMax
    BY DEF SharedPoolIsBounded
  <2>1. Holders(p) = {} /\ Readers(p) = {}
    BY DEF RedirectInit, Init, Holders, Holding, Readers
  <2>2. H(p) = 0 /\ R(p) = 0
    BY <2>1, FS_EmptySet
  <2>. QED
    BY <1>2, <2>2, ShortenAssumption
<1>4. RedirectInv /\ SharedPoolIsBounded /\ [RedirectNext]_redirectVars
         => SharedPoolIsBounded'
  <2>. SUFFICES ASSUME RedirectInv, SharedPoolIsBounded,
                       [RedirectNext]_redirectVars, NEW p \in Pods
                PROVE  H(p)' + R(p)' <= PoolMax
    BY DEF SharedPoolIsBounded, Borrowed, InUse, Holders, Readers
  <2>1. TypeOK /\ VisitsTypeOK /\ H(p) + R(p) <= PoolMax
    BY <1>2 DEF RedirectInv, IInv, SharedPoolIsBounded
  <2>2. ASSUME Holders(p)' \subseteq Holders(p)
        PROVE  H(p)' \in Nat /\ H(p)' <= H(p)
    BY <1>1, <2>2, FS_Subset, FS_CardinalityType
  <2>3. ASSUME Readers(p)' \subseteq Readers(p)
        PROVE  R(p)' \in Nat /\ R(p)' <= R(p)
    BY <1>1, <2>3, FS_Subset, FS_CardinalityType
  <2>4. CASE /\ Holders(p)' \subseteq Holders(p)
             /\ Readers(p)' \subseteq Readers(p)
    BY <1>1, <2>1, <2>2, <2>3, <2>4, ShortenAssumption
  <2>5. ASSUME H(p) + R(p) < PoolMax,
               \/ /\ Readers(p)' \subseteq Readers(p)
                  /\ \E c : Holders(p)' \subseteq Holders(p) \cup {c}
               \/ /\ Holders(p)' \subseteq Holders(p)
                  /\ \E v : Readers(p)' \subseteq Readers(p) \cup {v}
        PROVE  H(p)' + R(p)' <= PoolMax
    <3>1. H(p) < H(p) + 1 /\ R(p) < R(p) + 1
          /\ H(p) + 1 \in Nat /\ R(p) + 1 \in Nat
      BY <1>1
    <3>2. ASSUME NEW c, Holders(p)' \subseteq Holders(p) \cup {c}
          PROVE  H(p)' \in Nat /\ H(p)' <= H(p) + 1
      BY <1>1, <3>1, <3>2, OneMore, FS_CardinalityType
    <3>3. ASSUME NEW v, Readers(p)' \subseteq Readers(p) \cup {v}
          PROVE  R(p)' \in Nat /\ R(p)' <= R(p) + 1
      BY <1>1, <3>1, <3>3, OneMore, FS_CardinalityType
    <3>. QED
      BY <1>1, <2>2, <2>3, <2>5, <3>2, <3>3, ShortenAssumption
  <2>6. ASSUME NEW c \in Clients, PaidStep(c) PROVE H(p)' + R(p)' <= PoolMax
    <3>1. Readers(p)' \subseteq Readers(p)
      BY <2>6 DEF PaidStep, Readers
    <3>2. At(c, "acquire") /\ req[c].pod = p => H(p) + R(p) < PoolMax
      BY <1>2, <2>6 DEF PaidStep, ConnectionFree
    <3>. QED
      BY <2>1, <2>4, <2>5, <2>6, <3>1, <3>2, HoldersStep DEF PaidStep
  <2>7. ASSUME NEW v \in Visitors,
               VisitStep(v) \/ \E q \in Pods, k \in Codes : Get(v, q, k)
        PROVE  H(p)' + R(p)' <= PoolMax
    <3>1. req' = req => Holders(p)' = Holders(p)
      BY DEF Holders
    <3>2. ConnectionFree(p) => H(p) + R(p) < PoolMax
      BY <1>2 DEF ConnectionFree
    <3>. QED
      BY <2>1, <2>4, <2>5, <2>7, <3>1, <3>2, ReadersStep
  <2>8. CASE PostgresCrashes \/ \E q \in Pods : PodCrashes(q)
    <3>1. Environment
      BY <2>8 DEF PostgresCrashes, PodCrashes, Environment
    <3>. QED
      BY <2>1, <2>4, <2>8, <3>1, HoldersElsewhere, ReadersCrash
  <2>9. CASE Elsewhere \/ UNCHANGED redirectVars
    <3>1. Environment \/ UNCHANGED vars
      BY <2>9 DEF Elsewhere, Environment, redirectVars
    <3>2. visit' = visit
      BY <2>9 DEF Elsewhere, redirectVars
    <3>. QED
      BY <2>1, <2>4, <3>1, <3>2, HoldersElsewhere DEF Readers
  <2>. QED
    BY <2>6, <2>7, <2>8, <2>9 DEF RedirectNext
<1>. QED
  BY <1>3, <1>4, RedirectInductive, PTL DEF RedirectSpec

-----------------------------------------------------------------------------
(* How a visit ends.                                                       *)

VisitPlace == [acquire |-> 0, select |-> 1, setex |-> 2]

SameVisit(v) ==
    /\ visit'[v].pod = visit[v].pod
    /\ visit'[v].code = visit[v].code
    /\ visit'[v].known = visit[v].known

\* The visit keeps its place, and what it has read.
StaysPut(v) ==
    /\ visit'[v].pc = visit[v].pc
    /\ visit'[v].url = visit[v].url

MovesUp(v) ==
    /\ visit'[v].pc # "idle"
    /\ VisitPlace[visit'[v].pc] > VisitPlace[visit[v].pc]

\* Every answer is one of these: the target that the table has for the code
\* at that moment, a 404 while no row has it, a 500 of a Postgres that failed
\* before the answer was known, or none because the replica died.
EndsTruly(v) ==
    /\ visit'[v].pc = "idle"
    /\ \/ visit'[v].status = "302" /\ HasCode(visit[v].code, visit'[v].url)
       \/ visit'[v].status = "404" /\ \A r \in rows : r.code # visit[v].code
       \/ visit'[v].status = "500" /\ visit[v].pc # "setex"
       \/ visit'[v].status = "lost" /\ PodCrashes(visit[v].pod)

\* A URL that is about to be cached and answered is there.
TargetIsRead ==
    \A v \in Visitors : AtVisit(v, "setex") => visit[v].url # NoUrl

Goes(v) ==
    /\ SameVisit(v)
    /\ MovesUp(v) \/ EndsTruly(v) \/ (StaysPut(v) /\ ~VisitStep(v))

\* A step of a visit takes it on or ends it, and touches no other visit.
LEMMA VisitMoves ==
    ASSUME RedirectInv, TargetIsRead, NEW v \in Visitors, VisitStep(v)
    PROVE  /\ SameVisit(v)
           /\ MovesUp(v) \/ EndsTruly(v)
           /\ visit'[v].pc = "setex" => visit'[v].url # NoUrl
           /\ \A w \in Visitors : w # v => visit'[w] = visit[w]
<1>. USE DEF SameVisit, MovesUp, EndsTruly, AtVisit
<1>1. visit[v] \in Visit /\ VisitsTypeOK
  BY DEF RedirectInv, VisitsTypeOK
<1>2. ASSUME NEW s, NEW u, Reply(v, s, u)
      PROVE  /\ SameVisit(v)
             /\ visit'[v].pc = "idle" /\ visit'[v].status = s /\ visit'[v].url = u
             /\ \A w \in Visitors : w # v => visit'[w] = visit[w]
  BY <1>1, <1>2, ReplyFields
<1>3. CASE Borrow(v)
  BY <1>1, <1>3 DEF Borrow, VisitsTypeOK, Visit, VisitPlace
<1>4. CASE Fetch(v)
  <2>1. CASE Reply(v, "404", NoUrl) /\ \A r \in rows : r.code # visit[v].code
    BY <1>2, <2>1
  <2>2. ASSUME NEW r \in rows,
               visit' = [visit EXCEPT ![v] =
                   [@ EXCEPT !.pc = "setex", !.url = r.url, !.alive = TRUE]]
        PROVE  /\ SameVisit(v)
               /\ MovesUp(v)
               /\ visit'[v].url # NoUrl
               /\ \A w \in Visitors : w # v => visit'[w] = visit[w]
    <3>. DEFINE found == [visit[v] EXCEPT !.pc = "setex", !.url = r.url,
                                          !.alive = TRUE]
    <3>1. visit'[v] = found /\ \A w \in Visitors : w # v => visit'[w] = visit[w]
      BY <1>1, <2>2 DEF VisitsTypeOK
    <3>2. /\ found.pc = "setex" /\ found.url = r.url
          /\ found.pod = visit[v].pod /\ found.code = visit[v].code
          /\ found.known = visit[v].known
      BY <1>1 DEF Visit
    <3>3. r.url # NoUrl
      BY ShortenAssumption DEF RedirectInv, IInv, TypeOK, Row
    <3>4. visit[v].pc = "select"
      BY <1>4 DEF Fetch
    <3>. QED
      BY <3>1, <3>2, <3>3, <3>4 DEF VisitPlace
  <2>. QED
    BY <1>4, <2>1, <2>2 DEF Fetch
<1>5. CASE Fill(v)
  <2>1. Reply(v, "302", visit[v].url) /\ visit[v].url # NoUrl
    BY <1>5 DEF Fill, TargetIsRead
  <2>2. HasCode(visit[v].code, visit[v].url)
    BY <2>1 DEF RedirectInv, RedirectsFollowTable, HasCode
  <2>. QED
    BY <1>2, <2>1, <2>2
<1>6. CASE FetchFails(v)
  <2>1. Reply(v, "500", NoUrl) /\ visit[v].pc # "setex"
    BY <1>6 DEF FetchFails
  <2>. QED
    BY <1>2, <2>1
<1>. QED
  BY <1>3, <1>4, <1>5, <1>6 DEF VisitStep

\* An arrival touches no other visit, and does not begin where a visit ends.
LEMMA GetMoves ==
    ASSUME VisitsTypeOK, NEW v \in Visitors, NEW p \in Pods, NEW k \in Codes,
           Get(v, p, k)
    PROVE  /\ visit[v].pc = "idle"
           /\ visit'[v].pc # "setex"
           /\ \A w \in Visitors : w # v => visit'[w] = visit[w]
<1>1. PICK pc, s, u : pc # "setex" /\ Arrives(v, p, k, pc, s, u)
  BY DEF Get
<1>. DEFINE asked == [pc |-> pc, pod |-> p, code |-> k, url |-> u,
                      alive |-> TRUE, known |-> \E r \in rows : r.code = k,
                      status |-> s]
<1>2. visit' = [visit EXCEPT ![v] = asked] /\ asked.pc # "setex"
  BY <1>1 DEF Arrives
<1>3. visit'[v] = asked /\ \A w \in Visitors : w # v => visit'[w] = visit[w]
  BY <1>2 DEF VisitsTypeOK
<1>. QED
  BY <1>2, <1>3 DEF Get, AtVisit

\* A crash leaves a visit where it is, or ends it with its replica.
LEMMA CrashMoves ==
    ASSUME VisitsTypeOK, NEW v \in Visitors,
           PostgresCrashes \/ \E p \in Pods : PodCrashes(p)
    PROVE  /\ SameVisit(v)
           /\ \/ StaysPut(v)
              \/ visit[v].pc # "idle" /\ EndsTruly(v)
<1>. USE DEF SameVisit, StaysPut, EndsTruly
<1>1. visit[v] \in Visit
  BY DEF VisitsTypeOK
<1>2. CASE PostgresCrashes
  <2>1. visit'[v] = [visit[v] EXCEPT !.alive = @ /\ ~AtVisit(v, "select")]
    BY <1>2 DEF PostgresCrashes
  <2>. QED
    BY <1>1, <2>1 DEF Visit
<1>3. ASSUME NEW p \in Pods, PodCrashes(p)
      PROVE  SameVisit(v) /\ (StaysPut(v) \/ (visit[v].pc # "idle" /\ EndsTruly(v)))
  <2>1. CASE visit[v].pod = p /\ visit[v].pc # "idle"
    <3>1. visit'[v] = [visit[v] EXCEPT !.pc = "idle", !.status = "lost",
                                       !.url = NoUrl, !.alive = TRUE]
      BY <1>3, <2>1 DEF PodCrashes
    <3>. QED
      BY <1>1, <1>3, <2>1, <3>1 DEF Visit
  <2>2. CASE ~(visit[v].pod = p /\ visit[v].pc # "idle")
    <3>1. visit'[v] = visit[v]
      BY <1>3, <2>2 DEF PodCrashes
    <3>. QED
      BY <3>1
  <2>. QED
    BY <2>1, <2>2
<1>. QED
  BY <1>2, <1>3

\* What any step of the system does to one visit.
LEMMA AnyVisitMoves ==
    ASSUME RedirectInv, TargetIsRead, [RedirectNext]_redirectVars,
           NEW v \in Visitors
    PROVE  /\ visit[v].pc # "idle" => Goes(v)
           /\ visit'[v].pc = "setex" => visit'[v].url # NoUrl
<1>. USE DEF Goes, SameVisit, StaysPut
<1>1. VisitsTypeOK
  BY DEF RedirectInv
<1>2. CASE VisitStep(v)
  BY <1>2, VisitMoves
<1>3. ASSUME ~VisitStep(v), visit'[v] = visit[v]
      PROVE  Goes(v) /\ (visit'[v].pc = "setex" => visit'[v].url # NoUrl)
  BY <1>3 DEF TargetIsRead, AtVisit
<1>4. ASSUME ~VisitStep(v), NEW w \in Visitors, w # v,
             \/ VisitStep(w)
             \/ \E p \in Pods, k \in Codes : Get(w, p, k)
      PROVE  Goes(v) /\ (visit'[v].pc = "setex" => visit'[v].url # NoUrl)
  BY <1>1, <1>3, <1>4, VisitMoves, GetMoves
<1>5. ASSUME NEW p \in Pods, NEW k \in Codes, Get(v, p, k)
      PROVE  /\ visit[v].pc = "idle"
             /\ visit'[v].pc # "setex"
  BY <1>1, <1>5, GetMoves
<1>6. CASE ~VisitStep(v) /\ (PostgresCrashes \/ \E p \in Pods : PodCrashes(p))
  BY <1>1, <1>6, CrashMoves DEF TargetIsRead, AtVisit, EndsTruly
<1>7. CASE ~VisitStep(v) /\ (\/ \E c \in Clients : PaidStep(c)
                             \/ Elsewhere
                             \/ UNCHANGED redirectVars)
  BY <1>3, <1>7 DEF PaidStep, Elsewhere, redirectVars
<1>. QED
  BY <1>2, <1>4, <1>5, <1>6, <1>7 DEF RedirectNext

\* The handler of GET never goes back, and answers what the table says when it
\* answers.
VisitsGoForward ==
    [][\A v \in Visitors : visit[v].pc # "idle" => Goes(v)]_redirectVars

\* A visit stays with its replica and its code, asks for one connection and
\* reads the table once at most, and whatever paid writes, other visits and
\* crashes do meanwhile, its answer is true of the table.  The variant behind
\* EveryVisitEnds.
THEOREM VisitsEndTruly == RedirectSpec => VisitsGoForward
<1>1. RedirectInit => TargetIsRead
  BY DEF RedirectInit, TargetIsRead, AtVisit
<1>2. RedirectInv /\ TargetIsRead /\ [RedirectNext]_redirectVars
         => TargetIsRead'
  BY AnyVisitMoves DEF TargetIsRead, AtVisit
<1>3. RedirectInv /\ TargetIsRead /\ [RedirectNext]_redirectVars
         => \A v \in Visitors : visit[v].pc # "idle" => Goes(v)
  BY AnyVisitMoves
<1>. QED
  BY <1>1, <1>2, <1>3, RedirectInductive, PTL DEF RedirectSpec, VisitsGoForward

=============================================================================
