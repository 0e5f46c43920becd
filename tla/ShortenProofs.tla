---------------------------- MODULE ShortenProofs ----------------------------
(***************************************************************************)
(* What POST /shorten guarantees for any number of clients, replicas,      *)
(* URLs, codes and payments.                                               *)
(***************************************************************************)
EXTENDS Shorten, FiniteSetTheorems, TLAPS

-----------------------------------------------------------------------------
(* Type correctness.                                                       *)

\* A move of a handler changes its pc only, and no other record.
LEMMA GotoFields ==
    ASSUME TypeOK, NEW c \in Clients, NEW pc, Goto(c, pc)
    PROVE  /\ \A d \in Clients : d # c => req'[d] = req[d]
           /\ req'[c].pc = pc
           /\ req'[c].status = req[c].status
           /\ req'[c].code = req[c].code
           /\ req'[c].pod = req[c].pod
           /\ req'[c].url = req[c].url
           /\ req'[c].sig = req[c].sig
           /\ req'[c].tx = req[c].tx
BY DEF TypeOK, Goto, Request

\* An answer sets pc, status and code, and returns the connection.
LEMMA AnswerFields ==
    ASSUME TypeOK, NEW c \in Clients, NEW s, NEW k, Answer(c, s, k)
    PROVE  /\ \A d \in Clients : d # c => req'[d] = req[d]
           /\ req'[c].pc = "idle"
           /\ req'[c].status = s
           /\ req'[c].code = k
           /\ req'[c].pod = req[c].pod
           /\ req'[c].url = req[c].url
           /\ req'[c].sig = req[c].sig
           /\ req'[c].tx = req[c].tx
BY DEF TypeOK, Answer, Request

\* A created URL sets pc and code.
LEMMA CreatedFields ==
    ASSUME TypeOK, NEW c \in Clients, NEW k, Created(c, k)
    PROVE  /\ \A d \in Clients : d # c => req'[d] = req[d]
           /\ req'[c].pc = "setex"
           /\ req'[c].code = k
           /\ req'[c].status = req[c].status
           /\ req'[c].pod = req[c].pod
           /\ req'[c].url = req[c].url
           /\ req'[c].sig = req[c].sig
           /\ req'[c].tx = req[c].tx
BY DEF TypeOK, Created, Request

\* A move to a point of the handler keeps the type.
LEMMA GotoType ==
    ASSUME TypeOK, NEW c \in Clients, NEW pc \in Points, Goto(c, pc)
    PROVE  req' \in [Clients -> Request]
BY DEF TypeOK, Goto, Request

\* An answer keeps the type when its status and code do.
LEMMA AnswerType ==
    ASSUME TypeOK, NEW c \in Clients, NEW s \in Statuses,
           NEW k \in Codes \cup {NoCode}, Answer(c, s, k)
    PROVE  req' \in [Clients -> Request]
<1>. DEFINE answered == [req[c] EXCEPT !.pc = "idle", !.status = s,
                                       !.code = k, !.alive = TRUE]
<1>1. req[c] \in Request
  BY DEF TypeOK
<1>2. answered \in Request
  BY <1>1 DEF Request, Points
<1>3. req' = [req EXCEPT ![c] = answered]
  BY DEF Answer
<1>. QED
  BY <1>2, <1>3 DEF TypeOK

\* A created URL keeps the type when its code does.
LEMMA CreatedType ==
    ASSUME TypeOK, NEW c \in Clients, NEW k \in Codes, Created(c, k)
    PROVE  req' \in [Clients -> Request]
<1>. DEFINE created == [req[c] EXCEPT !.pc = "setex", !.code = k]
<1>1. req[c] \in Request
  BY DEF TypeOK
<1>2. created \in Request
  BY <1>1 DEF Request, Points, Holding
<1>3. req' = [req EXCEPT ![c] = created]
  BY DEF Created
<1>. QED
  BY <1>2, <1>3 DEF TypeOK

\* So does the answer with the code of a row.
LEMMA AnswerExistingType ==
    ASSUME TypeOK, NEW c \in Clients, AnswerExisting(c)
    PROVE  req' \in [Clients -> Request]
<1>1. PICK r \in rows : Answer(c, "200", r.code)
  BY DEF AnswerExisting
<1>2. r.code \in Codes \cup {NoCode}
  BY DEF TypeOK, Row
<1>. QED
  BY <1>1, <1>2, AnswerType DEF Statuses

\* An exception of a statement becomes an answer that decides nothing.
LEMMA ErrorStatusType ==
    ASSUME NEW e PROVE ErrorStatus(e) \in Undecided /\ ErrorStatus(e) \in Statuses
BY DEF ErrorStatus, Undecided, Statuses

\* A row added under a code, a URL and a settlement is a row.
LEMMA AddRowType ==
    ASSUME TypeOK, NEW k \in Codes, NEW u \in Urls,
           NEW t \in Payments \cup {NoPayment}, AddRow(k, u, t)
    PROVE  rows' \subseteq Row
BY DEF TypeOK, AddRow, Row

\* A counted crash stays within the bound.
LEMMA OneMoreFault ==
    ASSUME faults \in 0 .. MaxFaults, faults < MaxFaults
    PROVE  faults + 1 \in 0 .. MaxFaults
BY ShortenAssumption

\* A request that arrives has the type of a request.
LEMMA ArriveType ==
    ASSUME TypeOK, NEW c \in Clients, NEW p \in Pods, NEW u \in Urls,
           NEW s \in Payments \cup {NoPayment, BadHeader}, Arrive(c, p, u, s)
    PROVE  TypeOK'
<1>1. req' \in [Clients -> Request]
  BY DEF TypeOK, Arrive, Request, Points, Statuses, Undecided
<1>. QED
  BY <1>1 DEF TypeOK, Arrive, FacilitatorTypeOK, facilitatorVars, storeVars,
              worldVars

\* What the position of a handler says of the payment of its request: the
\* facilitator is only called about a payment, past it the payment is
\* settled, and without payments there is no settlement.
HandlerOK(c) ==
    /\ req[c].pc \in {"verify", "settle"} =>
          PaymentEnabled /\ req[c].sig \in Payments
    /\ (PaymentEnabled /\ req[c].pc \in {"insert", "reselect", "setex"}) =>
          req[c].tx \in settled
    /\ ~PaymentEnabled => req[c].tx = NoPayment

HandlersOK == \A c \in Clients : HandlerOK(c)

\* The type invariant is preserved where handlers are as above.
LEMMA TypeStep == TypeOK /\ HandlersOK /\ [Next]_vars => TypeOK'
<1> SUFFICES ASSUME TypeOK, HandlersOK, [Next]_vars PROVE TypeOK'
  OBVIOUS
<1> USE DEF facilitatorVars, storeVars, worldVars, FacilitatorTypeOK
<1>1. ASSUME NEW c \in Clients, Ask(c) PROVE TypeOK'
  BY <1>1, ArriveType DEF Ask
<1>2. ASSUME NEW c \in Clients, Retry(c) PROVE TypeOK'
  <2>1. req[c].url \in Urls /\ req[c].sig \in Payments \cup {NoPayment, BadHeader}
    BY DEF TypeOK, Request
  <2>. QED
    BY <1>2, <2>1, ArriveType DEF Retry
<1>3. ASSUME NEW c \in Clients, Acquire(c) PROVE TypeOK'
  BY <1>3, GotoType DEF Acquire, TypeOK, Points, Holding
<1>4. ASSUME NEW c \in Clients, Select(c) PROVE TypeOK'
  <2>1. req' \in [Clients -> Request]
    BY <1>4, GotoType, AnswerType, AnswerExistingType
       DEF Select, Points, Holding, Statuses
  <2>. QED
    BY <1>4, <2>1 DEF Select, TypeOK
<1>5. ASSUME NEW c \in Clients, VerifyAccepts(c) PROVE TypeOK'
  BY <1>5, GotoType DEF VerifyAccepts, TypeOK, Points, Holding
<1>6. ASSUME NEW c \in Clients, VerifyRejects(c) PROVE TypeOK'
  BY <1>6, AnswerType DEF VerifyRejects, TypeOK, Statuses
<1>7. ASSUME NEW c \in Clients, FacilitatorUnreachable(c) PROVE TypeOK'
  <2>1. req' \in [Clients -> Request]
    BY <1>7, AnswerType DEF FacilitatorUnreachable, Statuses, Undecided
  <2>2. settled' \subseteq Payments /\ expired' = expired
    BY <1>7 DEF FacilitatorUnreachable, Transfer, HandlersOK, HandlerOK, At,
                TypeOK
  <2>. QED
    BY <1>7, <2>1, <2>2 DEF FacilitatorUnreachable, TypeOK
<1>8. ASSUME NEW c \in Clients, SettleSucceeds(c) PROVE TypeOK'
  <2>1. req[c].sig \in Payments
    BY <1>8 DEF SettleSucceeds, HandlersOK, HandlerOK, At
  <2>2. [req[c] EXCEPT !.pc = "insert", !.tx = req[c].sig] \in Request
    <3>1. req[c] \in Request
      BY DEF TypeOK
    <3>. QED
      BY <2>1, <3>1 DEF Request, Points, Holding
  <2>3. req' \in [Clients -> Request]
    BY <1>8, <2>2 DEF SettleSucceeds, TypeOK
  <2>. QED
    BY <1>8, <2>1, <2>3 DEF SettleSucceeds, Transfer, TypeOK
<1>9. ASSUME NEW c \in Clients, SettleFails(c) PROVE TypeOK'
  BY <1>9, AnswerType DEF SettleFails, TypeOK, Statuses
<1>10. ASSUME NEW c \in Clients, Insert(c) PROVE TypeOK'
  <2>1. PICK k \in Codes :
           IF PaymentEnabled THEN InsertPaid(c, k) ELSE InsertFree(c, k)
    BY <1>10 DEF Insert
  <2>2. /\ req[c].url \in Urls
        /\ req[c].tx \in Payments \cup {NoPayment}
    BY DEF TypeOK, Request
  <2>3. \A r \in rows : r.code \in Codes
    BY DEF TypeOK, Row
  <2>4. CASE PaymentEnabled
    <3>1. req' \in [Clients -> Request] /\ rows' \subseteq Row
      BY <2>1, <2>2, <2>4, GotoType, AnswerType, CreatedType, AddRowType
         DEF InsertPaid, TypeOK, Statuses, Points, Holding
    <3>. QED
      BY <1>10, <3>1 DEF Insert, TypeOK
  <2>5. CASE ~PaymentEnabled
    <3>1. req' \in [Clients -> Request] /\ rows' \subseteq Row
      BY <2>1, <2>2, <2>3, <2>5, AnswerType, CreatedType, AddRowType
         DEF InsertFree, TypeOK, Statuses, Undecided
    <3>. QED
      BY <1>10, <3>1 DEF Insert, TypeOK
  <2>. QED
    BY <2>4, <2>5
<1>11. ASSUME NEW c \in Clients, InsertUnacknowledged(c) PROVE TypeOK'
  <2>1. /\ req[c].url \in Urls
        /\ req[c].tx \in Payments \cup {NoPayment}
    BY DEF TypeOK, Request
  <2>2. rows' \subseteq Row
    BY <1>11, <2>1, AddRowType DEF InsertUnacknowledged
  <2>3. req' \in [Clients -> Request]
    BY <1>11, AnswerType, ErrorStatusType DEF InsertUnacknowledged
  <2>. QED
    BY <1>11, <2>2, <2>3 DEF InsertUnacknowledged, TypeOK
<1>12. ASSUME NEW c \in Clients, Reselect(c) PROVE TypeOK'
  <2>1. req' \in [Clients -> Request]
    BY <1>12, AnswerType, AnswerExistingType
       DEF Reselect, Statuses, Undecided
  <2>. QED
    BY <1>12, <2>1 DEF Reselect, TypeOK
<1>13. ASSUME NEW c \in Clients, CacheAndAnswer(c) PROVE TypeOK'
  <2>1. req' \in [Clients -> Request]
    BY <1>13, AnswerType DEF CacheAndAnswer, TypeOK, Request, Statuses
  <2>2. cache' \in [Codes -> Urls \cup {NoUrl}]
    BY <1>13 DEF CacheAndAnswer, TypeOK, Request
  <2>. QED
    BY <1>13, <2>1, <2>2 DEF CacheAndAnswer, TypeOK
<1>14. ASSUME NEW c \in Clients, DatabaseFails(c) PROVE TypeOK'
  <2>1. req' \in [Clients -> Request]
    BY <1>14, AnswerType, ErrorStatusType DEF DatabaseFails
  <2>. QED
    BY <1>14, <2>1 DEF DatabaseFails, TypeOK
<1>15. CASE PostgresCrash
  <2>1. ASSUME NEW c \in Clients
        PROVE  [req[c] EXCEPT !.alive = @ /\ req[c].pc \notin Holding] \in Request
    <3>1. req[c] \in Request
      BY DEF TypeOK
    <3>2. (req[c].alive /\ req[c].pc \notin Holding) \in BOOLEAN
      OBVIOUS
    <3>. QED
      BY <3>1, <3>2 DEF Request
  <2>2. req' \in [Clients -> Request]
    BY <1>15, <2>1 DEF PostgresCrash
  <2>3. faults' \in 0 .. MaxFaults
    BY <1>15, OneMoreFault DEF PostgresCrash, TypeOK
  <2>. QED
    BY <1>15, <2>2, <2>3 DEF PostgresCrash, TypeOK
<1>16. CASE PostgresRestart
  BY <1>16 DEF PostgresRestart, TypeOK
<1>17. ASSUME NEW p \in Pods, Connect(p) PROVE TypeOK'
  BY <1>17 DEF Connect, TypeOK
<1>18. ASSUME NEW p \in Pods, PodCrash(p) PROVE TypeOK'
  <2>1. ASSUME NEW c \in Clients
        PROVE  [req[c] EXCEPT !.pc = "idle", !.status = "lost",
                              !.code = NoCode, !.alive = TRUE] \in Request
    <3>1. req[c] \in Request
      BY DEF TypeOK
    <3>. QED
      BY <3>1 DEF Request, Points, Statuses, Undecided
  <2>2. \A c \in Clients : req[c] \in Request
    BY DEF TypeOK
  <2>3. req' \in [Clients -> Request]
    BY <1>18, <2>1, <2>2 DEF PodCrash
  <2>4. faults' \in 0 .. MaxFaults
    BY <1>18, OneMoreFault DEF PodCrash, TypeOK
  <2>. QED
    BY <1>18, <2>3, <2>4 DEF PodCrash, TypeOK
<1>19. ASSUME NEW k \in Codes, Forget(k) PROVE TypeOK'
  BY <1>19 DEF Forget, TypeOK
<1>20. ASSUME NEW p \in Payments, DeadlinePasses(p) PROVE TypeOK'
  BY <1>20 DEF DeadlinePasses, Expire, TypeOK
<1>21. CASE UNCHANGED vars
  BY <1>21 DEF vars, TypeOK
<1>. QED
  BY <1>1, <1>2, <1>3, <1>4, <1>5, <1>6, <1>7, <1>8, <1>9, <1>10, <1>11,
     <1>12, <1>13, <1>14, <1>15, <1>16, <1>17, <1>18, <1>19, <1>20, <1>21
     DEF Next, Handler, Environment

-----------------------------------------------------------------------------
(* The inductive invariant.                                                *)

\* Told that a URL is stored, now (201, 200) or about to be (setex).
Creates(c) ==
    req[c].pc = "setex" \/ (req[c].pc = "idle" /\ req[c].status = "201")

Told(c) ==
    Creates(c) \/ (req[c].pc = "idle" /\ req[c].status = "200")

HasRow(c) ==
    \E r \in rows :
        /\ r.url = req[c].url
        /\ r.code = req[c].code
        /\ (Creates(c) /\ PaymentEnabled) => r.tx = req[c].tx

ToldHasRow == \A c \in Clients : Told(c) => HasRow(c)

DistinctCreators ==
    PaymentEnabled =>
        \A c, d \in Clients :
            (c # d /\ Creates(c) /\ Creates(d)) => req[c].url # req[d].url

\* The settlement a handler knows of is that of its own request.
OwnSettlement == \A c \in Clients : req[c].tx \in {NoPayment, req[c].sig}

IInv ==
    /\ TypeOK
    /\ HandlersOK
    /\ OwnSettlement
    /\ RowsArePaid
    /\ RowsAreUnique
    /\ ToldHasRow
    /\ DistinctCreators
    /\ CacheAgrees

\* Rows and settlements are never taken back.
LEMMA Growth == [Next]_vars => rows \subseteq rows' /\ settled \subseteq settled'
BY DEF Next, vars, Handler, Environment, Ask, Retry, Arrive, Acquire, Select,
       VerifyAccepts, VerifyRejects, FacilitatorUnreachable, SettleSucceeds,
       SettleFails, Insert, InsertPaid, InsertFree, InsertUnacknowledged,
       Reselect, CacheAndAnswer, DatabaseFails, PostgresCrash,
       PostgresRestart, Connect, PodCrash, Forget, DeadlinePasses, Expire,
       Transfer, AddRow, facilitatorVars, storeVars, worldVars

\* The facilitator is called about payments only, and nothing is inserted
\* before the payment is settled.
LEMMA HandlersStep == TypeOK /\ HandlersOK /\ [Next]_vars => HandlersOK'
<1> SUFFICES ASSUME TypeOK, HandlersOK, [Next]_vars, NEW d \in Clients
             PROVE  HandlerOK(d)'
  BY DEF HandlersOK
<1>1. HandlerOK(d) /\ settled \subseteq settled'
  BY Growth DEF HandlersOK
<1> USE DEF HandlerOK, At
<1>2. req \in [Clients -> Request]
  BY DEF TypeOK
<1>3. ASSUME NEW c \in Clients, Ask(c) PROVE HandlerOK(d)'
  BY <1>1, <1>2, <1>3 DEF Ask, Arrive, facilitatorVars
<1>4. ASSUME NEW c \in Clients, Retry(c) PROVE HandlerOK(d)'
  BY <1>1, <1>2, <1>4 DEF Retry, Arrive, facilitatorVars
<1>5. ASSUME NEW c \in Clients, Acquire(c) PROVE HandlerOK(d)'
  BY <1>1, <1>5, GotoFields DEF Acquire, facilitatorVars
<1>6. ASSUME NEW c \in Clients, Select(c) PROVE HandlerOK(d)'
  <2>1. req[c].sig \in Payments \cup {NoPayment, BadHeader}
    BY DEF TypeOK, Request
  <2>2. settled' = settled
    BY <1>6 DEF Select, facilitatorVars
  <2>3. CASE AnswerExisting(c)
    BY <1>1, <2>2, <2>3, AnswerFields DEF AnswerExisting
  <2>4. CASE ~PaymentEnabled /\ Goto(c, "insert")
    BY <1>1, <2>2, <2>4, GotoFields
  <2>5. CASE Answer(c, "402", NoCode)
    BY <1>1, <2>2, <2>5, AnswerFields
  <2>6. CASE /\ PaymentEnabled
             /\ req[c].sig \notin {NoPayment, BadHeader}
             /\ Goto(c, "verify")
    BY <1>1, <2>1, <2>2, <2>6, GotoFields
  <2>. QED
    BY <1>6, <2>3, <2>4, <2>5, <2>6 DEF Select
<1>7. ASSUME NEW c \in Clients, VerifyAccepts(c) PROVE HandlerOK(d)'
  BY <1>1, <1>7, GotoFields DEF VerifyAccepts, facilitatorVars
<1>8. ASSUME NEW c \in Clients, VerifyRejects(c) PROVE HandlerOK(d)'
  BY <1>1, <1>8, AnswerFields DEF VerifyRejects, facilitatorVars
<1>9. ASSUME NEW c \in Clients, FacilitatorUnreachable(c) PROVE HandlerOK(d)'
  BY <1>1, <1>9, AnswerFields DEF FacilitatorUnreachable
<1>10. ASSUME NEW c \in Clients, SettleSucceeds(c) PROVE HandlerOK(d)'
  BY <1>1, <1>2, <1>10 DEF SettleSucceeds, Transfer, HandlersOK
<1>11. ASSUME NEW c \in Clients, SettleFails(c) PROVE HandlerOK(d)'
  BY <1>1, <1>11, AnswerFields DEF SettleFails, facilitatorVars
<1>12. ASSUME NEW c \in Clients, Insert(c) PROVE HandlerOK(d)'
  <2>1. PICK k \in Codes :
           IF PaymentEnabled THEN InsertPaid(c, k) ELSE InsertFree(c, k)
    BY <1>12 DEF Insert
  <2>2. CASE PaymentEnabled
    <3>1. HandlerOK(c) /\ req[c].pc = "insert" /\ settled' = settled
      BY <1>12 DEF Insert, HandlersOK, facilitatorVars
    <3>2. CASE Goto(c, "reselect")
      BY <1>1, <2>2, <3>1, <3>2, GotoFields
    <3>3. CASE Answer(c, "409", NoCode)
      BY <1>1, <3>1, <3>3, AnswerFields
    <3>4. CASE Created(c, k)
      BY <1>1, <2>2, <3>1, <3>4, CreatedFields
    <3>. QED
      BY <2>1, <2>2, <3>2, <3>3, <3>4 DEF InsertPaid
  <2>3. CASE ~PaymentEnabled
    BY <1>1, <2>1, <2>3, AnswerFields, CreatedFields DEF InsertFree
  <2>. QED
    BY <2>2, <2>3
<1>13. ASSUME NEW c \in Clients, InsertUnacknowledged(c) PROVE HandlerOK(d)'
  BY <1>1, <1>13, AnswerFields DEF InsertUnacknowledged, facilitatorVars
<1>14. ASSUME NEW c \in Clients, Reselect(c) PROVE HandlerOK(d)'
  BY <1>1, <1>14, AnswerFields DEF Reselect, AnswerExisting, facilitatorVars
<1>15. ASSUME NEW c \in Clients, CacheAndAnswer(c) PROVE HandlerOK(d)'
  BY <1>1, <1>15, AnswerFields DEF CacheAndAnswer, facilitatorVars
<1>16. ASSUME NEW c \in Clients, DatabaseFails(c) PROVE HandlerOK(d)'
  BY <1>1, <1>16, AnswerFields DEF DatabaseFails, facilitatorVars
<1>17. CASE PostgresCrash
  BY <1>1, <1>2, <1>17 DEF PostgresCrash, facilitatorVars, Request
<1>18. ASSUME NEW p \in Pods, PodCrash(p) PROVE HandlerOK(d)'
  BY <1>1, <1>2, <1>18 DEF PodCrash, facilitatorVars, Request
<1>19. CASE UNCHANGED req
  BY <1>1, <1>19
<1>. QED
  BY <1>3, <1>4, <1>5, <1>6, <1>7, <1>8, <1>9, <1>10, <1>11, <1>12, <1>13,
     <1>14, <1>15, <1>16, <1>17, <1>18, <1>19
     DEF Next, Handler, Environment, PostgresRestart, Connect, Forget,
         DeadlinePasses, vars

-----------------------------------------------------------------------------
(* The way of a request through its handler.                               *)

\* The points of a handler in the order of shorten_url.
Place == [acquire |-> 0, select |-> 1, verify |-> 2, settle |-> 3,
          insert |-> 4, reselect |-> 5, setex |-> 5]

\* The record of the request keeps what the request is about.
SameRequest(c) ==
    /\ req'[c].pod = req[c].pod
    /\ req'[c].url = req[c].url
    /\ req'[c].sig = req[c].sig

\* The request is answered, or its handler is further than it was.
Advances(c) ==
    /\ SameRequest(c)
    /\ req'[c].pc = "idle" \/ Place[req'[c].pc] > Place[req[c].pc]

\* A step of a handler takes its own request on, and no other.
LEMMA HandlerMoves ==
    ASSUME TypeOK, NEW c \in Clients, Handler(c)
    PROVE  /\ req[c].pc # "idle"
           /\ Advances(c)
           /\ req'[c].tx \in {req[c].tx, req[c].sig}
           /\ \A d \in Clients : d # c => req'[d] = req[d]
<1>. DEFINE Goal ==
           /\ req[c].pc # "idle"
           /\ Advances(c)
           /\ req'[c].tx \in {req[c].tx, req[c].sig}
           /\ \A d \in Clients : d # c => req'[d] = req[d]
<1>1. ASSUME NEW s, NEW k, Answer(c, s, k), req[c].pc # "idle" PROVE Goal
  BY <1>1, AnswerFields DEF Advances, SameRequest
<1>2. ASSUME NEW pc, Goto(c, pc), req[c].pc # "idle",
             Place[pc] > Place[req[c].pc]
      PROVE  Goal
  BY <1>2, GotoFields DEF Advances, SameRequest
<1>3. ASSUME NEW k, Created(c, k), At(c, "insert") PROVE Goal
  BY <1>3, CreatedFields DEF Advances, SameRequest, At, Place
<1>4. CASE Acquire(c) \/ VerifyAccepts(c)
  BY <1>2, <1>4 DEF Acquire, VerifyAccepts, At, Place
<1>5. CASE Select(c)
  BY <1>1, <1>2, <1>5 DEF Select, AnswerExisting, At, Place
<1>6. CASE SettleSucceeds(c)
  BY <1>6 DEF SettleSucceeds, TypeOK, Request, Advances, SameRequest, At, Place
<1>7. CASE Insert(c)
  BY <1>1, <1>2, <1>3, <1>7 DEF Insert, InsertPaid, InsertFree, At, Place
<1>8. CASE \/ VerifyRejects(c) \/ FacilitatorUnreachable(c) \/ SettleFails(c)
           \/ InsertUnacknowledged(c) \/ Reselect(c) \/ CacheAndAnswer(c)
           \/ DatabaseFails(c)
  BY <1>1, <1>8
     DEF VerifyRejects, FacilitatorUnreachable, SettleFails,
         InsertUnacknowledged, Reselect, AnswerExisting, CacheAndAnswer,
         DatabaseFails, At
<1>. QED
  BY <1>4, <1>5, <1>6, <1>7, <1>8 DEF Handler

\* What happens around the handlers ends requests or leaves them where they
\* are.
LEMMA WorldMoves ==
    ASSUME TypeOK, Environment \/ UNCHANGED vars, NEW c \in Clients
    PROVE  /\ SameRequest(c)
           /\ req'[c].tx = req[c].tx
           /\ req'[c].pc \in {req[c].pc, "idle"}
<1>1. CASE PostgresCrash
  BY <1>1 DEF PostgresCrash, TypeOK, Request, SameRequest
<1>2. ASSUME NEW p \in Pods, PodCrash(p)
      PROVE  /\ SameRequest(c)
             /\ req'[c].tx = req[c].tx
             /\ req'[c].pc \in {req[c].pc, "idle"}
  BY <1>2 DEF PodCrash, TypeOK, Request, SameRequest
<1>3. CASE UNCHANGED req
  BY <1>3 DEF SameRequest
<1>. QED
  BY <1>1, <1>2, <1>3
     DEF Environment, PostgresRestart, Connect, Forget, DeadlinePasses, vars

\* A request that arrives is new; the others stay as they are.
LEMMA ArrivalMoves ==
    ASSUME TypeOK, NEW c \in Clients, Ask(c) \/ Retry(c)
    PROVE  /\ req[c].pc = "idle"
           /\ req'[c].pc \in {"acquire", "idle"}
           /\ req'[c].tx = NoPayment
           /\ req'[c].status \in {"none", "503"}
           /\ \A d \in Clients : d # c => req'[d] = req[d]
<1>1. PICK p, u, s : Arrive(c, p, u, s)
  BY DEF Ask, Retry
<1>. QED
  BY <1>1 DEF Arrive, TypeOK, At

\* A handler learns of one settlement, that of its own request.
LEMMA OwnStep == TypeOK /\ OwnSettlement /\ [Next]_vars => OwnSettlement'
<1>. SUFFICES ASSUME TypeOK, OwnSettlement, [Next]_vars, NEW d \in Clients
              PROVE  req'[d].tx \in {NoPayment, req'[d].sig}
  BY DEF OwnSettlement
<1>. USE DEF OwnSettlement, Advances, SameRequest
<1>1. ASSUME NEW c \in Clients, Ask(c) \/ Retry(c)
      PROVE  req'[d].tx \in {NoPayment, req'[d].sig}
  BY <1>1, ArrivalMoves
<1>2. ASSUME NEW c \in Clients, Handler(c)
      PROVE  req'[d].tx \in {NoPayment, req'[d].sig}
  BY <1>2, HandlerMoves
<1>3. CASE Environment \/ UNCHANGED vars
  BY <1>3, WorldMoves
<1>. QED
  BY <1>1, <1>2, <1>3 DEF Next

-----------------------------------------------------------------------------
(* The table.                                                              *)

\* A row goes in: its keys are free, and its payment is settled.
NewRow(k, u, t) ==
    /\ ~UrlTaken(u)
    /\ ~Violates(k, t)
    /\ IF PaymentEnabled THEN t \in settled ELSE t = NoPayment
    /\ AddRow(k, u, t)

\* All a step does to the table and to the chain: nothing, one transfer, or
\* one row.
LEMMA StoreStep ==
    ASSUME TypeOK, HandlersOK, [Next]_vars
    PROVE  \/ rows' = rows /\ settled' = settled
           \/ rows' = rows /\ \E p \in Payments : settled' = settled \cup {p}
           \/ /\ settled' = settled
              /\ \E k \in Codes, u \in Urls, t \in Payments \cup {NoPayment} :
                    NewRow(k, u, t)
<1>. DEFINE Goal ==
           \/ rows' = rows /\ settled' = settled
           \/ rows' = rows /\ \E p \in Payments : settled' = settled \cup {p}
           \/ /\ settled' = settled
              /\ \E k \in Codes, u \in Urls, t \in Payments \cup {NoPayment} :
                    NewRow(k, u, t)
<1>1. ASSUME NEW c \in Clients, FacilitatorUnreachable(c) PROVE Goal
  BY <1>1 DEF FacilitatorUnreachable, Transfer, HandlersOK, HandlerOK, At,
              storeVars, facilitatorVars
<1>2. ASSUME NEW c \in Clients, SettleSucceeds(c) PROVE Goal
  BY <1>2 DEF SettleSucceeds, Transfer, HandlersOK, HandlerOK, At, storeVars
<1>3. ASSUME NEW c \in Clients, At(c, "insert"), NEW k \in Codes,
             settled' = settled, ~UrlTaken(req[c].url),
             ~Violates(k, req[c].tx), AddRow(k, req[c].url, req[c].tx)
      PROVE  Goal
  <2>1. req[c].url \in Urls /\ req[c].tx \in Payments \cup {NoPayment}
    BY DEF TypeOK, Request
  <2>2. IF PaymentEnabled THEN req[c].tx \in settled ELSE req[c].tx = NoPayment
    BY <1>3 DEF HandlersOK, HandlerOK, At
  <2>. QED
    BY <1>3, <2>1, <2>2 DEF NewRow
<1>4. ASSUME NEW c \in Clients, Insert(c) PROVE Goal
  <2>1. PICK k \in Codes :
           IF PaymentEnabled THEN InsertPaid(c, k) ELSE InsertFree(c, k)
    BY <1>4 DEF Insert
  <2>2. At(c, "insert") /\ settled' = settled
    BY <1>4 DEF Insert, facilitatorVars
  <2>3. CASE PaymentEnabled
    BY <1>3, <2>1, <2>2, <2>3 DEF InsertPaid
  <2>4. CASE ~PaymentEnabled
    <3>1. req[c].tx = NoPayment
      BY <2>4 DEF HandlersOK, HandlerOK
    <3>. QED
      BY <1>3, <2>1, <2>2, <2>4, <3>1 DEF InsertFree
  <2>. QED
    BY <2>3, <2>4
<1>5. ASSUME NEW c \in Clients, InsertUnacknowledged(c) PROVE Goal
  BY <1>3, <1>5 DEF InsertUnacknowledged, facilitatorVars
<1>. QED
  BY <1>1, <1>2, <1>4, <1>5
     DEF Next, vars, Handler, Environment, Ask, Retry, Arrive, Acquire,
         Select, VerifyAccepts, VerifyRejects, SettleFails, Reselect,
         CacheAndAnswer, DatabaseFails, PostgresCrash, PostgresRestart,
         Connect, PodCrash, Forget, DeadlinePasses, Expire, facilitatorVars,
         storeVars, worldVars

\* The table stays paid for and free of duplicates: a row goes in only past
\* the keys of the table, and only for a settled payment.
LEMMA RowsStep ==
    ASSUME TypeOK, HandlersOK, RowsArePaid, RowsAreUnique, [Next]_vars
    PROVE  RowsArePaid' /\ RowsAreUnique'
<1>1. CASE rows' = rows
  BY <1>1, Growth DEF RowsArePaid, RowsAreUnique
<1>2. ASSUME NEW k \in Codes, NEW u \in Urls,
             NEW t \in Payments \cup {NoPayment}, NewRow(k, u, t),
             settled' = settled
      PROVE  RowsArePaid' /\ RowsAreUnique'
  <2>1. RowsArePaid'
    BY <1>2 DEF NewRow, AddRow, RowsArePaid
  <2>2. RowsAreUnique'
    BY <1>2 DEF NewRow, AddRow, RowsAreUnique, UrlTaken, Violates
  <2>. QED
    BY <2>1, <2>2
<1>. QED
  BY <1>1, <1>2, StoreStep

-----------------------------------------------------------------------------
(* What clients are told.                                                  *)

\* A client whose record keeps the fields HasRow reads keeps its row.
LEMMA KeepsRow ==
    ASSUME [Next]_vars, ToldHasRow, NEW d \in Clients,
           Told(d)' => /\ Told(d)
                       /\ Creates(d)' => Creates(d)
                       /\ req'[d].url = req[d].url
                       /\ req'[d].code = req[d].code
                       /\ req'[d].tx = req[d].tx
    PROVE  Told(d)' => HasRow(d)'
BY Growth DEF ToldHasRow, HasRow

\* An answer other than 200 and 201 tells nothing.
LEMMA UntoldAnswer ==
    ASSUME TypeOK, [Next]_vars, ToldHasRow, NEW c \in Clients, NEW s, NEW k,
           s \notin {"200", "201"}, Answer(c, s, k), NEW d \in Clients
    PROVE  Told(d)' => HasRow(d)'
<1>1. CASE d # c
  BY <1>1, AnswerFields, KeepsRow DEF Told, Creates
<1>2. CASE d = c
  <2>1. req'[d].pc = "idle" /\ req'[d].status = s
    BY <1>2, AnswerFields
  <2>. QED
    BY <2>1 DEF Told, Creates
<1>. QED
  BY <1>1, <1>2

\* Neither does a move to a point before the INSERT is done.
LEMMA UntoldGoto ==
    ASSUME TypeOK, [Next]_vars, ToldHasRow, NEW c \in Clients, NEW pc,
           pc \notin {"idle", "setex"}, Goto(c, pc), NEW d \in Clients
    PROVE  Told(d)' => HasRow(d)'
<1>1. CASE d # c
  BY <1>1, GotoFields, KeepsRow DEF Told, Creates
<1>2. CASE d = c
  BY <1>2, GotoFields DEF Told, Creates
<1>. QED
  BY <1>1, <1>2

\* The answer to a failed statement is neither 200 nor 201.
LEMMA ErrorTellsNothing ==
    ASSUME NEW e PROVE ErrorStatus(e) \notin {"200", "201"}
BY DEF ErrorStatus

\* 200 names a row that is there.
LEMMA ExistingIsStored ==
    ASSUME TypeOK, [Next]_vars, ToldHasRow, NEW c \in Clients,
           AnswerExisting(c), NEW d \in Clients
    PROVE  Told(d)' => HasRow(d)'
<1>1. PICK r \in rows : r.url = req[c].url /\ Answer(c, "200", r.code)
  BY DEF AnswerExisting
<1>2. CASE d # c
  BY <1>1, <1>2, AnswerFields, KeepsRow DEF Told, Creates
<1>3. CASE d = c
  <2>1. /\ req'[d].pc = "idle" /\ req'[d].status = "200"
        /\ req'[d].code = r.code /\ req'[d].url = r.url
    BY <1>1, <1>3, AnswerFields
  <2>2. r \in rows'
    BY <1>1, Growth
  <2>. QED
    BY <2>1, <2>2 DEF HasRow, Creates
<1>. QED
  BY <1>2, <1>3

\* A handler that goes on to SETEX does so with the code of a row.
LEMMA CreatedIsStored ==
    ASSUME TypeOK, [Next]_vars, ToldHasRow, NEW c \in Clients, NEW r \in rows',
           r.url = req[c].url, PaymentEnabled => r.tx = req[c].tx,
           Created(c, r.code), NEW d \in Clients
    PROVE  Told(d)' => HasRow(d)'
<1>1. CASE d # c
  BY <1>1, CreatedFields, KeepsRow DEF Told, Creates
<1>2. CASE d = c
  <2>1. /\ req'[d].code = r.code /\ req'[d].url = r.url
        /\ PaymentEnabled => r.tx = req'[d].tx
    BY <1>2, CreatedFields
  <2>. QED
    BY <2>1 DEF HasRow
<1>. QED
  BY <1>1, <1>2

\* A request that arrives, or is refused for want of a pool, tells nothing.
LEMMA ArriveTellsNothing ==
    ASSUME TypeOK, [Next]_vars, ToldHasRow, NEW c \in Clients, NEW p, NEW u,
           NEW s, Arrive(c, p, u, s), NEW d \in Clients
    PROVE  Told(d)' => HasRow(d)'
<1>1. req \in [Clients -> Request]
  BY DEF TypeOK
<1>2. CASE d # c
  <2>1. req'[d] = req[d]
    BY <1>1, <1>2 DEF Arrive
  <2>. QED
    BY <2>1, KeepsRow DEF Told, Creates
<1>3. CASE d = c
  <2>1. req'[d].pc \in {"acquire", "idle"} /\ req'[d].status \in {"none", "503"}
    BY <1>1, <1>3 DEF Arrive
  <2>. QED
    BY <2>1 DEF Told, Creates
<1>. QED
  BY <1>2, <1>3

\* What clients were told keeps its row: rows are never taken back, and only
\* a handler that read or inserted the row names it in an answer.
LEMMA ToldStep ==
    ASSUME TypeOK, HandlersOK, ToldHasRow, [Next]_vars
    PROVE  ToldHasRow'
<1> SUFFICES ASSUME NEW d \in Clients PROVE Told(d)' => HasRow(d)'
  BY DEF ToldHasRow
<1>. DEFINE Goal == Told(d)' => HasRow(d)'
<1>1. ASSUME NEW c \in Clients, Ask(c) PROVE Goal
  BY <1>1, ArriveTellsNothing DEF Ask
<1>2. ASSUME NEW c \in Clients, Retry(c) PROVE Goal
  BY <1>2, ArriveTellsNothing DEF Retry
<1>3. ASSUME NEW c \in Clients, Acquire(c) PROVE Goal
  BY <1>3, UntoldGoto DEF Acquire
<1>4. ASSUME NEW c \in Clients, Select(c) PROVE Goal
  BY <1>4, UntoldGoto, UntoldAnswer, ExistingIsStored DEF Select
<1>5. ASSUME NEW c \in Clients, VerifyAccepts(c) PROVE Goal
  BY <1>5, UntoldGoto DEF VerifyAccepts
<1>6. ASSUME NEW c \in Clients, VerifyRejects(c) PROVE Goal
  BY <1>6, UntoldAnswer DEF VerifyRejects
<1>7. ASSUME NEW c \in Clients, FacilitatorUnreachable(c) PROVE Goal
  BY <1>7, UntoldAnswer DEF FacilitatorUnreachable
<1>8. ASSUME NEW c \in Clients, SettleSucceeds(c) PROVE Goal
  <2>1. req \in [Clients -> Request] /\ req[c] \in Request
    BY DEF TypeOK
  <2>2. CASE d # c
    <3>1. req'[d] = req[d]
      BY <1>8, <2>1, <2>2 DEF SettleSucceeds
    <3>. QED
      BY <3>1, KeepsRow DEF Told, Creates
  <2>3. CASE d = c
    <3>1. req'[d].pc = "insert"
      BY <1>8, <2>1, <2>3 DEF SettleSucceeds, Request
    <3>. QED
      BY <3>1 DEF Told, Creates
  <2>. QED
    BY <2>2, <2>3
<1>9. ASSUME NEW c \in Clients, SettleFails(c) PROVE Goal
  BY <1>9, UntoldAnswer DEF SettleFails
<1>10. ASSUME NEW c \in Clients, Insert(c) PROVE Goal
  <2>1. PICK k \in Codes :
           IF PaymentEnabled THEN InsertPaid(c, k) ELSE InsertFree(c, k)
    BY <1>10 DEF Insert
  <2>2. ASSUME NEW t, AddRow(k, req[c].url, t), PaymentEnabled => t = req[c].tx,
               Created(c, k)
        PROVE  Goal
    <3>. DEFINE r == [code |-> k, url |-> req[c].url, tx |-> t]
    <3>1. r \in rows'
      BY <2>2 DEF AddRow
    <3>2. r.url = req[c].url /\ r.code = k /\ r.tx = t
      OBVIOUS
    <3>. HIDE DEF r
    <3>. QED
      BY <2>2, <3>1, <3>2, CreatedIsStored
  <2>3. ASSUME ~PaymentEnabled, NEW r \in rows, rows' = rows,
               r.url = req[c].url, Created(c, r.code)
        PROVE  Goal
    BY <2>3, CreatedIsStored
  <2>4. CASE PaymentEnabled
    BY <2>1, <2>2, <2>4, UntoldGoto, UntoldAnswer DEF InsertPaid
  <2>5. CASE ~PaymentEnabled
    BY <2>1, <2>2, <2>3, <2>5, UntoldAnswer DEF InsertFree
  <2>. QED
    BY <2>4, <2>5
<1>11. ASSUME NEW c \in Clients, InsertUnacknowledged(c) PROVE Goal
  BY <1>11, UntoldAnswer, ErrorTellsNothing DEF InsertUnacknowledged
<1>12. ASSUME NEW c \in Clients, Reselect(c) PROVE Goal
  BY <1>12, UntoldAnswer, ExistingIsStored DEF Reselect
<1>13. ASSUME NEW c \in Clients, CacheAndAnswer(c) PROVE Goal
  <2>1. CASE d # c
    BY <1>13, <2>1, AnswerFields, KeepsRow DEF CacheAndAnswer, Told, Creates
  <2>2. CASE d = c
    <3>1. req[d].pc = "setex" /\ Answer(d, "201", req[d].code)
      BY <1>13, <2>2 DEF CacheAndAnswer, At
    <3>2. /\ req'[d].code = req[d].code
          /\ req'[d].url = req[d].url
          /\ req'[d].tx = req[d].tx
      BY <3>1, AnswerFields
    <3>. QED
      BY <3>1, <3>2, KeepsRow DEF Told, Creates
  <2>. QED
    BY <2>1, <2>2
<1>14. ASSUME NEW c \in Clients, DatabaseFails(c) PROVE Goal
  BY <1>14, UntoldAnswer, ErrorTellsNothing DEF DatabaseFails
<1>15. CASE PostgresCrash
  <2>1. /\ req'[d].pc = req[d].pc /\ req'[d].status = req[d].status
        /\ req'[d].url = req[d].url /\ req'[d].code = req[d].code
        /\ req'[d].tx = req[d].tx
    BY <1>15 DEF PostgresCrash, TypeOK, Request
  <2>. QED
    BY <2>1, KeepsRow DEF Told, Creates
<1>16. ASSUME NEW p \in Pods, PodCrash(p) PROVE Goal
  <2>1. CASE req'[d] = req[d]
    BY <2>1, KeepsRow DEF Told, Creates
  <2>2. CASE req'[d].pc = "idle" /\ req'[d].status = "lost"
    BY <2>2 DEF Told, Creates
  <2>. QED
    BY <1>16, <2>1, <2>2 DEF PodCrash, TypeOK, Request
<1>17. CASE UNCHANGED req
  BY <1>17, KeepsRow DEF Told, Creates
<1>. QED
  BY <1>1, <1>2, <1>3, <1>4, <1>5, <1>6, <1>7, <1>8, <1>9, <1>10, <1>11,
     <1>12, <1>13, <1>14, <1>15, <1>16, <1>17
     DEF Next, Handler, Environment, PostgresRestart, Connect, Forget,
         DeadlinePasses, vars

-----------------------------------------------------------------------------
(* Who is told to have created a URL.                                      *)

\* With payments on, a client becomes a creator by inserting the row of a
\* URL that had none; no other record changes in that step.
LEMMA CreatorStep ==
    ASSUME TypeOK, [Next]_vars, PaymentEnabled, NEW d \in Clients, Creates(d)'
    PROVE  /\ req'[d].url = req[d].url
           /\ \/ Creates(d)
              \/ /\ ~UrlTaken(req[d].url)
                 /\ \A e \in Clients : e # d => req'[e] = req[e]
<1>. DEFINE Goal ==
           /\ req'[d].url = req[d].url
           /\ \/ Creates(d)
              \/ /\ ~UrlTaken(req[d].url)
                 /\ \A e \in Clients : e # d => req'[e] = req[e]
<1>1. CASE req'[d] = req[d]
  BY <1>1 DEF Creates
<1>2. CASE req'[d].pc = "idle" /\ req'[d].status # "201"
  BY <1>2 DEF Creates
<1>3. CASE req'[d].pc \notin {"idle", "setex"}
  BY <1>3 DEF Creates
<1>. USE <1>1, <1>2, <1>3
<1>4. ASSUME NEW c \in Clients, NEW s, NEW k, Answer(c, s, k), s # "201"
      PROVE  Goal
  BY <1>4, AnswerFields
<1>5. ASSUME NEW c \in Clients, NEW pc, Goto(c, pc), pc \notin {"idle", "setex"}
      PROVE  Goal
  BY <1>5, GotoFields
<1>6. ASSUME NEW c \in Clients, NEW p, NEW u, NEW s, Arrive(c, p, u, s)
      PROVE  Goal
  BY <1>6 DEF Arrive, TypeOK
<1>7. ASSUME NEW c \in Clients, Select(c) PROVE Goal
  BY <1>4, <1>5, <1>7 DEF Select, AnswerExisting
<1>8. ASSUME NEW c \in Clients, SettleSucceeds(c) PROVE Goal
  BY <1>8 DEF SettleSucceeds, TypeOK, Request
<1>9. ASSUME NEW c \in Clients, Insert(c) PROVE Goal
  <2>1. PICK k \in Codes : InsertPaid(c, k)
    BY <1>9 DEF Insert
  <2>2. CASE Created(c, k) /\ ~UrlTaken(req[c].url)
    BY <2>2, CreatedFields
  <2>. QED
    BY <1>4, <1>5, <2>1, <2>2 DEF InsertPaid
<1>10. ASSUME NEW c \in Clients, InsertUnacknowledged(c) PROVE Goal
  BY <1>4, <1>10, ErrorTellsNothing DEF InsertUnacknowledged
<1>11. ASSUME NEW c \in Clients, Reselect(c) PROVE Goal
  BY <1>4, <1>11 DEF Reselect, AnswerExisting
<1>12. ASSUME NEW c \in Clients, CacheAndAnswer(c) PROVE Goal
  BY <1>12, AnswerFields DEF CacheAndAnswer, At, Creates
<1>13. ASSUME NEW c \in Clients, DatabaseFails(c) PROVE Goal
  BY <1>4, <1>13, ErrorTellsNothing DEF DatabaseFails
<1>14. CASE PostgresCrash
  BY <1>14 DEF PostgresCrash, TypeOK, Request, Creates
<1>15. ASSUME NEW p \in Pods, PodCrash(p) PROVE Goal
  BY <1>15 DEF PodCrash, TypeOK, Request, Creates
<1>16. CASE UNCHANGED req
  BY <1>16
<1>17. ASSUME NEW c \in Clients,
              \/ Ask(c) \/ Retry(c) \/ Acquire(c) \/ VerifyAccepts(c)
              \/ VerifyRejects(c) \/ FacilitatorUnreachable(c) \/ SettleFails(c)
       PROVE  Goal
  BY <1>4, <1>5, <1>6, <1>17
     DEF Ask, Retry, Acquire, VerifyAccepts, VerifyRejects,
         FacilitatorUnreachable, SettleFails
<1>. QED
  BY <1>7, <1>8, <1>9, <1>10, <1>11, <1>12, <1>13, <1>14, <1>15, <1>16, <1>17
     DEF Next, Handler, Environment, PostgresRestart, Connect, Forget,
         DeadlinePasses, vars

\* Two creators differ in their URL: the later one found no row for its URL,
\* the earlier one has a row for its own.
LEMMA CreatorsStep ==
    ASSUME TypeOK, ToldHasRow, DistinctCreators, [Next]_vars
    PROVE  DistinctCreators'
<1> SUFFICES ASSUME PaymentEnabled, NEW c \in Clients, NEW d \in Clients,
                    c # d, Creates(c)', Creates(d)'
             PROVE  req'[c].url # req'[d].url
  BY DEF DistinctCreators
<1>1. ASSUME NEW e \in Clients, Creates(e) PROVE UrlTaken(req[e].url)
  BY <1>1 DEF ToldHasRow, Told, HasRow, UrlTaken
<1>2. CASE Creates(c) /\ Creates(d)
  BY <1>2, CreatorStep DEF DistinctCreators
<1>3. ASSUME NEW x \in Clients, NEW y \in Clients, x # y, Creates(x)',
             Creates(y)', ~Creates(x)
      PROVE  req'[x].url # req'[y].url
  <2>1. /\ req'[x].url = req[x].url
        /\ ~UrlTaken(req[x].url)
        /\ req'[y] = req[y]
    BY <1>3, CreatorStep
  <2>2. Creates(y)
    BY <1>3, <2>1 DEF Creates
  <2>. QED
    BY <1>1, <2>1, <2>2
<1>. QED
  BY <1>2, <1>3

-----------------------------------------------------------------------------
(* The cache.                                                              *)

\* Only a handler at SETEX writes to the cache, and it has a row to name.
LEMMA CacheStep ==
    ASSUME TypeOK, ToldHasRow, CacheAgrees, [Next]_vars
    PROVE  CacheAgrees'
<1>1. CASE cache' = cache
  BY <1>1, Growth DEF CacheAgrees
<1>2. ASSUME NEW c \in Clients, CacheAndAnswer(c) PROVE CacheAgrees'
  <2>1. cache' = cache \/ cache' = [cache EXCEPT ![req[c].code] = req[c].url]
    BY <1>2 DEF CacheAndAnswer
  <2>2. HasRow(c) /\ rows' = rows
    BY <1>2 DEF CacheAndAnswer, At, ToldHasRow, Told, Creates
  <2>. QED
    BY <1>1, <2>1, <2>2 DEF CacheAgrees, HasRow, TypeOK
<1>3. ASSUME NEW k \in Codes, Forget(k) PROVE CacheAgrees'
  BY <1>3 DEF Forget, CacheAgrees, TypeOK
<1>. QED
  BY <1>1, <1>2, <1>3
     DEF Next, vars, Handler, Environment, Ask, Retry, Arrive, Acquire, Select,
         VerifyAccepts, VerifyRejects, FacilitatorUnreachable, SettleSucceeds,
         SettleFails, Insert, InsertUnacknowledged, Reselect, DatabaseFails,
         PostgresCrash, PostgresRestart, Connect, PodCrash, DeadlinePasses,
         storeVars

-----------------------------------------------------------------------------
(* Theorems.                                                               *)

\* The inductive invariant holds before the first request.
LEMMA IInvInit == Init => IInv
<1> SUFFICES ASSUME Init PROVE IInv
  OBVIOUS
<1>1. req \in [Clients -> Request] /\ \A c \in Clients : At(c, "idle")
                /\ req[c].status = "none" /\ req[c].tx = NoPayment
  BY DEF Init, Request, Points, Statuses, At
<1>2. TypeOK
  BY <1>1, ShortenAssumption
     DEF Init, TypeOK, FacilitatorInit, FacilitatorTypeOK
<1>3. HandlersOK /\ OwnSettlement /\ ToldHasRow /\ DistinctCreators
  BY <1>1 DEF HandlersOK, HandlerOK, OwnSettlement, ToldHasRow, Told, Creates,
              DistinctCreators, At
<1>4. RowsArePaid /\ RowsAreUnique /\ CacheAgrees
  BY DEF Init, RowsArePaid, RowsAreUnique, CacheAgrees
<1>. QED
  BY <1>2, <1>3, <1>4 DEF IInv

\* Every step of a handler or of the world around it preserves it.
LEMMA IInvStep == IInv /\ [Next]_vars => IInv'
BY TypeStep, HandlersStep, OwnStep, RowsStep, ToldStep, CreatorsStep, CacheStep
   DEF IInv

\* The invariant from which the theorems below follow holds in every state.
THEOREM Inductive == Spec => []IInv
BY IInvInit, IInvStep, PTL DEF Spec

\* Every variable keeps its type.
THEOREM TypeCorrect == Spec => []TypeOK
<1>1. IInv => TypeOK
  BY DEF IInv
<1>. QED
  BY <1>1, Inductive, PTL

\* Whatever crashes, times out or races, a row of the table names a payment
\* that was settled before the row was inserted.
THEOREM EveryRowIsPaid == Spec => []RowsArePaid
<1>1. IInv => RowsArePaid
  BY DEF IInv
<1>. QED
  BY <1>1, Inductive, PTL

\* No replay, race or retry puts two rows with one URL, one code or one
\* settlement into the table.
THEOREM UniqueRows == Spec => []RowsAreUnique
<1>1. IInv => RowsAreUnique
  BY DEF IInv
<1>. QED
  BY <1>1, Inductive, PTL

\* What a client was answered with 200 or 201 is, and stays, in the table.
THEOREM AnswersAreDurable == Spec => []AnsweredIsStored
<1>1. IInv => AnsweredIsStored
  BY DEF IInv, AnsweredIsStored, ToldHasRow, Told, Creates, HasRow, At
<1>. QED
  BY <1>1, Inductive, PTL

\* At most one request is told that it created a given URL.
THEOREM CreatedOnce == Spec => []OneCreator
<1>1. IInv => OneCreator
  BY DEF IInv, OneCreator, DistinctCreators, Creates, At
<1>. QED
  BY <1>1, Inductive, PTL

\* A cached redirect is the redirect of the table.
THEOREM CacheIsRight == Spec => []CacheAgrees
<1>1. IInv => CacheAgrees
  BY DEF IInv
<1>. QED
  BY <1>1, Inductive, PTL

\* The empty table is the empty registry.
LEMMA RegistryInit == Init => Registry!Init
BY DEF Init, FacilitatorInit, Registry!Init

\* A step is a payment, an entry of the registry, or leaves both alone.
LEMMA RegistryStep ==
    ASSUME TypeOK, HandlersOK, [Next]_vars
    PROVE  [Registry!Next]_(Registry!vars)
<1>1. CASE rows' = rows /\ settled' = settled
  BY <1>1 DEF Registry!vars
<1>2. ASSUME NEW p \in Payments, rows' = rows, settled' = settled \cup {p}
      PROVE  Registry!Next
  BY <1>2 DEF Registry!Next, Registry!Pay
<1>3. ASSUME NEW k \in Codes, NEW u \in Urls,
             NEW t \in Payments \cup {NoPayment}, NewRow(k, u, t),
             settled' = settled
      PROVE  Registry!Next
  <2>1. Registry!Register(k, u, t)
    BY <1>3 DEF NewRow, UrlTaken, Violates, AddRow, Registry!Register
  <2>. QED
    BY <2>1 DEF Registry!Next
<1>. QED
  BY <1>1, <1>2, <1>3, StoreStep

\* The table under concurrent handlers, lost answers and crashes is the
\* registry of PaidUrls: each entry permanent, unique and paid beforehand.
THEOREM TableIsRegistry == Spec => ImplementsRegistry
<1>1. IInv => TypeOK /\ HandlersOK
  BY DEF IInv
<1>2. IInv /\ [Next]_vars => [Registry!Next]_(Registry!vars)
  BY <1>1, RegistryStep
<1>. QED
  BY <1>2, RegistryInit, Inductive, PTL
     DEF Spec, ImplementsRegistry, Registry!Spec

\* A short URL once given and a settlement once made are never taken back or
\* changed.
Permanent == [][rows \subseteq rows' /\ settled \subseteq settled']_<<settled, rows>>

\* The abstract specification says what it is there to say: from its own rules
\* alone every entry is paid, nothing belongs to two entries, and entries are
\* permanent.  So does whatever implements it.
LEMMA RegistryIsSound ==
    ImplementsRegistry => /\ [](RowsArePaid /\ RowsAreUnique)
                          /\ Permanent
<1>. DEFINE Sound == RowsArePaid /\ RowsAreUnique
<1>. USE DEF Registry!vars
<1>1. Registry!Init => Sound
  BY DEF Registry!Init, RowsArePaid, RowsAreUnique
<1>2. ASSUME NEW k \in Codes, NEW u \in Urls,
             NEW t \in Payments \cup {NoPayment},
             Registry!Register(k, u, t)
      PROVE  /\ Sound => Sound'
             /\ rows \subseteq rows' /\ settled \subseteq settled'
  <2>. DEFINE e == [code |-> k, url |-> u, tx |-> t]
  <2>1. /\ rows' = rows \cup {e}
        /\ settled' = settled
        /\ PaymentEnabled => t \in settled
        /\ \A r \in rows : r.url # u /\ r.code # k
        /\ t # NoPayment => \A r \in rows : r.tx # t
    BY <1>2 DEF Registry!Register
  <2>2. e.code = k /\ e.url = u /\ e.tx = t
    OBVIOUS
  <2>. HIDE DEF e
  <2>. QED
    BY <2>1, <2>2 DEF RowsArePaid, RowsAreUnique
<1>3. [Registry!Next]_(Registry!vars)
        => /\ Sound => Sound'
           /\ rows \subseteq rows' /\ settled \subseteq settled'
  <2>1. ASSUME NEW p \in Payments, Registry!Pay(p)
        PROVE  /\ Sound => Sound'
               /\ rows \subseteq rows' /\ settled \subseteq settled'
    BY <2>1 DEF Registry!Pay, RowsArePaid, RowsAreUnique
  <2>2. CASE UNCHANGED Registry!vars
    BY <2>2 DEF RowsArePaid, RowsAreUnique
  <2>. QED
    BY <1>2, <2>1, <2>2 DEF Registry!Next
<1>. QED
  BY <1>1, <1>3, PTL DEF ImplementsRegistry, Registry!Spec, Permanent

\* No handler, outage, crash or lost answer changes or removes a short URL:
\* none of the statements of main.py and payment.py takes a row back, not even
\* the upsert of the unpaid path, which writes to the row it conflicts with.
THEOREM UrlsArePermanent == Spec => Permanent
BY TableIsRegistry, RegistryIsSound, PTL

-----------------------------------------------------------------------------
(* Retries of a settled payment.                                           *)

\* What a step that answers a client has to do with the answer: a refusal
\* (402) has one of three reasons, and a conflict (409) is one of the INSERT.
Ending(c) ==
    \/ req'[c].status \in Undecided \cup {"200", "201"}
    \/ /\ req'[c].status = "402"
       /\ \/ req[c].sig \in {NoPayment, BadHeader}
          \/ /\ At(c, "verify")
             /\ MayRejectVerify(req[c].sig)
          \/ /\ At(c, "settle")
             /\ req[c].sig \notin settled
       /\ UNCHANGED facilitatorVars
    \/ /\ req'[c].status = "409"
       /\ PaymentEnabled
       /\ At(c, "insert")
       /\ \E k \in Codes : Violates(k, req[c].tx)

\* Nothing else ends a request.
LEMMA EndingStep ==
    ASSUME TypeOK, [Next]_vars, NEW d \in Clients,
           req[d].pc # "idle", req'[d].pc = "idle"
    PROVE  Ending(d)
<1>1. CASE req'[d].pc = req[d].pc
  BY <1>1
<1>2. ASSUME NEW c \in Clients, NEW s, NEW k, Answer(c, s, k),
             c = d => s \in Undecided \cup {"200", "201"} \/ Ending(d)
      PROVE  Ending(d)
  BY <1>1, <1>2, AnswerFields DEF Ending
<1>3. ASSUME NEW c \in Clients, NEW pc, Goto(c, pc), pc # "idle"
      PROVE  Ending(d)
  BY <1>1, <1>3, GotoFields
<1>4. ASSUME NEW c \in Clients, NEW k, Created(c, k) PROVE Ending(d)
  BY <1>1, <1>4, CreatedFields
<1>5. ASSUME NEW c \in Clients, Ask(c) \/ Retry(c) PROVE Ending(d)
  BY <1>1, <1>5, ArrivalMoves
<1>6. ASSUME NEW c \in Clients, Select(c) PROVE Ending(d)
  <2>1. CASE Answer(c, "402", NoCode) /\ req[c].sig \in {NoPayment, BadHeader}
    BY <1>1, <1>6, <2>1, AnswerFields DEF Ending, Select
  <2>. QED
    BY <1>2, <1>3, <1>6, <2>1 DEF Select, AnswerExisting
<1>7. ASSUME NEW c \in Clients, SettleSucceeds(c) PROVE Ending(d)
  BY <1>1, <1>7 DEF SettleSucceeds, TypeOK, Request
<1>8. ASSUME NEW c \in Clients, VerifyRejects(c) \/ SettleFails(c)
      PROVE  Ending(d)
  <2>1. Answer(c, "402", NoCode) /\ UNCHANGED facilitatorVars
    BY <1>8 DEF VerifyRejects, SettleFails
  <2>2. \/ At(c, "verify") /\ MayRejectVerify(req[c].sig)
        \/ At(c, "settle") /\ req[c].sig \notin settled
    BY <1>8 DEF VerifyRejects, SettleFails
  <2>. QED
    BY <1>1, <2>1, <2>2, AnswerFields DEF Ending
<1>9. ASSUME NEW c \in Clients, Insert(c) PROVE Ending(d)
  <2>1. PICK k \in Codes :
           IF PaymentEnabled THEN InsertPaid(c, k) ELSE InsertFree(c, k)
    BY <1>9 DEF Insert
  <2>2. CASE PaymentEnabled /\ Violates(k, req[c].tx) /\ Answer(c, "409", NoCode)
    BY <1>1, <1>9, <2>2, AnswerFields DEF Ending, Insert
  <2>. QED
    BY <1>2, <1>3, <1>4, <2>1, <2>2 DEF InsertPaid, InsertFree, Undecided
<1>10. ASSUME NEW c \in Clients, Acquire(c) \/ VerifyAccepts(c)
       PROVE  Ending(d)
  BY <1>3, <1>10 DEF Acquire, VerifyAccepts
<1>11. ASSUME NEW c \in Clients,
              \/ FacilitatorUnreachable(c) \/ InsertUnacknowledged(c)
              \/ Reselect(c) \/ CacheAndAnswer(c) \/ DatabaseFails(c)
       PROVE  Ending(d)
  BY <1>2, <1>11, ErrorStatusType
     DEF FacilitatorUnreachable, InsertUnacknowledged, Reselect,
         AnswerExisting, CacheAndAnswer, DatabaseFails, Undecided
<1>12. CASE PostgresCrash
  BY <1>1, <1>12 DEF PostgresCrash, TypeOK, Request
<1>13. ASSUME NEW p \in Pods, PodCrash(p) PROVE Ending(d)
  BY <1>1, <1>13 DEF PodCrash, TypeOK, Request, Ending, Undecided
<1>14. CASE UNCHANGED req
  BY <1>1, <1>14
<1>. QED
  BY <1>5, <1>6, <1>7, <1>8, <1>9, <1>10, <1>11, <1>12, <1>13, <1>14
     DEF Next, Handler, Environment, PostgresRestart, Connect, Forget,
         DeadlinePasses, vars

\* A settled payment is not lost for any other reason, whatever crashed, timed
\* out or raced and whatever /verify says of a used nonce.
THEOREM SettledPaymentsAreKept == Spec => SettledIsKept
<1>. DEFINE Kept ==
        \A c \in Clients :
          (/\ req[c].pc # "idle" /\ req'[c].pc = "idle"
           /\ req[c].sig \in settled'
           /\ \A r \in rows : r.tx # req[c].sig) => SettledOutcome(c)
<1>1. ASSUME IInv, [Next]_vars, NEW c \in Clients,
             req[c].pc # "idle", req'[c].pc = "idle", req[c].sig \in settled',
             \A r \in rows : r.tx # req[c].sig
      PROVE  SettledOutcome(c)
  <2>1. TypeOK /\ TypeOK' /\ OwnSettlement /\ ToldHasRow'
    BY <1>1, IInvStep DEF IInv
  <2>2. req[c].sig \notin {NoPayment, BadHeader}
    BY <1>1, <2>1, ShortenAssumption DEF TypeOK, FacilitatorTypeOK
  <2>3. Ending(c)
    BY <1>1, <2>1, EndingStep
  <2>4. CASE req'[c].status \in {"200", "201"}
    <3>1. HasRow(c)'
      BY <1>1, <2>1, <2>4 DEF ToldHasRow, Told, Creates
    <3>2. req'[c].url = req[c].url
      <4>1. ASSUME NEW d \in Clients, Ask(d) \/ Retry(d)
            PROVE  req'[c].url = req[c].url
        BY <1>1, <2>1, <4>1, ArrivalMoves
      <4>2. ASSUME NEW d \in Clients, Handler(d)
            PROVE  req'[c].url = req[c].url
        BY <2>1, <4>2, HandlerMoves DEF Advances, SameRequest
      <4>3. CASE Environment \/ UNCHANGED vars
        BY <2>1, <4>3, WorldMoves DEF SameRequest
      <4>. QED
        BY <1>1, <4>1, <4>2, <4>3 DEF Next
    <3>. QED
      BY <2>4, <3>1, <3>2 DEF HasRow, SettledOutcome
  <2>5. ASSUME NEW k \in Codes, Violates(k, req[c].tx)
        PROVE  Violates(k, NoPayment)
    BY <1>1, <2>1, <2>5 DEF Violates, OwnSettlement
  <2>. QED
    BY <1>1, <2>2, <2>3, <2>4, <2>5
       DEF Ending, MayRejectVerify, SettledOutcome, facilitatorVars, At
<1>2. IInv /\ [Next]_vars => [Kept]_vars
  BY <1>1
<1>. QED
  BY <1>2, Inductive, PTL DEF Spec, SettledIsKept

-----------------------------------------------------------------------------
(* What a payment buys.                                                    *)

\* Whoever is told (201) that it created a URL signed the payment that is
\* recorded with the row: nobody's URL is paid for with another's settlement.
CreatorsPaid ==
    PaymentEnabled =>
        \A c \in Clients :
            At(c, "idle") /\ req[c].status = "201" =>
                \E r \in rows : /\ r.url = req[c].url
                                /\ r.code = req[c].code
                                /\ r.tx = req[c].sig

\* The settlement recorded with a created URL is its creator's.
THEOREM CreatorsPayThemselves == Spec => []CreatorsPaid
<1>1. IInv => CreatorsPaid
  <2>. SUFFICES ASSUME IInv, PaymentEnabled, NEW c \in Clients,
                       At(c, "idle"), req[c].status = "201"
                PROVE  \E r \in rows : /\ r.url = req[c].url
                                       /\ r.code = req[c].code
                                       /\ r.tx = req[c].sig
    BY DEF CreatorsPaid
  <2>1. PICK r \in rows : /\ r.url = req[c].url
                          /\ r.code = req[c].code
                          /\ r.tx = req[c].tx
    BY DEF IInv, ToldHasRow, Told, HasRow, Creates, At
  <2>2. r.tx # NoPayment
    BY ShortenAssumption DEF IInv, RowsArePaid, TypeOK, FacilitatorTypeOK
  <2>3. req[c].tx = req[c].sig
    BY <2>1, <2>2 DEF IInv, OwnSettlement
  <2>. QED
    BY <2>1, <2>3
<1>. QED
  BY <1>1, Inductive, PTL

\* The chain never holds more than finitely many settlements.
FiniteSettled == IsFiniteSet(settled)

\* The table holds no more URLs than payments were settled.
NoFreeUrls ==
    PaymentEnabled => /\ IsFiniteSet(rows)
                      /\ Cardinality(rows) <= Cardinality(settled)

LEMMA PaidRowsAreFew ==
    ASSUME TypeOK, RowsArePaid, RowsAreUnique, FiniteSettled
    PROVE  NoFreeUrls
<1>. SUFFICES ASSUME PaymentEnabled
              PROVE  /\ IsFiniteSet(rows)
                     /\ Cardinality(rows) <= Cardinality(settled)
  BY DEF NoFreeUrls
<1>. DEFINE payment == [r \in rows |-> r.tx]
<1>1. payment \in [rows -> settled]
  BY DEF RowsArePaid
<1>2. ASSUME NEW r \in rows, NEW s \in rows, payment[r] = payment[s]
      PROVE  r = s
  BY <1>1, <1>2, ShortenAssumption DEF RowsAreUnique, TypeOK, FacilitatorTypeOK
<1>3. payment \in Injection(rows, settled)
  BY <1>1, <1>2 DEF Injection, IsInjective
<1>. HIDE DEF payment
<1>. QED
  BY <1>3, FS_Injection DEF FiniteSettled

\* No race, replay, retry or crash yields a URL that no payment of its own
\* was settled for: rows never outnumber settlements.
THEOREM NoUrlIsFree == Spec => []NoFreeUrls
<1>1. Init => FiniteSettled
  BY FS_EmptySet DEF Init, FacilitatorInit, FiniteSettled
<1>2. IInv /\ FiniteSettled /\ [Next]_vars => FiniteSettled'
  BY StoreStep, FS_AddElement DEF IInv, FiniteSettled
<1>3. IInv /\ FiniteSettled => NoFreeUrls
  BY PaidRowsAreFew DEF IInv
<1>. QED
  BY <1>1, <1>2, <1>3, Inductive, PTL DEF Spec

-----------------------------------------------------------------------------
(* How long a request can take.                                            *)

\* A request in progress stays on its replica and never goes back: each step
\* of its handler ends it or takes it to a later point, so it asks for a
\* connection, reads the table, calls /verify and /settle and inserts at most
\* once each; what happens around it ends it or leaves it where it is.
Forward(c) ==
    /\ SameRequest(c)
    /\ \/ req'[c].pc = "idle"
       \/ Place[req'[c].pc] > Place[req[c].pc]
       \/ req'[c].pc = req[c].pc /\ ~Handler(c)

GoesForward == [][\A c \in Clients : req[c].pc # "idle" => Forward(c)]_vars

\* The variant behind EveryRequestEnds: the steps a handler still takes are
\* bounded by the points in front of it.
THEOREM RequestsGoForward == Spec => GoesForward
<1>1. ASSUME TypeOK, [Next]_vars, NEW c \in Clients, req[c].pc # "idle"
      PROVE  Forward(c)
  <2>1. CASE Handler(c)
    BY <1>1, <2>1, HandlerMoves DEF Advances, Forward
  <2>2. ASSUME ~Handler(c), NEW d \in Clients, Ask(d) \/ Retry(d) \/ Handler(d)
        PROVE  Forward(c)
    BY <1>1, <2>2, HandlerMoves, ArrivalMoves DEF Forward, SameRequest
  <2>3. CASE ~Handler(c) /\ (Environment \/ UNCHANGED vars)
    BY <1>1, <2>3, WorldMoves DEF Forward
  <2>. QED
    BY <1>1, <2>1, <2>2, <2>3 DEF Next
<1>2. TypeOK /\ [Next]_vars
         => [\A c \in Clients : req[c].pc # "idle" => Forward(c)]_vars
  BY <1>1
<1>. QED
  BY <1>2, TypeCorrect, PTL DEF Spec, GoesForward

-----------------------------------------------------------------------------
(* The pool of a replica.                                                  *)

Holders(p) == {c \in Clients : req[c].pod = p /\ req[c].pc \in Holding}

\* One more holder on a replica than before is a client that was waiting.
LEMMA HoldersStep ==
    ASSUME TypeOK, NEW c \in Clients, Ask(c) \/ Retry(c) \/ Handler(c),
           NEW p \in Pods
    PROVE  \/ Holders(p)' \subseteq Holders(p)
           \/ /\ At(c, "acquire")
              /\ req[c].pod = p
              /\ Holders(p)' \subseteq Holders(p) \cup {c}
<1>1. \A d \in Clients : d # c => req'[d] = req[d]
  BY HandlerMoves, ArrivalMoves
<1>2. CASE Ask(c) \/ Retry(c)
  <2>1. req'[c].pc \notin Holding
    BY <1>2, ArrivalMoves DEF Holding
  <2>. QED
    BY <1>1, <2>1 DEF Holders
<1>3. CASE Handler(c)
  <2>1. req'[c].pod = req[c].pod
    BY <1>3, HandlerMoves DEF Advances, SameRequest
  <2>2. req[c].pc \in Holding \/ At(c, "acquire")
    BY <1>3, HandlerMoves DEF TypeOK, Request, Points, At
  <2>. QED
    BY <1>1, <2>1, <2>2 DEF Holders
<1>. QED
  BY <1>2, <1>3

\* Crashes give connections back and nothing else moves one.
LEMMA HoldersElsewhere ==
    ASSUME TypeOK, Environment \/ UNCHANGED vars, NEW p \in Pods
    PROVE  Holders(p)' \subseteq Holders(p)
<1>1. "idle" \notin Holding
  BY DEF Holding
<1>. QED
  BY <1>1, WorldMoves DEF Holders, SameRequest

\* Whoever waits for a connection goes on only when one is free.
LEMMA WaitsForSlot ==
    ASSUME NEW c \in Clients, At(c, "acquire"), Handler(c)
    PROVE  SlotFree(c)
BY DEF At, Handler, Acquire, Select, VerifyAccepts, VerifyRejects,
       FacilitatorUnreachable, SettleSucceeds, SettleFails, Insert,
       InsertUnacknowledged, Reselect, CacheAndAnswer, DatabaseFails

\* max_size of the pool of each replica.
PoolIsBounded == \A p \in Pods : InUse(p) <= PoolMax

\* A set of holders that is below the bound may get one more.
LEMMA OneMore ==
    ASSUME NEW S, IsFiniteSet(S), NEW c, NEW T, T \subseteq S \cup {c},
           NEW n \in Nat, Cardinality(S) < n
    PROVE  IsFiniteSet(T) /\ Cardinality(T) <= n
<1>1. /\ IsFiniteSet(S \cup {c})
      /\ Cardinality(S) \in Nat
      /\ Cardinality(S \cup {c}) <= Cardinality(S) + 1
  BY FS_AddElement, FS_CardinalityType
<1>2. /\ IsFiniteSet(T)
      /\ Cardinality(T) <= Cardinality(S \cup {c})
      /\ Cardinality(T) \in Nat /\ Cardinality(S \cup {c}) \in Nat
  BY <1>1, FS_Subset, FS_CardinalityType
<1>. QED
  BY <1>1, <1>2

\* However handlers, crashes and lost answers interleave, POST /shorten never
\* holds more connections of a replica than its pool has.
THEOREM PoolIsNeverExceeded ==
    ASSUME IsFiniteSet(Clients)
    PROVE  Spec => []PoolIsBounded
<1>1. \A p : IsFiniteSet(Holders(p)) /\ Cardinality(Holders(p)) \in Nat
  BY FS_Subset, FS_CardinalityType DEF Holders
<1>2. Init => PoolIsBounded
  <2>. SUFFICES ASSUME Init, NEW p \in Pods PROVE InUse(p) <= PoolMax
    BY DEF PoolIsBounded
  <2>1. Holders(p) = {}
    BY DEF Init, Holders, Holding
  <2>2. InUse(p) = 0
    BY <2>1, FS_EmptySet DEF InUse, Holders
  <2>. QED
    BY <2>2, ShortenAssumption
<1>3. TypeOK /\ PoolIsBounded /\ [Next]_vars => PoolIsBounded'
  <2>. SUFFICES ASSUME TypeOK, PoolIsBounded, [Next]_vars, NEW p \in Pods
                PROVE  Cardinality(Holders(p)') <= PoolMax
    BY DEF PoolIsBounded, InUse, Holders
  <2>1. Cardinality(Holders(p)) <= PoolMax
    BY DEF PoolIsBounded, InUse, Holders
  <2>2. CASE Holders(p)' \subseteq Holders(p)
    <3>1. Cardinality(Holders(p)') <= Cardinality(Holders(p))
          /\ Cardinality(Holders(p)') \in Nat
      BY <1>1, <2>2, FS_Subset, FS_CardinalityType
    <3>. QED
      BY <1>1, <2>1, <3>1, ShortenAssumption
  <2>3. ASSUME NEW c \in Clients, Ask(c) \/ Retry(c) \/ Handler(c),
               At(c, "acquire"), req[c].pod = p,
               Holders(p)' \subseteq Holders(p) \cup {c}
        PROVE  Cardinality(Holders(p)') <= PoolMax
    <3>1. Handler(c)
      BY <2>3, ArrivalMoves DEF At
    <3>2. Cardinality(Holders(p)) < PoolMax
      BY <2>3, <3>1, WaitsForSlot DEF SlotFree, InUse, Holders
    <3>. QED
      BY <1>1, <2>3, <3>2, OneMore, ShortenAssumption
  <2>. QED
    BY <2>2, <2>3, HoldersStep, HoldersElsewhere DEF Next
<1>. QED
  BY <1>2, <1>3, TypeCorrect, PTL DEF Spec

=============================================================================
