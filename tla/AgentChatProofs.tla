--------------------------- MODULE AgentChatProofs ---------------------------
(***************************************************************************)
(* Whatever the language model extracts, however handlings of one          *)
(* conversation interleave, and however often requests are retried,        *)
(* redelivered or cut off: an offer has the discount its message writes    *)
(* and the deal its conversation is about; whoever is told of an offer has *)
(* it; no request is lost, none makes more offers, or takes more handlings,*)
(* than it was delivered for; and the memory of unfinished offers is       *)
(* bounded.                                                                *)
(***************************************************************************)
EXTENDS AgentChat, SequenceTheorems, FiniteSetTheorems, WellFoundedInduction, TLAPS

(* A handling: a local of the type of module AgentChat.                    *)
LocalRec == [req : Requests, retry : 0..MaxRetries, at : Places,
             plan : Plan \cup {None}, answer : Answers \cup {None}]

RequestRec == [op : {"create", "approval"},
               id : Nat \X {"create", "approval"}, offer : Nat \X {"create", "approval"},
               by : {m.user : m \in ChatMessages}, deal : {m.deal : m \in ChatMessages},
               discount : {0} \cup Percents]

OfferRec == [deal : {m.deal : m \in ChatMessages}, by : {m.user : m \in ChatMessages},
             discount : {0} \cup Percents,
             status : {"draft", "approved", "pending_approval"}]

(* Somebody asked about the deal in the session.                           *)
DealAsked(user, chat, deal) ==
    /\ deal # None
    /\ \E r \in Requests : /\ asked[r] # None
                           /\ asked[r].user = user /\ asked[r].session = chat
                           /\ asked[r].deal = deal

(* The discount is the one the message writes, or none.                    *)
Sanctioned(m, d) == Valid(d) /\ (m.written = {d} \/ (d = 0 /\ ~m.mentions))

(* Places at which a handler has a plan, and at which its discount is set. *)
Planned == {"extract", "resume", "load", "text", "create", "submit"}
Priced == {"load", "text", "create", "submit"}

LocalOK(l) ==
    LET m == asked[l.req] IN
    /\ m # None
    /\ l.at \in Planned => l.plan \in Plan /\ DealAsked(m.user, m.session, l.plan.deal)
    /\ l.at \in Priced => Sanctioned(m, l.plan.discount)

(* An offer, stored or requested, that handling id[1] may make.            *)
Honest(id, by, deal, discount) ==
    LET m == asked[handling[id[1]].req] IN
    /\ id[1] \in DOMAIN handling
    /\ m # None
    /\ by = m.user
    /\ DealAsked(m.user, m.session, deal)
    /\ Sanctioned(m, discount)

HonestRequest(q) == q.op = "create" => Honest(q.id, q.by, q.deal, q.discount)

AskedOK == asked \in [Requests -> ChatMessages \cup {None}]

QueueOK ==
    /\ queue \in [Requests -> [0..MaxRetries -> Nat]]
    /\ \A r \in Requests : \A k \in 0..MaxRetries : queue[r][k] > 0 => asked[r] # None

HandlingOK ==
    /\ handling \in Seq(LocalRec)
    /\ \A h \in DOMAIN handling : LocalOK(handling[h])

PendingOK ==
    \A key \in DOMAIN pendingOffers :
        LET plan == pendingOffers[key].plan IN
        plan \in Plan /\ DealAsked(key[1], key[2], plan.deal)

RequestsOK ==
    /\ requests \in Seq(RequestRec)
    /\ \A i \in DOMAIN requests : HonestRequest(requests[i])

WorkingOK ==
    working # <<>> =>
        \E q, result, sent :
            /\ q \in RequestRec /\ HonestRequest(q)
            /\ working = <<[request |-> q, result |-> result, sent |-> sent]>>

OffersOK ==
    \A id \in DOMAIN offers :
        /\ offers[id] \in OfferRec
        /\ Honest(id, offers[id].by, offers[id].deal, offers[id].discount)

AgentInv == /\ AskedOK /\ QueueOK /\ HandlingOK /\ PendingOK
            /\ RequestsOK /\ WorkingOK /\ OffersOK

(* No step withdraws a message, or makes a handler forget its request.     *)
Remembers ==
    /\ \A r \in Requests : asked[r] # None => asked'[r] = asked[r]
    /\ \A h \in DOMAIN handling : h \in DOMAIN handling' /\ handling'[h].req = handling[h].req

---------------------------------------------------------------------------
LEMMA HandlingTyped ==
    ASSUME HandlingOK
    PROVE  /\ DOMAIN handling = 1..Len(handling) /\ Len(handling) \in Nat
           /\ \A h \in DOMAIN handling : handling[h] \in LocalRec /\ LocalOK(handling[h])
  BY LenProperties, ElementOfSeq DEF HandlingOK

LEMMA DealStaysAsked ==
    ASSUME Remembers, NEW user, NEW chat, NEW deal, DealAsked(user, chat, deal)
    PROVE  DealAsked(user, chat, deal)'
  BY DEF Remembers, DealAsked

LEMMA LocalStaysOK ==
    ASSUME Remembers, NEW l \in LocalRec, LocalOK(l)
    PROVE  LocalOK(l)'
  <1>1. PICK m : m = asked[l.req]  OBVIOUS
  <1>2. l.req \in Requests  BY DEF LocalRec
  <1>3. m # None /\ asked'[l.req] = m  BY <1>1, <1>2 DEF Remembers, LocalOK
  <1>4. ASSUME l.at \in Planned
        PROVE  l.plan \in Plan /\ DealAsked(m.user, m.session, l.plan.deal)'
    <2>1. l.plan \in Plan /\ DealAsked(m.user, m.session, l.plan.deal)
      BY <1>1, <1>4 DEF LocalOK
    <2>2. QED BY <2>1, DealStaysAsked
  <1>5. l.at \in Priced => Sanctioned(m, l.plan.discount)
    BY <1>1 DEF LocalOK
  <1>6. QED BY <1>3, <1>4, <1>5 DEF LocalOK

LEMMA HonestStays ==
    ASSUME Remembers, HandlingOK,
           NEW id, NEW by, NEW deal, NEW discount, Honest(id, by, deal, discount)
    PROVE  Honest(id, by, deal, discount)'
  <1>1. PICK h, r, m : h = id[1] /\ r = handling[h].req /\ m = asked[r]
    OBVIOUS
  <1>2. h \in DOMAIN handling /\ m # None  BY <1>1 DEF Honest
  <1>3. r \in Requests  BY <1>1, <1>2, HandlingTyped DEF LocalRec
  <1>4. h \in DOMAIN handling' /\ handling'[h].req = r /\ asked'[r] = m
    BY <1>1, <1>2, <1>3 DEF Remembers
  <1>5. DealAsked(m.user, m.session, deal)'
    BY <1>1, DealStaysAsked DEF Honest
  <1>6. by = m.user /\ Sanctioned(m, discount)  BY <1>1 DEF Honest
  <1>7. QED BY <1>1, <1>2, <1>4, <1>5, <1>6 DEF Honest

LEMMA HonestRequestStays ==
    ASSUME Remembers, HandlingOK, NEW q, HonestRequest(q)
    PROVE  HonestRequest(q)'
  BY HonestStays DEF HonestRequest

---------------------------------------------------------------------------
(* What stays as it was.                                                   *)

LEMMA PendingKept ==
    ASSUME Remembers, PendingOK, UNCHANGED pendingOffers
    PROVE  PendingOK'
  BY DealStaysAsked DEF PendingOK

LEMMA RequestsKept ==
    ASSUME Remembers, HandlingOK, RequestsOK, UNCHANGED requests
    PROVE  RequestsOK'
  <1>1. requests' \in Seq(RequestRec) /\ DOMAIN requests' = DOMAIN requests
    BY DEF RequestsOK
  <1>2. ASSUME NEW i \in DOMAIN requests'
        PROVE  HonestRequest(requests[i])'
    <2>1. PICK q : q = requests[i] /\ HonestRequest(q)  BY <1>1 DEF RequestsOK
    <2>2. HonestRequest(q)'  BY <2>1, HonestRequestStays
    <2>3. QED BY <2>1, <2>2
  <1>3. QED BY <1>1, <1>2 DEF RequestsOK

LEMMA WorkingKept ==
    ASSUME Remembers, HandlingOK, WorkingOK, UNCHANGED working
    PROVE  WorkingOK'
  <1>2. CASE working # <<>>
    <2>1. PICK q, result, sent :
              /\ q \in RequestRec /\ HonestRequest(q)
              /\ working = <<[request |-> q, result |-> result, sent |-> sent]>>
      BY <1>2 DEF WorkingOK
    <2>2. HonestRequest(q)'  BY <2>1, HonestRequestStays
    <2>3. QED BY <2>1, <2>2 DEF WorkingOK
  <1>3. CASE working = <<>>  BY <1>3 DEF WorkingOK
  <1>4. QED BY <1>2, <1>3

LEMMA OffersKept ==
    ASSUME Remembers, HandlingOK, OffersOK, UNCHANGED offers
    PROVE  OffersOK'
  <1>1. ASSUME NEW id \in DOMAIN offers
        PROVE  Honest(id, offers[id].by, offers[id].deal, offers[id].discount)'
    <2>1. PICK b, d, c : /\ b = offers[id].by /\ d = offers[id].deal
                         /\ c = offers[id].discount /\ Honest(id, b, d, c)
      BY DEF OffersOK
    <2>2. Honest(id, b, d, c)'  BY <2>1, HonestStays
    <2>3. QED BY <2>1, <2>2
  <1>2. QED BY <1>1 DEF OffersOK

---------------------------------------------------------------------------
(* Handlers: a step replaces the local of one handler.                     *)

Moved(h) ==
    \E l \in LocalRec : /\ l.req = handling[h].req /\ LocalOK(l)
                        /\ handling' = [handling EXCEPT ![h] = l]

LEMMA MovedOK ==
    ASSUME HandlingOK, NEW h \in DOMAIN handling, Moved(h), UNCHANGED asked
    PROVE  Remembers /\ HandlingOK'
  <1>1. PICK l \in LocalRec : /\ l.req = handling[h].req /\ LocalOK(l)
                              /\ handling' = [handling EXCEPT ![h] = l]
    BY DEF Moved
  <1>2. /\ handling \in Seq(LocalRec) /\ h \in 1..Len(handling)
    BY HandlingTyped DEF HandlingOK
  <1>3. /\ handling' \in Seq(LocalRec)
        /\ DOMAIN handling' = DOMAIN handling
        /\ \A i \in DOMAIN handling : handling'[i] = IF i = h THEN l ELSE handling[i]
    BY <1>1, <1>2, ExceptSeq, HandlingTyped
  <1>4. Remembers
    BY <1>1, <1>3 DEF Remembers
  <1>5. ASSUME NEW i \in DOMAIN handling'
        PROVE  LocalOK(handling[i])' 
    <2>1. PICK x \in LocalRec : x = handling'[i] /\ LocalOK(x)
      BY <1>1, <1>3, HandlingTyped
    <2>2. LocalOK(x)'  BY <1>4, <2>1, LocalStaysOK
    <2>3. QED BY <2>1, <2>2
  <1>6. QED BY <1>3, <1>4, <1>5 DEF HandlingOK

LEMMA SayMoves ==
    ASSUME HandlingOK, NEW h \in DOMAIN handling, NEW answer \in Answers, Say(h, answer)
    PROVE  Moved(h)
  <1> DEFINE l == [handling[h] EXCEPT !.at = "answer", !.answer = answer]
  <1>1. handling[h] \in LocalRec /\ LocalOK(handling[h])  BY HandlingTyped
  <1>2. /\ l \in LocalRec /\ l.req = handling[h].req /\ l.at = "answer"
    BY <1>1 DEF LocalRec, Places
  <1>3. LocalOK(l)  BY <1>1, <1>2 DEF LocalOK, Planned, Priced
  <1>4. handling' = [handling EXCEPT ![h] = l]  BY DEF Say, Become
  <1>5. QED BY <1>2, <1>3, <1>4 DEF Moved

LEMMA LeaveMoves ==
    ASSUME HandlingOK, NEW h \in DOMAIN handling, NEW a \in {"ack", "over"}, Leave(h, a)
    PROVE  Moved(h)
  <1> DEFINE l == NewHandling(handling[h].req, handling[h].retry, a, None)
  <1>1. handling[h] \in LocalRec /\ LocalOK(handling[h])  BY HandlingTyped
  <1>2. /\ l \in LocalRec /\ l.req = handling[h].req /\ l.at = a
    BY <1>1 DEF LocalRec, Places, NewHandling
  <1>3. LocalOK(l)  BY <1>1, <1>2 DEF LocalOK, Planned, Priced
  <1>4. handling' = [handling EXCEPT ![h] = l]  BY DEF Leave, Become
  <1>5. QED BY <1>2, <1>3, <1>4 DEF Moved

LEMMA GotoMoves ==
    ASSUME HandlingOK, NEW h \in DOMAIN handling, handling[h].at \in Priced,
           NEW a \in {"create", "submit", "approval"}, Goto(h, a)
    PROVE  Moved(h)
  <1> DEFINE l == [handling[h] EXCEPT !.at = a]
  <1>1. handling[h] \in LocalRec /\ LocalOK(handling[h])  BY HandlingTyped
  <1>2. /\ l \in LocalRec /\ l.req = handling[h].req /\ l.at = a /\ l.plan = handling[h].plan
    BY <1>1 DEF LocalRec, Places
  <1>3. LocalOK(l)  BY <1>1, <1>2 DEF LocalOK, Planned, Priced
  <1>4. handling' = [handling EXCEPT ![h] = l]  BY DEF Goto, Become
  <1>5. QED BY <1>2, <1>3, <1>4 DEF Moved

(* A handler with a plan goes on with a plan about the same deal.          *)
LEMMA PlanMoves ==
    ASSUME HandlingOK, NEW h \in DOMAIN handling, handling[h].at \in Planned,
           NEW plan \in Plan, plan.deal = handling[h].plan.deal,
           Sanctioned(Message(h), plan.discount),
           NEW a \in {"load", "text"},
           Become(h, [handling[h] EXCEPT !.at = a, !.plan = plan])
    PROVE  Moved(h)
  <1> DEFINE l == [handling[h] EXCEPT !.at = a, !.plan = plan]
  <1>1. handling[h] \in LocalRec /\ LocalOK(handling[h])  BY HandlingTyped
  <1>2. /\ l \in LocalRec /\ l.req = handling[h].req /\ l.at = a /\ l.plan = plan
    BY <1>1 DEF LocalRec, Places
  <1>3. LocalOK(l)  BY <1>1, <1>2 DEF LocalOK, Planned, Priced, Message
  <1>4. handling' = [handling EXCEPT ![h] = l]  BY DEF Become
  <1>5. QED BY <1>2, <1>3, <1>4 DEF Moved

LEMMA QueuedOK ==
    ASSUME QueueOK, UNCHANGED asked, NEW r \in Requests, NEW k \in 0..MaxRetries,
           asked[r] # None, NEW n \in Int, queue[r][k] + n \in Nat,
           queue' = Queued(r, k, n)
    PROVE  QueueOK'
  BY DEF QueueOK, Queued

(* A step of handler h that leaves the backend and the plans alone.        *)
LEMMA QuietStep ==
    ASSUME AgentInv, NEW h \in DOMAIN handling, Moved(h), QueueOK',
           UNCHANGED <<asked, pendingOffers, requests, working, offers>>
    PROVE  AgentInv'
  <1>1. Remembers /\ HandlingOK'  BY MovedOK DEF AgentInv
  <1>2. PendingOK'  BY <1>1, PendingKept DEF AgentInv
  <1>3. RequestsOK' /\ WorkingOK' /\ OffersOK'
    BY <1>1, RequestsKept, WorkingKept, OffersKept DEF AgentInv
  <1>4. QED BY <1>1, <1>2, <1>3 DEF AgentInv, AskedOK

---------------------------------------------------------------------------
(* The actions of a handler.                                               *)

LEMMA ReqTyped ==
    ASSUME HandlingOK, NEW h \in DOMAIN handling
    PROVE  /\ handling[h].req \in Requests /\ handling[h].retry \in 0..MaxRetries
           /\ asked[handling[h].req] # None
  BY HandlingTyped DEF LocalRec, LocalOK

LEMMA RequeuedOK ==
    ASSUME AgentInv, UNCHANGED asked, NEW h \in DOMAIN handling,
           NEW k \in 0..MaxRetries, queue' = Queued(handling[h].req, k, 1)
    PROVE  QueueOK'
  <1>1. handling[h].req \in Requests /\ asked[handling[h].req] # None
    BY ReqTyped DEF AgentInv
  <1>2. QueueOK  BY DEF AgentInv
  <1>3. queue[handling[h].req] \in [0..MaxRetries -> Nat]  BY <1>1, <1>2 DEF QueueOK
  <1>4. queue[handling[h].req][k] \in Nat  BY <1>3
  <1>5. queue[handling[h].req][k] + 1 \in Nat  BY <1>4
  <1>6. QED BY <1>1, <1>2, <1>5, QueuedOK

LEMMA PutBackOK ==
    ASSUME AgentInv, UNCHANGED asked, NEW h \in DOMAIN handling, PutBack(h)
    PROVE  QueueOK'
  <1>1. QueueOK /\ handling[h].retry \in 0..MaxRetries  BY ReqTyped DEF AgentInv
  <1>2. CASE UNCHANGED queue  BY <1>1, <1>2 DEF QueueOK
  <1>3. CASE queue' = Queued(handling[h].req, handling[h].retry, 1)
    BY <1>1, <1>3, RequeuedOK
  <1>4. QED BY <1>2, <1>3 DEF PutBack

LEMMA TemporaryErrorInv ==
    ASSUME AgentInv, NEW h \in DOMAIN handling, TemporaryError(h)
    PROVE  AgentInv'
  <1>1. /\ HandlingOK /\ QueueOK /\ Retry(h)
        /\ UNCHANGED <<asked, pendingOffers, requests, working, offers>>
    BY DEF AgentInv, TemporaryError
  <1> DEFINE r == handling[h].req  k == handling[h].retry
  <1>2. r \in Requests /\ k \in 0..MaxRetries  BY <1>1, ReqTyped
  <1>3. CASE k < MaxRetries /\ queue' = Queued(r, NextRetry(k), 1) /\ Leave(h, "ack")
    <2>1. NextRetry(k) \in 0..MaxRetries
      BY <1>2, <1>3, ChatMessageAssumption DEF NextRetry
    <2>2. QueueOK'  BY <1>1, <1>3, <2>1, RequeuedOK
    <2>3. Moved(h)  BY <1>1, <1>3, LeaveMoves
    <2>4. QED BY <1>1, <2>2, <2>3, QuietStep
  <1>4. CASE PutBack(h) /\ Leave(h, "over")
    <2>1. QueueOK'  BY <1>1, <1>4, PutBackOK
    <2>2. Moved(h)  BY <1>1, <1>4, LeaveMoves
    <2>3. QED BY <1>1, <2>1, <2>2, QuietStep
  <1>5. CASE Say(h, "failed") /\ UNCHANGED queue
    <2>1. Moved(h)  BY <1>1, <1>5, SayMoves DEF Answers
    <2>2. QueueOK'  BY <1>1, <1>5 DEF QueueOK
    <2>3. QED BY <1>1, <2>1, <2>2, QuietStep
  <1>6. QED BY <1>1, <1>3, <1>4, <1>5 DEF Retry

LEMMA PermanentErrorInv ==
    ASSUME AgentInv, NEW h \in DOMAIN handling, PermanentError(h)
    PROVE  AgentInv'
  <1>1. /\ HandlingOK /\ Say(h, "failed")
        /\ UNCHANGED <<asked, pendingOffers, requests, working, offers>>
    BY DEF AgentInv, PermanentError, rpcVars
  <1>2. Moved(h)  BY <1>1, SayMoves DEF Answers
  <1>3. QueueOK'  BY DEF AgentInv, PermanentError, QueueOK
  <1>4. QED BY <1>1, <1>2, <1>3, QuietStep

LEMMA RouteInv ==
    ASSUME AgentInv, NEW h \in DOMAIN handling, Route(h)
    PROVE  AgentInv'
  <1>1. /\ HandlingOK /\ AskedOK
        /\ UNCHANGED <<asked, pendingOffers, requests, working, offers>>
    BY DEF AgentInv, Route, rpcVars
  <1>2. QueueOK'  BY DEF AgentInv, Route, QueueOK
  <1>3. Moved(h)
    <2>1. CASE Say(h, "other") \/ Say(h, "which_deal")
      BY <1>1, <2>1, SayMoves DEF Answers
    <2>2. ASSUME Message(h).deal # None,
                 NEW intent \in {"create_offer", "calculate_offer"},
                 Become(h, [handling[h] EXCEPT !.at = "extract",
                   !.plan = [intent |-> intent, deal |-> Message(h).deal, discount |-> 0,
                             over |-> FALSE]])
          PROVE  Moved(h)
      <3> DEFINE plan == [intent |-> intent, deal |-> Message(h).deal, discount |-> 0,
                          over |-> FALSE]
                 l == [handling[h] EXCEPT !.at = "extract", !.plan = plan]
      <3>1. handling[h] \in LocalRec /\ LocalOK(handling[h])  BY <1>1, HandlingTyped
      <3>2. Message(h) \in ChatMessages /\ handling[h].req \in Requests
        BY <1>1, ReqTyped DEF Message, AskedOK
      <3>3. plan \in Plan  BY <3>2 DEF Plan
      <3>4. /\ l \in LocalRec /\ l.req = handling[h].req /\ l.at = "extract"
            /\ l.plan = plan
        BY <3>1, <3>3 DEF LocalRec, Places
      <3>5. DealAsked(Message(h).user, Message(h).session, plan.deal)
        BY <1>1, <2>2, <3>2, ReqTyped DEF DealAsked, Message
      <3>6. LocalOK(l)
        BY <3>1, <3>3, <3>4, <3>5 DEF LocalOK, Message, Planned, Priced
      <3>7. handling' = [handling EXCEPT ![h] = l]  BY <2>2 DEF Become
      <3>8. QED BY <3>4, <3>6, <3>7 DEF Moved
    <2>3. QED BY <2>1, <2>2 DEF Route
  <1>4. QED BY <1>1, <1>2, <1>3, QuietStep

LEMMA LoadInv ==
    ASSUME AgentInv, NEW h \in DOMAIN handling, Load(h)
    PROVE  AgentInv'
  <1>1. /\ HandlingOK
        /\ UNCHANGED <<asked, pendingOffers, requests, working, offers>>
    BY DEF AgentInv, Load, rpcVars
  <1>2. QueueOK'  BY DEF AgentInv, Load, QueueOK
  <1>3. Moved(h)
    <2>1. CASE \E answer \in {"data_error", "forbidden", "calculation"} : Say(h, answer)
      BY <1>1, <2>1, SayMoves DEF Answers
    <2>2. ASSUME NEW over \in BOOLEAN,
                 Become(h, [handling[h] EXCEPT !.at = "text",
                                               !.plan = [@ EXCEPT !.over = over]])
          PROVE  Moved(h)
      <3> DEFINE plan == [handling[h].plan EXCEPT !.over = over]
      <3>1. handling[h] \in LocalRec /\ LocalOK(handling[h])  BY <1>1, HandlingTyped
      <3>2. handling[h].at \in Planned /\ handling[h].at \in Priced
        BY DEF Load, Planned, Priced
      <3>3. handling[h].plan \in Plan /\ Sanctioned(Message(h), handling[h].plan.discount)
        BY <3>1, <3>2 DEF LocalOK, Message
      <3>4. /\ plan \in Plan /\ plan.deal = handling[h].plan.deal
            /\ plan.discount = handling[h].plan.discount
        BY <3>3 DEF Plan
      <3>5. Become(h, [handling[h] EXCEPT !.at = "text", !.plan = plan])
        BY <2>2, <3>1 DEF LocalRec
      <3>6. QED BY <1>1, <3>2, <3>3, <3>4, <3>5, PlanMoves
    <2>3. QED BY <2>1, <2>2 DEF Load
  <1>4. QED BY <1>1, <1>2, <1>3, QuietStep

LEMMA AnswerInv ==
    ASSUME AgentInv, NEW h \in DOMAIN handling, Answer(h)
    PROVE  AgentInv'
  <1>1. /\ HandlingOK /\ QueueOK
        /\ UNCHANGED <<asked, pendingOffers, requests, working, offers>>
    BY DEF AgentInv, Answer
  <1>3. QueueOK'
    <2>1. CASE PutBack(h)  BY <1>1, <2>1, PutBackOK
    <2>2. CASE UNCHANGED queue  BY <1>1, <2>2 DEF QueueOK
    <2>3. QED BY <2>1, <2>2 DEF Answer
  <1>4. Moved(h)
    <2>1. Leave(h, "ack") \/ Leave(h, "over")  BY DEF Answer
    <2>2. QED BY <1>1, <2>1, LeaveMoves
  <1>5. QED BY <1>1, <1>3, <1>4, QuietStep

LEMMA AckInv ==
    ASSUME AgentInv, NEW h \in DOMAIN handling, Ack(h)
    PROVE  AgentInv'
  <1>1. /\ HandlingOK /\ Leave(h, "over")
        /\ UNCHANGED <<asked, pendingOffers, requests, working, offers>>
    BY DEF AgentInv, Ack, rpcVars
  <1>2. Moved(h)  BY <1>1, LeaveMoves
  <1>3. QueueOK'  BY DEF AgentInv, Ack, QueueOK
  <1>4. QED BY <1>1, <1>2, <1>3, QuietStep

LEMMA ResumedCallInv ==
    ASSUME AgentInv, NEW h \in DOMAIN handling, OfferCreated(h) \/ OfferSubmitted(h)
    PROVE  AgentInv'
  <1>1. /\ HandlingOK
        /\ UNCHANGED <<asked, pendingOffers, requests, working, offers>>
    BY DEF AgentInv, OfferCreated, OfferSubmitted, Resume
  <1>2. QueueOK'  BY DEF AgentInv, OfferCreated, OfferSubmitted, QueueOK
  <1>3. Moved(h)
    <2>1. CASE OfferCreated(h)
      <3> DEFINE next == AfterCreate(handling[h].plan, Outcome(<<h, "create">>))
      <3>1. next \in {"forbidden", "saved", "submit", "save_failed"}
        BY DEF AfterCreate
      <3>2. handling[h].at \in Priced  BY <2>1 DEF OfferCreated, Priced
      <3>3. CASE next = "submit"
        <4>1. Goto(h, "submit")  BY <2>1, <3>3 DEF OfferCreated
        <4>2. QED BY <1>1, <3>2, <4>1, GotoMoves
      <3>4. CASE next # "submit"
        <4>1. Say(h, next)  BY <2>1, <3>4 DEF OfferCreated
        <4>2. next \in Answers  BY <3>1, <3>4 DEF Answers
        <4> HIDE DEF next
        <4>3. QED BY <1>1, <4>1, <4>2, SayMoves
      <3>5. QED BY <3>3, <3>4
    <2>2. CASE OfferSubmitted(h)
      <3> DEFINE next == AfterApproval(Outcome(<<h, "approval">>))
      <3>1. next \in Answers  BY DEF AfterApproval, Answers
      <3>2. Say(h, next)  BY <2>2 DEF OfferSubmitted
      <3> HIDE DEF next
      <3>3. QED BY <1>1, <3>1, <3>2, SayMoves
    <2>3. QED BY <2>1, <2>2
  <1>4. QED BY <1>1, <1>2, <1>3, QuietStep

---------------------------------------------------------------------------
(* The discount, and the memory of unfinished offers.                      *)

LEMMA PercentsAreNats ==
    /\ Percents \subseteq Nat
    /\ \A m \in ChatMessages : m.written \subseteq Percents
  BY ChatMessageAssumption

LEMMA UnderstoodIsSanctioned ==
    ASSUME NEW m \in ChatMessages, NEW context, m.mentions => context,
           NEW facts, NEW d \in Understood(m, context, facts)
    PROVE  d \in {0} \cup Percents /\ Sanctioned(m, d)
  <1>1. d \in {0} \cup Percents  BY PercentsAreNats DEF Understood
  <1>2. \/ ~m.mentions /\ d = 0
        \/ m.written = {d} /\ Valid(d)
    BY DEF Understood
  <1>3. Valid(0)  BY DEF Valid
  <1>4. QED BY <1>1, <1>2, <1>3 DEF Sanctioned

LEMMA EntriesOK ==
    ASSUME PendingOK, Remembers, NEW keys \in SUBSET DOMAIN pendingOffers,
           pendingOffers' = Entries(keys)
    PROVE  PendingOK'
  <1>1. ASSUME NEW key \in DOMAIN pendingOffers'
        PROVE  /\ pendingOffers'[key].plan \in Plan
               /\ DealAsked(key[1], key[2], pendingOffers[key].plan.deal)'
    <2>1. PICK p : /\ key \in DOMAIN pendingOffers /\ pendingOffers'[key].plan = p
                   /\ p \in Plan /\ DealAsked(key[1], key[2], p.deal)
      BY DEF Entries, PendingOK
    <2>2. DealAsked(key[1], key[2], p.deal)'  BY <2>1, DealStaysAsked
    <2>3. QED BY <2>1, <2>2
  <1>2. QED BY <1>1 DEF PendingOK

LEMMA RememberOK ==
    ASSUME PendingOK, Remembers, NEW m, NEW plan \in Plan,
           DealAsked(m.user, m.session, plan.deal), Remember(Key(m), plan)
    PROVE  PendingOK'
  <1>1. PICK keys, n :
            /\ keys \in Unexpired
            /\ pendingOffers' = Put(Entries(Evicted(keys)), Key(m),
                                    [plan |-> plan, created |-> n])
    BY DEF Remember
  <1>2. Evicted(keys) \subseteq DOMAIN pendingOffers  BY <1>1 DEF Evicted, Unexpired
  <1>3. ASSUME NEW key \in DOMAIN pendingOffers'
        PROVE  /\ pendingOffers'[key].plan \in Plan
               /\ DealAsked(key[1], key[2], pendingOffers[key].plan.deal)'
    <2>1. PICK p : p = pendingOffers'[key].plan  OBVIOUS
    <2>2. CASE key = Key(m)
      <3>1. p = plan /\ key[1] = m.user /\ key[2] = m.session
        BY <1>1, <2>1, <2>2 DEF Key, Put
      <3>2. DealAsked(key[1], key[2], p.deal)'  BY <3>1, DealStaysAsked
      <3>3. QED BY <2>1, <3>1, <3>2
    <2>3. CASE key # Key(m)
      <3>1. key \in DOMAIN pendingOffers /\ p = pendingOffers[key].plan
        BY <1>1, <1>2, <2>1, <2>3 DEF Put, Entries
      <3>2. p \in Plan /\ DealAsked(key[1], key[2], p.deal)
        BY <3>1 DEF PendingOK
      <3>3. DealAsked(key[1], key[2], p.deal)'  BY <3>2, DealStaysAsked
      <3>4. QED BY <2>1, <3>2, <3>3
    <2>4. QED BY <2>2, <2>3
  <1>4. QED BY <1>3 DEF PendingOK

(* A step of handler h that leaves the backend alone.                      *)
LEMMA AgentStep ==
    ASSUME AgentInv, NEW h \in DOMAIN handling, Moved(h), PendingOK',
           UNCHANGED <<asked, queue, requests, working, offers>>
    PROVE  AgentInv'
  <1>1. Remembers /\ HandlingOK'  BY MovedOK DEF AgentInv
  <1>2. RequestsOK' /\ WorkingOK' /\ OffersOK'
    BY <1>1, RequestsKept, WorkingKept, OffersKept DEF AgentInv
  <1>3. QED BY <1>1, <1>2 DEF AgentInv, AskedOK, QueueOK

LEMMA StartGraphInv ==
    ASSUME AgentInv, NEW h \in DOMAIN handling, handling[h].at \in Planned,
           NEW d \in {0} \cup Percents, Sanctioned(Message(h), d), StartGraph(h, d),
           UNCHANGED <<asked, queue, requests, working, offers>>
    PROVE  AgentInv'
  <1> DEFINE plan == [handling[h].plan EXCEPT !.discount = d]
  <1>1. HandlingOK /\ PendingOK  BY DEF AgentInv
  <1>2. handling[h] \in LocalRec /\ LocalOK(handling[h])  BY <1>1, HandlingTyped
  <1>3. handling[h].plan \in Plan  BY <1>2 DEF LocalOK
  <1>4. plan \in Plan /\ plan.deal = handling[h].plan.deal /\ plan.discount = d
    BY <1>3 DEF Plan
  <1>5. Become(h, [handling[h] EXCEPT !.at = "load", !.plan = plan])
    BY <1>2 DEF StartGraph, LocalRec
  <1> HIDE DEF plan
  <1>6. Moved(h)  BY <1>1, <1>4, <1>5, PlanMoves
  <1>7. PendingOK'
    <2>1. Remembers  BY <1>1, <1>6, MovedOK
    <2>2. PICK keys \in SUBSET DOMAIN pendingOffers : pendingOffers' = Entries(keys)
      BY DEF StartGraph, Forgotten
    <2>3. QED BY <1>1, <2>1, <2>2, EntriesOK
  <1>8. QED BY <1>6, <1>7, AgentStep

LEMMA ExtractInv ==
    ASSUME AgentInv, NEW h \in DOMAIN handling, Extract(h)
    PROVE  AgentInv'
  <1>1. /\ AskedOK /\ HandlingOK /\ PendingOK /\ handling[h].at \in Planned
        /\ UNCHANGED <<asked, queue, requests, working, offers>>
    BY DEF AgentInv, Extract, rpcVars, Planned
  <1>2. handling[h] \in LocalRec /\ LocalOK(handling[h])  BY <1>1, HandlingTyped
  <1>3. Message(h) \in ChatMessages
    BY <1>1, ReqTyped DEF Message, AskedOK
  <1>4. ASSUME NEW facts, NEW d \in Understood(Message(h), Message(h).mentions, facts),
               StartGraph(h, d)
        PROVE  AgentInv'
    <2>1. PICK m \in ChatMessages : m = Message(h)  BY <1>3
    <2>2. d \in {0} \cup Percents /\ Sanctioned(m, d)
      BY <1>4, <2>1, UnderstoodIsSanctioned
    <2>3. QED BY <1>1, <1>4, <2>1, <2>2, StartGraphInv
  <1>5. ASSUME Remember(Key(Message(h)), handling[h].plan), Say(h, "clarify")
        PROVE  AgentInv'
    <2>1. Moved(h)  BY <1>1, <1>5, SayMoves DEF Answers
    <2>2. Remembers  BY <1>1, <2>1, MovedOK
    <2>3. PICK m, p : m = Message(h) /\ p = handling[h].plan  OBVIOUS
    <2>4. p \in Plan /\ DealAsked(m.user, m.session, p.deal)
      BY <1>1, <1>2, <2>3 DEF LocalOK, Message
    <2>5. Remember(Key(m), p)  BY <1>5, <2>3
    <2>6. PendingOK'  BY <1>1, <2>2, <2>4, <2>5, RememberOK
    <2>7. QED BY <1>1, <2>1, <2>6, AgentStep
  <1>6. QED BY <1>4, <1>5 DEF Extract

LEMMA ResumeOfferInv ==
    ASSUME AgentInv, NEW h \in DOMAIN handling, ResumeOffer(h)
    PROVE  AgentInv'
  <1>1. /\ AskedOK /\ HandlingOK /\ PendingOK /\ handling[h].at \in Planned
        /\ UNCHANGED <<asked, queue, requests, working, offers>>
    BY DEF AgentInv, ResumeOffer, rpcVars, Planned
  <1>2. Message(h) \in ChatMessages
    BY <1>1, ReqTyped DEF Message, AskedOK
  <1>3. ASSUME NEW facts, NEW d \in Understood(Message(h), TRUE, facts),
               StartGraph(h, d)
        PROVE  AgentInv'
    <2>1. PICK m \in ChatMessages : m = Message(h)  BY <1>2
    <2>2. d \in {0} \cup Percents /\ Sanctioned(m, d)
      BY <1>3, <2>1, UnderstoodIsSanctioned
    <2>3. QED BY <1>1, <1>3, <2>1, <2>2, StartGraphInv
  <1>4. ASSUME Say(h, "clarify"), UNCHANGED pendingOffers
        PROVE  AgentInv'
    <2>1. Moved(h)  BY <1>1, <1>4, SayMoves DEF Answers
    <2>2. Remembers  BY <1>1, <2>1, MovedOK
    <2>3. PendingOK'  BY <1>1, <1>4, <2>2, PendingKept
    <2>4. QED BY <1>1, <2>1, <2>3, AgentStep
  <1>5. QED BY <1>3, <1>4 DEF ResumeOffer

---------------------------------------------------------------------------
(* Calls of the backend.                                                   *)

LEMMA AppendOK ==
    ASSUME Remembers, HandlingOK, RequestsOK, NEW q \in RequestRec, HonestRequest(q),
           requests' = Append(requests, q)
    PROVE  RequestsOK'
  <1>1. requests \in Seq(RequestRec)  BY DEF RequestsOK
  <1>2. /\ requests' \in Seq(RequestRec)
        /\ Len(requests') = Len(requests) + 1
        /\ \A i \in 1..Len(requests) : requests'[i] = requests[i]
        /\ requests'[Len(requests) + 1] = q
        /\ DOMAIN requests = 1..Len(requests) /\ DOMAIN requests' = 1..Len(requests')
        /\ Len(requests) \in Nat
    BY <1>1, AppendProperties, LenProperties
  <1>3. ASSUME NEW i \in DOMAIN requests'
        PROVE  HonestRequest(requests[i])'
    <2>1. PICK x : x = requests'[i] /\ HonestRequest(x)
      <3>1. CASE i \in 1..Len(requests)  BY <1>2, <3>1 DEF RequestsOK
      <3>2. CASE i = Len(requests) + 1  BY <1>2, <3>2
      <3>3. QED BY <1>2, <3>1, <3>2
    <2>2. HonestRequest(x)'  BY <2>1, HonestRequestStays
    <2>3. QED BY <2>1, <2>2
  <1>4. QED BY <1>2, <1>3 DEF RequestsOK

LEMMA CreateRequestHonest ==
    ASSUME AgentInv, NEW h \in DOMAIN handling, handling[h].at \in Priced
    PROVE  CreateRequest(h) \in RequestRec /\ HonestRequest(CreateRequest(h))
  <1>1. HandlingOK /\ AskedOK  BY DEF AgentInv
  <1>2. h \in Nat /\ handling[h] \in LocalRec /\ LocalOK(handling[h])
    BY <1>1, HandlingTyped
  <1>3. /\ Message(h) \in ChatMessages /\ Message(h) # None
        /\ handling[h].plan \in Plan
        /\ DealAsked(Message(h).user, Message(h).session, handling[h].plan.deal)
        /\ Sanctioned(Message(h), handling[h].plan.discount)
    BY <1>1, <1>2, ReqTyped DEF LocalOK, Message, Planned, Priced, AskedOK
  <1>4. CreateRequest(h) \in RequestRec
    BY <1>2, <1>3 DEF CreateRequest, RequestRec, Plan
  <1>5. Honest(<<h, "create">>, Message(h).user, handling[h].plan.deal,
               handling[h].plan.discount)
    BY <1>3 DEF Honest, Message
  <1>6. QED BY <1>4, <1>5 DEF HonestRequest, CreateRequest

LEMMA CallInv ==
    ASSUME AgentInv, NEW h \in DOMAIN handling, handling[h].at \in Priced,
           NEW q \in RequestRec, HonestRequest(q), NEW failure \in Answers,
           Call(h, q, failure), UNCHANGED <<asked, queue, pendingOffers>>
    PROVE  AgentInv'
  <1>1. HandlingOK /\ PendingOK /\ RequestsOK /\ QueueOK  BY DEF AgentInv
  <1>2. QueueOK'  BY <1>1 DEF QueueOK
  <1>3. CASE Issue(q) /\ Goto(h, q.op)
    <2>1. q.op \in {"create", "submit", "approval"}  BY DEF RequestRec
    <2>2. Moved(h)  BY <1>1, <1>3, <2>1, GotoMoves
    <2>3. Remembers /\ HandlingOK'  BY <1>1, <2>2, MovedOK
    <2>4. requests' = Append(requests, q) /\ UNCHANGED <<working, offers>>
      BY <1>3 DEF Issue
    <2>5. RequestsOK'  BY <1>1, <2>3, <2>4, AppendOK
    <2>6. WorkingOK' /\ OffersOK' /\ PendingOK'
      BY <2>3, <2>4, WorkingKept, OffersKept, PendingKept DEF AgentInv
    <2>7. QED BY <1>2, <2>3, <2>5, <2>6 DEF AgentInv, AskedOK
  <1>4. CASE Say(h, failure) /\ UNCHANGED <<requests, working, offers>>
    <2>1. Moved(h)  BY <1>1, <1>4, SayMoves
    <2>2. QED BY <1>2, <1>4, <2>1, QuietStep
  <1>5. CASE /\ Say(h, failure) /\ requests' = Append(requests, q)
             /\ UNCHANGED <<working, offers>>
    <2>1. Moved(h)  BY <1>1, <1>5, SayMoves
    <2>2. Remembers /\ HandlingOK'  BY <1>1, <2>1, MovedOK
    <2>3. RequestsOK'  BY <1>1, <1>5, <2>2, AppendOK
    <2>4. WorkingOK' /\ OffersOK' /\ PendingOK'
      BY <1>5, <2>2, WorkingKept, OffersKept, PendingKept DEF AgentInv
    <2>5. QED BY <1>2, <2>2, <2>3, <2>4 DEF AgentInv, AskedOK
  <1>6. QED BY <1>3, <1>4, <1>5 DEF Call, IssueFails, rpcVars

LEMMA WriteTextInv ==
    ASSUME AgentInv, NEW h \in DOMAIN handling, WriteText(h)
    PROVE  AgentInv'
  <1>1. /\ HandlingOK /\ QueueOK /\ handling[h].at \in Priced
        /\ UNCHANGED <<asked, queue, pendingOffers>>
    BY DEF AgentInv, WriteText, Priced
  <1>2. CASE Say(h, "text_error") /\ UNCHANGED rpcVars
    <2>1. Moved(h)  BY <1>1, <1>2, SayMoves DEF Answers
    <2>2. QueueOK'  BY <1>1 DEF QueueOK
    <2>3. UNCHANGED <<requests, working, offers>>  BY <1>2 DEF rpcVars
    <2>4. QED BY <1>1, <2>1, <2>2, <2>3, QuietStep
  <1>3. CASE Call(h, CreateRequest(h), "save_failed")
    <2>1. PICK q \in RequestRec : q = CreateRequest(h) /\ HonestRequest(q)
      BY <1>1, CreateRequestHonest
    <2>2. Call(h, q, "save_failed")  BY <1>3, <2>1
    <2>3. "save_failed" \in Answers  BY DEF Answers
    <2>4. QED BY <1>1, <2>1, <2>2, <2>3, CallInv
  <1>4. QED BY <1>2, <1>3 DEF WriteText

LEMMA SubmitInv ==
    ASSUME AgentInv, NEW h \in DOMAIN handling, Submit(h)
    PROVE  AgentInv'
  <1>1. HandlingOK /\ handling[h].at \in Priced /\ UNCHANGED <<asked, queue, pendingOffers>>
    BY DEF AgentInv, Submit, Priced
  <1>2. PICK q : q = [CreateRequest(h) EXCEPT !.op = "approval", !.id = <<h, "approval">>]
    OBVIOUS
  <1>3. h \in Nat  BY <1>1, HandlingTyped
  <1>4. q \in RequestRec /\ q.op = "approval"
    BY <1>1, <1>2, <1>3, CreateRequestHonest DEF RequestRec
  <1>5. HonestRequest(q)  BY <1>4 DEF HonestRequest
  <1>6. Call(h, q, "approval_failed")  BY <1>2 DEF Submit
  <1>7. "approval_failed" \in Answers  BY DEF Answers
  <1>8. QED BY <1>1, <1>4, <1>5, <1>6, <1>7, CallInv

LEMMA HandleInv ==
    ASSUME AgentInv, NEW h \in DOMAIN handling, Handle(h)
    PROVE  AgentInv'
  BY TemporaryErrorInv, PermanentErrorInv, RouteInv, ExtractInv, ResumeOfferInv, LoadInv,
     WriteTextInv, ResumedCallInv, SubmitInv, AnswerInv, AckInv DEF Handle

---------------------------------------------------------------------------
(* Requests, deliveries and restarts.                                      *)

(* A step that leaves the backend alone.                                   *)
LEMMA ServiceStep ==
    ASSUME AgentInv, Remembers, AskedOK', QueueOK', HandlingOK', PendingOK',
           UNCHANGED <<requests, working, offers>>
    PROVE  AgentInv'
  BY RequestsKept, WorkingKept, OffersKept DEF AgentInv

LEMMA AskInv ==
    ASSUME AgentInv, NEW r \in Requests, NEW m \in ChatMessages, Ask(r, m)
    PROVE  AgentInv'
  <1>1. /\ AskedOK /\ QueueOK /\ HandlingOK /\ PendingOK
        /\ asked[r] = None /\ asked' = [asked EXCEPT ![r] = m]
        /\ UNCHANGED <<handling, pendingOffers, requests, working, offers>>
    BY DEF AgentInv, Ask, rpcVars
  <1>2. AskedOK'  BY <1>1 DEF AskedOK
  <1>3. Remembers  BY <1>1 DEF Remembers, AskedOK
  <1>4. QueueOK'
    <2>1. queue[r] \in [0..MaxRetries -> Nat] /\ queue' = [queue EXCEPT ![r][0] = @ + 1]
      BY <1>1 DEF QueueOK, Ask, Queued
    <2>2. queue[r][0] + 1 \in Nat /\ 0 \in 0..MaxRetries
      BY <2>1, ChatMessageAssumption
    <2>3. queue' \in [Requests -> [0..MaxRetries -> Nat]]
      BY <1>1, <2>1, <2>2 DEF QueueOK
    <2>4. ASSUME NEW s \in Requests, NEW k \in 0..MaxRetries, queue'[s][k] > 0
          PROVE  asked'[s] # None
      <3>1. CASE s = r
        BY <1>1, <3>1, ChatMessageAssumption DEF AskedOK
      <3>2. CASE s # r
        BY <1>1, <2>1, <2>4, <3>2 DEF AskedOK, QueueOK
      <3>3. QED BY <3>1, <3>2
    <2>5. QED BY <2>3, <2>4 DEF QueueOK
  <1>5. HandlingOK'
    <2>1. ASSUME NEW h \in DOMAIN handling
          PROVE  LocalOK(handling[h])'
      <3>1. PICK l \in LocalRec : l = handling[h] /\ LocalOK(l)
        BY <1>1, HandlingTyped
      <3>2. LocalOK(l)'  BY <1>3, <3>1, LocalStaysOK
      <3>3. QED BY <1>1, <3>1, <3>2
    <2>2. QED BY <1>1, <2>1 DEF HandlingOK
  <1>6. PendingOK'  BY <1>1, <1>3, PendingKept
  <1>7. QED BY <1>1, <1>2, <1>3, <1>4, <1>5, <1>6, ServiceStep

LEMMA DeliverInv ==
    ASSUME AgentInv, NEW r \in Requests, NEW k \in 0..MaxRetries, Deliver(r, k)
    PROVE  AgentInv'
  <1>1. /\ AskedOK /\ QueueOK /\ HandlingOK /\ PendingOK
        /\ UNCHANGED <<asked, requests, working, offers>>
    BY DEF AgentInv, Deliver, rpcVars
  <1>2. asked[r] # None /\ asked[r] \in ChatMessages
    BY <1>1 DEF Deliver, QueueOK, AskedOK
  <1>3. QueueOK'
    <2>1. queue[r] \in [0..MaxRetries -> Nat]  BY <1>1 DEF QueueOK
    <2>2. queue[r][k] \in Nat /\ queue[r][k] > 0  BY <2>1 DEF Deliver
    <2>3. queue[r][k] + (0 - 1) \in Nat  BY <2>2
    <2>4. queue' = Queued(r, k, 0 - 1)  BY DEF Deliver
    <2>5. QED BY <1>1, <1>2, <2>3, <2>4, QueuedOK
  <1>4. PICK keys \in Unexpired :
           /\ pendingOffers' = Entries(keys)
           /\ handling' = Append(handling,
                IF Key(asked[r]) \in keys
                THEN NewHandling(r, k, "resume", pendingOffers[Key(asked[r])].plan)
                ELSE NewHandling(r, k, "route", None))
    BY DEF Deliver
  <1>5. keys \in SUBSET DOMAIN pendingOffers  BY DEF Unexpired
  <1>6. PICK l : /\ handling' = Append(handling, l)
                 /\ IF Key(asked[r]) \in keys
                    THEN l = NewHandling(r, k, "resume", pendingOffers[Key(asked[r])].plan)
                    ELSE l = NewHandling(r, k, "route", None)
    BY <1>4
  <1>7. l \in LocalRec /\ LocalOK(l)
    <2>1. CASE Key(asked[r]) \in keys
      <3>1. PICK p : p = pendingOffers[Key(asked[r])].plan  OBVIOUS
      <3>2. p \in Plan /\ DealAsked(asked[r].user, asked[r].session, p.deal)
        BY <1>1, <1>5, <2>1, <3>1 DEF PendingOK, Key
      <3>3. l = NewHandling(r, k, "resume", p)  BY <1>6, <2>1, <3>1
      <3>4. QED BY <1>2, <3>2, <3>3
               DEF NewHandling, LocalRec, LocalOK, Places, Planned, Priced
    <2>2. CASE Key(asked[r]) \notin keys
      BY <1>2, <1>6, <2>2 DEF NewHandling, LocalRec, LocalOK, Places, Planned, Priced
    <2>3. QED BY <2>1, <2>2
  <1>8. /\ handling' \in Seq(LocalRec)
        /\ Len(handling') = Len(handling) + 1
        /\ \A i \in 1..Len(handling) : handling'[i] = handling[i]
        /\ handling'[Len(handling) + 1] = l
        /\ DOMAIN handling = 1..Len(handling) /\ DOMAIN handling' = 1..Len(handling')
        /\ Len(handling) \in Nat
    BY <1>1, <1>6, <1>7, AppendProperties, LenProperties DEF HandlingOK
  <1>9. Remembers  BY <1>1, <1>8 DEF Remembers
  <1>10. HandlingOK'
    <2>1. ASSUME NEW i \in DOMAIN handling'
          PROVE  LocalOK(handling[i])'
      <3>1. PICK x \in LocalRec : x = handling'[i] /\ LocalOK(x)
        <4>1. CASE i \in 1..Len(handling)  BY <1>1, <1>8, <4>1, HandlingTyped
        <4>2. CASE i = Len(handling) + 1  BY <1>7, <1>8, <4>2
        <4>3. QED BY <1>8, <4>1, <4>2
      <3>2. LocalOK(x)'  BY <1>9, <3>1, LocalStaysOK
      <3>3. QED BY <3>1, <3>2
    <2>2. QED BY <1>8, <2>1 DEF HandlingOK
  <1>11. PendingOK'  BY <1>1, <1>4, <1>5, <1>9, EntriesOK
  <1>12. AskedOK'  BY <1>1 DEF AskedOK
  <1>13. QED BY <1>1, <1>3, <1>9, <1>10, <1>11, <1>12, ServiceStep

LEMMA HeldIsNat ==
    ASSUME HandlingOK, NEW r \in Requests, NEW k \in 0..MaxRetries
    PROVE  /\ Held(r, k) \in Nat
           /\ Held(r, k) > 0 => asked[r] # None
  <1> DEFINE S == {h \in HeldHandlings : handling[h].req = r /\ handling[h].retry = k}
  <1>1. DOMAIN handling = 1..Len(handling) /\ Len(handling) \in Nat
    BY HandlingTyped
  <1>2. IsFiniteSet(1..Len(handling))  BY <1>1, FS_Interval
  <1>3. S \subseteq 1..Len(handling)  BY <1>1 DEF HeldHandlings, LiveHandlings
  <1>4. IsFiniteSet(S)  BY <1>2, <1>3, FS_Subset
  <1>5. Cardinality(S) \in Nat /\ (Cardinality(S) = 0 <=> S = {})
    BY <1>4, FS_CardinalityType, FS_EmptySet
  <1>6. S # {} => asked[r] # None
    BY ReqTyped DEF HeldHandlings, LiveHandlings
  <1>7. QED BY <1>5, <1>6 DEF Held

(* What the broker takes back stays a queue of requests that were asked.   *)
LEMMA TakenBackOK ==
    ASSUME QueueOK, HandlingOK, UNCHANGED asked, TakenBack
    PROVE  QueueOK'
  <1>1. queue' = [r \in Requests |-> [k \in 0..MaxRetries |-> queue[r][k] + Held(r, k)]]
    BY DEF TakenBack
  <1>2. ASSUME NEW r \in Requests, NEW k \in 0..MaxRetries
        PROVE  /\ queue[r][k] + Held(r, k) \in Nat
               /\ queue[r][k] + Held(r, k) > 0 => asked[r] # None
    <2>1. queue[r] \in [0..MaxRetries -> Nat]  BY DEF QueueOK
    <2>2. queue[r][k] \in Nat /\ (queue[r][k] > 0 => asked[r] # None)
      BY <2>1 DEF QueueOK
    <2>3. Held(r, k) \in Nat /\ (Held(r, k) > 0 => asked[r] # None)
      BY HeldIsNat
    <2>4. QED BY <2>2, <2>3
  <1>3. queue' \in [Requests -> [0..MaxRetries -> Nat]]
    BY <1>1, <1>2
  <1>4. \A r \in Requests : \A k \in 0..MaxRetries : queue'[r][k] > 0 => asked'[r] # None
    BY <1>1, <1>2
  <1>5. QED BY <1>3, <1>4 DEF QueueOK

LEMMA RestartInv ==
    ASSUME AgentInv, RestartAgent
    PROVE  AgentInv'
  <1>1. /\ AskedOK /\ QueueOK /\ HandlingOK
        /\ UNCHANGED <<asked, requests, working, offers>>
    BY DEF AgentInv, RestartAgent, RestartClient
  <1>2. DOMAIN handling = 1..Len(handling) /\ Len(handling) \in Nat
    BY <1>1, HandlingTyped
  <1>3. /\ DOMAIN handling' = DOMAIN handling
        /\ \A h \in DOMAIN handling :
              /\ handling'[h] = NewHandling(handling[h].req, handling[h].retry, "over", None)
              /\ handling'[h].req = handling[h].req
    BY DEF RestartAgent, NewHandling
  <1>4. Remembers  BY <1>1, <1>3 DEF Remembers
  <1>5. HandlingOK'
    <2>1. ASSUME NEW h \in DOMAIN handling
          PROVE  handling'[h] \in LocalRec /\ LocalOK(handling[h])'
      <3>1. /\ handling'[h].req \in Requests /\ handling'[h].at = "over"
            /\ handling'[h] \in LocalRec
        BY <1>1, <1>3, ReqTyped DEF NewHandling, LocalRec, Places
      <3>2. asked'[handling'[h].req] # None
        BY <1>1, <1>3, ReqTyped
      <3>3. QED BY <3>1, <3>2 DEF LocalOK, Planned, Priced
    <2>2. handling' \in [1..Len(handling) -> LocalRec]
      BY <1>2, <1>3, <2>1 DEF RestartAgent
    <2>3. handling' \in Seq(LocalRec)
      BY <1>2, <2>2
    <2>4. QED BY <1>3, <2>1, <2>3 DEF HandlingOK
  <1>6. QueueOK'  BY <1>1, TakenBackOK DEF RestartAgent
  <1>7. PendingOK'
    BY DEF RestartAgent, PendingOK
  <1>8. AskedOK'  BY <1>1 DEF AskedOK
  <1>9. QED BY <1>1, <1>4, <1>5, <1>6, <1>7, <1>8, ServiceStep

LEMMA ReconnectInv ==
    ASSUME AgentInv, Reconnect
    PROVE  AgentInv'
  <1>1. /\ AskedOK /\ QueueOK /\ HandlingOK /\ PendingOK /\ TakenBack
        /\ UNCHANGED <<asked, handling, pendingOffers, requests, working, offers>>
    BY DEF AgentInv, Reconnect
  <1>2. Remembers  BY <1>1 DEF Remembers
  <1>3. HandlingOK'
    <2>1. ASSUME NEW h \in DOMAIN handling PROVE LocalOK(handling[h])'
      <3>1. PICK l \in LocalRec : l = handling[h] /\ LocalOK(l)  BY <1>1, HandlingTyped
      <3>2. LocalOK(l)'  BY <1>2, <3>1, LocalStaysOK
      <3>3. QED BY <1>1, <3>1, <3>2
    <2>2. QED BY <1>1, <2>1 DEF HandlingOK
  <1>4. QueueOK'  BY <1>1, TakenBackOK
  <1>5. PendingOK'  BY <1>1, <1>2, PendingKept
  <1>6. AskedOK'  BY <1>1 DEF AskedOK
  <1>7. QED BY <1>1, <1>2, <1>3, <1>4, <1>5, <1>6, ServiceStep

---------------------------------------------------------------------------
(* The backend.                                                            *)

LEMMA EffectsOK ==
    ASSUME OffersOK, HandlingOK, NEW q \in RequestRec, HonestRequest(q),
           NEW new \in Effects(q)
    PROVE  \A id \in DOMAIN new :
              /\ new[id] \in OfferRec
              /\ Honest(id, new[id].by, new[id].deal, new[id].discount)
  <1>1. CASE q.op = "create"
    <2>1. new \in Creations(q)  BY <1>1 DEF Effects
    <2>2. CASE new = offers  BY <2>2 DEF OffersOK
    <2>3. ASSUME NEW s \in BirthStatuses(q.discount), new = Put(offers, q.id, Row(q, s))
          PROVE  \A id \in DOMAIN new :
                    /\ new[id] \in OfferRec
                    /\ Honest(id, new[id].by, new[id].deal, new[id].discount)
      <3>1. s \in {"draft", "approved", "pending_approval"}  BY DEF BirthStatuses
      <3>2. /\ Row(q, s) \in OfferRec /\ Row(q, s).by = q.by
            /\ Row(q, s).deal = q.deal /\ Row(q, s).discount = q.discount
        BY <3>1 DEF Row, OfferRec, RequestRec
      <3>3. Honest(q.id, q.by, q.deal, q.discount)  BY <1>1 DEF HonestRequest
      <3>4. ASSUME NEW id \in DOMAIN new
            PROVE  /\ new[id] \in OfferRec
                   /\ Honest(id, new[id].by, new[id].deal, new[id].discount)
        <4>1. CASE id = q.id
          <5>1. new[id] = Row(q, s)  BY <2>3, <4>1 DEF Put
          <5>2. QED BY <3>2, <3>3, <4>1, <5>1
        <4>2. CASE id # q.id
          <5>1. id \in DOMAIN offers /\ new[id] = offers[id]
            BY <2>3, <3>4, <4>2 DEF Put
          <5>2. QED BY <5>1 DEF OffersOK
        <4>3. QED BY <4>1, <4>2
      <3>5. QED BY <3>4
    <2>4. QED BY <2>1, <2>2, <2>3 DEF Creations
  <1>2. CASE q.op # "create"
    <2>1. PICK o \in DOMAIN offers :
              new = [offers EXCEPT ![o].status = "pending_approval"]
      BY <1>2 DEF Effects, Submissions
    <2>2. ASSUME NEW id \in DOMAIN new
          PROVE  /\ new[id] \in OfferRec
                 /\ Honest(id, new[id].by, new[id].deal, new[id].discount)
      <3>1. /\ id \in DOMAIN offers /\ offers[id] \in OfferRec
            /\ Honest(id, offers[id].by, offers[id].deal, offers[id].discount)
        BY <2>1 DEF OffersOK
      <3>2. new[id] = offers[id] \/ new[id] = [offers[id] EXCEPT !.status = "pending_approval"]
        BY <2>1, <3>1
      <3>3. /\ new[id] \in OfferRec /\ new[id].by = offers[id].by
            /\ new[id].deal = offers[id].deal /\ new[id].discount = offers[id].discount
        BY <3>1, <3>2 DEF OfferRec
      <3>4. QED BY <3>1, <3>3
    <2>3. QED BY <2>2
  <1>3. QED BY <1>1, <1>2

(* A step that leaves the agent service alone.                             *)
LEMMA BackendStep ==
    ASSUME AgentInv, UNCHANGED <<asked, queue, handling, pendingOffers>>,
           RequestsOK', WorkingOK', OffersOK'
    PROVE  AgentInv'
  <1>1. Remembers  BY DEF Remembers
  <1>2. PendingOK'  BY <1>1, PendingKept DEF AgentInv
  <1>3. HandlingOK'  BY DEF AgentInv, HandlingOK, LocalOK, DealAsked
  <1>4. QED BY <1>2, <1>3 DEF AgentInv, AskedOK, QueueOK

LEMMA DispatchInv ==
    ASSUME AgentInv, Dispatch, UNCHANGED chatVars
    PROVE  AgentInv'
  <1>1. /\ HandlingOK /\ RequestsOK /\ WorkingOK /\ OffersOK /\ requests # <<>>
        /\ UNCHANGED <<asked, queue, handling, pendingOffers>>
    BY DEF AgentInv, Dispatch, chatVars
  <1>2. Remembers  BY <1>1 DEF Remembers
  <1>3. /\ Head(requests) \in RequestRec /\ HonestRequest(Head(requests))
        /\ requests' \in Seq(RequestRec)
        /\ \A i \in DOMAIN requests' : HonestRequest(requests'[i])
    <2>1. /\ requests \in Seq(RequestRec) /\ requests' = Tail(requests)
      BY <1>1 DEF RequestsOK, Dispatch
    <2>2. /\ Head(requests) \in RequestRec
          /\ requests' \in Seq(RequestRec)
          /\ Len(requests') = Len(requests) - 1
          /\ \A i \in 1..Len(requests') : requests'[i] = requests[i + 1]
      BY <1>1, <2>1, HeadTailProperties
    <2>3. /\ DOMAIN requests = 1..Len(requests) /\ Len(requests) \in Nat
          /\ DOMAIN requests' = 1..Len(requests')
      BY <2>1, <2>2, LenProperties
    <2>4. Len(requests) > 0 /\ Head(requests) = requests[1]
      BY <1>1, <2>1, EmptySeq
    <2>5. HonestRequest(Head(requests))
      BY <1>1, <2>3, <2>4 DEF RequestsOK
    <2>6. \A i \in DOMAIN requests' : i + 1 \in DOMAIN requests
      BY <2>2, <2>3
    <2>7. QED BY <1>1, <2>2, <2>3, <2>5, <2>6 DEF RequestsOK
  <1>4. RequestsOK'
    <2>1. ASSUME NEW i \in DOMAIN requests'
          PROVE  HonestRequest(requests[i])'
      <3>1. PICK x : x = requests'[i] /\ HonestRequest(x)  BY <1>3
      <3>2. HonestRequest(x)'  BY <1>1, <1>2, <3>1, HonestRequestStays
      <3>3. QED BY <3>1, <3>2
    <2>2. QED BY <1>3, <2>1 DEF RequestsOK
  <1>5. PICK q \in RequestRec : q = Head(requests) /\ HonestRequest(q)
    BY <1>3
  <1>6. WorkingOK'
    <2>1. HonestRequest(q)'  BY <1>1, <1>2, <1>5, HonestRequestStays
    <2>2. PICK result : working' = <<[request |-> q, result |-> result, sent |-> FALSE]>>
      BY <1>5 DEF Dispatch
    <2>3. QED BY <2>1, <2>2 DEF WorkingOK
  <1>7. OffersOK'
    <2>1. CASE UNCHANGED offers  BY <1>1, <1>2, <2>1, OffersKept
    <2>2. CASE offers' \in Effects(q)
      <3>1. PICK new \in Effects(q) : new = offers'  BY <2>2
      <3>2. ASSUME NEW id \in DOMAIN new
            PROVE  /\ new[id] \in OfferRec
                   /\ Honest(id, new[id].by, new[id].deal, new[id].discount)'
        <4>1. PICK row : row = new[id]  OBVIOUS
        <4>2. row \in OfferRec /\ Honest(id, row.by, row.deal, row.discount)
          BY <1>1, <1>5, <4>1, EffectsOK
        <4>3. Honest(id, row.by, row.deal, row.discount)'
          BY <1>1, <1>2, <4>2, HonestStays
        <4>4. QED BY <4>1, <4>2, <4>3
      <3>3. QED BY <3>1, <3>2 DEF OffersOK
    <2>3. QED BY <1>5, <2>1, <2>2 DEF Dispatch
  <1>8. QED BY <1>1, <1>4, <1>6, <1>7, BackendStep

LEMMA RequeueOK ==
    ASSUME AgentInv, working # <<>>, Requeue, UNCHANGED <<asked, handling>>
    PROVE  RequestsOK'
  <1>1. HandlingOK /\ RequestsOK /\ WorkingOK  BY DEF AgentInv
  <1>2. Remembers  BY DEF Remembers
  <1>3. PICK q \in RequestRec : q = working[1].request /\ HonestRequest(q)
    BY <1>1 DEF WorkingOK
  <1>4. requests \in Seq(RequestRec) /\ <<q>> \in Seq(RequestRec)
    BY <1>1 DEF RequestsOK
  <1>5. requests' = <<q>> \o requests  BY <1>3 DEF Requeue
  <1>6. /\ requests' \in Seq(RequestRec) /\ Len(requests') = 1 + Len(requests)
        /\ \A i \in 1..1 + Len(requests) :
              requests'[i] = IF i <= 1 THEN <<q>>[i] ELSE requests[i - 1]
    BY <1>4, <1>5, ConcatProperties
  <1>7. /\ DOMAIN requests = 1..Len(requests) /\ Len(requests) \in Nat
        /\ DOMAIN requests' = 1..Len(requests')
    BY <1>4, <1>6, LenProperties
  <1>8. ASSUME NEW i \in DOMAIN requests'
        PROVE  HonestRequest(requests[i])'
    <2>1. PICK x : x = requests'[i] /\ HonestRequest(x)
      <3>1. CASE i = 1  BY <1>3, <1>6, <1>7, <3>1
      <3>2. CASE i # 1
        <4>1. i - 1 \in DOMAIN requests /\ requests'[i] = requests[i - 1]
          BY <1>6, <1>7, <3>2
        <4>2. QED BY <1>1, <4>1 DEF RequestsOK
      <3>3. QED BY <3>1, <3>2
    <2>2. HonestRequest(x)'  BY <1>1, <1>2, <2>1, HonestRequestStays
    <2>3. QED BY <2>1, <2>2
  <1>9. QED BY <1>6, <1>8 DEF RequestsOK

LEMMA SentRecord ==
    ASSUME NEW q, NEW result, NEW sent
    PROVE  [[request |-> q, result |-> result, sent |-> sent] EXCEPT !.sent = TRUE]
             = [request |-> q, result |-> result, sent |-> TRUE]
  <1> DEFINE w == [request |-> q, result |-> result, sent |-> sent]
             W == [request : {q}, result : {result}, sent : {sent, TRUE}]
  <1>1. w \in W  OBVIOUS
  <1>2. [w EXCEPT !.sent = TRUE] \in W  BY <1>1
  <1>3. [w EXCEPT !.sent = TRUE].sent = TRUE  BY <1>1
  <1>4. [request |-> q, result |-> result, sent |-> TRUE] \in W  OBVIOUS
  <1>5. ASSUME NEW x \in W, NEW y \in W, x.sent = y.sent
        PROVE  x = y
    <2>1. x.request = y.request /\ x.result = y.result  OBVIOUS
    <2>2. QED BY <1>5, <2>1
  <1> HIDE DEF W
  <1>6. QED BY <1>2, <1>3, <1>4, <1>5

LEMMA RespondInv ==
    ASSUME AgentInv, Respond, UNCHANGED chatVars
    PROVE  AgentInv'
  <1>1. /\ HandlingOK /\ RequestsOK /\ WorkingOK /\ OffersOK /\ working # <<>>
        /\ UNCHANGED <<asked, queue, handling, pendingOffers, offers>>
    BY DEF AgentInv, Respond, chatVars
  <1>2. Remembers  BY <1>1 DEF Remembers
  <1>3. OffersOK'  BY <1>1, <1>2, OffersKept
  <1>4. CASE working' = <<[working[1] EXCEPT !.sent = TRUE]>> /\ UNCHANGED requests
    <2>1. RequestsOK'  BY <1>1, <1>2, <1>4, RequestsKept
    <2>2. PICK q, result, sent :
              /\ q \in RequestRec /\ HonestRequest(q)
              /\ working = <<[request |-> q, result |-> result, sent |-> sent]>>
      BY <1>1 DEF WorkingOK
    <2>3. HonestRequest(q)'  BY <1>1, <1>2, <2>2, HonestRequestStays
    <2>4. working' = <<[request |-> q, result |-> result, sent |-> TRUE]>>
      <3>1. working[1] = [request |-> q, result |-> result, sent |-> sent]
        BY <2>2
      <3>2. [working[1] EXCEPT !.sent = TRUE]
              = [request |-> q, result |-> result, sent |-> TRUE]
        BY <3>1, SentRecord
      <3>3. QED BY <1>4, <3>2
    <2>5. WorkingOK'  BY <2>2, <2>3, <2>4 DEF WorkingOK
    <2>6. QED BY <1>1, <1>3, <2>1, <2>5, BackendStep
  <1>5. CASE Requeue /\ working' = <<>>
    <2>1. RequestsOK'  BY <1>1, <1>5, RequeueOK
    <2>2. WorkingOK'  BY <1>5 DEF WorkingOK
    <2>3. QED BY <1>1, <1>3, <2>1, <2>2, BackendStep
  <1>6. QED BY <1>4, <1>5 DEF Respond

LEMMA RpcInv ==
    ASSUME AgentInv, RpcNext, UNCHANGED chatVars
    PROVE  AgentInv'
  <1>1. /\ HandlingOK /\ RequestsOK /\ WorkingOK /\ OffersOK
        /\ UNCHANGED <<asked, queue, handling, pendingOffers>>
    BY DEF AgentInv, chatVars
  <1>2. Remembers  BY <1>1 DEF Remembers
  <1>3. CASE AckRequest
    <2>1. UNCHANGED <<requests, offers>> /\ working' = <<>>
      BY <1>3 DEF AckRequest
    <2>2. RequestsOK' /\ OffersOK'  BY <1>1, <1>2, <2>1, RequestsKept, OffersKept
    <2>3. WorkingOK'  BY <2>1 DEF WorkingOK
    <2>4. QED BY <1>1, <2>2, <2>3, BackendStep
  <1>4. CASE CrashBackend
    <2>1. working # <<>> /\ Requeue /\ working' = <<>> /\ UNCHANGED offers
      BY <1>4 DEF CrashBackend
    <2>2. RequestsOK'  BY <1>1, <2>1, RequeueOK
    <2>3. OffersOK'  BY <1>1, <1>2, <2>1, OffersKept
    <2>4. WorkingOK'  BY <2>1 DEF WorkingOK
    <2>5. QED BY <1>1, <2>2, <2>3, <2>4, BackendStep
  <1>5. CASE CloseClient \/ \E r \in replies : HandleResponse(r)
    <2>1. UNCHANGED <<requests, working, offers>>
      BY <1>5 DEF CloseClient, HandleResponse
    <2>2. RequestsOK' /\ WorkingOK' /\ OffersOK'
      BY <1>1, <1>2, <2>1, RequestsKept, WorkingKept, OffersKept
    <2>3. QED BY <1>1, <2>2, BackendStep
  <1>6. QED BY <1>3, <1>4, <1>5, DispatchInv, RespondInv DEF RpcNext

---------------------------------------------------------------------------
(* The theorems.                                                           *)

LEMMA InitInv == Init => AgentInv
  <1> SUFFICES ASSUME Init PROVE AgentInv
    OBVIOUS
  <1>1. AskedOK /\ PendingOK /\ OffersOK /\ WorkingOK
    BY DEF Init, RpcInit, AskedOK, PendingOK, OffersOK, WorkingOK
  <1>2. QueueOK  BY DEF Init, QueueOK
  <1>3. HandlingOK  BY EmptySeq DEF Init, HandlingOK
  <1>4. RequestsOK  BY EmptySeq DEF Init, RpcInit, RequestsOK
  <1>5. QED BY <1>1, <1>2, <1>3, <1>4 DEF AgentInv

LEMMA StutterInv ==
    ASSUME AgentInv, UNCHANGED <<asked, queue, handling, pendingOffers, requests, working, offers>>
    PROVE  AgentInv'
  <1>1. Remembers  BY DEF Remembers
  <1>2. RequestsOK' /\ WorkingOK' /\ OffersOK'
    BY <1>1, RequestsKept, WorkingKept, OffersKept DEF AgentInv
  <1>3. QED BY <1>2, BackendStep

LEMMA NextInv == AgentInv /\ [Next]_vars => AgentInv'
  <1> SUFFICES ASSUME AgentInv, [Next]_vars PROVE AgentInv'
    OBVIOUS
  <1>1. ASSUME NEW r \in Requests, ReadAnswer(r) \/ GiveUp(r) PROVE AgentInv'
    BY <1>1, StutterInv DEF ReadAnswer, GiveUp, rpcVars
  <1>2. CASE UNCHANGED vars
    BY <1>2, StutterInv DEF vars, rpcVars, chatVars
  <1>3. CASE Take  BY <1>3, DeliverInv DEF Take
  <1>4. QED BY <1>1, <1>2, <1>3, AskInv, HandleInv, RestartInv,
               ReconnectInv, RpcInv DEF Next

LEMMA Always == Spec => []AgentInv
  BY InitInv, NextInv, PTL DEF Spec

(* Whatever the language model says, the discount of every offer is the    *)
(* percentage its message writes, or none if it speaks of none, for any    *)
(* number of messages, sessions, handlings, retries and faults             *)
(* (app/agents/offer.py).                                                  *)
THEOREM DiscountsAreWritten == Spec => []NoInventedDiscount
  <1>1. AgentInv => NoInventedDiscount
    BY DEF AgentInv, OffersOK, Honest, Sanctioned, NoInventedDiscount
  <1>2. QED BY <1>1, Always, PTL

(* Every offer is about a deal, and in the name, of somebody who asked for *)
(* it in the session of the message that made it, even if an earlier       *)
(* message of the session supplied the deal (app/agents/offer.py).         *)
THEOREM OffersAreAskedFor == Spec => []OffersStayInTheConversation
  <1>1. AgentInv => OffersStayInTheConversation
    <2> SUFFICES ASSUME AgentInv, NEW id \in DOMAIN offers
                 PROVE  \E r \in Requests :
                           LET m == asked[handling[id[1]].req] IN
                           /\ asked[r] # None
                           /\ asked[r].session = m.session
                           /\ asked[r].user = m.user /\ offers[id].by = m.user
                           /\ offers[id].deal = asked[r].deal /\ offers[id].deal # None
      BY DEF OffersStayInTheConversation
    <2>1. Honest(id, offers[id].by, offers[id].deal, offers[id].discount)
      BY DEF AgentInv, OffersOK
    <2>2. QED BY <2>1 DEF Honest, DealAsked
  <1>2. QED BY <1>1, Always, PTL

---------------------------------------------------------------------------
(* What a step does to the requests: the handling of one of them goes on,  *)
(* is passed on, put back, answered or acknowledged.                       *)

InHand == Places \ {"ack", "over"}

(* Places at which the offer of the request has not been asked for.        *)
Unasked == {"route", "extract", "resume", "load", "text"}

(* Answers that are due to a call of the backend.                          *)
Successes == {"saved", "submitted"}

(* Handler h, and no other, has local l now.                               *)
Turned(h, l) ==
    /\ l \in LocalRec /\ l.req = handling[h].req /\ l.retry = handling[h].retry
    /\ DOMAIN handling' = DOMAIN handling
    /\ \A g \in DOMAIN handling : handling'[g] = IF g = h THEN l ELSE handling[g]

Rests == UNCHANGED <<asked, queue, handling, answers, redelivered, lost>>

Asks(r) ==
    /\ asked[r] = None
    /\ \A s \in Requests \ {r} : asked'[s] = asked[s]
    /\ queue' = Queued(r, 0, 1)
    /\ UNCHANGED <<handling, answers, redelivered, lost>>

Takes(r, k, n) ==
    /\ queue[r][k] > 0
    /\ queue' = Queued(r, k, 0 - 1)
    /\ n \in Handlings \ DOMAIN handling /\ DOMAIN handling' = DOMAIN handling \cup {n}
    /\ \A g \in DOMAIN handling : handling'[g] = handling[g]
    /\ handling'[n].req = r /\ handling'[n].retry = k
    /\ handling'[n].at \in {"route", "resume"}
    /\ UNCHANGED <<asked, answers, redelivered, lost>>

Works(h, l) ==
    /\ handling[h].at \in InHand /\ l.at \in InHand
    /\ l.at \in Unasked => handling[h].at \in Unasked
    /\ l.at = "answer" =>
          /\ l.answer \in Answers
          /\ l.answer \in Successes => handling[h].at \in {"create", "approval"}
    /\ UNCHANGED <<asked, queue, answers, redelivered>>

PassesOn(h, l) ==
    /\ handling[h].at \in Unasked /\ l.at = "ack"
    /\ handling[h].retry + 1 \in 0..MaxRetries
    /\ queue' = Queued(handling[h].req, handling[h].retry + 1, 1)
    /\ UNCHANGED <<asked, answers, redelivered>>

PutsBack(h, l) ==
    /\ l.at = "over"
    /\ queue' = Queued(handling[h].req, handling[h].retry, 1)
    /\ redelivered' = [redelivered EXCEPT ![handling[h].req] = @ + 1]
    /\ UNCHANGED <<asked, answers>>

GivesAnswer(h, l) ==
    /\ handling[h].at = "answer" /\ l.at = "ack"
    /\ answers' = [answers EXCEPT ![handling[h].req] = @ \cup {handling[h].answer}]
    /\ UNCHANGED <<asked, queue, redelivered>>

Acks(h, l) ==
    /\ handling[h].at = "ack" /\ l.at = "over"
    /\ UNCHANGED <<asked, queue, answers, redelivered>>

(* A handler that ends has nothing to put back if the broker did.          *)
Drops(h, l) ==
    /\ h \in lost /\ l.at = "over"
    /\ UNCHANGED <<asked, queue, answers, redelivered>>

HandlerStep(h, l) ==
    /\ Turned(h, l)
    /\ \/ Works(h, l) \/ PassesOn(h, l) \/ PutsBack(h, l) \/ GivesAnswer(h, l) \/ Acks(h, l)
       \/ Drops(h, l)

(* The broker takes the deliveries back, whether their handlers are gone   *)
(* or go on.                                                               *)
TakesBack ==
    /\ TakenBack
    /\ DOMAIN handling' = DOMAIN handling
    /\ \A g \in DOMAIN handling :
          \/ handling'[g] = handling[g]
          \/ handling'[g] = NewHandling(handling[g].req, handling[g].retry, "over", None)
    /\ lost' \in {{}, lost \cup LiveHandlings}
    /\ UNCHANGED <<asked, answers>>

LEMMA BecomesTurned ==
    ASSUME HandlingOK, NEW h \in DOMAIN handling, NEW l \in LocalRec,
           l.req = handling[h].req, l.retry = handling[h].retry, Become(h, l)
    PROVE  Turned(h, l)
  <1>1. /\ handling \in Seq(LocalRec) /\ h \in 1..Len(handling)
    BY HandlingTyped DEF HandlingOK
  <1>2. /\ DOMAIN handling' = DOMAIN handling
        /\ \A i \in DOMAIN handling : handling'[i] = IF i = h THEN l ELSE handling[i]
    BY <1>1, ExceptSeq, HandlingTyped DEF Become
  <1>3. QED BY <1>2 DEF Turned

LEMMA SayTurned ==
    ASSUME HandlingOK, NEW h \in DOMAIN handling, NEW answer \in Answers, Say(h, answer)
    PROVE  \E l : Turned(h, l) /\ l.at = "answer" /\ l.answer = answer
  <1>1. handling[h] \in LocalRec  BY HandlingTyped
  <1>2. PICK l : l = [handling[h] EXCEPT !.at = "answer", !.answer = answer]
    OBVIOUS
  <1>3. /\ l \in LocalRec /\ l.req = handling[h].req /\ l.retry = handling[h].retry
        /\ l.at = "answer" /\ l.answer = answer
    BY <1>1, <1>2 DEF LocalRec, Places
  <1>4. Become(h, l)  BY <1>2 DEF Say
  <1>5. QED BY <1>3, <1>4, BecomesTurned

LEMMA LeaveTurned ==
    ASSUME HandlingOK, NEW h \in DOMAIN handling, NEW a \in {"ack", "over"}, Leave(h, a)
    PROVE  \E l : Turned(h, l) /\ l.at = a
  <1>1. PICK l : l = NewHandling(handling[h].req, handling[h].retry, a, None)
    OBVIOUS
  <1>2. handling[h].req \in Requests /\ handling[h].retry \in 0..MaxRetries
    BY ReqTyped
  <1>3. /\ l \in LocalRec /\ l.req = handling[h].req /\ l.retry = handling[h].retry
        /\ l.at = a
    BY <1>1, <1>2 DEF LocalRec, Places, NewHandling
  <1>4. Become(h, l)  BY <1>1 DEF Leave
  <1>5. QED BY <1>3, <1>4, BecomesTurned

LEMMA GotoTurned ==
    ASSUME HandlingOK, NEW h \in DOMAIN handling, NEW a \in Places, Goto(h, a)
    PROVE  \E l : Turned(h, l) /\ l.at = a
  <1>1. handling[h] \in LocalRec  BY HandlingTyped
  <1>2. PICK l : l = [handling[h] EXCEPT !.at = a]
    OBVIOUS
  <1>3. /\ l \in LocalRec /\ l.req = handling[h].req /\ l.retry = handling[h].retry
        /\ l.at = a
    BY <1>1, <1>2 DEF LocalRec
  <1>4. Become(h, l)  BY <1>2 DEF Goto
  <1>5. QED BY <1>3, <1>4, BecomesTurned

LEMMA PlanTurned ==
    ASSUME HandlingOK, NEW h \in DOMAIN handling, NEW a \in Places, NEW plan \in Plan,
           Become(h, [handling[h] EXCEPT !.at = a, !.plan = plan])
    PROVE  \E l : Turned(h, l) /\ l.at = a
  <1>1. handling[h] \in LocalRec  BY HandlingTyped
  <1>2. PICK l : l = [handling[h] EXCEPT !.at = a, !.plan = plan]
    OBVIOUS
  <1>3. /\ l \in LocalRec /\ l.req = handling[h].req /\ l.retry = handling[h].retry
        /\ l.at = a
    BY <1>1, <1>2 DEF LocalRec
  <1>4. Become(h, l)  BY <1>2
  <1>5. QED BY <1>3, <1>4, BecomesTurned

(* A handler that has something in hand works on, or answers.              *)
LEMMA SayWorks ==
    ASSUME HandlingOK, NEW h \in DOMAIN handling, NEW answer \in Answers, Say(h, answer),
           answer \in Successes => handling[h].at \in {"create", "approval"},
           handling[h].at \in InHand, UNCHANGED <<asked, queue, answers, redelivered>>
    PROVE  \E l : HandlerStep(h, l)
  <1>1. PICK l : Turned(h, l) /\ l.at = "answer" /\ l.answer = answer
    BY SayTurned
  <1>2. "answer" \in InHand /\ "answer" \notin Unasked
    BY DEF InHand, Places, Unasked
  <1>3. Works(h, l)  BY <1>1, <1>2 DEF Works
  <1>4. QED BY <1>1, <1>3 DEF HandlerStep

LEMMA TurnedWorks ==
    ASSUME NEW h \in DOMAIN handling, NEW l, Turned(h, l),
           l.at \in {"extract", "load", "text", "create", "submit", "approval"},
           handling[h].at \in Planned \cup {"route"},
           l.at \in Unasked => handling[h].at \in Unasked,
           UNCHANGED <<asked, queue, answers, redelivered>>
    PROVE  HandlerStep(h, l)
  <1>1. l.at \in InHand /\ handling[h].at \in InHand /\ l.at # "answer"
    BY DEF InHand, Places, Planned
  <1>2. QED BY <1>1 DEF Works, HandlerStep

LEMMA PutBackStep ==
    ASSUME HandlingOK, NEW h \in DOMAIN handling, PutBack(h), Leave(h, "over"),
           UNCHANGED <<asked, answers>>
    PROVE  \E l : HandlerStep(h, l)
  <1>1. PICK l : Turned(h, l) /\ l.at = "over"  BY LeaveTurned
  <1>2. CASE h \in lost
    <2>1. Drops(h, l)  BY <1>1, <1>2 DEF PutBack, Drops
    <2>2. QED BY <1>1, <2>1 DEF HandlerStep
  <1>3. CASE h \notin lost
    <2>1. PutsBack(h, l)  BY <1>1, <1>3 DEF PutBack, PutsBack
    <2>2. QED BY <1>1, <2>1 DEF HandlerStep
  <1>4. QED BY <1>2, <1>3

LEMMA TemporaryErrorStep ==
    ASSUME AgentInv, NEW h \in DOMAIN handling, TemporaryError(h)
    PROVE  \E l : HandlerStep(h, l)
  <1> DEFINE r == handling[h].req  k == handling[h].retry
  <1>1. /\ HandlingOK /\ Retry(h) /\ UNCHANGED <<asked, answers>>
        /\ handling[h].at \in Unasked /\ handling[h].at \in InHand
    BY DEF AgentInv, TemporaryError, Unasked, InHand, Places
  <1>2. k \in 0..MaxRetries /\ MaxRetries \in Nat
    BY <1>1, ReqTyped, ChatMessageAssumption
  <1>3. CASE /\ k < MaxRetries /\ queue' = Queued(r, NextRetry(k), 1) /\ Leave(h, "ack")
             /\ UNCHANGED redelivered
    <2>1. PICK l : Turned(h, l) /\ l.at = "ack"  BY <1>1, <1>3, LeaveTurned
    <2>2. k + 1 \in 0..MaxRetries  BY <1>2, <1>3
    <2>3. PassesOn(h, l)  BY <1>1, <1>3, <2>1, <2>2 DEF PassesOn, NextRetry
    <2>4. QED BY <2>1, <2>3 DEF HandlerStep
  <1>4. CASE PutBack(h) /\ Leave(h, "over")  BY <1>1, <1>4, PutBackStep
  <1>5. CASE Say(h, "failed") /\ UNCHANGED <<queue, redelivered>>
    BY <1>1, <1>5, SayWorks DEF Answers, Successes
  <1>6. QED BY <1>1, <1>3, <1>4, <1>5 DEF Retry

LEMMA PermanentErrorStep ==
    ASSUME AgentInv, NEW h \in DOMAIN handling, PermanentError(h)
    PROVE  \E l : HandlerStep(h, l)
  <1>1. /\ HandlingOK /\ Say(h, "failed") /\ UNCHANGED <<asked, queue, answers, redelivered>>
        /\ handling[h].at \in InHand
    BY DEF AgentInv, PermanentError, InHand, Places
  <1>2. QED BY <1>1, SayWorks DEF Answers, Successes

LEMMA RouteStep ==
    ASSUME AgentInv, NEW h \in DOMAIN handling, Route(h)
    PROVE  \E l : HandlerStep(h, l)
  <1>1. /\ AskedOK /\ HandlingOK /\ UNCHANGED <<asked, queue, answers, redelivered>>
        /\ handling[h].at = "route"
    BY DEF AgentInv, Route
  <1>2. CASE Say(h, "other") \/ Say(h, "which_deal")
    <2>1. handling[h].at \in InHand  BY <1>1 DEF InHand, Places
    <2>2. QED BY <1>1, <1>2, <2>1, SayWorks DEF Answers, Successes
  <1>3. ASSUME NEW plan, Message(h).deal # None,
               plan \in [intent : {"create_offer", "calculate_offer"},
                         deal : {Message(h).deal}, discount : {0}, over : {FALSE}],
               Become(h, [handling[h] EXCEPT !.at = "extract", !.plan = plan])
        PROVE  \E l : HandlerStep(h, l)
    <2>1. Message(h) \in ChatMessages
      BY <1>1, ReqTyped DEF Message, AskedOK
    <2>2. plan \in Plan  BY <1>3, <2>1 DEF Plan
    <2>3. PICK l : Turned(h, l) /\ l.at = "extract"
      BY <1>1, <1>3, <2>2, PlanTurned DEF Places
    <2>4. HandlerStep(h, l)  BY <1>1, <2>3, TurnedWorks DEF Unasked
    <2>5. QED BY <2>4
  <1>4. CASE /\ Message(h).deal # None
             /\ \E intent \in {"create_offer", "calculate_offer"} :
                   Become(h, [handling[h] EXCEPT !.at = "extract",
                       !.plan = [intent |-> intent, deal |-> Message(h).deal, discount |-> 0,
                                 over |-> FALSE]])
    <2>1. PICK intent \in {"create_offer", "calculate_offer"} :
                   Become(h, [handling[h] EXCEPT !.at = "extract",
                       !.plan = [intent |-> intent, deal |-> Message(h).deal, discount |-> 0,
                                 over |-> FALSE]])
      BY <1>4
    <2>2. PICK plan : plan = [intent |-> intent, deal |-> Message(h).deal, discount |-> 0,
                              over |-> FALSE]
      OBVIOUS
    <2>3. plan \in [intent : {"create_offer", "calculate_offer"},
                         deal : {Message(h).deal}, discount : {0}, over : {FALSE}]
      BY <2>2
    <2>4. Become(h, [handling[h] EXCEPT !.at = "extract", !.plan = plan])
      BY <2>1, <2>2
    <2>5. QED BY <1>3, <1>4, <2>3, <2>4
  <1>5. QED BY <1>2, <1>4 DEF Route

(* The discount is understood: the graph starts.                           *)
LEMMA StartGraphStep ==
    ASSUME AgentInv, NEW h \in DOMAIN handling, handling[h].at \in {"extract", "resume"},
           NEW d \in {0} \cup Percents, StartGraph(h, d),
           UNCHANGED <<asked, queue, answers, redelivered>>
    PROVE  \E l : HandlerStep(h, l)
  <1>1. HandlingOK /\ handling[h].at \in Planned  BY DEF AgentInv, Planned
  <1>2. handling[h] \in LocalRec /\ LocalOK(handling[h])  BY <1>1, HandlingTyped
  <1>3. handling[h].plan \in Plan  BY <1>1, <1>2 DEF LocalOK
  <1>4. PICK plan : plan = [handling[h].plan EXCEPT !.discount = d]
    OBVIOUS
  <1>5. plan \in Plan  BY <1>3, <1>4 DEF Plan
  <1>6. Become(h, [handling[h] EXCEPT !.at = "load", !.plan = plan])
    BY <1>2, <1>4 DEF StartGraph, LocalRec
  <1>7. PICK l : Turned(h, l) /\ l.at = "load"
    BY <1>1, <1>5, <1>6, PlanTurned DEF Places
  <1>8. handling[h].at \in Unasked  BY DEF Unasked
  <1>9. HandlerStep(h, l)  BY <1>1, <1>7, <1>8, TurnedWorks
  <1>10. QED BY <1>9

LEMMA UnderstoodIsPercent ==
    ASSUME AgentInv, NEW h \in DOMAIN handling, NEW context, NEW facts,
           NEW d \in Understood(Message(h), context, facts)
    PROVE  d \in {0} \cup Percents
  <1>1. Message(h) \in ChatMessages
    BY ReqTyped DEF AgentInv, Message, AskedOK
  <1>2. QED BY <1>1, PercentsAreNats DEF Understood

LEMMA DiscountStep ==
    ASSUME AgentInv, NEW h \in DOMAIN handling, Extract(h) \/ ResumeOffer(h)
    PROVE  \E l : HandlerStep(h, l)
  <1>1. /\ HandlingOK /\ UNCHANGED <<asked, queue, answers, redelivered>>
        /\ handling[h].at \in {"extract", "resume"} /\ handling[h].at \in InHand
    BY DEF AgentInv, Extract, ResumeOffer, InHand, Places
  <1>2. CASE Say(h, "clarify")
    BY <1>1, <1>2, SayWorks DEF Answers, Successes
  <1>3. ASSUME NEW d, StartGraph(h, d), NEW context, NEW facts,
               d \in Understood(Message(h), context, facts)
        PROVE  \E l : HandlerStep(h, l)
    <2>1. d \in {0} \cup Percents  BY <1>3, UnderstoodIsPercent
    <2>2. QED BY <1>1, <1>3, <2>1, StartGraphStep
  <1>4. CASE Extract(h)  BY <1>2, <1>3, <1>4 DEF Extract
  <1>5. CASE ResumeOffer(h)  BY <1>2, <1>3, <1>5 DEF ResumeOffer
  <1>6. QED BY <1>4, <1>5

LEMMA LoadStep ==
    ASSUME AgentInv, NEW h \in DOMAIN handling, Load(h)
    PROVE  \E l : HandlerStep(h, l)
  <1>1. /\ HandlingOK /\ UNCHANGED <<asked, queue, answers, redelivered>>
        /\ handling[h].at = "load" /\ handling[h].at \in InHand
    BY DEF AgentInv, Load, InHand, Places
  <1>2. CASE \E answer \in {"data_error", "forbidden", "calculation"} : Say(h, answer)
    BY <1>1, <1>2, SayWorks DEF Answers, Successes
  <1>3. ASSUME NEW over \in BOOLEAN,
               Become(h, [handling[h] EXCEPT !.at = "text",
                                             !.plan = [@ EXCEPT !.over = over]])
        PROVE  \E l : HandlerStep(h, l)
    <2>1. handling[h] \in LocalRec /\ LocalOK(handling[h])  BY <1>1, HandlingTyped
    <2>2. handling[h].plan \in Plan  BY <1>1, <2>1 DEF LocalOK, Planned
    <2>3. PICK plan : plan = [handling[h].plan EXCEPT !.over = over]
      OBVIOUS
    <2>4. plan \in Plan  BY <2>2, <2>3 DEF Plan
    <2>5. Become(h, [handling[h] EXCEPT !.at = "text", !.plan = plan])
      BY <1>3, <2>1, <2>3 DEF LocalRec
    <2>6. PICK l : Turned(h, l) /\ l.at = "text"
      BY <1>1, <2>4, <2>5, PlanTurned DEF Places
    <2>7. HandlerStep(h, l)  BY <1>1, <2>6, TurnedWorks DEF Planned, Unasked
    <2>8. QED BY <2>7
  <1>4. QED BY <1>2, <1>3 DEF Load

LEMMA CallStep ==
    ASSUME AgentInv, NEW h \in DOMAIN handling, handling[h].at \in {"text", "submit"},
           NEW q, q.op \in {"create", "approval"}, NEW failure \in Answers,
           failure \notin Successes, Call(h, q, failure), UNCHANGED <<asked, queue, answers, redelivered>>
    PROVE  \E l : HandlerStep(h, l)
  <1>1. HandlingOK /\ handling[h].at \in InHand  BY DEF AgentInv, InHand, Places
  <1>2. CASE Goto(h, q.op)
    <2>1. PICK l : Turned(h, l) /\ l.at = q.op  BY <1>1, <1>2, GotoTurned DEF Places
    <2>2. HandlerStep(h, l)  BY <2>1, TurnedWorks DEF Planned, Unasked
    <2>3. QED BY <2>2
  <1>3. CASE Say(h, failure)  BY <1>1, <1>3, SayWorks
  <1>4. QED BY <1>2, <1>3 DEF Call

LEMMA WriteTextStep ==
    ASSUME AgentInv, NEW h \in DOMAIN handling, WriteText(h)
    PROVE  \E l : HandlerStep(h, l)
  <1>1. /\ HandlingOK /\ UNCHANGED <<asked, queue, answers, redelivered>>
        /\ handling[h].at = "text" /\ handling[h].at \in InHand
    BY DEF AgentInv, WriteText, InHand, Places
  <1>2. CASE Say(h, "text_error")  BY <1>1, <1>2, SayWorks DEF Answers, Successes
  <1>3. CASE Call(h, CreateRequest(h), "save_failed")
    <2>1. CreateRequest(h).op = "create" /\ "save_failed" \in Answers \ Successes
      BY DEF CreateRequest, Answers, Successes
    <2>2. QED BY <1>1, <1>3, <2>1, CallStep
  <1>4. QED BY <1>2, <1>3 DEF WriteText

LEMMA SubmitStep ==
    ASSUME AgentInv, NEW h \in DOMAIN handling, Submit(h)
    PROVE  \E l : HandlerStep(h, l)
  <1>1. HandlingOK /\ handling[h].at = "submit"
        /\ UNCHANGED <<asked, queue, answers, redelivered>>
    BY DEF AgentInv, Submit
  <1>2. PICK q : q = [CreateRequest(h) EXCEPT !.op = "approval", !.id = <<h, "approval">>]
    OBVIOUS
  <1>3. q.op = "approval"  BY <1>2 DEF CreateRequest
  <1>4. Call(h, q, "approval_failed") /\ "approval_failed" \in Answers \ Successes
    BY <1>2 DEF Submit, Answers, Successes
  <1>5. QED BY <1>1, <1>3, <1>4, CallStep

LEMMA ResumedStep ==
    ASSUME AgentInv, NEW h \in DOMAIN handling, OfferCreated(h) \/ OfferSubmitted(h)
    PROVE  \E l : HandlerStep(h, l)
  <1>1. /\ HandlingOK /\ UNCHANGED <<asked, queue, answers, redelivered>>
        /\ handling[h].at \in {"create", "approval"} /\ handling[h].at \in InHand
    BY DEF AgentInv, OfferCreated, OfferSubmitted, InHand, Places
  <1>2. CASE OfferCreated(h)
    <2> DEFINE next == AfterCreate(handling[h].plan, Outcome(<<h, "create">>))
    <2>1. next \in {"forbidden", "saved", "submit", "save_failed"}
      BY DEF AfterCreate
    <2>2. handling[h].at = "create"  BY <1>2 DEF OfferCreated
    <2>3. IF next = "submit" THEN Goto(h, next) ELSE Say(h, next)
      BY <1>2 DEF OfferCreated
    <2> HIDE DEF next
    <2>4. CASE next = "submit"
      <3>1. PICK l : Turned(h, l) /\ l.at = "submit"
        BY <1>1, <2>3, <2>4, GotoTurned DEF Places
      <3>2. Works(h, l)  BY <1>1, <3>1 DEF Works, InHand, Places, Unasked
      <3>3. QED BY <3>1, <3>2 DEF HandlerStep
    <2>5. CASE next # "submit"
      BY <1>1, <2>1, <2>3, <2>5, SayWorks DEF Answers, Successes
    <2>6. QED BY <2>4, <2>5
  <1>3. CASE OfferSubmitted(h)
    <2> DEFINE next == AfterApproval(Outcome(<<h, "approval">>))
    <2>1. next \in Answers  BY DEF AfterApproval, Answers
    <2>2. Say(h, next)  BY <1>3 DEF OfferSubmitted
    <2> HIDE DEF next
    <2>3. QED BY <1>1, <2>1, <2>2, SayWorks
  <1>4. QED BY <1>2, <1>3

LEMMA EndStep ==
    ASSUME AgentInv, NEW h \in DOMAIN handling, Answer(h) \/ Ack(h)
    PROVE  \E l : HandlerStep(h, l)
  <1>1. HandlingOK /\ UNCHANGED asked  BY DEF AgentInv, Answer, Ack
  <1>2. CASE /\ handling[h].at = "answer" /\ Leave(h, "ack")
             /\ answers' = [answers EXCEPT ![handling[h].req] = @ \cup {handling[h].answer}]
             /\ UNCHANGED <<queue, redelivered>>
    <2>1. PICK l : Turned(h, l) /\ l.at = "ack"  BY <1>1, <1>2, LeaveTurned
    <2>2. GivesAnswer(h, l)  BY <1>1, <1>2, <2>1 DEF GivesAnswer
    <2>3. QED BY <2>1, <2>2 DEF HandlerStep
  <1>3. CASE PutBack(h) /\ Leave(h, "over") /\ UNCHANGED answers
    BY <1>1, <1>3, PutBackStep
  <1>4. CASE Ack(h)
    <2>1. /\ handling[h].at = "ack" /\ Leave(h, "over")
          /\ UNCHANGED <<asked, queue, answers, redelivered>>
      BY <1>4 DEF Ack
    <2>2. PICK l : Turned(h, l) /\ l.at = "over"  BY <1>1, <2>1, LeaveTurned
    <2>3. Acks(h, l)  BY <2>1, <2>2 DEF Acks
    <2>4. QED BY <2>2, <2>3 DEF HandlerStep
  <1>5. QED BY <1>2, <1>3, <1>4 DEF Answer

LEMMA HandleStep ==
    ASSUME AgentInv, NEW h \in DOMAIN handling, Handle(h)
    PROVE  \E l : HandlerStep(h, l)
  BY TemporaryErrorStep, PermanentErrorStep, RouteStep, DiscountStep, LoadStep,
     WriteTextStep, ResumedStep, SubmitStep, EndStep DEF Handle

LEMMA TakeStep ==
    ASSUME AgentInv, NEW r \in Requests, NEW k \in 0..MaxRetries, Deliver(r, k)
    PROVE  \E n : Takes(r, k, n)
  <1>1. PICK l : /\ handling' = Append(handling, l)
                 /\ l.req = r /\ l.retry = k /\ l.at \in {"route", "resume"}
    <2>1. PICK keys \in Unexpired :
             handling' = Append(handling,
                IF Key(asked[r]) \in keys
                THEN NewHandling(r, k, "resume", pendingOffers[Key(asked[r])].plan)
                ELSE NewHandling(r, k, "route", None))
      BY DEF Deliver
    <2>2. QED BY <2>1 DEF NewHandling
  <1>2. HandlingOK /\ HandlingOK'  BY DeliverInv DEF AgentInv
  <1>3. handling \in Seq(LocalRec) /\ DOMAIN handling = 1..Len(handling) /\ Len(handling) \in Nat
    BY <1>2, HandlingTyped DEF HandlingOK
  <1>4. /\ Len(handling') = Len(handling) + 1 /\ DOMAIN handling' = 1..Len(handling')
        /\ \A i \in 1..Len(handling) : handling'[i] = handling[i]
        /\ handling'[Len(handling) + 1] = l
    <2> DEFINE S == LocalRec \cup {l}
    <2>1. handling \in [1..Len(handling) -> S]
      BY <1>3
    <2>2. handling \in Seq(S) /\ l \in S
      BY <1>3, <2>1
    <2> HIDE DEF S
    <2>3. QED BY <1>1, <2>2, AppendProperties, LenProperties
  <1>5. PICK n : n = Len(handling) + 1  OBVIOUS
  <1>6. /\ n \in Handlings \ DOMAIN handling /\ DOMAIN handling' = DOMAIN handling \cup {n}
        /\ handling'[n] = l
        /\ \A g \in DOMAIN handling : handling'[g] = handling[g]
    <2>1. n \in Handlings  BY <1>3, <1>5, ChatMessageAssumption DEF Deliver, Handlings
    <2>2. QED BY <1>3, <1>4, <1>5, <2>1
  <1>7. /\ queue[r][k] > 0 /\ queue' = Queued(r, k, 0 - 1)
        /\ UNCHANGED <<asked, answers, redelivered, lost>>
    BY DEF Deliver
  <1>8. Takes(r, k, n)  BY <1>1, <1>6, <1>7 DEF Takes
  <1>9. QED BY <1>8

LEMMA StepKinds ==
    ASSUME AgentInv, [Next]_vars
    PROVE  \/ Rests
           \/ \E r \in Requests : Asks(r)
           \/ \E r \in Requests, k \in 0..MaxRetries : \E n : Takes(r, k, n)
           \/ \E h \in DOMAIN handling :
                 Handle(h) /\ UNCHANGED lost /\ \E l : HandlerStep(h, l)
           \/ TakesBack
  <1>1. ASSUME NEW r \in Requests, NEW m \in ChatMessages, Ask(r, m)
        PROVE  Asks(r)
    BY <1>1 DEF Ask, Asks, AgentInv, AskedOK
  <1>2. ASSUME NEW r \in Requests, ReadAnswer(r) \/ GiveUp(r) PROVE Rests
    BY <1>2 DEF ReadAnswer, GiveUp, Rests
  <1>3. CASE UNCHANGED vars \/ (RpcNext /\ UNCHANGED chatVars)
    BY <1>3 DEF vars, chatVars, Rests
  <1>4. CASE Take  BY <1>4, TakeStep DEF Take
  <1>5. CASE RestartAgent
    BY <1>5 DEF RestartAgent, TakesBack
  <1>6. CASE Reconnect
    BY <1>6 DEF Reconnect, TakesBack
  <1>7. ASSUME NEW h \in DOMAIN handling, Handle(h) PROVE UNCHANGED lost
    BY <1>7 DEF Handle, TemporaryError, PermanentError, Route, Extract, ResumeOffer, Load,
       WriteText, OfferCreated, Submit, OfferSubmitted, Answer, Ack
  <1>8. QED BY <1>1, <1>2, <1>3, <1>4, <1>5, <1>6, <1>7, HandleStep DEF Next

---------------------------------------------------------------------------
(* Custody.  Until a request is answered, a copy of it is queued or a      *)
(* handler has it in hand: what is about to be acknowledged does not count.*)

Keeps(h, r) ==
    /\ h \in DOMAIN handling \ lost
    /\ handling[h].req = r /\ handling[h].at \in InHand

InCustody(r) ==
    \/ answers[r] # {}
    \/ \E k \in 0..MaxRetries : queue[r][k] > 0
    \/ \E h \in DOMAIN handling : Keeps(h, r)

Custody ==
    /\ DOMAIN answers = Requests /\ lost \subseteq DOMAIN handling
    /\ \A r \in Requests : asked[r] # None => InCustody(r)

(* A copy more is a copy at least, and no copy is lost by one more.        *)
LEMMA QueuedMore ==
    ASSUME QueueOK, NEW r \in Requests, NEW k \in 0..MaxRetries, queue' = Queued(r, k, 1)
    PROVE  /\ queue'[r][k] > 0
           /\ \A s \in Requests, i \in 0..MaxRetries : queue[s][i] > 0 => queue'[s][i] > 0
  <1>1. /\ queue \in [Requests -> [0..MaxRetries -> Nat]]
        /\ queue' = [queue EXCEPT ![r][k] = @ + 1]
    BY DEF QueueOK, Queued
  <1>2. \A s \in Requests, i \in 0..MaxRetries : queue[s][i] \in Nat
    BY <1>1
  <1>3. \A s \in Requests, i \in 0..MaxRetries :
           queue'[s][i] = IF s = r /\ i = k THEN queue[s][i] + 1 ELSE queue[s][i]
    BY <1>1
  <1>4. QED BY <1>2, <1>3

LEMMA QueuedFewer ==
    ASSUME QueueOK, NEW r \in Requests, NEW k \in 0..MaxRetries, queue' = Queued(r, k, 0 - 1)
    PROVE  \A s \in Requests, i \in 0..MaxRetries :
              queue[s][i] > 0 => s = r \/ queue'[s][i] > 0
  <1>1. /\ queue \in [Requests -> [0..MaxRetries -> Nat]]
        /\ queue' = [queue EXCEPT ![r][k] = @ + (0 - 1)]
    BY DEF QueueOK, Queued
  <1>2. \A s \in Requests \ {r} : queue'[s] = queue[s]
    BY <1>1
  <1>3. QED BY <1>2

LEMMA CustodyOfAsked ==
    ASSUME AgentInv, Custody, NEW r \in Requests, Asks(r)
    PROVE  Custody'
  <1>1. QueueOK /\ queue' = Queued(r, 0, 1) /\ 0 \in 0..MaxRetries
        /\ UNCHANGED <<handling, answers, lost>>
    BY ChatMessageAssumption DEF AgentInv, Asks
  <1>2. /\ queue'[r][0] > 0
        /\ \A s \in Requests, i \in 0..MaxRetries : queue[s][i] > 0 => queue'[s][i] > 0
    BY <1>1, QueuedMore
  <1>3. ASSUME NEW s \in Requests, asked'[s] # None PROVE InCustody(s)'
    <2>1. CASE s = r  BY <1>1, <1>2, <2>1 DEF InCustody
    <2>2. CASE s # r
      <3>1. InCustody(s)  BY <1>3, <2>2 DEF Asks, Custody
      <3>2. QED BY <1>1, <1>2, <3>1 DEF InCustody, Keeps
    <2>3. QED BY <2>1, <2>2
  <1>4. QED BY <1>1, <1>3 DEF Custody

LEMMA CustodyOfTaken ==
    ASSUME AgentInv, Custody, NEW r \in Requests, NEW k \in 0..MaxRetries, NEW n,
           Takes(r, k, n)
    PROVE  Custody'
  <1>1. /\ QueueOK /\ queue' = Queued(r, k, 0 - 1) /\ UNCHANGED <<asked, answers, lost>>
        /\ DOMAIN handling' = DOMAIN handling \cup {n} /\ n \notin DOMAIN handling
        /\ \A g \in DOMAIN handling : handling'[g] = handling[g]
        /\ handling'[n].req = r /\ handling'[n].at \in InHand
        /\ n \notin lost
    BY DEF AgentInv, Takes, InHand, Places, Custody
  <1>2. \A s \in Requests, i \in 0..MaxRetries : queue[s][i] > 0 => s = r \/ queue'[s][i] > 0
    BY <1>1, QueuedFewer
  <1>3. ASSUME NEW s \in Requests, asked'[s] # None PROVE InCustody(s)'
    <2>1. CASE s = r
      <3>1. Keeps(n, r)'  BY <1>1 DEF Keeps
      <3>2. QED BY <1>1, <2>1, <3>1 DEF InCustody
    <2>2. CASE s # r
      <3>1. InCustody(s)  BY <1>1, <1>3 DEF Custody
      <3>2. CASE \E h \in DOMAIN handling : Keeps(h, s)
        <4>1. PICK h \in DOMAIN handling : Keeps(h, s)  BY <3>2
        <4>2. h \in DOMAIN handling' /\ Keeps(h, s)'  BY <1>1, <4>1 DEF Keeps
        <4>3. QED BY <4>2 DEF InCustody
      <3>3. CASE \E i \in 0..MaxRetries : queue[s][i] > 0
        BY <1>2, <2>2, <3>3 DEF InCustody
      <3>4. CASE answers[s] # {}  BY <1>1, <3>4 DEF InCustody
      <3>5. QED BY <3>1, <3>2, <3>3, <3>4 DEF InCustody
    <2>3. QED BY <2>1, <2>2
  <1>4. QED BY <1>1, <1>3 DEF Custody

LEMMA CustodyOfHandled ==
    ASSUME AgentInv, Custody, NEW h \in DOMAIN handling, NEW l, HandlerStep(h, l),
           UNCHANGED lost
    PROVE  Custody'
  <1>0. PICK r : r = handling[h].req  OBVIOUS
  <1>1. /\ QueueOK /\ HandlingOK /\ r \in Requests /\ handling[h].retry \in 0..MaxRetries
        /\ UNCHANGED asked
    BY <1>0, ReqTyped DEF AgentInv, HandlerStep, Works, PassesOn, PutsBack, GivesAnswer,
       Acks, Drops
  <1>2. /\ DOMAIN handling' = DOMAIN handling /\ l.req = r
        /\ \A g \in DOMAIN handling : handling'[g] = IF g = h THEN l ELSE handling[g]
    BY <1>0 DEF HandlerStep, Turned
  <1>3. /\ DOMAIN answers' = Requests
        /\ \A s \in Requests : answers[s] # {} => answers'[s] # {}
    BY <1>0, <1>1 DEF Custody, HandlerStep, Works, PassesOn, PutsBack, GivesAnswer, Acks,
       Drops
  <1>4. \A s \in Requests, i \in 0..MaxRetries : queue[s][i] > 0 => queue'[s][i] > 0
    <2>1. CASE UNCHANGED queue  BY <2>1
    <2>2. ASSUME NEW k \in 0..MaxRetries, queue' = Queued(r, k, 1)
          PROVE  \A s \in Requests, i \in 0..MaxRetries : queue[s][i] > 0 => queue'[s][i] > 0
      BY <1>1, <2>2, QueuedMore
    <2>3. QED BY <1>0, <1>1, <2>1, <2>2 DEF HandlerStep, Works, PassesOn, PutsBack,
                 GivesAnswer, Acks, Drops
  <1>5. Keeps(h, r) => InCustody(r)'
    <2> SUFFICES ASSUME Keeps(h, r) PROVE InCustody(r)'
      OBVIOUS
    <2>1. CASE Works(h, l)
      <3>1. h \in DOMAIN handling' /\ Keeps(h, r)'
        BY <1>0, <1>2, <2>1 DEF Keeps, Works
      <3>2. QED BY <3>1 DEF InCustody
    <2>2. CASE PassesOn(h, l) \/ PutsBack(h, l)
      <3>1. PICK k \in 0..MaxRetries : queue' = Queued(r, k, 1)
        BY <1>0, <1>1, <2>2 DEF PassesOn, PutsBack
      <3>2. queue'[r][k] > 0  BY <1>1, <3>1, QueuedMore
      <3>3. QED BY <3>2 DEF InCustody
    <2>3. CASE GivesAnswer(h, l)
      <3>1. answers'[r] # {}  BY <1>0, <1>1, <2>3 DEF GivesAnswer, Custody
      <3>2. QED BY <3>1 DEF InCustody
    <2>4. CASE Acks(h, l) \/ Drops(h, l)
      BY <2>4 DEF Acks, Drops, InHand, Keeps
    <2>5. QED BY <2>1, <2>2, <2>3, <2>4 DEF HandlerStep
  <1>6. ASSUME NEW s \in Requests, asked'[s] # None PROVE InCustody(s)'
    <2>1. InCustody(s)  BY <1>1, <1>6 DEF Custody
    <2>2. CASE \E g \in DOMAIN handling : Keeps(g, s)
      <3>1. PICK g \in DOMAIN handling : Keeps(g, s)  BY <2>2
      <3>2. CASE g = h
        <4>1. s = r  BY <1>0, <3>1, <3>2 DEF Keeps
        <4>2. QED BY <1>5, <3>1, <3>2, <4>1
      <3>3. CASE g # h
        <4>1. g \in DOMAIN handling' /\ Keeps(g, s)'
          BY <1>2, <3>1, <3>3 DEF Keeps
        <4>2. QED BY <4>1 DEF InCustody
      <3>4. QED BY <3>2, <3>3
    <2>3. CASE answers[s] # {} \/ \E i \in 0..MaxRetries : queue[s][i] > 0
      BY <1>3, <1>4, <2>3 DEF InCustody
    <2>4. QED BY <2>1, <2>2, <2>3 DEF InCustody
  <1>7. QED BY <1>2, <1>3, <1>6 DEF Custody

(* What a handler held goes back to the queue.                             *)
LEMMA HeldCounts ==
    ASSUME HandlingOK, NEW h \in HeldHandlings
    PROVE  Held(handling[h].req, handling[h].retry) \in Nat \ {0}
  <1> DEFINE r == handling[h].req  k == handling[h].retry
             S == {g \in HeldHandlings : handling[g].req = r /\ handling[g].retry = k}
  <1>1. DOMAIN handling = 1..Len(handling) /\ Len(handling) \in Nat
    BY HandlingTyped
  <1>2. IsFiniteSet(S)
    <2>1. S \subseteq 1..Len(handling)  BY <1>1 DEF HeldHandlings, LiveHandlings
    <2>2. IsFiniteSet(1..Len(handling))  BY <1>1, FS_Interval
    <2>3. QED BY <2>1, <2>2, FS_Subset
  <1>3. S # {}  OBVIOUS
  <1>4. Cardinality(S) \in Nat /\ Cardinality(S) # 0
    BY <1>2, <1>3, FS_CardinalityType, FS_EmptySet
  <1>5. QED BY <1>4 DEF Held

LEMMA CustodyTakenBack ==
    ASSUME AgentInv, Custody, TakesBack
    PROVE  Custody'
  <1>1. /\ QueueOK /\ HandlingOK /\ UNCHANGED <<asked, answers>>
        /\ queue' = [r \in Requests |-> [k \in 0..MaxRetries |-> queue[r][k] + Held(r, k)]]
    BY DEF AgentInv, TakesBack, TakenBack
  <1>2. ASSUME NEW s \in Requests, NEW k \in 0..MaxRetries, queue[s][k] > 0 \/ Held(s, k) > 0
        PROVE  InCustody(s)'
    <2>1. queue[s] \in [0..MaxRetries -> Nat]  BY <1>1 DEF QueueOK
    <2>2. queue[s][k] \in Nat /\ Held(s, k) \in Nat  BY <1>1, <2>1, HeldIsNat
    <2>3. queue'[s][k] > 0  BY <1>1, <1>2, <2>2
    <2>4. QED BY <2>3 DEF InCustody
  <1>3. ASSUME NEW s \in Requests, asked'[s] # None PROVE InCustody(s)'
    <2>1. InCustody(s)  BY <1>1, <1>3 DEF Custody
    <2>2. CASE answers[s] # {}  BY <1>1, <2>2 DEF InCustody
    <2>3. CASE \E k \in 0..MaxRetries : queue[s][k] > 0  BY <1>2, <2>3
    <2>4. CASE \E h \in DOMAIN handling : Keeps(h, s)
      <3>1. PICK h \in HeldHandlings : handling[h].req = s
        BY <2>4 DEF Keeps, HeldHandlings, LiveHandlings, InHand
      <3>2. handling[h].retry \in 0..MaxRetries
        BY <1>1, ReqTyped DEF HeldHandlings, LiveHandlings
      <3>3. Held(s, handling[h].retry) > 0  BY <1>1, <3>1, HeldCounts
      <3>4. QED BY <1>2, <3>2, <3>3
    <2>5. QED BY <2>1, <2>2, <2>3, <2>4 DEF InCustody
  <1>4. lost' \subseteq DOMAIN handling'
    BY DEF TakesBack, Custody, LiveHandlings
  <1>5. QED BY <1>1, <1>3, <1>4 DEF Custody

LEMMA CustodyStays == AgentInv /\ Custody /\ [Next]_vars => Custody'
  <1> SUFFICES ASSUME AgentInv, Custody, [Next]_vars PROVE Custody'
    OBVIOUS
  <1>1. CASE Rests  BY <1>1 DEF Rests, Custody, InCustody, Keeps
  <1>2. QED BY <1>1, StepKinds, CustodyOfAsked, CustodyOfTaken, CustodyOfHandled,
               CustodyTakenBack

(* A request is never lost: until an answer to it is published, a copy is  *)
(* in the queue or in the hands of a handler, whatever fails and restarts, *)
(* for any number of requests, handlers and retries                        *)
(* (app/broker/consumer.py).                                               *)
THEOREM RequestsAreKept == Spec => []NoRequestLost
  <1>1. Init => Custody
    BY DEF Init, Custody
  <1>2. Custody => NoRequestLost
    BY DEF Custody, InCustody, Keeps, NoRequestLost, HeldHandlings, LiveHandlings, InHand
  <1>3. QED BY <1>1, <1>2, CustodyStays, Always, PTL DEF Spec

---------------------------------------------------------------------------
(* Least and greatest of a set of numbers.                                 *)

LEMMA Least ==
    ASSUME NEW T \in SUBSET Nat, T # {}
    PROVE  \E x \in T : \A y \in T : x <= y
  <1>1. PICK x \in T : \A y \in T : ~ (<<y, x>> \in OpToRel(<, Nat))
    BY NatLessThanWellFounded, WFMin
  <1>2. \A y \in T : ~(y < x)  BY <1>1 DEF OpToRel
  <1>3. QED BY <1>2

(* What holds of {}, and stays when an element is added, holds of every    *)
(* finite set: the minimal exception would be made from a smaller one.     *)
LEMMA FiniteInduction ==
    ASSUME NEW S, IsFiniteSet(S), NEW F \in SUBSET SUBSET S, {} \in F,
           \A T \in F : \A x \in S \ T : T \cup {x} \in F
    PROVE  S \in F
  <1> DEFINE B == (SUBSET S) \ F
  <1>1. SUFFICES ASSUME B # {} PROVE FALSE
    OBVIOUS
  <1>2. B \subseteq FiniteSubsetsOf(S)
    BY FS_Subset DEF FiniteSubsetsOf
  <1>3. PICK T \in B : \A U \in B : ~ (<<U, T>> \in StrictSubsetOrdering(S))
    BY <1>1, <1>2, FS_StrictSubsetOrderingWellFounded, WFMin
  <1>4. PICK x : x \in T /\ x \in S
    <2>1. T # {} /\ T \subseteq S  BY <1>3
    <2>2. QED BY <2>1
  <1>5. <<T \ {x}, T>> \in StrictSubsetOrdering(S)
    BY <1>4 DEF StrictSubsetOrdering
  <1>6. T \ {x} \in F
    <2>1. T \ {x} \in SUBSET S /\ T \ {x} \notin B  BY <1>3, <1>5
    <2>2. QED BY <2>1
  <1>7. (T \ {x}) \cup {x} = T  BY <1>4
  <1>8. QED
    <2>1. x \in S \ (T \ {x})  BY <1>4
    <2>2. (T \ {x}) \cup {x} \in F  BY <1>6, <2>1
    <2>3. QED BY <1>3, <1>7, <2>2

LEMMA Greatest ==
    ASSUME NEW S \in SUBSET Nat, IsFiniteSet(S), S # {}
    PROVE  \E x \in S : \A y \in S : x >= y
  <1> DEFINE F == {T \in SUBSET S : T # {} => \E x \in T : \A y \in T : x >= y}
  <1>1. {} \in F /\ F \in SUBSET SUBSET S
    OBVIOUS
  <1>2. ASSUME NEW T \in F, NEW x \in S \ T PROVE T \cup {x} \in F
    <2>1. CASE T = {}  BY <2>1
    <2>2. CASE T # {}
      <3>1. PICK z \in T : \A y \in T : z >= y  BY <2>2
      <3>2. z \in Nat /\ x \in Nat  OBVIOUS
      <3>3. CASE z >= x  BY <3>1, <3>2, <3>3
      <3>4. CASE x >= z  BY <3>1, <3>2, <3>4
      <3>5. QED BY <3>2, <3>3, <3>4
    <2>3. QED BY <2>1, <2>2
  <1> HIDE DEF F
  <1>3. S \in F  BY <1>1, <1>2, FiniteInduction
  <1>4. QED BY <1>3 DEF F

---------------------------------------------------------------------------
(* The memory of unfinished offers.                                        *)

MemoryOK ==
    /\ IsFiniteSet(DOMAIN pendingOffers)
    /\ Cardinality(DOMAIN pendingOffers) <= MaxPending
    /\ \A key \in DOMAIN pendingOffers : pendingOffers[key].created \in Nat

LEMMA OldestIsThere ==
    ASSUME MemoryOK, NEW keys \in SUBSET DOMAIN pendingOffers, keys # {}
    PROVE  Oldest(keys) \in keys
  <1> DEFINE times == {pendingOffers[key].created : key \in keys}
  <1>1. times \in SUBSET Nat /\ times # {}  BY DEF MemoryOK
  <1>2. PICK t \in times : \A u \in times : t <= u
    <2> HIDE DEF times
    <2>1. QED BY <1>1, Least
  <1>3. PICK old \in keys :
           \A key \in keys : pendingOffers[old].created <= pendingOffers[key].created
    BY <1>2
  <1>4. QED BY <1>3 DEF Oldest

LEMMA NewestIsNumber ==
    ASSUME MemoryOK
    PROVE  1 + Max(Created \cup {0}) \in Nat
  <1>1. Created \subseteq Nat  BY DEF Created, MemoryOK
  <1>2. IsFiniteSet(Created)
    <2> DEFINE f == [key \in DOMAIN pendingOffers |-> pendingOffers[key].created]
    <2>1. Created = {f[key] : key \in DOMAIN pendingOffers}  BY DEF Created
    <2>2. IsFiniteSet(DOMAIN pendingOffers)  BY DEF MemoryOK
    <2>3. f \in Surjection(DOMAIN pendingOffers, Created)
      BY <2>1 DEF Surjection
    <2> HIDE DEF f
    <2>4. QED BY <2>2, <2>3, FS_Surjection
  <1>3. IsFiniteSet(Created \cup {0}) /\ Created \cup {0} \in SUBSET Nat
        /\ Created \cup {0} # {}
    BY <1>1, <1>2, FS_AddElement
  <1>4. \E x \in Created \cup {0} : \A y \in Created \cup {0} : x >= y
    BY <1>3, Greatest
  <1>5. Max(Created \cup {0}) \in Created \cup {0}
    BY <1>4 DEF Max
  <1>6. QED BY <1>3, <1>5

LEMMA EntriesKeepMemory ==
    ASSUME MemoryOK, NEW keys \in SUBSET DOMAIN pendingOffers, pendingOffers' = Entries(keys)
    PROVE  MemoryOK'
  <1>1. DOMAIN pendingOffers' = keys /\ \A key \in keys : pendingOffers'[key] = pendingOffers[key]
    BY DEF Entries
  <1>2. IsFiniteSet(keys) /\ Cardinality(keys) <= Cardinality(DOMAIN pendingOffers)
        /\ Cardinality(keys) \in Nat /\ Cardinality(DOMAIN pendingOffers) \in Nat
    BY FS_Subset, FS_CardinalityType DEF MemoryOK
  <1>3. QED BY <1>1, <1>2, ChatMessageAssumption DEF MemoryOK

LEMMA EvictionMakesRoom ==
    ASSUME MemoryOK, NEW keys \in SUBSET DOMAIN pendingOffers
    PROVE  /\ Evicted(keys) \subseteq keys /\ IsFiniteSet(Evicted(keys))
           /\ Cardinality(Evicted(keys)) + 1 <= MaxPending
           /\ Cardinality(Evicted(keys)) \in Nat
  <1>1. /\ IsFiniteSet(keys) /\ Cardinality(keys) \in Nat /\ Cardinality(keys) <= MaxPending
        /\ MaxPending \in Nat \ {0}
    <2>1. /\ IsFiniteSet(keys) /\ Cardinality(keys) <= Cardinality(DOMAIN pendingOffers)
          /\ Cardinality(keys) \in Nat /\ Cardinality(DOMAIN pendingOffers) \in Nat
      BY FS_Subset, FS_CardinalityType DEF MemoryOK
    <2>2. MaxPending \in Nat \ {0}  BY ChatMessageAssumption
    <2>3. QED BY <2>1, <2>2 DEF MemoryOK
  <1>2. CASE Cardinality(keys) >= MaxPending
    <2>1. keys # {}  BY <1>1, <1>2, FS_EmptySet
    <2>2. PICK old \in keys : old = Oldest(keys)  BY <2>1, OldestIsThere
    <2>3. Evicted(keys) = keys \ {old}  BY <1>2, <2>2 DEF Evicted
    <2>4. IsFiniteSet(keys \ {old}) /\ Cardinality(keys \ {old}) = Cardinality(keys) - 1
      BY <1>1, FS_RemoveElement
    <2>5. QED BY <1>1, <2>3, <2>4, FS_CardinalityType
  <1>3. CASE ~(Cardinality(keys) >= MaxPending)
    <2>1. Evicted(keys) = keys  BY <1>3 DEF Evicted
    <2>2. QED BY <1>1, <1>3, <2>1
  <1>4. QED BY <1>2, <1>3

LEMMA RememberKeepsMemory ==
    ASSUME MemoryOK, NEW key, NEW plan, Remember(key, plan)
    PROVE  MemoryOK'
  <1>1. PICK keys, n :
            /\ keys \in Unexpired /\ n = 1 + Max(Created \cup {0})
            /\ pendingOffers' = Put(Entries(Evicted(keys)), key, [plan |-> plan, created |-> n])
    BY DEF Remember
  <1>2. PICK kept : kept = Evicted(keys)  OBVIOUS
  <1>3. /\ keys \in SUBSET DOMAIN pendingOffers /\ n \in Nat
    BY <1>1, NewestIsNumber DEF Unexpired
  <1>4. /\ kept \subseteq DOMAIN pendingOffers /\ IsFiniteSet(kept)
        /\ Cardinality(kept) + 1 <= MaxPending /\ Cardinality(kept) \in Nat
    BY <1>2, <1>3, EvictionMakesRoom
  <1>5. /\ DOMAIN pendingOffers' = kept \cup {key}
        /\ \A k \in kept \cup {key} :
              pendingOffers'[k].created = IF k = key THEN n ELSE pendingOffers[k].created
    BY <1>1, <1>2 DEF Put, Entries
  <1>6. /\ IsFiniteSet(kept \cup {key}) /\ Cardinality(kept \cup {key}) \in Nat
        /\ \/ Cardinality(kept \cup {key}) = Cardinality(kept)
           \/ Cardinality(kept \cup {key}) = Cardinality(kept) + 1
    BY <1>4, FS_AddElement, FS_CardinalityType
  <1>7. Cardinality(kept \cup {key}) <= MaxPending
    BY <1>4, <1>6, ChatMessageAssumption
  <1>8. \A k \in kept \cup {key} : pendingOffers'[k].created \in Nat
    BY <1>3, <1>4, <1>5 DEF MemoryOK
  <1>9. QED BY <1>5, <1>6, <1>7, <1>8 DEF MemoryOK

LEMMA MemoryStays == MemoryOK /\ [Next]_vars => MemoryOK'
  <1> SUFFICES ASSUME MemoryOK, [Next]_vars PROVE MemoryOK'
    OBVIOUS
  <1>1. CASE UNCHANGED pendingOffers  BY <1>1 DEF MemoryOK
  <1>2. ASSUME NEW h, ~UNCHANGED pendingOffers, Handle(h) PROVE MemoryOK'
    <2>1. Extract(h) \/ ResumeOffer(h)
      BY <1>2 DEF Handle, TemporaryError, PermanentError, Route, Load, WriteText,
                  OfferCreated, Submit, OfferSubmitted, Answer, Ack
    <2>2. ASSUME NEW key, Forgotten(key) PROVE MemoryOK'
      BY <2>2, EntriesKeepMemory DEF Forgotten
    <2>3. CASE \E d : StartGraph(h, d)  BY <2>2, <2>3 DEF StartGraph
    <2>4. QED BY <1>2, <2>1, <2>3, RememberKeepsMemory DEF Extract, ResumeOffer
  <1>3. ASSUME NEW r, NEW k, Deliver(r, k) PROVE MemoryOK'
    <2>1. PICK keys \in Unexpired : pendingOffers' = Entries(keys)  BY <1>3 DEF Deliver
    <2>2. keys \in SUBSET DOMAIN pendingOffers  BY DEF Unexpired
    <2>3. QED BY <2>1, <2>2, EntriesKeepMemory
  <1>4. CASE RestartAgent
    <2>1. pendingOffers' = <<>>  BY <1>4 DEF RestartAgent
    <2>2. DOMAIN pendingOffers' = {}  BY <2>1
    <2>3. QED BY <2>2, FS_EmptySet, ChatMessageAssumption DEF MemoryOK
  <1>5. UNCHANGED vars \/ Reconnect \/ (RpcNext /\ UNCHANGED chatVars)
          => UNCHANGED pendingOffers
    BY DEF vars, chatVars, Reconnect
  <1>6. ASSUME NEW r, NEW m, Ask(r, m) \/ ReadAnswer(r) \/ GiveUp(r)
        PROVE  UNCHANGED pendingOffers
    BY <1>6 DEF Ask, ReadAnswer, GiveUp
  <1>7. QED BY <1>1, <1>2, <1>3, <1>4, <1>5, <1>6 DEF Next, Take

LEMMA MemoryAlways == Spec => []MemoryOK
  <1>1. Init => MemoryOK
    <2> SUFFICES ASSUME Init PROVE MemoryOK
      OBVIOUS
    <2>1. DOMAIN pendingOffers = {}  BY DEF Init
    <2>2. QED BY <2>1, FS_EmptySet, ChatMessageAssumption DEF MemoryOK
  <1>2. QED BY <1>1, MemoryStays, PTL DEF Spec

(* However many users and sessions leave an offer unfinished, the agent    *)
(* remembers MAX_PENDING_OFFERS of them at most: the oldest entry makes    *)
(* room (app/agents/offer.py, _remember_pending).                                  *)
THEOREM MemoryIsBounded == Spec => []PendingBounded
  BY MemoryAlways, PTL DEF MemoryOK, PendingBounded

---------------------------------------------------------------------------
(* What a step does to the calls of the backend.                           *)

(* Calls the backend has before it, or works on.                           *)
Backlog == {requests[i] : i \in DOMAIN requests}
           \cup {working[i].request : i \in DOMAIN working}

(* The call handler h issues.                                              *)
IssuedBy(q, h) ==
    /\ q.offer = <<h, "create">> /\ q.id = <<h, q.op>>
    /\ \/ q.op = "create" /\ handling[h].at = "text"
       \/ q.op = "approval" /\ handling[h].at = "submit"
    /\ handling'[h].at \in {q.op, "answer"}

LEMMA WorkingTyped ==
    ASSUME WorkingOK
    PROVE  \/ working = <<>> /\ DOMAIN working = {}
           \/ \E q, result, sent :
                 /\ q \in RequestRec /\ HonestRequest(q)
                 /\ working = <<[request |-> q, result |-> result, sent |-> sent]>>
                 /\ DOMAIN working = {1}
                 /\ working[1].request = q /\ working[1].result = result
  <1>1. CASE working = <<>>  BY <1>1
  <1>2. CASE working # <<>>
    <2>1. PICK q, result, sent :
                 /\ q \in RequestRec /\ HonestRequest(q)
                 /\ working = <<[request |-> q, result |-> result, sent |-> sent]>>
      BY <1>2 DEF WorkingOK
    <2>2. DOMAIN working = {1} /\ working[1].request = q /\ working[1].result = result
      BY <2>1
    <2>3. QED BY <2>1, <2>2
  <1>3. QED BY <1>1, <1>2

LEMMA RequestsTyped ==
    ASSUME RequestsOK
    PROVE  /\ DOMAIN requests = 1..Len(requests) /\ Len(requests) \in Nat
           /\ \A i \in DOMAIN requests : requests[i] \in RequestRec
  BY LenProperties, ElementOfSeq DEF RequestsOK

LEMMA BacklogDispatched ==
    ASSUME AgentInv, Dispatch
    PROVE  Backlog' \subseteq Backlog /\ Head(requests) \in Backlog
  <1>1. requests \in Seq(RequestRec) /\ requests # <<>> /\ requests' = Tail(requests)
    BY DEF Dispatch, AgentInv, RequestsOK
  <1>2. /\ requests' \in Seq(RequestRec) /\ Len(requests') = Len(requests) - 1
        /\ \A i \in 1..Len(requests') : requests'[i] = requests[i + 1]
    BY <1>1, HeadTailProperties
  <1>3. /\ DOMAIN requests = 1..Len(requests) /\ Len(requests) \in Nat
        /\ DOMAIN requests' = 1..Len(requests')
    BY <1>1, <1>2, LenProperties
  <1>4. 1 \in DOMAIN requests /\ Head(requests) = requests[1]
    BY <1>1, <1>3, EmptySeq
  <1>5. \A i \in DOMAIN requests' : requests'[i] \in Backlog
    <2>1. \A i \in DOMAIN requests' : i + 1 \in DOMAIN requests
      BY <1>2, <1>3
    <2>2. QED BY <1>2, <1>3, <2>1 DEF Backlog
  <1>6. PICK result : working' = <<[request |-> Head(requests), result |-> result, sent |-> FALSE]>>
    BY DEF Dispatch
  <1>7. \A i \in DOMAIN working' : working'[i].request = Head(requests)
    BY <1>6
  <1>8. Head(requests) \in Backlog  BY <1>4 DEF Backlog
  <1>9. QED BY <1>5, <1>7, <1>8 DEF Backlog

LEMMA BacklogRequeued ==
    ASSUME AgentInv, working # <<>>, Requeue, working' = <<>>
    PROVE  Backlog' \subseteq Backlog
  <1>1. PICK q \in RequestRec :
           q = working[1].request /\ DOMAIN working = {1}
    BY WorkingTyped DEF AgentInv
  <1>2. requests \in Seq(RequestRec) /\ <<q>> \in Seq(RequestRec)
    BY DEF AgentInv, RequestsOK
  <1>3. requests' = <<q>> \o requests  BY <1>1 DEF Requeue
  <1>4. /\ requests' \in Seq(RequestRec) /\ Len(requests') = 1 + Len(requests)
        /\ \A i \in 1..1 + Len(requests) :
              requests'[i] = IF i <= 1 THEN <<q>>[i] ELSE requests[i - 1]
    BY <1>2, <1>3, ConcatProperties
  <1>5. /\ DOMAIN requests = 1..Len(requests) /\ Len(requests) \in Nat
        /\ DOMAIN requests' = 1..Len(requests')
    BY <1>2, <1>4, LenProperties
  <1>6. \A i \in DOMAIN requests' : i = 1 \/ i - 1 \in DOMAIN requests
    BY <1>4, <1>5
  <1>7. \A i \in DOMAIN requests' :
           requests'[i] = q \/ \E j \in DOMAIN requests : requests'[i] = requests[j]
    BY <1>4, <1>5, <1>6
  <1>8. q \in Backlog  BY <1>1 DEF Backlog
  <1>9. DOMAIN working' = {}  OBVIOUS
  <1>10. QED BY <1>7, <1>8, <1>9 DEF Backlog

LEMMA BacklogAppended ==
    ASSUME AgentInv, NEW q, q \in RequestRec, requests' = Append(requests, q),
           UNCHANGED working
    PROVE  Backlog' \subseteq Backlog \cup {q}
  <1>1. requests \in Seq(RequestRec)  BY DEF AgentInv, RequestsOK
  <1>2. /\ Len(requests') = Len(requests) + 1
        /\ \A i \in 1..Len(requests) : requests'[i] = requests[i]
        /\ requests'[Len(requests) + 1] = q
        /\ DOMAIN requests = 1..Len(requests) /\ DOMAIN requests' = 1..Len(requests')
        /\ Len(requests) \in Nat
    BY <1>1, AppendProperties, LenProperties
  <1>3. \A i \in DOMAIN requests' : i = Len(requests) + 1 \/ i \in DOMAIN requests
    BY <1>2
  <1>4. QED BY <1>2, <1>3 DEF Backlog

LEMMA BacklogIssued ==
    ASSUME AgentInv, NEW h \in DOMAIN handling, handling[h].at \in {"text", "submit"},
           NEW q, q \in RequestRec, NEW failure \in Answers, Call(h, q, failure),
           q.offer = <<h, "create">>, q.id = <<h, q.op>>,
           q.op = IF handling[h].at = "text" THEN "create" ELSE "approval"
    PROVE  \A c \in Backlog' : c \in Backlog \/ \E g \in DOMAIN handling : IssuedBy(c, g)
  <1>1. CASE Issue(q) /\ Goto(h, q.op)
    <2>1. PICK l : Turned(h, l) /\ l.at = q.op
      BY <1>1, GotoTurned DEF AgentInv, Places
    <2>2. handling'[h].at = q.op  BY <2>1 DEF Turned
    <2>3. IssuedBy(q, h)  BY <2>2 DEF IssuedBy
    <2>4. Backlog' \subseteq Backlog \cup {q}
      BY <1>1, BacklogAppended DEF Issue
    <2>5. QED BY <2>3, <2>4
  <1>2. CASE UNCHANGED <<requests, working>>
    BY <1>2 DEF Backlog
  <1>3. CASE requests' = Append(requests, q) /\ UNCHANGED working /\ Say(h, failure)
    <2>1. PICK l : Turned(h, l) /\ l.at = "answer"
      BY <1>3, SayTurned DEF AgentInv
    <2>2. handling'[h].at = "answer"  BY <2>1 DEF Turned
    <2>3. IssuedBy(q, h)  BY <2>2 DEF IssuedBy
    <2>4. Backlog' \subseteq Backlog \cup {q}  BY <1>3, BacklogAppended
    <2>5. QED BY <2>3, <2>4
  <1>4. QED BY <1>1, <1>2, <1>3 DEF Call, IssueFails, rpcVars

LEMMA BacklogEvolves ==
    ASSUME AgentInv, [Next]_vars
    PROVE  \A q \in Backlog' : q \in Backlog \/ \E h \in DOMAIN handling : IssuedBy(q, h)
  <1>1. CASE UNCHANGED <<requests, working>>  BY <1>1 DEF Backlog
  <1>2. CASE Dispatch  BY <1>2, BacklogDispatched
  <1>3. CASE working # <<>> /\ Requeue /\ working' = <<>>  BY <1>3, BacklogRequeued
  <1>4. CASE working' = <<>> /\ UNCHANGED requests
    <2>1. DOMAIN working' = {}  BY <1>4
    <2>2. QED BY <1>4, <2>1 DEF Backlog
  <1>5. CASE working # <<>> /\ working' = <<[working[1] EXCEPT !.sent = TRUE]>> /\ UNCHANGED requests
    <2>1. PICK q, result, sent :
                 /\ working = <<[request |-> q, result |-> result, sent |-> sent]>>
                 /\ DOMAIN working = {1} /\ working[1].request = q
      BY <1>5, WorkingTyped DEF AgentInv
    <2>2. working[1] = [request |-> q, result |-> result, sent |-> sent]
      BY <2>1
    <2>3. working' = <<[request |-> q, result |-> result, sent |-> TRUE]>>
      BY <1>5, <2>2, SentRecord
    <2>4. \A i \in DOMAIN working' : i = 1 /\ working'[i].request = q
      BY <2>3
    <2>5. QED BY <1>5, <2>1, <2>4 DEF Backlog
  <1>6. ASSUME NEW h \in DOMAIN handling, WriteText(h) \/ Submit(h), ~UNCHANGED rpcVars
        PROVE  \A q \in Backlog' : q \in Backlog \/ \E g \in DOMAIN handling : IssuedBy(q, g)
    <2>1. handling[h].at \in {"text", "submit"} /\ handling[h].at \in Priced
      BY <1>6 DEF WriteText, Submit, Priced
    <2>2. PICK c : c = CreateRequest(h) /\ c \in RequestRec
      BY <2>1, CreateRequestHonest
    <2>3. c.op = "create" /\ c.id = <<h, "create">> /\ c.offer = <<h, "create">> /\ h \in Nat
      BY <2>2, HandlingTyped DEF CreateRequest, AgentInv
    <2>4. CASE WriteText(h)
      <3>1. Call(h, c, "save_failed") /\ handling[h].at = "text" /\ "save_failed" \in Answers
        BY <1>6, <2>2, <2>4 DEF WriteText, Answers
      <3>2. QED BY <2>1, <2>2, <2>3, <3>1, BacklogIssued
    <2>5. CASE Submit(h)
      <3>1. PICK q : q = [c EXCEPT !.op = "approval", !.id = <<h, "approval">>]
        OBVIOUS
      <3>2. /\ q \in RequestRec /\ q.op = "approval" /\ q.id = <<h, "approval">>
            /\ q.offer = <<h, "create">>
        BY <2>2, <2>3, <3>1 DEF RequestRec
      <3>3. /\ Call(h, q, "approval_failed") /\ handling[h].at = "submit"
            /\ "approval_failed" \in Answers
        BY <2>2, <2>5, <3>1 DEF Submit, Answers
      <3>4. QED BY <2>1, <3>2, <3>3, BacklogIssued
    <2>6. QED BY <1>6, <2>4, <2>5
  <1>7. ASSUME NEW h, Handle(h), ~(WriteText(h) \/ Submit(h))
        PROVE  UNCHANGED <<requests, working>>
    BY <1>7 DEF Handle, TemporaryError, PermanentError, Route, Extract, ResumeOffer, Load,
                OfferCreated, OfferSubmitted, Resume, Answer, Ack, rpcVars
  <1>8. UNCHANGED vars \/ Take \/ RestartAgent \/ Reconnect
           \/ (\E r \in Requests, m \in ChatMessages : Ask(r, m))
           \/ (\E r \in Requests : ReadAnswer(r) \/ GiveUp(r))
        => UNCHANGED <<requests, working>>
    BY DEF vars, rpcVars, Take, Deliver, RestartAgent, RestartClient, Reconnect, Ask,
           ReadAnswer, GiveUp
  <1>9. CASE Respond \/ AckRequest \/ CrashBackend
    BY <1>3, <1>4, <1>5, <1>9 DEF Respond, AckRequest, CrashBackend
  <1>10. CloseClient \/ (\E r \in replies : HandleResponse(r)) => UNCHANGED <<requests, working>>
    BY DEF CloseClient, HandleResponse
  <1>11. UNCHANGED rpcVars => UNCHANGED <<requests, working>>  BY DEF rpcVars
  <1>12. QED BY <1>1, <1>2, <1>6, <1>7, <1>8, <1>9, <1>10, <1>11 DEF Next, RpcNext

(* Results on their way from the backend to the future of a call.         *)
OnTheWay ==
    (IF working = <<>> THEN {} ELSE {<<working[1].request.id, working[1].result>>})
    \cup {<<response.id, response.result>> : response \in replies}
    \cup {<<id, pending[id]>> : id \in DOMAIN pending}

Carried(id, result) == <<id, result>> \in OnTheWay

(* The backend has nothing to report but what it did to the table.         *)
Refusals == {"FORBIDDEN", "INTERNAL_ERROR", "CLIENT_CLOSED", Waiting}

Reported(id, result) ==
    \E q \in Backlog :
       /\ q.id = id /\ offers' \in Effects(q) /\ result = offers'[Target(q)].status

LEMMA WorkingEvolves ==
    ASSUME AgentInv, [Next]_vars, working' # <<>>
    PROVE  \/ working # <<>> /\ working'[1].request.id = working[1].request.id
                             /\ working'[1].result = working[1].result
           \/ working'[1].result \in Refusals
           \/ Reported(working'[1].request.id, working'[1].result)
  <1>1. CASE UNCHANGED working  BY <1>1
  <1>2. CASE Dispatch
    <2>1. PICK q, result :
             /\ q = Head(requests)
             /\ working' = <<[request |-> q, result |-> result, sent |-> FALSE]>>
             /\ \/ result \in {"FORBIDDEN", "INTERNAL_ERROR"}
                \/ offers' \in Effects(q) /\ result = offers'[Target(q)].status
      BY <1>2 DEF Dispatch
    <2>2. working'[1].request = q /\ working'[1].result = result  BY <2>1
    <2>3. q \in Backlog  BY <1>2, <2>1, BacklogDispatched
    <2>4. QED BY <2>1, <2>2, <2>3 DEF Refusals, Reported
  <1>3. CASE Respond
    <2>1. working # <<>> /\ working' = <<[working[1] EXCEPT !.sent = TRUE]>>
      BY <1>3 DEF Respond
    <2>2. PICK q, result, sent :
                 /\ working = <<[request |-> q, result |-> result, sent |-> sent]>>
                 /\ working[1].request = q /\ working[1].result = result
      BY <2>1, WorkingTyped DEF AgentInv
    <2>3. working[1] = [request |-> q, result |-> result, sent |-> sent]
      BY <2>2
    <2>4. working' = <<[request |-> q, result |-> result, sent |-> TRUE]>>
      BY <2>1, <2>3, SentRecord
    <2>5. QED BY <2>1, <2>2, <2>4
  <1>4. ~AckRequest /\ ~CrashBackend  BY DEF AckRequest, CrashBackend
  <1>5. CloseClient \/ (\E r \in replies : HandleResponse(r)) => UNCHANGED working
    BY DEF CloseClient, HandleResponse
  <1>6. UNCHANGED vars \/ Take \/ RestartAgent \/ Reconnect
           \/ (\E r \in Requests, m \in ChatMessages : Ask(r, m))
           \/ (\E r \in Requests : ReadAnswer(r) \/ GiveUp(r))
        => UNCHANGED working
    BY DEF vars, rpcVars, Take, Deliver, RestartAgent, RestartClient, Reconnect, Ask,
           ReadAnswer, GiveUp
  <1>7. ASSUME NEW h, Handle(h) PROVE UNCHANGED working
    BY <1>7 DEF Handle, TemporaryError, PermanentError, Route, Extract, ResumeOffer, Load,
                WriteText, Submit, Call, Issue, IssueFails,
                OfferCreated, OfferSubmitted, Resume, Answer, Ack, rpcVars
  <1>8. QED BY <1>1, <1>2, <1>3, <1>4, <1>5, <1>6, <1>7 DEF Next, RpcNext

LEMMA RepliesEvolve ==
    ASSUME [Next]_vars
    PROVE  \A response \in replies' : Carried(response.id, response.result)
  <1>1. CASE replies' \subseteq replies  BY <1>1 DEF Carried, OnTheWay
  <1>2. CASE Respond  BY <1>2 DEF Respond, Carried, OnTheWay
  <1>3. Dispatch \/ AckRequest \/ CrashBackend \/ CloseClient
           \/ (\E r \in replies : HandleResponse(r)) => replies' \subseteq replies
    BY DEF Dispatch, AckRequest, CrashBackend, CloseClient, HandleResponse
  <1>4. UNCHANGED vars \/ Take \/ RestartAgent \/ Reconnect
           \/ (\E r \in Requests, m \in ChatMessages : Ask(r, m))
           \/ (\E r \in Requests : ReadAnswer(r) \/ GiveUp(r))
        => replies' \subseteq replies
    BY DEF vars, rpcVars, Take, Deliver, RestartAgent, RestartClient, Reconnect, Ask,
           ReadAnswer, GiveUp
  <1>5. ASSUME NEW h, Handle(h) PROVE replies' \subseteq replies
    BY <1>5 DEF Handle, TemporaryError, PermanentError, Route, Extract, ResumeOffer, Load,
                WriteText, Submit, Call, Issue, IssueFails,
                OfferCreated, OfferSubmitted, Resume, Answer, Ack, rpcVars
  <1>6. QED BY <1>1, <1>2, <1>3, <1>4, <1>5 DEF Next, RpcNext

LEMMA PendingEvolves ==
    ASSUME [Next]_vars
    PROVE  \A id \in DOMAIN pending' : Carried(id, pending'[id]) \/ pending'[id] \in Refusals
  <1>1. CASE UNCHANGED pending  BY <1>1 DEF Carried, OnTheWay
  <1>2. ASSUME NEW r \in replies, HandleResponse(r)
        PROVE  \A id \in DOMAIN pending' : Carried(id, pending'[id])
    BY <1>2 DEF HandleResponse, Carried, OnTheWay
  <1>3. CASE CloseClient  BY <1>3 DEF CloseClient, Carried, OnTheWay, Refusals
  <1>4. CASE RestartAgent
    <2>1. DOMAIN pending' = {}  BY <1>4 DEF RestartAgent, RestartClient
    <2>2. QED BY <2>1
  <1>5. ASSUME NEW h, WriteText(h) \/ Submit(h)
        PROVE  UNCHANGED pending \/ \E q : pending' = Put(pending, q.id, Waiting)
    BY <1>5 DEF WriteText, Submit, Call, Issue, IssueFails, rpcVars
  <1>6. CASE \E q : pending' = Put(pending, q.id, Waiting)
    BY <1>6 DEF Put, Carried, OnTheWay, Refusals
  <1>7. ASSUME NEW h, OfferCreated(h) \/ OfferSubmitted(h)
        PROVE  \A id \in DOMAIN pending' : Carried(id, pending'[id])
    BY <1>7 DEF OfferCreated, OfferSubmitted, Resume, Forget, Carried, OnTheWay
  <1>8. ASSUME NEW h, Handle(h),
               ~(WriteText(h) \/ Submit(h) \/ OfferCreated(h) \/ OfferSubmitted(h))
        PROVE  UNCHANGED pending
    BY <1>8 DEF Handle, TemporaryError, PermanentError, Route, Extract, ResumeOffer, Load,
                Answer, Ack, rpcVars
  <1>9. UNCHANGED vars \/ Take \/ Reconnect
           \/ (\E r \in Requests, m \in ChatMessages : Ask(r, m))
           \/ (\E r \in Requests : ReadAnswer(r) \/ GiveUp(r))
        => UNCHANGED pending
    BY DEF vars, rpcVars, Take, Deliver, Reconnect, Ask, ReadAnswer, GiveUp
  <1>10. Dispatch \/ Respond \/ AckRequest \/ CrashBackend => UNCHANGED pending
    BY DEF Dispatch, Respond, AckRequest, CrashBackend
  <1>11. QED BY <1>1, <1>2, <1>3, <1>4, <1>5, <1>6, <1>7, <1>8, <1>9, <1>10
            DEF Next, RpcNext

LEMMA OffersEvolve ==
    ASSUME AgentInv, [Next]_vars
    PROVE  UNCHANGED offers \/ \E q \in Backlog : offers' \in Effects(q)
  <1>1. CASE Dispatch
    <2>1. Head(requests) \in Backlog  BY <1>1, BacklogDispatched
    <2>2. QED BY <1>1, <2>1 DEF Dispatch
  <1>2. Respond \/ AckRequest \/ CrashBackend \/ CloseClient
           \/ (\E r \in replies : HandleResponse(r)) => UNCHANGED offers
    BY DEF Respond, AckRequest, CrashBackend, CloseClient, HandleResponse
  <1>3. UNCHANGED vars \/ Take \/ RestartAgent \/ Reconnect
           \/ (\E r \in Requests, m \in ChatMessages : Ask(r, m))
           \/ (\E r \in Requests : ReadAnswer(r) \/ GiveUp(r))
        => UNCHANGED offers
    BY DEF vars, rpcVars, Take, Deliver, RestartAgent, RestartClient, Reconnect, Ask,
           ReadAnswer, GiveUp
  <1>4. ASSUME NEW h, Handle(h) PROVE UNCHANGED offers
    BY <1>4 DEF Handle, TemporaryError, PermanentError, Route, Extract, ResumeOffer, Load,
                WriteText, Submit, Call, Issue, IssueFails,
                OfferCreated, OfferSubmitted, Resume, Answer, Ack, rpcVars
  <1>5. QED BY <1>1, <1>2, <1>3, <1>4 DEF Next, RpcNext

LEMMA OnTheWayEvolves ==
    ASSUME AgentInv, [Next]_vars
    PROVE  \A c \in OnTheWay' :
              c \in OnTheWay \/ c[2] \in Refusals \/ Reported(c[1], c[2])
  <1>1. ASSUME working' # <<>>
        PROVE  LET id == working'[1].request.id  result == working'[1].result IN
               \/ <<id, result>> \in OnTheWay \/ result \in Refusals \/ Reported(id, result)
    BY <1>1, WorkingEvolves DEF OnTheWay
  <1>2. \A response \in replies' : <<response.id, response.result>> \in OnTheWay
    BY RepliesEvolve DEF Carried
  <1>3. \A id \in DOMAIN pending' : <<id, pending'[id]>> \in OnTheWay \/ pending'[id] \in Refusals
    BY PendingEvolves DEF Carried
  <1>4. TAKE c \in OnTheWay'
  <1>5. \/ working' # <<>> /\ c = <<working'[1].request.id, working'[1].result>>
        \/ \E response \in replies' : c = <<response.id, response.result>>
        \/ \E id \in DOMAIN pending' : c = <<id, pending'[id]>>
    BY DEF OnTheWay
  <1>6. QED BY <1>1, <1>2, <1>3, <1>5

---------------------------------------------------------------------------
(* Truth.  A result that counts as a success is what the table holds for   *)
(* good, wherever it is on its way to the person who asked.                *)

Lasting == {"approved", "pending_approval"}

Holds(h, status) ==
    <<h, "create">> \in DOMAIN offers /\ offers[<<h, "create">>].status = status

True(id, result) == result \in Lasting => Holds(id[1], result)

Shaped(q) == q.id = <<q.id[1], q.op>> /\ q.offer = <<q.id[1], "create">>

Promised(l, h) ==
    l.at = "answer" => /\ l.answer = "saved" => Holds(h, "approved")
                       /\ l.answer = "submitted" => Holds(h, "pending_approval")

(* An answer that was given names an offer of a handler of the request.    *)
Kept(r) ==
    /\ "saved" \in answers[r] =>
          \E h \in DOMAIN handling : handling[h].req = r /\ Holds(h, "approved")
    /\ "submitted" \in answers[r] =>
          \E h \in DOMAIN handling : handling[h].req = r /\ Holds(h, "pending_approval")

TruthOK ==
    /\ \A q \in Backlog : Shaped(q)
    /\ \A c \in OnTheWay : True(c[1], c[2])
    /\ \A h \in DOMAIN handling : Promised(handling[h], h)
    /\ DOMAIN answers = Requests
    /\ \A r \in Requests : Kept(r)

(* A create leaves every row alone but a new one; an approval moves a row  *)
(* on that is a draft, or waits for approval already.                      *)
LEMMA EffectsAreNews ==
    ASSUME OffersOK, NEW q \in RequestRec, Shaped(q), NEW new \in Effects(q)
    PROVE  /\ Target(q) = <<q.id[1], "create">> /\ Target(q) \in DOMAIN new
           /\ DOMAIN new \subseteq DOMAIN offers \cup {<<q.id[1], "create">>}
           /\ \A id \in DOMAIN offers :
                 /\ id \in DOMAIN new
                 /\ offers[id].status \in Lasting => new[id].status = offers[id].status
           /\ q.op # "create" => DOMAIN new = DOMAIN offers
  <1>1. CASE q.op = "create"
    <2>1. Target(q) = q.id /\ q.id = <<q.id[1], "create">>
      BY <1>1 DEF Target, Shaped
    <2>2. new \in Creations(q)  BY <1>1 DEF Effects
    <2>3. CASE q.id \in DOMAIN offers
      BY <1>1, <2>1, <2>2, <2>3 DEF Creations
    <2>4. CASE q.id \notin DOMAIN offers
      <3>1. PICK s : new = Put(offers, q.id, Row(q, s))
        BY <2>2, <2>4 DEF Creations
      <3>2. /\ DOMAIN new = DOMAIN offers \cup {q.id}
            /\ \A id \in DOMAIN offers : id # q.id => new[id] = offers[id]
        BY <3>1 DEF Put
      <3>3. QED BY <1>1, <2>1, <2>4, <3>2
    <2>5. QED BY <2>3, <2>4
  <1>2. CASE q.op # "create"
    <2>1. PICK o : o = q.offer /\ o = <<q.id[1], "create">> /\ o = Target(q)
      BY <1>2 DEF Target, Shaped
    <2>2. /\ o \in DOMAIN offers /\ offers[o].status \in {"draft", "pending_approval"}
          /\ new = [offers EXCEPT ![o].status = "pending_approval"]
      BY <1>2, <2>1 DEF Effects, Submissions
    <2>3. DOMAIN new = DOMAIN offers  BY <2>2
    <2>4. ASSUME NEW id \in DOMAIN offers, offers[id].status \in Lasting
          PROVE  new[id].status = offers[id].status
      <3>1. CASE id # o  BY <2>2, <3>1
      <3>2. CASE id = o
        <4>1. offers[o] \in OfferRec /\ new[o] = [offers[o] EXCEPT !.status = "pending_approval"]
          BY <2>2 DEF OffersOK
        <4>2. new[o].status = "pending_approval"  BY <4>1 DEF OfferRec
        <4>3. QED BY <2>2, <2>4, <3>2, <4>2 DEF Lasting
      <3>3. QED BY <3>1, <3>2
    <2>5. QED BY <2>1, <2>2, <2>3, <2>4
  <1>3. QED BY <1>1, <1>2

LEMMA BacklogTyped ==
    ASSUME AgentInv, NEW q \in Backlog
    PROVE  q \in RequestRec
  <1>1. CASE \E i \in DOMAIN requests : q = requests[i]
    BY <1>1, RequestsTyped DEF AgentInv
  <1>2. CASE \E i \in DOMAIN working : q = working[i].request
    <2>1. PICK i \in DOMAIN working : q = working[i].request  BY <1>2
    <2>2. PICK c \in RequestRec : DOMAIN working = {1} /\ working[1].request = c
      BY <2>1, WorkingTyped DEF AgentInv
    <2>3. QED BY <2>1, <2>2
  <1>3. QED BY <1>1, <1>2 DEF Backlog

LEMMA HoldsStays ==
    ASSUME AgentInv, TruthOK, [Next]_vars, NEW h, NEW status \in Lasting, Holds(h, status)
    PROVE  Holds(h, status)'
  <1>1. CASE UNCHANGED offers  BY <1>1 DEF Holds
  <1>2. ASSUME NEW q \in Backlog, offers' \in Effects(q)
        PROVE  Holds(h, status)'
    <2>1. q \in RequestRec /\ Shaped(q)  BY BacklogTyped DEF TruthOK
    <2>2. \A id \in DOMAIN offers :
             /\ id \in DOMAIN offers'
             /\ offers[id].status \in Lasting => offers'[id].status = offers[id].status
      BY <1>2, <2>1, EffectsAreNews DEF AgentInv
    <2>3. QED BY <2>2 DEF Holds
  <1>3. QED BY <1>1, <1>2, OffersEvolve

LEMMA ResultsStayTrue ==
    ASSUME AgentInv, TruthOK, [Next]_vars, NEW c \in OnTheWay'
    PROVE  True(c[1], c[2])'
  <1>1. CASE c \in OnTheWay
    <2>1. True(c[1], c[2])  BY <1>1 DEF TruthOK
    <2>2. QED BY <2>1, HoldsStays DEF True
  <1>2. CASE c[2] \in Refusals
    BY <1>2 DEF True, Refusals, Lasting, Waiting
  <1>3. CASE Reported(c[1], c[2])
    <2>1. PICK q \in Backlog :
             q.id = c[1] /\ offers' \in Effects(q) /\ c[2] = offers'[Target(q)].status
      BY <1>3 DEF Reported
    <2>2. q \in RequestRec /\ Shaped(q)  BY BacklogTyped DEF TruthOK
    <2>3. Target(q) = <<q.id[1], "create">> /\ Target(q) \in DOMAIN offers'
      BY <2>1, <2>2, EffectsAreNews DEF AgentInv
    <2>4. Holds(c[1][1], c[2])'  BY <2>1, <2>3 DEF Holds
    <2>5. QED BY <2>4 DEF True
  <1>4. QED BY <1>1, <1>2, <1>3, OnTheWayEvolves

LEMMA PromiseMade ==
    ASSUME AgentInv, TruthOK, NEW h \in DOMAIN handling, Handle(h), NEW l, HandlerStep(h, l)
    PROVE  Promised(l, h)
  <1>1. SUFFICES ASSUME l.at = "answer", l.answer \in Successes
                 PROVE  \/ l.answer = "saved" /\ Holds(h, "approved")
                        \/ l.answer = "submitted" /\ Holds(h, "pending_approval")
    BY DEF Promised, Successes
  <1>2. handling[h].at \in {"create", "approval"}
    BY <1>1 DEF HandlerStep, Works, PassesOn, PutsBack, GivesAnswer, Acks, Drops
  <1>3. OfferCreated(h) \/ OfferSubmitted(h)
    BY <1>2 DEF Handle, TemporaryError, PermanentError, Route, Extract, ResumeOffer, Load,
                WriteText, Submit, Answer, Ack
  <1>4. handling'[h] = l  BY DEF HandlerStep, Turned
  <1>5. ASSUME NEW id \in DOMAIN pending, id[1] = h, Outcome(id) \in Lasting
        PROVE  Holds(h, Outcome(id))
    <2>1. Outcome(id) = pending[id]
      BY <1>5 DEF Outcome, Lasting
    <2>2. <<id, pending[id]>> \in OnTheWay  BY DEF OnTheWay
    <2>3. QED BY <1>5, <2>1, <2>2 DEF TruthOK, True
  <1>6. CASE OfferCreated(h)
    <2> DEFINE next == AfterCreate(handling[h].plan, Outcome(<<h, "create">>))
    <2>1. /\ <<h, "create">> \in DOMAIN pending
          /\ IF next = "submit" THEN Goto(h, next) ELSE Say(h, next)
      BY <1>6 DEF OfferCreated, Resume
    <2>2. /\ next \in {"forbidden", "saved", "submit", "save_failed"}
          /\ next = "saved" => Outcome(<<h, "create">>) = "approved"
      BY DEF AfterCreate
    <2> HIDE DEF next
    <2>3. next # "submit"
      <3>1. SUFFICES ASSUME next = "submit" PROVE FALSE
        OBVIOUS
      <3>2. PICK k : Turned(h, k) /\ k.at = "submit"
        BY <2>1, <3>1, GotoTurned DEF AgentInv, Places
      <3>3. QED BY <1>1, <1>4, <3>2 DEF Turned
    <2>4. next \in Answers /\ Say(h, next)  BY <2>1, <2>2, <2>3 DEF Answers
    <2>5. PICK k : Turned(h, k) /\ k.answer = next
      BY <2>4, SayTurned DEF AgentInv
    <2>6. l.answer = next  BY <1>4, <2>5 DEF Turned
    <2>7. next = "saved" /\ Outcome(<<h, "create">>) = "approved"
      BY <1>1, <2>2, <2>6 DEF Successes
    <2>8. Holds(h, "approved")  BY <1>5, <2>1, <2>7 DEF Lasting
    <2>9. QED BY <2>6, <2>7, <2>8
  <1>7. CASE OfferSubmitted(h)
    <2> DEFINE next == AfterApproval(Outcome(<<h, "approval">>))
    <2>1. <<h, "approval">> \in DOMAIN pending /\ Say(h, next)
      BY <1>7 DEF OfferSubmitted, Resume
    <2>2. /\ next \in Answers /\ next # "saved"
          /\ next = "submitted" => Outcome(<<h, "approval">>) = "pending_approval"
      BY DEF AfterApproval, Answers
    <2> HIDE DEF next
    <2>3. PICK k : Turned(h, k) /\ k.answer = next
      BY <2>1, <2>2, SayTurned DEF AgentInv
    <2>4. l.answer = next  BY <1>4, <2>3 DEF Turned
    <2>5. next = "submitted" /\ Outcome(<<h, "approval">>) = "pending_approval"
      BY <1>1, <2>2, <2>4 DEF Successes
    <2>6. Holds(h, "pending_approval")  BY <1>5, <2>1, <2>5 DEF Lasting
    <2>7. QED BY <2>4, <2>5, <2>6
  <1>8. QED BY <1>3, <1>6, <1>7

LEMMA PromiseStays ==
    ASSUME AgentInv, TruthOK, [Next]_vars, NEW l, NEW h, Promised(l, h)
    PROVE  Promised(l, h)'
  BY HoldsStays DEF Promised, Lasting

LEMMA KeptStays ==
    ASSUME AgentInv, TruthOK, [Next]_vars, Remembers, NEW r \in Requests, Kept(r),
           answers'[r] = answers[r]
    PROVE  Kept(r)'
  <1>1. ASSUME NEW status \in Lasting,
               NEW h \in DOMAIN handling, handling[h].req = r, Holds(h, status)
        PROVE  \E g \in DOMAIN handling' : handling'[g].req = r /\ Holds(g, status)'
    BY <1>1, HoldsStays DEF Remembers
  <1>2. ASSUME NEW status \in Lasting,
               \E h \in DOMAIN handling : handling[h].req = r /\ Holds(h, status)
        PROVE  (\E h \in DOMAIN handling : handling[h].req = r /\ Holds(h, status))'
    BY <1>1, <1>2
  <1>3. "approved" \in Lasting /\ "pending_approval" \in Lasting  BY DEF Lasting
  <1>4. QED BY <1>2, <1>3 DEF Kept

(* What becomes of the handlings and of the answers, briefly.              *)
LEMMA HandlingsEvolve ==
    ASSUME AgentInv, [Next]_vars
    PROVE  /\ Remembers
           /\ \A h \in DOMAIN handling' :
                 \/ h \in DOMAIN handling /\ handling'[h] = handling[h]
                 \/ /\ h \in DOMAIN handling /\ Handle(h)
                    /\ \E l : HandlerStep(h, l) /\ handling'[h] = l
                 \/ handling'[h].at \in {"route", "resume", "over"}
  <1>1. CASE Rests  BY <1>1 DEF Rests, Remembers
  <1>2. ASSUME NEW r \in Requests, Asks(r)
        PROVE  Remembers /\ UNCHANGED handling
    BY <1>2 DEF Asks, Remembers
  <1>3. ASSUME NEW r \in Requests, NEW k \in 0..MaxRetries, NEW n, Takes(r, k, n)
        PROVE  /\ Remembers
               /\ \A h \in DOMAIN handling' :
                    \/ h \in DOMAIN handling /\ handling'[h] = handling[h]
                    \/ handling'[h].at \in {"route", "resume", "over"}
    BY <1>3 DEF Takes, Remembers
  <1>4. ASSUME NEW g \in DOMAIN handling, Handle(g), NEW l, HandlerStep(g, l)
        PROVE  /\ Remembers
               /\ \A h \in DOMAIN handling' :
                    \/ h \in DOMAIN handling /\ handling'[h] = handling[h]
                    \/ h = g /\ handling'[h] = l
    <2>1. UNCHANGED asked
      BY <1>4 DEF HandlerStep, Works, PassesOn, PutsBack, GivesAnswer, Acks, Drops
    <2>2. /\ l.req = handling[g].req /\ DOMAIN handling' = DOMAIN handling
          /\ \A h \in DOMAIN handling : handling'[h] = IF h = g THEN l ELSE handling[h]
      BY <1>4 DEF HandlerStep, Turned
    <2>3. Remembers
      <3>1. ASSUME NEW h \in DOMAIN handling
            PROVE  h \in DOMAIN handling' /\ handling'[h].req = handling[h].req
        <4>1. CASE h = g  BY <2>2, <4>1
        <4>2. CASE h # g  BY <2>2, <4>2
        <4>3. QED BY <4>1, <4>2
      <3>2. QED BY <2>1, <3>1 DEF Remembers
    <2>4. QED BY <2>2, <2>3
  <1>5. CASE TakesBack
    BY <1>5 DEF TakesBack, NewHandling, Remembers
  <1>6. QED BY <1>1, <1>2, <1>3, <1>4, <1>5, StepKinds DEF Rests

LEMMA AnswersEvolve ==
    ASSUME AgentInv, [Next]_vars
    PROVE  \/ UNCHANGED answers
           \/ \E h \in DOMAIN handling :
                 /\ handling[h].at = "answer"
                 /\ answers' = [answers EXCEPT ![handling[h].req] = @ \cup {handling[h].answer}]
  BY StepKinds DEF Rests, Asks, Takes, HandlerStep, Works, PassesOn, PutsBack, GivesAnswer,
                   Acks, Drops, TakesBack

LEMMA TruthStays == AgentInv /\ TruthOK /\ [Next]_vars => TruthOK'
  <1> SUFFICES ASSUME AgentInv, TruthOK, [Next]_vars PROVE TruthOK'
    OBVIOUS
  <1>1. ASSUME NEW q \in Backlog' PROVE Shaped(q)
    BY <1>1, BacklogEvolves DEF TruthOK, IssuedBy, Shaped
  <1>2. \A c \in OnTheWay' : True(c[1], c[2])'  BY ResultsStayTrue
  <1>3. Remembers  BY HandlingsEvolve
  <1>4. ASSUME NEW h \in DOMAIN handling' PROVE Promised(handling[h], h)'
    <2>1. PICK l : l = handling'[h]  OBVIOUS
    <2>2. CASE h \in DOMAIN handling /\ l = handling[h]
      <3>1. Promised(l, h)  BY <2>2 DEF TruthOK
      <3>2. Promised(l, h)'  BY <3>1, PromiseStays
      <3>3. QED BY <2>1, <3>2
    <2>3. CASE h \in DOMAIN handling /\ Handle(h) /\ HandlerStep(h, l)
      <3>1. Promised(l, h)  BY <2>3, PromiseMade
      <3>2. Promised(l, h)'  BY <3>1, PromiseStays
      <3>3. QED BY <2>1, <3>2
    <2>4. CASE l.at \in {"route", "resume", "over"}
      <3>1. Promised(l, h)'  BY <2>4 DEF Promised
      <3>2. QED BY <2>1, <3>1
    <2>5. QED BY <2>1, <2>2, <2>3, <2>4, HandlingsEvolve
  <1>5. DOMAIN answers' = Requests  BY AnswersEvolve DEF TruthOK
  <1>6. ASSUME NEW r \in Requests PROVE Kept(r)'
    <2>1. Kept(r)  BY DEF TruthOK
    <2>2. CASE answers'[r] = answers[r]  BY <1>3, <2>1, <2>2, KeptStays
    <2>3. CASE answers'[r] # answers[r]
      <3>1. PICK h \in DOMAIN handling :
                 /\ handling[h].at = "answer"
                 /\ answers' = [answers EXCEPT ![handling[h].req] = @ \cup {handling[h].answer}]
        BY <2>3, AnswersEvolve
      <3>2. handling[h].req = r /\ answers'[r] = answers[r] \cup {handling[h].answer}
        BY <2>3, <3>1 DEF TruthOK
      <3>3. h \in DOMAIN handling' /\ handling'[h].req = r
        BY <1>3, <3>2 DEF Remembers
      <3>4. /\ handling[h].answer = "saved" => Holds(h, "approved")'
            /\ handling[h].answer = "submitted" => Holds(h, "pending_approval")'
        BY <3>1, HoldsStays DEF TruthOK, Promised, Lasting
      <3>5. ASSUME NEW status \in Lasting, NEW g \in DOMAIN handling,
                   handling[g].req = r, Holds(g, status)
            PROVE  \E x \in DOMAIN handling' : handling'[x].req = r /\ Holds(x, status)'
        BY <1>3, <3>5, HoldsStays DEF Remembers
      <3>6. \A status \in Lasting :
               (\E g \in DOMAIN handling : handling[g].req = r /\ Holds(g, status))
               => \E x \in DOMAIN handling' : handling'[x].req = r /\ Holds(x, status)'
        BY <3>5
      <3>7. "saved" \in answers'[r] =>
               \E x \in DOMAIN handling' : handling'[x].req = r /\ Holds(x, "approved")'
        BY <2>1, <3>2, <3>3, <3>4, <3>6 DEF Kept, Lasting
      <3>8. "submitted" \in answers'[r] =>
               \E x \in DOMAIN handling' : handling'[x].req = r /\ Holds(x, "pending_approval")'
        BY <2>1, <3>2, <3>3, <3>4, <3>6 DEF Kept, Lasting
      <3>9. QED BY <3>7, <3>8 DEF Kept
    <2>4. QED BY <2>2, <2>3
  <1>7. (\A q \in Backlog : Shaped(q))'  BY <1>1 DEF Shaped
  <1>8. QED BY <1>2, <1>4, <1>5, <1>6, <1>7 DEF TruthOK

LEMMA TruthStarts == Init => TruthOK
  <1> SUFFICES ASSUME Init PROVE TruthOK
    OBVIOUS
  <1>1. /\ DOMAIN requests = {} /\ DOMAIN working = {} /\ working = <<>> /\ replies = {}
        /\ DOMAIN pending = {} /\ DOMAIN handling = {}
    BY DEF Init, RpcInit
  <1>2. Backlog = {} /\ OnTheWay = {}  BY <1>1 DEF Backlog, OnTheWay
  <1>3. DOMAIN answers = Requests /\ \A r \in Requests : answers[r] = {}
    BY DEF Init
  <1>4. QED BY <1>1, <1>2, <1>3 DEF TruthOK, Kept

LEMMA TruthAlways == Spec => []TruthOK
  BY TruthStarts, TruthStays, Always, PTL DEF Spec

(* Who is told that an offer was saved, or sent for approval, has it: the  *)
(* table holds one of this request, approved or waiting for approval, and  *)
(* no timeout, late response, redelivery or restart between the INSERT and *)
(* the text of the answer changes that                                     *)
(* (app/graphs/offer_graph.py, app/broker/backend_rpc.py).                 *)
THEOREM SavedOffersExist == Spec => []SavedMeansStored
  <1>1. TruthOK => SavedMeansStored
    <2> SUFFICES ASSUME TruthOK, NEW r \in Requests
                 PROVE  /\ "saved" \in answers[r] =>
                              \E id \in OffersOf(r) : offers[id].status = "approved"
                        /\ "submitted" \in answers[r] =>
                              \E id \in OffersOf(r) : offers[id].status = "pending_approval"
      BY DEF SavedMeansStored
    <2>1. ASSUME NEW status, NEW h \in DOMAIN handling, handling[h].req = r, Holds(h, status)
          PROVE  \E id \in OffersOf(r) : offers[id].status = status
      <3>1. <<h, "create">> \in OffersOf(r)  BY <2>1 DEF Holds, OffersOf
      <3>2. QED BY <2>1, <3>1 DEF Holds
    <2>2. QED BY <2>1 DEF TruthOK, Kept
  <1>2. QED BY <1>1, TruthAlways, PTL

---------------------------------------------------------------------------
(* Futures.  A future is that of the handler that waits for it, and only   *)
(* what the backend may send becomes of it.                                *)

FuturesOK ==
    \A id \in DOMAIN pending :
        id \in CallIds /\ id[1] \in DOMAIN handling /\ handling[id[1]].at = id[2]

ResultsOK == \A c \in OnTheWay : c[2] \in Results \cup {Waiting}

AnswersOK ==
    /\ answers \in [Requests -> SUBSET Answers]
    /\ \A h \in DOMAIN handling : handling[h].at = "answer" => handling[h].answer \in Answers
    /\ DOMAIN handling \subseteq Handlings

CallersOK == caller \in [Requests -> {"idle", "waiting", "timeout"} \cup Answers]

LEMMA CallIdsPaired ==
    ASSUME NEW id \in CallIds
    PROVE  id = <<id[1], id[2]>> /\ id[2] \in {"create", "approval"}
  BY CallIdsAssumption

(* The handler of every future that remains is where it was.               *)
LEMMA FuturesRemain ==
    ASSUME FuturesOK,
           \A id \in DOMAIN pending' :
              /\ id \in DOMAIN pending
              /\ id[1] \in DOMAIN handling => /\ id[1] \in DOMAIN handling'
                                              /\ handling'[id[1]] = handling[id[1]]
    PROVE  FuturesOK'
  BY DEF FuturesOK

LEMMA FuturesOfHandled ==
    ASSUME AgentInv, FuturesOK, DOMAIN handling \subseteq Handlings,
           NEW h \in DOMAIN handling, Handle(h), NEW l, Turned(h, l)
    PROVE  FuturesOK'
  <1>1. /\ DOMAIN handling' = DOMAIN handling /\ handling'[h] = l
        /\ \A g \in DOMAIN handling : g # h => handling'[g] = handling[g]
    BY DEF Turned
  <1>2. ASSUME \A id \in DOMAIN pending' : id \in DOMAIN pending /\ id[1] # h
        PROVE  FuturesOK'
    <2>1. \A id \in DOMAIN pending' :
              /\ id \in DOMAIN pending
              /\ id[1] \in DOMAIN handling => /\ id[1] \in DOMAIN handling'
                                              /\ handling'[id[1]] = handling[id[1]]
      BY <1>1, <1>2
    <2>2. QED BY <2>1, FuturesRemain
  <1>3. ASSUME NEW id \in DOMAIN pending, id[1] = h
        PROVE  id = <<h, handling[h].at>> /\ handling[h].at \in {"create", "approval"}
    BY <1>3, CallIdsPaired DEF FuturesOK
  <1>4. CASE handling[h].at \notin {"create", "approval"} /\ UNCHANGED pending
    BY <1>2, <1>3, <1>4
  <1>5. CASE OfferCreated(h) \/ OfferSubmitted(h)
    <2>1. Forget(<<h, handling[h].at>>)
      BY <1>5 DEF OfferCreated, OfferSubmitted, Resume
    <2>2. QED BY <1>2, <1>3, <2>1 DEF Forget
  <1>6. CASE WriteText(h) \/ Submit(h)
    <2>1. handling[h].at \in {"text", "submit"}  BY <1>6 DEF WriteText, Submit
    <2>2. CASE UNCHANGED pending  BY <1>4, <2>1, <2>2
    <2>3. ASSUME NEW op \in {"create", "approval"},
                 pending' = Put(pending, <<h, op>>, Waiting), handling'[h].at = op
          PROVE  FuturesOK'
      <3>1. <<h, op>> \in CallIds  BY CallIdsAssumption
      <3>2. ASSUME NEW id \in DOMAIN pending'
            PROVE  id \in CallIds /\ id[1] \in DOMAIN handling' /\ handling'[id[1]].at = id[2]
        <4>1. CASE id = <<h, op>>  BY <1>1, <2>3, <3>1, <4>1
        <4>2. CASE id # <<h, op>>
          <5>1. id \in DOMAIN pending  BY <2>3, <4>2 DEF Put
          <5>2. id[1] # h  BY <1>3, <2>1, <5>1
          <5>3. QED BY <1>1, <5>1, <5>2 DEF FuturesOK
        <4>3. QED BY <4>1, <4>2
      <3>3. QED BY <3>2 DEF FuturesOK
    <2>4. CASE WriteText(h) /\ ~UNCHANGED pending
      <3>1. Issue(CreateRequest(h)) /\ Goto(h, CreateRequest(h).op)
        BY <2>4 DEF WriteText, Call, IssueFails, rpcVars
      <3>2. CreateRequest(h).op = "create" /\ CreateRequest(h).id = <<h, "create">>
        BY DEF CreateRequest
      <3>3. PICK k : Turned(h, k) /\ k.at = "create"
        BY <3>1, <3>2, GotoTurned DEF AgentInv, Places
      <3>4. handling'[h].at = "create"  BY <3>3 DEF Turned
      <3>5. QED BY <2>3, <3>1, <3>2, <3>4 DEF Issue
    <2>5. CASE Submit(h) /\ ~UNCHANGED pending
      <3>1. PICK q : q = [CreateRequest(h) EXCEPT !.op = "approval", !.id = <<h, "approval">>]
        OBVIOUS
      <3>2. Issue(q) /\ Goto(h, q.op)
        BY <2>5, <3>1 DEF Submit, Call, IssueFails, rpcVars
      <3>3. q.op = "approval" /\ q.id = <<h, "approval">>
        BY <3>1 DEF CreateRequest
      <3>4. PICK k : Turned(h, k) /\ k.at = "approval"
        BY <3>2, <3>3, GotoTurned DEF AgentInv, Places
      <3>5. handling'[h].at = "approval"  BY <3>4 DEF Turned
      <3>6. QED BY <2>3, <3>2, <3>3, <3>5 DEF Issue
    <2>6. QED BY <1>6, <2>2, <2>4, <2>5
  <1>7. ASSUME ~(OfferCreated(h) \/ OfferSubmitted(h)), ~(WriteText(h) \/ Submit(h))
        PROVE  handling[h].at \notin {"create", "approval"} /\ UNCHANGED pending
    BY <1>7 DEF Handle, TemporaryError, PermanentError, Route, Extract, ResumeOffer, Load,
                Answer, Ack, rpcVars
  <1>8. QED BY <1>4, <1>5, <1>6, <1>7

LEMMA FuturesStay ==
    ASSUME AgentInv, FuturesOK, DOMAIN handling \subseteq Handlings, [Next]_vars
    PROVE  FuturesOK'
  <1>1. ASSUME NEW h \in DOMAIN handling, Handle(h) PROVE FuturesOK'
    BY <1>1, HandleStep, FuturesOfHandled DEF HandlerStep
  <1>2. CASE DOMAIN pending' \subseteq DOMAIN pending /\ UNCHANGED handling
    BY <1>2, FuturesRemain
  <1>3. ASSUME NEW r \in Requests, NEW k \in 0..MaxRetries, Deliver(r, k) PROVE FuturesOK'
    <2>1. UNCHANGED pending  BY <1>3 DEF Deliver, rpcVars
    <2>2. \A g \in DOMAIN handling : g \in DOMAIN handling' /\ handling'[g] = handling[g]
      BY <1>3, TakeStep DEF Takes
    <2>3. QED BY <2>1, <2>2, FuturesRemain
  <1>4. CASE RestartAgent
    <2>1. DOMAIN pending' = {}  BY <1>4 DEF RestartAgent, RestartClient
    <2>2. QED BY <2>1 DEF FuturesOK
  <1>5. UNCHANGED vars
           \/ Reconnect
           \/ (\E r \in Requests, m \in ChatMessages : Ask(r, m))
           \/ (\E r \in Requests : ReadAnswer(r) \/ GiveUp(r))
        => UNCHANGED <<pending, handling>>
    BY DEF vars, chatVars, rpcVars, Reconnect, Ask, ReadAnswer, GiveUp
  <1>6. RpcNext /\ UNCHANGED chatVars
        => DOMAIN pending' \subseteq DOMAIN pending /\ UNCHANGED handling
    BY DEF chatVars, RpcNext, Dispatch, Respond, AckRequest, CrashBackend, CloseClient,
           HandleResponse
  <1>7. QED BY <1>1, <1>2, <1>3, <1>4, <1>5, <1>6 DEF Next, Take

LEMMA ResultsStay ==
    ASSUME AgentInv, TruthOK, ResultsOK, [Next]_vars
    PROVE  ResultsOK'
  <1>1. Refusals \subseteq Results \cup {Waiting}  BY DEF Refusals, Results
  <1>2. ASSUME NEW c \in OnTheWay', Reported(c[1], c[2])
        PROVE  c[2] \in Results
    <2>1. PICK q \in Backlog :
             q.id = c[1] /\ offers' \in Effects(q) /\ c[2] = offers'[Target(q)].status
      BY <1>2 DEF Reported
    <2>2. Target(q) \in DOMAIN offers'
      BY <2>1, BacklogTyped, EffectsAreNews DEF AgentInv, TruthOK
    <2>3. OffersOK'  BY NextInv DEF AgentInv
    <2>4. offers'[Target(q)] \in OfferRec  BY <2>2, <2>3 DEF OffersOK
    <2>5. QED BY <2>1, <2>4 DEF OfferRec, Results
  <1>3. QED BY <1>1, <1>2, OnTheWayEvolves DEF ResultsOK

LEMMA AnswersStay ==
    ASSUME AgentInv, AnswersOK, [Next]_vars
    PROVE  AnswersOK'
  <1>1. answers' \in [Requests -> SUBSET Answers]
    <2>1. CASE UNCHANGED answers  BY <2>1 DEF AnswersOK
    <2>2. ASSUME NEW h \in DOMAIN handling, handling[h].at = "answer",
                 answers' = [answers EXCEPT ![handling[h].req] = @ \cup {handling[h].answer}]
          PROVE  answers' \in [Requests -> SUBSET Answers]
      BY <2>2 DEF AnswersOK
    <2>3. QED BY <2>1, <2>2, AnswersEvolve
  <1>2. ASSUME NEW h \in DOMAIN handling', handling'[h].at = "answer"
        PROVE  handling'[h].answer \in Answers
    <2>1. CASE h \in DOMAIN handling /\ handling'[h] = handling[h]
      BY <1>2, <2>1 DEF AnswersOK
    <2>2. CASE \E l : HandlerStep(h, l) /\ handling'[h] = l
      BY <1>2, <2>2 DEF HandlerStep, Works, PassesOn, PutsBack, GivesAnswer, Acks, Drops
    <2>3. QED BY <1>2, <2>1, <2>2, HandlingsEvolve
  <1>3. DOMAIN handling' \subseteq Handlings
    BY StepKinds DEF Rests, Asks, Takes, HandlerStep, Turned, TakesBack, AnswersOK
  <1>4. QED BY <1>1, <1>2, <1>3 DEF AnswersOK

LEMMA CallersStay ==
    ASSUME AnswersOK, CallersOK, [Next]_vars
    PROVE  CallersOK'
  <1>1. CASE UNCHANGED caller  BY <1>1 DEF CallersOK
  <1>2. ASSUME NEW r \in Requests,
               NEW c \in {"waiting", "timeout"} \cup Answers, caller' = [caller EXCEPT ![r] = c]
        PROVE  CallersOK'
    BY <1>2 DEF CallersOK
  <1>3. ASSUME NEW r \in Requests, NEW m, Ask(r, m) \/ ReadAnswer(r) \/ GiveUp(r)
        PROVE  \E c \in {"waiting", "timeout"} \cup Answers : caller' = [caller EXCEPT ![r] = c]
    BY <1>3 DEF Ask, ReadAnswer, GiveUp, AnswersOK
  <1>4. ASSUME NEW h, Handle(h) PROVE UNCHANGED caller
    BY <1>4 DEF Handle, TemporaryError, PermanentError, Route, Extract, ResumeOffer, Load,
                WriteText, Submit, OfferCreated, OfferSubmitted, Answer, Ack
  <1>5. UNCHANGED vars \/ Take \/ RestartAgent \/ Reconnect \/ (RpcNext /\ UNCHANGED chatVars)
        => UNCHANGED caller
    BY DEF vars, chatVars, Take, Deliver, RestartAgent, Reconnect
  <1>6. QED BY <1>1, <1>2, <1>3, <1>4, <1>5 DEF Next

Typed == FuturesOK /\ ResultsOK /\ AnswersOK /\ CallersOK

LEMMA TypedAlways == Spec => []Typed
  <1>1. Init => Typed
    <2> SUFFICES ASSUME Init PROVE Typed
      OBVIOUS
    <2>1. DOMAIN pending = {} /\ working = <<>> /\ replies = {} /\ DOMAIN handling = {}
      BY DEF Init, RpcInit
    <2>2. FuturesOK /\ ResultsOK  BY <2>1 DEF FuturesOK, ResultsOK, OnTheWay
    <2>3. AnswersOK /\ CallersOK  BY <2>1 DEF Init, AnswersOK, CallersOK
    <2>4. QED BY <2>2, <2>3 DEF Typed
  <1>2. AgentInv /\ TruthOK /\ Typed /\ [Next]_vars => Typed'
    <2> SUFFICES ASSUME AgentInv, TruthOK, Typed, [Next]_vars PROVE Typed'
      OBVIOUS
    <2>1. FuturesOK'  BY FuturesStay DEF Typed, AnswersOK
    <2>2. ResultsOK'  BY ResultsStay DEF Typed
    <2>3. AnswersOK' /\ CallersOK'  BY AnswersStay, CallersStay DEF Typed
    <2>4. QED BY <2>1, <2>2, <2>3 DEF Typed
  <1>3. QED BY <1>1, <1>2, Always, TruthAlways, PTL DEF Spec

(* Every variable has its type; and no future outlives the wait of its     *)
(* handler: whether a call is answered, times out or is cut off by a       *)
(* restart, its entry in _pending is gone when the handler goes on         *)
(* (app/broker/backend_rpc.py).                                            *)
THEOREM AgentTyped == Spec => []TypeOK
  <1>1. AgentInv /\ Typed /\ MemoryOK => TypeOK
    <2> SUFFICES ASSUME AgentInv, Typed, MemoryOK PROVE TypeOK
      OBVIOUS
    <2>1. \A r \in Requests : \A k \in 0..MaxRetries : queue[r][k] \in Nat
      <3>1. queue \in [Requests -> [0..MaxRetries -> Nat]]  BY DEF AgentInv, QueueOK
      <3>2. QED BY <3>1
    <2>2. ASSUME NEW h \in DOMAIN handling
          PROVE  /\ handling[h].req \in Requests /\ handling[h].retry \in 0..MaxRetries
                 /\ handling[h].at \in Places
                 /\ handling[h].plan \in Plan \cup {None}
                 /\ handling[h].answer \in Answers \cup {None}
      <3>1. handling[h] \in LocalRec  BY HandlingTyped DEF AgentInv
      <3>2. QED BY <3>1 DEF LocalRec
    <2>3. ASSUME NEW id \in DOMAIN pending
          PROVE  /\ id \in CallIds /\ pending[id] \in Results \cup {Waiting}
                 /\ handling[id[1]].at = id[2]
      <3>1. <<id, pending[id]>> \in OnTheWay  BY DEF OnTheWay
      <3>2. QED BY <3>1 DEF Typed, FuturesOK, ResultsOK
    <2>4. \A key \in DOMAIN pendingOffers :
             pendingOffers[key].plan \in Plan /\ pendingOffers[key].created \in Nat
      BY DEF AgentInv, PendingOK, MemoryOK
    <2>5. /\ asked \in [Requests -> ChatMessages \cup {None}]
          /\ caller \in [Requests -> {"idle", "waiting", "timeout"} \cup Answers]
          /\ answers \in [Requests -> SUBSET Answers] /\ DOMAIN handling \subseteq Handlings
      BY DEF AgentInv, AskedOK, Typed, AnswersOK, CallersOK
    <2>6. QED BY <2>1, <2>2, <2>3, <2>4, <2>5 DEF TypeOK
  <1>2. QED BY <1>1, Always, TypedAlways, MemoryAlways, PTL

---------------------------------------------------------------------------
(* Counting.  The copies of a request that are queued, and the handlings   *)
(* that have asked for its offer, or may still do so.                      *)

Copies(r) == {c \in (0..MaxRetries) \X (Nat \ {0}) : c[2] <= queue[r][c[1]]}

HasAsked(h) == <<h, "create">> \in DOMAIN offers \/ \E q \in Backlog : q.id = <<h, "create">>

Makers(r) ==
    {h \in DOMAIN handling : handling[h].req = r /\ (HasAsked(h) \/ handling[h].at \in Unasked)}

CopiesOK ==
    /\ redelivered \in [Requests -> Nat]
    /\ \A r \in Requests : IsFiniteSet(Copies(r))

CountOK ==
    /\ \A h \in DOMAIN handling : handling[h].at \in Unasked => ~HasAsked(h)
    /\ \A id \in DOMAIN offers : id = <<id[1], "create">>
    /\ \A r \in Requests :
          Cardinality(Makers(r)) + Cardinality(Copies(r)) <= 1 + redelivered[r]

LEMMA CopyAdded ==
    ASSUME QueueOK, NEW r \in Requests, NEW k \in 0..MaxRetries, queue' = Queued(r, k, 1)
    PROVE  /\ Copies(r)' = Copies(r) \cup {<<k, queue[r][k] + 1>>}
           /\ <<k, queue[r][k] + 1>> \notin Copies(r)
           /\ \A s \in Requests \ {r} : Copies(s)' = Copies(s)
  <1>1. /\ queue \in [Requests -> [0..MaxRetries -> Nat]]
        /\ queue' = [queue EXCEPT ![r][k] = @ + 1]
    BY DEF QueueOK, Queued
  <1>2. \A i \in 0..MaxRetries : queue[r][i] \in Nat
    BY <1>1
  <1>3. \A i \in 0..MaxRetries : queue'[r][i] = IF i = k THEN queue[r][i] + 1 ELSE queue[r][i]
    BY <1>1
  <1>4. \A s \in Requests \ {r} : queue'[s] = queue[s]
    BY <1>1
  <1>5. ASSUME NEW c \in (0..MaxRetries) \X (Nat \ {0})
        PROVE  c[2] <= queue'[r][c[1]] <=> c[2] <= queue[r][c[1]] \/ c = <<k, queue[r][k] + 1>>
    <2>1. PICK i \in 0..MaxRetries, n \in Nat \ {0} : c = <<i, n>>  OBVIOUS
    <2>2. n <= queue'[r][i] <=> n <= queue[r][i] \/ (i = k /\ n = queue[r][k] + 1)
      BY <1>2, <1>3
    <2>3. QED BY <2>1, <2>2
  <1>6. <<k, queue[r][k] + 1>> \in (0..MaxRetries) \X (Nat \ {0})
    BY <1>2
  <1>7. Copies(r)' = Copies(r) \cup {<<k, queue[r][k] + 1>>}
    BY <1>5, <1>6 DEF Copies
  <1>8. <<k, queue[r][k] + 1>> \notin Copies(r)
    BY <1>2 DEF Copies
  <1>9. QED BY <1>4, <1>7, <1>8 DEF Copies

LEMMA CopyTaken ==
    ASSUME QueueOK, NEW r \in Requests, NEW k \in 0..MaxRetries, queue[r][k] > 0,
           queue' = Queued(r, k, 0 - 1)
    PROVE  /\ Copies(r)' = Copies(r) \ {<<k, queue[r][k]>>}
           /\ <<k, queue[r][k]>> \in Copies(r)
           /\ \A s \in Requests \ {r} : Copies(s)' = Copies(s)
  <1>1. /\ queue \in [Requests -> [0..MaxRetries -> Nat]]
        /\ queue' = [queue EXCEPT ![r][k] = @ + (0 - 1)]
    BY DEF QueueOK, Queued
  <1>2. \A i \in 0..MaxRetries : queue[r][i] \in Nat
    BY <1>1
  <1>3. \A i \in 0..MaxRetries : queue'[r][i] = IF i = k THEN queue[r][i] - 1 ELSE queue[r][i]
    <2>1. \A i \in 0..MaxRetries :
             queue'[r][i] = IF i = k THEN queue[r][i] + (0 - 1) ELSE queue[r][i]
      BY <1>1
    <2>2. \A n \in Nat : n + (0 - 1) = n - 1  OBVIOUS
    <2>3. QED BY <1>2, <2>1, <2>2
  <1>4. \A s \in Requests \ {r} : queue'[s] = queue[s]
    BY <1>1
  <1>5. ASSUME NEW c \in (0..MaxRetries) \X (Nat \ {0})
        PROVE  c[2] <= queue'[r][c[1]] <=> c[2] <= queue[r][c[1]] /\ c # <<k, queue[r][k]>>
    <2>1. PICK i \in 0..MaxRetries, n \in Nat \ {0} : c = <<i, n>>  OBVIOUS
    <2>2. n <= queue'[r][i] <=> n <= queue[r][i] /\ ~(i = k /\ n = queue[r][k])
      BY <1>2, <1>3
    <2>3. QED BY <2>1, <2>2
  <1>6. <<k, queue[r][k]>> \in (0..MaxRetries) \X (Nat \ {0})
    BY <1>2
  <1>7. Copies(r)' = Copies(r) \ {<<k, queue[r][k]>>}
    BY <1>5 DEF Copies
  <1>8. <<k, queue[r][k]>> \in Copies(r)
    BY <1>2, <1>6 DEF Copies
  <1>9. QED BY <1>4, <1>7, <1>8 DEF Copies

(* Nobody has seen a request that was not made.                            *)
LEMMA UnaskedIsNowhere ==
    ASSUME AgentInv, NEW r \in Requests, asked[r] = None
    PROVE  Copies(r) = {} /\ \A h \in DOMAIN handling : handling[h].req # r
  <1>1. \A h \in DOMAIN handling : handling[h].req # r
    BY ReqTyped DEF AgentInv
  <1>2. queue[r] \in [0..MaxRetries -> Nat] /\ \A k \in 0..MaxRetries : ~(queue[r][k] > 0)
    BY DEF AgentInv, QueueOK
  <1>3. ASSUME NEW c \in Copies(r) PROVE FALSE
    <2>1. PICK i \in 0..MaxRetries, n \in Nat \ {0} : c = <<i, n>> /\ n <= queue[r][i]
      BY DEF Copies
    <2>2. queue[r][i] \in Nat /\ ~(queue[r][i] > 0)  BY <1>2
    <2>3. QED BY <2>1, <2>2
  <1>4. QED BY <1>1, <1>3

(* When the broker takes deliveries back there is a copy more for each.    *)
LEMMA CopiesBack ==
    ASSUME HandlingOK, QueueOK, TakenBack, NEW r \in Requests, IsFiniteSet(Copies(r))
    PROVE  \E new : /\ Copies(r)' = Copies(r) \cup new /\ IsFiniteSet(new)
                    /\ Copies(r) \cap new = {}
                    /\ Cardinality(new) <= HeldOf(r) /\ HeldOf(r) \in Nat
  <1> DEFINE new == Copies(r)' \ Copies(r)
             back == {h \in HeldHandlings : handling[h].req = r}
             S(k) == {h \in HeldHandlings : handling[h].req = r /\ handling[h].retry = k}
             b(k) == CHOOSE f : f \in Bijection(1..Held(r, k), S(k))
             g == [c \in new |-> b(c[1])[c[2] - queue[r][c[1]]]]
  <1>1. DOMAIN handling = 1..Len(handling) /\ Len(handling) \in Nat
    BY HandlingTyped
  <1>2. IsFiniteSet(back) /\ Cardinality(back) = HeldOf(r)
    <2>1. back \subseteq 1..Len(handling)  BY <1>1 DEF HeldHandlings, LiveHandlings
    <2>2. IsFiniteSet(1..Len(handling))  BY <1>1, FS_Interval
    <2>3. QED BY <2>1, <2>2, FS_Subset DEF HeldOf
  <1>3. ASSUME NEW k \in 0..MaxRetries
        PROVE  /\ b(k) \in Bijection(1..Held(r, k), S(k)) /\ S(k) \subseteq back
               /\ Held(r, k) \in Nat
    <2>1. S(k) \subseteq back  OBVIOUS
    <2>2. IsFiniteSet(S(k))  BY <1>2, <2>1, FS_Subset
    <2>3. Held(r, k) = Cardinality(S(k))  BY DEF Held
    <2>4. Held(r, k) \in Nat /\ \E f : f \in Bijection(1..Held(r, k), S(k))
      BY <2>2, <2>3, FS_CardinalityType DEF ExistsBijection
    <2>5. QED BY <2>1, <2>4
  <1>4. \A k \in 0..MaxRetries : /\ queue[r][k] \in Nat /\ Held(r, k) \in Nat
                                /\ queue'[r][k] = queue[r][k] + Held(r, k)
    <2>1. queue[r] \in [0..MaxRetries -> Nat]  BY DEF QueueOK
    <2>2. \A k \in 0..MaxRetries : Held(r, k) \in Nat  BY HeldIsNat
    <2>3. QED BY <2>1, <2>2 DEF TakenBack
  <1>5. Copies(r) \subseteq Copies(r)'
    <2>1. ASSUME NEW c \in Copies(r) PROVE c \in Copies(r)'
      <3>1. PICK i \in 0..MaxRetries, n \in Nat \ {0} : c = <<i, n>> /\ n <= queue[r][i]
        BY DEF Copies
      <3>2. n <= queue'[r][i]  BY <1>4, <3>1
      <3>3. QED BY <3>1, <3>2 DEF Copies
    <2>2. QED BY <2>1
  <1>6. ASSUME NEW c \in new
        PROVE  /\ c[1] \in 0..MaxRetries
               /\ c[2] \in Nat /\ c = <<c[1], c[2]>>
               /\ c[2] - queue[r][c[1]] \in 1..Held(r, c[1])
    <2>1. PICK i \in 0..MaxRetries, n \in Nat \ {0} :
             c = <<i, n>> /\ n <= queue'[r][i] /\ ~(n <= queue[r][i])
      BY DEF Copies
    <2>2. n - queue[r][i] \in 1..Held(r, i)  BY <1>4, <2>1
    <2>3. QED BY <2>1, <2>2
  <1>7. ASSUME NEW k \in 0..MaxRetries, NEW x \in 1..Held(r, k)
        PROVE  b(k)[x] \in back /\ handling[b(k)[x]].retry = k
    <2>1. b(k) \in Bijection(1..Held(r, k), S(k))  BY <1>3
    <2> HIDE DEF b
    <2>2. b(k)[x] \in S(k)  BY <2>1 DEF Bijection, Injection, IsInjective
    <2>3. QED BY <2>2
  <1>8. ASSUME NEW k \in 0..MaxRetries, NEW x \in 1..Held(r, k), NEW y \in 1..Held(r, k),
               b(k)[x] = b(k)[y]
        PROVE  x = y
    <2>1. b(k) \in Bijection(1..Held(r, k), S(k))  BY <1>3
    <2> HIDE DEF b
    <2>2. QED BY <1>8, <2>1 DEF Bijection, Injection, IsInjective
  <1> HIDE DEF b, new, back
  <1>9. g \in [new -> back] /\ \A c \in new : g[c] = b(c[1])[c[2] - queue[r][c[1]]]
    BY <1>6, <1>7
  <1> HIDE DEF g
  <1>10. ASSUME NEW c \in new, NEW d \in new, g[c] = g[d]
         PROVE  c = d
    <2>1. c[1] = d[1]
      <3>1. handling[g[c]].retry = c[1] /\ handling[g[d]].retry = d[1]
        BY <1>6, <1>7, <1>9
      <3>2. QED BY <1>10, <3>1
    <2>2. c[2] - queue[r][c[1]] = d[2] - queue[r][d[1]]
      BY <1>6, <1>8, <1>9, <1>10, <2>1
    <2>3. c[2] = d[2]  BY <1>4, <1>6, <2>1, <2>2
    <2>4. QED BY <1>6, <2>1, <2>3
  <1>11. g \in Injection(new, back)
    BY <1>9, <1>10 DEF Injection, IsInjective
  <1>12. IsFiniteSet(new) /\ Cardinality(new) <= HeldOf(r) /\ HeldOf(r) \in Nat
    BY <1>2, <1>11, FS_Injection, FS_CardinalityType
  <1>13. Copies(r)' = Copies(r) \cup new /\ Copies(r) \cap new = {}
    BY <1>5 DEF new
  <1>14. QED BY <1>12, <1>13

---------------------------------------------------------------------------
(* Nobody becomes a maker of an offer but by taking a copy.                *)

LEMMA HasAskedEvolves ==
    ASSUME AgentInv, TruthOK, [Next]_vars, NEW h, HasAsked(h)'
    PROVE  \/ HasAsked(h)
           \/ /\ h \in DOMAIN handling /\ handling[h].at = "text"
              /\ handling'[h].at \in {"create", "answer"}
  <1>1. CASE \E q \in Backlog' : q.id = <<h, "create">>
    <2>1. PICK q \in Backlog' : q.id = <<h, "create">>  BY <1>1
    <2>2. CASE q \in Backlog  BY <2>1, <2>2 DEF HasAsked
    <2>3. ASSUME NEW g \in DOMAIN handling, IssuedBy(q, g)
          PROVE  /\ h \in DOMAIN handling /\ handling[h].at = "text"
                 /\ handling'[h].at \in {"create", "answer"}
      BY <2>1, <2>3 DEF IssuedBy
    <2>4. QED BY <2>2, <2>3, BacklogEvolves
  <1>2. CASE <<h, "create">> \in DOMAIN offers'
    <2>1. CASE UNCHANGED offers  BY <1>2, <2>1 DEF HasAsked
    <2>2. ASSUME NEW q \in Backlog, offers' \in Effects(q)
          PROVE  HasAsked(h)
      <3>1. q \in RequestRec /\ Shaped(q)  BY BacklogTyped DEF TruthOK
      <3>2. /\ DOMAIN offers' \subseteq DOMAIN offers \cup {<<q.id[1], "create">>}
            /\ q.op # "create" => DOMAIN offers' = DOMAIN offers
        BY <2>2, <3>1, EffectsAreNews DEF AgentInv
      <3>3. CASE <<h, "create">> \in DOMAIN offers  BY <3>3 DEF HasAsked
      <3>4. CASE <<h, "create">> \notin DOMAIN offers
        <4>1. q.op = "create" /\ q.id[1] = h  BY <1>2, <3>2, <3>4
        <4>2. q.id = <<h, "create">>  BY <3>1, <4>1 DEF Shaped
        <4>3. QED BY <4>2 DEF HasAsked
      <3>5. QED BY <3>3, <3>4
    <2>3. QED BY <2>1, <2>2, OffersEvolve
  <1>3. QED BY <1>1, <1>2 DEF HasAsked

LEMMA AskersHandle ==
    ASSUME AgentInv, TruthOK, NEW h, HasAsked(h)
    PROVE  h \in DOMAIN handling
  <1>1. CASE <<h, "create">> \in DOMAIN offers
    BY <1>1 DEF AgentInv, OffersOK, Honest
  <1>2. ASSUME NEW q \in Backlog, q.id = <<h, "create">>
        PROVE  h \in DOMAIN handling
    <2>1. q.op = "create"  BY <1>2 DEF TruthOK, Shaped
    <2>2. HonestRequest(q)
      <3>1. CASE \E i \in DOMAIN requests : q = requests[i]
        BY <3>1 DEF AgentInv, RequestsOK
      <3>2. CASE \E i \in DOMAIN working : q = working[i].request
        <4>1. PICK i \in DOMAIN working : q = working[i].request  BY <3>2
        <4>2. PICK c \in RequestRec :
                 DOMAIN working = {1} /\ working[1].request = c /\ HonestRequest(c)
          BY <4>1, WorkingTyped DEF AgentInv
        <4>3. QED BY <4>1, <4>2
      <3>3. QED BY <3>1, <3>2 DEF Backlog
    <2>3. QED BY <1>2, <2>1, <2>2 DEF HonestRequest, Honest
  <1>3. QED BY <1>1, <1>2 DEF HasAsked

LEMMA MakersFinite ==
    ASSUME HandlingOK, NEW r
    PROVE  IsFiniteSet(Makers(r)) /\ Cardinality(Makers(r)) \in Nat
  <1>1. DOMAIN handling = 1..Len(handling) /\ Len(handling) \in Nat
    BY HandlingTyped
  <1>2. IsFiniteSet(1..Len(handling))  BY <1>1, FS_Interval
  <1>3. Makers(r) \subseteq 1..Len(handling)  BY <1>1 DEF Makers
  <1>4. QED BY <1>2, <1>3, FS_Subset, FS_CardinalityType

(* The handlings of a request that make an offer of it stay the same, or   *)
(* become fewer, unless a copy is taken.                                   *)
LEMMA MakersStay ==
    ASSUME AgentInv, TruthOK, [Next]_vars, NEW r \in Requests,
           DOMAIN handling' = DOMAIN handling,
           \A h \in DOMAIN handling : /\ handling'[h].req = handling[h].req
                                      /\ handling'[h].at \in Unasked => handling[h].at \in Unasked
    PROVE  Makers(r)' \subseteq Makers(r)
  <1>1. ASSUME NEW h \in DOMAIN handling', handling'[h].req = r,
               HasAsked(h)' \/ handling'[h].at \in Unasked
        PROVE  h \in Makers(r)
    <2>1. HasAsked(h) \/ handling[h].at \in Unasked
      BY <1>1, HasAskedEvolves DEF Unasked
    <2>2. QED BY <1>1, <2>1 DEF Makers
  <1>2. QED BY <1>1 DEF Makers

LEMMA TurnedMakers ==
    ASSUME AgentInv, TruthOK, [Next]_vars, NEW h \in DOMAIN handling, NEW l, HandlerStep(h, l)
    PROVE  \A r \in Requests : Makers(r)' \subseteq Makers(r)
  <1>1. /\ DOMAIN handling' = DOMAIN handling /\ l.req = handling[h].req
        /\ \A g \in DOMAIN handling : handling'[g] = IF g = h THEN l ELSE handling[g]
    BY DEF HandlerStep, Turned
  <1>2. l.at \in Unasked => handling[h].at \in Unasked
    BY DEF HandlerStep, Works, PassesOn, PutsBack, GivesAnswer, Acks, Drops, Unasked
  <1>3. \A g \in DOMAIN handling : /\ handling'[g].req = handling[g].req
                                   /\ handling'[g].at \in Unasked => handling[g].at \in Unasked
    <2>1. TAKE g \in DOMAIN handling
    <2>2. CASE g = h  BY <1>1, <1>2, <2>2
    <2>3. CASE g # h  BY <1>1, <2>3
    <2>4. QED BY <2>2, <2>3
  <1>4. QED BY <1>1, <1>3, MakersStay

---------------------------------------------------------------------------
(* The copies and the redeliveries.                                        *)

LEMMA CopiesStay ==
    ASSUME AgentInv, CopiesOK, [Next]_vars
    PROVE  CopiesOK'
  <1>1. QueueOK /\ HandlingOK  BY DEF AgentInv
  <1>2. CASE UNCHANGED <<queue, redelivered>>
    BY <1>2 DEF CopiesOK, Copies
  <1>3. ASSUME NEW r \in Requests, NEW k \in 0..MaxRetries, queue' = Queued(r, k, 1),
               redelivered' \in [Requests -> Nat]
        PROVE  CopiesOK'
    <2>1. /\ Copies(r)' = Copies(r) \cup {<<k, queue[r][k] + 1>>}
          /\ \A s \in Requests \ {r} : Copies(s)' = Copies(s)
      BY <1>1, <1>3, CopyAdded
    <2>2. IsFiniteSet(Copies(r)')  BY <2>1, FS_AddElement DEF CopiesOK
    <2>3. QED BY <1>3, <2>1, <2>2 DEF CopiesOK
  <1>4. ASSUME NEW r \in Requests, NEW k \in 0..MaxRetries, NEW n, Takes(r, k, n)
        PROVE  CopiesOK'
    <2>1. queue[r][k] > 0 /\ queue' = Queued(r, k, 0 - 1) /\ UNCHANGED redelivered
      BY <1>4 DEF Takes
    <2>2. /\ Copies(r)' = Copies(r) \ {<<k, queue[r][k]>>}
          /\ \A s \in Requests \ {r} : Copies(s)' = Copies(s)
      BY <1>1, <2>1, CopyTaken
    <2>3. IsFiniteSet(Copies(r) \ {<<k, queue[r][k]>>})
      <3>1. PICK S, c : S = Copies(r) /\ c = <<k, queue[r][k]>>  OBVIOUS
      <3>2. IsFiniteSet(S)  BY <3>1 DEF CopiesOK
      <3>3. QED BY <3>1, <3>2, FS_RemoveElement
    <2>4. IsFiniteSet(Copies(r)')  BY <2>2, <2>3
    <2>5. QED BY <2>1, <2>2, <2>4 DEF CopiesOK
  <1>5. ASSUME NEW r \in Requests, Asks(r) PROVE CopiesOK'
    <2>1. 0 \in 0..MaxRetries  BY ChatMessageAssumption
    <2>2. QED BY <1>3, <1>5, <2>1 DEF Asks, CopiesOK
  <1>6. ASSUME NEW h \in DOMAIN handling, NEW l, HandlerStep(h, l) PROVE CopiesOK'
    <2>1. handling[h].req \in Requests /\ handling[h].retry \in 0..MaxRetries
      BY <1>1, ReqTyped
    <2>2. redelivered' \in [Requests -> Nat]
      BY <1>6, <2>1 DEF HandlerStep, Works, PassesOn, PutsBack, GivesAnswer, Acks, Drops, CopiesOK
    <2>3. UNCHANGED <<queue, redelivered>>
             \/ \E k \in 0..MaxRetries : queue' = Queued(handling[h].req, k, 1)
      BY <1>6, <2>1 DEF HandlerStep, Works, PassesOn, PutsBack, GivesAnswer, Acks, Drops
    <2>4. QED BY <1>2, <1>3, <2>1, <2>2, <2>3
  <1>7. CASE TakesBack
    <2>1. ASSUME NEW r \in Requests
          PROVE  IsFiniteSet(Copies(r)') /\ redelivered[r] + HeldOf(r) \in Nat
      <3>1. IsFiniteSet(Copies(r)) /\ redelivered[r] \in Nat  BY DEF CopiesOK
      <3>2. PICK new : /\ Copies(r)' = Copies(r) \cup new /\ IsFiniteSet(new)
                       /\ HeldOf(r) \in Nat
        BY <1>1, <1>7, <3>1, CopiesBack DEF TakesBack
      <3>3. IsFiniteSet(Copies(r) \cup new)  BY <3>1, <3>2, FS_Union
      <3>4. QED BY <3>1, <3>2, <3>3
    <2>2. redelivered' \in [Requests -> Nat]
      BY <1>7, <2>1 DEF TakesBack, TakenBack
    <2>3. QED BY <2>1, <2>2 DEF CopiesOK
  <1>8. QED BY <1>2, <1>4, <1>5, <1>6, <1>7, StepKinds DEF Rests

LEMMA CopiesAlways == Spec => []CopiesOK
  <1>1. Init => CopiesOK
    <2> SUFFICES ASSUME Init PROVE CopiesOK
      OBVIOUS
    <2>1. redelivered \in [Requests -> Nat] /\ AgentInv  BY InitInv DEF Init
    <2>2. \A r \in Requests : Copies(r) = {}
      BY <2>1, UnaskedIsNowhere DEF Init
    <2>3. QED BY <2>1, <2>2, FS_EmptySet DEF CopiesOK
  <1>2. QED BY <1>1, CopiesStay, Always, PTL DEF Spec

---------------------------------------------------------------------------
(* One offer for each delivery.                                            *)

(* The makers and the copies of a request.                                 *)
Sources(r) == Cardinality(Makers(r)) + Cardinality(Copies(r))

LEMMA SourcesOfAsked ==
    ASSUME AgentInv, TruthOK, CopiesOK, CountOK, [Next]_vars, NEW r \in Requests, Asks(r)
    PROVE  \A s \in Requests : Sources(s)' <= 1 + redelivered'[s]
  <1>1. 0 \in 0..MaxRetries /\ UNCHANGED <<handling, redelivered>> /\ asked[r] = None
    BY ChatMessageAssumption DEF Asks
  <1>2. /\ Copies(r)' = Copies(r) \cup {<<0, queue[r][0] + 1>>}
        /\ \A s \in Requests \ {r} : Copies(s)' = Copies(s)
    BY <1>1, CopyAdded DEF AgentInv, Asks
  <1>3. \A s \in Requests : Makers(s)' \subseteq Makers(s)
    BY <1>1, MakersStay
  <1>4. ASSUME NEW s \in Requests PROVE Sources(s)' <= 1 + redelivered'[s]
    <2>1. redelivered'[s] \in Nat /\ IsFiniteSet(Makers(s)) /\ Cardinality(Makers(s)) \in Nat
      BY <1>1, MakersFinite DEF CopiesOK, AgentInv
    <2>2. Cardinality(Makers(s)') \in Nat /\ Cardinality(Makers(s)') <= Cardinality(Makers(s))
      BY <1>3, <2>1, FS_Subset, FS_CardinalityType
    <2>3. CASE s = r
      <3>1. Copies(r) = {} /\ Makers(r) = {}
        BY <1>1, UnaskedIsNowhere DEF Makers
      <3>2. Copies(r)' = {<<0, queue[r][0] + 1>>} /\ Makers(r)' = {}
        BY <1>2, <1>3, <3>1
      <3>3. Cardinality(Copies(r)') = 1 /\ Cardinality(Makers(r)') = 0
        BY <3>2, FS_Singleton, FS_EmptySet
      <3>4. QED BY <2>1, <2>3, <3>3 DEF Sources
    <2>4. CASE s # r
      <3>1. Copies(s)' = Copies(s) /\ Cardinality(Copies(s)) \in Nat
        BY <1>2, <2>4, FS_CardinalityType DEF CopiesOK
      <3>2. QED BY <1>1, <2>1, <2>2, <3>1 DEF Sources, CountOK
    <2>5. QED BY <2>3, <2>4
  <1>5. QED BY <1>4

LEMMA SourcesOfTaken ==
    ASSUME AgentInv, TruthOK, CopiesOK, CountOK, [Next]_vars,
           NEW r \in Requests, NEW k \in 0..MaxRetries, NEW n, Takes(r, k, n)
    PROVE  \A s \in Requests : Sources(s)' <= 1 + redelivered'[s]
  <1>1. /\ queue[r][k] > 0 /\ queue' = Queued(r, k, 0 - 1)
        /\ DOMAIN handling' = DOMAIN handling \cup {n} /\ handling'[n].req = r
        /\ \A g \in DOMAIN handling : handling'[g] = handling[g]
        /\ UNCHANGED redelivered
    BY DEF Takes
  <1>2. /\ Copies(r)' = Copies(r) \ {<<k, queue[r][k]>>} /\ <<k, queue[r][k]>> \in Copies(r)
        /\ \A s \in Requests \ {r} : Copies(s)' = Copies(s)
    BY <1>1, CopyTaken DEF AgentInv
  <1>3. ASSUME NEW s \in Requests
        PROVE  Makers(s)' \subseteq Makers(s) \cup (IF s = r THEN {n} ELSE {})
    <2>1. ASSUME NEW h \in DOMAIN handling', handling'[h].req = s, h # n,
                 HasAsked(h)' \/ handling'[h].at \in Unasked
          PROVE  h \in Makers(s)
      <3>1. h \in DOMAIN handling /\ handling[h].req = s /\ handling'[h] = handling[h]
        BY <1>1, <2>1
      <3>2. HasAsked(h) \/ handling[h].at \in Unasked
        BY <2>1, <3>1, HasAskedEvolves
      <3>3. QED BY <3>1, <3>2 DEF Makers
    <2>2. QED BY <1>1, <2>1 DEF Makers
  <1>4. ASSUME NEW s \in Requests PROVE Sources(s)' <= 1 + redelivered'[s]
    <2>1. /\ redelivered'[s] \in Nat
          /\ IsFiniteSet(Makers(s)) /\ Cardinality(Makers(s)) \in Nat
          /\ IsFiniteSet(Copies(s)) /\ Cardinality(Copies(s)) \in Nat
          /\ Cardinality(Makers(s)) + Cardinality(Copies(s)) <= 1 + redelivered'[s]
      BY <1>1, MakersFinite, FS_CardinalityType DEF CopiesOK, AgentInv, CountOK
    <2>2. CASE s = r
      <3>1. Cardinality(Copies(r)') = Cardinality(Copies(r)) - 1
        <4>1. PICK S, c : S = Copies(r) /\ c = <<k, queue[r][k]>>  OBVIOUS
        <4>2. IsFiniteSet(S) /\ c \in S /\ Copies(r)' = S \ {c}
          BY <1>2, <2>1, <2>2, <4>1
        <4>3. Cardinality(S \ {c}) = Cardinality(S) - 1  BY <4>2, FS_RemoveElement
        <4>4. QED BY <4>1, <4>2, <4>3
      <3>2. /\ IsFiniteSet(Makers(r) \cup {n})
            /\ Cardinality(Makers(r) \cup {n}) <= Cardinality(Makers(r)) + 1
        <4>1. PICK S : S = Makers(r)  OBVIOUS
        <4>2. IsFiniteSet(S) /\ Cardinality(S) \in Nat  BY <2>1, <2>2, <4>1
        <4>3. /\ IsFiniteSet(S \cup {n})
              /\ Cardinality(S \cup {n}) = IF n \in S THEN Cardinality(S) ELSE Cardinality(S) + 1
          BY <4>2, FS_AddElement
        <4>4. QED BY <4>1, <4>2, <4>3
      <3>3. /\ Cardinality(Makers(r)') <= Cardinality(Makers(r) \cup {n})
            /\ Cardinality(Makers(r)') \in Nat /\ Cardinality(Makers(r) \cup {n}) \in Nat
        BY <1>3, <2>2, <3>2, FS_Subset, FS_CardinalityType
      <3>4. QED BY <2>1, <2>2, <3>1, <3>2, <3>3 DEF Sources
    <2>3. CASE s # r
      <3>1. Copies(s)' = Copies(s) /\ Makers(s)' \subseteq Makers(s)
        BY <1>2, <1>3, <2>3
      <3>2. Cardinality(Makers(s)') <= Cardinality(Makers(s)) /\ Cardinality(Makers(s)') \in Nat
        BY <2>1, <3>1, FS_Subset, FS_CardinalityType
      <3>3. QED BY <2>1, <3>1, <3>2 DEF Sources
    <2>4. QED BY <2>2, <2>3
  <1>5. QED BY <1>4

LEMMA SourcesOfHandled ==
    ASSUME AgentInv, TruthOK, CopiesOK, CountOK, [Next]_vars,
           NEW h \in DOMAIN handling, NEW l, HandlerStep(h, l)
    PROVE  \A s \in Requests : Sources(s)' <= 1 + redelivered'[s]
  <1>1. PICK r : r = handling[h].req  OBVIOUS
  <1>2. r \in Requests /\ handling[h].retry \in 0..MaxRetries
    BY <1>1, ReqTyped DEF AgentInv
  <1>3. ASSUME NEW s \in Requests PROVE Sources(s)' <= 1 + redelivered'[s]
    <2>1. /\ redelivered[s] \in Nat
          /\ IsFiniteSet(Makers(s)) /\ Cardinality(Makers(s)) \in Nat
          /\ IsFiniteSet(Copies(s)) /\ Cardinality(Copies(s)) \in Nat
          /\ Cardinality(Makers(s)) + Cardinality(Copies(s)) <= 1 + redelivered[s]
      BY MakersFinite, FS_CardinalityType DEF CopiesOK, AgentInv, CountOK
    <2>2. Cardinality(Makers(s)') <= Cardinality(Makers(s)) /\ Cardinality(Makers(s)') \in Nat
      BY <2>1, TurnedMakers, FS_Subset, FS_CardinalityType
    <2>3. CASE UNCHANGED queue /\ UNCHANGED redelivered
      <3>1. Copies(s)' = Copies(s)  BY <2>3 DEF Copies
      <3>2. QED BY <2>1, <2>2, <2>3, <3>1 DEF Sources
    <2>4. ASSUME NEW k \in 0..MaxRetries, queue' = Queued(r, k, 1)
          PROVE  Cardinality(Copies(s)') =
                    IF s = r THEN Cardinality(Copies(s)) + 1 ELSE Cardinality(Copies(s))
      <3>1. /\ Copies(r)' = Copies(r) \cup {<<k, queue[r][k] + 1>>}
            /\ <<k, queue[r][k] + 1>> \notin Copies(r)
            /\ \A x \in Requests \ {r} : Copies(x)' = Copies(x)
        BY <1>2, <2>4, CopyAdded DEF AgentInv
      <3>2. CASE s = r  BY <2>1, <3>1, <3>2, FS_AddElement
      <3>3. CASE s # r  BY <3>1, <3>3
      <3>4. QED BY <3>2, <3>3
    <2>5. CASE PutsBack(h, l)
      <3>1. /\ queue' = Queued(r, handling[h].retry, 1)
            /\ redelivered' = [redelivered EXCEPT ![r] = @ + 1]
        BY <1>1, <2>5 DEF PutsBack
      <3>2. redelivered'[s] = IF s = r THEN redelivered[s] + 1 ELSE redelivered[s]
        BY <1>2, <3>1 DEF CopiesOK
      <3>3. Cardinality(Copies(s)') =
                    IF s = r THEN Cardinality(Copies(s)) + 1 ELSE Cardinality(Copies(s))
        BY <1>2, <2>4, <3>1
      <3>4. QED BY <2>1, <2>2, <3>2, <3>3 DEF Sources
    <2>6. CASE PassesOn(h, l)
      <3>1. /\ queue' = Queued(r, handling[h].retry + 1, 1) /\ UNCHANGED redelivered
            /\ handling[h].retry + 1 \in 0..MaxRetries
            /\ handling[h].at \in Unasked /\ l.at = "ack"
        BY <1>1, <2>6 DEF PassesOn
      <3>2. Cardinality(Copies(s)') =
                    IF s = r THEN Cardinality(Copies(s)) + 1 ELSE Cardinality(Copies(s))
        BY <2>4, <3>1
      <3>3. CASE s = r
        <4>1. h \in Makers(r)  BY <1>1, <3>1 DEF Makers
        <4>2. handling'[h].at = "ack"  BY <3>1 DEF HandlerStep, Turned
        <4>3. ~HasAsked(h)  BY <3>1 DEF CountOK
        <4>4. ~HasAsked(h)'  BY <4>2, <4>3, HasAskedEvolves
        <4>5. h \notin Makers(r)'  BY <4>2, <4>4 DEF Makers, Unasked
        <4>6. Makers(r)' \subseteq Makers(r) \ {h}  BY <1>2, <4>5, TurnedMakers
        <4>7. /\ IsFiniteSet(Makers(r) \ {h})
              /\ Cardinality(Makers(r) \ {h}) = Cardinality(Makers(r)) - 1
          BY <2>1, <3>3, <4>1, FS_RemoveElement
        <4>8. Cardinality(Makers(r)') <= Cardinality(Makers(r)) - 1
          BY <4>6, <4>7, FS_Subset
        <4>9. QED BY <2>1, <2>2, <3>1, <3>2, <3>3, <4>8 DEF Sources
      <3>4. CASE s # r  BY <2>1, <2>2, <3>1, <3>2, <3>4 DEF Sources
      <3>5. QED BY <3>3, <3>4
    <2>7. QED BY <2>3, <2>5, <2>6 DEF HandlerStep, Works, GivesAnswer, Acks, Drops
  <1>4. QED BY <1>3

LEMMA SourcesTakenBack ==
    ASSUME AgentInv, TruthOK, CopiesOK, CountOK, [Next]_vars, TakesBack
    PROVE  \A s \in Requests : Sources(s)' <= 1 + redelivered'[s]
  <1>1. /\ DOMAIN handling' = DOMAIN handling
        /\ \A h \in DOMAIN handling :
              \/ handling'[h] = handling[h]
              \/ handling'[h].req = handling[h].req /\ handling'[h].at = "over"
    BY DEF TakesBack, NewHandling
  <1>2. "over" \notin Unasked  BY DEF Unasked
  <1>3. TAKE s \in Requests
  <1>4. /\ redelivered[s] \in Nat
        /\ IsFiniteSet(Makers(s)) /\ Cardinality(Makers(s)) \in Nat
        /\ IsFiniteSet(Copies(s)) /\ Cardinality(Copies(s)) \in Nat
        /\ Cardinality(Makers(s)) + Cardinality(Copies(s)) <= 1 + redelivered[s]
    BY MakersFinite, FS_CardinalityType DEF CopiesOK, AgentInv, CountOK
  <1>5. Makers(s)' \subseteq Makers(s)  BY <1>1, <1>2, MakersStay
  <1>6. Cardinality(Makers(s)') <= Cardinality(Makers(s)) /\ Cardinality(Makers(s)') \in Nat
    BY <1>4, <1>5, FS_Subset, FS_CardinalityType
  <1>7. PICK new : /\ Copies(s)' = Copies(s) \cup new /\ IsFiniteSet(new)
                   /\ Copies(s) \cap new = {}
                   /\ Cardinality(new) <= HeldOf(s) /\ HeldOf(s) \in Nat
    BY <1>4, CopiesBack DEF AgentInv, TakesBack
  <1>8. Cardinality(Copies(s)') = Cardinality(Copies(s)) + Cardinality(new)
        /\ Cardinality(new) \in Nat
    <2>1. Cardinality(Copies(s) \cap new) = 0  BY <1>7, FS_EmptySet
    <2>2. Cardinality(new) \in Nat  BY <1>7, FS_CardinalityType
    <2>3. Cardinality(Copies(s) \cup new) =
             Cardinality(Copies(s)) + Cardinality(new) - Cardinality(Copies(s) \cap new)
      BY <1>4, <1>7, FS_Union
    <2>4. QED BY <1>4, <1>7, <2>1, <2>2, <2>3
  <1>9. redelivered'[s] = redelivered[s] + HeldOf(s)  BY DEF TakesBack, TakenBack
  <1>10. QED BY <1>4, <1>6, <1>7, <1>8, <1>9 DEF Sources

LEMMA CountStays ==
    ASSUME AgentInv, TruthOK, CopiesOK, CountOK, [Next]_vars
    PROVE  CountOK'
  <1>1. ASSUME NEW h \in DOMAIN handling', handling'[h].at \in Unasked, HasAsked(h)'
        PROVE  FALSE
    <2>1. HasAsked(h)
      BY <1>1, HasAskedEvolves DEF Unasked
    <2>2. h \in DOMAIN handling  BY <2>1, AskersHandle
    <2>3. ASSUME handling[h].at \in Unasked PROVE FALSE
      BY <2>1, <2>2, <2>3 DEF CountOK
    <2>4. CASE handling'[h] = handling[h]  BY <1>1, <2>3, <2>4
    <2>5. ASSUME NEW l, HandlerStep(h, l), handling'[h] = l
          PROVE  FALSE
      BY <1>1, <2>3, <2>5 DEF HandlerStep, Works, PassesOn, PutsBack, GivesAnswer, Acks, Drops, Unasked
    <2>6. CASE \E r \in Requests, k \in 0..MaxRetries : \E n : Takes(r, k, n)
      BY <2>2, <2>4, <2>6 DEF Takes
    <2>7. CASE \E g \in DOMAIN handling : \E l : HandlerStep(g, l)
      <3>1. PICK g \in DOMAIN handling, l \in LocalRec : HandlerStep(g, l)
        BY <2>7 DEF HandlerStep, Turned
      <3>2. CASE g = h  BY <2>5, <2>2, <3>1, <3>2 DEF HandlerStep, Turned
      <3>3. CASE g # h  BY <2>2, <2>4, <3>1, <3>3 DEF HandlerStep, Turned
      <3>4. QED BY <3>2, <3>3
    <2>8. CASE TakesBack
      <3>1. handling'[h] = handling[h] \/ handling'[h].at = "over"
        BY <2>2, <2>8 DEF TakesBack, NewHandling
      <3>2. QED BY <1>1, <2>4, <3>1 DEF Unasked
    <2>9. CASE UNCHANGED handling  BY <2>4, <2>9
    <2>10. QED BY <2>6, <2>7, <2>8, <2>9, StepKinds DEF Rests, Asks
  <1>2. ASSUME NEW id \in DOMAIN offers' PROVE id = <<id[1], "create">>
    <2>1. CASE id \in DOMAIN offers  BY <2>1 DEF CountOK
    <2>2. ASSUME NEW q \in Backlog, offers' \in Effects(q), id \notin DOMAIN offers
          PROVE  id = <<q.id[1], "create">>
      <3>1. q \in RequestRec /\ Shaped(q)  BY BacklogTyped DEF TruthOK
      <3>2. DOMAIN offers' \subseteq DOMAIN offers \cup {<<q.id[1], "create">>}
        BY <2>2, <3>1, EffectsAreNews DEF AgentInv
      <3>3. QED BY <2>2, <3>2
    <2>3. \/ id \in DOMAIN offers
          \/ \E q \in Backlog : id = <<q.id[1], "create">>
      BY <2>2, OffersEvolve
    <2>4. QED BY <2>1, <2>3
  <1>3. \A s \in Requests : Sources(s)' <= 1 + redelivered'[s]
    <2>1. CASE Rests
      <3>1. TAKE s \in Requests
      <3>2. UNCHANGED <<queue, handling, redelivered>>  BY <2>1 DEF Rests
      <3>3. Makers(s)' \subseteq Makers(s)  BY <3>2, MakersStay
      <3>4. IsFiniteSet(Makers(s)) /\ Cardinality(Makers(s)) \in Nat
        BY MakersFinite DEF AgentInv
      <3>5. Cardinality(Makers(s)') <= Cardinality(Makers(s)) /\ Cardinality(Makers(s)') \in Nat
        BY <3>3, <3>4, FS_Subset, FS_CardinalityType
      <3>6. Copies(s)' = Copies(s) /\ Cardinality(Copies(s)) \in Nat /\ redelivered[s] \in Nat
        BY <3>2, FS_CardinalityType DEF CopiesOK, Copies
      <3>7. QED BY <3>2, <3>4, <3>5, <3>6 DEF Sources, CountOK
    <2>2. QED BY <2>1, StepKinds, SourcesOfAsked, SourcesOfTaken, SourcesOfHandled,
                 SourcesTakenBack
  <1>4. QED BY <1>1, <1>2, <1>3 DEF CountOK, Sources

LEMMA CountAlways == Spec => []CountOK
  <1>1. Init => CountOK
    <2> SUFFICES ASSUME Init PROVE CountOK
      OBVIOUS
    <2>1. AgentInv /\ DOMAIN handling = {} /\ DOMAIN offers = {}
      BY InitInv DEF Init, RpcInit
    <2>2. \A r \in Requests : Copies(r) = {} /\ Makers(r) = {} /\ redelivered[r] = 0
      BY <2>1, UnaskedIsNowhere DEF Init, Makers
    <2>3. Cardinality({}) + Cardinality({}) <= 1 + 0  BY FS_EmptySet
    <2>4. QED BY <2>1, <2>2, <2>3 DEF CountOK
  <1>2. QED BY <1>1, CountStays, Always, TruthAlways, CopiesAlways, PTL DEF Spec

(* A retry never duplicates an offer.  However often the language model or *)
(* the backend fails, a request makes one offer, and one more at most for  *)
(* each time the broker had to deliver it again: only a handler that has   *)
(* not asked for the offer yet passes the request on                       *)
(* (app/broker/consumer.py, app/graphs/offer_graph.py).                    *)
THEOREM RetriesMakeNoOffers == Spec => []OneOfferPerDelivery
  <1>1. AgentInv /\ TruthOK /\ CopiesOK /\ CountOK => OneOfferPerDelivery
    <2> SUFFICES ASSUME AgentInv, TruthOK, CopiesOK, CountOK, NEW r \in Requests
                 PROVE  Cardinality(OffersOf(r)) <= 1 + redelivered[r]
      BY DEF OneOfferPerDelivery
    <2> DEFINE f == [id \in OffersOf(r) |-> id[1]]
    <2>1. ASSUME NEW id \in OffersOf(r)
          PROVE  id = <<id[1], "create">> /\ id[1] \in Makers(r)
      <3>1. id \in DOMAIN offers /\ handling[id[1]].req = r  BY DEF OffersOf
      <3>2. id = <<id[1], "create">>  BY <3>1 DEF CountOK
      <3>3. HasAsked(id[1])  BY <3>1, <3>2 DEF HasAsked
      <3>4. QED BY <3>1, <3>2, <3>3, AskersHandle DEF Makers
    <2>2. f \in [OffersOf(r) -> Makers(r)]  BY <2>1
    <2>3. ASSUME NEW x \in OffersOf(r), NEW y \in OffersOf(r), f[x] = f[y]
          PROVE  x = y
      BY <2>1, <2>3
    <2>4. f \in Injection(OffersOf(r), Makers(r))
      BY <2>2, <2>3 DEF Injection, IsInjective
    <2> HIDE DEF f
    <2>5. IsFiniteSet(Makers(r)) /\ Cardinality(Makers(r)) \in Nat
      BY MakersFinite DEF AgentInv
    <2>6. IsFiniteSet(OffersOf(r)) /\ Cardinality(OffersOf(r)) <= Cardinality(Makers(r))
      BY <2>4, <2>5, FS_Injection
    <2>7. /\ Cardinality(OffersOf(r)) \in Nat /\ Cardinality(Copies(r)) \in Nat
          /\ redelivered[r] \in Nat
          /\ Cardinality(Makers(r)) + Cardinality(Copies(r)) <= 1 + redelivered[r]
      BY <2>6, FS_CardinalityType DEF CopiesOK, CountOK
    <2>8. QED BY <2>5, <2>6, <2>7
  <1>2. QED BY <1>1, Always, TruthAlways, CopiesAlways, CountAlways, PTL

---------------------------------------------------------------------------
(* Turns.  A queued copy with counter k may still be handled 1 +           *)
(* MaxRetries - k times, and a handler that has such a copy in hand may    *)
(* leave MaxRetries - k turns to others.                                   *)

HasInHand(h, r) ==
    h \in DOMAIN handling /\ handling[h].req = r /\ handling[h].at \in InHand

TurnsOf(copies) == {t \in copies \X (0..MaxRetries) : t[2] >= t[1][1]}

CopyTurns(r) == TurnsOf(Copies(r))

HandTurns(r) ==
    {t \in (DOMAIN handling) \X (0..MaxRetries) :
        HasInHand(t[1], r) /\ t[2] > handling[t[1]].retry}

Handled(r) == {h \in DOMAIN handling : handling[h].req = r}

Turns(r) == Cardinality(Handled(r)) + Cardinality(CopyTurns(r)) + Cardinality(HandTurns(r))

TurnsOK == \A r \in Requests : Turns(r) <= (1 + MaxRetries) * (1 + redelivered[r])

LEMMA Products ==
    /\ \A a, b, c \in Nat : a * (b + c) = a * b + a * c /\ a * b \in Nat
    /\ \A a, b, c \in Nat : a <= b => a * c <= b * c
    /\ \A a, b \in Nat : a <= a * (1 + b)
    /\ \A a, b \in Nat : a * b = b * a
  <1>1. \A a, b, c \in Nat : a * (b + c) = a * b + a * c /\ a * b \in Nat
    OBVIOUS
  <1>2. \A a, b \in Nat : a * b = b * a
    OBVIOUS
  <1>3. \A a, b, c \in Nat : a <= b => a * c <= b * c
    <2>1. TAKE a, b, c \in Nat
    <2>2. SUFFICES ASSUME a <= b PROVE a * c <= b * c
      OBVIOUS
    <2>3. PICK d \in Nat : b = a + d  BY <2>2, b - a \in Nat, b = a + (b - a)
    <2>4. b * c = a * c + d * c /\ d * c \in Nat /\ a * c \in Nat  BY <2>3
    <2>5. QED BY <2>4
  <1>4. \A a, b \in Nat : a <= a * (1 + b)
    <2>1. TAKE a, b \in Nat
    <2>2. a * (1 + b) = a + a * b /\ a * b \in Nat  OBVIOUS
    <2>3. QED BY <2>2
  <1>5. QED BY <1>1, <1>2, <1>3, <1>4

LEMMA TurnsFinite ==
    ASSUME NEW C, IsFiniteSet(C)
    PROVE  /\ IsFiniteSet(TurnsOf(C)) /\ Cardinality(TurnsOf(C)) \in Nat
           /\ Cardinality(TurnsOf(C)) <= (1 + MaxRetries) * Cardinality(C)
  <1>1. /\ IsFiniteSet(0..MaxRetries) /\ Cardinality(0..MaxRetries) = 1 + MaxRetries
        /\ MaxRetries \in Nat
    BY FS_Interval, ChatMessageAssumption
  <1>2. /\ IsFiniteSet(C \X (0..MaxRetries))
        /\ Cardinality(C \X (0..MaxRetries)) = Cardinality(C) * (1 + MaxRetries)
    BY <1>1, FS_Product
  <1>3. TurnsOf(C) \subseteq C \X (0..MaxRetries)  BY DEF TurnsOf
  <1>4. /\ IsFiniteSet(TurnsOf(C)) /\ Cardinality(TurnsOf(C)) \in Nat
        /\ Cardinality(TurnsOf(C)) <= Cardinality(C) * (1 + MaxRetries)
    BY <1>2, <1>3, FS_Subset, FS_CardinalityType
  <1>5. Cardinality(C) \in Nat  BY FS_CardinalityType
  <1>6. QED BY <1>1, <1>4, <1>5, Products

(* The union of two sets that have nothing in common.                      *)
LEMMA DisjointUnion ==
    ASSUME NEW A, NEW B, IsFiniteSet(A), IsFiniteSet(B), A \cap B = {}
    PROVE  /\ IsFiniteSet(A \cup B)
           /\ Cardinality(A \cup B) = Cardinality(A) + Cardinality(B)
           /\ Cardinality(A) \in Nat /\ Cardinality(B) \in Nat
  <1>1. Cardinality(A \cap B) = 0  BY FS_EmptySet
  <1>2. Cardinality(A) \in Nat /\ Cardinality(B) \in Nat  BY FS_CardinalityType
  <1>3. /\ IsFiniteSet(A \cup B)
        /\ Cardinality(A \cup B) = Cardinality(A) + Cardinality(B) - Cardinality(A \cap B)
    BY FS_Union
  <1>4. QED BY <1>1, <1>2, <1>3

LEMMA RowOfTurns ==
    ASSUME NEW x, NEW k \in 0..(1 + MaxRetries)
    PROVE  /\ IsFiniteSet({x} \X (k..MaxRetries))
           /\ Cardinality({x} \X (k..MaxRetries)) = 1 + MaxRetries - k
           /\ k \in Nat /\ MaxRetries \in Nat
  <1>1. MaxRetries \in Nat /\ k \in Nat /\ k <= 1 + MaxRetries  BY ChatMessageAssumption
  <1>2. /\ IsFiniteSet(k..MaxRetries)
        /\ Cardinality(k..MaxRetries) = IF k > MaxRetries THEN 0 ELSE MaxRetries - k + 1
    BY <1>1, FS_Interval
  <1>3. Cardinality(k..MaxRetries) = 1 + MaxRetries - k  BY <1>1, <1>2
  <1>4. IsFiniteSet({x}) /\ Cardinality({x}) = 1  BY FS_Singleton
  <1>5. /\ IsFiniteSet({x} \X (k..MaxRetries))
        /\ Cardinality({x} \X (k..MaxRetries)) = 1 * (1 + MaxRetries - k)
    <2>1. PICK S, T : S = {x} /\ T = k..MaxRetries  OBVIOUS
    <2>2. /\ IsFiniteSet(S) /\ Cardinality(S) = 1
          /\ IsFiniteSet(T) /\ Cardinality(T) = 1 + MaxRetries - k
      BY <1>2, <1>3, <1>4, <2>1
    <2>3. IsFiniteSet(S \X T) /\ Cardinality(S \X T) = Cardinality(S) * Cardinality(T)
      BY <2>2, FS_Product
    <2>4. QED BY <2>1, <2>2, <2>3
  <1>6. 1 * (1 + MaxRetries - k) = 1 + MaxRetries - k  BY <1>1
  <1>7. QED BY <1>1, <1>5, <1>6

LEMMA TurnsOfOneMore ==
    ASSUME NEW C, IsFiniteSet(C), NEW k \in 0..MaxRetries, NEW n, <<k, n>> \notin C
    PROVE  Cardinality(TurnsOf(C \cup {<<k, n>>})) = Cardinality(TurnsOf(C)) + (1 + MaxRetries - k)
  <1> DEFINE row == {<<k, n>>} \X (k..MaxRetries)
  <1>1. MaxRetries \in Nat /\ k \in 0..(1 + MaxRetries)  BY ChatMessageAssumption
  <1>2. IsFiniteSet(row) /\ Cardinality(row) = 1 + MaxRetries - k
    BY <1>1, RowOfTurns
  <1>3. TurnsOf({<<k, n>>}) = row
    <2>1. ASSUME NEW t PROVE t \in TurnsOf({<<k, n>>}) <=> t \in row
      <3>1. ASSUME t \in TurnsOf({<<k, n>>}) PROVE t \in row
        <4>1. PICK i \in 0..MaxRetries : t = <<<<k, n>>, i>> /\ t[2] >= t[1][1]
          BY <3>1 DEF TurnsOf
        <4>2. i \in k..MaxRetries  BY <1>1, <4>1
        <4>3. QED BY <4>1, <4>2
      <3>2. ASSUME t \in row PROVE t \in TurnsOf({<<k, n>>})
        <4>1. PICK i \in k..MaxRetries : t = <<<<k, n>>, i>>
          BY <3>2
        <4>2. i \in 0..MaxRetries /\ i >= k  BY <1>1
        <4>3. QED BY <4>1, <4>2 DEF TurnsOf
      <3>3. QED BY <3>1, <3>2
    <2>2. QED BY <2>1
  <1>4. TurnsOf(C \cup {<<k, n>>}) = TurnsOf(C) \cup TurnsOf({<<k, n>>})
    BY DEF TurnsOf
  <1>5. TurnsOf(C) \cap TurnsOf({<<k, n>>}) = {}
    BY DEF TurnsOf
  <1>6. QED BY <1>2, <1>3, <1>4, <1>5, TurnsFinite, DisjointUnion

LEMMA HandsFinite ==
    ASSUME HandlingOK, NEW r
    PROVE  /\ IsFiniteSet(HandTurns(r)) /\ Cardinality(HandTurns(r)) \in Nat
           /\ IsFiniteSet(Handled(r)) /\ Cardinality(Handled(r)) \in Nat
  <1>1. DOMAIN handling = 1..Len(handling) /\ Len(handling) \in Nat
    BY HandlingTyped
  <1>2. IsFiniteSet(DOMAIN handling)  BY <1>1, FS_Interval
  <1>3. IsFiniteSet(0..MaxRetries)  BY FS_Interval, ChatMessageAssumption
  <1>4. IsFiniteSet((DOMAIN handling) \X (0..MaxRetries))  BY <1>2, <1>3, FS_Product
  <1>5. /\ HandTurns(r) \subseteq (DOMAIN handling) \X (0..MaxRetries)
        /\ Handled(r) \subseteq DOMAIN handling
    BY DEF HandTurns, Handled
  <1>6. QED BY <1>2, <1>4, <1>5, FS_Subset, FS_CardinalityType

LEMMA TurnsTyped ==
    ASSUME AgentInv, CopiesOK, TurnsOK, NEW r \in Requests
    PROVE  /\ IsFiniteSet(Copies(r))
           /\ IsFiniteSet(HandTurns(r)) /\ Cardinality(HandTurns(r)) \in Nat
           /\ IsFiniteSet(Handled(r)) /\ Cardinality(Handled(r)) \in Nat
           /\ IsFiniteSet(CopyTurns(r)) /\ Cardinality(CopyTurns(r)) \in Nat
           /\ redelivered[r] \in Nat /\ MaxRetries \in Nat
           /\ (1 + MaxRetries) * (1 + redelivered[r]) \in Nat
           /\ Cardinality(Handled(r)) + Cardinality(CopyTurns(r)) + Cardinality(HandTurns(r))
                 <= (1 + MaxRetries) * (1 + redelivered[r])
  <1>1. IsFiniteSet(Copies(r)) /\ redelivered[r] \in Nat /\ MaxRetries \in Nat
    BY ChatMessageAssumption DEF CopiesOK
  <1>2. (1 + MaxRetries) * (1 + redelivered[r]) \in Nat  BY <1>1
  <1>3. QED BY <1>1, <1>2, HandsFinite, TurnsFinite DEF AgentInv, TurnsOK, Turns, CopyTurns

(* A handler's step leaves the handlings what they are of; and no handler  *)
(* gets in hand what it had not.                                           *)
LEMMA HandsEmpty ==
    ASSUME NEW r, DOMAIN handling' = DOMAIN handling,
           \A h \in DOMAIN handling :
              /\ handling'[h].req = handling[h].req
              /\ handling'[h].at \in InHand => /\ handling[h].at \in InHand
                                               /\ handling'[h].retry = handling[h].retry
    PROVE  Handled(r)' = Handled(r) /\ HandTurns(r)' \subseteq HandTurns(r)
  <1>1. Handled(r)' = Handled(r)  BY DEF Handled
  <1>2. ASSUME NEW t \in HandTurns(r)' PROVE t \in HandTurns(r)
    <2>1. PICK h \in DOMAIN handling', i \in 0..MaxRetries :
             /\ t = <<h, i>> /\ handling'[h].req = r /\ handling'[h].at \in InHand
             /\ i > handling'[h].retry
      BY DEF HandTurns, HasInHand
    <2>2. QED BY <2>1 DEF HandTurns, HasInHand
  <1>3. QED BY <1>1, <1>2

LEMMA TurnedHands ==
    ASSUME NEW h \in DOMAIN handling, NEW l, HandlerStep(h, l), NEW r
    PROVE  Handled(r)' = Handled(r) /\ HandTurns(r)' \subseteq HandTurns(r)
  <1>1. /\ DOMAIN handling' = DOMAIN handling
        /\ l.req = handling[h].req /\ l.retry = handling[h].retry
        /\ \A g \in DOMAIN handling : handling'[g] = IF g = h THEN l ELSE handling[g]
    BY DEF HandlerStep, Turned
  <1>2. l.at \in InHand => handling[h].at \in InHand
    BY DEF HandlerStep, Works, PassesOn, PutsBack, GivesAnswer, Acks, Drops, InHand
  <1>3. \A g \in DOMAIN handling :
              /\ handling'[g].req = handling[g].req
              /\ handling'[g].at \in InHand => /\ handling[g].at \in InHand
                                               /\ handling'[g].retry = handling[g].retry
    <2>1. TAKE g \in DOMAIN handling
    <2>2. CASE g = h  BY <1>1, <1>2, <2>2
    <2>3. CASE g # h  BY <1>1, <2>3
    <2>4. QED BY <2>2, <2>3
  <1>4. QED BY <1>1, <1>3, HandsEmpty

LEMMA FewerHands ==
    ASSUME AgentInv, CopiesOK, TurnsOK, NEW r \in Requests, HandTurns(r)' \subseteq HandTurns(r)
    PROVE  Cardinality(HandTurns(r)') \in Nat
           /\ Cardinality(HandTurns(r)') <= Cardinality(HandTurns(r))
  BY TurnsTyped, FS_Subset, FS_CardinalityType

LEMMA CopyTurnsOf ==
    ASSUME NEW r
    PROVE  /\ CopyTurns(r) = TurnsOf(Copies(r))
           /\ \A D : Copies(r)' = D => CopyTurns(r)' = TurnsOf(D)
  BY DEF CopyTurns, TurnsOf

LEMMA TurnsAdded ==
    ASSUME AgentInv, CopiesOK, NEW r \in Requests, NEW k \in 0..MaxRetries,
           queue' = Queued(r, k, 1)
    PROVE  /\ Cardinality(CopyTurns(r)') = Cardinality(CopyTurns(r)) + (1 + MaxRetries - k)
           /\ \A s \in Requests \ {r} : CopyTurns(s)' = CopyTurns(s)
  <1>1. PICK C, n : C = Copies(r) /\ n = queue[r][k] + 1  OBVIOUS
  <1>2. Copies(r)' = C \cup {<<k, n>>} /\ <<k, n>> \notin C /\ IsFiniteSet(C)
    BY <1>1, CopyAdded DEF AgentInv, CopiesOK
  <1>3. CopyTurns(r) = TurnsOf(C) /\ CopyTurns(r)' = TurnsOf(C \cup {<<k, n>>})
    BY <1>1, <1>2, CopyTurnsOf
  <1>4. Cardinality(TurnsOf(C \cup {<<k, n>>})) = Cardinality(TurnsOf(C)) + (1 + MaxRetries - k)
    BY <1>2, TurnsOfOneMore
  <1>5. \A s \in Requests \ {r} : CopyTurns(s)' = CopyTurns(s)
    <2>1. TAKE s \in Requests \ {r}
    <2>2. Copies(s)' = Copies(s)  BY CopyAdded DEF AgentInv
    <2>3. QED BY <2>2, CopyTurnsOf
  <1>6. QED BY <1>3, <1>4, <1>5

LEMMA TurnsTaken ==
    ASSUME AgentInv, CopiesOK, NEW r \in Requests, NEW k \in 0..MaxRetries,
           queue[r][k] > 0, queue' = Queued(r, k, 0 - 1)
    PROVE  /\ Cardinality(CopyTurns(r)) = Cardinality(CopyTurns(r)') + (1 + MaxRetries - k)
           /\ Cardinality(CopyTurns(r)') \in Nat
           /\ \A s \in Requests \ {r} : CopyTurns(s)' = CopyTurns(s)
  <1>1. PICK C, D, n : C = Copies(r) /\ D = C \ {<<k, n>>} /\ n = queue[r][k]  OBVIOUS
  <1>2. Copies(r)' = D /\ <<k, n>> \in C /\ IsFiniteSet(C)
    BY <1>1, CopyTaken DEF AgentInv, CopiesOK
  <1>3. IsFiniteSet(D) /\ <<k, n>> \notin D /\ C = D \cup {<<k, n>>}
    BY <1>1, <1>2, FS_Subset
  <1>4. CopyTurns(r) = TurnsOf(D \cup {<<k, n>>}) /\ CopyTurns(r)' = TurnsOf(D)
    BY <1>1, <1>2, <1>3, CopyTurnsOf
  <1>5. Cardinality(TurnsOf(D \cup {<<k, n>>})) = Cardinality(TurnsOf(D)) + (1 + MaxRetries - k)
    BY <1>3, TurnsOfOneMore
  <1>6. Cardinality(TurnsOf(D)) \in Nat  BY <1>3, TurnsFinite
  <1>7. \A s \in Requests \ {r} : CopyTurns(s)' = CopyTurns(s)
    <2>1. TAKE s \in Requests \ {r}
    <2>2. Copies(s)' = Copies(s)  BY CopyTaken DEF AgentInv
    <2>3. QED BY <2>2, CopyTurnsOf
  <1>8. QED BY <1>4, <1>5, <1>6, <1>7

(* The bound, from the three parts of the sum.                             *)
LEMMA TurnsBound ==
    ASSUME NEW s \in Requests, redelivered'[s] \in Nat,
           Cardinality(Handled(s)') + Cardinality(CopyTurns(s)') + Cardinality(HandTurns(s)')
              <= (1 + MaxRetries) * (1 + redelivered'[s])
    PROVE  Turns(s)' <= (1 + MaxRetries) * (1 + redelivered'[s])
  BY DEF Turns

LEMMA TurnsOfAsked ==
    ASSUME AgentInv, CopiesOK, TurnsOK, NEW r \in Requests, Asks(r)
    PROVE  \A s \in Requests : Turns(s)' <= (1 + MaxRetries) * (1 + redelivered'[s])
  <1>1. /\ asked[r] = None /\ queue' = Queued(r, 0, 1) /\ UNCHANGED <<handling, redelivered>>
        /\ 0 \in 0..MaxRetries
    BY ChatMessageAssumption DEF Asks
  <1>2. \A s \in Requests : Handled(s)' = Handled(s) /\ HandTurns(s)' = HandTurns(s)
    BY <1>1 DEF Handled, HandTurns, HasInHand
  <1>3. TAKE s \in Requests
  <1>4. CASE s = r
    <2>1. Copies(r) = {} /\ Handled(r) = {} /\ HandTurns(r) = {}
      BY <1>1, UnaskedIsNowhere DEF Handled, HandTurns, HasInHand
    <2>2. CopyTurns(r) = {}  BY <2>1 DEF CopyTurns, TurnsOf
    <2>3. Cardinality({}) = 0  BY FS_EmptySet
    <2>4. Cardinality(CopyTurns(r)') = 0 + (1 + MaxRetries - 0)
      BY <1>1, <2>2, <2>3, TurnsAdded
    <2>5. Cardinality(Handled(r)') = 0 /\ Cardinality(HandTurns(r)') = 0
      BY <1>2, <2>1, <2>3
    <2>6. redelivered[r] \in Nat /\ MaxRetries \in Nat
      BY TurnsTyped
    <2>7. 1 + MaxRetries <= (1 + MaxRetries) * (1 + redelivered[r])
      BY <2>6, Products
    <2>8. QED BY <1>1, <1>4, <2>4, <2>5, <2>6, <2>7, TurnsBound
  <1>5. CASE s # r
    <2>1. CopyTurns(s)' = CopyTurns(s)  BY <1>1, <1>5, TurnsAdded
    <2>2. QED BY <1>1, <1>2, <2>1, TurnsTyped, TurnsBound
  <1>6. QED BY <1>4, <1>5

LEMMA HandTaken ==
    ASSUME AgentInv, NEW r \in Requests, NEW k \in 0..MaxRetries, NEW n, Takes(r, k, n),
           NEW s \in Requests
    PROVE  /\ Handled(s)' = IF s = r THEN Handled(s) \cup {n} ELSE Handled(s)
           /\ n \notin Handled(s)
           /\ HandTurns(s)' \subseteq
                 IF s = r THEN HandTurns(s) \cup ({n} \X ((k + 1)..MaxRetries)) ELSE HandTurns(s)
  <1>1. /\ n \notin DOMAIN handling /\ DOMAIN handling' = DOMAIN handling \cup {n}
        /\ \A g \in DOMAIN handling : handling'[g] = handling[g]
        /\ handling'[n].req = r /\ handling'[n].retry = k
    BY DEF Takes
  <1>2. Handled(s)' = IF s = r THEN Handled(s) \cup {n} ELSE Handled(s)
    BY <1>1 DEF Handled
  <1>3. n \notin Handled(s)  BY <1>1 DEF Handled
  <1>4. ASSUME NEW t \in HandTurns(s)'
        PROVE  t \in IF s = r THEN HandTurns(s) \cup ({n} \X ((k + 1)..MaxRetries))
                              ELSE HandTurns(s)
    <2>1. PICK h \in DOMAIN handling', i \in 0..MaxRetries :
             /\ t = <<h, i>> /\ handling'[h].req = s /\ handling'[h].at \in InHand
             /\ i > handling'[h].retry
      BY DEF HandTurns, HasInHand
    <2>2. CASE h = n
      <3>1. s = r /\ i > k /\ i \in (k + 1)..MaxRetries
        BY <1>1, <2>1, <2>2, ChatMessageAssumption
      <3>2. QED BY <2>1, <2>2, <3>1
    <2>3. CASE h # n
      <3>1. h \in DOMAIN handling /\ handling'[h] = handling[h]  BY <1>1, <2>3
      <3>2. t \in HandTurns(s)  BY <2>1, <3>1 DEF HandTurns, HasInHand
      <3>3. QED BY <3>2
    <2>4. QED BY <2>2, <2>3
  <1>5. QED BY <1>2, <1>3, <1>4

LEMMA TurnsOfTaken ==
    ASSUME AgentInv, CopiesOK, TurnsOK, NEW r \in Requests, NEW k \in 0..MaxRetries,
           NEW n, Takes(r, k, n)
    PROVE  \A s \in Requests : Turns(s)' <= (1 + MaxRetries) * (1 + redelivered'[s])
  <1>1. queue[r][k] > 0 /\ queue' = Queued(r, k, 0 - 1) /\ UNCHANGED redelivered
    BY DEF Takes
  <1>2. TAKE s \in Requests
  <1>3. /\ IsFiniteSet(HandTurns(s)) /\ Cardinality(HandTurns(s)) \in Nat
        /\ IsFiniteSet(Handled(s)) /\ Cardinality(Handled(s)) \in Nat
        /\ Cardinality(CopyTurns(s)) \in Nat
        /\ redelivered'[s] \in Nat /\ MaxRetries \in Nat
        /\ (1 + MaxRetries) * (1 + redelivered'[s]) \in Nat
        /\ Cardinality(Handled(s)) + Cardinality(CopyTurns(s)) + Cardinality(HandTurns(s))
              <= (1 + MaxRetries) * (1 + redelivered'[s])
    BY <1>1, TurnsTyped
  <1>4. CASE s = r
    <2>1. Cardinality(Handled(r)') = Cardinality(Handled(r)) + 1
      <3>1. PICK S : S = Handled(r)  OBVIOUS
      <3>2. n \notin S /\ Handled(r)' = S \cup {n} /\ IsFiniteSet(S)
        BY <1>3, <1>4, <3>1, HandTaken
      <3>3. Cardinality(S \cup {n}) = Cardinality(S) + 1  BY <3>2, FS_AddElement
      <3>4. QED BY <3>1, <3>2, <3>3
    <2>2. /\ Cardinality(HandTurns(r)') \in Nat
          /\ Cardinality(HandTurns(r)') <= Cardinality(HandTurns(r)) + (MaxRetries - k)
      <3>1. PICK S, T : S = HandTurns(r) /\ T = {n} \X ((k + 1)..MaxRetries)  OBVIOUS
      <3>2. k + 1 \in 0..(1 + MaxRetries) /\ 1 + MaxRetries - (k + 1) = MaxRetries - k
            /\ MaxRetries - k \in Nat
        BY <1>3
      <3>3. IsFiniteSet(T) /\ Cardinality(T) = MaxRetries - k
        BY <3>1, <3>2, RowOfTurns
      <3>4. IsFiniteSet(S) /\ Cardinality(S) \in Nat  BY <1>3, <1>4, <3>1
      <3>5. /\ IsFiniteSet(S \cup T) /\ Cardinality(S \cap T) \in Nat
            /\ Cardinality(S \cup T) = Cardinality(S) + Cardinality(T) - Cardinality(S \cap T)
        <4>1. IsFiniteSet(S \cap T)  BY <3>4, FS_Subset
        <4>2. QED BY <3>3, <3>4, <4>1, FS_Union, FS_CardinalityType
      <3>6. HandTurns(r)' \subseteq S \cup T  BY <1>4, <3>1, HandTaken
      <3>7. /\ Cardinality(HandTurns(r)') <= Cardinality(S \cup T)
            /\ Cardinality(HandTurns(r)') \in Nat /\ Cardinality(S \cup T) \in Nat
        BY <3>5, <3>6, FS_Subset, FS_CardinalityType
      <3>8. QED BY <3>1, <3>2, <3>3, <3>4, <3>5, <3>7
    <2>3. /\ Cardinality(CopyTurns(r)) = Cardinality(CopyTurns(r)') + (1 + MaxRetries - k)
          /\ Cardinality(CopyTurns(r)') \in Nat
      BY <1>1, TurnsTaken
    <2>4. Cardinality(Handled(r)') + Cardinality(CopyTurns(r)') + Cardinality(HandTurns(r)')
              <= (1 + MaxRetries) * (1 + redelivered'[r])
      BY <1>3, <1>4, <2>1, <2>2, <2>3
    <2>5. QED BY <1>3, <1>4, <2>4, TurnsBound
  <1>5. CASE s # r
    <2>1. CopyTurns(s)' = CopyTurns(s)  BY <1>1, <1>5, TurnsTaken
    <2>2. Handled(s)' = Handled(s) /\ HandTurns(s)' \subseteq HandTurns(s)
      BY <1>5, HandTaken
    <2>3. Cardinality(HandTurns(s)') \in Nat
          /\ Cardinality(HandTurns(s)') <= Cardinality(HandTurns(s))
      BY <2>2, FewerHands
    <2>4. QED BY <1>3, <2>1, <2>2, <2>3, TurnsBound
  <1>6. QED BY <1>4, <1>5

(* Who passes a request on, or puts it back, has no more turns to leave.   *)
LEMMA HandReleased ==
    ASSUME AgentInv, CopiesOK, TurnsOK, NEW h \in DOMAIN handling, NEW l,
           HandlerStep(h, l), handling[h].at \in InHand, l.at \notin InHand,
           NEW r, r = handling[h].req, NEW k, k = handling[h].retry
    PROVE  /\ Cardinality(HandTurns(r)') \in Nat
           /\ Cardinality(HandTurns(r)') + (MaxRetries - k) <= Cardinality(HandTurns(r))
  <1>1. PICK row : row = {h} \X ((k + 1)..MaxRetries)
    OBVIOUS
  <1>2. r \in Requests /\ k \in 0..MaxRetries /\ MaxRetries \in Nat
    BY <1>1, ReqTyped, ChatMessageAssumption DEF AgentInv
  <1>3. IsFiniteSet(row) /\ Cardinality(row) = MaxRetries - k
    <2>1. k + 1 \in 0..(1 + MaxRetries) /\ 1 + MaxRetries - (k + 1) = MaxRetries - k
      BY <1>2
    <2>2. QED BY <1>1, <2>1, RowOfTurns
  <1>4. row \subseteq HandTurns(r)
    <2>1. ASSUME NEW t \in row PROVE t \in HandTurns(r)
      <3>1. PICK i \in (k + 1)..MaxRetries : t = <<h, i>>  BY <1>1
      <3>2. i \in 0..MaxRetries /\ i > k  BY <1>2
      <3>3. QED BY <1>1, <3>1, <3>2 DEF HandTurns, HasInHand
    <2>2. QED BY <2>1
  <1>5. handling'[h].at \notin InHand  BY DEF HandlerStep, Turned
  <1>6. ASSUME NEW t \in HandTurns(r)' PROVE t \in HandTurns(r) /\ t \notin row
    <2>1. t \in HandTurns(r)  BY <1>2, TurnedHands
    <2>2. t[1] # h  BY <1>5 DEF HandTurns, HasInHand
    <2>3. QED BY <1>1, <2>1, <2>2
  <1>7. PICK S : S = HandTurns(r)  OBVIOUS
  <1>8. IsFiniteSet(S) /\ Cardinality(S) \in Nat  BY <1>2, <1>7, TurnsTyped
  <1>9. /\ IsFiniteSet(S \ row)
        /\ Cardinality(S \ row) = Cardinality(S) - Cardinality(row)
    <2>1. S \cap row = row  BY <1>4, <1>7
    <2>2. \A T : /\ IsFiniteSet(S \ T)
                 /\ Cardinality(S \ T) = Cardinality(S) - Cardinality(S \cap T)
      BY <1>8, FS_Difference
    <2>3. QED BY <2>1, <2>2
  <1>10. HandTurns(r)' \subseteq S \ row  BY <1>6, <1>7
  <1>11. /\ Cardinality(HandTurns(r)') <= Cardinality(S \ row)
         /\ Cardinality(HandTurns(r)') \in Nat
    BY <1>9, <1>10, FS_Subset, FS_CardinalityType
  <1>12. QED BY <1>2, <1>3, <1>7, <1>8, <1>9, <1>11

LEMMA TurnsOfHandled ==
    ASSUME AgentInv, CopiesOK, TurnsOK,
           NEW h \in DOMAIN handling, NEW l, HandlerStep(h, l)
    PROVE  \A s \in Requests : Turns(s)' <= (1 + MaxRetries) * (1 + redelivered'[s])
  <1>1. PICK r, k : r = handling[h].req /\ k = handling[h].retry  OBVIOUS
  <1>2. r \in Requests /\ k \in 0..MaxRetries
    BY <1>1, ReqTyped DEF AgentInv
  <1>3. TAKE s \in Requests
  <1>4. /\ Cardinality(HandTurns(s)) \in Nat /\ Cardinality(Handled(s)) \in Nat
        /\ Cardinality(CopyTurns(s)) \in Nat
        /\ redelivered[s] \in Nat /\ MaxRetries \in Nat
        /\ (1 + MaxRetries) * (1 + redelivered[s]) \in Nat
        /\ Cardinality(Handled(s)) + Cardinality(CopyTurns(s)) + Cardinality(HandTurns(s))
              <= (1 + MaxRetries) * (1 + redelivered[s])
    BY TurnsTyped
  <1>5. Handled(s)' = Handled(s) /\ HandTurns(s)' \subseteq HandTurns(s)
    BY TurnedHands
  <1>6. Cardinality(HandTurns(s)') \in Nat
        /\ Cardinality(HandTurns(s)') <= Cardinality(HandTurns(s))
    BY <1>5, FewerHands
  <1>7. CASE UNCHANGED <<queue, redelivered>>
    <2>1. Copies(s)' = Copies(s)  BY <1>7 DEF Copies
    <2>2. CopyTurns(s)' = CopyTurns(s)  BY <2>1, CopyTurnsOf
    <2>3. QED BY <1>4, <1>5, <1>6, <1>7, <2>2, TurnsBound
  <1>8. CASE PassesOn(h, l)
    <2>1. /\ queue' = Queued(r, k + 1, 1) /\ UNCHANGED redelivered
          /\ k + 1 \in 0..MaxRetries
          /\ handling[h].at \in InHand /\ l.at \notin InHand
      BY <1>1, <1>8 DEF PassesOn, Unasked, InHand, Places
    <2>2. CASE s = r
      <3>1. Cardinality(HandTurns(r)') + (MaxRetries - k) <= Cardinality(HandTurns(r))
        BY <1>1, <2>1, HandReleased
      <3>2. Cardinality(CopyTurns(r)') = Cardinality(CopyTurns(r)) + (1 + MaxRetries - (k + 1))
        BY <1>2, <2>1, TurnsAdded
      <3>3. Cardinality(Handled(r)') + Cardinality(CopyTurns(r)') + Cardinality(HandTurns(r)')
              <= (1 + MaxRetries) * (1 + redelivered[r])
        BY <1>2, <1>4, <1>5, <1>6, <2>2, <3>1, <3>2
      <3>4. QED BY <1>4, <2>1, <2>2, <3>3, TurnsBound
    <2>3. CASE s # r
      <3>1. CopyTurns(s)' = CopyTurns(s)  BY <1>2, <2>1, <2>3, TurnsAdded
      <3>2. QED BY <1>4, <1>5, <1>6, <2>1, <3>1, TurnsBound
    <2>4. QED BY <2>2, <2>3
  <1>9. CASE PutsBack(h, l)
    <2>1. /\ queue' = Queued(r, k, 1)
          /\ redelivered' = [redelivered EXCEPT ![r] = @ + 1]
      BY <1>1, <1>9 DEF PutsBack
    <2>2. CASE s = r
      <3>1. Cardinality(CopyTurns(r)') = Cardinality(CopyTurns(r)) + (1 + MaxRetries - k)
        BY <1>2, <2>1, TurnsAdded
      <3>2. redelivered'[r] = redelivered[r] + 1  BY <1>2, <2>1 DEF CopiesOK
      <3>3. PICK m, n : m = redelivered[r] /\ n = 1 + MaxRetries  OBVIOUS
      <3>4. m \in Nat /\ n \in Nat /\ n * (1 + m) \in Nat  BY <1>4, <2>2, <3>3
      <3>5. n * ((1 + m) + 1) = n * (1 + m) + n * 1 /\ n * 1 = n /\ (1 + m) + 1 = 1 + (m + 1)
        BY <3>4, Products
      <3>6. (1 + MaxRetries) * (1 + redelivered'[r])
               = (1 + MaxRetries) * (1 + redelivered[r]) + (1 + MaxRetries)
        BY <3>2, <3>3, <3>5
      <3>7. Cardinality(Handled(r)') + Cardinality(CopyTurns(r)') + Cardinality(HandTurns(r)')
              <= (1 + MaxRetries) * (1 + redelivered'[r])
        BY <1>2, <1>4, <1>5, <1>6, <2>2, <3>1, <3>6
      <3>8. QED BY <1>4, <2>2, <3>2, <3>7, TurnsBound
    <2>3. CASE s # r
      <3>1. CopyTurns(s)' = CopyTurns(s) /\ redelivered'[s] = redelivered[s]
        BY <1>2, <2>1, <2>3, TurnsAdded DEF CopiesOK
      <3>2. QED BY <1>4, <1>5, <1>6, <3>1, TurnsBound
    <2>4. QED BY <2>2, <2>3
  <1>10. QED BY <1>7, <1>8, <1>9 DEF HandlerStep, Works, GivesAnswer, Acks, Drops

LEMMA TurnsTakenBack ==
    ASSUME AgentInv, CopiesOK, TurnsOK, TakesBack
    PROVE  \A s \in Requests : Turns(s)' <= (1 + MaxRetries) * (1 + redelivered'[s])
  <1>1. /\ DOMAIN handling' = DOMAIN handling
        /\ \A h \in DOMAIN handling :
              \/ handling'[h] = handling[h]
              \/ handling'[h].req = handling[h].req /\ handling'[h].at = "over"
    BY DEF TakesBack, NewHandling
  <1>2. "over" \notin InHand  BY DEF InHand
  <1>3. TAKE s \in Requests
  <1>4. /\ IsFiniteSet(Copies(s))
        /\ Cardinality(HandTurns(s)) \in Nat /\ Cardinality(Handled(s)) \in Nat
        /\ Cardinality(CopyTurns(s)) \in Nat
        /\ redelivered[s] \in Nat /\ MaxRetries \in Nat
        /\ (1 + MaxRetries) * (1 + redelivered[s]) \in Nat
        /\ Cardinality(Handled(s)) + Cardinality(CopyTurns(s)) + Cardinality(HandTurns(s))
              <= (1 + MaxRetries) * (1 + redelivered[s])
    BY TurnsTyped
  <1>5. Handled(s)' = Handled(s) /\ HandTurns(s)' \subseteq HandTurns(s)
    BY <1>1, <1>2, HandsEmpty
  <1>6. Cardinality(HandTurns(s)') \in Nat
        /\ Cardinality(HandTurns(s)') <= Cardinality(HandTurns(s))
    BY <1>5, FewerHands
  <1>7. PICK C, new : /\ C = Copies(s) /\ Copies(s)' = C \cup new /\ IsFiniteSet(new)
                      /\ Cardinality(new) <= HeldOf(s) /\ HeldOf(s) \in Nat
    BY <1>4, CopiesBack DEF AgentInv, TakesBack
  <1>8. CopyTurns(s) = TurnsOf(C) /\ CopyTurns(s)' = TurnsOf(C \cup new)
    BY <1>7, CopyTurnsOf
  <1>9. /\ Cardinality(TurnsOf(C \cup new)) <= Cardinality(TurnsOf(C)) + Cardinality(TurnsOf(new))
        /\ Cardinality(TurnsOf(C \cup new)) \in Nat
        /\ Cardinality(TurnsOf(C)) \in Nat /\ Cardinality(TurnsOf(new)) \in Nat
    <2>1. TurnsOf(C \cup new) = TurnsOf(C) \cup TurnsOf(new)  BY DEF TurnsOf
    <2>2. PICK S, T : S = TurnsOf(C) /\ T = TurnsOf(new)  OBVIOUS
    <2>3. IsFiniteSet(S) /\ IsFiniteSet(T) /\ Cardinality(S) \in Nat /\ Cardinality(T) \in Nat
      BY <1>4, <1>7, <2>2, TurnsFinite
    <2>4. /\ IsFiniteSet(S \cup T)
          /\ Cardinality(S \cup T) = Cardinality(S) + Cardinality(T) - Cardinality(S \cap T)
      BY <2>3, FS_Union
    <2>5. Cardinality(S \cap T) \in Nat /\ Cardinality(S \cup T) \in Nat
      <3>1. IsFiniteSet(S \cap T)  BY <2>3, FS_Subset
      <3>2. QED BY <2>4, <3>1, FS_CardinalityType
    <2>6. Cardinality(S \cup T) <= Cardinality(S) + Cardinality(T)
      <3>1. Cardinality(S \cap T) \in Nat /\ Cardinality(S) \in Nat /\ Cardinality(T) \in Nat
        BY <2>3, <2>5
      <3>2. QED BY <2>4, <3>1
    <2>7. TurnsOf(C \cup new) = S \cup T  BY <2>1, <2>2
    <2>8. QED BY <2>2, <2>3, <2>5, <2>6, <2>7
  <1>10. redelivered'[s] = redelivered[s] + HeldOf(s)  BY DEF TakesBack, TakenBack
  <1>11. (1 + MaxRetries) * (1 + redelivered'[s])
            = (1 + MaxRetries) * (1 + redelivered[s]) + (1 + MaxRetries) * HeldOf(s)
         /\ (1 + MaxRetries) * HeldOf(s) \in Nat
    <2>1. PICK m, n, x : m = redelivered[s] /\ n = 1 + MaxRetries /\ x = HeldOf(s)  OBVIOUS
    <2>2. m \in Nat /\ n \in Nat /\ x \in Nat  BY <1>4, <1>7, <2>1
    <2>3. n * ((1 + m) + x) = n * (1 + m) + n * x /\ n * x \in Nat
          /\ (1 + m) + x = 1 + (m + x)
      BY <2>2, Products
    <2>4. QED BY <1>10, <2>1, <2>3
  <1>12. Cardinality(TurnsOf(new)) <= (1 + MaxRetries) * HeldOf(s)
    <2>1. PICK n, c, x : n = 1 + MaxRetries /\ c = Cardinality(new) /\ x = HeldOf(s)  OBVIOUS
    <2>2. n \in Nat /\ c \in Nat /\ x \in Nat /\ c <= x
      BY <1>4, <1>7, <2>1, FS_CardinalityType
    <2>3. c * n <= x * n /\ c * n = n * c /\ x * n = n * x /\ n * c \in Nat /\ n * x \in Nat
      BY <2>2, Products
    <2>4. Cardinality(TurnsOf(new)) <= n * c  BY <1>7, <2>1, TurnsFinite
    <2>5. QED BY <1>9, <2>1, <2>3, <2>4
  <1>13. Cardinality(Handled(s)') + Cardinality(CopyTurns(s)') + Cardinality(HandTurns(s)')
              <= (1 + MaxRetries) * (1 + redelivered'[s])
    BY <1>4, <1>5, <1>6, <1>8, <1>9, <1>11, <1>12
  <1>14. redelivered'[s] \in Nat  BY <1>4, <1>7, <1>10
  <1>15. QED BY <1>13, <1>14, TurnsBound

LEMMA TurnsStay ==
    ASSUME AgentInv, CopiesOK, TurnsOK, [Next]_vars
    PROVE  TurnsOK'
  <1>1. \A s \in Requests : Turns(s)' <= (1 + MaxRetries) * (1 + redelivered'[s])
    <2>1. CASE Rests
      <3>1. TAKE s \in Requests
      <3>2. UNCHANGED <<queue, handling, redelivered>>  BY <2>1 DEF Rests
      <3>3. Handled(s)' = Handled(s) /\ HandTurns(s)' = HandTurns(s)
        BY <3>2 DEF Handled, HandTurns, HasInHand
      <3>4. Copies(s)' = Copies(s)  BY <3>2 DEF Copies
      <3>5. CopyTurns(s)' = CopyTurns(s)  BY <3>4, CopyTurnsOf
      <3>6. QED BY <3>2, <3>3, <3>5, TurnsTyped, TurnsBound
    <2>2. QED BY <2>1, StepKinds, TurnsOfAsked, TurnsOfTaken, TurnsOfHandled,
                 TurnsTakenBack
  <1>2. QED BY <1>1 DEF TurnsOK, Turns

LEMMA TurnsAlways == Spec => []TurnsOK
  <1>1. Init => TurnsOK
    <2> SUFFICES ASSUME Init, NEW r \in Requests
                 PROVE  Turns(r) <= (1 + MaxRetries) * (1 + redelivered[r])
      BY DEF TurnsOK
    <2>1. AgentInv /\ DOMAIN handling = {} /\ redelivered[r] = 0
      BY InitInv DEF Init
    <2>2. Copies(r) = {}  BY <2>1, UnaskedIsNowhere DEF Init
    <2>3. Handled(r) = {} /\ CopyTurns(r) = {} /\ HandTurns(r) = {}
      BY <2>1, <2>2 DEF Handled, CopyTurns, TurnsOf, HandTurns
    <2>4. Cardinality({}) = 0  BY FS_EmptySet
    <2>5. 0 <= (1 + MaxRetries) * (1 + 0)  BY ChatMessageAssumption
    <2>6. QED BY <2>1, <2>3, <2>4, <2>5 DEF Turns
  <1>2. QED BY <1>1, TurnsStay, Always, CopiesAlways, PTL DEF Spec

(* The retry counter bounds the work.  A request is handled 1 + MaxRetries *)
(* times at most for each time the broker delivers it, however its retries *)
(* interleave with redeliveries and restarts: a copy with counter k still  *)
(* has 1 + MaxRetries - k turns, and a step never adds a turn to them      *)
(* (app/broker/consumer.py).                                               *)
THEOREM RetriesBoundTheWork == Spec => []RetriesAreBounded
  <1>1. AgentInv /\ CopiesOK /\ TurnsOK => RetriesAreBounded
    <2> SUFFICES ASSUME AgentInv, CopiesOK, TurnsOK, NEW r \in Requests
                 PROVE  Cardinality({h \in DOMAIN handling : handling[h].req = r})
                           <= (1 + MaxRetries) * (1 + redelivered[r])
      BY DEF RetriesAreBounded
    <2>1. Cardinality(Handled(r)) <= (1 + MaxRetries) * (1 + redelivered[r])
      BY TurnsTyped
    <2>2. QED BY <2>1 DEF Handled
  <1>2. QED BY <1>1, Always, CopiesAlways, TurnsAlways, PTL
=============================================================================
