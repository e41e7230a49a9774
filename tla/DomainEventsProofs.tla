------------------------- MODULE DomainEventsProofs -------------------------
(***************************************************************************)
(* However often an event is retried, redelivered or cut off, and whatever *)
(* the backend answers or leaves unanswered: the runs of an event, and the *)
(* recommendations a deal gets from them, are bounded; and a run that      *)
(* reports DONE has stored one for every deal it was told of.              *)
(***************************************************************************)
EXTENDS DomainEvents, SequenceTheorems, FiniteSetTheorems, TLAPS

Places == {"delay", "listing", "next", "reading", "advise", "storing", "rejected",
           "approved", "loading", "print", "printing", "retry", "ack", "over"}

Tellings == {"nothing", "invalid", "again", "dropped", "failed", "done", "partial",
             "rejected", "skipped"}

Subjects == AllDeals \cup {None}

(* A delivery: a local of the type of module DomainEvents.                 *)
LocalRec == [event : Events, retry : 0..MaxRetries, at : Places, deal : Subjects,
             listed : Seq(AllDeals), todo : Seq(AllDeals), failed : BOOLEAN,
             told : Tellings]

Ops == Supported \cup ForeignOps

RequestRec == [id : Nat \X Ops \X Subjects, op : Ops,
               absent : SUBSET {"building", "complex", "deal"}]

(* Places at which a delivery may still be published again, and those of   *)
(* the loop over the deals.                                                *)
InHand == Places \ {"ack", "over"}
Loop == {"next", "reading", "advise", "storing"}

HasRow(h, d) == CallId(h, "recommendation.create", d) \in DOMAIN recommendations

(* Where delivery h stands: no deal it was told of is forgotten in the     *)
(* loop, unless one of them failed.                                        *)
CourseOK(h, l) ==
    /\ l.told = "done" => l.at = "ack" /\ \A d \in Range(l.listed) : HasRow(h, d)
    /\ l.at \in Loop => \/ l.failed
                        \/ \A d \in Range(l.listed) : HasRow(h, d) \/ d \in Range(l.todo)
    /\ l.at \in Loop \ {"next"} => l.todo # <<>> /\ l.deal = Head(l.todo)

(* A request of a delivery, or of another agent, which names no deal.      *)
RequestOK(q) == q.id[2] = q.op /\ (q.id[1] \in DOMAIN handling \/ q.id[3] = None)

Advises(id) == id[2] = "recommendation.create"

EventOK == event \in [Events -> EventMessages \cup {None}]

QueueOK ==
    /\ queue \in [Events -> [0..MaxRetries -> Nat]]
    /\ \A e \in Events : \A k \in 0..MaxRetries : queue[e][k] > 0 => event[e] # None

HandlingOK ==
    /\ handling \in Seq(LocalRec)
    /\ \A h \in DOMAIN handling : event[handling[h].event] # None

CoursesOK == \A h \in DOMAIN handling : CourseOK(h, handling[h])

RequestsOK ==
    /\ requests \in Seq(RequestRec)
    /\ \A i \in DOMAIN requests : RequestOK(requests[i])

(* The backend answers "ok" to what it has stored.                         *)
WorkingOK ==
    working # <<>> =>
        \E q, result, sent :
            /\ q \in RequestRec /\ RequestOK(q)
            /\ working = <<[request |-> q, result |-> result, sent |-> sent]>>
            /\ result = "ok" /\ Advises(q.id) => q.id \in DOMAIN recommendations

PendingOK ==
    \A id \in DOMAIN pending :
        pending[id] = "ok" /\ Advises(id) => id \in DOMAIN recommendations

RowsOK ==
    \A id \in DOMAIN recommendations :
        /\ recommendations[id] = 1
        /\ id \in Nat \X Ops \X Subjects /\ Advises(id)
        /\ id[1] \in DOMAIN handling \/ id[3] = None

EventInv == /\ EventOK /\ QueueOK /\ HandlingOK /\ CoursesOK
            /\ RequestsOK /\ WorkingOK /\ PendingOK /\ RowsOK

---------------------------------------------------------------------------
LEMMA HandlingTyped ==
    ASSUME HandlingOK
    PROVE  /\ DOMAIN handling = 1..Len(handling) /\ Len(handling) \in Nat
           /\ \A h \in DOMAIN handling : /\ handling[h] \in LocalRec /\ h \in Nat
                                         /\ handling[h].event \in Events
                                         /\ handling[h].retry \in 0..MaxRetries
  <1>1. DOMAIN handling = 1..Len(handling) /\ Len(handling) \in Nat
    BY LenProperties DEF HandlingOK
  <1>2. \A h \in DOMAIN handling : handling[h] \in LocalRec
    BY <1>1, ElementOfSeq DEF HandlingOK
  <1>3. QED BY <1>1, <1>2 DEF LocalRec

LEMMA ListingTyped ==
    ASSUME NEW listing \in Listings
    PROVE  listing \in Seq(AllDeals)
  <1>1. listing \in Seq(Range(listing)) /\ Range(listing) \subseteq AllDeals
    BY EventAssumption DEF AllDeals
  <1>2. QED BY <1>1

(* The remaining deals: the first, and the rest.                           *)
LEMMA TodoSplit ==
    ASSUME NEW todo \in Seq(AllDeals), todo # <<>>
    PROVE  /\ Head(todo) \in AllDeals /\ Tail(todo) \in Seq(AllDeals)
           /\ \A d \in Range(todo) : d = Head(todo) \/ d \in Range(Tail(todo))
  <1>1. /\ Head(todo) \in AllDeals /\ Tail(todo) \in Seq(AllDeals)
        /\ Len(Tail(todo)) = Len(todo) - 1
        /\ \A i \in 1..Len(Tail(todo)) : Tail(todo)[i] = todo[i + 1]
    BY HeadTailProperties
  <1>2. Len(todo) \in Nat /\ DOMAIN todo = 1..Len(todo)
    BY LenProperties
  <1>3. DOMAIN Tail(todo) = 1..Len(Tail(todo))
    BY <1>1, LenProperties
  <1>4. ASSUME NEW d \in Range(todo) PROVE d = Head(todo) \/ d \in Range(Tail(todo))
    <2>1. PICK i \in 1..Len(todo) : d = todo[i]  BY <1>2 DEF Range
    <2>2. CASE i = 1  BY <2>1, <2>2
    <2>3. CASE i # 1
      <3>1. i - 1 \in 1..Len(Tail(todo)) /\ (i - 1) + 1 = i
        BY <1>1, <1>2, <2>3
      <3>2. Tail(todo)[i - 1] = d  BY <1>1, <2>1, <3>1
      <3>3. QED BY <1>3, <3>1, <3>2 DEF Range
    <2>4. QED BY <2>2, <2>3
  <1>5. QED BY <1>1, <1>4

---------------------------------------------------------------------------
(* What a step of a delivery does.                                         *)

Turned(h, l) ==
    /\ l \in LocalRec /\ l.event = handling[h].event /\ l.retry = handling[h].retry
    /\ handling' \in Seq(LocalRec) /\ DOMAIN handling' = DOMAIN handling
    /\ \A g \in DOMAIN handling : handling'[g] = IF g = h THEN l ELSE handling[g]

Works(h, l) ==
    /\ l.at \in InHand => handling[h].at \in InHand
    /\ UNCHANGED queue

PassesOn(h, l) ==
    /\ handling[h].at \in InHand /\ l.at \notin InHand
    /\ handling[h].retry + 1 \in 0..MaxRetries
    /\ queue' = Queued(handling[h].event, handling[h].retry + 1, 1)

(* It asks the backend at most one thing, and nobody answers meanwhile.    *)
Talks(h) ==
    /\ UNCHANGED working
    /\ \/ UNCHANGED requests
       \/ \E q \in RequestRec : /\ q.id[1] = h /\ q.id[2] = q.op
                                /\ requests' = Append(requests, q)
    /\ \A id \in DOMAIN pending' : pending'[id] = "ok" => id \in DOMAIN pending
                                                         /\ pending[id] = "ok"

HandlerStep(h, l) ==
    /\ Turned(h, l) /\ CourseOK(h, l)
    /\ Works(h, l) \/ PassesOn(h, l)
    /\ Talks(h)
    /\ UNCHANGED <<event, recommendations, redelivered>>

LEMMA BecomesTurned ==
    ASSUME HandlingOK, NEW h \in DOMAIN handling, NEW l \in LocalRec,
           l.event = handling[h].event, l.retry = handling[h].retry, Become(h, l)
    PROVE  Turned(h, l)
  <1>1. /\ handling \in Seq(LocalRec) /\ h \in 1..Len(handling)
    BY HandlingTyped DEF HandlingOK
  <1>2. /\ handling' \in Seq(LocalRec) /\ DOMAIN handling' = DOMAIN handling
        /\ \A i \in DOMAIN handling : handling'[i] = IF i = h THEN l ELSE handling[i]
    BY <1>1, ExceptSeq, HandlingTyped DEF Become
  <1>3. QED BY <1>2 DEF Turned

LEMMA LeaveTurned ==
    ASSUME HandlingOK, NEW h \in DOMAIN handling, NEW a \in Places, NEW t \in Tellings,
           Leave(h, a, t)
    PROVE  \E l : Turned(h, l) /\ l.at = a /\ l.told = t
  <1>1. PICK n : n = NewHandling(handling[h].event, handling[h].retry, a)
    OBVIOUS
  <1>2. PICK l : l = [n EXCEPT !.told = t]
    OBVIOUS
  <1>3. <<>> \in Seq(AllDeals)  BY EmptySeq
  <1>4. n = [event |-> handling[h].event, retry |-> handling[h].retry, at |-> a, deal |-> None,
             listed |-> <<>>, todo |-> <<>>, failed |-> FALSE, told |-> "nothing"]
    BY <1>1 DEF NewHandling
  <1>5. n \in LocalRec
    BY <1>3, <1>4, HandlingTyped DEF LocalRec, Subjects, Tellings
  <1>6. /\ l \in LocalRec /\ l.event = handling[h].event /\ l.retry = handling[h].retry
        /\ l.at = a /\ l.told = t
    BY <1>2, <1>4, <1>5 DEF LocalRec
  <1>7. Become(h, l)  BY <1>1, <1>2 DEF Leave
  <1>8. QED BY <1>6, <1>7, BecomesTurned

(* An error ends the run, or costs the deal that is being dealt with.      *)
LEMMA ErrorTurned ==
    ASSUME EventInv, NEW h \in DOMAIN handling, NEW d \in Subjects, NEW retryable \in BOOLEAN,
           Error(h, d, retryable), d # None => handling[h].todo # <<>>,
           handling[h].at \in InHand
    PROVE  \E l : Turned(h, l) /\ CourseOK(h, l) /\ l.at \in {"retry", "ack", "next"}
  <1>1. HandlingOK /\ CourseOK(h, handling[h])  BY DEF EventInv, CoursesOK
  <1>2. ASSUME NEW a \in {"retry", "ack"}, NEW t \in {"nothing", "failed"}, Leave(h, a, t)
        PROVE  \E l : Turned(h, l) /\ CourseOK(h, l) /\ l.at = a
    <2>1. PICK l : Turned(h, l) /\ l.at = a /\ l.told = t
      BY <1>1, <1>2, LeaveTurned DEF Places, Tellings
    <2>2. l.told # "done" /\ l.at \notin Loop  BY <2>1 DEF Loop
    <2>3. CourseOK(h, l)  BY <2>2 DEF CourseOK
    <2>4. QED BY <2>1, <2>3
  <1>3. ASSUME d # None, Become(h, Skipped(handling[h]))
        PROVE  \E l : Turned(h, l) /\ CourseOK(h, l) /\ l.at = "next"
    <2>1. PICK x, l : x = handling[h] /\ l = Skipped(x)  OBVIOUS
    <2>2. x \in LocalRec /\ x.todo # <<>>  BY <1>1, <1>3, <2>1, HandlingTyped
    <2>3. x.todo \in Seq(AllDeals)  BY <2>2 DEF LocalRec
    <2>4. Tail(x.todo) \in Seq(AllDeals)  BY <2>2, <2>3, TodoSplit
    <2>5. /\ l \in LocalRec /\ l.event = x.event /\ l.retry = x.retry
          /\ l.at = "next" /\ l.failed = TRUE /\ l.told = x.told
      BY <2>1, <2>2, <2>4 DEF Skipped, LocalRec, Places
    <2>6. Turned(h, l)  BY <1>1, <1>3, <2>1, <2>5, BecomesTurned
    <2>7. CourseOK(h, l)  BY <1>1, <2>1, <2>5 DEF CourseOK, InHand
    <2>8. QED BY <2>5, <2>6, <2>7
  <1>4. QED BY <1>2, <1>3 DEF Error, Finish

(* A handler that has nothing to say to the backend, or calls it, or hears *)
(* from it.                                                                *)
LEMMA Silent ==
    ASSUME UNCHANGED <<pending, requests, working>>, NEW h
    PROVE  Talks(h)
  BY DEF Talks

LEMMA ResumeTalks ==
    ASSUME NEW id, NEW h, Resume(id)
    PROVE  Talks(h)
  BY DEF Talks, Resume, Forget

LEMMA CallTalks ==
    ASSUME EventInv, NEW h \in DOMAIN handling, NEW op \in Ops \cup {"offer.generate_pdf"},
           NEW d \in Subjects, NEW at, Call(h, op, d, at)
    PROVE  Talks(h)
  <1>1. PICK id, e : id = CallId(h, op, d) /\ e = handling[h].event  OBVIOUS
  <1>2. e \in Events /\ h \in Nat /\ event[e] \in EventMessages
    BY <1>1, HandlingTyped DEF EventInv, HandlingOK, EventOK
  <1>3. event[e].absent \in SUBSET {"building", "complex", "deal"}
    BY <1>2, EventAssumption
  <1>4. id = <<h, op, d>>  BY <1>1 DEF CallId
  <1>5. ASSUME pending' = Put(pending, id, Waiting), NEW c \in DOMAIN pending', pending'[c] = "ok"
        PROVE  c \in DOMAIN pending /\ pending[c] = "ok"
    BY <1>5 DEF Put, Waiting
  <1>6. CASE op \in Supported /\ (Issue(Request(h, op, d)) \/ IssueFails(Request(h, op, d)))
    <2>1. PICK q : q = Request(h, op, d)  OBVIOUS
    <2>2. q = [id |-> id, op |-> op, absent |-> event[e].absent]
      BY <1>1, <2>1 DEF Request
    <2>3. op \in Ops  BY <1>6 DEF Ops
    <2>4. q \in RequestRec /\ q.id[1] = h /\ q.id[2] = q.op /\ q.id = id
      BY <1>2, <1>3, <1>4, <2>2, <2>3 DEF RequestRec
    <2>5. /\ UNCHANGED working
          /\ requests' = Append(requests, q) \/ UNCHANGED requests
          /\ pending' = Put(pending, id, Waiting) \/ UNCHANGED pending
      BY <1>6, <2>1, <2>4 DEF Issue, IssueFails
    <2>6. QED BY <1>5, <2>4, <2>5 DEF Talks
  <1>7. CASE pending' = Put(pending, id, Waiting) /\ UNCHANGED <<requests, working>>
    BY <1>5, <1>7 DEF Talks
  <1>8. CASE UNCHANGED <<pending, requests, working>>
    BY <1>8 DEF Talks
  <1>9. QED BY <1>1, <1>6, <1>7, <1>8 DEF Call, rpcVars

(* A call that leads from one place to another, unless it fails at once.   *)
LEMMA CallStep ==
    ASSUME EventInv, NEW h \in DOMAIN handling, NEW op \in Ops \cup {"offer.generate_pdf"},
           NEW d \in Subjects, NEW at \in Places, Call(h, op, d, at), Unanswered,
           handling[h].at \in InHand,
           d # None => handling[h].todo # <<>>,
           at \in Loop => /\ handling[h].at \in Loop /\ at # "next"
                          /\ handling[h].todo # <<>> /\ d = Head(handling[h].todo)
    PROVE  \E l : HandlerStep(h, l)
  <1>1. /\ HandlingOK /\ CourseOK(h, handling[h])
        /\ UNCHANGED <<event, queue, recommendations, redelivered>>
    BY DEF EventInv, CoursesOK, Unanswered
  <1>2. Talks(h)  BY CallTalks
  <1>3. ASSUME NEW retryable \in BOOLEAN, Error(h, d, retryable)
        PROVE  \E l : HandlerStep(h, l)
    <2>1. PICK l : Turned(h, l) /\ CourseOK(h, l)
      BY <1>3, ErrorTurned
    <2>2. QED BY <1>1, <1>2, <2>1 DEF HandlerStep, Works
  <1>4. ASSUME Become(h, [handling[h] EXCEPT !.at = at, !.deal = d])
        PROVE  \E l : HandlerStep(h, l)
    <2>1. PICK x, l : x = handling[h] /\ l = [x EXCEPT !.at = at, !.deal = d]  OBVIOUS
    <2>2. x \in LocalRec  BY <1>1, <2>1, HandlingTyped
    <2>3. /\ l \in LocalRec /\ l.event = x.event /\ l.retry = x.retry /\ l.at = at
          /\ l.deal = d /\ l.listed = x.listed /\ l.todo = x.todo
          /\ l.failed = x.failed /\ l.told = x.told
      BY <2>1, <2>2 DEF LocalRec
    <2>4. Turned(h, l)  BY <1>1, <1>4, <2>1, <2>3, BecomesTurned
    <2>5. CourseOK(h, l)  BY <1>1, <2>1, <2>3 DEF CourseOK, InHand
    <2>6. QED BY <1>1, <1>2, <2>4, <2>5 DEF HandlerStep, Works
  <1>5. QED BY <1>3, <1>4 DEF Call

(* A handler that hears of an error.                                       *)
LEMMA ErrorStep ==
    ASSUME EventInv, NEW h \in DOMAIN handling, NEW d \in Subjects, NEW retryable \in BOOLEAN,
           Error(h, d, retryable), d # None => handling[h].todo # <<>>,
           Talks(h), Unanswered, handling[h].at \in InHand
    PROVE  \E l : HandlerStep(h, l)
  <1>1. PICK l : Turned(h, l) /\ CourseOK(h, l)
    BY ErrorTurned
  <1>2. QED BY <1>1 DEF HandlerStep, Works, Unanswered

(* A handler that ends, other than at the end of the loop.                 *)
LEMMA FinishStep ==
    ASSUME EventInv, NEW h \in DOMAIN handling, NEW t \in Tellings \ {"done"}, Finish(h, t),
           Talks(h), UNCHANGED <<event, recommendations, redelivered>>,
           \/ UNCHANGED queue
           \/ /\ handling[h].retry + 1 \in 0..MaxRetries
              /\ queue' = Queued(handling[h].event, handling[h].retry + 1, 1),
           handling[h].at \in InHand
    PROVE  \E l : HandlerStep(h, l)
  <1>1. PICK l : Turned(h, l) /\ l.at = "ack" /\ l.told = t
    BY LeaveTurned DEF Finish, EventInv, Places
  <1>2. CourseOK(h, l)  BY <1>1 DEF CourseOK, Loop
  <1>3. Works(h, l) \/ PassesOn(h, l)  BY <1>1 DEF Works, PassesOn, InHand
  <1>4. QED BY <1>1, <1>2, <1>3 DEF HandlerStep

(* A handler that goes on with the same deal.                              *)
LEMMA GotoStep ==
    ASSUME EventInv, NEW h \in DOMAIN handling, NEW a \in InHand, Goto(h, a),
           a \in Loop => handling[h].at \in Loop \ {"next"},
           Talks(h), UNCHANGED <<event, queue, recommendations, redelivered>>,
           handling[h].at \in InHand
    PROVE  \E l : HandlerStep(h, l)
  <1>1. HandlingOK /\ CourseOK(h, handling[h])  BY DEF EventInv, CoursesOK
  <1>2. PICK x, l : x = handling[h] /\ l = [x EXCEPT !.at = a]  OBVIOUS
  <1>3. x \in LocalRec  BY <1>1, <1>2, HandlingTyped
  <1>4. /\ l \in LocalRec /\ l.event = x.event /\ l.retry = x.retry /\ l.at = a
        /\ l.deal = x.deal /\ l.listed = x.listed /\ l.todo = x.todo
        /\ l.failed = x.failed /\ l.told = x.told
    BY <1>2, <1>3 DEF LocalRec, InHand
  <1>5. Turned(h, l)  BY <1>1, <1>2, <1>4, BecomesTurned DEF Goto
  <1>6. CourseOK(h, l)  BY <1>1, <1>2, <1>4 DEF CourseOK, InHand
  <1>7. QED BY <1>2, <1>4, <1>5, <1>6 DEF HandlerStep, Works
---------------------------------------------------------------------------
(* Every step of a delivery is such a step.                                *)

LEMMA OpsOfEvents ==
    {"deal.list_by_building", "deal.get", "recommendation.create", "offer.get"} \subseteq Ops
  BY DEF Ops, Supported

LEMMA TypedLocal ==
    ASSUME EventInv, NEW h \in DOMAIN handling
    PROVE  /\ HandlingOK /\ CourseOK(h, handling[h])
           /\ handling[h] \in LocalRec /\ handling[h].todo \in Seq(AllDeals)
           /\ handling[h].retry \in 0..MaxRetries /\ MaxRetries \in Nat
           /\ handling[h].deal \in Subjects /\ None \in Subjects /\ None \notin AllDeals
  BY HandlingTyped, EventAssumption DEF EventInv, CoursesOK, LocalRec, Subjects, AllDeals

LEMMA ListDealsStep ==
    ASSUME EventInv, NEW h \in DOMAIN handling, ListDeals(h)
    PROVE  \E l : HandlerStep(h, l)
  <1>1. Call(h, "deal.list_by_building", None, "listing") /\ Unanswered
        /\ handling[h].at \in InHand /\ "listing" \in Places /\ "listing" \notin Loop
    BY DEF ListDeals, InHand, Places, Loop
  <1>2. QED BY <1>1, CallStep, OpsOfEvents, TypedLocal

LEMMA DealsListedStep ==
    ASSUME EventInv, NEW h \in DOMAIN handling, DealsListed(h)
    PROVE  \E l : HandlerStep(h, l)
  <1>1. Talks(h) /\ Unanswered /\ handling[h].at \in InHand
    BY ResumeTalks DEF DealsListed, Returns, InHand, Places
  <1>2. ASSUME NEW s \in Listings,
               Become(h, [handling[h] EXCEPT !.at = "next", !.listed = s, !.todo = s])
        PROVE  \E l : HandlerStep(h, l)
    <2>1. PICK x, l : /\ x = handling[h]
                      /\ l = [x EXCEPT !.at = "next", !.listed = s, !.todo = s]
      OBVIOUS
    <2>2. /\ l \in LocalRec /\ l.event = x.event /\ l.retry = x.retry /\ l.at = "next"
          /\ l.listed = s /\ l.todo = s /\ l.told = x.told
      BY <2>1, TypedLocal, ListingTyped DEF LocalRec, Places
    <2>3. Turned(h, l)  BY <1>2, <2>1, <2>2, BecomesTurned, TypedLocal
    <2>4. CourseOK(h, l)  BY <1>1, <2>1, <2>2, TypedLocal DEF CourseOK, InHand
    <2>5. QED BY <1>1, <2>3, <2>4 DEF HandlerStep, Works, Unanswered
  <1>3. ASSUME NEW retryable \in BOOLEAN, Error(h, None, retryable)
        PROVE  \E l : HandlerStep(h, l)
    BY <1>1, <1>3, ErrorStep, TypedLocal
  <1>4. Temporary(Code(h, "deal.list_by_building")) \in BOOLEAN  BY DEF Temporary
  <1>5. QED BY <1>2, <1>3, <1>4 DEF DealsListed

LEMMA NextDealStep ==
    ASSUME EventInv, NEW h \in DOMAIN handling, NextDeal(h)
    PROVE  \E l : HandlerStep(h, l)
  <1>1. PICK x : x = handling[h]  OBVIOUS
  <1>2. /\ Unanswered /\ x.at = "next" /\ x.at \in InHand /\ x.at \in Loop
        /\ CourseOK(h, x) /\ x.todo \in Seq(AllDeals) /\ x.failed \in BOOLEAN
    BY <1>1, TypedLocal DEF NextDeal, InHand, Places, Loop, LocalRec
  <1>3. ASSUME NEW t, t = IF x.failed THEN "partial" ELSE "done", x.todo = <<>>,
               Become(h, [x EXCEPT !.at = "ack", !.deal = None, !.failed = FALSE, !.told = t]),
               UNCHANGED rpcVars
        PROVE  \E l : HandlerStep(h, l)
    <2>1. Talks(h)  BY <1>3, Silent DEF rpcVars
    <2>2. \A d \in Range(x.listed) : d \notin Range(<<>>)  BY DEF Range
    <2>3. t = "done" => \A d \in Range(x.listed) : HasRow(h, d)
      BY <1>2, <1>3, <2>2 DEF CourseOK
    <2>4. PICK l : l = [x EXCEPT !.at = "ack", !.deal = None, !.failed = FALSE, !.told = t]
      OBVIOUS
    <2>5. x \in LocalRec /\ t \in Tellings
      BY <1>1, <1>3, TypedLocal DEF Tellings
    <2>6. /\ l \in LocalRec /\ l.event = x.event /\ l.retry = x.retry /\ l.at = "ack"
          /\ l.listed = x.listed /\ l.told = t
      BY <2>4, <2>5 DEF LocalRec, Places, Subjects
    <2>7. Turned(h, l)  BY <1>1, <1>3, <2>4, <2>6, BecomesTurned, TypedLocal
    <2>8. CourseOK(h, l)  BY <2>3, <2>6 DEF CourseOK, Loop
    <2>9. QED BY <1>1, <1>2, <2>1, <2>6, <2>7, <2>8 DEF HandlerStep, Works, Unanswered
  <1>4. CASE x.todo # <<>> /\ Call(h, "deal.get", Head(x.todo), "reading")
    <2>1. PICK d : d = Head(x.todo)  OBVIOUS
    <2>2. d \in Subjects /\ "reading" \in Places
      BY <1>2, <1>4, <2>1, TodoSplit DEF Subjects, Places
    <2>3. QED BY <1>1, <1>2, <1>4, <2>1, <2>2, CallStep, OpsOfEvents
  <1>5. QED BY <1>1, <1>3, <1>4 DEF NextDeal

LEMMA DealReadStep ==
    ASSUME EventInv, NEW h \in DOMAIN handling, DealRead(h)
    PROVE  \E l : HandlerStep(h, l)
  <1>1. /\ Talks(h) /\ Unanswered /\ handling[h].at \in InHand
        /\ handling[h].at \in Loop \ {"next"}
    BY ResumeTalks DEF DealRead, Returns, InHand, Places, Loop
  <1>2. CASE Goto(h, "advise")
    BY <1>1, <1>2, GotoStep DEF Places, InHand, Unanswered
  <1>3. ASSUME NEW retryable \in BOOLEAN, Error(h, handling[h].deal, retryable)
        PROVE  \E l : HandlerStep(h, l)
    <2>1. handling[h].todo # <<>>  BY <1>1, TypedLocal DEF CourseOK
    <2>2. QED BY <1>1, <1>3, <2>1, ErrorStep, TypedLocal
  <1>4. Temporary(Code(h, "deal.get")) \in BOOLEAN  BY DEF Temporary
  <1>5. QED BY <1>2, <1>3, <1>4 DEF DealRead

LEMMA AdviseStep ==
    ASSUME EventInv, NEW h \in DOMAIN handling, Advise(h)
    PROVE  \E l : HandlerStep(h, l)
  <1>1. /\ Unanswered /\ handling[h].at \in InHand /\ handling[h].at \in Loop \ {"next"}
    BY DEF Advise, InHand, Places, Loop
  <1>2. handling[h].todo # <<>> /\ handling[h].deal = Head(handling[h].todo)
    BY <1>1, TypedLocal DEF CourseOK
  <1>3. CASE Call(h, "recommendation.create", handling[h].deal, "storing")
    BY <1>1, <1>2, <1>3, CallStep, OpsOfEvents, TypedLocal DEF Places, Loop
  <1>4. ASSUME NEW retryable \in BOOLEAN, Error(h, handling[h].deal, retryable),
               UNCHANGED rpcVars
        PROVE  \E l : HandlerStep(h, l)
    <2>1. Talks(h)  BY <1>4, Silent DEF rpcVars
    <2>2. QED BY <1>1, <1>2, <1>4, <2>1, ErrorStep, TypedLocal
  <1>5. QED BY <1>3, <1>4 DEF Advise

LEMMA AdvisedStep ==
    ASSUME EventInv, NEW h \in DOMAIN handling, Advised(h)
    PROVE  \E l : HandlerStep(h, l)
  <1>1. PICK x : x = handling[h]  OBVIOUS
  <1>2. /\ Talks(h) /\ Unanswered /\ x.at \in InHand /\ x.at \in Loop \ {"next"}
    BY <1>1, ResumeTalks DEF Advised, Returns, InHand, Places, Loop
  <1>3. /\ x.todo # <<>> /\ x.deal = Head(x.todo) /\ CourseOK(h, x)
        /\ x \in LocalRec /\ x.todo \in Seq(AllDeals)
    BY <1>1, <1>2, TypedLocal DEF CourseOK
  <1>4. CASE /\ Code(h, "recommendation.create") = "ok"
             /\ Become(h, [handling[h] EXCEPT !.at = "next", !.todo = Tail(@)])
    <2>1. HasRow(h, x.deal)
      <3>1. PICK id : id = CallId(h, "recommendation.create", x.deal)  OBVIOUS
      <3>2. id \in DOMAIN pending /\ Outcome(id) = "ok"
        BY <1>1, <1>4, <3>1 DEF Advised, Returns, Resume, Code
      <3>3. pending[id] = "ok"  BY <3>2 DEF Outcome
      <3>4. Advises(id)  BY <3>1 DEF CallId, Advises
      <3>5. QED BY <3>1, <3>2, <3>3, <3>4 DEF EventInv, PendingOK, HasRow
    <2>2. PICK l : l = [x EXCEPT !.at = "next", !.todo = Tail(x.todo)]
      OBVIOUS
    <2>3. /\ Tail(x.todo) \in Seq(AllDeals)
          /\ \A d \in Range(x.todo) : d = x.deal \/ d \in Range(Tail(x.todo))
      BY <1>3, TodoSplit
    <2>4. /\ l \in LocalRec /\ l.event = x.event /\ l.retry = x.retry /\ l.at = "next"
          /\ l.listed = x.listed /\ l.todo = Tail(x.todo)
          /\ l.failed = x.failed /\ l.told = x.told
      BY <1>3, <2>2, <2>3 DEF LocalRec, Places
    <2>5. Become(h, l)  BY <1>1, <1>4, <2>2
    <2>6. Turned(h, l)  BY <1>1, <2>4, <2>5, BecomesTurned, TypedLocal
    <2>7. CourseOK(h, l)
      BY <1>2, <1>3, <2>1, <2>3, <2>4 DEF CourseOK, InHand
    <2>8. QED BY <1>1, <1>2, <2>6, <2>7 DEF HandlerStep, Works, Unanswered
  <1>5. ASSUME NEW retryable \in BOOLEAN, Error(h, handling[h].deal, retryable)
        PROVE  \E l : HandlerStep(h, l)
    BY <1>1, <1>2, <1>3, <1>5, ErrorStep, TypedLocal
  <1>6. Temporary(Code(h, "recommendation.create")) \in BOOLEAN  BY DEF Temporary
  <1>7. QED BY <1>4, <1>5, <1>6 DEF Advised

LEMMA ContinuationStep ==
    ASSUME EventInv, NEW h \in DOMAIN handling,
           MarkRejected(h) \/ LoadOffer(h) \/ OfferLoaded(h) \/ GeneratePdf(h) \/ PdfFailed(h)
    PROVE  \E l : HandlerStep(h, l)
  <1>1. CASE MarkRejected(h)
    <2>1. /\ Finish(h, "rejected") /\ Unanswered /\ Talks(h)
          /\ handling[h].at \in InHand /\ "rejected" \in Tellings
      BY <1>1, Silent DEF MarkRejected, rpcVars, InHand, Places, Tellings
    <2>2. QED BY <2>1, FinishStep DEF Unanswered
  <1>2. CASE LoadOffer(h)
    <2>1. Call(h, "offer.get", None, "loading") /\ Unanswered
          /\ handling[h].at \in InHand /\ "loading" \in Places /\ "loading" \notin Loop
      BY <1>2 DEF LoadOffer, InHand, Places, Loop
    <2>2. QED BY <2>1, CallStep, OpsOfEvents, TypedLocal
  <1>3. CASE OfferLoaded(h)
    <2>1. Talks(h) /\ Unanswered /\ handling[h].at \in InHand
      BY <1>3, ResumeTalks DEF OfferLoaded, Returns, InHand, Places
    <2>2. CASE Goto(h, "print")
      BY <2>1, <2>2, GotoStep DEF Places, Loop, InHand, Unanswered
    <2>3. CASE Finish(h, "skipped")
      <3>1. "skipped" \in Tellings  BY DEF Tellings
      <3>2. QED BY <2>1, <2>3, <3>1, FinishStep DEF Unanswered
    <2>4. ASSUME NEW retryable \in BOOLEAN, Error(h, None, retryable)
          PROVE  \E l : HandlerStep(h, l)
      BY <2>1, <2>4, ErrorStep, TypedLocal
    <2>5. Temporary(Code(h, "offer.get")) \in BOOLEAN  BY DEF Temporary
    <2>6. QED BY <1>3, <2>2, <2>3, <2>4, <2>5 DEF OfferLoaded
  <1>4. CASE GeneratePdf(h)
    <2>1. Call(h, "offer.generate_pdf", None, "printing") /\ Unanswered
          /\ handling[h].at \in InHand /\ "printing" \in Places /\ "printing" \notin Loop
      BY <1>4 DEF GeneratePdf, InHand, Places, Loop
    <2>2. QED BY <2>1, CallStep, TypedLocal
  <1>5. CASE PdfFailed(h)
    <2>1. Talks(h) /\ Unanswered /\ handling[h].at \in InHand
      BY <1>5, ResumeTalks DEF PdfFailed, Returns, InHand, Places
    <2>2. ASSUME NEW retryable \in BOOLEAN, Error(h, None, retryable)
          PROVE  \E l : HandlerStep(h, l)
      BY <2>1, <2>2, ErrorStep, TypedLocal
    <2>3. Temporary(Code(h, "offer.generate_pdf")) \in BOOLEAN  BY DEF Temporary
    <2>4. QED BY <1>5, <2>2, <2>3 DEF PdfFailed
  <1>6. QED BY <1>1, <1>2, <1>3, <1>4, <1>5

LEMMA RetryStep ==
    ASSUME EventInv, NEW h \in DOMAIN handling, Retry(h)
    PROVE  \E l : HandlerStep(h, l)
  <1>1. PICK x : x = handling[h]  OBVIOUS
  <1>2. /\ x.at \in InHand /\ x.retry \in 0..MaxRetries /\ MaxRetries \in Nat
        /\ Talks(h) /\ UNCHANGED <<event, recommendations, redelivered>>
    BY <1>1, TypedLocal, Silent DEF Retry, InHand, Places
  <1>3. {"again", "dropped", "failed"} \subseteq Tellings  BY DEF Tellings
  <1>4. ASSUME NEW t \in {"again", "dropped"}, Finish(h, t),
               x.retry < MaxRetries, queue' = Queued(x.event, NextRetry(x.retry), 1)
        PROVE  \E l : HandlerStep(h, l)
    <2>1. x.retry + 1 \in 0..MaxRetries  BY <1>2, <1>4
    <2>2. queue' = Queued(x.event, x.retry + 1, 1)  BY <1>4 DEF NextRetry
    <2>3. QED BY <1>1, <1>2, <1>3, <1>4, <2>1, <2>2, FinishStep
  <1>5. ASSUME NEW t \in {"dropped", "failed"}, Finish(h, t), UNCHANGED queue
        PROVE  \E l : HandlerStep(h, l)
    BY <1>1, <1>2, <1>3, <1>5, FinishStep
  <1>6. QED BY <1>1, <1>4, <1>5 DEF Retry

LEMMA AckStep ==
    ASSUME EventInv, NEW h \in DOMAIN handling, Ack(h)
    PROVE  \E l : HandlerStep(h, l)
  <1>1. /\ Leave(h, "over", "nothing") /\ Talks(h)
        /\ UNCHANGED <<event, queue, recommendations, redelivered>>
        /\ "over" \in Places /\ "nothing" \in Tellings
    BY Silent DEF Ack, rpcVars, Places, Tellings
  <1>2. PICK l : Turned(h, l) /\ l.at = "over" /\ l.told = "nothing"
    BY <1>1, TypedLocal, LeaveTurned
  <1>3. CourseOK(h, l) /\ Works(h, l)
    BY <1>1, <1>2 DEF CourseOK, Works, Loop, InHand
  <1>4. QED BY <1>1, <1>2, <1>3 DEF HandlerStep

LEMMA HandleStep ==
    ASSUME EventInv, NEW h \in DOMAIN handling, Handle(h)
    PROVE  \E l : HandlerStep(h, l)
  BY ListDealsStep, DealsListedStep, NextDealStep, DealReadStep, AdviseStep, AdvisedStep,
     ContinuationStep, RetryStep, AckStep DEF Handle
---------------------------------------------------------------------------
(* The invariant is kept.  Deliveries and rows only become more.           *)

Grows == /\ DOMAIN handling \subseteq DOMAIN handling'
         /\ DOMAIN recommendations \subseteq DOMAIN recommendations'

LEMMA GrownOK ==
    ASSUME Grows
    PROVE  /\ \A h, l : CourseOK(h, l) => CourseOK(h, l)'
           /\ \A q : RequestOK(q) => RequestOK(q)'
  BY DEF Grows, CourseOK, HasRow, RequestOK

LEMMA QueuedOK ==
    ASSUME QueueOK, NEW e \in Events, NEW k \in 0..MaxRetries, queue' = Queued(e, k, 1)
    PROVE  /\ queue' \in [Events -> [0..MaxRetries -> Nat]]
           /\ \A s \in Events, i \in 0..MaxRetries :
                 queue'[s][i] > 0 => queue[s][i] > 0 \/ s = e
  <1>1. /\ queue \in [Events -> [0..MaxRetries -> Nat]]
        /\ queue' = [queue EXCEPT ![e][k] = @ + 1]
    BY DEF QueueOK, Queued
  <1>2. \A s \in Events \ {e} : queue'[s] = queue[s]
    BY <1>1
  <1>3. queue[e][k] \in Nat  BY <1>1
  <1>4. queue[e][k] + 1 \in Nat  BY <1>3
  <1>5. queue' \in [Events -> [0..MaxRetries -> Nat]]
    BY <1>1, <1>4
  <1>6. QED BY <1>2, <1>5

LEMMA UnqueuedOK ==
    ASSUME QueueOK, NEW e \in Events, NEW k \in 0..MaxRetries, queue' = Queued(e, k, 0 - 1),
           queue[e][k] > 0
    PROVE  /\ queue' \in [Events -> [0..MaxRetries -> Nat]]
           /\ \A s \in Events, i \in 0..MaxRetries : queue'[s][i] > 0 => queue[s][i] > 0
  <1>1. /\ queue \in [Events -> [0..MaxRetries -> Nat]]
        /\ queue' = [queue EXCEPT ![e][k] = @ + (0 - 1)]
    BY DEF QueueOK, Queued
  <1>2. queue[e][k] \in Nat  BY <1>1
  <1>3. queue[e][k] + (0 - 1) \in Nat  BY <1>2
  <1>4. queue' \in [Events -> [0..MaxRetries -> Nat]]
    BY <1>1, <1>3
  <1>5. \A s \in Events \ {e} : queue'[s] = queue[s]
    BY <1>1
  <1>6. \A i \in 0..MaxRetries : queue'[e][i] > 0 => queue[e][i] > 0
    BY <1>1
  <1>7. QED BY <1>4, <1>5, <1>6

(* What the backend is at work on, it has been asked.                      *)
LEMMA WorkingStays ==
    ASSUME WorkingOK, Grows, UNCHANGED working
    PROVE  WorkingOK'
  <1> SUFFICES ASSUME working' # <<>>
               PROVE  \E q, result, sent :
                         /\ q \in RequestRec /\ RequestOK(q)'
                         /\ working' = <<[request |-> q, result |-> result, sent |-> sent]>>
                         /\ result = "ok" /\ Advises(q.id) => q.id \in DOMAIN recommendations'
    BY DEF WorkingOK
  <1>1. PICK q, result, sent :
           /\ q \in RequestRec /\ RequestOK(q)
           /\ working = <<[request |-> q, result |-> result, sent |-> sent]>>
           /\ result = "ok" /\ Advises(q.id) => q.id \in DOMAIN recommendations
    BY DEF WorkingOK
  <1>2. RequestOK(q)'  BY <1>1, GrownOK
  <1>3. working' = <<[request |-> q, result |-> result, sent |-> sent]>>
    BY <1>1
  <1>4. result = "ok" /\ Advises(q.id) => q.id \in DOMAIN recommendations'
    BY <1>1 DEF Grows
  <1>5. QED BY <1>1, <1>2, <1>3, <1>4

(* A step of the service that leaves the backend alone.                    *)
LEMMA BackendUnchanged ==
    ASSUME EventInv, Grows, UNCHANGED <<requests, working, recommendations>>
    PROVE  RequestsOK' /\ WorkingOK' /\ RowsOK'
  BY GrownOK, WorkingStays DEF EventInv, RequestsOK, RowsOK, Grows

Publishes(e) ==
    /\ event[e] = None /\ event'[e] # None
    /\ event' \in [Events -> EventMessages \cup {None}]
    /\ \A s \in Events \ {e} : event'[s] = event[s]
    /\ queue' = Queued(e, 0, 1)
    /\ UNCHANGED <<handling, redelivered>>

LEMMA PublishStep ==
    ASSUME EventInv, NEW e \in Events, NEW m \in EventMessages, Publish(e, m)
    PROVE  Publishes(e) /\ EventInv'
  <1>1. /\ EventOK /\ QueueOK /\ HandlingOK /\ 0 \in 0..MaxRetries
    BY EventAssumption DEF EventInv
  <1>2. Publishes(e)
    BY <1>1, EventAssumption DEF Publish, Publishes, EventOK
  <1>3. UNCHANGED <<rpcVars, recommendations, handling>>
    BY DEF Publish
  <1>4. EventOK'  BY <1>2 DEF Publishes, EventOK
  <1>5. QueueOK'
    BY <1>1, <1>2, QueuedOK DEF Publishes, QueueOK
  <1>6. HandlingOK'
    BY <1>1, <1>2, HandlingTyped DEF Publishes, HandlingOK
  <1>7. CoursesOK'
    BY <1>3, GrownOK DEF EventInv, CoursesOK, Grows
  <1>8. RequestsOK' /\ WorkingOK' /\ RowsOK'
    BY <1>3, BackendUnchanged DEF Grows, rpcVars
  <1>9. PendingOK'  BY <1>3 DEF EventInv, PendingOK, rpcVars
  <1>10. QED BY <1>2, <1>4, <1>5, <1>6, <1>7, <1>8, <1>9 DEF EventInv

Takes(e, k, n) ==
    /\ queue[e][k] > 0
    /\ queue' = Queued(e, k, 0 - 1)
    /\ n \notin DOMAIN handling /\ DOMAIN handling' = DOMAIN handling \cup {n}
    /\ \A g \in DOMAIN handling : handling'[g] = handling[g]
    /\ handling'[n].event = e /\ handling'[n].retry = k
    /\ UNCHANGED redelivered

LEMMA DeliverStep ==
    ASSUME EventInv, NEW e \in Events, NEW k \in 0..MaxRetries, Deliver(e, k)
    PROVE  EventInv' /\ \E n : Takes(e, k, n)
  <1>1. EventOK /\ QueueOK /\ HandlingOK /\ queue[e][k] > 0 /\ event[e] \in EventMessages
    BY DEF EventInv, Deliver, QueueOK, EventOK
  <1>2. PICK n : n = Len(handling) + 1  OBVIOUS
  <1>3. PICK l : /\ handling' = Append(handling, l)
                 /\ l = IF event[e].kind = "malformed"
                        THEN [NewHandling(e, k, "ack") EXCEPT !.told = "invalid"]
                        ELSE NewHandling(e, k, event[e].kind)
    BY DEF Deliver
  <1>4. /\ l \in LocalRec /\ l.event = e /\ l.retry = k
        /\ l.at \notin Loop /\ l.told # "done"
    <2>1. event[e].kind \in {"delay", "approved", "rejected", "malformed"}
      BY <1>1, EventAssumption DEF Kinds
    <2>2. <<>> \in Seq(AllDeals)  BY EmptySeq
    <2>3. CASE event[e].kind = "malformed"
      BY <1>3, <2>2, <2>3 DEF NewHandling, LocalRec, Places, Subjects, Tellings, Loop
    <2>4. CASE event[e].kind # "malformed"
      BY <1>3, <2>1, <2>2, <2>4 DEF NewHandling, LocalRec, Places, Subjects, Tellings, Loop
    <2>5. QED BY <2>3, <2>4
  <1>5. DOMAIN handling = 1..Len(handling) /\ Len(handling) \in Nat
    BY <1>1, HandlingTyped
  <1>6. /\ handling' \in Seq(LocalRec) /\ Len(handling') = Len(handling) + 1
        /\ \A i \in 1..Len(handling) : handling'[i] = handling[i]
        /\ handling'[n] = l
    BY <1>1, <1>2, <1>3, <1>4, AppendProperties DEF HandlingOK
  <1>7. DOMAIN handling' = 1..(Len(handling) + 1)
    BY <1>6, LenProperties
  <1>8. n \notin DOMAIN handling /\ DOMAIN handling' = DOMAIN handling \cup {n}
    BY <1>2, <1>5, <1>7
  <1>9. Takes(e, k, n)
    BY <1>1, <1>4, <1>5, <1>6, <1>8 DEF Takes, Deliver
  <1>10. UNCHANGED <<rpcVars, event, recommendations>> /\ Grows
    BY <1>8 DEF Deliver, Grows
  <1>11. QueueOK'
    BY <1>1, <1>9, <1>10, UnqueuedOK DEF Takes, QueueOK
  <1>12. HandlingOK'
    BY <1>1, <1>4, <1>5, <1>6, <1>8, <1>10, EventAssumption DEF HandlingOK
  <1>13. CoursesOK'
    <2>1. CourseOK(n, l)  BY <1>4 DEF CourseOK
    <2>2. CourseOK(n, handling[n])'  BY <1>6, <1>10, <2>1 DEF CourseOK, HasRow
    <2>3. ASSUME NEW g \in DOMAIN handling PROVE CourseOK(g, handling[g])'
      BY <1>5, <1>6, <1>10, <2>3 DEF EventInv, CoursesOK, CourseOK, HasRow
    <2>4. QED BY <1>8, <2>2, <2>3 DEF CoursesOK
  <1>14. RequestsOK' /\ WorkingOK' /\ RowsOK'
    BY <1>10, BackendUnchanged DEF rpcVars
  <1>15. PendingOK'  BY <1>10 DEF EventInv, PendingOK, rpcVars
  <1>16. EventOK'  BY <1>1, <1>10 DEF EventOK
  <1>17. QED BY <1>9, <1>11, <1>12, <1>13, <1>14, <1>15, <1>16 DEF EventInv

LEMMA HandlerInv ==
    ASSUME EventInv, NEW h \in DOMAIN handling, NEW l, HandlerStep(h, l)
    PROVE  EventInv'
  <1>1. EventOK /\ QueueOK /\ HandlingOK  BY DEF EventInv
  <1>2. /\ Turned(h, l) /\ CourseOK(h, l) /\ Talks(h)
        /\ UNCHANGED <<event, recommendations>>
    BY DEF HandlerStep
  <1>3. Grows  BY <1>2 DEF Turned, Grows
  <1>4. handling[h].event \in Events /\ event[handling[h].event] # None
    BY <1>1, HandlingTyped DEF HandlingOK
  <1>5. QueueOK'
    <2>1. CASE UNCHANGED queue  BY <1>1, <1>2, <2>1 DEF QueueOK
    <2>2. ASSUME NEW k \in 0..MaxRetries, queue' = Queued(handling[h].event, k, 1)
          PROVE  QueueOK'
      BY <1>1, <1>2, <1>4, <2>2, QueuedOK DEF QueueOK
    <2>3. QED BY <2>1, <2>2 DEF HandlerStep, Works, PassesOn
  <1>6. HandlingOK'
    <2>1. handling' \in Seq(LocalRec)  BY <1>2 DEF Turned
    <2>2. \A g \in DOMAIN handling' : event'[handling'[g].event] # None
      BY <1>1, <1>2, <1>4 DEF Turned, HandlingOK
    <2>3. QED BY <2>1, <2>2 DEF HandlingOK
  <1>7. CoursesOK'
    <2>1. \A g \in DOMAIN handling : CourseOK(g, IF g = h THEN l ELSE handling[g])
      BY <1>2 DEF EventInv, CoursesOK
    <2>2. \A g \in DOMAIN handling' : CourseOK(g, handling'[g])
      BY <1>2, <2>1 DEF Turned
    <2>3. QED BY <1>2, <2>2 DEF CoursesOK, CourseOK, HasRow
  <1>8. RequestsOK' /\ WorkingOK' /\ RowsOK'
    <2>1. CASE UNCHANGED requests
      BY <1>2, <1>3, <2>1, BackendUnchanged DEF Talks
    <2>2. ASSUME NEW q \in RequestRec, q.id[1] = h, q.id[2] = q.op,
                 requests' = Append(requests, q)
          PROVE  RequestsOK'
      <3>1. RequestOK(q)  BY <2>2 DEF RequestOK
      <3>2. /\ requests' \in Seq(RequestRec) /\ Len(requests') = Len(requests) + 1
            /\ \A i \in 1..Len(requests) : requests'[i] = requests[i]
            /\ requests'[Len(requests) + 1] = q
            /\ DOMAIN requests = 1..Len(requests) /\ Len(requests) \in Nat
            /\ DOMAIN requests' = 1..(Len(requests) + 1)
        <4>1. requests \in Seq(RequestRec)  BY DEF EventInv, RequestsOK
        <4>2. QED BY <2>2, <4>1, AppendProperties, LenProperties
      <3>3. \A i \in DOMAIN requests' : RequestOK(requests'[i])
        BY <3>1, <3>2 DEF EventInv, RequestsOK
      <3>4. \A i \in DOMAIN requests', r \in RequestRec : requests'[i] = r => RequestOK(r)'
        BY <1>3, <3>3, GrownOK
      <3>5. \A i \in DOMAIN requests' : requests'[i] \in RequestRec
        BY <3>2, ElementOfSeq
      <3>6. QED BY <3>2, <3>4, <3>5 DEF RequestsOK
    <2>3. WorkingOK'
      <3>1. UNCHANGED working  BY <1>2 DEF Talks
      <3>2. QED BY <1>2, <1>3, <3>1, WorkingStays DEF EventInv
    <2>4. RowsOK'  BY <1>2, <1>3 DEF EventInv, RowsOK, Grows
    <2>5. QED BY <1>2, <2>1, <2>2, <2>3, <2>4 DEF Talks
  <1>9. PendingOK'
    BY <1>2 DEF EventInv, PendingOK, Talks
  <1>10. EventOK'  BY <1>1, <1>2 DEF EventOK
  <1>11. QED BY <1>5, <1>6, <1>7, <1>8, <1>9, <1>10 DEF EventInv
---------------------------------------------------------------------------
(* The broker takes deliveries back, whether their handlers are gone or go *)
(* on: Held(e, k) of those of e with counter k.                            *)

HeldOf(e) == Cardinality(HeldHandlings \cap HandlingsOf(e))

TakesBack ==
    /\ TakenBack
    /\ DOMAIN handling' = DOMAIN handling
    /\ \A g \in DOMAIN handling :
          \/ handling'[g] = handling[g]
          \/ handling'[g] = NewHandling(handling[g].event, handling[g].retry, "over")

LEMMA HeldIsNat ==
    ASSUME HandlingOK, NEW e \in Events, NEW k \in 0..MaxRetries
    PROVE  /\ Held(e, k) \in Nat
           /\ Held(e, k) > 0 => event[e] # None
  <1> DEFINE S == {h \in HeldHandlings \cap HandlingsOf(e) : handling[h].retry = k}
  <1>1. DOMAIN handling = 1..Len(handling) /\ Len(handling) \in Nat
    BY HandlingTyped
  <1>2. IsFiniteSet(1..Len(handling))  BY <1>1, FS_Interval
  <1>3. S \subseteq 1..Len(handling)  BY <1>1 DEF HeldHandlings, LiveHandlings
  <1>4. IsFiniteSet(S)  BY <1>2, <1>3, FS_Subset
  <1>5. Cardinality(S) \in Nat /\ (Cardinality(S) = 0 <=> S = {})
    BY <1>4, FS_CardinalityType, FS_EmptySet
  <1>6. S # {} => event[e] # None
    BY DEF HandlingsOf, HandlingOK
  <1>7. QED BY <1>5, <1>6 DEF Held

LEMMA TakenBackInv ==
    ASSUME EventInv, RestartAgent \/ Reconnect
    PROVE  TakesBack /\ EventInv'
  <1>1. /\ EventOK /\ QueueOK /\ HandlingOK /\ TakenBack
        /\ UNCHANGED <<event, requests, working, recommendations>>
    BY DEF EventInv, RestartAgent, RestartClient, Reconnect
  <1>2. DOMAIN handling = 1..Len(handling) /\ Len(handling) \in Nat
    BY <1>1, HandlingTyped
  <1>3. /\ DOMAIN handling' = DOMAIN handling
        /\ \A h \in DOMAIN handling :
              \/ handling'[h] = NewHandling(handling[h].event, handling[h].retry, "over")
              \/ handling'[h] = handling[h]
    BY DEF RestartAgent, Reconnect
  <1>4. ASSUME NEW h \in DOMAIN handling
        PROVE  /\ handling'[h] \in LocalRec /\ handling'[h].event = handling[h].event
               /\ CourseOK(h, handling'[h])
    <2>1. CASE handling'[h] = handling[h]
      BY <1>1, <2>1, HandlingTyped DEF EventInv, CoursesOK
    <2>2. CASE handling'[h] = NewHandling(handling[h].event, handling[h].retry, "over")
      <3>1. PICK l : l = NewHandling(handling[h].event, handling[h].retry, "over")
        OBVIOUS
      <3>2. <<>> \in Seq(AllDeals)  BY EmptySeq
      <3>3. /\ l \in LocalRec /\ l.event = handling[h].event
            /\ l.at \notin Loop /\ l.told # "done"
        BY <1>1, <3>1, <3>2, HandlingTyped
           DEF NewHandling, LocalRec, Places, Subjects, Tellings, Loop
      <3>4. CourseOK(h, l)  BY <3>3 DEF CourseOK
      <3>5. QED BY <2>2, <3>1, <3>3, <3>4
    <2>3. QED BY <1>3, <2>1, <2>2
  <1>5. HandlingOK'
    <2>1. CASE RestartAgent
      <3>1. handling' \in [1..Len(handling) -> LocalRec]
        BY <1>2, <1>3, <1>4, <2>1 DEF RestartAgent
      <3>2. handling' \in Seq(LocalRec)  BY <1>2, <3>1
      <3>3. QED BY <1>1, <1>3, <1>4, <3>2 DEF HandlingOK
    <2>2. CASE Reconnect  BY <1>1, <2>2 DEF Reconnect, HandlingOK
    <2>3. QED BY <2>1, <2>2
  <1>6. CoursesOK'
    BY <1>1, <1>3, <1>4 DEF CoursesOK, CourseOK, HasRow
  <1>7. QueueOK'
    <2>1. queue' = [e \in Events |-> [k \in 0..MaxRetries |-> queue[e][k] + Held(e, k)]]
      BY <1>1 DEF TakenBack
    <2>2. ASSUME NEW e \in Events, NEW k \in 0..MaxRetries
          PROVE  /\ queue[e][k] + Held(e, k) \in Nat
                 /\ queue[e][k] + Held(e, k) > 0 => event[e] # None
      <3>1. queue[e] \in [0..MaxRetries -> Nat]  BY <1>1 DEF QueueOK
      <3>2. queue[e][k] \in Nat /\ (queue[e][k] > 0 => event[e] # None)
        BY <1>1, <3>1 DEF QueueOK
      <3>3. Held(e, k) \in Nat /\ (Held(e, k) > 0 => event[e] # None)
        BY <1>1, HeldIsNat
      <3>4. QED BY <3>2, <3>3
    <2>3. queue' \in [Events -> [0..MaxRetries -> Nat]]
      BY <2>1, <2>2
    <2>4. \A e \in Events : \A k \in 0..MaxRetries : queue'[e][k] > 0 => event'[e] # None
      BY <1>1, <2>1, <2>2
    <2>5. QED BY <2>3, <2>4 DEF QueueOK
  <1>8. RequestsOK' /\ WorkingOK' /\ RowsOK'
    BY <1>1, <1>3, BackendUnchanged DEF Grows
  <1>9. PendingOK'
    BY DEF RestartAgent, RestartClient, Reconnect, PendingOK, EventInv
  <1>10. EventOK'  BY <1>1 DEF EventOK
  <1>11. TakesBack  BY <1>1, <1>3 DEF TakesBack
  <1>12. QED BY <1>5, <1>6, <1>7, <1>8, <1>9, <1>10, <1>11 DEF EventInv

---------------------------------------------------------------------------
(* The backend.                                                            *)

LEMMA BackendStep ==
    ASSUME EventInv, Grows, UNCHANGED eventVars,
           RequestsOK', WorkingOK', PendingOK', RowsOK'
    PROVE  EventInv'
  <1>1. EventOK' /\ QueueOK' /\ HandlingOK'
    BY DEF EventInv, EventOK, QueueOK, HandlingOK, eventVars
  <1>2. CoursesOK'
    BY GrownOK DEF EventInv, CoursesOK, eventVars
  <1>3. QED BY <1>1, <1>2 DEF EventInv

(* Requests are taken from the front, or put back there.                   *)
LEMMA FirstRequest ==
    ASSUME RequestsOK, requests # <<>>, UNCHANGED handling, requests' = Tail(requests)
    PROVE  RequestsOK' /\ Head(requests) \in RequestRec /\ RequestOK(Head(requests))
  <1>1. requests \in Seq(RequestRec)  BY DEF RequestsOK
  <1>2. /\ Head(requests) \in RequestRec /\ requests' \in Seq(RequestRec)
        /\ Len(requests') = Len(requests) - 1
        /\ \A i \in 1..Len(requests') : requests'[i] = requests[i + 1]
    BY <1>1, HeadTailProperties
  <1>3. /\ DOMAIN requests = 1..Len(requests) /\ Len(requests) \in Nat \ {0}
        /\ DOMAIN requests' = 1..Len(requests')
    BY <1>1, <1>2, LenProperties, EmptySeq
  <1>4. Head(requests) = requests[1] /\ 1 \in DOMAIN requests  BY <1>1, <1>3
  <1>5. \A i \in DOMAIN requests' : i + 1 \in DOMAIN requests
    BY <1>2, <1>3
  <1>6. \A i \in DOMAIN requests' : RequestOK(requests'[i])
    BY <1>2, <1>3, <1>5 DEF RequestsOK
  <1>7. RequestsOK'
    BY <1>2, <1>6 DEF RequestsOK, RequestOK
  <1>8. QED BY <1>2, <1>4, <1>7 DEF RequestsOK

LEMMA RequeueOK ==
    ASSUME RequestsOK, WorkingOK, working # <<>>, Requeue, UNCHANGED handling
    PROVE  RequestsOK'
  <1>1. PICK q \in RequestRec : q = working[1].request /\ RequestOK(q)
    BY DEF WorkingOK
  <1>2. requests \in Seq(RequestRec) /\ <<q>> \in Seq(RequestRec)
    BY DEF RequestsOK
  <1>3. requests' = <<q>> \o requests  BY <1>1 DEF Requeue
  <1>4. /\ requests' \in Seq(RequestRec) /\ Len(requests') = 1 + Len(requests)
        /\ \A i \in 1..1 + Len(requests) :
              requests'[i] = IF i <= 1 THEN <<q>>[i] ELSE requests[i - 1]
    BY <1>2, <1>3, ConcatProperties
  <1>5. /\ DOMAIN requests = 1..Len(requests) /\ Len(requests) \in Nat
        /\ DOMAIN requests' = 1..Len(requests')
    BY <1>2, <1>4, LenProperties
  <1>6. ASSUME NEW i \in DOMAIN requests'
        PROVE  RequestOK(requests'[i])
    <2>1. CASE i = 1  BY <1>1, <1>4, <1>5, <2>1
    <2>2. CASE i # 1
      <3>1. i - 1 \in DOMAIN requests /\ requests'[i] = requests[i - 1]
        BY <1>4, <1>5, <2>2
      <3>2. QED BY <3>1 DEF RequestsOK
    <2>3. QED BY <2>1, <2>2
  <1>7. QED BY <1>4, <1>6 DEF RequestsOK, RequestOK

(* A row is stored once, for the request that asks for it.                 *)
LEMMA StoredOK ==
    ASSUME RowsOK, NEW q \in RequestRec, RequestOK(q), Advises(q.id), UNCHANGED handling,
           recommendations' = Stored(recommendations, q.id)
    PROVE  RowsOK' /\ Grows /\ q.id \in DOMAIN recommendations'
  <1>1. PICK id : id = q.id  OBVIOUS
  <1>2. /\ id \in Nat \X Ops \X Subjects /\ Advises(id)
        /\ id[1] \in DOMAIN handling \/ id[3] = None
    BY <1>1 DEF RequestRec, RequestOK
  <1>3. CASE id \in DOMAIN recommendations
    <2>1. UNCHANGED recommendations  BY <1>1, <1>3 DEF Stored
    <2>2. QED BY <1>1, <1>3, <2>1 DEF RowsOK, Grows
  <1>4. CASE id \notin DOMAIN recommendations
    <2>1. recommendations' = Put(recommendations, id, 1)  BY <1>1, <1>4 DEF Stored
    <2>2. /\ DOMAIN recommendations' = DOMAIN recommendations \cup {id}
          /\ \A x \in DOMAIN recommendations' :
                recommendations'[x] = IF x = id THEN 1 ELSE recommendations[x]
      BY <2>1 DEF Put
    <2>3. QED BY <1>1, <1>2, <2>2 DEF RowsOK, Grows
  <1>5. QED BY <1>3, <1>4

LEMMA ServeInv ==
    ASSUME EventInv, ServeRequest, UNCHANGED eventVars
    PROVE  EventInv'
  <1>1. PICK q : q = Head(requests)  OBVIOUS
  <1>2. /\ requests # <<>> /\ requests' = Tail(requests) /\ UNCHANGED <<handling, pending>>
        /\ RequestsOK /\ RowsOK
    BY DEF ServeRequest, eventVars, EventInv
  <1>3. RequestsOK' /\ q \in RequestRec /\ RequestOK(q)
    BY <1>1, <1>2, FirstRequest
  <1>4. Advises(q.id) <=> q.op = "recommendation.create"
    BY <1>3 DEF Advises, RequestOK
  <1>5. PICK result : working' = <<[request |-> q, result |-> result, sent |-> FALSE]>>
                      /\ \/ UNCHANGED recommendations /\ (result = "ok" => ~Advises(q.id))
                         \/ /\ Advises(q.id)
                            /\ recommendations' = Stored(recommendations, q.id)
    <2>1. CASE q.op # "recommendation.create"
      BY <1>1, <1>4, <2>1 DEF ServeRequest
    <2>2. CASE q.op = "recommendation.create"
      BY <1>1, <1>4, <2>2 DEF ServeRequest
    <2>3. QED BY <2>1, <2>2
  <1>6. /\ RowsOK' /\ Grows
        /\ result = "ok" /\ Advises(q.id) => q.id \in DOMAIN recommendations'
    <2>1. CASE UNCHANGED recommendations /\ (result = "ok" => ~Advises(q.id))
      BY <1>2, <2>1 DEF RowsOK, Grows
    <2>2. CASE Advises(q.id) /\ recommendations' = Stored(recommendations, q.id)
      BY <1>2, <1>3, <2>2, StoredOK
    <2>3. QED BY <1>5, <2>1, <2>2
  <1>7. WorkingOK'
    <2>1. RequestOK(q)'  BY <1>3, <1>6, GrownOK
    <2>2. QED BY <1>3, <1>5, <1>6, <2>1 DEF WorkingOK
  <1>8. PendingOK'
    BY <1>2, <1>6 DEF EventInv, PendingOK, Grows
  <1>9. QED BY <1>3, <1>6, <1>7, <1>8, BackendStep

(* The record of what the backend is at work on, once it has answered.     *)
LEMMA SentRecord ==
    ASSUME NEW q, NEW result, NEW sent
    PROVE  [[request |-> q, result |-> result, sent |-> sent] EXCEPT !.sent = TRUE]
             = [request |-> q, result |-> result, sent |-> TRUE]
  <1> DEFINE w == [request |-> q, result |-> result, sent |-> sent]
             W == [request : {q}, result : {result}, sent : {sent, TRUE}]
  <1>1. w \in W  OBVIOUS
  <1>2. [w EXCEPT !.sent = TRUE] \in W  BY <1>1
  <1>3. [w EXCEPT !.sent = TRUE].sent = TRUE  BY <1>1
  <1>4. [request |-> q, result |-> result, sent |-> TRUE] \in W  OBVIOUS
  <1>5. ASSUME NEW x \in W, NEW y \in W, x.sent = y.sent
        PROVE  x = y
    <2>1. x.request = y.request /\ x.result = y.result  OBVIOUS
    <2>2. QED BY <1>5, <2>1
  <1> HIDE DEF W
  <1>6. QED BY <1>2, <1>3, <1>4, <1>5

LEMMA AnswerInv ==
    ASSUME EventInv, AnswerRequest, UNCHANGED eventVars
    PROVE  EventInv'
  <1>1. UNCHANGED <<handling, recommendations>> /\ Grows
    BY DEF AnswerRequest, eventVars, Grows
  <1>2. RequestsOK /\ WorkingOK /\ PendingOK /\ RowsOK /\ working # <<>>
    BY DEF AnswerRequest, EventInv
  <1>3. PICK q, result, sent :
             /\ q \in RequestRec /\ RequestOK(q)
             /\ working = <<[request |-> q, result |-> result, sent |-> sent]>>
             /\ result = "ok" /\ Advises(q.id) => q.id \in DOMAIN recommendations
    BY <1>2 DEF WorkingOK
  <1>4. RowsOK'  BY <1>1, <1>2 DEF RowsOK
  <1>5. CASE /\ pending' = [c \in DOMAIN pending |->
                    IF c = working[1].request.id /\ pending[c] = Waiting
                    THEN working[1].result ELSE pending[c]]
             /\ working' = <<[working[1] EXCEPT !.sent = TRUE]>>
             /\ UNCHANGED requests
    <2>1. PendingOK'
      BY <1>1, <1>2, <1>3, <1>5 DEF PendingOK
    <2>2. RequestsOK'  BY <1>1, <1>2, <1>5 DEF RequestsOK, RequestOK
    <2>3. WorkingOK'
      <3>1. working[1] = [request |-> q, result |-> result, sent |-> sent]
        BY <1>3
      <3>2. [working[1] EXCEPT !.sent = TRUE]
               = [request |-> q, result |-> result, sent |-> TRUE]
        BY <3>1, SentRecord
      <3>3. working' = <<[request |-> q, result |-> result, sent |-> TRUE]>>
        BY <1>5, <3>2
      <3>4. RequestOK(q)'  BY <1>1, <1>3 DEF RequestOK
      <3>5. result = "ok" /\ Advises(q.id) => q.id \in DOMAIN recommendations'
        BY <1>1, <1>3
      <3>6. QED BY <1>3, <3>3, <3>4, <3>5 DEF WorkingOK
    <2>4. QED BY <1>1, <1>4, <2>1, <2>2, <2>3, BackendStep
  <1>6. CASE Requeue /\ working' = <<>> /\ UNCHANGED pending
    <2>1. RequestsOK'  BY <1>1, <1>2, <1>6, RequeueOK
    <2>2. WorkingOK'  BY <1>6 DEF WorkingOK
    <2>3. PendingOK'  BY <1>1, <1>2, <1>6 DEF PendingOK
    <2>4. QED BY <1>1, <1>4, <2>1, <2>2, <2>3, BackendStep
  <1>7. QED BY <1>5, <1>6 DEF AnswerRequest

LEMMA OtherInv ==
    ASSUME EventInv, AckRequest \/ CrashBackend \/ CloseClient,
           UNCHANGED <<eventVars, recommendations>>
    PROVE  EventInv'
  <1>1. UNCHANGED <<handling, recommendations>> /\ Grows
    BY DEF eventVars, Grows
  <1>2. RequestsOK /\ WorkingOK /\ PendingOK /\ RowsOK
    BY DEF EventInv
  <1>3. RowsOK'  BY <1>1, <1>2 DEF RowsOK
  <1>4. RequestsOK'
    <2>1. CASE UNCHANGED requests  BY <1>1, <1>2, <2>1 DEF RequestsOK, RequestOK
    <2>2. CASE CrashBackend
      BY <1>1, <1>2, <2>2, RequeueOK DEF CrashBackend
    <2>3. QED BY <2>1, <2>2 DEF AckRequest, CloseClient
  <1>5. WorkingOK'
    <2>1. CASE working' = <<>>  BY <2>1 DEF WorkingOK
    <2>2. CASE UNCHANGED working  BY <1>1, <1>2, <2>2, WorkingStays
    <2>3. QED BY <2>1, <2>2 DEF AckRequest, CrashBackend, CloseClient
  <1>6. PendingOK'
    <2>1. \A id \in DOMAIN pending' : pending'[id] = "ok" => id \in DOMAIN pending
                                                             /\ pending[id] = "ok"
      BY DEF AckRequest, CrashBackend, CloseClient
    <2>2. QED BY <1>1, <1>2, <2>1 DEF PendingOK
  <1>7. QED BY <1>1, <1>3, <1>4, <1>5, <1>6, BackendStep

LEMMA ForeignInv ==
    ASSUME EventInv, NEW op \in ForeignOps, ForeignCall(op)
    PROVE  EventInv'
  <1>1. /\ UNCHANGED <<handling, recommendations, working, pending>> /\ Grows
        /\ UNCHANGED eventVars
    BY DEF ForeignCall, eventVars, Grows
  <1>2. WorkingOK /\ PendingOK /\ RowsOK  BY DEF EventInv
  <1>3. PICK q : q = [id |-> <<0, op, None>>, op |-> op, absent |-> {"complex"}]
    OBVIOUS
  <1>4. q \in RequestRec /\ q.id[2] = q.op /\ q.id[3] = None
    BY <1>3 DEF RequestRec, Ops, Subjects
  <1>5. requests' = <<q>>  BY <1>3 DEF ForeignCall
  <1>6. requests' \in Seq(RequestRec) /\ \A i \in DOMAIN requests' : requests'[i] = q
    BY <1>4, <1>5
  <1>7. RequestsOK'  BY <1>4, <1>6 DEF RequestsOK, RequestOK
  <1>8. WorkingOK' /\ PendingOK' /\ RowsOK'
    BY <1>1, <1>2, WorkingStays DEF PendingOK, RowsOK
  <1>9. QED BY <1>1, <1>7, <1>8, BackendStep

(* The kinds of steps, as far as the deliveries are concerned.             *)
Rests == UNCHANGED <<event, queue, handling, redelivered>>

LEMMA StepKinds ==
    ASSUME EventInv, [Next]_vars
    PROVE  /\ \/ Rests
              \/ \E e \in Events : Publishes(e)
              \/ \E e \in Events, k \in 0..MaxRetries : \E n : Takes(e, k, n)
              \/ \E h \in DOMAIN handling : \E l : HandlerStep(h, l)
              \/ TakesBack
           /\ EventInv'
  <1>1. CASE UNCHANGED vars
    <2>1. UNCHANGED <<eventVars, recommendations, requests, working, pending>> /\ Grows
      BY <1>1 DEF vars, rpcVars, Grows, eventVars
    <2>2. WorkingOK'  BY <2>1, WorkingStays DEF EventInv
    <2>3. RequestsOK' /\ PendingOK' /\ RowsOK'
      BY <2>1 DEF EventInv, RequestsOK, RequestOK, PendingOK, RowsOK, eventVars
    <2>4. QED BY <2>1, <2>2, <2>3, BackendStep DEF Rests, eventVars
  <1>2. CASE \/ ServeRequest /\ UNCHANGED eventVars
             \/ AnswerRequest /\ UNCHANGED eventVars
             \/ (AckRequest \/ CrashBackend \/ CloseClient)
                /\ UNCHANGED <<eventVars, recommendations>>
             \/ \E op \in ForeignOps : ForeignCall(op)
    <2>1. EventInv'  BY <1>2, ServeInv, AnswerInv, OtherInv, ForeignInv
    <2>2. Rests  BY <1>2 DEF ForeignCall, eventVars, Rests
    <2>3. QED BY <2>1, <2>2
  <1>3. CASE \E e \in Events, m \in EventMessages : Publish(e, m)
    BY <1>3, PublishStep
  <1>4. CASE Take  BY <1>4, DeliverStep DEF Take
  <1>5. CASE \E h \in DOMAIN handling : Handle(h)
    BY <1>5, HandleStep, HandlerInv
  <1>6. CASE RestartAgent \/ Reconnect  BY <1>6, TakenBackInv
  <1>7. QED BY <1>1, <1>2, <1>3, <1>4, <1>5, <1>6 DEF Next

LEMMA InitInv == Init => EventInv
  <1> SUFFICES ASSUME Init PROVE EventInv
    OBVIOUS
  <1>1. EventOK /\ PendingOK
    BY DEF Init, RpcInit, EventOK, PendingOK
  <1>2. QueueOK
    <2>1. queue = [e \in Events |-> [k \in 0..MaxRetries |-> 0]]  BY DEF Init
    <2>2. \A e \in Events : queue[e] = [k \in 0..MaxRetries |-> 0]  BY <2>1
    <2>3. QED BY <2>1, <2>2 DEF QueueOK
  <1>3. handling \in Seq(LocalRec) /\ DOMAIN handling = {}
    BY EmptySeq DEF Init
  <1>4. requests \in Seq(RequestRec) /\ DOMAIN requests = {} /\ working = <<>>
    BY EmptySeq DEF Init, RpcInit
  <1>5. DOMAIN recommendations = {}  BY DEF Init
  <1>6. QED BY <1>1, <1>2, <1>3, <1>4, <1>5
            DEF EventInv, HandlingOK, CoursesOK, RequestsOK, WorkingOK, RowsOK

LEMMA Always == Spec => []EventInv
  BY InitInv, StepKinds, PTL DEF Spec

(* A run that reports DONE has stored a recommendation for every deal it   *)
(* was told of: in the loop, a deal has its row, or is still to be dealt   *)
(* with, or the run has failed for good; and the backend answers "ok" to   *)
(* what it has stored, whichever run hears of it                           *)
(* (workflows/construction_delay.py).                                      *)
THEOREM DoneIsAdvised == Spec => []DoneMeansAdvised
  <1>1. EventInv => DoneMeansAdvised
    BY DEF EventInv, CoursesOK, CourseOK, HasRow, DoneMeansAdvised
  <1>2. QED BY <1>1, Always, PTL
---------------------------------------------------------------------------
(* Counting the copies of an event that are queued.                        *)

Copies(e) == {c \in (0..MaxRetries) \X (Nat \ {0}) : c[2] <= queue[e][c[1]]}

CopiesOK ==
    /\ redelivered \in [Events -> Nat]
    /\ \A e \in Events : IsFiniteSet(Copies(e))

LEMMA CopyAdded ==
    ASSUME QueueOK, NEW e \in Events, NEW k \in 0..MaxRetries, queue' = Queued(e, k, 1)
    PROVE  /\ Copies(e)' = Copies(e) \cup {<<k, queue[e][k] + 1>>}
           /\ <<k, queue[e][k] + 1>> \notin Copies(e)
           /\ \A s \in Events \ {e} : Copies(s)' = Copies(s)
  <1>1. /\ queue \in [Events -> [0..MaxRetries -> Nat]]
        /\ queue' = [queue EXCEPT ![e][k] = @ + 1]
    BY DEF QueueOK, Queued
  <1>2. \A i \in 0..MaxRetries : queue[e][i] \in Nat
    BY <1>1
  <1>3. \A i \in 0..MaxRetries : queue'[e][i] = IF i = k THEN queue[e][i] + 1 ELSE queue[e][i]
    BY <1>1
  <1>4. \A s \in Events \ {e} : queue'[s] = queue[s]
    BY <1>1
  <1>5. ASSUME NEW c \in (0..MaxRetries) \X (Nat \ {0})
        PROVE  c[2] <= queue'[e][c[1]] <=> c[2] <= queue[e][c[1]] \/ c = <<k, queue[e][k] + 1>>
    <2>1. PICK i \in 0..MaxRetries, n \in Nat \ {0} : c = <<i, n>>  OBVIOUS
    <2>2. n <= queue'[e][i] <=> n <= queue[e][i] \/ (i = k /\ n = queue[e][k] + 1)
      BY <1>2, <1>3
    <2>3. QED BY <2>1, <2>2
  <1>6. <<k, queue[e][k] + 1>> \in (0..MaxRetries) \X (Nat \ {0})
    BY <1>2
  <1>7. Copies(e)' = Copies(e) \cup {<<k, queue[e][k] + 1>>}
    BY <1>5, <1>6 DEF Copies
  <1>8. <<k, queue[e][k] + 1>> \notin Copies(e)
    BY <1>2 DEF Copies
  <1>9. QED BY <1>4, <1>7, <1>8 DEF Copies

LEMMA CopyTaken ==
    ASSUME QueueOK, NEW e \in Events, NEW k \in 0..MaxRetries, queue[e][k] > 0,
           queue' = Queued(e, k, 0 - 1)
    PROVE  /\ Copies(e)' = Copies(e) \ {<<k, queue[e][k]>>}
           /\ <<k, queue[e][k]>> \in Copies(e)
           /\ \A s \in Events \ {e} : Copies(s)' = Copies(s)
  <1>1. /\ queue \in [Events -> [0..MaxRetries -> Nat]]
        /\ queue' = [queue EXCEPT ![e][k] = @ + (0 - 1)]
    BY DEF QueueOK, Queued
  <1>2. \A i \in 0..MaxRetries : queue[e][i] \in Nat
    BY <1>1
  <1>3. \A i \in 0..MaxRetries : queue'[e][i] = IF i = k THEN queue[e][i] - 1 ELSE queue[e][i]
    <2>1. \A i \in 0..MaxRetries :
             queue'[e][i] = IF i = k THEN queue[e][i] + (0 - 1) ELSE queue[e][i]
      BY <1>1
    <2>2. \A n \in Nat : n + (0 - 1) = n - 1  OBVIOUS
    <2>3. QED BY <1>2, <2>1, <2>2
  <1>4. \A s \in Events \ {e} : queue'[s] = queue[s]
    BY <1>1
  <1>5. ASSUME NEW c \in (0..MaxRetries) \X (Nat \ {0})
        PROVE  c[2] <= queue'[e][c[1]] <=> c[2] <= queue[e][c[1]] /\ c # <<k, queue[e][k]>>
    <2>1. PICK i \in 0..MaxRetries, n \in Nat \ {0} : c = <<i, n>>  OBVIOUS
    <2>2. n <= queue'[e][i] <=> n <= queue[e][i] /\ ~(i = k /\ n = queue[e][k])
      BY <1>2, <1>3
    <2>3. QED BY <2>1, <2>2
  <1>6. <<k, queue[e][k]>> \in (0..MaxRetries) \X (Nat \ {0})
    BY <1>2
  <1>7. Copies(e)' = Copies(e) \ {<<k, queue[e][k]>>}
    BY <1>5 DEF Copies
  <1>8. <<k, queue[e][k]>> \in Copies(e)
    BY <1>2, <1>6 DEF Copies
  <1>9. QED BY <1>4, <1>7, <1>8 DEF Copies

(* Nobody has seen an event that was not published.                        *)
LEMMA UnpublishedIsNowhere ==
    ASSUME EventInv, NEW e \in Events, event[e] = None
    PROVE  Copies(e) = {} /\ \A h \in DOMAIN handling : handling[h].event # e
  <1>1. \A h \in DOMAIN handling : handling[h].event # e
    BY DEF EventInv, HandlingOK
  <1>2. queue[e] \in [0..MaxRetries -> Nat] /\ \A k \in 0..MaxRetries : ~(queue[e][k] > 0)
    BY DEF EventInv, QueueOK
  <1>3. ASSUME NEW c \in Copies(e) PROVE FALSE
    <2>1. PICK i \in 0..MaxRetries, n \in Nat \ {0} : c = <<i, n>> /\ n <= queue[e][i]
      BY DEF Copies
    <2>2. queue[e][i] \in Nat /\ ~(queue[e][i] > 0)  BY <1>2
    <2>3. QED BY <2>1, <2>2
  <1>4. QED BY <1>1, <1>3

(* There is a copy more for each delivery taken back.                      *)
LEMMA CopiesBack ==
    ASSUME HandlingOK, QueueOK, TakenBack, NEW e \in Events, IsFiniteSet(Copies(e))
    PROVE  \E new : /\ Copies(e)' = Copies(e) \cup new /\ IsFiniteSet(new)
                    /\ Copies(e) \cap new = {}
                    /\ Cardinality(new) <= HeldOf(e) /\ HeldOf(e) \in Nat
  <1> DEFINE new == Copies(e)' \ Copies(e)
             back == HeldHandlings \cap HandlingsOf(e)
             S(k) == {h \in back : handling[h].retry = k}
             b(k) == CHOOSE f : f \in Bijection(1..Held(e, k), S(k))
             g == [c \in new |-> b(c[1])[c[2] - queue[e][c[1]]]]
  <1>1. DOMAIN handling = 1..Len(handling) /\ Len(handling) \in Nat
    BY HandlingTyped
  <1>2. IsFiniteSet(back) /\ Cardinality(back) = HeldOf(e)
    <2>1. back \subseteq 1..Len(handling)  BY <1>1 DEF HeldHandlings, LiveHandlings
    <2>2. IsFiniteSet(1..Len(handling))  BY <1>1, FS_Interval
    <2>3. QED BY <2>1, <2>2, FS_Subset DEF HeldOf
  <1>3. ASSUME NEW k \in 0..MaxRetries
        PROVE  /\ b(k) \in Bijection(1..Held(e, k), S(k)) /\ S(k) \subseteq back
               /\ Held(e, k) \in Nat
    <2>1. S(k) \subseteq back  OBVIOUS
    <2>2. IsFiniteSet(S(k))  BY <1>2, <2>1, FS_Subset
    <2>3. Held(e, k) = Cardinality(S(k))  BY DEF Held
    <2>4. Held(e, k) \in Nat /\ \E f : f \in Bijection(1..Held(e, k), S(k))
      BY <2>2, <2>3, FS_CardinalityType DEF ExistsBijection
    <2>5. QED BY <2>1, <2>4
  <1>4. \A k \in 0..MaxRetries : /\ queue[e][k] \in Nat /\ Held(e, k) \in Nat
                                /\ queue'[e][k] = queue[e][k] + Held(e, k)
    <2>1. queue[e] \in [0..MaxRetries -> Nat]  BY DEF QueueOK
    <2>2. \A k \in 0..MaxRetries : Held(e, k) \in Nat  BY HeldIsNat
    <2>3. QED BY <2>1, <2>2 DEF TakenBack
  <1>5. Copies(e) \subseteq Copies(e)'
    <2>1. ASSUME NEW c \in Copies(e) PROVE c \in Copies(e)'
      <3>1. PICK i \in 0..MaxRetries, n \in Nat \ {0} : c = <<i, n>> /\ n <= queue[e][i]
        BY DEF Copies
      <3>2. n <= queue'[e][i]  BY <1>4, <3>1
      <3>3. QED BY <3>1, <3>2 DEF Copies
    <2>2. QED BY <2>1
  <1>6. ASSUME NEW c \in new
        PROVE  /\ c[1] \in 0..MaxRetries
               /\ c[2] \in Nat /\ c = <<c[1], c[2]>>
               /\ c[2] - queue[e][c[1]] \in 1..Held(e, c[1])
    <2>1. PICK i \in 0..MaxRetries, n \in Nat \ {0} :
             c = <<i, n>> /\ n <= queue'[e][i] /\ ~(n <= queue[e][i])
      BY DEF Copies
    <2>2. n - queue[e][i] \in 1..Held(e, i)  BY <1>4, <2>1
    <2>3. QED BY <2>1, <2>2
  <1>7. ASSUME NEW k \in 0..MaxRetries, NEW x \in 1..Held(e, k)
        PROVE  b(k)[x] \in back /\ handling[b(k)[x]].retry = k
    <2>1. b(k) \in Bijection(1..Held(e, k), S(k))  BY <1>3
    <2> HIDE DEF b
    <2>2. b(k)[x] \in S(k)  BY <2>1 DEF Bijection, Injection, IsInjective
    <2>3. QED BY <2>2
  <1>8. ASSUME NEW k \in 0..MaxRetries, NEW x \in 1..Held(e, k), NEW y \in 1..Held(e, k),
               b(k)[x] = b(k)[y]
        PROVE  x = y
    <2>1. b(k) \in Bijection(1..Held(e, k), S(k))  BY <1>3
    <2> HIDE DEF b
    <2>2. QED BY <1>8, <2>1 DEF Bijection, Injection, IsInjective
  <1> HIDE DEF b, new, back
  <1>9. g \in [new -> back] /\ \A c \in new : g[c] = b(c[1])[c[2] - queue[e][c[1]]]
    BY <1>6, <1>7
  <1> HIDE DEF g
  <1>10. ASSUME NEW c \in new, NEW d \in new, g[c] = g[d]
         PROVE  c = d
    <2>1. c[1] = d[1]
      <3>1. handling[g[c]].retry = c[1] /\ handling[g[d]].retry = d[1]
        BY <1>6, <1>7, <1>9
      <3>2. QED BY <1>10, <3>1
    <2>2. c[2] - queue[e][c[1]] = d[2] - queue[e][d[1]]
      BY <1>6, <1>8, <1>9, <1>10, <2>1
    <2>3. c[2] = d[2]  BY <1>4, <1>6, <2>1, <2>2
    <2>4. QED BY <1>6, <2>1, <2>3
  <1>11. g \in Injection(new, back)
    BY <1>9, <1>10 DEF Injection, IsInjective
  <1>12. IsFiniteSet(new) /\ Cardinality(new) <= HeldOf(e) /\ HeldOf(e) \in Nat
    BY <1>2, <1>11, FS_Injection, FS_CardinalityType
  <1>13. Copies(e)' = Copies(e) \cup new /\ Copies(e) \cap new = {}
    BY <1>5 DEF new
  <1>14. QED BY <1>12, <1>13

LEMMA CopiesStay ==
    ASSUME EventInv, CopiesOK, [Next]_vars
    PROVE  CopiesOK'
  <1>1. QueueOK /\ HandlingOK  BY DEF EventInv
  <1>2. CASE UNCHANGED <<queue, redelivered>>
    BY <1>2 DEF CopiesOK, Copies
  <1>3. ASSUME NEW e \in Events, NEW k \in 0..MaxRetries, queue' = Queued(e, k, 1),
               redelivered' \in [Events -> Nat]
        PROVE  CopiesOK'
    <2>1. /\ Copies(e)' = Copies(e) \cup {<<k, queue[e][k] + 1>>}
          /\ \A s \in Events \ {e} : Copies(s)' = Copies(s)
      BY <1>1, <1>3, CopyAdded
    <2>2. IsFiniteSet(Copies(e)')  BY <2>1, FS_AddElement DEF CopiesOK
    <2>3. QED BY <1>3, <2>1, <2>2 DEF CopiesOK
  <1>4. ASSUME NEW e \in Events, NEW k \in 0..MaxRetries, NEW n, Takes(e, k, n)
        PROVE  CopiesOK'
    <2>1. queue[e][k] > 0 /\ queue' = Queued(e, k, 0 - 1) /\ UNCHANGED redelivered
      BY <1>4 DEF Takes
    <2>2. /\ Copies(e)' = Copies(e) \ {<<k, queue[e][k]>>}
          /\ \A s \in Events \ {e} : Copies(s)' = Copies(s)
      BY <1>1, <2>1, CopyTaken
    <2>3. IsFiniteSet(Copies(e) \ {<<k, queue[e][k]>>})
      <3>1. PICK S, c : S = Copies(e) /\ c = <<k, queue[e][k]>>  OBVIOUS
      <3>2. IsFiniteSet(S)  BY <3>1 DEF CopiesOK
      <3>3. QED BY <3>1, <3>2, FS_RemoveElement
    <2>4. IsFiniteSet(Copies(e)')  BY <2>2, <2>3
    <2>5. QED BY <2>1, <2>2, <2>4 DEF CopiesOK
  <1>5. ASSUME NEW e \in Events, Publishes(e) PROVE CopiesOK'
    <2>1. 0 \in 0..MaxRetries  BY EventAssumption
    <2>2. QED BY <1>3, <1>5, <2>1 DEF Publishes, CopiesOK
  <1>6. ASSUME NEW h \in DOMAIN handling, NEW l, HandlerStep(h, l) PROVE CopiesOK'
    <2>1. handling[h].event \in Events /\ handling[h].retry \in 0..MaxRetries
      BY <1>1, HandlingTyped
    <2>2. redelivered' \in [Events -> Nat]
      BY <1>6 DEF HandlerStep, CopiesOK
    <2>3. UNCHANGED <<queue, redelivered>>
             \/ \E k \in 0..MaxRetries : queue' = Queued(handling[h].event, k, 1)
      BY <1>6, <2>1 DEF HandlerStep, Works, PassesOn
    <2>4. QED BY <1>2, <1>3, <2>1, <2>2, <2>3
  <1>7. CASE TakesBack
    <2>1. ASSUME NEW e \in Events
          PROVE  IsFiniteSet(Copies(e)') /\ redelivered[e] + HeldOf(e) \in Nat
      <3>1. IsFiniteSet(Copies(e)) /\ redelivered[e] \in Nat  BY DEF CopiesOK
      <3>2. PICK new : /\ Copies(e)' = Copies(e) \cup new /\ IsFiniteSet(new)
                       /\ HeldOf(e) \in Nat
        BY <1>1, <1>7, <3>1, CopiesBack DEF TakesBack
      <3>3. IsFiniteSet(Copies(e) \cup new)  BY <3>1, <3>2, FS_Union
      <3>4. QED BY <3>1, <3>2, <3>3
    <2>2. redelivered' \in [Events -> Nat]
      BY <1>7, <2>1 DEF TakesBack, TakenBack, HeldOf
    <2>3. QED BY <2>1, <2>2 DEF CopiesOK
  <1>8. QED BY <1>2, <1>4, <1>5, <1>6, <1>7, StepKinds DEF Rests

LEMMA CopiesAlways == Spec => []CopiesOK
  <1>1. Init => CopiesOK
    <2> SUFFICES ASSUME Init PROVE CopiesOK
      OBVIOUS
    <2>1. redelivered \in [Events -> Nat] /\ EventInv  BY InitInv DEF Init
    <2>2. \A e \in Events : Copies(e) = {}
      BY <2>1, UnpublishedIsNowhere DEF Init
    <2>3. QED BY <2>1, <2>2, FS_EmptySet DEF CopiesOK
  <1>2. QED BY <1>1, CopiesStay, Always, PTL DEF Spec

---------------------------------------------------------------------------
(* Turns.  A queued copy with counter k may still be handled 1 +           *)
(* MaxRetries - k times, and a handler that has such a copy in hand may    *)
(* leave MaxRetries - k turns to others.                                   *)

TurnsOf(copies) == {t \in copies \X (0..MaxRetries) : t[2] >= t[1][1]}

CopyTurns(e) == TurnsOf(Copies(e))

HasInHand(h, e) ==
    h \in DOMAIN handling /\ handling[h].event = e /\ handling[h].at \in InHand

HandTurns(e) ==
    {t \in (DOMAIN handling) \X (0..MaxRetries) :
        HasInHand(t[1], e) /\ t[2] > handling[t[1]].retry}

Turns(e) == Cardinality(HandlingsOf(e)) + Cardinality(CopyTurns(e)) + Cardinality(HandTurns(e))

TurnsOK == \A e \in Events : Turns(e) <= (1 + MaxRetries) * (1 + redelivered[e])

LEMMA Products ==
    /\ \A a, b, c \in Nat : a * (b + c) = a * b + a * c /\ a * b \in Nat
    /\ \A a, b, c \in Nat : a <= b => a * c <= b * c
    /\ \A a, b \in Nat : a <= a * (1 + b)
    /\ \A a, b \in Nat : a * b = b * a
  <1>1. \A a, b, c \in Nat : a * (b + c) = a * b + a * c /\ a * b \in Nat
    OBVIOUS
  <1>2. \A a, b \in Nat : a * b = b * a
    OBVIOUS
  <1>3. \A a, b, c \in Nat : a <= b => a * c <= b * c
    <2>1. TAKE a, b, c \in Nat
    <2>2. SUFFICES ASSUME a <= b PROVE a * c <= b * c
      OBVIOUS
    <2>3. PICK d \in Nat : b = a + d  BY <2>2, b - a \in Nat, b = a + (b - a)
    <2>4. b * c = a * c + d * c /\ d * c \in Nat /\ a * c \in Nat  BY <2>3
    <2>5. QED BY <2>4
  <1>4. \A a, b \in Nat : a <= a * (1 + b)
    <2>1. TAKE a, b \in Nat
    <2>2. a * (1 + b) = a + a * b /\ a * b \in Nat  OBVIOUS
    <2>3. QED BY <2>2
  <1>5. QED BY <1>1, <1>2, <1>3, <1>4

LEMMA TurnsFinite ==
    ASSUME NEW C, IsFiniteSet(C)
    PROVE  /\ IsFiniteSet(TurnsOf(C)) /\ Cardinality(TurnsOf(C)) \in Nat
           /\ Cardinality(TurnsOf(C)) <= (1 + MaxRetries) * Cardinality(C)
  <1>1. /\ IsFiniteSet(0..MaxRetries) /\ Cardinality(0..MaxRetries) = 1 + MaxRetries
        /\ MaxRetries \in Nat
    BY FS_Interval, EventAssumption
  <1>2. /\ IsFiniteSet(C \X (0..MaxRetries))
        /\ Cardinality(C \X (0..MaxRetries)) = Cardinality(C) * (1 + MaxRetries)
    BY <1>1, FS_Product
  <1>3. TurnsOf(C) \subseteq C \X (0..MaxRetries)  BY DEF TurnsOf
  <1>4. /\ IsFiniteSet(TurnsOf(C)) /\ Cardinality(TurnsOf(C)) \in Nat
        /\ Cardinality(TurnsOf(C)) <= Cardinality(C) * (1 + MaxRetries)
    BY <1>2, <1>3, FS_Subset, FS_CardinalityType
  <1>5. Cardinality(C) \in Nat  BY FS_CardinalityType
  <1>6. QED BY <1>1, <1>4, <1>5, Products

(* The union of two sets that have nothing in common.                      *)
LEMMA DisjointUnion ==
    ASSUME NEW A, NEW B, IsFiniteSet(A), IsFiniteSet(B), A \cap B = {}
    PROVE  /\ IsFiniteSet(A \cup B)
           /\ Cardinality(A \cup B) = Cardinality(A) + Cardinality(B)
           /\ Cardinality(A) \in Nat /\ Cardinality(B) \in Nat
  <1>1. Cardinality(A \cap B) = 0  BY FS_EmptySet
  <1>2. Cardinality(A) \in Nat /\ Cardinality(B) \in Nat  BY FS_CardinalityType
  <1>3. /\ IsFiniteSet(A \cup B)
        /\ Cardinality(A \cup B) = Cardinality(A) + Cardinality(B) - Cardinality(A \cap B)
    BY FS_Union
  <1>4. QED BY <1>1, <1>2, <1>3

LEMMA RowOfTurns ==
    ASSUME NEW x, NEW k \in 0..(1 + MaxRetries)
    PROVE  /\ IsFiniteSet({x} \X (k..MaxRetries))
           /\ Cardinality({x} \X (k..MaxRetries)) = 1 + MaxRetries - k
           /\ k \in Nat /\ MaxRetries \in Nat
  <1>1. MaxRetries \in Nat /\ k \in Nat /\ k <= 1 + MaxRetries  BY EventAssumption
  <1>2. /\ IsFiniteSet(k..MaxRetries)
        /\ Cardinality(k..MaxRetries) = IF k > MaxRetries THEN 0 ELSE MaxRetries - k + 1
    BY <1>1, FS_Interval
  <1>3. Cardinality(k..MaxRetries) = 1 + MaxRetries - k  BY <1>1, <1>2
  <1>4. IsFiniteSet({x}) /\ Cardinality({x}) = 1  BY FS_Singleton
  <1>5. /\ IsFiniteSet({x} \X (k..MaxRetries))
        /\ Cardinality({x} \X (k..MaxRetries)) = 1 * (1 + MaxRetries - k)
    <2>1. PICK S, T : S = {x} /\ T = k..MaxRetries  OBVIOUS
    <2>2. /\ IsFiniteSet(S) /\ Cardinality(S) = 1
          /\ IsFiniteSet(T) /\ Cardinality(T) = 1 + MaxRetries - k
      BY <1>2, <1>3, <1>4, <2>1
    <2>3. IsFiniteSet(S \X T) /\ Cardinality(S \X T) = Cardinality(S) * Cardinality(T)
      BY <2>2, FS_Product
    <2>4. QED BY <2>1, <2>2, <2>3
  <1>6. 1 * (1 + MaxRetries - k) = 1 + MaxRetries - k  BY <1>1
  <1>7. QED BY <1>1, <1>5, <1>6

LEMMA TurnsOfOneMore ==
    ASSUME NEW C, IsFiniteSet(C), NEW k \in 0..MaxRetries, NEW n, <<k, n>> \notin C
    PROVE  Cardinality(TurnsOf(C \cup {<<k, n>>})) = Cardinality(TurnsOf(C)) + (1 + MaxRetries - k)
  <1> DEFINE row == {<<k, n>>} \X (k..MaxRetries)
  <1>1. MaxRetries \in Nat /\ k \in 0..(1 + MaxRetries)  BY EventAssumption
  <1>2. IsFiniteSet(row) /\ Cardinality(row) = 1 + MaxRetries - k
    BY <1>1, RowOfTurns
  <1>3. TurnsOf({<<k, n>>}) = row
    <2>1. ASSUME NEW t PROVE t \in TurnsOf({<<k, n>>}) <=> t \in row
      <3>1. ASSUME t \in TurnsOf({<<k, n>>}) PROVE t \in row
        <4>1. PICK i \in 0..MaxRetries : t = <<<<k, n>>, i>> /\ t[2] >= t[1][1]
          BY <3>1 DEF TurnsOf
        <4>2. i \in k..MaxRetries  BY <1>1, <4>1
        <4>3. QED BY <4>1, <4>2
      <3>2. ASSUME t \in row PROVE t \in TurnsOf({<<k, n>>})
        <4>1. PICK i \in k..MaxRetries : t = <<<<k, n>>, i>>
          BY <3>2
        <4>2. i \in 0..MaxRetries /\ i >= k  BY <1>1
        <4>3. QED BY <4>1, <4>2 DEF TurnsOf
      <3>3. QED BY <3>1, <3>2
    <2>2. QED BY <2>1
  <1>4. TurnsOf(C \cup {<<k, n>>}) = TurnsOf(C) \cup TurnsOf({<<k, n>>})
    BY DEF TurnsOf
  <1>5. TurnsOf(C) \cap TurnsOf({<<k, n>>}) = {}
    BY DEF TurnsOf
  <1>6. QED BY <1>2, <1>3, <1>4, <1>5, TurnsFinite, DisjointUnion

LEMMA HandsFinite ==
    ASSUME HandlingOK, NEW e
    PROVE  /\ IsFiniteSet(HandTurns(e)) /\ Cardinality(HandTurns(e)) \in Nat
           /\ IsFiniteSet(HandlingsOf(e)) /\ Cardinality(HandlingsOf(e)) \in Nat
  <1>1. DOMAIN handling = 1..Len(handling) /\ Len(handling) \in Nat
    BY HandlingTyped
  <1>2. IsFiniteSet(DOMAIN handling)  BY <1>1, FS_Interval
  <1>3. IsFiniteSet(0..MaxRetries)  BY FS_Interval, EventAssumption
  <1>4. IsFiniteSet((DOMAIN handling) \X (0..MaxRetries))  BY <1>2, <1>3, FS_Product
  <1>5. /\ HandTurns(e) \subseteq (DOMAIN handling) \X (0..MaxRetries)
        /\ HandlingsOf(e) \subseteq DOMAIN handling
    BY DEF HandTurns, HandlingsOf
  <1>6. QED BY <1>2, <1>4, <1>5, FS_Subset, FS_CardinalityType

LEMMA TurnsTyped ==
    ASSUME EventInv, CopiesOK, TurnsOK, NEW e \in Events
    PROVE  /\ IsFiniteSet(Copies(e))
           /\ IsFiniteSet(HandTurns(e)) /\ Cardinality(HandTurns(e)) \in Nat
           /\ IsFiniteSet(HandlingsOf(e)) /\ Cardinality(HandlingsOf(e)) \in Nat
           /\ IsFiniteSet(CopyTurns(e)) /\ Cardinality(CopyTurns(e)) \in Nat
           /\ redelivered[e] \in Nat /\ MaxRetries \in Nat
           /\ (1 + MaxRetries) * (1 + redelivered[e]) \in Nat
           /\ Cardinality(HandlingsOf(e)) + Cardinality(CopyTurns(e)) + Cardinality(HandTurns(e))
                 <= (1 + MaxRetries) * (1 + redelivered[e])
  <1>1. IsFiniteSet(Copies(e)) /\ redelivered[e] \in Nat /\ MaxRetries \in Nat
    BY EventAssumption DEF CopiesOK
  <1>2. (1 + MaxRetries) * (1 + redelivered[e]) \in Nat  BY <1>1
  <1>3. QED BY <1>1, <1>2, HandsFinite, TurnsFinite DEF EventInv, TurnsOK, Turns, CopyTurns

(* A handler's step leaves the handlings what they are of; and no handler  *)
(* gets in hand what it had not.                                           *)
LEMMA HandsEmpty ==
    ASSUME NEW e, DOMAIN handling' = DOMAIN handling,
           \A h \in DOMAIN handling :
              /\ handling'[h].event = handling[h].event
              /\ handling'[h].at \in InHand => /\ handling[h].at \in InHand
                                               /\ handling'[h].retry = handling[h].retry
    PROVE  HandlingsOf(e)' = HandlingsOf(e) /\ HandTurns(e)' \subseteq HandTurns(e)
  <1>1. HandlingsOf(e)' = HandlingsOf(e)  BY DEF HandlingsOf
  <1>2. ASSUME NEW t \in HandTurns(e)' PROVE t \in HandTurns(e)
    <2>1. PICK h \in DOMAIN handling', i \in 0..MaxRetries :
             /\ t = <<h, i>> /\ handling'[h].event = e /\ handling'[h].at \in InHand
             /\ i > handling'[h].retry
      BY DEF HandTurns, HasInHand
    <2>2. QED BY <2>1 DEF HandTurns, HasInHand
  <1>3. QED BY <1>1, <1>2

LEMMA TurnedHands ==
    ASSUME NEW h \in DOMAIN handling, NEW l, HandlerStep(h, l), NEW e
    PROVE  HandlingsOf(e)' = HandlingsOf(e) /\ HandTurns(e)' \subseteq HandTurns(e)
  <1>1. /\ DOMAIN handling' = DOMAIN handling
        /\ l.event = handling[h].event /\ l.retry = handling[h].retry
        /\ \A g \in DOMAIN handling : handling'[g] = IF g = h THEN l ELSE handling[g]
    BY DEF HandlerStep, Turned
  <1>2. l.at \in InHand => handling[h].at \in InHand
    BY DEF HandlerStep, Works, PassesOn
  <1>3. \A g \in DOMAIN handling :
              /\ handling'[g].event = handling[g].event
              /\ handling'[g].at \in InHand => /\ handling[g].at \in InHand
                                               /\ handling'[g].retry = handling[g].retry
    <2>1. TAKE g \in DOMAIN handling
    <2>2. CASE g = h  BY <1>1, <1>2, <2>2
    <2>3. CASE g # h  BY <1>1, <2>3
    <2>4. QED BY <2>2, <2>3
  <1>4. QED BY <1>1, <1>3, HandsEmpty

LEMMA FewerHands ==
    ASSUME EventInv, CopiesOK, TurnsOK, NEW e \in Events, HandTurns(e)' \subseteq HandTurns(e)
    PROVE  Cardinality(HandTurns(e)') \in Nat
           /\ Cardinality(HandTurns(e)') <= Cardinality(HandTurns(e))
  BY TurnsTyped, FS_Subset, FS_CardinalityType

LEMMA CopyTurnsOf ==
    ASSUME NEW e
    PROVE  /\ CopyTurns(e) = TurnsOf(Copies(e))
           /\ \A D : Copies(e)' = D => CopyTurns(e)' = TurnsOf(D)
  BY DEF CopyTurns, TurnsOf

LEMMA TurnsAdded ==
    ASSUME EventInv, CopiesOK, NEW e \in Events, NEW k \in 0..MaxRetries,
           queue' = Queued(e, k, 1)
    PROVE  /\ Cardinality(CopyTurns(e)') = Cardinality(CopyTurns(e)) + (1 + MaxRetries - k)
           /\ \A s \in Events \ {e} : CopyTurns(s)' = CopyTurns(s)
  <1>1. PICK C, n : C = Copies(e) /\ n = queue[e][k] + 1  OBVIOUS
  <1>2. Copies(e)' = C \cup {<<k, n>>} /\ <<k, n>> \notin C /\ IsFiniteSet(C)
    BY <1>1, CopyAdded DEF EventInv, CopiesOK
  <1>3. CopyTurns(e) = TurnsOf(C) /\ CopyTurns(e)' = TurnsOf(C \cup {<<k, n>>})
    BY <1>1, <1>2, CopyTurnsOf
  <1>4. Cardinality(TurnsOf(C \cup {<<k, n>>})) = Cardinality(TurnsOf(C)) + (1 + MaxRetries - k)
    BY <1>2, TurnsOfOneMore
  <1>5. \A s \in Events \ {e} : CopyTurns(s)' = CopyTurns(s)
    <2>1. TAKE s \in Events \ {e}
    <2>2. Copies(s)' = Copies(s)  BY CopyAdded DEF EventInv
    <2>3. QED BY <2>2, CopyTurnsOf
  <1>6. QED BY <1>3, <1>4, <1>5

LEMMA TurnsTaken ==
    ASSUME EventInv, CopiesOK, NEW e \in Events, NEW k \in 0..MaxRetries,
           queue[e][k] > 0, queue' = Queued(e, k, 0 - 1)
    PROVE  /\ Cardinality(CopyTurns(e)) = Cardinality(CopyTurns(e)') + (1 + MaxRetries - k)
           /\ Cardinality(CopyTurns(e)') \in Nat
           /\ \A s \in Events \ {e} : CopyTurns(s)' = CopyTurns(s)
  <1>1. PICK C, D, n : C = Copies(e) /\ D = C \ {<<k, n>>} /\ n = queue[e][k]  OBVIOUS
  <1>2. Copies(e)' = D /\ <<k, n>> \in C /\ IsFiniteSet(C)
    BY <1>1, CopyTaken DEF EventInv, CopiesOK
  <1>3. IsFiniteSet(D) /\ <<k, n>> \notin D /\ C = D \cup {<<k, n>>}
    BY <1>1, <1>2, FS_Subset
  <1>4. CopyTurns(e) = TurnsOf(D \cup {<<k, n>>}) /\ CopyTurns(e)' = TurnsOf(D)
    BY <1>1, <1>2, <1>3, CopyTurnsOf
  <1>5. Cardinality(TurnsOf(D \cup {<<k, n>>})) = Cardinality(TurnsOf(D)) + (1 + MaxRetries - k)
    BY <1>3, TurnsOfOneMore
  <1>6. Cardinality(TurnsOf(D)) \in Nat  BY <1>3, TurnsFinite
  <1>7. \A s \in Events \ {e} : CopyTurns(s)' = CopyTurns(s)
    <2>1. TAKE s \in Events \ {e}
    <2>2. Copies(s)' = Copies(s)  BY CopyTaken DEF EventInv
    <2>3. QED BY <2>2, CopyTurnsOf
  <1>8. QED BY <1>4, <1>5, <1>6, <1>7

(* The bound, from the three parts of the sum.                             *)
LEMMA TurnsBound ==
    ASSUME NEW s \in Events, redelivered'[s] \in Nat,
           Cardinality(HandlingsOf(s)') + Cardinality(CopyTurns(s)') + Cardinality(HandTurns(s)')
              <= (1 + MaxRetries) * (1 + redelivered'[s])
    PROVE  Turns(s)' <= (1 + MaxRetries) * (1 + redelivered'[s])
  BY DEF Turns

LEMMA TurnsOfPublished ==
    ASSUME EventInv, CopiesOK, TurnsOK, NEW e \in Events, Publishes(e)
    PROVE  \A s \in Events : Turns(s)' <= (1 + MaxRetries) * (1 + redelivered'[s])
  <1>1. /\ event[e] = None /\ queue' = Queued(e, 0, 1) /\ UNCHANGED <<handling, redelivered>>
        /\ 0 \in 0..MaxRetries
    BY EventAssumption DEF Publishes
  <1>2. \A s \in Events : HandlingsOf(s)' = HandlingsOf(s) /\ HandTurns(s)' = HandTurns(s)
    BY <1>1 DEF HandlingsOf, HandTurns, HasInHand
  <1>3. TAKE s \in Events
  <1>4. CASE s = e
    <2>1. Copies(e) = {} /\ HandlingsOf(e) = {} /\ HandTurns(e) = {}
      BY <1>1, UnpublishedIsNowhere DEF HandlingsOf, HandTurns, HasInHand
    <2>2. CopyTurns(e) = {}  BY <2>1 DEF CopyTurns, TurnsOf
    <2>3. Cardinality({}) = 0  BY FS_EmptySet
    <2>4. Cardinality(CopyTurns(e)') = 0 + (1 + MaxRetries - 0)
      BY <1>1, <2>2, <2>3, TurnsAdded
    <2>5. Cardinality(HandlingsOf(e)') = 0 /\ Cardinality(HandTurns(e)') = 0
      BY <1>2, <2>1, <2>3
    <2>6. redelivered[e] \in Nat /\ MaxRetries \in Nat
      BY TurnsTyped
    <2>7. 1 + MaxRetries <= (1 + MaxRetries) * (1 + redelivered[e])
      BY <2>6, Products
    <2>8. QED BY <1>1, <1>4, <2>4, <2>5, <2>6, <2>7, TurnsBound
  <1>5. CASE s # e
    <2>1. CopyTurns(s)' = CopyTurns(s)  BY <1>1, <1>5, TurnsAdded
    <2>2. QED BY <1>1, <1>2, <2>1, TurnsTyped, TurnsBound
  <1>6. QED BY <1>4, <1>5

LEMMA HandTaken ==
    ASSUME EventInv, NEW e \in Events, NEW k \in 0..MaxRetries, NEW n, Takes(e, k, n),
           NEW s \in Events
    PROVE  /\ HandlingsOf(s)' = IF s = e THEN HandlingsOf(s) \cup {n} ELSE HandlingsOf(s)
           /\ n \notin HandlingsOf(s)
           /\ HandTurns(s)' \subseteq
                 IF s = e THEN HandTurns(s) \cup ({n} \X ((k + 1)..MaxRetries)) ELSE HandTurns(s)
  <1>1. /\ n \notin DOMAIN handling /\ DOMAIN handling' = DOMAIN handling \cup {n}
        /\ \A g \in DOMAIN handling : handling'[g] = handling[g]
        /\ handling'[n].event = e /\ handling'[n].retry = k
    BY DEF Takes
  <1>2. HandlingsOf(s)' = IF s = e THEN HandlingsOf(s) \cup {n} ELSE HandlingsOf(s)
    BY <1>1 DEF HandlingsOf
  <1>3. n \notin HandlingsOf(s)  BY <1>1 DEF HandlingsOf
  <1>4. ASSUME NEW t \in HandTurns(s)'
        PROVE  t \in IF s = e THEN HandTurns(s) \cup ({n} \X ((k + 1)..MaxRetries))
                              ELSE HandTurns(s)
    <2>1. PICK h \in DOMAIN handling', i \in 0..MaxRetries :
             /\ t = <<h, i>> /\ handling'[h].event = s /\ handling'[h].at \in InHand
             /\ i > handling'[h].retry
      BY DEF HandTurns, HasInHand
    <2>2. CASE h = n
      <3>1. s = e /\ i > k /\ i \in (k + 1)..MaxRetries
        BY <1>1, <2>1, <2>2, EventAssumption
      <3>2. QED BY <2>1, <2>2, <3>1
    <2>3. CASE h # n
      <3>1. h \in DOMAIN handling /\ handling'[h] = handling[h]  BY <1>1, <2>3
      <3>2. t \in HandTurns(s)  BY <2>1, <3>1 DEF HandTurns, HasInHand
      <3>3. QED BY <3>2
    <2>4. QED BY <2>2, <2>3
  <1>5. QED BY <1>2, <1>3, <1>4

LEMMA TurnsOfTaken ==
    ASSUME EventInv, CopiesOK, TurnsOK, NEW e \in Events, NEW k \in 0..MaxRetries,
           NEW n, Takes(e, k, n)
    PROVE  \A s \in Events : Turns(s)' <= (1 + MaxRetries) * (1 + redelivered'[s])
  <1>1. queue[e][k] > 0 /\ queue' = Queued(e, k, 0 - 1) /\ UNCHANGED redelivered
    BY DEF Takes
  <1>2. TAKE s \in Events
  <1>3. /\ IsFiniteSet(HandTurns(s)) /\ Cardinality(HandTurns(s)) \in Nat
        /\ IsFiniteSet(HandlingsOf(s)) /\ Cardinality(HandlingsOf(s)) \in Nat
        /\ Cardinality(CopyTurns(s)) \in Nat
        /\ redelivered'[s] \in Nat /\ MaxRetries \in Nat
        /\ (1 + MaxRetries) * (1 + redelivered'[s]) \in Nat
        /\ Cardinality(HandlingsOf(s)) + Cardinality(CopyTurns(s)) + Cardinality(HandTurns(s))
              <= (1 + MaxRetries) * (1 + redelivered'[s])
    BY <1>1, TurnsTyped
  <1>4. CASE s = e
    <2>1. Cardinality(HandlingsOf(e)') = Cardinality(HandlingsOf(e)) + 1
      <3>1. PICK S : S = HandlingsOf(e)  OBVIOUS
      <3>2. n \notin S /\ HandlingsOf(e)' = S \cup {n} /\ IsFiniteSet(S)
        BY <1>3, <1>4, <3>1, HandTaken
      <3>3. Cardinality(S \cup {n}) = Cardinality(S) + 1  BY <3>2, FS_AddElement
      <3>4. QED BY <3>1, <3>2, <3>3
    <2>2. /\ Cardinality(HandTurns(e)') \in Nat
          /\ Cardinality(HandTurns(e)') <= Cardinality(HandTurns(e)) + (MaxRetries - k)
      <3>1. PICK S, T : S = HandTurns(e) /\ T = {n} \X ((k + 1)..MaxRetries)  OBVIOUS
      <3>2. k + 1 \in 0..(1 + MaxRetries) /\ 1 + MaxRetries - (k + 1) = MaxRetries - k
            /\ MaxRetries - k \in Nat
        BY <1>3
      <3>3. IsFiniteSet(T) /\ Cardinality(T) = MaxRetries - k
        BY <3>1, <3>2, RowOfTurns
      <3>4. IsFiniteSet(S) /\ Cardinality(S) \in Nat  BY <1>3, <1>4, <3>1
      <3>5. /\ IsFiniteSet(S \cup T) /\ Cardinality(S \cap T) \in Nat
            /\ Cardinality(S \cup T) = Cardinality(S) + Cardinality(T) - Cardinality(S \cap T)
        <4>1. IsFiniteSet(S \cap T)  BY <3>4, FS_Subset
        <4>2. QED BY <3>3, <3>4, <4>1, FS_Union, FS_CardinalityType
      <3>6. HandTurns(e)' \subseteq S \cup T  BY <1>4, <3>1, HandTaken
      <3>7. /\ Cardinality(HandTurns(e)') <= Cardinality(S \cup T)
            /\ Cardinality(HandTurns(e)') \in Nat /\ Cardinality(S \cup T) \in Nat
        BY <3>5, <3>6, FS_Subset, FS_CardinalityType
      <3>8. QED BY <3>1, <3>2, <3>3, <3>4, <3>5, <3>7
    <2>3. /\ Cardinality(CopyTurns(e)) = Cardinality(CopyTurns(e)') + (1 + MaxRetries - k)
          /\ Cardinality(CopyTurns(e)') \in Nat
      BY <1>1, TurnsTaken
    <2>4. Cardinality(HandlingsOf(e)') + Cardinality(CopyTurns(e)') + Cardinality(HandTurns(e)')
              <= (1 + MaxRetries) * (1 + redelivered'[e])
      BY <1>3, <1>4, <2>1, <2>2, <2>3
    <2>5. QED BY <1>3, <1>4, <2>4, TurnsBound
  <1>5. CASE s # e
    <2>1. CopyTurns(s)' = CopyTurns(s)  BY <1>1, <1>5, TurnsTaken
    <2>2. HandlingsOf(s)' = HandlingsOf(s) /\ HandTurns(s)' \subseteq HandTurns(s)
      BY <1>5, HandTaken
    <2>3. Cardinality(HandTurns(s)') \in Nat
          /\ Cardinality(HandTurns(s)') <= Cardinality(HandTurns(s))
      BY <2>2, FewerHands
    <2>4. QED BY <1>3, <2>1, <2>2, <2>3, TurnsBound
  <1>6. QED BY <1>4, <1>5

(* Who passes an event on has no more turns to leave.                      *)
LEMMA HandReleased ==
    ASSUME EventInv, CopiesOK, TurnsOK, NEW h \in DOMAIN handling, NEW l,
           HandlerStep(h, l), handling[h].at \in InHand, l.at \notin InHand,
           NEW e, e = handling[h].event, NEW k, k = handling[h].retry
    PROVE  /\ Cardinality(HandTurns(e)') \in Nat
           /\ Cardinality(HandTurns(e)') + (MaxRetries - k) <= Cardinality(HandTurns(e))
  <1>1. PICK row : row = {h} \X ((k + 1)..MaxRetries)
    OBVIOUS
  <1>2. e \in Events /\ k \in 0..MaxRetries /\ MaxRetries \in Nat
    BY <1>1, HandlingTyped, EventAssumption DEF EventInv
  <1>3. IsFiniteSet(row) /\ Cardinality(row) = MaxRetries - k
    <2>1. k + 1 \in 0..(1 + MaxRetries) /\ 1 + MaxRetries - (k + 1) = MaxRetries - k
      BY <1>2
    <2>2. QED BY <1>1, <2>1, RowOfTurns
  <1>4. row \subseteq HandTurns(e)
    <2>1. ASSUME NEW t \in row PROVE t \in HandTurns(e)
      <3>1. PICK i \in (k + 1)..MaxRetries : t = <<h, i>>  BY <1>1
      <3>2. i \in 0..MaxRetries /\ i > k  BY <1>2
      <3>3. QED BY <1>1, <3>1, <3>2 DEF HandTurns, HasInHand
    <2>2. QED BY <2>1
  <1>5. handling'[h].at \notin InHand  BY DEF HandlerStep, Turned
  <1>6. ASSUME NEW t \in HandTurns(e)' PROVE t \in HandTurns(e) /\ t \notin row
    <2>1. t \in HandTurns(e)  BY <1>2, TurnedHands
    <2>2. t[1] # h  BY <1>5 DEF HandTurns, HasInHand
    <2>3. QED BY <1>1, <2>1, <2>2
  <1>7. PICK S : S = HandTurns(e)  OBVIOUS
  <1>8. IsFiniteSet(S) /\ Cardinality(S) \in Nat  BY <1>2, <1>7, TurnsTyped
  <1>9. /\ IsFiniteSet(S \ row)
        /\ Cardinality(S \ row) = Cardinality(S) - Cardinality(row)
    <2>1. S \cap row = row  BY <1>4, <1>7
    <2>2. \A T : /\ IsFiniteSet(S \ T)
                 /\ Cardinality(S \ T) = Cardinality(S) - Cardinality(S \cap T)
      BY <1>8, FS_Difference
    <2>3. QED BY <2>1, <2>2
  <1>10. HandTurns(e)' \subseteq S \ row  BY <1>6, <1>7
  <1>11. /\ Cardinality(HandTurns(e)') <= Cardinality(S \ row)
         /\ Cardinality(HandTurns(e)') \in Nat
    BY <1>9, <1>10, FS_Subset, FS_CardinalityType
  <1>12. QED BY <1>2, <1>3, <1>7, <1>8, <1>9, <1>11

LEMMA TurnsOfHandled ==
    ASSUME EventInv, CopiesOK, TurnsOK,
           NEW h \in DOMAIN handling, NEW l, HandlerStep(h, l)
    PROVE  \A s \in Events : Turns(s)' <= (1 + MaxRetries) * (1 + redelivered'[s])
  <1>1. PICK e, k : e = handling[h].event /\ k = handling[h].retry  OBVIOUS
  <1>2. e \in Events /\ k \in 0..MaxRetries
    BY <1>1, HandlingTyped DEF EventInv
  <1>3. TAKE s \in Events
  <1>4. /\ Cardinality(HandTurns(s)) \in Nat /\ Cardinality(HandlingsOf(s)) \in Nat
        /\ Cardinality(CopyTurns(s)) \in Nat
        /\ redelivered[s] \in Nat /\ MaxRetries \in Nat
        /\ (1 + MaxRetries) * (1 + redelivered[s]) \in Nat
        /\ Cardinality(HandlingsOf(s)) + Cardinality(CopyTurns(s)) + Cardinality(HandTurns(s))
              <= (1 + MaxRetries) * (1 + redelivered[s])
    BY TurnsTyped
  <1>5. HandlingsOf(s)' = HandlingsOf(s) /\ HandTurns(s)' \subseteq HandTurns(s)
    BY TurnedHands
  <1>6. Cardinality(HandTurns(s)') \in Nat
        /\ Cardinality(HandTurns(s)') <= Cardinality(HandTurns(s))
    BY <1>5, FewerHands
  <1>7. CASE UNCHANGED <<queue, redelivered>>
    <2>1. Copies(s)' = Copies(s)  BY <1>7 DEF Copies
    <2>2. CopyTurns(s)' = CopyTurns(s)  BY <2>1, CopyTurnsOf
    <2>3. QED BY <1>4, <1>5, <1>6, <1>7, <2>2, TurnsBound
  <1>8. CASE PassesOn(h, l)
    <2>1. /\ queue' = Queued(e, k + 1, 1) /\ UNCHANGED redelivered
          /\ k + 1 \in 0..MaxRetries
          /\ handling[h].at \in InHand /\ l.at \notin InHand
      BY <1>1, <1>8 DEF PassesOn, HandlerStep
    <2>2. CASE s = e
      <3>1. Cardinality(HandTurns(e)') + (MaxRetries - k) <= Cardinality(HandTurns(e))
        BY <1>1, <2>1, HandReleased
      <3>2. Cardinality(CopyTurns(e)') = Cardinality(CopyTurns(e)) + (1 + MaxRetries - (k + 1))
        BY <1>2, <2>1, TurnsAdded
      <3>3. Cardinality(HandlingsOf(e)') + Cardinality(CopyTurns(e)') + Cardinality(HandTurns(e)')
              <= (1 + MaxRetries) * (1 + redelivered[e])
        BY <1>2, <1>4, <1>5, <1>6, <2>2, <3>1, <3>2
      <3>4. QED BY <1>4, <2>1, <2>2, <3>3, TurnsBound
    <2>3. CASE s # e
      <3>1. CopyTurns(s)' = CopyTurns(s)  BY <1>2, <2>1, <2>3, TurnsAdded
      <3>2. QED BY <1>4, <1>5, <1>6, <2>1, <3>1, TurnsBound
    <2>4. QED BY <2>2, <2>3
  <1>9. QED BY <1>7, <1>8 DEF HandlerStep, Works

LEMMA TurnsTakenBack ==
    ASSUME EventInv, CopiesOK, TurnsOK, TakesBack
    PROVE  \A s \in Events : Turns(s)' <= (1 + MaxRetries) * (1 + redelivered'[s])
  <1>1. /\ DOMAIN handling' = DOMAIN handling
        /\ \A h \in DOMAIN handling :
              \/ handling'[h] = handling[h]
              \/ handling'[h].event = handling[h].event /\ handling'[h].at = "over"
    BY DEF TakesBack, NewHandling
  <1>2. "over" \notin InHand  BY DEF InHand
  <1>3. TAKE s \in Events
  <1>4. /\ IsFiniteSet(Copies(s))
        /\ Cardinality(HandTurns(s)) \in Nat /\ Cardinality(HandlingsOf(s)) \in Nat
        /\ Cardinality(CopyTurns(s)) \in Nat
        /\ redelivered[s] \in Nat /\ MaxRetries \in Nat
        /\ (1 + MaxRetries) * (1 + redelivered[s]) \in Nat
        /\ Cardinality(HandlingsOf(s)) + Cardinality(CopyTurns(s)) + Cardinality(HandTurns(s))
              <= (1 + MaxRetries) * (1 + redelivered[s])
    BY TurnsTyped
  <1>5. HandlingsOf(s)' = HandlingsOf(s) /\ HandTurns(s)' \subseteq HandTurns(s)
    BY <1>1, <1>2, HandsEmpty
  <1>6. Cardinality(HandTurns(s)') \in Nat
        /\ Cardinality(HandTurns(s)') <= Cardinality(HandTurns(s))
    BY <1>5, FewerHands
  <1>7. PICK C, new : /\ C = Copies(s) /\ Copies(s)' = C \cup new /\ IsFiniteSet(new)
                      /\ Cardinality(new) <= HeldOf(s) /\ HeldOf(s) \in Nat
    BY <1>4, CopiesBack DEF EventInv, TakesBack
  <1>8. CopyTurns(s) = TurnsOf(C) /\ CopyTurns(s)' = TurnsOf(C \cup new)
    BY <1>7, CopyTurnsOf
  <1>9. /\ Cardinality(TurnsOf(C \cup new)) <= Cardinality(TurnsOf(C)) + Cardinality(TurnsOf(new))
        /\ Cardinality(TurnsOf(C \cup new)) \in Nat
        /\ Cardinality(TurnsOf(C)) \in Nat /\ Cardinality(TurnsOf(new)) \in Nat
    <2>1. TurnsOf(C \cup new) = TurnsOf(C) \cup TurnsOf(new)  BY DEF TurnsOf
    <2>2. PICK S, T : S = TurnsOf(C) /\ T = TurnsOf(new)  OBVIOUS
    <2>3. IsFiniteSet(S) /\ IsFiniteSet(T) /\ Cardinality(S) \in Nat /\ Cardinality(T) \in Nat
      BY <1>4, <1>7, <2>2, TurnsFinite
    <2>4. /\ IsFiniteSet(S \cup T)
          /\ Cardinality(S \cup T) = Cardinality(S) + Cardinality(T) - Cardinality(S \cap T)
      BY <2>3, FS_Union
    <2>5. Cardinality(S \cap T) \in Nat /\ Cardinality(S \cup T) \in Nat
      <3>1. IsFiniteSet(S \cap T)  BY <2>3, FS_Subset
      <3>2. QED BY <2>4, <3>1, FS_CardinalityType
    <2>6. Cardinality(S \cup T) <= Cardinality(S) + Cardinality(T)
      <3>1. Cardinality(S \cap T) \in Nat /\ Cardinality(S) \in Nat /\ Cardinality(T) \in Nat
        BY <2>3, <2>5
      <3>2. QED BY <2>4, <3>1
    <2>7. TurnsOf(C \cup new) = S \cup T  BY <2>1, <2>2
    <2>8. QED BY <2>2, <2>3, <2>5, <2>6, <2>7
  <1>10. redelivered'[s] = redelivered[s] + HeldOf(s)  BY DEF TakesBack, TakenBack, HeldOf
  <1>11. (1 + MaxRetries) * (1 + redelivered'[s])
            = (1 + MaxRetries) * (1 + redelivered[s]) + (1 + MaxRetries) * HeldOf(s)
         /\ (1 + MaxRetries) * HeldOf(s) \in Nat
    <2>1. PICK m, n, x : m = redelivered[s] /\ n = 1 + MaxRetries /\ x = HeldOf(s)  OBVIOUS
    <2>2. m \in Nat /\ n \in Nat /\ x \in Nat  BY <1>4, <1>7, <2>1
    <2>3. n * ((1 + m) + x) = n * (1 + m) + n * x /\ n * x \in Nat
          /\ (1 + m) + x = 1 + (m + x)
      BY <2>2, Products
    <2>4. QED BY <1>10, <2>1, <2>3
  <1>12. Cardinality(TurnsOf(new)) <= (1 + MaxRetries) * HeldOf(s)
    <2>1. PICK n, c, x : n = 1 + MaxRetries /\ c = Cardinality(new) /\ x = HeldOf(s)  OBVIOUS
    <2>2. n \in Nat /\ c \in Nat /\ x \in Nat /\ c <= x
      BY <1>4, <1>7, <2>1, FS_CardinalityType
    <2>3. c * n <= x * n /\ c * n = n * c /\ x * n = n * x /\ n * c \in Nat /\ n * x \in Nat
      BY <2>2, Products
    <2>4. Cardinality(TurnsOf(new)) <= n * c  BY <1>7, <2>1, TurnsFinite
    <2>5. QED BY <1>9, <2>1, <2>3, <2>4
  <1>13. Cardinality(HandlingsOf(s)') + Cardinality(CopyTurns(s)') + Cardinality(HandTurns(s)')
              <= (1 + MaxRetries) * (1 + redelivered'[s])
    BY <1>4, <1>5, <1>6, <1>8, <1>9, <1>11, <1>12
  <1>14. redelivered'[s] \in Nat  BY <1>4, <1>7, <1>10
  <1>15. QED BY <1>13, <1>14, TurnsBound

LEMMA TurnsStay ==
    ASSUME EventInv, CopiesOK, TurnsOK, [Next]_vars
    PROVE  TurnsOK'
  <1>1. \A s \in Events : Turns(s)' <= (1 + MaxRetries) * (1 + redelivered'[s])
    <2>1. CASE Rests
      <3>1. TAKE s \in Events
      <3>2. UNCHANGED <<queue, handling, redelivered>>  BY <2>1 DEF Rests
      <3>3. HandlingsOf(s)' = HandlingsOf(s) /\ HandTurns(s)' = HandTurns(s)
        BY <3>2 DEF HandlingsOf, HandTurns, HasInHand
      <3>4. Copies(s)' = Copies(s)  BY <3>2 DEF Copies
      <3>5. CopyTurns(s)' = CopyTurns(s)  BY <3>4, CopyTurnsOf
      <3>6. QED BY <3>2, <3>3, <3>5, TurnsTyped, TurnsBound
    <2>2. QED BY <2>1, StepKinds, TurnsOfPublished, TurnsOfTaken, TurnsOfHandled,
                 TurnsTakenBack
  <1>2. QED BY <1>1 DEF TurnsOK, Turns

LEMMA TurnsAlways == Spec => []TurnsOK
  <1>1. Init => TurnsOK
    <2> SUFFICES ASSUME Init, NEW e \in Events
                 PROVE  Turns(e) <= (1 + MaxRetries) * (1 + redelivered[e])
      BY DEF TurnsOK
    <2>1. EventInv /\ DOMAIN handling = {} /\ redelivered[e] = 0
      BY InitInv DEF Init
    <2>2. Copies(e) = {}  BY <2>1, UnpublishedIsNowhere DEF Init
    <2>3. HandlingsOf(e) = {} /\ CopyTurns(e) = {} /\ HandTurns(e) = {}
      BY <2>1, <2>2 DEF HandlingsOf, CopyTurns, TurnsOf, HandTurns
    <2>4. Cardinality({}) = 0  BY FS_EmptySet
    <2>5. 0 <= (1 + MaxRetries) * (1 + 0)  BY EventAssumption
    <2>6. QED BY <2>1, <2>3, <2>4, <2>5 DEF Turns
  <1>2. QED BY <1>1, TurnsStay, Always, CopiesAlways, PTL DEF Spec

---------------------------------------------------------------------------
(* Each recommendation of a deal is from a run of its own.                 *)

LEMMA RowsOfRuns ==
    ASSUME EventInv, NEW e \in Events, NEW d \in AllDeals
    PROVE  /\ Cardinality(RowsOf(e, d)) <= Cardinality(HandlingsOf(e))
           /\ \A id \in RowsOf(e, d) : recommendations[id] = 1
  <1>1. PICK R, H, g : /\ R = RowsOf(e, d) /\ H = HandlingsOf(e)
                       /\ g = [id \in R |-> id[1]]
    OBVIOUS
  <1>2. d # None /\ IsFiniteSet(H)
    BY <1>1, HandsFinite, EventAssumption DEF EventInv, AllDeals
  <1>3. ASSUME NEW id \in R
        PROVE  id[1] \in H /\ id = <<id[1], "recommendation.create", d>>
    <2>1. /\ id \in DOMAIN recommendations /\ id[3] = d
          /\ handling[id[1]].event = e
      BY <1>1 DEF RowsOf
    <2>2. /\ id \in Nat \X Ops \X Subjects /\ id[2] = "recommendation.create"
          /\ id[1] \in DOMAIN handling
      BY <1>2, <2>1 DEF EventInv, RowsOK, Advises
    <2>3. QED BY <1>1, <2>1, <2>2 DEF HandlingsOf
  <1>4. g \in Injection(R, H)
    BY <1>1, <1>3 DEF Injection, IsInjective
  <1>5. Cardinality(R) <= Cardinality(H)
    BY <1>2, <1>4, FS_Injection
  <1>6. \A id \in RowsOf(e, d) : recommendations[id] = 1
    BY DEF RowsOf, EventInv, RowsOK
  <1>7. QED BY <1>1, <1>5, <1>6

(* A deal gets at most one recommendation from each run of an event, and   *)
(* an event runs 1 + MaxRetries times at most for each time the broker     *)
(* delivers it, however its retries interleave with redeliveries, restarts *)
(* and requests the backend is given twice: a copy with counter k still    *)
(* has 1 + MaxRetries - k turns, and a step never adds a turn to them      *)
(* (app/broker/event_consumer.py, repository/recommendation.go).           *)
THEOREM RecommendationsBounded == Spec => []RecommendationsAreBounded
  <1>1. EventInv /\ CopiesOK /\ TurnsOK => RecommendationsAreBounded
    <2> SUFFICES ASSUME EventInv, CopiesOK, TurnsOK, NEW e \in Events
                 PROVE  /\ Cardinality(HandlingsOf(e))
                              <= (1 + MaxRetries) * (1 + redelivered[e])
                        /\ \A d \in AllDeals :
                              /\ Cardinality(RowsOf(e, d)) <= Cardinality(HandlingsOf(e))
                              /\ \A id \in RowsOf(e, d) : recommendations[id] = 1
      BY DEF RecommendationsAreBounded
    <2>1. Cardinality(HandlingsOf(e)) <= (1 + MaxRetries) * (1 + redelivered[e])
      BY TurnsTyped
    <2>2. QED BY <2>1, RowsOfRuns
  <1>2. QED BY <1>1, Always, CopiesAlways, TurnsAlways, PTL
=============================================================================
