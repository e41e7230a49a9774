---------------------------- MODULE DomainEvents ----------------------------
(***************************************************************************)
(* Domain events: DomainEventConsumer of app/broker/event_consumer.py, the *)
(* workflow after a construction delay, the continuation after a decision  *)
(* on an offer, and the calls they make to the backend, whose dispatcher   *)
(* answers them among the calls of the other agents.  An event that fails  *)
(* for a passing reason is published again and starts from the beginning,  *)
(* with fresh request ids; the backend knows requests apart, not events.   *)
(***************************************************************************)
EXTENDS BackendRpc, FiniteSetsExt, Functions

CONSTANTS
    Events,       \* domain events
    EventMessages,\* what an event may carry
    Listings,     \* what a look at the building may list: its deals, pending or
                  \* under contract at that moment, in order
    ForeignOps,   \* what another agent may ask the backend for meanwhile
    MaxHandlings, \* bound on the deliveries handled
    MaxBacklog,   \* bound on the requests waiting for the backend
    Prefetch,     \* RABBITMQ_PREFETCH_COUNT
    MaxRetries,   \* MAX_RETRY_ATTEMPTS
    None

Handlings == 1..MaxHandlings

Kinds == {"delay", "approved", "rejected", "malformed"}

(* An event: its kind, and the rows that it names in vain.                 *)
ASSUME EventAssumption ==
    /\ \A listing \in Listings : listing \in Seq(Range(listing))
    /\ EventMessages \subseteq [kind : Kinds, absent : SUBSET {"building", "complex", "deal"}]
    /\ {MaxHandlings, MaxBacklog, Prefetch, MaxRetries} \subseteq Nat \ {0}
    /\ None \notin EventMessages \cup UNION {Range(listing) : listing \in Listings}

VARIABLES
    event,           \* event[e]: the message of event e, or None
    queue,           \* queue[e][k]: copies of e queued with x-retry-count k
    handling,        \* the deliveries taken so far, in order
    recommendations, \* rows stored per request_id
    outcomes,        \* how the copies of an event ended
    redelivered,     \* redelivered[e]: how often e was put back into the queue
    lost             \* handlings the broker took back, on a reconnect, as they ran

eventVars == <<event, queue, handling, outcomes, redelivered, lost>>
vars == <<rpcVars, eventVars, recommendations>>

LiveHandlings == {h \in DOMAIN handling : handling[h].at # "over"}
(* The deliveries the broker counts as not acknowledged.                   *)
HeldHandlings == LiveHandlings \ lost
HandlingsOf(e) == {h \in DOMAIN handling : handling[h].event = e}

Queued(e, k, n) == [queue EXCEPT ![e][k] = @ + n]

(* A delivery: the next await, the deals the run was told of and those not *)
(* dealt with, whether one of them failed for good, and how the run ends.  *)
NewHandling(e, k, at) ==
    [event |-> e, retry |-> k, at |-> at, deal |-> None, listed |-> <<>>, todo |-> <<>>,
     failed |-> FALSE, told |-> "nothing"]

Become(h, local) == handling' = [handling EXCEPT ![h] = local]
Goto(h, at) == Become(h, [handling[h] EXCEPT !.at = at])

(* The run is over: what is left is to publish or to acknowledge.          *)
Leave(h, at, told) ==
    Become(h, [NewHandling(handling[h].event, handling[h].retry, at) EXCEPT !.told = told])

Finish(h, told) == Leave(h, "ack", told)

-----------------------------------------------------------------------------
(* The backend: BackendRPCDispatcher.Dispatch.                             *)

Failures == {"INTERNAL_ERROR", "BACKEND_UNAVAILABLE"}

(* The operations bound to the backend's queue that change no offer or     *)
(* account (those are in BackendRpc and Accounts).                         *)
Supported ==
    {"deal.get", "client.get", "apartment.get", "deal.messages.get", "building.get",
     "competitor.list", "construction.events.get", "deal.list_by_building",
     "recommendation.create", "offer.calculate", "offer.get"}

(* A read looks its rows up one after another: each look-up may fail, and  *)
(* the first row that does not exist is the answer.                        *)
Read(lookups, absent) ==
    LET missing == {i \in DOMAIN lookups : lookups[i] \in absent} IN
    Failures \cup (IF missing = {} THEN {"ok"} ELSE {lookups[Min(missing)] \o " not found"})

CustomerReads(op, absent) ==
    CASE op \in {"deal.get", "deal.messages.get"} -> Read(<<"deal">>, absent)
      [] op = "client.get" -> Read(<<"client">>, absent)
      [] op = "apartment.get" -> Read(<<"apartment">>, absent)

(* Events of the construction include the stocks and schedules of the ERP. *)
BuildingReads(op, absent) ==
    CASE op = "building.get" -> Read(<<"building", "complex">>, absent)
      [] op = "competitor.list" -> Read(<<>>, absent)
      [] op \in {"construction.events.get", "deal.list_by_building"} ->
            Read(<<"building">>, absent)

OfferReads(op, absent) ==
    IF op = "offer.get"
    THEN Failures \cup {"approved", "other status", "offer not found"}
    ELSE Failures \cup {"ok", "FORBIDDEN", "INVALID_DISCOUNT", "deal not found"}

Reads(op, absent) ==
    CASE op \in {"deal.get", "deal.messages.get", "client.get", "apartment.get"} ->
            CustomerReads(op, absent)
      [] op \in {"offer.get", "offer.calculate"} -> OfferReads(op, absent)
      [] OTHER -> BuildingReads(op, absent)

(* INSERT ... ON CONFLICT (request_id) DO NOTHING.  The mutant inserts.    *)
Inserted(rows, id) == Put(rows, id, 1 + IF id \in DOMAIN rows THEN rows[id] ELSE 0)
Stored(rows, id) == IF id \in DOMAIN rows THEN rows ELSE Put(rows, id, 1)

(* recommendation.create looks the deal up, then stores, and may fail even *)
(* then; the other operations only read.                                   *)
ServeRequest ==
    LET request == Head(requests)
        serves(result) ==
            working' = <<[request |-> request, result |-> result, sent |-> FALSE]>>
    IN
    /\ working = <<>> /\ requests # <<>>
    /\ requests' = Tail(requests)
    /\ \/ /\ request.op # "recommendation.create"
          /\ \E result \in Reads(request.op, request.absent) : serves(result)
          /\ UNCHANGED recommendations
       \/ /\ request.op = "recommendation.create"
          /\ \/ /\ \E result \in Read(<<"deal">>, request.absent) \ {"ok"} : serves(result)
                /\ UNCHANGED recommendations
             \/ /\ "deal" \notin request.absent
                /\ \E result \in Failures \cup {"ok"} : serves(result)
                /\ recommendations' = Stored(recommendations, request.id)
    /\ UNCHANGED <<pending, connected, replies, offers, faults>>

(* The response is published and reaches the future of its call, if that   *)
(* still waits, or the request is put back.  The time it spends in the     *)
(* reply queue is time the backend takes.                                  *)
AnswerRequest ==
    LET request == working[1].request IN
    /\ working # <<>> /\ ~working[1].sent
    /\ \/ /\ pending' = [c \in DOMAIN pending |->
                IF c = request.id /\ pending[c] = Waiting THEN working[1].result ELSE pending[c]]
          /\ working' = <<[working[1] EXCEPT !.sent = TRUE]>>
          /\ UNCHANGED <<requests, faults>>
       \/ /\ Fault
          /\ Requeue
          /\ working' = <<>>
          /\ UNCHANGED pending
    /\ UNCHANGED <<connected, replies, offers, recommendations>>
-----------------------------------------------------------------------------
(* The agent service: a call from handler h, about the deal d or none.     *)

CallId(h, op, d) == <<h, op, d>>

Request(h, op, d) ==
    [id |-> CallId(h, op, d), op |-> op, absent |-> event[handling[h].event].absent]

(* _error_result and its reader: a temporary error ends the run, and so    *)
(* does any error outside the loop over the deals; another error costs one *)
(* deal.  The mutant forgets that it did.                                  *)
Overlooked(local) == [local EXCEPT !.at = "next", !.todo = Tail(@)]
Skipped(local) == [local EXCEPT !.at = "next", !.todo = Tail(@), !.failed = TRUE]

Error(h, d, retryable) ==
    \/ retryable /\ Leave(h, "retry", "nothing")
    \/ ~retryable /\ d = None /\ Finish(h, "failed")
    \/ ~retryable /\ d # None /\ Become(h, Skipped(handling[h]))

(* TEMPORARY_BACKEND_CODES, but for a failed publication.                  *)
Temporary(code) == code \in {"TIMEOUT", "BACKEND_UNAVAILABLE"}

(* A call whose key is bound to no queue is dropped by the broker, and one *)
(* beyond the backlog stands for those the backend does not get to; one    *)
(* that cannot be published, or finds the client closed, fails at once.    *)
Call(h, op, d, at) ==
    LET id == CallId(h, op, d)
        awaits == Become(h, [handling[h] EXCEPT !.at = at, !.deal = d])
    IN
    \/ /\ op \in Supported /\ Len(requests) < MaxBacklog
       /\ Issue(Request(h, op, d))
       /\ awaits
    \/ /\ connected
       /\ op \notin Supported \/ Len(requests) >= MaxBacklog
       /\ pending' = Put(pending, id, Waiting)
       /\ awaits
       /\ UNCHANGED <<connected, requests, working, replies, offers, faults>>
    \/ /\ ~connected
       /\ Error(h, d, FALSE)
       /\ UNCHANGED rpcVars
    \/ /\ op \in Supported /\ Len(requests) < MaxBacklog
       /\ IssueFails(Request(h, op, d))
       /\ Error(h, d, TRUE)
    \/ /\ connected /\ Fault
       /\ Error(h, d, TRUE)
       /\ UNCHANGED <<pending, connected, requests, working, replies, offers>>

(* A call of h returns, with a code.                                       *)
Code(h, op) == Outcome(CallId(h, op, handling[h].deal))

Returns(h, op, at) ==
    /\ handling[h].at = at
    /\ Resume(CallId(h, op, handling[h].deal))

Unanswered == UNCHANGED <<event, queue, recommendations, outcomes, redelivered, lost>>
-----------------------------------------------------------------------------
(* Deliveries.                                                             *)

Publish(e, m) ==
    /\ event[e] = None
    /\ event' = [event EXCEPT ![e] = m]
    /\ queue' = Queued(e, 0, 1)
    /\ UNCHANGED <<rpcVars, handling, recommendations, outcomes, redelivered, lost>>

(* A delivery is taken; an event that does not parse is rejected.          *)
Deliver(e, k) ==
    /\ connected
    /\ queue[e][k] > 0
    /\ Len(handling) < MaxHandlings
    /\ Cardinality(HeldHandlings) < Prefetch
    /\ queue' = Queued(e, k, 0 - 1)
    /\ handling' = Append(handling,
          IF event[e].kind = "malformed"
          THEN [NewHandling(e, k, "ack") EXCEPT !.told = "invalid"]
          ELSE NewHandling(e, k, event[e].kind))
    /\ UNCHANGED <<rpcVars, event, recommendations, outcomes, redelivered, lost>>

SameRetry(k) == k

(* The header x-retry-count of the copy published for a retry.             *)
NextRetry(k) == k + 1

(* Published again with the counter raised, until it is at its limit; the  *)
(* event is dropped if that fails, though the broker may have the copy.    *)
Retry(h) ==
    LET e == handling[h].event  k == handling[h].retry IN
    /\ handling[h].at = "retry"
    /\ \/ /\ k < MaxRetries
          /\ queue' = Queued(e, NextRetry(k), 1)
          /\ Finish(h, "again")
          /\ UNCHANGED faults
       \/ /\ k < MaxRetries
          /\ Fault
          /\ Finish(h, "dropped")
          /\ queue' \in {queue, Queued(e, NextRetry(k), 1)}
       \/ /\ k >= MaxRetries
          /\ Finish(h, "failed")
          /\ UNCHANGED <<queue, faults>>
    /\ UNCHANGED <<pending, connected, requests, working, replies, offers,
                   event, recommendations, outcomes, redelivered, lost>>

(* The ack, reject or nack, which fails if the broker took the delivery    *)
(* back.                                                                   *)
Ack(h) ==
    LET local == handling[h] IN
    /\ local.at = "ack"
    /\ Leave(h, "over", "nothing")
    /\ outcomes' = IF h \in lost THEN outcomes
                   ELSE [outcomes EXCEPT ![local.event] = @ \cup ({local.told} \ {"again"})]
    /\ lost' = lost \ {h} /\ UNCHANGED <<rpcVars, event, queue, recommendations, redelivered>>
-----------------------------------------------------------------------------
(* ConstructionDelayWorkflow.                                              *)

ListDeals(h) ==
    /\ handling[h].at = "delay"
    /\ Call(h, "deal.list_by_building", None, "listing")
    /\ Unanswered

DealsListed(h) ==
    LET code == Code(h, "deal.list_by_building") IN
    /\ Returns(h, "deal.list_by_building", "listing")
    /\ \/ /\ code = "ok"
          /\ \E listing \in Listings :
               Become(h, [handling[h] EXCEPT !.at = "next", !.listed = listing, !.todo = listing])
       \/ code # "ok" /\ Error(h, None, Temporary(code))
    /\ Unanswered

NextDeal(h) ==
    LET local == handling[h] IN
    /\ local.at = "next"
    /\ \/ /\ local.todo = <<>>
          /\ Become(h, [local EXCEPT !.at = "ack", !.deal = None, !.failed = FALSE,
                                     !.told = IF local.failed THEN "partial" ELSE "done"])
          /\ UNCHANGED rpcVars
       \/ /\ local.todo # <<>>
          /\ Call(h, "deal.get", Head(local.todo), "reading")
    /\ Unanswered

DealRead(h) ==
    LET code == Code(h, "deal.get") IN
    /\ Returns(h, "deal.get", "reading")
    /\ \/ code = "ok" /\ Goto(h, "advise")
       \/ code # "ok" /\ Error(h, handling[h].deal, Temporary(code))
    /\ Unanswered

(* The language model writes the recommendation, or fails.                 *)
Advise(h) ==
    LET d == handling[h].deal IN
    /\ handling[h].at = "advise"
    /\ \/ Call(h, "recommendation.create", d, "storing")
       \/ \E retryable \in BOOLEAN : Error(h, d, retryable) /\ UNCHANGED rpcVars
    /\ Unanswered

Advised(h) ==
    LET code == Code(h, "recommendation.create")
        d == handling[h].deal
    IN
    /\ Returns(h, "recommendation.create", "storing")
    /\ \/ code = "ok" /\ Become(h, [handling[h] EXCEPT !.at = "next", !.todo = Tail(@)])
       \/ code # "ok" /\ Error(h, d, Temporary(code))
    /\ Unanswered
-----------------------------------------------------------------------------
(* OfferContinuationGraph.                                                 *)

MarkRejected(h) ==
    /\ handling[h].at = "rejected"
    /\ Finish(h, "rejected")
    /\ UNCHANGED rpcVars /\ Unanswered

LoadOffer(h) ==
    /\ handling[h].at = "approved"
    /\ Call(h, "offer.get", None, "loading")
    /\ Unanswered

OfferLoaded(h) ==
    LET code == Code(h, "offer.get") IN
    /\ Returns(h, "offer.get", "loading")
    /\ \/ code = "approved" /\ Goto(h, "print")
       \/ code = "other status" /\ Finish(h, "skipped")
       \/ code \notin {"approved", "other status"} /\ Error(h, None, Temporary(code))
    /\ Unanswered

GeneratePdf(h) ==
    /\ handling[h].at = "print"
    /\ Call(h, "offer.generate_pdf", None, "printing")
    /\ Unanswered

(* The backend has no such operation: the call can only fail.              *)
PdfFailed(h) ==
    /\ Returns(h, "offer.generate_pdf", "printing")
    /\ Error(h, None, Temporary(Code(h, "offer.generate_pdf")))
    /\ Unanswered
-----------------------------------------------------------------------------
(* A call of another agent, which is no concern of ours but takes the      *)
(* backend's time.  The bound on faults bounds these calls too.            *)
ForeignCall(op) ==
    /\ connected /\ Fault
    /\ requests = <<>> /\ working = <<>>
    /\ requests' = <<[id |-> <<0, op, None>>, op |-> op, absent |-> {"complex"}]>>
    /\ UNCHANGED <<pending, connected, working, replies, offers>>
    /\ UNCHANGED <<eventVars, recommendations>>

(* The broker puts back into the queue what is not acknowledged.           *)
Held(e, k) == Cardinality({h \in HeldHandlings \cap HandlingsOf(e) : handling[h].retry = k})

TakenBack ==
    /\ queue' = [e \in Events |-> [k \in 0..MaxRetries |-> queue[e][k] + Held(e, k)]]
    /\ redelivered' = [e \in Events |->
          redelivered[e] + Cardinality(HeldHandlings \cap HandlingsOf(e))]

(* The service ends, by a crash or after CloseClient, and starts again:    *)
(* what was not acknowledged is delivered again.                           *)
RestartAgent ==
    /\ \/ ~connected /\ UNCHANGED faults
       \/ connected /\ Fault
    /\ RestartClient
    /\ TakenBack
    /\ handling' = [h \in DOMAIN handling |->
          IF h \in LiveHandlings
          THEN NewHandling(handling[h].event, handling[h].retry, "over")
          ELSE handling[h]]
    /\ lost' = {}
    /\ UNCHANGED <<event, recommendations, outcomes>>

(* The connection breaks and connect_robust makes another: the broker      *)
(* delivers again what was not acknowledged, while the handlers go on and  *)
(* cannot settle their deliveries any more.                                *)
Reconnect ==
    /\ connected /\ Fault
    /\ TakenBack
    /\ lost' = lost \cup LiveHandlings
    /\ UNCHANGED <<pending, connected, requests, working, replies, offers,
                   event, handling, recommendations, outcomes>>
-----------------------------------------------------------------------------
Init ==
    /\ RpcInit
    /\ event = [e \in Events |-> None]
    /\ queue = [e \in Events |-> [k \in 0..MaxRetries |-> 0]]
    /\ handling = <<>>
    /\ recommendations = <<>>
    /\ outcomes = [e \in Events |-> {}]
    /\ redelivered = [e \in Events |-> 0]
    /\ lost = {}

Handle(h) ==
    \/ ListDeals(h) \/ DealsListed(h) \/ NextDeal(h) \/ DealRead(h) \/ Advise(h) \/ Advised(h)
    \/ MarkRejected(h) \/ LoadOffer(h) \/ OfferLoaded(h) \/ GeneratePdf(h) \/ PdfFailed(h)
    \/ Retry(h) \/ Ack(h)

Take == \E e \in Events, k \in 0..MaxRetries : Deliver(e, k)

Next ==
    \/ \E e \in Events, m \in EventMessages : Publish(e, m)
    \/ Take
    \/ \E h \in DOMAIN handling : Handle(h)
    \/ \E op \in ForeignOps : ForeignCall(op)
    \/ RestartAgent \/ Reconnect
    \/ ServeRequest /\ UNCHANGED eventVars
    \/ AnswerRequest /\ UNCHANGED eventVars
    \/ (AckRequest \/ CrashBackend \/ CloseClient)
       /\ UNCHANGED <<eventVars, recommendations>>

Spec == Init /\ [][Next]_vars

(* The event loop of the agent service runs every handler and every timer, *)
(* a stopped service is started again, and the broker delivers.  Nothing   *)
(* is assumed of the backend.                                              *)
Fairness ==
    /\ \A h \in Handlings : WF_vars(h \in DOMAIN handling /\ Handle(h))
    /\ WF_vars(Take)
    /\ WF_vars(~connected /\ RestartAgent)

FairSpec == Spec /\ Fairness
-----------------------------------------------------------------------------
AllDeals == UNION {Range(listing) : listing \in Listings}

RowsOf(e, d) ==
    {id \in DOMAIN recommendations : id[3] = d /\ handling[id[1]].event = e}

(***************************************************************************)
(* A deal gets at most one recommendation from each run of an event, and   *)
(* the runs are bounded: 1 + MaxRetries for each copy the broker delivers. *)
(* Requests are redelivered to the backend, and runs stop between two      *)
(* deals and start from the beginning, but nothing multiplies faster.      *)
(***************************************************************************)
RecommendationsAreBounded ==
    \A e \in Events :
        LET runs == Cardinality(HandlingsOf(e)) IN
        /\ runs <= (1 + MaxRetries) * (1 + redelivered[e])
        /\ \A d \in AllDeals :
              /\ Cardinality(RowsOf(e, d)) <= runs
              /\ \A id \in RowsOf(e, d) : recommendations[id] = 1

(***************************************************************************)
(* A run that reports DONE has stored a recommendation for every deal that *)
(* was active when it listed them: calls that timed out, deals that failed *)
(* for good and responses of earlier runs never add up to success.         *)
(***************************************************************************)
DoneMeansAdvised ==
    \A h \in DOMAIN handling : handling[h].told = "done" =>
        \A d \in Range(handling[h].listed) :
            CallId(h, "recommendation.create", d) \in DOMAIN recommendations

(***************************************************************************)
(* Every event is settled in the end: by success, or for good by a reason  *)
(* that is logged.  It is neither forgotten nor retried for ever, although *)
(* the backend may never answer and the service restarts.                  *)
(***************************************************************************)
EveryEventIsSettled ==
    \A e \in Events : event[e] # None ~> outcomes[e] # {}
=============================================================================
