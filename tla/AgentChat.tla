------------------------------ MODULE AgentChat ------------------------------
(***************************************************************************)
(* A chat request of a member of staff, from AIHandler.Chat and sendRPC of *)
(* the Go backend through the queue of the agent service (AgentConsumer,   *)
(* OfferAgent and OfferGraph) to the offers the graph makes in the backend *)
(* and to the answer.  Handlers of several deliveries interleave at every  *)
(* await; processes crash, publications fail and calls time out.           *)
(***************************************************************************)
EXTENDS BackendRpc, FiniteSetsExt

CONSTANTS
    Requests,     \* chat requests
    ChatMessages, \* what a request may carry
    Percents,     \* values the language model may extract, in 1/1000 %
    MaxHandlings, \* bound on the deliveries handled
    Prefetch,     \* RABBITMQ_PREFETCH_COUNT
    MaxRetries,   \* MAX_RETRY_ATTEMPTS
    MaxPending,   \* MAX_PENDING_OFFERS
    None

Handlings == 1..MaxHandlings

(* A message: who sends it from which session about which deal, whether it *)
(* speaks of a discount, and the percentages written in it.                *)
ASSUME ChatMessageAssumption ==
    /\ \A m \in ChatMessages :
         /\ DOMAIN m = {"user", "session", "deal", "mentions", "written"}
         /\ m.mentions \in BOOLEAN
         /\ m.written \subseteq Percents
    /\ None \notin ChatMessages
    /\ Percents \subseteq Nat
    /\ {MaxHandlings, Prefetch, MaxRetries, MaxPending} \subseteq Nat \ {0}

ASSUME CallIdsAssumption == CallIds = Handlings \X {"create", "approval"}

VARIABLES
    asked,         \* asked[r]: the message of request r, or None
    caller,        \* caller[r]: "idle", "waiting", "timeout" or the answer read
    answers,       \* answers[r]: the answers published for r
    queue,         \* queue[r][k]: copies of r queued with x-retry-count k
    handling,      \* the deliveries taken so far, in order
    pendingOffers, \* OfferAgent._pending_offers, by user and session
    redelivered,   \* redelivered[r]: how often r was put back into the queue
    lost           \* handlings the broker took back, on a reconnect, as they ran

chatVars == <<asked, caller, answers, queue, handling, pendingOffers, redelivered, lost>>
vars == <<rpcVars, chatVars>>

LiveHandlings == {h \in DOMAIN handling : handling[h].at # "over"}

(* The deliveries the broker counts as not acknowledged.                   *)
HeldHandlings == LiveHandlings \ lost

Queued(r, k, n) == [queue EXCEPT ![r][k] = @ + n]

NewHandling(r, k, at, plan) ==
    [req |-> r, retry |-> k, at |-> at, plan |-> plan, answer |-> None]

(* Handler h goes on: at another place, with an answer, or with nothing    *)
(* left to do but to acknowledge.                                          *)
Become(h, local) == handling' = [handling EXCEPT ![h] = local]
Goto(h, a) == Become(h, [handling[h] EXCEPT !.at = a])
Say(h, answer) == Become(h, [handling[h] EXCEPT !.at = "answer", !.answer = answer])
Leave(h, a) == Become(h, NewHandling(handling[h].req, handling[h].retry, a, None))

Message(h) == asked[handling[h].req]

---------------------------------------------------------------------------
(* The backend's side of a chat request.                                   *)

Ask(r, m) ==
    /\ asked[r] = None
    /\ asked' = [asked EXCEPT ![r] = m]
    /\ caller' = [caller EXCEPT ![r] = "waiting"]
    /\ queue' = Queued(r, 0, 1)
    /\ UNCHANGED <<rpcVars, answers, handling, pendingOffers, redelivered, lost>>

(* sendRPC returns with the first response in its callback queue.          *)
ReadAnswer(r) ==
    /\ caller[r] = "waiting"
    /\ \E answer \in answers[r] : caller' = [caller EXCEPT ![r] = answer]
    /\ UNCHANGED <<rpcVars, asked, answers, queue, handling, pendingOffers, redelivered, lost>>

(* Or its 75 s pass, or its client goes away.                              *)
GiveUp(r) ==
    /\ caller[r] = "waiting"
    /\ caller' = [caller EXCEPT ![r] = "timeout"]
    /\ UNCHANGED <<rpcVars, asked, answers, queue, handling, pendingOffers, redelivered, lost>>

---------------------------------------------------------------------------
(* Offers of which the agent has asked for the discount.                   *)

KeyByUser(m) == <<m.user>>

Key(m) == <<m.user, m.session>>

Created == {pendingOffers[key].created : key \in DOMAIN pendingOffers}

Entries(keys) == [key \in keys |-> pendingOffers[key]]

(* Entries older than the TTL are purged; which ones, depends on the time. *)
Unexpired ==
    {keys \in SUBSET DOMAIN pendingOffers :
        \A old \in DOMAIN pendingOffers \ keys : \A new \in keys :
           pendingOffers[old].created < pendingOffers[new].created}

Oldest(keys) ==
    CHOOSE old \in keys :
       \A key \in keys : pendingOffers[old].created <= pendingOffers[key].created

EvictedLate(keys) ==
    IF Cardinality(keys) > MaxPending THEN keys \ {Oldest(keys)} ELSE keys

(* The oldest entry makes room, even for an entry of the same key.         *)
Evicted(keys) ==
    IF Cardinality(keys) >= MaxPending THEN keys \ {Oldest(keys)} ELSE keys

Remember(key, plan) ==
    \E keys \in Unexpired :
       pendingOffers' = Put(Entries(Evicted(keys)), key,
                            [plan |-> plan, created |-> 1 + Max(Created \cup {0})])

Forgotten(key) == pendingOffers' = Entries(DOMAIN pendingOffers \ {key})

---------------------------------------------------------------------------
(* Deliveries.                                                             *)

(* A delivery is taken up to the first await: a pending offer of the same  *)
(* user and session takes precedence over the router.                      *)
Deliver(r, k) ==
    /\ connected
    /\ queue[r][k] > 0
    /\ Len(handling) < MaxHandlings
    /\ Cardinality(HeldHandlings) < Prefetch
    /\ queue' = Queued(r, k, 0 - 1)
    /\ \E keys \in Unexpired :
         /\ pendingOffers' = Entries(keys)
         /\ handling' = Append(handling,
              IF Key(asked[r]) \in keys
              THEN NewHandling(r, k, "resume", pendingOffers[Key(asked[r])].plan)
              ELSE NewHandling(r, k, "route", None))
    /\ UNCHANGED <<rpcVars, asked, caller, answers, redelivered, lost>>

SameRetry(k) == k

(* The header x-retry-count of the copy published for a retry.             *)
NextRetry(k) == k + 1

(* As if the nack did not requeue.                                         *)
ThrowAway(h) == UNCHANGED <<queue, redelivered>>

(* The nack with requeue, which fails if the broker took the delivery back *)
(* already.                                                                *)
PutBack(h) ==
    LET r == handling[h].req  k == handling[h].retry IN
    IF h \in lost THEN UNCHANGED <<queue, redelivered>>
    ELSE /\ queue' = Queued(r, k, 1)
         /\ redelivered' = [redelivered EXCEPT ![r] = @ + 1]

(* A temporary error of the language model or of a backend call that the   *)
(* agent does not handle itself: the request is published again with its   *)
(* counter raised, until the counter is at its limit.                      *)
Retry(h) ==
    LET r == handling[h].req  k == handling[h].retry IN
    \/ /\ k < MaxRetries
       /\ queue' = Queued(r, NextRetry(k), 1)
       /\ Leave(h, "ack")
       /\ UNCHANGED <<faults, redelivered>>
    \/ /\ k < MaxRetries
       /\ Fault
       /\ PutBack(h)
       /\ Leave(h, "over")
    \/ /\ k >= MaxRetries
       /\ Say(h, "failed")
       /\ UNCHANGED <<queue, faults, redelivered>>

(* As if the graph let the errors of create_offer through.                 *)
TemporaryErrorOfGraph(h) ==
    /\ handling[h].at \in {"route", "resume", "extract", "create"}
    /\ Retry(h)
    /\ UNCHANGED <<pending, connected, requests, working, replies, offers,
                   asked, caller, answers, pendingOffers, lost>>

(* The language model is down, or another agent meets a temporary error.   *)
TemporaryError(h) ==
    /\ handling[h].at \in {"route", "resume", "extract"}
    /\ Retry(h)
    /\ UNCHANGED <<pending, connected, requests, working, replies, offers,
                   asked, caller, answers, pendingOffers, lost>>

(* Any other error is answered.                                            *)
PermanentError(h) ==
    /\ handling[h].at \in {"route", "resume", "extract"}
    /\ Say(h, "failed")
    /\ UNCHANGED <<rpcVars, asked, caller, answers, queue, pendingOffers, redelivered, lost>>

(* The router decides.  The other agents answer; an offer without a deal   *)
(* is refused.                                                             *)
Route(h) ==
    /\ handling[h].at = "route"
    /\ \/ Say(h, "other")
       \/ Message(h).deal = None /\ Say(h, "which_deal")
       \/ /\ Message(h).deal # None
          /\ \E intent \in {"create_offer", "calculate_offer"} :
               Become(h, [handling[h] EXCEPT !.at = "extract",
                   !.plan = [intent |-> intent, deal |-> Message(h).deal, discount |-> 0,
                             over |-> FALSE]])
    /\ UNCHANGED <<rpcVars, asked, caller, answers, queue, pendingOffers, redelivered, lost>>

---------------------------------------------------------------------------
(* The discount.                                                           *)

(* At most 100 %, in at most two decimals.                                 *)
Valid(percent) == percent <= 100000 /\ percent % 10 = 0

(* What the language model may make of a message: nothing usable, twice,   *)
(* or facts of the schema OfferRequestFacts.                               *)
Facts == {None, [mentioned |-> FALSE, requested |-> None]}
         \cup [mentioned : {TRUE}, requested : {None} \cup {p \in Percents : Valid(p)}]

(* As if the language model were trusted.                                  *)
UnderstoodByModel(m, context, facts) ==
    {d \in Percents \cup {0} :
        /\ facts # None
        /\ \/ ~facts.mentioned /\ ~context /\ d = 0
           \/ facts.mentioned /\ facts.requested = d}

(* The discount understood, if any: none at all where no discount is       *)
(* spoken of, or the one percentage written, which the model must confirm. *)
Understood(m, context, facts) ==
    {d \in m.written \cup {0} :
        /\ facts # None
        /\ \/ ~facts.mentioned /\ ~context /\ d = 0
           \/ facts.mentioned /\ facts.requested = d /\ m.written = {d} /\ Valid(d)}

StartGraph(h, d) ==
    /\ Forgotten(Key(Message(h)))
    /\ Become(h, [handling[h] EXCEPT !.at = "load", !.plan = [@ EXCEPT !.discount = d]])

(* generate(): an unclear discount is asked for, and the plan remembered.  *)
Extract(h) ==
    /\ handling[h].at = "extract"
    /\ \E facts \in Facts :
         LET understood == Understood(Message(h), Message(h).mentions, facts) IN
         \/ \E d \in understood : StartGraph(h, d)
         \/ /\ understood = {}
            /\ Remember(Key(Message(h)), handling[h].plan)
            /\ Say(h, "clarify")
    /\ UNCHANGED <<rpcVars, asked, caller, answers, queue, redelivered, lost>>

(* resume_pending(): the whole message is about the discount.              *)
ResumeOffer(h) ==
    /\ handling[h].at = "resume"
    /\ \E facts \in Facts :
         LET understood == Understood(Message(h), TRUE, facts) IN
         \/ \E d \in understood : StartGraph(h, d)
         \/ /\ understood = {}
            /\ Say(h, "clarify")
            /\ UNCHANGED pendingOffers
    /\ UNCHANGED <<rpcVars, asked, caller, answers, queue, redelivered, lost>>

---------------------------------------------------------------------------
(* The graph.  Errors end it with an answer, except FORBIDDEN.             *)

(* The nodes load_deal, load_client, load_apartment and calculate_offer    *)
(* read one after the other; the last says whether approval is required.   *)
Load(h) ==
    /\ handling[h].at = "load"
    /\ \/ Say(h, "data_error")
       \/ connected /\ Say(h, "forbidden")
       \/ /\ connected /\ handling[h].plan.intent = "calculate_offer"
          /\ Say(h, "calculation")
       \/ /\ connected /\ handling[h].plan.intent = "create_offer"
          /\ \E over \in BOOLEAN :
               /\ over => handling[h].plan.discount > 0
               /\ Become(h, [handling[h] EXCEPT !.at = "text",
                                                !.plan = [@ EXCEPT !.over = over]])
    /\ UNCHANGED <<rpcVars, asked, caller, answers, queue, pendingOffers, redelivered, lost>>

(* A call is issued, or it cannot be published.                            *)
Call(h, request, failure) ==
    \/ /\ Issue(request)
       /\ Goto(h, request.op)
    \/ /\ ~connected
       /\ Say(h, failure)
       /\ UNCHANGED rpcVars
    \/ /\ IssueFails(request)
       /\ Say(h, failure)

CreateRequest(h) ==
    [op |-> "create", id |-> <<h, "create">>, offer |-> <<h, "create">>,
     by |-> Message(h).user, deal |-> handling[h].plan.deal,
     discount |-> handling[h].plan.discount]

(* generate_text may fail; create_offer is called with a fresh request_id. *)
WriteText(h) ==
    /\ handling[h].at = "text"
    /\ \/ Say(h, "text_error") /\ UNCHANGED rpcVars
       \/ Call(h, CreateRequest(h), "save_failed")
    /\ UNCHANGED <<asked, caller, answers, queue, pendingOffers, redelivered, lost>>

(* As if the status of the offer were not compared.                        *)
AfterCreateUnchecked(plan, result) ==
    CASE result = "FORBIDDEN" -> "forbidden"
      [] result \in {"approved", "draft"} /\ ~plan.over -> "saved"
      [] result \in {"approved", "draft"} /\ plan.over -> "submit"
      [] OTHER -> "save_failed"

(* The offer is expected to be a draft exactly if approval is required.    *)
AfterCreate(plan, result) ==
    CASE result = "FORBIDDEN" -> "forbidden"
      [] result = "approved" /\ ~plan.over -> "saved"
      [] result = "draft" /\ plan.over -> "submit"
      [] OTHER -> "save_failed"

AfterApproval(result) ==
    CASE result = "FORBIDDEN" -> "forbidden"
      [] result = "pending_approval" -> "submitted"
      [] OTHER -> "approval_failed"

OfferCreated(h) ==
    /\ handling[h].at = "create"
    /\ Resume(<<h, "create">>)
    /\ LET next == AfterCreate(handling[h].plan, Outcome(<<h, "create">>)) IN
       IF next = "submit" THEN Goto(h, next) ELSE Say(h, next)
    /\ UNCHANGED <<asked, caller, answers, queue, pendingOffers, redelivered, lost>>

Submit(h) ==
    /\ handling[h].at = "submit"
    /\ Call(h, [CreateRequest(h) EXCEPT !.op = "approval", !.id = <<h, "approval">>],
            "approval_failed")
    /\ UNCHANGED <<asked, caller, answers, queue, pendingOffers, redelivered, lost>>

OfferSubmitted(h) ==
    /\ handling[h].at = "approval"
    /\ Resume(<<h, "approval">>)
    /\ Say(h, AfterApproval(Outcome(<<h, "approval">>)))
    /\ UNCHANGED <<asked, caller, answers, queue, pendingOffers, redelivered, lost>>

---------------------------------------------------------------------------
(* The end of a handling.                                                  *)

(* The answer is published before the ack; if that fails, the request is   *)
(* put back.                                                               *)
Answer(h) ==
    LET r == handling[h].req IN
    /\ handling[h].at = "answer"
    /\ \/ /\ answers' = [answers EXCEPT ![r] = @ \cup {handling[h].answer}]
          /\ Leave(h, "ack")
          /\ UNCHANGED <<queue, redelivered, faults>>
       \/ /\ Fault
          /\ PutBack(h)
          /\ Leave(h, "over")
          /\ UNCHANGED answers
    /\ UNCHANGED <<pending, connected, requests, working, replies, offers,
                   asked, caller, pendingOffers, lost>>

Ack(h) ==
    /\ handling[h].at = "ack"
    /\ Leave(h, "over")
    /\ UNCHANGED <<rpcVars, asked, caller, answers, queue, pendingOffers, redelivered, lost>>

(* The broker puts back into the queue what is not acknowledged.           *)
Held(r, k) ==
    Cardinality({h \in HeldHandlings : handling[h].req = r /\ handling[h].retry = k})

HeldOf(r) == Cardinality({h \in HeldHandlings : handling[h].req = r})

TakenBack ==
    /\ queue' = [r \in Requests |-> [k \in 0..MaxRetries |-> queue[r][k] + Held(r, k)]]
    /\ redelivered' = [r \in Requests |-> redelivered[r] + HeldOf(r)]

(* The agent service ends, by a crash or after CloseClient, and starts     *)
(* again: what was not acknowledged is delivered again, and the offers it  *)
(* remembered are gone.                                                    *)
RestartAgent ==
    /\ \/ ~connected /\ UNCHANGED faults
       \/ connected /\ Fault
    /\ RestartClient
    /\ TakenBack
    /\ handling' = [h \in DOMAIN handling |->
                       NewHandling(handling[h].req, handling[h].retry, "over", None)]
    /\ pendingOffers' = <<>>
    /\ lost' = {}
    /\ UNCHANGED <<asked, caller, answers>>

(* The connection breaks and connect_robust makes another: the broker      *)
(* delivers again what was not acknowledged and drops the reply queue,     *)
(* while the handlers go on and cannot settle their deliveries any more.   *)
Reconnect ==
    /\ connected /\ Fault
    /\ replies' = {}
    /\ TakenBack
    /\ lost' = lost \cup LiveHandlings
    /\ UNCHANGED <<pending, connected, requests, working, offers,
                   asked, caller, answers, handling, pendingOffers>>

---------------------------------------------------------------------------

Init ==
    /\ RpcInit
    /\ asked = [r \in Requests |-> None]
    /\ caller = [r \in Requests |-> "idle"]
    /\ answers = [r \in Requests |-> {}]
    /\ queue = [r \in Requests |-> [k \in 0..MaxRetries |-> 0]]
    /\ handling = <<>>
    /\ pendingOffers = <<>>
    /\ redelivered = [r \in Requests |-> 0]
    /\ lost = {}

Handle(h) ==
    \/ TemporaryError(h) \/ PermanentError(h) \/ Route(h) \/ Extract(h) \/ ResumeOffer(h)
    \/ Load(h) \/ WriteText(h) \/ OfferCreated(h) \/ Submit(h) \/ OfferSubmitted(h)
    \/ Answer(h) \/ Ack(h)

Take == \E r \in Requests, k \in 0..MaxRetries : Deliver(r, k)

Next ==
    \/ \E r \in Requests, m \in ChatMessages : Ask(r, m)
    \/ \E r \in Requests : ReadAnswer(r) \/ GiveUp(r)
    \/ Take
    \/ \E h \in DOMAIN handling : Handle(h)
    \/ RestartAgent \/ Reconnect
    \/ RpcNext /\ UNCHANGED chatVars

Spec == Init /\ [][Next]_vars

(* The event loop of the agent service runs every handler and every timer, *)
(* a stopped service is started again, and the broker delivers.            *)
Fairness ==
    /\ \A h \in Handlings : WF_vars(h \in DOMAIN handling /\ Handle(h))
    /\ WF_vars(Take)
    /\ WF_vars(~connected /\ RestartAgent)

FairSpec == Spec /\ Fairness

---------------------------------------------------------------------------
(* Properties.                                                             *)

Places == {"route", "extract", "resume", "load", "text", "create", "submit", "approval",
           "answer", "ack", "over"}

Answers == {"other", "failed", "which_deal", "clarify", "data_error", "forbidden",
            "calculation", "text_error", "save_failed", "saved", "submitted",
            "approval_failed"}

Results == {"approved", "draft", "pending_approval", "FORBIDDEN", "INTERNAL_ERROR",
            "CLIENT_CLOSED"}

Plan == [intent : {"create_offer", "calculate_offer"},
         deal : {m.deal : m \in ChatMessages},
         discount : {0} \cup Percents, over : BOOLEAN]

(* Every variable has its type, and every future in _pending is that of a  *)
(* handler waiting for it.                                                 *)
TypeOK ==
    /\ asked \in [Requests -> ChatMessages \cup {None}]
    /\ caller \in [Requests -> {"idle", "waiting", "timeout"} \cup Answers]
    /\ answers \in [Requests -> SUBSET Answers]
    /\ \A r \in Requests : \A k \in 0..MaxRetries : queue[r][k] \in Nat
    /\ DOMAIN handling \subseteq Handlings
    /\ \A h \in DOMAIN handling :
         /\ handling[h].req \in Requests /\ handling[h].retry \in 0..MaxRetries
         /\ handling[h].at \in Places
         /\ handling[h].plan \in Plan \cup {None}
         /\ handling[h].answer \in Answers \cup {None}
    /\ \A id \in DOMAIN pending :
         /\ id \in CallIds /\ pending[id] \in Results \cup {Waiting}
         /\ handling[id[1]].at = id[2]
    /\ \A key \in DOMAIN pendingOffers :
         pendingOffers[key].plan \in Plan /\ pendingOffers[key].created \in Nat

OffersOf(r) == {id \in DOMAIN offers : handling[id[1]].req = r}

(* Whoever is told that an offer was saved, or sent for approval, has it:  *)
(* the answer survives timeouts, redeliveries and restarts between the     *)
(* backend's INSERT and the text the agent publishes.                      *)
SavedMeansStored ==
    \A r \in Requests :
       /\ "saved" \in answers[r] => \E id \in OffersOf(r) : offers[id].status = "approved"
       /\ "submitted" \in answers[r] =>
             \E id \in OffersOf(r) : offers[id].status = "pending_approval"

(* Retries never duplicate an offer: beyond the first, a request makes one *)
(* offer at most for each time the broker had to deliver it again.         *)
OneOfferPerDelivery ==
    \A r \in Requests : Cardinality(OffersOf(r)) <= 1 + redelivered[r]

(* An offer is about the deal, and in the name, of somebody who asked for  *)
(* it in the same session, even if a later message supplied the discount.  *)
OffersStayInTheConversation ==
    \A id \in DOMAIN offers :
       \E r \in Requests :
          LET m == asked[handling[id[1]].req] IN
          /\ asked[r] # None
          /\ asked[r].session = m.session
          /\ asked[r].user = m.user /\ offers[id].by = m.user
          /\ offers[id].deal = asked[r].deal /\ offers[id].deal # None

(* Whatever the language model says, the discount of an offer is the one   *)
(* percentage its message writes, or none if it speaks of none.            *)
NoInventedDiscount ==
    \A id \in DOMAIN offers :
       LET m == asked[handling[id[1]].req]  d == offers[id].discount IN
       /\ Valid(d)
       /\ m.written = {d} \/ (d = 0 /\ ~m.mentions)

(* The memory of unfinished offers is bounded.                             *)
PendingBounded == Cardinality(DOMAIN pendingOffers) <= MaxPending

(* A request is in the queue or in a handler's hands until it is answered. *)
NoRequestLost ==
    \A r \in Requests : asked[r] # None =>
       \/ answers[r] # {}
       \/ \E k \in 0..MaxRetries : queue[r][k] > 0
       \/ \E h \in HeldHandlings : handling[h].req = r

(* The retry counter bounds the work on a request: each copy the broker    *)
(* delivers is handled at most 1 + MaxRetries times.                       *)
RetriesAreBounded ==
    \A r \in Requests :
       Cardinality({h \in DOMAIN handling : handling[h].req = r})
          <= (1 + MaxRetries) * (1 + redelivered[r])

(* Every request is answered in the end, although models and brokers fail  *)
(* and the service restarts, as long as faults are finite.                 *)
EveryRequestIsAnswered ==
    \A r \in Requests : asked[r] # None ~> answers[r] # {}
=============================================================================
