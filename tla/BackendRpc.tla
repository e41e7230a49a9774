----------------------------- MODULE BackendRpc -----------------------------
(***************************************************************************)
(* Calls of the agent service to the backend: BackendRpcClient of          *)
(* app/broker/backend_rpc.py on one side, BackendRPCConsumer and its       *)
(* dispatcher of broker/backend_rpc.go on the other, RabbitMQ in between.  *)
(* Only the two operations that change the backend are carried as          *)
(* messages: offer.create and offer.request_approval.                      *)
(***************************************************************************)
EXTENDS Naturals, Sequences

CONSTANTS
    CallIds,     \* correlation ids; request_id is as fresh as correlation_id
    MaxFaults    \* bound on crashes and failed publications

ASSUME RpcAssumption == MaxFaults \in Nat

VARIABLES
    pending,     \* BackendRpcClient._pending: correlation id -> its future
    connected,   \* FALSE once the client is closed
    requests,    \* the queue of the backend
    working,     \* the delivery the backend handles: a sequence of at most one
    replies,     \* responses in the reply queue of the client
    offers,      \* the table offers, by request_id
    faults       \* crashes and failed publications so far

rpcVars == <<pending, connected, requests, working, replies, offers, faults>>

Waiting == "waiting"

(* Table f with value y under key x, be it new or not.                     *)
Put(f, x, y) == [z \in DOMAIN f \cup {x} |-> IF z = x THEN y ELSE f[z]]

RpcInit ==
    /\ pending = <<>>
    /\ connected = TRUE
    /\ requests = <<>>
    /\ working = <<>>
    /\ replies = {}
    /\ offers = <<>>
    /\ faults = 0

Fault ==
    /\ faults < MaxFaults
    /\ faults' = faults + 1

---------------------------------------------------------------------------
(* The client.                                                             *)

(* call() up to its await: a future is registered and the request          *)
(* published.                                                              *)
Issue(request) ==
    /\ connected
    /\ pending' = Put(pending, request.id, Waiting)
    /\ requests' = Append(requests, request)
    /\ UNCHANGED <<connected, working, replies, offers, faults>>

(* The publication raises, and the broker may have the request all the     *)
(* same; call() drops the future.                                          *)
IssueFails(request) ==
    /\ connected /\ Fault
    /\ requests' \in {requests, Append(requests, request)}
    /\ UNCHANGED <<pending, connected, working, replies, offers>>

ForgetNothing(id) == UNCHANGED pending

(* The future of a call is dropped whatever the outcome.                   *)
Forget(id) == pending' = [c \in DOMAIN pending \ {id} |-> pending[c]]

(* call() resumes: with the response, or with a timeout if there is none.  *)
Outcome(id) == IF pending[id] = Waiting THEN "TIMEOUT" ELSE pending[id]

(* As if there were no timeout.                                            *)
ResumeOnResponse(id) ==
    /\ id \in DOMAIN pending /\ pending[id] # Waiting
    /\ Forget(id)
    /\ UNCHANGED <<connected, requests, working, replies, offers, faults>>

Resume(id) ==
    /\ id \in DOMAIN pending
    /\ Forget(id)
    /\ UNCHANGED <<connected, requests, working, replies, offers, faults>>

(* A response goes to the future with its correlation id, if there is one  *)
(* and it is not done.                                                     *)
HandleResponse(r) ==
    /\ replies' = replies \ {r}
    /\ pending' = [c \in DOMAIN pending |->
                      IF c = r.id /\ pending[c] = Waiting THEN r.result ELSE pending[c]]
    /\ UNCHANGED <<connected, requests, working, offers, faults>>

(* close(): every call in progress fails at once.                          *)
CloseClient ==
    /\ connected /\ Fault
    /\ connected' = FALSE
    /\ pending' = [c \in DOMAIN pending |->
                      IF pending[c] = Waiting THEN "CLIENT_CLOSED" ELSE pending[c]]
    /\ UNCHANGED <<requests, working, replies, offers>>

(* The process of the client ends and starts again: its futures are gone,  *)
(* and so is its exclusive reply queue.                                    *)
RestartClient ==
    /\ pending' = <<>>
    /\ connected' = TRUE
    /\ replies' = {}
    /\ UNCHANGED <<requests, working, offers>>

---------------------------------------------------------------------------
(* The backend, one delivery at a time.                                    *)

(* An offer is born a draft if its discount exceeds the limit of the       *)
(* moment, approved otherwise.  No discount never exceeds a limit.         *)
BirthStatuses(discount) == IF discount = 0 THEN {"approved"} ELSE {"draft", "approved"}

Row(request, status) ==
    [deal |-> request.deal, by |-> request.by, discount |-> request.discount,
     status |-> status]

(* The tables OfferService.Create may leave: an idempotency key that is    *)
(* taken leaves the table alone.                                           *)
Creations(request) ==
    IF request.id \in DOMAIN offers THEN {offers}
    ELSE {Put(offers, request.id, Row(request, s)) : s \in BirthStatuses(request.discount)}

(* RequestApproval moves a draft on and accepts an offer already pending.  *)
Submissions(request) ==
    IF request.offer \in DOMAIN offers
       /\ offers[request.offer].status \in {"draft", "pending_approval"}
    THEN {[offers EXCEPT ![request.offer].status = "pending_approval"]}
    ELSE {}

Target(request) == IF request.op = "create" THEN request.id ELSE request.offer

Effects(request) ==
    IF request.op = "create" THEN Creations(request) ELSE Submissions(request)

(* Dispatch: the operation takes effect and answers with the status of the *)
(* offer; or takes effect and fails afterwards; or refuses.                *)
Dispatch ==
    /\ working = <<>> /\ requests # <<>>
    /\ requests' = Tail(requests)
    /\ LET request == Head(requests) IN
       \/ \E table \in Effects(request) :
          \E result \in {table[Target(request)].status, "INTERNAL_ERROR"} :
             /\ offers' = table
             /\ working' = <<[request |-> request, result |-> result, sent |-> FALSE]>>
       \/ \E result \in {"FORBIDDEN", "INTERNAL_ERROR"} :
             /\ working' = <<[request |-> request, result |-> result, sent |-> FALSE]>>
             /\ UNCHANGED offers
    /\ UNCHANGED <<pending, connected, replies, faults>>

Requeue == requests' = <<working[1].request>> \o requests

(* The response is published; if that fails, the request is requeued.      *)
Respond ==
    /\ working # <<>> /\ ~working[1].sent
    /\ \/ /\ replies' = replies \cup {[id |-> working[1].request.id,
                                       result |-> working[1].result]}
          /\ working' = <<[working[1] EXCEPT !.sent = TRUE]>>
          /\ UNCHANGED <<requests, faults>>
       \/ /\ Fault
          /\ Requeue
          /\ working' = <<>>
          /\ UNCHANGED replies
    /\ UNCHANGED <<pending, connected, offers>>

AckRequest ==
    /\ working # <<>> /\ working[1].sent
    /\ working' = <<>>
    /\ UNCHANGED <<pending, connected, requests, replies, offers, faults>>

(* The backend ends before the ack: the broker delivers the request again. *)
CrashBackend ==
    /\ working # <<>> /\ Fault
    /\ Requeue
    /\ working' = <<>>
    /\ UNCHANGED <<pending, connected, replies, offers>>

RpcNext ==
    \/ Dispatch \/ Respond \/ AckRequest \/ CrashBackend \/ CloseClient
    \/ \E r \in replies : HandleResponse(r)
=============================================================================
