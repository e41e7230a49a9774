--------------------------- MODULE OfferDelivery ----------------------------
(***************************************************************************)
(* Approved offers on their way out: PDF and Send of handler/offer.go and  *)
(* Send of service/offer_delivery.go, statement by statement, while the    *)
(* life cycle of the offers (module Offers) goes on.  A document is built  *)
(* of what the tables hold at that moment and put on file; a mail is sent  *)
(* between the row that announces it and the statement that completes the  *)
(* row, and a request may be cut short anywhere.                           *)
(***************************************************************************)
EXTENDS Offers

CONSTANTS DealClient, Deliveries, DeliveryRequests

DeliveryRequest == [op : {"pdf", "send"}, actor : Users, offer : OfferIds]

ASSUME DeliveryAssumption ==
    /\ DealClient \in [Deals -> Users]
    /\ DeliveryRequests \subseteq DeliveryRequest

VARIABLES
    document,    \* offer_documents: document[o], the terms on file, or None
    enrolled,    \* offer_deliveries: enrolled[x], the status of send x, or None
    mailed,      \* mailed[x]: the terms the mail server took, or None
    delivery     \* delivery[x]: where request x stands

deliveryVars == <<document, enrolled, mailed, delivery>>
allVars == <<vars, deliveryVars>>

(* What a document says: the terms that an offer keeps for good.           *)
Terms(o) == [discount |-> offers[o].discount, base |-> offers[o].base,
             final |-> offers[o].final, units |-> offers[o].units]

PossibleTerms == [discount : BasisPoints, base : Nat, final : Int, units : UnitChoice]

MailStatuses == {"pending", "sent", "failed"}

ASSUME TermsAssumption == None \notin PossibleTerms \cup DeliveryRequest \cup MailStatuses

DeliverySteps == {"idle", "document", "admit", "file", "enrol", "mail", "sent", "failed",
                  "done"}
DeliveryResults == {"ok", "not_found", "forbidden", "conflict", "error", "unavailable", "lost"}

(* "approved": what the first statement read; "paper": what was built.     *)
Delivery == [at : DeliverySteps, req : DeliveryRequests \cup {None}, approved : BOOLEAN,
             paper : PossibleTerms \cup {None}, told : DeliveryResults]

DeliveryInit ==
    /\ Init
    /\ document = [o \in OfferIds |-> None]
    /\ enrolled = [x \in Deliveries |-> None]
    /\ mailed = [x \in Deliveries |-> None]
    /\ delivery = [x \in Deliveries |-> [at |-> "idle", req |-> None, approved |-> FALSE,
                                         paper |-> None, told |-> "lost"]]
-----------------------------------------------------------------------------
Proceed(x, step) == delivery' = [delivery EXCEPT ![x] = [@ EXCEPT !.at = step]]

Close(x, result) ==
    delivery' = [delivery EXCEPT ![x] = [@ EXCEPT !.at = "done", !.told = result]]

Decline(x, r, result) ==
    delivery' = [delivery EXCEPT ![x] = [@ EXCEPT !.at = "done", !.req = r, !.told = result]]

(* canReadOffer *)
CanReadOffer(u, d) ==
    \/ MayOffer(u, d)
    \/ Role[u] = "user" /\ DealClient[d] = u

(* The mutant lets every offer out that was not rejected.                  *)
NotRejected(o) == offers[o].status # "rejected"
Deliverable(o) == offers[o].status = "approved"

(* GetForActor.  Clients may download; a send is a request of staff.       *)
ReadForDelivery(x, r) ==
    LET o == offers[r.offer] IN
    /\ delivery[x].at = "idle"
    /\ r.op = "send" => Role[r.actor] \in StaffRoles
    /\ \/ o = None /\ Decline(x, r, "not_found")
       \/ o # None /\ ~CanReadOffer(r.actor, o.deal) /\ Decline(x, r, "forbidden")
       \/ /\ o # None /\ CanReadOffer(r.actor, o.deal)
          /\ \/ r.op = "pdf" /\ ~Deliverable(r.offer) /\ Decline(x, r, "conflict")
             \/ /\ r.op = "send" \/ Deliverable(r.offer)
                /\ delivery' = [delivery EXCEPT ![x] =
                      [at |-> "document", req |-> r, approved |-> Deliverable(r.offer),
                       paper |-> None, told |-> "lost"]]
    /\ UNCHANGED <<vars, document, enrolled, mailed>>

(* GetDocument and buildOfferPDF read the offer a second time.             *)
Build(x) ==
    /\ delivery[x].at = "document"
    /\ \/ delivery' = [delivery EXCEPT
                         ![x] = [@ EXCEPT !.at = "admit", !.paper = Terms(delivery[x].req.offer)]]
       \/ Close(x, "error")
    /\ UNCHANGED <<vars, document, enrolled, mailed>>

(* The service's own guard, on the offer that was read first.              *)
Admit(x) ==
    /\ delivery[x].at = "admit"
    /\ \/ ~delivery[x].approved /\ Close(x, "error")
       \/ delivery[x].approved /\ Proceed(x, "file")
    /\ UNCHANGED <<vars, document, enrolled, mailed>>

(* Store: a download ends here.                                            *)
File(x) ==
    /\ delivery[x].at = "file"
    /\ document' = [document EXCEPT ![delivery[x].req.offer] = delivery[x].paper]
    /\ IF delivery[x].req.op = "pdf" THEN Close(x, "ok") ELSE Proceed(x, "enrol")
    /\ UNCHANGED <<vars, enrolled, mailed>>

(* CreateDelivery.                                                         *)
Enrolled(x) == enrolled' = [enrolled EXCEPT ![x] = "pending"]

Enrol(x) ==
    /\ delivery[x].at = "enrol"
    /\ Enrolled(x)
    /\ Proceed(x, "mail")
    /\ UNCHANGED <<vars, document, mailed>>

(* The mail server takes the mail, or reports an error, be it after it     *)
(* took the mail; without a server there is an error at once.              *)
Mail(x) ==
    /\ delivery[x].at = "mail"
    /\ \/ /\ mailed' = [mailed EXCEPT ![x] = delivery[x].paper]
          /\ Proceed(x, "sent") \/ Proceed(x, "failed")
       \/ UNCHANGED mailed /\ Proceed(x, "failed")
    /\ UNCHANGED <<vars, document, enrolled>>

(* FinishDelivery.  The mutant writes "sent" whatever came of the mail.    *)
AlwaysSent(x) == "sent"
MailStatus(x) == delivery[x].at

Finish(x) ==
    /\ delivery[x].at \in {"sent", "failed"}
    /\ enrolled' = [enrolled EXCEPT ![x] = MailStatus(x)]
    /\ IF delivery[x].at = "sent" THEN Close(x, "ok")
       ELSE \E result \in {"error", "unavailable"} : Close(x, result)
    /\ UNCHANGED <<vars, document, mailed>>

(* A statement fails, or the request is cut short.                         *)
GiveUp(x) ==
    /\ delivery[x].at \notin {"idle", "done"}
    /\ Close(x, "lost")
    /\ UNCHANGED <<vars, document, enrolled, mailed>>

DeliveryStep(x) ==
    \/ \E r \in DeliveryRequests : ReadForDelivery(x, r)
    \/ Build(x) \/ Admit(x) \/ File(x) \/ Enrol(x) \/ Mail(x) \/ Finish(x) \/ GiveUp(x)

DeliveryNext ==
    \/ Next /\ UNCHANGED deliveryVars
    \/ \E x \in Deliveries : DeliveryStep(x)

DeliverySpec == DeliveryInit /\ [][DeliveryNext]_allVars
-----------------------------------------------------------------------------
(* Type invariant: offers, documents, deliveries and requests in flight.   *)
DeliveryTypeOK ==
    /\ TypeOK
    /\ document \in [OfferIds -> PossibleTerms \cup {None}]
    /\ enrolled \in [Deliveries -> MailStatuses \cup {None}]
    /\ mailed \in [Deliveries -> PossibleTerms \cup {None}]
    /\ delivery \in [Deliveries -> Delivery]

Sanctioned(o) ==
    \/ offers[o].discount <= ceiling[DealApartment[offers[o].deal]][Role[offers[o].creator]]
    \/ offers[o].approvedBy # None

(***************************************************************************)
(* What leaves the house was sanctioned and stays true: every document on  *)
(* file, and every mail that left, states the terms its offer has now, of  *)
(* an approved offer whose discount was within a limit or approved by a    *)
(* supervisor.  The approval is read statements before the mail, and the   *)
(* terms are read a second time in between.                                *)
(***************************************************************************)
OnlySanctionedTermsLeave ==
    \A o \in OfferIds :
        LET papers == {document[o]} \cup
                      {mailed[x] : x \in {y \in Deliveries : delivery[y].req # None
                                                             /\ delivery[y].req.offer = o}}
        IN  \A paper \in papers \ {None} :
              /\ o \in Rows /\ offers[o].status = "approved" /\ Sanctioned(o)
              /\ paper = Terms(o)

(***************************************************************************)
(* The log of deliveries and the mail server agree as far as they can: a   *)
(* delivery on record as sent was sent, a mail that left is on record,     *)
(* with the document on file, and a sender who was told so has a row that  *)
(* says sent.  A row left pending or failed proves nothing: the mail goes  *)
(* out between two statements.                                             *)
(***************************************************************************)
LogAgreesWithMail ==
    \A x \in Deliveries :
        /\ enrolled[x] = "sent" => mailed[x] # None
        /\ mailed[x] # None => enrolled[x] # None /\ document[delivery[x].req.offer] # None
        /\ delivery[x].told = "ok" /\ delivery[x].req.op = "send" => enrolled[x] = "sent"
=============================================================================
