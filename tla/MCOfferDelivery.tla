--------------------------- MODULE MCOfferDelivery --------------------------
(***************************************************************************)
(* A small instance of OfferDelivery: offers of a manager and a supervisor *)
(* for one deal, created in a race, approved or not, and sent or           *)
(* downloaded meanwhile.                                                   *)
(***************************************************************************)
EXTENDS OfferDelivery, TLC

CONSTANTS ana, boris, sofia, client, rival, deal1, deal2, flat, tower1

MCRole == [u \in Users |-> IF u = sofia THEN "supervisor"
                           ELSE IF u \in {client, rival} THEN "user" ELSE "manager"]
MCDealEmployee == [x \in Deals |-> IF x = deal1 THEN ana ELSE boris]
MCDealClient == [x \in Deals |-> client]
MCDealApartment == [x \in Deals |-> flat]
MCUnitBuilding == [u \in Units |-> tower1]

NoUnits == [parking |-> None, storage |-> None]

(* Races of creation: a manager and a supervisor, one deal, two keys; an   *)
(* offer may be submitted and approved.                                    *)
MCRequests ==
    [op : {"create"}, actor : {ana, sofia}, deal : {deal1}, key : RequestIds,
     discount : {600}, units : {NoUnits}]
    \cup [op : {"submit"}, actor : {ana}, offer : OfferIds]
    \cup [op : {"decide"}, actor : {sofia}, offer : OfferIds, approve : {TRUE}, reason : {FALSE}]

MCDeliveryRequests ==
    [op : {"send"}, actor : {ana}, offer : OfferIds]
    \cup [op : {"pdf"}, actor : {client, rival}, offer : OfferIds]

Symmetry == Permutations(Calls) \cup Permutations(OfferIds) \cup Permutations(RequestIds)
            \cup Permutations(Deliveries)
=============================================================================
