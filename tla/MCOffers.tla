------------------------------ MODULE MCOffers ------------------------------
(***************************************************************************)
(* A small instance of Offers: managers and supervisors serve two deals on *)
(* one apartment.  Two scenarios are explored side by side: four calls on  *)
(* an apartment of which only the policies change, and one call while all  *)
(* of the catalogue changes.                                               *)
(***************************************************************************)
EXTENDS Offers, FiniteSets, TLC

CONSTANTS ana, boris,      \* managers
          sofia, timur,    \* supervisors
          deal1, deal2,
          flat, tower1, tower2,
          spot             \* an ancillary unit

MCRole == [u \in Users |-> IF u \in {sofia, timur} THEN "supervisor" ELSE "manager"]
MCDealEmployee == [x \in Deals |-> IF x = deal1 THEN ana ELSE boris]
MCDealApartment == [x \in Deals |-> flat]
MCUnitBuilding == [u \in Units |-> tower1]

(* One price that the price check must refuse, and one that is too much    *)
(* with the unit's.                                                        *)
SignedPrices == {-1, 4, 20000}

NoUnits == [parking |-> None, storage |-> None]

Creates(actors, deals, discounts, choices) ==
    [op : {"create"}, actor : actors, deal : deals, key : RequestIds,
     discount : discounts, units : choices]

(* One offer, two submissions, contradicting verdicts of two supervisors,  *)
(* and requests the code refuses, each for a reason of its own.            *)
VerdictRequests ==
    Creates({ana}, {deal1}, {350}, {NoUnits})
    \cup [op : {"submit"}, actor : {ana, boris}, offer : OfferIds]
    \cup {[op |-> "decide", actor |-> u, offer |-> o, approve |-> u = sofia, reason |-> u = timur] :
             u \in {sofia, timur}, o \in OfferIds}

(* An author with a discount between two policies and a choice of units,   *)
(* while the catalogue changes; a percentage that does not parse; calls    *)
(* that are refused whatever the tables hold.                              *)
CatalogueRequests ==
    Creates({ana}, {deal1}, {550}, {[NoUnits EXCEPT !.parking = spot],
                                    [NoUnits EXCEPT !.storage = spot]})
    \cup Creates({sofia}, {deal1}, {400, 10001}, {NoUnits})
    \cup Creates({boris}, {deal1}, {200}, {NoUnits})
    \cup [op : {"decide"}, actor : {ana}, offer : OfferIds, approve : {TRUE}, reason : {FALSE}]
    \cup [op : {"decide"}, actor : {sofia}, offer : OfferIds, approve : {FALSE}, reason : {FALSE}]

MCRequests == VerdictRequests \cup CatalogueRequests

(* The catalogue as it stands while several calls are made, but for the    *)
(* policies of tower1.                                                     *)
Quiet ==
    /\ \A r \in StaffRoles : limit[tower2][r] = None
    /\ apartment[flat] = [price |-> 4, building |-> tower1]
    /\ unit[spot] = [kind |-> "parking", price |-> 90000, status |-> "free"]

(* The state constraint: one scenario or the other.                        *)
Scenarios ==
    LET made == {c \in Calls : pc[c] # "idle"} IN
    \/ Quiet /\ \A c \in made : req[c] \in VerdictRequests
    \/ Cardinality(made) <= 1 /\ \A c \in made : req[c] \in CatalogueRequests

Symmetry == Permutations(Calls) \cup Permutations(OfferIds) \cup Permutations(RequestIds)
=============================================================================
