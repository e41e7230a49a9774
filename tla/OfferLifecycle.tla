--------------------------- MODULE OfferLifecycle ---------------------------
(***************************************************************************)
(* What the offers table promises its readers, without the calls that     *)
(* write it: an offer appears once per request key with the next version   *)
(* of its deal, is submitted at most once, receives at most one verdict    *)
(* from a supervisor, and keeps its commercial terms for ever.  Each step  *)
(* is atomic here; module Offers shows that the interleaved statements of  *)
(* backend/internal/service/offer.go and repository/offer.go implement it. *)
(***************************************************************************)
EXTENDS Integers

CONSTANTS
    OfferIds,      \* primary keys
    Supervisors,   \* users whose verdict counts
    OfferRow,      \* the rows a table may hold
    None           \* no row, no user

VARIABLE offers    \* offers[id]: the row, or None

Rows == {id \in OfferIds : offers[id] # None}

VersionsOf(d) == {offers[id].version : id \in {i \in Rows : offers[i].deal = d}}

Init == offers = [id \in OfferIds |-> None]

(***************************************************************************)
(* A new offer: its key is fresh, its version follows the deal's largest,  *)
(* and it is born approved exactly when it needs no approval.  The row is  *)
(* whatever the step puts at id, so no set of rows has to be enumerated.   *)
(***************************************************************************)
Publish(id) ==
    LET row == offers'[id] IN
    /\ offers[id] = None
    /\ row \in OfferRow
    /\ \A i \in Rows : offers[i].request # row.request
    /\ \A v \in VersionsOf(row.deal) : v < row.version
    /\ row.version = 1 \/ row.version - 1 \in VersionsOf(row.deal)
    /\ row.status = IF row.approvalRequired THEN "draft" ELSE "approved"
    /\ row.approvedBy = None /\ row.rejectedBy = None
    /\ offers' = [offers EXCEPT ![id] = row]

Submit(id) ==
    /\ offers[id] # None
    /\ offers[id].status = "draft"
    /\ offers[id].approvalRequired
    /\ offers' = [offers EXCEPT ![id].status = "pending_approval"]

Approve(id, s) ==
    /\ offers[id] # None
    /\ offers[id].status = "pending_approval"
    /\ offers' = [offers EXCEPT ![id] = [@ EXCEPT !.status = "approved", !.approvedBy = s]]

Reject(id, s) ==
    /\ offers[id] # None
    /\ offers[id].status = "pending_approval"
    /\ offers' = [offers EXCEPT ![id] = [@ EXCEPT !.status = "rejected", !.rejectedBy = s]]

Next ==
    \E id \in OfferIds :
        \/ Publish(id)
        \/ Submit(id)
        \/ \E s \in Supervisors : Approve(id, s) \/ Reject(id, s)

Spec == Init /\ [][Next]_offers
=============================================================================
